SPECIFICATION Spec
CONSTANTS
  a = a
  b = b
  p = p
  q = q
  NoRow = NoRow
  NoTx = NoTx
  Ids = {a, b}
  Projects = {p, q}
  TicketFolders = {p}
  Threads = {t1, t2}
  Requests <- MCRequests
  Numbers = {1}
  MaxRequests = 4
  MaxRestarts = 1
SYMMETRY Perms
INVARIANTS TypeOK NoOrphans NothingUncommittedAtRest NothingLeftBehind TimelineTold BoardsTold
PROPERTY TicketedStays
CHECK_DEADLOCK FALSE

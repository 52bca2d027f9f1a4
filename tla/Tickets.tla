------------------------------- MODULE Tickets -------------------------------
(***************************************************************************)
(* The cache of JIRA tickets in the tasks table (common/tickets.py,        *)
(* services/jira_sync.py, the ticket methods of eva_db.py).  A sync takes  *)
(* the instances in order: it searches the instance's queue (its JQL),     *)
(* puts what it finds into the table, and asks again for the cached        *)
(* tickets that are no longer found, at most Cap of them per tick.  The    *)
(* user tracks tickets outside the queue, which pins them, links tasks to  *)
(* tickets, and detaches and deletes their rows, while a sync runs.        *)
(***************************************************************************)
EXTENDS Integers, Sequences, FiniteSets, SequencesExt

CONSTANTS
  Keys,        \* JIRA keys, 1 .. n: a sync takes them in order
  Instances,   \* the configured instances, a sequence
  Home,        \* [Keys -> the instance that may know the key]
  Healthy,     \* the instances that answer again and again
  HandMade,    \* ids of tasks the user made
  Twins,       \* last suffix of a ticket's row: key, key-jira, key-jira2, ...
  Syncers,     \* threads that sync: the scheduler's, and POST /tickets/sync
  Users,       \* request threads that track a ticket
  Cap,         \* MAX_DISAPPEARED_REFETCH
  None,        \* no row, no key, no instance
  MaxChanges,  \* bound on the changes made in JIRA
  MaxActs      \* bound on what the users do

ASSUME KeysAssumption   == Keys \subseteq Nat /\ IsFiniteSet(Keys) /\ Keys # {} /\ None \notin Keys
ASSUME HomeAssumption   == /\ Instances \in Seq(ToSet(Instances))
                           /\ Home \in [Keys -> ToSet(Instances)]
ASSUME NamesAssumption  == HandMade \cap (Keys \X (0 .. Twins)) = {}
ASSUME BoundsAssumption == /\ Twins \in Nat /\ Cap \in Nat \ {0}
                           /\ MaxChanges \in Nat /\ MaxActs \in Nat

VARIABLES
  rows,     \* [Ids -> Row \cup {None}]: the tasks table
  jira,     \* [Keys -> Issue]: what the home instance of a key says
  sync,     \* [Syncers -> Sync]
  tracking, \* [Users -> Track]
  changes,  \* how often JIRA changed
  acts,     \* how often the users acted
  linked,   \* history: keys that a task was linked to by hand
  raced     \* history: keys two threads upserted at once, or pinned during a refresh

vars == <<rows, jira, sync, tracking, changes, acts, linked, raced>>

Ids   == HandMade \cup (Keys \X (0 .. Twins))
(* `ver`: the tracked fields of the issue; `left`: left_jql_at is set.     *)
Row   == [key : Keys \cup {None}, inst : ToSet(Instances) \cup {None},
          synced : BOOLEAN, pinned : BOOLEAN, left : BOOLEAN, ver : 0 .. MaxChanges]
Plain == [key |-> None, inst |-> None, synced |-> FALSE, pinned |-> FALSE,
          left |-> FALSE, ver |-> 0]
(* An issue may be in the queue, known outside it, or deleted.             *)
Issue == [state : {"mine", "elsewhere", "gone"}, ver : 0 .. MaxChanges]
(* An upsert of `key`: the statement it is about to run, on the row `id`.  *)
Looks  == {"look", "shell", "name"}
Writes == {"update", "insert"}
Upsert == {w \in [how : Looks \cup Writes, id : Ids, key : Keys, inst : ToSet(Instances),
                  ver : 0 .. MaxChanges, left : {"keep", "set", "clear"}] :
             w.how \in Looks => \E n \in 0 .. Twins : w.id = <<w.key, n>>}
NoUpsert == [how |-> "none"]
(* `at`: the instance; `found`: the issues to write; `again`: the keys to  *)
(* ask again, smallest first, and `pins`: those of them read as pinned.    *)
Sync  == [pc : {"idle", "found", "asked"}, at : DOMAIN Instances,
          found : SUBSET Keys, ver : [Keys -> 0 .. MaxChanges], before : SUBSET Keys,
          returned : SUBSET Keys, again : SUBSET Keys, pins : SUBSET Keys,
          write : Upsert \cup {NoUpsert}]
Track == [pc : {"idle", "ask", "write", "pin"}, key : Keys \cup {None},
          write : Upsert \cup {NoUpsert}]
Rest  == [pc |-> "idle", at |-> 1, found |-> {}, ver |-> [k \in Keys |-> 0], before |-> {},
          returned |-> {}, again |-> {}, pins |-> {}, write |-> NoUpsert]
NoTrack == [pc |-> "idle", key |-> None, write |-> NoUpsert]

TypeOK ==
  /\ rows \in [Ids -> Row \cup {None}] /\ jira \in [Keys -> Issue]
  /\ sync \in [Syncers -> Sync] /\ (\A s \in Syncers : Cardinality(sync[s].again) <= Cap)
  /\ tracking \in [Users -> Track]
  /\ changes \in 0 .. MaxChanges /\ acts \in 0 .. MaxActs
  /\ linked \subseteq Keys /\ raced \subseteq Keys

Init ==
  /\ rows = [i \in Ids |-> IF i \in HandMade THEN Plain ELSE None]
  /\ jira \in [Keys -> [state : {"mine", "elsewhere"}, ver : {0}]]
  /\ sync = [s \in Syncers |-> Rest] /\ tracking = [u \in Users |-> NoTrack]
  /\ changes = 0 /\ acts = 0 /\ linked = {} /\ raced = {}

-----------------------------------------------------------------------------
(* The table.                                                              *)
Existing        == {i \in Ids : rows[i] # None}
RowsOf(k)       == {i \in Existing : rows[i].key = k}
GetTicket(k, i) == {r \in RowsOf(k) : rows[r].inst = i}
KeysFor(i)      == {k \in Keys : \E r \in GetTicket(k, i) : rows[r].synced}

(* upsert_ticket.  Every statement takes the connection's lock by itself,  *)
(* so other threads run between them.  It looks for a row with the key,    *)
(* then for a row named after the key and detached, then for a free name.  *)
Start(k, i, ver, left) ==
  [how |-> "look", id |-> <<k, 0>>, key |-> k, inst |-> i, ver |-> ver, left |-> left]
Going(w, how, n) == [w EXCEPT !.how = how, !.id = <<w.key, n>>]
LookByName(w) == {Going(w, "shell", 0)}   \* mutant: the lookup by ticket_id is missing
LookByKey(w) ==
  IF RowsOf(w.key) = {} THEN {Going(w, "shell", 0)}
  ELSE {[w EXCEPT !.how = "update", !.id = r] : r \in RowsOf(w.key)}
LookForShell(w) ==
  IF w.id \in Existing /\ rows[w.id].key = None THEN {[w EXCEPT !.how = "update"]}
  ELSE IF w.id = <<w.key, 0>> /\ Twins > 0 THEN {Going(w, "shell", 1)}
  ELSE {Going(w, "name", 0)}
LookForName(w) ==
  IF w.id \notin Existing THEN {[w EXCEPT !.how = "insert"]}
  ELSE IF w.id[2] < Twins THEN {Going(w, "name", w.id[2] + 1)} ELSE {NoUpsert}
Seen(w) ==
  CASE w.how = "look"  -> LookByKey(w)
    [] w.how = "shell" -> LookForShell(w)
    [] w.how = "name"  -> LookForName(w)

(* Then it writes.  A row that is gone is not written, a name that is      *)
(* taken raises, and the caller passes over the ticket.                    *)
Filled(w, row) ==
  [row EXCEPT !.key = w.key, !.inst = w.inst, !.synced = TRUE, !.ver = w.ver,
              !.left = IF w.left = "keep" THEN @ ELSE w.left = "set"]
Raises(w) == w.how = "insert" /\ rows[w.id] # None
Written(w) ==
  IF w.how = "update" /\ rows[w.id] # None THEN [rows EXCEPT ![w.id] = Filled(w, @)]
  ELSE IF w.how = "insert" /\ rows[w.id] = None THEN [rows EXCEPT ![w.id] = Filled(w, Plain)]
  ELSE rows
(* delete_ticket takes every row of the key, the linked tasks too.         *)
Detached(k) ==
  [i \in Ids |-> IF i \in RowsOf(k)
                 THEN [rows[i] EXCEPT !.key = None, !.inst = None, !.synced = FALSE]
                 ELSE rows[i]]
Least(S) == CHOOSE n \in S : \A m \in S : n <= m
(* Keys that another thread is upserting at the moment.                    *)
InHand == {sync[s].write.key : s \in {t \in Syncers : sync[t].write # NoUpsert}}
            \cup {tracking[u].write.key : u \in {v \in Users : tracking[v].pc = "write"}}
Meet(k) == raced' = IF k \in InHand THEN raced \cup {k} ELSE raced

-----------------------------------------------------------------------------
Busy(s, pc)  == sync[s].pc = pc
Instance(s)  == Instances[sync[s].at]
Same         == UNCHANGED <<jira, changes, acts, linked>>

(* sync_all: the next instance, whatever became of this one.               *)
NextInstance(s) ==
  sync' = [sync EXCEPT ![s] = [Rest EXCEPT !.at =
             IF sync[s].at < Len(Instances) THEN sync[s].at + 1 ELSE 1]]

(* sync_one's first reads: the cached keys, then the search.               *)
SearchFails(s) ==
  /\ Busy(s, "idle") /\ NextInstance(s) /\ UNCHANGED <<rows, tracking, raced>> /\ Same
Queue(i) == {k \in Keys : Home[k] = i /\ jira[k].state = "mine"}
SearchAnswers(s) ==
  /\ Busy(s, "idle")
  /\ sync' = [sync EXCEPT ![s] =
       [Rest EXCEPT !.at = sync[s].at, !.pc = "found", !.before = KeysFor(Instance(s)),
          !.found = Queue(Instance(s)),
          !.ver = [k \in Keys |-> IF k \in Queue(Instance(s)) THEN jira[k].ver ELSE 0]]]
  /\ UNCHANGED <<rows, tracking, raced>> /\ Same

(* One issue of the queue: take it, look for its row, then write it.       *)
Taken(s, k, w) == sync' = [sync EXCEPT ![s].found = @ \ {k}, ![s].ver = [@ EXCEPT ![k] = 0],
                                       ![s].write = w]
TakeIssue(s) ==
  LET k == Least(sync[s].found) IN
  /\ Busy(s, "found") /\ sync[s].write = NoUpsert /\ sync[s].found # {}
  /\ Taken(s, k, Start(k, Instance(s), sync[s].ver[k], "clear"))
  /\ Meet(k) /\ UNCHANGED <<rows, tracking>> /\ Same
SyncLooks(s) ==
  /\ sync[s].write.how \in Looks
  /\ \E w \in Seen(sync[s].write) : sync' = [sync EXCEPT ![s].write = w]
  /\ UNCHANGED <<rows, tracking, raced>> /\ Same
WriteIssue(s) ==
  LET w == sync[s].write IN
  /\ Busy(s, "found") /\ w.how \in Writes
  /\ rows' = Written(w)
  /\ sync' = [sync EXCEPT ![s].write = NoUpsert, ![s].returned = IF Raises(w) THEN @ ELSE @ \cup {w.key}]
  /\ UNCHANGED <<tracking, raced>> /\ Same

(* _sync_disappeared: those badged before are not asked again, unless they *)
(* are pinned; then the first Cap of the rest.                             *)
KeepsAsking(r)   == rows[r].pinned \/ ~rows[r].left
Disappeared(s) == {k \in sync[s].before \ sync[s].returned :
                     GetTicket(k, Instance(s)) # {}}
FirstOfAll(S)  == S   \* mutant: no cap on what a tick asks again
FirstOf(S)     == {k \in S : Cardinality({j \in S : j < k}) < Cap}
RowFor(s, k)   == CHOOSE r \in GetTicket(k, Instance(s)) : TRUE
ToAskCapFirst(s) ==   \* mutant: the cap comes before the filter
  {k \in FirstOf(Disappeared(s)) : KeepsAsking(RowFor(s, k))}
ToAsk(s) == FirstOf({k \in Disappeared(s) : KeepsAsking(RowFor(s, k))})
Filter(s) ==
  /\ Busy(s, "found") /\ sync[s].write = NoUpsert /\ sync[s].found = {}
  /\ sync' = [sync EXCEPT ![s] = [Rest EXCEPT !.at = sync[s].at, !.pc = "asked",
       !.again = ToAsk(s), !.pins = {k \in ToAsk(s) : rows[RowFor(s, k)].pinned}]]
  /\ UNCHANGED <<rows, tracking, raced>> /\ Same

Asking(s) == Busy(s, "asked") /\ sync[s].write = NoUpsert /\ sync[s].again # {}
Asked(s)  == Least(sync[s].again)
Answered(s, w) == sync' = [sync EXCEPT ![s].again = @ \ {Asked(s)}, ![s].pins = @ \ {Asked(s)},
                                       ![s].write = w]
(* A RuntimeError passes over the ticket; anything else (a timeout while   *)
(* reading, a body that is no JSON) ends the instance's sync.              *)
FetchFails(s) ==
  /\ Asking(s) /\ Answered(s, NoUpsert)
  /\ UNCHANGED <<rows, tracking, raced>> /\ Same
FetchBreaks(s) ==
  /\ Asking(s) /\ NextInstance(s) /\ UNCHANGED <<rows, tracking, raced>> /\ Same
FetchFindsNone(s) ==
  /\ Asking(s) /\ jira[Asked(s)].state = "gone"
  /\ rows' = Detached(Asked(s)) /\ Answered(s, NoUpsert) /\ Meet(Asked(s))
  /\ UNCHANGED tracking /\ Same
BadgeAll(pinned) == "set"   \* mutant: pinned tickets are badged
BadgeFor(pinned) == IF pinned THEN "keep" ELSE "set"
FetchFinds(s) ==
  LET k == Asked(s) IN
  /\ Asking(s) /\ jira[k].state # "gone"
  /\ Answered(s, Start(k, Instance(s), jira[k].ver, BadgeFor(k \in sync[s].pins)))
  /\ Meet(k) /\ UNCHANGED <<rows, tracking>> /\ Same
WriteLeft(s) ==
  /\ Busy(s, "asked") /\ sync[s].write.how \in Writes
  /\ rows' = Written(sync[s].write)
  /\ sync' = [sync EXCEPT ![s].write = NoUpsert]
  /\ UNCHANGED <<tracking, raced>> /\ Same
Done(s) ==
  /\ Busy(s, "asked") /\ sync[s].write = NoUpsert /\ sync[s].again = {}
  /\ NextInstance(s) /\ UNCHANGED <<rows, tracking, raced>> /\ Same

-----------------------------------------------------------------------------
Acts == acts < MaxActs /\ acts' = acts + 1

(* track: no instance's cache has the key (only the home instance writes   *)
(* rows of it, so the reads of the others find nothing whenever they run). *)
(* Then the instances are asked: one knows the key, or all fail or do not. *)
TrackTicket(u, k) ==
  /\ tracking[u].pc = "idle" /\ Acts
  /\ \A n \in DOMAIN Instances : GetTicket(k, Instances[n]) = {}
  /\ tracking' = [tracking EXCEPT ![u] = [NoTrack EXCEPT !.pc = "ask", !.key = k]]
  /\ UNCHANGED <<rows, jira, sync, changes, linked, raced>>
TrackAsks(u) ==
  LET k == tracking[u].key IN
  /\ tracking[u].pc = "ask" /\ jira[k].state # "gone"
  /\ tracking' = [tracking EXCEPT ![u].pc = "write",
                                  ![u].write = Start(k, Home[k], jira[k].ver, "keep")]
  /\ Meet(k) /\ UNCHANGED <<rows, sync>> /\ Same
TrackFindsNone(u) ==
  /\ tracking[u].pc = "ask" /\ tracking' = [tracking EXCEPT ![u] = NoTrack]
  /\ UNCHANGED <<rows, sync, raced>> /\ Same
(* The row is written, then pinned.                                        *)
TrackLooks(u) ==
  /\ tracking[u].pc = "write" /\ tracking[u].write.how \in Looks
  /\ \E w \in Seen(tracking[u].write) :
       tracking' = [tracking EXCEPT ![u] = IF w = NoUpsert THEN NoTrack ELSE [@ EXCEPT !.write = w]]
  /\ UNCHANGED <<rows, sync, raced>> /\ Same
TrackWrites(u) ==
  LET w == tracking[u].write IN
  /\ tracking[u].pc = "write" /\ w.how \in Writes
  /\ IF Raises(w)
     THEN tracking' = [tracking EXCEPT ![u] = NoTrack]
     ELSE tracking' = [tracking EXCEPT ![u].pc = "pin"]
  /\ rows' = Written(w)
  /\ UNCHANGED <<sync, raced>> /\ Same
TrackPins(u) ==
  LET w == tracking[u].write IN
  /\ tracking[u].pc = "pin"
  /\ rows' = [i \in Ids |-> IF i \in GetTicket(w.key, w.inst)
                            THEN [rows[i] EXCEPT !.pinned = TRUE] ELSE rows[i]]
  /\ tracking' = [tracking EXCEPT ![u] = NoTrack]
  /\ raced' = IF \E s \in Syncers : \/ w.key \in sync[s].again
                                     \/ (sync[s].write # NoUpsert /\ sync[s].write.key = w.key)
              THEN raced \cup {w.key} ELSE raced
  /\ UNCHANGED sync /\ Same

(* PUT and DELETE of a task: ticket_id and ticket_url are all they touch.  *)
Link(i, k) ==
  /\ Acts /\ i \in HandMade \cap Existing /\ rows[i].key = None
  /\ rows' = [rows EXCEPT ![i].key = k] /\ linked' = linked \cup {k}
  /\ UNCHANGED <<jira, sync, tracking, changes, raced>>
Unlink(i) ==
  /\ Acts /\ i \in Existing /\ rows[i].key # None
  /\ rows' = [rows EXCEPT ![i].key = None]
  /\ UNCHANGED <<jira, sync, tracking, changes, linked, raced>>
DeleteTask(i) ==
  /\ Acts /\ i \in Existing /\ rows[i].key = None
  /\ rows' = [rows EXCEPT ![i] = None]
  /\ UNCHANGED <<jira, sync, tracking, changes, linked, raced>>

(* Somebody edits, reassigns, returns or deletes an issue in JIRA.         *)
Change(k) ==
  /\ changes < MaxChanges /\ jira[k].state # "gone"
  /\ \E st \in {"mine", "elsewhere", "gone"} :
       jira' = [jira EXCEPT ![k] = [state |-> st, ver |-> changes + 1]]
  /\ changes' = changes + 1
  /\ UNCHANGED <<rows, sync, tracking, acts, linked, raced>>

SyncStep(s) ==
  \/ SearchFails(s) \/ SearchAnswers(s) \/ TakeIssue(s) \/ SyncLooks(s) \/ WriteIssue(s)
  \/ Filter(s) \/ FetchFails(s) \/ FetchBreaks(s) \/ FetchFindsNone(s) \/ FetchFinds(s)
  \/ WriteLeft(s) \/ Done(s)
UserStep ==
  \/ \E u \in Users : \/ TrackAsks(u) \/ TrackFindsNone(u) \/ TrackLooks(u)
                       \/ TrackWrites(u) \/ TrackPins(u) \/ (\E k \in Keys : TrackTicket(u, k))
  \/ \E i \in Ids : Unlink(i) \/ DeleteTask(i) \/ (\E k \in Keys : Link(i, k))
Next == UserStep \/ (\E s \in Syncers : SyncStep(s)) \/ (\E k \in Keys : Change(k))

HealthyAt == {n \in DOMAIN Instances : Instances[n] \in Healthy}
FetchAnswers(s, k) ==
  /\ Asking(s) /\ Asked(s) = k /\ (FetchFinds(s) \/ FetchFindsNone(s))
(* The scheduler runs a sync again and again; an instance may fail, a      *)
(* healthy one answers in the end.                                         *)
Fairness ==
  /\ \A s \in Syncers : WF_vars(SyncStep(s))
  /\ \A s \in Syncers, n \in HealthyAt :
       /\ SF_vars(sync[s].at = n /\ SearchAnswers(s))
       /\ \A k \in Keys : SF_vars(sync[s].at = n /\ FetchAnswers(s, k))
Spec == Init /\ [][Next]_vars /\ Fairness

-----------------------------------------------------------------------------
(* A ticket has one row, whatever detaches, tracks and syncs there were    *)
(* (upsert_ticket looks for the ticket and for its detached rows before it *)
(* inserts).  A task linked to it by hand is a second one; and two upserts *)
(* of it whose statements interleave may both find no row.                 *)
TicketOnce == \A k \in Keys \ (linked \cup raced) : Cardinality(RowsOf(k)) <= 1

(* "Pinned tickets are refreshed but never badged" (tickets.py:554): a     *)
(* sync does not mark a pinned ticket as having left the queue, unless it  *)
(* was pinned between the sync's read of the row and its write, or a task  *)
(* linked by hand stands beside it (get_ticket returns one of the two).    *)
PinnedNeverBadged ==
  [][\A i \in Existing :
       rows[i].pinned /\ rows[i].key \notin linked \cup raced \cup {None} /\ ~rows[i].left
         => rows'[i] = None \/ ~rows'[i].left]_vars

(* Once JIRA and the users rest, the cache of a healthy instance follows   *)
(* it, whatever the others do: a ticket of the queue is cached in its last *)
(* version and without a badge, one that left is badged, a deleted one is  *)
(* badged or detached.  Outside the queue, pinned tickets and those with a *)
(* second, unbadged row (of a task linked by hand) are asked for on every  *)
(* tick and may fill Cap.                                                  *)
AlwaysAsked(i) == {k \in Keys : /\ jira[k].state # "mine"
                                /\ \/ k \in linked \cup raced
                                   \/ \E r \in GetTicket(k, i) : rows[r].pinned}
Mirrored(k) ==
  LET i == Home[k] IN
  /\ jira[k].state = "mine" =>
       \E r \in GetTicket(k, i) : rows[r].ver = jira[k].ver /\ ~rows[r].left
  /\ jira[k].state # "mine" /\ Cardinality(AlwaysAsked(i)) < Cap =>
       \A r \in GetTicket(k, i) :
         rows[r].synced => rows[r].left \/ (rows[r].pinned /\ jira[k].state = "elsewhere")
QueueMirrored ==
  <>[](\A k \in Keys : Home[k] \in Healthy /\ k \notin linked \cup raced => Mirrored(k))
=============================================================================

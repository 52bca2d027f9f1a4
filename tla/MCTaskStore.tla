----------------------------- MODULE MCTaskStore -----------------------------
EXTENDS TaskStore
CONSTANTS a, b, p, q

Set(status)  == [status |-> status, ticket |-> "keep", setDeps |-> FALSE, deps |-> {}]
Ticket(how)  == [Set(NoStatus) EXCEPT !.ticket = how]
Deps(on)     == [Set(NoStatus) EXCEPT !.setDeps = TRUE, !.deps = on]
MCRequests ==
  {[kind |-> "create", id |-> a, deps |-> {}, project |-> p, status |-> "not_started"],
   [kind |-> "create", id |-> b, deps |-> {a}, project |-> p, status |-> "done"],
   [kind |-> "smart", id |-> a, deps |-> {b}, project |-> q, status |-> "in_progress",
    ticket |-> TRUE, notes |-> TRUE]}
    \cup [kind : {"update"}, id : {a}, change : {Set("done"), Ticket("set"), Deps({b})}]
    \cup [kind : {"check"}, id : {a}, change : {Set(NoStatus)}]
    \cup [kind : {"delete"}, id : Ids]
    \cup [kind : {"note", "open"}, id : {a}]
    \cup {[kind |-> "rename", id |-> a, to |-> b], [kind |-> "move", id |-> a, to |-> q],
          [kind |-> "depend", id |-> b, on |-> a], [kind |-> "undepend", id |-> b, on |-> a],
          [kind |-> "pr", id |-> a, number |-> 1, status |-> "merged"]}

Perms == Permutations(Threads)
=============================================================================

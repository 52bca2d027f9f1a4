------------------------------ MODULE TaskStore ------------------------------
(***************************************************************************)
(* The tasks of the server (common/tasks.py over eva_db.py): requests run  *)
(* in threads that share one sqlite connection.  The connection is locked  *)
(* for one statement, or for one `with` block, at a time, and there is one *)
(* transaction for all threads: a thread's commit makes durable, and its   *)
(* rollback takes back, whatever the others have executed and not yet      *)
(* committed.  A request is a plan of such statements, decided from what   *)
(* it read when it began.                                                  *)
(***************************************************************************)
EXTENDS TaskRules, Sequences, SequencesExt

CONSTANTS
  Ids,          \* task ids
  Projects,     \* folders of tasks
  Threads,      \* request threads of the server
  Requests,     \* the requests that clients make
  Numbers,      \* pull request numbers
  TicketFolders, \* the projects with has_tickets set
  NoRow,        \* no row of that id
  NoTx,         \* no transaction is open
  MaxRequests,  \* bound on the requests made
  MaxRestarts   \* bound on the restarts of the server

(* What PUT changes of a row: NoStatus, "keep" and ~setDeps leave it alone. *)
Change  == [status : Statuses \cup {NoStatus}, ticket : {"keep", "set", "clear"},
            setDeps : BOOLEAN, deps : SUBSET Ids]
Request == [kind : {"create"}, id : Ids, deps : SUBSET Ids, project : Projects, status : Statuses]
             \cup [kind : {"smart"}, id : Ids, deps : SUBSET Ids, project : Projects,
                   status : Statuses, ticket : BOOLEAN, notes : BOOLEAN]
             \cup [kind : {"update", "check"}, id : Ids, change : Change]
             \cup [kind : {"delete", "note", "open"}, id : Ids]
             \cup [kind : {"rename"}, id : Ids, to : Ids]
             \cup [kind : {"move"}, id : Ids, to : Projects]
             \cup [kind : {"depend", "undepend"}, id : Ids, on : Ids]
             \cup [kind : {"pr"}, id : Ids, number : Numbers, status : PrStatuses]

ASSUME RequestsAssumption == Requests \subseteq Request /\ Requests # {}
ASSUME IdsAssumption      == IsFiniteSet(Ids)
ASSUME FoldersAssumption  == Projects # {} /\ TicketFolders \subseteq Projects
ASSUME BoundsAssumption   == MaxRequests \in Nat /\ MaxRestarts \in Nat

VARIABLES
  db,        \* the tables as the connection sees them
  undo,      \* the tables before the open transaction, or NoTx
  fk,        \* PRAGMA foreign_keys of the connection
  thread,    \* [Threads -> Worker]
  asked,     \* how many requests there were
  restarts,  \* how often the server restarted
  stale,     \* the boards have changed since the last task.* event
  births,    \* history: how many rows there were, which tells rows of one id apart
  contested, \* history: ids that two requests had in hand at once
  silent,    \* history: since the last event a path without an event wrote
  renamed,   \* history: ids that a task was renamed from, or to
  undone,    \* history: a rollback took back what other threads had executed
  detected   \* history: ids whose status check_status wrote

ghosts == <<births, contested, silent, renamed, undone, detected>>
vars   == <<db, undo, fk, thread, asked, restarts, stale, ghosts>>

(* `born`, `first`: history, the row's number and the status it began with. *)
Row     == [project : Projects, status : Statuses, ticket : BOOLEAN, born : Nat, first : Statuses]
PrRow   == [task : Ids, number : Numbers, status : PrStatuses]
Entry   == [born : Nat, to : Statuses \cup {NoStatus}]
Tables  == [row : [Ids -> Row \cup {NoRow}], deps : SUBSET (Ids \X Ids),
            prs : SUBSET PrRow, history : [Ids -> Seq(Entry)], session : SUBSET Ids]
ASSUME NullsAssumption == NoRow \notin Row /\ NoTx \notin Tables
Empty   == [row |-> [i \in Ids |-> NoRow], deps |-> {}, prs |-> {},
            history |-> [i \in Ids |-> <<>>], session |-> {}]

(* `snap`, `deps`: the row and its dependencies as the request read them;  *)
(* `found`: a save found its row; `to`: the status to put on the timeline; *)
(* `todo`: a smart create's rest.                                          *)
Steps  == {"insert", "commit", "setdeps", "emit", "look", "save", "savedeps", "result", "note",
           "drop", "dropHistory", "dropSession", "newSession", "rename", "session", "move",
           "depend", "undepend", "pr", "touch", "seek", "suggest", "promote", "record", "open"}
NoSnap == [project |-> CHOOSE p \in Projects : TRUE, status |-> "not_started",
           ticket |-> FALSE, born |-> 0, first |-> "not_started"]
Idle   == [req |-> CHOOSE r \in Requests : TRUE, plan |-> <<>>, snap |-> NoSnap,
           deps |-> {}, found |-> FALSE, to |-> NoStatus, todo |-> <<>>]
Worker == [req : Request, plan : Seq(Steps), snap : Row, deps : SUBSET Ids, found : BOOLEAN,
           to : Statuses \cup {NoStatus}, todo : Seq(Request)]

TypeOK ==
  /\ db \in Tables /\ undo \in Tables \cup {NoTx} /\ fk \in BOOLEAN
  /\ thread \in [Threads -> Worker]
  /\ asked \in 0 .. MaxRequests /\ restarts \in 0 .. MaxRestarts /\ stale \in BOOLEAN
  /\ births \in Nat /\ contested \subseteq Ids /\ silent \in BOOLEAN
  /\ renamed \subseteq Ids /\ undone \in BOOLEAN /\ detected \subseteq Ids

Init ==
  /\ db = Empty /\ undo = NoTx /\ fk = TRUE
  /\ thread = [t \in Threads |-> Idle]
  /\ asked = 0 /\ restarts = 0 /\ stale = FALSE
  /\ births = 0 /\ contested = {} /\ silent = FALSE /\ renamed = {} /\ undone = FALSE /\ detected = {}

-----------------------------------------------------------------------------
(* The connection.  Python opens a transaction before the first statement  *)
(* that writes, even one that then fails.                                  *)
Exists(id)     == db.row[id] # NoRow
Existing       == {i \in Ids : Exists(i)}
Before         == IF undo = NoTx THEN db ELSE undo
Execute(new)   == db' = new /\ undo' = Before
ExecuteFails   == db' = db /\ undo' = Before
Commit         == db' = db /\ undo' = NoTx
WithBlockOpen(new) == Execute(new)             \* mutant: the block does not commit
WithBlock(new) == db' = new /\ undo' = NoTx
Rollback       == db' = Before /\ undo' = NoTx /\ undone' = (undone \/ undo \notin {NoTx, db})
Unchanged      == UNCHANGED <<db, undo>>

(* The tables that decide what a board shows.                              *)
Board(tables)  == <<tables.row, tables.deps>>
Boards         == stale' = (stale \/ Board(db') # Board(db))

KeepsUnchecked(id) == TRUE                     \* mutant: the PRAGMA is missing
Keeps(id)       == ~fk \/ Exists(id)           \* the foreign key of a child row holds
InsertRow(id, row) == [db EXCEPT !.row[id] = row]
SetDeps(id, on)    == [db EXCEPT !.deps = {e \in @ : e[1] # id} \cup ({id} \X on)]
Cascades(id)       == fk /\ Exists(id)
DeleteRow(id) ==
  [db EXCEPT !.row[id] = NoRow,
             !.deps = IF Cascades(id) THEN {e \in @ : e[1] # id} ELSE @,
             !.prs  = IF Cascades(id) THEN {p \in @ : p.task # id} ELSE @]
DeleteHistoryKept(id) == db                    \* mutant: left to the cascade
DeleteHistory(id) == [db EXCEPT !.history[id] = <<>>]
Renamed(i, from, to) == IF i = from THEN to ELSE i
RenameRow(from, to) ==
  [db EXCEPT !.row  = [@ EXCEPT ![to] = db.row[from], ![from] = NoRow],
             !.deps = {<<Renamed(e[1], from, to), Renamed(e[2], from, to)>> : e \in @},
             !.prs  = {[p EXCEPT !.task = Renamed(@, from, to)] : p \in @}]
InsertPr(id, n, status) ==
  [db EXCEPT !.prs = @ \cup {[task |-> id, number |-> n, status |-> status]}]
HasPr(id, n) == \E p \in db.prs : p.task = id /\ p.number = n

-----------------------------------------------------------------------------
(* What load_tasks(project) gives to the rules.                            *)
TasksOf(p)   == [i \in {j \in Existing : db.row[j].project = p} |-> db.row[i]]
PrsOf(id)    == {p.status : p \in {q \in db.prs : q.task = id}}
StoresBlocked(id) ==                           \* mutant: the shown status is stored
  IF IsBlocked(id, TasksOf(db.row[id].project), db.deps) THEN "blocked" ELSE NoStatus
Detected(id) == DetectedStatus(id, TasksOf(db.row[id].project), db.deps, PrsOf(id),
                               db.row[id].ticket, db.row[id].project \in TicketFolders)
(* _auto_promote_task_status asks the same, whether it is blocked or not.  *)
Suggested(id) == SuggestStatus(db.row[id].status, PrsOf(id), db.row[id].ticket,
                               db.row[id].project \in TicketFolders)

DeletableAlways(id) == TRUE                    \* mutant: the ticket is not looked at
Deletable(id)  == ~db.row[id].ticket
SavesQuietly(r) ==                             \* mutant: no event for dependencies
  IF r.change.setDeps THEN <<"look", "save", "commit", "savedeps", "setdeps">>
  ELSE <<"look", "save", "commit", "savedeps", "result">>
Saves(r) ==
  IF r.change.setDeps THEN <<"look", "save", "commit", "savedeps", "setdeps", "result">>
  ELSE <<"look", "save", "commit", "savedeps", "result">>
Creates(r) ==
  IF r.deps # {} THEN <<"insert", "commit", "setdeps", "emit">> ELSE <<"insert", "commit", "emit">>

(* What a request will do, given what its first reads say; <<>>: it is     *)
(* refused (404, 409 or 422) or has nothing to do.                         *)
If(c, plan)   == IF c THEN plan ELSE <<>>
CreatePlan(r) == If(~Exists(r.id), Creates(r))
SmartPlan(r)  == If(~Exists(r.id), <<"insert", "commit", "emit">>)
UpdatePlan(r) == If(Exists(r.id), Saves(r))
CheckPlan(r)  == If(Exists(r.id) /\ Detected(r.id) # NoStatus, <<"look", "save", "commit", "savedeps">>)
DeletePlan(r) == If(Exists(r.id) /\ Deletable(r.id), <<"drop", "dropHistory", "commit">>)
RenamePlan(r) == If(Exists(r.id), <<"rename">>)
MovePlan(r)   == If(Exists(r.id) /\ db.row[r.id].project # r.to, <<"move">>)
DependPlan(r) == If(Exists(r.id) /\ Exists(r.on), <<"depend", "commit", "emit">>)
NotePlan(r)   == If(Exists(r.id), <<"note", "commit", "emit">>)
Plan(r) ==
  CASE r.kind = "create" -> CreatePlan(r)
    [] r.kind = "smart"  -> SmartPlan(r)
    [] r.kind = "update" -> UpdatePlan(r)
    [] r.kind = "check"  -> CheckPlan(r)
    [] r.kind = "delete" -> DeletePlan(r)
    [] r.kind = "rename" -> RenamePlan(r)
    [] r.kind = "move"   -> MovePlan(r)
    [] r.kind = "depend" -> DependPlan(r)
    [] r.kind = "note"   -> NotePlan(r)
    [] r.kind = "undepend" -> <<"undepend", "commit", "emit">>
    [] r.kind = "pr"     -> If(Exists(r.id), <<"pr", "touch", "commit", "seek", "suggest">>)
    [] r.kind = "open"   -> If(Exists(r.id), <<"open", "commit">>)

(* What a smart create does after its create: the ticket, if the plan has  *)
(* one, the notes, if there are any, and a dependency after the other.     *)
Put(id, ticket) ==
  [kind |-> "update", id |-> id,
   change |-> [status |-> NoStatus, ticket |-> ticket, setDeps |-> FALSE, deps |-> {}]]
Rest(r) ==
  IF r.kind # "smart" THEN <<>>
  ELSE If(r.ticket, <<Put(r.id, "set")>>) \o If(r.notes, <<Put(r.id, "keep")>>)
         \o [i \in 1 .. Cardinality(r.deps) |->
               [kind |-> "depend", id |-> r.id, on |-> SetToSeq(r.deps)[i]]]

Busy(t)    == thread[t].plan # <<>>
IdsOf(r)   == {r.id} \cup (IF r.kind = "rename" THEN {r.to} ELSE {})
(* check_status puts what it detects into the row it has read.             *)
Decided(r) == IF r.kind = "check" /\ Exists(r.id)
              THEN [r EXCEPT !.change.status = Detected(r.id)] ELSE r
Working(r) == [Idle EXCEPT !.req = Decided(r), !.plan = Plan(r), !.todo = Rest(r),
                 !.snap = IF Exists(r.id) THEN db.row[r.id] ELSE NoSnap,
                 !.deps = DepsOf(db.deps, r.id)]
Contend(t, r) ==
  contested' = contested \cup UNION {IdsOf(thread[u].req) \cap IdsOf(r) :
                                       u \in {v \in Threads \ {t} : Busy(v) \/ thread[v].todo # <<>>}}

(* A request arrives and reads what it decides from.                       *)
Begin(t, r) ==
  /\ ~Busy(t) /\ thread[t].todo = <<>> /\ asked < MaxRequests /\ Plan(r) # <<>>
  /\ thread' = [thread EXCEPT ![t] = Working(r)]
  /\ asked' = asked + 1 /\ Contend(t, r)
  /\ Unchanged
  /\ UNCHANGED <<fk, restarts, stale, births, silent, renamed, undone, detected>>

(* The next part of a smart create; one that is refused is passed over.    *)
BeginNext(t) ==
  /\ ~Busy(t) /\ thread[t].todo # <<>>
  /\ thread' = [thread EXCEPT ![t] = [Working(Head(thread[t].todo))
                                        EXCEPT !.todo = Tail(thread[t].todo)]]
  /\ Unchanged
  /\ UNCHANGED <<fk, asked, restarts, stale, ghosts>>

-----------------------------------------------------------------------------
At(t, step)    == Busy(t) /\ Head(thread[t].plan) = step
Advance(t)       == thread' = [thread EXCEPT ![t].plan = Tail(@)]
Continue(t, p) == thread' = [thread EXCEPT ![t].plan = p]
(* An exception ends the request where it is; what it wrote is not told.   *)
Abort(t)       == thread' = [thread EXCEPT ![t] = Idle] /\ silent' = TRUE
Quiet          == UNCHANGED <<births, silent, renamed, undone, detected>>
Frame          == Boards /\ UNCHANGED <<asked, restarts, contested>>

CommitStep(t) == At(t, "commit") /\ Commit /\ Advance(t) /\ Quiet /\ Frame /\ UNCHANGED fk

(* EvaDB.create_task: task_id is the primary key.  The status is stored as *)
(* the request gives it, and no timeline entry tells it.                   *)
NewRow(r) ==
  [project |-> r.project, status |-> r.status, ticket |-> FALSE, born |-> births + 1,
   first |-> r.status]
Insert(t) ==
  LET r == thread[t].req IN
  /\ At(t, "insert")
  /\ \/ /\ ~Exists(r.id)
        /\ Execute(InsertRow(r.id, NewRow(r)))
        /\ births' = births + 1 /\ Advance(t) /\ UNCHANGED silent
     \/ Exists(r.id) /\ ExecuteFails /\ Abort(t) /\ UNCHANGED births
  /\ Frame /\ UNCHANGED <<fk, renamed, undone, detected>>

(* save_task: looks whether there is a row now, and then updates it or     *)
(* creates it from what the request read when it began, with the changes.  *)
Changed(r, snap) ==
  [snap EXCEPT !.status = IF r.change.status = NoStatus THEN @ ELSE r.change.status,
               !.ticket = IF r.change.ticket = "keep" THEN @ ELSE r.change.ticket = "set"]
Look(t) ==
  LET w == thread[t] IN
  /\ At(t, "look")
  /\ thread' = [thread EXCEPT ![t] = [w EXCEPT !.plan = Tail(@), !.found = Exists(w.req.id)]]
  /\ Unchanged /\ Quiet /\ Frame /\ UNCHANGED fk

(* What check_status writes is on no timeline, and no event tells it.      *)
Saved(t) ==
  /\ silent' = (silent \/ thread[t].req.kind = "check")
  /\ detected' = IF thread[t].req.kind = "check" THEN detected \cup {thread[t].req.id} ELSE detected
(* EvaDB.update_task: an UPDATE, which finds no row if it has gone.        *)
Update(t) ==
  LET w == thread[t]  old == db.row[w.req.id]  new == Changed(w.req, w.snap) IN
  /\ At(t, "save") /\ w.found /\ Advance(t) /\ Saved(t)
  /\ Execute(IF Exists(w.req.id)
             THEN InsertRow(w.req.id, [old EXCEPT !.status = new.status, !.ticket = new.ticket])
             ELSE db)
  /\ Frame /\ UNCHANGED <<fk, births, renamed, undone>>
Recreate(t) ==
  LET w == thread[t]  new == Changed(w.req, w.snap) IN
  /\ At(t, "save") /\ ~w.found
  /\ \/ /\ ~Exists(w.req.id) /\ Advance(t) /\ Saved(t) /\ births' = births + 1
        /\ Execute(InsertRow(w.req.id, [new EXCEPT !.born = births + 1, !.first = new.status]))
     \/ Exists(w.req.id) /\ ExecuteFails /\ Abort(t) /\ UNCHANGED <<births, detected>>
  /\ Frame /\ UNCHANGED <<fk, renamed, undone>>

(* set_dependencies: one block, all of it or nothing.  A row that is       *)
(* created again without dependencies does without it.                     *)
ReplaceDeps(t, on) ==
  \/ (on = {} \/ Keeps(thread[t].req.id)) /\ WithBlock(SetDeps(thread[t].req.id, on))
       /\ Advance(t) /\ silent' = (silent \/ thread[t].req.kind = "check")
       /\ UNCHANGED undone
  \/ on # {} /\ ~Keeps(thread[t].req.id) /\ Rollback /\ Abort(t)
SaveDeps(t) ==
  /\ \/ At(t, "savedeps") /\ (thread[t].found \/ thread[t].deps # {})
          /\ ReplaceDeps(t, thread[t].deps)
     \/ At(t, "savedeps") /\ ~thread[t].found /\ thread[t].deps = {}
          /\ Unchanged /\ Advance(t) /\ UNCHANGED <<silent, undone>>
     \/ At(t, "setdeps") /\ thread[t].req.kind = "update"
          /\ ReplaceDeps(t, thread[t].req.change.deps)
     \/ At(t, "setdeps") /\ thread[t].req.kind = "create"
          /\ ReplaceDeps(t, thread[t].req.deps)
  /\ Frame /\ UNCHANGED <<fk, births, renamed, detected>>

(* update_task reads the row back, and _record_status_transition puts a    *)
(* change of status that the request asked for on the timeline.            *)
LogsAgainstNew(t) ==                           \* mutant: compared with what was asked
  /\ Exists(thread[t].req.id) /\ thread[t].req.change.status # NoStatus
  /\ db.row[thread[t].req.id].status # thread[t].req.change.status
Logs(t) ==
  LET w == thread[t] IN
  /\ Exists(w.req.id) /\ w.req.change.status # NoStatus
  /\ db.row[w.req.id].status # w.snap.status
Result(t) ==
  LET w == thread[t] IN
  /\ At(t, "result")
  /\ IF Logs(t)
     THEN thread' = [thread EXCEPT ![t] = [w EXCEPT !.plan = <<"note", "commit", "emit">>,
                                             !.to = db.row[w.req.id].status,
                                             !.snap.born = db.row[w.req.id].born]]
     ELSE Continue(t, <<"emit">>)
  /\ Unchanged /\ Quiet /\ Frame /\ UNCHANGED fk

(* append_task_history: the row was looked for in the step before.         *)
Note(t) ==
  LET w == thread[t] IN
  /\ At(t, "note")
  /\ Execute([db EXCEPT !.history[w.req.id] = Append(@, [born |-> w.snap.born, to |-> w.to])])
  /\ Advance(t) /\ Quiet /\ Frame /\ UNCHANGED fk

Emit(t) ==
  /\ At(t, "emit") /\ Advance(t) /\ Unchanged
  /\ stale' = FALSE /\ silent' = FALSE
  /\ UNCHANGED <<fk, asked, restarts, births, contested, renamed, undone, detected>>

-----------------------------------------------------------------------------
(* EvaDB.delete_task: two statements, then one commit; the session row     *)
(* goes only if the first one found a row.                                 *)
Drop(t) ==
  LET w == thread[t] IN
  /\ At(t, "drop") /\ Execute(DeleteRow(w.req.id))
  /\ Continue(t, IF Exists(w.req.id) THEN <<"dropHistory", "commit", "dropSession", "commit", "emit">>
                 ELSE <<"dropHistory", "commit">>)
  /\ Quiet /\ Frame /\ UNCHANGED fk
DropHistory(t) ==
  /\ At(t, "dropHistory") /\ Execute(DeleteHistory(thread[t].req.id))
  /\ Advance(t) /\ Quiet /\ Frame /\ UNCHANGED fk
DropSession(t) ==
  /\ At(t, "dropSession") /\ Execute([db EXCEPT !.session = @ \ {thread[t].req.id}])
  /\ Advance(t) /\ Quiet /\ Frame /\ UNCHANGED fk

(* EvaDB.rename_task.  The first PRAGMA counts only when no transaction is *)
(* open; the second one never does, for the updates have opened one.       *)
Rename(t) ==
  LET from == thread[t].req.id  to == thread[t].req.to
      off  == undo = NoTx \/ ~fk
      children == (\E e \in db.deps : e[1] = from) \/ (\E p \in db.prs : p.task = from)
  IN
  /\ At(t, "rename")
  /\ \/ /\ Exists(from) /\ ~Exists(to) /\ (off \/ ~children)
        /\ WithBlock(RenameRow(from, to)) /\ fk' = ~off
        /\ Continue(t, <<"session">>)
        /\ renamed' = renamed \cup {from, to} /\ silent' = TRUE /\ UNCHANGED undone
     \/ /\ Exists(from) /\ ~Exists(to) /\ ~off /\ children
        /\ Rollback /\ Abort(t) /\ UNCHANGED <<fk, renamed>>
     \/ /\ ~Exists(from) \/ Exists(to)
        /\ Commit /\ Continue(t, <<>>) /\ UNCHANGED <<fk, renamed, silent, undone>>
  /\ Frame /\ UNCHANGED <<births, detected>>

(* rename_task's session row: looked for, deleted, created under the new id. *)
SessionOf(t) ==
  /\ At(t, "session")
  /\ Continue(t, IF thread[t].req.id \in db.session
                 THEN <<"dropSession", "commit", "newSession", "commit">> ELSE <<>>)
  /\ Unchanged /\ Quiet /\ Frame /\ UNCHANGED fk
NewSession(t) ==
  /\ At(t, "newSession") /\ Execute([db EXCEPT !.session = @ \cup {thread[t].req.to}])
  /\ Advance(t) /\ Quiet /\ Frame /\ UNCHANGED fk

(* move_task: the row, its history and its session in one block.           *)
Move(t) ==
  LET r == thread[t].req IN
  /\ At(t, "move")
  /\ \/ /\ Exists(r.id) /\ WithBlock([db EXCEPT !.row[r.id].project = r.to])
        /\ Continue(t, <<"note", "commit", "emit">>)
     \/ ~Exists(r.id) /\ Commit /\ Continue(t, <<>>)
  /\ Quiet /\ Frame /\ UNCHANGED fk

(* add_dependency: both tasks were looked for; OR IGNORE does not cover    *)
(* the foreign key.                                                        *)
Depend(t) ==
  LET r == thread[t].req IN
  /\ At(t, "depend")
  /\ \/ /\ Keeps(r.id) /\ Execute([db EXCEPT !.deps = @ \cup {<<r.id, r.on>>}])
        /\ Advance(t) /\ UNCHANGED silent
     \/ ~Keeps(r.id) /\ ExecuteFails /\ Abort(t)
  /\ Frame /\ UNCHANGED <<fk, births, renamed, undone, detected>>
Undepend(t) ==
  LET r == thread[t].req IN
  /\ At(t, "undepend") /\ Execute([db EXCEPT !.deps = @ \ {<<r.id, r.on>>}])
  /\ Advance(t) /\ Quiet /\ Frame /\ UNCHANGED fk

(* add_pr: the row of a pull request, (task, number) unique; then the      *)
(* task's updated_at.  Only then is there a commit.                        *)
AddPr(t) ==
  LET r == thread[t].req IN
  /\ At(t, "pr")
  /\ \/ /\ Keeps(r.id) /\ ~HasPr(r.id, r.number)
        /\ Execute(InsertPr(r.id, r.number, r.status)) /\ Advance(t) /\ UNCHANGED silent
     \/ (~Keeps(r.id) \/ HasPr(r.id, r.number)) /\ ExecuteFails /\ Abort(t)
  /\ Frame /\ UNCHANGED <<fk, births, renamed, undone, detected>>
Touch(t) ==
  /\ At(t, "touch") /\ Execute(db) /\ Advance(t) /\ Quiet /\ Frame /\ UNCHANGED fk

(* _append_auto_history, of the pull request or of the new status: looks   *)
(* for the task; an error is swallowed.                                    *)
Seek(t) ==
  LET w == thread[t]  then == IF At(t, "seek") THEN "suggest" ELSE "emit" IN
  /\ At(t, "seek") \/ At(t, "record")
  /\ IF Exists(w.req.id)
     THEN thread' = [thread EXCEPT ![t] = [w EXCEPT !.plan = <<"note", "commit", then>>,
                                             !.snap.born = db.row[w.req.id].born]]
     ELSE Continue(t, <<then>>)
  /\ Unchanged /\ Quiet /\ Frame /\ UNCHANGED fk

(* _auto_promote_task_status: the task is read again, and what its pull    *)
(* requests suggest is written, put on the timeline and told.              *)
Suggest(t) ==
  LET w == thread[t] IN
  /\ At(t, "suggest")
  /\ IF Exists(w.req.id) /\ Suggested(w.req.id) # NoStatus
     THEN thread' = [thread EXCEPT ![t] = [w EXCEPT !.plan = <<"promote", "commit", "record", "emit">>,
                                             !.to = Suggested(w.req.id)]]
     ELSE Advance(t)
  /\ Unchanged /\ Quiet /\ Frame /\ UNCHANGED fk
Promote(t) ==
  LET w == thread[t] IN
  /\ At(t, "promote") /\ Advance(t)
  /\ Execute(IF Exists(w.req.id)
             THEN InsertRow(w.req.id, [db.row[w.req.id] EXCEPT !.status = w.to]) ELSE db)
  /\ Quiet /\ Frame /\ UNCHANGED fk

(* The task's session is opened: a row of the sessions table.              *)
Open(t) ==
  /\ At(t, "open") /\ Execute([db EXCEPT !.session = @ \cup {thread[t].req.id}])
  /\ Advance(t) /\ Quiet /\ Frame /\ UNCHANGED fk

(* The server dies: the open transaction goes with it, and the new         *)
(* connection enforces the foreign keys again.                             *)
Restart ==
  /\ restarts < MaxRestarts /\ restarts' = restarts + 1
  /\ Rollback /\ fk' = TRUE
  /\ thread' = [t \in Threads |-> Idle]
  /\ silent' = TRUE /\ Boards
  /\ UNCHANGED <<asked, births, contested, renamed, detected>>

Serve(t) ==
  \/ \E r \in Requests : Begin(t, r)
  \/ BeginNext(t)
  \/ CommitStep(t) \/ Insert(t) \/ Look(t) \/ Update(t) \/ Recreate(t) \/ SaveDeps(t)
  \/ Result(t) \/ Note(t) \/ Emit(t)
  \/ Drop(t) \/ DropHistory(t) \/ DropSession(t)
  \/ Rename(t) \/ SessionOf(t) \/ NewSession(t) \/ Move(t)
  \/ Depend(t) \/ Undepend(t) \/ Open(t)
  \/ AddPr(t) \/ Touch(t) \/ Seek(t) \/ Suggest(t) \/ Promote(t)
Next == Restart \/ \E t \in Threads : Serve(t)
Spec == Init /\ [][Next]_vars

-----------------------------------------------------------------------------
Resting == \A t \in Threads : ~Busy(t) /\ thread[t].todo = <<>>

(* While the connection enforces foreign keys, a dependency or a pull      *)
(* request row has its task, whichever threads write and whatever is       *)
(* rolled back.  rename_task leaves the enforcement off until a restart.   *)
NoOrphans ==
  fk /\ renamed = {} => /\ \A e \in db.deps : Exists(e[1])
                        /\ \A p \in db.prs : Exists(p.task)

(* Once every request has ended nothing waits for a commit: a crash then   *)
(* loses nothing that was answered (a failed statement may leave an empty  *)
(* transaction open).                                                      *)
NothingUncommittedAtRest == Resting => undo \in {NoTx, db}

(* What is listed on a task's timeline, and its session row, belong to it  *)
(* and not to an earlier task of that id ("otherwise history could leak    *)
(* across delete/recreate cycles", eva_db.py:1159), unless two requests    *)
(* had the id in hand at once or it was renamed away, which leaves its     *)
(* history behind.  Between the halves of a delete another thread's commit *)
(* makes the first half durable: a crash then, or a rollback by another    *)
(* thread's error, may leave the history too.                              *)
NothingLeftBehind ==
  Resting /\ restarts = 0 /\ ~undone => \A i \in Ids \ (contested \cup renamed) :
    /\ \A k \in DOMAIN db.history[i] : Exists(i) /\ db.history[i][k].born = db.row[i].born
    /\ i \in db.session => Exists(i)

(* The last status on a task's timeline, or the one the task was created   *)
(* with if there is none (a create writes no entry), is the status of its  *)
(* row, for a task that no two requests had in hand at once and whose      *)
(* status no check_status wrote (it writes no entry), as long as no        *)
(* thread's error took back the uncommitted entry of another.              *)
Changes(i)   == {k \in DOMAIN db.history[i] : db.history[i][k].to # NoStatus}
Tells(i) ==
  /\ Changes(i) = {} => db.row[i].status = db.row[i].first
  /\ \A k \in Changes(i) : (\A m \in Changes(i) : m <= k) => db.row[i].status = db.history[i][k].to
TimelineTold ==
  Resting /\ restarts = 0 /\ ~undone =>
    \A i \in Existing \ (contested \cup renamed \cup detected) : Tells(i)

(* A task with a ticket is not deleted ("Tasks with tickets cannot be      *)
(* deleted", routes/tasks.py:132), unless another request had it in hand.  *)
TicketedStays ==
  [][\A i \in Ids \ (contested \cup renamed) :
       Exists(i) /\ db.row[i].ticket /\ restarts' = restarts
         => db'.row[i] # NoRow \/ i \in renamed']_vars

(* When the server rests, the open pages were told of every change of a    *)
(* task or a dependency, unless it was made by a path without an event     *)
(* (check-status, rename, an error half way, a crash).                     *)
BoardsTold == Resting /\ stale => silent
=============================================================================

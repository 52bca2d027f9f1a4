-------------------------------- MODULE Pulls --------------------------------
(***************************************************************************)
(* The cache of pull requests in the prs table: the notification poller    *)
(* and its two listeners (services/github_poller.py), the dirty and the    *)
(* full tick (services/pr_sync_service.py), the refresh of one PR by the   *)
(* user (routes/prs.py), and the refresh they share (common/prs.py).  A PR *)
(* has a row for each task it is linked to and one for the review queue;   *)
(* rows are found by the PR's number alone, numbers standing for PRs here. *)
(***************************************************************************)
EXTENDS Integers, FiniteSets

CONSTANTS
  Prs,         \* the pull requests
  Rows,        \* row ids of the prs table, numbers
  PrOf,        \* [Rows -> Prs]
  Tasks,       \* the tasks PRs are linked to
  TaskOf,      \* [Rows -> Tasks \cup {None}], None for a row of the review queue
  None,
  MaxEvents    \* bound on changes on GitHub, restarts and refreshes, together

VARIABLES
  github, \* [Prs -> Pr]
  prs,    \* [Rows -> PrRow \cup {None}]
  seen,   \* PRs whose notification was emitted as new
  notes,  \* [Prs -> set of listener threads to run]
  jobs,   \* [Kinds -> Job]
  over,   \* tasks that are done
  told,   \* history: [Prs -> [Ends -> how often the task's agent was told]]
  odd,    \* history: PRs to which something happened that EndTold excuses
  edits, extras

pvars == <<github, prs, seen, notes, jobs, over, told, odd, edits, extras>>

(* Threads that refresh.  The dirty tick and a refresh of the user take    *)
(* turns here (a bound): two of the three run at a time.                   *)
Kinds == {"dirty", "full"}
Ends  == {"closed", "merged"}
(* A landed PR was closed by a committer who pushed its commits.           *)
Pr    == [state : {"open", "closed", "landed", "merged"}, ver : 0 .. MaxEvents,
          ended : 0 .. MaxEvents]
(* status_changed_at: not set, GitHub's time, or the time of the writing.  *)
Unset == 0
Now   == MaxEvents + 1
Stamp == 0 .. MaxEvents + 1
PrRow == [status : {"open"} \cup Ends, ver : 0 .. MaxEvents, stamp : Stamp, dirty : BOOLEAN]
NoRow == [status |-> "none", ver |-> 0, stamp |-> Unset, dirty |-> FALSE]
NewRowOf(status) == [NoRow EXCEPT !.status = status]
Messages == {"merged", "closed", "reopened", "other"}
Listener == [does : {"mark"}, says : {"merged", "other"}] \cup [does : {"status"}, says : Messages \ {"other"}]
(* What a refresh is about to write, and what it read of the PR before.    *)
Hand  == [pr : Prs, row : Rows \cup {None}, prev : {"none", "open"} \cup Ends, status : {"open"} \cup Ends,
          ver : 0 .. MaxEvents, stamp : Stamp, wrote : BOOLEAN]
Job   == [pc : {"idle", "busy", "user", "view", "found", "every"}, items : [Prs -> Pr \cup {None}],
          hand : Hand \cup {None}, ok : SUBSET Prs]
Untold == [e \in Ends |-> 0]
NoJob == [pc |-> "idle", items |-> [p \in Prs |-> None], hand |-> None, ok |-> {}]
Holding(pc, h)       == [NoJob EXCEPT !.pc = pc, !.hand = h]
Batch(pc, items, ok) == [NoJob EXCEPT !.pc = pc, !.items = items, !.ok = ok]

PullsTypeOK ==
  /\ github \in [Prs -> Pr] /\ prs \in [Rows -> PrRow \cup {None}] /\ seen \subseteq Prs
  /\ notes \in [Prs -> SUBSET Listener] /\ jobs \in [Kinds -> Job]
  /\ over \subseteq Tasks /\ told \in [Prs -> [Ends -> Nat]] /\ odd \subseteq Prs
  /\ edits \in 0 .. MaxEvents /\ extras \in 0 .. MaxEvents

PullsInit ==
  /\ github = [p \in Prs |-> [state |-> "open", ver |-> 0, ended |-> 0]]
  /\ \E row \in {None, NewRowOf("open")} : prs = [r \in Rows |-> row]
  /\ seen = {} /\ notes = [p \in Prs |-> {}] /\ jobs = [j \in Kinds |-> NoJob]
  /\ over = {} /\ told = [p \in Prs |-> Untold] /\ odd = {}
  /\ edits = 0 /\ extras = 0

-----------------------------------------------------------------------------
PrRows(p)    == {r \in Rows : PrOf[r] = p /\ prs[r] # None}
Known(p)     == PrRows(p) # {}
FirstRow(p)  == IF Known(p) THEN CHOOSE r \in PrRows(p) : \A s \in PrRows(p) : r <= s ELSE None
First(p)     == IF Known(p) THEN prs[FirstRow(p)] ELSE NoRow
Owner(row)   == IF row = None THEN None ELSE TaskOf[row]

(* resolve_pr_status: a closed PR is merged if its events name a commit;   *)
(* when they cannot be read it is closed.                                  *)
ResolvedRaw(state) == {state}   \* mutant: the state is kept as GitHub names it
Resolved(state) ==
  CASE state = "landed" -> {"merged", "closed"} [] OTHER -> {state}

(* _update_pr_rows: compares with the first row of the number, and writes  *)
(* the columns in which it differs to all of them.  `stamp` is Unset when  *)
(* the caller does not give status_changed_at.                             *)
NewStamp(p, status, stamp) ==
  IF stamp # Unset THEN stamp
  ELSE IF First(p).status # status /\ First(p).stamp = Unset THEN Now ELSE First(p).stamp
Updated(p, status, ver, stamp) ==
  LET s == NewStamp(p, status, stamp) IN
  [r \in Rows |->
     IF r \notin PrRows(p) THEN prs[r]
     ELSE [prs[r] EXCEPT !.status = IF First(p).status # status THEN status ELSE @,
                         !.ver    = IF First(p).ver # ver THEN ver ELSE @,
                         !.stamp  = IF First(p).stamp # s THEN s ELSE @]]
WithMark(p, b) == [r \in Rows |-> IF r \in PrRows(p) THEN [prs[r] EXCEPT !.dirty = b] ELSE prs[r]]

(* suggest_task_status: done once every PR of the task is merged.          *)
Promoted(t, table) ==
  LET mine == {r \in Rows : TaskOf[r] = t /\ table[r] # None} IN
  IF t # None /\ mine # {} /\ \A r \in mine : table[r].status = "merged"
  THEN over \cup {t} ELSE over

(* What is told of an excused PR is not counted.                           *)
Excuse(P) ==
  /\ odd' = odd \cup P
  /\ told' = [p \in Prs |-> IF p \in P THEN Untold ELSE told[p]]

(* Two refreshes that have read the same PR and not yet written it.        *)
Others(j, p) == {k \in Kinds \ {j} : jobs[k].hand # None /\ jobs[k].hand.pr = p}

-----------------------------------------------------------------------------
Bounded == edits + extras < MaxEvents
(* GitHub: a PR is edited, closed, landed, merged or reopened; several     *)
(* such changes that nobody looked between are one.                        *)
Edit(p) ==
  /\ Bounded /\ github[p].state # "merged" /\ edits' = edits + 1
  /\ \E st \in {"open", "closed", "landed", "merged"} :
       github' = [github EXCEPT ![p] =
         [state |-> st, ver |-> edits + 1,
          ended |-> IF st = "open" THEN 0
                    ELSE IF @.ended # 0 /\ st = @.state THEN @.ended ELSE edits + 1]]
  /\ UNCHANGED <<prs, seen, notes, jobs, over, told, odd, extras>>

(* _poll_github_notifications emits a thread only when its id is new; each *)
(* listener of "github.*" gets a thread of its own.  What the message says *)
(* is the title of the PR.                                                 *)
Poll(p) ==
  /\ github[p].ver > 0 /\ p \notin seen /\ seen' = seen \cup {p}
  /\ \E m \in Messages :
       notes' = [notes EXCEPT ![p] = @ \cup
         {[does |-> "mark", says |-> IF m = "merged" THEN m ELSE "other"]} \cup
         {[does |-> "status", says |-> n] : n \in {m} \ {"other"}}]
  /\ UNCHANGED <<github, prs, jobs, over, told, odd, edits, extras>>

(* _on_gh_notification: every row of the number is marked, and a task all  *)
(* of whose PRs are merged is done when the message says so.               *)
MarkDirty(p, m) ==
  LET n == [does |-> "mark", says |-> m] IN
  /\ n \in notes[p] /\ notes' = [notes EXCEPT ![p] = @ \ {n}]
  /\ prs' = WithMark(p, TRUE)
  /\ over' = IF m = "merged" THEN Promoted(Owner(FirstRow(p)), prs) ELSE over
  /\ UNCHANGED <<github, seen, jobs, told, odd, edits, extras>>

(* _on_gh_pr_status_update: what the message says is written.              *)
Said(p, m) ==
  CASE m = "merged"   -> {"merged"}
    [] m = "closed"   -> Resolved(IF github[p].state = "landed" THEN "landed" ELSE "closed")
    [] m = "reopened" -> {"open"}
WriteSaid(p, m) ==
  LET n == [does |-> "status", says |-> m] IN
  /\ n \in notes[p] /\ notes' = [notes EXCEPT ![p] = @ \ {n}]
  /\ \E status \in Said(p, m) : prs' = Updated(p, status, First(p).ver, Unset)
  /\ Excuse({p})
  /\ UNCHANGED <<github, seen, jobs, over, edits, extras>>

-----------------------------------------------------------------------------
(* The scheduler's ticks: list the rows, and fetch their PRs in a batch;   *)
(* some are not answered.                                                  *)
ListedDirtyOnly(j) ==   \* mutant: the full tick too takes the marked rows only
  {p \in Prs : \E r \in PrRows(p) : prs[r].dirty}
Listed(j) ==
  IF j = "dirty" THEN {p \in Prs : \E r \in PrRows(p) : prs[r].dirty}
  ELSE {p \in Prs : \E r \in PrRows(p) : prs[r].status = "open"}
Answer(got) == [p \in Prs |-> IF p \in got THEN github[p] ELSE None]
Fetch(j, got) ==
  /\ jobs[j].pc = "idle" /\ got \subseteq Listed(j) /\ got # {}
  /\ jobs' = [jobs EXCEPT ![j] = Batch("busy", Answer(got), {})]
  /\ UNCHANGED <<github, prs, seen, notes, over, told, odd, edits, extras>>

PreparedTimeAlways(p, item, status) ==   \* mutant: GitHub's time is always written
  [pr |-> p, row |-> FirstRow(p), prev |-> First(p).status, status |-> status,
   ver |-> item.ver, stamp |-> item.ended, wrote |-> FALSE]

(* map_gh_pr_to_updates: GitHub's time of the end is given only when the   *)
(* row that find_pr_by_number returned has none.                           *)
Prepared(p, item, status) ==
  [pr |-> p, row |-> FirstRow(p), prev |-> First(p).status, status |-> status,
   ver |-> item.ver, stamp |-> IF item.ended # 0 /\ First(p).stamp = Unset THEN item.ended ELSE Unset,
   wrote |-> FALSE]
Flaky(item) == item.state = "landed"
(* The row has been written with a later answer in the meantime.           *)
Late(p, item) == item.ver < First(p).ver
Take(j, p) ==
  LET item == jobs[j].items[p] IN
  /\ jobs[j].hand = None /\ item # None
  /\ \E status \in Resolved(item.state) :
       jobs' = [jobs EXCEPT ![j].items[p] = None, ![j].hand = Prepared(p, item, status)]
  /\ Excuse(IF Others(j, p) # {} \/ Flaky(item) \/ Late(p, item) THEN {p} ELSE {})
  /\ UNCHANGED <<github, prs, seen, notes, over, edits, extras>>

Extra == Bounded /\ extras' = extras + 1
(* The user's requests take GitHub's answer for one PR after another and   *)
(* tell nobody: `user` clears its mark then (refresh_single_pr, and the    *)
(* marked PRs of sync_all_prs_stream), `view` does not (the other PRs of   *)
(* it, and sync_all_prs, which does not give the time of the end either).  *)
ReadNow(p, who, timed) ==
  /\ Extra /\ Known(p) /\ jobs["dirty"].pc = "idle"
  /\ \E status \in Resolved(github[p].state) :
       LET h == Prepared(p, github[p], status) IN
       jobs' = [jobs EXCEPT !["dirty"] = Holding(who, IF timed THEN h ELSE [h EXCEPT !.stamp = Unset])]
  /\ Excuse({p})
  /\ UNCHANGED <<github, prs, seen, notes, over, edits>>
Refresh(p)    == ReadNow(p, "user", TRUE)
SyncStream(p) == ReadNow(p, "view", TRUE)
SyncAllPrs(p) == ReadNow(p, "view", FALSE)
(* sync_prs_generator: as the dirty tick, but a mark goes also when GitHub *)
(* does not answer for its PR.                                             *)
SyncMarked(got) ==
  /\ Extra /\ jobs["dirty"].pc = "idle" /\ Listed("dirty") # {} /\ got \subseteq Listed("dirty")
  /\ jobs' = [jobs EXCEPT !["dirty"] = Batch("busy", Answer(got), Listed("dirty") \ got)]
  /\ UNCHANGED <<github, prs, seen, notes, over, told, odd, edits>>
(* ... and then, with what it discovered, all PRs that have a row, marked  *)
(* or not.                                                                 *)
SyncEvery(got) ==
  /\ Extra /\ jobs["dirty"].pc = "idle" /\ got # {} /\ \A p \in got : Known(p)
  /\ jobs' = [jobs EXCEPT !["dirty"] = Batch("every", Answer(got), {})]
  /\ UNCHANGED <<github, prs, seen, notes, over, told, odd, edits>>
RefreshFails(p) ==
  /\ Extra /\ Known(p) /\ prs' = WithMark(p, FALSE)
  /\ UNCHANGED <<github, seen, notes, jobs, over, told, odd, edits>>

Write(j) ==
  LET h == jobs[j].hand IN
  /\ h # None /\ ~h.wrote /\ jobs[j].pc # "found"
  /\ prs' = Updated(h.pr, h.status, h.ver, h.stamp)
  /\ jobs' = [jobs EXCEPT ![j].hand = [h EXCEPT !.wrote = TRUE, !.ver = 0, !.stamp = Unset]]
  /\ told' = IF h.status = "open" THEN [told EXCEPT ![h.pr] = Untold] ELSE told
  /\ UNCHANGED <<github, seen, notes, over, odd, edits, extras>>

(* _update_pr_from_gh: a PR that ended tells the agent of the task of the  *)
(* row read before, unless the task is over; then the task is promoted.    *)
TellsEachTime(prev, status) == status \in Ends   \* mutant: told at each sight
Tells(prev, status) ==
  \/ prev # "merged" /\ status = "merged"
  \/ prev \notin Ends /\ status = "closed"
Follow(j) ==
  LET h == jobs[j].hand
      t == Owner(IF h.row = None THEN FirstRow(h.pr) ELSE h.row) IN
  /\ h # None /\ h.wrote
  /\ jobs' = IF jobs[j].pc = "view" THEN [jobs EXCEPT ![j] = NoJob]
             ELSE [jobs EXCEPT ![j].hand = None,
                               ![j].ok = IF jobs[j].pc = "every" THEN @ ELSE @ \cup {h.pr}]
  /\ told' = IF /\ jobs[j].pc \in {"busy", "every"} /\ t # None /\ t \notin over
                /\ Tells(h.prev, h.status) /\ h.pr \notin odd
             THEN [told EXCEPT ![h.pr][h.status] = @ + 1] ELSE told
  /\ over' = IF jobs[j].pc \in {"busy", "every"} THEN Promoted(t, prs) ELSE over
  /\ UNCHANGED <<github, prs, seen, notes, odd, edits, extras>>

(* The marks of what was refreshed are cleared when all of it is, also     *)
(* those set in the meantime; a job that takes the unmarked too leaves them.*)
AllDone(j) == jobs[j].pc # "idle" /\ jobs[j].hand = None /\ \A p \in Prs : jobs[j].items[p] = None
Clear(j, p) ==
  /\ AllDone(j) /\ j # "full" /\ p \in jobs[j].ok
  /\ prs' = WithMark(p, FALSE)
  /\ jobs' = [jobs EXCEPT ![j] = IF @.ok = {p} THEN NoJob ELSE [jobs[j] EXCEPT !.ok = @ \ {p}]]
  /\ UNCHANGED <<github, seen, notes, over, told, odd, edits, extras>>
EndFull(j) ==
  /\ AllDone(j) /\ (j = "full" \/ jobs[j].pc = "every") /\ jobs' = [jobs EXCEPT ![j] = NoJob]
  /\ UNCHANGED <<github, prs, seen, notes, over, told, odd, edits, extras>>

(* Discovery (ingest_discovered_item): a PR that has no row and whose      *)
(* title names a task's ticket gets one, with its status and no more.  A   *)
(* row that is there by then makes the INSERT raise.                       *)
Matches(p) == {r \in Rows : PrOf[r] = p /\ TaskOf[r] # None}
Ingest(p) ==
  /\ Extra /\ ~Known(p) /\ Matches(p) # {} /\ jobs["dirty"].pc = "idle"
  /\ \E status \in Resolved(github[p].state) :
       jobs' = [jobs EXCEPT !["dirty"] = Holding("found", Prepared(p, github[p], status))]
  /\ UNCHANGED <<github, prs, seen, notes, over, told, odd, edits>>
(* A new row comes after those that are there.                             *)
Inserted(r, status) == IF prs[r] = None THEN [prs EXCEPT ![r] = NewRowOf(status)] ELSE prs
Last(r) == \A s \in PrRows(PrOf[r]) : s < r
EndedOrHeld(j, p, status) == IF status \in Ends \/ Others(j, p) # {} THEN {p} ELSE {}
IngestInsert ==
  LET h == jobs["dirty"].hand IN
  /\ jobs["dirty"].pc = "found" /\ jobs' = [jobs EXCEPT !["dirty"] = NoJob]
  /\ \E r \in Matches(h.pr) : (prs[r] # None \/ Last(r)) /\ prs' = Inserted(r, h.status)
  /\ Excuse(EndedOrHeld("dirty", h.pr, h.status))
  /\ UNCHANGED <<github, seen, notes, over, edits, extras>>

(* add_pr and remove_pr, by the user.                                      *)
LinkPr(r, status) ==
  /\ Extra /\ TaskOf[r] # None /\ prs[r] = None /\ Last(r)
  /\ prs' = Inserted(r, status) /\ over' = Promoted(TaskOf[r], prs')
  /\ Excuse(EndedOrHeld("user", PrOf[r], status))
  /\ UNCHANGED <<github, seen, notes, jobs, edits>>
(* The row that is read first from now on may say that the PR ended, and   *)
(* the agent of its task has not been told.                                *)
Inherited(r) == r = FirstRow(PrOf[r]) /\ \E s \in PrRows(PrOf[r]) \ {r} :
                  TaskOf[s] # None /\ prs[s].status \in Ends
(* What its agent was told before does not count if it is linked again.    *)
RemovePr(r) ==
  /\ Extra /\ TaskOf[r] # None /\ prs[r] # None
  /\ prs' = [prs EXCEPT ![r] = None]
  /\ odd' = odd \cup {p \in {PrOf[r]} : Others("user", p) # {} \/ Inherited(r)}
  /\ told' = [told EXCEPT ![PrOf[r]] = IF r = FirstRow(PrOf[r]) THEN Untold ELSE @]
  /\ UNCHANGED <<github, seen, notes, jobs, over, edits>>

(* Threads die with the server; what was emitted is not new afterwards.    *)
Restart ==
  /\ Extra
  /\ notes' = [p \in Prs |-> {}] /\ jobs' = [j \in Kinds |-> NoJob]
  /\ Excuse({p \in Prs : \E j \in Kinds : jobs[j].hand # None /\ jobs[j].hand.pr = p})
  /\ UNCHANGED <<github, prs, seen, over, edits>>

JobStep(j) ==
  \/ \E got \in SUBSET Prs : Fetch(j, got)
  \/ \E p \in Prs : Take(j, p) \/ Clear(j, p)
  \/ Write(j) \/ Follow(j) \/ EndFull(j) \/ (j = "dirty" /\ IngestInsert)
Listeners(p) == \E m \in Messages : MarkDirty(p, m) \/ WriteSaid(p, m)
PullsNext ==
  \/ \E j \in Kinds : JobStep(j)
  \/ \E p \in Prs : Edit(p) \/ Poll(p) \/ Listeners(p) \/ Refresh(p) \/ RefreshFails(p)
                    \/ SyncStream(p) \/ SyncAllPrs(p) \/ Ingest(p)
  \/ \E r \in Rows : RemovePr(r) \/ (\E status \in {"open"} \cup Ends : LinkPr(r, status))
  \/ (\E got \in SUBSET Prs : SyncMarked(got) \/ SyncEvery(got)) \/ Restart

(* Threads run; the scheduler ticks again and again, and GitHub answers a  *)
(* whole batch in the end.                                                 *)
PullsFairness ==
  /\ \A j \in Kinds : WF_pvars(JobStep(j))
  /\ \A p \in Prs : WF_pvars(Listeners(p))
  /\ SF_pvars(Fetch("full", Listed("full")))
PullsSpec == PullsInit /\ [][PullsNext]_pvars /\ PullsFairness

-----------------------------------------------------------------------------
(* "Once set ... we never rewrite it" (eva_db.py:1357): the time at which  *)
(* a PR ended stays, unless two writers had read the row without it.       *)
StampKept ==
  [][\A p \in Prs \ odd :
       First(p).stamp # Unset /\ FirstRow(p)' = FirstRow(p)
         => First(p)'.stamp = First(p).stamp]_pvars

(* Of the end of a PR the agent of its task is told once, however many     *)
(* ticks see it (_update_pr_from_gh).  Left out are PRs whose row a        *)
(* listener or the user's refresh wrote, that two jobs held at once, that  *)
(* were linked as ended, or linked or unlinked under a refresh; whose row  *)
(* was written with a later answer in the meantime; whose first row went   *)
(* while another task's row said that it ended; for which the server       *)
(* stopped before the telling, or GitHub's events were asked.              *)
EndTold ==
  \A p \in Prs \ odd :
    LET t == Owner(FirstRow(p))
        e == First(p).status IN
    t # None /\ t \notin over /\ e \in Ends /\ (\A j \in Kinds : jobs[j].hand = None)
      => told[p][e] = 1

(* "so a dropped notification doesn't leave a PR permanently stale"        *)
(* (pr_sync_service.py:11): once GitHub rests, the first row of a PR that  *)
(* says open is GitHub's last state.                                       *)
OpenIsFresh ==
  <>[](\A p \in Prs : First(p).status = "open"
                        => github[p].state = "open" /\ First(p).ver = github[p].ver)
=============================================================================

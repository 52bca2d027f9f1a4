-------------------------------- MODULE Audit --------------------------------
(***************************************************************************)
(* The data-integrity audit (common/audit.py, eva-cli audit --fix): every  *)
(* check reads the tables, then the fixers write for each finding, in the  *)
(* process of eva-cli, while the server goes on.  A database may come from *)
(* older versions, so its first state is any with few enough findings.     *)
(***************************************************************************)
EXTENDS Naturals, FiniteSets

CONSTANTS
  TaskIds,     \* ids of tasks
  Legacy,      \* the ids whose rows may be odd in the first state
  PrUrl,       \* [TaskIds -> the url of the PR the task may have]
  ReviewId,    \* [PrUrls \cup {None} -> the id that a review of the PR has, or None]
  Job,         \* a cron job, in the place of its session's name too
  None,
  MaxFindings, \* bound on the findings of the first state
  MaxOutside   \* bound on the steps of the server and the failures of the audit

VARIABLES
  task,     \* [TaskIds -> Task \cup {None}]
  pr,       \* [TaskIds -> PrEntry \cup {None}]
  log,      \* [TaskIds -> what task_history has under the id]
  deps,     \* task_dependencies
  sess,     \* [TaskIds -> Session \cup {None}]
  panes,    \* the tmux sessions that run
  run,      \* the latest run of the job
  stage,    \* of eva-cli audit --fix
  todo,     \* the findings to fix
  before,   \* history: the findings of the scan
  touched,  \* history: what the server wrote, or a repair that failed left, since
  outside   \* how many steps the server made, and checks and repairs failed

avars == <<task, pr, log, deps, sess, panes, run, stage, todo, before, touched, outside>>

Task    == [status : {"not_started", "done"}, kind : {"task", "alias", "review"},
            paired : BOOLEAN, active : BOOLEAN]
Fresh   == [status |-> "not_started", kind |-> "task", paired |-> TRUE, active |-> FALSE]
PrEntry == [merged : BOOLEAN, author : BOOLEAN]
(* Waiting: starting, or needs_input; `old`: not updated for a day.        *)
Live    == {"thinking", "idle"}
Session == [status : Live \cup {"waiting", "stopped"}, old : BOOLEAN]
Runs    == {"none", "running", "done", "cancelled"}

(* What is reported and repaired, in the order of ALL_CHECKS, and what is  *)
(* reported only.                                                          *)
Fixable  == <<"orphan_pr", "orphan_history", "orphan_dependency", "pr_missing_author",
              "stale_cron_run", "stale_task_session", "long_idle_input_session",
              "stale_review_session", "noncanonical_task_type">>
Reported == {"pr_merged_task_not_started", "all_prs_merged_task_open",
             "ticket_fields_unpaired", "duplicate_pr_url",
             "terminal_status_missing_transition"}
FixKinds == {Fixable[k] : k \in DOMAIN Fixable}
PrUrls   == {PrUrl[i] : i \in TaskIds}
Refs     == {<<i>> : i \in TaskIds \cup {Job} \cup PrUrls}
              \cup (TaskIds \X (TaskIds \cup PrUrls \cup {None}))
Finding  == [kind : FixKinds \cup Reported, ref : Refs]
(* A check that raises is a finding too.                                   *)
CheckError(kind) == [kind |-> "audit_check_error", ref |-> <<kind>>]
CheckErrors      == {CheckError(kind) : kind \in FixKinds \cup Reported}

AuditTypeOK ==
  /\ task \in [TaskIds -> Task \cup {None}] /\ pr \in [TaskIds -> PrEntry \cup {None}]
  /\ log \in [TaskIds -> {"none", "some", "closing"}] /\ deps \subseteq TaskIds \X TaskIds
  /\ sess \in [TaskIds -> Session \cup {None}] /\ panes \subseteq TaskIds \cup {Job}
  /\ run \in Runs /\ stage \in {"idle", "fixing", "done"}
  /\ todo \subseteq Finding /\ before \subseteq Finding \cup CheckErrors
  /\ touched \subseteq TaskIds \cup {Job} /\ outside \in 0 .. MaxOutside

-----------------------------------------------------------------------------
(* The checks, one per kind: the ids a finding refers to.                  *)
Gone(i)         == task[i] = None
HasPr           == {i \in TaskIds : pr[i] # None}
MergedOf(i)     == i \in HasPr /\ pr[i].merged
PrTaskDrift     == {<<i>> : i \in {j \in TaskIds : ~Gone(j) /\ MergedOf(j)
                                                  /\ task[j].status = "not_started"}}
AllPrsMerged    == {<<i>> : i \in {j \in TaskIds : ~Gone(j) /\ MergedOf(j)
                                                  /\ task[j].status # "done"}}
TicketUnpaired  == {<<i>> : i \in {j \in TaskIds : ~Gone(j) /\ ~task[j].paired}}
OrphanPrs       == {<<i>> : i \in {j \in HasPr : Gone(j)}}
OrphanHistory   == {<<i>> : i \in {j \in TaskIds : Gone(j) /\ log[j] # "none"}}
OrphanDeps      == {d \in deps : Gone(d[1]) \/ Gone(d[2])}
DuplicateUrls   == {<<w>> : w \in {u \in PrUrls : Cardinality({i \in HasPr : PrUrl[i] = u}) > 1}}
MissingAuthor   == {<<i>> : i \in {j \in HasPr : ~pr[j].author}}
StaleCronRun    == IF run = "running" /\ Job \notin panes THEN {<<Job>>} ELSE {}
StaleTaskSess   == {<<i>> : i \in {j \in TaskIds : sess[j] # None /\ j \notin panes
                                                  /\ sess[j].status \in Live}}
LongIdle        == {<<i>> : i \in {j \in TaskIds : sess[j] # None /\ sess[j].old
                                                  /\ sess[j].status = "waiting"}}
Url(i)          == IF pr[i] = None THEN None ELSE PrUrl[i]
StaleReviewSess == {<<i, Url(i)>> : i \in {j \in TaskIds :
                       /\ ~Gone(j) /\ task[j].kind = "review" /\ task[j].active
                       /\ sess[j] # None /\ j \notin panes}}
AliasedType     == {<<i>> : i \in {j \in TaskIds : ~Gone(j) /\ task[j].kind = "alias"}}
NoTransition    == {<<i>> : i \in {j \in TaskIds : ~Gone(j) /\ task[j].status = "done"
                                                  /\ log[j] = "some"}}
Refers(kind) ==
  CASE kind = "pr_merged_task_not_started" -> PrTaskDrift
    [] kind = "all_prs_merged_task_open"   -> AllPrsMerged
    [] kind = "ticket_fields_unpaired"     -> TicketUnpaired
    [] kind = "orphan_pr"                  -> OrphanPrs
    [] kind = "orphan_history"             -> OrphanHistory
    [] kind = "orphan_dependency"          -> OrphanDeps
    [] kind = "duplicate_pr_url"           -> DuplicateUrls
    [] kind = "pr_missing_author"          -> MissingAuthor
    [] kind = "stale_cron_run"             -> StaleCronRun
    [] kind = "stale_task_session"         -> StaleTaskSess
    [] kind = "long_idle_input_session"    -> LongIdle
    [] kind = "stale_review_session"       -> StaleReviewSess
    [] kind = "noncanonical_task_type"     -> AliasedType
    [] kind = "terminal_status_missing_transition" -> NoTransition
Findings == UNION {{[kind |-> k, ref |-> r] : r \in Refers(k)} : k \in FixKinds \cup Reported}

(* The rows a finding is about: of a duplicate URL, all that have it.      *)
On(f) ==
  CASE f.kind = "duplicate_pr_url"  -> {i \in TaskIds : PrUrl[i] = f.ref[1]}
    [] f.kind = "orphan_dependency" -> {f.ref[1], f.ref[2]}
    [] OTHER                        -> {f.ref[1]}

(* A renamed review: its id is no longer the one its PR's url gives.       *)
Renamed == [Fresh EXCEPT !.kind = "review", !.active = TRUE]
AuditInit ==
  /\ task \in [TaskIds -> {t \in Task : t.active => t.kind = "review"} \cup {None}]
  /\ \A i \in TaskIds \ Legacy : task[i] \in {Fresh, Renamed, None}
  /\ pr \in [TaskIds -> PrEntry \cup {None}]
  /\ \A i \in TaskIds \ Legacy :
       /\ pr[i] \in {None, [merged |-> FALSE, author |-> TRUE]}
       /\ task[i] = Renamed => pr[i] # None
  /\ log \in [TaskIds -> {"none", "some", "closing"}]
  /\ \A i \in TaskIds : IF task[i] = None THEN log[i] # "closing" /\ (log[i] = "none" \/ i \in Legacy)
                        ELSE log[i] # "none" /\ (log[i] = "closing" => task[i].status = "done")
  /\ deps \in {{}} \cup {{<<i, j>>} : i \in Legacy, j \in TaskIds \ Legacy}
  /\ sess \in [TaskIds -> {s \in Session : s.old <=> s.status = "waiting"} \cup {None}]
  /\ \A i \in TaskIds \ Legacy :
       sess[i] = IF task[i] = Renamed THEN [status |-> "stopped", old |-> FALSE] ELSE None
  /\ panes \in SUBSET {i \in Legacy : sess[i] # None} /\ run \in {"none", "running"}
  /\ stage = "idle" /\ todo = {} /\ before = {} /\ touched = {} /\ outside = 0
  /\ Cardinality(Findings) <= MaxFindings

-----------------------------------------------------------------------------
(* eva-cli audit --fix: run_audit, fix_all, and run_audit again.  A check  *)
(* that raises (one that had something to find) reports only that.         *)
RunAudit ==
  /\ stage = "idle" /\ stage' = "fixing" /\ touched' = {}
  /\ \E failed \in SUBSET {f.kind : f \in Findings} :
       /\ outside' = outside + Cardinality(failed) /\ outside' <= MaxOutside
       /\ LET found == {f \in Findings : f.kind \notin failed} IN
          /\ before' = found \cup {CheckError(kind) : kind \in failed}
          /\ todo' = {f \in found : f.kind \in FixKinds}
  /\ UNCHANGED <<task, pr, log, deps, sess, panes, run>>

Rank(f) == CHOOSE k \in DOMAIN Fixable : Fixable[k] = f.kind
NextFix == {f \in todo : \A g \in todo : Rank(f) <= Rank(g)}
Fixes(f, kind) == f \in NextFix /\ f.kind = kind /\ todo' = todo \ {f}
OnlyTodo == UNCHANGED <<panes, stage, before>>
Repairs  == OnlyTodo /\ UNCHANGED <<touched, outside>>

(* DELETE FROM prs WHERE task_id = ? AND url = ?                           *)
DeletedPrsByUrl(i) ==   \* mutant: the WHERE has lost the task
  [j \in TaskIds |-> IF PrUrl[j] = PrUrl[i] THEN None ELSE pr[j]]
DeletedPrs(i) == [pr EXCEPT ![i] = None]
DeleteOrphanPr ==
  \E f \in NextFix : /\ Fixes(f, "orphan_pr") /\ pr' = DeletedPrs(f.ref[1])
                     /\ UNCHANGED <<task, log, deps, sess, run>> /\ Repairs
DeleteOrphanHistory ==
  \E f \in NextFix : /\ Fixes(f, "orphan_history") /\ log' = [log EXCEPT ![f.ref[1]] = "none"]
                     /\ UNCHANGED <<task, pr, deps, sess, run>> /\ Repairs
DeleteOrphanDependency ==
  \E f \in NextFix : /\ Fixes(f, "orphan_dependency") /\ deps' = deps \ {f.ref}
                     /\ UNCHANGED <<task, pr, log, sess, run>> /\ Repairs
BackfillPrAuthor ==
  \E f \in NextFix :
    /\ Fixes(f, "pr_missing_author")
    /\ pr' = IF pr[f.ref[1]] # None THEN [pr EXCEPT ![f.ref[1]].author = TRUE] ELSE pr
    /\ UNCHANGED <<task, log, deps, sess, run>> /\ Repairs
(* record_run_end, whatever became of the run.                             *)
CloseStaleCronRun ==
  \E f \in NextFix : /\ Fixes(f, "stale_cron_run")
                     /\ run' = IF run = "none" THEN run ELSE "cancelled"
                     /\ UNCHANGED <<task, pr, log, deps, sess>> /\ Repairs
(* UPDATE sessions SET status='stopped' WHERE task_id=?                    *)
StoppedIfIdle(i) ==   \* mutant: an agent that was thinking is left as it is
  IF sess[i] = None \/ sess[i].status = "thinking" THEN sess
  ELSE [sess EXCEPT ![i].status = "stopped"]
Stopped(i) == IF sess[i] = None THEN sess ELSE [sess EXCEPT ![i].status = "stopped"]
CloseStaleTaskSession ==
  \E f \in NextFix : /\ Fixes(f, "stale_task_session") \/ Fixes(f, "long_idle_input_session")
                     /\ sess' = Stopped(f.ref[1])
                     /\ UNCHANGED <<task, pr, log, deps, run>> /\ Repairs
(* The row is found by the PR's url, not by the id that was found: it may  *)
(* be another one, or none.                                                *)
CloseStaleReviewSession ==
  \E f \in NextFix :
    LET i == ReviewId[f.ref[2]] IN
    /\ Fixes(f, "stale_review_session")
    /\ IF i # None
       THEN /\ task' = IF ~Gone(i) /\ task[i].kind = "review"
                       THEN [task EXCEPT ![i].active = FALSE] ELSE task
            /\ sess' = [sess EXCEPT ![i] = None]
       ELSE UNCHANGED <<task, sess>>
    /\ UNCHANGED <<pr, log, deps, run>> /\ Repairs
CanonicalizeTaskType ==
  \E f \in NextFix :
    LET i == f.ref[1] IN
    /\ Fixes(f, "noncanonical_task_type")
    /\ task' = IF Gone(i) THEN task ELSE [task EXCEPT ![i].kind = "task"]
    /\ UNCHANGED <<pr, log, deps, sess, run>> /\ Repairs
(* A fixer that raises, or gets no answer from GitHub, leaves its finding. *)
FixFails ==
  \E f \in NextFix : /\ todo' = todo \ {f} /\ touched' = touched \cup On(f)
                     /\ outside < MaxOutside /\ outside' = outside + 1
                     /\ UNCHANGED <<task, pr, log, deps, sess, run>> /\ OnlyTodo
FixFinding ==
  \/ FixFails \/ DeleteOrphanPr \/ DeleteOrphanHistory \/ DeleteOrphanDependency \/ BackfillPrAuthor
  \/ CloseStaleCronRun \/ CloseStaleTaskSession \/ CloseStaleReviewSession
  \/ CanonicalizeTaskType
FixedAll ==
  /\ stage = "fixing" /\ todo = {} /\ stage' = "done"
  /\ UNCHANGED <<task, pr, log, deps, sess, panes, run, todo, before, touched, outside>>

-----------------------------------------------------------------------------
(* What the server does between the scan and its end (TaskStore, Sessions, *)
(* CronJobs and Reviews have it in detail); before, it left any state.     *)
Touch(i) ==
  /\ stage = "fixing" /\ outside < MaxOutside /\ outside' = outside + 1
  /\ touched' = touched \cup {i} /\ UNCHANGED <<stage, todo, before>>
CreateTask(i) ==
  /\ Gone(i) /\ Touch(i) /\ task' = [task EXCEPT ![i] = Fresh]
  /\ log' = [log EXCEPT ![i] = IF @ = "none" THEN "some" ELSE @]
  /\ UNCHANGED <<pr, deps, sess, panes, run>>
(* Dependencies on the task, and its session, stay.                        *)
WithoutTask(i) ==
  /\ task' = [task EXCEPT ![i] = None] /\ pr' = [pr EXCEPT ![i] = None]
  /\ deps' = {d \in deps : d[1] # i} /\ UNCHANGED <<sess, panes, run>>
RemoveTask(i) == ~Gone(i) /\ Touch(i) /\ WithoutTask(i) /\ log' = [log EXCEPT ![i] = "none"]
(* delete_review_pr leaves the history too.                                *)
DropReview(i) ==
  /\ ~Gone(i) /\ task[i].kind = "review" /\ Touch(i) /\ WithoutTask(i) /\ UNCHANGED log
FinishTask(i) ==
  /\ ~Gone(i) /\ Touch(i) /\ task' = [task EXCEPT ![i].status = "done"]
  /\ log' = [log EXCEPT ![i] = "closing"] /\ UNCHANGED <<pr, deps, sess, panes, run>>
LinkPr(i) ==
  /\ ~Gone(i) /\ pr[i] = None /\ Touch(i)
  /\ \E p \in PrEntry : pr' = [pr EXCEPT ![i] = p]
  /\ UNCHANGED <<task, log, deps, sess, panes, run>>
(* A ticket id of no configured prefix gets no URL (derive_ticket_url).    *)
LinkTicket(i) ==
  /\ ~Gone(i) /\ Touch(i) /\ \E b \in BOOLEAN : task' = [task EXCEPT ![i].paired = b]
  /\ UNCHANGED <<pr, log, deps, sess, panes, run>>
OpenSession(i) ==
  /\ ~Gone(i) /\ i \notin panes /\ Touch(i) /\ panes' = panes \cup {i}
  /\ sess' = [sess EXCEPT ![i] = [status |-> "waiting", old |-> FALSE]]
  /\ task' = [task EXCEPT ![i].active = (@ \/ task[i].kind = "review")]
  /\ UNCHANGED <<pr, log, deps, run>>
AgentReports(i) ==
  /\ i \in panes /\ i # Job /\ sess[i] # None /\ Touch(i)
  /\ \E s \in Live \cup {"waiting"} : sess' = [sess EXCEPT ![i] = [status |-> s, old |-> FALSE]]
  /\ UNCHANGED <<task, pr, log, deps, panes, run>>
PaneDies(n) ==
  /\ n \in panes /\ Touch(n) /\ panes' = panes \ {n}
  /\ UNCHANGED <<task, pr, log, deps, sess, run>>
RunStarts ==
  /\ run # "running" /\ Touch(Job) /\ run' = "running" /\ panes' = panes \cup {Job}
  /\ UNCHANGED <<task, pr, log, deps, sess>>
RunEnds ==
  /\ run = "running" /\ Touch(Job) /\ run' = "done"
  /\ UNCHANGED <<task, pr, log, deps, sess, panes>>
ServerStep ==
  \/ \E i \in TaskIds : \/ CreateTask(i) \/ RemoveTask(i) \/ DropReview(i) \/ FinishTask(i)
                        \/ LinkPr(i) \/ LinkTicket(i) \/ OpenSession(i)
                        \/ AgentReports(i)
  \/ \E n \in TaskIds \cup {Job} : PaneDies(n)
  \/ RunStarts \/ RunEnds

AuditNext == RunAudit \/ FixFinding \/ FixedAll \/ ServerStep
AuditSpec == AuditInit /\ [][AuditNext]_avars

-----------------------------------------------------------------------------
(* "applies the registered repairs ... then re-runs the audit"             *)
(* (eva-cli:1038): of what nobody else wrote, the second scan finds        *)
(* nothing that can be repaired and nothing that the first did not find,   *)
(* of the checks that did not raise.  A review whose id is not the one its *)
(* PR's url gives cannot be reached by the repair (audit.py:733).          *)
NothingLeftToFix ==
  stage = "done" =>
    \A f \in Findings :
      On(f) \cap touched = {} /\ CheckError(f.kind) \notin before =>
        /\ f.kind \in FixKinds =>
             f.kind = "stale_review_session" /\ ReviewId[f.ref[2]] # f.ref[1]
        /\ f \in before

(* A repair takes away nothing that is in order, unless the server wrote   *)
(* it after the scan: the fixers do not look again.  The session of a row  *)
(* whose id a stale review's PR gives goes too, whatever row was stale.    *)
RepairsOnlyBroken ==
  [][stage = "fixing" /\ FixFinding =>
       \A i \in TaskIds \ touched :
         /\ pr'[i] # pr[i] => Gone(i) \/ (pr'[i] # None /\ ~pr[i].author)
         /\ log'[i] # log[i] => Gone(i)
         /\ \A d \in deps \ deps' : d[1] = i \/ d[2] = i =>
              Gone(d[1]) \/ Gone(d[2]) \/ {d[1], d[2]} \cap touched # {}
         /\ sess'[i] # sess[i] =>
              \/ i \notin panes \/ (sess[i].old /\ sess[i].status = "waiting")
              \/ \E f \in todo : /\ f.kind = "stale_review_session"
                                 /\ f.ref[1] # i /\ ReviewId[f.ref[2]] = i
         /\ Job \notin touched /\ run' # run => run = "running" /\ Job \notin panes]_avars
=============================================================================

------------------------------ MODULE TaskRules ------------------------------
(***************************************************************************)
(* The pure decisions about tasks (common/tasks.py, eva_db.py): which      *)
(* statuses there are, when a task counts as blocked and which status its  *)
(* pull requests and ticket suggest.                                       *)
(***************************************************************************)
EXTENDS Integers, FiniteSets

Statuses    == {"not_started", "in_progress", "in_review", "done", "needs_follow_up", "closed"}
Unblocking  == {"done", "closed", "needs_follow_up"}
Terminal    == {"done", "closed"}
PrStatuses  == {"draft", "open", "merged", "closed"}
NoStatus    == "none"

(* `tasks`: what load_tasks returns for one project, a function from ids   *)
(* to rows with a status; `edges` the pairs of task_dependencies.          *)
DepsOf(edges, id) == {e[2] : e \in {x \in edges : x[1] = id}}

(* common.tasks.is_task_blocked: a dependency outside the map blocks.      *)
IsBlocked(id, tasks, edges) ==
  \E d \in DepsOf(edges, id) : d \notin DOMAIN tasks \/ tasks[d].status \notin Unblocking

(* EvaDB.is_task_blocked: the same over the table, whatever the project.   *)
IsBlockedInDb(id, table, edges) ==
  Cardinality({d \in DepsOf(edges, id) :
                 d \notin DOMAIN table \/ table[d].status \notin Unblocking}) > 0

(* get_task: `blocked` is shown for a task that is not over, never stored. *)
EffectiveStatus(id, tasks, edges) ==
  IF tasks[id].status \notin Terminal /\ IsBlocked(id, tasks, edges)
  THEN "blocked" ELSE tasks[id].status

(* suggest_task_status; `prs`: the set of the statuses of the task's PRs.  *)
SuggestStatus(current, prs, ticketed, hasTickets) ==
  LET merged == prs # {} /\ prs = {"merged"}
      open   == prs \cap {"open", "draft"} # {}
  IN CASE current = "closed" -> NoStatus
       [] current # "closed" /\ merged /\ current # "done" -> "done"
       [] current # "closed" /\ open /\ current \notin {"in_review", "done"} -> "in_review"
       [] current = "not_started" /\ ~merged /\ ~open /\ hasTickets /\ ticketed -> "in_progress"
       [] OTHER -> NoStatus

(* The decision of check_status: nothing starts while it is blocked.       *)
DetectedStatus(id, tasks, edges, prs, ticketed, hasTickets) ==
  LET suggested == SuggestStatus(tasks[id].status, prs, ticketed, hasTickets)
  IN IF suggested = "in_progress" /\ IsBlocked(id, tasks, edges) THEN NoStatus ELSE suggested
=============================================================================

------------------------------- MODULE GitHub -------------------------------
(***************************************************************************)
(* The two caches the scheduler's jobs keep of GitHub: the pull requests   *)
(* of tasks and the review queue.  Their rows are apart in the tables and  *)
(* no step reads the other's, so a behaviour follows one of the two,       *)
(* `cache`, while the other rests in its first state.                      *)
(***************************************************************************)
EXTENDS Reviews

CONSTANTS Prs, Rows, PrOf, Tasks, TaskOf, MaxEvents   \* see Pulls

VARIABLES cache, github, prs, seen, notes, jobs, over, told, odd, edits, extras

INSTANCE Pulls

ASSUME EventsAssumption == MaxEvents \in Nat
ASSUME RowsAssumption   == /\ Rows \subseteq Nat /\ PrOf \in [Rows -> Prs]
                           /\ TaskOf \in [Rows -> Tasks \cup {None}]
ASSUME NoneAssumption   == None \notin Rows \cup PrRow \cup Pr \cup Hand

pullVars == <<github, prs, seen, notes, jobs, over, told, odd, edits, extras>>
all      == <<cache, pullVars, rvars>>

GitHubTypeOK == cache \in {"pulls", "reviews"} /\ PullsTypeOK /\ ReviewsTypeOK

GitHubInit ==
  /\ cache \in {"pulls", "reviews"} /\ PullsInit /\ ReviewsInit
  /\ cache = "pulls" => \A u \in Urls : asks[u].asks = "nothing"
  /\ cache = "reviews" => \A r \in Rows : prs[r] = None

Pulling   == cache = "pulls"
Reviewing == cache = "reviews"
GitHubNext ==
  \/ Pulling   /\ PullsNext   /\ UNCHANGED <<cache, rvars>>
  \/ Reviewing /\ ReviewsNext /\ UNCHANGED <<cache, pullVars>>

(* Each component's own fairness, while it is the one that runs.           *)
GitHubFairness ==
  /\ \A j \in Kinds : WF_pullVars(Pulling /\ JobStep(j))
  /\ \A p \in Prs : WF_pullVars(Pulling /\ Listeners(p))
  /\ SF_pullVars(Pulling /\ Fetch("full", Listed("full")))
  /\ WF_rvars(Reviewing /\ FullStep)
  /\ WF_rvars(Reviewing /\ QuickStep)
  /\ WF_rvars(Reviewing /\ RequestStep)
  /\ SF_rvars(Reviewing /\ SyncAnswered)

GitHubSpec == GitHubInit /\ [][GitHubNext]_all /\ GitHubFairness
=============================================================================

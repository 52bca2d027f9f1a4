------------------------------- MODULE Upkeep -------------------------------
(***************************************************************************)
(* The two parts that keep the database in order: the sync of the JIRA     *)
(* tickets, in the server, and the audit, in eva-cli.  They share the      *)
(* tasks table and no column of it, so a behaviour follows one of the two, *)
(* `part`, while the other rests.                                          *)
(***************************************************************************)
EXTENDS Tickets

CONSTANTS TaskIds, Legacy, PrUrl, ReviewId, Job, MaxFindings, MaxOutside   \* see Audit

VARIABLES part, task, pr, log, deps, sess, panes, run, stage, todo, before, touched, outside

INSTANCE Audit

ASSUME TaskIdsAssumption == IsFiniteSet(TaskIds) /\ Legacy \subseteq TaskIds /\ Job \notin TaskIds
ASSUME ReviewAssumption  == /\ ReviewId \in [PrUrls \cup {None} -> TaskIds \cup {None}]
                            /\ ReviewId[None] = None
ASSUME NoneAssumption    == None \notin TaskIds \cup Task \cup PrEntry \cup Session
ASSUME OutsideAssumption == MaxOutside \in Nat

auditVars == <<task, pr, log, deps, sess, panes, run, stage, todo, before, touched, outside>>
all       == <<part, vars, auditVars>>

Syncing  == part = "tickets"
Auditing == part = "audit"

UpkeepTypeOK == part \in {"tickets", "audit"} /\ TypeOK /\ AuditTypeOK

UpkeepInit ==
  /\ part \in {"tickets", "audit"} /\ Init /\ AuditInit
  /\ Auditing => \A k \in Keys : jira[k].state = "elsewhere"
  /\ Syncing  => /\ task = [i \in TaskIds |-> Fresh] /\ pr = [i \in TaskIds |-> None]
                 /\ log = [i \in TaskIds |-> "some"] /\ deps = {}
                 /\ sess = [i \in TaskIds |-> None] /\ run = "none"

UpkeepNext ==
  \/ Syncing  /\ Next      /\ UNCHANGED <<part, auditVars>>
  \/ Auditing /\ AuditNext /\ UNCHANGED <<part, vars>>

(* The fairness of the sync, while it is the part that runs.               *)
UpkeepFairness ==
  /\ \A s \in Syncers : WF_vars(Syncing /\ SyncStep(s))
  /\ \A s \in Syncers, n \in HealthyAt :
       /\ SF_vars(Syncing /\ sync[s].at = n /\ SearchAnswers(s))
       /\ \A k \in Keys : SF_vars(Syncing /\ sync[s].at = n /\ FetchAnswers(s, k))

UpkeepSpec == UpkeepInit /\ [][UpkeepNext]_all /\ UpkeepFairness
=============================================================================

------------------------------ MODULE CronJobs ------------------------------
(***************************************************************************)
(* User-defined cron jobs: their rows, the jobs APScheduler has armed for  *)
(* them, the history of their runs, and the tmux sessions a tick leaves    *)
(* behind.                                                                 *)
(*                                                                         *)
(* A tick (run_now) only launches an agent; the run stays open until the   *)
(* agent's Stop hook closes it, or until the next tick gives it up.  Three *)
(* kinds of threads work on a job at the same time: editors (the routes    *)
(* that create, edit and delete it), runners (one of the scheduler per     *)
(* job, and the requests behind "Run now") and the handlers of Stop hooks. *)
(* A step is one call to the database, to tmux or to the scheduler.        *)
(***************************************************************************)
EXTENDS Naturals, FiniteSets

CONSTANTS
  Jobs,         \* ids of the jobs, given once and in order (AUTOINCREMENT)
  Slugs,        \* what session_name_for_job makes of a job's name
  Schedules,    \* schedule texts
  BadSchedules, \* the texts parse_schedule rejects
  RaisingSchedules, \* the texts it accepts and CronTrigger does not (hour 25)
  NoSchedule,   \* the scheduler has no job with this id
  Editors,      \* request threads that edit jobs
  Buttons,      \* request threads behind "Run now"
  ForeignKeys,  \* FALSE once rename_task has left PRAGMA foreign_keys off
  MaxRuns,      \* bound on the runs recorded
  MaxEdits,     \* bound on the requests of editors
  MaxStops,     \* bound on the Stop hooks in flight
  MaxCrashes    \* bound on the crashes of the server

ASSUME ScheduleAssumption == /\ NoSchedule \notin Schedules
                             /\ BadSchedules \cup RaisingSchedules \subseteq Schedules
ASSUME ThreadAssumption   == Jobs \subseteq Nat /\ Jobs \cap Buttons = {}
ASSUME NamesAssumption    == Jobs # {} /\ Slugs # {} /\ Schedules # {}
ASSUME BoundsAssumption   == /\ MaxRuns \in Nat /\ MaxEdits \in Nat
                             /\ MaxStops \in Nat /\ MaxCrashes \in Nat
ASSUME KeysAssumption     == ForeignKeys \in BOOLEAN

VARIABLES
  job,      \* [Jobs -> JobRow]: the table cron_jobs
  armed,    \* what APScheduler holds for a job, in memory
  run,      \* [RunIds -> RunRow]: the table cron_job_runs
  nextRun,  \* the next id of a run
  pane,     \* [Jobs \X Slugs -> Pane]: tmux sessions cron-<slug>-<id>
  stops,    \* SUBSET Stop: the Stop hooks in flight
  runner,   \* [Runners -> Tick]: what a thread in run_now holds
  editor,   \* [Editors -> Edit]: what a thread in a route holds
  server,   \* "up" or "down"
  edits,    \* how many requests editors made
  crashes   \* how often the server crashed

sched   == <<job, armed>>
history == <<run, nextRun>>
tmux    == <<pane, stops>>
bounds  == <<edits, crashes>>
vars    == <<sched, history, tmux, runner, editor, server, bounds>>

Unarmable == BadSchedules \cup RaisingSchedules
Runners == Jobs \cup Buttons   \* runner j: max_instances = 1 of the armed job j
RunIds  == 1..MaxRuns
AnyOf(S) == CHOOSE x \in S : TRUE

JobRow == [there : BOOLEAN, born : BOOLEAN, enabled : BOOLEAN,
           schedule : Schedules, slug : Slugs]
Fields == [enabled : BOOLEAN, schedule : Schedules, slug : Slugs]
(* How a run was closed, nothing reads.  `by` is history: who started it.  *)
RunRow == [status : {"none", "running", "closed"}, job : Jobs, by : Runners]
NoPane == [run |-> 0, busy |-> FALSE]
Pane   == {NoPane} \cup [run : RunIds, busy : BOOLEAN]
Stop   == [job : Jobs, of : RunIds, target : RunIds \cup {0}]   \* 0: not looked up
Tick   == [at : {"ready", "read", "list", "cancel"},
           job : Jobs, slug : Slugs, noted : SUBSET RunIds, run : {0}]
          \cup [at : {"probe", "kill", "launch", "fail"},
                job : Jobs, slug : Slugs, noted : SUBSET RunIds, run : RunIds]
Edit   == [at : {"ready", "write", "sync", "arm", "unregister"},
           job : Jobs, fields : Fields]

NoRun   == [status |-> "none", job |-> AnyOf(Jobs), by |-> AnyOf(Jobs)]
NoTick  == [at |-> "ready", job |-> AnyOf(Jobs), slug |-> AnyOf(Slugs),
            noted |-> {}, run |-> 0]
NoEdit  == [at |-> "ready", job |-> AnyOf(Jobs), fields |->
             [enabled |-> FALSE, schedule |-> AnyOf(Schedules), slug |-> AnyOf(Slugs)]]

Open(i)       == run[i].status = "running"
OpenRuns(j)   == {i \in RunIds : Open(i) /\ run[i].job = j}
LatestOpen(j) == {i \in OpenRuns(j) : \A k \in OpenRuns(j) : k <= i}

Saved(j, f) == [there |-> TRUE, born |-> TRUE, enabled |-> f.enabled,
                schedule |-> f.schedule, slug |-> f.slug]

-----------------------------------------------------------------------------
(* routes/cron_jobs: a row is written, then sync_job reads it back.        *)

Request(e, edit) ==
  /\ server = "up" /\ editor[e].at = "ready"
  /\ edits < MaxEdits /\ edits' = edits + 1
  /\ editor' = [editor EXCEPT ![e] = edit]
GoOn(e, step) == editor' = [editor EXCEPT ![e].at = step]
Answer(e)     == editor' = [editor EXCEPT ![e] = NoEdit]

CreateJob(e, j, f) ==   \* a schedule that does not parse is stored as well
  /\ ~job[j].born /\ \A k \in Jobs : k < j => job[k].born
  /\ Request(e, [NoEdit EXCEPT !.at = "sync", !.job = j])
  /\ job' = [job EXCEPT ![j] = Saved(j, f)]
  /\ UNCHANGED <<armed, history, tmux, runner, server, crashes>>
PatchStart(e, j, f) ==
  /\ job[j].there
  /\ Request(e, [at |-> "write", job |-> j, fields |-> f])
  /\ UNCHANGED <<sched, history, tmux, runner, server, crashes>>
PatchWrite(e) ==
  LET j == editor[e].job IN
  /\ editor[e].at = "write"
  /\ job' = IF job[j].there THEN [job EXCEPT ![j] = Saved(j, editor[e].fields)] ELSE job
  /\ GoOn(e, "sync")
  /\ UNCHANGED <<armed, history, tmux, runner, server, bounds>>
DeleteOnlyJob(e, j) ==   \* mutant: no ON DELETE CASCADE
  /\ job[j].there
  /\ Request(e, [NoEdit EXCEPT !.at = "unregister", !.job = j])
  /\ job' = [job EXCEPT ![j].there = FALSE]
  /\ UNCHANGED <<armed, history, tmux, runner, server, crashes>>
(* The runs go with the row (ON DELETE CASCADE); its sessions stay.        *)
DeleteJob(e, j) ==
  /\ job[j].there
  /\ Request(e, [NoEdit EXCEPT !.at = "unregister", !.job = j])
  /\ job' = [job EXCEPT ![j].there = FALSE]
  /\ run' = [i \in RunIds |-> IF ForeignKeys /\ run[i].job = j THEN [run[i] EXCEPT !.status = "none"] ELSE run[i]]
  /\ UNCHANGED <<armed, nextRun, tmux, runner, server, crashes>>

SyncReadArms(e) ==   \* mutant: a disabled job is left to register_job, which returns
  LET j == editor[e].job IN
  /\ editor[e].at = "sync"
  /\ editor' = [editor EXCEPT
       ![e].at = IF ~job[j].there THEN "unregister" ELSE IF job[j].enabled THEN "arm" ELSE "ready",
       ![e].fields.schedule = job[j].schedule]
  /\ UNCHANGED <<sched, history, tmux, runner, server, bounds>>
(* sync_job: the row it reads may be newer than the one this thread wrote, *)
(* and older than the one it arms.                                         *)
SyncRead(e) ==
  LET j == editor[e].job IN
  /\ editor[e].at = "sync"
  /\ editor' = [editor EXCEPT
       ![e].at = IF job[j].there /\ job[j].enabled THEN "arm" ELSE "unregister",
       ![e].fields.schedule = job[j].schedule]
  /\ UNCHANGED <<sched, history, tmux, runner, server, bounds>>
(* register_job: a schedule that gives no trigger leaves what was armed;   *)
(* False is returned, or the exception makes the request a 500.            *)
Arm(e) ==
  LET s == editor[e].fields.schedule IN
  /\ editor[e].at = "arm"
  /\ armed' = IF s \in Unarmable THEN armed ELSE [armed EXCEPT ![editor[e].job] = s]
  /\ Answer(e)
  /\ UNCHANGED <<job, history, tmux, runner, server, bounds>>
Unregister(e) ==
  /\ editor[e].at = "unregister"
  /\ armed' = [armed EXCEPT ![editor[e].job] = NoSchedule]
  /\ Answer(e)
  /\ UNCHANGED <<job, history, tmux, runner, server, bounds>>

-----------------------------------------------------------------------------
(* run_now                                                                 *)

Begin(r, j) ==
  /\ server = "up" /\ runner[r].at = "ready"
  /\ runner' = [runner EXCEPT ![r] = [NoTick EXCEPT !.at = "read", !.job = j]]
  /\ UNCHANGED <<sched, history, tmux, editor, server, bounds>>
Fire(j)     == armed[j] # NoSchedule /\ Begin(j, j)
Press(b, j) == Begin(b, j)

Goto(r, step)  == runner' = [runner EXCEPT ![r].at = step]
Finish(r)      == runner' = [runner EXCEPT ![r] = NoTick]
Session(r)     == <<runner[r].job, runner[r].slug>>
Close(i) ==   \* UPDATE ... WHERE id: whatever the run's status was
  run' = IF run[i].status = "none" THEN run ELSE [run EXCEPT ![i].status = "closed"]

ReadJob(r) ==   \* `enabled` is not looked at
  LET j == runner[r].job IN
  /\ runner[r].at = "read"
  /\ IF job[j].there
     THEN runner' = [runner EXCEPT ![r].at = "list", ![r].slug = job[j].slug]
     ELSE Finish(r)
  /\ UNCHANGED <<sched, history, tmux, editor, server, bounds>>
ListLatestOnly(r) ==   \* mutant: only the latest open run is superseded
  /\ runner[r].at = "list"
  /\ runner' = [runner EXCEPT ![r].at = "cancel", ![r].noted = LatestOpen(runner[r].job)]
  /\ UNCHANGED <<sched, history, tmux, editor, server, bounds>>
(* supersede_open_runs: list the open runs, then cancel them one by one.   *)
ListOpen(r) ==
  /\ runner[r].at = "list"
  /\ runner' = [runner EXCEPT ![r].at = "cancel", ![r].noted = OpenRuns(runner[r].job)]
  /\ UNCHANGED <<sched, history, tmux, editor, server, bounds>>
CancelOldest(r) ==
  /\ runner[r].at = "cancel"
  /\ \E i \in runner[r].noted :
       /\ \A k \in runner[r].noted : i <= k
       /\ Close(i)
       /\ runner' = [runner EXCEPT ![r].noted = @ \ {i}]
  /\ UNCHANGED <<sched, nextRun, tmux, editor, server, bounds>>
(* record_run_start: the foreign key refuses a run of a deleted job.       *)
InsertRun(r) ==
  /\ runner[r].at = "cancel" /\ runner[r].noted = {}
  /\ IF job[runner[r].job].there \/ ~ForeignKeys
     THEN /\ nextRun \in RunIds
          /\ run' = [run EXCEPT ![nextRun] =
                       [status |-> "running", job |-> runner[r].job, by |-> r]]
          /\ nextRun' = nextRun + 1
          /\ runner' = [runner EXCEPT ![r].at = "probe", ![r].run = nextRun]
     ELSE Finish(r) /\ UNCHANGED history
  /\ UNCHANGED <<sched, tmux, editor, server, bounds>>

(* _default_executor: a prior session of this name is killed, then the     *)
(* agent is launched with the command as its prompt.                       *)
Probe(r) ==
  /\ runner[r].at = "probe"
  /\ Goto(r, IF pane[Session(r)].run # 0 THEN "kill" ELSE "launch")
  /\ UNCHANGED <<sched, history, tmux, editor, server, bounds>>
Kill(r) ==
  /\ runner[r].at = "kill"
  /\ pane' = [pane EXCEPT ![Session(r)] = NoPane]
  /\ Goto(r, "launch")
  /\ UNCHANGED <<sched, history, stops, editor, server, bounds>>
Launch(r) ==   \* nothing when the name is taken; the run stays open
  /\ runner[r].at = "launch"
  /\ pane' = IF pane[Session(r)].run # 0 THEN pane
             ELSE [pane EXCEPT ![Session(r)] = [run |-> runner[r].run, busy |-> TRUE]]
  /\ Finish(r)
  /\ UNCHANGED <<sched, history, stops, editor, server, bounds>>
ExecutorFails(r) ==   \* an empty command, no agent, or tmux refuses
  /\ runner[r].at \in {"probe", "launch"}
  /\ Goto(r, "fail")
  /\ UNCHANGED <<sched, history, tmux, editor, server, bounds>>
FailRun(r) ==
  /\ runner[r].at = "fail"
  /\ Close(runner[r].run)
  /\ Finish(r)
  /\ UNCHANGED <<sched, nextRun, tmux, editor, server, bounds>>

-----------------------------------------------------------------------------
(* The agents, and the Stop hook that closes a run.                        *)

AgentStops(s) ==
  /\ pane[s].busy
  /\ pane' = [pane EXCEPT ![s].busy = FALSE]
  /\ IF server = "up"
     THEN /\ Cardinality(stops) < MaxStops
          /\ stops' = stops \cup {[job |-> s[1], of |-> pane[s].run, target |-> 0]}
     ELSE UNCHANGED stops
  /\ UNCHANGED <<sched, history, runner, editor, server, bounds>>
AgentPrompted(s) ==   \* a user attached to the session
  /\ pane[s].run # 0 /\ ~pane[s].busy
  /\ pane' = [pane EXCEPT ![s].busy = TRUE]
  /\ UNCHANGED <<sched, history, stops, runner, editor, server, bounds>>
SessionEnds(s) ==
  /\ pane[s].run # 0
  /\ pane' = [pane EXCEPT ![s] = NoPane]
  /\ UNCHANGED <<sched, history, stops, runner, editor, server, bounds>>

(* finish_run_for_session: the latest open run of the job in the name.     *)
StopLooksUp(h) ==
  /\ h \in stops /\ h.target = 0
  /\ stops' = (stops \ {h}) \cup {[h EXCEPT !.target = i] : i \in LatestOpen(h.job)}
  /\ UNCHANGED <<sched, history, pane, runner, editor, server, bounds>>
StopCloses(h) ==
  /\ h \in stops /\ h.target # 0
  /\ Close(h.target)
  /\ stops' = stops \ {h}
  /\ UNCHANGED <<sched, nextRun, pane, runner, editor, server, bounds>>

-----------------------------------------------------------------------------
ServerCrash ==
  /\ server = "up" /\ crashes < MaxCrashes
  /\ server' = "down" /\ crashes' = crashes + 1
  /\ armed'  = [j \in Jobs |-> NoSchedule]
  /\ runner' = [r \in Runners |-> NoTick]
  /\ editor' = [e \in Editors |-> NoEdit]
  /\ stops'  = {}
  /\ UNCHANGED <<job, history, pane, edits>>
ServerStartUnparsed ==   \* mutant: a schedule that does not parse is armed
  /\ server = "down"
  /\ server' = "up"
  /\ armed' = [j \in Jobs |-> IF job[j].there /\ job[j].enabled
                             THEN job[j].schedule ELSE NoSchedule]
  /\ UNCHANGED <<job, history, tmux, runner, editor, bounds>>
(* register_all, newest row first: a row that does not parse is skipped, a *)
(* row that raises ends the loop and leaves the older rows unarmed.        *)
Raises(k) == job[k].there /\ job[k].enabled /\ job[k].schedule \in RaisingSchedules
Reached(j) == \A k \in Jobs : k > j => ~Raises(k)
ServerStart ==
  /\ server = "down"
  /\ server' = "up"
  /\ armed' = [j \in Jobs |->
       IF job[j].there /\ job[j].enabled /\ job[j].schedule \notin Unarmable /\ Reached(j)
       THEN job[j].schedule ELSE NoSchedule]
  /\ UNCHANGED <<job, history, tmux, runner, editor, bounds>>

Init ==
  /\ job = [j \in Jobs |-> [there |-> FALSE, born |-> FALSE, enabled |-> FALSE,
                            schedule |-> AnyOf(Schedules), slug |-> AnyOf(Slugs)]]
  /\ armed = [j \in Jobs |-> NoSchedule]
  /\ run = [i \in RunIds |-> NoRun] /\ nextRun = 1
  /\ pane = [s \in Jobs \X Slugs |-> NoPane]
  /\ stops = {}
  /\ runner = [r \in Runners |-> NoTick]
  /\ editor = [e \in Editors |-> NoEdit]
  /\ server = "up" /\ edits = 0 /\ crashes = 0

EditorStep(e) ==
  \/ \E j \in Jobs, f \in Fields : CreateJob(e, j, f) \/ PatchStart(e, j, f)
  \/ \E j \in Jobs : DeleteJob(e, j)
  \/ PatchWrite(e) \/ SyncRead(e) \/ Arm(e) \/ Unregister(e)
TickStep(r) ==
  \/ ReadJob(r) \/ ListOpen(r) \/ CancelOldest(r) \/ InsertRun(r)
  \/ Probe(r) \/ Kill(r) \/ Launch(r) \/ ExecutorFails(r) \/ FailRun(r)
AgentStep(s) == AgentStops(s) \/ AgentPrompted(s) \/ SessionEnds(s)

Next ==
  \/ \E e \in Editors : EditorStep(e)
  \/ \E j \in Jobs : Fire(j) \/ \E b \in Buttons : Press(b, j)
  \/ \E r \in Runners : TickStep(r)
  \/ \E s \in Jobs \X Slugs : AgentStep(s)
  \/ \E h \in stops : StopLooksUp(h) \/ StopCloses(h)
  \/ ServerCrash \/ ServerStart

Spec == Init /\ [][Next]_vars

-----------------------------------------------------------------------------
(* Rows, scheduler, runs, sessions and threads hold what their types say;  *)
(* what is armed is a schedule that has a trigger (_trigger_for).          *)
TypeOK ==
  /\ job \in [Jobs -> JobRow]
  /\ armed \in [Jobs -> (Schedules \ Unarmable) \cup {NoSchedule}]
  /\ run \in [RunIds -> RunRow] /\ nextRun \in 1..MaxRuns + 1
  /\ pane \in [Jobs \X Slugs -> Pane]
  /\ stops \subseteq Stop
  /\ runner \in [Runners -> Tick]
  /\ editor \in [Editors -> Edit]
  /\ server \in {"up", "down"}
  /\ edits \in 0..MaxEdits /\ crashes \in 0..MaxCrashes

(* Open runs cannot pile up: two open runs of a job were started by two    *)
(* threads, so that there are never more of them than threads that tick it *)
(* at once, whatever hooks and ticks the server loses (supersede_open_runs *)
(* "drains all such drifters in one go").                                  *)
OpenRunsBounded ==
  \A i, k \in RunIds :
    Open(i) /\ Open(k) /\ run[i].job = run[k].job /\ i # k => run[i].by # run[k].by

(* However late a tick or a trigger that still lingers runs, a job that is *)
(* gone has no run (run_now, the foreign key and its cascade).  It takes   *)
(* foreign keys that are on (README).                                      *)
RunsHaveJobs == \A i \in RunIds : run[i].status # "none" => job[run[i].job].there

(* With no edit under way, what is armed is what the rows say: the         *)
(* schedule of an enabled row, nothing for a disabled or deleted one       *)
(* (cron_runner.py: register_all "arms every enabled job", sync_job is     *)
(* called "so a stale schedule never lingers").  A row whose own schedule  *)
(* has no trigger keeps what was armed before.  It takes one editor at a   *)
(* time, and schedules that do not raise (README).                         *)
ArmedAsEdited ==
  \A j \in Jobs :
    server = "up" /\ (\A e \in Editors : editor[e].at = "ready") =>
      IF job[j].there /\ job[j].enabled
      THEN job[j].schedule \in Unarmable \/ armed[j] = job[j].schedule
      ELSE armed[j] = NoSchedule

(* cron_jobs.py run_now: a run is closed "from the agent's Stop hook, when *)
(* the session goes idle": the run that a Stop hook is about to close is   *)
(* the one whose own session posted the hook.                              *)
StopClosesItsOwnRun == \A h \in stops : h.target \in {0, h.of}
=============================================================================

-------------------------- MODULE CronJobs_proofs --------------------------
(***************************************************************************)
(* What holds of cron jobs for any number of jobs, threads, runs, edits    *)
(* and crashes.                                                            *)
(***************************************************************************)
EXTENDS CronJobs, TLAPS

(* The null records are well typed.                                        *)
LEMMA NullsOK ==
  /\ NoRun \in RunRow /\ NoPane \in Pane /\ NoTick \in Tick /\ NoEdit \in Edit
  /\ AnyOf(Jobs) \in Jobs /\ AnyOf(Slugs) \in Slugs /\ AnyOf(Schedules) \in Schedules
<1>1. AnyOf(Jobs) \in Jobs /\ AnyOf(Slugs) \in Slugs /\ AnyOf(Schedules) \in Schedules
  BY NamesAssumption DEF AnyOf
<1> QED
  BY <1>1 DEF NoRun, RunRow, Runners, NoPane, Pane, NoTick, Tick, NoEdit, Edit, Fields

(* Open runs are run ids.                                                  *)
LEMMA OpenIds == \A j \in Jobs : OpenRuns(j) \subseteq RunIds /\ LatestOpen(j) \subseteq RunIds
BY DEF OpenRuns, LatestOpen

(* Closing a run touches its status alone, and opens none.                 *)
LEMMA CloseOK ==
  ASSUME TypeOK, NEW i \in RunIds, Close(i)
  PROVE  /\ run' \in [RunIds -> RunRow]
         /\ \A k \in RunIds : /\ run'[k].job = run[k].job /\ run'[k].by = run[k].by
                              /\ Open(k)' => Open(k) /\ k # i
                              /\ run'[k].status # "none" => run[k].status # "none"
BY DEF TypeOK, Close, RunRow, Open

(* The steps of editors are well typed.                                    *)
LEMMA EditorTypes ==
  ASSUME TypeOK, NEW e \in Editors, EditorStep(e)
  PROVE  TypeOK'
<1> USE DEF TypeOK
<1>1. ASSUME NEW edit \in Edit, Request(e, edit)
      PROVE  editor' \in [Editors -> Edit] /\ edits' \in 0..MaxEdits
  BY <1>1, BoundsAssumption DEF Request
<1>2. ASSUME NEW j \in Jobs, NEW f \in Fields, CreateJob(e, j, f)
      PROVE  TypeOK'
  <2>1. [NoEdit EXCEPT !.at = "sync", !.job = j] \in Edit
    BY NullsOK DEF Edit
  <2>2. Saved(j, f) \in JobRow
    BY DEF Saved, JobRow, Fields
  <2> QED BY <1>1, <1>2, <2>1, <2>2 DEF CreateJob, history, tmux
<1>3. ASSUME NEW j \in Jobs, NEW f \in Fields, PatchStart(e, j, f)
      PROVE  TypeOK'
  <2>1. [at |-> "write", job |-> j, fields |-> f] \in Edit
    BY DEF Edit
  <2> QED BY <1>1, <1>3, <2>1 DEF PatchStart, sched, history, tmux
<1>4. ASSUME NEW j \in Jobs, DeleteJob(e, j)
      PROVE  TypeOK'
  <2>1. [NoEdit EXCEPT !.at = "unregister", !.job = j] \in Edit
    BY NullsOK DEF Edit
  <2>2. job' \in [Jobs -> JobRow] /\ run' \in [RunIds -> RunRow]
    BY <1>4 DEF DeleteJob, JobRow, RunRow
  <2> QED BY <1>1, <1>4, <2>1, <2>2 DEF DeleteJob, tmux
<1>5. CASE PatchWrite(e)
  <2>1. editor' \in [Editors -> Edit]
    BY <1>5 DEF PatchWrite, GoOn, Edit
  <2>2. job' \in [Jobs -> JobRow]
    BY <1>5 DEF PatchWrite, Saved, JobRow, Edit, Fields
  <2> QED BY <1>5, <2>1, <2>2 DEF PatchWrite, history, tmux, bounds
<1>6. CASE SyncRead(e)
  <2>0. editor[e] \in Edit /\ job[editor[e].job].schedule \in Schedules
    BY DEF Edit, JobRow
  <2>1. editor' \in [Editors -> Edit]
    <3>1. \A step \in {"arm", "unregister"}, z \in Schedules :
            [editor EXCEPT ![e].at = step, ![e].fields.schedule = z] \in [Editors -> Edit]
      BY <2>0 DEF Edit, Fields
    <3> QED BY <1>6, <2>0, <3>1 DEF SyncRead
  <2> QED BY <1>6, <2>1 DEF SyncRead, sched, history, tmux, bounds
<1>7. CASE Arm(e) \/ Unregister(e)
  <2>1. editor' \in [Editors -> Edit]
    BY <1>7, NullsOK DEF Arm, Unregister, Answer
  <2>2. armed' \in [Jobs -> (Schedules \ Unarmable) \cup {NoSchedule}]
    BY <1>7 DEF Arm, Unregister, Edit, Fields
  <2> QED BY <1>7, <2>1, <2>2 DEF Arm, Unregister, history, tmux, bounds
<1> QED BY <1>2, <1>3, <1>4, <1>5, <1>6, <1>7 DEF EditorStep

(* A tick that begins is well typed.                                       *)
LEMMA BeginTypes ==
  ASSUME TypeOK, NEW r \in Runners, NEW j \in Jobs, Begin(r, j)
  PROVE  TypeOK'
<1>1. [NoTick EXCEPT !.at = "read", !.job = j] \in Tick
  BY NullsOK DEF NoTick, Tick
<1> QED BY <1>1 DEF TypeOK, Begin, sched, history, tmux, bounds

(* The steps of a tick are well typed.                                     *)
LEMMA TickTypes ==
  ASSUME TypeOK, NEW r \in Runners, TickStep(r)
  PROVE  TypeOK'
<1> USE DEF TypeOK
<1>1. runner[r] \in Tick
  OBVIOUS
<1>2. ASSUME NEW step \in {"launch", "fail", "kill"}, Goto(r, step),
             runner[r].at \in {"probe", "kill", "launch"}
      PROVE  runner' \in [Runners -> Tick]
  BY <1>1, <1>2 DEF Goto, Tick
<1>3. ASSUME Finish(r) PROVE runner' \in [Runners -> Tick]
  BY <1>3, NullsOK DEF Finish
<1>4. CASE ReadJob(r)
  <2>1. runner' \in [Runners -> Tick]
    BY <1>1, <1>3, <1>4 DEF ReadJob, Tick, JobRow
  <2> QED BY <1>4, <2>1 DEF ReadJob, sched, history, tmux, bounds
<1>5. CASE ListOpen(r)
  <2>1. runner' \in [Runners -> Tick]
    BY <1>1, <1>5, OpenIds DEF ListOpen, Tick
  <2> QED BY <1>5, <2>1 DEF ListOpen, sched, history, tmux, bounds
<1>6. CASE CancelOldest(r)
  <2>1. PICK i \in runner[r].noted : Close(i) /\ runner' = [runner EXCEPT ![r].noted = @ \ {i}]
    BY <1>6 DEF CancelOldest
  <2>2. i \in RunIds
    BY <1>1 DEF Tick
  <2>3. runner' \in [Runners -> Tick]
    BY <2>1, <1>1 DEF Tick
  <2> QED BY <1>6, <2>1, <2>2, <2>3, CloseOK DEF CancelOldest, sched, tmux, bounds
<1>7. CASE InsertRun(r)
  <2>1. CASE job[runner[r].job].there \/ ~ForeignKeys
    <3>1. nextRun \in RunIds /\ nextRun' = nextRun + 1
      BY <1>7, <2>1 DEF InsertRun
    <3>2. nextRun' \in 1..MaxRuns + 1
      BY <3>1, BoundsAssumption DEF RunIds
    <3>3. [status |-> "running", job |-> runner[r].job, by |-> r] \in RunRow
      BY <1>1 DEF Tick, RunRow
    <3>4. run' \in [RunIds -> RunRow]
      BY <1>7, <2>1, <3>3 DEF InsertRun
    <3>5. runner' = [runner EXCEPT ![r] = [runner[r] EXCEPT !.at = "probe", !.run = nextRun]]
      BY <1>7, <2>1 DEF InsertRun
    <3>6. [runner[r] EXCEPT !.at = "probe", !.run = nextRun] \in Tick
      BY <1>1, <3>1 DEF Tick
    <3>7. runner' \in [Runners -> Tick]
      BY <3>5, <3>6
    <3> QED BY <1>7, <2>1, <3>2, <3>4, <3>7 DEF InsertRun, sched, tmux, bounds
  <2>2. CASE ~(job[runner[r].job].there \/ ~ForeignKeys)
    BY <1>3, <1>7, <2>2 DEF InsertRun, sched, history, tmux, bounds
  <2> QED BY <2>1, <2>2
<1>8. CASE Probe(r) \/ ExecutorFails(r)
  <2>1. runner' \in [Runners -> Tick]
    BY <1>2, <1>8 DEF Probe, ExecutorFails
  <2> QED BY <1>8, <2>1 DEF Probe, ExecutorFails, sched, history, tmux, bounds
<1>9. CASE Kill(r)
  <2>1. runner' \in [Runners -> Tick] /\ pane' \in [Jobs \X Slugs -> Pane]
    BY <1>2, <1>9, NullsOK DEF Kill
  <2> QED BY <1>9, <2>1 DEF Kill, sched, history, bounds
<1>10. CASE Launch(r)
  <2>1. pane' \in [Jobs \X Slugs -> Pane]
    BY <1>1, <1>10 DEF Launch, Tick, Pane
  <2> QED BY <1>3, <1>10, <2>1 DEF Launch, sched, history, bounds
<1>11. CASE FailRun(r)
  <2>1. runner[r].run \in RunIds
    BY <1>1, <1>11 DEF FailRun, Tick
  <2>2. run' \in [RunIds -> RunRow]
    BY <1>11, <2>1, CloseOK DEF FailRun
  <2> QED BY <1>3, <1>11, <2>2 DEF FailRun, sched, tmux, bounds
<1> QED BY <1>4, <1>5, <1>6, <1>7, <1>8, <1>9, <1>10, <1>11 DEF TickStep

(* The steps of agents, Stop hooks and the server are well typed.          *)
LEMMA OtherTypes ==
  ASSUME TypeOK,
         \/ \E s \in Jobs \X Slugs : AgentStep(s)
         \/ \E h \in stops : StopLooksUp(h) \/ StopCloses(h)
         \/ ServerCrash \/ ServerStart
  PROVE  TypeOK'
<1> USE DEF TypeOK
<1>1. ASSUME NEW s \in Jobs \X Slugs, AgentStep(s) PROVE TypeOK'
  <2>1. pane' \in [Jobs \X Slugs -> Pane]
    <3>1. pane[s] \in Pane
      OBVIOUS
    <3>2. pane[s].run # 0 \/ pane[s].busy => \A b \in BOOLEAN : [pane[s] EXCEPT !.busy = b] \in Pane
      BY <3>1 DEF Pane, NoPane
    <3>3. CASE AgentStops(s)
      BY <3>2, <3>3 DEF AgentStops
    <3>4. CASE AgentPrompted(s)
      BY <3>2, <3>4 DEF AgentPrompted
    <3>5. CASE SessionEnds(s)
      BY <3>5, NullsOK DEF SessionEnds
    <3> QED BY <1>1, <3>3, <3>4, <3>5 DEF AgentStep
  <2>2. stops' \subseteq Stop
    <3>1. CASE AgentStops(s)
      <4>1. [job |-> s[1], of |-> pane[s].run, target |-> 0] \in Stop
        BY <3>1 DEF AgentStops, Stop, Pane, NoPane
      <4> QED BY <3>1, <4>1 DEF AgentStops
    <3>2. CASE ~AgentStops(s)
      BY <1>1, <3>2 DEF AgentStep, AgentPrompted, SessionEnds
    <3> QED BY <1>1, <3>1, <3>2 DEF AgentStops
  <2> QED BY <1>1, <2>1, <2>2
         DEF AgentStep, AgentStops, AgentPrompted, SessionEnds, sched, history, bounds
<1>2. ASSUME NEW h \in stops, StopLooksUp(h) PROVE TypeOK'
  <2>1. h \in Stop
    OBVIOUS
  <2>2. \A i \in LatestOpen(h.job) : [h EXCEPT !.target = i] \in Stop
    BY <2>1, OpenIds DEF Stop
  <2>3. stops' \subseteq Stop
    BY <1>2, <2>2 DEF StopLooksUp
  <2> QED BY <1>2, <2>3 DEF StopLooksUp, sched, history, bounds
<1>3. ASSUME NEW h \in stops, StopCloses(h) PROVE TypeOK'
  <2>1. h.target \in RunIds
    BY <1>3 DEF StopCloses, Stop
  <2> QED BY <1>3, <2>1, CloseOK DEF StopCloses, sched, bounds
<1>4. CASE ServerCrash
  BY <1>4, NullsOK, BoundsAssumption DEF ServerCrash, history
<1>5. CASE ServerStart
  <2>1. armed' \in [Jobs -> (Schedules \ Unarmable) \cup {NoSchedule}]
    BY <1>5 DEF ServerStart, JobRow
  <2> QED BY <1>5, <2>1 DEF ServerStart, history, tmux, bounds
<1> QED BY <1>1, <1>2, <1>3, <1>4, <1>5

(* Every step keeps the types.                                             *)
LEMMA NextTypes == TypeOK /\ [Next]_vars => TypeOK'
<1> SUFFICES ASSUME TypeOK, [Next]_vars PROVE TypeOK'
  OBVIOUS
<1>1. ASSUME NEW j \in Jobs, Fire(j) \/ \E b \in Buttons : Press(b, j) PROVE TypeOK'
  BY <1>1, BeginTypes DEF Fire, Press, Runners
<1>2. CASE UNCHANGED vars
  BY <1>2 DEF TypeOK, vars, sched, history, tmux, bounds
<1> QED BY <1>1, <1>2, EditorTypes, TickTypes, OtherTypes DEF Next

(* The first state is well typed.                                          *)
LEMMA InitTypes == Init => TypeOK
<1>1. Init => job \in [Jobs -> JobRow]
  BY NullsOK DEF Init, JobRow
<1>2. Init => nextRun \in 1..MaxRuns + 1 /\ edits \in 0..MaxEdits /\ crashes \in 0..MaxCrashes
  BY BoundsAssumption DEF Init
<1>3. Init => pane \in [Jobs \X Slugs -> Pane]
  BY NullsOK DEF Init
<1> QED BY <1>1, <1>2, <1>3, NullsOK DEF Init, TypeOK

(* Every store and thread always holds what its type says, and only        *)
(* schedules that have a trigger are armed.                                *)
THEOREM TypeCorrect == Spec => []TypeOK
BY InitTypes, NextTypes, PTL DEF Spec

-----------------------------------------------------------------------------
(* Open runs do not pile up.                                               *)

(* A thread that has listed the open runs of a job and goes on cancelling  *)
(* them still holds every open run of that job that it started itself.     *)
OwnNoted ==
  \A r \in Runners, i \in RunIds :
    runner[r].at = "cancel" /\ Open(i) /\ run[i].by = r /\ run[i].job = runner[r].job
      => i \in runner[r].noted
RInv == TypeOK /\ OpenRunsBounded /\ OwnNoted

(* A step that opens no run, changes neither job nor thread of one, and    *)
(* lets no thread forget what it noted, keeps the invariant.               *)
LEMMA KeepsBounded ==
  ASSUME RInv,
         \A i \in RunIds : Open(i)' => /\ Open(i)
                                       /\ run'[i].job = run[i].job /\ run'[i].by = run[i].by,
         \A r \in Runners : runner'[r].at = "cancel" =>
           /\ runner[r].at = "cancel" /\ runner'[r].job = runner[r].job
           /\ \A i \in RunIds : i \in runner[r].noted /\ Open(i)' => i \in runner'[r].noted
  PROVE  OpenRunsBounded' /\ OwnNoted'
BY DEF RInv, OpenRunsBounded, OwnNoted

(* Every step of a tick keeps the invariant.                               *)
LEMMA TickBounded ==
  ASSUME RInv, NEW r \in Runners, TickStep(r)
  PROVE  OpenRunsBounded' /\ OwnNoted'
<1>0. TypeOK /\ runner \in [Runners -> Tick] /\ runner[r] \in Tick
  BY DEF RInv, TypeOK
<1>1. CASE \/ ReadJob(r) \/ Probe(r) \/ Kill(r) \/ Launch(r) \/ ExecutorFails(r)
  <2>1. run' = run
    BY <1>1 DEF ReadJob, Probe, Kill, Launch, ExecutorFails, history
  <2>2. \A q \in Runners : runner'[q].at = "cancel" => runner'[q] = runner[q]
    BY <1>0, <1>1 DEF ReadJob, Probe, Kill, Launch, ExecutorFails, Goto, Finish, NoTick, Tick
  <2> QED BY <2>1, <2>2, KeepsBounded DEF Open
<1>2. CASE FailRun(r)
  <2>1. runner[r].run \in RunIds /\ Close(runner[r].run)
    BY <1>0, <1>2 DEF FailRun, Tick
  <2>2. \A q \in Runners : runner'[q].at = "cancel" => runner'[q] = runner[q]
    BY <1>0, <1>2 DEF FailRun, Finish, NoTick
  <2> QED BY <1>0, <2>1, <2>2, CloseOK, KeepsBounded
<1>3. CASE ListOpen(r)
  <2>1. run' = run
    BY <1>3 DEF ListOpen, history
  <2>2. \A q \in Runners : q # r => runner'[q] = runner[q]
    BY <1>0, <1>3 DEF ListOpen
  <2>3. runner'[r].noted = OpenRuns(runner'[r].job)
    BY <1>0, <1>3 DEF ListOpen, Tick
  <2> QED BY <2>1, <2>2, <2>3 DEF RInv, OpenRunsBounded, OwnNoted, Open, OpenRuns
<1>4. CASE CancelOldest(r)
  <2>1. PICK i \in runner[r].noted : Close(i) /\ runner' = [runner EXCEPT ![r].noted = @ \ {i}]
    BY <1>4 DEF CancelOldest
  <2>2. i \in RunIds
    BY <1>0 DEF Tick
  <2>3. \A q \in Runners : /\ runner'[q].at = runner[q].at /\ runner'[q].job = runner[q].job
                           /\ \A k \in runner[q].noted : k # i => k \in runner'[q].noted
    BY <1>0, <2>1 DEF Tick
  <2>4. ~Open(i)'
    BY <1>0, <2>1, <2>2, CloseOK
  <2> QED BY <1>0, <2>1, <2>2, <2>3, <2>4, CloseOK, KeepsBounded
<1>5. CASE InsertRun(r)
  <2>1. CASE job[runner[r].job].there \/ ~ForeignKeys
    <3>1. /\ nextRun \in RunIds
          /\ run' = [run EXCEPT ![nextRun] =
                       [status |-> "running", job |-> runner[r].job, by |-> r]]
      BY <1>5, <2>1 DEF InsertRun
    <3>2. \A q \in Runners : runner'[q].at = "cancel" => runner'[q] = runner[q] /\ q # r
      BY <1>0, <1>5, <2>1 DEF InsertRun, Tick
    <3>3. \A i \in RunIds : Open(i) /\ run[i].by = r => run[i].job # runner[r].job
      BY <1>5 DEF InsertRun, RInv, OwnNoted
    <3>4. \A i \in RunIds : i # nextRun => run'[i] = run[i]
      BY <1>0, <3>1 DEF TypeOK
    <3>5. run'[nextRun].by = r /\ run'[nextRun].job = runner[r].job
      BY <1>0, <3>1 DEF TypeOK
    <3>6. OpenRunsBounded'
      BY <3>3, <3>4, <3>5 DEF RInv, OpenRunsBounded, Open
    <3>7. OwnNoted'
      BY <3>2, <3>4, <3>5 DEF RInv, OwnNoted, Open
    <3> QED BY <3>6, <3>7
  <2>2. CASE ~(job[runner[r].job].there \/ ~ForeignKeys)
    <3>1. run' = run
      BY <1>5, <2>2 DEF InsertRun, history
    <3>2. \A q \in Runners : runner'[q].at = "cancel" => runner'[q] = runner[q]
      BY <1>0, <1>5, <2>2 DEF InsertRun, Finish, NoTick
    <3> QED BY <3>1, <3>2, KeepsBounded DEF Open
  <2> QED BY <2>1, <2>2
<1> QED BY <1>1, <1>2, <1>3, <1>4, <1>5 DEF TickStep

(* Every step keeps the invariant.                                         *)
LEMMA NextBounded == RInv /\ [Next]_vars => RInv'
<1> SUFFICES ASSUME RInv, [Next]_vars PROVE OpenRunsBounded' /\ OwnNoted'
  BY NextTypes DEF RInv
<1>0. TypeOK
  BY DEF RInv
<1>1. ASSUME NEW j \in Jobs, Fire(j) \/ \E b \in Buttons : Press(b, j)
      PROVE  OpenRunsBounded' /\ OwnNoted'
  <2>1. PICK r \in Runners : Begin(r, j)
    BY <1>1 DEF Fire, Press, Runners
  <2>2. run' = run /\ \A q \in Runners : runner'[q].at = "cancel" => runner'[q] = runner[q]
    BY <1>0, <2>1 DEF Begin, TypeOK, NoTick, history
  <2> QED BY <2>2, KeepsBounded DEF Open
<1>2. ASSUME NEW e \in Editors, EditorStep(e) PROVE OpenRunsBounded' /\ OwnNoted'
  <2>1. runner' = runner
    BY <1>2 DEF EditorStep, CreateJob, PatchStart, DeleteJob, PatchWrite, SyncRead, Arm, Unregister
  <2>2. \A i \in RunIds : Open(i)' => /\ Open(i)
                                      /\ run'[i].job = run[i].job /\ run'[i].by = run[i].by
    <3>1. CASE run' = run
      BY <3>1 DEF Open
    <3>2. CASE \E j \in Jobs : DeleteJob(e, j)
      BY <1>0, <3>2 DEF DeleteJob, TypeOK, RunRow, Open
    <3> QED BY <1>2, <3>1, <3>2
            DEF EditorStep, CreateJob, PatchStart, PatchWrite, SyncRead, Arm, Unregister, history
  <2> QED BY <2>1, <2>2, KeepsBounded
<1>3. ASSUME NEW h \in stops, StopLooksUp(h) \/ StopCloses(h) PROVE OpenRunsBounded' /\ OwnNoted'
  <2>1. runner' = runner
    BY <1>3 DEF StopLooksUp, StopCloses
  <2>2. \A i \in RunIds : Open(i)' => /\ Open(i)
                                      /\ run'[i].job = run[i].job /\ run'[i].by = run[i].by
    <3>1. CASE StopLooksUp(h)
      BY <3>1 DEF StopLooksUp, history, Open
    <3>2. CASE StopCloses(h)
      <4>1. h.target \in RunIds
        BY <1>0, <3>2 DEF StopCloses, TypeOK, Stop
      <4> QED BY <1>0, <3>2, <4>1, CloseOK DEF StopCloses
    <3> QED BY <1>3, <3>1, <3>2
  <2> QED BY <2>1, <2>2, KeepsBounded
<1>4. CASE \/ \E s \in Jobs \X Slugs : AgentStep(s)
           \/ ServerCrash \/ ServerStart \/ UNCHANGED vars
  <2>1. run' = run
    BY <1>4 DEF AgentStep, AgentStops, AgentPrompted, SessionEnds, ServerCrash, ServerStart,
                history, vars
  <2>2. \A q \in Runners : runner'[q].at = "cancel" => runner'[q] = runner[q]
    BY <1>4 DEF AgentStep, AgentStops, AgentPrompted, SessionEnds, ServerCrash, ServerStart,
                vars, NoTick
  <2> QED BY <2>1, <2>2, KeepsBounded DEF Open
<1> QED BY <1>1, <1>2, <1>3, <1>4, TickBounded DEF Next

(* Two open runs of a job were started by two threads: however many ticks  *)
(* lose their Stop hook, the next tick gives their runs up.                *)
THEOREM OpenRunsAreBounded == Spec => []OpenRunsBounded
<1>1. Init => RInv
  BY InitTypes DEF Init, RInv, OpenRunsBounded, OwnNoted, Open, NoRun
<1>2. RInv => OpenRunsBounded
  BY DEF RInv
<1> QED BY <1>1, <1>2, NextBounded, PTL DEF Spec

-----------------------------------------------------------------------------
(* Runs go with their job.                                                 *)

(* Every step keeps runs to jobs that exist: a row leaves with its runs,   *)
(* and a run is only inserted beside its row.                              *)
LEMMA NextJobs ==
  ASSUME ForeignKeys, TypeOK, RunsHaveJobs, [Next]_vars
  PROVE  RunsHaveJobs'
<1> USE DEF RunsHaveJobs
<1>1. CASE job' = job /\ run' = run
  BY <1>1
<1>2. ASSUME NEW e \in Editors, EditorStep(e) PROVE RunsHaveJobs'
  <2>1. ASSUME NEW j \in Jobs, NEW f \in Fields, CreateJob(e, j, f) PROVE RunsHaveJobs'
    BY <2>1 DEF CreateJob, Saved, TypeOK, history, RunRow
  <2>2. CASE PatchWrite(e)
    BY <2>2 DEF PatchWrite, Saved, TypeOK, history, RunRow, Edit
  <2>3. ASSUME NEW j \in Jobs, DeleteJob(e, j) PROVE RunsHaveJobs'
    BY <2>3 DEF DeleteJob, TypeOK, RunRow, JobRow
  <2>4. CASE \/ \E j \in Jobs, f \in Fields : PatchStart(e, j, f)
             \/ SyncRead(e) \/ Arm(e) \/ Unregister(e)
    BY <1>1, <2>4 DEF PatchStart, SyncRead, Arm, Unregister, sched, history
  <2> QED BY <1>2, <2>1, <2>2, <2>3, <2>4 DEF EditorStep
<1>3. ASSUME NEW r \in Runners, TickStep(r) PROVE RunsHaveJobs'
  <2>0. runner[r] \in Tick
    BY DEF TypeOK
  <2>1. ASSUME NEW i \in RunIds, Close(i), job' = job PROVE RunsHaveJobs'
    BY <2>1, CloseOK
  <2>2. CASE CancelOldest(r)
    <3>1. PICK i \in runner[r].noted : Close(i)
      BY <2>2 DEF CancelOldest
    <3> QED BY <2>0, <2>1, <2>2, <3>1 DEF CancelOldest, sched, Tick
  <2>3. CASE FailRun(r)
    <3>1. runner[r].run \in RunIds
      BY <2>0, <2>3 DEF FailRun, Tick
    <3> QED BY <2>1, <2>3, <3>1 DEF FailRun, sched
  <2>4. CASE InsertRun(r)
    <3>1. CASE ~(job[runner[r].job].there \/ ~ForeignKeys)
      BY <1>1, <2>4, <3>1 DEF InsertRun, sched, history
    <3>2. CASE job[runner[r].job].there \/ ~ForeignKeys
      <4>1. \A i \in RunIds : run'[i] = run[i] \/ run'[i].job = runner[r].job
        BY <2>4, <3>2 DEF InsertRun, TypeOK
      <4> QED BY <2>4, <3>2, <4>1 DEF InsertRun, sched
    <3> QED BY <3>1, <3>2
  <2>5. CASE \/ ReadJob(r) \/ ListOpen(r) \/ Probe(r) \/ Kill(r) \/ Launch(r) \/ ExecutorFails(r)
    BY <1>1, <2>5 DEF ReadJob, ListOpen, Probe, Kill, Launch, ExecutorFails, sched, history
  <2> QED BY <1>3, <2>2, <2>3, <2>4, <2>5 DEF TickStep
<1>4. ASSUME NEW h \in stops, StopLooksUp(h) \/ StopCloses(h) PROVE RunsHaveJobs'
  <2>1. CASE StopLooksUp(h)
    BY <1>1, <2>1 DEF StopLooksUp, sched, history
  <2>2. CASE StopCloses(h)
    <3>1. h.target \in RunIds
      BY <2>2 DEF StopCloses, TypeOK, Stop
    <3> QED BY <2>2, <3>1, CloseOK DEF StopCloses, sched
  <2> QED BY <1>4, <2>1, <2>2
<1>5. CASE \/ \E j \in Jobs : Fire(j) \/ \E b \in Buttons : Press(b, j)
           \/ \E s \in Jobs \X Slugs : AgentStep(s)
           \/ ServerCrash \/ ServerStart \/ UNCHANGED vars
  BY <1>1, <1>5 DEF Fire, Press, Begin, AgentStep, AgentStops, AgentPrompted, SessionEnds,
                    ServerCrash, ServerStart, vars, sched, history
<1> QED BY <1>2, <1>3, <1>4, <1>5 DEF Next

(* With foreign keys on, a job that is gone has no run, whatever ticks,    *)
(* hooks and triggers are still under way when it goes.                    *)
THEOREM RunsOfJobs ==
  ASSUME ForeignKeys
  PROVE  Spec => []RunsHaveJobs
<1>1. Init => RunsHaveJobs
  BY DEF Init, RunsHaveJobs, NoRun
<1>2. TypeOK /\ RunsHaveJobs /\ [Next]_vars => RunsHaveJobs'
  BY NextJobs
<1> QED BY <1>1, <1>2, InitTypes, NextTypes, PTL DEF Spec

-----------------------------------------------------------------------------
(* What is armed follows the rows, with one editor at a time.              *)

(* What is armed for a job is what its row says.                           *)
Follows(j) ==
  IF job[j].there /\ job[j].enabled
  THEN job[j].schedule \in Unarmable \/ armed[j] = job[j].schedule
  ELSE armed[j] = NoSchedule

(* Only the job an editor is still syncing may lag behind, and what that   *)
(* editor has read is still so.                                            *)
EInv ==
  \A e \in Editors :
    /\ server = "down" => editor[e].at = "ready"
    /\ \A j \in Jobs :
         server = "up" /\ (editor[e].at \in {"ready", "write"} \/ editor[e].job # j) => Follows(j)
    /\ LET row == job[editor[e].job] IN
       /\ editor[e].at = "arm" =>
            row.there /\ row.enabled /\ row.schedule = editor[e].fields.schedule
       /\ editor[e].at = "unregister" => ~(row.there /\ row.enabled)

(* With a single editor, every step keeps that.                            *)
LEMMA NextFollows ==
  ASSUME NEW e, Editors = {e}, RaisingSchedules = {}, TypeOK, EInv, [Next]_vars
  PROVE  EInv'
<1>0. /\ editor[e] \in Edit /\ editor[e].job \in Jobs
      /\ job \in [Jobs -> JobRow] /\ editor \in [Editors -> Edit]
      /\ armed \in [Jobs -> (Schedules \ Unarmable) \cup {NoSchedule}]
      /\ server \in {"up", "down"}
  BY DEF TypeOK, Edit
<1>1. CASE UNCHANGED <<job, armed, editor, server>>
  BY <1>1 DEF EInv, Follows
<1>2. CASE EditorStep(e)
  <2>1. ASSUME NEW j \in Jobs, NEW f \in Fields, CreateJob(e, j, f) PROVE EInv'
    <3>1. editor'[e] = [NoEdit EXCEPT !.at = "sync", !.job = j] /\ server' = server
      BY <1>0, <2>1 DEF CreateJob, Request
    <3>2. editor'[e].at = "sync" /\ editor'[e].job = j
      BY <3>1, NullsOK DEF Edit
    <3>3. \A k \in Jobs : k # j => job'[k] = job[k] /\ armed'[k] = armed[k]
      BY <1>0, <2>1 DEF CreateJob
    <3> QED BY <2>1, <3>1, <3>2, <3>3 DEF EInv, Follows, CreateJob, Request
  <2>2. ASSUME NEW j \in Jobs, NEW f \in Fields, PatchStart(e, j, f) PROVE EInv'
    BY <1>0, <2>2 DEF PatchStart, Request, EInv, Follows, sched
  <2>3. CASE PatchWrite(e)
    <3>1. editor'[e].at = "sync" /\ editor'[e].job = editor[e].job /\ server' = server
      BY <1>0, <2>3 DEF PatchWrite, GoOn, Edit
    <3>2. \A k \in Jobs : k # editor[e].job => job'[k] = job[k] /\ armed'[k] = armed[k]
      BY <1>0, <2>3 DEF PatchWrite
    <3> QED BY <2>3, <3>1, <3>2 DEF EInv, Follows, PatchWrite
  <2>4. ASSUME NEW j \in Jobs, DeleteJob(e, j) PROVE EInv'
    <3>1. editor'[e] = [NoEdit EXCEPT !.at = "unregister", !.job = j] /\ server' = server
      BY <1>0, <2>4 DEF DeleteJob, Request
    <3>2. editor'[e].at = "unregister" /\ editor'[e].job = j
      BY <3>1, NullsOK DEF Edit
    <3>3. /\ \A k \in Jobs : k # j => job'[k] = job[k] /\ armed'[k] = armed[k]
          /\ ~job'[j].there
      BY <1>0, <2>4 DEF DeleteJob, JobRow
    <3> QED BY <2>4, <3>1, <3>2, <3>3 DEF EInv, Follows, DeleteJob, Request
  <2>5. CASE SyncRead(e)
    <3>1. /\ editor'[e].at = IF job[editor[e].job].there /\ job[editor[e].job].enabled
                             THEN "arm" ELSE "unregister"
          /\ editor'[e].job = editor[e].job
          /\ editor'[e].fields.schedule = job[editor[e].job].schedule
      BY <1>0, <2>5 DEF SyncRead, Edit, Fields
    <3>2. \A k \in Jobs : server = "up" /\ editor[e].job # k => Follows(k)
      BY DEF EInv
    <3>3. \A k \in Jobs : Follows(k)' = Follows(k)
      BY <2>5 DEF SyncRead, Follows, sched
    <3>4. server' = "up" /\ server = "up" /\ job' = job
      BY <1>0, <2>5 DEF SyncRead, EInv, sched
    <3> QED BY <3>1, <3>2, <3>3, <3>4 DEF EInv
  <2>6. CASE Arm(e)
    <3>1. /\ editor'[e].at = "ready" /\ job' = job /\ server' = server
          /\ \A k \in Jobs : k # editor[e].job => armed'[k] = armed[k]
          /\ \/ editor[e].fields.schedule \in Unarmable
             \/ armed'[editor[e].job] = editor[e].fields.schedule
      BY <1>0, <2>6 DEF Arm, Answer, NoEdit
    <3>2. server = "up" /\ \A k \in Jobs : k # editor[e].job => Follows(k)
      BY <1>0, <2>6 DEF EInv, Arm
    <3>3. \A k \in Jobs : Follows(k)'
      BY <2>6, <3>1, <3>2 DEF EInv, Follows, Arm
    <3> QED BY <3>1, <3>2, <3>3 DEF EInv
  <2>7. CASE Unregister(e)
    <3>1. /\ editor'[e].at = "ready" /\ job' = job /\ server' = server
          /\ \A k \in Jobs : k # editor[e].job => armed'[k] = armed[k]
          /\ armed'[editor[e].job] = NoSchedule
      BY <1>0, <2>7 DEF Unregister, Answer, NoEdit
    <3>2. server = "up" /\ \A k \in Jobs : k # editor[e].job => Follows(k)
      BY <1>0, <2>7 DEF EInv, Unregister
    <3>3. \A k \in Jobs : Follows(k)'
      BY <2>7, <3>1, <3>2 DEF EInv, Follows, Unregister
    <3> QED BY <3>1, <3>2, <3>3 DEF EInv
  <2> QED BY <1>2, <2>1, <2>2, <2>3, <2>4, <2>5, <2>6, <2>7 DEF EditorStep
<1>3. CASE ServerCrash
  BY <1>0, <1>3 DEF ServerCrash, EInv, NoEdit
<1>4. CASE ServerStart
  <2>1. \A j \in Jobs : Follows(j)'
    BY <1>0, <1>4 DEF ServerStart, Follows, Reached, Raises
  <2> QED BY <1>4, <2>1 DEF ServerStart, EInv
<1>5. CASE \/ \E j \in Jobs : Fire(j) \/ \E b \in Buttons : Press(b, j)
           \/ \E r \in Runners : TickStep(r)
           \/ \E s \in Jobs \X Slugs : AgentStep(s)
           \/ \E h \in stops : StopLooksUp(h) \/ StopCloses(h)
           \/ UNCHANGED vars
  <2>1. UNCHANGED <<job, armed, editor, server>>
    BY <1>5 DEF Fire, Press, Begin, TickStep, ReadJob, ListOpen, CancelOldest, InsertRun, Probe,
                Kill, Launch, ExecutorFails, FailRun, AgentStep, AgentStops, AgentPrompted,
                SessionEnds, StopLooksUp, StopCloses, vars, sched
  <2> QED BY <1>1, <2>1
<1> QED BY <1>2, <1>3, <1>4, <1>5 DEF Next

(* One editor at a time, and no schedule that raises: what is armed when   *)
(* it has finished is what the rows say, through creation, edits,          *)
(* deletion, crash and start.                                              *)
THEOREM ArmedFollowsRows ==
  ASSUME NEW e, Editors = {e}, RaisingSchedules = {}
  PROVE  Spec => []ArmedAsEdited
<1>1. Init => EInv
  BY DEF Init, EInv, Follows, NoEdit
<1>2. TypeOK /\ EInv /\ [Next]_vars => EInv'
  BY NextFollows
<1>3. EInv => ArmedAsEdited
  BY DEF EInv, Follows, ArmedAsEdited
<1> QED BY <1>1, <1>2, <1>3, InitTypes, NextTypes, PTL DEF Spec
=============================================================================

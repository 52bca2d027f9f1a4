-------------------------- MODULE Sessions_proofs --------------------------
(* Proofs about Sessions, for every number of names, threads, agents and   *)
(* conversations and every bound.                                          *)
EXTENDS Sessions, TLAPS

-----------------------------------------------------------------------------
(* What the null records and the helpers that write a store return.        *)

(* The null values of every store have the type of the store.              *)
LEMMA NullsOK ==
  /\ Gone \in Pane /\ NoRow \in Row /\ NoEntry \in Entry /\ Ready \in Work
  /\ SomeAgent \in Agents /\ Ready.name \in Names
  /\ Resting \in [seen : [Names -> {"skip", "plain", "uuid"}],
                  name : Names \cup {Nobody}, verdict : DeadStates]
<1>1. SomeAgent \in Agents
  BY AgentOfAssumption DEF SomeAgent
<1>2. (CHOOSE n \in Names : TRUE) \in Names
  BY NamesAssumption
<1> QED
  BY <1>1, <1>2 DEF Gone, NoRow, NoEntry, Ready, Resting, Pane, Row, Entry, Work,
                    MaybeConv, Steps, States, DeadStates, LiveStates

(* set_state keeps the type of the cache, and only touches its own name.   *)
LEMMA SetStateOK ==
  ASSUME NEW n \in Names, NEW s \in States, NEW c \in MaybeConv,
         cache \in [Names -> Entry], SetState(n, s, c)
  PROVE  /\ cache' \in [Names -> Entry]
         /\ \A m \in Names \ {n} : cache'[m] = cache[m]
         /\ cache'[n].state = s
         /\ cache[n].conv # NoConv => cache'[n].conv # NoConv
BY DEF SetState, Merged, Entry

(* What a pane shows is a state the cache may hold.                        *)
LEMMA ScreenOK == \A n \in Names : StateOnScreen(n) \in LiveStates
BY DEF StateOnScreen, LiveStates

(* Launching a session keeps the types of panes, owners and transcripts.   *)
LEMMA LaunchOK ==
  ASSUME NEW n \in Names, NEW a \in Agents, NEW c \in Convs,
         pane \in [Names -> Pane], owner \in [Convs -> Names \cup {Nobody}],
         transcripts \subseteq Convs,
         LaunchFresh(n, a) \/ LaunchResume(n, a, c)
  PROVE  /\ pane' \in [Names -> Pane]
         /\ owner' \in [Convs -> Names \cup {Nobody}]
         /\ transcripts' \subseteq Convs
<1>1. CASE LaunchFresh(n, a)
  <2>1. CASE Alive(n)
    BY <1>1, <2>1 DEF LaunchFresh, agents
  <2>2. CASE ~Alive(n)
    <3>1. PICK d \in Convs :
            /\ pane' = [pane EXCEPT ![n] =
                          [screen |-> "boot", conv |-> d, agent |-> a, fresh |-> TRUE]]
            /\ owner' = [owner EXCEPT ![d] = n]
            /\ transcripts' = transcripts \cup ({d} \ CloudIds)
      BY <1>1, <2>2 DEF LaunchFresh
    <3> QED BY <3>1 DEF Pane, MaybeConv
  <2> QED BY <2>1, <2>2
<1>2. CASE LaunchResume(n, a, c)
  BY <1>2 DEF LaunchResume, Pane, MaybeConv
<1> QED BY <1>1, <1>2

(* A posted hook is well formed.                                           *)
LEMMA PostOK ==
  ASSUME NEW n \in Names, NEW e \in Events, NEW c \in MaybeConv,
         hooks \subseteq Hook, Post(n, e, c)
  PROVE  hooks' \subseteq Hook
<1>1. [name |-> n, event |-> e, conv |-> c, cached |-> FALSE] \in Hook
  BY DEF Hook
<1> QED BY <1>1 DEF Post

-----------------------------------------------------------------------------
(* Type correctness.                                                       *)

(* The work a thread notes when it starts, and every step it goes to, is   *)
(* of type Work.                                                           *)
LEMMA WorkOK ==
  ASSUME TypeOK, NEW n \in Names
  PROVE  /\ ResumeWork(n) \in Work
         /\ \A st \in Steps : [Ready EXCEPT !.at = st, !.name = n] \in Work
<1>1. /\ row[n].conv \in MaybeConv /\ row[n].agent \in Agents
      /\ "resume_check" \in Steps
  BY DEF TypeOK, Row, Steps
<1>2. ResumeWork(n) \in Work
  BY <1>1, NullsOK DEF ResumeWork, Work
<1>3. \A st \in Steps : [Ready EXCEPT !.at = st, !.name = n] \in Work
  BY NullsOK DEF Work
<1> QED BY <1>2, <1>3

(* The steps of the agents and of the hooks they post.                     *)
LEMMA AgentTypes ==
  ASSUME TypeOK, NEW n \in Names, AgentStep(n)
  PROVE  TypeOK'
<1> USE DEF TypeOK, stores, jobs, boot, agents, users
<1> DEFINE Rest == <<transcripts, owner, stores, worker, jobs, boot, users>>
<1>1. ASSUME NEW z \in {"boot", "idle", "thinking"}, pane' = [pane EXCEPT ![n].screen = z],
             UNCHANGED Rest, hooks' \subseteq Hook
      PROVE  TypeOK'
  BY <1>1 DEF Pane
<1>2. CASE AgentBoots(n)
  <2>1. hooks' \subseteq Hook
    <3>1. pane[n].conv \in MaybeConv
      BY DEF Pane
    <3>2. CASE pane[n].fresh
      BY <1>2, <3>1, <3>2, PostOK DEF AgentBoots, Events
    <3>3. CASE ~pane[n].fresh
      BY <1>2, <3>3 DEF AgentBoots
    <3> QED BY <3>2, <3>3
  <2> QED BY <1>1, <1>2, <2>1 DEF AgentBoots, Screen
<1>3. ASSUME NEW y, NEW z \in {"idle", "thinking"}, NEW e \in Events,
             Screen(n, y, z), Post(n, e, NoConv)
      PROVE  TypeOK'
  <2>1. hooks' \subseteq Hook
    BY <1>3, PostOK DEF MaybeConv
  <2> QED BY <1>1, <1>3, <2>1 DEF Screen
<1>4. CASE AgentPrompted(n) \/ AgentStops(n) \/ AgentNotifies(n)
  BY <1>3, <1>4 DEF AgentPrompted, AgentStops, AgentNotifies, Events
<1>5. CASE AgentExits(n)
  BY <1>5, NullsOK DEF AgentExits
<1> QED BY <1>2, <1>4, <1>5 DEF AgentStep

(* The steps of the hook handler and of the timers.                        *)
LEMMA HookTypes ==
  ASSUME TypeOK, NEW h \in hooks, HookStep(h) \/ HookLost(h)
  PROVE  TypeOK'
<1> USE DEF TypeOK, agents, jobs, boot, stores, users
<1>1. /\ h.name \in Names /\ h.event \in Events /\ h.conv \in MaybeConv
      /\ [h EXCEPT !.cached = TRUE] \in Hook
  BY DEF Hook
<1>2. CASE HookToCache(h)
  <2>1. HookState(h.event) \in States
    BY <1>1 DEF HookState, Events, States, LiveStates
  <2>2. cache' \in [Names -> Entry]
    BY <1>1, <1>2, <2>1, SetStateOK DEF HookToCache
  <2> QED BY <1>1, <1>2, <2>2 DEF HookToCache
<1>3. CASE HookToRow(h)
  <2>1. row' \in [Names -> Row] /\ UNCHANGED users
    BY <1>1, <1>3 DEF HookToRow, Row
  <2> QED BY <1>3, <2>1 DEF HookToRow
<1>4. CASE HookLost(h)
  BY <1>4 DEF HookLost
<1> QED BY <1>2, <1>3, <1>4 DEF HookStep

(* The timers a resume armed read a live state and write it.               *)
LEMMA TimerTypes ==
  ASSUME TypeOK, NEW m \in timers, TimerStep(m)
  PROVE  TypeOK'
<1> USE DEF TypeOK, agents, jobs, boot, stores, users
<1>1. m.name \in Names /\ m.conv \in MaybeConv /\ m.read \in LiveStates \cup {"unread"}
  BY DEF Timer
<1>2. CASE TimerReads(m)
  <2>1. [m EXCEPT !.read = StateOnScreen(m.name)] \in Timer
    BY <1>1, ScreenOK DEF Timer
  <2> QED BY <1>2, <2>1 DEF TimerReads
<1>3. CASE TimerWrites(m)
  <2>1. m.read \in States
    BY <1>1, <1>3 DEF TimerWrites, States
  <2>2. cache' \in [Names -> Entry]
    BY <1>1, <1>3, <2>1, SetStateOK DEF TimerWrites
  <2> QED BY <1>3, <2>2 DEF TimerWrites
<1> QED BY <1>2, <1>3 DEF TimerStep

(* A request starts: the thread notes work of type Work.                   *)
LEMMA RequestTypes ==
  ASSUME TypeOK, NEW t \in Threads, NEW n \in Names, Request(t, n)
  PROVE  TypeOK'
<1> USE DEF agents, stores, jobs, boot
<1> DEFINE Users == requests' \in 0..MaxRequests /\ adrift' \subseteq Names /\ contended' \subseteq Names
           Work2 == worker' \in [Workers -> Work]
           Panes == /\ pane' \in [Names -> Pane] /\ owner' \in [Convs -> Names \cup {Nobody}]
                    /\ transcripts' \subseteq Convs
           Kept  == UNCHANGED <<cache, hooks, timers, reaper, server, todo, crashes>>
<1>p. TypeOK => /\ pane \in [Names -> Pane] /\ owner \in [Convs -> Names \cup {Nobody}]
                /\ transcripts \subseteq Convs /\ row \in [Names -> Row]
                /\ worker \in [Workers -> Work] /\ requests \in 0..MaxRequests
                /\ adrift \subseteq Names /\ contended \subseteq Names
  BY DEF TypeOK
<1>q. Users /\ Work2 /\ Panes /\ Kept /\ row' \in [Names -> Row] => TypeOK'
  BY DEF TypeOK
<1>g. [pane EXCEPT ![n] = Gone] \in [Names -> Pane] /\ [row EXCEPT ![n] = NoRow] \in [Names -> Row]
  BY <1>p, NullsOK
<1>a. ASSUME NEW names, NEW far \in SUBSET Names, Asked(t, names, far), names \subseteq Names
      PROVE  Users
  BY <1>a, <1>p, BoundsAssumption DEF Asked
<1>1. ASSUME NEW w \in Work, Begin(t, w) PROVE Work2 /\ Users
  <2>1. HandOf(w) \subseteq Names
    BY DEF HandOf
  <2>2. Users
    BY <1>1, <1>a, <2>1 DEF Begin
  <2> QED BY <1>1, <1>p, <2>2 DEF Begin, Workers
<1>2. ASSUME NEW a \in Agents, OpenStart(t, n, a) PROVE TypeOK'
  <2>1. ASSUME NEW f \in BOOLEAN
        PROVE  [Ready EXCEPT !.at = "open_launch", !.name = n, !.agent = a, !.flag = f] \in Work
    BY NullsOK DEF Work, Steps
  <2>2. Work2 /\ Users
    BY <1>1, <1>2, <2>1 DEF OpenStart
  <2> QED BY <1>p, <1>q, <1>2, <2>2 DEF OpenStart
<1>3. CASE ResumeStart(t, n)
  <2>1. Work2 /\ Users
    BY <1>1, <1>3, WorkOK DEF ResumeStart
  <2> QED BY <1>p, <1>q, <1>3, <2>1 DEF ResumeStart
<1>4. CASE RestartStart(t, n)
  <2>1. [Ready EXCEPT !.at = "restart_resume", !.name = n] \in Work
    BY WorkOK DEF Steps
  <2>2. Work2 /\ Users
    BY <1>1, <1>4, <2>1 DEF RestartStart
  <2> QED BY <1>g, <1>p, <1>q, <1>4, <2>2 DEF RestartStart
<1>5. CASE KillStart(t, n)
  <2>1. [Ready EXCEPT !.at = "kill_mark", !.name = n] \in Work
    BY WorkOK DEF Steps
  <2>2. Work2 /\ Users
    BY <1>1, <1>5, <2>1 DEF KillStart
  <2> QED BY <1>g, <1>p, <1>q, <1>5, <2>2 DEF KillStart
<1>6. CASE SweepStart(t, n)
  <2>1. ASSUME NEW f \in BOOLEAN
        PROVE  [Ready EXCEPT !.at = "sweep_kill", !.name = n, !.flag = f] \in Work
    BY NullsOK DEF Work, Steps
  <2>2. Alive(n) \in BOOLEAN
    BY DEF Alive
  <2>3. Work2 /\ Users
    BY <1>1, <1>6, <2>1, <2>2 DEF SweepStart
  <2> QED BY <1>p, <1>q, <1>6, <2>3 DEF SweepStart
<1>7. CASE RebuildStart(t, n)
  <2>1. ASSUME NEW w \in Work
        PROVE  [w EXCEPT !.at = "rebuild_launch"] \in Work
    BY DEF Work, Steps
  <2>2. [ResumeWork(n) EXCEPT !.at = "rebuild_launch"] \in Work
    BY <2>1, WorkOK
  <2>3. Work2 /\ Users
    BY <1>1, <1>7, <2>2 DEF RebuildStart
  <2> QED BY <1>p, <1>q, <1>7, <2>3 DEF RebuildStart
<1>8. CASE StatusStart(t, n)
  <2>1. ASSUME NEW z \in States
        PROVE  [Ready EXCEPT !.at = "status_mark", !.name = n, !.state = z] \in Work
    BY NullsOK DEF Work, Steps
  <2>2. "stopped" \in States /\ StateOnScreen(n) \in States
    BY ScreenOK DEF States, DeadStates
  <2>3. Work2 /\ Users
    BY <1>1, <1>8, <2>1, <2>2 DEF StatusStart
  <2> QED BY <1>p, <1>q, <1>8, <2>3 DEF StatusStart
<1>9. CASE TaskDeleted(t, n)
  <2>1. Users
    BY <1>a, <1>9 DEF TaskDeleted
  <2> QED BY <1>g, <1>p, <1>q, <1>9, <2>1 DEF TaskDeleted
<1>10. ASSUME NEW m \in Names, RenameStart(t, n, m) PROVE TypeOK'
  <2>1. [Ready EXCEPT !.at = "rename_delete", !.name = n, !.to = m] \in Work
    BY NullsOK DEF Work, Steps
  <2>2. Work2 /\ Users
    BY <1>1, <1>10, <2>1 DEF RenameStart
  <2> QED BY <1>p, <1>q, <1>10, <2>2 DEF RenameStart
<1>11. ASSUME NEW a \in Agents, RawLaunch(t, n, a) PROVE TypeOK'
  <2>1. Users
    BY <1>a, <1>11 DEF RawLaunch
  <2>2. Panes
    <3>1. LaunchFresh(n, a)
      BY <1>11 DEF RawLaunch
    <3>2. CASE Alive(n)
      BY <1>p, <3>1, <3>2 DEF LaunchFresh
    <3>3. CASE ~Alive(n)
      <4>1. PICK d \in Convs : TRUE
        BY <3>1, <3>3 DEF LaunchFresh
      <4> QED BY <1>p, <3>1, <4>1, LaunchOK
    <3> QED BY <3>2, <3>3
  <2> QED BY <1>p, <1>q, <1>11, <2>1, <2>2 DEF RawLaunch
<1> QED BY <1>2, <1>3, <1>4, <1>5, <1>6, <1>7, <1>8, <1>9, <1>10, <1>11 DEF Request

(* LaunchNoted keeps the types of what tmux and the agents hold.           *)
LEMMA NotedTypes ==
  ASSUME TypeOK, NEW t \in Workers, LaunchNoted(t)
  PROVE  /\ pane' \in [Names -> Pane]
         /\ owner' \in [Convs -> Names \cup {Nobody}]
         /\ transcripts' \subseteq Convs
<1>1. /\ worker[t].name \in Names /\ worker[t].agent \in Agents
      /\ worker[t].conv \in Convs \cup {NoConv}
      /\ pane \in [Names -> Pane] /\ owner \in [Convs -> Names \cup {Nobody}]
      /\ transcripts \subseteq Convs
  BY DEF TypeOK, Work, MaybeConv
<1>2. CASE worker[t].conv = NoConv
  <2>1. LaunchFresh(worker[t].name, worker[t].agent)
    BY <1>2 DEF LaunchNoted
  <2>2. CASE Alive(worker[t].name)
    BY <1>1, <2>1, <2>2 DEF LaunchFresh, agents
  <2>3. CASE ~Alive(worker[t].name)
    <3>1. PICK d \in Convs : TRUE
      BY <2>1, <2>3 DEF LaunchFresh
    <3> QED BY <1>1, <2>1, <3>1, LaunchOK
  <2> QED BY <2>2, <2>3
<1>3. CASE worker[t].conv # NoConv
  <2>1. LaunchResume(worker[t].name, worker[t].agent, worker[t].conv)
    BY <1>3 DEF LaunchNoted
  <2> QED BY <1>1, <1>3, <2>1, LaunchOK
<1> QED BY <1>2, <1>3

(* A thread that goes on, or is done, still holds work of type Work.       *)
LEMMA ThreadOK ==
  ASSUME TypeOK, NEW t \in Workers
  PROVE  /\ worker[t] \in Work
         /\ \A s \in Steps : Goto(t, s) => worker' \in [Workers -> Work]
         /\ Done(t) => worker' \in [Workers -> Work]
BY NullsOK DEF TypeOK, Goto, Done, Work

(* The later steps of a request.                                           *)
LEMMA WorkTypes ==
  ASSUME TypeOK, NEW t \in Workers, WorkStep(t)
  PROVE  TypeOK'
<1> USE DEF TypeOK, stores, jobs, boot, agents, users
<1>0. /\ worker[t].name \in Names /\ worker[t].agent \in Agents
      /\ worker[t].conv \in MaybeConv /\ worker[t].state \in States
      /\ worker[t] \in Work
  BY ThreadOK DEF Work
<1>1. ASSUME NEW s \in Steps, Goto(t, s) PROVE worker' \in [Workers -> Work]
  BY <1>1, ThreadOK
<1>2. ASSUME Done(t) PROVE worker' \in [Workers -> Work]
  BY <1>2, ThreadOK
<1>3. ASSUME NEW z \in States, NEW c \in MaybeConv, SetState(worker[t].name, z, c)
      PROVE  cache' \in [Names -> Entry]
  BY <1>0, <1>3, SetStateOK
<1>4. {"starting", "crashed", "stopped"} \subseteq States /\ NoConv \in MaybeConv
  BY DEF States, LiveStates, DeadStates, MaybeConv
<1>5. CASE LaunchFails(t)
  BY <1>2, <1>5 DEF LaunchFails
<1>6. CASE OpenLaunch(t) \/ ResumeLaunch(t) \/ RebuildLaunch(t)
  <2>1. /\ pane' \in [Names -> Pane] /\ owner' \in [Convs -> Names \cup {Nobody}]
        /\ transcripts' \subseteq Convs
    <3>1. CASE OpenLaunch(t)
      <4>1. LaunchFresh(worker[t].name, worker[t].agent)
        BY <3>1 DEF OpenLaunch
      <4>2. CASE Alive(worker[t].name)
        BY <4>1, <4>2 DEF LaunchFresh
      <4>3. CASE ~Alive(worker[t].name)
        <5>1. PICK d \in Convs : TRUE
          BY <4>1, <4>3 DEF LaunchFresh
        <5> QED BY <1>0, <4>1, <5>1, LaunchOK
      <4> QED BY <4>2, <4>3
    <3>2. CASE ResumeLaunch(t) \/ RebuildLaunch(t)
      BY <3>2, NotedTypes DEF ResumeLaunch, RebuildLaunch
    <3> QED BY <1>6, <3>1, <3>2
  <2>2. worker' \in [Workers -> Work]
    BY <1>1, <1>2, <1>6 DEF OpenLaunch, ResumeLaunch, RebuildLaunch, Steps
  <2>3. UNCHANGED <<stores, hooks, jobs, boot, users>>
    BY <1>6 DEF OpenLaunch, ResumeLaunch, RebuildLaunch
  <2> QED BY <2>1, <2>2, <2>3
<1>7. CASE OpenSave(t)
  <2>1. row' \in [Names -> Row]
    BY <1>0, <1>7 DEF OpenSave, Row, MaybeConv
  <2>2. worker' \in [Workers -> Work]
    BY <1>1, <1>2, <1>7 DEF OpenSave, Steps
  <2>3. adrift' \subseteq Names
    BY <1>7 DEF OpenSave
  <2> QED BY <1>7, <2>1, <2>2, <2>3 DEF OpenSave
<1>8. CASE ResumeCheck(t)
  <2>1. row' \in [Names -> Row]
    BY <1>0, <1>8 DEF ResumeCheck, Row, MaybeConv
  <2>2. worker' \in [Workers -> Work]
    BY <1>0, <1>8 DEF ResumeCheck, Work, Steps, MaybeConv
  <2> QED BY <1>8, <2>1, <2>2 DEF ResumeCheck
<1>9. CASE ResumeConfirm(t)
  <2>1. Alive(worker[t].name) \in BOOLEAN /\ "resume_mark" \in Steps
    BY DEF Alive, Steps
  <2>2. worker' \in [Workers -> Work]
    BY <1>0, <1>9, <2>1 DEF ResumeConfirm, Work
  <2> QED BY <1>9, <2>2 DEF ResumeConfirm
<1>10. CASE ResumeMark(t)
  <2>1. cache' \in [Names -> Entry]
    BY <1>0, <1>3, <1>4, <1>10 DEF ResumeMark
  <2>2. timers' \subseteq Timer
    BY <1>0, <1>10 DEF ResumeMark, Timer
  <2> QED BY <1>2, <1>10, <2>1, <2>2 DEF ResumeMark
<1>11. CASE RestartResume(t)
  BY <1>0, <1>2, <1>11, WorkOK DEF RestartResume
<1>12. CASE OpenSeed(t) \/ KillMark(t) \/ SweepMark(t) \/ StatusMark(t)
  <2>1. cache' \in [Names -> Entry]
    BY <1>0, <1>3, <1>4, <1>12 DEF OpenSeed, KillMark, SweepMark, StatusMark
  <2>2. worker' \in [Workers -> Work]
    BY <1>1, <1>2, <1>12 DEF OpenSeed, KillMark, SweepMark, StatusMark, Steps
  <2>3. UNCHANGED <<agents, row, hooks, jobs, boot, users>>
    BY <1>12 DEF OpenSeed, KillMark, SweepMark, StatusMark
  <2> QED BY <2>1, <2>2, <2>3
<1>13. CASE KillDelete(t) \/ SweepDelete(t)
  <2>1. row' \in [Names -> Row]
    BY <1>13, NullsOK DEF KillDelete, SweepDelete
  <2>2. worker' \in [Workers -> Work]
    BY <1>1, <1>2, <1>13 DEF KillDelete, SweepDelete, Steps
  <2> QED BY <1>13, <2>1, <2>2 DEF KillDelete, SweepDelete
<1>14. CASE SweepKill(t)
  <2>1. worker' \in [Workers -> Work]
    BY <1>1, <1>14 DEF SweepKill, Steps
  <2> QED BY <1>14, <2>1, NullsOK DEF SweepKill
<1>15. CASE RenameDelete(t)
  <2>1. row' \in [Names -> Row] /\ adrift' \subseteq Names
    BY <1>0, <1>15, NullsOK DEF RenameDelete
  <2>2. worker' \in [Workers -> Work]
    BY <1>1, <1>15 DEF RenameDelete, Steps
  <2> QED BY <1>15, <2>1, <2>2 DEF RenameDelete
<1>16. CASE RenameCreate(t)
  <2>1. [NoRow EXCEPT !.there = TRUE] \in Row
    BY NullsOK DEF Row
  <2>2. row' \in [Names -> Row] /\ adrift' \subseteq Names
    BY <1>16, <2>1 DEF RenameCreate
  <2> QED BY <1>2, <1>16, <2>2 DEF RenameCreate
<1> QED BY <1>5, <1>6, <1>7, <1>8, <1>9, <1>10, <1>11, <1>12, <1>13, <1>14, <1>15, <1>16 DEF WorkStep

(* The steps of the reaper, of the server's start and of its crash.        *)
LEMMA ServerTypes ==
  ASSUME TypeOK, ReapStep \/ BootStep \/ ServerCrash
  PROVE  TypeOK'
<1> USE DEF TypeOK, stores, jobs, boot, agents, users
<1>1. CASE ReapStep
  <2>1. /\ reaper.seen \in [Names -> {"skip", "plain", "uuid"}]
        /\ reaper.name \in Names \cup {Nobody} /\ reaper.verdict \in DeadStates
    OBVIOUS
  <2>2. CASE ReapStart
    BY <2>2, NullsOK DEF ReapStart
  <2>3. ASSUME NEW n \in Names, ReapProbe(n) PROVE TypeOK'
    <3>1. [reaper.seen EXCEPT ![n] = "skip"] \in [Names -> {"skip", "plain", "uuid"}]
      BY <2>1
    <3>2. CASE Alive(n)
      BY <2>1, <2>3, <3>1, <3>2 DEF ReapProbe
    <3>3. CASE ~Alive(n)
      BY <2>1, <2>3, <3>1, <3>3 DEF ReapProbe, DeadStates
    <3> QED BY <3>2, <3>3
  <2>4. CASE ReapMark
    <3>1. reaper.name \in Names /\ reaper.verdict \in States /\ NoConv \in MaybeConv
      BY <2>1, <2>4 DEF ReapMark, States, MaybeConv
    <3>2. cache' \in [Names -> Entry]
      BY <2>4, <3>1, SetStateOK DEF ReapMark
    <3> QED BY <2>1, <2>4, <3>2 DEF ReapMark, DeadStates
  <2> QED BY <1>1, <2>2, <2>3, <2>4 DEF ReapStep
<1>2. CASE ServerBoot
  <2>1. ASSUME NEW n \in Names
        PROVE  /\ RebuiltEntry(n) \in Entry
               /\ [state |-> "crashed", conv |-> row[n].conv] \in Entry
    <3>1. row[n].conv \in MaybeConv /\ StateOnScreen(n) \in States /\ "crashed" \in States
      BY ScreenOK DEF Row, States, DeadStates
    <3> QED BY <3>1, NullsOK DEF RebuiltEntry, Entry
  <2> QED BY <1>2, <2>1 DEF ServerBoot
<1>3. CASE ServerListens
  BY <1>3 DEF ServerListens
<1>4. ASSUME NEW n \in Names, RecoverOne(n) PROVE TypeOK'
  BY <1>4, WorkOK DEF RecoverOne
<1>5. CASE ServerCrash
  BY <1>5, NullsOK, BoundsAssumption DEF ServerCrash
<1> QED BY <1>1, <1>2, <1>3, <1>4, <1>5 DEF BootStep

(* An empty server is well typed.                                          *)
LEMMA InitTypes == Init => TypeOK
<1> SUFFICES ASSUME Init PROVE TypeOK
  OBVIOUS
<1>1. 0 \in 0..MaxRequests /\ 0 \in 0..MaxCrashes
  BY BoundsAssumption
<1> QED BY <1>1, NullsOK DEF Init, TypeOK

(* No step of any actor leaves the types.                                  *)
LEMMA NextTypes == TypeOK /\ [Next]_vars => TypeOK'
<1> SUFFICES ASSUME TypeOK, [Next]_vars PROVE TypeOK'
  OBVIOUS
<1>1. ASSUME NEW c \in Convs, TranscriptLost(c) PROVE TypeOK'
  BY <1>1 DEF TypeOK, TranscriptLost, stores, jobs, boot, users
<1>2. CASE UNCHANGED vars
  BY <1>2 DEF TypeOK, vars, agents, stores, jobs, boot, users
<1> QED
  BY <1>1, <1>2, AgentTypes, HookTypes, TimerTypes, RequestTypes, WorkTypes, ServerTypes DEF Next

(* Every store always holds what its type says.                            *)
THEOREM TypeCorrect == Spec => []TypeOK
BY InitTypes, NextTypes, PTL DEF Spec

-----------------------------------------------------------------------------
(* Conversations stay with the session they were minted in.                *)
(*                                                                         *)
(* ConversationInOnePane is not inductive: a pane may run an id that comes *)
(* from the note of a thread, which comes from a row, which comes from a   *)
(* hook.  The strengthening says of each link that an id it carries was    *)
(* minted in the session it names.                                         *)
Mine(n, c) == c = NoConv \/ owner[c] = n
PaneMine   == \A n \in Names : Alive(n) => pane[n].conv \in Convs /\ owner[pane[n].conv] = n
RowMine    == \A n \in Names : Mine(n, row[n].conv)
HookMine   == \A h \in hooks : Mine(h.name, h.conv)
WorkMine   == \A t \in Workers : Mine(worker[t].name, worker[t].conv)
Owned      == PaneMine /\ RowMine /\ HookMine /\ WorkMine
OInv       == TypeOK /\ Owned

(* The null records carry no id and Gone is not alive.                     *)
LEMMA NullsFree ==
  /\ NoRow.conv = NoConv /\ Ready.conv = NoConv /\ Gone.screen = "gone"
BY DEF NoRow, Ready, Gone

(* A launch keeps what every link of the chain says: ids already minted    *)
(* keep their owner, and the pane runs an id of its own session.           *)
LEMMA FreshOwned ==
  ASSUME TypeOK, PaneMine, NEW n \in Names, NEW a \in Agents, LaunchFresh(n, a)
  PROVE  /\ PaneMine'
         /\ \A m \in Names, c \in MaybeConv : Mine(m, c) => Mine(m, c)'
<1>1. CASE Alive(n)
  BY <1>1 DEF LaunchFresh, agents, PaneMine, Alive, Mine
<1>2. CASE ~Alive(n)
  <2>1. PICK d \in Convs :
          /\ owner[d] = Nobody
          /\ pane' = [pane EXCEPT ![n] =
                        [screen |-> "boot", conv |-> d, agent |-> a, fresh |-> TRUE]]
          /\ owner' = [owner EXCEPT ![d] = n]
    BY <1>2 DEF LaunchFresh
  <2>2. /\ pane \in [Names -> Pane] /\ owner \in [Convs -> Names \cup {Nobody}]
        /\ Nobody \notin Names /\ NoConv \notin Convs
    BY NamesAssumption, ConvsAssumption DEF TypeOK
  <2>3. ASSUME NEW m \in Names, NEW c \in MaybeConv, Mine(m, c)
        PROVE  Mine(m, c)'
    BY <2>1, <2>2, <2>3 DEF Mine, MaybeConv
  <2>4. PaneMine'
    <3> SUFFICES ASSUME NEW m \in Names, Alive(m)'
                 PROVE  pane'[m].conv \in Convs /\ owner'[pane'[m].conv] = m
      BY DEF PaneMine
    <3>1. CASE m = n
      BY <2>1, <2>2, <3>1
    <3>2. CASE m # n
      <4>1. pane'[m] = pane[m] /\ Alive(m)
        BY <2>1, <2>2, <3>2 DEF Alive
      <4>2. pane[m].conv \in Convs /\ owner[pane[m].conv] = m
        BY <4>1 DEF PaneMine
      <4> QED BY <2>1, <2>2, <4>1, <4>2
    <3> QED BY <3>1, <3>2
  <2> QED BY <2>3, <2>4
<1> QED BY <1>1, <1>2

(* A resume launches an id that was minted in the session it resumes.      *)
LEMMA ResumeOwned ==
  ASSUME TypeOK, PaneMine, NEW n \in Names, NEW a \in Agents, NEW c \in Convs,
         owner[c] = n, LaunchResume(n, a, c)
  PROVE  PaneMine' /\ owner' = owner
<1>1. pane \in [Names -> Pane] /\ owner' = owner
  BY DEF TypeOK, LaunchResume
<1> SUFFICES ASSUME NEW m \in Names, Alive(m)'
             PROVE  pane'[m].conv \in Convs /\ owner[pane'[m].conv] = m
  BY <1>1 DEF PaneMine
<1>2. CASE m = n /\ ~Alive(n)
  BY <1>1, <1>2 DEF LaunchResume
<1>3. CASE m # n \/ Alive(n)
  <2>1. pane'[m] = pane[m]
    BY <1>1, <1>3 DEF LaunchResume
  <2> QED BY <2>1 DEF PaneMine, Alive
<1> QED BY <1>2, <1>3

(* What a launch from a thread's note keeps.                               *)
LEMMA NotedOwned ==
  ASSUME OInv, NEW t \in Workers, LaunchNoted(t)
  PROVE  /\ PaneMine'
         /\ \A m \in Names, c \in MaybeConv : Mine(m, c) => Mine(m, c)'
<1>1. /\ worker[t].name \in Names /\ worker[t].agent \in Agents
      /\ worker[t].conv \in Convs \cup {NoConv}
      /\ TypeOK /\ PaneMine /\ Mine(worker[t].name, worker[t].conv)
  BY DEF OInv, Owned, WorkMine, TypeOK, Work, MaybeConv
<1>2. CASE worker[t].conv = NoConv
  BY <1>1, <1>2, FreshOwned DEF LaunchNoted
<1>3. CASE worker[t].conv # NoConv
  <2>1. PaneMine' /\ owner' = owner
    BY <1>1, <1>3, ResumeOwned DEF LaunchNoted, Mine
  <2> QED BY <2>1 DEF Mine
<1> QED BY <1>2, <1>3

(* A pane that is killed, or only shows another screen, breaks no link.    *)
LEMMA KilledOwned ==
  ASSUME TypeOK, PaneMine, NEW n \in Names, owner' = owner,
         pane' = [pane EXCEPT ![n] = Gone] \/ pane' = pane
  PROVE  PaneMine'
BY NullsFree DEF TypeOK, PaneMine, Alive

(* The agents post the id of the conversation they run, under their name.  *)
LEMMA AgentOwned ==
  ASSUME OInv, NEW n \in Names, AgentStep(n)
  PROVE  Owned'
<1> USE DEF OInv, Owned
<1>1. UNCHANGED <<owner, row, worker>>
  BY DEF AgentStep, AgentBoots, AgentPrompted, AgentStops, AgentNotifies, AgentExits, Screen, stores
<1>2. RowMine' /\ WorkMine'
  BY <1>1 DEF RowMine, WorkMine, Mine
<1>3. CASE AgentExits(n)
  <2>1. PaneMine'
    BY <1>1, <1>3, KilledOwned DEF AgentExits
  <2>2. HookMine'
    BY <1>1, <1>3 DEF AgentExits, HookMine, Mine
  <2> QED BY <1>2, <2>1, <2>2
<1>4. CASE ~AgentExits(n)
  <2>1. PICK y, z \in {"boot", "idle", "thinking"} :
          y # "gone" /\ pane[n].screen = y /\ pane' = [pane EXCEPT ![n].screen = z]
    BY <1>4 DEF AgentStep, AgentBoots, AgentPrompted, AgentStops, AgentNotifies, Screen
  <2>2. Alive(n) /\ pane \in [Names -> Pane]
    BY <2>1 DEF Alive, TypeOK
  <2>3. PaneMine'
    BY <1>1, <2>1, <2>2 DEF PaneMine, Alive, Pane
  <2>4. ASSUME NEW e, NEW c, Post(n, e, c), Mine(n, c) PROVE HookMine'
    BY <1>1, <2>4 DEF Post, HookMine, Mine
  <2>5. Mine(n, NoConv) /\ Mine(n, pane[n].conv)
    BY <2>2 DEF Mine, PaneMine
  <2>6. UNCHANGED hooks => HookMine'
    BY <1>1 DEF HookMine, Mine
  <2>7. \/ UNCHANGED hooks
        \/ \E e \in Events : Post(n, e, NoConv) \/ Post(n, e, pane[n].conv)
    BY <1>4 DEF AgentStep, AgentBoots, AgentPrompted, AgentStops, AgentNotifies, Events
  <2> QED BY <1>2, <2>3, <2>4, <2>5, <2>6, <2>7
<1> QED BY <1>3, <1>4

(* The hook handler writes the id a hook carries into the row it names.    *)
LEMMA HookOwned ==
  ASSUME OInv, NEW h \in hooks, HookStep(h) \/ HookLost(h)
  PROVE  Owned'
<1> USE DEF OInv, Owned
<1>1. UNCHANGED <<pane, owner, worker>>
  BY DEF HookStep, HookToCache, HookToRow, HookLost, agents
<1>2. PaneMine' /\ WorkMine'
  BY <1>1 DEF PaneMine, WorkMine, Alive, Mine
<1>3. Mine(h.name, h.conv) /\ h \in Hook /\ row \in [Names -> Row]
  BY DEF HookMine, TypeOK
<1>4. HookMine'
  <2>1. ASSUME NEW g \in hooks' PROVE g \in hooks \/ (g.name = h.name /\ g.conv = h.conv)
    BY <1>3, <2>1 DEF HookStep, HookToCache, HookToRow, HookLost, Hook
  <2> QED BY <1>1, <1>3, <2>1 DEF HookMine, Mine
<1>5. RowMine'
  BY <1>1, <1>3 DEF HookStep, HookToCache, HookToRow, HookLost, stores, RowMine, Mine, Row
<1> QED BY <1>2, <1>4, <1>5

(* The note of a resume carries the id of the row it names.                *)
LEMMA ResumeMine ==
  ASSUME OInv, NEW n \in Names
  PROVE  /\ ResumeWork(n).name = n /\ Mine(n, ResumeWork(n).conv)
         /\ ResumeWork(n) \in Work
BY WorkOK DEF OInv, Owned, RowMine, ResumeWork, Ready

(* Whatever a thread notes when a request starts carries no id, or the id  *)
(* of the row of the session it names.                                     *)
LEMMA RequestOwned ==
  ASSUME OInv, NEW t \in Threads, NEW n \in Names, Request(t, n)
  PROVE  Owned'
<1> USE DEF OInv, Owned
<1>1. /\ worker \in [Workers -> Work] /\ t \in Workers /\ row \in [Names -> Row]
      /\ hooks \subseteq Hook
  BY DEF TypeOK, Workers
<1>2. PaneMine' /\ \A m \in Names, c \in MaybeConv : Mine(m, c) => Mine(m, c)'
  <2>1. CASE \E a \in Agents : RawLaunch(t, n, a)
    BY <2>1, FreshOwned DEF RawLaunch
  <2>2. CASE \A a \in Agents : ~RawLaunch(t, n, a)
    <3>1. owner' = owner /\ (pane' = [pane EXCEPT ![n] = Gone] \/ pane' = pane)
      BY <2>2 DEF Request, OpenStart, ResumeStart, RestartStart, KillStart, SweepStart,
                  RebuildStart, StatusStart, TaskDeleted, RenameStart, agents
    <3>2. PaneMine'
      BY <3>1, KilledOwned
    <3> QED BY <3>1, <3>2 DEF Mine
  <2> QED BY <2>1, <2>2
<1>3. RowMine' /\ HookMine'
  <2>1. /\ \A m \in Names : row[m].conv \in MaybeConv /\ Mine(m, row[m].conv)
        /\ \A h \in hooks : h.name \in Names /\ h.conv \in MaybeConv /\ Mine(h.name, h.conv)
    BY <1>1 DEF RowMine, HookMine, Row, Hook
  <2>2. hooks' = hooks /\ (row' = row \/ row' = [row EXCEPT ![n] = NoRow])
    BY DEF Request, OpenStart, ResumeStart, RestartStart, KillStart, SweepStart, RebuildStart,
           StatusStart, TaskDeleted, RenameStart, RawLaunch, stores
  <2>3. HookMine'
    BY <1>2, <2>1, <2>2 DEF HookMine
  <2>4. RowMine'
    BY <1>1, <1>2, <2>1, <2>2, NullsFree DEF RowMine, Mine
  <2> QED BY <2>3, <2>4
<1>4. \A u \in Workers \ {t} : worker'[u] = worker[u]
  BY <1>1 DEF Request, OpenStart, ResumeStart, RestartStart, KillStart, SweepStart,
              RebuildStart, StatusStart, TaskDeleted, RenameStart, RawLaunch, Begin
<1>5. worker'[t] = worker[t] \/ (owner' = owner /\ Mine(worker'[t].name, worker'[t].conv))
  <2> DEFINE OwnNote == Mine(worker'[t].name, worker'[t].conv)
  <2>1. ASSUME NEW w, Begin(t, w), Mine(w.name, w.conv) PROVE OwnNote
    BY <1>1, <2>1 DEF Begin
  <2>2. ASSUME NEW a \in Agents, OpenStart(t, n, a) PROVE OwnNote
    BY <2>1, <2>2 DEF OpenStart, Ready, Mine
  <2>3. ASSUME ResumeStart(t, n) PROVE OwnNote
    BY <2>1, <2>3, ResumeMine DEF ResumeStart
  <2>4. ASSUME RebuildStart(t, n) PROVE OwnNote
    <3>1. \A w \in Work : /\ [w EXCEPT !.at = "rebuild_launch"].name = w.name
                         /\ [w EXCEPT !.at = "rebuild_launch"].conv = w.conv
      BY DEF Work
    <3>2. /\ ResumeWork(n) \in Work /\ ResumeWork(n).name = n /\ Mine(n, ResumeWork(n).conv)
      BY ResumeMine
    <3>3. LET w == [ResumeWork(n) EXCEPT !.at = "rebuild_launch"]
          IN  Begin(t, w) /\ Mine(w.name, w.conv)
      BY <2>4, <3>1, <3>2 DEF RebuildStart
    <3> QED BY <2>1, <3>3
  <2>5. ASSUME RestartStart(t, n) PROVE OwnNote
    BY <2>1, <2>5 DEF RestartStart, Ready, Mine
  <2>6. ASSUME KillStart(t, n) PROVE OwnNote
    BY <2>1, <2>6 DEF KillStart, Ready, Mine
  <2>7. ASSUME SweepStart(t, n) PROVE OwnNote
    BY <2>1, <2>7 DEF SweepStart, Ready, Mine
  <2>8. ASSUME StatusStart(t, n) PROVE OwnNote
    BY <2>1, <2>8 DEF StatusStart, Ready, Mine
  <2>9. ASSUME NEW m \in Names, RenameStart(t, n, m) PROVE OwnNote
    BY <2>1, <2>9 DEF RenameStart, Ready, Mine
  <2>10. TaskDeleted(t, n) \/ (\E a \in Agents : RawLaunch(t, n, a)) => worker'[t] = worker[t]
    BY DEF TaskDeleted, RawLaunch
  <2>11. (\A a \in Agents : ~RawLaunch(t, n, a)) => owner' = owner
    BY DEF Request, OpenStart, ResumeStart, RestartStart, KillStart, SweepStart,
           RebuildStart, StatusStart, TaskDeleted, RenameStart, agents
  <2> QED BY <2>2, <2>3, <2>4, <2>5, <2>6, <2>7, <2>8, <2>9, <2>10, <2>11 DEF Request
<1>6. WorkMine'
  <2>1. \A u \in Workers : worker[u].name \in Names /\ worker[u].conv \in MaybeConv
                           /\ Mine(worker[u].name, worker[u].conv)
    BY <1>1 DEF Work, WorkMine
  <2>2. \A u \in Workers : worker'[u] = worker[u] \/ (u = t /\ owner' = owner
                                                       /\ Mine(worker'[u].name, worker'[u].conv))
    BY <1>4, <1>5
  <2> QED BY <1>2, <2>1, <2>2 DEF WorkMine, Mine
<1> QED BY <1>2, <1>3, <1>6

(* A request that goes on writes no id into a row: it keeps it or clears   *)
(* it.                                                                     *)
LEMMA RowForgets ==
  ASSUME TypeOK, NEW t \in Workers, WorkStep(t)
  PROVE  \A n \in Names : row'[n].conv = NoConv \/ row'[n].conv = row[n].conv
<1>0. worker[t].name \in Names /\ row \in [Names -> Row]
  BY DEF TypeOK, Work
<1>1. CASE OpenSave(t) \/ ResumeCheck(t)
  <2>1. PICK m \in Names :
          \/ \E a : row' = [row EXCEPT ![m] = [there |-> TRUE, conv |-> NoConv, agent |-> a]]
          \/ \E a : row' = [row EXCEPT ![m].agent = a]
          \/ row' = [row EXCEPT ![m].conv = NoConv]
          \/ row' = row
    BY <1>0, <1>1 DEF OpenSave, ResumeCheck
  <2> QED BY <1>0, <2>1 DEF Row
<1>2. CASE KillDelete(t) \/ SweepDelete(t) \/ RenameDelete(t) \/ RenameCreate(t)
  <2>1. NoRow.conv = NoConv /\ [NoRow EXCEPT !.there = TRUE].conv = NoConv
    BY DEF NoRow
  <2>2. \E m : row' = [row EXCEPT ![m] = NoRow] \/ row' = [row EXCEPT ![m] = [NoRow EXCEPT !.there = TRUE]]
    BY <1>2 DEF KillDelete, SweepDelete, RenameDelete, RenameCreate
  <2> QED BY <1>0, <2>1, <2>2
<1>3. \/ UNCHANGED row \/ OpenSave(t) \/ ResumeCheck(t) \/ KillDelete(t) \/ SweepDelete(t)
      \/ RenameDelete(t) \/ RenameCreate(t)
  BY DEF WorkStep, LaunchFails, OpenLaunch, OpenSeed, ResumeLaunch, ResumeConfirm, ResumeMark,
         RestartResume, KillMark, SweepKill, SweepMark, RebuildLaunch, StatusMark, stores
<1> QED BY <1>1, <1>2, <1>3

(* Every later step of a request acts on an id of the session it noted.    *)
LEMMA WorkOwned ==
  ASSUME OInv, NEW t \in Workers, WorkStep(t)
  PROVE  Owned'
<1> USE DEF OInv, Owned
<1>1. /\ worker \in [Workers -> Work] /\ worker[t] \in Work
      /\ worker[t].name \in Names /\ worker[t].agent \in Agents /\ worker[t].conv \in MaybeConv
      /\ row \in [Names -> Row] /\ pane \in [Names -> Pane] /\ hooks \subseteq Hook
  BY DEF TypeOK, Work
<1>2. UNCHANGED hooks
  BY DEF WorkStep, LaunchFails, OpenLaunch, OpenSave, OpenSeed, ResumeCheck, ResumeLaunch,
         ResumeConfirm, ResumeMark, RestartResume, KillMark, KillDelete, SweepKill,
         SweepDelete, SweepMark, RebuildLaunch, RenameDelete, RenameCreate, StatusMark
<1>3. PaneMine' /\ \A m \in Names, c \in MaybeConv : Mine(m, c) => Mine(m, c)'
  <2>1. CASE OpenLaunch(t)
    BY <1>1, <2>1, FreshOwned DEF OpenLaunch
  <2>2. CASE ResumeLaunch(t) \/ RebuildLaunch(t)
    BY <2>2, NotedOwned DEF ResumeLaunch, RebuildLaunch
  <2>3. CASE SweepKill(t)
    <3>1. PaneMine' /\ owner' = owner
      BY <1>1, <2>3, KilledOwned DEF SweepKill
    <3> QED BY <3>1 DEF Mine
  <2>4. CASE UNCHANGED agents
    BY <2>4 DEF agents, PaneMine, Alive, Mine
  <2>5. OpenLaunch(t) \/ ResumeLaunch(t) \/ RebuildLaunch(t) \/ SweepKill(t) \/ UNCHANGED agents
    BY DEF WorkStep, LaunchFails, OpenSave, OpenSeed, ResumeCheck, ResumeConfirm, ResumeMark,
           RestartResume, KillMark, KillDelete, SweepDelete, SweepMark, StatusMark,
           RenameDelete, RenameCreate
  <2> QED BY <2>1, <2>2, <2>3, <2>4, <2>5
<1>4. \A n \in Names : row'[n].conv = NoConv \/ row'[n].conv = row[n].conv
  BY RowForgets
<1>5. RowMine' /\ HookMine'
  <2>1. \A n \in Names : row[n].conv \in MaybeConv /\ Mine(n, row[n].conv)
    BY <1>1 DEF Row, RowMine
  <2>2. \A h \in hooks : h.name \in Names /\ h.conv \in MaybeConv /\ Mine(h.name, h.conv)
    BY <1>1 DEF Hook, HookMine
  <2>3. RowMine'
    BY <1>3, <1>4, <2>1 DEF RowMine, Mine
  <2>4. HookMine'
    BY <1>2, <1>3, <2>2 DEF HookMine
  <2> QED BY <2>3, <2>4
<1>6. \A u \in Workers : Mine(worker'[u].name, worker'[u].conv)
  <2>1. \A u \in Workers : u # t => worker'[u] = worker[u]
    BY <1>1 DEF WorkStep, LaunchFails, OpenLaunch, OpenSave, OpenSeed, ResumeCheck, ResumeLaunch,
         ResumeConfirm, ResumeMark, RestartResume, KillMark, KillDelete, SweepKill,
         SweepDelete, SweepMark, RebuildLaunch, RenameDelete, RenameCreate, StatusMark, Goto, Done
  <2>2. Mine(worker[t].name, worker[t].conv)
    BY DEF WorkMine
  <2> DEFINE OwnNote == Mine(worker'[t].name, worker'[t].conv)
  <2>3. ASSUME Done(t) PROVE OwnNote
    BY <1>1, <2>3, NullsFree DEF Done, Mine
  <2>4. ASSUME NEW s, Goto(t, s) PROVE OwnNote
    BY <1>1, <2>2, <2>4 DEF Goto, Work
  <2>5. ASSUME ResumeCheck(t) \/ ResumeConfirm(t) PROVE OwnNote
    BY <1>1, <2>2, <2>5 DEF ResumeCheck, ResumeConfirm, Work, Mine
  <2>6. ASSUME RestartResume(t) PROVE OwnNote
    BY <1>1, <2>3, <2>6, ResumeMine DEF RestartResume
  <2>7. \/ Done(t) \/ (\E s : Goto(t, s)) \/ RestartResume(t)
        \/ ResumeCheck(t) \/ ResumeConfirm(t)
    BY DEF WorkStep, LaunchFails, OpenLaunch, OpenSave, OpenSeed, ResumeLaunch, ResumeMark,
           KillMark, KillDelete, SweepKill, SweepDelete, SweepMark, RebuildLaunch, RenameDelete, RenameCreate, StatusMark
  <2>8. OwnNote
    BY <2>3, <2>4, <2>5, <2>6, <2>7
  <2> QED BY <2>1, <2>8 DEF WorkMine
<1>7. WorkMine'
  <2>1. worker' \in [Workers -> Work]
    BY WorkTypes DEF TypeOK
  <2>2. \A u \in Workers : worker'[u].name \in Names /\ worker'[u].conv \in MaybeConv
    BY <2>1 DEF Work
  <2> QED BY <1>3, <1>6, <2>2 DEF WorkMine
<1> QED BY <1>3, <1>5, <1>7

(* Crash and start of the server keep the links of what survives.          *)
LEMMA ServerOwned ==
  ASSUME OInv, ReapStep \/ BootStep \/ ServerCrash
  PROVE  Owned'
<1> USE DEF OInv, Owned
<1>1. UNCHANGED <<pane, owner, row>> /\ (hooks' = hooks \/ hooks' = {})
  BY DEF ReapStep, ReapStart, ReapProbe, ReapMark, BootStep, ServerBoot, ServerListens,
         RecoverOne, ServerCrash, agents, stores
<1>2. PaneMine' /\ RowMine' /\ HookMine'
  BY <1>1 DEF PaneMine, RowMine, HookMine, Alive, Mine
<1>3. \A u \in Workers : worker'[u] = worker[u] \/ Mine(worker'[u].name, worker'[u].conv)
  <2>1. CASE ServerCrash
    BY <2>1, NullsFree DEF ServerCrash, Mine
  <2>2. ASSUME NEW n \in Names, RecoverOne(n)
        PROVE  \A u \in Workers : worker'[u] = worker[u] \/ Mine(worker'[u].name, worker'[u].conv)
    BY <2>2, ResumeMine DEF RecoverOne, TypeOK
  <2>3. UNCHANGED worker \/ ServerCrash \/ \E n \in Names : RecoverOne(n)
    BY DEF ReapStep, ReapStart, ReapProbe, ReapMark, BootStep, ServerBoot, ServerListens
  <2> QED BY <2>1, <2>2, <2>3
<1>4. WorkMine'
  BY <1>1, <1>3 DEF WorkMine, Mine
<1> QED BY <1>2, <1>4

(* Nothing is owned when the table is empty.                               *)
LEMMA InitOwned == Init => OInv
<1> SUFFICES ASSUME Init PROVE Owned
  BY InitTypes DEF OInv
<1> QED BY NullsFree DEF Init, Owned, PaneMine, RowMine, HookMine, WorkMine, Mine, Alive

(* The whole chain of links is inductive.                                  *)
LEMMA NextOwned == OInv /\ [Next]_vars => OInv'
<1> SUFFICES ASSUME OInv, [Next]_vars PROVE Owned'
  BY NextTypes DEF OInv
<1>1. ASSUME NEW c \in Convs, TranscriptLost(c) PROVE Owned'
  BY <1>1 DEF OInv, Owned, PaneMine, RowMine, HookMine, WorkMine, Mine, Alive, TranscriptLost, stores
<1>2. ASSUME NEW m \in timers, TimerStep(m) PROVE Owned'
  BY <1>2 DEF OInv, Owned, PaneMine, RowMine, HookMine, WorkMine, Mine, Alive,
              TimerStep, TimerReads, TimerWrites, agents, stores
<1>3. CASE UNCHANGED vars
  BY <1>3 DEF OInv, Owned, PaneMine, RowMine, HookMine, WorkMine, Mine, Alive, vars, agents, stores
<1> QED
  BY <1>1, <1>2, <1>3, AgentOwned, HookOwned, RequestOwned, WorkOwned, ServerOwned DEF Next

(* No two tmux sessions ever run the same agent conversation: a live pane  *)
(* runs an id that was minted under its own name.                          *)
THEOREM OneConversationOnePane == Spec => []ConversationInOnePane
<1>1. OInv => ConversationInOnePane
  BY DEF OInv, Owned, PaneMine, ConversationInOnePane
<1> QED BY <1>1, InitOwned, NextOwned, PTL DEF Spec

-----------------------------------------------------------------------------
(* What no step does to the cache and the rows.                            *)

(* What the start of a request leaves as it is.                            *)
LEMMA RequestKeeps ==
  ASSUME NEW t \in Threads, NEW n \in Names, Request(t, n)
  PROVE  /\ server = "up" /\ UNCHANGED <<cache, hooks, jobs, boot>>
         /\ row' = row \/ row' = [row EXCEPT ![n] = NoRow]
BY DEF Request, OpenStart, ResumeStart, RestartStart, KillStart, SweepStart, RebuildStart,
       StatusStart, TaskDeleted, RenameStart, RawLaunch, Begin, Asked, stores

(* What the later steps of a request leave as it is.                       *)
LEMMA WorkKeeps ==
  ASSUME NEW t \in Workers, WorkStep(t)
  PROVE  /\ UNCHANGED <<hooks, reaper, boot>>
         /\ \/ row' = row \/ OpenSave(t) \/ ResumeCheck(t) \/ KillDelete(t) \/ SweepDelete(t)
            \/ RenameDelete(t) \/ RenameCreate(t)
BY DEF WorkStep, LaunchFails, OpenLaunch, OpenSave, OpenSeed, ResumeCheck, ResumeLaunch,
       ResumeConfirm, ResumeMark, RestartResume, KillMark, KillDelete, SweepKill, SweepDelete,
       SweepMark, RenameDelete, RenameCreate, RebuildLaunch, StatusMark, stores, jobs

(* What everybody else leaves as it is.                                    *)
Elsewhere == \/ UNCHANGED vars \/ ReapStep \/ (\E c \in Convs : TranscriptLost(c))
             \/ (\E h \in hooks : HookStep(h) \/ HookLost(h)) \/ (\E m \in timers : TimerStep(m))
             \/ (\E n \in Names : AgentStep(n))
LEMMA ElsewhereKeeps ==
  ASSUME Elsewhere
  PROVE  /\ UNCHANGED <<worker, boot, users>>
         /\ row' = row \/ \E h \in hooks : HookToRow(h)
BY DEF Elsewhere, vars, ReapStep, ReapStart, ReapProbe, ReapMark, TranscriptLost, HookStep,
       HookToCache, HookToRow, HookLost, TimerStep, TimerReads, TimerWrites, AgentStep, AgentBoots,
       AgentPrompted, AgentStops, AgentNotifies, AgentExits, Screen, stores

(* One set_state, of any session to any state.                             *)
CacheWrite == \E n \in Names, z \in States, c \in MaybeConv : SetState(n, z, c)

(* Every write of the cache is a set_state, unless the process ends or     *)
(* starts.                                                                 *)
LEMMA CacheWrites ==
  ASSUME TypeOK, [Next]_vars
  PROVE  cache' = cache \/ CacheWrite \/ ServerCrash \/ ServerBoot
<1>0. NoConv \in MaybeConv /\ {"starting", "crashed", "stopped"} \subseteq States
      /\ LiveStates \subseteq States /\ DeadStates \subseteq States
  BY DEF MaybeConv, States, LiveStates, DeadStates
<1>1. ASSUME NEW h \in hooks, HookStep(h) \/ HookLost(h) PROVE cache' = cache \/ CacheWrite
  <2>1. h.name \in Names /\ h.event \in Events /\ h.conv \in MaybeConv
    BY DEF TypeOK, Hook
  <2>2. HookState(h.event) \in States
    BY <2>1 DEF HookState, Events, States, LiveStates
  <2> QED BY <1>1, <2>1, <2>2 DEF HookStep, HookToCache, HookToRow, HookLost, CacheWrite, stores
<1>2. ASSUME NEW m \in timers, TimerStep(m) PROVE cache' = cache \/ CacheWrite
  <2>1. m.name \in Names /\ m.conv \in MaybeConv /\ m.read \in LiveStates \cup {"unread"}
    BY DEF TypeOK, Timer
  <2> QED BY <1>0, <1>2, <2>1 DEF TimerStep, TimerReads, TimerWrites, CacheWrite, stores
<1>3. ASSUME NEW t \in Workers, WorkStep(t) PROVE cache' = cache \/ CacheWrite
  <2>1. worker[t].name \in Names /\ worker[t].conv \in MaybeConv /\ worker[t].state \in States
    BY DEF TypeOK, Work
  <2>2. CASE ResumeMark(t)
    BY <1>0, <2>1, <2>2 DEF ResumeMark, CacheWrite
  <2>3. CASE OpenSeed(t) \/ KillMark(t) \/ SweepMark(t) \/ StatusMark(t)
    BY <1>0, <2>1, <2>3 DEF OpenSeed, KillMark, SweepMark, StatusMark, CacheWrite
  <2>4. \/ cache' = cache \/ ResumeMark(t)
        \/ OpenSeed(t) \/ KillMark(t) \/ SweepMark(t) \/ StatusMark(t)
    BY <1>3 DEF WorkStep, LaunchFails, OpenLaunch, OpenSave, ResumeCheck, ResumeLaunch,
                ResumeConfirm, RestartResume, KillDelete, SweepKill, SweepDelete,
                RebuildLaunch, RenameDelete, RenameCreate, stores
  <2> QED BY <2>2, <2>3, <2>4
<1>4. ASSUME ReapStep PROVE cache' = cache \/ CacheWrite
  <2>1. CASE ReapMark
    <3>1. reaper.name \in Names /\ reaper.verdict \in DeadStates
      BY <2>1 DEF ReapMark, TypeOK
    <3> QED BY <1>0, <2>1, <3>1 DEF ReapMark, CacheWrite
  <2>2. CASE ~ReapMark
    BY <1>4, <2>2 DEF ReapStep, ReapStart, ReapProbe, stores
  <2> QED BY <2>1, <2>2
<1>5. ASSUME NEW t \in Threads, NEW n \in Names, Request(t, n) PROVE cache' = cache
  BY <1>5 DEF Request, OpenStart, ResumeStart, RestartStart, KillStart, SweepStart, RebuildStart,
              StatusStart, TaskDeleted, RenameStart, RawLaunch, Asked, stores
<1>6. ASSUME NEW n \in Names, AgentStep(n) PROVE cache' = cache
  BY <1>6 DEF AgentStep, AgentBoots, AgentPrompted, AgentStops, AgentNotifies, AgentExits,
              Screen, stores
<1>7. ASSUME NEW c \in Convs, TranscriptLost(c) PROVE cache' = cache
  BY <1>7 DEF TranscriptLost, stores
<1>8. BootStep => ServerBoot \/ cache' = cache
  BY DEF BootStep, ServerListens, RecoverOne, stores
<1>9. UNCHANGED vars => cache' = cache
  BY DEF vars, stores
<1> QED BY <1>1, <1>2, <1>3, <1>4, <1>5, <1>6, <1>7, <1>8, <1>9 DEF Next

(* While the process lives the cache never forgets a conversation id.      *)
THEOREM KnownIdsKept == Spec => KnownIdKept
<1>1. ASSUME TypeOK, [Next]_vars, NEW n \in Names, server = "up", server' = "up",
             cache[n].conv # NoConv
      PROVE  cache'[n].conv # NoConv
  <2>1. cache' = cache \/ CacheWrite
    BY <1>1, CacheWrites DEF ServerCrash, ServerBoot
  <2>2. ASSUME CacheWrite PROVE cache'[n].conv # NoConv
    <3>1. PICK m \in Names, z \in States, c \in MaybeConv : SetState(m, z, c)
      BY <2>2 DEF CacheWrite
    <3>2. cache \in [Names -> Entry]
      BY <1>1 DEF TypeOK
    <3>3. CASE m = n
      BY <1>1, <3>1, <3>2, <3>3, SetStateOK
    <3>4. CASE m # n
      <4>1. cache'[n] = cache[n]
        BY <3>1, <3>2, <3>4, SetStateOK
      <4> QED BY <1>1, <4>1
    <3> QED BY <3>3, <3>4
  <2> QED BY <1>1, <2>1, <2>2
<1> DEFINE Kept == \A n \in Names :
      server = "up" /\ server' = "up" /\ cache[n].conv # NoConv => cache'[n].conv # NoConv
<1>2. TypeOK /\ [Next]_vars => [Kept]_vars
  BY <1>1
<1>3. []TypeOK /\ [][Next]_vars => [][Kept]_vars
  BY <1>2, PTL
<1> QED BY <1>3, TypeCorrect, PTL DEF Spec, KnownIdKept

(* The thread of the server's start only ever resumes.                     *)
ResumeSteps    == {"ready", "resume_check", "resume_launch", "resume_confirm", "resume_mark"}
StarterResumes == worker[Starter].at \in ResumeSteps
SInv           == TypeOK /\ StarterResumes

(* The starter thread only ever resumes.                                   *)
LEMMA StarterStep == SInv /\ [Next]_vars => SInv'
<1> SUFFICES ASSUME SInv, [Next]_vars PROVE StarterResumes'
  BY NextTypes DEF SInv
<1> USE DEF SInv
<1>1. worker \in [Workers -> Work] /\ Starter \in Workers /\ Starter \notin Threads
  BY StarterAssumption DEF TypeOK, Workers
<1>2. Ready.at = "ready" /\ \A n \in Names : ResumeWork(n).at = "resume_check"
  BY DEF Ready, ResumeWork
<1>3. CASE UNCHANGED worker
  BY <1>3 DEF StarterResumes
<1>4. ASSUME NEW t \in Threads, NEW n \in Names, Request(t, n) PROVE StarterResumes'
  BY <1>1, <1>4 DEF Request, OpenStart, ResumeStart, RestartStart, KillStart, SweepStart,
                    RebuildStart, StatusStart, TaskDeleted, RenameStart, RawLaunch, Asked, Begin, StarterResumes
<1>5. ASSUME NEW t \in Workers, WorkStep(t) PROVE StarterResumes'
  <2>1. CASE t = Starter
    <3>1. LaunchFails(t) \/ ResumeCheck(t) \/ ResumeLaunch(t) \/ ResumeConfirm(t) \/ ResumeMark(t)
      BY <1>5, <2>1 DEF StarterResumes, ResumeSteps, WorkStep, At, OpenLaunch, OpenSave, OpenSeed,
                        RestartResume, KillMark, KillDelete, SweepKill, SweepDelete, SweepMark,
                        RebuildLaunch, RenameDelete, RenameCreate, StatusMark
    <3>2. CASE LaunchFails(t) \/ ResumeMark(t)
      BY <1>1, <1>2, <2>1, <3>2 DEF LaunchFails, ResumeMark, Done, StarterResumes, ResumeSteps
    <3>3. CASE ResumeCheck(t)
      BY <1>1, <2>1, <3>3 DEF ResumeCheck, StarterResumes, ResumeSteps, Work
    <3>4. CASE ResumeLaunch(t) \/ ResumeConfirm(t)
      BY <1>1, <2>1, <3>4 DEF ResumeLaunch, ResumeConfirm, Goto, StarterResumes, ResumeSteps, Work
    <3> QED BY <3>1, <3>2, <3>3, <3>4
  <2>2. CASE t # Starter
    BY <1>1, <1>5, <2>2 DEF WorkStep, LaunchFails, OpenLaunch, OpenSave, OpenSeed, ResumeCheck,
         ResumeLaunch, ResumeConfirm, ResumeMark, RestartResume, KillMark, KillDelete, SweepKill,
         SweepDelete, SweepMark, RebuildLaunch, RenameDelete, RenameCreate, StatusMark, Goto, Done, StarterResumes
  <2> QED BY <2>1, <2>2
<1>6. ASSUME NEW n \in Names, RecoverOne(n) PROVE StarterResumes'
  BY <1>1, <1>2, <1>6 DEF RecoverOne, StarterResumes, ResumeSteps
<1>7. CASE ServerCrash
  BY <1>1, <1>2, <1>7 DEF ServerCrash, StarterResumes, ResumeSteps
<1>8. \/ UNCHANGED worker \/ ServerCrash
      \/ \E t \in Workers : WorkStep(t)
      \/ \E n \in Names : RecoverOne(n)
      \/ \E t \in Threads, n \in Names : Request(t, n)
  BY DEF Next, vars, AgentStep, AgentBoots, AgentPrompted, AgentStops, AgentNotifies, AgentExits,
         Screen, TranscriptLost, HookStep, HookToCache, HookToRow, HookLost, TimerStep,
         TimerReads, TimerWrites, ReapStep, ReapStart, ReapProbe, ReapMark, BootStep,
         ServerBoot, ServerListens
<1> QED BY <1>3, <1>4, <1>5, <1>6, <1>7, <1>8

(* The starter thread begins idle.                                         *)
LEMMA InitStarter == Init => SInv
<1> SUFFICES ASSUME Init PROVE StarterResumes
  BY InitTypes DEF SInv
<1> QED BY DEF Init, Ready, Workers, StarterResumes, ResumeSteps

(* A deleted row comes back through the save of an open_session, or with   *)
(* the task renamed to its name, and only through one a request made for   *)
(* that very session.                                                      *)
THEOREM DeletedStaysDeleted == Spec => DeletedRowStaysDeleted
<1> DEFINE Made(n) == \E t \in Threads : (At(t, "open_save") /\ worker[t].name = n)
                                         \/ (At(t, "rename_create") /\ worker[t].to = n)
           Opened == \A n \in Names : ~row[n].there /\ row'[n].there => Made(n)
<1>1. SInv /\ [Next]_vars => [Opened]_vars
  <2> SUFFICES ASSUME SInv, [Next]_vars, NEW n \in Names, ~row[n].there, row'[n].there
               PROVE  Made(n)
    OBVIOUS
  <2>1. row \in [Names -> Row] /\ NoRow.there = FALSE
    BY DEF SInv, TypeOK, NoRow
  <2>2. ASSUME NEW t \in Workers, OpenSave(t) \/ RenameCreate(t) PROVE Made(n)
    <3>1. t \in Threads
      BY <2>2 DEF OpenSave, RenameCreate, At, SInv, StarterResumes, ResumeSteps, Workers
    <3>2. CASE OpenSave(t)
      <4>1. worker[t].name = n
        BY <2>1, <3>2 DEF OpenSave, Row
      <4> QED BY <3>1, <3>2, <4>1 DEF OpenSave
    <3>3. CASE RenameCreate(t)
      <4>1. worker[t].to = n
        BY <2>1, <3>3 DEF RenameCreate, Row
      <4> QED BY <3>1, <3>3, <4>1 DEF RenameCreate
    <3> QED BY <2>2, <3>2, <3>3
  <2>3. ASSUME NEW t \in Workers, ResumeCheck(t) PROVE row'[n].there = row[n].there
    BY <2>1, <2>3 DEF ResumeCheck, Row
  <2>4. ASSUME NEW t \in Workers, KillDelete(t) \/ SweepDelete(t) \/ RenameDelete(t)
        PROVE  row'[n].there = row[n].there \/ row'[n].there = FALSE
    BY <2>1, <2>4 DEF KillDelete, SweepDelete, RenameDelete, Row
  <2>5. ASSUME NEW h \in hooks, HookToRow(h) PROVE row'[n].there = row[n].there
    BY <2>1, <2>5 DEF HookToRow, Row
  <2>6. ASSUME NEW t \in Threads, NEW m \in Names, Request(t, m)
        PROVE  row'[n].there = row[n].there \/ row'[n].there = FALSE
    BY <2>1, <2>6, RequestKeeps
  <2>7. ServerCrash \/ BootStep => row' = row
    BY DEF ServerCrash, BootStep, ServerBoot, ServerListens, RecoverOne, stores
  <2>8. Elsewhere \/ ServerCrash \/ BootStep \/ (\E t \in Workers : WorkStep(t))
        \/ (\E t \in Threads, m \in Names : Request(t, m))
    BY DEF Next, Elsewhere
  <2> QED BY <2>2, <2>3, <2>4, <2>5, <2>6, <2>7, <2>8, ElsewhereKeeps, WorkKeeps
<1>2. []SInv /\ [][Next]_vars => [][Opened]_vars
  BY <1>1, PTL
<1> QED BY <1>2, InitStarter, StarterStep, PTL DEF Spec, DeletedRowStaysDeleted

(* The start of the server: nothing is listening, so no hook is in flight, *)
(* and once the cache is rebuilt every row with an id has an entry.        *)
Covered == server = "booting" => \A n \in Names : row[n].conv # NoConv => cache[n] # NoEntry
Silent  == server # "up" => hooks = {}
BInv    == TypeOK /\ Silent /\ Covered

(* What the start of the server writes covers every row with an id.        *)
LEMMA BootedCovered == ASSUME ServerBoot PROVE Covered'
<1>1. "crashed" # "absent" /\ NoEntry.state = "absent"
      /\ \A n \in Names : StateOnScreen(n) # "absent"
  BY DEF NoEntry, StateOnScreen
<1> SUFFICES ASSUME NEW n \in Names, row[n].conv # NoConv PROVE cache'[n].state # "absent"
  BY <1>1 DEF Covered, ServerBoot, agents
<1>2. CASE Alive(n)
  BY <1>1, <1>2 DEF ServerBoot, Crashed, RebuiltEntry
<1>3. CASE ~Alive(n)
  BY <1>1, <1>3 DEF ServerBoot, Crashed
<1> QED BY <1>2, <1>3

(* Going on with the start uncovers no row.                                *)
LEMMA BootStepCovered == BInv /\ [Next]_vars => BInv'
<1> SUFFICES ASSUME BInv, [Next]_vars PROVE Silent' /\ Covered'
  BY NextTypes DEF BInv
<1> USE DEF BInv
<1>0. Elsewhere \/ ServerCrash \/ BootStep \/ (\E t \in Workers : WorkStep(t))
      \/ (\E t \in Threads, n \in Names : Request(t, n))
  BY DEF Next, Elsewhere
<1>1. Silent'
  <2>1. ASSUME NEW n \in Names, AgentStep(n) PROVE Silent'
    BY <2>1 DEF AgentStep, AgentBoots, AgentPrompted, AgentStops, AgentNotifies, AgentExits,
                Screen, Post, Silent, boot
  <2>2. CASE ServerCrash
    BY <2>2 DEF ServerCrash, Silent
  <2>3. ASSUME UNCHANGED server, hooks' = hooks \/ hooks # {} PROVE Silent'
    BY <2>3 DEF Silent
  <2>4. CASE BootStep
    BY <2>4 DEF BootStep, ServerBoot, ServerListens, RecoverOne, Silent
  <2>5. Elsewhere => (UNCHANGED server /\ (hooks' = hooks \/ hooks # {}))
                     \/ \E n \in Names : AgentStep(n)
    BY DEF Elsewhere, vars, boot, ReapStep, ReapStart, ReapProbe, ReapMark, TranscriptLost,
           HookStep, HookToCache, HookToRow, HookLost, TimerStep, TimerReads, TimerWrites
  <2>6. ASSUME NEW t \in Workers, WorkStep(t) PROVE Silent'
    BY <2>3, <2>6, WorkKeeps DEF boot
  <2>7. ASSUME NEW t \in Threads, NEW n \in Names, Request(t, n) PROVE Silent'
    BY <2>3, <2>7, RequestKeeps DEF boot
  <2> QED BY <1>0, <2>1, <2>2, <2>3, <2>4, <2>5, <2>6, <2>7
<1>2. Covered'
  <2>1. CASE ServerBoot
    BY <2>1, BootedCovered
  <2>2. CASE server' # "booting"
    BY <2>2 DEF Covered
  <2>3. CASE ~ServerBoot /\ server' = "booting"
    <3>1. server = "booting" /\ hooks = {} /\ ~ServerCrash
      <4>1. ServerCrash => server' = "down"
        BY DEF ServerCrash
      <4>2. BootStep => server = "booting"
        BY <2>3 DEF BootStep, ServerListens, RecoverOne
      <4>3. ~ServerCrash /\ ~BootStep => UNCHANGED server
        BY <1>0, ElsewhereKeeps, WorkKeeps, RequestKeeps DEF boot
      <4> QED BY <2>3, <4>1, <4>2, <4>3 DEF Silent
    <3>2. \A n \in Names : row'[n].conv = NoConv \/ row'[n].conv = row[n].conv
      <4>1. ASSUME NEW t \in Workers, WorkStep(t) PROVE <3>2
        BY <4>1, RowForgets
      <4>2. BootStep => row' = row
        BY DEF BootStep, ServerBoot, ServerListens, RecoverOne, stores
      <4>3. Elsewhere => row' = row
        BY <3>1, ElsewhereKeeps
      <4>4. ~ \E t \in Threads, n \in Names : Request(t, n)
        BY <3>1, RequestKeeps
      <4> QED BY <1>0, <3>1, <4>1, <4>2, <4>3, <4>4
    <3>3. \A n \in Names : cache[n] # NoEntry => cache'[n] # NoEntry
      <4>1. cache' = cache \/ CacheWrite
        BY <2>3, <3>1, CacheWrites
      <4>2. ASSUME CacheWrite PROVE <3>3
        <5>1. PICK m \in Names, z \in States, c \in MaybeConv : SetState(m, z, c)
          BY <4>2 DEF CacheWrite
        <5>2. cache'[m].state = z /\ \A n \in Names \ {m} : cache'[n] = cache[n]
          BY <5>1, SetStateOK DEF TypeOK
        <5>3. cache'[m] # NoEntry
          BY <5>2 DEF NoEntry, States, LiveStates, DeadStates
        <5> QED BY <5>2, <5>3
      <4> QED BY <4>1, <4>2
    <3> QED BY <3>1, <3>2, <3>3 DEF Covered
  <2> QED BY <2>1, <2>2, <2>3
<1> QED BY <1>1, <1>2

(* When the server starts to listen, every row with an id is in the cache. *)
THEOREM BootIsCovered == Spec => BootCoversRows
<1> DEFINE Cov == server = "booting" /\ server' = "up"
                    => \A n \in Names : row[n].conv # NoConv => cache[n] # NoEntry
<1>1. Init => BInv
  BY InitTypes DEF Init, BInv, Silent, Covered
<1>2. BInv /\ [Next]_vars => [Cov]_vars
  BY DEF BInv, Covered
<1>3. []BInv /\ [][Next]_vars => [][Cov]_vars
  BY <1>2, PTL
<1> QED BY <1>1, <1>3, BootStepCovered, PTL DEF Spec, BootCoversRows

-----------------------------------------------------------------------------
(* An agent that runs has a row.                                           *)
(*                                                                         *)
(* AgentHasRow says nothing of a session while a request has it in hand,   *)
(* so the strengthening says what that request may rely on until it has    *)
(* written: a name nobody contends for is in one hand at most, the row it  *)
(* found is still there, the pane it killed or found dead is still dead.   *)
RelyOn(t) ==
  LET n == worker[t].name IN
  /\ worker[t].at \in {"open_launch", "open_save"} /\ ~worker[t].flag => row[n].there
  /\ worker[t].at \in {"resume_check", "resume_launch", "rebuild_launch"} => row[n].there
  /\ worker[t].at \in {"kill_mark", "kill_delete", "sweep_delete"} => ~Alive(n)
  /\ worker[t].at = "sweep_kill" /\ ~worker[t].flag => ~Alive(n)
(* The only gap: open_session has launched the agent and not yet saved.    *)
Saving(n) == \E t \in Workers : At(t, "open_save") /\ worker[t].name = n /\ worker[t].flag
OneHand ==
  \A n \in Names \ contended : \A t, u \in Workers :
    n \in HandOf(worker[t]) /\ n \in HandOf(worker[u]) => t = u
Turns ==
  /\ server = "up" => worker[Starter].at = "ready"
  /\ server # "up" => \A t \in Threads : worker[t].at = "ready"
Relied == \A t \in Workers : worker[t].name \notin contended => RelyOn(t)
Held   == \A n \in Names \ contended : Alive(n) => row[n].there \/ Saving(n) \/ n \in adrift
HInv   == TypeOK /\ Turns /\ OneHand /\ Relied /\ Held

(* What a thread holds is the name it noted, and none once it is done.     *)
LEMMA HandOK ==
  ASSUME TypeOK, NEW t \in Workers
  PROVE  /\ worker[t] \in Work /\ worker[t].name \in Names
         /\ worker[t].at = "ready" => HandOf(worker[t]) = {} /\ RelyOn(t)
         /\ worker[t].at # "ready" => worker[t].name \in HandOf(worker[t])
BY DEF TypeOK, HandOf, RelyOn, Work

(* A step that leaves the threads alone wakes no pane and takes no row.    *)
LEMMA OthersKeepRows ==
  ASSUME HInv, TypeOK', UNCHANGED <<worker, users>>, Turns',
         \A n \in Names : row'[n].there = row[n].there,
         \A n \in Names : Alive(n)' => Alive(n)
  PROVE  HInv'
<1>1. \A t \in Workers : worker[t].name \in Names
  BY HandOK DEF HInv
<1>2. OneHand'
  BY DEF HInv, OneHand, HandOf, users
<1>3. Relied'
  BY <1>1 DEF HInv, Relied, RelyOn, users
<1>4. \A n \in Names : Saving(n)' <=> Saving(n)
  BY DEF Saving, At
<1>5. Held'
  BY <1>4 DEF HInv, Held, users
<1> QED BY <1>2, <1>3, <1>5 DEF HInv

(* A request begins: what it now holds is contended, or nobody else's.     *)
LEMMA BegunRows ==
  ASSUME HInv, TypeOK', NEW t \in Threads, NEW w \in Work, Begin(t, w),
         UNCHANGED <<row, server>>, \A m \in Names : Alive(m)' => Alive(m),
         RelyOn(t)'
  PROVE  HInv'
<1>1. /\ worker \in [Workers -> Work] /\ t \in Workers /\ Starter \in Workers /\ Starter # t
      /\ \A u \in Workers : worker[u].name \in Names
  BY HandOK, StarterAssumption DEF HInv, TypeOK, Workers
<1>2. /\ worker' = [worker EXCEPT ![t] = w] /\ worker[t].at = "ready" /\ server = "up"
      /\ contended' = contended \cup {n \in HandOf(w) : InHand(n)} /\ adrift' = adrift
  BY DEF Begin, Asked
<1>3. worker'[t] = w /\ \A u \in Workers \ {t} : worker'[u] = worker[u]
  BY <1>1, <1>2
<1>4. OneHand'
  <2> SUFFICES ASSUME NEW n \in Names \ contended', NEW u \in Workers, NEW v \in Workers,
                      n \in HandOf(worker'[u]), n \in HandOf(worker'[v]), u # v
               PROVE  FALSE
    BY DEF OneHand, HandOf
  <2>1. n \notin contended /\ ~(n \in HandOf(w) /\ InHand(n))
    BY <1>2
  <2>2. CASE u = t
    <3>1. n \in HandOf(w) /\ n \in HandOf(worker[v])
      BY <1>3, <2>2
    <3> QED BY <2>1, <3>1 DEF InHand
  <2>3. CASE v = t
    <3>1. n \in HandOf(w) /\ n \in HandOf(worker[u])
      BY <1>3, <2>3
    <3> QED BY <2>1, <3>1 DEF InHand
  <2>4. CASE u # t /\ v # t
    <3>1. n \in HandOf(worker[u]) /\ n \in HandOf(worker[v])
      BY <1>3, <2>4
    <3> QED BY <2>1, <3>1 DEF HInv, OneHand
  <2> QED BY <2>2, <2>3, <2>4
<1>5. Relied'
  <2> SUFFICES ASSUME NEW u \in Workers \ {t}, worker'[u].name \notin contended' PROVE RelyOn(u)'
    BY DEF Relied
  <2>1. worker'[u] = worker[u] /\ worker[u].name \notin contended /\ worker[u].name \in Names
    BY <1>1, <1>2, <1>3
  <2>2. RelyOn(u)
    BY <2>1 DEF HInv, Relied
  <2> QED BY <2>1, <2>2 DEF RelyOn
<1>6. Held'
  <2> SUFFICES ASSUME NEW n \in Names \ contended', Alive(n)'
               PROVE  row'[n].there \/ Saving(n)' \/ n \in adrift'
    BY DEF Held
  <2>1. row[n].there \/ Saving(n) \/ n \in adrift
    BY <1>2 DEF HInv, Held
  <2>2. Saving(n) => Saving(n)'
    BY <1>2, <1>3 DEF Saving, At
  <2> QED BY <1>2, <2>1, <2>2
<1>7. Turns'
  BY <1>1, <1>2, <1>3 DEF HInv, Turns
<1> QED BY <1>4, <1>5, <1>6, <1>7 DEF HInv

(* What a launch leaves of the other panes.                                *)
LEMMA LaunchElsewhere ==
  ASSUME TypeOK, NEW n \in Names, NEW a, NEW c, LaunchFresh(n, a) \/ LaunchResume(n, a, c)
  PROVE  \A m \in Names \ {n} : pane'[m] = pane[m]
BY DEF TypeOK, LaunchFresh, LaunchResume, agents

(* A row taken away, or an agent launched, outside a thread's work: the    *)
(* session is adrift, or has its row, and whoever has it in hand contends. *)
LEMMA SideRows ==
  ASSUME HInv, TypeOK', NEW t \in Threads, NEW n \in Names,
         TaskDeleted(t, n) \/ \E a \in Agents : RawLaunch(t, n, a)
  PROVE  HInv'
<1>1. /\ UNCHANGED <<worker, server>>
      /\ contended' = contended \cup {m \in {n} : InHand(m)}
      /\ adrift \subseteq adrift' /\ (row'[n].there \/ n \in adrift')
  BY DEF TaskDeleted, RawLaunch, Asked, boot, stores
<1>2. \A m \in Names \ {n} : pane'[m] = pane[m] /\ row'[m] = row[m]
  <2>1. CASE TaskDeleted(t, n)
    BY <2>1 DEF TaskDeleted, agents, HInv, TypeOK
  <2>2. ASSUME NEW a \in Agents, RawLaunch(t, n, a) PROVE <1>2
    BY <2>2, LaunchElsewhere DEF RawLaunch, stores, HInv
  <2> QED BY <2>1, <2>2
<1>3. OneHand'
  BY <1>1 DEF HInv, OneHand, HandOf
<1>4. Relied'
  <2> SUFFICES ASSUME NEW u \in Workers, worker'[u].name \notin contended' PROVE RelyOn(u)'
    BY DEF Relied
  <2>1. CASE worker[u].at = "ready"
    BY <1>1, <2>1 DEF RelyOn
  <2>2. CASE worker[u].at # "ready"
    <3>1. worker[u].name \in HandOf(worker[u]) /\ worker[u].name \in Names
      BY <2>2, HandOK DEF HInv
    <3>2. worker[u].name # n /\ worker[u].name \notin contended
      BY <1>1, <3>1 DEF InHand
    <3>3. RelyOn(u)
      BY <3>2 DEF HInv, Relied
    <3> QED BY <1>1, <1>2, <3>1, <3>2, <3>3 DEF RelyOn, Alive
  <2> QED BY <2>1, <2>2
<1>5. Held'
  <2>1. \A m \in Names : Saving(m)' <=> Saving(m)
    BY <1>1 DEF Saving, At
  <2> QED BY <1>1, <1>2, <2>1 DEF HInv, Held, Alive
<1>6. Turns'
  BY <1>1 DEF HInv, Turns
<1> QED BY <1>3, <1>4, <1>5, <1>6 DEF HInv

(* A request starts from a thread that holds nothing.                      *)
LEMMA RequestRows ==
  ASSUME HInv, TypeOK', NEW t \in Threads, NEW n \in Names, Request(t, n)
  PROVE  HInv'
<1>0. TypeOK /\ t \in Workers /\ worker \in [Workers -> Work] /\ pane \in [Names -> Pane]
  BY DEF HInv, TypeOK, Workers
<1>1. ASSUME NEW w, Begin(t, w) PROVE worker'[t] = w /\ w \in Work
  <2>1. worker'[t] = w /\ worker' \in [Workers -> Work]
    BY <1>0, <1>1 DEF Begin, TypeOK
  <2> QED BY <1>0, <2>1
<1>2. (UNCHANGED pane \/ pane' = [pane EXCEPT ![n] = Gone]) => \A m \in Names : Alive(m)' => Alive(m)
  BY <1>0 DEF Alive, Gone
<1>3. ASSUME NEW a \in Agents, OpenStart(t, n, a) PROVE HInv'
  <2> DEFINE w == [Ready EXCEPT !.at = "open_launch", !.name = n, !.agent = a, !.flag = ~row[n].there]
  <2>1. Begin(t, w) /\ UNCHANGED <<pane, row, server>>
    BY <1>3 DEF OpenStart, agents, stores, boot
  <2>2. w.at = "open_launch" /\ w.name = n /\ w.flag = (~row[n].there)
    BY DEF Ready
  <2>3. RelyOn(t)'
    BY <1>1, <2>1, <2>2 DEF RelyOn
  <2> QED BY <1>1, <1>2, <2>1, <2>3, BegunRows
<1>4. CASE ResumeStart(t, n) \/ RebuildStart(t, n)
  <2>1. PICK w : /\ Begin(t, w) /\ UNCHANGED <<pane, row, server>> /\ row[n].there
                 /\ w = ResumeWork(n) \/ w = [ResumeWork(n) EXCEPT !.at = "rebuild_launch"]
    BY <1>4 DEF ResumeStart, RebuildStart, Resumable, agents, stores, boot
  <2>2. w.name = n /\ w.at \in {"resume_check", "rebuild_launch"}
    BY <2>1 DEF ResumeWork, Ready
  <2>3. RelyOn(t)'
    BY <1>1, <2>1, <2>2 DEF RelyOn
  <2> QED BY <1>1, <1>2, <2>1, <2>3, BegunRows
<1>5. CASE RestartStart(t, n)
  <2> DEFINE w == [Ready EXCEPT !.at = "restart_resume", !.name = n]
  <2>1. Begin(t, w) /\ UNCHANGED <<row, server>> /\ pane' = [pane EXCEPT ![n] = Gone]
    BY <1>5 DEF RestartStart, stores, boot
  <2>2. w.at = "restart_resume"
    BY DEF Ready
  <2>3. RelyOn(t)'
    BY <1>1, <2>1, <2>2 DEF RelyOn
  <2> QED BY <1>1, <1>2, <2>1, <2>3, BegunRows
<1>6. CASE KillStart(t, n)
  <2> DEFINE w == [Ready EXCEPT !.at = "kill_mark", !.name = n]
  <2>1. Begin(t, w) /\ UNCHANGED <<row, server>> /\ pane' = [pane EXCEPT ![n] = Gone]
    BY <1>6 DEF KillStart, stores, boot
  <2>2. w.at = "kill_mark" /\ w.name = n
    BY DEF Ready
  <2>3. pane'[n].screen = "gone"
    BY <1>0, <2>1 DEF Gone
  <2>4. RelyOn(t)'
    BY <1>1, <2>1, <2>2, <2>3 DEF RelyOn, Alive
  <2> QED BY <1>1, <1>2, <2>1, <2>4, BegunRows
<1>7. CASE SweepStart(t, n)
  <2> DEFINE w == [Ready EXCEPT !.at = "sweep_kill", !.name = n, !.flag = Alive(n)]
  <2>1. Begin(t, w) /\ UNCHANGED <<pane, row, server>>
    BY <1>7 DEF SweepStart, agents, stores, boot
  <2>2. w.at = "sweep_kill" /\ w.name = n /\ w.flag = Alive(n)
    BY DEF Ready
  <2>3. RelyOn(t)'
    BY <1>1, <2>1, <2>2 DEF RelyOn, Alive
  <2> QED BY <1>1, <1>2, <2>1, <2>3, BegunRows
<1>8. CASE StatusStart(t, n)
  <2>1. PICK w : Begin(t, w) /\ UNCHANGED <<pane, row, server>> /\ w.at = "status_mark"
    <3>1. PICK z : /\ Begin(t, [Ready EXCEPT !.at = "status_mark", !.name = n, !.state = z])
                   /\ UNCHANGED <<pane, row, server>>
      BY <1>8 DEF StatusStart, agents, stores, boot
    <3>2. [Ready EXCEPT !.at = "status_mark", !.name = n, !.state = z].at = "status_mark"
      BY DEF Ready
    <3> QED BY <3>1, <3>2
  <2>2. RelyOn(t)'
    BY <1>1, <2>1 DEF RelyOn
  <2> QED BY <1>1, <1>2, <2>1, <2>2, BegunRows
<1>9. ASSUME NEW m \in Names, RenameStart(t, n, m) PROVE HInv'
  <2> DEFINE w == [Ready EXCEPT !.at = "rename_delete", !.name = n, !.to = m]
  <2>1. Begin(t, w) /\ UNCHANGED <<pane, row, server>>
    BY <1>9 DEF RenameStart, agents, stores, boot
  <2>2. w.at = "rename_delete"
    BY DEF Ready
  <2>3. RelyOn(t)'
    BY <1>1, <2>1, <2>2 DEF RelyOn
  <2> QED BY <1>1, <1>2, <2>1, <2>3, BegunRows
<1> QED BY <1>3, <1>4, <1>5, <1>6, <1>7, <1>8, <1>9, SideRows DEF Request

(* A request goes on: it touches only what it has in hand.                 *)
LEMMA WorkedRows ==
  ASSUME HInv, TypeOK', NEW t \in Workers, worker[t].at # "ready",
         UNCHANGED <<server, contended>>,
         \A u \in Workers \ {t} : worker'[u] = worker[u],
         HandOf(worker'[t]) \subseteq HandOf(worker[t]),
         \A m \in Names \ HandOf(worker[t]) :
           pane'[m] = pane[m] /\ row'[m].there = row[m].there /\ (m \in adrift => m \in adrift'),
         \A m \in HandOf(worker[t]) \ contended :
           Alive(m)' => row'[m].there \/ Saving(m)' \/ m \in adrift',
         worker'[t].name \notin contended => RelyOn(t)'
  PROVE  HInv'
<1>1. OneHand'
  <2> SUFFICES ASSUME NEW n \in Names \ contended, NEW u \in Workers, NEW v \in Workers,
                      n \in HandOf(worker'[u]), n \in HandOf(worker'[v])
               PROVE  u = v
    BY DEF OneHand, HandOf
  <2>1. n \in HandOf(worker[u]) /\ n \in HandOf(worker[v])
    OBVIOUS
  <2> QED BY <2>1 DEF HInv, OneHand
<1>2. ASSUME NEW u \in Workers \ {t}, worker'[u].name \notin contended PROVE RelyOn(u)'
  <2>1. worker'[u] = worker[u]
    OBVIOUS
  <2>2. CASE worker[u].at = "ready"
    BY <2>1, <2>2 DEF RelyOn
  <2>3. CASE worker[u].at # "ready"
    <3>1. worker[u].name \in HandOf(worker[u]) /\ worker[u].name \in Names
      BY <2>3, HandOK DEF HInv
    <3>2. worker[u].name \notin HandOf(worker[t]) /\ RelyOn(u)
      BY <1>2, <2>1, <3>1 DEF HInv, OneHand, Relied
    <3> QED BY <2>1, <3>1, <3>2 DEF RelyOn, Alive
  <2> QED BY <2>2, <2>3
<1>3. Relied'
  BY <1>2 DEF Relied
<1>4. ASSUME NEW n \in Names \ contended, Alive(n)', n \notin HandOf(worker[t])
      PROVE  row'[n].there \/ Saving(n)' \/ n \in adrift'
  <2>1. row[n].there \/ Saving(n) \/ n \in adrift
    BY <1>4 DEF HInv, Held, Alive
  <2>2. ASSUME Saving(n) PROVE Saving(n)'
    <3>1. PICK u \in Workers : At(u, "open_save") /\ worker[u].name = n /\ worker[u].flag
      BY <2>2 DEF Saving
    <3>2. n \in HandOf(worker[u])
      BY <3>1 DEF At, HandOf
    <3>3. worker'[u] = worker[u]
      BY <1>4, <3>2
    <3> QED BY <3>1, <3>3 DEF Saving, At
  <2> QED BY <1>4, <2>1, <2>2
<1>5. Held'
  BY <1>4 DEF Held
<1>6. Turns'
  BY DEF HInv, Turns, Workers
<1> QED BY <1>1, <1>3, <1>5, <1>6 DEF HInv

(* The later steps of a request, the only ones of a thread that take a row.*)
LEMMA WorkRows ==
  ASSUME HInv, TypeOK', NEW t \in Workers, WorkStep(t)
  PROVE  HInv'
<1>0. worker[t].at # "ready"
  BY DEF WorkStep, LaunchFails, OpenLaunch, OpenSave, OpenSeed, ResumeCheck, ResumeLaunch,
         ResumeConfirm, ResumeMark, RestartResume, KillMark, KillDelete, SweepKill, SweepDelete,
         SweepMark, RenameDelete, RenameCreate, RebuildLaunch, StatusMark, At
<1>n. PICK n \in Names : n = worker[t].name
  BY HandOK DEF HInv
<1> USE <1>n
<1> DEFINE Rest == UNCHANGED <<server, contended>> /\ \A u \in Workers \ {t} : worker'[u] = worker[u]
<1>1. /\ TypeOK /\ worker \in [Workers -> Work] /\ pane \in [Names -> Pane] /\ row \in [Names -> Row]
      /\ worker[t] \in Work /\ n \in Names /\ n \in HandOf(worker[t])
      /\ HandOf(worker[t]) = {n, worker[t].to} \cap Names
      /\ n \notin contended => RelyOn(t)
  BY <1>0, HandOK DEF HInv, TypeOK, Relied, HandOf
<1>2. Rest
  BY <1>1 DEF WorkStep, LaunchFails, OpenLaunch, OpenSave, OpenSeed, ResumeCheck, ResumeLaunch,
         ResumeConfirm, ResumeMark, RestartResume, KillMark, KillDelete, SweepKill, SweepDelete,
         SweepMark, RenameDelete, RenameCreate, RebuildLaunch, StatusMark, boot, users, Goto, Done
<1>3. ASSUME NEW m \in HandOf(worker[t]) \ contended, Alive(m)
      PROVE  row[m].there \/ m \in adrift \/ (m = n /\ worker[t].at = "open_save" /\ worker[t].flag)
  <2>1. m \in Names
    BY <1>1, <1>3
  <2>2. row[m].there \/ Saving(m) \/ m \in adrift
    BY <1>3, <2>1 DEF HInv, Held
  <2>3. ASSUME NEW u \in Workers, At(u, "open_save"), worker[u].name = m, worker[u].flag
        PROVE  u = t
    <3>1. m \in HandOf(worker[u])
      BY <2>1, <2>3 DEF At, HandOf
    <3> QED BY <1>3, <2>1, <3>1 DEF HInv, OneHand
  <2> QED BY <2>2, <2>3 DEF Saving, At
<1>4. \A s \in Steps : Goto(t, s) => /\ worker'[t].at = s /\ worker'[t].name = n
                                     /\ worker'[t].flag = worker[t].flag
                                     /\ worker'[t].to = worker[t].to
  BY <1>1 DEF Goto, Work
<1>5. Done(t) => worker'[t].at = "ready"
  BY <1>1 DEF Done, Ready
<1>6. {"open_seed", "open_save", "resume_confirm", "sweep_mark", "sweep_delete", "kill_delete",
       "rename_create", "ready"} \subseteq Steps
  BY DEF Steps
<1>7. /\ worker'[t].at = "ready" => HandOf(worker'[t]) = {} /\ RelyOn(t)'
      /\ worker'[t].name = n /\ worker'[t].to \in {worker[t].to, Nobody}
           => HandOf(worker'[t]) \subseteq HandOf(worker[t])
  <2>1. worker'[t].at = "ready" => HandOf(worker'[t]) = {} /\ RelyOn(t)'
    BY DEF HandOf, RelyOn
  <2>2. Nobody \notin Names
    BY NamesAssumption
  <2> QED BY <1>1, <2>1, <2>2 DEF HandOf
<1> DEFINE Narrows == HandOf(worker'[t]) \subseteq HandOf(worker[t])
           Relies  == n \notin contended => RelyOn(t)'
<1>8. ASSUME Narrows, worker'[t].at # "ready" => worker'[t].name = n /\ Relies,
             \A m \in Names \ HandOf(worker[t]) :
               pane'[m] = pane[m] /\ row'[m].there = row[m].there /\ (m \in adrift => m \in adrift'),
             \A m \in HandOf(worker[t]) \ contended :
               Alive(m)' => row'[m].there \/ Saving(m)' \/ m \in adrift'
      PROVE  HInv'
  BY <1>0, <1>2, <1>7, <1>8, WorkedRows
<1>9. ASSUME UNCHANGED <<pane, adrift>>, \A m \in Names : row'[m].there = row[m].there,
             worker[t].at # "open_save" \/ row[n].there \/ n \in contended,
             Narrows, worker'[t].at # "ready" => worker'[t].name = n /\ Relies
      PROVE  HInv'
  <2>1. ASSUME NEW m \in HandOf(worker[t]) \ contended, Alive(m)' PROVE row'[m].there \/ m \in adrift'
    BY <1>1, <1>3, <1>9, <2>1 DEF Alive
  <2> QED BY <1>8, <1>9, <2>1
<1>10. CASE LaunchFails(t) \/ OpenSeed(t) \/ ResumeMark(t) \/ SweepMark(t) \/ StatusMark(t)
  <2>1. /\ UNCHANGED <<pane, row, adrift>> /\ worker[t].at # "open_save" /\ Done(t)
    BY <1>10 DEF LaunchFails, OpenSeed, ResumeMark, SweepMark, StatusMark, agents, stores, users, At
  <2> QED BY <1>5, <1>7, <1>9, <2>1
<1>11. CASE KillMark(t)
  <2>1. UNCHANGED <<pane, row, adrift>> /\ worker[t].at = "kill_mark" /\ Goto(t, "kill_delete")
    BY <1>11 DEF KillMark, agents, users, At
  <2>2. worker'[t].at = "kill_delete" /\ worker'[t].name = n /\ worker'[t].to = worker[t].to
    BY <1>4, <1>6, <2>1
  <2>3. Relies
    BY <1>1, <2>1, <2>2 DEF RelyOn, Alive
  <2> QED BY <1>7, <1>9, <2>1, <2>2, <2>3
<1>12. CASE ResumeConfirm(t)
  <2>1. UNCHANGED <<pane, row, adrift>> /\ worker[t].at = "resume_confirm"
    BY <1>12 DEF ResumeConfirm, agents, stores, users, At
  <2>2. worker'[t].at = "resume_mark" /\ worker'[t].name = n /\ worker'[t].to = worker[t].to
    BY <1>1, <1>12 DEF ResumeConfirm, Work
  <2>3. Relies
    BY <2>2 DEF RelyOn
  <2> QED BY <1>7, <1>9, <2>1, <2>2, <2>3
<1>13. CASE RestartResume(t)
  <2>1. UNCHANGED <<pane, row, adrift>> /\ worker[t].at = "restart_resume"
    BY <1>13 DEF RestartResume, agents, stores, users, At
  <2>2. CASE Resumable(n)
    <3>1. worker'[t] = ResumeWork(n) /\ row[n].there
      BY <1>1, <1>13, <2>2 DEF RestartResume, Resumable
    <3>2. worker'[t].at = "resume_check" /\ worker'[t].name = n /\ worker'[t].to = Nobody
      BY <3>1 DEF ResumeWork, Ready
    <3>3. Relies
      BY <2>1, <3>1, <3>2 DEF RelyOn
    <3> QED BY <1>7, <1>9, <2>1, <3>2, <3>3
  <2>3. CASE ~Resumable(n)
    BY <1>5, <1>7, <1>9, <1>13, <2>1, <2>3 DEF RestartResume
  <2> QED BY <2>2, <2>3
<1>14. CASE ResumeCheck(t)
  <2>1. UNCHANGED <<pane, adrift>> /\ worker[t].at = "resume_check"
    BY <1>14 DEF ResumeCheck, agents, users, At
  <2>2. \A m \in Names : row'[m].there = row[m].there
    BY <1>1, <1>14 DEF ResumeCheck, Row
  <2>3. worker'[t].at = "resume_launch" /\ worker'[t].name = n /\ worker'[t].to = worker[t].to
    BY <1>1, <1>14 DEF ResumeCheck, Work
  <2>4. Relies
    BY <1>1, <2>1, <2>2, <2>3 DEF RelyOn
  <2> QED BY <1>7, <1>9, <2>1, <2>2, <2>3, <2>4
<1>15. CASE OpenLaunch(t)
  <2>1. /\ UNCHANGED <<row, adrift>> /\ worker[t].at = "open_launch" /\ Goto(t, "open_save")
        /\ \A m \in Names \ {n} : pane'[m] = pane[m]
    BY <1>1, <1>15, LaunchElsewhere DEF OpenLaunch, stores, users, At
  <2>2. /\ worker'[t].at = "open_save" /\ worker'[t].name = n
        /\ worker'[t].to = worker[t].to /\ worker'[t].flag = worker[t].flag
        /\ worker[t].flag \in BOOLEAN
    BY <1>1, <1>4, <1>6, <2>1 DEF Work
  <2>3. Relies
    BY <1>1, <2>1, <2>2 DEF RelyOn
  <2>4. n \notin contended => row[n].there \/ Saving(n)'
    BY <1>1, <2>1, <2>2 DEF RelyOn, Saving, At
  <2>5. ASSUME NEW m \in HandOf(worker[t]) \ contended, Alive(m)'
        PROVE  row'[m].there \/ Saving(m)' \/ m \in adrift'
    <3>1. CASE m = n
      BY <2>1, <2>4, <2>5, <3>1
    <3>2. CASE m # n
      BY <1>1, <1>3, <2>1, <2>5, <3>2 DEF Alive
    <3> QED BY <3>1, <3>2
  <2> QED BY <1>1, <1>7, <1>8, <2>1, <2>2, <2>3, <2>5
<1>16. CASE OpenSave(t)
  <2>1. /\ worker[t].at = "open_save" /\ pane' = pane /\ (n \notin contended => row'[n].there)
        /\ \A m \in Names \ {n} : row'[m] = row[m] /\ (m \in adrift => m \in adrift')
    BY <1>1, <1>16 DEF OpenSave, At, agents, RelyOn, Row
  <2>2. \/ worker'[t].at = "ready"
        \/ worker'[t].at = "open_seed" /\ worker'[t].name = n /\ worker'[t].to = worker[t].to
    BY <1>4, <1>6, <1>5, <1>16 DEF OpenSave
  <2>3. Relies
    BY <2>2 DEF RelyOn
  <2>4. ASSUME NEW m \in HandOf(worker[t]) \ contended, Alive(m)'
        PROVE  row'[m].there \/ m \in adrift'
    BY <1>1, <1>3, <2>1, <2>4 DEF Alive
  <2> QED BY <1>1, <1>7, <1>8, <2>1, <2>2, <2>3, <2>4
<1>17. CASE ResumeLaunch(t) \/ RebuildLaunch(t)
  <2>1. /\ UNCHANGED <<row, adrift>> /\ worker[t].at \in {"resume_launch", "rebuild_launch"}
        /\ \A m \in Names \ {n} : pane'[m] = pane[m]
    BY <1>1, <1>17, LaunchElsewhere DEF ResumeLaunch, RebuildLaunch, LaunchNoted, stores, users, At
  <2>2. \/ worker'[t].at = "ready"
        \/ worker'[t].at = "resume_confirm" /\ worker'[t].name = n /\ worker'[t].to = worker[t].to
    BY <1>4, <1>6, <1>5, <1>17 DEF ResumeLaunch, RebuildLaunch
  <2>3. n \notin contended => row[n].there
    BY <1>1, <2>1 DEF RelyOn
  <2>4. Relies
    BY <2>2 DEF RelyOn
  <2>5. ASSUME NEW m \in HandOf(worker[t]) \ contended, Alive(m)'
        PROVE  row'[m].there \/ m \in adrift'
    BY <1>1, <1>3, <2>1, <2>3, <2>5 DEF Alive
  <2> QED BY <1>1, <1>7, <1>8, <2>1, <2>2, <2>4, <2>5
<1>18. CASE KillDelete(t) \/ SweepDelete(t)
  <2>1. /\ worker[t].at \in {"kill_delete", "sweep_delete"} /\ UNCHANGED <<pane, adrift>>
        /\ \A m \in Names \ {n} : row'[m] = row[m]
    BY <1>1, <1>18 DEF KillDelete, SweepDelete, At, agents, users
  <2>2. \/ worker'[t].at = "ready"
        \/ worker'[t].at = "sweep_mark" /\ worker'[t].name = n /\ worker'[t].to = worker[t].to
    BY <1>4, <1>6, <1>5, <1>18 DEF KillDelete, SweepDelete
  <2>3. n \notin contended => ~Alive(n)
    BY <1>1, <2>1 DEF RelyOn
  <2>4. Relies
    BY <2>2 DEF RelyOn
  <2>5. ASSUME NEW m \in HandOf(worker[t]) \ contended, Alive(m)'
        PROVE  row'[m].there \/ m \in adrift'
    BY <1>1, <1>3, <2>1, <2>3, <2>5 DEF Alive
  <2> QED BY <1>1, <1>7, <1>8, <2>1, <2>2, <2>4, <2>5
<1>19. CASE SweepKill(t)
  <2>1. /\ worker[t].at = "sweep_kill" /\ UNCHANGED <<row, adrift>> /\ Goto(t, "sweep_delete")
        /\ pane' = IF worker[t].flag THEN [pane EXCEPT ![n] = Gone] ELSE pane
    BY <1>19 DEF SweepKill, At, stores, users
  <2>2. /\ \A m \in Names \ {n} : pane'[m] = pane[m]
        /\ \A m \in Names : Alive(m)' => Alive(m)
        /\ worker[t].flag => ~Alive(n)'
    <3>1. CASE worker[t].flag
      BY <1>1, <2>1, <3>1 DEF Alive, Gone
    <3>2. CASE ~worker[t].flag
      BY <1>1, <2>1, <3>2 DEF Alive
    <3> QED BY <3>1, <3>2
  <2>3. worker'[t].at = "sweep_delete" /\ worker'[t].name = n /\ worker'[t].to = worker[t].to
    BY <1>4, <1>6, <2>1
  <2>4. n \notin contended => ~Alive(n)'
    <3>1. n \notin contended /\ ~worker[t].flag => ~Alive(n)
      BY <1>1, <2>1 DEF RelyOn
    <3> QED BY <1>1, <2>2, <3>1 DEF Alive
  <2>5. Relies
    BY <2>3, <2>4 DEF RelyOn, Alive
  <2>6. ASSUME NEW m \in HandOf(worker[t]) \ contended, Alive(m)'
        PROVE  row'[m].there \/ m \in adrift'
    BY <1>1, <1>3, <2>1, <2>2, <2>6
  <2> QED BY <1>1, <1>7, <1>8, <2>1, <2>2, <2>3, <2>5, <2>6
<1>20. CASE RenameDelete(t)
  <2>1. /\ worker[t].at = "rename_delete" /\ pane' = pane /\ adrift' = adrift \cup {n}
        /\ Goto(t, "rename_create") /\ \A m \in Names \ {n} : row'[m] = row[m]
    BY <1>1, <1>20 DEF RenameDelete, At, agents
  <2>2. worker'[t].at = "rename_create" /\ worker'[t].name = n /\ worker'[t].to = worker[t].to
    BY <1>4, <1>6, <2>1
  <2>3. Relies
    BY <2>2 DEF RelyOn
  <2>4. ASSUME NEW m \in HandOf(worker[t]) \ contended, Alive(m)'
        PROVE  row'[m].there \/ m \in adrift'
    BY <1>1, <1>3, <2>1, <2>4 DEF Alive
  <2> QED BY <1>1, <1>7, <1>8, <2>1, <2>2, <2>3, <2>4
<1>21. CASE RenameCreate(t)
  <2> DEFINE k == worker[t].to
  <2>1. /\ worker[t].at = "rename_create" /\ pane' = pane /\ adrift' = adrift \ {k} /\ Done(t)
        /\ row' = [row EXCEPT ![k] = [NoRow EXCEPT !.there = TRUE]]
    BY <1>21 DEF RenameCreate, At, agents
  <2>2. \A m \in Names : IF m = k THEN row'[m].there ELSE row'[m] = row[m]
    BY <1>1, <2>1 DEF NoRow
  <2>3. \A m \in Names \ HandOf(worker[t]) : m # k
    BY <1>1
  <2>4. ASSUME NEW m \in HandOf(worker[t]) \ contended, Alive(m)'
        PROVE  row'[m].there \/ m \in adrift'
    BY <1>1, <1>3, <2>1, <2>2, <2>4 DEF Alive
  <2> QED BY <1>1, <1>5, <1>7, <1>8, <2>1, <2>2, <2>3, <2>4
<1> QED BY <1>10, <1>11, <1>12, <1>13, <1>14, <1>15, <1>16, <1>17, <1>18, <1>19, <1>20, <1>21
        DEF WorkStep

(* The crash and the start of the server: what was in hand is adrift, and  *)
(* the start resumes one session at a time.                                *)
LEMMA ServerRows ==
  ASSUME HInv, TypeOK', ServerCrash \/ BootStep
  PROVE  HInv'
<1>0. /\ worker \in [Workers -> Work] /\ Starter \in Workers /\ row \in [Names -> Row]
      /\ Workers = Threads \cup {Starter}
  BY DEF HInv, TypeOK, Workers
<1>1. CASE ServerCrash
  <2>1. /\ server' = "down" /\ UNCHANGED <<pane, row, contended>>
        /\ adrift' = adrift \cup {n \in Names : InHand(n)}
        /\ \A t \in Workers : worker'[t].at = "ready"
    BY <1>1 DEF ServerCrash, agents, Ready
  <2>2. Turns' /\ OneHand' /\ Relied'
    BY <1>0, <2>1 DEF Turns, OneHand, HandOf, Relied, RelyOn
  <2>3. \A n \in Names : Saving(n) => InHand(n)
    BY DEF Saving, At, InHand, HandOf
  <2>4. Held'
    BY <2>1, <2>3 DEF HInv, Held, Alive
  <2> QED BY <2>2, <2>4 DEF HInv
<1>2. CASE ServerBoot \/ ServerListens
  <2>1. /\ UNCHANGED <<worker, users, pane, row>>
        /\ \/ (server = "down" /\ server' = "booting")
           \/ (server = "booting" /\ server' = "up" /\ worker[Starter].at = "ready")
    BY <1>2 DEF ServerBoot, ServerListens, agents, stores
  <2>2. Turns'
    BY <2>1 DEF HInv, Turns
  <2> QED BY <2>1, <2>2, OthersKeepRows DEF Alive
<1>3. ASSUME NEW n \in Names, RecoverOne(n) PROVE HInv'
  <2>1. /\ UNCHANGED <<users, pane, row, server>> /\ server = "booting"
        /\ worker[Starter].at = "ready"
    BY <1>3 DEF RecoverOne, agents, stores
  <2>2. CASE worker' = worker
    BY <2>1, <2>2, OthersKeepRows DEF HInv, Turns, Alive
  <2>3. CASE worker' = [worker EXCEPT ![Starter] = ResumeWork(n)] /\ row[n].there
    <3>1. /\ worker'[Starter] = ResumeWork(n)
          /\ \A t \in Workers : t # Starter => worker'[t] = worker[t]
      BY <1>0, <2>3
    <3>2. \A t \in Workers : t # Starter => worker[t].at = "ready"
      BY <1>0, <2>1 DEF HInv, Turns
    <3>3. ResumeWork(n).at = "resume_check" /\ ResumeWork(n).name = n
      BY DEF ResumeWork, Ready
    <3>4. Turns'
      BY <1>0, <2>1, <3>1, StarterAssumption DEF HInv, Turns
    <3>5. OneHand'
      BY <3>1, <3>2 DEF OneHand, HandOf
    <3>6. Relied'
      BY <2>1, <2>3, <3>1, <3>2, <3>3 DEF Relied, RelyOn
    <3>7. \A m \in Names : ~Saving(m)
      BY <2>1, <3>2 DEF Saving, At
    <3>8. Held'
      BY <2>1, <3>7 DEF HInv, Held, Alive, users
    <3> QED BY <3>4, <3>5, <3>6, <3>8 DEF HInv
  <2> QED BY <1>3, <2>2, <2>3 DEF RecoverOne, Resumable
<1> QED BY <1>1, <1>2, <1>3 DEF BootStep

(* Every step keeps an agent and its row together.                         *)
LEMMA NextRows == HInv /\ [Next]_vars => HInv'
<1> SUFFICES ASSUME HInv, [Next]_vars PROVE HInv'
  OBVIOUS
<1>0. TypeOK /\ TypeOK'
  BY NextTypes DEF HInv
<1>1. ASSUME Elsewhere PROVE HInv'
  <2>1. UNCHANGED <<worker, users>> /\ Turns'
    BY <1>1, ElsewhereKeeps DEF HInv, Turns, boot
  <2>2. \A m \in Names : row'[m].there = row[m].there
    <3>1. row \in [Names -> Row]
      BY <1>0 DEF TypeOK
    <3>2. ASSUME NEW h \in hooks, HookToRow(h) PROVE \A m \in Names : row'[m].there = row[m].there
      BY <3>1, <3>2 DEF HookToRow, Row
    <3> QED BY <1>1, <3>2, ElsewhereKeeps
  <2>3. \A m \in Names : Alive(m)' => Alive(m)
    <3>1. ASSUME NEW n \in Names, AgentStep(n) PROVE <2>3
      <4>1. pane \in [Names -> Pane]
        BY <1>0 DEF TypeOK
      <4>2. AgentExits(n) => \A m \in Names : Alive(m)' => Alive(m)
        BY <4>1 DEF AgentExits, Gone, Alive
      <4>3. ~AgentExits(n) => \E z : pane' = [pane EXCEPT ![n].screen = z] /\ Alive(n)
        BY <3>1 DEF AgentStep, AgentBoots, AgentPrompted, AgentStops, AgentNotifies, Screen, Alive
      <4>4. ~AgentExits(n) => \A m \in Names : Alive(m)' => Alive(m)
        BY <4>1, <4>3 DEF Alive
      <4> QED BY <4>2, <4>4
    <3>2. (\A n \in Names : ~AgentStep(n)) => pane' = pane
      BY <1>1 DEF Elsewhere, vars, ReapStep, ReapStart, ReapProbe, ReapMark, TranscriptLost,
                HookStep, HookToCache, HookToRow, HookLost, TimerStep, TimerReads, TimerWrites,
                agents
    <3> QED BY <3>1, <3>2 DEF Alive
  <2> QED BY <1>0, <2>1, <2>2, <2>3, OthersKeepRows
<1>2. Elsewhere \/ ServerCrash \/ BootStep \/ (\E t \in Workers : WorkStep(t))
      \/ (\E t \in Threads, n \in Names : Request(t, n))
  BY DEF Next, Elsewhere
<1> QED BY <1>0, <1>1, <1>2, RequestRows, WorkRows, ServerRows

(* For any number of threads, requests and crashes: an agent that runs has *)
(* a row, unless a request on its session is under way, its session was    *)
(* set adrift, or two requests contended for it.                           *)
THEOREM AgentsHaveRows == Spec => []AgentHasRow
<1>1. Init => HInv
  <2> SUFFICES ASSUME Init PROVE Turns /\ OneHand /\ Relied /\ Held
    BY InitTypes DEF HInv
  <2>1. \A t \in Workers : worker[t].at = "ready"
    BY DEF Init, Ready
  <2>2. \A n \in Names : ~Alive(n)
    BY DEF Init, Alive, Gone
  <2> QED BY <2>1, <2>2 DEF Turns, OneHand, HandOf, Relied, RelyOn, Held, Workers
<1>2. HInv => AgentHasRow
  BY DEF HInv, Held, AgentHasRow, Saving, At, InHand, HandOf
<1> QED BY <1>1, <1>2, NextRows, PTL DEF Spec

=============================================================================

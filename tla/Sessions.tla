------------------------------ MODULE Sessions ------------------------------
(***************************************************************************)
(* The life of the tmux + agent sessions kept in the `sessions` table.     *)
(*                                                                         *)
(* Four stores describe one session and are written by different actors:   *)
(*   pane   what tmux really runs             (the ground truth)           *)
(*   row    the `sessions` table              (survives a server crash)    *)
(*   cache  common/session_state._states      (lost with the process)      *)
(*   hooks  the agent's POSTs to /api/hook that have not been handled yet  *)
(* The actors are the request threads (open, resume, restart, kill,        *)
(* kill-by-status, rebuild, status), the hook handler, the 15 s reaper,    *)
(* the 5 s timer a resume leaves behind, and the start of the server,      *)
(* which rebuilds the cache from tmux and resumes what died.  Every call   *)
(* to tmux, to the database or to the cache is a step of its own, so that  *)
(* the actors interleave between them as the threads do.                   *)
(***************************************************************************)
EXTENDS Naturals, FiniteSets

CONSTANTS
  Names,       \* tmux names of the sessions (task ids)
  Threads,     \* request threads of the server
  Starter,     \* the thread that runs the server's start
  Agents,      \* registered agent implementations
  Convs,       \* conversation ids the agents mint (bounds the fresh launches)
  NoConv,      \* the empty agent_session_id
  Nobody,      \* owner of an id not minted yet
  AgentOf,     \* which agent mints an id: ids are not interchangeable
  CloudIds,    \* ids that name no local transcript file
  MaxHooks,    \* bound on the hook requests in flight
  MaxTimers,   \* bound on the pane re-reads armed at once
  MaxRequests, \* bound on the requests users make
  MaxCrashes,  \* bound on the crashes of the server
  LossyHooks   \* whether a hook may miss its 2 s limit while the server is up

ASSUME NamesAssumption   == Nobody \notin Names /\ Names # {}
ASSUME ConvsAssumption   == NoConv \notin Convs /\ CloudIds \subseteq Convs
ASSUME AgentOfAssumption == AgentOf \in [Convs -> Agents] /\ Agents # {}
ASSUME StarterAssumption == Starter \notin Threads
ASSUME BoundsAssumption  == /\ MaxHooks \in Nat /\ MaxTimers \in Nat
                            /\ MaxRequests \in Nat /\ MaxCrashes \in Nat
                            /\ LossyHooks \in BOOLEAN

VARIABLES
  pane,         \* [Names -> Pane]
  owner,        \* [Convs -> Names \cup {Nobody}]: the session an id was minted in
  transcripts,  \* ids whose .jsonl is on disk
  row,          \* [Names -> Row]
  cache,        \* [Names -> Entry]
  hooks,        \* SUBSET Hook
  worker,       \* [Workers -> Work]: what a thread is in the middle of
  timers,       \* SUBSET Timer: the pane re-reads armed by resumes
  reaper,       \* the reaper's snapshot and its pending verdict
  server,       \* "down", "booting" or "up"
  todo,         \* names the start of the server still has to resume
  requests,     \* how many requests users made
  crashes,      \* how often the server crashed
  adrift,       \* history: names whose row was taken away, or never made, with tmux let be
  contended     \* history: names that two requests had in hand at once

agents == <<pane, owner, transcripts>>
stores == <<row, cache>>
jobs   == <<timers, reaper>>
boot   == <<server, todo, crashes>>
users  == <<requests, adrift, contended>>
vars   == <<agents, stores, hooks, worker, jobs, boot, users>>

Workers     == Threads \cup {Starter}
MaybeConv   == Convs \cup {NoConv}
DeadStates  == {"stopped", "crashed"}
LiveStates  == {"starting", "thinking", "idle"}   \* needs_permission: as thinking
States      == DeadStates \cup LiveStates
SomeAgent   == CHOOSE a \in Agents : TRUE

(* `fresh`: launched without a conversation, so SessionStart will fire.    *)
Pane   == [screen : {"gone", "boot", "idle", "thinking"},
           conv : MaybeConv, agent : Agents, fresh : BOOLEAN]
Row    == [there : BOOLEAN, conv : MaybeConv, agent : Agents]
Entry  == [state : States \cup {"absent"}, conv : MaybeConv]
Events == {"SessionStart", "UserPromptSubmit", "Stop"}
Hook   == [name : Names, event : Events, conv : MaybeConv, cached : BOOLEAN]
Timer  == [name : Names, conv : MaybeConv, read : LiveStates \cup {"unread"}]
Steps  == {"ready", "open_launch", "open_save", "open_seed",
           "resume_check", "resume_launch", "resume_confirm", "resume_mark",
           "restart_resume", "kill_mark", "kill_delete",
           "sweep_kill", "sweep_delete", "sweep_mark",
           "rename_delete", "rename_create", "rebuild_launch", "status_mark"}
Work   == [at : Steps, name : Names, to : Names \cup {Nobody}, conv : MaybeConv, agent : Agents,
           flag : BOOLEAN, state : States]

Gone    == [screen |-> "gone", conv |-> NoConv, agent |-> SomeAgent, fresh |-> FALSE]
NoRow   == [there |-> FALSE, conv |-> NoConv, agent |-> SomeAgent]
NoEntry == [state |-> "absent", conv |-> NoConv]
Ready   == [at |-> "ready", name |-> CHOOSE n \in Names : TRUE, to |-> Nobody,
            conv |-> NoConv, agent |-> SomeAgent, flag |-> FALSE, state |-> "stopped"]
Resting == [seen |-> [n \in Names |-> "skip"], name |-> Nobody, verdict |-> "stopped"]

Alive(n) == pane[n].screen # "gone"

-----------------------------------------------------------------------------
(* common/session_state: the cache                                         *)

MergedForgetting(n, state, c) == [state |-> state, conv |-> c]   \* mutant: no merge
(* set_state keeps the agent_session_id it knows when given none.          *)
Merged(n, state, c) ==
  [state |-> state, conv |-> IF c = NoConv THEN cache[n].conv ELSE c]
SetState(n, state, c) == cache' = [cache EXCEPT ![n] = Merged(n, state, c)]

RawStateOnScreen(n) == pane[n].screen   \* mutant: `unknown` is not mapped to idle
(* _state_from_tmux_pane: a blank or missing pane reads as idle.           *)
StateOnScreen(n) ==
  IF pane[n].screen = "thinking" THEN "thinking" ELSE "idle"

-----------------------------------------------------------------------------
(* adapters/tmux and the agents in the panes                               *)

(* launch_session_argv: nothing when the name is taken.  A fresh agent     *)
(* mints a conversation; a resumed one continues c.                        *)
LaunchFresh(n, a) ==
  IF Alive(n) THEN UNCHANGED agents
  ELSE \E c \in {d \in Convs : owner[d] = Nobody /\ AgentOf[d] = a} :
         /\ pane' = [pane EXCEPT ![n] =
                       [screen |-> "boot", conv |-> c, agent |-> a, fresh |-> TRUE]]
         /\ owner' = [owner EXCEPT ![c] = n]
         /\ transcripts' = transcripts \cup ({c} \ CloudIds)
LaunchResume(n, a, c) ==
  /\ pane' = IF Alive(n) THEN pane
             ELSE [pane EXCEPT ![n] =
                     [screen |-> "boot", conv |-> c, agent |-> a, fresh |-> FALSE]]
  /\ UNCHANGED <<owner, transcripts>>

(* A resumed agent exits at startup when the id is not one of its own or   *)
(* when the transcript is gone.                                            *)
Doomed(n) ==
  /\ ~pane[n].fresh
  /\ \/ AgentOf[pane[n].conv] # pane[n].agent
     \/ pane[n].conv \notin CloudIds \cup transcripts

(* eva-hook.sh posts in the background; nothing listens until the server   *)
(* has finished its start, and curl does not retry.                        *)
Post(n, event, c) ==
  IF server = "up"
  THEN /\ Cardinality(hooks) < MaxHooks
       /\ hooks' = hooks \cup {[name |-> n, event |-> event, conv |-> c, cached |-> FALSE]}
  ELSE UNCHANGED hooks

Screen(n, from, to) ==
  /\ pane[n].screen = from
  /\ pane' = [pane EXCEPT ![n].screen = to]
  /\ UNCHANGED <<owner, transcripts, stores, worker, jobs, boot, users>>

AgentBoots(n) ==   \* a resumed agent does not fire SessionStart
  /\ pane[n].screen = "boot" /\ ~Doomed(n)
  /\ Screen(n, "boot", "idle")
  /\ IF pane[n].fresh THEN Post(n, "SessionStart", pane[n].conv) ELSE UNCHANGED hooks
AgentPrompted(n) == Screen(n, "idle", "thinking") /\ Post(n, "UserPromptSubmit", NoConv)
AgentStops(n)    == Screen(n, "thinking", "idle") /\ Post(n, "Stop", NoConv)
AgentNotifies(n) ==   \* permission_prompt while it works, idle_prompt while it waits
  \/ Screen(n, "thinking", "thinking") /\ Post(n, "UserPromptSubmit", NoConv)
  \/ Screen(n, "idle", "idle") /\ Post(n, "Stop", NoConv)

AgentExits(n) ==
  /\ Alive(n)
  /\ pane' = [pane EXCEPT ![n] = Gone]
  /\ UNCHANGED <<owner, transcripts, stores, hooks, worker, jobs, boot, users>>
TranscriptLost(c) ==
  /\ c \in transcripts
  /\ transcripts' = transcripts \ {c}
  /\ UNCHANGED <<pane, owner, stores, hooks, worker, jobs, boot, users>>

-----------------------------------------------------------------------------
(* receive_hook: the cache first, then the row (SessionStart only).        *)

HookState(event) ==
  CASE event = "SessionStart"     -> "starting"
    [] event = "UserPromptSubmit" -> "thinking"
    [] event = "Stop"             -> "idle"

HookToCache(h) ==
  /\ h \in hooks /\ ~h.cached
  /\ SetState(h.name, HookState(h.event), h.conv)
  /\ hooks' = (hooks \ {h}) \cup (IF h.event = "SessionStart"
                                  THEN {[h EXCEPT !.cached = TRUE]} ELSE {})
  /\ UNCHANGED <<agents, row, worker, jobs, boot, users>>
HookToEveryRow(h) ==   \* mutant: the UPDATE has lost its WHERE
  /\ h \in hooks /\ h.cached
  /\ row' = [n \in Names |-> IF row[n].there THEN [row[n] EXCEPT !.conv = h.conv] ELSE row[n]]
  /\ hooks' = hooks \ {h}
  /\ UNCHANGED <<agents, cache, worker, jobs, boot, users>>
HookUpsertsRow(h) ==   \* mutant: upsert instead of update
  /\ h \in hooks /\ h.cached
  /\ row' = [row EXCEPT ![h.name].conv = h.conv, ![h.name].there = TRUE]
  /\ hooks' = hooks \ {h}
  /\ UNCHANGED <<agents, cache, worker, jobs, boot, users>>
(* _apply_task_session_hook: only a row that exists takes the id.          *)
HookToRow(h) ==
  /\ h \in hooks /\ h.cached
  /\ row' = IF row[h.name].there THEN [row EXCEPT ![h.name].conv = h.conv] ELSE row
  /\ hooks' = hooks \ {h}
  /\ UNCHANGED <<agents, cache, worker, jobs, boot, users>>
HookLost(h) ==
  /\ LossyHooks /\ h \in hooks /\ ~h.cached
  /\ hooks' = hooks \ {h}
  /\ UNCHANGED <<agents, stores, worker, jobs, boot, users>>

-----------------------------------------------------------------------------
(* The request threads.  A thread that starts an operation notes what it   *)
(* read; the later steps act on the note, however stale it is.             *)

HandOf(work) == IF work.at = "ready" THEN {} ELSE {work.name, work.to} \cap Names
InHand(n)    == \E u \in Workers : n \in HandOf(worker[u])
Asked(t, names, away) ==
  /\ server = "up" /\ t \in Threads /\ worker[t].at = "ready"
  /\ requests < MaxRequests /\ requests' = requests + 1
  /\ contended' = contended \cup {n \in names : InHand(n)}
  /\ adrift' = adrift \cup away
Begin(t, work) ==
  /\ Asked(t, HandOf(work), {})
  /\ worker' = [worker EXCEPT ![t] = work]
Goto(t, step) == worker' = [worker EXCEPT ![t].at = step]
Done(t)       == worker' = [worker EXCEPT ![t] = Ready]
At(t, step)   == worker[t].at = step

(* tmux refuses: the exception ends the operation where it stands.         *)
LaunchFails(t) ==
  /\ worker[t].at \in {"open_launch", "resume_launch", "rebuild_launch"}
  /\ Done(t)
  /\ UNCHANGED <<agents, stores, hooks, jobs, boot, users>>

(* open_session: flag is is_new.                                           *)
OpenStart(t, n, a) ==
  /\ ~row[n].there \/ ~Alive(n)
  /\ Begin(t, [Ready EXCEPT !.at = "open_launch", !.name = n, !.agent = a,
                            !.flag = ~row[n].there])
  /\ UNCHANGED <<agents, stores, hooks, jobs, boot>>
OpenLaunch(t) ==
  /\ At(t, "open_launch")
  /\ LaunchFresh(worker[t].name, worker[t].agent)
  /\ Goto(t, "open_save")
  /\ UNCHANGED <<stores, hooks, jobs, boot, users>>
(* INSERT OR REPLACE of a new row, or UPDATE of the agent of an old one.   *)
OpenSave(t) ==
  LET n == worker[t].name  a == worker[t].agent IN
  /\ At(t, "open_save")
  /\ row' = IF worker[t].flag
            THEN [row EXCEPT ![n] = [there |-> TRUE, conv |-> NoConv, agent |-> a]]
            ELSE IF row[n].there THEN [row EXCEPT ![n].agent = a] ELSE row
  /\ IF worker[t].flag THEN Goto(t, "open_seed") ELSE Done(t)
  /\ adrift' = IF worker[t].flag THEN adrift \ {n} ELSE adrift
  /\ UNCHANGED <<agents, cache, hooks, jobs, boot, requests, contended>>
OpenSeed(t) ==
  /\ At(t, "open_seed")
  /\ SetState(worker[t].name, "starting", NoConv)
  /\ Done(t)
  /\ UNCHANGED <<agents, row, hooks, jobs, boot, users>>

(* resume_session: flag is `running`.                                      *)
ResumeWork(n) == [Ready EXCEPT !.at = "resume_check", !.name = n,
                               !.conv = row[n].conv, !.agent = row[n].agent]
Resumable(n)  == row[n].there /\ ~Alive(n)
ResumeStart(t, n) ==
  /\ Resumable(n)
  /\ Begin(t, ResumeWork(n))
  /\ UNCHANGED <<agents, stores, hooks, jobs, boot>>
(* A local id without a transcript is forgotten, in the row too.           *)
ResumeCheck(t) ==
  LET n == worker[t].name
      dead == worker[t].conv \notin {NoConv} \cup CloudIds \cup transcripts IN
  /\ At(t, "resume_check")
  /\ row' = IF dead /\ row[n].there THEN [row EXCEPT ![n].conv = NoConv] ELSE row
  /\ worker' = [worker EXCEPT ![t].at = "resume_launch",
                              ![t].conv = IF dead THEN NoConv ELSE @]
  /\ UNCHANGED <<agents, cache, hooks, jobs, boot, users>>
LaunchNoted(t) ==
  IF worker[t].conv = NoConv
  THEN LaunchFresh(worker[t].name, worker[t].agent)
  ELSE LaunchResume(worker[t].name, worker[t].agent, worker[t].conv)
ResumeLaunch(t) ==
  /\ At(t, "resume_launch")
  /\ LaunchNoted(t)
  /\ Goto(t, "resume_confirm")
  /\ UNCHANGED <<stores, hooks, jobs, boot, users>>
ResumeConfirm(t) ==
  /\ At(t, "resume_confirm")
  /\ worker' = [worker EXCEPT ![t].at = "resume_mark", ![t].flag = Alive(worker[t].name)]
  /\ UNCHANGED <<agents, stores, hooks, jobs, boot, users>>
ResumeMarkNoTimer(t) ==   \* mutant: nothing re-reads the pane
  /\ At(t, "resume_mark")
  /\ SetState(worker[t].name, IF worker[t].flag THEN "starting" ELSE "crashed", worker[t].conv)
  /\ Done(t)
  /\ UNCHANGED <<agents, row, hooks, jobs, boot, users>>
ResumeMark(t) ==
  LET n == worker[t].name  c == worker[t].conv IN
  /\ At(t, "resume_mark")
  /\ SetState(n, IF worker[t].flag THEN "starting" ELSE "crashed", c)
  /\ worker[t].flag => Cardinality(timers) < MaxTimers
  /\ timers' = IF worker[t].flag
               THEN timers \cup {[name |-> n, conv |-> c, read |-> "unread"]} ELSE timers
  /\ Done(t)
  /\ UNCHANGED <<agents, row, hooks, reaper, boot, users>>
(* _refine_state_from_pane: read the pane, then write what it showed.      *)
TimerReads(m) ==
  /\ m \in timers /\ m.read = "unread"
  /\ timers' = (timers \ {m}) \cup {[m EXCEPT !.read = StateOnScreen(m.name)]}
  /\ UNCHANGED <<agents, stores, hooks, worker, reaper, boot, users>>
TimerWrites(m) ==
  /\ m \in timers /\ m.read # "unread"
  /\ SetState(m.name, m.read, m.conv)
  /\ timers' = timers \ {m}
  /\ UNCHANGED <<agents, row, hooks, worker, reaper, boot, users>>

(* restart_session: kill the pane, keep the row, resume.                   *)
RestartStart(t, n) ==
  /\ row[n].there /\ Alive(n)
  /\ Begin(t, [Ready EXCEPT !.at = "restart_resume", !.name = n])
  /\ pane' = [pane EXCEPT ![n] = Gone]
  /\ UNCHANGED <<owner, transcripts, stores, hooks, jobs, boot>>
RestartResume(t) ==
  LET n == worker[t].name IN
  /\ At(t, "restart_resume")
  /\ IF Resumable(n) THEN worker' = [worker EXCEPT ![t] = ResumeWork(n)] ELSE Done(t)
  /\ UNCHANGED <<agents, stores, hooks, jobs, boot, users>>

KillStartNoTmux(t, n) ==   \* mutant: the pane survives its row
  /\ Begin(t, [Ready EXCEPT !.at = "kill_mark", !.name = n])
  /\ UNCHANGED <<agents, stores, hooks, jobs, boot>>
(* DELETE /api/sessions/<name>: pane, then cache, then row.                *)
KillStart(t, n) ==
  /\ Begin(t, [Ready EXCEPT !.at = "kill_mark", !.name = n])
  /\ pane' = [pane EXCEPT ![n] = Gone]
  /\ UNCHANGED <<owner, transcripts, stores, hooks, jobs, boot>>
KillMark(t) ==
  /\ At(t, "kill_mark")
  /\ SetState(worker[t].name, "stopped", NoConv)
  /\ Goto(t, "kill_delete")
  /\ UNCHANGED <<agents, row, hooks, jobs, boot, users>>
KillDelete(t) ==
  /\ At(t, "kill_delete")
  /\ row' = [row EXCEPT ![worker[t].name] = NoRow]
  /\ Done(t)
  /\ UNCHANGED <<agents, cache, hooks, jobs, boot, users>>

(* kill-by-status, one listed row: flag is `running`; then row, then cache.*)
SweepStart(t, n) ==
  /\ row[n].there
  /\ Begin(t, [Ready EXCEPT !.at = "sweep_kill", !.name = n, !.flag = Alive(n)])
  /\ UNCHANGED <<agents, stores, hooks, jobs, boot>>
SweepKill(t) ==
  /\ At(t, "sweep_kill")
  /\ pane' = IF worker[t].flag THEN [pane EXCEPT ![worker[t].name] = Gone] ELSE pane
  /\ Goto(t, "sweep_delete")
  /\ UNCHANGED <<owner, transcripts, stores, hooks, jobs, boot, users>>
SweepDelete(t) ==
  /\ At(t, "sweep_delete")
  /\ row' = [row EXCEPT ![worker[t].name] = NoRow]
  /\ Goto(t, "sweep_mark")
  /\ UNCHANGED <<agents, cache, hooks, jobs, boot, users>>
SweepMark(t) ==
  /\ At(t, "sweep_mark")
  /\ SetState(worker[t].name, "stopped", NoConv)
  /\ Done(t)
  /\ UNCHANGED <<agents, row, hooks, jobs, boot, users>>

(* delete_task takes the session's row and leaves tmux alone (tasks.py:335).*)
TaskDeleted(t, n) ==
  /\ row[n].there
  /\ Asked(t, {n}, {n})
  /\ row' = [row EXCEPT ![n] = NoRow]
  /\ UNCHANGED <<agents, cache, hooks, worker, jobs, boot>>
(* rename_task: the row is deleted and another made under the new id; tmux *)
(* and the conversation stay with the old one.                             *)
RenameStart(t, n, m) ==
  /\ row[n].there /\ m # n
  /\ Begin(t, [Ready EXCEPT !.at = "rename_delete", !.name = n, !.to = m])
  /\ UNCHANGED <<agents, stores, hooks, jobs, boot>>
RenameDelete(t) ==
  LET n == worker[t].name IN
  /\ At(t, "rename_delete")
  /\ row' = [row EXCEPT ![n] = NoRow]
  /\ adrift' = adrift \cup {n}
  /\ Goto(t, "rename_create")
  /\ UNCHANGED <<agents, cache, hooks, jobs, boot, requests, contended>>
RenameCreate(t) ==
  LET m == worker[t].to IN
  /\ At(t, "rename_create")
  /\ row' = [row EXCEPT ![m] = [NoRow EXCEPT !.there = TRUE]]
  /\ adrift' = adrift \ {m}
  /\ Done(t)
  /\ UNCHANGED <<agents, cache, hooks, jobs, boot, requests, contended>>

(* POST /api/sessions/launch: an agent in a pane, and no row.              *)
RawLaunch(t, n, a) ==
  /\ Asked(t, {n}, IF row[n].there THEN {} ELSE {n})
  /\ LaunchFresh(n, a)
  /\ UNCHANGED <<stores, hooks, worker, jobs, boot>>

(* POST /api/sessions/rebuild, one row: no transcript check, no cache.     *)
RebuildStart(t, n) ==
  /\ Resumable(n)
  /\ Begin(t, [ResumeWork(n) EXCEPT !.at = "rebuild_launch"])
  /\ UNCHANGED <<agents, stores, hooks, jobs, boot>>
RebuildLaunch(t) ==
  /\ At(t, "rebuild_launch")
  /\ LaunchNoted(t)
  /\ Done(t)
  /\ UNCHANGED <<stores, hooks, jobs, boot, users>>

(* GET .../status: an entry without a pane becomes stopped; a recognised   *)
(* pane without an entry is seeded.                                        *)
StatusStart(t, n) ==
  /\ \/ /\ ~Alive(n) /\ cache[n] # NoEntry
        /\ Begin(t, [Ready EXCEPT !.at = "status_mark", !.name = n, !.state = "stopped"])
     \/ /\ pane[n].screen \notin {"gone", "boot"} /\ cache[n] = NoEntry
        /\ Begin(t, [Ready EXCEPT !.at = "status_mark", !.name = n, !.state = StateOnScreen(n)])
  /\ UNCHANGED <<agents, stores, hooks, jobs, boot>>
StatusMark(t) ==
  /\ At(t, "status_mark")
  /\ SetState(worker[t].name, worker[t].state, NoConv)
  /\ Done(t)
  /\ UNCHANGED <<agents, row, hooks, jobs, boot, users>>

-----------------------------------------------------------------------------
(* reap_dead_sessions: copy the map, then probe and mark name by name.  Of *)
(* the copy it uses whether an entry is live and whether it has an id.     *)

ReapStart ==
  /\ server = "up" /\ reaper = Resting
  /\ reaper' = [Resting EXCEPT !.seen = [n \in Names |->
                  IF cache[n].state \notin LiveStates THEN "skip"
                  ELSE IF cache[n].conv = NoConv THEN "plain" ELSE "uuid"]]
  /\ UNCHANGED <<agents, stores, hooks, worker, timers, boot, users>>
ReapProbe(n) ==
  /\ reaper.name = Nobody /\ reaper.seen[n] # "skip"
  /\ reaper' = IF Alive(n) THEN [reaper EXCEPT !.seen[n] = "skip"]
               ELSE [seen    |-> [reaper.seen EXCEPT ![n] = "skip"],
                     name    |-> n,
                     verdict |-> IF reaper.seen[n] = "uuid" \/ row[n].conv # NoConv
                                 THEN "crashed" ELSE "stopped"]
  /\ UNCHANGED <<agents, stores, hooks, worker, timers, boot, users>>
ReapMarkOnce ==   \* mutant: only what was starting is marked
  /\ reaper.name \in Names
  /\ IF cache[reaper.name].state = "starting"
     THEN SetState(reaper.name, reaper.verdict, NoConv) ELSE UNCHANGED cache
  /\ reaper' = [reaper EXCEPT !.name = Nobody, !.verdict = "stopped"]
  /\ UNCHANGED <<agents, row, hooks, worker, timers, boot, users>>
ReapMark ==
  /\ reaper.name \in Names
  /\ SetState(reaper.name, reaper.verdict, NoConv)
  /\ reaper' = [reaper EXCEPT !.name = Nobody, !.verdict = "stopped"]
  /\ UNCHANGED <<agents, row, hooks, worker, timers, boot, users>>

-----------------------------------------------------------------------------
(* The server process: crash, rebuild_from_tmux, recover_crashed_sessions. *)

ServerCrash ==
  /\ server # "down" /\ crashes < MaxCrashes
  /\ server' = "down" /\ crashes' = crashes + 1
  /\ cache'  = [n \in Names |-> NoEntry]
  /\ worker' = [t \in Workers |-> Ready]
  /\ hooks' = {} /\ timers' = {} /\ todo' = {} /\ reaper' = Resting
  /\ adrift' = adrift \cup {n \in Names : InHand(n)}
  /\ UNCHANGED <<agents, row, contended, requests>>

(* _resolve_target_metadata reads the id of a live pane from its row.      *)
RebuiltEntry(n) ==
  IF Alive(n) THEN [state |-> StateOnScreen(n), conv |-> row[n].conv] ELSE NoEntry
Crashed(n) == row[n].conv # NoConv /\ ~Alive(n)

ServerBootUnmarked ==   \* mutant: candidates are resumed without being marked first
  /\ server = "down"
  /\ server' = "booting"
  /\ todo'   = {n \in Names : Crashed(n)}
  /\ cache'  = [n \in Names |-> RebuiltEntry(n)]
  /\ UNCHANGED <<agents, row, hooks, worker, jobs, users, crashes>>
ServerBoot ==
  /\ server = "down"
  /\ server' = "booting"
  /\ todo'   = {n \in Names : Crashed(n)}
  /\ cache'  = [n \in Names |-> IF Crashed(n)
                                THEN [state |-> "crashed", conv |-> row[n].conv]
                                ELSE RebuiltEntry(n)]
  /\ UNCHANGED <<agents, row, hooks, worker, jobs, users, crashes>>
(* resume_session finds nothing to do when the row is gone or tmux is back.*)
RecoverOne(n) ==
  /\ server = "booting" /\ n \in todo /\ worker[Starter].at = "ready"
  /\ todo' = todo \ {n}
  /\ worker' = IF Resumable(n) THEN [worker EXCEPT ![Starter] = ResumeWork(n)] ELSE worker
  /\ UNCHANGED <<agents, stores, hooks, jobs, server, users, crashes>>
ServerListens ==
  /\ server = "booting" /\ todo = {} /\ worker[Starter].at = "ready"
  /\ server' = "up"
  /\ UNCHANGED <<agents, stores, hooks, worker, jobs, todo, users, crashes>>

-----------------------------------------------------------------------------
Init ==
  /\ pane = [n \in Names |-> Gone]
  /\ owner = [c \in Convs |-> Nobody]
  /\ transcripts = {}
  /\ row = [n \in Names |-> NoRow]
  /\ cache = [n \in Names |-> NoEntry]
  /\ hooks = {} /\ timers = {} /\ todo = {}
  /\ worker = [t \in Workers |-> Ready]
  /\ reaper = Resting
  /\ server = "up" /\ requests = 0 /\ crashes = 0 /\ adrift = {} /\ contended = {}

AgentStep(n) ==
  \/ AgentBoots(n) \/ AgentPrompted(n) \/ AgentStops(n)
  \/ AgentNotifies(n) \/ AgentExits(n)
HookStep(h)  == HookToCache(h) \/ HookToRow(h)
TimerStep(m) == TimerReads(m) \/ TimerWrites(m)
Request(t, n) ==
  \/ \E a \in Agents : OpenStart(t, n, a) \/ RawLaunch(t, n, a)
  \/ TaskDeleted(t, n) \/ \E m \in Names : RenameStart(t, n, m)
  \/ ResumeStart(t, n) \/ RestartStart(t, n) \/ KillStart(t, n)
  \/ SweepStart(t, n) \/ RebuildStart(t, n) \/ StatusStart(t, n)
WorkStep(t) ==
  \/ LaunchFails(t)
  \/ OpenLaunch(t) \/ OpenSave(t) \/ OpenSeed(t)
  \/ ResumeCheck(t) \/ ResumeLaunch(t) \/ ResumeConfirm(t) \/ ResumeMark(t)
  \/ RestartResume(t) \/ KillMark(t) \/ KillDelete(t)
  \/ SweepKill(t) \/ SweepDelete(t) \/ SweepMark(t)
  \/ RenameDelete(t) \/ RenameCreate(t)
  \/ RebuildLaunch(t) \/ StatusMark(t)
ReapStep == ReapStart \/ ReapMark \/ \E n \in Names : ReapProbe(n)
BootStep == ServerBoot \/ ServerListens \/ \E n \in Names : RecoverOne(n)

Next ==
  \/ \E n \in Names : AgentStep(n)
  \/ \E c \in Convs : TranscriptLost(c)
  \/ \E h \in hooks : HookStep(h) \/ HookLost(h)
  \/ \E m \in timers : TimerStep(m)
  \/ \E t \in Threads, n \in Names : Request(t, n)
  \/ \E t \in Workers : WorkStep(t)
  \/ ReapStep
  \/ ServerCrash
  \/ BootStep

Spec == Init /\ [][Next]_vars

(* The thread pool, the scheduler and the timers run what they were given. *)
(* Users, agents, lost hooks and crashes promise nothing.                  *)
Fairness ==
  /\ \A t \in Workers : WF_vars(WorkStep(t))
  /\ WF_vars(\E h \in hooks : HookStep(h))
  /\ WF_vars(\E m \in timers : TimerStep(m))
  /\ WF_vars(ReapStep)
  /\ WF_vars(BootStep)
FairSpec == Spec /\ Fairness

-----------------------------------------------------------------------------
(* Every store holds what its type says; the cache never holds `unknown`.  *)
TypeOK ==
  /\ pane \in [Names -> Pane]
  /\ owner \in [Convs -> Names \cup {Nobody}]
  /\ transcripts \subseteq Convs
  /\ row \in [Names -> Row]
  /\ cache \in [Names -> Entry]
  /\ hooks \subseteq Hook
  /\ worker \in [Workers -> Work]
  /\ timers \subseteq Timer
  /\ reaper \in [seen : [Names -> {"skip", "plain", "uuid"}], name : Names \cup {Nobody}, verdict : DeadStates]
  /\ server \in {"down", "booting", "up"}
  /\ todo \subseteq Names
  /\ requests \in 0..MaxRequests /\ crashes \in 0..MaxCrashes
  /\ adrift \subseteq Names /\ contended \subseteq Names

(* No two tmux sessions ever run the same agent conversation, whatever     *)
(* order launches, hooks, resumes and restarts take (session_state.py,     *)
(* sessions.py: every id travels with the session's own name).             *)
ConversationInOnePane ==
  \A m, n \in Names :
    m # n /\ Alive(m) /\ Alive(n) => pane[m].conv # pane[n].conv

(* An agent that runs has a row, by which lists show it and a resume finds *)
(* it, unless a request on that session is still under way: a failed       *)
(* launch, a relaunch, a restart or a late hook never parts the two.       *)
(* Excused: what the code leaves running without a row (the task deleted   *)
(* or renamed, tasks.py:326; POST launch, routes/sessions.py:234; a crash  *)
(* in the middle of a request) until a row is made anew, and names that    *)
(* two requests had in hand at once (routes/sessions.py:380).              *)
AgentHasRow ==
  \A n \in Names \ (adrift \cup contended) : Alive(n) /\ ~InHand(n) => row[n].there

(* While the process lives, the cache never forgets a conversation id, so  *)
(* that the reaper can still tell crashed from stopped (set_state).        *)
KnownIdKept ==
  [][\A n \in Names :
       server = "up" /\ server' = "up" /\ cache[n].conv # NoConv => cache'[n].conv # NoConv]_vars

(* A row that was deleted comes back through open_session, or with a task  *)
(* renamed to its name, only: no late hook, resume or recovery that read   *)
(* it earlier recreates it.                                                *)
DeletedRowStaysDeleted ==
  [][\A n \in Names :
       ~row[n].there /\ row'[n].there
         => \E t \in Threads : (At(t, "open_save") /\ worker[t].name = n)
                                \/ (At(t, "rename_create") /\ worker[t].to = n)]_vars

(* When the server starts to listen, every session with an id on record is *)
(* in the cache: it was alive, or crashed, or has been resumed.            *)
BootCoversRows ==
  [][server = "booting" /\ server' = "up"
       => \A n \in Names : row[n].conv # NoConv => cache[n] # NoEntry]_vars

(* A pane that is gone for good ends up reported as gone for good, however *)
(* late a hook, a timer or a stale request writes (the reaper, 15 s).      *)
DeadPaneReported ==
  \A n \in Names :
    <>[](server = "up" /\ ~Alive(n)) => <>[](cache[n].state \notin LiveStates)

(* A resume does not leave the card on `starting`: its timer replaces what *)
(* the SessionStart hook, which a resumed agent does not fire, would have. *)
Marking(n) == \E t \in Workers : At(t, "resume_mark") /\ worker[t].name = n /\ worker[t].flag
ResumeLeavesStarting ==
  \A n \in Names : Marking(n) ~> (~Marking(n) /\ cache[n].state # "starting")

(* agent.py get_agent_by_id: "a session is resumed with the same agent     *)
(* that launched it".                                                      *)
ResumeUsesOwningAgent ==
  \A t \in Workers :
    worker[t].at \in {"resume_launch", "rebuild_launch"} /\ worker[t].conv # NoConv
      => AgentOf[worker[t].conv] = worker[t].agent
=============================================================================

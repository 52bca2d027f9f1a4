# Verification of OpenEVA in TLA+

OpenEVA runs coding agents (Claude Code, Codex) in tmux sessions, one per task, review,
ticket, project or cron job, behind a FastAPI server and a React frontend. The parts of
it that are hard to get right are the ones where several stores describe the same thing
and several actors write them. This directory models those parts, checks them with TLC
on small instances and proves what matters most with TLAPS.

Paths below are relative to the repository (`src/`); `core/` is short for
`src/core/src/`.

## Inventory

| Component | State | Operations | Hard behaviour | What makes it correct | Module |
|---|---|---|---|---|---|
| **Session lifecycle** `core/common/sessions.py`, `session_state.py`, `routes/sessions.py`, `adapters/tmux.py`, `src/eva-hook.sh` | tmux panes; `sessions` rows; the in-memory map `_states`; hook requests in flight; 5 s timers | open, resume, restart, DELETE, kill-by-status, rebuild, status, `/api/hook`, the 15 s reaper, start of the server | four stores and seven actors; probe-then-act on tmux; lost and late hooks; crash between two stores | one pane per conversation; ids are not lost; dead panes are reported; deleted rows stay deleted | `Sessions` |
| **Event bus, SSE** `core/app_state.py`, `routes/events.py`, frontend `useEventBus.ts`, `SessionStatusProvider.tsx` | `events` table, listener list, one bounded queue per browser, the browser's mirror | emit, subscribe with snapshot, replay, reconnect, relay from `eva-cli` | emission outside the lock of the map; full queues; a list that shrinks under an iterator | the mirror converges to the map; no frame falls between snapshot, replay and queue | `EventStream` |
| **Cron jobs** `core/common/cron_jobs.py`, `services/cron_runner.py`, `scheduler.py`, `routes/cron_jobs.py` | `cron_jobs`, `cron_job_runs`, armed scheduler jobs, cron panes | create, edit, delete, tick, run now, Stop hook, register at start | ticks overlapping with edits, other ticks and Stop hooks | armed jobs match rows; open runs are bounded; a run is closed by its own session | `CronJobs` |
| **Terminal multiplexer** `core/routes/terminal.py`, `pty_manager.py`, frontend `terminalMux.ts` | PTYs, ring buffer per session, sequence numbers, subscriber queues, reader tasks, the tab's maps | subscribe (since a number), unsubscribe, read, push, kill, reconnect | reader task against PTY death, ring and queue overflow, restart of the numbering | every screen goes forward through the output, without a hole and without a repetition | `TerminalMux`, `TerminalView` |
| **Task store** `core/common/tasks.py`, `routes/tasks.py`, `core/eva_db.py` | tasks, dependencies, PR rows, timeline, session rows; one connection with one transaction | create, smart create, update, check-status, rename, move, delete, dependencies, notes | statements of several threads share one transaction; whole rows are read, changed and written back | foreign keys; nothing left uncommitted; timeline and boards tell what the rows say | `TaskRules`, `TaskStore` |
| **GitHub poller, PR sync** `core/services/github_poller.py`, `pr_sync_service.py`, `common/prs.py`, `routes/prs.py` | PR rows (one per task and one for the review queue), dirty marks, seen ids | poll, two listeners, dirty and full tick, refresh, sync streams, discovery, link, unlink | fetch against new marks and against the other tick; decisions from the first of several rows | open rows end up fresh; an end is told once; the time of the end is kept | `Pulls` |
| **Reviews** `core/common/prs.py`, `reviews.py` | review rows: source, mark, workflow state | full and dirty-only sync, prune, pin, unpin, change of state | two syncs write back sources they read earlier, against the user | pins survive; what was removed stays out; the queue follows GitHub | `Reviews`, `GitHub` |
| **Tickets, JIRA** `core/common/tickets.py`, `services/jira_sync.py` | ticket columns on `tasks` | sync of all instances, re-fetch of tickets that left, track, pin, link, unlink, detach, delete | find-then-insert by several threads; a cap on what a tick asks again; instances that fail | one row per ticket; pins are not badged; the cache follows JIRA | `Tickets` |
| **Audit** `core/common/audit.py`, `src/eva-cli` | none of its own | scan, fix, scan again | fixers act on findings of a scan the server has gone on from | what was found is repaired, and nothing else | `Audit`, `Upkeep` |
| **Agent adapters** `core/common/agent.py`, `agents/codex.py` | none of their own | argv for launch and resume, transcript lookup | ids of one agent are useless to another | a session is resumed with the agent that launched it | in `Sessions` |
| **The rest** projects, settings, repos, certificates, search, worklog, system, plugins, channels | rows and files | CRUD and reports | little: single statements, I/O, text | | none |

How they meet: a request thread, the scheduler's executor, the hook endpoint and the
timers all call `session_state.set_state`, which writes the map under a lock and then
emits on the bus; the bus feeds listener threads and one queue per browser. Cron,
reviews, tickets and projects reuse the session functions with their own rows. `eva-cli`
is a second process over the same code and database; it relays its events to the server
by HTTP. The database serialises single statements; nothing spans two of them.

## Modules

| Order | Module | What it composes | Abstract specification, theorems |
|---|---|---|---|
| A | `Sessions`, `Sessions_proofs` | tmux, rows, map, hooks, reaper, timers, boot | types; one conversation, one pane; ids kept; deleted stays deleted; boot covers rows |
| B | `CronJobs`, `CronJobs_proofs` | rows, scheduler, runs, panes, Stop hooks | types; bound on open runs; runs go with their job; armed follows rows |
| C | `EventStream`, `EventStream_proofs` | map, events table, emitting threads, streams, browsers, `eva-cli`'s relay | types; the mirror misses nothing; a resumed stream has no gap |
| D | `TerminalMux` over `TerminalView`, `TerminalMux_proofs` | tmux attachment, reader, ring, queues, the tab | types; screens follow the reader; refines `TerminalView` |
| E | `TaskRules`, `TaskStore`, `TaskStore_proofs` | pure rules; threads over one connection and one transaction | types; committed at rest; no orphans; nothing left behind; timelines; tickets stay; boards are told |
| F | `Pulls` and `Reviews`, summed in `GitHub`; `GitHub_proofs` over `Reviews_proofs` | rows, listeners, syncs, the user | types; ends told once, their times kept; pins survive; removed stays out |
| G | `Tickets` and `Audit`, summed in `Upkeep`; `Upkeep_proofs` | rows, JIRA, syncs, trackers; scan, fixers, server | types; one row per ticket; pins are not badged; what was found is repaired, and nothing else |

What would come next, in this order: the review, ticket and project variants of
`Sessions`, which share its steps over other tables; `eva-cli`'s own copy of the session
map.

Parameters are CONSTANTS, with named assumptions where the code justifies one; every
operation is an action; invariants are conjunctions of named parts; and no module uses
RECURSIVE operators. Histories (variables that no code reads) are marked so in each
module. Where a property fails because of something the code does knowingly, or for
which it gives no order, the module records that it happened in a history and the
property leaves exactly that case out; the sections below name each of these cases.

## `Sessions`: the life of a session

### State

| Variable | Code |
|---|---|
| `pane` | what `tmux` runs under a name: nothing, a starting agent, an idle or a working one; its conversation id and agent |
| `owner` | history: the session in which a conversation id was minted (no code reads it; the properties do) |
| `transcripts` | the `.jsonl` files `_local_transcript_exists` looks for |
| `row` | `sessions` table: existence, `agent_session_id`, `agent_impl` |
| `cache` | `session_state._states`: state and `agent_session_id`; `needs_permission` is not told apart from `thinking`, both are live and no branch modelled here differs |
| `hooks` | POSTs of `eva-hook.sh` in flight; `cached` once `receive_hook` has written the map and still has to write the row |
| `worker` | what each request thread, and the thread of the server's start, has noted and where it stands |
| `timers` | `threading.Timer(5, _refine_state_from_pane)` armed by resumes |
| `reaper` | the copy of the map `reap_dead_sessions` iterates over, and the verdict it is about to write |
| `server`, `todo` | the phase of `server._on_startup` and the candidates `recover_crashed_sessions` still has to resume |
| `requests`, `crashes` | counters of the bounds |
| `adrift` | history: names whose row was taken away, or never made, while tmux was let be |
| `contended` | history: names two requests had in hand at once |

### Actions

A step is one call to tmux, to the database or to the map, because that is where the
threads interleave. A thread that starts an operation notes what it read (`worker[t]`)
and acts on the note later, as the local variables of the code do.

- `open_session`: `OpenStart` (probe and row), `OpenLaunch`, `OpenSave` (INSERT OR
  REPLACE when there was no row, UPDATE of the agent otherwise), `OpenSeed`.
- `resume_session`: `ResumeStart`, `ResumeCheck` (forgets an id without a transcript),
  `ResumeLaunch`, `ResumeConfirm` (pane probe), `ResumeMark` (map and timer), then
  `TimerReads` and `TimerWrites`.
- `restart_session`: `RestartStart` kills, `RestartResume` enters the resume.
- `DELETE /api/sessions/<name>`: `KillStart` (tmux), `KillMark` (map), `KillDelete`
  (row). `kill-by-status`, for one listed row: `SweepStart` to `SweepMark` (row first,
  then map). A loop over rows is as many requests on one row each.
- `rebuild`: `RebuildStart`, `RebuildLaunch`; it checks no transcript and writes no map.
- `GET .../status`: `StatusStart`, `StatusMark` (self-heal and seed).
- `delete_task`: `TaskDeleted` takes the row and lets tmux be, as its docstring says.
  `rename_task`: `RenameStart` (reads the row), `RenameDelete`, `RenameCreate`; the pane
  keeps its old name. What the two do to the task is in `TaskStore`.
- `POST /api/sessions/launch`: `RawLaunch`, an agent in a pane and no row.
- `LaunchFails`: tmux raises and ends the operation where it stands.
- `receive_hook`: `HookToCache`, then `HookToRow` for SessionStart; `HookLost`.
- `reap_dead_sessions`: `ReapStart`, `ReapProbe`, `ReapMark`.
- Start of the server: `ServerBoot` (`rebuild_from_tmux` and the marks of
  `recover_crashed_sessions`, which run before any other thread), `RecoverOne` and the
  steps of `resume_session` in the thread `Starter`, `ServerListens`.
- The environment: agents boot, are prompted, stop, notify and exit, transcripts are
  removed, the server crashes. These stand for tmux, the agents and the shell hook; what
  they may do is what `src/` relies on (a resumed agent fires no SessionStart,
  `sessions.py:430`; an agent given an id that is not its own or has no transcript exits
  at startup; hooks are posted once, in the background).

### Runs

| Run | Instance | Shows |
|---|---|---|
| `sessions_pair` | two names, two request threads, two requests, one crash, one hook and one timer in flight, ids without local transcripts | `TypeOK`, `ConversationInOnePane`, `AgentHasRow` |
| `sessions_life` | one name, one request thread, two requests, one crash, hooks may be lost, one cloud id | `KnownIdKept`, `DeletedRowStaysDeleted`, `BootCoversRows`, and the liveness properties `DeadPaneReported`, `ResumeLeavesStarting` |
| `sessions_agent` | one name, two agents | violated: `ResumeUsesOwningAgent` |

Why the bounds are enough: sessions interact only through an id that travels from one to
the other, which takes two names; with two threads and two requests every operation
meets every other in each of its steps, on one name or on two, and a raw launch or an
open comes first where the other needs an agent. Every actor runs beside the request
threads (hook handler, timer, reaper, agents, starter), so the stale reads happen: a hook handled after a DELETE, a timer
after a relaunch, a verdict of the reaper after a resume. Two conversations suffice
because the code compares ids only with the empty one. In the pair run no id has a local
transcript: the branch that forgets an id without one touches its own row only, and
`sessions_life` takes it. `MaxHooks` holds back an agent that would post a second hook;
the hook it holds back is one that arrives later. In `sessions_life`, `CloudIds` has an
id the local lookup never finds; the other id has a transcript that may be removed.

`AgentHasRow` holds for any number of threads and crashes, and leaves out what the code
parts on purpose or without an order. A session is `adrift` when its task is deleted or
renamed (`common/tasks.py:326`: tmux is left running), when an agent is launched in it
without a row (`routes/sessions.py:234`), or when the server crashes while a request has
it in hand; it stops being adrift when a row is made for it. A name is `contended` when
a request takes it up while another has it in hand: a DELETE between the launch and the
save of an `open_session` leaves a pane or a row without the other, and nothing in the
code orders the two. Everything else is held to the property: failed launches, relaunches
over a kept row, restarts, sweeps, late hooks, recoveries, requests on other names.

### Fairness

Weak fairness on the steps of a thread that has started an operation, on the hook
handler, the timers, the reaper and the start of the server: the thread pool, the timer
threads and the scheduler run what they were given, and the supervisor restarts the
server. None on users, agents, lost hooks, launch failures on their own, or crashes.
`DeadPaneReported` needs the reaper only; `ResumeLeavesStarting` needs the thread that
marks and its timer.

### What is proved

`Sessions_proofs` proves, for any number of names, threads, agents, conversations,
hooks, requests and crashes:

- `TypeCorrect`: `Spec => []TypeOK`. By induction over the actions, one lemma per actor.
- `OneConversationOnePane`: `Spec => []ConversationInOnePane`. The property is not
  inductive: a launch takes its id from what a thread noted, the note from a row, the
  row from a hook, the hook from a pane. The invariant `OInv` says that at each of these
  links the id was minted in the session that carries it (`PaneMine`, `RowMine`,
  `HookMine`, `WorkMine`); `owner` is a function, so two panes cannot run one id.
- `KnownIdsKept`, `DeletedStaysDeleted`: action properties from `TypeOK` and from
  `SInv`, which says that the thread of the server's start only ever resumes.
- `BootIsCovered`: from `BInv`, which says that while the server starts no hook, timer
  or request is under way, and that each row with an id has a map entry.
- `AgentsHaveRows`: `Spec => []AgentHasRow`. Its invariant `HInv` says that a name nobody
  contends for is in one hand at most (`OneHand`), what that hand may still rely on of
  what it read (`RelyOn`: the row it resumes is there, the pane it deletes the row of is
  dead), that request threads and the thread of the start take turns (`Turns`), and that
  an agent without a row is adrift or the one `open_session` has launched and is about to
  save (`Saving`).

They rest on the named assumptions of `Sessions`: the null values are not names or ids,
every id has an agent, the starter is not a request thread, bounds are naturals. The
two liveness properties are only model-checked: liveness under
fairness is out of the prover's reach.

### What is left out

State labels, titles and timestamps, and the emitted events of `set_state` (they are in
`EventStream`); the pane parser, reduced to whether it recognises work or not;
`fire_action` and pasting prompts; the review, ticket, project and cron branches of
`receive_hook` and of open and resume (`CronJobs` has the cron branch); a kill that
times out; tmux's lookup of a target by prefix; `eva-cli`'s own copy of the map; arguments
a user passes to a raw launch (`agent_args`), which may name any conversation.

## `CronJobs`: rows, triggers and runs

### State and actions

| Variable | Code |
|---|---|
| `job`, `run`, `nextRun` | tables `cron_jobs`, `cron_job_runs`; how a run was closed, its excerpt and the display columns of the job are not told apart, nothing reads them back |
| `armed` | the APScheduler job `cron-<id>`, in memory: which schedule its trigger was made from |
| `pane` | tmux sessions `cron-<slug>-<id>`: which run's agent lives there, and whether it works |
| `stops` | Stop hooks in flight, with the run of the session that posted it (`of`, history) and, once looked up, the run it will close |
| `runner` | a thread in `run_now`: for job `j` the executor's (`max_instances=1`), and the requests behind "Run now" |
| `editor` | a thread in a route, between the write of the row and the end of `sync_job` |
| `server`, `edits`, `crashes` | phase and bounds |

- Routes: `CreateJob`, `PatchStart`, `PatchWrite`, `DeleteJob`, then `sync_job` as
  `SyncRead` and `Arm` or `Unregister`. A schedule is stored whether or not it can be
  armed: `BadSchedules` are those `parse_schedule` rejects, `RaisingSchedules` those it
  accepts and APScheduler's `CronTrigger` does not.
- `run_now`: `Fire` or `Press`, `ReadJob`, `ListOpen`, `CancelOldest` (one UPDATE each,
  by id, whatever has become of the run), `InsertRun`, then the executor: `Probe`,
  `Kill`, `Launch`; `ExecutorFails`, `FailRun`.
- `finish_run_for_session`: `StopLooksUp`, `StopCloses`.
- `ServerCrash`; `ServerStart` is `register_all`, newest row first.
- Agents stop, are prompted by an attached user, and end.

### Runs

| Run | Instance | Shows |
|---|---|---|
| `cron_jobs` | one job, a schedule that parses and one that does not, one editor, one button, three runs, two edits, one Stop hook in flight, one crash | `TypeOK`, `OpenRunsBounded`, `RunsHaveJobs`, `ArmedAsEdited` |
| `cron_stop` | the same, two names for the job | violated: `StopClosesItsOwnRun` |
| `cron_start` | two jobs, a schedule that raises | violated: `ArmedAsEdited` |

One job is enough for the passing run: jobs share the counter of run ids and the loop of
`register_all`, and `cron_start` has two jobs for that loop. Two threads can leave two
open runs; the third run is the one of a tick that must first give both up. The run
states safety only; no fairness is assumed.

`ArmedAsEdited` is about one editor at a time: two requests that edit one job read and
arm in any order, and nothing in the code orders them. It says nothing of a row whose
own schedule has no trigger, because `register_job` then returns (or raises) before it
removes the trigger of the schedule before it. `RunsHaveJobs` needs foreign keys:
`rename_task` leaves them off until the server restarts (`core/eva_db.py:2049`: SQLite
ignores the pragma inside the transaction the updates opened), and the constant
`ForeignKeys` says so; its effects on tasks belong to `TaskStore`.

### What is proved

For any number of jobs, names, threads, runs, edits and crashes, `CronJobs_proofs` has:

- `TypeCorrect`, which includes that only schedules with a trigger are armed.
- `OpenRunsAreBounded`. Not inductive: a thread cancels what it noted, and a run might
  be opened after the note. `OwnNoted` says that a thread between its list and its
  insert still holds all open runs of the job that it started itself; when it inserts,
  its note is empty, so it has none.
- `RunsOfJobs`, assuming `ForeignKeys`.
- `ArmedFollowsRows`, assuming a single editor and no schedule that raises, from `EInv`:
  only the job the editor is syncing may lag, and what it has read is still so.

Assumptions of the module: job ids are naturals and not buttons, `NoSchedule` is not a
schedule, bounds are naturals. What is left out: validation of names and commands,
logging, misfires (a tick that is skipped is a tick that does not happen), and launch
with an agent that is not installed beyond "the executor fails".

## `EventStream`: the bus and the browser's mirror

| Variable | Code |
|---|---|
| `cache` | `session_state._states` |
| `table` | `events`, in rowid order; a row of `eva-cli` is marked `cli` |
| `thread` | an `emit_event` under way: the frame, the index of its loop over `_event_subscribers`, the queues it found full |
| `subscribers`, `stream` | the list of queues; each stream's phase, its frames still to send and its queue |
| `browser` | the tab: its stream, the mirror and the buffer of `SessionStatusProvider`, the last event id |
| `relays` | POSTs of `eva-cli` to `/api/internal/emit-relay` |
| `skipped`, `raced`, and `heard`, `since` in the records | histories |

`SetState` writes the map under its lock and starts to emit after it; `Notify` writes a
row (an event with a known `source_id` goes out under the id of its old row);
`NotifyUnrecorded` is the `sqlite3.Error` branch. `PushOne` is one turn of the loop,
`PushEnds` takes full queues off the list: the loop goes by index over a list that other
threads and the event loop change, so a queue may be passed over (`PassedOver`).
`Connect` appends the queue before the snapshot is read, `Snapshot`, `SendOne`, `Replay`
and `SendLive` are the generator, `Disconnect` and `StreamEnds` the two ends of a broken
connection, `Restart` loses all that is in memory.

Run `event_stream`: one name with one state, one topic, one thread, one client that
resumes, queue and replay of one, three events (the first is in the table at the start),
two streams, one restart. A queue of one is what makes it overflow; a second stream is
what makes a reconnect; the third event is the one that comes between the snapshot and
the queue, or lies beyond the replay.

- `NothingMissed`: the mirror, once all that is on the way has arrived, is the map.
  Excused: a stream that a push passed over or found full (`skipped`: it stays connected
  and receives nothing more), and a name two threads told of at once (`raced`, which
  takes a second thread and so does not occur in the run).
- `ResumeHasNoGap`: a reader is given every row written since it connected and, once its
  replay is made, the rows after the one it named, up to the replay's limit; none falls
  between the two. Excused: rows of `eva-cli`, whose relay may be lost. What the reader
  names need not be a row: a session's state, a relay and an event whose INSERT failed
  go out under ids that no row has. Such an id gets no replay (`ReplaySince`), and then
  only the first half of the property says something. (The shipped frontend makes a new
  `EventSource` on each error and sends no such header; the endpoint offers it to any
  reader.)
- Run `event_resume` checks what the docstring of `event_stream` says instead, that a
  reconnect replays every event missed (`MissedIsReplayed`: the rows later than the last
  frame the reader got, up to the limit), and finds it violated, with no restart, by an
  id without a row.
- `MirrorConverges` (liveness): weak fairness on an emitting thread, on the server's
  generators and on the reconnect timer. None on changes, disconnects or restarts.

Not modelled: the read flag of notifications, the poll status, keepalives. Listener
threads are in `Pulls`.

### What is proved

`EventStream_proofs` proves the three safety properties of the run for any finite set of
names, any sets of threads, browsers and states, any size of queue and replay of at
least one, and any bounds; so also with several threads and several browsers, which the
run has no room for. It assumes besides that `Absent` is not a state, that there is a
browser and that the resuming ones are browsers.

- `TypeCorrect`: `Spec => []TypeOK`. The list of queues holds none twice, which the
  indices of `PassedOver` rest on, and no queue exceeds its limit.
- `MissNothing`: `Spec => []NothingMissed`. Not inductive: it looks at streams after
  their snapshot, and says nothing of who will push or in which order. `IInv` adds
  `Listed` (a followed stream is on the list, and a thread's full queues are all
  excused), `Shaped` (a browser buffers exactly while the end of its snapshot is the last
  frame the stream has still to send, and no thread and no queue holds such an end),
  `Current` (of a name that is not `raced` one thread tells, and it tells what the map
  says) and `Mirrors`: a thread will still bring the name to the stream, or the last word
  on it, in the queue, else in the frames before the queue, else in the buffer or mirror,
  is the map's; a stream before its snapshot needs none. The steps share two lemmas: a
  stream that is followed was followed and moved in one of six ways, or is new
  (`NextFollows`); and what a thread brings to it reaches its queue or is still on its
  way (`NextBrings`), also when the list shrinks under the thread's index.
- `ResumesWithoutGap`: `Spec => []ResumeHasNoGap`. A row that is written now is in the
  hands of a thread that has the stream still before it (`NextTable`, `NextBrings`), or
  `eva-cli` wrote it; a row that was there is in the queue before the replay is made, and
  what the replay adds is what follows the row named (`ReplayOK`, from `Numbered`: rows
  are in the order of their ids, so that there is one such row).

## `TerminalMux` and `TerminalView`: terminals in the browser

Output is counted, so a chunk is an interval of that count and a screen is a number: a
chunk that does not begin where the screen ends makes it `Torn`.

| Variable | Code |
|---|---|
| `pane`, `pty` | the tmux pane; `pty_manager.sessions` (`hung`: the attached client is gone, which only a read notices) |
| `reader` | the task of `_session_readers`; `got` between the return of the executor and the resumption of the task |
| `ring` | `_session_rings` with its next number |
| `stream` | `_clients`: subscriptions and the bounded queue |
| `tab`, `term` | `TerminalMux` of a tab: `EventSource`, `clientId`, pending and active maps, `lastSeq`, the xterm |
| `posts` | subscribe and unsubscribe requests and their answers |

A handler without an `await` is one action of the event loop; `Read` and `Spread` are
two because the read runs in the executor. `Subscribe` is the whole handler: ring delta
or snapshot, queue, new attachment, new reader.

Run `terminal_mux`: one session, one tab, queue of two, ring of one chunk, output of
two, two streams, one mount, one fault (an attachment or a pane ends, or the server
restarts). With a ring of one the second chunk already rolls it; a queue of two
overflows with a third frame.

- `ScreenFollowsReader`: with what is queued for it, a subscribed screen stands where
  the reader is: nothing missing, nothing twice.
- `ScreenGoesForward` is `View!Spec`: `TerminalMux` implements `TerminalView`, under the
  mapping `produced <- pane.out`, `screen <- view` of a subscribed terminal that is not
  excused and not about to be repainted, `Detached` otherwise.
- `OutputShown` (liveness): weak fairness on the reader and on the delivery of what an
  open stream has queued.

Excused, each with its line in `Subscribe`, `Spread` or `Mount`: a full queue that gave
up its oldest frame (nobody is told), a snapshot taken while the reader was behind the
pane or after it failed, or that tmux did not answer, a delta asked for with a number of
an earlier life of the server or by a terminal that is already subscribed, a terminal
opened a second time in one tab (`before`: its new xterm is blank, `last` is the old
one's). A snapshot ends the excuse, unless something else of the terminal is queued or
asked for then (`Mixed`). Not modelled: reuse of a file descriptor's number, window
sizes, what the bytes say.

### What is proved

`TerminalMux_proofs` proves both safety properties of the run and the types, for any
sets of sessions and tabs and any sizes, bounds and numbers of faults. It assumes that
the sizes and bounds are naturals, the queue and the ring at least one, and that `Torn`
and `Detached` are not positions and not each other.

- `TypeCorrect`: `Spec => []TypeOK`.
- `ScreenFollows`: `Spec => []ScreenFollowsReader`. Not inductive: it speaks of
  terminals that are subscribed, and most of what can go wrong is decided before. `IInv`
  has eight parts: the types; `Attachments` (read is at most fed, fed at most written,
  and the reader holds what was read last); `Rings` (numbers without a gap up to
  `next - 1`, chunks that continue each other, the last one up to where the reader is);
  `Links` (a stream is of one tab, and nothing is asked for or queued on it before the
  tab knows its number); `AllSane` and `AllFit` (what is queued or shown was numbered by
  this life of the ring and written by the pane); `AllFresh` (nothing is on its way for a
  terminal never opened); and `Sounds`, of each open terminal that is not excused: the
  delta it would be served continues its screen, what it asks for says what it has, and,
  once it is subscribed, its queue brings its screen to the reader, with every state on
  the way as good as a screen and a torn one about to be repainted.
- `GoesForward`: `Spec => ScreenGoesForward`, the refinement, from the same invariant.
  Every step maps to a step of `TerminalView`: output to `Produce`; a frame to `Show`,
  or to `Attach` when it was the repaint; a subscription to `Attach`, of one terminal,
  which may cost other terminals of the tab theirs; all others to `Detach`, of no
  terminal when nothing changes.

The run has one mount, and so neither case that the proof asked for: that a second mount
of a terminal in one tab is excused (`before`), and that a snapshot does not renew a
terminal for which something else is under way (`Mixed`).

## `TaskRules` and `TaskStore`: tasks over one connection

`TaskRules` has the pure decisions: blocked or not (over a project's tasks, and over the
table), the status that is shown, the status that PRs and a ticket suggest.

All threads of the server share one sqlite connection, and so one transaction: the lock
of `eva_db` covers one statement or one `with` block. `db` is what the connection sees,
`undo` the tables before the open transaction. A request (`thread`) is a plan of
statements, decided from what it read at its beginning (`Plan`), and each statement is a
step: `Insert`, `Look` (`save_task` looks for the row) and then `Update` or `Recreate`,
`SaveDeps`, `Result`, `Note`, `Drop`, `DropHistory`, `DropSession`, `Rename`,
`SessionOf`, `NewSession`, `Move`, `Depend`, `Undepend`, `AddPr`, `Touch`, `Seek`,
`Suggest`, `Promote`, `Open`, `CommitStep`, `Emit`. A commit makes durable, and a
rollback takes back, what any thread has executed. A create stores the status that the
request gives and puts nothing on the timeline; adding a pull request reads the task
again and promotes it; a smart create goes on with its ticket, its notes and its
dependencies (`BeginNext`), and one of these that is refused is passed over. `fk` is the foreign-key PRAGMA, which `rename_task`
turns off and cannot turn on again before a restart.

Run `task_store`: two ids, two projects (one with tickets), two symmetric threads, four
requests out of sixteen, one restart. Two threads are what it takes to share a
transaction; four requests are, for instance, two creates, a dependency and a delete, or
a create, a delete, a re-create and a late writer. Safety only, no fairness is assumed.

- `NoOrphans`: while the connection enforces foreign keys and nothing was renamed,
  dependencies and PR rows have their task.
- `NothingUncommittedAtRest`: when all requests have ended, no work waits for a commit.
- `NothingLeftBehind`: a task's timeline and session row are its own, not those of an
  earlier task of that id.
- `TimelineTold`: the last status on the timeline is the status of the row; without one
  the row has the status that the task was created with.
- `TicketedStays`: a task with a ticket is not deleted.
- `BoardsTold`: the open pages are told of every change.

The histories name what is excused: `contested` (two requests had the id in hand:
`save_task` writes back a whole row), `renamed` (history stays under the old id),
`undone` (a rollback took another thread's statements), `detected` (`check-status`
writes a status and no entry), `silent` (paths without an event: `check-status`, rename,
an error half way, a crash). `TimelineTold` and `NothingLeftBehind` are stated for no
restart, because another thread's commit can make the first half of a delete durable
before the crash; and `NothingLeftBehind` for no foreign rollback, which with a commit
of a third request between the halves of a delete does the same. Two threads need five
requests for that, one more than the run has: the proof found it, not the run.

### What is proved

`TaskStore_proofs` proves every property of the run, for any sets of ids, projects and
threads and any number of requests and restarts. It assumes what the module's named
assumptions say, above all that the requests are well-formed and that some task exists
to make a request of.

- `TypeCorrect`: the plan of a request is data, so types need an invariant of their own:
  `Typed` adds to `TypeOK` that what each thread still has to execute fits its request
  (`AllFit`: the statements, their order and where the commit stands).
- `CommittedAtRest`: `SomeOwes`, an open transaction with work in it has a thread that
  still owes a commit or a rollback.
- `ChildrenHaveTasks`: `Roots`, as long as nothing was renamed the PRAGMA is on, and
  both the tables and what a rollback would bring back are rooted.
- `BoardsAreTold`: `SomeTells`, a change that no event told of yet belongs to a thread
  whose plan still ends with the event.
- `TicketsStay`: `OneHolder` (an uncontested id is in one thread's hand), `RowUndo` and
  `TicketUndo` (what a rollback would bring back of an uncontested task), `Finds` (the
  row a delete has read is the row that is there).
- `BelongToTheirTask`: `BelongInv`. A timeline without a row is that of a thread in the
  middle of its delete, what threads have read of a task is still so, a renamed id is
  marked; all of it as long as there was neither a restart nor a foreign rollback.
- `TimelinesTell`: `Updates` (what an update read is what the timeline says, and what it
  saved is what it will note), `Promoted` (a status that a pull request suggested stays
  the row's until it is noted) and `Told` (the timeline says the row's status, or a
  thread that has the task in hand still has the note to make).

## `Pulls`, `Reviews`, `GitHub`: what is cached of GitHub

`Pulls`: `prs` (rows with status, version, stamp and mark; one PR may have a row for
each task and one for the review queue, found by number and so written together),
`github` (what GitHub says), `seen` and `notes` (emitted notifications and the listener
threads they start), `jobs` (a tick or a request: what it fetched, and the one PR it has
read and not yet written), `over` (tasks that are done), `told` and `odd` (histories).
Actions: `Poll`, the listeners `MarkDirty` and `WriteSaid`; `Fetch`, `Take`, `Write`,
`Follow`, `Clear`, `EndFull` for the two ticks; `Refresh`, `RefreshFails`, `SyncStream`,
`SyncAllPrs`, `SyncMarked`, `SyncEvery` for the user and `eva-cli`; `Ingest`,
`IngestInsert`, `LinkPr`, `RemovePr`; `Restart`.

Abstractions: the dirty tick and the user's requests take turns (a bound, two of the
three run at a time); several changes on GitHub that nobody looked between are one; PR
numbers stand for PRs; a message whose title says nothing of a status writes nothing;
what is told of an excused PR is not counted.

- `OpenIsFresh` (liveness): once GitHub rests, a row that says open is up to date. The
  dirty tick clears marks set while it fetched; the property shows that the full tick
  makes up for it.
- `EndTold`: the task's agent is told of the end of its PR exactly once.
- `StampKept`: the time of the end is not rewritten.

Both speak of the first row, which is the one the code reads (`find_pr_by_number` takes
the first match, in the order of the table; a row that is inserted gets the highest id,
`Last`). They leave out PRs (`odd`) to which one of these happened:

- a listener, a refresh of one PR or a sync without telling wrote the row, or two jobs
  held the PR at once (`Others`), or a restart cut its job off;
- the events of the PR had to be asked for (`Flaky`: they may not be answered);
- an answer was taken after the row had been written with a later one (`Late`): two
  batches overlap, and the older answer is written last;
- it was linked as ended, or linked or unlinked while a refresh held it
  (`EndedOrHeld`, `RemovePr`): the refresh tells, and the next one tells again;
- its first row was unlinked while the row of another task said that it ended
  (`Inherited`): that task's agent is not told.

The last three are what the code does with several tasks, several rows or three events;
they came to light where the invariant below was not inductive, and TLC confirmed each on
an instance with one more row, task or event than the run had then.

`Reviews`: `queue` (rows), `asks` (GitHub), `full` and `quick` (the two syncs with what
they hold), `user` (a request between its read and its write), `wish`, `out`, `met`
(histories). Two of the four workflow states are kept, nothing in the code treats one in
its own way.

- `PinKept`: a pinned review stays pinned, in the state the user gave it.
- `RemovedStaysOut`: a removed review that GitHub does not ask for is not put back.
- `QueueFollows` (liveness): again and again the queue says what GitHub says.

Excused (`met`): reviews the user pinned or removed while a sync held them.

`GitHub` runs either of the two, for they share no column; `cache` says which. Run
`github`: one PR with the rows of two tasks and of a review, two events; or one review,
one change on GitHub, two acts of the user. The rows are what makes "the first row"
matter.
Fairness: weak on the threads and the listeners; strong on a full answer of GitHub to
the full tick and to the full review sync, which the scheduler asks for again and again.

## `Tickets`, `Audit`, `Upkeep`: tickets and the audit

`Tickets`: `rows` (the ticket columns of `tasks`), `jira`, `sync` (a sync: instance,
keys found, keys to ask again and those of them read as pinned, the upsert that is about
to run its next statement), `tracking` (`POST track` in a request thread), `linked` and
`raced` (histories). A sync is `SearchFails` or `SearchAnswers`; `TakeIssue`, `SyncLooks`
and `WriteIssue` for each issue; `Filter` (which takes the first `Cap` of what
disappeared); `FetchFails` (a `RuntimeError`: the next ticket), `FetchBreaks` (any other
exception: the next instance), `FetchFindsNone`, or `FetchFinds` with `SyncLooks` and
`WriteLeft`; `Done`. The user: `TrackTicket` (no cache has the key), `TrackAsks` or
`TrackFindsNone`, `TrackLooks`, `TrackWrites`, `TrackPins`, `Link`, `Unlink`,
`DeleteTask`. `upsert_ticket` takes the connection's lock for each statement, so each
`SELECT` of it is a step (`LookByKey`, `LookForShell` twice, `LookForName` until a name
is free) and the write is another.

- `TicketOnce`: a ticket has one row, whatever was detached, unlinked, deleted, tracked
  and synced.
- `PinnedNeverBadged`: a sync does not badge a pinned ticket.
- `QueueMirrored` (liveness): the cache of a healthy instance follows JIRA, whatever the
  others do.

Excused: keys a task was linked to by hand (`linked`), and keys that a second thread
began to upsert while the first was between its statements, or that were pinned during
their refresh (`raced`). Two upserts that interleave may leave two rows: one finds no row
by key, the other inserts `EX-1`, the first finds that name taken and inserts `EX-1-jira`.
The run has that behaviour; it is told among the disagreements below. `QueueMirrored` is
stated for fewer always-asked tickets than `Cap`: with as many, those behind them are never
asked again. In the run `Cap` is one, so its half about tickets outside the queue speaks
only while no ticket of the instance is always asked.

`Audit`: the tables the checks read, reduced to what they ask (`task`, `pr`, `log`,
`deps`, `sess`, `panes`, `run`), the stage of `eva-cli audit --fix`, its findings
(`todo`, `before`) and what the server wrote since the scan (`touched`). Every check of
`ALL_CHECKS` is a set of findings, every fixer an action, but for duplicate rows of one
task and url, which a unique index rules out. The first state is any database with at
most `MaxFindings` findings, since the rows may stem from older versions; what the
server does meanwhile is `ServerStep`. A check that raises puts its own failure among the
findings in the place of what it would have found, and a fixer that raises, or gets no
answer from GitHub, leaves its finding (`FixFails`); both count towards `MaxOutside`.

- `NothingLeftToFix`: the second scan finds nothing repairable and nothing new, of what
  the server did not touch and no check or fixer raised on. The fixer of a stale review
  session writes the row whose id the PR's url gives (`ReviewId`); a review without a PR
  row, or with another id (renamed, or from an older version), is out of its reach and is
  excepted.
- `RepairsOnlyBroken`: a repair takes away nothing that is in order. The same fixer
  deletes the session of the row whose id the url gives, whatever row was found stale:
  such a session is excepted.

`Upkeep` runs either of the two (`part`). Run `upkeep`: two keys of a healthy instance
behind a broken one, one task made by hand, one sync thread, one tracker, a cap of one,
two changes in JIRA, one act; or two tasks (one with an odd past), two findings, one
step of the server or one check or fixer that raises. A cap of one makes the second key wait; the broken instance comes
first in the order. Fairness: weak on the sync thread, strong on the answers of healthy
instances.

### What is proved

`Upkeep_proofs`, for any number of tickets, instances, syncing threads, users, tasks and
findings, and any cap:

- `UpkeepTypes`: `UpkeepSpec => []UpkeepTypeOK`. That a tick asks again for no more than
  `Cap` tickets is a lemma of its own (`FirstOfOK`: the number of smaller members maps
  the first `Cap` of a set one to one into `0 .. Cap - 1`).
- `TicketsOnce`: `UpkeepSpec => []TicketOnce`. Not inductive: an upsert writes the row
  it found some statements before. The invariant is about names. A row named after a key
  has that key or none (`Named`); of a key that is not excused only the first name is in
  use (`Single`), since a search for a free name finds the first, or the detached row that
  has it; what an upsert has seen so far is still so when it runs its next statement
  (`Sees`, `Fits`), because no other thread is in an upsert of the key (`Alone`) and all
  that users do is to take rows and keys away (`Fewer`).
- `PinsKept`: `UpkeepSpec => PinnedNeverBadged`. `PinRead` says that a ticket which a
  sync is about to badge has no pinned row, unless it was pinned since (`raced`).
- `AuditRepairs`: `UpkeepSpec => []NothingLeftToFix`. The invariant `AllKnown` says,
  while the fixers work, that whatever a scan would find now, and the server did not
  write, was found by the first scan and is on the list if a fixer can reach it. Each
  fixer leaves every row in no worse order for every check (`Mended`), so it makes no
  finding of another kind (`NoneNew`, one case per check; that it does not change what
  PR a review has rests on `AllStanding`); the server makes none where it does not write
  (`Apart`).
- `RepairsAreSafe`: `UpkeepSpec => RepairsOnlyBroken`, from `AllStanding`: what a finding
  on the list said of the rows still holds, as far as its fixer relies on it.

Assumed: keys are naturals, finitely many and at least one; each has a home among the
configured instances; ids of the user's tasks are not names made from keys; there are
finitely many tasks, the job is not one of them, `None` is not a row or a task, and a
PR's url gives the id of a task or none; bounds are naturals. `QueueMirrored` is liveness and only model-checked.

## What is proved of `Pulls`, `Reviews` and `GitHub`

`GitHub_proofs`, of `GitHubSpec`, for any number of PRs, rows, tasks and events. Row ids
are naturals and the bound on events is one; each row has a PR and a task or none;
`None` is neither a row nor what a row or a job holds (`EventsAssumption`,
`RowsAssumption`, `NoneAssumption`, and the two below for the review queue).

- `CachesTyped`: `GitHubSpec => []GitHubTypeOK`, strengthened by `Phases`: only a batch
  has items, discovery has not written what it holds, a request's PR is excused
  (`Phase`); a fetched answer is no newer than GitHub, and a merge in it is final
  (`Dated`).
- `EndToldOnce`: `GitHubSpec => []EndTold`. The property speaks of moments when nothing
  is held; in between, the row may say an end whose telling is still to come. `AllTold`
  says for each PR that is not excused: at most one job refreshes it; what that job read
  is what the first row says until it writes, and what it writes afterwards (`ReadOK`);
  a row of a task that says merged was written with GitHub's last answer, so that no
  refresh takes it back; and the count is one for the end the row says, less what the
  job that wrote it has yet to tell (`Told`).
- `EndTimesStay`: `GitHubSpec => StampKept`, from the same invariant: a job that brings
  a time had read the row without one, and still holds it alone.

The lemmas about `FirstRow` (`LeastRow`: a set of ids that is not empty has one least
element) come from the well-foundedness of the naturals; `FaceKept` says once what each
write of the table leaves as it was.

`Reviews_proofs`, for any set of PRs and any bounds, assuming that the bounds are
naturals and that `None` is not a row (`Bounds`, `NoneIsNoRow`):

- `QueueTyped`: `ReviewsSpec => []ReviewsTypeOK`, strengthened by `Busy` (a sync holds a
  row only while it has data for it) and `UserHas` (a request that is under way names a
  PR).
- `PinsSurvive`: `ReviewsSpec => []PinKept`. Not inductive: a sync writes a source it
  decided earlier. `PinSafely` says of each pinned review, not excused, that what either
  sync holds of it is a pinned source and that no prune is about to delete it.
- `RemovedStayOut`: `ReviewsSpec => []RemovedStaysOut`. `Gone` adds that no sync holds
  the review, that GitHub does not ask for it and that no request is about to write its
  state back.
- `QueueKept`: `GitHubSpec => []PinKept /\ []RemovedStaysOut`. The run `github` checks the
  two of the composed specification, in which the jobs for PRs run beside the syncs.

Every invariant and every action property that a run checks is a theorem, two of them
under a condition named with them: `ForeignKeys` for `RunsOfJobs`; a single editor and no
schedule that raises for `ArmedFollowsRows`.
Only model-checked: the liveness properties
(`DeadPaneReported`, `ResumeLeavesStarting`, `MirrorConverges`, `OutputShown`,
`OpenIsFresh`, `QueueFollows`, `QueueMirrored`): liveness under fairness is out of the
prover's reach.

## Not modelled

- Projects, actions, settings and repos: single-row reads and writes.
- Plugins, extensions and channels: discovery at import time; the one channel is a stub
  around Slack.
- The sessions of reviews, tickets and projects, which run the steps of `Sessions` over
  their own rows.
- Calls out: comments and reviews posted to GitHub, transitions, comments and triage of
  tickets.
- Certificates, system, search, worklog: reports over files, logs and the host.
- tmux's lookup of a target by prefix: a name stands for the session of that name.
- `eva-cli`'s own copy of the session map.

## Where the code and its words disagree

- **A relaunch keeps the other agent's conversation** (`sessions_agent`). `open_session`
  on an existing row whose pane is gone launches the agent chosen now and updates
  `agent_impl` only (`core/common/sessions.py:240`); the next resume hands the old id to
  the new agent, though `core/common/agent.py:247` says ids are "not interchangeable"
  and that a session is resumed with the agent that launched it.
- **A reader that names an id without a row is replayed nothing** (`event_resume`).
  `_replay_since` looks the `Last-Event-ID` up in the table (`core/routes/events.py:197`);
  most ids on the wire, those of `session.state`, have no row, and a reader whose last
  frame was one of them loses all rows written while it was away. The docstring says
  "replay every event the client missed while its TCP socket was down" (`:91`).
- **A Stop hook closes somebody else's run** (`cron_stop`). `finish_run_for_session`
  takes the latest open run of the job (`core/common/cron_jobs.py:227`); a new tick
  inserts its run before it tears the old session down, and after a rename it never
  does. The new run is then `done` before its agent runs, though `:215` says the time
  "reflects the moment the agent actually went idle".
- **One schedule that raises disarms the older jobs** (`cron_start`). `parse_schedule`
  lets `0 25 * * *` pass, `CronTrigger.from_crontab` raises, and the loop of
  `register_all` ends (`core/services/cron_runner.py:133`), though it "arms every
  enabled job" (`:13`).

Met on the way, without a run of their own:

- `POST /api/sessions/rebuild` starts the agent and writes no state
  (`core/routes/sessions.py:287`; `RebuildLaunch` in `Sessions`); the card stays stopped
  or crashed until the agent is prompted, while `core/routes/sessions.py:757` calls the
  cache "the single source of truth".
- `core/services/pr_sync_service.py:17` says that a refresh emits `github.pr.updated`;
  `_update_pr_from_gh` emits nothing.
- Two upserts of one ticket whose statements interleave leave two rows of it
  (`core/eva_db.py:2595`; the lock is held per statement and `ticket_id` is not unique),
  though `upsert_ticket` speaks of a row "keyed by ticket_id" (`:2579`).
- The fixer of a stale review session writes the row whose id the PR's url gives
  (`core/common/audit.py:733`): of a renamed review it repairs nothing, and takes the
  session of the row that has that id.
- `core/routes/terminal.py:420` argues that a snapshot tagged with the ring's last
  number neither repeats nor loses output; a reader that is behind the pane at that
  moment repeats it (`Behind` in `TerminalMux`).

## How to run

    tlc -config SessionsPair.cfg MCSessions.tla
    tlc -config CronJobs.cfg MCCronJobs.tla
    tlc -config EventStream.cfg MCEventStream.tla
    tlc -config TerminalMux.cfg MCTerminalMux.tla
    tlc -config TaskStore.cfg MCTaskStore.tla
    tlc -config GitHub.cfg MCGitHub.tla
    tlc -config Upkeep.cfg MCUpkeep.tla
    tlapm Sessions_proofs.tla
    tlapm CronJobs_proofs.tla
    tlapm Reviews_proofs.tla
    tlapm TerminalMux_proofs.tla
    tlapm TaskStore_proofs.tla

and `SessionsLife.cfg`, `SessionsAgent.cfg` with `MCSessions`, `EventResume.cfg` with `MCEventStream`,
`CronStop.cfg` and `CronStart.cfg` with `MCCronJobs`. The longest run takes a few
minutes.

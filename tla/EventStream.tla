----------------------------- MODULE EventStream -----------------------------
(***************************************************************************)
(* The event bus (app_state.emit_event), its server-sent event streams     *)
(* (routes/events.event_stream) and the browser's mirror of the session    *)
(* map (useEventBus.ts, SessionStatusProvider.tsx).                        *)
(*                                                                         *)
(* A thread that changes a session writes the map under a lock and emits   *)
(* after releasing it; emitting persists the event (not a session.state),  *)
(* and then walks the list of the streams' queues while the event loop     *)
(* adds and removes queues.  A stream first replays the map, then the rows *)
(* since the client's Last-Event-ID, then its queue.  eva-cli emits in a   *)
(* process of its own: it writes the row and asks the server to push.      *)
(***************************************************************************)
EXTENDS Integers, Sequences, FiniteSets, SequencesExt

CONSTANTS
  Names,       \* tmux sessions
  States,      \* what the map may say of one
  Absent,      \* no entry in the map
  Topics,      \* source_ids of GitHub events, which are deduplicated
  NoTopic,     \* an event of another source
  Writers,     \* server threads that emit
  Clients,     \* browsers, and other readers of the stream
  Resuming,    \* clients whose reconnect sends Last-Event-ID (not useEventBus.ts)
  QueueSize,   \* asyncio.Queue(maxsize=100)
  ReplayLimit, \* LIMIT 500
  MaxEvents,   \* bound on the events emitted
  MaxStreams,  \* bound on the connections made
  MaxCrashes   \* bound on the restarts of the server

ASSUME ValuesAssumption == Absent \notin States /\ NoTopic \notin Topics
ASSUME NamesAssumption == IsFiniteSet(Names)
ASSUME ClientsAssumption == Clients # {} /\ Resuming \subseteq Clients
ASSUME BoundsAssumption == /\ QueueSize \in Nat \ {0} /\ ReplayLimit \in Nat \ {0}
                           /\ MaxEvents \in Nat \ {0} /\ MaxStreams \in Nat /\ MaxCrashes \in Nat

VARIABLES
  cache,        \* [Names -> States \cup {Absent}]: session_state._states
  table,        \* the events table, a sequence of rows in rowid order
  thread,       \* [Writers -> Work]: an emit_event under way
  relays,       \* how many relays eva-cli is posting
  subscribers,  \* app_state._event_subscribers, a sequence of streams
  stream,       \* [Streams -> Stream]
  browser,      \* [Clients -> Browser]
  emitted,      \* how many events there were: an event's id
  opened,       \* how many streams there were
  crashes,      \* how often the server restarted
  skipped,      \* history: streams a push has passed over or found full
  raced         \* history: names two threads emitted at once

server   == <<cache, thread, subscribers, stream, opened>>
counters == <<emitted, opened, crashes>>
history  == <<skipped, raced>>
vars     == <<cache, table, thread, relays, subscribers, stream, browser, emitted,
            opened, crashes, skipped, raced>>

Ids      == 1 .. MaxEvents
Streams  == 1 .. MaxStreams
Map      == [Names -> States \cup {Absent}]
NoMap    == [n \in {} |-> Absent]
Row      == [id : Ids, topic : Topics \cup {NoTopic}, cli : BOOLEAN]

(* A frame of the stream: a session's state (Absent: session.removed), a   *)
(* notification, or the end of the snapshot.  A frame without id (a row of *)
(* the snapshot) leaves the browser's last id alone.                       *)
StateFrame == [kind : {"state"}, id : Ids \cup {0}, name : Names, to : States \cup {Absent}]
NoteFrame  == [kind : {"note"}, id : Ids]
EndFrame   == [kind |-> "end", id |-> 0]
Frame      == StateFrame \cup NoteFrame \cup {EndFrame}

(* `at`: index of the next queue to push to; `full`: the queues to remove. *)
Idle    == [step |-> "idle", frame |-> EndFrame, at |-> 1, full |-> {}]
Work    == [step : {"idle", "push"}, frame : Frame, at : Nat \ {0}, full : SUBSET Streams]
(* `last`: the Last-Event-ID, which may be of an event that has no row;    *)
(* `out`: frames of the snapshot or the replay still to send; `since`:     *)
(* history, how many rows there were when the stream was opened.           *)
Unopened == [client |-> CHOOSE c \in Clients : TRUE, phase |-> "unopened", last |-> 0,
             out |-> <<>>, queue |-> <<>>, since |-> 0]
Closed  == [Unopened EXCEPT !.phase = "closed"]
Stream  == [client : Clients,
            phase : {"unopened", "snapshot", "resume", "live", "closed"},
            last : Ids \cup {0}, out : Seq(Frame), queue : Seq(Frame), since : Nat]
(* `heard`: history, the notifications the browser was given.              *)
Browser == [on : Streams \cup {0}, mirror : Map, buffer : Map \cup {NoMap},
            buffering : BOOLEAN, last : Ids \cup {0}, heard : SUBSET Ids]

EmptyMap == [n \in Names |-> Absent]
Connected(k) == stream[k].phase \notin {"unopened", "closed"}
                /\ browser[stream[k].client].on = k

-----------------------------------------------------------------------------
(* common/session_state: the map                                           *)

Begin(w, frame) ==
  thread' = [thread EXCEPT ![w] = [step |-> "push", frame |-> frame, at |-> 1, full |-> {}]]

Telling(w, n) == thread[w].step = "push" /\ thread[w].frame.kind = "state"
                 /\ thread[w].frame.name = n

(* set_state and remove: the map under the lock, then emit_event with      *)
(* persist=False outside it.  remove emits only when there was an entry.   *)
SetState(w, n, to) ==
  /\ thread[w].step = "idle" /\ emitted < MaxEvents
  /\ to = Absent => cache[n] # Absent
  /\ cache' = [cache EXCEPT ![n] = to]
  /\ emitted' = emitted + 1
  /\ Begin(w, [kind |-> "state", id |-> emitted', name |-> n, to |-> to])
  /\ raced' = IF \E v \in Writers : Telling(v, n) THEN raced \cup {n} ELSE raced
  /\ UNCHANGED <<table, relays, subscribers, stream, browser, opened, crashes, skipped>>

-----------------------------------------------------------------------------
(* app_state.emit_event                                                    *)

Recorded(id, topic, cli) == [id |-> id, topic |-> topic, cli |-> cli]
SameTopic(topic) == {i \in DOMAIN table : topic # NoTopic /\ table[i].topic = topic}

(* The row: an event of a known source_id updates its row, which keeps its *)
(* place, and goes out under the id of that row.                           *)
Notify(w, topic) ==
  LET same == SameTopic(topic)
      id   == IF same = {} THEN emitted' ELSE table[CHOOSE i \in same : TRUE].id
  IN /\ thread[w].step = "idle" /\ emitted < MaxEvents
     /\ emitted' = emitted + 1
     /\ table' = IF same = {} THEN Append(table, Recorded(id, topic, FALSE)) ELSE table
     /\ Begin(w, [kind |-> "note", id |-> id])
     /\ UNCHANGED <<cache, relays, subscribers, stream, browser, opened, crashes, history>>

(* sqlite3.Error: printed, and the event goes out without a row.           *)
NotifyUnrecorded(w) ==
  /\ thread[w].step = "idle" /\ emitted < MaxEvents
  /\ emitted' = emitted + 1
  /\ Begin(w, [kind |-> "note", id |-> emitted'])
  /\ UNCHANGED <<cache, table, relays, subscribers, stream, browser, opened, crashes, history>>

AnyRoom(k) == TRUE   \* mutant: the queue has no limit
Room(k) == Len(stream[k].queue) < QueueSize

(* One turn of `for q in _event_subscribers`: an iterator over a list goes *)
(* by index, whatever was appended to or removed from the list meanwhile.  *)
PushOne(w) ==
  LET t == thread[w]
      k == subscribers[t.at]
  IN /\ t.step = "push" /\ t.at <= Len(subscribers)
     /\ IF Room(k)
        THEN /\ stream' = [stream EXCEPT ![k].queue = Append(@, t.frame)]
             /\ thread' = [thread EXCEPT ![w].at = @ + 1]
             /\ skipped' = skipped
        ELSE /\ stream' = stream
             /\ thread' = [thread EXCEPT ![w].at = @ + 1, ![w].full = @ \cup {k}]
             /\ skipped' = skipped \cup {k}
     /\ UNCHANGED <<cache, table, relays, subscribers, browser, counters, raced>>

IndexIn(seq, k) == CHOOSE i \in DOMAIN seq : seq[i] = k
(* Streams that an iterator standing at t.at no longer meets when the list *)
(* becomes `after`.                                                        *)
PassedOver(after) ==
  UNION {{k \in Range(after) : IndexIn(subscribers, k) >= thread[w].at
                               /\ IndexIn(after, k) < thread[w].at} :
         w \in {v \in Writers : thread[v].step = "push"}}

(* list.remove.                                                            *)
Without(seq, gone) ==
  LET kept == {i \in DOMAIN seq : seq[i] \notin gone}
  IN [j \in 1 .. Cardinality(kept) |->
        seq[CHOOSE i \in kept : Cardinality({l \in kept : l <= i}) = j]]

(* The full queues leave the list.  Their streams are not told.            *)
PushEnds(w) ==
  /\ thread[w].step = "push" /\ thread[w].at > Len(subscribers)
  /\ subscribers' = Without(subscribers, thread[w].full)
  /\ thread' = [thread EXCEPT ![w] = Idle]
  /\ skipped' = skipped \cup PassedOver(subscribers')
  /\ UNCHANGED <<cache, table, relays, stream, browser, counters, raced>>

-----------------------------------------------------------------------------
(* eva-cli: the same emit_event in another process                         *)

CliNotify ==
  /\ emitted < MaxEvents
  /\ emitted' = emitted + 1
  /\ table' = Append(table, Recorded(emitted', NoTopic, TRUE))
  /\ relays' = relays + 1
  /\ UNCHANGED <<server, browser, crashes, history>>

(* POST /api/internal/emit-relay emits again with persist=False, under a   *)
(* new id that no row has.                                                 *)
RelayArrives(w) ==
  /\ thread[w].step = "idle" /\ emitted < MaxEvents
  /\ relays > 0 /\ relays' = relays - 1
  /\ emitted' = emitted + 1
  /\ Begin(w, [kind |-> "note", id |-> emitted'])
  /\ UNCHANGED <<cache, table, subscribers, stream, browser, opened, crashes, history>>

(* The server is down, or slower than 2 s.                                 *)
RelayLost ==
  /\ relays > 0 /\ relays' = relays - 1
  /\ UNCHANGED <<server, table, browser, emitted, crashes, history>>

-----------------------------------------------------------------------------
(* routes/events: the streams                                              *)

(* The queue joins the list before the first frame is made.                *)
Connect(c) ==
  /\ browser[c].on = 0 /\ opened < MaxStreams
  /\ opened' = opened + 1
  /\ subscribers' = Append(subscribers, opened')
  /\ stream' = [stream EXCEPT ![opened'] =
                  [Unopened EXCEPT !.client = c, !.phase = "snapshot",
                     !.last = IF c \in Resuming THEN browser[c].last ELSE 0,
                     !.since = Len(table)]]
  /\ browser' = [browser EXCEPT ![c].on = opened']
  /\ UNCHANGED <<cache, table, thread, relays, emitted, crashes, history>>

(* session_state.all_states is copied once; its rows go out one by one.    *)
StateRow(n)  == [kind |-> "state", id |-> 0, name |-> n, to |-> cache[n]]
SnapshotRows == [i \in 1 .. Cardinality({n \in Names : cache[n] # Absent}) |->
                   StateRow(SetToSeq({n \in Names : cache[n] # Absent})[i])]
AfterSnapshot(k) == IF stream[k].last = 0 THEN "live" ELSE "resume"
SnapshotUnended(k) ==   \* mutant: the end of the snapshot is not sent
  /\ Connected(k) /\ stream[k].phase = "snapshot"
  /\ stream' = [stream EXCEPT ![k].phase = AfterSnapshot(k), ![k].out = SnapshotRows]
  /\ browser' = [browser EXCEPT ![stream[k].client].buffer = EmptyMap,
                                ![stream[k].client].buffering = TRUE]
  /\ UNCHANGED <<cache, table, thread, relays, subscribers, counters, history>>
Snapshot(k) ==
  /\ Connected(k) /\ stream[k].phase = "snapshot"
  /\ stream' = [stream EXCEPT ![k].phase = AfterSnapshot(k), ![k].out = SnapshotRows \o <<EndFrame>>]
  /\ browser' = [browser EXCEPT ![stream[k].client].buffer = EmptyMap,
                                ![stream[k].client].buffering = TRUE]
  /\ UNCHANGED <<cache, table, thread, relays, subscribers, counters, history>>

(* The handlers of SessionStatusProvider: while a snapshot is coming in,   *)
(* states go to the buffer; its end replaces the mirror.                   *)
ReceivedUnbuffered(b, f) ==   \* mutant: the rows of a snapshot patch the mirror
  CASE f.kind = "end"   -> [b EXCEPT !.mirror = b.buffer, !.buffer = NoMap, !.buffering = FALSE]
    [] f.kind = "note"  -> [b EXCEPT !.heard = @ \cup {f.id}]
    [] f.kind = "state" -> [b EXCEPT !.mirror[f.name] = f.to]
Received(b, f) ==
  LET known == IF f.id = 0 THEN b ELSE [b EXCEPT !.last = f.id]
  IN CASE f.kind = "end"   -> [known EXCEPT !.mirror = b.buffer, !.buffer = NoMap,
                                            !.buffering = FALSE]
       [] f.kind = "note"  -> [known EXCEPT !.heard = @ \cup {f.id}]
       [] f.kind = "state" -> IF b.buffering THEN [known EXCEPT !.buffer[f.name] = f.to]
                                             ELSE [known EXCEPT !.mirror[f.name] = f.to]

Receive(k, f) ==
  browser' = [browser EXCEPT ![stream[k].client] = Received(@, f)]

(* A frame of the snapshot or of the replay.                               *)
SendOne(k) ==
  /\ Connected(k) /\ stream[k].out # <<>>
  /\ Receive(k, Head(stream[k].out))
  /\ stream' = [stream EXCEPT ![k].out = Tail(@)]
  /\ UNCHANGED <<cache, table, thread, relays, subscribers, counters, history>>

Smaller(a, b) == IF a < b THEN a ELSE b
Pivot(id) == {i \in DOMAIN table : table[i].id = id}
NoteOf(i) == [kind |-> "note", id |-> table[i].id]
(* _replay_since: the rows after the one the client names, oldest first,   *)
(* ReplayLimit of them; nothing when there is no such row, as for the id   *)
(* of a session's state, of a relay, or of an event that got no row.       *)
ReplaySkipsOne(id) ==   \* mutant: starts one row late
  IF Pivot(id) = {} THEN <<>>
  ELSE LET p == 1 + CHOOSE i \in Pivot(id) : TRUE
       IN [j \in 1 .. Smaller(Len(table) - p, ReplayLimit) |-> NoteOf(p + j)]
ReplaySince(id) ==
  IF Pivot(id) = {} THEN <<>>
  ELSE LET p == CHOOSE i \in Pivot(id) : TRUE
       IN [j \in 1 .. Smaller(Len(table) - p, ReplayLimit) |-> NoteOf(p + j)]

Replay(k) ==
  /\ Connected(k) /\ stream[k].phase = "resume" /\ stream[k].out = <<>>
  /\ stream' = [stream EXCEPT ![k].phase = "live", ![k].out = ReplaySince(stream[k].last)]
  /\ UNCHANGED <<cache, table, thread, relays, subscribers, browser, counters, history>>

(* The loop over the queue (a keepalive changes nothing).                  *)
SendLive(k) ==
  /\ Connected(k) /\ stream[k].phase = "live" /\ stream[k].out = <<>>
  /\ stream[k].queue # <<>>
  /\ Receive(k, Head(stream[k].queue))
  /\ stream' = [stream EXCEPT ![k].queue = Tail(@)]
  /\ UNCHANGED <<cache, table, thread, relays, subscribers, counters, history>>

(* The connection breaks: useEventBus closes the EventSource and makes a   *)
(* new one 3 s later.  The mirror stays, and so does an unfinished buffer. *)
Disconnect(c) ==
  /\ browser[c].on # 0
  /\ browser' = [browser EXCEPT ![c].on = 0]
  /\ UNCHANGED <<server, table, relays, emitted, crashes, history>>

(* The server notices later: the generator's `finally` removes the queue.  *)
StreamEnds(k) ==
  /\ stream[k].phase \notin {"unopened", "closed"} /\ ~Connected(k)
  /\ stream' = [stream EXCEPT ![k] = Closed]
  /\ subscribers' = Without(subscribers, {k})
  /\ skipped' = skipped \cup PassedOver(subscribers')
  /\ UNCHANGED <<cache, table, thread, relays, browser, counters, raced>>

-----------------------------------------------------------------------------
(* A restart: the map is rebuilt from tmux, quietly; streams and threads   *)
(* are gone, and so are what they had not sent.                            *)
Restart ==
  /\ crashes < MaxCrashes
  /\ crashes' = crashes + 1
  /\ cache' \in Map
  /\ thread' = [w \in Writers |-> Idle]
  /\ subscribers' = <<>>
  /\ stream' = [k \in Streams |-> IF k > opened THEN Unopened ELSE Closed]
  /\ browser' = [c \in Clients |-> [browser[c] EXCEPT !.on = 0]]
  /\ UNCHANGED <<table, relays, emitted, opened, history>>

(* A server that has just started over an events table of one row, which   *)
(* a client may have seen.                                                 *)
Init ==
  /\ cache = EmptyMap
  /\ table = <<Recorded(1, NoTopic, FALSE)>> /\ relays = 0 /\ subscribers = <<>>
  /\ thread = [w \in Writers |-> Idle]
  /\ stream = [k \in Streams |-> Unopened]
  /\ browser \in [Clients -> {[on |-> 0, mirror |-> EmptyMap, buffer |-> NoMap, buffering |-> FALSE,
                               last |-> e, heard |-> {}] : e \in {0, 1}}]
  /\ emitted = 1 /\ opened = 0 /\ crashes = 0 /\ skipped = {} /\ raced = {}

Emitting(w) == PushOne(w) \/ PushEnds(w)
Streaming(k) == Snapshot(k) \/ SendOne(k) \/ Replay(k) \/ SendLive(k)

Next ==
  \/ \E w \in Writers :
       \/ \E n \in Names, to \in States \cup {Absent} : SetState(w, n, to)
       \/ \E topic \in Topics \cup {NoTopic} : Notify(w, topic)
       \/ NotifyUnrecorded(w) \/ RelayArrives(w) \/ Emitting(w)
  \/ CliNotify \/ RelayLost
  \/ \E c \in Clients : Connect(c) \/ Disconnect(c)
  \/ \E k \in Streams : Streaming(k) \/ StreamEnds(k)
  \/ Restart

(* Threads run on, the event loop serves its streams, and the browser's    *)
(* timer reconnects.                                                       *)
Spec ==
  /\ Init /\ [][Next]_vars
  /\ \A w \in Writers : WF_vars(Emitting(w))
  /\ \A k \in Streams : WF_vars(Streaming(k))
  /\ \A c \in Clients : WF_vars(Connect(c))

-----------------------------------------------------------------------------
(* Properties                                                              *)

(* Types; a queue never holds more than its limit.                         *)
TypeOK ==
  /\ cache \in Map /\ table \in Seq(Row) /\ relays \in Nat
  /\ thread \in [Writers -> Work]
  /\ subscribers \in Seq(Streams) /\ IsInjective(subscribers)
  /\ stream \in [Streams -> Stream]
  /\ \A k \in Streams : Len(stream[k].queue) <= QueueSize
  /\ browser \in [Clients -> Browser]
  /\ emitted \in 0 .. MaxEvents /\ opened \in 0 .. MaxStreams /\ crashes \in 0 .. MaxCrashes
  /\ skipped \subseteq Streams /\ raced \subseteq Names

(* Frames that threads in the middle of a push will still bring to k.      *)
Coming(k) ==
  {thread[w].frame : w \in {v \in Writers : /\ thread[v].step = "push"
                                            /\ k \in Range(subscribers)
                                            /\ thread[v].at <= IndexIn(subscribers, k)}}
Following(k) == Connected(k) /\ k \notin skipped
Tells(f, n)  == f.kind = "state" /\ f.name = n
(* What the mirror will say of n once all of that has arrived: the last    *)
(* state on its way, or what the snapshot brought or the mirror says.  A   *)
(* snapshot that has begun and has no end on its way leaves nothing.       *)
Foreseen(k, n) ==
  LET b      == browser[stream[k].client]
      all    == stream[k].out \o stream[k].queue
      told   == {i \in DOMAIN all : Tells(all[i], n)}
      coming == {f \in Coming(k) : Tells(f, n)}
  IN IF b.buffering # (\E i \in DOMAIN all : all[i].kind = "end") THEN {}
     ELSE IF coming # {} THEN {f.to : f \in coming}
     ELSE IF told # {} THEN {all[i].to : i \in {j \in told : \A l \in told : l <= j}}
     ELSE {IF b.buffering THEN b.buffer[n] ELSE b.mirror[n]}

(* A browser that has its snapshot on the way misses nothing: with what is *)
(* still in the stream, in its queue and in the hands of a pushing thread, *)
(* its mirror will be the server's map.  Not so for a session that two     *)
(* threads told of at once (they emit outside the lock), nor for a stream  *)
(* that a push has passed over or found full.                              *)
NothingMissed ==
  \A k \in Streams : Following(k) /\ stream[k].phase # "snapshot" =>
    \A n \in Names \ raced : Foreseen(k, n) = {cache[n]}

(* A row the reader of k was given, or will be: it heard the note, or the  *)
(* note is in the replay, in the queue or in the hands of a thread.        *)
Delivered(k, i) ==
  \/ table[i].id \in browser[stream[k].client].heard
  \/ NoteOf(i) \in Range(stream[k].out) \cup Range(stream[k].queue) \cup Coming(k)
(* What the code gives a reader: the rows written since it connected, and, *)
(* once the replay is made, ReplayLimit rows after the one it named -- if  *)
(* the id it named has a row.                                              *)
Owed(k, i) ==
  \/ stream[k].since < i
  \/ /\ stream[k].phase = "live"
     /\ \E p \in Pivot(stream[k].last) : p < i /\ i <= p + ReplayLimit

(* No row falls between the replay and the queue: whichever of the two it  *)
(* belongs to, the reader is given it.  Not so a row of eva-cli's, which   *)
(* reaches the queues only if its relay arrives.                           *)
ResumeHasNoGap ==
  \A k \in Streams : Following(k) => \A i \in DOMAIN table :
    Owed(k, i) => table[i].cli \/ Delivered(k, i)

(* What event_stream says of a reconnect: a client that names the last     *)
(* frame it got is replayed every event it missed -- the rows of events    *)
(* later than that frame, as many as the limit lets through.               *)
LaterRows(id, i) == {j \in DOMAIN table : id < table[j].id /\ j <= i}
MissedIsReplayed ==
  \A k \in Streams : Following(k) /\ stream[k].phase = "live" /\ stream[k].last # 0 =>
    \A i \in DOMAIN table :
      i \in LaterRows(stream[k].last, i) /\ Cardinality(LaterRows(stream[k].last, i)) <= ReplayLimit
        => table[i].cli \/ Delivered(k, i)

(* The mirror comes to agree with the map, and stays so once the map does. *)
MirrorConverges ==
  \A c \in Clients, n \in Names :
    <>[](\/ browser[c].on \in skipped \cup {0} \/ n \in raced
         \/ browser[c].mirror[n] = cache[n])

=============================================================================

---------------------------- MODULE TerminalMux ----------------------------
(***************************************************************************)
(* Terminals in the browser: the PTYs attached to tmux (pty_manager), the  *)
(* reader task, ring and multiplexed stream of routes/terminal.py, and     *)
(* terminalMux.ts in each tab.                                             *)
(*                                                                         *)
(* A pane's output is counted.  One read of a PTY takes all it holds, so a *)
(* chunk is an interval (from, to] of that count; `full` chunks (tmux's    *)
(* redraw of a new attachment, a snapshot) paint `to` from scratch.  A tab *)
(* that writes a chunk which does not begin where its screen ends has a    *)
(* Torn screen.  A handler without an await is one action of the loop.     *)
(***************************************************************************)
EXTENDS Integers, Sequences, FiniteSets

CONSTANTS
  Names,       \* tmux sessions
  Clients,     \* browser tabs
  Torn,        \* a screen with a piece missing or written twice
  Detached,    \* the value of TerminalView for a terminal that shows nothing
  QueueSize,   \* _MAX_LIVE_FRAMES
  RingCap,     \* _RING_BYTES_CAP, in chunks
  MaxOutput,   \* bound on the output of a pane
  MaxStreams,  \* bound on the streams opened
  MaxMounts,   \* bound on the terminals opened in tabs
  MaxFaults    \* bound on attachments and panes that end and on restarts, together

ASSUME TornAssumption == Torn \notin Nat /\ Detached \notin Nat /\ Torn # Detached
ASSUME BoundsAssumption ==
  /\ QueueSize \in Nat \ {0} /\ RingCap \in Nat \ {0} /\ MaxOutput \in Nat
  /\ MaxStreams \in Nat /\ MaxMounts \in Nat /\ MaxFaults \in Nat

VARIABLES
  pane,     \* [Names -> [up, out]]: the tmux pane and how much it has written
  pty,      \* [Names -> Pty]: pty_manager.sessions
  reader,   \* [Names -> Reader]: _session_readers
  ring,     \* [Names -> Ring]: _session_rings
  stream,   \* [1..MaxStreams -> Stream]: _clients, keyed by client_id
  tab,      \* [Clients -> Tab]: the TerminalMux of a browser tab
  term,     \* [Clients -> [Names -> Term]]: its maps and the xterm
  posts,    \* requests and responses on their way
  opened,   \* how many streams there were
  mounts, faults, restarts,
  excused   \* history: terminals that lost output in a way listed below

server == <<pty, reader, ring, stream, opened>>
counts == <<opened, mounts, faults, restarts>>
vars   == <<pane, pty, reader, ring, stream, tab, term, posts, opened, mounts, faults,
            restarts, excused>>

Count     == 0 .. MaxOutput
Streams   == 1 .. MaxStreams
Terminals == Clients \X Names
Chunk     == [full : BOOLEAN, from : Count, to : Count]
NoChunk   == [full |-> FALSE, from |-> 0, to |-> 0]
(* `hung`: the attached tmux client is gone, which only a read notices.    *)
Pty       == [state : {"none", "open", "hung", "dead"}, fed : Count, read : Count, redraw : BOOLEAN]
NoPty     == [state |-> "none", fed |-> 0, read |-> 0, redraw |-> FALSE]
(* `got`: the executor has returned, the loop has not yet resumed the task.*)
Reader    == [step : {"none", "reading", "got"}, chunk : Chunk]
NoReader  == [step |-> "none", chunk |-> NoChunk]
Ring      == [chunks : Seq([seq : Nat, chunk : Chunk]), next : Nat \ {0}]
NoRing    == [chunks |-> <<>>, next |-> 1]
Frame     == [name : Names, seq : Nat, chunk : Chunk]
Stream    == [open : BOOLEAN, subs : SUBSET Names, queue : Seq(Frame)]
NoStream  == [open |-> FALSE, subs |-> {}, queue |-> <<>>]
(* `on`: the EventSource's connection; `id`: clientId, known after hello.  *)
Tab       == [used : BOOLEAN, on : Streams \cup {0}, id : Streams \cup {0}]
(* History: `life`, the restarts there had been when `last` was received,  *)
(* and `before`, the terminal was opened in this tab before.               *)
Term      == [mounted : BOOLEAN, pending : BOOLEAN, active : BOOLEAN, last : Nat,
              view : Count \cup {Torn}, life : Nat, before : BOOLEAN]
NoTerm    == [mounted |-> FALSE, pending |-> FALSE, active |-> FALSE, last |-> 0,
              view |-> 0, life |-> 0, before |-> FALSE]
Post      == [kind : {"sub", "unsub"}, client : Clients, name : Names,
              id : Streams, since : Nat, life : Nat] \cup
             [kind : {"subok", "unsubok"}, client : Clients, name : Names,
              id : {0}, since : {0}, life : {0}]

-----------------------------------------------------------------------------
(* tmux and its attachments                                                *)

Fed(n) == [pty EXCEPT ![n].fed = IF pty[n].state = "open" THEN pane[n].out + 1 ELSE @]

Output(n) ==
  /\ pane[n].up /\ pane[n].out < MaxOutput
  /\ pane' = [pane EXCEPT ![n].out = @ + 1]
  /\ pty' = Fed(n)
  /\ UNCHANGED <<reader, ring, stream, tab, term, posts, counts, excused>>

(* Input is echoed (POST input, through the PTY; message and scroll go to  *)
(* tmux directly); a write to a PTY whose client is gone marks it dead.    *)
Input(n) ==
  /\ pty[n].state = "open" /\ Output(n)
InputFails(n) ==
  /\ pty[n].state = "hung"
  /\ pty' = [pty EXCEPT ![n].state = "dead"]
  /\ UNCHANGED <<pane, reader, ring, stream, tab, term, posts, counts, excused>>

Hung(p) == [p EXCEPT !.state = IF @ = "open" THEN "hung" ELSE @]

(* The attachment ends (detached, killed) while the pane goes on.          *)
AttachmentEnds(n) ==
  /\ pty[n].state = "open" /\ faults + restarts < MaxFaults
  /\ faults' = faults + 1
  /\ pty' = [pty EXCEPT ![n] = Hung(@)]
  /\ UNCHANGED <<pane, reader, ring, stream, tab, term, posts, opened, mounts, restarts, excused>>

PaneEnds(n) ==
  /\ pane[n].up /\ faults + restarts < MaxFaults
  /\ faults' = faults + 1
  /\ pane' = [pane EXCEPT ![n].up = FALSE]
  /\ pty' = [pty EXCEPT ![n] = Hung(@)]
  /\ UNCHANGED <<reader, ring, stream, tab, term, posts, opened, mounts, restarts, excused>>

(* stop or delete of the session: routes/sessions calls pty_manager.remove *)
(* after killing the pane.  A reader keeps the object it started with.     *)
Remove_(n) ==
  /\ pty[n].state # "none" /\ ~pane[n].up
  /\ pty' = [pty EXCEPT ![n].state = IF reader[n].step = "none" THEN "none" ELSE "dead"]
  /\ UNCHANGED <<pane, reader, ring, stream, tab, term, posts, counts, excused>>

(* The same name runs again: a new pane, whose screen is something else.   *)
PaneReturns(n) ==
  /\ ~pane[n].up /\ pane[n].out < MaxOutput
  /\ pane' = [pane EXCEPT ![n] = [up |-> TRUE, out |-> @.out + 1]]
  /\ UNCHANGED <<server, tab, term, posts, mounts, faults, restarts, excused>>

-----------------------------------------------------------------------------
(* The queues                                                              *)

(* _push_frame, for one frame after the other: a full queue gives up its   *)
(* oldest frame, of whatever name.                                         *)
Excess(all) == IF Len(all) > QueueSize THEN Len(all) - QueueSize ELSE 0
PushUnbounded(queue, frames) == queue \o frames   \* mutant: no limit
Push(queue, frames) ==
  LET all == queue \o frames IN SubSeq(all, Excess(all) + 1, Len(all))
(* The names of which pushing these frames gives up one.                   *)
GivenUp(queue, frames) ==
  LET all == queue \o frames IN {all[i].name : i \in 1 .. Excess(all)}

Owner(k) == {c \in Clients : tab[c].on = k}

-----------------------------------------------------------------------------
(* The reader task                                                         *)

(* ps.read in the executor.  The object may die meanwhile.                 *)
Read(n) ==
  LET p == pty[n] IN
  /\ reader[n].step = "reading" /\ p.state \in {"open", "hung"}
  /\ p.redraw \/ p.read < p.fed
  /\ reader' = [reader EXCEPT ![n] =
                  [step |-> "got", chunk |-> [full |-> p.redraw, from |-> p.read, to |-> p.fed]]]
  /\ pty' = [pty EXCEPT ![n].read = p.fed, ![n].redraw = FALSE]
  /\ UNCHANGED <<pane, ring, stream, tab, term, posts, counts, excused>>

ReadFails(n) ==
  /\ reader[n].step = "reading" /\ pty[n].state = "hung"
  /\ pty' = [pty EXCEPT ![n].state = "dead"]
  /\ UNCHANGED <<pane, reader, ring, stream, tab, term, posts, counts, excused>>

(* _ring_append: the oldest chunks go until the rest fits.                 *)
Kept(chunks) == IF Len(chunks) > RingCap THEN Tail(chunks) ELSE chunks
Appended(r, chunk) ==
  [chunks |-> Kept(Append(r.chunks, [seq |-> r.next, chunk |-> chunk])), next |-> r.next + 1]

FrameOf(n, entry) == [name |-> n, seq |-> entry.seq, chunk |-> entry.chunk]

SpreadToRing(n) ==   \* mutant: subscribers are not pushed to
  /\ reader[n].step = "got"
  /\ ring' = [ring EXCEPT ![n] = Appended(@, reader[n].chunk)]
  /\ reader' = [reader EXCEPT ![n] = [step |-> "reading", chunk |-> NoChunk]]
  /\ UNCHANGED <<pane, pty, stream, tab, term, posts, counts, excused>>
(* The task resumes: append to the ring, push to every subscriber.  It did *)
(* not look at `alive` since the read.                                     *)
Spread(n) ==
  LET frame == [name |-> n, seq |-> ring[n].next, chunk |-> reader[n].chunk]
      fan   == {k \in Streams : n \in stream[k].subs}
  IN /\ reader[n].step = "got"
     /\ ring' = [ring EXCEPT ![n] = Appended(@, reader[n].chunk)]
     /\ stream' = [k \in Streams |->
                     IF k \in fan THEN [stream[k] EXCEPT !.queue = Push(@, <<frame>>)] ELSE stream[k]]
     /\ excused' = excused \cup
          UNION {Owner(k) \X GivenUp(stream[k].queue, <<frame>>) : k \in fan}
     /\ reader' = [reader EXCEPT ![n] = [step |-> "reading", chunk |-> NoChunk]]
     /\ UNCHANGED <<pane, pty, tab, term, posts, counts>>

(* `while ps.alive` is over.  Nobody tells the subscribers.                *)
ReaderEnds(n) ==
  /\ reader[n].step = "reading" /\ pty[n].state = "dead"
  /\ reader' = [reader EXCEPT ![n] = NoReader]
  /\ UNCHANGED <<pane, pty, ring, stream, tab, term, posts, counts, excused>>

-----------------------------------------------------------------------------
(* The routes                                                              *)

(* get_or_create: a dead PTY is replaced, a hung one is not.  The new      *)
(* attachment is given the pane's screen.                                  *)
Attached(n) ==
  IF pty[n].state \in {"open", "hung"} THEN pty[n]
  ELSE [state |-> "open", fed |-> pane[n].out, read |-> pane[n].out, redraw |-> TRUE]

(* _ring_since.  since = 0 is not asked.                                   *)
ReachesAlways(n, since) ==   \* mutant: a ring that rolled past `since` serves what it has
  since # 0 /\ ring[n].chunks # <<>>
Reaches(n, since) ==
  since # 0 /\ ring[n].chunks # <<>> /\ since >= ring[n].chunks[1].seq - 1
Frames(n) == [i \in DOMAIN ring[n].chunks |-> FrameOf(n, ring[n].chunks[i])]
SinceInclusive(n, since) ==   \* mutant: the chunk last seen comes once more
  LET old == {i \in DOMAIN Frames(n) : Frames(n)[i].seq < since}
  IN SubSeq(Frames(n), Cardinality(old) + 1, Len(Frames(n)))
Since(n, since) ==
  LET old == {i \in DOMAIN Frames(n) : Frames(n)[i].seq <= since}
  IN SubSeq(Frames(n), Cardinality(old) + 1, Len(Frames(n)))

(* The pane's content, tagged with the last seq of the ring.               *)
SnapshotOf(n) == [name |-> n, seq |-> ring[n].next - 1,
                  chunk |-> [full |-> TRUE, from |-> pane[n].out, to |-> pane[n].out]]

(* The snapshot shows output that the reader will bring once more, or that *)
(* a reader which is about to end has not brought.                         *)
Behind(n) ==
  /\ reader[n].step # "none"
  /\ \/ reader[n].step = "got" \/ pty[n].state # "open"
     \/ pty[n].read < pane[n].out /\ ~pty[n].redraw

(* Something else of the terminal is on its way, or came after the post.   *)
Mixed(c, n, post) ==
  \/ post.since # term[c][n].last
  \/ \E p \in posts \ {post} : p.client = c /\ p.name = n
  \/ \E i \in DOMAIN stream[post.id].queue : stream[post.id].queue[i].name = n

(* POST subscribe, for a known client and a pane that is up.  `captured`:  *)
(* whether tmux capture-pane answers.                                      *)
Subscribe(post, captured) ==
  LET k      == post.id
      n      == post.name
      delta  == Reaches(n, post.since)
      frames == IF delta THEN Since(n, post.since)
                ELSE IF captured THEN <<SnapshotOf(n)>> ELSE <<>>
      spoilt == \/ delta /\ (post.life # restarts \/ n \in stream[k].subs)
                \/ ~delta /\ (~captured \/ Behind(n))
      dropped == Owner(k) \X (GivenUp(stream[k].queue, frames) \cup (IF spoilt THEN {n} ELSE {}))
      renewed == {t \in Owner(k) \X {n} : ~delta /\ ~spoilt /\ ~Mixed(t[1], n, post)}
  IN /\ stream' = IF Owner(k) = {} THEN stream
                  ELSE [stream EXCEPT ![k].subs = @ \cup {n}, ![k].queue = Push(@, frames)]
     /\ pty' = IF reader[n].step = "none" THEN [pty EXCEPT ![n] = Attached(n)] ELSE pty
     /\ reader' = IF reader[n].step = "none" THEN [reader EXCEPT ![n].step = "reading"] ELSE reader
     /\ excused' = (excused \cup dropped) \ renewed

Send(messages) == posts' = messages
Answer(post, kind) ==
  [kind |-> kind, client |-> post.client, name |-> post.name, id |-> 0, since |-> 0, life |-> 0]

HandleSubscribe(post, captured) ==
  /\ post.kind = "sub" /\ stream[post.id].open /\ pane[post.name].up
  /\ Subscribe(post, captured)
  /\ Send((posts \ {post}) \cup {Answer(post, "subok")})
  /\ UNCHANGED <<pane, ring, tab, term, counts>>

(* 404: unknown client_id, or no such session.                             *)
RefuseSubscribe(post) ==
  /\ post.kind = "sub"
  /\ ~stream[post.id].open \/ ~pane[post.name].up \/ Owner(post.id) = {}
  /\ Send(posts \ {post})
  /\ UNCHANGED <<pane, server, tab, term, mounts, faults, restarts, excused>>

(* _unsubscribe; what is queued stays queued.                              *)
HandleUnsubscribe(post) ==
  /\ post.kind = "unsub"
  /\ stream' = [stream EXCEPT ![post.id].subs = @ \ {post.name}]
  /\ Send((posts \ {post}) \cup {Answer(post, "unsubok")})
  /\ UNCHANGED <<pane, pty, reader, ring, tab, term, counts, excused>>

(* Everything the server had is in memory.  tmux runs on; requests fail.   *)
Restart ==
  /\ faults + restarts < MaxFaults /\ restarts' = restarts + 1
  /\ pty' = [n \in Names |-> NoPty] /\ reader' = [n \in Names |-> NoReader]
  /\ ring' = [n \in Names |-> NoRing] /\ stream' = [k \in Streams |-> NoStream]
  /\ Send({})
  /\ UNCHANGED <<pane, tab, term, opened, mounts, faults, excused>>

-----------------------------------------------------------------------------
(* The tab: terminalMux.ts                                                 *)

Request(kind, c, n) ==
  [kind |-> kind, client |-> c, name |-> n, id |-> tab[c].id,
   since |-> IF kind = "sub" THEN term[c][n].last ELSE 0, life |-> term[c][n].life]

Connect(c) ==
  /\ tab[c].used /\ tab[c].on = 0 /\ opened < MaxStreams
  /\ opened' = opened + 1
  /\ stream' = [stream EXCEPT ![opened'].open = TRUE]
  /\ tab' = [tab EXCEPT ![c].on = opened']
  /\ UNCHANGED <<pane, pty, reader, ring, term, posts, mounts, faults, restarts, excused>>

(* The first event names the client and sends what was pending.            *)
Hello(c) ==
  /\ tab[c].on # 0 /\ tab[c].id # tab[c].on /\ stream[tab[c].on].open
  /\ tab' = [tab EXCEPT ![c].id = tab[c].on]
  /\ Send(posts \cup {[Request("sub", c, n) EXCEPT !.id = tab[c].on] :
                      n \in {m \in Names : term[c][m].pending}})
  /\ UNCHANGED <<pane, server, term, mounts, faults, restarts, excused>>

(* onerror: the active subscriptions become pending again.  The server's   *)
(* generator is cancelled (_drop_client) by then or later: whether it yet  *)
(* knows the client is left open, what it queues for it has no effect.     *)
Again(t) == [t EXCEPT !.pending = t.pending \/ t.active, !.active = FALSE]
Disconnect(c) ==
  /\ tab[c].on # 0
  /\ stream' = [stream EXCEPT ![tab[c].on].subs = {}, ![tab[c].on].queue = <<>>]
  /\ tab' = [tab EXCEPT ![c].on = 0, ![c].id = 0]
  /\ term' = [term EXCEPT ![c] = [n \in Names |-> Again(term[c][n])]]
  /\ UNCHANGED <<pane, pty, reader, ring, opened, posts, mounts, faults, restarts, excused>>

(* subscribe(), with a new xterm.  `last` is what an earlier one left.     *)
Mount(c, n) ==
  /\ ~term[c][n].mounted /\ mounts < MaxMounts
  /\ mounts' = mounts + 1
  /\ tab' = [tab EXCEPT ![c].used = TRUE]
  /\ term' = [term EXCEPT ![c][n] =
       [@ EXCEPT !.mounted = TRUE, !.view = 0, !.before = TRUE,
                 !.pending = term[c][n].pending \/ tab[c].id = 0]]
  /\ Send(IF tab[c].id = 0 THEN posts ELSE posts \cup {Request("sub", c, n)})
  /\ excused' = IF term[c][n].before THEN excused \cup {<<c, n>>} ELSE excused
  /\ UNCHANGED <<pane, server, faults, restarts>>

(* unsubscribe(): without a clientId nothing but the handler goes.         *)
Unmount(c, n) ==
  /\ term[c][n].mounted
  /\ term' = [term EXCEPT ![c][n] = [@ EXCEPT !.mounted = FALSE, !.view = 0]]
  /\ Send(IF tab[c].id = 0 THEN posts ELSE posts \cup {Request("unsub", c, n)})
  /\ excused' = excused \ {<<c, n>>}
  /\ UNCHANGED <<pane, server, tab, mounts, faults, restarts>>

(* What sendSubscribe and sendUnsubscribe do after the await.              *)
Answered(post) ==
  /\ post.kind \in {"subok", "unsubok"}
  /\ term' = [term EXCEPT ![post.client][post.name].active = post.kind = "subok",
                          ![post.client][post.name].pending = FALSE]
  /\ Send(posts \ {post})
  /\ UNCHANGED <<pane, server, tab, mounts, faults, restarts, excused>>

(* Writing a chunk to the xterm; a replay resets it first.                 *)
Written(view, chunk) == IF chunk.full \/ chunk.from = view THEN chunk.to ELSE Torn
Got(t, f, now) ==
  LET seen == f.seq > t.last
  IN [t EXCEPT !.view = Written(@, f.chunk), !.last = IF seen THEN f.seq ELSE @,
               !.life = IF seen THEN now ELSE @]

Receive(c) ==
  LET k == tab[c].on
      f == Head(stream[k].queue)
  IN /\ k # 0 /\ tab[c].id = k /\ stream[k].queue # <<>>
     /\ stream' = [stream EXCEPT ![k].queue = Tail(@)]
     /\ term' = IF term[c][f.name].mounted THEN [term EXCEPT ![c][f.name] = Got(@, f, restarts)] ELSE term
     /\ UNCHANGED <<pane, pty, reader, ring, tab, posts, counts, excused>>

-----------------------------------------------------------------------------
Init ==
  /\ pane = [n \in Names |-> [up |-> TRUE, out |-> 0]]
  /\ pty = [n \in Names |-> NoPty] /\ reader = [n \in Names |-> NoReader]
  /\ ring = [n \in Names |-> NoRing] /\ stream = [k \in Streams |-> NoStream]
  /\ tab = [c \in Clients |-> [used |-> FALSE, on |-> 0, id |-> 0]]
  /\ term = [c \in Clients |-> [n \in Names |-> NoTerm]]
  /\ posts = {} /\ opened = 0 /\ mounts = 0 /\ faults = 0 /\ restarts = 0 /\ excused = {}

Reading(n) == Read(n) \/ ReadFails(n) \/ Spread(n) \/ ReaderEnds(n)
Serving(post) == \/ \E captured \in BOOLEAN : HandleSubscribe(post, captured)
                 \/ RefuseSubscribe(post) \/ HandleUnsubscribe(post) \/ Answered(post)

Next ==
  \/ \E n \in Names : \/ Output(n) \/ Input(n) \/ InputFails(n) \/ AttachmentEnds(n)
                      \/ PaneEnds(n) \/ PaneReturns(n) \/ Remove_(n) \/ Reading(n)
  \/ \E post \in posts : Serving(post)
  \/ \E c \in Clients : Connect(c) \/ Hello(c) \/ Disconnect(c) \/ Receive(c)
  \/ \E c \in Clients, n \in Names : Mount(c, n) \/ Unmount(c, n)
  \/ Restart

(* The reader's task runs, and an open stream sends what is queued.        *)
Spec == /\ Init /\ [][Next]_vars
        /\ \A n \in Names : WF_vars(Reading(n))
        /\ \A c \in Clients : WF_vars(Receive(c))

-----------------------------------------------------------------------------
(* Properties                                                              *)

(* Types; queues and rings within their limits.                            *)
TypeOK ==
  /\ pane \in [Names -> [up : BOOLEAN, out : Count]]
  /\ pty \in [Names -> Pty] /\ reader \in [Names -> Reader] /\ ring \in [Names -> Ring]
  /\ \A n \in Names : Len(ring[n].chunks) <= RingCap
  /\ stream \in [Streams -> Stream]
  /\ \A k \in Streams : Len(stream[k].queue) <= QueueSize
  /\ tab \in [Clients -> Tab] /\ term \in [Clients -> [Names -> Term]]
  /\ posts \subseteq Post
  /\ opened \in 0 .. MaxStreams /\ mounts \in 0 .. MaxMounts
  /\ faults \in 0 .. MaxFaults /\ restarts \in 0 .. MaxFaults
  /\ excused \subseteq Terminals

Subscribed(c, n) == /\ tab[c].on # 0 /\ tab[c].id = tab[c].on /\ term[c][n].mounted
                    /\ n \in stream[tab[c].on].subs
Queued(c, n) == {i \in DOMAIN stream[tab[c].on].queue : stream[tab[c].on].queue[i].name = n}
(* The screen, after each queued frame, ends at `end`.                     *)
Foreseen(c, n, end) ==
  LET queue == stream[tab[c].on].queue
  IN \E shown \in [0 .. Len(queue) -> Count \cup {Torn}] :
       /\ shown[0] = term[c][n].view /\ shown[Len(queue)] = end
       /\ \A i \in DOMAIN queue :
            shown[i] = IF i \in Queued(c, n) THEN Written(shown[i - 1], queue[i].chunk)
                       ELSE shown[i - 1]

(* A subscribed terminal misses nothing and is written nothing twice: with *)
(* what is queued for it its screen is where the reader is, whether it     *)
(* joined with a snapshot or with a delta of the ring.  Not so after a     *)
(* frame was dropped from a full queue, a snapshot was taken while the     *)
(* reader was behind the pane or failed, a delta was asked for by a number *)
(* of an earlier server, or a terminal was opened a second time in a tab;  *)
(* a snapshot makes that good, if nothing else of it is on its way then.   *)
ScreenFollowsReader ==
  \A c \in Clients, n \in Names :
    Subscribed(c, n) /\ <<c, n>> \notin excused /\ ~pty[n].redraw /\ ~reader[n].chunk.full =>
      Foreseen(c, n, IF reader[n].step = "got" THEN reader[n].chunk.from ELSE pty[n].read)

(* A snapshot on the way will paint the screen anew.                       *)
Repainting(c, n) == \E i \in Queued(c, n) : stream[tab[c].on].queue[i].chunk.full
View == INSTANCE TerminalView WITH
  Viewers <- Clients, Panes <- Names,
  produced <- [n \in Names |-> pane[n].out],
  screen <- [c \in Clients |-> [n \in Names |->
    IF Subscribed(c, n) /\ <<c, n>> \notin excused /\ ~Repainting(c, n)
    THEN term[c][n].view ELSE Detached]]

(* The transport implements TerminalView: no screen goes back, shows what  *)
(* the pane has not written, or is torn, but for the losses named above.   *)
ScreenGoesForward == View!Spec

(* Output reaches a terminal that stays subscribed while its attachment    *)
(* and its reader live.                                                    *)
OutputShown ==
  \A c \in Clients, n \in Names :
    <>[](\/ ~Subscribed(c, n) \/ <<c, n>> \in excused
         \/ pty[n].state # "open" \/ reader[n].step = "none"
         \/ term[c][n].view = pane[n].out)
=============================================================================

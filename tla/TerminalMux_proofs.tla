------------------------- MODULE TerminalMux_proofs -------------------------
(***************************************************************************)
(* Terminals show what their panes write, for any number of panes, tabs,   *)
(* streams and faults, and any sizes of the queues and the ring.           *)
(***************************************************************************)
EXTENDS TerminalMux, FiniteSetTheorems, SequenceTheorems, WellFoundedInduction, TLAPS

(* A sequence is a function on 1 .. n.                                     *)
LEMMA FunctionIsSeq ==
  ASSUME NEW S, NEW n \in Nat, NEW f \in [1 .. n -> S]
  PROVE  f \in Seq(S) /\ Len(f) = n /\ DOMAIN f = 1 .. n
<1>1. f \in Seq(S)
  BY SeqDef
<1> QED BY <1>1, LenProperties

(* A sequence of one element.                                              *)
LEMMA SingleSeq ==
  ASSUME NEW S, NEW e \in S
  PROVE  <<e>> \in Seq(S) /\ Len(<<e>>) = 1 /\ <<e>>[1] = e
OBVIOUS

(* The values that stand for nothing are of their types.                   *)
LEMMA NullsOK ==
  /\ NoChunk \in Chunk /\ NoPty \in Pty /\ NoReader \in Reader
  /\ NoRing \in Ring /\ NoRing.chunks = <<>> /\ NoRing.next = 1
  /\ NoStream \in Stream /\ NoStream.queue = <<>> /\ NoStream.subs = {} /\ NoTerm \in Term
<1>1. NoChunk \in Chunk /\ 0 \in Count
  BY BoundsAssumption DEF NoChunk, Chunk, Count
<1>2. <<>> \in Seq([seq : Nat, chunk : Chunk]) /\ <<>> \in Seq(Frame)
  BY EmptySeq
<1> QED BY <1>1, <1>2 DEF NoPty, Pty, NoReader, Reader, NoRing, Ring, NoStream, Stream, NoTerm, Term

(* A chunk that continues a screen; what else written to it tears it.      *)
Continues(chunk, view) == chunk.full \/ chunk.from = view

-----------------------------------------------------------------------------
(* A sequence without its first x elements.                                *)
LEMMA SuffixOK ==
  ASSUME NEW S, NEW seq \in Seq(S), NEW x \in 0 .. Len(seq)
  PROVE  /\ SubSeq(seq, x + 1, Len(seq)) \in Seq(S)
         /\ Len(SubSeq(seq, x + 1, Len(seq))) = Len(seq) - x
         /\ DOMAIN SubSeq(seq, x + 1, Len(seq)) = 1 .. Len(seq) - x
         /\ \A i \in 1 .. Len(seq) - x : SubSeq(seq, x + 1, Len(seq))[i] = seq[x + i]
<1>1. Len(seq) \in Nat /\ x \in Nat /\ x <= Len(seq)
  BY LenProperties
<1>2. PICK n \in Nat : n = Len(seq)
  BY <1>1
<1>3. \A i \in x + 1 .. n : seq[i] \in S
  BY <1>1, <1>2, ElementOfSeq
<1> DEFINE sub == SubSeq(seq, x + 1, n)
<1>4. /\ sub \in Seq(S)
      /\ Len(sub) = IF x + 1 <= n THEN n - (x + 1) + 1 ELSE 0
      /\ \A i \in 1 .. n - (x + 1) + 1 : sub[i] = seq[x + 1 + i - 1]
  BY <1>1, <1>3, SubSeqProperties
<1>5. x <= n
  BY <1>1, <1>2
<1> HIDE DEF sub
<1>6. Len(sub) = n - x
  BY <1>1, <1>4, <1>5
<1>7. \A i \in 1 .. n - x : sub[i] = seq[x + i]
  BY <1>1, <1>4
<1>8. DOMAIN sub = 1 .. n - x
  BY <1>4, <1>6, LenProperties
<1> QED BY <1>2, <1>4, <1>6, <1>7, <1>8 DEF sub

-----------------------------------------------------------------------------
(* The queues.  Pushing keeps the last frames of the queue and the new     *)
(* ones: `all` without its first Excess(all).                              *)
LEMMA PushOK ==
  ASSUME NEW queue \in Seq(Frame), NEW frames \in Seq(Frame)
  PROVE  LET all == queue \o frames IN
         /\ all \in Seq(Frame) /\ Len(all) = Len(queue) + Len(frames)
         /\ \A i \in 1 .. Len(queue) : all[i] = queue[i]
         /\ \A i \in 1 .. Len(frames) : all[Len(queue) + i] = frames[i]
         /\ Excess(all) \in 0 .. Len(all)
         /\ Push(queue, frames) \in Seq(Frame)
         /\ Len(Push(queue, frames)) = Len(all) - Excess(all)
         /\ Len(Push(queue, frames)) <= QueueSize
         /\ DOMAIN Push(queue, frames) = 1 .. Len(all) - Excess(all)
         /\ \A i \in 1 .. Len(all) - Excess(all) : Push(queue, frames)[i] = all[Excess(all) + i]
<1> DEFINE all == queue \o frames
<1>1. all \in Seq(Frame) /\ Len(all) = Len(queue) + Len(frames)
      /\ \A i \in 1 .. Len(queue) + Len(frames) :
           all[i] = IF i <= Len(queue) THEN queue[i] ELSE frames[i - Len(queue)]
  BY ConcatProperties
<1>2. Len(queue) \in Nat /\ Len(frames) \in Nat
  BY LenProperties
<1>3. Push(queue, frames) = SubSeq(all, Excess(all) + 1, Len(all))
  BY DEF Push
<1> HIDE DEF all
<1>4. Excess(all) \in 0 .. Len(all) /\ Len(all) - Excess(all) <= QueueSize
  BY <1>1, <1>2, BoundsAssumption DEF Excess
<1>5. \A i \in 1 .. Len(queue) : all[i] = queue[i]
  BY <1>1, <1>2
<1>6. \A i \in 1 .. Len(frames) : all[Len(queue) + i] = frames[i]
  BY <1>1, <1>2
<1>7. /\ SubSeq(all, Excess(all) + 1, Len(all)) \in Seq(Frame)
      /\ Len(SubSeq(all, Excess(all) + 1, Len(all))) = Len(all) - Excess(all)
      /\ DOMAIN SubSeq(all, Excess(all) + 1, Len(all)) = 1 .. Len(all) - Excess(all)
      /\ \A i \in 1 .. Len(all) - Excess(all) :
           SubSeq(all, Excess(all) + 1, Len(all))[i] = all[Excess(all) + i]
  BY <1>1, <1>4, SuffixOK
<1>8. /\ all \in Seq(Frame) /\ Len(all) = Len(queue) + Len(frames)
      /\ Push(queue, frames) \in Seq(Frame)
      /\ Len(Push(queue, frames)) = Len(all) - Excess(all)
      /\ Len(Push(queue, frames)) <= QueueSize
      /\ DOMAIN Push(queue, frames) = 1 .. Len(all) - Excess(all)
      /\ \A i \in 1 .. Len(all) - Excess(all) : Push(queue, frames)[i] = all[Excess(all) + i]
  BY <1>1, <1>3, <1>4, <1>7
<1> QED BY <1>4, <1>5, <1>6, <1>8 DEF all

(* The ring's chunks as frames, and those after `since`.                   *)
LEMMA FramesOK ==
  ASSUME TypeOK, NEW n \in Names
  PROVE  /\ Frames(n) \in Seq(Frame) /\ Len(Frames(n)) = Len(ring[n].chunks)
         /\ DOMAIN Frames(n) = 1 .. Len(ring[n].chunks)
         /\ \A i \in 1 .. Len(ring[n].chunks) :
              /\ Frames(n)[i] = FrameOf(n, ring[n].chunks[i]) /\ Frames(n)[i].name = n
              /\ Frames(n)[i].seq = ring[n].chunks[i].seq
              /\ Frames(n)[i].chunk = ring[n].chunks[i].chunk
<1> DEFINE chunks == ring[n].chunks
<1>1. chunks \in Seq([seq : Nat, chunk : Chunk])
  BY DEF TypeOK, Ring
<1>2. Len(chunks) \in Nat /\ DOMAIN chunks = 1 .. Len(chunks)
  BY <1>1, LenProperties
<1>3. \A i \in 1 .. Len(chunks) : chunks[i] \in [seq : Nat, chunk : Chunk]
  BY <1>1, ElementOfSeq
<1>4. \A i \in 1 .. Len(chunks) : FrameOf(n, chunks[i]) \in Frame
  BY <1>3 DEF FrameOf, Frame
<1>5. Frames(n) \in [1 .. Len(chunks) -> Frame]
  BY <1>2, <1>4 DEF Frames
<1>6. \A i \in 1 .. Len(chunks) : Frames(n)[i] = FrameOf(n, chunks[i])
  BY <1>2 DEF Frames
<1> QED BY <1>2, <1>5, <1>6, FunctionIsSeq DEF FrameOf

(* What _ring_since returns is frames, no more than the ring holds.        *)
LEMMA SinceOK ==
  ASSUME TypeOK, NEW n \in Names, NEW since \in Nat
  PROVE  /\ Since(n, since) \in Seq(Frame)
         /\ \A i \in 1 .. Len(Since(n, since)) :
              \E j \in 1 .. Len(ring[n].chunks) : Since(n, since)[i] = Frames(n)[j]
<1> DEFINE old == {i \in DOMAIN Frames(n) : Frames(n)[i].seq <= since}
           all == Frames(n)
<1>1. all \in Seq(Frame) /\ Len(all) \in Nat /\ DOMAIN all = 1 .. Len(all)
  BY FramesOK, LenProperties
<1>2. IsFiniteSet(1 .. Len(all)) /\ Cardinality(1 .. Len(all)) = Len(all)
  BY <1>1, FS_Interval
<1>3. old \in SUBSET (1 .. Len(all))
  BY <1>1
<1>4. IsFiniteSet(old) /\ Cardinality(old) <= Len(all)
  BY <1>2, <1>3, FS_Subset
<1>5. Cardinality(old) \in 0 .. Len(all)
  BY <1>1, <1>4, FS_CardinalityType
<1> HIDE DEF old, all
<1>6. PICK sub : sub = SubSeq(all, Cardinality(old) + 1, Len(all))
  OBVIOUS
<1>7. PICK x \in 0 .. Len(all) : x = Cardinality(old)
  BY <1>5
<1>8. sub \in Seq(Frame) /\ Len(sub) = Len(all) - x /\ \A i \in 1 .. Len(all) - x : sub[i] = all[x + i]
  BY <1>1, <1>6, <1>7, SuffixOK
<1>9. \A i \in 1 .. Len(all) - x : x + i \in 1 .. Len(all)
  BY <1>1
<1>10. \A i \in 1 .. Len(sub) : \E j \in 1 .. Len(all) : sub[i] = all[j]
  BY <1>8, <1>9
<1>11. Since(n, since) = sub
  BY <1>6 DEF Since, all, old
<1>12. Len(all) = Len(ring[n].chunks)
  BY FramesOK DEF all
<1> QED BY <1>8, <1>10, <1>11, <1>12 DEF all

(* Appending to the ring keeps it within its capacity.                     *)
LEMMA AppendedOK ==
  ASSUME NEW r \in Ring, Len(r.chunks) <= RingCap, NEW chunk \in Chunk
  PROVE  /\ Appended(r, chunk) \in Ring /\ Appended(r, chunk).next = r.next + 1
         /\ Len(Appended(r, chunk).chunks) <= RingCap /\ Len(Appended(r, chunk).chunks) >= 1
         /\ \E x \in {0, 1} :
              /\ Len(Appended(r, chunk).chunks) = Len(r.chunks) + 1 - x
              /\ \A i \in 1 .. Len(r.chunks) - x : Appended(r, chunk).chunks[i] = r.chunks[i + x]
              /\ Appended(r, chunk).chunks[Len(r.chunks) + 1 - x] = [seq |-> r.next, chunk |-> chunk]
<1> DEFINE E == [seq : Nat, chunk : Chunk]
           e == [seq |-> r.next, chunk |-> chunk]
           new == Append(r.chunks, e)
<1>1. r.chunks \in Seq(E) /\ e \in E /\ r.next \in Nat \ {0}
  BY DEF Ring
<1> HIDE DEF E, e
<1>2. /\ new \in Seq(E) /\ new # <<>> /\ Len(new) = Len(r.chunks) + 1
      /\ \A i \in 1 .. Len(r.chunks) : new[i] = r.chunks[i]
      /\ new[Len(r.chunks) + 1] = e
  BY <1>1, AppendProperties
<1>3. Len(r.chunks) \in Nat
  BY <1>1, LenProperties
<1> HIDE DEF new
<1>4. Tail(new) \in Seq(E) /\ Len(Tail(new)) = Len(r.chunks)
      /\ \A i \in 1 .. Len(r.chunks) : Tail(new)[i] = new[i + 1]
  BY <1>2, <1>3, HeadTailProperties
<1>5. Kept(new) = IF Len(new) > RingCap THEN Tail(new) ELSE new
  BY DEF Kept
<1>6. Appended(r, chunk) = [chunks |-> Kept(new), next |-> r.next + 1]
  BY DEF Appended, new, e
<1>7. RingCap \in Nat \ {0}
  BY BoundsAssumption
<1>8. CASE Len(new) > RingCap
  <2>1. Kept(new) = Tail(new) /\ Len(r.chunks) = RingCap
    BY <1>2, <1>3, <1>5, <1>7, <1>8
  <2>2. Appended(r, chunk).chunks = Tail(new) /\ Appended(r, chunk).next = r.next + 1
    BY <1>6, <2>1
  <2>3. Appended(r, chunk) \in Ring
    BY <1>1, <1>4, <1>6, <2>1 DEF Ring, E
  <2>4. \A i \in 1 .. Len(r.chunks) - 1 : Tail(new)[i] = r.chunks[i + 1]
    BY <1>2, <1>3, <1>4
  <2>5. Tail(new)[Len(r.chunks)] = e
    BY <1>2, <1>3, <1>4, <1>7, <2>1
  <2>6. \E x \in {0, 1} : x = 1
    OBVIOUS
  <2> QED BY <1>3, <1>4, <1>7, <2>1, <2>2, <2>3, <2>4, <2>5, <2>6 DEF e
<1>9. CASE ~(Len(new) > RingCap)
  <2>1. Appended(r, chunk).chunks = new /\ Appended(r, chunk).next = r.next + 1
    BY <1>5, <1>6, <1>9
  <2>2. Appended(r, chunk) \in Ring
    BY <1>1, <1>2, <1>5, <1>6, <1>9 DEF Ring, E
  <2>3. \A i \in 1 .. Len(r.chunks) - 0 : new[i] = r.chunks[i + 0]
    BY <1>2, <1>3
  <2>4. \E x \in {0, 1} : x = 0
    OBVIOUS
  <2> QED BY <1>2, <1>3, <1>7, <1>9, <2>1, <2>2, <2>3, <2>4 DEF e
<1> QED BY <1>8, <1>9

-----------------------------------------------------------------------------
(* What the state's parts are.                                             *)
LEMMA PartsOK ==
  ASSUME TypeOK
  PROVE  /\ \A n \in Names :
              /\ pane[n].up \in BOOLEAN /\ pane[n].out \in Count
              /\ pty[n] \in Pty /\ reader[n] \in Reader /\ ring[n] \in Ring
              /\ pty[n].fed \in Count /\ pty[n].read \in Count /\ pty[n].redraw \in BOOLEAN
              /\ reader[n].chunk \in Chunk /\ ring[n].next \in Nat
         /\ \A k \in Streams : stream[k] \in Stream /\ stream[k].queue \in Seq(Frame)
                                /\ stream[k].subs \subseteq Names
         /\ \A c \in Clients : tab[c] \in Tab /\ tab[c].on \in Streams \cup {0}
                                /\ tab[c].id \in Streams \cup {0}
         /\ \A c \in Clients, n \in Names : term[c][n] \in Term
         /\ \A p \in posts : p \in Post
         /\ opened \in Nat /\ mounts \in Nat /\ faults \in Nat /\ restarts \in Nat
<1>1. \A n \in Names :
        /\ pane[n].up \in BOOLEAN /\ pane[n].out \in Count
        /\ pty[n] \in Pty /\ reader[n] \in Reader /\ ring[n] \in Ring
  BY DEF TypeOK
<1>2. \A n \in Names :
        /\ pty[n].fed \in Count /\ pty[n].read \in Count /\ pty[n].redraw \in BOOLEAN
        /\ reader[n].chunk \in Chunk /\ ring[n].next \in Nat
  BY <1>1 DEF Pty, Reader, Ring
<1>3. \A k \in Streams : stream[k] \in Stream
  BY DEF TypeOK
<1>4. \A k \in Streams : stream[k].queue \in Seq(Frame) /\ stream[k].subs \subseteq Names
  BY <1>3 DEF Stream
<1>5. \A c \in Clients : tab[c] \in Tab
  BY DEF TypeOK
<1>6. \A c \in Clients : tab[c].on \in Streams \cup {0} /\ tab[c].id \in Streams \cup {0}
  BY <1>5 DEF Tab
<1>7. \A c \in Clients, n \in Names : term[c][n] \in Term
  BY DEF TypeOK
<1>8. \A p \in posts : p \in Post
  BY DEF TypeOK
<1>9. opened \in Nat /\ mounts \in Nat /\ faults \in Nat /\ restarts \in Nat
  BY BoundsAssumption DEF TypeOK
<1> QED BY <1>1, <1>2, <1>3, <1>4, <1>5, <1>6, <1>7, <1>8, <1>9

(* What a frame makes of a terminal.                                       *)
LEMMA GotOK ==
  ASSUME NEW t \in Term, NEW f \in Frame, NEW now \in Nat
  PROVE  LET u == Got(t, f, now) IN
         /\ u \in Term /\ u.view = Written(t.view, f.chunk)
         /\ u.last = IF f.seq > t.last THEN f.seq ELSE t.last
         /\ u.life = IF f.seq > t.last THEN now ELSE t.life
         /\ u.view = IF Continues(f.chunk, t.view) THEN f.chunk.to ELSE Torn
<1>1. f.seq \in Nat /\ f.chunk \in Chunk /\ t.last \in Nat /\ t.life \in Nat
      /\ t.view \in Count \cup {Torn}
  BY DEF Frame, Term
<1>2. Written(t.view, f.chunk) = IF Continues(f.chunk, t.view) THEN f.chunk.to ELSE Torn
  BY DEF Written, Continues
<1>3. Written(t.view, f.chunk) \in Count \cup {Torn}
  BY <1>1 DEF Written, Chunk
<1>4. (IF f.seq > t.last THEN f.seq ELSE t.last) \in Nat
      /\ (IF f.seq > t.last THEN now ELSE t.life) \in Nat
  BY <1>1
<1> QED BY <1>2, <1>3, <1>4 DEF Got, Term

(* Steps of the pane and its attachment.                                   *)
LEMMA PaneTypes ==
  ASSUME TypeOK, NEW n \in Names,
         Output(n) \/ Input(n) \/ InputFails(n) \/ AttachmentEnds(n) \/ PaneEnds(n)
           \/ PaneReturns(n) \/ Remove_(n)
  PROVE  TypeOK'
<1> USE PartsOK
<1>1. \A p \in Pty : /\ Hung(p) \in Pty /\ [p EXCEPT !.state = "dead"] \in Pty
                     /\ [p EXCEPT !.state = "none"] \in Pty
                     /\ \A fed \in Count : [p EXCEPT !.fed = fed] \in Pty
  BY DEF Pty, Hung
<1>2. ASSUME Output(n) PROVE TypeOK'
  <2>1. pane[n].out + 1 \in Count
    BY <1>2, BoundsAssumption DEF Output, Count
  <2>2. pane' \in [Names -> [up : BOOLEAN, out : Count]]
    BY <1>2, <2>1 DEF Output, TypeOK
  <2>3. (IF pty[n].state = "open" THEN pane[n].out + 1 ELSE pty[n].fed) \in Count
    BY <2>1
  <2>4. pty' \in [Names -> Pty]
    BY <1>1, <1>2, <2>3 DEF Output, Fed, TypeOK
  <2> QED BY <1>2, <2>2, <2>4 DEF Output, TypeOK, counts
<1>3. ASSUME Input(n) PROVE TypeOK'
  BY <1>2, <1>3 DEF Input
<1>4. ASSUME InputFails(n) PROVE TypeOK'
  <2>1. pty' \in [Names -> Pty]
    BY <1>1, <1>4 DEF InputFails, TypeOK
  <2> QED BY <1>4, <2>1 DEF InputFails, TypeOK, counts
<1>5. ASSUME AttachmentEnds(n) PROVE TypeOK'
  <2>1. pty' \in [Names -> Pty]
    BY <1>1, <1>5 DEF AttachmentEnds, TypeOK
  <2>2. faults' \in 0 .. MaxFaults
    BY <1>5, BoundsAssumption DEF AttachmentEnds
  <2> QED BY <1>5, <2>1, <2>2 DEF AttachmentEnds, TypeOK
<1>6. ASSUME PaneEnds(n) PROVE TypeOK'
  <2>1. pty' \in [Names -> Pty]
    BY <1>1, <1>6 DEF PaneEnds, TypeOK
  <2>3. faults' \in 0 .. MaxFaults
    BY <1>6, BoundsAssumption DEF PaneEnds
  <2>2. pane' \in [Names -> [up : BOOLEAN, out : Count]]
    BY <1>6 DEF PaneEnds, TypeOK
  <2> QED BY <1>6, <2>1, <2>2, <2>3 DEF PaneEnds, TypeOK
<1>7. ASSUME PaneReturns(n) PROVE TypeOK'
  <2>1. pane[n].out + 1 \in Count
    BY <1>7, BoundsAssumption DEF PaneReturns, Count
  <2>2. pane' \in [Names -> [up : BOOLEAN, out : Count]]
    BY <1>7, <2>1 DEF PaneReturns, TypeOK
  <2> QED BY <1>7, <2>2 DEF PaneReturns, TypeOK, server
<1>8. ASSUME Remove_(n) PROVE TypeOK'
  <2>1. pty' \in [Names -> Pty]
    BY <1>1, <1>8 DEF Remove_, TypeOK
  <2> QED BY <1>8, <2>1 DEF Remove_, TypeOK, counts
<1> QED BY <1>2, <1>3, <1>4, <1>5, <1>6, <1>7, <1>8

(* Steps of the reader.                                                    *)
LEMMA ReaderTypes ==
  ASSUME TypeOK, NEW n \in Names, Reading(n)
  PROVE  TypeOK'
<1> USE PartsOK
<1>1. ASSUME Read(n) PROVE TypeOK'
  <2>1. [full |-> pty[n].redraw, from |-> pty[n].read, to |-> pty[n].fed] \in Chunk
    BY DEF Chunk
  <2>2. reader' \in [Names -> Reader]
    BY <1>1, <2>1 DEF Read, TypeOK, Reader
  <2>3. [pty[n] EXCEPT !.read = pty[n].fed, !.redraw = FALSE] \in Pty
    BY DEF Pty
  <2>4. pty' = [pty EXCEPT ![n] = [pty[n] EXCEPT !.read = pty[n].fed, !.redraw = FALSE]]
    BY <1>1 DEF Read, TypeOK, Pty
  <2>5. pty' \in [Names -> Pty]
    BY <2>3, <2>4 DEF TypeOK
  <2> QED BY <1>1, <2>2, <2>5 DEF Read, TypeOK, counts
<1>2. ASSUME ReadFails(n) PROVE TypeOK'
  <2>1. pty' \in [Names -> Pty]
    BY <1>2 DEF ReadFails, TypeOK, Pty
  <2> QED BY <1>2, <2>1 DEF ReadFails, TypeOK, counts
<1>3. ASSUME Spread(n) PROVE TypeOK'
  <2> DEFINE frame == [name |-> n, seq |-> ring[n].next, chunk |-> reader[n].chunk]
             fan == {k \in Streams : n \in stream[k].subs}
  <2>1. frame \in Frame
    BY DEF Frame
  <2>2. <<frame>> \in Seq(Frame)
    BY <2>1
  <2>3. Appended(ring[n], reader[n].chunk) \in Ring
        /\ Len(Appended(ring[n], reader[n].chunk).chunks) <= RingCap
    BY AppendedOK DEF TypeOK
  <2>4. ring' = [ring EXCEPT ![n] = Appended(ring[n], reader[n].chunk)]
    BY <1>3 DEF Spread
  <2>5. ring' \in [Names -> Ring] /\ \A m \in Names : Len(ring'[m].chunks) <= RingCap
    BY <2>3, <2>4 DEF TypeOK
  <2>6. reader' \in [Names -> Reader]
    BY <1>3, NullsOK DEF Spread, TypeOK, Reader
  <2> HIDE DEF frame
  <2>7. \A k \in Streams : /\ Push(stream[k].queue, <<frame>>) \in Seq(Frame)
                           /\ Len(Push(stream[k].queue, <<frame>>)) <= QueueSize
    BY <2>2, PushOK
  <2>8. \A k \in Streams : [stream[k] EXCEPT !.queue = Push(stream[k].queue, <<frame>>)] \in Stream
    BY <2>7 DEF Stream
  <2>9. stream' = [k \in Streams |-> IF k \in fan
                     THEN [stream[k] EXCEPT !.queue = Push(stream[k].queue, <<frame>>)] ELSE stream[k]]
    BY <1>3 DEF Spread, frame
  <2>10. stream' \in [Streams -> Stream]
    BY <2>8, <2>9
  <2>11. \A k \in Streams : Len(stream'[k].queue) <= QueueSize
    <3> TAKE k \in Streams
    <3>1. [stream[k] EXCEPT !.queue = Push(stream[k].queue, <<frame>>)].queue
             = Push(stream[k].queue, <<frame>>)
      BY DEF Stream
    <3> QED BY <2>7, <2>9, <3>1 DEF TypeOK
  <2>12. \A k \in Streams : /\ GivenUp(stream[k].queue, <<frame>>) \subseteq Names
                            /\ Owner(k) \subseteq Clients
    <3> TAKE k \in Streams
    <3> DEFINE all == stream[k].queue \o <<frame>>
    <3>1. all \in Seq(Frame) /\ Excess(all) \in 0 .. Len(all)
      BY <2>2, PushOK
    <3>2. GivenUp(stream[k].queue, <<frame>>) = {all[i].name : i \in 1 .. Excess(all)}
      BY DEF GivenUp
    <3> HIDE DEF all
    <3>3. \A i \in 1 .. Excess(all) : all[i] \in Frame
      BY <3>1, ElementOfSeq, LenProperties
    <3> QED BY <3>2, <3>3 DEF Frame, Owner
  <2>13. excused' \subseteq Terminals
    <3>1. excused' = excused \cup UNION {Owner(k) \X GivenUp(stream[k].queue, <<frame>>) : k \in fan}
      BY <1>3 DEF Spread, frame
    <3>2. \A k \in fan : Owner(k) \X GivenUp(stream[k].queue, <<frame>>) \subseteq Terminals
      BY <2>12 DEF Terminals
    <3>3. excused \subseteq Terminals
      BY DEF TypeOK
    <3> QED BY <3>1, <3>2, <3>3
  <2> QED BY <1>3, <2>5, <2>6, <2>10, <2>11, <2>13 DEF Spread, TypeOK, counts
<1>4. ASSUME ReaderEnds(n) PROVE TypeOK'
  BY <1>4, NullsOK DEF ReaderEnds, TypeOK, counts
<1> QED BY <1>1, <1>2, <1>3, <1>4 DEF Reading

-----------------------------------------------------------------------------
(* Requests.                                                               *)
Asks(post) == post.kind \in {"sub", "unsub"}

(* The parts of a request or a response.                                   *)
LEMMA PostOK ==
  ASSUME NEW p \in Post
  PROVE  /\ p.client \in Clients /\ p.name \in Names /\ p.since \in Nat /\ p.life \in Nat
         /\ Asks(p) => p.id \in Streams
         /\ ~Asks(p) => p.id = 0
         /\ p.kind \in {"sub", "unsub", "subok", "unsubok"}
BY DEF Post, Asks

(* A request of a tab that knows its number is a post.                     *)
LEMMA RequestOK ==
  ASSUME TypeOK, NEW c \in Clients, NEW n \in Names, NEW kind \in {"sub", "unsub"},
         NEW k \in Streams
  PROVE  /\ [Request(kind, c, n) EXCEPT !.id = k] \in Post
         /\ tab[c].id # 0 => Request(kind, c, n) \in Post
<1>1. term[c][n].last \in Nat /\ term[c][n].life \in Nat
  BY PartsOK DEF Term
<1>2. (IF kind = "sub" THEN term[c][n].last ELSE 0) \in Nat
  BY <1>1
<1>3. tab[c].id # 0 => tab[c].id \in Streams
  BY PartsOK
<1> QED BY <1>1, <1>2, <1>3 DEF Request, Post

(* So is the answer to one.                                                *)
LEMMA AnswerOK ==
  ASSUME NEW p \in Post, NEW kind \in {"subok", "unsubok"}
  PROVE  Answer(p, kind) \in Post
BY PostOK DEF Answer, Post

(* What is given up is frames of some names.                               *)
LEMMA GivenUpOK ==
  ASSUME NEW queue \in Seq(Frame), NEW frames \in Seq(Frame)
  PROVE  GivenUp(queue, frames) \subseteq Names
<1> DEFINE all == queue \o frames
<1>1. all \in Seq(Frame) /\ Excess(all) \in 0 .. Len(all)
  BY PushOK
<1>2. GivenUp(queue, frames) = {all[i].name : i \in 1 .. Excess(all)}
  BY DEF GivenUp
<1> HIDE DEF all
<1>3. \A i \in 1 .. Excess(all) : all[i] \in Frame
  BY <1>1, ElementOfSeq, LenProperties
<1> QED BY <1>2, <1>3 DEF Frame

(* The frames that answer a subscription.                                  *)
Sent(post, captured) ==
  IF Reaches(post.name, post.since) THEN Since(post.name, post.since)
  ELSE IF captured THEN <<SnapshotOf(post.name)>> ELSE <<>>

(* What a subscription is sent is frames.                                  *)
LEMMA SentOK ==
  ASSUME TypeOK, NEW p \in Post, NEW captured \in BOOLEAN
  PROVE  Sent(p, captured) \in Seq(Frame)
<1>1. p.name \in Names /\ p.since \in Nat
  BY PostOK
<1>2. SnapshotOf(p.name) \in Frame
  <2>1. ring[p.name].next - 1 \in Nat
    BY <1>1, PartsOK DEF Ring
  <2>2. [full |-> TRUE, from |-> pane[p.name].out, to |-> pane[p.name].out] \in Chunk
    BY <1>1, PartsOK DEF Chunk
  <2> QED BY <1>1, <2>1, <2>2 DEF SnapshotOf, Frame
<1>3. <<SnapshotOf(p.name)>> \in Seq(Frame) /\ <<>> \in Seq(Frame)
  BY <1>2
<1>4. Since(p.name, p.since) \in Seq(Frame)
  BY <1>1, SinceOK
<1> QED BY <1>3, <1>4 DEF Sent

(* Steps that serve a request or its answer.                               *)
LEMMA ServeTypes ==
  ASSUME TypeOK, NEW p \in posts, Serving(p)
  PROVE  TypeOK'
<1> USE PartsOK, PostOK
<1>0. p \in Post
  OBVIOUS
<1>1. ASSUME NEW captured \in BOOLEAN, HandleSubscribe(p, captured) PROVE TypeOK'
  <2> DEFINE k == p.id
             n == p.name
             frames == Sent(p, captured)
  <2>1. k \in Streams /\ n \in Names
    BY <1>0, <1>1 DEF HandleSubscribe, Asks
  <2>2. frames \in Seq(Frame)
    BY <1>0, SentOK
  <2>3. Subscribe(p, captured)
    BY <1>1 DEF HandleSubscribe
  <2> HIDE DEF frames
  <2>4. /\ Push(stream[k].queue, frames) \in Seq(Frame)
        /\ Len(Push(stream[k].queue, frames)) <= QueueSize
        /\ GivenUp(stream[k].queue, frames) \subseteq Names
    BY <2>1, <2>2, PushOK, GivenUpOK
  <2> DEFINE new == [stream[k] EXCEPT !.subs = stream[k].subs \cup {n},
                                      !.queue = Push(stream[k].queue, frames)]
  <2>5. new \in Stream /\ new.queue = Push(stream[k].queue, frames)
    BY <2>1, <2>4 DEF Stream
  <2>6. stream' = stream \/ stream' = [stream EXCEPT ![k] = new]
    BY <2>1, <2>3 DEF Subscribe, frames, Sent, Stream, TypeOK
  <2> HIDE DEF new
  <2>7. stream' \in [Streams -> Stream] /\ \A j \in Streams : Len(stream'[j].queue) <= QueueSize
    BY <2>1, <2>4, <2>5, <2>6 DEF TypeOK
  <2>8. Attached(n) \in Pty
    BY <2>1 DEF Attached, Pty
  <2>9. pty' \in [Names -> Pty]
    BY <2>1, <2>3, <2>8 DEF Subscribe, TypeOK
  <2>10. reader' \in [Names -> Reader]
    <3>1. [reader[n] EXCEPT !.step = "reading"] \in Reader
      BY <2>1 DEF Reader
    <3>2. reader' = reader \/ reader' = [reader EXCEPT ![n] = [reader[n] EXCEPT !.step = "reading"]]
      BY <2>1, <2>3 DEF Subscribe, TypeOK
    <3> QED BY <2>1, <3>1, <3>2 DEF TypeOK
  <2>11. excused' \subseteq Terminals
    <3>1. Owner(k) \subseteq Clients
      BY DEF Owner
    <3>2. excused' \subseteq excused \cup (Owner(k) \X (GivenUp(stream[k].queue, frames) \cup {n}))
      BY <2>3 DEF Subscribe, frames, Sent
    <3> QED BY <2>1, <2>4, <3>1, <3>2 DEF Terminals, TypeOK
  <2>12. posts' \subseteq Post
    BY <1>0, <1>1, AnswerOK DEF HandleSubscribe, Send, TypeOK
  <2> QED BY <1>1, <2>7, <2>9, <2>10, <2>11, <2>12 DEF HandleSubscribe, TypeOK, counts
<1>2. ASSUME RefuseSubscribe(p) PROVE TypeOK'
  BY <1>2 DEF RefuseSubscribe, Send, server, TypeOK
<1>3. ASSUME HandleUnsubscribe(p) PROVE TypeOK'
  <2>1. p.id \in Streams
    BY <1>0, <1>3 DEF HandleUnsubscribe, Asks
  <2>2. stream' = [stream EXCEPT ![p.id] = [stream[p.id] EXCEPT !.subs = stream[p.id].subs \ {p.name}]]
    BY <1>3, <2>1 DEF HandleUnsubscribe, TypeOK, Stream
  <2>3. stream' \in [Streams -> Stream] /\ \A j \in Streams : Len(stream'[j].queue) <= QueueSize
    BY <2>1, <2>2 DEF TypeOK, Stream
  <2>4. posts' \subseteq Post
    BY <1>0, <1>3, AnswerOK DEF HandleUnsubscribe, Send, TypeOK
  <2> QED BY <1>3, <2>3, <2>4 DEF HandleUnsubscribe, TypeOK, counts
<1>4. ASSUME Answered(p) PROVE TypeOK'
  <2>1. p.client \in Clients /\ p.name \in Names
    BY <1>0
  <2>2. [term[p.client][p.name] EXCEPT !.active = (p.kind = "subok"), !.pending = FALSE] \in Term
    <3>1. \A t \in Term, b \in BOOLEAN : [t EXCEPT !.active = b, !.pending = FALSE] \in Term
      BY DEF Term
    <3>2. (p.kind = "subok") \in BOOLEAN /\ term[p.client][p.name] \in Term
      BY <2>1
    <3> QED BY <3>1, <3>2
  <2>3. term' = [term EXCEPT ![p.client] = [term[p.client] EXCEPT ![p.name] =
           [term[p.client][p.name] EXCEPT !.active = (p.kind = "subok"), !.pending = FALSE]]]
    BY <1>4, <2>1 DEF Answered, TypeOK
  <2>4. term' \in [Clients -> [Names -> Term]]
    BY <2>1, <2>2, <2>3 DEF TypeOK
  <2> QED BY <1>4, <2>4 DEF Answered, TypeOK, Send, server
<1> QED BY <1>1, <1>2, <1>3, <1>4 DEF Serving

(* One terminal of one tab becomes t.                                      *)
LEMMA OneTerm ==
  ASSUME TypeOK, NEW c \in Clients, NEW n \in Names, NEW t \in Term,
         term' = [term EXCEPT ![c] = [term[c] EXCEPT ![n] = t]]
  PROVE  /\ term' \in [Clients -> [Names -> Term]] /\ term'[c][n] = t
         /\ \A d \in Clients, m \in Names : <<d, m>> # <<c, n>> => term'[d][m] = term[d][m]
<1>1. term \in [Clients -> [Names -> Term]]
  BY DEF TypeOK
<1> QED BY <1>1

(* Steps of a tab.                                                         *)
LEMMA TabTypes ==
  ASSUME TypeOK, NEW c \in Clients,
         \/ Connect(c) \/ Hello(c) \/ Disconnect(c) \/ Receive(c)
         \/ \E n \in Names : Mount(c, n) \/ Unmount(c, n)
  PROVE  TypeOK'
<1> USE PartsOK
<1>1. ASSUME Connect(c) PROVE TypeOK'
  <2>1. opened' = opened + 1 /\ opened' \in Streams /\ opened' \in 0 .. MaxStreams
    BY <1>1, BoundsAssumption DEF Connect, Streams
  <2>2. PICK k \in Streams : k = opened'
    BY <2>1
  <2>3. stream' = [stream EXCEPT ![k] = [stream[k] EXCEPT !.open = TRUE]]
    BY <1>1, <2>2 DEF Connect, TypeOK, Stream
  <2>4. stream' \in [Streams -> Stream] /\ \A j \in Streams : Len(stream'[j].queue) <= QueueSize
    BY <2>3 DEF TypeOK, Stream
  <2>5. tab' = [tab EXCEPT ![c] = [tab[c] EXCEPT !.on = k]]
    BY <1>1, <2>2 DEF Connect, TypeOK, Tab
  <2>6. tab' \in [Clients -> Tab]
    BY <2>5 DEF TypeOK, Tab
  <2> QED BY <1>1, <2>1, <2>4, <2>6 DEF Connect, TypeOK
<1>2. ASSUME Hello(c) PROVE TypeOK'
  <2>1. tab' = [tab EXCEPT ![c] = [tab[c] EXCEPT !.id = tab[c].on]]
    BY <1>2 DEF Hello, TypeOK, Tab
  <2>2. tab' \in [Clients -> Tab]
    BY <2>1 DEF TypeOK, Tab
  <2>3. tab[c].on \in Streams
    BY <1>2 DEF Hello
  <2>4. posts' \subseteq Post
    <3>1. \A n \in Names : [Request("sub", c, n) EXCEPT !.id = tab[c].on] \in Post
      BY <2>3, RequestOK
    <3> QED BY <1>2, <3>1 DEF Hello, Send, TypeOK
  <2> QED BY <1>2, <2>2, <2>4 DEF Hello, TypeOK, server
<1>3. ASSUME Disconnect(c) PROVE TypeOK'
  <2>1. PICK k \in Streams : k = tab[c].on
    BY <1>3 DEF Disconnect
  <2>2. stream' = [stream EXCEPT ![k] = [stream[k] EXCEPT !.subs = {}, !.queue = <<>>]]
    BY <1>3, <2>1 DEF Disconnect, TypeOK, Stream
  <2>3. <<>> \in Seq(Frame) /\ Len(<<>>) = 0
    BY EmptySeq
  <2>4. [stream[k] EXCEPT !.subs = {}, !.queue = <<>>] \in Stream
    BY <2>3 DEF Stream
  <2>5. stream' \in [Streams -> Stream]
    BY <2>2, <2>4 DEF TypeOK
  <2>6. \A j \in Streams : Len(stream'[j].queue) <= QueueSize
    BY <2>2, <2>3, BoundsAssumption DEF TypeOK, Stream
  <2>7. tab' \in [Clients -> Tab]
    <3>1. tab' = [tab EXCEPT ![c] = [tab[c] EXCEPT !.on = 0, !.id = 0]]
      BY <1>3 DEF Disconnect, TypeOK, Tab
    <3> QED BY <3>1 DEF TypeOK, Tab
  <2>8. term' \in [Clients -> [Names -> Term]]
    <3> DEFINE new == [n \in Names |-> Again(term[c][n])]
    <3>1. \A t \in Term, b \in BOOLEAN : [t EXCEPT !.pending = b, !.active = FALSE] \in Term
      BY DEF Term
    <3>2. \A t \in Term : (t.pending \/ t.active) \in BOOLEAN
      OBVIOUS
    <3>3. \A t \in Term : Again(t) \in Term
      BY <3>1, <3>2 DEF Again
    <3>4. new \in [Names -> Term]
      BY <3>3
    <3>5. term' = [term EXCEPT ![c] = new]
      BY <1>3 DEF Disconnect, TypeOK
    <3> HIDE DEF new
    <3> QED BY <3>4, <3>5 DEF TypeOK
  <2> QED BY <1>3, <2>5, <2>6, <2>7, <2>8 DEF Disconnect, TypeOK
<1>4. ASSUME Receive(c) PROVE TypeOK'
  <2> DEFINE f == Head(stream[tab[c].on].queue)
  <2>1. PICK k \in Streams : k = tab[c].on
    BY <1>4 DEF Receive
  <2>2. f \in Frame /\ Tail(stream[k].queue) \in Seq(Frame)
        /\ Len(Tail(stream[k].queue)) = Len(stream[k].queue) - 1
    BY <1>4, <2>1, HeadTailProperties DEF Receive
  <2>3. stream' = [stream EXCEPT ![k] = [stream[k] EXCEPT !.queue = Tail(stream[k].queue)]]
    BY <1>4, <2>1 DEF Receive, TypeOK, Stream
  <2>4. stream' \in [Streams -> Stream]
    BY <2>2, <2>3 DEF TypeOK, Stream
  <2>5. \A j \in Streams : Len(stream'[j].queue) <= QueueSize
    <3>1. Len(stream[k].queue) \in Nat /\ Len(stream[k].queue) <= QueueSize
      BY LenProperties DEF TypeOK
    <3>2. Len(Tail(stream[k].queue)) <= QueueSize
      BY <2>2, <3>1, BoundsAssumption
    <3>3. \A j \in Streams : Len(stream[j].queue) <= QueueSize
      BY DEF TypeOK
    <3> QED BY <2>3, <3>2, <3>3 DEF TypeOK, Stream
  <2> HIDE DEF f
  <2>6. f.name \in Names /\ f.seq \in Nat /\ f.chunk \in Chunk
    BY <2>2 DEF Frame
  <2>7. \A t \in Term : Got(t, f, restarts) \in Term
    BY <2>2, GotOK
  <2>8. term' = term \/ term' = [term EXCEPT ![c] = [term[c] EXCEPT ![f.name] = Got(term[c][f.name], f, restarts)]]
    BY <1>4, <2>6 DEF Receive, TypeOK, f
  <2>9. term' \in [Clients -> [Names -> Term]]
    <3> DEFINE new == Got(term[c][f.name], f, restarts)
    <3>1. new \in Term
      BY <2>6, <2>7
    <3>2. term' = term \/ term' = [term EXCEPT ![c] = [term[c] EXCEPT ![f.name] = new]]
      BY <2>8
    <3> HIDE DEF new
    <3>3. CASE term' = term
      BY <3>3 DEF TypeOK
    <3>4. CASE term' # term
      BY <2>6, <3>1, <3>2, <3>4, OneTerm
    <3> QED BY <3>3, <3>4
  <2> QED BY <1>4, <2>4, <2>5, <2>9 DEF Receive, TypeOK, counts
<1>5. ASSUME NEW n \in Names, Mount(c, n) PROVE TypeOK'
  <2>1. mounts' \in 0 .. MaxMounts
    <3>1. mounts \in Nat /\ mounts < MaxMounts /\ mounts' = mounts + 1
      BY <1>5 DEF Mount
    <3> QED BY <3>1, BoundsAssumption
  <2>2. tab' \in [Clients -> Tab]
    <3>1. tab' = [tab EXCEPT ![c] = [tab[c] EXCEPT !.used = TRUE]]
      BY <1>5 DEF Mount, TypeOK, Tab
    <3> QED BY <3>1 DEF TypeOK, Tab
  <2>3. term' \in [Clients -> [Names -> Term]]
    <3> DEFINE t == term[c][n]
               new == [t EXCEPT !.mounted = TRUE, !.view = 0,
                                !.pending = (t.pending \/ tab[c].id = 0), !.before = TRUE]
    <3>1. \A u \in Term, b \in BOOLEAN :
            [u EXCEPT !.mounted = TRUE, !.view = 0, !.pending = b, !.before = TRUE] \in Term
      <4>1. 0 \in Count
        BY BoundsAssumption DEF Count
      <4> QED BY <4>1 DEF Term
    <3>2. new \in Term
      BY <3>1
    <3>3. term' = [term EXCEPT ![c] = [term[c] EXCEPT ![n] = new]]
      BY <1>5 DEF Mount, TypeOK, Term
    <3> HIDE DEF new
    <3> QED BY <3>2, <3>3 DEF TypeOK
  <2>4. posts' \subseteq Post
    <3>1. tab[c].id # 0 => Request("sub", c, n) \in Post
      <4>1. tab[c].id # 0 => tab[c].id \in Streams
        OBVIOUS
      <4> QED BY <4>1, RequestOK
    <3>2. posts' = posts \/ (tab[c].id # 0 /\ posts' = posts \cup {Request("sub", c, n)})
      BY <1>5 DEF Mount, Send
    <3> QED BY <3>1, <3>2 DEF TypeOK
  <2>5. excused' \subseteq Terminals
    <3>1. excused' = excused \/ excused' = excused \cup {<<c, n>>}
      BY <1>5 DEF Mount
    <3> QED BY <3>1 DEF TypeOK, Terminals
  <2> QED BY <1>5, <2>1, <2>2, <2>3, <2>4, <2>5 DEF Mount, TypeOK, server
<1>6. ASSUME NEW n \in Names, Unmount(c, n) PROVE TypeOK'
  <2>1. [term[c][n] EXCEPT !.mounted = FALSE, !.view = 0] \in Term
    <3>1. 0 \in Count
      BY BoundsAssumption DEF Count
    <3> QED BY <3>1 DEF Term
  <2>2. term' = [term EXCEPT ![c] = [term[c] EXCEPT ![n] =
                  [term[c][n] EXCEPT !.mounted = FALSE, !.view = 0]]]
    BY <1>6 DEF Unmount, TypeOK, Term
  <2>3. term' \in [Clients -> [Names -> Term]]
    BY <2>1, <2>2 DEF TypeOK
  <2>4. posts' \subseteq Post
    <3>1. tab[c].id # 0 => Request("unsub", c, n) \in Post
      <4>1. tab[c].id # 0 => tab[c].id \in Streams
        OBVIOUS
      <4> QED BY <4>1, RequestOK
    <3>2. posts' = posts \/ (tab[c].id # 0 /\ posts' = posts \cup {Request("unsub", c, n)})
      BY <1>6 DEF Unmount, Send
    <3> QED BY <3>1, <3>2 DEF TypeOK
  <2> QED BY <1>6, <2>3, <2>4 DEF Unmount, TypeOK, server
<1> QED BY <1>1, <1>2, <1>3, <1>4, <1>5, <1>6

(* Types hold at the start, through a restart and every other step.        *)
LEMMA InitTypes == Init => TypeOK
<1> SUFFICES ASSUME Init PROVE TypeOK
  OBVIOUS
<1>1. 0 \in Count /\ 0 \in 0 .. MaxStreams /\ 0 \in 0 .. MaxMounts /\ 0 \in 0 .. MaxFaults
  BY BoundsAssumption DEF Count
<1>2. Len(NoRing.chunks) = 0 /\ Len(NoStream.queue) = 0
  BY NullsOK
<1>3. 0 <= RingCap /\ 0 <= QueueSize
  BY BoundsAssumption
<1> QED BY <1>1, <1>2, <1>3, NullsOK DEF Init, TypeOK, Tab

(* A restart leaves the types.                                             *)
LEMMA RestartTypes == TypeOK /\ Restart => TypeOK'
<1> SUFFICES ASSUME TypeOK, Restart PROVE TypeOK'
  OBVIOUS
<1>1. restarts' \in 0 .. MaxFaults
  BY PartsOK, BoundsAssumption DEF Restart
<1>2. Len(NoRing.chunks) = 0 /\ Len(NoStream.queue) = 0
  BY NullsOK
<1>3. 0 <= RingCap /\ 0 <= QueueSize
  BY BoundsAssumption
<1> QED BY <1>1, <1>2, <1>3, NullsOK DEF Restart, TypeOK, Send

(* Every step leaves the types.                                            *)
LEMMA NextTypes == TypeOK /\ [Next]_vars => TypeOK'
<1> SUFFICES ASSUME TypeOK, [Next]_vars PROVE TypeOK'
  OBVIOUS
<1>1. CASE UNCHANGED vars
  BY <1>1 DEF vars, TypeOK
<1>2. CASE Next
  BY <1>2, PaneTypes, ReaderTypes, ServeTypes, TabTypes, RestartTypes DEF Next
<1> QED BY <1>1, <1>2

(* Types hold; no queue and no ring is ever longer than its limit          *)
(* (_push_frame, _ring_append).                                            *)
THEOREM TypeCorrect == Spec => []TypeOK
BY InitTypes, NextTypes, PTL DEF Spec

-----------------------------------------------------------------------------
(* A chunk is an interval of what the pane wrote.                          *)
Piece(chunk, out) == chunk.from <= chunk.to /\ chunk.to <= out
(* The pane, its attachment and its reader: what was read was fed, what    *)
(* was fed was written, and a reader has what was read last.               *)
Attachment(n) ==
  /\ pty[n].read <= pty[n].fed /\ pty[n].fed <= pane[n].out
  /\ pty[n].state = "open" => pane[n].up /\ pty[n].fed = pane[n].out
  /\ reader[n].step = "none" => pty[n].state \in {"none", "dead"}
  /\ reader[n].step # "got" => reader[n].chunk = NoChunk
  /\ reader[n].step = "got" => ~pty[n].redraw /\ reader[n].chunk.to = pty[n].read
  /\ Piece(reader[n].chunk, pane[n].out)
Attachments == \A n \in Names : Attachment(n)

(* Up to where the output of n was delivered, unless a redraw is due.      *)
Due(n) == pty[n].redraw \/ reader[n].chunk.full
Pos(n) == IF reader[n].step = "got" THEN reader[n].chunk.from ELSE pty[n].read

(* A step that delivers nothing of n.                                      *)
Quiet(n) ==
  /\ ring'[n] = ring[n] /\ pane[n].out <= pane'[n].out
  /\ Due(n) => Due(n)'
  /\ Due(n)' \/ Pos(n)' = Pos(n)

(* A step that leaves the pane, its PTY and its reader leaves what is said *)
(* of them.                                                                *)
LEMMA NothingMoves ==
  ASSUME TypeOK, Attachments, UNCHANGED <<pane, pty, reader, ring>>
  PROVE  Attachments' /\ \A n \in Names : Quiet(n)
<1>1. \A n \in Names : pane[n].out <= pane[n].out
  BY PartsOK DEF Count
<1> QED BY <1>1 DEF Attachments, Attachment, Piece, Quiet, Due, Pos

(* What the pane and its attachment do on their own.                       *)
LEMMA PaneQuiet ==
  ASSUME TypeOK, Attachments, NEW n \in Names,
         Output(n) \/ Input(n) \/ InputFails(n) \/ AttachmentEnds(n) \/ PaneEnds(n)
           \/ PaneReturns(n) \/ Remove_(n)
  PROVE  Attachments' /\ \A m \in Names : Quiet(m)
<1>1. /\ reader' = reader /\ ring' = ring
      /\ \A m \in Names : m # n => pane'[m] = pane[m] /\ pty'[m] = pty[m]
      /\ pty'[n].read = pty[n].read /\ pty'[n].redraw = pty[n].redraw
      /\ pty'[n].fed = pty[n].fed \/ (pty[n].state = "open" /\ pty'[n].fed = pane'[n].out)
      /\ pane'[n].out = pane[n].out \/ pane'[n].out = pane[n].out + 1
      /\ pty'[n].state = "open" =>
           pty[n].state = "open" /\ pane'[n].up = pane[n].up
             /\ (pane'[n].out = pane[n].out \/ pty'[n].fed = pane'[n].out)
      /\ reader[n].step = "none" => pty'[n].state \in {"none", "dead"}
  <2> USE DEF TypeOK, Pty
  <2>1. ASSUME Output(n) PROVE <1>1!:
    BY <2>1 DEF Output, Fed, Attachments, Attachment
  <2>2. CASE Input(n)
    BY <2>1, <2>2 DEF Input
  <2>3. CASE InputFails(n)
    BY <2>3 DEF InputFails, Attachments, Attachment
  <2>4. CASE AttachmentEnds(n)
    BY <2>4 DEF AttachmentEnds, Hung, Attachments, Attachment
  <2>5. CASE PaneEnds(n)
    BY <2>5 DEF PaneEnds, Hung, Attachments, Attachment
  <2>6. CASE PaneReturns(n)
    BY <2>6 DEF PaneReturns, Attachments, Attachment, server
  <2>7. CASE Remove_(n)
    BY <2>7 DEF Remove_, Attachments, Attachment
  <2> QED BY <2>1, <2>2, <2>3, <2>4, <2>5, <2>6, <2>7
<1>2. \A m \in Names : /\ pty[m].read \in Nat /\ pty[m].fed \in Nat /\ pane[m].out \in Nat
                       /\ reader[m].chunk.to \in Nat /\ reader[m].chunk.from \in Nat
  BY PartsOK DEF Count, Chunk
<1>3. \A m \in Names : Attachment(m)'
  <2> TAKE m \in Names
  <2>1. Attachment(m)
    BY DEF Attachments
  <2>2. CASE m # n
    BY <1>1, <2>1, <2>2 DEF Attachment, Piece
  <2>3. CASE m = n
    BY <1>1, <1>2, <2>1, <2>3 DEF Attachment, Piece
  <2> QED BY <2>2, <2>3
<1>4. \A m \in Names : Quiet(m)
  <2> TAKE m \in Names
  <2>1. CASE m # n
    BY <1>1, <1>2, <2>1 DEF Quiet, Due, Pos
  <2>2. CASE m = n
    BY <1>1, <1>2, <2>2 DEF Quiet, Due, Pos
  <2> QED BY <2>1, <2>2
<1> QED BY <1>3, <1>4 DEF Attachments

(* Reading and starting a reader deliver nothing yet.                      *)
LEMMA ReadQuiet ==
  ASSUME TypeOK, Attachments, NEW n \in Names, Read(n) \/ ReadFails(n) \/ ReaderEnds(n)
  PROVE  Attachments' /\ \A m \in Names : Quiet(m)
<1>0. \A m \in Names : /\ pty[m].read \in Nat /\ pty[m].fed \in Nat /\ pane[m].out \in Nat
                       /\ reader[m].chunk.to \in Nat /\ reader[m].chunk.from \in Nat
                       /\ pty[m].redraw \in BOOLEAN
  BY PartsOK DEF Count, Chunk
<1>1. /\ pane' = pane /\ ring' = ring
      /\ \A m \in Names : m # n => pty'[m] = pty[m] /\ reader'[m] = reader[m]
  BY DEF Read, ReadFails, ReaderEnds, TypeOK
<1>2. ASSUME NEW m \in Names, m # n PROVE Attachment(m)' /\ Quiet(m)
  <2>1. Attachment(m)
    BY DEF Attachments
  <2> QED BY <1>0, <1>1, <1>2, <2>1 DEF Attachment, Piece, Quiet, Due, Pos
<1>3. Attachment(n)
  BY DEF Attachments
<1>4. CASE Read(n)
  <2> DEFINE chunk == [full |-> pty[n].redraw, from |-> pty[n].read, to |-> pty[n].fed]
  <2>1. reader'[n] = [step |-> "got", chunk |-> chunk]
    BY <1>4 DEF Read, TypeOK
  <2>2. /\ pty'[n].read = pty[n].fed /\ pty'[n].redraw = FALSE
        /\ pty'[n].fed = pty[n].fed /\ pty'[n].state = pty[n].state
    BY <1>4 DEF Read, TypeOK, Pty
  <2>3. reader[n].step = "reading"
    BY <1>4 DEF Read
  <2>4. reader'[n].step = "got" /\ reader'[n].chunk.full = pty[n].redraw
        /\ reader'[n].chunk.from = pty[n].read /\ reader'[n].chunk.to = pty[n].fed
    BY <2>1
  <2>5. reader[n].chunk.full = FALSE
    BY <1>3, <2>3 DEF Attachment, NoChunk
  <2>6. Attachment(n)'
    BY <1>0, <1>1, <1>3, <2>2, <2>4 DEF Attachment, Piece
  <2>7. Quiet(n)
    BY <1>0, <1>1, <2>2, <2>3, <2>4, <2>5 DEF Quiet, Due, Pos
  <2> QED BY <1>2, <2>6, <2>7 DEF Attachments
<1>5. CASE ReadFails(n)
  <2>1. /\ pty'[n].read = pty[n].read /\ pty'[n].redraw = pty[n].redraw
        /\ pty'[n].fed = pty[n].fed /\ pty'[n].state = "dead" /\ reader'[n] = reader[n]
    BY <1>5 DEF ReadFails, TypeOK, Pty
  <2>2. Attachment(n)' /\ Quiet(n)
    BY <1>0, <1>1, <1>3, <2>1 DEF Attachment, Piece, Quiet, Due, Pos
  <2> QED BY <1>2, <2>2 DEF Attachments
<1>6. CASE ReaderEnds(n)
  <2>1. pty'[n] = pty[n] /\ reader'[n] = NoReader /\ pty[n].state = "dead" /\ reader[n].step = "reading"
    BY <1>6 DEF ReaderEnds, TypeOK
  <2>2. NoReader.step = "none" /\ NoReader.chunk = NoChunk
    BY DEF NoReader
  <2>3. Attachment(n)' /\ Quiet(n)
    BY <1>0, <1>1, <1>3, <2>1, <2>2 DEF Attachment, Piece, Quiet, Due, Pos
  <2> QED BY <1>2, <2>3 DEF Attachments
<1> QED BY <1>4, <1>5, <1>6

(* A subscription may attach a PTY anew and start its reader.              *)
LEMMA SubscribeQuiet ==
  ASSUME TypeOK, Attachments, NEW p \in posts, NEW captured \in BOOLEAN, HandleSubscribe(p, captured)
  PROVE  Attachments' /\ \A m \in Names : Quiet(m)
<1>0. \A m \in Names : /\ pty[m].read \in Nat /\ pty[m].fed \in Nat /\ pane[m].out \in Nat
                       /\ reader[m].chunk.to \in Nat /\ reader[m].chunk.from \in Nat
                       /\ pty[m].redraw \in BOOLEAN
  BY PartsOK DEF Count, Chunk
<1>1. PICK n \in Names : n = p.name
  BY PartsOK, PostOK
<1>2. /\ pane' = pane /\ ring' = ring /\ pane[n].up
      /\ pty' = IF reader[n].step = "none" THEN [pty EXCEPT ![n] = Attached(n)] ELSE pty
      /\ reader' = IF reader[n].step = "none" THEN [reader EXCEPT ![n].step = "reading"] ELSE reader
  BY <1>1 DEF HandleSubscribe, Subscribe
<1>3. CASE reader[n].step # "none"
  BY <1>2, <1>3, NothingMoves
<1>4. CASE reader[n].step = "none"
  <2>1. Attachment(n)
    BY DEF Attachments
  <2>2. pty'[n] = [state |-> "open", fed |-> pane[n].out, read |-> pane[n].out, redraw |-> TRUE]
    BY <1>2, <1>4, <2>1 DEF Attached, Attachment, TypeOK
  <2>3. reader'[n].step = "reading" /\ reader'[n].chunk = reader[n].chunk
    BY <1>2, <1>4 DEF TypeOK, Reader
  <2>4. Attachment(n)' /\ Quiet(n)
    BY <1>0, <1>2, <1>4, <2>1, <2>2, <2>3 DEF Attachment, Piece, Quiet, Due, Pos
  <2>5. ASSUME NEW m \in Names, m # n PROVE Attachment(m)' /\ Quiet(m)
    <3>1. pty'[m] = pty[m] /\ reader'[m] = reader[m]
      BY <1>2, <2>5 DEF TypeOK
    <3>2. Attachment(m)
      BY DEF Attachments
    <3> QED BY <1>0, <1>2, <3>1, <3>2 DEF Attachment, Piece, Quiet, Due, Pos
  <2> QED BY <2>4, <2>5 DEF Attachments
<1> QED BY <1>3, <1>4

(* A chunk is delivered: it is the next of its ring.                       *)
Delivers(n) ==
  LET chunk == reader[n].chunk IN
  /\ ring'[n] = Appended(ring[n], chunk) /\ pane'[n] = pane[n]
  /\ reader[n].step = "got" /\ ~Due(n)' /\ Pos(n)' = chunk.to
  /\ Piece(chunk, pane[n].out) /\ ~pty[n].redraw

(* The reader task delivers the chunk it has read.                         *)
LEMMA SpreadDelivers ==
  ASSUME TypeOK, Attachments, NEW n \in Names, Spread(n)
  PROVE  Attachments' /\ Delivers(n) /\ \A m \in Names \ {n} : Quiet(m)
<1>0. \A m \in Names : /\ pty[m].read \in Nat /\ pty[m].fed \in Nat /\ pane[m].out \in Nat
                       /\ reader[m].chunk.to \in Nat /\ reader[m].chunk.from \in Nat
                       /\ pty[m].redraw \in BOOLEAN
  BY PartsOK DEF Count, Chunk
<1>1. /\ pane' = pane /\ pty' = pty /\ ring' = [ring EXCEPT ![n] = Appended(ring[n], reader[n].chunk)]
      /\ reader' = [reader EXCEPT ![n] = [step |-> "reading", chunk |-> NoChunk]]
      /\ reader[n].step = "got"
  BY DEF Spread
<1>2. ring'[n] = Appended(ring[n], reader[n].chunk)
      /\ reader'[n] = [step |-> "reading", chunk |-> NoChunk]
      /\ \A m \in Names : m # n => ring'[m] = ring[m] /\ reader'[m] = reader[m]
  BY <1>1 DEF TypeOK
<1>3. NoChunk.full = FALSE /\ NoChunk.from = 0 /\ NoChunk.to = 0
  BY DEF NoChunk
<1>4. ASSUME NEW m \in Names PROVE Attachment(m)
  BY DEF Attachments
<1>5. Attachment(n)' /\ Delivers(n)
  BY <1>0, <1>1, <1>2, <1>3, <1>4 DEF Attachment, Piece, Delivers, Due, Pos
<1>6. ASSUME NEW m \in Names, m # n PROVE Attachment(m)' /\ Quiet(m)
  BY <1>0, <1>1, <1>2, <1>4, <1>6 DEF Attachment, Piece, Quiet, Due, Pos
<1> QED BY <1>5, <1>6 DEF Attachments

(* A restart detaches everything.                                          *)
LEMMA RestartAttaches == ASSUME TypeOK, Attachments, Restart PROVE Attachments'
<1>1. pane' = pane /\ pty' = [n \in Names |-> NoPty] /\ reader' = [n \in Names |-> NoReader]
  BY DEF Restart
<1>2. \A n \in Names : pane[n].out \in Nat
  BY PartsOK DEF Count
<1>3. /\ NoPty.read = 0 /\ NoPty.fed = 0 /\ NoPty.state = "none"
      /\ NoReader.step = "none" /\ NoReader.chunk = NoChunk /\ NoChunk.from = 0 /\ NoChunk.to = 0
  BY DEF NoPty, NoReader, NoChunk
<1>4. ASSUME NEW n \in Names PROVE Attachment(n)'
  <2>1. pty'[n] = NoPty /\ reader'[n] = NoReader /\ pane'[n] = pane[n]
    BY <1>1
  <2> QED BY <1>2, <1>3, <2>1 DEF Attachment, Piece
<1> QED BY <1>4 DEF Attachments

(* What steps there are, as a terminal of n sees them.                     *)
LEMMA NextAttaches ==
  ASSUME TypeOK, Attachments, [Next]_vars
  PROVE  /\ Attachments'
         /\ \A n \in Names : Quiet(n) \/ (Spread(n) /\ Delivers(n)) \/ Restart
<1>1. CASE UNCHANGED vars
  BY <1>1, NothingMoves DEF vars
<1>2. ASSUME NEW n \in Names, Output(n) \/ Input(n) \/ InputFails(n) \/ AttachmentEnds(n)
                \/ PaneEnds(n) \/ PaneReturns(n) \/ Remove_(n)
      PROVE  Attachments' /\ \A m \in Names : Quiet(m)
  BY <1>2, PaneQuiet
<1>3. ASSUME NEW n \in Names, Reading(n)
      PROVE  Attachments' /\ \A m \in Names : Quiet(m) \/ (Spread(m) /\ Delivers(m))
  BY <1>3, ReadQuiet, SpreadDelivers DEF Reading
<1>4. ASSUME NEW p \in posts, Serving(p) PROVE Attachments' /\ \A m \in Names : Quiet(m)
  <2>1. ASSUME NEW captured \in BOOLEAN, HandleSubscribe(p, captured)
        PROVE  Attachments' /\ \A m \in Names : Quiet(m)
    BY <2>1, SubscribeQuiet
  <2>2. RefuseSubscribe(p) \/ HandleUnsubscribe(p) \/ Answered(p)
          => UNCHANGED <<pane, pty, reader, ring>>
    BY DEF RefuseSubscribe, HandleUnsubscribe, Answered, server
  <2> QED BY <1>4, <2>1, <2>2, NothingMoves DEF Serving
<1>5. ASSUME NEW c \in Clients, \/ Connect(c) \/ Hello(c) \/ Disconnect(c) \/ Receive(c)
                                \/ \E n \in Names : Mount(c, n) \/ Unmount(c, n)
      PROVE  Attachments' /\ \A m \in Names : Quiet(m)
  <2>1. UNCHANGED <<pane, pty, reader, ring>>
    BY <1>5 DEF Connect, Hello, Disconnect, Receive, Mount, Unmount, server
  <2> QED BY <2>1, NothingMoves
<1>6. CASE Restart
  BY <1>6, RestartAttaches
<1> QED BY <1>1, <1>2, <1>3, <1>4, <1>5, <1>6 DEF Next

-----------------------------------------------------------------------------
(* What the terminals of n depend on: its ring, how far its output was     *)
(* delivered and how far it was written, and the restarts there have been. *)
World(n) == [ring |-> ring[n], due |-> Due(n), pos |-> Pos(n), out |-> pane[n].out, now |-> restarts]
Worlds == {w \in [ring : Ring, due : BOOLEAN, pos : Count, out : Count, now : Nat] :
             Len(w.ring.chunks) <= RingCap}
Ends(w, view) == w.due \/ view = w.pos

(* Its steps: nothing is delivered, a chunk is, or the server starts anew. *)
Still(w, v) ==
  /\ v.ring = w.ring /\ v.now = w.now /\ w.out <= v.out
  /\ w.due => v.due
  /\ v.due \/ v.pos = w.pos
Delivered(w, v, chunk) ==
  /\ v.ring = Appended(w.ring, chunk) /\ v.now = w.now /\ v.out = w.out
  /\ w.due = chunk.full /\ w.pos = chunk.from /\ ~v.due /\ v.pos = chunk.to
  /\ Piece(chunk, w.out)
Anew(w, v) == v.ring = NoRing /\ v.now = w.now + 1 /\ w.out <= v.out

(* The ring is numbered, its chunks continue one another, and the last one *)
(* ends where the reader stands.                                           *)
Numbered(w) ==
  LET chunks == w.ring.chunks IN
  /\ chunks = <<>> => w.ring.next = 1
  /\ \A i \in 1 .. Len(chunks) : /\ chunks[i].seq + Len(chunks) + 1 = w.ring.next + i
                                 /\ Piece(chunks[i].chunk, w.out)
Connected(w) ==
  LET chunks == w.ring.chunks IN
  /\ \A i \in 2 .. Len(chunks) : Continues(chunks[i].chunk, chunks[i - 1].chunk.to)
  /\ chunks # <<>> => Ends(w, chunks[Len(chunks)].chunk.to)

(* The types of the parts of a world.                                      *)
LEMMA WorldParts ==
  ASSUME NEW w \in Worlds
  PROVE  /\ w.ring \in Ring /\ w.due \in BOOLEAN /\ w.pos \in Count /\ w.out \in Count
         /\ w.now \in Nat /\ w.pos \in Nat /\ w.out \in Nat
         /\ w.ring.next \in Nat \ {0} /\ w.ring.chunks \in Seq([seq : Nat, chunk : Chunk])
         /\ Len(w.ring.chunks) \in Nat /\ (w.ring.chunks = <<>> <=> Len(w.ring.chunks) = 0)
         /\ Len(w.ring.chunks) <= RingCap
         /\ \A i \in 1 .. Len(w.ring.chunks) :
              /\ w.ring.chunks[i].seq \in Nat /\ w.ring.chunks[i].chunk \in Chunk
              /\ w.ring.chunks[i].chunk.full \in BOOLEAN
              /\ w.ring.chunks[i].chunk.from \in Nat /\ w.ring.chunks[i].chunk.to \in Nat
<1>1. /\ w.ring \in Ring /\ w.due \in BOOLEAN /\ w.pos \in Count /\ w.out \in Count
      /\ w.now \in Nat /\ Len(w.ring.chunks) <= RingCap
  BY DEF Worlds
<1>2. PICK r \in Ring : r = w.ring
  BY <1>1
<1>3. r.chunks \in Seq([seq : Nat, chunk : Chunk]) /\ r.next \in Nat \ {0}
  BY DEF Ring
<1>4. Len(r.chunks) \in Nat /\ (r.chunks = <<>> <=> Len(r.chunks) = 0)
  BY <1>3, LenProperties, EmptySeq
<1>5. ASSUME NEW i \in 1 .. Len(r.chunks)
      PROVE  /\ r.chunks[i].seq \in Nat /\ r.chunks[i].chunk \in Chunk
             /\ r.chunks[i].chunk.full \in BOOLEAN
             /\ r.chunks[i].chunk.from \in Nat /\ r.chunks[i].chunk.to \in Nat
  <2>1. PICK e \in [seq : Nat, chunk : Chunk] : e = r.chunks[i]
    BY <1>3, ElementOfSeq
  <2>2. PICK f \in Chunk : f = e.chunk
    OBVIOUS
  <2>3. f.full \in BOOLEAN /\ f.from \in Nat /\ f.to \in Nat
    BY DEF Chunk, Count
  <2> QED BY <2>1, <2>2, <2>3
<1>6. w.pos \in Nat /\ w.out \in Nat
  BY <1>1 DEF Count
<1> QED BY <1>1, <1>2, <1>3, <1>4, <1>5, <1>6

(* A step that delivers nothing leaves the ring as it is.                  *)
LEMMA StillRing ==
  ASSUME NEW w \in Worlds, NEW v \in Worlds, Still(w, v), Numbered(w), Connected(w)
  PROVE  Numbered(v) /\ Connected(v)
<1>1. v.ring = w.ring /\ w.out <= v.out
  BY DEF Still
<1>2. ASSUME NEW i \in 1 .. Len(w.ring.chunks) PROVE Piece(w.ring.chunks[i].chunk, v.out)
  <2>1. PICK from, to \in Nat : from = w.ring.chunks[i].chunk.from /\ to = w.ring.chunks[i].chunk.to
    BY WorldParts
  <2>2. from <= to /\ to <= w.out
    BY <2>1 DEF Numbered, Piece
  <2>3. w.out \in Nat /\ v.out \in Nat
    BY WorldParts
  <2>4. from <= to /\ to <= v.out
    BY <1>1, <2>2, <2>3
  <2> QED BY <2>1, <2>4 DEF Piece
<1>3. \A x : Ends(w, x) => Ends(v, x)
  BY DEF Still, Ends
<1> QED BY <1>1, <1>2, <1>3 DEF Numbered, Connected

(* What a delivery makes of the ring: the oldest chunk may go.             *)
LEMMA DeliveredChunks ==
  ASSUME NEW w \in Worlds, NEW v \in Worlds, NEW chunk \in Chunk, Delivered(w, v, chunk)
  PROVE  LET old == w.ring.chunks
             new == v.ring.chunks
         IN /\ v.ring.next = w.ring.next + 1
            /\ \E x \in {0, 1} :
                 /\ x <= Len(old) /\ Len(new) = Len(old) + 1 - x
                 /\ \A i \in 1 .. Len(old) - x : new[i] = old[i + x]
                 /\ new[Len(old) + 1 - x].seq = w.ring.next
                 /\ new[Len(old) + 1 - x].chunk = chunk
<1>1. w.ring \in Ring /\ Len(w.ring.chunks) <= RingCap /\ Len(w.ring.chunks) \in Nat
  BY WorldParts
<1>2. PICK r \in Ring : r = w.ring
  BY <1>1
<1>3. PICK s : s = Appended(r, chunk)
  OBVIOUS
<1>4. v.ring = s
  BY <1>2, <1>3 DEF Delivered
<1>5. /\ s.next = r.next + 1 /\ Len(s.chunks) >= 1
      /\ \E x \in {0, 1} :
           /\ Len(s.chunks) = Len(r.chunks) + 1 - x
           /\ \A i \in 1 .. Len(r.chunks) - x : s.chunks[i] = r.chunks[i + x]
           /\ s.chunks[Len(r.chunks) + 1 - x] = [seq |-> r.next, chunk |-> chunk]
  BY <1>1, <1>2, <1>3, AppendedOK
<1>6. PICK x \in {0, 1} :
        /\ Len(s.chunks) = Len(r.chunks) + 1 - x
        /\ \A i \in 1 .. Len(r.chunks) - x : s.chunks[i] = r.chunks[i + x]
        /\ s.chunks[Len(r.chunks) + 1 - x] = [seq |-> r.next, chunk |-> chunk]
  BY <1>5
<1>7. x <= Len(r.chunks) /\ s.next = r.next + 1
  BY <1>1, <1>2, <1>5, <1>6
<1>8. s.chunks[Len(r.chunks) + 1 - x].seq = r.next /\ s.chunks[Len(r.chunks) + 1 - x].chunk = chunk
  BY <1>6
<1>9. /\ x <= Len(r.chunks) /\ Len(s.chunks) = Len(r.chunks) + 1 - x
      /\ \A i \in 1 .. Len(r.chunks) - x : s.chunks[i] = r.chunks[i + x]
      /\ s.chunks[Len(r.chunks) + 1 - x].seq = r.next
      /\ s.chunks[Len(r.chunks) + 1 - x].chunk = chunk
  BY <1>6, <1>7, <1>8
<1> QED BY <1>2, <1>4, <1>7, <1>9

(* A delivery numbers its chunk and leaves the ring connected.             *)
LEMMA DeliveredRing ==
  ASSUME NEW w \in Worlds, NEW v \in Worlds, NEW chunk \in Chunk, Delivered(w, v, chunk),
         Numbered(w), Connected(w)
  PROVE  Numbered(v) /\ Connected(v)
<1> DEFINE old == w.ring.chunks
           new == v.ring.chunks
           L   == Len(old)
<1>1. /\ L \in Nat /\ Len(new) \in Nat /\ w.ring.next \in Nat \ {0}
      /\ \A i \in 1 .. L : old[i].seq \in Nat
      /\ (old = <<>> <=> L = 0) /\ (new = <<>> <=> Len(new) = 0)
  BY WorldParts
<1>2. v.ring.next = w.ring.next + 1
  BY DeliveredChunks
<1>3. PICK x \in {0, 1} : /\ x <= L /\ Len(new) = L + 1 - x
                          /\ \A i \in 1 .. L - x : new[i] = old[i + x]
                          /\ new[L + 1 - x].seq = w.ring.next
                          /\ new[L + 1 - x].chunk = chunk
  BY DeliveredChunks
<1>4. /\ \A i \in 1 .. L : old[i].seq + L + 1 = w.ring.next + i /\ Piece(old[i].chunk, w.out)
      /\ \A i \in 2 .. L : Continues(old[i].chunk, old[i - 1].chunk.to)
      /\ L # 0 => Ends(w, old[L].chunk.to)
  BY <1>1 DEF Numbered, Connected
<1>5. Piece(chunk, w.out) /\ v.out = w.out /\ Ends(v, chunk.to)
      /\ \A to : Ends(w, to) => Continues(chunk, to)
  BY DEF Delivered, Ends, Continues
<1> HIDE DEF old, new, L
<1>6. ASSUME NEW i \in 1 .. L - x PROVE i + x \in 1 .. L /\ new[i] = old[i + x]
  BY <1>1, <1>3
<1>7. ASSUME NEW i \in 1 .. Len(new)
      PROVE  new[i].seq + Len(new) + 1 = v.ring.next + i /\ Piece(new[i].chunk, v.out)
  <2>1. CASE i \in 1 .. L - x
    <3>1. PICK s \in Nat : s = new[i].seq
      BY <1>1, <1>6, <2>1
    <3>2. s + L + 1 = w.ring.next + (i + x) /\ Piece(new[i].chunk, w.out)
      BY <1>4, <1>6, <2>1, <3>1
    <3>3. \A l, m, j \in Nat : s + l + 1 = m + (j + x) => s + (l + 1 - x) + 1 = (m + 1) + j
      OBVIOUS
    <3>4. s + (L + 1 - x) + 1 = (w.ring.next + 1) + i
      BY <1>1, <3>2, <3>3
    <3>5. s + Len(new) + 1 = v.ring.next + i
      BY <1>2, <1>3, <3>4
    <3> QED BY <1>5, <3>1, <3>2, <3>5
  <2>2. CASE i = L + 1 - x
    <3>1. new[i].seq = w.ring.next /\ new[i].chunk = chunk
      BY <1>3, <2>2
    <3>2. w.ring.next + Len(new) + 1 = v.ring.next + i
      BY <1>1, <1>2, <1>3, <2>2
    <3> QED BY <1>5, <3>1, <3>2
  <2> QED BY <1>1, <1>3, <2>1, <2>2
<1>8. ASSUME NEW i \in 2 .. Len(new) PROVE Continues(new[i].chunk, new[i - 1].chunk.to)
  <2>1. i - 1 \in 1 .. L - x /\ i - 1 + x = i + x - 1
    BY <1>1, <1>3
  <2>2. new[i - 1] = old[i + x - 1]
    BY <1>6, <2>1
  <2>3. CASE i \in 1 .. L - x
    <3>1. new[i] = old[i + x] /\ i + x \in 2 .. L
      BY <1>1, <1>6, <2>3
    <3> QED BY <1>4, <2>2, <3>1
  <2>4. CASE i = L + 1 - x
    <3>1. new[i].chunk = chunk /\ i + x - 1 = L /\ L # 0
      BY <1>1, <1>3, <2>1, <2>4
    <3> QED BY <1>4, <1>5, <2>2, <3>1
  <2> QED BY <1>1, <1>3, <2>3, <2>4
<1>9. new # <<>> /\ new[Len(new)].chunk = chunk
  BY <1>1, <1>3
<1> QED BY <1>5, <1>7, <1>8, <1>9 DEF Numbered, Connected, new

-----------------------------------------------------------------------------
(* What of a terminal depends on the frames: its last and what it shows.   *)
Screens == [last : Nat, view : Count \cup {Torn}, life : Nat]
Screen(t) == [last |-> t.last, view |-> t.view, life |-> t.life]

(* The screen of a terminal, before and after a frame.                     *)
LEMMA TermScreen ==
  ASSUME NEW t \in Term
  PROVE  /\ Screen(t) \in Screens
         /\ \A f \in Frame, now \in Nat : Screen(Got(t, f, now)) = Got(Screen(t), f, now)
<1>1. Screen(t) \in Screens
  BY DEF Screen, Screens, Term
<1>2. ASSUME NEW f \in Frame, NEW now \in Nat
      PROVE  Screen(Got(t, f, now)) = Got(Screen(t), f, now)
  <2> DEFINE view == Written(t.view, f.chunk)
             last == IF f.seq > t.last THEN f.seq ELSE t.last
             life == IF f.seq > t.last THEN now ELSE t.life
  <2>1. \A a, b, x, y, z : [last |-> a, view |-> b, life |-> x].last = a
    OBVIOUS
  <2>2. Screen(t).view = t.view /\ Screen(t).last = t.last /\ Screen(t).life = t.life
    BY DEF Screen
  <2>3. Got(Screen(t), f, now) =
          [[[Screen(t) EXCEPT !.view = view] EXCEPT !.last = last] EXCEPT !.life = life]
    BY <2>2 DEF Got
  <2>4. Got(t, f, now) = [[[t EXCEPT !.view = view] EXCEPT !.last = last] EXCEPT !.life = life]
    BY DEF Got
  <2> HIDE DEF view, last, life
  <2>5. Got(Screen(t), f, now) = [last |-> last, view |-> view, life |-> life]
    BY <2>3 DEF Screen
  <2>6. Got(t, f, now).view = view /\ Got(t, f, now).last = last /\ Got(t, f, now).life = life
    BY <2>4 DEF Term
  <2> QED BY <2>5, <2>6 DEF Screen
<1> QED BY <1>1, <1>2

(* What a frame makes of it.                                               *)
LEMMA GotScreen ==
  ASSUME NEW t \in Screens, NEW f \in Frame, NEW now \in Nat
  PROVE  LET u == Got(t, f, now) IN
         /\ u \in Screens /\ u.view = Written(t.view, f.chunk)
         /\ u.last = IF f.seq > t.last THEN f.seq ELSE t.last
         /\ u.life = IF f.seq > t.last THEN now ELSE t.life
         /\ u.view = IF Continues(f.chunk, t.view) THEN f.chunk.to ELSE Torn
<1>1. f.seq \in Nat /\ f.chunk \in Chunk /\ t.last \in Nat /\ t.life \in Nat
      /\ t.view \in Count \cup {Torn}
  BY DEF Frame, Screens
<1>2. Written(t.view, f.chunk) = IF Continues(f.chunk, t.view) THEN f.chunk.to ELSE Torn
  BY DEF Written, Continues
<1>3. Written(t.view, f.chunk) \in Count \cup {Torn}
  BY <1>1 DEF Written, Chunk
<1>4. (IF f.seq > t.last THEN f.seq ELSE t.last) \in Nat
      /\ (IF f.seq > t.last THEN now ELSE t.life) \in Nat
  BY <1>1
<1> QED BY <1>2, <1>3, <1>4 DEF Got, Screens

(* What is kept of a terminal is not ahead of its server.                  *)
Fits(w, t) ==
  /\ t.life <= w.now /\ (t.life = w.now => t.last < w.ring.next)
  /\ t.view # Torn => t.view <= w.out
(* The ring reaches back to where the terminal is (Reaches), and then its  *)
(* next chunk continues the screen, or there is none and nothing is lost.  *)
Served(w, t) ==
  /\ t.life = w.now /\ t.last # 0 /\ w.ring.chunks # <<>>
  /\ t.last >= w.ring.chunks[1].seq - 1
Joins(w, t) == Served(w, t) =>
  /\ t.view # Torn
  /\ t.last = w.ring.next - 1 => Ends(w, t.view)
  /\ \A i \in 1 .. Len(w.ring.chunks) :
       w.ring.chunks[i].seq = t.last + 1 => Continues(w.ring.chunks[i].chunk, t.view)

(* The types of the parts of a screen.                                     *)
LEMMA ScreenParts ==
  ASSUME NEW t \in Screens
  PROVE  t.last \in Nat /\ t.life \in Nat /\ t.view \in Count \cup {Torn}
         /\ (t.view # Torn => t.view \in Nat)
BY DEF Screens, Count

(* A screen fits the world after each of its steps.                        *)
LEMMA FitsStays ==
  ASSUME NEW w \in Worlds, NEW v \in Worlds, NEW t \in Screens, Fits(w, t),
         Still(w, v) \/ Anew(w, v) \/ \E chunk \in Chunk : Delivered(w, v, chunk)
  PROVE  Fits(v, t)
<1>1. t.last \in Nat /\ t.life \in Nat /\ w.now \in Nat /\ w.out \in Nat /\ v.out \in Nat
      /\ w.ring.next \in Nat /\ (t.view # Torn => t.view \in Nat)
  BY WorldParts, ScreenParts
<1>2. w.out <= v.out
  BY <1>1 DEF Still, Anew, Delivered
<1>3. t.view # Torn => t.view <= v.out
  BY <1>1, <1>2 DEF Fits
<1>4. \/ v.now = w.now /\ v.ring.next \in {w.ring.next, w.ring.next + 1}
      \/ v.now = w.now + 1
  <2>1. ASSUME NEW chunk \in Chunk, Delivered(w, v, chunk)
        PROVE  v.now = w.now /\ v.ring.next = w.ring.next + 1
    BY <2>1, DeliveredChunks DEF Delivered
  <2>2. Still(w, v) => v.now = w.now /\ v.ring.next = w.ring.next
    BY DEF Still
  <2>3. Anew(w, v) => v.now = w.now + 1
    BY DEF Anew
  <2> QED BY <2>1, <2>2, <2>3
<1>5. t.life <= v.now /\ (t.life = v.now => t.last < v.ring.next)
  BY <1>1, <1>4 DEF Fits
<1> QED BY <1>3, <1>5 DEF Fits

(* A screen that a delta would continue is still continued.                *)
LEMMA JoinsStill ==
  ASSUME NEW w \in Worlds, NEW v \in Worlds, NEW t, Still(w, v), Joins(w, t)
  PROVE  Joins(v, t)
<1>1. v.ring = w.ring /\ v.now = w.now
  BY DEF Still
<1>2. Ends(w, t.view) => Ends(v, t.view)
  BY DEF Still, Ends
<1> QED BY <1>1, <1>2 DEF Joins, Served

(* After a restart there is no ring to be continued from.                  *)
LEMMA JoinsAnew ==
  ASSUME NEW w \in Worlds, NEW v \in Worlds, NEW t \in Screens, Anew(w, v), Fits(w, t)
  PROVE  Joins(v, t)
<1>1. w.now \in Nat /\ t.life \in Nat /\ v.now = w.now + 1 /\ t.life <= w.now
  BY WorldParts, ScreenParts DEF Anew, Fits
<1> QED BY <1>1 DEF Joins, Served

(* The chunk delivered is the next piece of the delta.                     *)
LEMMA JoinsDelivered ==
  ASSUME NEW w \in Worlds, NEW v \in Worlds, NEW chunk \in Chunk, Delivered(w, v, chunk),
         NEW t \in Screens, Numbered(w), Fits(w, t), Joins(w, t)
  PROVE  Joins(v, t)
<1> SUFFICES ASSUME Served(v, t) PROVE Joins(v, t)
  BY DEF Joins
<1> DEFINE old == w.ring.chunks
           new == v.ring.chunks
           L   == Len(old)
           next == w.ring.next
<1>1. /\ L \in Nat /\ Len(new) \in Nat /\ next \in Nat \ {0} /\ t.last \in Nat
      /\ \A i \in 1 .. L : old[i].seq \in Nat
      /\ (old = <<>> <=> L = 0) /\ (new = <<>> <=> Len(new) = 0)
  BY WorldParts, ScreenParts
<1>2. v.ring.next = next + 1
  BY DeliveredChunks
<1>3. PICK x \in {0, 1} : /\ x <= L /\ Len(new) = L + 1 - x
                          /\ \A i \in 1 .. L - x : new[i] = old[i + x]
                          /\ new[L + 1 - x].seq = next
                          /\ new[L + 1 - x].chunk = chunk
  BY DeliveredChunks
<1>4. /\ \A i \in 1 .. L : old[i].seq + L + 1 = next + i
      /\ L = 0 => next = 1
  BY <1>1 DEF Numbered
<1>5. t.life = w.now /\ t.last # 0 /\ t.last < next /\ new # <<>> /\ t.last >= new[1].seq - 1
  BY DEF Served, Fits, Delivered
<1>6. \A to : Ends(w, to) => Continues(chunk, to)
  BY DEF Delivered, Ends, Continues
<1>7. Joins(w, t)
  OBVIOUS
<1> HIDE DEF old, new, L, next
<1>8. L # 0
  BY <1>1, <1>4, <1>5
<1>9. PICK a \in Nat : a = old[1].seq /\ a + L = next
  <2>1. 1 \in 1 .. L
    BY <1>1, <1>8
  <2> QED BY <1>1, <1>4, <2>1
<1>. L \in Nat /\ next \in Nat /\ t.last \in Nat
  BY <1>1
<1>10. t.last >= a - 1
  <2>1. CASE L - x = 0
    <3>1. L + 1 - x = 1
      BY <1>1, <2>1
    <3>2. t.last >= next - 1
      BY <1>3, <1>5, <3>1
    <3> QED BY <1>9, <3>2
  <2>2. CASE L - x # 0
    <3>1. 1 \in 1 .. L - x /\ 1 + x \in 1 .. L
      BY <1>1, <1>3, <2>2
    <3>2. PICK b \in Nat : b = old[1 + x].seq /\ b + L + 1 = next + (1 + x)
      BY <1>1, <1>4, <3>1
    <3>3. new[1] = old[1 + x]
      BY <1>3, <3>1
    <3>4. t.last >= b - 1
      BY <1>5, <3>2, <3>3
    <3>5. a <= b
      BY <1>9, <3>2
    <3> QED BY <3>4, <3>5
  <2> QED BY <2>1, <2>2
<1>11. Served(w, t)
  BY <1>1, <1>5, <1>8, <1>9, <1>10 DEF Served, old
<1>12. /\ t.view # Torn
       /\ t.last = next - 1 => Ends(w, t.view)
       /\ \A i \in 1 .. L : old[i].seq = t.last + 1 => Continues(old[i].chunk, t.view)
  BY <1>7, <1>11 DEF Joins, old, L, next
<1>13. t.last # v.ring.next - 1
  BY <1>1, <1>2, <1>5
<1>14. ASSUME NEW i \in 1 .. Len(new), new[i].seq = t.last + 1
       PROVE  Continues(new[i].chunk, t.view)
  <2>1. CASE i \in 1 .. L - x
    <3>1. new[i] = old[i + x] /\ i + x \in 1 .. L
      BY <1>1, <1>3, <2>1
    <3> QED BY <1>12, <1>14, <3>1
  <2>2. CASE i = L + 1 - x
    <3>1. next = t.last + 1 /\ new[i].chunk = chunk
      BY <1>3, <1>14, <2>2
    <3>2. t.last = next - 1
      BY <3>1
    <3> QED BY <1>6, <1>12, <3>1, <3>2
  <2> QED BY <1>1, <1>3, <2>1, <2>2
<1> QED BY <1>12, <1>13, <1>14 DEF Joins, new

-----------------------------------------------------------------------------
(* What a terminal of n becomes with each frame that is queued for its tab *)
(* (Receive): at each point it could join the ring, its screen is torn     *)
(* only before a repaint, and in the end it is where the reader is.        *)
After(n, t, f, now) == IF f.name = n THEN Got(t, f, now) ELSE t
Traces(w, n, queue, trace) ==
  /\ trace \in [0 .. Len(queue) -> Screens]
  /\ \A i \in 1 .. Len(queue) : trace[i] = After(n, trace[i - 1], queue[i], w.now)
  /\ \A i \in 0 .. Len(queue) :
       /\ Fits(w, trace[i]) /\ Joins(w, trace[i])
       /\ trace[i].view = Torn =>
            \E j \in i + 1 .. Len(queue) : queue[j].name = n /\ queue[j].chunk.full
  /\ Ends(w, trace[Len(queue)].view)
Brings(w, n, t, queue) ==
  \E trace \in [0 .. Len(queue) -> Screens] : trace[0] = t /\ Traces(w, n, queue, trace)

(* A frame makes a screen of a screen.                                     *)
LEMMA AfterOK ==
  ASSUME NEW n, NEW t \in Screens, NEW f \in Frame, NEW now \in Nat
  PROVE  After(n, t, f, now) \in Screens
BY GotScreen DEF After

(* A function that does not change from one argument to the next.          *)
LEMMA Unchanging ==
  ASSUME NEW e \in Nat, NEW f, \A i \in 1 .. e : f[i] = f[i - 1]
  PROVE  f[e] = f[0]
<1> SUFFICES ASSUME f[e] # f[0] PROVE FALSE
  OBVIOUS
<1> DEFINE Less == {ss \in Nat \X Nat : ss[1] < ss[2]}
           T    == {i \in 0 .. e : f[i] # f[0]}
<1>1. IsWellFoundedOn(Less, Nat)
  BY NatLessThanWellFounded DEF OpToRel, Less
<1>2. T \subseteq Nat /\ T # {}
  OBVIOUS
<1> HIDE DEF Less, T
<1>3. PICK i \in T : \A j \in T : ~ (<<j, i>> \in Less)
  BY <1>1, <1>2, WFMin
<1>4. i \in 1 .. e /\ f[i] # f[0]
  BY DEF T
<1>5. i - 1 \in T
  BY <1>4 DEF T
<1>6. <<i - 1, i>> \in Less
  BY <1>4 DEF Less
<1> QED BY <1>3, <1>5, <1>6

(* A queue that brings the screen to the reader still does.                *)
LEMMA BringsStill ==
  ASSUME NEW w \in Worlds, NEW v \in Worlds, Still(w, v), NEW n, NEW t,
         NEW queue \in Seq(Frame), Brings(w, n, t, queue)
  PROVE  Brings(v, n, t, queue)
<1>1. PICK trace \in [0 .. Len(queue) -> Screens] : trace[0] = t /\ Traces(w, n, queue, trace)
  BY DEF Brings
<1>2. v.now = w.now /\ (Ends(w, trace[Len(queue)].view) => Ends(v, trace[Len(queue)].view))
  BY DEF Still, Ends
<1>3. \A i \in 0 .. Len(queue) : Fits(v, trace[i]) /\ Joins(v, trace[i])
  <2> TAKE i \in 0 .. Len(queue)
  <2>1. trace[i] \in Screens /\ Fits(w, trace[i]) /\ Joins(w, trace[i])
    BY <1>1 DEF Traces
  <2> QED BY <2>1, FitsStays, JoinsStill
<1>4. Traces(v, n, queue, trace)
  BY <1>1, <1>2, <1>3 DEF Traces
<1> QED BY <1>1, <1>4 DEF Brings

(* What follows the first e frames.                                        *)
LEMMA TraceAfter ==
  ASSUME NEW w \in Worlds, NEW n, NEW queue \in Seq(Frame), NEW e \in 0 .. Len(queue),
         NEW trace, Traces(w, n, queue, trace)
  PROVE  Brings(w, n, trace[e], SubSeq(queue, e + 1, Len(queue)))
<1>1. /\ Len(queue) \in Nat /\ e \in Nat /\ e <= Len(queue)
  BY LenProperties
<1>2. PICK rest : rest = SubSeq(queue, e + 1, Len(queue))
  OBVIOUS
<1>3. Len(rest) = Len(queue) - e /\ \A i \in 1 .. Len(queue) - e : rest[i] = queue[e + i]
  BY <1>2, SuffixOK
<1>4. PICK L \in Nat : L = Len(queue)
  BY <1>1
<1> DEFINE new == [i \in 0 .. L - e |-> trace[e + i]]
<1>5. \A i \in 0 .. L - e : e + i \in 0 .. L
  BY <1>1, <1>4
<1>6. new \in [0 .. L - e -> Screens] /\ \A i \in 0 .. L - e : new[i] = trace[e + i]
  BY <1>4, <1>5 DEF Traces
<1>7. new[0] = trace[e] /\ new[L - e] = trace[L]
  BY <1>1, <1>4
<1> HIDE DEF new
<1>8. \A i \in 1 .. L - e : new[i] = After(n, new[i - 1], rest[i], w.now)
  <2> TAKE i \in 1 .. L - e
  <2>1. e + i \in 1 .. L /\ i - 1 \in 0 .. L - e /\ e + (i - 1) = (e + i) - 1 /\ i \in 0 .. L - e
    BY <1>1, <1>4
  <2>2. trace[e + i] = After(n, trace[(e + i) - 1], queue[e + i], w.now)
    BY <1>4, <2>1 DEF Traces
  <2>3. new[i] = trace[e + i] /\ new[i - 1] = trace[(e + i) - 1] /\ rest[i] = queue[e + i]
    BY <1>3, <1>4, <1>6, <2>1
  <2> QED BY <2>2, <2>3
<1>9. ASSUME NEW i \in 0 .. L - e
      PROVE  /\ Fits(w, new[i]) /\ Joins(w, new[i])
             /\ new[i].view = Torn => \E j \in i + 1 .. L - e : rest[j].name = n /\ rest[j].chunk.full
  <2>1. e + i \in 0 .. L /\ new[i] = trace[e + i]
    BY <1>5, <1>6
  <2>2. Fits(w, new[i]) /\ Joins(w, new[i])
    BY <1>4, <2>1 DEF Traces
  <2>3. ASSUME new[i].view = Torn
        PROVE  \E j \in i + 1 .. L - e : rest[j].name = n /\ rest[j].chunk.full
    <3>1. PICK j \in e + i + 1 .. L : queue[j].name = n /\ queue[j].chunk.full
      BY <1>4, <2>1, <2>3 DEF Traces
    <3>2. j - e \in i + 1 .. L - e /\ j - e \in 1 .. L - e /\ e + (j - e) = j
      BY <1>1
    <3>3. rest[j - e] = queue[j]
      BY <1>3, <1>4, <3>2
    <3> QED BY <3>1, <3>2, <3>3
  <2> QED BY <2>2, <2>3
<1>10. Ends(w, new[L - e].view)
  BY <1>4, <1>7 DEF Traces
<1>11. Traces(w, n, rest, new)
  BY <1>3, <1>4, <1>6, <1>8, <1>9, <1>10 DEF Traces
<1> QED BY <1>2, <1>3, <1>4, <1>6, <1>7, <1>11 DEF Brings

(* Frames of others that are given up change nothing.                      *)
LEMMA BringsWithout ==
  ASSUME NEW w \in Worlds, NEW n, NEW t, NEW queue \in Seq(Frame), NEW e \in 0 .. Len(queue),
         \A i \in 1 .. e : queue[i].name # n, Brings(w, n, t, queue)
  PROVE  Brings(w, n, t, SubSeq(queue, e + 1, Len(queue)))
<1>1. PICK trace \in [0 .. Len(queue) -> Screens] : trace[0] = t /\ Traces(w, n, queue, trace)
  BY DEF Brings
<1>2. e \in Nat /\ \A i \in 1 .. e : i \in 1 .. Len(queue)
  BY LenProperties
<1>3. \A i \in 1 .. e : trace[i] = trace[i - 1]
  BY <1>1, <1>2 DEF Traces, After
<1>4. trace[e] = t
  BY <1>1, <1>2, <1>3, Unchanging
<1> QED BY <1>1, <1>4, TraceAfter

(* It still does when a push gives up none of the terminal's frames.       *)
LEMMA PushBrings ==
  ASSUME NEW w \in Worlds, NEW n, NEW t, NEW queue \in Seq(Frame), NEW frames \in Seq(Frame),
         Brings(w, n, t, queue \o frames), n \notin GivenUp(queue, frames)
  PROVE  Brings(w, n, t, Push(queue, frames))
<1>1. PICK all : all = queue \o frames
  OBVIOUS
<1>2. all \in Seq(Frame) /\ Excess(all) \in 0 .. Len(all)
  BY <1>1, PushOK
<1>3. Push(queue, frames) = SubSeq(all, Excess(all) + 1, Len(all))
  BY <1>1 DEF Push
<1>4. \A i \in 1 .. Excess(all) : all[i].name # n
  BY <1>1 DEF GivenUp
<1>5. Brings(w, n, t, all)
  BY <1>1
<1> QED BY <1>2, <1>3, <1>4, <1>5, BringsWithout

(* Two sequences, one after the other.                                     *)
LEMMA Joined2 ==
  ASSUME NEW queue \in Seq(Frame), NEW frames \in Seq(Frame)
  PROVE  LET all == queue \o frames IN
         /\ all \in Seq(Frame) /\ Len(all) = Len(queue) + Len(frames)
         /\ Len(queue) \in Nat /\ Len(frames) \in Nat
         /\ \A i \in 1 .. Len(queue) : all[i] = queue[i]
         /\ \A i \in 1 .. Len(frames) : all[Len(queue) + i] = frames[i]
BY PushOK, LenProperties

(* Frames of others that are pushed change nothing.                        *)
LEMMA BringsOthers ==
  ASSUME NEW w \in Worlds, NEW n, NEW t, NEW queue \in Seq(Frame), NEW frames \in Seq(Frame),
         \A i \in 1 .. Len(frames) : frames[i].name # n, Brings(w, n, t, queue)
  PROVE  Brings(w, n, t, queue \o frames)
<1>1. PICK trace \in [0 .. Len(queue) -> Screens] : trace[0] = t /\ Traces(w, n, queue, trace)
  BY DEF Brings
<1>2. PICK L, M \in Nat : L = Len(queue) /\ M = Len(frames)
  BY LenProperties
<1>3. PICK all : all = queue \o frames
  OBVIOUS
<1>4. Len(all) = L + M /\ (\A i \in 1 .. L : all[i] = queue[i])
      /\ (\A i \in 1 .. M : all[L + i] = frames[i])
  BY <1>2, <1>3, Joined2
<1> DEFINE new == [i \in 0 .. L + M |-> IF i <= L THEN trace[i] ELSE trace[L]]
<1>5. L \in 0 .. L /\ trace[L] \in Screens /\ \A i \in 0 .. L : trace[i] \in Screens
  BY <1>2
<1>6. /\ new \in [0 .. L + M -> Screens] /\ new[0] = trace[0] /\ new[L + M] = trace[L]
      /\ \A i \in 0 .. L : new[i] = trace[i]
      /\ \A i \in L + 1 .. L + M : new[i] = trace[L] /\ new[i - 1] = trace[L]
  <2>1. new \in [0 .. L + M -> Screens]
    BY <1>5
  <2>2. \A i \in 0 .. L + M : new[i] = IF i <= L THEN trace[i] ELSE trace[L]
    OBVIOUS
  <2> HIDE DEF new
  <2>3. \A i \in 0 .. L : i \in 0 .. L + M /\ i <= L
    OBVIOUS
  <2>4. \A i \in 0 .. L : new[i] = trace[i]
    BY <2>2, <2>3
  <2>5. \A i \in L .. L + M : new[i] = trace[L]
    BY <2>2
  <2>6. \A i \in L + 1 .. L + M : i \in L .. L + M /\ i - 1 \in L .. L + M
    OBVIOUS
  <2> QED BY <2>1, <2>4, <2>5, <2>6
<1> HIDE DEF new
<1>7. ASSUME NEW i \in 1 .. L + M PROVE new[i] = After(n, new[i - 1], all[i], w.now)
  <2>1. CASE i \in 1 .. L
    <3>1. i - 1 \in 0 .. L /\ i \in 0 .. L
      BY <2>1
    <3> QED BY <1>1, <1>2, <1>4, <1>6, <2>1, <3>1 DEF Traces
  <2>2. CASE i \in L + 1 .. L + M
    <3>1. i - L \in 1 .. M /\ L + (i - L) = i
      BY <2>2
    <3>2. all[i] = frames[i - L]
      BY <1>4, <3>1
    <3>3. all[i].name # n
      BY <1>2, <3>1, <3>2
    <3> QED BY <1>6, <2>2, <3>3 DEF After
  <2> QED BY <2>1, <2>2
<1>8. trace[L].view # Torn /\ Fits(w, trace[L]) /\ Joins(w, trace[L]) /\ Ends(w, trace[L].view)
  BY <1>1, <1>2, <1>5 DEF Traces
<1>9. ASSUME NEW i \in 0 .. L + M
      PROVE  /\ Fits(w, new[i]) /\ Joins(w, new[i])
             /\ new[i].view = Torn => \E j \in i + 1 .. L + M : all[j].name = n /\ all[j].chunk.full
  <2>1. CASE i \in 0 .. L
    <3>1. new[i] = trace[i] /\ Fits(w, new[i]) /\ Joins(w, new[i])
      BY <1>1, <1>2, <1>6, <2>1 DEF Traces
    <3>2. ASSUME new[i].view = Torn
          PROVE  \E j \in i + 1 .. L + M : all[j].name = n /\ all[j].chunk.full
      <4>1. PICK j \in i + 1 .. L : queue[j].name = n /\ queue[j].chunk.full
        BY <1>1, <1>2, <2>1, <3>1, <3>2 DEF Traces
      <4>2. j \in 1 .. L /\ j \in i + 1 .. L + M
        BY <2>1
      <4> QED BY <1>4, <4>1, <4>2
    <3> QED BY <3>1, <3>2
  <2>2. CASE i \in L + 1 .. L + M
    BY <1>6, <1>8, <2>2
  <2> QED BY <2>1, <2>2
<1>10. Traces(w, n, all, new)
  BY <1>4, <1>6, <1>7, <1>8, <1>9 DEF Traces
<1> QED BY <1>1, <1>3, <1>4, <1>6, <1>10 DEF Brings

(* What is pushed to a terminal for which nothing is queued.               *)
LEMMA BringsAfterOthers ==
  ASSUME NEW w \in Worlds, NEW n, NEW t, NEW queue \in Seq(Frame), NEW frames \in Seq(Frame),
         \A i \in 1 .. Len(queue) : queue[i].name # n, Brings(w, n, t, frames)
  PROVE  Brings(w, n, t, queue \o frames)
<1>1. PICK trace \in [0 .. Len(frames) -> Screens] : trace[0] = t /\ Traces(w, n, frames, trace)
  BY DEF Brings
<1>2. PICK L, M \in Nat : L = Len(queue) /\ M = Len(frames)
  BY LenProperties
<1>3. PICK all : all = queue \o frames
  OBVIOUS
<1>4. Len(all) = L + M /\ (\A i \in 1 .. L : all[i] = queue[i])
      /\ (\A i \in 1 .. M : all[L + i] = frames[i])
  BY <1>2, <1>3, Joined2
<1> DEFINE new == [i \in 0 .. L + M |-> IF i <= L THEN t ELSE trace[i - L]]
<1>5. 0 \in 0 .. M /\ t \in Screens /\ \A i \in 0 .. M : trace[i] \in Screens
  BY <1>1, <1>2
<1>6. /\ new \in [0 .. L + M -> Screens] /\ new[0] = t
      /\ \A i \in 0 .. L : new[i] = t
      /\ \A i \in 0 .. M : new[L + i] = trace[i]
  <2>1. \A i \in 0 .. L + M : i <= L \/ i - L \in 0 .. M
    OBVIOUS
  <2>2. new \in [0 .. L + M -> Screens]
    BY <1>5, <2>1
  <2>3. ASSUME NEW i \in 0 .. M PROVE new[L + i] = trace[i]
    <3>1. L + i \in 0 .. L + M /\ (L + i <= L => i = 0) /\ (L + i) - L = i
      OBVIOUS
    <3> QED BY <1>1, <3>1
  <2>4. 0 \in 0 .. L /\ \A i \in 0 .. L : i \in 0 .. L + M /\ i <= L
    OBVIOUS
  <2>5. \A i \in 0 .. L : new[i] = t
    BY <2>4
  <2> HIDE DEF new
  <2> QED BY <2>2, <2>3, <2>4, <2>5
<1> HIDE DEF new
<1>7. ASSUME NEW i \in 1 .. L + M PROVE new[i] = After(n, new[i - 1], all[i], w.now)
  <2>1. CASE i \in 1 .. L
    <3>1. i - 1 \in 0 .. L /\ i \in 0 .. L
      BY <2>1
    <3> QED BY <1>2, <1>4, <1>6, <2>1, <3>1 DEF After
  <2>2. CASE i \in L + 1 .. L + M
    <3>1. i - L \in 1 .. M /\ L + (i - L) = i /\ i - L \in 0 .. M
          /\ (i - L) - 1 \in 0 .. M /\ L + ((i - L) - 1) = i - 1
      BY <2>2
    <3>2. new[i] = trace[i - L] /\ new[i - 1] = trace[(i - L) - 1] /\ all[i] = frames[i - L]
      BY <1>4, <1>6, <3>1
    <3>3. trace[i - L] = After(n, trace[(i - L) - 1], frames[i - L], w.now)
      BY <1>1, <1>2, <3>1 DEF Traces
    <3> QED BY <3>2, <3>3
  <2> QED BY <2>1, <2>2
<1>8. ASSUME NEW k \in 0 .. M, trace[k].view = Torn
      PROVE  \E j \in L + k + 1 .. L + M : all[j].name = n /\ all[j].chunk.full
  <2>1. PICK j \in k + 1 .. M : frames[j].name = n /\ frames[j].chunk.full
    BY <1>1, <1>2, <1>8 DEF Traces
  <2>2. j \in 1 .. M /\ L + j \in L + k + 1 .. L + M
    OBVIOUS
  <2> QED BY <1>4, <2>1, <2>2
<1>9. ASSUME NEW i \in 0 .. L + M
      PROVE  /\ Fits(w, new[i]) /\ Joins(w, new[i])
             /\ new[i].view = Torn => \E j \in i + 1 .. L + M : all[j].name = n /\ all[j].chunk.full
  <2>1. PICK k \in 0 .. M : new[i] = trace[k] /\ i <= L + k
    <3>1. CASE i \in 0 .. L
      <4>1. new[i] = trace[0] /\ i <= L + 0
        BY <1>1, <1>6, <3>1
      <4> QED BY <1>5, <4>1
    <3>2. CASE i \in L + 1 .. L + M
      <4>1. i - L \in 0 .. M /\ L + (i - L) = i
        BY <3>2
      <4>2. new[i] = trace[i - L] /\ i <= L + (i - L)
        BY <1>6, <4>1
      <4> QED BY <4>1, <4>2
    <3> QED BY <3>1, <3>2
  <2>2. Fits(w, new[i]) /\ Joins(w, new[i])
    BY <1>1, <1>2, <2>1 DEF Traces
  <2>3. \A j \in L + k + 1 .. L + M : j \in i + 1 .. L + M
    BY <2>1
  <2> QED BY <1>8, <2>1, <2>2, <2>3
<1>10. Ends(w, new[L + M].view)
  <2>1. new[L + M] = trace[M]
    BY <1>6
  <2> QED BY <1>1, <1>2, <2>1 DEF Traces
<1>11. Traces(w, n, all, new)
  BY <1>4, <1>6, <1>7, <1>9, <1>10 DEF Traces
<1> QED BY <1>3, <1>4, <1>6, <1>11 DEF Brings

(* A terminal that has all there is, and shows it.                         *)
LEMMA AtEnd ==
  ASSUME NEW w \in Worlds, Numbered(w), NEW u \in Screens, u.view \in Nat, u.view <= w.out,
         Ends(w, u.view), u.life <= w.now, u.life = w.now => u.last = w.ring.next - 1
  PROVE  Fits(w, u) /\ Joins(w, u)
<1>1. u.last \in Nat /\ w.ring.next \in Nat \ {0} /\ u.view # Torn /\ Len(w.ring.chunks) \in Nat
  BY ScreenParts, WorldParts, TornAssumption
<1>2. Fits(w, u)
  BY <1>1 DEF Fits
<1>3. ASSUME NEW i \in 1 .. Len(w.ring.chunks), u.life = w.now
      PROVE  w.ring.chunks[i].seq # u.last + 1
  <2>1. PICK s \in Nat : s = w.ring.chunks[i].seq
    BY WorldParts
  <2>2. PICK L \in Nat : L = Len(w.ring.chunks)
    BY <1>1
  <2>3. PICK next \in Nat : next = w.ring.next
    BY <1>1
  <2>4. s + L + 1 = next + i
    BY <2>1, <2>2, <2>3 DEF Numbered
  <2>5. i \in 1 .. L
    BY <2>2
  <2>6. s < next
    BY <2>4, <2>5
  <2>7. u.last = next - 1
    BY <1>3, <2>3
  <2>8. s # u.last + 1
    BY <2>6, <2>7
  <2> QED BY <2>1, <2>8
<1> QED BY <1>1, <1>2, <1>3 DEF Joins, Served

(* A chunk that is delivered goes to the ring and to the terminal.         *)
LEMMA BringsDelivered ==
  ASSUME NEW w \in Worlds, NEW v \in Worlds, NEW chunk \in Chunk, Delivered(w, v, chunk),
         Numbered(w), Numbered(v), NEW n \in Names, NEW t, NEW queue \in Seq(Frame),
         Brings(w, n, t, queue), NEW f \in Frame, f.name = n, f.seq = w.ring.next, f.chunk = chunk
  PROVE  Brings(v, n, t, queue \o <<f>>)
<1>1. PICK trace \in [0 .. Len(queue) -> Screens] : trace[0] = t /\ Traces(w, n, queue, trace)
  BY DEF Brings
<1>2. PICK L \in Nat : L = Len(queue)
  BY LenProperties
<1> DEFINE all == queue \o <<f>>
<1>4. Len(all) = L + 1 /\ (\A i \in 1 .. L : all[i] = queue[i]) /\ all[L + 1] = f
  <2>1. <<f>> \in Seq(Frame) /\ Len(<<f>>) = 1 /\ <<f>>[1] = f /\ 1 \in 1 .. 1
    BY SingleSeq
  <2> QED BY <1>2, <2>1, Joined2
<1> HIDE DEF all
<1>5. v.now = w.now /\ v.out = w.out /\ v.ring.next = w.ring.next + 1
      /\ w.ring.next \in Nat \ {0} /\ w.now \in Nat
  BY DeliveredChunks, WorldParts DEF Delivered
<1>6. PICK last \in Screens : last = trace[L] /\ Fits(w, last) /\ Ends(w, last.view)
  BY <1>1, <1>2 DEF Traces
<1>7. PICK u \in Screens : u = Got(last, f, w.now)
  BY <1>5, GotScreen
<1>8. Fits(v, u) /\ Joins(v, u) /\ Ends(v, u.view) /\ u.view # Torn
  <2>1. Continues(f.chunk, last.view)
    BY <1>6 DEF Delivered, Ends, Continues
  <2>2. /\ u.view = chunk.to
        /\ u.last = IF f.seq > last.last THEN f.seq ELSE last.last
        /\ u.life = IF f.seq > last.last THEN w.now ELSE last.life
    BY <1>5, <1>7, <2>1, GotScreen
  <2>3. last.life \in Nat /\ last.last \in Nat /\ last.life <= w.now
        /\ (last.life = w.now => last.last < w.ring.next)
    BY <1>6, ScreenParts DEF Fits
  <2>4. u.life <= v.now /\ (u.life = v.now => u.last = v.ring.next - 1)
    BY <1>5, <2>2, <2>3
  <2>5. chunk.to \in Nat /\ chunk.to <= v.out /\ Ends(v, chunk.to)
    BY <1>5 DEF Chunk, Count, Delivered, Piece, Ends
  <2> QED BY <2>2, <2>4, <2>5, AtEnd, TornAssumption
<1> DEFINE new == [i \in 0 .. L + 1 |-> IF i <= L THEN trace[i] ELSE u]
<1>9. /\ new \in [0 .. L + 1 -> Screens] /\ new[0] = trace[0] /\ new[L + 1] = u /\ new[L] = last
      /\ \A i \in 0 .. L : new[i] = trace[i]
  <2>1. \A i \in 0 .. L : i <= L /\ i \in 0 .. L + 1
    OBVIOUS
  <2>2. 0 \in 0 .. L /\ L \in 0 .. L /\ L + 1 \in 0 .. L + 1 /\ ~(L + 1 <= L)
    OBVIOUS
  <2>3. \A i \in 0 .. L + 1 : i \in 0 .. L \/ i = L + 1
    OBVIOUS
  <2>4. \A i \in 0 .. L : new[i] = trace[i]
    BY <2>1
  <2>5. new[L + 1] = u
    BY <2>2
  <2>6. new \in [0 .. L + 1 -> Screens]
    BY <1>2, <2>3
  <2> HIDE DEF new
  <2> QED BY <1>6, <2>2, <2>4, <2>5, <2>6
<1> HIDE DEF new
<1>10. ASSUME NEW i \in 1 .. L + 1 PROVE new[i] = After(n, new[i - 1], all[i], v.now)
  <2>1. CASE i \in 1 .. L
    <3>1. i - 1 \in 0 .. L /\ i \in 0 .. L
      BY <2>1
    <3> QED BY <1>1, <1>2, <1>4, <1>5, <1>9, <2>1, <3>1 DEF Traces
  <2>2. CASE i = L + 1
    <3>1. i - 1 = L /\ all[i] = f
      BY <1>4, <2>2
    <3> QED BY <1>5, <1>7, <1>9, <2>2, <3>1 DEF After
  <2> QED BY <2>1, <2>2
<1>11. ASSUME NEW i \in 0 .. L + 1
       PROVE  /\ Fits(v, new[i]) /\ Joins(v, new[i])
              /\ new[i].view = Torn => \E j \in i + 1 .. L + 1 : all[j].name = n /\ all[j].chunk.full
  <2>1. CASE i \in 0 .. L
    <3>1. new[i] = trace[i] /\ trace[i] \in Screens /\ Fits(w, trace[i]) /\ Joins(w, trace[i])
      BY <1>1, <1>2, <1>9, <2>1 DEF Traces
    <3>2. Fits(v, new[i]) /\ Joins(v, new[i])
      BY <3>1, FitsStays, JoinsDelivered
    <3>3. ASSUME new[i].view = Torn
          PROVE  \E j \in i + 1 .. L + 1 : all[j].name = n /\ all[j].chunk.full
      <4>1. PICK j \in i + 1 .. L : queue[j].name = n /\ queue[j].chunk.full
        BY <1>1, <1>2, <2>1, <3>1, <3>3 DEF Traces
      <4>2. j \in 1 .. L /\ j \in i + 1 .. L + 1
        BY <2>1
      <4> QED BY <1>4, <4>1, <4>2
    <3> QED BY <3>2, <3>3
  <2>2. CASE i = L + 1
    BY <1>8, <1>9, <2>2
  <2> QED BY <2>1, <2>2
<1>12. Traces(v, n, all, new)
  BY <1>4, <1>8, <1>9, <1>10, <1>11 DEF Traces
<1> QED BY <1>1, <1>4, <1>9, <1>12 DEF Brings, all

(* A snapshot shows the pane as it is, tagged with the last of the ring.   *)
LEMMA BringsSnapshot ==
  ASSUME NEW w \in Worlds, Numbered(w), NEW n \in Names, NEW t \in Screens, Fits(w, t), Joins(w, t),
         NEW f \in Frame, f.name = n, f.seq = w.ring.next - 1, f.chunk.full, f.chunk.to = w.out,
         Ends(w, w.out)
  PROVE  Brings(w, n, t, <<f>>)
<1>1. <<f>> \in Seq(Frame) /\ Len(<<f>>) = 1 /\ <<f>>[1] = f
  BY SingleSeq
<1>2. w.now \in Nat /\ w.out \in Nat /\ w.ring.next \in Nat \ {0}
      /\ t.life \in Nat /\ t.last \in Nat /\ t.life <= w.now
      /\ (t.life = w.now => t.last < w.ring.next)
  BY WorldParts, ScreenParts DEF Fits
<1>3. PICK u \in Screens : u = Got(t, f, w.now)
  BY <1>2, GotScreen
<1>4. /\ u.view = w.out
      /\ u.last = IF f.seq > t.last THEN f.seq ELSE t.last
      /\ u.life = IF f.seq > t.last THEN w.now ELSE t.life
  <2>1. Continues(f.chunk, t.view)
    BY DEF Continues
  <2>2. w.now \in Nat
    BY <1>2
  <2>3. /\ u.view = IF Continues(f.chunk, t.view) THEN f.chunk.to ELSE Torn
        /\ u.last = IF f.seq > t.last THEN f.seq ELSE t.last
        /\ u.life = IF f.seq > t.last THEN w.now ELSE t.life
    BY <1>3, <2>2, GotScreen
  <2> QED BY <2>1, <2>3
<1>5. u.life <= w.now /\ (u.life = w.now => u.last = w.ring.next - 1)
  BY <1>2, <1>4
<1>6. Fits(w, u) /\ Joins(w, u) /\ Ends(w, u.view) /\ u.view # Torn
  BY <1>2, <1>4, <1>5, AtEnd, TornAssumption
<1> DEFINE new == [i \in 0 .. 1 |-> IF i = 0 THEN t ELSE u]
<1>7. new \in [0 .. 1 -> Screens] /\ new[0] = t /\ new[1] = u
  OBVIOUS
<1> HIDE DEF new
<1>8. \A i \in 1 .. 1 : i = 1 /\ i - 1 = 0
  OBVIOUS
<1>9. \A i \in 1 .. 1 : new[i] = After(n, new[i - 1], <<f>>[i], w.now)
  BY <1>1, <1>3, <1>7, <1>8 DEF After
<1>10. ASSUME NEW i \in 0 .. 1
       PROVE  /\ Fits(w, new[i]) /\ Joins(w, new[i])
              /\ new[i].view = Torn => \E j \in i + 1 .. 1 : <<f>>[j].name = n /\ <<f>>[j].chunk.full
  <2>1. CASE i = 0
    <3>1. 1 \in i + 1 .. 1
      BY <2>1
    <3> QED BY <1>1, <1>7, <2>1, <3>1
  <2>2. CASE i = 1
    BY <1>6, <1>7, <2>2
  <2> QED BY <2>1, <2>2
<1>11. Traces(w, n, <<f>>, new)
  BY <1>1, <1>6, <1>7, <1>9, <1>10 DEF Traces
<1> QED BY <1>1, <1>7, <1>11 DEF Brings

(* The numbers of the ring's chunks, and what comes after the first d.     *)
LEMMA RingSeqs ==
  ASSUME NEW w \in Worlds, Numbered(w), w.ring.chunks # <<>>
  PROVE  \E b \in Nat : /\ b + Len(w.ring.chunks) = w.ring.next /\ w.ring.chunks[1].seq = b
                        /\ \A i \in 1 .. Len(w.ring.chunks) : w.ring.chunks[i].seq + 1 = b + i
<1>1. w.ring.next \in Nat /\ Len(w.ring.chunks) # 0
  BY WorldParts
<1>2. PICK L \in Nat : L = Len(w.ring.chunks)
  BY WorldParts
<1>3. 1 \in 1 .. L
  BY <1>1, <1>2
<1>4. PICK b \in Nat : b = w.ring.chunks[1].seq
  BY <1>2, <1>3, WorldParts
<1>5. b + L = w.ring.next
  <2>1. b + L + 1 = w.ring.next + 1
    BY <1>2, <1>3, <1>4 DEF Numbered
  <2> QED BY <1>1, <2>1
<1>6. ASSUME NEW i \in 1 .. L PROVE w.ring.chunks[i].seq + 1 = b + i
  <2>1. PICK s \in Nat : s = w.ring.chunks[i].seq
    BY <1>2, WorldParts
  <2>2. s + L + 1 = w.ring.next + i
    BY <1>2, <2>1 DEF Numbered
  <2>3. s + 1 = b + i
    BY <1>1, <1>5, <2>2
  <2> QED BY <2>1, <2>3
<1> QED BY <1>2, <1>4, <1>5, <1>6

(* A screen, and what a frame makes of one that it continues.              *)
Shown(view, last, life) == [last |-> last, view |-> view, life |-> life]

(* What a frame that continues a screen makes of it.                       *)
LEMMA GotShown ==
  ASSUME NEW u \in Screens, NEW f \in Frame, NEW now \in Nat, f.seq > u.last,
         Continues(f.chunk, u.view)
  PROVE  Got(u, f, now) = Shown(f.chunk.to, f.seq, now)
<1>1. Written(u.view, f.chunk) = f.chunk.to
  BY DEF Written, Continues
<1>2. Got(u, f, now) = [u EXCEPT !.view = f.chunk.to, !.last = f.seq, !.life = now]
  BY <1>1 DEF Got
<1> QED BY <1>2 DEF Shown, Screens

(* The frames that bring a terminal from what it has to what there is.     *)
Rest(w, n, t, frames) ==
  LET M == Len(frames) IN
  /\ t.life = w.now /\ t.view # Torn /\ t.last + M + 1 = w.ring.next
  /\ \A i \in 1 .. M : frames[i].name = n /\ frames[i].seq = t.last + i /\ frames[i].chunk.to <= w.out
  /\ \A i \in 0 .. M, j \in 1 .. Len(w.ring.chunks) :
       w.ring.chunks[j].seq = t.last + i + 1 => i < M /\ w.ring.chunks[j].chunk = frames[i + 1].chunk
  /\ \A i \in 2 .. M : Continues(frames[i].chunk, frames[i - 1].chunk.to)
  /\ M = 0 => Ends(w, t.view)
  /\ M # 0 => Continues(frames[1].chunk, t.view) /\ Ends(w, frames[M].chunk.to)

(* The rest of the ring brings the screen to the reader.                   *)
LEMMA BringsRest ==
  ASSUME NEW w \in Worlds, NEW n, NEW t \in Screens, Fits(w, t),
         NEW frames \in Seq(Frame), Rest(w, n, t, frames)
  PROVE  Brings(w, n, t, frames)
<1>1. PICK M \in Nat : M = Len(frames)
  BY LenProperties
<1>2. PICK last \in Nat : last = t.last
  BY ScreenParts
<1>3. PICK now \in Nat : now = w.now /\ t.life = now
  BY WorldParts DEF Rest
<1> DEFINE view == [i \in 0 .. M |-> IF i = 0 THEN t.view ELSE frames[i].chunk.to]
<1>4. view[0] = t.view /\ \A i \in 1 .. M : view[i] = frames[i].chunk.to
  OBVIOUS
<1> HIDE DEF view
<1>5. \A i \in 1 .. M : frames[i] \in Frame
  BY <1>1, ElementOfSeq
<1>6. ASSUME NEW i \in 1 .. M
      PROVE  /\ frames[i].name = n /\ frames[i].seq = last + i
             /\ view[i] \in Count /\ view[i] <= w.out
  BY <1>1, <1>2, <1>4, <1>5 DEF Rest, Frame, Chunk
<1>7. ASSUME NEW i \in 0 .. M
      PROVE  view[i] \in Count /\ view[i] <= w.out /\ view[i] # Torn /\ view[i] \in Nat
  <2>1. CASE i = 0
    BY <1>4, <2>1, ScreenParts DEF Rest, Fits, Count
  <2>2. CASE i \in 1 .. M
    BY <1>6, <2>2, TornAssumption DEF Count
  <2> QED BY <2>1, <2>2
<1>8. ASSUME NEW i \in 1 .. M PROVE Continues(frames[i].chunk, view[i - 1])
  <2>1. CASE i = 1
    <3>1. M # 0 /\ i - 1 = 0
      BY <2>1
    <3> QED BY <1>1, <1>4, <2>1, <3>1 DEF Rest
  <2>2. CASE i # 1
    <3>1. i \in 2 .. M /\ i - 1 \in 1 .. M
      BY <2>2
    <3> QED BY <1>1, <1>4, <3>1 DEF Rest
  <2> QED BY <2>1, <2>2
<1>9. Ends(w, view[M])
  <2>1. M = 0 \/ M \in 1 .. M
    OBVIOUS
  <2> QED BY <1>1, <1>4, <2>1 DEF Rest
<1>10. w.ring.next \in Nat /\ last + M + 1 = w.ring.next
  BY <1>1, <1>2, WorldParts DEF Rest
<1> DEFINE trace == [i \in 0 .. M |-> Shown(view[i], last + i, now)]
<1>11. ASSUME NEW i \in 0 .. M
       PROVE  /\ trace[i] = Shown(view[i], last + i, now) /\ trace[i] \in Screens
              /\ trace[i].view = view[i] /\ trace[i].last = last + i /\ trace[i].life = now
  <2>1. view[i] \in Count \cup {Torn} /\ last + i \in Nat
    BY <1>7
  <2>2. trace[i] = Shown(view[i], last + i, now)
    OBVIOUS
  <2> HIDE DEF trace
  <2> QED BY <2>1, <2>2 DEF Shown, Screens
<1>12. trace \in [0 .. M -> Screens] /\ 0 \in 0 .. M
  BY <1>11
<1> HIDE DEF trace
<1>13. trace[0] = t
  <2>1. last + 0 = last
    OBVIOUS
  <2>2. trace[0] = Shown(t.view, t.last, t.life)
    BY <1>2, <1>3, <1>4, <1>11, <1>12, <2>1
  <2> QED BY <2>2 DEF Shown, Screens
<1>14. ASSUME NEW i \in 1 .. M PROVE trace[i] = After(n, trace[i - 1], frames[i], w.now)
  <2>1. i - 1 \in 0 .. M /\ i \in 0 .. M
    OBVIOUS
  <2>2. PICK u \in Screens : u = trace[i - 1]
    BY <1>11, <2>1
  <2>3. u.last = last + (i - 1) /\ u.view = view[i - 1]
    BY <1>11, <2>1, <2>2
  <2>4. frames[i].seq > u.last
    <3>1. last + i > last + (i - 1)
      OBVIOUS
    <3>2. frames[i].seq = last + i /\ u.last = last + (i - 1)
      BY <1>6, <2>3
    <3> QED BY <3>1, <3>2
  <2>5. Got(u, frames[i], now) = Shown(frames[i].chunk.to, frames[i].seq, now)
    BY <1>5, <1>8, <2>3, <2>4, GotShown
  <2>6. Got(u, frames[i], now) = trace[i]
    BY <1>4, <1>6, <1>11, <2>1, <2>3, <2>5
  <2> QED BY <1>3, <1>6, <2>2, <2>6 DEF After
<1>15. ASSUME NEW i \in 0 .. M
       PROVE  Fits(w, trace[i]) /\ Joins(w, trace[i]) /\ trace[i].view # Torn
  <2>1. PICK u \in Screens : u = trace[i]
    BY <1>11
  <2>2. u.view = view[i] /\ u.last = last + i /\ u.life = now
    BY <1>11, <2>1
  <2>3. last + i < w.ring.next /\ (last + i = w.ring.next - 1 => i = M)
    BY <1>10
  <2>4. Fits(w, u)
    BY <1>3, <1>7, <2>2, <2>3 DEF Fits
  <2>5. u.last = w.ring.next - 1 => Ends(w, u.view)
    BY <1>9, <2>2, <2>3
  <2>6. ASSUME NEW j \in 1 .. Len(w.ring.chunks), w.ring.chunks[j].seq = u.last + 1
        PROVE  Continues(w.ring.chunks[j].chunk, u.view)
    <3>1. w.ring.chunks[j].seq = last + i + 1
      BY <2>2, <2>6
    <3>2. i < M /\ w.ring.chunks[j].chunk = frames[i + 1].chunk
      BY <1>1, <1>2, <3>1 DEF Rest
    <3>3. i + 1 \in 1 .. M /\ (i + 1) - 1 = i
      BY <3>2
    <3> QED BY <1>8, <2>2, <3>2, <3>3
  <2>7. Joins(w, u)
    BY <1>7, <2>2, <2>5, <2>6 DEF Joins
  <2> QED BY <1>7, <2>1, <2>2, <2>4, <2>7
<1>16. Ends(w, trace[M].view)
  <2>1. M \in 0 .. M
    OBVIOUS
  <2> QED BY <1>9, <1>11, <2>1
<1>17. Traces(w, n, frames, trace)
  BY <1>1, <1>12, <1>14, <1>15, <1>16 DEF Traces
<1> QED BY <1>1, <1>12, <1>13, <1>17 DEF Brings

(* What the ring has after the last chunk of a terminal that it reaches.   *)
LEMMA SinceParts ==
  ASSUME TypeOK, NEW n \in Names, NEW w \in Worlds, w.ring = ring[n], NEW last \in Nat,
         NEW b \in Nat, b + Len(ring[n].chunks) = ring[n].next,
         \A i \in 1 .. Len(ring[n].chunks) : ring[n].chunks[i].seq + 1 = b + i,
         last + 1 >= b, last < ring[n].next
  PROVE  LET d == last + 1 - b
             frames == Since(n, last)
         IN /\ d \in 0 .. Len(ring[n].chunks)
            /\ frames \in Seq(Frame) /\ Len(frames) = Len(ring[n].chunks) - d
            /\ \A i \in 1 .. Len(ring[n].chunks) - d : frames[i] = FrameOf(n, ring[n].chunks[d + i])
<1> DEFINE all == Frames(n)
           d == last + 1 - b
           old == {i \in DOMAIN all : all[i].seq <= last}
<1>1. PICK L \in Nat : L = Len(ring[n].chunks)
  BY WorldParts
<1>2. all \in Seq(Frame) /\ Len(all) = L /\ DOMAIN all = 1 .. L
      /\ \A i \in 1 .. L : all[i] = FrameOf(n, ring[n].chunks[i]) /\ all[i].seq = ring[n].chunks[i].seq
  BY <1>1, FramesOK
<1>3. d \in 0 .. L
  <2>1. PICK next \in Nat : next = ring[n].next /\ b + L = next /\ last < next
    BY <1>1, WorldParts
  <2> QED BY <2>1
<1> HIDE DEF all
<1>4. \A i \in 1 .. L : all[i].seq <= last <=> i <= d
  <2> TAKE i \in 1 .. L
  <2>1. PICK s \in Nat : s = ring[n].chunks[i].seq
    BY <1>1, WorldParts
  <2>2. s + 1 = b + i
    BY <1>1, <2>1
  <2>3. s <= last <=> i <= d
    BY <2>2
  <2> QED BY <1>2, <2>1, <2>3
<1>5. old = 1 .. d
  <2>1. \A i \in 1 .. d : i \in 1 .. L
    BY <1>3
  <2>2. \A i \in 1 .. L : i <= d <=> i \in 1 .. d
    BY <1>3
  <2> QED BY <1>2, <1>4, <2>1, <2>2
<1>6. Cardinality(old) = d
  <2>1. d \in Nat /\ 1 \in Int /\ d \in Int
    BY <1>3
  <2>2. Cardinality(1 .. d) = IF 1 > d THEN 0 ELSE d - 1 + 1
    BY <2>1, FS_Interval
  <2> HIDE DEF old, d
  <2> QED BY <1>5, <2>1, <2>2
<1>7. Since(n, last) = SubSeq(all, d + 1, Len(all))
  BY <1>6 DEF Since, all
<1> HIDE DEF d
<1>8. PICK frames : frames = SubSeq(all, d + 1, Len(all))
  OBVIOUS
<1>9. frames \in Seq(Frame) /\ Len(frames) = L - d /\ \A i \in 1 .. L - d : frames[i] = all[d + i]
  BY <1>2, <1>3, <1>8, SuffixOK
<1>10. \A i \in 1 .. L - d : d + i \in 1 .. L
  BY <1>3
<1> QED BY <1>1, <1>2, <1>3, <1>7, <1>8, <1>9, <1>10 DEF d

(* _ring_since returns that rest.                                          *)
LEMMA SinceRest ==
  ASSUME TypeOK, NEW n \in Names, NEW w \in Worlds, w.ring = ring[n], Numbered(w), Connected(w),
         NEW t \in Screens, Fits(w, t), Joins(w, t), Served(w, t)
  PROVE  Since(n, t.last) \in Seq(Frame) /\ Rest(w, n, t, Since(n, t.last))
<1> DEFINE chunks == w.ring.chunks
<1>1. PICK L \in Nat : L = Len(chunks) /\ L # 0
  BY WorldParts DEF Served
<1>2. PICK last, next \in Nat : last = t.last /\ next = w.ring.next
  BY WorldParts, ScreenParts
<1>3. PICK b \in Nat : b + L = next /\ chunks[1].seq = b /\ \A i \in 1 .. L : chunks[i].seq + 1 = b + i
  BY <1>1, <1>2, RingSeqs DEF Served
<1>4. t.life = w.now /\ last + 1 >= b /\ last < next
  <2>1. last >= b - 1
    BY <1>2, <1>3 DEF Served
  <2>2. last < next /\ t.life = w.now
    BY <1>2 DEF Served, Fits
  <2> QED BY <2>1, <2>2
<1>5. PICK d : d = last + 1 - b
  OBVIOUS
<1>6. PICK frames : frames = Since(n, last)
  OBVIOUS
<1>7. d \in 0 .. L /\ frames \in Seq(Frame) /\ Len(frames) = L - d
      /\ \A i \in 1 .. L - d : frames[i] = FrameOf(n, chunks[d + i])
  <2>1. /\ b + Len(ring[n].chunks) = ring[n].next /\ last < ring[n].next
        /\ \A i \in 1 .. Len(ring[n].chunks) : ring[n].chunks[i].seq + 1 = b + i
    BY <1>1, <1>2, <1>3, <1>4
  <2> HIDE DEF chunks
  <2>2. /\ (last + 1 - b) \in 0 .. Len(ring[n].chunks)
        /\ Since(n, last) \in Seq(Frame) /\ Len(Since(n, last)) = Len(ring[n].chunks) - (last + 1 - b)
        /\ \A i \in 1 .. Len(ring[n].chunks) - (last + 1 - b) :
             Since(n, last)[i] = FrameOf(n, ring[n].chunks[(last + 1 - b) + i])
    BY <1>4, <2>1, SinceParts
  <2> QED BY <1>1, <1>5, <1>6, <2>2 DEF chunks
<1>8. PICK M \in Nat : M = Len(frames) /\ M = L - d
  BY <1>1, <1>7
<1>9. \A i \in 1 .. L : Piece(chunks[i].chunk, w.out) /\ chunks[i].seq \in Nat
  BY <1>1, WorldParts DEF Numbered
<1>10. /\ t.view # Torn
       /\ last = next - 1 => Ends(w, t.view)
       /\ \A i \in 1 .. L : chunks[i].seq = last + 1 => Continues(chunks[i].chunk, t.view)
  BY <1>1, <1>2 DEF Joins
<1>11. /\ \A i \in 2 .. L : Continues(chunks[i].chunk, chunks[i - 1].chunk.to)
       /\ Ends(w, chunks[L].chunk.to)
  BY <1>1 DEF Connected, Served
<1> HIDE DEF chunks
<1>12. last + M + 1 = next
  BY <1>3, <1>4, <1>5, <1>7, <1>8
<1>13. ASSUME NEW i \in 1 .. M
       PROVE  /\ d + i \in 1 .. L /\ frames[i].name = n /\ frames[i].chunk = chunks[d + i].chunk
              /\ frames[i].seq = last + i /\ frames[i].chunk.to <= w.out
  <2>1. PICK k \in 1 .. L : k = d + i
    BY <1>7, <1>8
  <2>2. frames[i] = FrameOf(n, chunks[k])
    BY <1>7, <1>8, <2>1
  <2>3. frames[i].name = n /\ frames[i].chunk = chunks[k].chunk /\ frames[i].seq = chunks[k].seq
    BY <2>2 DEF FrameOf
  <2>4. PICK s \in Nat : s = chunks[k].seq /\ s + 1 = b + k
    BY <1>3, <1>9
  <2>5. s = last + i
    BY <1>5, <2>1, <2>4
  <2> QED BY <1>9, <2>1, <2>3, <2>4, <2>5 DEF Piece
<1>14. ASSUME NEW i \in 0 .. M, NEW j \in 1 .. L, chunks[j].seq = last + i + 1
       PROVE  i < M /\ chunks[j].chunk = frames[i + 1].chunk
  <2>1. PICK s \in Nat : s = chunks[j].seq /\ s + 1 = b + j
    BY <1>3, <1>9
  <2>2. s = last + i + 1
    BY <1>14, <2>1
  <2>3. j = d + (i + 1)
    BY <1>5, <2>1, <2>2
  <2>4. i < M /\ i + 1 \in 1 .. M
    BY <1>7, <1>8, <2>3
  <2> QED BY <1>13, <2>3, <2>4
<1>15. ASSUME NEW i \in 2 .. M PROVE Continues(frames[i].chunk, frames[i - 1].chunk.to)
  <2>1. i \in 1 .. M /\ i - 1 \in 1 .. M /\ d + (i - 1) = (d + i) - 1
    BY <1>7
  <2>2. d + i \in 2 .. L
    BY <1>7, <1>8
  <2>3. frames[i].chunk = chunks[d + i].chunk /\ frames[i - 1].chunk = chunks[(d + i) - 1].chunk
    BY <1>13, <2>1
  <2> QED BY <1>11, <2>2, <2>3
<1>16. M = 0 => Ends(w, t.view)
  BY <1>10, <1>12
<1>17. ASSUME M # 0 PROVE Continues(frames[1].chunk, t.view) /\ Ends(w, frames[M].chunk.to)
  <2>1. 1 \in 1 .. M /\ M \in 1 .. M /\ d + M = L
    BY <1>7, <1>8, <1>17
  <2>2. d + 1 \in 1 .. L /\ frames[1].chunk = chunks[d + 1].chunk /\ frames[M].chunk = chunks[L].chunk
    BY <1>13, <2>1
  <2>3. PICK s \in Nat : s = chunks[d + 1].seq /\ s + 1 = b + (d + 1)
    BY <1>3, <1>9, <2>2
  <2>4. s = last + 1
    BY <1>5, <2>3
  <2> QED BY <1>10, <1>11, <2>2, <2>3, <2>4
<1>18. Rest(w, n, t, frames)
  BY <1>1, <1>2, <1>4, <1>8, <1>10, <1>12, <1>13, <1>14, <1>15, <1>16, <1>17 DEF Rest, chunks
<1> QED BY <1>2, <1>6, <1>7, <1>18

-----------------------------------------------------------------------------
(* The worlds of the program and their steps.                              *)
Rings == \A n \in Names : Numbered(World(n)) /\ Connected(World(n))

(* The ring, the reader and the pane of a session are a world.             *)
LEMMA WorldOK == ASSUME TypeOK, NEW n \in Names PROVE World(n) \in Worlds
<1>1. /\ ring[n] \in Ring /\ Len(ring[n].chunks) <= RingCap /\ pane[n].out \in Count
      /\ pty[n].redraw \in BOOLEAN /\ pty[n].read \in Count /\ restarts \in Nat
      /\ reader[n].chunk \in Chunk
  BY PartsOK DEF TypeOK
<1>2. Due(n) \in BOOLEAN /\ Pos(n) \in Count
  BY <1>1 DEF Due, Pos, Chunk
<1> QED BY <1>1, <1>2 DEF World, Worlds

(* Its parts.                                                              *)
LEMMA WorldIs ==
  ASSUME NEW n \in Names
  PROVE  /\ World(n).ring = ring[n] /\ World(n).due = Due(n) /\ World(n).pos = Pos(n)
         /\ World(n).out = pane[n].out /\ World(n).now = restarts
BY DEF World

(* Only a restart counts as one.                                           *)
LEMMA OnlyRestarts == ASSUME [Next]_vars, ~Restart PROVE restarts' = restarts
<1> USE DEF counts, server
<1>1. CASE UNCHANGED vars
  BY <1>1 DEF vars
<1>2. ASSUME NEW n \in Names, Output(n) \/ Input(n) \/ InputFails(n) \/ AttachmentEnds(n)
                \/ PaneEnds(n) \/ PaneReturns(n) \/ Remove_(n) \/ Reading(n)
      PROVE  restarts' = restarts
  <2>1. Output(n) => restarts' = restarts
    BY DEF Output
  <2>2. InputFails(n) \/ AttachmentEnds(n) \/ PaneEnds(n) \/ PaneReturns(n) \/ Remove_(n)
          => restarts' = restarts
    BY DEF InputFails, AttachmentEnds, PaneEnds, PaneReturns, Remove_
  <2>3. Read(n) \/ ReadFails(n) \/ ReaderEnds(n) => restarts' = restarts
    BY DEF Read, ReadFails, ReaderEnds
  <2>4. Spread(n) => restarts' = restarts
    BY DEF Spread
  <2> QED BY <1>2, <2>1, <2>2, <2>3, <2>4 DEF Input, Reading
<1>3. ASSUME NEW p \in posts, Serving(p) PROVE restarts' = restarts
  BY <1>3 DEF Serving, HandleSubscribe, RefuseSubscribe, HandleUnsubscribe, Answered
<1>4. ASSUME NEW c \in Clients, \/ Connect(c) \/ Hello(c) \/ Disconnect(c) \/ Receive(c)
                                \/ \E n \in Names : Mount(c, n) \/ Unmount(c, n)
      PROVE  restarts' = restarts
  BY <1>4 DEF Connect, Hello, Disconnect, Receive, Mount, Unmount
<1> QED BY <1>1, <1>2, <1>3, <1>4 DEF Next

(* Every step is a step of each world.                                     *)
LEMMA NextWorlds ==
  ASSUME TypeOK, TypeOK', Attachments, [Next]_vars, NEW n \in Names
  PROVE  /\ World(n) \in Worlds /\ World(n)' \in Worlds
         /\ \/ Still(World(n), World(n)')
            \/ Spread(n) /\ reader[n].chunk \in Chunk /\ Delivered(World(n), World(n)', reader[n].chunk)
            \/ Restart /\ Anew(World(n), World(n)')
<1>1. World(n) \in Worlds /\ World(n)' \in Worlds
  <2>1. World(n) \in Worlds
    BY WorldOK
  <2>2. /\ ring[n]' \in Ring /\ Len(ring[n].chunks)' <= RingCap /\ pane[n].out' \in Count
        /\ pty[n].redraw' \in BOOLEAN /\ pty[n].read' \in Count /\ restarts' \in Nat
        /\ reader[n].chunk' \in Chunk
    BY BoundsAssumption DEF TypeOK, Pty, Reader
  <2>3. Due(n)' \in BOOLEAN /\ Pos(n)' \in Count
    BY <2>2 DEF Due, Pos, Chunk
  <2> QED BY <2>1, <2>2, <2>3 DEF World, Worlds
<1>2. /\ World(n).ring = ring[n] /\ World(n).due = Due(n) /\ World(n).pos = Pos(n)
      /\ World(n).out = pane[n].out /\ World(n).now = restarts
  BY DEF World
<1>3. /\ World(n)'.ring = ring'[n] /\ World(n)'.due = Due(n)' /\ World(n)'.pos = Pos(n)'
      /\ World(n)'.out = pane'[n].out /\ World(n)'.now = restarts'
  BY DEF World
<1>4. CASE Quiet(n) /\ ~Restart
  <2>1. restarts' = restarts
    BY <1>4, OnlyRestarts
  <2> QED BY <1>1, <1>2, <1>3, <1>4, <2>1 DEF Quiet, Still
<1>5. CASE Spread(n) /\ Delivers(n)
  <2>1. restarts' = restarts
    BY <1>5 DEF Spread, counts
  <2>2. reader[n].chunk \in Chunk /\ pty[n].redraw \in BOOLEAN /\ reader[n].chunk.full \in BOOLEAN
    BY PartsOK DEF Chunk
  <2>3. Delivered(World(n), World(n)', reader[n].chunk)
    <3>1. Due(n) = reader[n].chunk.full /\ Pos(n) = reader[n].chunk.from
      BY <1>5, <2>2 DEF Delivers, Due, Pos
    <3> QED BY <1>2, <1>3, <1>5, <2>1, <3>1 DEF Delivers, Delivered
  <2> QED BY <1>1, <1>5, <2>2, <2>3
<1>6. CASE Restart
  <2>1. ring'[n] = NoRing /\ restarts' = restarts + 1 /\ pane' = pane
    BY <1>6 DEF Restart
  <2>2. pane[n].out <= pane'[n].out
    BY <2>1, PartsOK DEF Count
  <2> QED BY <1>1, <1>2, <1>3, <1>6, <2>1, <2>2 DEF Anew
<1>7. Quiet(n) \/ (Spread(n) /\ Delivers(n)) \/ Restart
  BY NextAttaches
<1> QED BY <1>4, <1>5, <1>6, <1>7

(* At the start there are no rings.                                        *)
LEMMA InitRings == ASSUME Init PROVE Attachments /\ Rings
<1>1. ASSUME NEW n \in Names PROVE Attachment(n) /\ Numbered(World(n)) /\ Connected(World(n))
  <2>1. pane[n].out = 0 /\ pty[n] = NoPty /\ reader[n] = NoReader /\ ring[n] = NoRing
    BY DEF Init
  <2>2. World(n).ring.chunks = <<>> /\ World(n).ring.next = 1
    BY <2>1, WorldIs, NullsOK
  <2>3. Len(World(n).ring.chunks) = 0
    BY <2>2, EmptySeq
  <2>4. Numbered(World(n)) /\ Connected(World(n))
    BY <2>2, <2>3 DEF Numbered, Connected
  <2>5. Attachment(n)
    BY <2>1 DEF Attachment, Piece, NoPty, NoReader, NoChunk
  <2> QED BY <2>4, <2>5
<1> QED BY <1>1 DEF Attachments, Rings

(* Every step keeps the rings numbered and connected.                      *)
LEMMA NextRings ==
  ASSUME TypeOK, TypeOK', Attachments, Rings, [Next]_vars
  PROVE  Attachments' /\ Rings'
<1>1. ASSUME NEW n \in Names PROVE Numbered(World(n)') /\ Connected(World(n)')
  <2>1. PICK w \in Worlds : w = World(n)
    BY NextWorlds
  <2>2. PICK v \in Worlds : v = World(n)'
    BY NextWorlds
  <2>3. \/ Still(w, v) \/ Anew(w, v) \/ \E chunk \in Chunk : Delivered(w, v, chunk)
    BY <2>1, <2>2, NextWorlds
  <2>4. Numbered(w) /\ Connected(w)
    BY <2>1 DEF Rings
  <2>5. CASE Anew(w, v)
    <3>1. v.ring.chunks = <<>> /\ v.ring.next = 1 /\ Len(v.ring.chunks) = 0
      BY <2>5, NullsOK, WorldParts DEF Anew
    <3> QED BY <2>2, <3>1 DEF Numbered, Connected
  <2> QED BY <2>2, <2>3, <2>4, <2>5, StillRing, DeliveredRing
<1>2. Attachments'
  BY NextAttaches
<1> QED BY <1>1, <1>2 DEF Rings

-----------------------------------------------------------------------------
(* What each kind of step does to streams, tabs, terminals and requests.   *)

(* Steps of a pane, its attachment and its reader but for Spread.          *)
Aside(n) == \/ Output(n) \/ Input(n) \/ InputFails(n) \/ AttachmentEnds(n) \/ PaneEnds(n)
            \/ PaneReturns(n) \/ Remove_(n) \/ Read(n) \/ ReadFails(n) \/ ReaderEnds(n)

(* What they leave alone.                                                  *)
LEMMA AsideEffect ==
  ASSUME NEW n \in Names, Aside(n)
  PROVE  UNCHANGED <<stream, tab, term, posts, opened, excused>>
<1> USE DEF counts, server
<1>1. Output(n) => UNCHANGED <<stream, tab, term, posts, opened, excused>>
  BY DEF Output
<1>2. InputFails(n) \/ AttachmentEnds(n) \/ PaneEnds(n) \/ PaneReturns(n) \/ Remove_(n)
        => UNCHANGED <<stream, tab, term, posts, opened, excused>>
  BY DEF InputFails, AttachmentEnds, PaneEnds, PaneReturns, Remove_
<1>3. Read(n) \/ ReadFails(n) \/ ReaderEnds(n) => UNCHANGED <<stream, tab, term, posts, opened, excused>>
  BY DEF Read, ReadFails, ReaderEnds
<1> QED BY <1>1, <1>2, <1>3 DEF Aside, Input

(* The frame of a delivery.                                                *)
NextFrame(n) == [name |-> n, seq |-> ring[n].next, chunk |-> reader[n].chunk]

(* Where a delivered chunk goes, and who is excused for it.                *)
LEMMA SpreadEffect ==
  ASSUME TypeOK, NEW n \in Names, Spread(n)
  PROVE  /\ UNCHANGED <<tab, term, posts, opened>>
         /\ NextFrame(n) \in Frame /\ <<NextFrame(n)>> \in Seq(Frame)
         /\ \A k \in Streams :
              /\ stream'[k].subs = stream[k].subs
              /\ stream'[k].queue = IF n \in stream[k].subs THEN Push(stream[k].queue, <<NextFrame(n)>>)
                                    ELSE stream[k].queue
         /\ excused \subseteq excused'
         /\ \A c \in Clients, m \in Names :
              tab[c].on # 0 /\ n \in stream[tab[c].on].subs /\ <<c, m>> \notin excused' =>
                m \notin GivenUp(stream[tab[c].on].queue, <<NextFrame(n)>>)
<1> DEFINE f == NextFrame(n)
           fan == {k \in Streams : n \in stream[k].subs}
<1>1. f \in Frame
  BY PartsOK DEF NextFrame, Frame
<1>2. <<f>> \in Seq(Frame)
  BY <1>1, SingleSeq
<1>3. /\ UNCHANGED <<tab, term, posts, opened>>
      /\ stream' = [k \in Streams |->
            IF k \in fan THEN [stream[k] EXCEPT !.queue = Push(@, <<f>>)] ELSE stream[k]]
      /\ excused' = excused \cup UNION {Owner(k) \X GivenUp(stream[k].queue, <<f>>) : k \in fan}
  BY DEF Spread, NextFrame, counts
<1> HIDE DEF f
<1>4. ASSUME NEW k \in Streams
      PROVE  /\ stream'[k].subs = stream[k].subs
             /\ stream'[k].queue = IF n \in stream[k].subs THEN Push(stream[k].queue, <<f>>)
                                   ELSE stream[k].queue
  <2>1. stream[k] \in Stream
    BY PartsOK
  <2>2. [stream[k] EXCEPT !.queue = Push(@, <<f>>)].subs = stream[k].subs
        /\ [stream[k] EXCEPT !.queue = Push(@, <<f>>)].queue = Push(stream[k].queue, <<f>>)
    BY <2>1 DEF Stream
  <2>3. stream'[k] = IF n \in stream[k].subs THEN [stream[k] EXCEPT !.queue = Push(@, <<f>>)] ELSE stream[k]
    BY <1>3
  <2> QED BY <2>2, <2>3
<1>5. ASSUME NEW c \in Clients, NEW m \in Names, tab[c].on # 0, n \in stream[tab[c].on].subs,
             m \in GivenUp(stream[tab[c].on].queue, <<f>>)
      PROVE  <<c, m>> \in excused'
  <2>1. PICK k \in fan : k = tab[c].on
    BY <1>5, PartsOK
  <2>2. <<c, m>> \in Owner(k) \X GivenUp(stream[k].queue, <<f>>)
    BY <1>5, <2>1 DEF Owner
  <2> QED BY <1>3, <2>2
<1>6. excused \subseteq excused'
  BY <1>3
<1> QED BY <1>1, <1>2, <1>3, <1>4, <1>5, <1>6 DEF f

(* A subscription is served for the tab the stream is of.                  *)
Spoilt(p, captured) ==
  \/ Reaches(p.name, p.since) /\ (p.life # restarts \/ p.name \in stream[p.id].subs)
  \/ ~Reaches(p.name, p.since) /\ (~captured \/ Behind(p.name))

(* What a served subscription changes, and who is excused for it.          *)
LEMMA SubscribeEffect ==
  ASSUME TypeOK, NEW p \in posts, NEW captured \in BOOLEAN, HandleSubscribe(p, captured)
  PROVE  /\ UNCHANGED <<pane, ring, tab, term, opened>>
         /\ posts' = (posts \ {p}) \cup {Answer(p, "subok")}
         /\ Asks(p) /\ p \in Post /\ p.kind = "sub" /\ p.id \in Streams /\ p.name \in Names
         /\ Sent(p, captured) \in Seq(Frame)
         /\ \A k \in Streams : k # p.id \/ Owner(k) = {} => stream'[k] = stream[k]
         /\ Owner(p.id) # {} =>
              /\ stream'[p.id].subs = stream[p.id].subs \cup {p.name}
              /\ stream'[p.id].queue = Push(stream[p.id].queue, Sent(p, captured))
         /\ \A c \in Clients, m \in Names :
              tab[c].on # p.id \/ m # p.name =>
                (<<c, m>> \in excused \/ (tab[c].on = p.id /\ m \in GivenUp(stream[p.id].queue, Sent(p, captured)))
                   => <<c, m>> \in excused')
         /\ \A c \in Clients : tab[c].on = p.id /\ <<c, p.name>> \notin excused' =>
              \/ /\ <<c, p.name>> \notin excused /\ ~Spoilt(p, captured)
                 /\ p.name \notin GivenUp(stream[p.id].queue, Sent(p, captured))
              \/ ~Reaches(p.name, p.since) /\ ~Spoilt(p, captured) /\ ~Mixed(c, p.name, p)
<1> DEFINE k == p.id
           n == p.name
           frames == Sent(p, captured)
           dropped == Owner(k) \X (GivenUp(stream[k].queue, frames) \cup (IF Spoilt(p, captured) THEN {n} ELSE {}))
           renewed == {t \in Owner(k) \X {n} : ~Reaches(n, p.since) /\ ~Spoilt(p, captured) /\ ~Mixed(t[1], n, p)}
<1>1. p \in Post /\ p.kind = "sub"
  BY PartsOK DEF HandleSubscribe
<1>2. Asks(p) /\ p.id \in Streams /\ p.name \in Names /\ Sent(p, captured) \in Seq(Frame)
  BY <1>1, PostOK, SentOK DEF Asks
<1>3. /\ UNCHANGED <<pane, ring, tab, term, opened>>
      /\ posts' = (posts \ {p}) \cup {Answer(p, "subok")}
      /\ stream' = IF Owner(k) = {} THEN stream
                   ELSE [stream EXCEPT ![k].subs = @ \cup {n}, ![k].queue = Push(@, frames)]
      /\ excused' = (excused \cup dropped) \ renewed
  BY DEF HandleSubscribe, Subscribe, Send, counts, Sent, Spoilt
<1>4. stream \in [Streams -> Stream]
  BY DEF TypeOK
<1> HIDE DEF frames
<1>5. ASSUME NEW j \in Streams, j # p.id \/ Owner(j) = {} PROVE stream'[j] = stream[j]
  BY <1>2, <1>3, <1>4, <1>5
<1>6. ASSUME Owner(p.id) # {}
      PROVE  stream'[p.id].subs = stream[p.id].subs \cup {p.name}
             /\ stream'[p.id].queue = Push(stream[p.id].queue, frames)
  <2>1. stream[k] \in Stream
    BY <1>2, <1>4
  <2>2. stream'[k] = [[stream[k] EXCEPT !.subs = @ \cup {n}] EXCEPT !.queue = Push(@, frames)]
    BY <1>2, <1>3, <1>4, <1>6
  <2> QED BY <2>1, <2>2 DEF Stream
<1> HIDE DEF dropped, renewed
<1>7. ASSUME NEW c \in Clients, NEW m \in Names, tab[c].on # p.id \/ m # p.name,
             <<c, m>> \in excused \/ (tab[c].on = p.id /\ m \in GivenUp(stream[p.id].queue, frames))
      PROVE  <<c, m>> \in excused'
  <2>1. <<c, m>> \notin renewed
    BY <1>7 DEF renewed, Owner
  <2>2. <<c, m>> \in excused \cup dropped
    BY <1>7 DEF dropped, Owner
  <2> QED BY <1>3, <2>1, <2>2
<1>8. ASSUME NEW c \in Clients, tab[c].on = p.id, <<c, p.name>> \notin excused'
      PROVE  \/ /\ <<c, p.name>> \notin excused /\ ~Spoilt(p, captured)
                /\ p.name \notin GivenUp(stream[p.id].queue, frames)
             \/ ~Reaches(p.name, p.since) /\ ~Spoilt(p, captured) /\ ~Mixed(c, p.name, p)
  <2>1. <<c, n>> \in renewed \/ (<<c, n>> \notin excused /\ <<c, n>> \notin dropped)
    BY <1>3, <1>8
  <2>2. ASSUME <<c, n>> \in renewed
        PROVE  ~Reaches(p.name, p.since) /\ ~Spoilt(p, captured) /\ ~Mixed(c, p.name, p)
    BY <2>2 DEF renewed
  <2>3. ASSUME <<c, n>> \notin dropped
        PROVE  ~Spoilt(p, captured) /\ p.name \notin GivenUp(stream[p.id].queue, frames)
    BY <1>8, <2>3 DEF dropped, Owner
  <2> QED BY <2>1, <2>2, <2>3
<1> QED BY <1>1, <1>2, <1>3, <1>5, <1>6, <1>7, <1>8 DEF frames

(* A tab connects to a stream of a number not used before.                 *)
LEMMA ConnectEffect ==
  ASSUME TypeOK, NEW c \in Clients, Connect(c)
  PROVE  /\ UNCHANGED <<term, posts, excused, ring>>
         /\ opened' = opened + 1 /\ opened' \in Streams
         /\ tab[c].on = 0 /\ tab'[c].on = opened' /\ tab'[c].id = tab[c].id
         /\ \A d \in Clients : d # c => tab'[d] = tab[d]
         /\ \A k \in Streams : stream'[k].subs = stream[k].subs /\ stream'[k].queue = stream[k].queue
<1>1. opened \in Nat /\ opened < MaxStreams /\ opened' = opened + 1 /\ MaxStreams \in Nat
  BY PartsOK, BoundsAssumption DEF Connect
<1>2. PICK k \in Streams : k = opened'
  BY <1>1 DEF Streams
<1>3. tab[c] \in Tab /\ tab' = [tab EXCEPT ![c] = [tab[c] EXCEPT !.on = k]]
  BY <1>2, PartsOK DEF Connect, TypeOK
<1>4. stream[k] \in Stream /\ stream' = [stream EXCEPT ![k] = [stream[k] EXCEPT !.open = TRUE]]
  BY <1>2, PartsOK DEF Connect, TypeOK
<1>5. tab'[c].on = k /\ tab'[c].id = tab[c].id /\ \A d \in Clients : d # c => tab'[d] = tab[d]
  BY <1>3 DEF Tab, TypeOK
<1>6. stream'[k].subs = stream[k].subs /\ stream'[k].queue = stream[k].queue
  BY <1>4 DEF Stream, TypeOK
<1>7. \A j \in Streams : j # k => stream'[j] = stream[j]
  BY <1>4 DEF TypeOK
<1> QED BY <1>1, <1>2, <1>5, <1>6, <1>7 DEF Connect

(* It learns its number and asks for what is pending.                      *)
LEMMA HelloEffect ==
  ASSUME TypeOK, NEW c \in Clients, Hello(c)
  PROVE  /\ UNCHANGED <<stream, term, excused, opened, ring>>
         /\ tab[c].on # 0 /\ tab[c].id # tab[c].on /\ tab'[c].on = tab[c].on /\ tab'[c].id = tab[c].on
         /\ \A d \in Clients : d # c => tab'[d] = tab[d]
         /\ posts \subseteq posts'
         /\ \A p \in posts' : p \in posts \/
              /\ p.kind = "sub" /\ p.client = c /\ p.id = tab[c].on /\ p.name \in Names
              /\ term[c][p.name].pending
              /\ p.since = term[c][p.name].last /\ p.life = term[c][p.name].life
<1>1. tab[c] \in Tab /\ tab' = [tab EXCEPT ![c] = [tab[c] EXCEPT !.id = tab[c].on]]
  BY PartsOK DEF Hello, TypeOK
<1>2. tab'[c].on = tab[c].on /\ tab'[c].id = tab[c].on /\ \A d \in Clients : d # c => tab'[d] = tab[d]
  BY <1>1 DEF Tab, TypeOK
<1>3. posts' = posts \cup {[Request("sub", c, n) EXCEPT !.id = tab[c].on] :
                             n \in {m \in Names : term[c][m].pending}}
  BY DEF Hello, Send
<1>4. ASSUME NEW p \in posts', p \notin posts
      PROVE  /\ p.kind = "sub" /\ p.client = c /\ p.id = tab[c].on /\ p.name \in Names
             /\ term[c][p.name].pending
             /\ p.since = term[c][p.name].last /\ p.life = term[c][p.name].life
  <2>1. PICK n \in Names : term[c][n].pending /\ p = [Request("sub", c, n) EXCEPT !.id = tab[c].on]
    BY <1>3, <1>4
  <2> QED BY <2>1 DEF Request
<1> QED BY <1>2, <1>3, <1>4 DEF Hello, server

(* Its stream is gone, its screens stay.                                   *)
LEMMA DisconnectEffect ==
  ASSUME TypeOK, NEW c \in Clients, Disconnect(c)
  PROVE  /\ UNCHANGED <<posts, excused, opened, ring>>
         /\ tab[c].on \in Streams /\ tab'[c].on = 0 /\ tab'[c].id = 0
         /\ \A d \in Clients : d # c => tab'[d] = tab[d]
         /\ stream'[tab[c].on].subs = {} /\ stream'[tab[c].on].queue = <<>>
         /\ \A k \in Streams : k # tab[c].on => stream'[k] = stream[k]
         /\ \A d \in Clients, n \in Names :
              /\ Screen(term'[d][n]) = Screen(term[d][n])
              /\ term'[d][n].mounted = term[d][n].mounted
              /\ term'[d][n].before = term[d][n].before
              /\ term[d][n] = NoTerm => term'[d][n] = NoTerm
<1>1. PICK k \in Streams : k = tab[c].on
  BY PartsOK DEF Disconnect
<1>2. tab[c] \in Tab /\ tab' = [tab EXCEPT ![c] = [[tab[c] EXCEPT !.on = 0] EXCEPT !.id = 0]]
  BY PartsOK DEF Disconnect, TypeOK
<1>3. tab'[c].on = 0 /\ tab'[c].id = 0 /\ \A d \in Clients : d # c => tab'[d] = tab[d]
  BY <1>2 DEF Tab, TypeOK
<1>4. stream[k] \in Stream
      /\ stream' = [stream EXCEPT ![k] = [[stream[k] EXCEPT !.subs = {}] EXCEPT !.queue = <<>>]]
  BY <1>1, PartsOK DEF Disconnect, TypeOK
<1>5. stream'[k].subs = {} /\ stream'[k].queue = <<>> /\ \A j \in Streams : j # k => stream'[j] = stream[j]
  BY <1>4 DEF Stream, TypeOK
<1>6. ASSUME NEW d \in Clients, NEW n \in Names
      PROVE  /\ Screen(term'[d][n]) = Screen(term[d][n])
             /\ term'[d][n].mounted = term[d][n].mounted
             /\ term'[d][n].before = term[d][n].before
             /\ term[d][n] = NoTerm => term'[d][n] = NoTerm
  <2>1. term[d][n] \in Term
    BY PartsOK
  <2>2. term'[d][n] = IF d = c THEN Again(term[d][n]) ELSE term[d][n]
    BY DEF Disconnect, TypeOK
  <2>3. PICK t \in Term : t = term[d][n]
    BY <2>1
  <2>4. /\ Again(t).last = t.last /\ Again(t).view = t.view /\ Again(t).life = t.life
        /\ Again(t).mounted = t.mounted /\ Again(t).before = t.before
    BY DEF Again, Term
  <2>5. t = NoTerm => Again(t) = NoTerm
    <3>1. NoTerm.pending = FALSE /\ NoTerm.active = FALSE
      BY DEF NoTerm
    <3>2. (NoTerm.pending \/ NoTerm.active) = FALSE
      BY <3>1
    <3>3. [NoTerm EXCEPT !.pending = FALSE, !.active = FALSE] = NoTerm
      <4>1. PICK u \in Term : u = NoTerm
        BY NullsOK
      <4>2. u.pending = FALSE /\ u.active = FALSE
        BY <3>1, <4>1
      <4>3. [u EXCEPT !.pending = FALSE, !.active = FALSE] = u
        BY <4>2 DEF Term
      <4> QED BY <4>1, <4>3
    <3>4. Again(NoTerm) = [NoTerm EXCEPT !.pending = FALSE, !.active = FALSE]
      BY <3>2 DEF Again
    <3> QED BY <3>3, <3>4
  <2> QED BY <2>2, <2>3, <2>4, <2>5 DEF Screen
<1> QED BY <1>1, <1>3, <1>5, <1>6 DEF Disconnect

(* The first frame of its queue is written to its terminal.                *)
LEMMA ReceiveEffect ==
  ASSUME TypeOK, NEW c \in Clients, Receive(c)
  PROVE  LET k     == tab[c].on
             queue == stream[k].queue
             f     == Head(queue)
         IN /\ UNCHANGED <<tab, posts, excused, opened, ring>>
            /\ k \in Streams /\ queue \in Seq(Frame) /\ Len(queue) \in Nat \ {0} /\ queue[1] = f
            /\ f \in Frame /\ stream'[k].subs = stream[k].subs
            /\ stream'[k].queue = SubSeq(queue, 2, Len(queue))
            /\ \A j \in Streams : j # k => stream'[j] = stream[j]
            /\ \A d \in Clients, n \in Names :
                 term'[d][n] = IF d = c /\ n = f.name /\ term[d][n].mounted
                               THEN Got(term[d][n], f, restarts) ELSE term[d][n]
<1>1. PICK k \in Streams : k = tab[c].on
  BY PartsOK DEF Receive
<1>2. PICK queue \in Seq(Frame) : queue = stream[k].queue /\ queue # <<>>
  BY <1>1, PartsOK DEF Receive
<1>3. PICK f \in Frame : f = Head(queue)
  BY <1>2, HeadTailProperties
<1>4. Len(queue) \in Nat \ {0} /\ queue[1] = f /\ Tail(queue) = SubSeq(queue, 2, Len(queue))
  <2>1. Len(queue) \in Nat /\ Len(queue) # 0
    BY <1>2, LenProperties, EmptySeq
  <2>2. queue[1] = f
    BY <1>3
  <2>3. Tail(queue) = SubSeq(queue, 2, Len(queue))
    BY <1>2
  <2> QED BY <2>1, <2>2, <2>3
<1>5. stream[k] \in Stream /\ stream' = [stream EXCEPT ![k] = [stream[k] EXCEPT !.queue = Tail(queue)]]
  BY <1>1, <1>2, PartsOK DEF Receive, TypeOK
<1>6. /\ stream'[k].subs = stream[k].subs /\ stream'[k].queue = Tail(queue)
      /\ \A j \in Streams : j # k => stream'[j] = stream[j]
  BY <1>5 DEF Stream, TypeOK
<1>7. term' = IF term[c][f.name].mounted
              THEN [term EXCEPT ![c] = [term[c] EXCEPT ![f.name] = Got(term[c][f.name], f, restarts)]]
              ELSE term
  BY <1>1, <1>2, <1>3 DEF Receive, TypeOK
<1>8. ASSUME NEW d \in Clients, NEW n \in Names
      PROVE  term'[d][n] = IF d = c /\ n = f.name /\ term[d][n].mounted
                           THEN Got(term[d][n], f, restarts) ELSE term[d][n]
  <2>1. f.name \in Names /\ term \in [Clients -> [Names -> Term]]
    BY DEF TypeOK, Frame
  <2> QED BY <1>7, <2>1
<1>9. UNCHANGED <<tab, posts, excused, opened, ring>>
  BY DEF Receive, counts
<1> QED BY <1>1, <1>2, <1>3, <1>4, <1>6, <1>8, <1>9

(* What is queued then was queued before.                                  *)
LEMMA ReceiveLeaves ==
  ASSUME TypeOK, NEW c \in Clients, Receive(c)
  PROVE  \A k \in Streams : \A i \in 1 .. Len(stream'[k].queue) :
           \E j \in 1 .. Len(stream[k].queue) : stream'[k].queue[i] = stream[k].queue[j]
<1>1. PICK k \in Streams : k = tab[c].on
  BY ReceiveEffect
<1>2. PICK queue \in Seq(Frame) : queue = stream[k].queue /\ Len(queue) \in Nat \ {0}
  BY <1>1, ReceiveEffect
<1>3. /\ stream'[k].queue = SubSeq(queue, 2, Len(queue))
      /\ \A j \in Streams : j # k => stream'[j] = stream[j]
  BY <1>1, <1>2, ReceiveEffect
<1>4. 1 \in 0 .. Len(queue) /\ 1 + 1 = 2
  BY <1>2
<1>5. /\ Len(SubSeq(queue, 1 + 1, Len(queue))) = Len(queue) - 1
      /\ \A i \in 1 .. Len(queue) - 1 : SubSeq(queue, 1 + 1, Len(queue))[i] = queue[1 + i]
  BY <1>4, SuffixOK
<1>6. \A i \in 1 .. Len(queue) - 1 : 1 + i \in 1 .. Len(queue)
  BY <1>2
<1>7. \A i \in 1 .. Len(stream'[k].queue) : \E j \in 1 .. Len(queue) : stream'[k].queue[i] = queue[j]
  BY <1>3, <1>4, <1>5, <1>6
<1>8. ASSUME NEW j \in Streams, NEW i \in 1 .. Len(stream'[j].queue)
      PROVE  \E l \in 1 .. Len(stream[j].queue) : stream'[j].queue[i] = stream[j].queue[l]
  <2>1. CASE j = k
    BY <1>2, <1>7, <1>8, <2>1
  <2>2. CASE j # k
    BY <1>3, <1>8, <2>2
  <2> QED BY <2>1, <2>2
<1> QED BY <1>8

(* A terminal is opened: its screen is blank, `last` is what it was.       *)
LEMMA MountEffect ==
  ASSUME TypeOK, NEW c \in Clients, NEW n \in Names, Mount(c, n)
  PROVE  /\ UNCHANGED <<stream, opened, ring>> /\ ~term[c][n].mounted
         /\ \A d \in Clients : tab'[d].on = tab[d].on /\ tab'[d].id = tab[d].id
         /\ posts \subseteq posts'
         /\ \A p \in posts' : p \in posts \/ (tab[c].id # 0 /\ p = Request("sub", c, n))
         /\ excused \subseteq excused' /\ (term[c][n].before => <<c, n>> \in excused')
         /\ term'[c][n].before /\ term'[c][n].view = 0
         /\ term'[c][n].last = term[c][n].last /\ term'[c][n].life = term[c][n].life
         /\ \A d \in Clients, m \in Names : <<d, m>> # <<c, n>> => term'[d][m] = term[d][m]
<1>1. tab[c] \in Tab /\ tab' = [tab EXCEPT ![c] = [tab[c] EXCEPT !.used = TRUE]]
  BY PartsOK DEF Mount, TypeOK
<1>2. \A d \in Clients : tab'[d].on = tab[d].on /\ tab'[d].id = tab[d].id
  BY <1>1 DEF Tab, TypeOK
<1> DEFINE t == term[c][n]
           new == [t EXCEPT !.mounted = TRUE, !.view = 0,
                            !.pending = (t.pending \/ tab[c].id = 0), !.before = TRUE]
<1>3. term' = [term EXCEPT ![c] = [term[c] EXCEPT ![n] = new]]
  BY DEF Mount, TypeOK, Term
<1>4. new.before /\ new.view = 0 /\ new.last = t.last /\ new.life = t.life
  BY PartsOK DEF Term
<1> HIDE DEF new
<1>5. term'[c][n] = new /\ \A d \in Clients, m \in Names : <<d, m>> # <<c, n>> => term'[d][m] = term[d][m]
  BY <1>3 DEF TypeOK
<1>6. posts' = posts \/ (tab[c].id # 0 /\ posts' = posts \cup {Request("sub", c, n)})
  BY DEF Mount, Send
<1> QED BY <1>2, <1>4, <1>5, <1>6 DEF Mount, server

(* It is closed: so is what excused it.                                    *)
LEMMA UnmountEffect ==
  ASSUME TypeOK, NEW c \in Clients, NEW n \in Names, Unmount(c, n)
  PROVE  /\ UNCHANGED <<stream, tab, opened, ring>> /\ term[c][n].mounted
         /\ posts \subseteq posts'
         /\ \A p \in posts' : p \in posts \/ (tab[c].id # 0 /\ p = Request("unsub", c, n))
         /\ \A x \in excused : x = <<c, n>> \/ x \in excused'
         /\ ~term'[c][n].mounted /\ term'[c][n].before = term[c][n].before /\ term'[c][n].view = 0
         /\ term'[c][n].last = term[c][n].last /\ term'[c][n].life = term[c][n].life
         /\ \A d \in Clients, m \in Names : <<d, m>> # <<c, n>> => term'[d][m] = term[d][m]
<1> DEFINE t == term[c][n]
           new == [t EXCEPT !.mounted = FALSE, !.view = 0]
<1>1. term' = [term EXCEPT ![c] = [term[c] EXCEPT ![n] = new]]
  BY DEF Unmount, TypeOK, Term
<1>2. ~new.mounted /\ new.before = t.before /\ new.view = 0 /\ new.last = t.last /\ new.life = t.life
  BY PartsOK DEF Term
<1> HIDE DEF new
<1>3. term'[c][n] = new /\ \A d \in Clients, m \in Names : <<d, m>> # <<c, n>> => term'[d][m] = term[d][m]
  BY <1>1 DEF TypeOK
<1>4. posts' = posts \/ (tab[c].id # 0 /\ posts' = posts \cup {Request("unsub", c, n)})
  BY DEF Unmount, Send
<1> QED BY <1>2, <1>3, <1>4 DEF Unmount, server

(* A refused subscription changes nothing else.                            *)
LEMMA RefuseEffect ==
  ASSUME TypeOK, NEW p \in posts, RefuseSubscribe(p)
  PROVE  UNCHANGED <<stream, tab, term, opened, excused, ring>> /\ posts' \subseteq posts
BY DEF RefuseSubscribe, server, Send

(* What was queued for it stays queued.                                    *)
LEMMA UnsubscribeEffect ==
  ASSUME TypeOK, NEW p \in posts, HandleUnsubscribe(p)
  PROVE  /\ UNCHANGED <<tab, term, opened, excused, ring>>
         /\ p \in Post /\ p.kind = "unsub" /\ p.id \in Streams /\ Asks(p)
         /\ posts' = (posts \ {p}) \cup {Answer(p, "unsubok")}
         /\ stream'[p.id].subs = stream[p.id].subs \ {p.name}
         /\ \A k \in Streams : stream'[k].queue = stream[k].queue /\ (k # p.id => stream'[k] = stream[k])
<1>1. p \in Post /\ p.kind = "unsub"
  BY PartsOK DEF HandleUnsubscribe
<1>2. p.id \in Streams /\ Asks(p)
  BY <1>1, PostOK DEF Asks
<1>3. stream[p.id] \in Stream
      /\ stream' = [stream EXCEPT ![p.id] = [stream[p.id] EXCEPT !.subs = stream[p.id].subs \ {p.name}]]
  BY <1>2, PartsOK DEF HandleUnsubscribe, TypeOK
<1>4. stream'[p.id].subs = stream[p.id].subs \ {p.name} /\ stream'[p.id].queue = stream[p.id].queue
      /\ \A k \in Streams : k # p.id => stream'[k] = stream[k]
  BY <1>2, <1>3 DEF Stream, TypeOK
<1> QED BY <1>1, <1>2, <1>4 DEF HandleUnsubscribe, Send, counts

(* A response changes no screen.                                           *)
LEMMA AnsweredEffect ==
  ASSUME TypeOK, NEW p \in posts, Answered(p)
  PROVE  /\ UNCHANGED <<stream, tab, opened, excused, ring>> /\ posts' \subseteq posts
         /\ p.client \in Clients /\ p.name \in Names
         /\ \A c \in Clients, n \in Names :
              /\ Screen(term'[c][n]) = Screen(term[c][n])
              /\ term'[c][n].mounted = term[c][n].mounted
              /\ term'[c][n].before = term[c][n].before
              /\ p.client # c \/ p.name # n => term'[c][n] = term[c][n]
<1>1. p.client \in Clients /\ p.name \in Names
  BY PartsOK, PostOK
<1> DEFINE t == term[p.client][p.name]
           new == [[t EXCEPT !.active = p.kind = "subok"] EXCEPT !.pending = FALSE]
<1>2. term' = [term EXCEPT ![p.client] = [term[p.client] EXCEPT ![p.name] = new]]
  BY <1>1 DEF Answered, TypeOK, Term
<1>3. t \in Term
  BY <1>1, PartsOK
<1>4. /\ new.last = t.last /\ new.view = t.view /\ new.life = t.life
      /\ new.mounted = t.mounted /\ new.before = t.before
  BY <1>3 DEF Term
<1> HIDE DEF new
<1>5. ASSUME NEW c \in Clients, NEW n \in Names
      PROVE  /\ Screen(term'[c][n]) = Screen(term[c][n])
             /\ term'[c][n].mounted = term[c][n].mounted
             /\ term'[c][n].before = term[c][n].before
             /\ p.client # c \/ p.name # n => term'[c][n] = term[c][n]
  <2>1. term'[c][n] = IF c = p.client /\ n = p.name THEN new ELSE term[c][n]
    BY <1>1, <1>2 DEF TypeOK
  <2> QED BY <1>4, <2>1 DEF Screen
<1> QED BY <1>1, <1>5 DEF Answered, server, Send

(* No subscription, queue or ring is left, nor any request.                *)
LEMMA RestartEffect ==
  ASSUME Restart
  PROVE  /\ UNCHANGED <<tab, term, opened, excused>> /\ posts' = {}
         /\ \A k \in Streams : stream'[k].subs = {} /\ stream'[k].queue = <<>>
         /\ \A n \in Names : ring'[n] = NoRing
BY NullsOK DEF Restart, Send

-----------------------------------------------------------------------------
(* A stream is of one tab, which knows its number before anything is asked *)
(* or queued for it: clientId comes with the stream's first event.         *)
Tabs ==
  /\ \A c \in Clients : tab[c].on <= opened /\ tab[c].id \in {0, tab[c].on}
  /\ \A c, d \in Clients : tab[c].on = tab[d].on => c = d \/ tab[c].on = 0
Requests == \A p \in posts : Asks(p) =>
  /\ p.id # 0 /\ p.id <= opened
  /\ \A c \in Clients : tab[c].on = p.id => c = p.client /\ tab[c].id = p.id
Busy(k) == stream[k].subs # {} \/ stream[k].queue # <<>>
Owned == \A k \in Streams : Busy(k) => \E c \in Clients : tab[c].on = k /\ tab[c].id = k
Links == Tabs /\ Requests /\ Owned

(* A step that leaves the connections and queues nothing for others.       *)
LEMMA LinksKept ==
  ASSUME TypeOK, Links, opened' = opened,
         \A c \in Clients : tab'[c].on = tab[c].on /\ tab'[c].id = tab[c].id,
         \A p \in posts' : Asks(p) =>
           p \in posts \/ (p.client \in Clients /\ p.id = tab[p.client].id /\ p.id # 0),
         \A k \in Streams : Busy(k)' =>
           Busy(k) \/ \E c \in Clients : tab[c].on = k /\ tab[c].id = k
  PROVE  Links'
<1>1. Tabs'
  BY DEF Links, Tabs
<1>2. Requests'
  <2>1. ASSUME NEW p \in posts', Asks(p)
        PROVE  /\ p.id # 0 /\ p.id <= opened
               /\ \A c \in Clients : tab[c].on = p.id => c = p.client /\ tab[c].id = p.id
    <3>1. CASE p \in posts
      BY <2>1, <3>1 DEF Links, Requests
    <3>2. CASE p.client \in Clients /\ p.id = tab[p.client].id /\ p.id # 0
      BY <3>2 DEF Links, Tabs
    <3> QED BY <2>1, <3>1, <3>2
  <2> QED BY <2>1 DEF Requests
<1>3. Owned'
  BY DEF Links, Owned
<1> QED BY <1>1, <1>2, <1>3 DEF Links

(* At the start nothing is connected.                                      *)
LEMMA LinksInit == ASSUME Init PROVE Links
BY NullsOK DEF Init, Links, Tabs, Requests, Owned, Busy

(* The steps of the tabs.                                                  *)
LEMMA LinksTab ==
  ASSUME TypeOK, Links, NEW c \in Clients, Connect(c) \/ Hello(c) \/ Disconnect(c)
  PROVE  Links'
<1>0. /\ opened \in Nat
      /\ \A d \in Clients : tab[d].on \in Nat /\ tab[d].on <= opened /\ tab[d].id \in {0, tab[d].on}
      /\ \A d, e \in Clients : tab[d].on = tab[e].on => d = e \/ tab[d].on = 0
      /\ \A p \in posts : Asks(p) =>
           /\ p.id # 0 /\ p.id <= opened /\ p.id \in Nat
           /\ \A d \in Clients : tab[d].on = p.id => d = p.client /\ tab[d].id = p.id
      /\ \A k \in Streams : Busy(k) => \E d \in Clients : tab[d].on = k /\ tab[d].id = k
  <2>1. \A d \in Clients : tab[d].on \in Nat
    BY PartsOK DEF Streams
  <2>2. \A p \in posts : Asks(p) => p.id \in Nat
    BY PartsOK, PostOK DEF Streams
  <2> QED BY <2>1, <2>2, PartsOK DEF Links, Tabs, Requests, Owned
<1>1. CASE Connect(c)
  <2>1. /\ UNCHANGED posts /\ opened' = opened + 1
        /\ tab[c].on = 0 /\ tab'[c].on = opened + 1 /\ tab'[c].id = tab[c].id
        /\ \A d \in Clients : d # c => tab'[d] = tab[d]
        /\ \A k \in Streams : stream'[k].subs = stream[k].subs /\ stream'[k].queue = stream[k].queue
    BY <1>1, ConnectEffect
  <2>2. Tabs'
    BY <1>0, <2>1 DEF Tabs
  <2>3. Requests'
    BY <1>0, <2>1 DEF Requests
  <2>4. \A k \in Streams : Busy(k)' <=> Busy(k)
    BY <2>1 DEF Busy
  <2>5. \A k \in Streams : k # 0
    BY DEF Streams
  <2>6. Owned'
    <3>1. ASSUME NEW k \in Streams, Busy(k) PROVE \E d \in Clients : tab'[d].on = k /\ tab'[d].id = k
      <4>1. PICK d \in Clients : tab[d].on = k /\ tab[d].id = k
        BY <1>0, <3>1
      <4> QED BY <2>1, <2>5, <4>1
    <3> QED BY <2>4, <3>1 DEF Owned
  <2> QED BY <2>2, <2>3, <2>6 DEF Links
<1>2. CASE Hello(c)
  <2>1. /\ UNCHANGED <<stream, opened>>
        /\ tab[c].on # 0 /\ tab[c].id # tab[c].on /\ tab'[c].on = tab[c].on /\ tab'[c].id = tab[c].on
        /\ \A d \in Clients : d # c => tab'[d] = tab[d]
        /\ \A p \in posts' : p \in posts \/ (p.client = c /\ p.id = tab[c].on)
    BY <1>2, HelloEffect
  <2>2. Tabs'
    BY <1>0, <2>1 DEF Tabs
  <2>3. Requests'
    <3>1. ASSUME NEW p \in posts', Asks(p)
          PROVE  /\ p.id # 0 /\ p.id <= opened
                 /\ \A d \in Clients : tab'[d].on = p.id => d = p.client /\ tab'[d].id = p.id
      <4>1. CASE p \in posts
        BY <1>0, <2>1, <3>1, <4>1
      <4>2. CASE p.client = c /\ p.id = tab[c].on
        BY <1>0, <2>1, <4>2
      <4> QED BY <2>1, <4>1, <4>2
    <3> QED BY <2>1, <3>1 DEF Requests
  <2>4. Owned'
    <3>1. ASSUME NEW k \in Streams, Busy(k) PROVE \E d \in Clients : tab'[d].on = k /\ tab'[d].id = k
      <4>1. PICK d \in Clients : tab[d].on = k /\ tab[d].id = k
        BY <1>0, <3>1
      <4> QED BY <2>1, <4>1
    <3> QED BY <2>1, <3>1 DEF Owned, Busy
  <2> QED BY <2>2, <2>3, <2>4 DEF Links
<1>3. CASE Disconnect(c)
  <2>1. /\ UNCHANGED <<posts, opened>>
        /\ tab[c].on \in Streams /\ tab'[c].on = 0 /\ tab'[c].id = 0
        /\ \A d \in Clients : d # c => tab'[d] = tab[d]
        /\ stream'[tab[c].on].subs = {} /\ stream'[tab[c].on].queue = <<>>
        /\ \A k \in Streams : k # tab[c].on => stream'[k] = stream[k]
    BY <1>3, DisconnectEffect
  <2>2. Tabs'
    BY <1>0, <2>1 DEF Tabs
  <2>3. Requests'
    BY <1>0, <2>1 DEF Requests
  <2>4. Owned'
    <3>1. ASSUME NEW k \in Streams, Busy(k)' PROVE \E d \in Clients : tab'[d].on = k /\ tab'[d].id = k
      <4>1. k # tab[c].on /\ Busy(k)
        BY <2>1, <3>1 DEF Busy
      <4>2. PICK d \in Clients : tab[d].on = k /\ tab[d].id = k
        BY <1>0, <4>1
      <4> QED BY <2>1, <4>1, <4>2
    <3> QED BY <3>1 DEF Owned
  <2> QED BY <2>2, <2>3, <2>4 DEF Links
<1> QED BY <1>1, <1>2, <1>3

(* The steps of the routes.                                                *)
LEMMA LinksServe ==
  ASSUME TypeOK, Links, NEW p \in posts, Serving(p)
  PROVE  Links'
<1>1. ASSUME NEW captured \in BOOLEAN, HandleSubscribe(p, captured) PROVE Links'
  <2>1. /\ UNCHANGED <<tab, opened>> /\ Asks(p) /\ p.id \in Streams
        /\ posts' = (posts \ {p}) \cup {Answer(p, "subok")}
        /\ \A k \in Streams : k # p.id \/ Owner(k) = {} => stream'[k] = stream[k]
    BY <1>1, SubscribeEffect
  <2>2. ~Asks(Answer(p, "subok"))
    BY DEF Asks, Answer
  <2>3. ASSUME NEW k \in Streams, Busy(k)'
        PROVE  Busy(k) \/ \E c \in Clients : tab[c].on = k /\ tab[c].id = k
    <3>1. CASE k = p.id /\ Owner(k) # {}
      <4>1. PICK c \in Clients : tab[c].on = k
        BY <3>1 DEF Owner
      <4>2. tab[c].id = k
        BY <2>1, <3>1, <4>1 DEF Links, Requests
      <4> QED BY <4>1, <4>2
    <3>2. CASE k # p.id \/ Owner(k) = {}
      BY <2>1, <2>3, <3>2 DEF Busy
    <3> QED BY <3>1, <3>2
  <2> QED BY <2>1, <2>2, <2>3, LinksKept
<1>2. CASE RefuseSubscribe(p)
  <2>1. UNCHANGED <<stream, tab, opened>> /\ posts' \subseteq posts
    BY <1>2, RefuseEffect
  <2> QED BY <2>1, LinksKept DEF Busy
<1>3. CASE HandleUnsubscribe(p)
  <2>1. /\ UNCHANGED <<tab, opened>>
        /\ posts' = (posts \ {p}) \cup {Answer(p, "unsubok")}
        /\ stream'[p.id].subs = stream[p.id].subs \ {p.name}
        /\ \A k \in Streams : stream'[k].queue = stream[k].queue /\ (k # p.id => stream'[k] = stream[k])
    BY <1>3, UnsubscribeEffect
  <2>2. ~Asks(Answer(p, "unsubok"))
    BY DEF Asks, Answer
  <2>3. \A k \in Streams : Busy(k)' => Busy(k)
    BY <2>1 DEF Busy
  <2> QED BY <2>1, <2>2, <2>3, LinksKept
<1>4. CASE Answered(p)
  <2>1. UNCHANGED <<stream, tab, opened>> /\ posts' \subseteq posts
    BY <1>4, AnsweredEffect
  <2> QED BY <2>1, LinksKept DEF Busy
<1> QED BY <1>1, <1>2, <1>3, <1>4 DEF Serving

(* Every step keeps each stream with its tab.                              *)
LEMMA NextLinks == ASSUME TypeOK, Links, [Next]_vars PROVE Links'
<1>1. ASSUME UNCHANGED <<stream, tab, posts, opened>> PROVE Links'
  BY <1>1, LinksKept DEF Busy
<1>2. CASE UNCHANGED vars
  BY <1>1, <1>2 DEF vars
<1>3. ASSUME NEW n \in Names, Aside(n) PROVE Links'
  BY <1>1, <1>3, AsideEffect
<1>4. ASSUME NEW n \in Names, Spread(n) PROVE Links'
  <2>1. /\ UNCHANGED <<tab, posts, opened>>
        /\ \A k \in Streams :
             /\ stream'[k].subs = stream[k].subs
             /\ n \notin stream[k].subs => stream'[k].queue = stream[k].queue
    BY <1>4, SpreadEffect
  <2>2. \A k \in Streams : Busy(k)' => Busy(k)
    BY <2>1 DEF Busy
  <2> QED BY <2>1, <2>2, LinksKept
<1>5. ASSUME NEW p \in posts, Serving(p) PROVE Links'
  BY <1>5, LinksServe
<1>6. ASSUME NEW c \in Clients, Receive(c) PROVE Links'
  <2>1. /\ UNCHANGED <<tab, posts, opened>> /\ tab[c].on \in Streams
        /\ stream'[tab[c].on].subs = stream[tab[c].on].subs /\ Len(stream[tab[c].on].queue) # 0
        /\ \A j \in Streams : j # tab[c].on => stream'[j] = stream[j]
    BY <1>6, ReceiveEffect
  <2>2. stream[tab[c].on].queue # <<>>
    BY <2>1, EmptySeq
  <2>3. \A k \in Streams : Busy(k)' => Busy(k)
    BY <2>1, <2>2 DEF Busy
  <2> QED BY <2>1, <2>3, LinksKept
<1>7. ASSUME NEW c \in Clients, NEW n \in Names, Mount(c, n) \/ Unmount(c, n) PROVE Links'
  <2>1. /\ UNCHANGED <<stream, opened>>
        /\ \A d \in Clients : tab'[d].on = tab[d].on /\ tab'[d].id = tab[d].id
        /\ \A p \in posts' : p \in posts \/ (tab[c].id # 0 /\ \E kind \in {"sub", "unsub"} : p = Request(kind, c, n))
    <3>1. Mount(c, n) => <2>1!:
      BY MountEffect
    <3>2. Unmount(c, n) => <2>1!:
      BY UnmountEffect
    <3> QED BY <1>7, <3>1, <3>2
  <2>2. \A kind : Request(kind, c, n).client = c /\ Request(kind, c, n).id = tab[c].id
    BY DEF Request
  <2>3. \A p \in posts' : p \in posts \/ (p.client \in Clients /\ p.id = tab[p.client].id /\ p.id # 0)
    BY <2>1, <2>2
  <2> QED BY <2>1, <2>3, LinksKept DEF Busy
<1>8. CASE Restart
  <2>1. /\ UNCHANGED <<tab, opened>> /\ posts' = {}
        /\ \A k \in Streams : stream'[k].subs = {} /\ stream'[k].queue = <<>>
    BY <1>8, RestartEffect
  <2> QED BY <2>1, LinksKept DEF Busy
<1>9. ASSUME NEW c \in Clients, Connect(c) \/ Hello(c) \/ Disconnect(c) PROVE Links'
  BY <1>9, LinksTab
<1> QED BY <1>2, <1>3, <1>4, <1>5, <1>6, <1>7, <1>8, <1>9 DEF Next, Aside, Reading

-----------------------------------------------------------------------------
(* A frame was numbered by its ring and shows what its pane wrote.         *)
Sane(w, f) == f.seq < w.ring.next /\ Piece(f.chunk, w.out)
AllSane == \A k \in Streams, n \in Names : \A i \in 1 .. Len(stream[k].queue) :
             stream[k].queue[i].name = n => Sane(World(n), stream[k].queue[i])

(* A frame that is numbered and written stays so.                          *)
LEMMA SaneStays ==
  ASSUME NEW w \in Worlds, NEW v \in Worlds, NEW f \in Frame, Sane(w, f),
         Still(w, v) \/ \E chunk \in Chunk : Delivered(w, v, chunk)
  PROVE  Sane(v, f)
<1>0. /\ f.seq \in Nat /\ f.chunk.from \in Nat /\ f.chunk.to \in Nat
      /\ w.ring.next \in Nat /\ w.out \in Nat /\ v.ring.next \in Nat /\ v.out \in Nat
  BY WorldParts DEF Frame, Chunk, Count
<1>1. PICK seq, from, to, wn, wo, vn, vo \in Nat :
        /\ seq = f.seq /\ from = f.chunk.from /\ to = f.chunk.to
        /\ wn = w.ring.next /\ wo = w.out /\ vn = v.ring.next /\ vo = v.out
  BY <1>0
<1>2. wo <= vo /\ (vn = wn \/ vn = wn + 1)
  <2>1. ASSUME NEW chunk \in Chunk, Delivered(w, v, chunk)
        PROVE  v.out = w.out /\ v.ring.next = w.ring.next + 1
    BY <2>1, DeliveredChunks DEF Delivered
  <2>2. Still(w, v) => w.out <= v.out /\ v.ring.next = w.ring.next
    BY DEF Still
  <2>3. CASE Still(w, v)
    BY <1>1, <2>2, <2>3
  <2>4. CASE \E chunk \in Chunk : Delivered(w, v, chunk)
    BY <1>1, <2>1, <2>4
  <2> QED BY <2>3, <2>4
<1>3. seq < wn /\ from <= to /\ to <= wo
  BY <1>1 DEF Sane, Piece
<1>4. seq < vn /\ from <= to /\ to <= vo
  BY <1>2, <1>3
<1> QED BY <1>1, <1>4 DEF Sane, Piece

(* A screen that is written a sane frame fits.                             *)
LEMMA GotFits ==
  ASSUME NEW w \in Worlds, NEW t \in Screens, NEW f \in Frame, Fits(w, t), Sane(w, f)
  PROVE  Fits(w, Got(t, f, w.now))
<1>1. PICK u \in Screens : u = Got(t, f, w.now)
  BY GotScreen, WorldParts
<1>2. /\ u.last = IF f.seq > t.last THEN f.seq ELSE t.last
      /\ u.life = IF f.seq > t.last THEN w.now ELSE t.life
      /\ u.view = IF Continues(f.chunk, t.view) THEN f.chunk.to ELSE Torn
  BY <1>1, GotScreen, WorldParts
<1>3. /\ t.last \in Nat /\ t.life \in Nat /\ w.now \in Nat /\ f.seq \in Nat /\ w.ring.next \in Nat
      /\ t.life <= w.now /\ (t.life = w.now => t.last < w.ring.next) /\ f.seq < w.ring.next
  BY WorldParts, ScreenParts DEF Fits, Sane, Frame
<1>4. u.life <= w.now /\ (u.life = w.now => u.last < w.ring.next)
  BY <1>2, <1>3
<1>5. u.view # Torn => u.view <= w.out
  BY <1>2 DEF Sane, Piece
<1> QED BY <1>1, <1>4, <1>5 DEF Fits

(* What is in a queue after a push was there or was pushed.                *)
LEMMA PushFrom ==
  ASSUME NEW queue \in Seq(Frame), NEW frames \in Seq(Frame), NEW i \in 1 .. Len(Push(queue, frames))
  PROVE  \/ \E j \in 1 .. Len(queue) : Push(queue, frames)[i] = queue[j]
         \/ \E j \in 1 .. Len(frames) : Push(queue, frames)[i] = frames[j]
<1> DEFINE all == queue \o frames
           new == Push(queue, frames)
<1>1. /\ Len(all) = Len(queue) + Len(frames) /\ Excess(all) \in 0 .. Len(all)
      /\ \A j \in 1 .. Len(queue) : all[j] = queue[j]
      /\ \A j \in 1 .. Len(frames) : all[Len(queue) + j] = frames[j]
      /\ Len(new) = Len(all) - Excess(all)
      /\ \A j \in 1 .. Len(all) - Excess(all) : new[j] = all[Excess(all) + j]
  BY PushOK
<1> HIDE DEF all, new
<1>2. PICK L, M \in Nat : L = Len(queue) /\ M = Len(frames)
  BY LenProperties
<1>3. /\ Len(all) = L + M /\ Excess(all) \in 0 .. L + M
      /\ \A j \in 1 .. L : all[j] = queue[j]
      /\ \A j \in 1 .. M : all[L + j] = frames[j]
      /\ Len(new) = L + M - Excess(all)
      /\ \A j \in 1 .. L + M - Excess(all) : new[j] = all[Excess(all) + j]
  BY <1>1, <1>2
<1>4. PICK x \in 0 .. L + M : x = Excess(all)
  BY <1>3
<1>5. i \in 1 .. L + M - x
  BY <1>3, <1>4 DEF new
<1>6. new[i] = all[x + i]
  BY <1>3, <1>4, <1>5
<1>7. x + i \in 1 .. L \/ (x + i - L \in 1 .. M /\ x + i = L + (x + i - L))
  BY <1>5
<1>8. CASE x + i \in 1 .. L
  BY <1>2, <1>3, <1>6, <1>8 DEF new
<1>9. CASE x + i - L \in 1 .. M /\ x + i = L + (x + i - L)
  <2>1. PICK j \in 1 .. M : x + i = L + j
    BY <1>9
  <2>2. new[i] = frames[j]
    BY <1>3, <1>6, <2>1
  <2> QED BY <1>2, <2>2 DEF new
<1> QED BY <1>7, <1>8, <1>9

(* A queue with no frame of m has none after a push that brings none.      *)
LEMMA PushClear ==
  ASSUME NEW queue \in Seq(Frame), NEW frames \in Seq(Frame), NEW m,
         \A i \in 1 .. Len(queue) : queue[i].name # m,
         \A i \in 1 .. Len(frames) : frames[i].name # m
  PROVE  \A i \in 1 .. Len(Push(queue, frames)) : Push(queue, frames)[i].name # m
BY PushFrom

(* The frames that answer a subscription are of its terminal.              *)
LEMMA SentSane ==
  ASSUME TypeOK, Rings, NEW p \in Post, NEW captured \in BOOLEAN, NEW i \in 1 .. Len(Sent(p, captured))
  PROVE  Sent(p, captured)[i].name = p.name /\ Sane(World(p.name), Sent(p, captured)[i])
<1>1. PICK n \in Names : n = p.name
  BY PostOK
<1>2. PICK since \in Nat : since = p.since
  BY PostOK
<1>3. PICK w \in Worlds : w = World(n)
  BY WorldOK
<1>4. w.ring = ring[n] /\ w.out = pane[n].out /\ Numbered(w)
  BY <1>3, WorldIs DEF Rings
<1>5. PICK f : f = Sent(p, captured)[i]
  OBVIOUS
<1>6. CASE Reaches(n, since)
  <2>1. Sent(p, captured) = Since(n, since)
    BY <1>1, <1>2, <1>6 DEF Sent
  <2>2. PICK j \in 1 .. Len(ring[n].chunks) : f = Frames(n)[j]
    BY <1>5, <2>1, SinceOK
  <2>3. f.name = n /\ f.seq = ring[n].chunks[j].seq /\ f.chunk = ring[n].chunks[j].chunk
    BY <2>2, FramesOK
  <2>4. f.seq < w.ring.next
    <3>1. PICK s, L, next \in Nat : s = w.ring.chunks[j].seq /\ L = Len(w.ring.chunks) /\ next = w.ring.next
      BY <1>4, WorldParts
    <3>2. s + L + 1 = next + j /\ j \in 1 .. L
      BY <1>4, <3>1 DEF Numbered
    <3>3. s < next
      BY <3>2
    <3> QED BY <1>4, <2>3, <3>1, <3>3
  <2>5. Piece(f.chunk, w.out)
    BY <1>4, <2>3 DEF Numbered
  <2> QED BY <1>1, <1>3, <1>5, <2>3, <2>4, <2>5 DEF Sane
<1>7. CASE ~Reaches(n, since) /\ captured
  <2>1. Sent(p, captured) = <<SnapshotOf(n)>>
    BY <1>1, <1>2, <1>7 DEF Sent
  <2>2. f = SnapshotOf(n)
    BY <1>5, <2>1
  <2>3. f.name = n /\ f.seq = ring[n].next - 1 /\ f.chunk.from = pane[n].out /\ f.chunk.to = pane[n].out
    BY <2>2 DEF SnapshotOf
  <2>4. ring[n].next \in Nat /\ pane[n].out \in Nat
    BY PartsOK DEF Count
  <2> QED BY <1>1, <1>3, <1>4, <1>5, <2>3, <2>4 DEF Sane, Piece
<1>8. CASE ~Reaches(n, since) /\ ~captured
  <2>1. Sent(p, captured) = <<>>
    BY <1>1, <1>2, <1>8 DEF Sent
  <2> QED BY <2>1, EmptySeq
<1> QED BY <1>6, <1>7, <1>8

(* A step, no restart, that queues sane frames only.                       *)
LEMMA SaneKept ==
  ASSUME TypeOK, TypeOK', Attachments, AllSane, [Next]_vars, ~Restart,
         \A k \in Streams, n \in Names : \A i \in 1 .. Len(stream'[k].queue) :
           stream'[k].queue[i].name = n =>
             \/ \E j \in 1 .. Len(stream[k].queue) : stream'[k].queue[i] = stream[k].queue[j]
             \/ Sane(World(n)', stream'[k].queue[i])
  PROVE  AllSane'
<1>1. ASSUME NEW k \in Streams, NEW n \in Names, NEW i \in 1 .. Len(stream'[k].queue),
             stream'[k].queue[i].name = n
      PROVE  Sane(World(n)', stream'[k].queue[i])
  <2>1. CASE \E j \in 1 .. Len(stream[k].queue) : stream'[k].queue[i] = stream[k].queue[j]
    <3>1. PICK j \in 1 .. Len(stream[k].queue) : stream'[k].queue[i] = stream[k].queue[j]
      BY <2>1
    <3>2. PICK f \in Frame : f = stream[k].queue[j]
      BY <3>1, PartsOK, ElementOfSeq
    <3>3. n = f.name
      BY <1>1, <3>1, <3>2
    <3>4. PICK w, v \in Worlds : w = World(n) /\ v = World(n)'
      BY NextWorlds
    <3>5. Still(w, v) \/ \E chunk \in Chunk : Delivered(w, v, chunk)
      BY <3>4, NextWorlds
    <3>6. Sane(w, f)
      BY <3>2, <3>3, <3>4 DEF AllSane
    <3>7. Sane(v, f)
      BY <3>5, <3>6, SaneStays
    <3> QED BY <3>1, <3>2, <3>4, <3>7
  <2> QED BY <1>1, <2>1
<1> QED BY <1>1 DEF AllSane

(* Every step queues only what was numbered and written.                   *)
LEMMA NextSane ==
  ASSUME TypeOK, TypeOK', Attachments, Rings, AllSane, [Next]_vars
  PROVE  AllSane'
<1>1. CASE Restart
  <2>1. \A k \in Streams : Len(stream'[k].queue) = 0
    BY <1>1, RestartEffect, EmptySeq
  <2> QED BY <2>1 DEF AllSane
<1> SUFFICES ASSUME ~Restart PROVE AllSane'
  BY <1>1
<1>2. ASSUME \A k \in Streams : \A i \in 1 .. Len(stream'[k].queue) :
               \E j \in 1 .. Len(stream[k].queue) : stream'[k].queue[i] = stream[k].queue[j]
      PROVE  AllSane'
  BY <1>2, SaneKept
<1>3. ASSUME \A k \in Streams : stream'[k].queue = stream[k].queue PROVE AllSane'
  BY <1>2, <1>3
<1>4. CASE UNCHANGED vars
  BY <1>3, <1>4 DEF vars
<1>5. ASSUME NEW n \in Names, Aside(n) PROVE AllSane'
  BY <1>3, <1>5, AsideEffect
<1>6. ASSUME NEW n \in Names, Spread(n) PROVE AllSane'
  <2>1. PICK f \in Frame : f = NextFrame(n) /\ <<f>> \in Seq(Frame) /\ Len(<<f>>) = 1 /\ <<f>>[1] = f
    BY <1>6, SpreadEffect, SingleSeq
  <2>2. \A k \in Streams : stream'[k].queue =
          IF n \in stream[k].subs THEN Push(stream[k].queue, <<f>>) ELSE stream[k].queue
    BY <1>6, <2>1, SpreadEffect
  <2>3. f.name = n /\ f.seq = ring[n].next /\ f.chunk = reader[n].chunk
    BY <2>1 DEF NextFrame
  <2>4. Sane(World(n)', f)
    <3>1. PICK w, v \in Worlds : w = World(n) /\ v = World(n)'
      BY NextWorlds
    <3>2. Delivers(n)
      BY <1>6, SpreadDelivers
    <3>3. /\ v.ring = ring'[n] /\ v.out = pane'[n].out
      BY <3>1 DEF World
    <3>4. ring'[n].next = ring[n].next + 1
      BY <3>2 DEF Delivers, Appended
    <3>5. ring[n].next \in Nat
      BY PartsOK
    <3> QED BY <2>3, <3>1, <3>2, <3>3, <3>4, <3>5 DEF Delivers, Sane
  <2>5. ASSUME NEW k \in Streams, NEW m \in Names, NEW i \in 1 .. Len(stream'[k].queue),
               stream'[k].queue[i].name = m
        PROVE  \/ \E j \in 1 .. Len(stream[k].queue) : stream'[k].queue[i] = stream[k].queue[j]
               \/ Sane(World(m)', stream'[k].queue[i])
    <3>1. CASE n \notin stream[k].subs
      BY <2>2, <3>1
    <3>2. CASE n \in stream[k].subs
      <4>1. PICK queue \in Seq(Frame) : queue = stream[k].queue
        BY PartsOK
      <4>2. stream'[k].queue = Push(queue, <<f>>)
        BY <2>2, <3>2, <4>1
      <4>3. (\E j \in 1 .. Len(queue) : stream'[k].queue[i] = queue[j]) \/ stream'[k].queue[i] = f
        <5>1. i \in 1 .. Len(Push(queue, <<f>>)) /\ \A j \in 1 .. Len(<<f>>) : <<f>>[j] = f
          BY <2>1, <4>2
        <5>2. \/ \E j \in 1 .. Len(queue) : Push(queue, <<f>>)[i] = queue[j]
              \/ \E j \in 1 .. Len(<<f>>) : Push(queue, <<f>>)[i] = <<f>>[j]
          BY <2>1, <5>1, PushFrom
        <5> QED BY <4>2, <5>1, <5>2
      <4>4. CASE stream'[k].queue[i] = f
        <5>1. m = n
          BY <2>3, <2>5, <4>4
        <5> QED BY <2>4, <4>4, <5>1
      <4> QED BY <4>1, <4>3, <4>4
    <3> QED BY <3>1, <3>2
  <2> QED BY <2>5, SaneKept
<1>7. ASSUME NEW p \in posts, NEW captured \in BOOLEAN, HandleSubscribe(p, captured) PROVE AllSane'
  <2>1. PICK frames \in Seq(Frame) : frames = Sent(p, captured)
    BY <1>7, SubscribeEffect
  <2>2. /\ p \in Post /\ p.id \in Streams /\ p.name \in Names
        /\ \A k \in Streams : stream'[k] = stream[k] \/
             (k = p.id /\ stream'[k].queue = Push(stream[k].queue, frames))
    BY <1>7, <2>1, SubscribeEffect
  <2>3. ASSUME NEW k \in Streams, NEW m \in Names, NEW i \in 1 .. Len(stream'[k].queue),
               stream'[k].queue[i].name = m
        PROVE  \/ \E j \in 1 .. Len(stream[k].queue) : stream'[k].queue[i] = stream[k].queue[j]
               \/ Sane(World(m)', stream'[k].queue[i])
    <3>1. CASE stream'[k] = stream[k]
      BY <3>1
    <3>2. CASE stream'[k].queue = Push(stream[k].queue, frames)
      <4>1. PICK queue \in Seq(Frame) : queue = stream[k].queue
        BY PartsOK
      <4>2. \/ \E j \in 1 .. Len(queue) : stream'[k].queue[i] = queue[j]
            \/ \E j \in 1 .. Len(frames) : stream'[k].queue[i] = frames[j]
        <5>1. i \in 1 .. Len(Push(queue, frames))
          BY <3>2, <4>1
        <5>2. \/ \E j \in 1 .. Len(queue) : Push(queue, frames)[i] = queue[j]
              \/ \E j \in 1 .. Len(frames) : Push(queue, frames)[i] = frames[j]
          BY <5>1, PushFrom
        <5> QED BY <3>2, <4>1, <5>2
      <4>3. ASSUME NEW j \in 1 .. Len(frames), stream'[k].queue[i] = frames[j]
            PROVE  Sane(World(m)', stream'[k].queue[i])
        <5>1. PICK f \in Frame : f = frames[j]
          BY ElementOfSeq
        <5>2. f.name = p.name /\ Sane(World(p.name), f)
          BY <2>1, <2>2, <5>1, SentSane
        <5>3. m = p.name
          BY <2>3, <4>3, <5>1, <5>2
        <5>4. PICK w, v \in Worlds : w = World(m) /\ v = World(m)'
          BY NextWorlds
        <5>5. Still(w, v) \/ \E chunk \in Chunk : Delivered(w, v, chunk)
          BY <5>4, NextWorlds
        <5>6. Sane(v, f)
          BY <5>2, <5>3, <5>4, <5>5, SaneStays
        <5> QED BY <4>3, <5>1, <5>4, <5>6
      <4> QED BY <4>1, <4>2, <4>3
    <3> QED BY <2>2, <3>1, <3>2
  <2> QED BY <2>3, SaneKept
<1>8. ASSUME NEW p \in posts, RefuseSubscribe(p) \/ HandleUnsubscribe(p) \/ Answered(p) PROVE AllSane'
  <2>1. \A k \in Streams : stream'[k].queue = stream[k].queue
    BY <1>8, RefuseEffect, UnsubscribeEffect, AnsweredEffect
  <2> QED BY <1>3, <2>1
<1>9. ASSUME NEW c \in Clients, Connect(c) \/ Hello(c) PROVE AllSane'
  <2>1. \A k \in Streams : stream'[k].queue = stream[k].queue
    BY <1>9, ConnectEffect, HelloEffect
  <2> QED BY <1>3, <2>1
<1>10. ASSUME NEW c \in Clients, Disconnect(c) PROVE AllSane'
  <2>1. \A k \in Streams : stream'[k].queue = stream[k].queue \/ stream'[k].queue = <<>>
    BY <1>10, DisconnectEffect
  <2>2. Len(<<>>) = 0
    BY EmptySeq
  <2>3. ASSUME NEW k \in Streams, NEW i \in 1 .. Len(stream'[k].queue)
        PROVE  \E j \in 1 .. Len(stream[k].queue) : stream'[k].queue[i] = stream[k].queue[j]
    <3>1. stream'[k].queue # <<>>
      BY <2>2, <2>3
    <3>2. stream'[k].queue = stream[k].queue
      BY <2>1, <3>1
    <3> QED BY <2>3, <3>2
  <2> QED BY <1>2, <2>3
<1>11. ASSUME NEW c \in Clients, Receive(c) PROVE AllSane'
  BY <1>2, <1>11, ReceiveLeaves
<1>12. ASSUME NEW c \in Clients, NEW n \in Names, Mount(c, n) \/ Unmount(c, n) PROVE AllSane'
  <2>1. stream' = stream
    BY <1>12, MountEffect, UnmountEffect
  <2> QED BY <1>3, <2>1
<1> QED BY <1>4, <1>5, <1>6, <1>7, <1>8, <1>9, <1>10, <1>11, <1>12 DEF Next, Aside, Reading, Serving

-----------------------------------------------------------------------------
(* No terminal is ahead of its server.                                     *)
AllFit == \A c \in Clients, n \in Names : Fits(World(n), Screen(term[c][n]))

(* A step that leaves the screen, blanks it, or writes a sane frame to it. *)
LEMMA FitsKept ==
  ASSUME TypeOK, TypeOK', Attachments, AllFit, [Next]_vars, NEW c \in Clients, NEW n \in Names,
         \/ Screen(term'[c][n]) = Screen(term[c][n])
         \/ /\ term'[c][n].view = 0
            /\ term'[c][n].last = term[c][n].last /\ term'[c][n].life = term[c][n].life
         \/ \E f \in Frame : Sane(World(n), f) /\ term'[c][n] = Got(term[c][n], f, restarts)
  PROVE  Fits(World(n)', Screen(term'[c][n]))
<1>1. PICK w, v \in Worlds : w = World(n) /\ v = World(n)'
  BY NextWorlds
<1>2. Still(w, v) \/ Anew(w, v) \/ \E chunk \in Chunk : Delivered(w, v, chunk)
  BY <1>1, NextWorlds
<1>3. PICK t \in Term : t = term[c][n]
  BY PartsOK
<1>4. Fits(w, Screen(t)) /\ Screen(t) \in Screens
  BY <1>1, <1>3, TermScreen DEF AllFit
<1>5. PICK u \in Term : u = term'[c][n]
  BY DEF TypeOK
<1>6. Screen(u) \in Screens /\ Fits(w, Screen(u))
  <2>1. CASE Screen(u) = Screen(t)
    BY <1>4, <2>1
  <2>2. CASE u.view = 0 /\ u.last = t.last /\ u.life = t.life
    <3>1. w.out \in Nat
      BY WorldParts
    <3> QED BY <1>4, <2>2, <3>1, TermScreen DEF Fits, Screen
  <2>3. ASSUME NEW f \in Frame, Sane(w, f), u = Got(t, f, restarts)
        PROVE  Screen(u) \in Screens /\ Fits(w, Screen(u))
    <3>1. w.now = restarts /\ restarts \in Nat
      BY <1>1, WorldIs, PartsOK
    <3>2. Screen(u) = Got(Screen(t), f, w.now)
      BY <2>3, <3>1, TermScreen
    <3> QED BY <1>4, <2>3, <3>2, GotFits, TermScreen
  <2> QED BY <1>1, <1>3, <1>5, <2>1, <2>2, <2>3
<1>7. Fits(v, Screen(u))
  BY <1>2, <1>6, FitsStays
<1> QED BY <1>1, <1>5, <1>7

(* At the start nothing is queued and nothing shown.                       *)
LEMMA InitFits == ASSUME Init, TypeOK PROVE AllSane /\ AllFit
<1>1. \A k \in Streams : Len(stream[k].queue) = 0
  BY NullsOK, EmptySeq DEF Init
<1>2. ASSUME NEW c \in Clients, NEW n \in Names PROVE Fits(World(n), Screen(term[c][n]))
  <2>1. term[c][n] = NoTerm /\ restarts = 0 /\ ring[n] = NoRing /\ pane[n].out = 0
    BY DEF Init
  <2>2. World(n).now = 0 /\ World(n).ring.next = 1 /\ World(n).out = 0
    BY <2>1, WorldIs, NullsOK
  <2>3. Screen(NoTerm).last = 0 /\ Screen(NoTerm).life = 0 /\ Screen(NoTerm).view = 0
    BY DEF Screen, NoTerm
  <2> QED BY <2>1, <2>2, <2>3 DEF Fits
<1> QED BY <1>1, <1>2 DEF AllSane, AllFit

(* No step shows what was not written.                                     *)
LEMMA NextFits ==
  ASSUME TypeOK, TypeOK', Attachments, Rings, AllSane, AllFit, [Next]_vars
  PROVE  AllFit'
<1>1. ASSUME \A c \in Clients, n \in Names : Screen(term'[c][n]) = Screen(term[c][n]) PROVE AllFit'
  <2>1. \A c \in Clients, n \in Names : Fits(World(n)', Screen(term'[c][n]))
    BY <1>1, FitsKept
  <2> QED BY <2>1 DEF AllFit
<1>2. CASE UNCHANGED vars
  BY <1>1, <1>2 DEF vars
<1>3. ASSUME NEW n \in Names, Aside(n) \/ Spread(n) PROVE AllFit'
  <2>1. term' = term
    BY <1>3, AsideEffect, SpreadEffect
  <2> QED BY <1>1, <2>1
<1>4. ASSUME NEW p \in posts, Serving(p) PROVE AllFit'
  <2>1. ASSUME NEW captured \in BOOLEAN, HandleSubscribe(p, captured) PROVE AllFit'
    <3>1. term' = term
      BY <2>1, SubscribeEffect
    <3> QED BY <1>1, <3>1
  <2>2. CASE RefuseSubscribe(p) \/ HandleUnsubscribe(p)
    <3>1. term' = term
      BY <2>2, RefuseEffect, UnsubscribeEffect
    <3> QED BY <1>1, <3>1
  <2>3. CASE Answered(p)
    <3>1. \A c \in Clients, n \in Names : Screen(term'[c][n]) = Screen(term[c][n])
      BY <2>3, AnsweredEffect
    <3> QED BY <1>1, <3>1
  <2> QED BY <1>4, <2>1, <2>2, <2>3 DEF Serving
<1>5. ASSUME NEW c \in Clients, Connect(c) \/ Hello(c) \/ Disconnect(c) PROVE AllFit'
  <2>1. \A d \in Clients, n \in Names : Screen(term'[d][n]) = Screen(term[d][n])
    BY <1>5, ConnectEffect, HelloEffect, DisconnectEffect
  <2> QED BY <1>1, <2>1
<1>6. ASSUME NEW c \in Clients, Receive(c) PROVE AllFit'
  <2>1. PICK k \in Streams : k = tab[c].on
    BY <1>6, ReceiveEffect
  <2>2. PICK queue \in Seq(Frame) : queue = stream[k].queue
    BY PartsOK
  <2>3. PICK f \in Frame : f = Head(queue) /\ f = queue[1] /\ Len(queue) \in Nat \ {0}
    BY <1>6, <2>1, <2>2, ReceiveEffect
  <2>4. 1 \in 1 .. Len(queue) /\ f.name \in Names
    BY <2>3 DEF Frame
  <2>5. Sane(World(f.name), f)
    BY <2>2, <2>3, <2>4 DEF AllSane
  <2>6. \A d \in Clients, n \in Names :
          term'[d][n] = IF d = c /\ n = f.name /\ term[d][n].mounted
                        THEN Got(term[d][n], f, restarts) ELSE term[d][n]
    BY <1>6, <2>1, <2>2, <2>3, ReceiveEffect
  <2>7. ASSUME NEW d \in Clients, NEW n \in Names PROVE Fits(World(n)', Screen(term'[d][n]))
    <3>1. CASE term'[d][n] = term[d][n]
      BY <3>1, FitsKept
    <3>2. CASE n = f.name /\ term'[d][n] = Got(term[d][n], f, restarts)
      BY <2>5, <3>2, FitsKept
    <3> QED BY <2>6, <3>1, <3>2
  <2> QED BY <2>7 DEF AllFit
<1>7. ASSUME NEW c \in Clients, NEW n \in Names, Mount(c, n) \/ Unmount(c, n) PROVE AllFit'
  <2>1. /\ term'[c][n].view = 0
        /\ term'[c][n].last = term[c][n].last /\ term'[c][n].life = term[c][n].life
        /\ \A d \in Clients, m \in Names : <<d, m>> # <<c, n>> => term'[d][m] = term[d][m]
    <3>1. Mount(c, n) => <2>1!:
      BY MountEffect
    <3>2. Unmount(c, n) => <2>1!:
      BY UnmountEffect
    <3> QED BY <1>7, <3>1, <3>2
  <2>2. ASSUME NEW d \in Clients, NEW m \in Names PROVE Fits(World(m)', Screen(term'[d][m]))
    <3>1. CASE <<d, m>> = <<c, n>>
      <4>1. d = c /\ m = n
        BY <3>1
      <4> QED BY <2>1, <4>1, FitsKept
    <3>2. CASE <<d, m>> # <<c, n>>
      <4>1. Screen(term'[d][m]) = Screen(term[d][m])
        BY <2>1, <3>2
      <4> QED BY <4>1, FitsKept
    <3> QED BY <3>1, <3>2
  <2> QED BY <2>2 DEF AllFit
<1>8. CASE Restart
  BY <1>1, <1>8, RestartEffect
<1> QED BY <1>2, <1>3, <1>4, <1>5, <1>6, <1>7, <1>8 DEF Next, Aside, Reading

-----------------------------------------------------------------------------
(* A terminal that was never opened in a tab: nothing of it is there.      *)
Joined(c, n) == tab[c].on # 0 /\ n \in stream[tab[c].on].subs
Clear(c, n) == tab[c].on # 0 =>
  \A i \in 1 .. Len(stream[tab[c].on].queue) : stream[tab[c].on].queue[i].name # n
Unasked(c, n) == \A p \in posts : p.client # c \/ p.name # n
Unknown(c, n) == term[c][n] = NoTerm /\ Unasked(c, n) /\ ~Joined(c, n) /\ Clear(c, n)
AllFresh == \A c \in Clients, n \in Names : ~term[c][n].before => Unknown(c, n)

(* A step in which a terminal's stream brings nothing new of it.           *)
LEMMA UnknownKept ==
  ASSUME TypeOK, NEW c \in Clients, NEW n \in Names, Unknown(c, n),
         term'[c][n] = NoTerm,
         \A p \in posts' : p \in posts \/ p.client # c \/ p.name # n,
         NEW k, tab'[c].on = 0 \/ (tab'[c].on = tab[c].on /\ k = tab[c].on),
         tab'[c].on # 0 => (n \in stream'[k].subs => n \in stream[k].subs),
         tab'[c].on # 0 =>
           \A i \in 1 .. Len(stream'[k].queue) :
             \/ stream'[k].queue[i].name # n
             \/ \E j \in 1 .. Len(stream[k].queue) : stream'[k].queue[i] = stream[k].queue[j]
  PROVE  Unknown(c, n)'
<1>1. Unasked(c, n)'
  BY DEF Unknown, Unasked
<1>2. ~Joined(c, n)' /\ Clear(c, n)'
  <2>1. CASE tab'[c].on = 0
    BY <2>1 DEF Joined, Clear
  <2>2. CASE tab'[c].on # 0
    <3>1. k = tab[c].on /\ tab'[c].on = k /\ k # 0
      BY <2>2
    <3>2. n \notin stream[k].subs /\ \A j \in 1 .. Len(stream[k].queue) : stream[k].queue[j].name # n
      BY <3>1 DEF Unknown, Joined, Clear
    <3>3. n \notin stream'[k].subs
      BY <2>2, <3>2
    <3>4. \A i \in 1 .. Len(stream'[k].queue) : stream'[k].queue[i].name # n
      BY <2>2, <3>2
    <3> QED BY <3>1, <3>3, <3>4 DEF Joined, Clear
  <2> QED BY <2>1, <2>2
<1> QED BY <1>1, <1>2 DEF Unknown

(* A step that leaves the queue of its stream.                             *)
LEMMA UnknownSame ==
  ASSUME TypeOK, NEW c \in Clients, NEW n \in Names, Unknown(c, n),
         term'[c][n] = NoTerm, tab'[c].on = tab[c].on,
         \A p \in posts' : p \in posts \/ p.client # c \/ p.name # n,
         tab[c].on # 0 => /\ n \in stream'[tab[c].on].subs => n \in stream[tab[c].on].subs
                          /\ stream'[tab[c].on].queue = stream[tab[c].on].queue
  PROVE  Unknown(c, n)'
<1>1. tab[c].on \in Streams \cup {0}
  BY PartsOK
<1>2. tab[c].on # 0 =>
        \A i \in 1 .. Len(stream'[tab[c].on].queue) :
          \E j \in 1 .. Len(stream[tab[c].on].queue) :
            stream'[tab[c].on].queue[i] = stream[tab[c].on].queue[j]
  OBVIOUS
<1>3. CASE tab[c].on = 0
  BY <1>3, UnknownKept
<1>4. CASE tab[c].on # 0
  BY <1>1, <1>2, <1>4, UnknownKept
<1> QED BY <1>3, <1>4

(* At the start no terminal was opened.                                    *)
LEMMA InitFresh == ASSUME Init PROVE AllFresh
BY DEF Init, AllFresh, Unknown, Unasked, Joined, Clear, NoTerm

(* A request is of a terminal that was opened.                             *)
LEMMA FreshServe ==
  ASSUME TypeOK, Links, AllFresh, Rings, NEW p \in posts, Serving(p),
         NEW c \in Clients, NEW n \in Names, ~term'[c][n].before
  PROVE  Unknown(c, n)'
<1>0. p \in Post /\ p.client \in Clients /\ p.name \in Names
  BY PartsOK, PostOK
<1>1. ASSUME term'[c][n] = term[c][n] PROVE Unknown(c, n) /\ term'[c][n] = NoTerm
  BY <1>1 DEF AllFresh, Unknown
<1>2. \A kind : Answer(p, kind).client = p.client /\ Answer(p, kind).name = p.name
  BY DEF Answer
<1>3. ASSUME NEW kind, posts' = (posts \ {p}) \cup {Answer(p, kind)}, Unknown(c, n)
      PROVE  \A q \in posts' : q \in posts \/ q.client # c \/ q.name # n
  BY <1>2, <1>3 DEF Unknown, Unasked
<1>4. ASSUME NEW captured \in BOOLEAN, HandleSubscribe(p, captured) PROVE Unknown(c, n)'
  <2>1. PICK frames \in Seq(Frame) : frames = Sent(p, captured)
    BY <1>4, SubscribeEffect
  <2>2. /\ UNCHANGED <<tab, term>> /\ posts' = (posts \ {p}) \cup {Answer(p, "subok")}
        /\ Asks(p) /\ p.id \in Streams
        /\ \A k \in Streams : k # p.id \/ Owner(k) = {} => stream'[k] = stream[k]
        /\ Owner(p.id) # {} =>
             /\ stream'[p.id].subs = stream[p.id].subs \cup {p.name}
             /\ stream'[p.id].queue = Push(stream[p.id].queue, frames)
    BY <1>4, <2>1, SubscribeEffect
  <2>3. Unknown(c, n) /\ term'[c][n] = NoTerm
    BY <1>1, <2>2
  <2>4. \A q \in posts' : q \in posts \/ q.client # c \/ q.name # n
    BY <1>3, <2>2, <2>3
  <2>5. CASE tab[c].on # p.id
    <3>1. tab[c].on # 0 => stream'[tab[c].on] = stream[tab[c].on]
      BY <2>2, <2>5, PartsOK
    <3> QED BY <2>2, <2>3, <2>4, <3>1, UnknownSame
  <2>6. CASE tab[c].on = p.id
    <3>1. c = p.client /\ c \in Owner(p.id) /\ p.id # 0
      BY <2>2, <2>6 DEF Links, Requests, Owner
    <3>2. n # p.name
      BY <2>3, <3>1 DEF Unknown, Unasked
    <3>3. \A i \in 1 .. Len(frames) : frames[i].name # n
      BY <1>0, <2>1, <3>2, SentSane
    <3>4. PICK queue \in Seq(Frame) : queue = stream[p.id].queue
      BY <2>2, PartsOK
    <3>5. \A i \in 1 .. Len(queue) : queue[i].name # n
      BY <2>3, <2>6, <3>1, <3>4 DEF Unknown, Clear
    <3>6. \A i \in 1 .. Len(Push(queue, frames)) : Push(queue, frames)[i].name # n
      BY <3>3, <3>5, PushClear
    <3>7. stream'[p.id].queue = Push(queue, frames)
          /\ (n \in stream'[p.id].subs => n \in stream[p.id].subs)
      BY <2>2, <3>1, <3>2, <3>4
    <3> QED BY <2>2, <2>3, <2>4, <2>6, <3>6, <3>7, UnknownKept
  <2> QED BY <2>5, <2>6
<1>5. CASE RefuseSubscribe(p)
  <2>1. UNCHANGED <<stream, tab, term>> /\ posts' \subseteq posts
    BY <1>5, RefuseEffect
  <2>2. Unknown(c, n) /\ term'[c][n] = NoTerm
    BY <1>1, <2>1
  <2> QED BY <2>1, <2>2, UnknownSame
<1>6. CASE HandleUnsubscribe(p)
  <2>1. /\ UNCHANGED <<tab, term>> /\ posts' = (posts \ {p}) \cup {Answer(p, "unsubok")}
        /\ p.id \in Streams /\ stream'[p.id].subs = stream[p.id].subs \ {p.name}
        /\ \A k \in Streams : stream'[k].queue = stream[k].queue /\ (k # p.id => stream'[k] = stream[k])
    BY <1>6, UnsubscribeEffect
  <2>2. Unknown(c, n) /\ term'[c][n] = NoTerm
    BY <1>1, <2>1
  <2>3. \A q \in posts' : q \in posts \/ q.client # c \/ q.name # n
    BY <1>3, <2>1, <2>2
  <2>4. tab[c].on # 0 => /\ n \in stream'[tab[c].on].subs => n \in stream[tab[c].on].subs
                         /\ stream'[tab[c].on].queue = stream[tab[c].on].queue
    BY <2>1, PartsOK
  <2> QED BY <2>1, <2>2, <2>3, <2>4, UnknownSame
<1>7. CASE Answered(p)
  <2>1. /\ UNCHANGED <<stream, tab>> /\ posts' \subseteq posts
        /\ term'[c][n].before = term[c][n].before
        /\ p.client # c \/ p.name # n => term'[c][n] = term[c][n]
    BY <1>7, AnsweredEffect
  <2>2. Unknown(c, n)
    BY <2>1 DEF AllFresh
  <2>3. term'[c][n] = NoTerm
    BY <2>1, <2>2 DEF Unknown, Unasked
  <2> QED BY <2>1, <2>2, <2>3, UnknownSame
<1> QED BY <1>4, <1>5, <1>6, <1>7 DEF Serving

(* The other steps of the tabs.                                            *)
LEMMA FreshTab ==
  ASSUME TypeOK, Links, AllFresh, NEW d \in Clients,
         Connect(d) \/ Hello(d) \/ Disconnect(d) \/ Receive(d),
         NEW c \in Clients, NEW n \in Names, ~term'[c][n].before
  PROVE  Unknown(c, n)'
<1>0. tab[c].on \in Streams \cup {0} /\ tab[d].on \in Streams \cup {0} /\ 0 \notin Streams
  BY PartsOK DEF Streams
<1>1. ASSUME term'[c][n] = term[c][n] PROVE Unknown(c, n) /\ term'[c][n] = NoTerm
  BY <1>1 DEF AllFresh, Unknown
<1>2. NoTerm.before = FALSE /\ NoTerm.mounted = FALSE /\ NoTerm.pending = FALSE
  BY DEF NoTerm
<1>3. CASE Connect(d)
  <2>1. /\ UNCHANGED <<term, posts>> /\ opened' = opened + 1 /\ opened' \in Streams
        /\ tab'[d].on = opened' /\ \A e \in Clients : e # d => tab'[e] = tab[e]
        /\ \A k \in Streams : stream'[k].subs = stream[k].subs /\ stream'[k].queue = stream[k].queue
    BY <1>3, ConnectEffect
  <2>2. Unknown(c, n) /\ term'[c][n] = NoTerm
    BY <1>1, <2>1
  <2>3. CASE c # d
    BY <1>0, <2>1, <2>2, <2>3, UnknownSame
  <2>4. CASE c = d
    <3>1. PICK k \in Streams : k = opened' /\ k = opened + 1 /\ opened \in Nat
      BY <2>1, PartsOK
    <3>2. ~Busy(k)
      <4>1. \A e \in Clients : tab[e].on # k
        <5>1. \A e \in Clients : tab[e].on <= opened /\ tab[e].on \in Nat
          BY PartsOK DEF Links, Tabs, Streams
        <5> QED BY <3>1, <5>1
      <4> QED BY <4>1 DEF Links, Owned
    <3>3. stream'[k].subs = {} /\ stream'[k].queue = <<>>
      BY <2>1, <3>2 DEF Busy
    <3>4. tab'[c].on = k /\ Len(<<>>) = 0
      BY <2>1, <2>4, <3>1, EmptySeq
    <3>5. ~Joined(c, n)' /\ Clear(c, n)'
      BY <3>3, <3>4 DEF Joined, Clear
    <3>6. Unasked(c, n)'
      BY <2>1, <2>2 DEF Unknown, Unasked
    <3> QED BY <2>2, <3>5, <3>6 DEF Unknown
  <2> QED BY <2>3, <2>4
<1>4. CASE Hello(d)
  <2>1. /\ UNCHANGED <<stream, term>> /\ tab'[d].on = tab[d].on
        /\ \A e \in Clients : e # d => tab'[e] = tab[e]
        /\ \A p \in posts' : p \in posts \/ (p.client = d /\ p.name \in Names /\ term[d][p.name].pending)
    BY <1>4, HelloEffect
  <2>2. Unknown(c, n) /\ term[c][n] = NoTerm /\ term'[c][n] = NoTerm
    BY <1>1, <2>1
  <2>3. \A p \in posts' : p \in posts \/ p.client # c \/ p.name # n
    BY <1>2, <2>1, <2>2
  <2> QED BY <2>1, <2>2, <2>3, UnknownSame
<1>5. CASE Disconnect(d)
  <2>1. /\ UNCHANGED posts /\ tab[d].on \in Streams /\ tab'[d].on = 0
        /\ \A e \in Clients : e # d => tab'[e] = tab[e]
        /\ \A k \in Streams : k # tab[d].on => stream'[k] = stream[k]
        /\ term'[c][n].before = term[c][n].before
        /\ term[c][n] = NoTerm => term'[c][n] = NoTerm
    BY <1>5, DisconnectEffect
  <2>2. Unknown(c, n)
    BY <2>1 DEF AllFresh
  <2>3. term'[c][n] = NoTerm
    BY <2>1, <2>2 DEF Unknown
  <2>4. CASE c = d
    BY <2>1, <2>2, <2>3, <2>4, UnknownKept
  <2>5. CASE c # d
    <3>1. tab[c].on # 0 => tab[c].on # tab[d].on
      BY <2>5 DEF Links, Tabs
    <3>2. tab[c].on # 0 => stream'[tab[c].on] = stream[tab[c].on]
      BY <1>0, <2>1, <3>1
    <3> QED BY <2>1, <2>2, <2>3, <2>5, <3>2, UnknownSame
  <2> QED BY <2>4, <2>5
<1>6. CASE Receive(d)
  <2>1. /\ UNCHANGED <<tab, posts>> /\ tab[d].on \in Streams
        /\ stream'[tab[d].on].subs = stream[tab[d].on].subs
        /\ \A k \in Streams : k # tab[d].on => stream'[k] = stream[k]
    BY <1>6, ReceiveEffect
  <2>2. PICK f \in Frame :
          term'[c][n] = IF c = d /\ n = f.name /\ term[c][n].mounted
                        THEN Got(term[c][n], f, restarts) ELSE term[c][n]
    BY <1>6, ReceiveEffect
  <2>3. term'[c][n].before = term[c][n].before
    <3>1. PICK t \in Term : t = term[c][n]
      BY PartsOK
    <3>2. Got(t, f, restarts).before = t.before
      BY DEF Got, Term
    <3> QED BY <2>2, <3>1, <3>2
  <2>4. Unknown(c, n) /\ term'[c][n] = NoTerm
    BY <1>2, <2>2, <2>3 DEF AllFresh, Unknown
  <2>5. \A k \in Streams :
          /\ stream'[k].subs = stream[k].subs
          /\ \A i \in 1 .. Len(stream'[k].queue) :
               \E j \in 1 .. Len(stream[k].queue) : stream'[k].queue[i] = stream[k].queue[j]
    BY <1>6, <2>1, ReceiveLeaves
  <2> QED BY <1>0, <2>1, <2>4, <2>5, UnknownKept
<1> QED BY <1>3, <1>4, <1>5, <1>6

(* The others stay unknown when one is opened or closed.                   *)
LEMMA FreshMount ==
  ASSUME TypeOK, Links, AllFresh, NEW d \in Clients, NEW m \in Names, Mount(d, m) \/ Unmount(d, m),
         NEW c \in Clients, NEW n \in Names
  PROVE  term'[c][n].before \/ Unknown(c, n)'
<1>0. ASSUME Mount(d, m)
      PROVE  /\ stream' = stream /\ tab'[c].on = tab[c].on /\ term'[d][m].before
             /\ \A p \in posts' : p \in posts \/ p = Request("sub", d, m)
             /\ \A e \in Clients, l \in Names : <<e, l>> # <<d, m>> => term'[e][l] = term[e][l]
  <2>1. stream' = stream /\ tab'[c].on = tab[c].on
    BY <1>0, MountEffect
  <2>2. term'[d][m].before
    BY <1>0, MountEffect
  <2>3. \A p \in posts' : p \in posts \/ (tab[d].id # 0 /\ p = Request("sub", d, m))
    BY <1>0, MountEffect
  <2>4. \A e \in Clients, l \in Names : <<e, l>> # <<d, m>> => term'[e][l] = term[e][l]
    BY <1>0, MountEffect
  <2> QED BY <2>1, <2>2, <2>3, <2>4
<1> SUFFICES ASSUME ~term'[c][n].before PROVE Unknown(c, n)'
  OBVIOUS
<1>1. ASSUME term'[c][n] = term[c][n] PROVE Unknown(c, n) /\ term'[c][n] = NoTerm
  BY <1>1 DEF AllFresh, Unknown
<1>2. NoTerm.before = FALSE /\ NoTerm.mounted = FALSE /\ NoTerm.pending = FALSE
  BY DEF NoTerm
<1>3. CASE Mount(d, m)
  <2>1. /\ stream' = stream /\ tab'[c].on = tab[c].on
        /\ \A p \in posts' : p \in posts \/ p = Request("sub", d, m)
        /\ term'[d][m].before
    BY <1>0, <1>3
  <2>2. c # d \/ n # m
    BY <2>1
  <2>5. term'[c][n] = term[c][n]
    <3>1. \A e \in Clients, l \in Names : <<e, l>> # <<d, m>> => term'[e][l] = term[e][l]
      BY <1>0, <1>3
    <3>2. <<c, n>> # <<d, m>>
      BY <2>2
    <3> QED BY <3>1, <3>2
  <2>3. Unknown(c, n) /\ term'[c][n] = NoTerm
    BY <1>1, <2>5
  <2>4. Request("sub", d, m).client = d /\ Request("sub", d, m).name = m
    BY DEF Request
  <2> QED BY <2>1, <2>2, <2>3, <2>4, UnknownSame
<1>4. CASE Unmount(d, m)
  <2>1. /\ stream' = stream /\ tab' = tab /\ term[d][m].mounted
        /\ \A p \in posts' : p \in posts \/ p = Request("unsub", d, m)
        /\ term'[d][m].before = term[d][m].before
        /\ <<c, n>> # <<d, m>> => term'[c][n] = term[c][n]
    BY <1>4, UnmountEffect
  <2>2. c # d \/ n # m
    BY <1>2, <2>1 DEF AllFresh, Unknown
  <2>3. Unknown(c, n) /\ term'[c][n] = NoTerm
    BY <1>1, <2>1, <2>2
  <2>4. Request("unsub", d, m).client = d /\ Request("unsub", d, m).name = m
    BY DEF Request
  <2> QED BY <2>1, <2>2, <2>3, <2>4, UnknownSame
<1> QED BY <1>3, <1>4

(* Nothing is on its way for a terminal that was never opened.             *)
LEMMA NextFresh ==
  ASSUME TypeOK, TypeOK', Attachments, Rings, Links, AllFresh, [Next]_vars
  PROVE  AllFresh'
<1> SUFFICES ASSUME NEW c \in Clients, NEW n \in Names, ~term'[c][n].before
             PROVE  Unknown(c, n)'
  BY DEF AllFresh
<1>1. ASSUME term' = term PROVE Unknown(c, n) /\ term'[c][n] = NoTerm
  BY <1>1 DEF AllFresh, Unknown
<1>2. ASSUME UNCHANGED <<stream, tab, term, posts>> PROVE Unknown(c, n)'
  BY <1>1, <1>2, UnknownSame
<1>3. CASE UNCHANGED vars
  BY <1>2, <1>3 DEF vars
<1>4. ASSUME NEW m \in Names, Aside(m) PROVE Unknown(c, n)'
  BY <1>2, <1>4, AsideEffect
<1>5. ASSUME NEW m \in Names, Spread(m) PROVE Unknown(c, n)'
  <2>1. /\ UNCHANGED <<tab, term, posts>>
        /\ \A k \in Streams :
             /\ stream'[k].subs = stream[k].subs
             /\ stream'[k].queue = IF m \in stream[k].subs THEN Push(stream[k].queue, <<NextFrame(m)>>)
                                   ELSE stream[k].queue
    BY <1>5, SpreadEffect
  <2>2. Unknown(c, n) /\ term'[c][n] = NoTerm
    BY <1>1, <2>1
  <2>3. CASE tab[c].on = 0
    BY <2>1, <2>2, <2>3, UnknownKept
  <2>4. CASE tab[c].on # 0
    <3>1. PICK k \in Streams : k = tab[c].on
      BY <2>4, PartsOK
    <3>2. CASE m \notin stream[k].subs
      BY <2>1, <2>2, <3>1, <3>2, UnknownSame
    <3>3. CASE m \in stream[k].subs
      <4>1. n # m
        BY <2>2, <2>4, <3>1, <3>3 DEF Unknown, Joined
      <4>2. PICK f \in Frame : f = NextFrame(m) /\ <<f>> \in Seq(Frame)
        BY <1>5, SpreadEffect
      <4>3. \A i \in 1 .. Len(<<f>>) : <<f>>[i].name # n
        BY <4>1, <4>2, SingleSeq DEF NextFrame
      <4>4. PICK queue \in Seq(Frame) : queue = stream[k].queue
        BY PartsOK
      <4>5. \A i \in 1 .. Len(queue) : queue[i].name # n
        BY <2>2, <2>4, <3>1, <4>4 DEF Unknown, Clear
      <4>6. \A i \in 1 .. Len(Push(queue, <<f>>)) : Push(queue, <<f>>)[i].name # n
        BY <4>2, <4>3, <4>5, PushClear
      <4>7. stream'[k].queue = Push(queue, <<f>>) /\ stream'[k].subs = stream[k].subs
        BY <2>1, <3>3, <4>2, <4>4
      <4> QED BY <2>1, <2>2, <3>1, <4>6, <4>7, UnknownKept
    <3> QED BY <3>2, <3>3
  <2> QED BY <2>3, <2>4
<1>6. ASSUME NEW p \in posts, Serving(p) PROVE Unknown(c, n)'
  BY <1>6, FreshServe
<1>7. ASSUME NEW d \in Clients, Connect(d) \/ Hello(d) \/ Disconnect(d) \/ Receive(d)
      PROVE  Unknown(c, n)'
  BY <1>7, FreshTab
<1>9. ASSUME NEW d \in Clients, NEW m \in Names, Mount(d, m) \/ Unmount(d, m) PROVE Unknown(c, n)'
  BY <1>9, FreshMount
<1>8. CASE Restart
  <2>1. /\ UNCHANGED <<tab, term>> /\ posts' = {}
        /\ \A k \in Streams : stream'[k].subs = {} /\ Len(stream'[k].queue) = 0
    BY <1>8, RestartEffect, EmptySeq
  <2>2. Unknown(c, n) /\ term'[c][n] = NoTerm
    BY <1>1, <2>1
  <2>3. tab[c].on \in Streams \cup {0}
    BY PartsOK
  <2> QED BY <2>1, <2>2, <2>3 DEF Unknown, Unasked, Joined, Clear
<1> QED BY <1>3, <1>4, <1>5, <1>6, <1>7, <1>8, <1>9 DEF Next, Aside, Reading

-----------------------------------------------------------------------------
(* A terminal that is open and not excused could join the ring; the one    *)
(* request of it that may be on its way says what it has; and it is        *)
(* subscribed and what is queued brings it to where the reader is, or it   *)
(* is not and nothing of it is queued.                                     *)
Asked(c, n, t) == \A p \in posts :
  Asks(p) /\ p.client = c /\ p.name = n /\ p.id = tab[c].on =>
    p.kind = "sub" /\ p.since = t.last /\ p.life = t.life /\ ~Joined(c, n)
Sound(c, n) ==
  /\ Joins(World(n), Screen(term[c][n]))
  /\ Asked(c, n, Screen(term[c][n]))
  /\ Joined(c, n) => Brings(World(n), n, Screen(term[c][n]), stream[tab[c].on].queue)
  /\ ~Joined(c, n) => Clear(c, n)
Counts(c, n) == term[c][n].mounted /\ <<c, n>> \notin excused
Sounds == \A c \in Clients, n \in Names : Counts(c, n) => Sound(c, n)

(* What it takes after a step.                                             *)
LEMMA SoundAfter ==
  ASSUME NEW c, NEW n, NEW v, v = World(n)', NEW t, t = Screen(term'[c][n]), NEW k, k = tab'[c].on,
         Joins(v, t),
         \A p \in posts' : Asks(p) /\ p.client = c /\ p.name = n /\ p.id = k =>
           p.kind = "sub" /\ p.since = t.last /\ p.life = t.life /\ (k = 0 \/ n \notin stream'[k].subs),
         k # 0 /\ n \in stream'[k].subs => Brings(v, n, t, stream'[k].queue),
         k # 0 /\ n \notin stream'[k].subs =>
           \A i \in 1 .. Len(stream'[k].queue) : stream'[k].queue[i].name # n
  PROVE  Sound(c, n)'
<1>1. Joins(World(n)', Screen(term[c][n])')
  BY DEF Screen
<1>2. Asked(c, n, Screen(term[c][n]))'
  BY DEF Asked, Joined, Screen
<1>3. Joined(c, n)' => Brings(World(n), n, Screen(term[c][n]), stream[tab[c].on].queue)'
  BY DEF Joined, Screen
<1>4. ~Joined(c, n)' => Clear(c, n)'
  BY DEF Joined, Clear
<1> QED BY <1>1, <1>2, <1>3, <1>4 DEF Sound

(* What it is before one.                                                  *)
LEMMA SoundBefore ==
  ASSUME TypeOK, NEW c \in Clients, NEW n \in Names, Sound(c, n)
  PROVE  \E w \in Worlds, t \in Screens, k \in Streams \cup {0} :
           /\ w = World(n) /\ t = Screen(term[c][n]) /\ k = tab[c].on /\ Joins(w, t)
           /\ \A p \in posts : Asks(p) /\ p.client = c /\ p.name = n /\ p.id = k =>
                p.kind = "sub" /\ p.since = t.last /\ p.life = t.life /\ (k = 0 \/ n \notin stream[k].subs)
           /\ k # 0 /\ n \in stream[k].subs => Brings(w, n, t, stream[k].queue)
           /\ k # 0 /\ n \notin stream[k].subs =>
                \A i \in 1 .. Len(stream[k].queue) : stream[k].queue[i].name # n
<1>1. World(n) \in Worlds /\ Screen(term[c][n]) \in Screens /\ tab[c].on \in Streams \cup {0}
  BY PartsOK, WorldOK, TermScreen
<1>2. \A p \in posts : Asks(p) /\ p.client = c /\ p.name = n /\ p.id = tab[c].on =>
         p.kind = "sub" /\ p.since = Screen(term[c][n]).last /\ p.life = Screen(term[c][n]).life
         /\ (tab[c].on = 0 \/ n \notin stream[tab[c].on].subs)
  BY DEF Sound, Asked, Joined
<1> QED BY <1>1, <1>2 DEF Sound, Joined, Clear

(* A step that brings nothing of the terminal and asks for nothing.        *)
LEMMA SoundKept ==
  ASSUME TypeOK, NEW c \in Clients, NEW n \in Names, Sound(c, n),
         World(n)' \in Worlds, Still(World(n), World(n)'),
         Screen(term'[c][n]) = Screen(term[c][n]), tab'[c].on = tab[c].on,
         tab[c].on # 0 => /\ n \in stream'[tab[c].on].subs <=> n \in stream[tab[c].on].subs
                          /\ stream'[tab[c].on].queue = stream[tab[c].on].queue,
         \A p \in posts' : Asks(p) /\ p.client = c /\ p.name = n /\ p.id = tab[c].on => p \in posts
  PROVE  Sound(c, n)'
<1>1. PICK w \in Worlds, t \in Screens, k \in Streams \cup {0} :
        /\ w = World(n) /\ t = Screen(term[c][n]) /\ k = tab[c].on /\ Joins(w, t)
        /\ \A p \in posts : Asks(p) /\ p.client = c /\ p.name = n /\ p.id = k =>
             p.kind = "sub" /\ p.since = t.last /\ p.life = t.life /\ (k = 0 \/ n \notin stream[k].subs)
        /\ k # 0 /\ n \in stream[k].subs => Brings(w, n, t, stream[k].queue)
        /\ k # 0 /\ n \notin stream[k].subs =>
             \A i \in 1 .. Len(stream[k].queue) : stream[k].queue[i].name # n
  BY SoundBefore
<1>2. PICK v \in Worlds : v = World(n)' /\ Still(w, v)
  BY <1>1
<1>3. k # 0 => /\ n \in stream'[k].subs <=> n \in stream[k].subs
               /\ stream'[k].queue = stream[k].queue
  BY <1>1
<1>4. Joins(v, t)
  BY <1>1, <1>2, JoinsStill
<1>5. \A p \in posts' : Asks(p) /\ p.client = c /\ p.name = n /\ p.id = k =>
        p.kind = "sub" /\ p.since = t.last /\ p.life = t.life /\ (k = 0 \/ n \notin stream'[k].subs)
  BY <1>1, <1>3
<1>6. k # 0 /\ n \in stream'[k].subs => Brings(v, n, t, stream'[k].queue)
  <2> SUFFICES ASSUME k # 0, n \in stream'[k].subs PROVE Brings(v, n, t, stream'[k].queue)
    OBVIOUS
  <2>1. PICK queue \in Seq(Frame) : queue = stream[k].queue
    BY PartsOK
  <2>2. Brings(w, n, t, queue)
    BY <1>1, <1>3, <2>1
  <2> QED BY <1>2, <1>3, <2>1, <2>2, BringsStill
<1>7. k # 0 /\ n \notin stream'[k].subs =>
        \A i \in 1 .. Len(stream'[k].queue) : stream'[k].queue[i].name # n
  BY <1>1, <1>3
<1>8. t = Screen(term'[c][n]) /\ k = tab'[c].on
  BY <1>1
<1> QED BY <1>2, <1>4, <1>5, <1>6, <1>7, <1>8, SoundAfter

(* The reader is where a snapshot is that is not taken behind it.          *)
LEMMA SnapshotEnds ==
  ASSUME TypeOK, Attachments, NEW p \in posts, NEW captured \in BOOLEAN, HandleSubscribe(p, captured),
         NEW n \in Names, n = p.name, ~Behind(n)
  PROVE  Due(n)' \/ Pos(n)' = pane[n].out
<1>1. /\ pty[n] \in Pty /\ pty[n].read \in Nat /\ pty[n].fed \in Nat /\ pane[n].out \in Nat
      /\ Attachment(n)
  BY PartsOK DEF Count, Attachments
<1>2. /\ pty' = IF reader[n].step = "none" THEN [pty EXCEPT ![n] = Attached(n)] ELSE pty
      /\ reader' = IF reader[n].step = "none" THEN [reader EXCEPT ![n].step = "reading"] ELSE reader
  BY DEF HandleSubscribe, Subscribe
<1>3. CASE reader[n].step = "none"
  <2>1. pty'[n].redraw
    BY <1>1, <1>2, <1>3 DEF Attachment, Attached, TypeOK
  <2> QED BY <2>1 DEF Due
<1>4. CASE reader[n].step # "none"
  <2>1. reader[n].step # "got" /\ pty[n].state = "open" /\ (pty[n].read >= pane[n].out \/ pty[n].redraw)
    BY <1>1, <1>4 DEF Behind
  <2>2. pty'[n] = pty[n] /\ reader'[n] = reader[n]
    BY <1>2, <1>4
  <2>3. pty[n].redraw \/ pty[n].read = pane[n].out
    BY <1>1, <2>1 DEF Attachment
  <2> QED BY <2>1, <2>2, <2>3 DEF Due, Pos
<1> QED BY <1>3, <1>4

(* A frame after a queue with none of its terminal gives up none of it.    *)
LEMMA GivenUpNone ==
  ASSUME NEW queue \in Seq(Frame), NEW f \in Frame, NEW n, \A i \in 1 .. Len(queue) : queue[i].name # n
  PROVE  n \notin GivenUp(queue, <<f>>)
<1> DEFINE all == queue \o <<f>>
<1>1. <<f>> \in Seq(Frame) /\ Len(<<f>>) = 1
  BY SingleSeq
<1>2. /\ Len(all) = Len(queue) + 1 /\ Len(queue) \in Nat
      /\ \A i \in 1 .. Len(queue) : all[i] = queue[i]
  BY <1>1, Joined2
<1>3. GivenUp(queue, <<f>>) = {all[i].name : i \in 1 .. Excess(all)}
  BY DEF GivenUp
<1> HIDE DEF all
<1>4. Excess(all) \in Nat /\ Excess(all) <= Len(queue)
  BY <1>2, BoundsAssumption DEF Excess
<1>5. \A i \in 1 .. Excess(all) : all[i].name # n
  BY <1>2, <1>4
<1> QED BY <1>3, <1>5

(* A request that is served: the terminal is as it said, and no other of   *)
(* its requests is on its way.                                             *)
LEMMA Served1 ==
  ASSUME TypeOK, Links, NEW p \in posts, NEW captured \in BOOLEAN, HandleSubscribe(p, captured),
         NEW c \in Clients, tab[c].on = p.id, NEW n \in Names, n = p.name, Counts(c, n)',
         Counts(c, n) => Sound(c, n)
  PROVE  /\ Joins(World(n), Screen(term[c][n])) /\ p.since = term[c][n].last /\ ~Spoilt(p, captured)
         /\ Reaches(n, p.since) => p.life = term[c][n].life
         /\ \A i \in 1 .. Len(stream[p.id].queue) : stream[p.id].queue[i].name # n
         /\ \A q \in posts : Asks(q) /\ q.client = c /\ q.name = n /\ q.id = p.id => q = p
         /\ n \notin GivenUp(stream[p.id].queue, Sent(p, captured))
<1>1. /\ Asks(p) /\ p \in Post /\ p.kind = "sub" /\ p.id \in Streams /\ p.id # 0 /\ term' = term
      /\ Sent(p, captured) \in Seq(Frame) /\ p.client = c
  BY SubscribeEffect DEF Links, Requests
<1>2. stream[p.id].queue \in Seq(Frame)
  BY <1>1, PartsOK
<1>3. \/ <<c, n>> \notin excused /\ ~Spoilt(p, captured) /\ n \notin GivenUp(stream[p.id].queue, Sent(p, captured))
      \/ ~Reaches(n, p.since) /\ ~Spoilt(p, captured) /\ ~Mixed(c, n, p)
  BY SubscribeEffect DEF Counts
<1>4. Screen(term[c][n]).last = term[c][n].last /\ Screen(term[c][n]).life = term[c][n].life
  BY DEF Screen
<1>5. CASE <<c, n>> \notin excused /\ ~Spoilt(p, captured) /\ n \notin GivenUp(stream[p.id].queue, Sent(p, captured))
  <2>1. Sound(c, n)
    BY <1>1, <1>5 DEF Counts
  <2>2. /\ \A q \in posts : Asks(q) /\ q.client = c /\ q.name = n /\ q.id = p.id =>
             q.kind = "sub" /\ q.since = term[c][n].last /\ q.life = term[c][n].life /\ ~Joined(c, n)
    BY <1>4, <2>1 DEF Sound, Asked
  <2>3. p.since = term[c][n].last /\ p.life = term[c][n].life /\ ~Joined(c, n)
    BY <1>1, <2>2
  <2>4. \A i \in 1 .. Len(stream[p.id].queue) : stream[p.id].queue[i].name # n
    BY <1>1, <2>1, <2>3 DEF Sound, Clear
  <2>5. ASSUME NEW q \in posts, Asks(q), q.client = c, q.name = n, q.id = p.id PROVE q = p
    <3>1. q.kind = p.kind /\ q.since = p.since /\ q.life = p.life /\ q.client = p.client /\ q.name = p.name
      BY <1>1, <2>2, <2>3, <2>5
    <3>2. q \in Post
      BY PartsOK
    <3> QED BY <1>1, <2>5, <3>1, <3>2 DEF Post
  <2> QED BY <1>5, <2>1, <2>3, <2>4, <2>5 DEF Sound
<1>6. CASE ~Reaches(n, p.since) /\ ~Spoilt(p, captured) /\ ~Mixed(c, n, p)
  <2>1. p.since = term[c][n].last /\ \A q \in posts \ {p} : q.client # c \/ q.name # n
    BY <1>6 DEF Mixed
  <2>2. \A i \in 1 .. Len(stream[p.id].queue) : stream[p.id].queue[i].name # n
    BY <1>2, <1>6, LenProperties DEF Mixed
  <2>3. Joins(World(n), Screen(term[c][n]))
    BY <1>4, <1>6, <2>1, WorldIs DEF Joins, Served, Reaches
  <2>4. n \notin GivenUp(stream[p.id].queue, Sent(p, captured))
    <3>1. captured /\ Sent(p, captured) = <<SnapshotOf(n)>>
      BY <1>6 DEF Sent, Spoilt
    <3>2. SnapshotOf(n) \in Frame
      <4>1. ring[n].next - 1 \in Nat /\ pane[n].out \in Count
        BY PartsOK DEF Ring
      <4>2. [full |-> TRUE, from |-> pane[n].out, to |-> pane[n].out] \in Chunk
        BY <4>1 DEF Chunk
      <4> QED BY <4>1, <4>2 DEF SnapshotOf, Frame
    <3> QED BY <1>2, <2>2, <3>1, <3>2, GivenUpNone
  <2> QED BY <1>6, <2>1, <2>2, <2>3, <2>4
<1> QED BY <1>3, <1>5, <1>6

(* The terminal a subscription is for.                                     *)
LEMMA SoundSubscribed ==
  ASSUME TypeOK, Attachments, Rings, Links, AllFit, NEW p \in posts, NEW captured \in BOOLEAN,
         HandleSubscribe(p, captured), NEW c \in Clients, tab[c].on = p.id, NEW n \in Names, n = p.name,
         World(n)' \in Worlds, Still(World(n), World(n)'), Counts(c, n)', Counts(c, n) => Sound(c, n)
  PROVE  Sound(c, n)'
<1>1. PICK k \in Streams : k = p.id /\ k # 0
  BY SubscribeEffect DEF Links, Requests
<1>2. PICK queue, frames \in Seq(Frame) : queue = stream[k].queue /\ frames = Sent(p, captured)
  BY <1>1, SubscribeEffect, PartsOK
<1>3. PICK w \in Worlds : w = World(n)
  BY WorldOK
<1>4. PICK v \in Worlds : v = World(n)' /\ Still(w, v)
  BY <1>3
<1>5. PICK t \in Screens : t = Screen(term[c][n])
  BY PartsOK, TermScreen
<1>6. /\ Joins(w, t) /\ p.since = t.last /\ ~Spoilt(p, captured)
      /\ Reaches(n, p.since) => p.life = t.life
      /\ \A i \in 1 .. Len(queue) : queue[i].name # n
      /\ \A q \in posts : Asks(q) /\ q.client = c /\ q.name = n /\ q.id = k => q = p
      /\ n \notin GivenUp(queue, frames)
  <2>1. t.last = term[c][n].last /\ t.life = term[c][n].life
    BY <1>5 DEF Screen
  <2> QED BY <1>1, <1>2, <1>3, <1>5, <2>1, Served1
<1>7. /\ pane' = pane /\ tab'[c].on = k /\ Screen(term'[c][n]) = t
      /\ posts' = (posts \ {p}) \cup {Answer(p, "subok")}
      /\ stream'[k].subs = stream[k].subs \cup {n} /\ stream'[k].queue = Push(queue, frames)
  <2>1. Owner(p.id) # {}
    BY DEF Owner
  <2> QED BY <1>1, <1>2, <1>5, <2>1, SubscribeEffect
<1>8. w.ring = ring[n] /\ w.now = restarts /\ Numbered(w) /\ Connected(w) /\ Fits(w, t)
  BY <1>3, <1>5, WorldIs DEF Rings, AllFit
<1>9. v.ring = ring[n] /\ v.out = pane[n].out /\ Numbered(v) /\ Fits(v, t) /\ Joins(v, t)
  <2>1. v.out = pane'[n].out
    BY <1>4 DEF World
  <2> QED BY <1>4, <1>6, <1>7, <1>8, <2>1, StillRing, FitsStays, JoinsStill DEF Still
<1>10. Brings(v, n, t, frames)
  <2>1. CASE Reaches(n, p.since)
    <3>1. Served(w, t)
      BY <1>6, <1>8, <2>1 DEF Served, Reaches, Spoilt
    <3>2. frames = Since(n, t.last)
      BY <1>2, <1>6, <2>1 DEF Sent
    <3>3. Rest(w, n, t, frames)
      BY <1>6, <1>8, <3>1, <3>2, SinceRest
    <3> QED BY <1>4, <1>8, <3>3, BringsRest, BringsStill
  <2>2. CASE ~Reaches(n, p.since)
    <3>1. captured /\ ~Behind(n) /\ frames = <<SnapshotOf(n)>>
      BY <1>2, <1>6, <2>2 DEF Sent, Spoilt
    <3>2. PICK f \in Frame : f = SnapshotOf(n)
      <4>1. ring[n].next - 1 \in Nat /\ pane[n].out \in Count
        BY PartsOK DEF Ring
      <4>2. [full |-> TRUE, from |-> pane[n].out, to |-> pane[n].out] \in Chunk
        BY <4>1 DEF Chunk
      <4> QED BY <4>1, <4>2 DEF SnapshotOf, Frame
    <3>3. f.name = n /\ f.seq = v.ring.next - 1 /\ f.chunk.full /\ f.chunk.to = v.out
      BY <1>9, <3>2 DEF SnapshotOf
    <3>4. Ends(v, v.out)
      <4>1. v.due = Due(n)' /\ v.pos = Pos(n)'
        BY <1>4 DEF World
      <4> QED BY <1>9, <3>1, <4>1, SnapshotEnds DEF Ends
    <3> QED BY <1>9, <3>1, <3>2, <3>3, <3>4, BringsSnapshot
  <2> QED BY <2>1, <2>2
<1>11. Brings(v, n, t, Push(queue, frames))
  BY <1>6, <1>10, BringsAfterOthers, PushBrings
<1>12. \A q \in posts' : ~(Asks(q) /\ q.client = c /\ q.name = n /\ q.id = k)
  BY <1>6, <1>7 DEF Answer, Asks
<1> QED BY <1>1, <1>4, <1>7, <1>9, <1>11, <1>12, SoundAfter

(* The others of its tab, to whose frames its own come.                    *)
LEMMA SoundPushed ==
  ASSUME TypeOK, NEW c \in Clients, NEW n \in Names, Sound(c, n),
         World(n)' \in Worlds, Still(World(n), World(n)'),
         Screen(term'[c][n]) = Screen(term[c][n]), NEW k \in Streams, k = tab[c].on, tab'[c].on = k,
         n \in stream'[k].subs <=> n \in stream[k].subs,
         NEW frames \in Seq(Frame), stream'[k].queue = Push(stream[k].queue, frames),
         \A i \in 1 .. Len(frames) : frames[i].name # n, n \notin GivenUp(stream[k].queue, frames),
         \A p \in posts' : Asks(p) /\ p.client = c /\ p.name = n /\ p.id = k => p \in posts
  PROVE  Sound(c, n)'
<1>1. PICK w \in Worlds, t \in Screens :
        /\ w = World(n) /\ t = Screen(term[c][n]) /\ Joins(w, t)
        /\ \A p \in posts : Asks(p) /\ p.client = c /\ p.name = n /\ p.id = k =>
             p.kind = "sub" /\ p.since = t.last /\ p.life = t.life /\ (k = 0 \/ n \notin stream[k].subs)
        /\ k # 0 /\ n \in stream[k].subs => Brings(w, n, t, stream[k].queue)
        /\ k # 0 /\ n \notin stream[k].subs =>
             \A i \in 1 .. Len(stream[k].queue) : stream[k].queue[i].name # n
  BY SoundBefore
<1>2. PICK v \in Worlds : v = World(n)' /\ Still(w, v)
  BY <1>1
<1>3. PICK queue \in Seq(Frame) : queue = stream[k].queue
  BY PartsOK
<1>4. Joins(v, t)
  BY <1>1, <1>2, JoinsStill
<1>5. \A p \in posts' : Asks(p) /\ p.client = c /\ p.name = n /\ p.id = k =>
        p.kind = "sub" /\ p.since = t.last /\ p.life = t.life /\ (k = 0 \/ n \notin stream'[k].subs)
  BY <1>1
<1>6. k # 0 /\ n \in stream'[k].subs => Brings(v, n, t, stream'[k].queue)
  <2> SUFFICES ASSUME k # 0, n \in stream'[k].subs PROVE Brings(v, n, t, Push(queue, frames))
    BY <1>3
  <2>1. Brings(v, n, t, queue)
    BY <1>1, <1>2, <1>3, BringsStill
  <2> QED BY <1>3, <2>1, BringsOthers, PushBrings
<1>7. k # 0 /\ n \notin stream'[k].subs =>
        \A i \in 1 .. Len(stream'[k].queue) : stream'[k].queue[i].name # n
  <2> SUFFICES ASSUME k # 0, n \notin stream'[k].subs
               PROVE  \A i \in 1 .. Len(Push(queue, frames)) : Push(queue, frames)[i].name # n
    BY <1>3
  <2>1. \A i \in 1 .. Len(queue) : queue[i].name # n
    BY <1>1, <1>3
  <2> QED BY <2>1, PushClear
<1>8. t = Screen(term'[c][n]) /\ k = tab'[c].on
  BY <1>1
<1> QED BY <1>2, <1>4, <1>5, <1>6, <1>7, <1>8, SoundAfter

(* Serving a request or its answer.                                        *)
LEMMA SoundServed ==
  ASSUME TypeOK, Attachments, Rings, Links, AllFit, Sounds, NEW p \in posts, Serving(p),
         NEW c \in Clients, NEW n \in Names,
         World(n)' \in Worlds, Still(World(n), World(n)'), Counts(c, n)'
  PROVE  Sound(c, n)'
<1>0. /\ p \in Post /\ p.client \in Clients /\ p.name \in Names
      /\ \A kind : Answer(p, kind).kind = kind
  BY PartsOK, PostOK DEF Answer
<1>1. Asks(p) => \A d \in Clients : tab[d].on = p.id => d = p.client
  BY DEF Links, Requests
<1>2. Counts(c, n) => Sound(c, n)
  BY DEF Sounds
<1>3. ASSUME NEW captured \in BOOLEAN, HandleSubscribe(p, captured) PROVE Sound(c, n)'
  <2>1. PICK frames \in Seq(Frame) : frames = Sent(p, captured)
    BY <1>3, SubscribeEffect
  <2>2. /\ UNCHANGED <<tab, term>> /\ posts' = (posts \ {p}) \cup {Answer(p, "subok")}
        /\ Asks(p) /\ p.id \in Streams
        /\ \A k \in Streams : k # p.id \/ Owner(k) = {} => stream'[k] = stream[k]
        /\ Owner(p.id) # {} =>
             /\ stream'[p.id].subs = stream[p.id].subs \cup {p.name}
             /\ stream'[p.id].queue = Push(stream[p.id].queue, frames)
    BY <1>3, <2>1, SubscribeEffect
  <2>3. \A q \in posts' : Asks(q) /\ q.client = c /\ q.name = n => q \in posts
    BY <1>0, <2>2 DEF Asks
  <2>4. CASE tab[c].on = p.id /\ n = p.name
    BY <1>2, <1>3, <2>4, SoundSubscribed
  <2>5. CASE tab[c].on # p.id
    <3>1. tab[c].on # 0 => stream'[tab[c].on] = stream[tab[c].on]
      BY <2>2, <2>5, PartsOK
    <3>2. <<c, n>> \notin excused
      BY <1>3, <2>5, SubscribeEffect DEF Counts
    <3>3. Sound(c, n)
      BY <1>2, <2>2, <3>2 DEF Counts
    <3> QED BY <2>2, <2>3, <3>1, <3>3, SoundKept
  <2>6. CASE tab[c].on = p.id /\ n # p.name
    <3>1. <<c, n>> \notin excused /\ n \notin GivenUp(stream[p.id].queue, frames)
      BY <1>3, <2>1, <2>6, SubscribeEffect DEF Counts
    <3>2. Sound(c, n)
      BY <1>2, <2>2, <3>1 DEF Counts
    <3>3. Owner(p.id) # {}
      BY <2>6 DEF Owner
    <3>4. \A i \in 1 .. Len(frames) : frames[i].name # n
      BY <1>0, <2>1, <2>6, SentSane
    <3>5. PICK k \in Streams : k = p.id /\ k = tab[c].on
      BY <2>2, <2>6
    <3>6. /\ n \in stream'[k].subs <=> n \in stream[k].subs
          /\ stream'[k].queue = Push(stream[k].queue, frames)
      BY <2>2, <2>6, <3>3, <3>5
    <3>7. tab'[c].on = k /\ Screen(term'[c][n]) = Screen(term[c][n]) /\ n \notin GivenUp(stream[k].queue, frames)
      BY <2>2, <3>1, <3>5
    <3>8. \A q \in posts' : Asks(q) /\ q.client = c /\ q.name = n /\ q.id = k => q \in posts
      BY <2>3
    <3> QED BY <3>2, <3>4, <3>5, <3>6, <3>7, <3>8, SoundPushed
  <2> QED BY <2>4, <2>5, <2>6
<1>4. CASE RefuseSubscribe(p)
  <2>1. UNCHANGED <<stream, tab, term, excused>> /\ posts' \subseteq posts
    BY <1>4, RefuseEffect
  <2>2. Sound(c, n)
    BY <1>2, <2>1 DEF Counts
  <2> QED BY <2>1, <2>2, SoundKept
<1>5. CASE HandleUnsubscribe(p)
  <2>1. /\ UNCHANGED <<tab, term, excused>> /\ posts' = (posts \ {p}) \cup {Answer(p, "unsubok")}
        /\ p.id \in Streams /\ stream'[p.id].subs = stream[p.id].subs \ {p.name}
        /\ p.kind = "unsub" /\ Asks(p)
        /\ \A k \in Streams : stream'[k].queue = stream[k].queue /\ (k # p.id => stream'[k] = stream[k])
    BY <1>5, UnsubscribeEffect
  <2>2. Sound(c, n)
    BY <1>2, <2>1 DEF Counts
  <2>3. \A q \in posts' : Asks(q) /\ q.client = c /\ q.name = n => q \in posts
    BY <1>0, <2>1 DEF Asks
  <2>4. tab[c].on = p.id => n # p.name
    BY <1>1, <2>1, <2>2 DEF Sound, Asked
  <2>5. tab[c].on # 0 => /\ n \in stream'[tab[c].on].subs <=> n \in stream[tab[c].on].subs
                         /\ stream'[tab[c].on].queue = stream[tab[c].on].queue
    BY <2>1, <2>4, PartsOK
  <2> QED BY <2>1, <2>2, <2>3, <2>5, SoundKept
<1>6. CASE Answered(p)
  <2>1. /\ UNCHANGED <<stream, tab, excused>> /\ posts' \subseteq posts
        /\ Screen(term'[c][n]) = Screen(term[c][n])
        /\ term'[c][n].mounted = term[c][n].mounted
    BY <1>6, AnsweredEffect
  <2>2. Sound(c, n)
    BY <1>2, <2>1 DEF Counts
  <2> QED BY <2>1, <2>2, SoundKept
<1> QED BY <1>3, <1>4, <1>5, <1>6 DEF Serving

(* Nothing is queued, and the terminal is not subscribed.                  *)
LEMMA SoundIdle ==
  ASSUME NEW c, NEW n, Joins(World(n)', Screen(term'[c][n])), ~Joined(c, n)',
         tab'[c].on # 0 => stream'[tab'[c].on].queue = <<>>,
         \A p \in posts' : Asks(p) /\ p.client = c /\ p.name = n /\ p.id = tab'[c].on =>
           p.kind = "sub" /\ p.since = Screen(term'[c][n]).last /\ p.life = Screen(term'[c][n]).life
  PROVE  Sound(c, n)'
<1>1. Joins(World(n)', Screen(term[c][n])')
  BY DEF Screen
<1>2. Asked(c, n, Screen(term[c][n]))'
  BY DEF Asked, Screen
<1>3. Clear(c, n)'
  BY EmptySeq DEF Clear
<1> QED BY <1>1, <1>2, <1>3 DEF Sound

(* A tab connects: nothing was asked or queued on its new stream.          *)
LEMMA SoundConnect ==
  ASSUME TypeOK, Links, Sounds, NEW d \in Clients, Connect(d), NEW c \in Clients, NEW n \in Names,
         World(n)' \in Worlds, Still(World(n), World(n)'), Counts(c, n)'
  PROVE  Sound(c, n)'
<1>1. /\ UNCHANGED <<term, posts, excused>> /\ opened' = opened + 1 /\ opened' \in Streams
      /\ tab'[d].on = opened' /\ \A e \in Clients : e # d => tab'[e] = tab[e]
      /\ \A k \in Streams : stream'[k].subs = stream[k].subs /\ stream'[k].queue = stream[k].queue
  BY ConnectEffect
<1>2. Sound(c, n)
  BY <1>1 DEF Sounds, Counts
<1>3. CASE c # d
  <2>1. tab[c].on # 0 => tab[c].on \in Streams
    BY PartsOK
  <2> QED BY <1>1, <1>2, <1>3, <2>1, SoundKept
<1>4. CASE c = d
  <2>1. PICK k \in Streams : k = opened' /\ k = opened + 1 /\ opened \in Nat
    BY <1>1, PartsOK
  <2>2. \A e \in Clients : tab[e].on # k
    <3>1. \A e \in Clients : tab[e].on <= opened /\ tab[e].on \in Nat
      BY PartsOK DEF Links, Tabs, Streams
    <3> QED BY <2>1, <3>1
  <2>3. stream'[k].subs = {} /\ stream'[k].queue = <<>>
    BY <1>1, <2>2 DEF Links, Owned, Busy
  <2>4. ~Joined(c, n)' /\ (tab'[c].on # 0 => stream'[tab'[c].on].queue = <<>>)
    BY <1>1, <1>4, <2>1, <2>3 DEF Joined
  <2>5. \A p \in posts' : ~(Asks(p) /\ p.client = c /\ p.name = n /\ p.id = k)
    <3>1. \A p \in posts : Asks(p) => p.id <= opened /\ p.id # opened + 1
      BY <2>1, PartsOK, PostOK DEF Links, Requests, Streams
    <3> QED BY <1>1, <2>1, <3>1
  <2>6. PICK v \in Worlds : v = World(n)' /\ Still(World(n), v)
    OBVIOUS
  <2>7. Joins(World(n)', Screen(term'[c][n]))
    BY <1>1, <1>2, <2>6, WorldOK, JoinsStill DEF Sound
  <2>8. k = tab'[c].on
    BY <1>1, <1>4, <2>1
  <2> QED BY <2>4, <2>5, <2>7, <2>8, SoundIdle
<1> QED BY <1>3, <1>4

(* It is told its number and asks for what was pending.                    *)
LEMMA SoundHello ==
  ASSUME TypeOK, Links, Sounds, NEW d \in Clients, Hello(d), NEW c \in Clients, NEW n \in Names,
         World(n)' \in Worlds, Still(World(n), World(n)'), Counts(c, n)'
  PROVE  Sound(c, n)'
<1>1. /\ UNCHANGED <<stream, term, excused>>
      /\ tab[d].on # 0 /\ tab[d].id # tab[d].on /\ tab'[d].on = tab[d].on
      /\ \A e \in Clients : e # d => tab'[e] = tab[e]
      /\ \A p \in posts' : p \in posts \/
           /\ p.kind = "sub" /\ p.client = d /\ p.id = tab[d].on
           /\ p.since = term[d][p.name].last /\ p.life = term[d][p.name].life
  BY HelloEffect
<1>2. Sound(c, n)
  BY <1>1 DEF Sounds, Counts
<1>3. CASE c # d
  <2>1. \A p \in posts' : p.client = c => p \in posts
    BY <1>1, <1>3
  <2> QED BY <1>1, <1>2, <1>3, <2>1, SoundKept
<1>4. CASE c = d
  <2>1. PICK k \in Streams : k = tab[c].on /\ k = tab'[c].on
    BY <1>1, <1>4, PartsOK
  <2>2. ~Busy(k)
    BY <1>1, <1>4, <2>1 DEF Links, Tabs, Owned
  <2>3. ~Joined(c, n)' /\ (tab'[c].on # 0 => stream'[tab'[c].on].queue = <<>>)
    BY <1>1, <2>1, <2>2 DEF Busy, Joined
  <2>4. PICK v \in Worlds : v = World(n)' /\ Still(World(n), v)
    OBVIOUS
  <2>5. PICK t \in Screens : t = Screen(term'[c][n]) /\ t = Screen(term[c][n])
    BY <1>1, PartsOK, TermScreen
  <2>6. Joins(World(n)', Screen(term'[c][n]))
    BY <1>2, <2>4, <2>5, WorldOK, JoinsStill DEF Sound
  <2>7. \A p \in posts' : Asks(p) /\ p.client = c /\ p.name = n /\ p.id = k =>
          p.kind = "sub" /\ p.since = t.last /\ p.life = t.life
    <3>1. t.last = term[c][n].last /\ t.life = term[c][n].life
      BY <2>5 DEF Screen
    <3>2. \A p \in posts : ~(Asks(p) /\ p.client = c /\ p.id = k)
      BY <1>1, <1>4, <2>1 DEF Links, Requests
    <3> QED BY <1>1, <1>4, <3>1, <3>2
  <2>8. \A p \in posts' : Asks(p) /\ p.client = c /\ p.name = n /\ p.id = tab'[c].on =>
          p.kind = "sub" /\ p.since = Screen(term'[c][n]).last /\ p.life = Screen(term'[c][n]).life
    BY <2>1, <2>5, <2>7
  <2> QED BY <2>3, <2>6, <2>8, SoundIdle
<1> QED BY <1>3, <1>4

(* It loses its stream.                                                    *)
LEMMA SoundDisconnect ==
  ASSUME TypeOK, Links, Sounds, NEW d \in Clients, Disconnect(d), NEW c \in Clients, NEW n \in Names,
         World(n)' \in Worlds, Still(World(n), World(n)'), Counts(c, n)'
  PROVE  Sound(c, n)'
<1>1. /\ UNCHANGED <<posts, excused>> /\ tab[d].on \in Streams /\ tab'[d].on = 0
      /\ \A e \in Clients : e # d => tab'[e] = tab[e]
      /\ \A k \in Streams : k # tab[d].on => stream'[k] = stream[k]
      /\ Screen(term'[c][n]) = Screen(term[c][n]) /\ term'[c][n].mounted = term[c][n].mounted
  BY DisconnectEffect
<1>2. Sound(c, n)
  BY <1>1 DEF Sounds, Counts
<1>3. CASE c # d
  <2>1. tab[c].on # 0 => tab[c].on # tab[d].on /\ tab[c].on \in Streams
    BY <1>3, PartsOK DEF Links, Tabs
  <2> QED BY <1>1, <1>2, <1>3, <2>1, SoundKept
<1>4. CASE c = d
  <2>1. PICK v \in Worlds : v = World(n)' /\ Still(World(n), v)
    OBVIOUS
  <2>2. PICK t \in Screens : t = Screen(term'[c][n]) /\ t = Screen(term[c][n])
    BY <1>1, PartsOK, TermScreen
  <2>3. Joins(v, t)
    BY <1>2, <2>1, <2>2, WorldOK, JoinsStill DEF Sound
  <2>4. \A p \in posts' : Asks(p) => p.id # 0
    BY <1>1 DEF Links, Requests
  <2> QED BY <1>1, <1>4, <2>1, <2>2, <2>3, <2>4, SoundAfter
<1> QED BY <1>3, <1>4

(* The same, in terms of the next state.                                   *)
LEMMA SoundThen ==
  ASSUME NEW c, NEW n, Joins(World(n)', Screen(term'[c][n])),
         Joined(c, n)' => Brings(World(n)', n, Screen(term'[c][n]), stream'[tab'[c].on].queue),
         ~Joined(c, n)' => Clear(c, n)',
         \A p \in posts' : Asks(p) /\ p.client = c /\ p.name = n /\ p.id = tab'[c].on =>
           /\ p.kind = "sub" /\ ~Joined(c, n)'
           /\ p.since = Screen(term'[c][n]).last /\ p.life = Screen(term'[c][n]).life
  PROVE  Sound(c, n)'
<1>1. Joins(World(n)', Screen(term[c][n])')
  BY DEF Screen
<1>2. Asked(c, n, Screen(term[c][n]))'
  BY DEF Asked, Screen
<1>3. Joined(c, n)' => Brings(World(n), n, Screen(term[c][n]), stream[tab[c].on].queue)'
  BY DEF Screen
<1> QED BY <1>1, <1>2, <1>3 DEF Sound

(* It takes the first frame of its queue.                                  *)
LEMMA SoundReceive ==
  ASSUME TypeOK, Links, Sounds, NEW d \in Clients, Receive(d), NEW c \in Clients, NEW n \in Names,
         World(n)' \in Worlds, Still(World(n), World(n)'), Counts(c, n)'
  PROVE  Sound(c, n)'
<1>1. PICK k \in Streams : k = tab[d].on
  BY ReceiveEffect
<1>2. PICK queue \in Seq(Frame) : queue = stream[k].queue
  BY PartsOK
<1>3. PICK f \in Frame : f = Head(queue) /\ f = queue[1] /\ Len(queue) \in Nat \ {0}
  BY <1>1, <1>2, ReceiveEffect
<1>4. /\ UNCHANGED <<tab, posts, excused>>
      /\ stream'[k].subs = stream[k].subs /\ stream'[k].queue = SubSeq(queue, 2, Len(queue))
      /\ \A j \in Streams : j # k => stream'[j] = stream[j]
      /\ term'[c][n] = IF c = d /\ n = f.name /\ term[c][n].mounted
                       THEN Got(term[c][n], f, restarts) ELSE term[c][n]
  BY <1>1, <1>2, <1>3, ReceiveEffect
<1>5. term[c][n].mounted /\ Sound(c, n)
  <2>1. PICK u \in Term : u = term[c][n]
    BY PartsOK
  <2>2. Got(u, f, restarts).mounted = u.mounted
    BY DEF Got, Term
  <2>3. term'[c][n].mounted = u.mounted
    BY <1>4, <2>1, <2>2
  <2> QED BY <1>4, <2>1, <2>3 DEF Sounds, Counts
<1>6. CASE c # d
  <2>1. tab[c].on # 0 => tab[c].on # k /\ tab[c].on \in Streams
    BY <1>1, <1>6, PartsOK DEF Links, Tabs
  <2> QED BY <1>4, <1>5, <1>6, <2>1, SoundKept
<1>7. CASE c = d
  <2>1. PICK w \in Worlds, t \in Screens :
          /\ w = World(n) /\ t = Screen(term[c][n]) /\ Joins(w, t)
          /\ \A p \in posts : Asks(p) /\ p.client = c /\ p.name = n /\ p.id = k =>
               p.kind = "sub" /\ p.since = t.last /\ p.life = t.life /\ (k = 0 \/ n \notin stream[k].subs)
          /\ k # 0 /\ n \in stream[k].subs => Brings(w, n, t, queue)
          /\ k # 0 /\ n \notin stream[k].subs => \A i \in 1 .. Len(queue) : queue[i].name # n
    BY <1>1, <1>2, <1>5, <1>7, SoundBefore
  <2>2. PICK v \in Worlds : v = World(n)' /\ Still(w, v)
    BY <2>1
  <2>3. k # 0 /\ k = tab'[c].on
    BY <1>1, <1>4, <1>7 DEF Streams
  <2>4. w.now = restarts /\ restarts \in Nat
    BY <2>1, WorldIs, PartsOK
  <2>5. PICK u \in Screens : u = Screen(term'[c][n]) /\ u = After(n, t, f, w.now)
    <3>1. PICK x \in Term : x = term[c][n]
      BY PartsOK
    <3>2. Screen(Got(x, f, restarts)) = Got(t, f, restarts) /\ Screen(x) = t
      BY <2>1, <2>4, <3>1, TermScreen
    <3>3. Screen(term'[c][n]) = After(n, t, f, w.now)
      BY <1>4, <1>5, <1>7, <2>4, <3>1, <3>2 DEF After
    <3> QED BY <2>4, <3>3, AfterOK
  <2>6. 1 \in 0 .. Len(queue) /\ 1 \in 1 .. Len(queue)
    BY <1>3
  <2>7. CASE n \in stream[k].subs
    <3>1. PICK trace \in [0 .. Len(queue) -> Screens] : trace[0] = t /\ Traces(w, n, queue, trace)
      BY <2>1, <2>3, <2>7 DEF Brings
    <3>2. trace[1] = u /\ Joins(w, u)
      <4>1. trace[1] = After(n, trace[1 - 1], queue[1], w.now) /\ Joins(w, trace[1])
        BY <2>6, <3>1 DEF Traces
      <4>2. 1 - 1 = 0
        OBVIOUS
      <4> QED BY <1>3, <2>5, <3>1, <4>1, <4>2
    <3>3. Brings(w, n, u, SubSeq(queue, 1 + 1, Len(queue)))
      BY <2>6, <3>1, <3>2, TraceAfter
    <3>4. SubSeq(queue, 2, Len(queue)) \in Seq(Frame) /\ 1 + 1 = 2
      BY <2>6, SuffixOK
    <3>5. PICK rest \in Seq(Frame) : rest = stream'[k].queue /\ rest = SubSeq(queue, 1 + 1, Len(queue))
      BY <1>4, <3>4
    <3>6. Brings(v, n, u, rest)
      BY <2>2, <3>3, <3>5, BringsStill
    <3>7. Joins(World(n)', Screen(term'[c][n]))
      BY <2>2, <2>5, <3>2, JoinsStill
    <3>8. Joined(c, n)'
      BY <1>4, <2>3, <2>7 DEF Joined
    <3>9. Brings(World(n)', n, Screen(term'[c][n]), stream'[tab'[c].on].queue)
      BY <2>2, <2>3, <2>5, <3>5, <3>6
    <3>10. \A p \in posts' : ~(Asks(p) /\ p.client = c /\ p.name = n /\ p.id = tab'[c].on)
      BY <1>4, <2>1, <2>3, <2>7
    <3> QED BY <3>7, <3>8, <3>9, <3>10, SoundThen
  <2>8. CASE n \notin stream[k].subs
    <3>1. \A i \in 1 .. Len(queue) : queue[i].name # n
      BY <2>1, <2>3, <2>8
    <3>2. u = t /\ Joins(v, u)
      BY <1>3, <2>1, <2>2, <2>5, <2>6, <3>1, JoinsStill DEF After
    <3>3. \A i \in 1 .. Len(stream'[k].queue) : stream'[k].queue[i].name # n
      <4>1. \A i \in 1 .. Len(stream'[k].queue) : \E j \in 1 .. Len(queue) : stream'[k].queue[i] = queue[j]
        BY <1>2, ReceiveLeaves
      <4> QED BY <3>1, <4>1
    <3>4. ~Joined(c, n)' /\ Clear(c, n)'
      BY <1>4, <2>3, <2>8, <3>3 DEF Joined, Clear
    <3>5. \A p \in posts' : Asks(p) /\ p.client = c /\ p.name = n /\ p.id = tab'[c].on =>
            p.kind = "sub" /\ p.since = Screen(term'[c][n]).last /\ p.life = Screen(term'[c][n]).life
      BY <1>4, <2>1, <2>3, <2>5, <3>2
    <3>6. Joins(World(n)', Screen(term'[c][n]))
      BY <2>2, <2>5, <3>2
    <3> QED BY <3>4, <3>5, <3>6, SoundThen
  <2> QED BY <2>7, <2>8
<1> QED BY <1>6, <1>7

(* A terminal is opened, for the first time in its tab, or closed.         *)
LEMMA SoundMount ==
  ASSUME TypeOK, Sounds, AllFresh, NEW d \in Clients, NEW m \in Names, Mount(d, m) \/ Unmount(d, m),
         NEW c \in Clients, NEW n \in Names,
         World(n)' \in Worlds, Still(World(n), World(n)'), Counts(c, n)'
  PROVE  Sound(c, n)'
<1>1. CASE Mount(d, m)
  <2>1. stream' = stream /\ tab'[c].on = tab[c].on /\ excused \subseteq excused'
    BY <1>1, MountEffect
  <2>2. \A p \in posts' : p \in posts \/ (tab[d].id # 0 /\ p = Request("sub", d, m))
    BY <1>1, MountEffect
  <2>3. /\ Request("sub", d, m).client = d /\ Request("sub", d, m).name = m
        /\ Request("sub", d, m).kind = "sub" /\ Request("sub", d, m).since = term[d][m].last
        /\ Request("sub", d, m).life = term[d][m].life
    BY DEF Request
  <2>4. CASE <<c, n>> # <<d, m>>
    <3>1. term'[c][n] = term[c][n]
      <4>1. \A e \in Clients, l \in Names : <<e, l>> # <<d, m>> => term'[e][l] = term[e][l]
        BY <1>1, MountEffect, Zenon
      <4> QED BY <2>4, <4>1
    <3>2. Sound(c, n)
      BY <2>1, <3>1 DEF Sounds, Counts
    <3>3. \A p \in posts' : p.client = c /\ p.name = n => p \in posts
      BY <2>2, <2>3, <2>4
    <3> QED BY <2>1, <3>1, <3>2, <3>3, SoundKept
  <2>5. CASE <<c, n>> = <<d, m>>
    <3>0. c = d /\ n = m
      BY <2>5
    <3>1. ~term[c][n].before
      <4>1. term[d][m].before => <<d, m>> \in excused'
        BY <1>1, MountEffect
      <4> QED BY <3>0, <4>1 DEF Counts
    <3>2. Unknown(c, n) /\ term[c][n] = NoTerm
      BY <3>1 DEF AllFresh, Unknown
    <3>4. PICK t \in Screens : t = Screen(term'[c][n]) /\ t = Screen(term[c][n]) /\ t.last = 0
      <4>1. term'[d][m].view = 0 /\ term'[d][m].last = term[d][m].last /\ term'[d][m].life = term[d][m].life
        BY <1>1, MountEffect
      <4>2. term[c][n].view = 0 /\ term[c][n].last = 0
        BY <3>2 DEF NoTerm
      <4>3. Screen(term'[c][n]) = Screen(term[c][n]) /\ Screen(term[c][n]).last = 0
        BY <3>0, <4>1, <4>2 DEF Screen
      <4> QED BY <4>3, PartsOK, TermScreen
    <3>5. PICK v \in Worlds : v = World(n)'
      OBVIOUS
    <3>6. Joins(v, t)
      BY <3>4 DEF Joins, Served
    <3>7. ~Joined(c, n)' /\ Clear(c, n)'
      BY <2>1, <3>2 DEF Unknown, Joined, Clear
    <3>8. \A p \in posts' : Asks(p) /\ p.client = c /\ p.name = n /\ p.id = tab'[c].on =>
            p.kind = "sub" /\ p.since = Screen(term'[c][n]).last /\ p.life = Screen(term'[c][n]).life
      <4>1. Screen(term'[c][n]).last = term[d][m].last /\ Screen(term'[c][n]).life = term[d][m].life
        BY <3>0, <3>4 DEF Screen
      <4> QED BY <2>2, <2>3, <3>2, <4>1 DEF Unknown, Unasked
    <3>9. Joins(World(n)', Screen(term'[c][n]))
      BY <3>4, <3>5, <3>6
    <3> QED BY <3>7, <3>8, <3>9, SoundThen
  <2> QED BY <2>4, <2>5
<1>2. CASE Unmount(d, m)
  <2>1. /\ stream' = stream /\ tab' = tab /\ ~term'[d][m].mounted
        /\ \A p \in posts' : p \in posts \/ (tab[d].id # 0 /\ p = Request("unsub", d, m))
        /\ \A x \in excused : x = <<d, m>> \/ x \in excused'
        /\ <<c, n>> # <<d, m>> => term'[c][n] = term[c][n]
    BY <1>2, UnmountEffect
  <2>2. <<c, n>> # <<d, m>>
    BY <2>1 DEF Counts
  <2>3. Sound(c, n)
    BY <2>1, <2>2 DEF Sounds, Counts
  <2>4. Request("unsub", d, m).client = d /\ Request("unsub", d, m).name = m
    BY DEF Request
  <2>5. \A p \in posts' : p.client = c /\ p.name = n => p \in posts
    BY <2>1, <2>2, <2>4
  <2> QED BY <2>1, <2>2, <2>3, <2>5, SoundKept
<1> QED BY <1>1, <1>2

(* A delivery of one name delivers nothing of another.                     *)
LEMMA SpreadWorlds ==
  ASSUME TypeOK, TypeOK', Attachments, [Next]_vars, NEW m \in Names, Spread(m), NEW n \in Names
  PROVE  IF n = m
         THEN reader[n].chunk \in Chunk /\ Delivered(World(n), World(n)', reader[n].chunk)
         ELSE Still(World(n), World(n)')
<1>1. /\ reader[m].step = "got" /\ posts' = posts /\ restarts' = restarts
      /\ reader' = [reader EXCEPT ![m] = [step |-> "reading", chunk |-> NoChunk]]
  BY DEF Spread, counts
<1>2. ~Restart
  <2>1. Restart => restarts' = restarts + 1
    BY DEF Restart
  <2> QED BY <1>1, <2>1, PartsOK
<1>3. reader'[m].step = "reading" /\ (n # m => reader'[n] = reader[n])
  BY <1>1 DEF TypeOK
<1>4. Spread(n) => reader[n].step = "got" /\ reader'[n].step = "reading"
  BY DEF Spread, TypeOK
<1>5. CASE n # m
  <2>1. ~Spread(n)
    BY <1>3, <1>4, <1>5
  <2> QED BY <1>2, <1>5, <2>1, NextWorlds
<1>6. CASE n = m
  <2>1. Delivers(m)
    BY SpreadDelivers
  <2>2. PICK w, v \in Worlds : w = World(n) /\ v = World(n)'
    BY NextWorlds
  <2>3. reader[n].chunk \in Chunk /\ pty[n].redraw \in BOOLEAN /\ reader[n].chunk.full \in BOOLEAN
    BY PartsOK DEF Chunk
  <2>4. Due(n) = reader[n].chunk.full /\ Pos(n) = reader[n].chunk.from
    BY <1>6, <2>1, <2>3 DEF Delivers, Due, Pos
  <2>5. /\ w.ring = ring[n] /\ w.due = Due(n) /\ w.pos = Pos(n) /\ w.out = pane[n].out /\ w.now = restarts
        /\ v.ring = ring'[n] /\ v.due = Due(n)' /\ v.pos = Pos(n)' /\ v.out = pane'[n].out /\ v.now = restarts'
    BY <2>2 DEF World
  <2>6. Delivered(w, v, reader[n].chunk)
    BY <1>1, <1>6, <2>1, <2>4, <2>5 DEF Delivers, Delivered
  <2> QED BY <1>6, <2>2, <2>3, <2>6
<1> QED BY <1>5, <1>6

(* The reader delivers a chunk to the subscribers.                         *)
LEMMA SoundSpread ==
  ASSUME TypeOK, TypeOK', Attachments, Rings, Rings', AllFit, Sounds, [Next]_vars,
         NEW m \in Names, Spread(m), NEW c \in Clients, NEW n \in Names, Counts(c, n)'
  PROVE  Sound(c, n)'
<1>1. PICK f \in Frame : f = NextFrame(m) /\ <<f>> \in Seq(Frame)
  BY SpreadEffect
<1>2. /\ UNCHANGED <<tab, term, posts>> /\ excused \subseteq excused'
      /\ \A k \in Streams :
           /\ stream'[k].subs = stream[k].subs
           /\ stream'[k].queue = IF m \in stream[k].subs THEN Push(stream[k].queue, <<f>>)
                                 ELSE stream[k].queue
      /\ tab[c].on # 0 /\ m \in stream[tab[c].on].subs =>
           n \notin GivenUp(stream[tab[c].on].queue, <<f>>)
  BY <1>1, SpreadEffect DEF Counts
<1>3. Sound(c, n)
  BY <1>2 DEF Sounds, Counts
<1>4. World(n)' \in Worlds
  BY NextWorlds
<1>5. f.name = m /\ f.seq = ring[m].next /\ f.chunk = reader[m].chunk
  BY <1>1 DEF NextFrame
<1>6. PICK w \in Worlds, t \in Screens, k \in Streams \cup {0} :
        /\ w = World(n) /\ t = Screen(term[c][n]) /\ k = tab[c].on /\ Joins(w, t)
        /\ \A p \in posts : Asks(p) /\ p.client = c /\ p.name = n /\ p.id = k =>
             p.kind = "sub" /\ p.since = t.last /\ p.life = t.life /\ (k = 0 \/ n \notin stream[k].subs)
        /\ k # 0 /\ n \in stream[k].subs => Brings(w, n, t, stream[k].queue)
        /\ k # 0 /\ n \notin stream[k].subs =>
             \A i \in 1 .. Len(stream[k].queue) : stream[k].queue[i].name # n
  BY <1>3, SoundBefore
<1>7. CASE n # m
  <2>1. Still(World(n), World(n)')
    BY <1>7, SpreadWorlds
  <2>2. CASE k # 0 /\ m \in stream[k].subs
    <3>1. \A i \in 1 .. Len(<<f>>) : <<f>>[i].name # n
      BY <1>5, <1>7, SingleSeq
    <3>2. k \in Streams /\ tab'[c].on = k /\ Screen(term'[c][n]) = Screen(term[c][n])
      BY <1>2, <1>6, <2>2
    <3>3. /\ n \in stream'[k].subs <=> n \in stream[k].subs
          /\ stream'[k].queue = Push(stream[k].queue, <<f>>) /\ n \notin GivenUp(stream[k].queue, <<f>>)
      BY <1>2, <1>6, <2>2, <3>2
    <3>4. \A p \in posts' : Asks(p) /\ p.client = c /\ p.name = n /\ p.id = k => p \in posts
      BY <1>2
    <3>5. k = tab[c].on
      BY <1>6
    <3>6. PICK frames \in Seq(Frame) : frames = <<f>>
      BY <1>1
    <3>7. /\ n \in stream'[k].subs <=> n \in stream[k].subs
          /\ stream'[k].queue = Push(stream[k].queue, frames) /\ n \notin GivenUp(stream[k].queue, frames)
          /\ \A i \in 1 .. Len(frames) : frames[i].name # n
      BY <3>1, <3>3, <3>6
    <3> QED BY <1>3, <1>4, <2>1, <3>2, <3>4, <3>5, <3>7, SoundPushed
  <2>3. CASE k = 0 \/ m \notin stream[k].subs
    <3>1. tab[c].on # 0 => /\ n \in stream'[tab[c].on].subs <=> n \in stream[tab[c].on].subs
                           /\ stream'[tab[c].on].queue = stream[tab[c].on].queue
      BY <1>2, <1>6, <2>3
    <3>2. \A p \in posts' : Asks(p) /\ p.client = c /\ p.name = n /\ p.id = tab[c].on => p \in posts
      BY <1>2
    <3> QED BY <1>2, <1>3, <1>4, <2>1, <3>1, <3>2, SoundKept
  <2> QED BY <2>2, <2>3
<1>8. CASE n = m
  <2>1. PICK v \in Worlds : v = World(n)'
    BY <1>4
  <2>2. PICK chunk \in Chunk : chunk = reader[n].chunk /\ Delivered(w, v, chunk)
    BY <1>6, <1>8, <2>1, SpreadWorlds
  <2>3. Numbered(w) /\ Numbered(v) /\ Fits(w, t) /\ w.ring = ring[n]
    BY <1>6, <2>1, WorldIs DEF Rings, AllFit
  <2>4. Joins(v, t)
    BY <1>6, <2>2, <2>3, JoinsDelivered
  <2>5. t = Screen(term'[c][n]) /\ k = tab'[c].on
    BY <1>2, <1>6
  <2>6. Joins(World(n)', Screen(term'[c][n]))
    BY <2>1, <2>4, <2>5
  <2>7. k # 0 => stream'[k].subs = stream[k].subs
    BY <1>2, <1>6
  <2>8. Joined(c, n)' => Brings(World(n)', n, Screen(term'[c][n]), stream'[tab'[c].on].queue)
    <3> SUFFICES ASSUME k # 0, n \in stream[k].subs PROVE Brings(v, n, t, stream'[k].queue)
      BY <2>1, <2>5, <2>7 DEF Joined
    <3>1. PICK queue \in Seq(Frame) : queue = stream[k].queue
      BY <1>6, PartsOK
    <3>2. Brings(w, n, t, queue)
      BY <1>6, <3>1
    <3>3. f.name = n /\ f.seq = w.ring.next /\ f.chunk = chunk
      BY <1>5, <1>8, <2>2, <2>3
    <3>4. Brings(v, n, t, queue \o <<f>>)
      BY <2>2, <2>3, <3>2, <3>3, BringsDelivered
    <3>5. n \notin GivenUp(queue, <<f>>) /\ stream'[k].queue = Push(queue, <<f>>)
      BY <1>2, <1>6, <1>8, <3>1
    <3>6. Brings(v, n, t, Push(queue, <<f>>))
      BY <1>1, <3>4, <3>5, PushBrings
    <3> QED BY <3>5, <3>6
  <2>9. ~Joined(c, n)' => Clear(c, n)'
    <3>1. k # 0 /\ n \notin stream[k].subs => stream'[k].queue = stream[k].queue
      BY <1>2, <1>6, <1>8
    <3> QED BY <1>6, <2>5, <2>7, <3>1 DEF Joined, Clear
  <2>10. \A p \in posts' : Asks(p) /\ p.client = c /\ p.name = n /\ p.id = tab'[c].on =>
           /\ p.kind = "sub" /\ ~Joined(c, n)'
           /\ p.since = Screen(term'[c][n]).last /\ p.life = Screen(term'[c][n]).life
    BY <1>2, <1>6, <2>5, <2>7 DEF Joined
  <2> QED BY <2>6, <2>8, <2>9, <2>10, SoundThen
<1> QED BY <1>7, <1>8

(* The server starts anew: no stream, no request, and an empty ring.       *)
LEMMA SoundRestart ==
  ASSUME TypeOK, TypeOK', Attachments, AllFit, Restart, [Next]_vars,
         NEW c \in Clients, NEW n \in Names
  PROVE  Sound(c, n)'
<1>1. /\ tab' = tab /\ term' = term /\ posts' = {}
      /\ \A k \in Streams : stream'[k].subs = {} /\ stream'[k].queue = <<>>
      /\ ring'[n] = NoRing
  BY RestartEffect
<1>2. PICK w, v \in Worlds : w = World(n) /\ v = World(n)'
  BY NextWorlds
<1>3. PICK t \in Screens : t = Screen(term[c][n]) /\ t = Screen(term'[c][n])
  BY <1>1, PartsOK, TermScreen
<1>4. v.ring = NoRing /\ v.ring.chunks = <<>>
  BY <1>1, <1>2, NullsOK DEF World
<1>5. Joins(World(n)', Screen(term'[c][n]))
  BY <1>2, <1>3, <1>4 DEF Joins, Served
<1>6. ~Joined(c, n)' /\ (tab'[c].on # 0 => stream'[tab'[c].on].queue = <<>>)
  BY <1>1, PartsOK DEF Joined
<1> QED BY <1>1, <1>5, <1>6, SoundIdle

(* Every step keeps the terminals that count sound.                        *)
LEMMA NextSounds ==
  ASSUME TypeOK, TypeOK', Attachments, Rings, Rings', Links, AllFit, AllFresh, Sounds, [Next]_vars
  PROVE  Sounds'
<1> SUFFICES ASSUME NEW c \in Clients, NEW n \in Names, Counts(c, n)'
             PROVE  Sound(c, n)'
  BY DEF Sounds
<1>1. CASE Restart
  BY <1>1, SoundRestart
<1>2. ASSUME NEW m \in Names, Spread(m) PROVE Sound(c, n)'
  BY <1>2, SoundSpread
<1>3. CASE ~Restart /\ \A m \in Names : ~Spread(m)
  <2>1. World(n)' \in Worlds /\ Still(World(n), World(n)')
    BY <1>3, NextWorlds
  <2>2. ASSUME UNCHANGED <<stream, tab, term, posts, excused>> PROVE Sound(c, n)'
    <3>1. Sound(c, n)
      BY <2>2 DEF Sounds, Counts
    <3> QED BY <2>1, <2>2, <3>1, SoundKept
  <2>3. CASE UNCHANGED vars
    BY <2>2, <2>3 DEF vars
  <2>4. ASSUME NEW m \in Names, Aside(m) PROVE Sound(c, n)'
    BY <2>2, <2>4, AsideEffect
  <2>5. ASSUME NEW p \in posts, Serving(p) PROVE Sound(c, n)'
    BY <2>1, <2>5, SoundServed
  <2>6. ASSUME NEW d \in Clients, Connect(d) \/ Hello(d) \/ Disconnect(d) \/ Receive(d)
        PROVE  Sound(c, n)'
    BY <2>1, <2>6, SoundConnect, SoundHello, SoundDisconnect, SoundReceive
  <2>7. ASSUME NEW d \in Clients, NEW m \in Names, Mount(d, m) \/ Unmount(d, m) PROVE Sound(c, n)'
    BY <2>1, <2>7, SoundMount
  <2> QED BY <1>3, <2>3, <2>4, <2>5, <2>6, <2>7 DEF Next, Aside, Reading
<1> QED BY <1>1, <1>2, <1>3

(* At the start none is open.                                              *)
LEMMA InitSounds == ASSUME Init PROVE Sounds
BY DEF Init, Sounds, Counts, NoTerm

-----------------------------------------------------------------------------
(* A sound terminal that is subscribed follows the reader.                 *)
LEMMA SoundFollows ==
  ASSUME TypeOK, NEW c \in Clients, NEW n \in Names, Subscribed(c, n), Sound(c, n), ~Due(n)
  PROVE  Foreseen(c, n, Pos(n))
<1>1. PICK queue \in Seq(Frame) : queue = stream[tab[c].on].queue
  BY PartsOK DEF Subscribed
<1>2. PICK M \in Nat : M = Len(queue) /\ DOMAIN queue = 1 .. M
  BY LenProperties
<1>3. PICK w \in Worlds : w = World(n)
  BY WorldOK
<1>4. PICK trace \in [0 .. M -> Screens] : trace[0] = Screen(term[c][n]) /\ Traces(w, n, queue, trace)
  <2>1. Brings(World(n), n, Screen(term[c][n]), stream[tab[c].on].queue)
    BY DEF Sound, Joined, Subscribed
  <2> QED BY <1>1, <1>2, <1>3, <2>1 DEF Brings
<1> DEFINE shown == [i \in 0 .. M |-> trace[i].view]
<1>5. shown \in [0 .. M -> Count \cup {Torn}]
  BY <1>4 DEF Screens
<1>6. shown[0] = term[c][n].view
  BY <1>2, <1>4 DEF Screen
<1>7. shown[M] = Pos(n)
  <2>1. Ends(w, trace[M].view) /\ w.pos = Pos(n) /\ w.due = Due(n)
    BY <1>2, <1>3, <1>4, WorldIs DEF Traces
  <2> QED BY <1>2, <2>1 DEF Ends
<1>8. ASSUME NEW i \in 1 .. M
      PROVE  shown[i] = IF i \in Queued(c, n) THEN Written(shown[i - 1], queue[i].chunk) ELSE shown[i - 1]
  <2>1. i \in 0 .. M /\ i - 1 \in 0 .. M /\ i \in 1 .. Len(queue) /\ i \in DOMAIN queue
    BY <1>2
  <2>2. PICK t, u \in Screens : t = trace[i - 1] /\ u = trace[i]
    BY <1>4, <2>1
  <2>3. PICK f \in Frame : f = queue[i]
    BY <1>2, <2>1, ElementOfSeq
  <2>4. u = After(n, t, f, w.now) /\ w.now \in Nat
    BY <1>4, <2>1, <2>2, <2>3, WorldParts DEF Traces
  <2>5. u.view = IF f.name = n THEN Written(t.view, f.chunk) ELSE t.view
    BY <2>4, GotScreen DEF After
  <2>6. i \in Queued(c, n) <=> f.name = n
    BY <1>1, <2>1, <2>3 DEF Queued
  <2>7. shown[i] = u.view /\ shown[i - 1] = t.view
    BY <2>1, <2>2
  <2> QED BY <2>3, <2>5, <2>6, <2>7
<1> HIDE DEF shown
<1> QED BY <1>1, <1>2, <1>5, <1>6, <1>7, <1>8 DEF Foreseen

(* The inductive invariant.  A frame is judged by what its terminal shows  *)
(* and has (AllFit), its ring (Rings) and its pane (Attachments); what is  *)
(* queued for a tab was asked by it (Links), by a terminal that was opened *)
(* (AllFresh).                                                             *)
IInv == /\ TypeOK /\ Attachments /\ Rings /\ Links /\ AllSane /\ AllFit /\ AllFresh /\ Sounds

(* The inductive invariant holds at the start,                             *)
LEMMA InitIInv == Init => IInv
BY InitTypes, InitRings, LinksInit, InitFits, InitFresh, InitSounds DEF IInv

(* every step keeps it,                                                    *)
LEMMA NextIInv == IInv /\ [Next]_vars => IInv'
<1> SUFFICES ASSUME IInv, [Next]_vars PROVE IInv'
  OBVIOUS
<1> USE DEF IInv
<1>1. TypeOK'
  BY NextTypes
<1>2. Attachments' /\ Rings'
  BY <1>1, NextRings
<1>3. Links'
  BY NextLinks
<1>4. AllSane' /\ AllFit'
  BY <1>1, NextSane, NextFits
<1>5. AllFresh'
  BY <1>1, NextFresh
<1>6. Sounds'
  BY <1>1, <1>2, NextSounds
<1> QED BY <1>1, <1>2, <1>3, <1>4, <1>5, <1>6

(* and it says that a subscribed screen follows the reader.                *)
LEMMA IInvFollows == IInv => ScreenFollowsReader
<1> SUFFICES ASSUME IInv, NEW c \in Clients, NEW n \in Names,
                    Subscribed(c, n), <<c, n>> \notin excused, ~pty[n].redraw, ~reader[n].chunk.full
             PROVE  Foreseen(c, n, IF reader[n].step = "got" THEN reader[n].chunk.from ELSE pty[n].read)
  BY DEF ScreenFollowsReader
<1>1. TypeOK /\ Sound(c, n)
  BY DEF IInv, Sounds, Counts, Subscribed
<1>2. ~Due(n)
  BY DEF Due
<1>3. Foreseen(c, n, Pos(n))
  BY <1>1, <1>2, SoundFollows
<1> QED BY <1>3 DEF Pos

(* It holds always.                                                        *)
LEMMA Invariance == Spec => []IInv
<1>1. Init => IInv
  BY InitIInv
<1>2. IInv /\ [Next]_vars => IInv'
  BY NextIInv
<1> QED BY <1>1, <1>2, PTL DEF Spec

(* A subscribed terminal misses nothing and is written nothing twice, but  *)
(* for the losses that `excused` names: ring, queues, sinces and snapshots *)
(* of routes/terminal.py and the tab's bookkeeping fit together.           *)
THEOREM ScreenFollows == Spec => []ScreenFollowsReader
<1>1. IInv => ScreenFollowsReader
  BY IInvFollows
<1> QED BY <1>1, Invariance, PTL

-----------------------------------------------------------------------------
(* Refinement of TerminalView.                                             *)
On(c, n) == Subscribed(c, n) /\ <<c, n>> \notin excused /\ ~Repainting(c, n)
Produced == [n \in Names |-> pane[n].out]
Shows    == [c \in Clients |-> [n \in Names |-> IF On(c, n) THEN term[c][n].view ELSE Detached]]
Losing(gone) ==
  [c \in Clients |-> [n \in Names |-> IF <<c, n>> \in gone THEN Detached ELSE Shows[c][n]]]

(* The initial states of TerminalView.                                     *)
LEMMA ViewInit == Produced = [n \in Names |-> 0] /\ Shows = [c \in Clients |-> [n \in Names |-> Detached]]
                    => View!Init
BY DEF View!Init, Produced, Shows, On

(* Its steps, in terms of On: output,                                      *)
LEMMA ViewProduce ==
  ASSUME NEW n \in Names, Produced' = [Produced EXCEPT ![n] = @ + 1], Shows' = Shows
  PROVE  View!Next
BY DEF View!Next, View!Produce, Produced, Shows, On

(* terminals that are lost,                                                *)
LEMMA ViewDetach ==
  ASSUME Produced' = Produced, NEW gone \in SUBSET (Clients \X Names), Shows' = Losing(gone)
  PROVE  View!Next
BY DEF View!Next, View!Detach, View!Without, Produced, Shows, On, Losing

(* one that is painted,                                                    *)
LEMMA ViewAttach ==
  ASSUME Produced' = Produced, NEW gone \in SUBSET (Clients \X Names),
         NEW c \in Clients, NEW n \in Names, NEW end \in 0 .. Produced[n],
         Shows[c][n] = Detached, Shows' = [Losing(gone) EXCEPT ![c][n] = end]
  PROVE  View!Next
<1>1. Losing(gone) = View!Without(gone)
  BY DEF View!Without, Losing, Shows, On
<1>2. Shows' = [View!Without(gone) EXCEPT ![c][n] = end]
  BY <1>1
<1>3. View!Attach(c, n)
  BY <1>2 DEF View!Attach, Produced, Shows, On
<1> QED BY <1>3 DEF View!Next

(* and one that goes forward.                                              *)
LEMMA ViewShow ==
  ASSUME Produced' = Produced, NEW c \in Clients, NEW n \in Names,
         NEW end \in Shows[c][n] + 1 .. Produced[n],
         Shows[c][n] # Detached, Shows' = [Shows EXCEPT ![c][n] = end]
  PROVE  View!Next
BY DEF View!Next, View!Show, Produced, Shows, On

(* A screen that is on shows what its pane has written.                    *)
Viewing == \A c \in Clients, n \in Names : On(c, n) =>
             term[c][n].view \in Nat /\ term[c][n].view <= pane[n].out

(* It has, as a torn screen of a sound terminal is about to be repainted.  *)
LEMMA OnView == IInv => Viewing
<1> SUFFICES ASSUME IInv, NEW c \in Clients, NEW n \in Names, On(c, n)
             PROVE  term[c][n].view \in Nat /\ term[c][n].view <= pane[n].out
  BY DEF Viewing
<1> USE DEF IInv
<1>1. Joined(c, n) /\ Sound(c, n)
  BY DEF On, Subscribed, Joined, Sounds, Counts
<1>2. PICK queue \in Seq(Frame) : queue = stream[tab[c].on].queue
  BY PartsOK DEF On, Subscribed
<1>3. PICK w \in Worlds, t \in Screens : w = World(n) /\ t = Screen(term[c][n])
  BY WorldOK, PartsOK, TermScreen
<1>4. PICK trace \in [0 .. Len(queue) -> Screens] : trace[0] = t /\ Traces(w, n, queue, trace)
  BY <1>1, <1>2, <1>3 DEF Sound, Brings
<1>5. t.view # Torn
  <2>1. 0 \in 0 .. Len(queue) /\ DOMAIN queue = 1 .. Len(queue)
    BY LenProperties
  <2>2. ASSUME NEW j \in 1 .. Len(queue), queue[j].name = n, queue[j].chunk.full PROVE FALSE
    <3>1. j \in Queued(c, n)
      BY <1>2, <2>1, <2>2 DEF Queued
    <3> QED BY <1>2, <2>2, <3>1 DEF On, Repainting
  <2>3. trace[0].view = Torn => \E j \in 0 + 1 .. Len(queue) : queue[j].name = n /\ queue[j].chunk.full
    BY <1>4, <2>1 DEF Traces
  <2> QED BY <1>4, <2>2, <2>3
<1>6. t.view \in Nat /\ t.view <= w.out
  BY <1>3, <1>5, ScreenParts DEF AllFit, Fits
<1> QED BY <1>3, <1>6, WorldIs DEF Screen

(* The same after a step.                                                  *)
LEMMA OnViewNext == IInv' => Viewing'
BY OnView, PTL

(* Steps after which terminals show what they did, or nothing.             *)
LEMMA Loses ==
  ASSUME \A n \in Names : pane'[n].out = pane[n].out,
         \A c \in Clients, n \in Names : On(c, n)' => On(c, n) /\ term'[c][n].view = term[c][n].view
  PROVE  View!Next
<1> DEFINE gone == {x \in Clients \X Names : ~On(x[1], x[2])'}
<1>1. Produced' = Produced
  BY DEF Produced
<1>2. ASSUME NEW c \in Clients, NEW n \in Names
      PROVE  Shows'[c][n] = IF <<c, n>> \in gone THEN Detached ELSE Shows[c][n]
  <2>1. <<c, n>> \in gone <=> ~On(c, n)'
    OBVIOUS
  <2>2. Shows'[c][n] = (IF On(c, n)' THEN term'[c][n].view ELSE Detached)
    BY DEF Shows
  <2>3. Shows[c][n] = (IF On(c, n) THEN term[c][n].view ELSE Detached)
    BY DEF Shows
  <2> QED BY <2>1, <2>2, <2>3
<1>3. gone \in SUBSET (Clients \X Names)
  OBVIOUS
<1> HIDE DEF gone
<1>4. Shows' = Losing(gone)
  BY <1>2 DEF Shows, Losing
<1> QED BY <1>1, <1>3, <1>4, ViewDetach

(* One is painted anew.                                                    *)
LEMMA Attaches ==
  ASSUME \A n \in Names : pane'[n].out = pane[n].out,
         NEW d \in Clients, NEW m \in Names, ~On(d, m), On(d, m)',
         term'[d][m].view \in Nat, term'[d][m].view <= pane[m].out, pane[m].out \in Nat,
         \A c \in Clients, n \in Names : <<c, n>> # <<d, m>> =>
           (On(c, n)' => On(c, n) /\ term'[c][n].view = term[c][n].view)
  PROVE  View!Next
<1> DEFINE gone == {x \in Clients \X Names : ~On(x[1], x[2])'}
           end == term'[d][m].view
<1>1. Produced' = Produced
  BY DEF Produced
<1>2. ASSUME NEW c \in Clients, NEW n \in Names
      PROVE  Shows'[c][n] = IF <<c, n>> = <<d, m>> THEN end
                            ELSE IF <<c, n>> \in gone THEN Detached ELSE Shows[c][n]
  <2>1. <<c, n>> \in gone <=> ~On(c, n)'
    OBVIOUS
  <2>2. Shows'[c][n] = (IF On(c, n)' THEN term'[c][n].view ELSE Detached)
    BY DEF Shows
  <2>3. Shows[c][n] = (IF On(c, n) THEN term[c][n].view ELSE Detached)
    BY DEF Shows
  <2> QED BY <2>1, <2>2, <2>3
<1>3. gone \in SUBSET (Clients \X Names)
  OBVIOUS
<1>4. end \in 0 .. Produced[m]
  BY DEF Produced
<1> HIDE DEF gone, end
<1>5. Shows' = [Losing(gone) EXCEPT ![d][m] = end]
  <2>1. ASSUME NEW c \in Clients, NEW n \in Names
        PROVE  Shows'[c][n] = [Losing(gone) EXCEPT ![d][m] = end][c][n]
    <3>1. Losing(gone)[c][n] = IF <<c, n>> \in gone THEN Detached ELSE Shows[c][n]
      BY DEF Losing
    <3>2. [Losing(gone) EXCEPT ![d][m] = end][c][n] = IF c = d /\ n = m THEN end ELSE Losing(gone)[c][n]
      BY DEF Losing
    <3> QED BY <1>2, <3>1, <3>2
  <2>2. Shows' = [c \in Clients |-> [n \in Names |-> Shows'[c][n]]]
    BY DEF Shows
  <2>3. [Losing(gone) EXCEPT ![d][m] = end] =
          [c \in Clients |-> [n \in Names |-> [Losing(gone) EXCEPT ![d][m] = end][c][n]]]
    BY DEF Losing
  <2> QED BY <2>1, <2>2, <2>3
<1>6. Shows[d][m] = Detached
  BY DEF Shows
<1> QED BY <1>1, <1>3, <1>4, <1>5, <1>6, ViewAttach

(* One goes forward.                                                       *)
LEMMA Advances ==
  ASSUME \A n \in Names : pane'[n].out = pane[n].out,
         NEW d \in Clients, NEW m \in Names, On(d, m), On(d, m)',
         term[d][m].view \in Nat, term'[d][m].view \in Nat, pane[m].out \in Nat,
         term[d][m].view < term'[d][m].view, term'[d][m].view <= pane[m].out,
         \A c \in Clients, n \in Names : <<c, n>> # <<d, m>> =>
           On(c, n)' = On(c, n) /\ term'[c][n].view = term[c][n].view
  PROVE  View!Next
<1> DEFINE end == term'[d][m].view
<1>1. Produced' = Produced
  BY DEF Produced
<1>2. ASSUME NEW c \in Clients, NEW n \in Names
      PROVE  Shows'[c][n] = IF <<c, n>> = <<d, m>> THEN end ELSE Shows[c][n]
  <2>2. Shows'[c][n] = (IF On(c, n)' THEN term'[c][n].view ELSE Detached)
    BY DEF Shows
  <2>3. Shows[c][n] = (IF On(c, n) THEN term[c][n].view ELSE Detached)
    BY DEF Shows
  <2> QED BY <2>2, <2>3
<1>3. Shows[d][m] = term[d][m].view /\ Shows[d][m] # Detached
  BY TornAssumption DEF Shows
<1>4. end \in Shows[d][m] + 1 .. Produced[m]
  BY <1>3 DEF Produced
<1> HIDE DEF end
<1>5. Shows' = [Shows EXCEPT ![d][m] = end]
  <2>1. ASSUME NEW c \in Clients, NEW n \in Names
        PROVE  Shows'[c][n] = [Shows EXCEPT ![d][m] = end][c][n]
    <3>1. [Shows EXCEPT ![d][m] = end][c][n] = IF c = d /\ n = m THEN end ELSE Shows[c][n]
      BY DEF Shows
    <3> QED BY <1>2, <3>1
  <2>2. Shows' = [c \in Clients |-> [n \in Names |-> Shows'[c][n]]]
    BY DEF Shows
  <2>3. [Shows EXCEPT ![d][m] = end] =
          [c \in Clients |-> [n \in Names |-> [Shows EXCEPT ![d][m] = end][c][n]]]
    BY DEF Shows
  <2> QED BY <2>1, <2>2, <2>3
<1> QED BY <1>1, <1>3, <1>4, <1>5, ViewShow

(* A repaint is queued.                                                    *)
Paints(queue, n) == \E i \in 1 .. Len(queue) : queue[i].name = n /\ queue[i].chunk.full
Painting == \A c \in Clients, n \in Names : tab[c].on # 0 =>
              (Repainting(c, n) <=> Paints(stream[tab[c].on].queue, n))

(* A repaint is a full frame in the queue,                                 *)
LEMMA IsPainting == TypeOK => Painting
<1> SUFFICES ASSUME TypeOK, NEW c \in Clients, NEW n \in Names, tab[c].on # 0
             PROVE  Repainting(c, n) <=> Paints(stream[tab[c].on].queue, n)
  BY DEF Painting
<1>1. PICK queue \in Seq(Frame) : queue = stream[tab[c].on].queue
  BY PartsOK
<1>2. Queued(c, n) = {i \in 1 .. Len(queue) : queue[i].name = n}
  BY <1>1, LenProperties DEF Queued
<1> QED BY <1>1, <1>2 DEF Repainting, Paints

(* before a step and after it.                                             *)
LEMMA IsPaintingNext == TypeOK' => Painting'
BY IsPainting, PTL

(* A push keeps it, if it gives up no frame of the terminal.               *)
LEMMA PushPaints ==
  ASSUME NEW queue \in Seq(Frame), NEW frames \in Seq(Frame), NEW n, n \notin GivenUp(queue, frames),
         Paints(queue, n)
  PROVE  Paints(Push(queue, frames), n)
<1>1. PICK i \in 1 .. Len(queue) : queue[i].name = n /\ queue[i].chunk.full
  BY DEF Paints
<1> DEFINE all == queue \o frames
           push == Push(queue, frames)
<1>2. /\ Len(all) = Len(queue) + Len(frames) /\ Excess(all) \in 0 .. Len(all)
      /\ \A j \in 1 .. Len(queue) : all[j] = queue[j]
      /\ Len(push) = Len(all) - Excess(all)
      /\ \A j \in 1 .. Len(all) - Excess(all) : push[j] = all[Excess(all) + j]
  BY PushOK
<1>3. GivenUp(queue, frames) = {all[j].name : j \in 1 .. Excess(all)}
  BY DEF GivenUp
<1> HIDE DEF all, push
<1>4. PICK L, M, e \in Nat : L = Len(queue) /\ M = Len(frames) /\ e = Excess(all)
  BY <1>2, LenProperties
<1>5. i > e
  <2> SUFFICES ASSUME i <= e PROVE FALSE
    BY <1>4
  <2>1. i \in 1 .. Excess(all) /\ all[i].name = n
    BY <1>1, <1>2, <1>4
  <2> QED BY <1>3, <2>1
<1>6. i - e \in 1 .. (L + M) - e /\ e + (i - e) = i
  BY <1>4, <1>5
<1>7. push[i - e] = queue[i] /\ i - e \in 1 .. Len(push)
  BY <1>2, <1>4, <1>6
<1> QED BY <1>1, <1>7 DEF Paints, push

(* A terminal that is on after a step was on before it, if it was          *)
(* subscribed, and is not painted anew by what was queued.                 *)
LEMMA OnBefore ==
  ASSUME TypeOK, TypeOK', NEW c \in Clients, NEW n \in Names, On(c, n)',
         tab'[c].on = tab[c].on, tab'[c].id = tab[c].id, term'[c][n].mounted = term[c][n].mounted,
         NEW k \in Streams, k = tab[c].on,
         n \in stream'[k].subs => n \in stream[k].subs, <<c, n>> \in excused => <<c, n>> \in excused',
         Paints(stream[k].queue, n) => Paints(stream'[k].queue, n)
  PROVE  On(c, n)
<1>1. tab[c].on # 0
  BY DEF On, Subscribed
<1>2. Repainting(c, n) <=> Paints(stream[k].queue, n)
  BY <1>1, IsPainting DEF Painting
<1>3. Repainting(c, n)' <=> Paints(stream'[k].queue, n)
  BY <1>1, IsPaintingNext DEF Painting
<1>4. Subscribed(c, n)' => Subscribed(c, n)
  BY DEF Subscribed
<1> QED BY <1>2, <1>3, <1>4 DEF On

(* On the one stream or the other.                                         *)
LEMMA OnOn == ASSUME TypeOK, NEW c \in Clients, NEW n \in Names, On(c, n) PROVE tab[c].on \in Streams
BY PartsOK DEF On, Subscribed

(* The same after a step.                                                  *)
LEMMA OnOnNext ==
  ASSUME TypeOK', NEW c \in Clients, NEW n \in Names, On(c, n)' PROVE tab'[c].on \in Streams
BY DEF On, Subscribed, TypeOK, Tab

(* A step that leaves the streams and the tabs.                            *)
LEMMA OnSame ==
  ASSUME UNCHANGED <<stream, tab, term, excused>>, NEW c \in Clients, NEW n \in Names
  PROVE  On(c, n)' = On(c, n) /\ term'[c][n].view = term[c][n].view
BY DEF On, Subscribed, Repainting, Queued

(* Output is produced.                                                     *)
LEMMA ViewAside ==
  ASSUME TypeOK, NEW m \in Names, Aside(m)
  PROVE  View!Next
<1>1. UNCHANGED <<stream, tab, term, excused>>
  BY AsideEffect
<1>2. CASE Output(m) \/ Input(m) \/ PaneReturns(m)
  <2>1. pane' = [pane EXCEPT ![m].out = @ + 1] \/ pane' = [pane EXCEPT ![m] = [up |-> TRUE, out |-> @.out + 1]]
    BY <1>2 DEF Output, Input, PaneReturns
  <2>2. \A n \in Names : pane'[n].out = IF n = m THEN pane[n].out + 1 ELSE pane[n].out
    BY <2>1 DEF TypeOK
  <2>3. Produced' = [Produced EXCEPT ![m] = @ + 1]
    BY <2>2 DEF Produced
  <2>4. Shows' = Shows
    BY <1>1, OnSame DEF Shows
  <2> QED BY <2>3, <2>4, ViewProduce
<1>3. CASE InputFails(m) \/ AttachmentEnds(m) \/ PaneEnds(m) \/ Remove_(m)
             \/ Read(m) \/ ReadFails(m) \/ ReaderEnds(m)
  <2>1. \A n \in Names : pane'[n].out = pane[n].out
    BY <1>3 DEF InputFails, AttachmentEnds, PaneEnds, Remove_, Read, ReadFails, ReaderEnds, TypeOK
  <2> QED BY <1>1, <2>1, OnSame, Loses
<1> QED BY <1>2, <1>3 DEF Aside

(* A chunk is delivered: what loses a frame is excused, what is repainted  *)
(* is not on.                                                              *)
LEMMA ViewSpread ==
  ASSUME IInv, IInv', NEW m \in Names, Spread(m)
  PROVE  View!Next
<1> USE DEF IInv
<1>1. PICK f \in Frame : f = NextFrame(m) /\ <<f>> \in Seq(Frame)
  BY SpreadEffect
<1>2. /\ UNCHANGED <<tab, term>> /\ excused \subseteq excused'
      /\ \A k \in Streams :
           /\ stream'[k].subs = stream[k].subs
           /\ stream'[k].queue = IF m \in stream[k].subs THEN Push(stream[k].queue, <<f>>)
                                 ELSE stream[k].queue
      /\ \A c \in Clients, n \in Names :
           tab[c].on # 0 /\ m \in stream[tab[c].on].subs /\ <<c, n>> \notin excused' =>
             n \notin GivenUp(stream[tab[c].on].queue, <<f>>)
  BY <1>1, SpreadEffect
<1>3. pane' = pane
  BY DEF Spread
<1>4. ASSUME NEW c \in Clients, NEW n \in Names, On(c, n)'
      PROVE  On(c, n) /\ term'[c][n].view = term[c][n].view
  <2>1. PICK k \in Streams : k = tab[c].on /\ k # 0
    BY <1>2, <1>4, OnOnNext DEF On, Subscribed
  <2>2. PICK queue \in Seq(Frame) : queue = stream[k].queue
    BY PartsOK
  <2>3. <<c, n>> \notin excused'
    BY <1>4 DEF On
  <2>4. Paints(stream[k].queue, n) => Paints(stream'[k].queue, n)
    <3>1. CASE m \in stream[k].subs
      <4>1. n \notin GivenUp(queue, <<f>>) /\ stream'[k].queue = Push(queue, <<f>>)
        BY <1>2, <2>1, <2>2, <2>3, <3>1
      <4>2. Paints(queue, n) => Paints(Push(queue, <<f>>), n)
        BY <1>1, <4>1, PushPaints
      <4> QED BY <2>2, <4>1, <4>2
    <3>2. CASE m \notin stream[k].subs
      BY <1>2, <3>2
    <3> QED BY <3>1, <3>2
  <2>5. n \in stream'[k].subs => n \in stream[k].subs
    BY <1>2
  <2> QED BY <1>2, <1>4, <2>1, <2>4, <2>5, OnBefore
<1> QED BY <1>3, <1>4, Loses

(* A subscription is served: its terminal was not on before.               *)
LEMMA ViewSubscribe ==
  ASSUME IInv, IInv', NEW p \in posts, NEW captured \in BOOLEAN, HandleSubscribe(p, captured)
  PROVE  View!Next
<1> USE DEF IInv
<1>1. PICK frames \in Seq(Frame) : frames = Sent(p, captured)
  BY SubscribeEffect
<1>2. /\ UNCHANGED <<pane, tab, term>> /\ Asks(p) /\ p.id \in Streams /\ p.name \in Names
      /\ \A k \in Streams : k # p.id \/ Owner(k) = {} => stream'[k] = stream[k]
      /\ Owner(p.id) # {} =>
           /\ stream'[p.id].subs = stream[p.id].subs \cup {p.name}
           /\ stream'[p.id].queue = Push(stream[p.id].queue, frames)
  BY <1>1, SubscribeEffect
<1>3. \A c \in Clients, m \in Names : tab[c].on # p.id \/ m # p.name =>
        (<<c, m>> \in excused \/ (tab[c].on = p.id /\ m \in GivenUp(stream[p.id].queue, frames))
          => <<c, m>> \in excused')
  BY <1>1, SubscribeEffect
<1>4. p \in Post /\ p.client \in Clients
  BY PartsOK, PostOK
<1>5. ASSUME NEW c \in Clients, NEW n \in Names, On(c, n)', tab[c].on # p.id \/ n # p.name
      PROVE  On(c, n) /\ term'[c][n].view = term[c][n].view
  <2>1. PICK k \in Streams : k = tab[c].on
    BY <1>2, <1>5, OnOnNext
  <2>2. PICK queue \in Seq(Frame) : queue = stream[k].queue
    BY PartsOK
  <2>3. <<c, n>> \notin excused'
    BY <1>5 DEF On
  <2>4. (n \in stream'[k].subs => n \in stream[k].subs) /\ (Paints(stream[k].queue, n) => Paints(stream'[k].queue, n))
    <3>1. CASE k # p.id
      BY <1>2, <3>1
    <3>2. CASE k = p.id
      <4>1. Owner(p.id) # {}
        BY <2>1, <3>2 DEF Owner
      <4>2. n \notin GivenUp(queue, frames) /\ stream'[k].queue = Push(queue, frames)
        BY <1>2, <1>3, <1>5, <2>1, <2>2, <2>3, <3>2, <4>1
      <4>3. Paints(queue, n) => Paints(Push(queue, frames), n)
        BY <4>2, PushPaints
      <4>4. n \in stream'[k].subs => n \in stream[k].subs
        BY <1>2, <1>5, <2>1, <3>2, <4>1
      <4> QED BY <2>2, <4>2, <4>3, <4>4
    <3> QED BY <3>1, <3>2
  <2>5. <<c, n>> \in excused => <<c, n>> \in excused'
    BY <1>3, <1>5
  <2>6. On(c, n)
    BY <1>2, <1>5, <2>1, <2>4, <2>5, OnBefore
  <2> QED BY <1>2, <2>6
<1>6. CASE \A c \in Clients, n \in Names : On(c, n)' => tab[c].on # p.id \/ n # p.name
  <2>1. \A c \in Clients, n \in Names : On(c, n)' => On(c, n) /\ term'[c][n].view = term[c][n].view
    BY <1>5, <1>6
  <2> QED BY <1>2, <2>1, Loses
<1>7. ASSUME NEW d \in Clients, NEW m \in Names, On(d, m)', tab[d].on = p.id, m = p.name
      PROVE  View!Next
  <2>1. d = p.client
    BY <1>2, <1>7 DEF Links, Requests
  <2>2. ~On(d, m)
    <3> SUFFICES ASSUME On(d, m) PROVE FALSE
      OBVIOUS
    <3>1. Sound(d, m) /\ Joined(d, m)
      BY DEF On, Sounds, Counts, Subscribed, Joined
    <3> QED BY <1>2, <1>7, <2>1, <3>1 DEF Sound, Asked
  <2>3. \A c \in Clients, n \in Names : <<c, n>> # <<d, m>> =>
          (On(c, n)' => On(c, n) /\ term'[c][n].view = term[c][n].view)
    <3> SUFFICES ASSUME NEW c \in Clients, NEW n \in Names, <<c, n>> # <<d, m>>, On(c, n)'
                 PROVE  On(c, n) /\ term'[c][n].view = term[c][n].view
      OBVIOUS
    <3>1. tab[c].on = p.id => c = d
      BY <1>2, <2>1 DEF Links, Requests
    <3>2. tab[c].on # p.id \/ n # p.name
      BY <1>7, <3>1
    <3> QED BY <1>5, <3>2
  <2>4. term'[d][m].view \in Nat /\ term'[d][m].view <= pane'[m].out
    BY <1>7, OnViewNext DEF Viewing
  <2>5. pane[m].out \in Nat
    BY PartsOK DEF Count
  <2> QED BY <1>2, <1>7, <2>2, <2>3, <2>4, <2>5, Attaches
<1> QED BY <1>6, <1>7

(* The other requests and the answers.                                     *)
LEMMA ViewServe ==
  ASSUME IInv, IInv', NEW p \in posts, Serving(p)
  PROVE  View!Next
<1> USE DEF IInv
<1>1. ASSUME NEW captured \in BOOLEAN, HandleSubscribe(p, captured) PROVE View!Next
  BY <1>1, ViewSubscribe
<1>2. CASE RefuseSubscribe(p)
  <2>1. UNCHANGED <<stream, tab, term, excused>> /\ pane' = pane
    BY <1>2, RefuseEffect DEF RefuseSubscribe
  <2> QED BY <2>1, OnSame, Loses
<1>3. CASE HandleUnsubscribe(p)
  <2>1. /\ UNCHANGED <<tab, term, excused>>
        /\ p.id \in Streams /\ stream'[p.id].subs = stream[p.id].subs \ {p.name}
        /\ \A k \in Streams : stream'[k].queue = stream[k].queue /\ (k # p.id => stream'[k] = stream[k])
    BY <1>3, UnsubscribeEffect
  <2>2. pane' = pane
    BY <1>3 DEF HandleUnsubscribe
  <2>3. ASSUME NEW c \in Clients, NEW n \in Names, On(c, n)'
        PROVE  On(c, n) /\ term'[c][n].view = term[c][n].view
    <3>1. PICK k \in Streams : k = tab[c].on
      BY <2>1, <2>3, OnOnNext
    <3>2. /\ n \in stream'[k].subs => n \in stream[k].subs
          /\ Paints(stream[k].queue, n) => Paints(stream'[k].queue, n)
      BY <2>1
    <3> QED BY <2>1, <2>3, <3>1, <3>2, OnBefore
  <2> QED BY <2>2, <2>3, Loses
<1>4. CASE Answered(p)
  <2>1. /\ UNCHANGED <<stream, tab, excused>>
        /\ \A c \in Clients, n \in Names : /\ Screen(term'[c][n]) = Screen(term[c][n])
                                           /\ term'[c][n].mounted = term[c][n].mounted
    BY <1>4, AnsweredEffect
  <2>2. pane' = pane
    BY <1>4 DEF Answered
  <2>3. ASSUME NEW c \in Clients, NEW n \in Names, On(c, n)'
        PROVE  On(c, n) /\ term'[c][n].view = term[c][n].view
    <3> PICK k \in Streams : k = tab[c].on
      BY <2>1, <2>3, OnOnNext
    <3>1. On(c, n)
      BY <2>1, <2>3, OnBefore
    <3>2. Screen(term'[c][n]).view = Screen(term[c][n]).view
      BY <2>1
    <3> QED BY <3>1, <3>2 DEF Screen
  <2> QED BY <2>2, <2>3, Loses
<1> QED BY <1>1, <1>2, <1>3, <1>4 DEF Serving

(* A tab connects, is told its number, is disconnected: the terminals of   *)
(* the others are where they were, its own are off.                        *)
LEMMA ViewLine ==
  ASSUME IInv, IInv', NEW d \in Clients, Connect(d) \/ Hello(d) \/ Disconnect(d)
  PROVE  View!Next
<1> USE DEF IInv
<1>0. pane' = pane
  BY DEF Connect, Hello, Disconnect, server
<1>1. excused' = excused /\ \A c \in Clients : c # d => tab'[c] = tab[c]
  BY ConnectEffect, HelloEffect, DisconnectEffect
<1>2. ASSUME NEW c \in Clients, NEW n \in Names
      PROVE  Screen(term'[c][n]) = Screen(term[c][n]) /\ term'[c][n].mounted = term[c][n].mounted
  BY ConnectEffect, HelloEffect, DisconnectEffect
<1>3. ASSUME NEW c \in Clients, c # d, tab[c].on \in Streams
      PROVE  stream'[tab[c].on].subs = stream[tab[c].on].subs /\ stream'[tab[c].on].queue = stream[tab[c].on].queue
  <2>1. CASE Connect(d)
    BY <1>3, <2>1, ConnectEffect
  <2>2. CASE Hello(d)
    BY <1>3, <2>2, HelloEffect
  <2>3. CASE Disconnect(d)
    <3>1. tab[c].on # tab[d].on
      BY <1>3 DEF Links, Tabs, Streams
    <3> QED BY <1>3, <2>3, <3>1, DisconnectEffect
  <2> QED BY <2>1, <2>2, <2>3
<1>4. ASSUME NEW n \in Names, On(d, n)' PROVE FALSE
  <2>0. tab'[d].on # 0 /\ tab'[d].id = tab'[d].on /\ n \in stream'[tab'[d].on].subs
    BY <1>4 DEF On, Subscribed
  <2>1. CASE Connect(d)
    <3>1. /\ tab[d].on = 0 /\ tab'[d].on = opened' /\ tab'[d].id = tab[d].id /\ opened' \in Streams
      BY <2>1, ConnectEffect
    <3>2. tab[d].id = 0
      BY <3>1 DEF Links, Tabs
    <3> QED BY <2>0, <3>1, <3>2
  <2>2. CASE Hello(d)
    <3>1. /\ tab[d].on # 0 /\ tab[d].id # tab[d].on /\ tab'[d].on = tab[d].on /\ stream' = stream
      BY <2>2, HelloEffect
    <3>2. PICK k \in Streams : k = tab[d].on
      BY <3>1, PartsOK
    <3>3. PICK c \in Clients : tab[c].on = k /\ tab[c].id = k
      BY <2>0, <3>1, <3>2 DEF Links, Owned, Busy
    <3>4. c = d
      BY <3>1, <3>2, <3>3 DEF Links, Tabs
    <3> QED BY <3>1, <3>2, <3>3, <3>4
  <2>3. CASE Disconnect(d)
    BY <2>0, <2>3, DisconnectEffect
  <2> QED BY <2>1, <2>2, <2>3
<1>5. ASSUME NEW c \in Clients, NEW n \in Names, On(c, n)'
      PROVE  On(c, n) /\ term'[c][n].view = term[c][n].view
  <2>1. c # d
    BY <1>4, <1>5
  <2>2. tab'[c] = tab[c]
    BY <1>1, <2>1
  <2>3. PICK k \in Streams : k = tab[c].on
    BY <1>5, <2>2, OnOnNext
  <2>4. stream'[k].subs = stream[k].subs /\ stream'[k].queue = stream[k].queue
    BY <1>3, <2>1, <2>3
  <2>5. On(c, n)
    BY <1>1, <1>2, <1>5, <2>2, <2>3, <2>4, OnBefore
  <2>6. Screen(term'[c][n]).view = Screen(term[c][n]).view
    BY <1>2
  <2> QED BY <2>5, <2>6 DEF Screen
<1> QED BY <1>0, <1>5, Loses

(* A terminal is opened, not yet subscribed, or closed.                    *)
LEMMA ViewMount ==
  ASSUME IInv, IInv', NEW d \in Clients, NEW m \in Names, Mount(d, m) \/ Unmount(d, m)
  PROVE  View!Next
<1> USE DEF IInv
<1>0. pane' = pane
  BY DEF Mount, Unmount
<1>1. /\ stream' = stream
      /\ \A c \in Clients : tab'[c].on = tab[c].on /\ tab'[c].id = tab[c].id
  BY MountEffect, UnmountEffect
<1>2. \A c \in Clients, n \in Names : <<c, n>> # <<d, m>> => term'[c][n] = term[c][n]
  <2>1. Mount(d, m) => \A c \in Clients, n \in Names : <<c, n>> # <<d, m>> => term'[c][n] = term[c][n]
    BY MountEffect, Zenon
  <2>2. CASE Unmount(d, m)
    <3>1. \A e \in Clients, l \in Names : <<e, l>> # <<d, m>> => term'[e][l] = term[e][l]
      BY <2>2, UnmountEffect
    <3> QED BY <3>1
  <2> QED BY <2>1, <2>2
<1>3. \A x \in excused : x = <<d, m>> \/ x \in excused'
  BY MountEffect, UnmountEffect
<1>4. ASSUME On(d, m)' PROVE FALSE
  <2>0. tab'[d].on # 0 /\ m \in stream'[tab'[d].on].subs /\ term'[d][m].mounted /\ <<d, m>> \notin excused'
    BY <1>4 DEF On, Subscribed
  <2>1. CASE Mount(d, m)
    <3>1. term[d][m].before => <<d, m>> \in excused'
      BY <2>1, MountEffect
    <3>2. Unknown(d, m)
      BY <2>0, <3>1 DEF AllFresh
    <3>3. tab'[d].on = tab[d].on
      BY <1>1
    <3> QED BY <1>1, <2>0, <3>2, <3>3 DEF Unknown, Joined
  <2>2. CASE Unmount(d, m)
    BY <2>0, <2>2, UnmountEffect
  <2> QED BY <2>1, <2>2
<1>5. ASSUME NEW c \in Clients, NEW n \in Names, On(c, n)'
      PROVE  On(c, n) /\ term'[c][n].view = term[c][n].view
  <2>1. <<c, n>> # <<d, m>>
    BY <1>4, <1>5
  <2>2. term'[c][n] = term[c][n]
    BY <1>2, <2>1
  <2>3. tab'[c].on = tab[c].on /\ tab'[c].id = tab[c].id
    BY <1>1
  <2>4. PICK k \in Streams : k = tab[c].on
    BY <1>5, <2>3, OnOnNext
  <2>5. <<c, n>> \in excused => <<c, n>> \in excused'
    BY <1>3, <2>1
  <2>6. On(c, n)
    BY <1>1, <1>5, <2>2, <2>3, <2>4, <2>5, OnBefore
  <2> QED BY <2>2, <2>6
<1> QED BY <1>0, <1>5, Loses

(* The server starts anew: nobody is subscribed.                           *)
LEMMA ViewRestart ==
  ASSUME IInv, IInv', Restart
  PROVE  View!Next
<1> USE DEF IInv
<1>1. UNCHANGED <<tab, term>> /\ \A k \in Streams : stream'[k].subs = {}
  BY RestartEffect
<1>2. pane' = pane
  BY DEF Restart
<1>3. ASSUME NEW c \in Clients, NEW n \in Names, On(c, n)'
      PROVE  On(c, n) /\ term'[c][n].view = term[c][n].view
  <2>1. PICK k \in Streams : k = tab'[c].on
    BY <1>3, OnOnNext
  <2>2. n \in stream'[k].subs
    BY <1>3, <2>1 DEF On, Subscribed
  <2> QED BY <1>1, <2>1, <2>2
<1> QED BY <1>2, <1>3, Loses

(* The first frame is taken off a queue.                                   *)
LEMMA TailPaints ==
  ASSUME NEW queue \in Seq(Frame), Len(queue) \in Nat \ {0}, NEW n
  PROVE  Paints(queue, n) <=> \/ Paints(SubSeq(queue, 2, Len(queue)), n)
                              \/ queue[1].name = n /\ queue[1].chunk.full
<1> DEFINE rest == SubSeq(queue, 2, Len(queue))
<1>0. PICK L \in Nat \ {0} : L = Len(queue)
  OBVIOUS
<1>1. /\ Len(SubSeq(queue, 1 + 1, Len(queue))) = Len(queue) - 1
      /\ \A i \in 1 .. Len(queue) - 1 : SubSeq(queue, 1 + 1, Len(queue))[i] = queue[1 + i]
  <2>1. 1 \in 0 .. Len(queue)
    BY <1>0
  <2> QED BY <2>1, SuffixOK
<1>2. Len(rest) = L - 1 /\ \A i \in 1 .. L - 1 : rest[i] = queue[1 + i]
  BY <1>0, <1>1
<1> HIDE DEF rest
<1>3. ASSUME Paints(queue, n), ~(queue[1].name = n /\ queue[1].chunk.full)
      PROVE  Paints(rest, n)
  <2>1. PICK i \in 1 .. L : queue[i].name = n /\ queue[i].chunk.full
    BY <1>0, <1>3 DEF Paints
  <2>2. i - 1 \in 1 .. L - 1 /\ 1 + (i - 1) = i
    BY <1>3, <2>1
  <2>3. rest[i - 1] = queue[i]
    BY <1>2, <2>2
  <2> QED BY <1>2, <2>1, <2>2, <2>3 DEF Paints
<1>4. ASSUME Paints(rest, n) PROVE Paints(queue, n)
  <2>1. PICK i \in 1 .. L - 1 : rest[i].name = n /\ rest[i].chunk.full
    BY <1>2, <1>4 DEF Paints
  <2>2. 1 + i \in 1 .. L
    OBVIOUS
  <2>3. rest[i] = queue[1 + i]
    BY <1>2
  <2> QED BY <1>0, <2>1, <2>2, <2>3 DEF Paints
<1>5. ASSUME queue[1].name = n /\ queue[1].chunk.full PROVE Paints(queue, n)
  BY <1>0, <1>5 DEF Paints
<1> QED BY <1>3, <1>4, <1>5 DEF rest

(* A step that leaves a terminal's subscription and its repaints.          *)
LEMMA OnAlike ==
  ASSUME TypeOK, TypeOK', NEW c \in Clients, NEW n \in Names, UNCHANGED excused,
         tab'[c].on = tab[c].on, tab'[c].id = tab[c].id, term'[c][n].mounted = term[c][n].mounted,
         NEW k, k = tab[c].on,
         k # 0 => (stream'[k].subs = stream[k].subs /\ (Paints(stream[k].queue, n) <=> Paints(stream'[k].queue, n)))
  PROVE  On(c, n)' = On(c, n)
<1>1. CASE k = 0
  BY <1>1 DEF On, Subscribed
<1>2. CASE k # 0
  <2>1. Repainting(c, n) <=> Paints(stream[k].queue, n)
    BY <1>2, IsPainting DEF Painting
  <2>2. Repainting(c, n)' <=> Paints(stream'[k].queue, n)
    BY <1>2, IsPaintingNext DEF Painting
  <2>3. Subscribed(c, n)' <=> Subscribed(c, n)
    BY <1>2 DEF Subscribed
  <2>4. On(c, n)' <=> On(c, n)
    BY <1>2, <2>1, <2>2, <2>3 DEF On
  <2> QED BY <2>4 DEF On
<1> QED BY <1>1, <1>2

(* A tab takes the first frame of its queue: the terminal it is for is     *)
(* painted, goes forward, or is torn and off.                              *)
LEMMA ViewReceive ==
  ASSUME IInv, IInv', NEW d \in Clients, Receive(d)
  PROVE  View!Next
<1> USE DEF IInv
<1>0. pane' = pane /\ \A n \in Names : pane[n].out \in Nat /\ pane'[n].out = pane[n].out
  <2>1. pane' = pane
    BY Zenon DEF Receive
  <2>2. \A n \in Names : pane[n].out \in Nat
    BY PartsOK DEF Count
  <2> QED BY <2>1, <2>2
<1>1. PICK k \in Streams : k = tab[d].on
  BY ReceiveEffect
<1>2. PICK queue \in Seq(Frame) : queue = stream[k].queue
  BY PartsOK
<1>3. PICK f \in Frame : f = Head(queue) /\ f = queue[1] /\ Len(queue) \in Nat \ {0}
  BY <1>1, <1>2, ReceiveEffect
<1>4. /\ UNCHANGED <<tab, posts, excused>>
      /\ stream'[k].subs = stream[k].subs /\ stream'[k].queue = SubSeq(queue, 2, Len(queue))
      /\ \A j \in Streams : j # k => stream'[j] = stream[j]
      /\ \A c \in Clients, n \in Names :
           term'[c][n] = IF c = d /\ n = f.name /\ term[c][n].mounted
                         THEN Got(term[c][n], f, restarts) ELSE term[c][n]
  BY <1>1, <1>2, <1>3, ReceiveEffect
<1>5. PICK m \in Names : m = f.name
  BY DEF Frame
<1>6. ASSUME NEW c \in Clients, NEW n \in Names, <<c, n>> # <<d, m>>
      PROVE  On(c, n)' = On(c, n) /\ term'[c][n].view = term[c][n].view
  <2>1. term'[c][n] = term[c][n]
    BY <1>4, <1>5, <1>6
  <2>2. /\ tab[c].on # 0 => tab[c].on \in Streams
        /\ tab[c].on = k => c = d
    BY <1>1, PartsOK DEF Links, Tabs, Streams
  <2>3. ASSUME tab[c].on # 0
        PROVE  /\ stream'[tab[c].on].subs = stream[tab[c].on].subs
               /\ Paints(stream[tab[c].on].queue, n) <=> Paints(stream'[tab[c].on].queue, n)
    <3>1. CASE tab[c].on # k
      BY <1>4, <2>2, <2>3, <3>1
    <3>2. CASE tab[c].on = k
      <4>1. f.name # n
        BY <1>5, <1>6, <2>2, <3>2
      <4>2. Paints(queue, n) <=> Paints(SubSeq(queue, 2, Len(queue)), n)
        BY <1>3, <4>1, TailPaints
      <4> QED BY <1>2, <1>4, <3>2, <4>2
    <3> QED BY <3>1, <3>2
  <2>4. On(c, n)' = On(c, n)
    BY <1>4, <2>1, <2>3, OnAlike
  <2> QED BY <2>1, <2>4
<1>7. CASE ~On(d, m)'
  <2>1. ASSUME NEW c \in Clients, NEW n \in Names, On(c, n)'
        PROVE  On(c, n) /\ term'[c][n].view = term[c][n].view
    <3>1. <<c, n>> # <<d, m>>
      BY <1>7, <2>1
    <3> QED BY <1>6, <2>1, <3>1
  <2> QED BY <1>0, <2>1, Loses
<1>8. CASE On(d, m)'
  <2>1. term'[d][m].view \in Nat /\ term'[d][m].view <= pane[m].out
    BY <1>0, <1>8, OnViewNext DEF Viewing
  <2>2. CASE ~On(d, m)
    <3>1. \A c \in Clients, n \in Names : <<c, n>> # <<d, m>> =>
            (On(c, n)' => On(c, n) /\ term'[c][n].view = term[c][n].view)
      BY <1>6
    <3> QED BY <1>0, <1>8, <2>1, <2>2, <3>1, Attaches
  <2>3. CASE On(d, m)
    <3>1. term[d][m].view \in Nat /\ term[d][m].mounted
      BY <2>3, OnView DEF Viewing, On, Subscribed
    <3>2. ~f.chunk.full
      <4>1. ~Repainting(d, m) /\ tab[d].on # 0
        BY <2>3 DEF On, Subscribed
      <4>2. ~Paints(queue, m)
        BY <1>1, <1>2, <4>1, IsPainting DEF Painting
      <4> QED BY <1>3, <1>5, <4>2, TailPaints
    <3>3. term'[d][m].view = Written(term[d][m].view, f.chunk)
      <4>1. PICK u \in Term : u = term[d][m]
        BY PartsOK
      <4>2. term'[d][m] = Got(u, f, restarts)
        BY <1>4, <1>5, <3>1, <4>1
      <4>3. Got(u, f, restarts).view = Written(u.view, f.chunk)
        BY DEF Got, Term
      <4> QED BY <4>1, <4>2, <4>3
    <3>4. term'[d][m].view = f.chunk.to /\ f.chunk.from = term[d][m].view
      BY <2>1, <3>2, <3>3, TornAssumption DEF Written
    <3>5. f.chunk.from <= f.chunk.to
      <4>1. 1 \in 1 .. Len(queue)
        BY <1>3
      <4>2. Sane(World(m), f)
        BY <1>2, <1>3, <1>5, <4>1 DEF AllSane
      <4> QED BY <4>2 DEF Sane, Piece
    <3>6. CASE term'[d][m].view = term[d][m].view
      <4>1. ASSUME NEW c \in Clients, NEW n \in Names, On(c, n)'
            PROVE  On(c, n) /\ term'[c][n].view = term[c][n].view
        <5>1. CASE <<c, n>> = <<d, m>>
          BY <2>3, <3>6, <5>1
        <5>2. CASE <<c, n>> # <<d, m>>
          BY <1>6, <4>1, <5>2
        <5> QED BY <5>1, <5>2
      <4> QED BY <1>0, <4>1, Loses
    <3>7. CASE term'[d][m].view # term[d][m].view
      <4>1. term[d][m].view < term'[d][m].view
        BY <2>1, <3>1, <3>4, <3>5, <3>7
      <4>2. \A c \in Clients, n \in Names : <<c, n>> # <<d, m>> =>
              On(c, n)' = On(c, n) /\ term'[c][n].view = term[c][n].view
        BY <1>6
      <4> QED BY <1>0, <1>8, <2>1, <2>3, <3>1, <4>1, <4>2, Advances
    <3> QED BY <3>6, <3>7
  <2> QED BY <2>2, <2>3
<1> QED BY <1>7, <1>8

(* Every step of the transport is one of TerminalView, or none.            *)
LEMMA NextView == ASSUME IInv, IInv', [Next]_vars PROVE View!Next
<1>1. ASSUME UNCHANGED vars PROVE View!Next
  <2>1. UNCHANGED <<stream, tab, term, excused>> /\ pane' = pane
    BY <1>1 DEF vars
  <2> QED BY <2>1, OnSame, Loses
<1>2. ASSUME NEW n \in Names, Spread(n) PROVE View!Next
  BY <1>2, ViewSpread
<1>3. ASSUME NEW n \in Names, Aside(n) PROVE View!Next
  BY <1>3, ViewAside DEF IInv
<1>4. ASSUME NEW p \in posts, Serving(p) PROVE View!Next
  BY <1>4, ViewServe
<1>5. ASSUME NEW d \in Clients, Connect(d) \/ Hello(d) \/ Disconnect(d) PROVE View!Next
  BY <1>5, ViewLine
<1>6. ASSUME NEW d \in Clients, Receive(d) PROVE View!Next
  BY <1>6, ViewReceive
<1>7. ASSUME NEW d \in Clients, NEW m \in Names, Mount(d, m) \/ Unmount(d, m) PROVE View!Next
  BY <1>7, ViewMount
<1>8. ASSUME Restart PROVE View!Next
  BY <1>8, ViewRestart
<1> QED BY <1>1, <1>2, <1>3, <1>4, <1>5, <1>6, <1>7, <1>8 DEF Next, Aside, Reading

(* The transport implements TerminalView: whatever the browsers, the       *)
(* reader tasks and the server do, the screen of a terminal that is        *)
(* subscribed and not excused goes forward through its pane's output,      *)
(* never back, and never past a piece of it.                               *)
THEOREM GoesForward == Spec => ScreenGoesForward
<1>1. Init => View!Init
  <2> SUFFICES ASSUME Init PROVE View!Init
    OBVIOUS
  <2>1. Produced = [n \in Names |-> 0]
    BY DEF Init, Produced
  <2>2. Shows = [c \in Clients |-> [n \in Names |-> Detached]]
    BY DEF Init, Shows, On, Subscribed
  <2> QED BY <2>1, <2>2, ViewInit
<1>2. IInv /\ IInv' /\ [Next]_vars => [View!Next]_View!vars
  BY NextView
<1> QED BY <1>1, <1>2, Invariance, PTL DEF Spec, ScreenGoesForward, View!Spec
=============================================================================

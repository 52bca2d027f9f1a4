------------------------- MODULE EventStream_proofs -------------------------
(***************************************************************************)
(* Proofs about EventStream: the types, that a browser's mirror misses     *)
(* nothing, and that a resumed stream has no gap.                          *)
(***************************************************************************)
EXTENDS EventStream, FiniteSetTheorems, FunctionTheorems, SequenceTheorems, TLAPS

-----------------------------------------------------------------------------
(* The invariant.                                                          *)

(* Rows are in the order of their ids, and nobody knows an id to come.     *)
Numbered ==
  /\ \A i, j \in 1 .. Len(table) : i < j => table[i].id < table[j].id
  /\ \A i \in 1 .. Len(table) : table[i].id <= emitted
  /\ \A c \in Clients : browser[c].last <= emitted
  /\ \A w \in Writers : thread[w].frame.id <= emitted
  /\ \A k \in Streams :
       /\ stream[k].last <= emitted
       /\ \A i \in 1 .. Len(stream[k].out) : stream[k].out[i].id <= emitted
       /\ \A i \in 1 .. Len(stream[k].queue) : stream[k].queue[i].id <= emitted

(* A stream that is followed is on the list, a thread's full queues are    *)
(* among the skipped ones.                                                 *)
Listed ==
  /\ \A i \in 1 .. Len(subscribers) : subscribers[i] <= opened
  /\ \A c \in Clients : browser[c].on <= opened
  /\ \A w \in Writers : thread[w].full \subseteq skipped
  /\ \A k \in Streams : Following(k) => k \in Range(subscribers)

(* A browser buffers as long as the end of its snapshot is on its way, and *)
(* that is the last of what the stream has to send before its queue.       *)
Ending(k) == stream[k].out # <<>> /\ stream[k].out[Len(stream[k].out)].kind = "end"
Framed(k) ==
  /\ stream[k].phase = "snapshot" => stream[k].out = <<>>
  /\ stream[k].phase # "snapshot" => browser[stream[k].client].buffering = Ending(k)
  /\ \A i \in 1 .. Len(stream[k].out) - 1 : stream[k].out[i].kind # "end"
Shaped ==
  /\ \A w \in Writers : thread[w].step = "push" => thread[w].frame.kind # "end"
  /\ \A c \in Clients : browser[c].buffering => browser[c].buffer \in Map
  /\ \A k \in Streams : \A i \in 1 .. Len(stream[k].queue) : stream[k].queue[i].kind # "end"
  /\ \A k \in Streams : Connected(k) => Framed(k)

(* One thread tells of a name, and tells what the map says.                *)
Current ==
  \A n \in Names \ raced : \A w \in Writers : Telling(w, n) =>
    /\ thread[w].frame.to = cache[n]
    /\ \A v \in Writers : Telling(v, n) => v = w

(* The last word of a sequence of frames on a name, if it has one.         *)
Silent(seq, n) == \A i \in 1 .. Len(seq) : ~Tells(seq[i], n)
LastTells(seq, n, x) ==
  \E i \in 1 .. Len(seq) : /\ Tells(seq[i], n) /\ seq[i].to = x
                           /\ \A j \in 1 .. Len(seq) : j > i => ~Tells(seq[j], n)
Shown(b, n) == IF b.buffering THEN b.buffer[n] ELSE b.mirror[n]
Awaited(k, n) == \E f \in Coming(k) : Tells(f, n)
Sees(k, n) ==
  \/ LastTells(stream[k].queue, n, cache[n])
  \/ /\ Silent(stream[k].queue, n)
     /\ \/ stream[k].phase = "snapshot"
        \/ LastTells(stream[k].out, n, cache[n])
        \/ Silent(stream[k].out, n) /\ Shown(browser[stream[k].client], n) = cache[n]
Mirrors == \A k \in Streams : Following(k) => \A n \in Names \ raced : Awaited(k, n) \/ Sees(k, n)

IInv == TypeOK /\ Numbered /\ Listed /\ Shaped /\ Current /\ Mirrors /\ ResumeHasNoGap

-----------------------------------------------------------------------------
(* Sequences.                                                              *)

(* A function from 1 .. n is a sequence of length n.                       *)
LEMMA FunctionIsSeq ==
  ASSUME NEW S, NEW n \in Nat, NEW f \in [1 .. n -> S]
  PROVE  f \in Seq(S) /\ Len(f) = n /\ DOMAIN f = 1 .. n
<1>1. f \in Seq(S)
  BY SeqDef
<1> QED BY <1>1, LenProperties

(* Counting the members of a finite set of numbers numbers them.           *)
LEMMA RankOnto ==
  ASSUME NEW n \in Nat, NEW kept \in SUBSET (1 .. n)
  PROVE  /\ IsFiniteSet(kept) /\ Cardinality(kept) \in Nat
         /\ \A i, j \in kept : Cardinality({l \in kept : l <= i}) = Cardinality({l \in kept : l <= j})
              => i = j
         /\ \A j \in 1 .. Cardinality(kept) : \E i \in kept : Cardinality({l \in kept : l <= i}) = j
<1> DEFINE below(i) == {l \in kept : l <= i}
           c        == Cardinality(kept)
           rank     == [i \in kept |-> Cardinality(below(i))]
<1>1. IsFiniteSet(kept) /\ c \in Nat
  BY FS_Interval, FS_Subset, FS_CardinalityType, 1 \in Int, n \in Int
<1>2. \A i \in kept : IsFiniteSet(below(i)) /\ Cardinality(below(i)) \in Nat /\ Cardinality(below(i)) <= c
  <2> TAKE i \in kept
  <2>1. below(i) \in SUBSET kept
    OBVIOUS
  <2> QED BY <1>1, <2>1, FS_Subset, FS_CardinalityType
<1>3. \A i \in kept : Cardinality(below(i)) # 0
  <2> TAKE i \in kept
  <2>1. i \in below(i)
    OBVIOUS
  <2> QED BY <1>2, <2>1, FS_EmptySet
<1>4. \A i, j \in kept : i < j => Cardinality(below(i)) # Cardinality(below(j))
  <2> SUFFICES ASSUME NEW i \in kept, NEW j \in kept, i < j, Cardinality(below(i)) = Cardinality(below(j))
               PROVE  FALSE
    OBVIOUS
  <2>0. kept \subseteq Int
    OBVIOUS
  <2>1. \A l \in below(i) : l \in below(j)
    BY <2>0
  <2>2. j \in below(j) /\ j \notin below(i)
    BY <2>0
  <2>3. below(i) \in SUBSET below(j) /\ below(i) # below(j)
    BY <2>1, <2>2
  <2> HIDE DEF below
  <2> QED BY <1>2, <2>3, FS_Subset
<1>5. rank \in [kept -> 1 .. c]
  BY <1>1, <1>2, <1>3
<1>6. \A i, j \in kept : rank[i] = rank[j] => i = j
  BY <1>4
<1>7. rank \in Injection(kept, 1 .. c)
  BY <1>5, <1>6, Fun_IsInj
<1>8. Cardinality(1 .. c) = c /\ IsFiniteSet(1 .. c)
  BY <1>1, FS_Interval
<1>9. rank \in Surjection(kept, 1 .. c)
  BY <1>1, <1>7, <1>8, FS_Injection
<1> HIDE DEF rank
<1>10. \A j \in 1 .. c : \E i \in kept : rank[i] = j
  BY <1>9, Fun_SurjectionProperties
<1> QED BY <1>1, <1>4, <1>10 DEF rank

(* list.remove: what is left, in other places.                             *)
LEMMA WithoutPlaces ==
  ASSUME NEW S, NEW seq \in Seq(S), NEW gone
  PROVE  /\ Without(seq, gone) \in Seq(S)
         /\ \A j \in 1 .. Len(Without(seq, gone)) :
              \E i \in 1 .. Len(seq) : Without(seq, gone)[j] = seq[i] /\ seq[i] \notin gone
         /\ \A i \in 1 .. Len(seq) : seq[i] \notin gone =>
              \E j \in 1 .. Len(Without(seq, gone)) : Without(seq, gone)[j] = seq[i]
         /\ IsInjective(seq) => IsInjective(Without(seq, gone))
<1> DEFINE kept    == {i \in DOMAIN seq : seq[i] \notin gone}
           c       == Cardinality(kept)
           rank(i) == Cardinality({l \in kept : l <= i})
           at(j)   == CHOOSE i \in kept : rank(i) = j
<1>1. Len(seq) \in Nat /\ DOMAIN seq = 1 .. Len(seq)
  BY LenProperties
<1>2. PICK n \in Nat : n = Len(seq)
  BY <1>1
<1>3. kept \in SUBSET (1 .. n)
  BY <1>1, <1>2
<1>4. /\ IsFiniteSet(kept) /\ c \in Nat
      /\ \A i, j \in kept : rank(i) = rank(j) => i = j
      /\ \A j \in 1 .. c : \E i \in kept : rank(i) = j
  BY <1>3, RankOnto
<1>5. \A j \in 1 .. c : at(j) \in kept /\ rank(at(j)) = j
  BY <1>4
<1>6. Without(seq, gone) = [j \in 1 .. c |-> seq[at(j)]]
  BY Zenon DEF Without
<1>7. \A i \in kept : seq[i] \in S /\ seq[i] \notin gone /\ i \in 1 .. n
  BY <1>1, <1>2, ElementOfSeq
<1>8. \A i \in kept : rank(i) \in 1 .. c /\ at(rank(i)) = i
  <2> TAKE i \in kept
  <2>1. IsFiniteSet({l \in kept : l <= i}) /\ rank(i) \in Nat /\ rank(i) <= c
    BY <1>4, FS_Subset, FS_CardinalityType, {l \in kept : l <= i} \in SUBSET kept
  <2>2. i \in {l \in kept : l <= i}
    BY <1>7
  <2>3. rank(i) # 0
    BY <2>1, <2>2, FS_EmptySet
  <2>4. rank(i) \in 1 .. c
    BY <1>4, <2>1, <2>3
  <2> QED BY <1>4, <1>5, <2>4
<1> HIDE DEF kept, c, rank, at
<1>9. [j \in 1 .. c |-> seq[at(j)]] \in [1 .. c -> S]
  BY <1>5, <1>7
<1>10. PICK w : w = Without(seq, gone)
  OBVIOUS
<1>11. w \in Seq(S) /\ Len(w) = c /\ DOMAIN w = 1 .. c
  BY <1>4, <1>6, <1>9, <1>10, FunctionIsSeq
<1>12. \A j \in 1 .. c : w[j] = seq[at(j)] /\ at(j) \in kept
  BY <1>5, <1>6, <1>10
<1>13. \A j \in 1 .. c : \E i \in 1 .. n : w[j] = seq[i] /\ seq[i] \notin gone
  BY <1>7, <1>12
<1>14. \A i \in 1 .. n : seq[i] \notin gone => \E j \in 1 .. c : w[j] = seq[i]
  <2> SUFFICES ASSUME NEW i \in 1 .. n, seq[i] \notin gone
               PROVE  \E j \in 1 .. c : w[j] = seq[i]
    OBVIOUS
  <2>1. i \in kept
    BY <1>1, <1>2 DEF kept
  <2> QED BY <1>8, <1>12, <2>1
<1>15. ASSUME IsInjective(seq) PROVE IsInjective(w)
  <2> SUFFICES ASSUME NEW a \in 1 .. c, NEW b \in 1 .. c, w[a] = w[b]
               PROVE  a = b
    BY <1>11 DEF IsInjective
  <2>1. seq[at(a)] = seq[at(b)] /\ at(a) \in DOMAIN seq /\ at(b) \in DOMAIN seq
    BY <1>12 DEF kept
  <2>2. at(a) = at(b)
    BY <1>15, <2>1 DEF IsInjective
  <2> QED BY <1>5, <2>2
<1> QED BY <1>2, <1>10, <1>11, <1>13, <1>14, <1>15

(* The members of a list after list.remove.                                *)
LEMMA WithoutOK ==
  ASSUME NEW S, NEW seq \in Seq(S), NEW gone
  PROVE  /\ Without(seq, gone) \in Seq(S)
         /\ \A k : k \in Range(Without(seq, gone)) <=> k \in Range(seq) /\ k \notin gone
         /\ IsInjective(seq) => IsInjective(Without(seq, gone))
<1>0. /\ Without(seq, gone) \in Seq(S)
      /\ \A j \in 1 .. Len(Without(seq, gone)) :
           \E i \in 1 .. Len(seq) : Without(seq, gone)[j] = seq[i] /\ seq[i] \notin gone
      /\ \A i \in 1 .. Len(seq) : seq[i] \notin gone =>
           \E j \in 1 .. Len(Without(seq, gone)) : Without(seq, gone)[j] = seq[i]
      /\ IsInjective(seq) => IsInjective(Without(seq, gone))
  BY WithoutPlaces
<1>1. PICK w : w = Without(seq, gone)
  OBVIOUS
<1>2. /\ w \in Seq(S)
      /\ \A j \in 1 .. Len(w) : \E i \in 1 .. Len(seq) : w[j] = seq[i] /\ seq[i] \notin gone
      /\ \A i \in 1 .. Len(seq) : seq[i] \notin gone => \E j \in 1 .. Len(w) : w[j] = seq[i]
      /\ IsInjective(seq) => IsInjective(w)
  BY <1>0, <1>1
<1>3. DOMAIN w = 1 .. Len(w) /\ DOMAIN seq = 1 .. Len(seq)
  BY <1>2, LenProperties
<1>4. \A k : k \in Range(w) <=> k \in Range(seq) /\ k \notin gone
  <2> SUFFICES ASSUME NEW k PROVE k \in Range(w) <=> k \in Range(seq) /\ k \notin gone
    OBVIOUS
  <2>1. k \in Range(w) <=> \E j \in 1 .. Len(w) : w[j] = k
    BY <1>3 DEF Range
  <2>2. k \in Range(seq) <=> \E i \in 1 .. Len(seq) : seq[i] = k
    BY <1>3 DEF Range
  <2> QED BY <1>2, <2>1, <2>2
<1> QED BY <1>1, <1>2, <1>4

(* Where a member of a list is.                                            *)
LEMMA IndexOK ==
  ASSUME NEW S, NEW seq \in Seq(S)
  PROVE  /\ Range(seq) \subseteq S
         /\ \A k \in Range(seq) : IndexIn(seq, k) \in 1 .. Len(seq) /\ seq[IndexIn(seq, k)] = k
         /\ \A i \in 1 .. Len(seq) : seq[i] \in Range(seq)
         /\ IsInjective(seq) => \A i \in 1 .. Len(seq) : IndexIn(seq, seq[i]) = i
<1>1. Len(seq) \in Nat /\ DOMAIN seq = 1 .. Len(seq) /\ \A i \in 1 .. Len(seq) : seq[i] \in S
  BY LenProperties, ElementOfSeq
<1>2. \A k \in Range(seq) : IndexIn(seq, k) \in 1 .. Len(seq) /\ seq[IndexIn(seq, k)] = k
  BY <1>1 DEF Range, IndexIn
<1>3. \A i \in 1 .. Len(seq) : seq[i] \in Range(seq)
  BY <1>1 DEF Range
<1>4. Range(seq) \subseteq S
  BY <1>1 DEF Range
<1>5. ASSUME IsInjective(seq) PROVE \A i \in 1 .. Len(seq) : IndexIn(seq, seq[i]) = i
  BY <1>1, <1>2, <1>3, <1>5 DEF IsInjective
<1> QED BY <1>2, <1>3, <1>4, <1>5

(* A newcomer goes to the end of the list.                                 *)
LEMMA JoinsList ==
  ASSUME NEW S, NEW seq \in Seq(S), NEW x \in S, x \notin Range(seq), IsInjective(seq)
  PROVE  /\ Append(seq, x) \in Seq(S) /\ IsInjective(Append(seq, x))
         /\ Range(Append(seq, x)) = Range(seq) \cup {x}
         /\ \A k \in Range(seq) : IndexIn(Append(seq, x), k) = IndexIn(seq, k)
         /\ IndexIn(Append(seq, x), x) = Len(seq) + 1
<1>1. PICK new : new = Append(seq, x)
  OBVIOUS
<1>2. PICK n \in Nat : n = Len(seq)
  BY LenProperties
<1>3. /\ new \in Seq(S) /\ Len(new) = n + 1 /\ DOMAIN new = 1 .. n + 1
      /\ \A i \in 1 .. n : new[i] = seq[i]
      /\ new[n + 1] = x
  <2>1. new \in Seq(S) /\ Len(new) = n + 1 /\ new[n + 1] = x /\ \A i \in 1 .. n : new[i] = seq[i]
    BY <1>1, <1>2, AppendProperties
  <2> QED BY <2>1, LenProperties
<1>4. DOMAIN seq = 1 .. n /\ \A i \in 1 .. n : seq[i] \in Range(seq)
  BY <1>2, LenProperties, IndexOK
<1>5. IsInjective(new)
  <2> SUFFICES ASSUME NEW a \in 1 .. n + 1, NEW b \in 1 .. n + 1, new[a] = new[b] PROVE a = b
    BY <1>3 DEF IsInjective
  <2>1. a \in 1 .. n \/ a = n + 1
    OBVIOUS
  <2>2. b \in 1 .. n \/ b = n + 1
    OBVIOUS
  <2> QED BY <1>3, <1>4, <2>1, <2>2 DEF IsInjective
<1>6. \A k \in Range(seq) : IndexIn(seq, k) \in 1 .. n /\ seq[IndexIn(seq, k)] = k
  BY <1>2, IndexOK
<1>7. \A i \in 1 .. n + 1 : IndexIn(new, new[i]) = i
  BY <1>3, <1>5, IndexOK
<1>8. \A k \in Range(seq) : IndexIn(new, k) = IndexIn(seq, k)
  <2> TAKE k \in Range(seq)
  <2>1. PICK i \in 1 .. n : i = IndexIn(seq, k) /\ seq[i] = k
    BY <1>6
  <2>2. new[i] = k /\ i \in 1 .. n + 1
    BY <1>3, <2>1
  <2> QED BY <1>7, <2>1, <2>2
<1>9. IndexIn(new, x) = n + 1
  BY <1>3, <1>7
<1>10. Range(new) = Range(seq) \cup {x}
  <2>1. \A k \in Range(new) : k \in Range(seq) \cup {x}
    <3> SUFFICES ASSUME NEW i \in 1 .. n + 1 PROVE new[i] \in Range(seq) \cup {x}
      BY <1>3 DEF Range
    <3>1. i \in 1 .. n \/ i = n + 1
      OBVIOUS
    <3> QED BY <1>3, <1>4, <3>1
  <2>2. \A k \in Range(seq) : k \in Range(new)
    <3> TAKE k \in Range(seq)
    <3>1. PICK i \in 1 .. n : seq[i] = k
      BY <1>6
    <3>2. new[i] = k /\ i \in DOMAIN new
      BY <1>3, <3>1
    <3> QED BY <3>2 DEF Range
  <2>3. x \in Range(new)
    <3>1. n + 1 \in DOMAIN new /\ new[n + 1] = x
      BY <1>3
    <3> QED BY <3>1 DEF Range
  <2> QED BY <2>1, <2>2, <2>3
<1> QED BY <1>1, <1>2, <1>3, <1>5, <1>8, <1>9, <1>10

(* The snapshot tells each session of the map once, and nothing else.      *)
LEMMA RowsOK ==
  ASSUME cache \in Map
  PROVE  /\ SnapshotRows \in Seq(Frame)
         /\ \A i \in 1 .. Len(SnapshotRows) :
              \E n \in Names : SnapshotRows[i] = StateRow(n) /\ cache[n] # Absent
         /\ \A n \in Names : cache[n] # Absent =>
              \E i \in 1 .. Len(SnapshotRows) : SnapshotRows[i] = StateRow(n)
         /\ \A i, j \in 1 .. Len(SnapshotRows) : SnapshotRows[i].name = SnapshotRows[j].name => i = j
<1>a. PICK told : told = {n \in Names : cache[n] # Absent}
  OBVIOUS
<1>b. IsFiniteSet(told) /\ Cardinality(told) \in Nat
      /\ ExistsBijection(1 .. Cardinality(told), told)
  BY <1>a, NamesAssumption, FS_Subset, FS_CardinalityType, told \in SUBSET Names
<1>c. PICK c \in Nat : c = Cardinality(told)
  BY <1>b
<1>d. PICK rows : rows = SetToSeq(told)
  OBVIOUS
<1>1. IsFiniteSet(told) /\ c \in Nat /\ ExistsBijection(1 .. c, told)
  BY <1>b, <1>c
<1>2. PICK g : g \in Bijection(1 .. c, told)
  BY <1>1 DEF ExistsBijection
<1>3. g \in [1 .. c -> told] /\ \A a, b \in 1 .. c : g[a] = g[b] => a = b
  BY <1>2, Fun_BijectionProperties
<1>4. IsInjective(g)
  BY <1>3 DEF IsInjective
<1>5. rows \in [1 .. c -> told] /\ IsInjective(rows)
  BY <1>3, <1>4, <1>c, <1>d DEF SetToSeq
<1>6. rows \in Injection(1 .. c, told)
  BY <1>5 DEF Injection
<1>7. Cardinality(1 .. c) = c /\ IsFiniteSet(1 .. c)
  BY <1>1, FS_Interval
<1>8. rows \in Surjection(1 .. c, told)
  BY <1>1, <1>6, <1>7, <1>c, FS_Injection
<1>9. \A n \in told : \E i \in 1 .. c : rows[i] = n
  BY <1>8, Fun_SurjectionProperties
<1>10. SnapshotRows = [i \in 1 .. c |-> StateRow(rows[i])]
  BY <1>a, <1>c, <1>d, Zenon DEF SnapshotRows
<1>11. \A n \in Names : StateRow(n) \in Frame
  BY DEF StateRow, Map, Frame, StateFrame
<1>12. \A i \in 1 .. c : rows[i] \in Names /\ cache[rows[i]] # Absent
  BY <1>5, <1>a
<1>13. [i \in 1 .. c |-> StateRow(rows[i])] \in [1 .. c -> Frame]
  BY <1>11, <1>12
<1>14. PICK all : all = SnapshotRows
  OBVIOUS
<1>15. all \in Seq(Frame) /\ Len(all) = c
  BY <1>1, <1>10, <1>13, <1>14, FunctionIsSeq
<1>16. \A i \in 1 .. c : all[i] = StateRow(rows[i])
  BY <1>10, <1>14
<1>17. \A i \in 1 .. c : \E n \in Names : all[i] = StateRow(n) /\ cache[n] # Absent
  BY <1>12, <1>16
<1>18. \A n \in Names : cache[n] # Absent => \E i \in 1 .. c : all[i] = StateRow(n)
  BY <1>9, <1>16, <1>a
<1>19. \A i, j \in 1 .. c : all[i].name = all[j].name => i = j
  <2>1. \A n \in Names : StateRow(n).name = n
    BY DEF StateRow
  <2>2. DOMAIN rows = 1 .. c
    BY <1>5
  <2> QED BY <1>5, <1>12, <1>16, <2>1, <2>2 DEF IsInjective
<1> QED BY <1>14, <1>15, <1>17, <1>18, <1>19

-----------------------------------------------------------------------------
(* Types.                                                                  *)

(* What a frame can be.                                                    *)
LEMMA FrameOK ==
  /\ EndFrame \in Frame
  /\ \A f \in Frame : /\ f.kind \in {"state", "note", "end"} /\ f.id \in Ids \cup {0}
                      /\ f.kind = "state" => f.name \in Names /\ f.to \in States \cup {Absent}
                      /\ f.kind = "note" => f.id \in Ids
                      /\ f.kind = "end" => f = EndFrame
  /\ \A i \in Ids : [kind |-> "note", id |-> i] \in Frame
  /\ \A i \in Ids \cup {0}, n \in Names, to \in States \cup {Absent} :
       [kind |-> "state", id |-> i, name |-> n, to |-> to] \in Frame
BY DEF Frame, StateFrame, NoteFrame, EndFrame

(* The values that stand for nothing are of their types.                   *)
LEMMA NullsOK ==
  /\ Idle \in Work /\ Unopened \in Stream /\ Closed \in Stream
  /\ EmptyMap \in Map /\ Unopened.queue = <<>> /\ Closed.queue = <<>>
  /\ Unopened.out = <<>> /\ Closed.out = <<>> /\ Unopened.last = 0 /\ Closed.last = 0
  /\ Unopened.phase = "unopened" /\ Closed.phase = "closed"
<1>1. <<>> \in Seq(Frame)
  BY EmptySeq
<1>2. (CHOOSE c \in Clients : TRUE) \in Clients
  BY ClientsAssumption
<1>3. Idle \in Work
  BY FrameOK DEF Idle, Work
<1>4. Unopened \in Stream /\ Unopened.queue = <<>> /\ Unopened.out = <<>> /\ Unopened.last = 0
      /\ Unopened.phase = "unopened"
  BY <1>1, <1>2 DEF Unopened, Stream
<1>5. Closed \in Stream /\ Closed.queue = <<>> /\ Closed.out = <<>> /\ Closed.last = 0
      /\ Closed.phase = "closed"
  BY <1>4 DEF Closed, Stream
<1> QED BY <1>3, <1>4, <1>5 DEF EmptyMap, Map

(* The fields of the state's records.                                      *)
LEMMA PartsOK ==
  ASSUME TypeOK
  PROVE  /\ \A w \in Writers : /\ thread[w] \in Work /\ thread[w].frame \in Frame
                               /\ thread[w].at \in Nat \ {0} /\ thread[w].full \in SUBSET Streams
         /\ \A k \in Streams :
              /\ stream[k] \in Stream /\ stream[k].client \in Clients
              /\ stream[k].last \in Ids \cup {0} /\ stream[k].since \in Nat
              /\ stream[k].out \in Seq(Frame) /\ Len(stream[k].out) \in Nat
              /\ stream[k].queue \in Seq(Frame) /\ Len(stream[k].queue) \in Nat
              /\ \A i \in 1 .. Len(stream[k].out) : stream[k].out[i] \in Frame
              /\ \A i \in 1 .. Len(stream[k].queue) : stream[k].queue[i] \in Frame
         /\ \A c \in Clients :
              /\ browser[c] \in Browser /\ browser[c].on \in Streams \cup {0}
              /\ browser[c].mirror \in Map /\ browser[c].buffer \in Map \cup {NoMap}
              /\ browser[c].buffering \in BOOLEAN /\ browser[c].last \in Ids \cup {0}
              /\ browser[c].heard \in SUBSET Ids
         /\ Len(table) \in Nat /\ DOMAIN table = 1 .. Len(table)
         /\ \A i \in 1 .. Len(table) : table[i] \in Row /\ table[i].id \in Ids
         /\ Len(subscribers) \in Nat /\ DOMAIN subscribers = 1 .. Len(subscribers)
         /\ \A i \in 1 .. Len(subscribers) : subscribers[i] \in Streams
         /\ \A n \in Names : cache[n] \in States \cup {Absent}
<1>1. \A w \in Writers : /\ thread[w] \in Work /\ thread[w].frame \in Frame
                         /\ thread[w].at \in Nat \ {0} /\ thread[w].full \in SUBSET Streams
  BY DEF TypeOK, Work
<1>2. \A k \in Streams : /\ stream[k] \in Stream /\ stream[k].client \in Clients
                         /\ stream[k].last \in Ids \cup {0} /\ stream[k].since \in Nat
                         /\ stream[k].out \in Seq(Frame) /\ stream[k].queue \in Seq(Frame)
  BY DEF TypeOK, Stream
<1>3. \A k \in Streams : /\ Len(stream[k].out) \in Nat /\ Len(stream[k].queue) \in Nat
                         /\ \A i \in 1 .. Len(stream[k].out) : stream[k].out[i] \in Frame
                         /\ \A i \in 1 .. Len(stream[k].queue) : stream[k].queue[i] \in Frame
  <2> TAKE k \in Streams
  <2>1. stream[k].out \in Seq(Frame) /\ stream[k].queue \in Seq(Frame)
    BY <1>2
  <2> QED BY <2>1, LenProperties, ElementOfSeq
<1>4. \A c \in Clients : /\ browser[c] \in Browser /\ browser[c].on \in Streams \cup {0}
                         /\ browser[c].mirror \in Map /\ browser[c].buffer \in Map \cup {NoMap}
                         /\ browser[c].buffering \in BOOLEAN /\ browser[c].last \in Ids \cup {0}
                         /\ browser[c].heard \in SUBSET Ids
  BY DEF TypeOK, Browser
<1>5. table \in Seq(Row) /\ subscribers \in Seq(Streams)
  BY DEF TypeOK
<1>6. /\ Len(table) \in Nat /\ DOMAIN table = 1 .. Len(table)
      /\ \A i \in 1 .. Len(table) : table[i] \in Row
  BY <1>5, LenProperties, ElementOfSeq
<1>7. /\ Len(subscribers) \in Nat /\ DOMAIN subscribers = 1 .. Len(subscribers)
      /\ \A i \in 1 .. Len(subscribers) : subscribers[i] \in Streams
  BY <1>5, LenProperties, ElementOfSeq
<1>8. \A n \in Names : cache[n] \in States \cup {Absent}
  BY DEF TypeOK, Map
<1>9. \A r \in Row : r.id \in Ids
  BY DEF Row
<1> QED BY <1>1, <1>2, <1>3, <1>4, <1>6, <1>7, <1>8, <1>9

(* The handlers: what the browser shows of a name after a frame, and the   *)
(* rest of its state.                                                      *)
LEMMA ReceivedOK ==
  ASSUME NEW b \in Browser, NEW f \in Frame, b.buffering => b.buffer \in Map,
         f.kind = "end" => b.buffering
  PROVE  /\ Received(b, f) \in Browser /\ Received(b, f).on = b.on
         /\ Received(b, f).buffering = (b.buffering /\ f.kind # "end")
         /\ Received(b, f).buffering => Received(b, f).buffer \in Map
         /\ Received(b, f).last = IF f.id = 0 THEN b.last ELSE f.id
         /\ Received(b, f).heard = IF f.kind = "note" THEN b.heard \cup {f.id} ELSE b.heard
         /\ \A n \in Names : Shown(Received(b, f), n) = IF Tells(f, n) THEN f.to ELSE Shown(b, n)
<1> DEFINE known == IF f.id = 0 THEN b ELSE [b EXCEPT !.last = f.id]
<1>1. /\ f.kind \in {"state", "note", "end"} /\ f.id \in Ids \cup {0}
      /\ f.kind = "state" => f.name \in Names /\ f.to \in States \cup {Absent}
      /\ f.kind = "note" => f.id \in Ids
  BY FrameOK
<1>2. /\ b.on \in Streams \cup {0} /\ b.mirror \in Map /\ b.buffer \in Map \cup {NoMap}
      /\ b.buffering \in BOOLEAN /\ b.last \in Ids \cup {0} /\ b.heard \in SUBSET Ids
  BY DEF Browser
<1>3. /\ known \in Browser /\ known.on = b.on /\ known.mirror = b.mirror /\ known.buffer = b.buffer
      /\ known.buffering = b.buffering /\ known.heard = b.heard
      /\ known.last = IF f.id = 0 THEN b.last ELSE f.id
  BY <1>1, <1>2 DEF Browser
<1>4. Received(b, f) =
        CASE f.kind = "end"   -> [known EXCEPT !.mirror = b.buffer, !.buffer = NoMap,
                                               !.buffering = FALSE]
          [] f.kind = "note"  -> [known EXCEPT !.heard = @ \cup {f.id}]
          [] f.kind = "state" -> IF b.buffering THEN [known EXCEPT !.buffer[f.name] = f.to]
                                                ELSE [known EXCEPT !.mirror[f.name] = f.to]
  BY Zenon DEF Received
<1> HIDE DEF known
<1>5. PICK q \in Browser : q = known
  BY <1>3
<1>6. CASE f.kind = "end"
  <2>1. Received(b, f) = [q EXCEPT !.mirror = b.buffer, !.buffer = NoMap, !.buffering = FALSE]
    BY <1>4, <1>5, <1>6
  <2>2. b.buffer \in Map /\ b.buffering = TRUE
    BY <1>2, <1>6
  <2>3. \A n \in Names : ~Tells(f, n)
    BY <1>6 DEF Tells
  <2> QED BY <1>1, <1>2, <1>3, <1>5, <1>6, <2>1, <2>2, <2>3 DEF Browser, Shown
<1>7. CASE f.kind = "note"
  <2>1. Received(b, f) = [q EXCEPT !.heard = q.heard \cup {f.id}]
    BY <1>4, <1>5, <1>7
  <2>2. \A n \in Names : ~Tells(f, n)
    BY <1>7 DEF Tells
  <2> QED BY <1>1, <1>2, <1>3, <1>5, <1>7, <2>1, <2>2 DEF Browser, Shown
<1>8. CASE f.kind = "state" /\ b.buffering
  <2>1. Received(b, f) = [q EXCEPT !.buffer = [q.buffer EXCEPT ![f.name] = f.to]]
    BY <1>4, <1>5, <1>8
  <2>2. [q.buffer EXCEPT ![f.name] = f.to] \in Map
        /\ \A n \in Names : [q.buffer EXCEPT ![f.name] = f.to][n] =
                              IF n = f.name THEN f.to ELSE b.buffer[n]
    BY <1>1, <1>3, <1>5, <1>8 DEF Map
  <2>3. PICK m \in Map : m = [q.buffer EXCEPT ![f.name] = f.to]
    BY <2>2
  <2>4. Received(b, f) = [q EXCEPT !.buffer = m]
    BY <2>1, <2>3
  <2>5. \A n \in Names : m[n] = IF n = f.name THEN f.to ELSE b.buffer[n]
    BY <2>2, <2>3
  <2>6. PICK r \in Browser : /\ r = Received(b, f) /\ r.on = b.on /\ r.buffering = b.buffering
                             /\ r.buffer = m /\ r.last = q.last /\ r.heard = b.heard
    BY <1>1, <1>2, <1>3, <1>5, <2>4 DEF Browser
  <2>7. r.buffering = (b.buffering /\ f.kind # "end")
    BY <1>8, <2>6
  <2>8. \A n \in Names : Shown(r, n) = IF Tells(f, n) THEN f.to ELSE Shown(b, n)
    BY <1>8, <2>5, <2>6 DEF Shown, Tells
  <2> QED BY <1>3, <1>5, <1>8, <2>3, <2>6, <2>7, <2>8
<1>9. CASE f.kind = "state" /\ ~b.buffering
  <2>1. Received(b, f) = [q EXCEPT !.mirror = [q.mirror EXCEPT ![f.name] = f.to]]
    BY <1>4, <1>5, <1>9
  <2>2. [q.mirror EXCEPT ![f.name] = f.to] \in Map
        /\ \A n \in Names : [q.mirror EXCEPT ![f.name] = f.to][n] =
                              IF n = f.name THEN f.to ELSE b.mirror[n]
    BY <1>1, <1>2, <1>3, <1>5, <1>9 DEF Map
  <2>3. PICK m \in Map : m = [q.mirror EXCEPT ![f.name] = f.to]
    BY <2>2
  <2>4. Received(b, f) = [q EXCEPT !.mirror = m]
    BY <2>1, <2>3
  <2>5. \A n \in Names : m[n] = IF n = f.name THEN f.to ELSE b.mirror[n]
    BY <2>2, <2>3
  <2> QED BY <1>1, <1>2, <1>3, <1>5, <1>9, <2>4, <2>5 DEF Browser, Shown, Tells
<1> QED BY <1>1, <1>6, <1>7, <1>8, <1>9

(* The first frame of a sequence, and what is left.                        *)
LEMMA HeadOK ==
  ASSUME NEW S, NEW seq \in Seq(S), seq # <<>>
  PROVE  /\ Len(seq) \in Nat \ {0} /\ Head(seq) = seq[1] /\ seq[1] \in S
         /\ Tail(seq) \in Seq(S) /\ Len(Tail(seq)) = Len(seq) - 1
         /\ \A i \in 1 .. Len(seq) - 1 : Tail(seq)[i] = seq[i + 1]
<1>1. Len(seq) \in Nat \ {0}
  BY EmptySeq
<1>2. Head(seq) = seq[1]
  OBVIOUS
<1>3. Head(seq) \in S /\ Tail(seq) \in Seq(S) /\ Len(Tail(seq)) = Len(seq) - 1
      /\ \A i \in 1 .. Len(Tail(seq)) : Tail(seq)[i] = seq[i + 1]
  BY HeadTailProperties
<1> QED BY <1>1, <1>2, <1>3

(* A frame arrives at the client of stream k.                              *)
LEMMA ReceiveDoes ==
  ASSUME TypeOK, Shaped, NEW k \in Streams, NEW f \in Frame, Receive(k, f),
         f.kind = "end" => browser[stream[k].client].buffering
  PROVE  /\ browser' \in [Clients -> Browser]
         /\ \A c \in Clients : c # stream[k].client => browser'[c] = browser[c]
         /\ \A c \in Clients : browser'[c].on = browser[c].on
         /\ \A c \in Clients : browser'[c].buffering => browser'[c].buffer \in Map
         /\ browser'[stream[k].client].buffering = (browser[stream[k].client].buffering /\ f.kind # "end")
         /\ browser'[stream[k].client].last = IF f.id = 0 THEN browser[stream[k].client].last ELSE f.id
         /\ browser'[stream[k].client].heard =
              IF f.kind = "note" THEN browser[stream[k].client].heard \cup {f.id}
                                 ELSE browser[stream[k].client].heard
         /\ \A n \in Names : Shown(browser'[stream[k].client], n) =
              IF Tells(f, n) THEN f.to ELSE Shown(browser[stream[k].client], n)
<1>1. PICK c \in Clients : c = stream[k].client
  BY PartsOK
<1>2. PICK b \in Browser : b = browser[c]
  BY PartsOK
<1>3. b.buffering => b.buffer \in Map
  BY <1>2 DEF Shaped
<1>4. f.kind = "end" => b.buffering
  BY <1>1, <1>2
<1>5. /\ Received(b, f) \in Browser /\ Received(b, f).on = b.on
      /\ Received(b, f).buffering = (b.buffering /\ f.kind # "end")
      /\ Received(b, f).buffering => Received(b, f).buffer \in Map
      /\ Received(b, f).last = IF f.id = 0 THEN b.last ELSE f.id
      /\ Received(b, f).heard = IF f.kind = "note" THEN b.heard \cup {f.id} ELSE b.heard
      /\ \A n \in Names : Shown(Received(b, f), n) = IF Tells(f, n) THEN f.to ELSE Shown(b, n)
  BY <1>3, <1>4, ReceivedOK
<1>6. PICK r \in Browser : r = Received(b, f)
  BY <1>5
<1>7. browser \in [Clients -> Browser]
  BY DEF TypeOK
<1>8. browser' = [browser EXCEPT ![c] = r]
  BY <1>1, <1>2, <1>6 DEF Receive
<1>9. browser' \in [Clients -> Browser] /\ browser'[c] = r
      /\ \A d \in Clients : d # c => browser'[d] = browser[d]
  BY <1>7, <1>8
<1>10. \A d \in Clients : browser'[d].on = browser[d].on
  BY <1>2, <1>5, <1>6, <1>9
<1>11. \A d \in Clients : browser'[d].buffering => browser'[d].buffer \in Map
  BY <1>5, <1>6, <1>9 DEF Shaped
<1> QED BY <1>1, <1>2, <1>5, <1>6, <1>9, <1>10, <1>11

(* A frame of the snapshot or the replay: what is sent, and what is left.  *)
LEMMA SendOneDoes ==
  ASSUME TypeOK, Shaped, NEW k \in Streams, SendOne(k)
  PROVE  /\ Connected(k) /\ stream[k].out # <<>> /\ Len(stream[k].out) \in Nat \ {0}
         /\ stream[k].out[1] \in Frame /\ Receive(k, stream[k].out[1])
         /\ stream[k].out[1].kind = "end" => /\ browser[stream[k].client].buffering
                                             /\ Len(stream[k].out) = 1
         /\ stream' \in [Streams -> Stream]
         /\ \A j \in Streams : j # k => stream'[j] = stream[j]
         /\ stream'[k].client = stream[k].client /\ stream'[k].phase = stream[k].phase
         /\ stream'[k].last = stream[k].last /\ stream'[k].queue = stream[k].queue
         /\ stream'[k].since = stream[k].since
         /\ Len(stream'[k].out) = Len(stream[k].out) - 1
         /\ \A i \in 1 .. Len(stream[k].out) - 1 : stream'[k].out[i] = stream[k].out[i + 1]
<1>1. PICK s \in Stream : s = stream[k]
  BY PartsOK
<1>2. s.out \in Seq(Frame) /\ s.out # <<>> /\ Connected(k)
  BY <1>1, PartsOK DEF SendOne
<1>3. /\ Len(s.out) \in Nat \ {0} /\ Head(s.out) = s.out[1] /\ s.out[1] \in Frame
      /\ Tail(s.out) \in Seq(Frame) /\ Len(Tail(s.out)) = Len(s.out) - 1
      /\ \A i \in 1 .. Len(s.out) - 1 : Tail(s.out)[i] = s.out[i + 1]
  BY <1>2, HeadOK
<1>4. PICK rest \in Seq(Frame) : rest = Tail(s.out)
  BY <1>3
<1>5. PICK s1 \in Stream : s1 = [s EXCEPT !.out = rest]
  BY DEF Stream
<1>6. s1.client = s.client /\ s1.phase = s.phase /\ s1.last = s.last /\ s1.queue = s.queue
      /\ s1.since = s.since /\ s1.out = rest
  BY <1>5 DEF Stream
<1>7. stream \in [Streams -> Stream] /\ stream' = [stream EXCEPT ![k] = s1]
  BY <1>1, <1>4, <1>5 DEF SendOne, TypeOK
<1>8. stream' \in [Streams -> Stream] /\ stream'[k] = s1
      /\ \A j \in Streams : j # k => stream'[j] = stream[j]
  BY <1>7
<1>9. Receive(k, s.out[1])
  BY <1>1, <1>3 DEF SendOne
<1>10. s.phase # "snapshot" /\ browser[s.client].buffering = Ending(k)
       /\ \A i \in 1 .. Len(s.out) - 1 : s.out[i].kind # "end"
  BY <1>1, <1>2 DEF Shaped, Framed
<1>11. s.out[1].kind = "end" => browser[s.client].buffering /\ Len(s.out) = 1
  <2> SUFFICES ASSUME s.out[1].kind = "end" PROVE browser[s.client].buffering /\ Len(s.out) = 1
    OBVIOUS
  <2>0. PICK n \in Nat \ {0} : n = Len(s.out)
    BY <1>3
  <2>1. n = 1
    <3>1. 1 \notin 1 .. n - 1
      BY <1>10, <2>0
    <3> QED BY <3>1
  <2> QED BY <1>1, <1>2, <1>10, <2>0, <2>1 DEF Ending
<1>12. Len(rest) = Len(s.out) - 1 /\ \A i \in 1 .. Len(s.out) - 1 : rest[i] = s.out[i + 1]
  BY <1>3, <1>4
<1>13. /\ stream'[k].client = s.client /\ stream'[k].phase = s.phase
       /\ stream'[k].last = s.last /\ stream'[k].queue = s.queue
       /\ stream'[k].since = s.since /\ stream'[k].out = rest
  BY <1>6, <1>8
<1>14. s.out # <<>> /\ Len(s.out) \in Nat \ {0} /\ s.out[1] \in Frame
  BY <1>2, <1>3
<1> QED BY <1>1, <1>2, <1>8, <1>9, <1>11, <1>12, <1>13, <1>14

(* A frame of the queue.                                                   *)
LEMMA SendLiveDoes ==
  ASSUME TypeOK, Shaped, NEW k \in Streams, SendLive(k)
  PROVE  /\ Connected(k) /\ stream[k].out = <<>> /\ stream[k].phase = "live"
         /\ stream[k].queue # <<>> /\ Len(stream[k].queue) \in Nat \ {0}
         /\ stream[k].queue[1] \in Frame /\ Receive(k, stream[k].queue[1])
         /\ stream[k].queue[1].kind # "end"
         /\ stream' \in [Streams -> Stream]
         /\ \A j \in Streams : j # k => stream'[j] = stream[j]
         /\ stream'[k].client = stream[k].client /\ stream'[k].phase = stream[k].phase
         /\ stream'[k].last = stream[k].last /\ stream'[k].out = stream[k].out
         /\ stream'[k].since = stream[k].since
         /\ Len(stream'[k].queue) = Len(stream[k].queue) - 1
         /\ \A i \in 1 .. Len(stream[k].queue) - 1 : stream'[k].queue[i] = stream[k].queue[i + 1]
<1>1. PICK s \in Stream : s = stream[k]
  BY PartsOK
<1>2. s.queue \in Seq(Frame) /\ s.queue # <<>> /\ s.out = <<>> /\ s.phase = "live" /\ Connected(k)
  BY <1>1, PartsOK DEF SendLive
<1>3. /\ Len(s.queue) \in Nat \ {0} /\ Head(s.queue) = s.queue[1] /\ s.queue[1] \in Frame
      /\ Tail(s.queue) \in Seq(Frame) /\ Len(Tail(s.queue)) = Len(s.queue) - 1
      /\ \A i \in 1 .. Len(s.queue) - 1 : Tail(s.queue)[i] = s.queue[i + 1]
  BY <1>2, HeadOK
<1>4. PICK rest \in Seq(Frame) : rest = Tail(s.queue)
  BY <1>3
<1>5. PICK s1 \in Stream : s1 = [s EXCEPT !.queue = rest]
  BY DEF Stream
<1>6. s1.client = s.client /\ s1.phase = s.phase /\ s1.last = s.last /\ s1.out = s.out
      /\ s1.since = s.since /\ s1.queue = rest
  BY <1>5 DEF Stream
<1>7. stream \in [Streams -> Stream] /\ stream' = [stream EXCEPT ![k] = s1]
  BY <1>1, <1>4, <1>5 DEF SendLive, TypeOK
<1>8. stream' \in [Streams -> Stream] /\ stream'[k] = s1
      /\ \A j \in Streams : j # k => stream'[j] = stream[j]
  BY <1>7
<1>9. Receive(k, s.queue[1])
  BY <1>1, <1>3 DEF SendLive
<1>10. s.queue[1].kind # "end"
  BY <1>1, <1>3 DEF Shaped
<1>11. Len(rest) = Len(s.queue) - 1 /\ \A i \in 1 .. Len(s.queue) - 1 : rest[i] = s.queue[i + 1]
  BY <1>3, <1>4
<1>12. /\ stream'[k].client = s.client /\ stream'[k].phase = s.phase
       /\ stream'[k].last = s.last /\ stream'[k].out = s.out
       /\ stream'[k].since = s.since /\ stream'[k].queue = rest
  BY <1>6, <1>8
<1>13. s.queue # <<>> /\ Len(s.queue) \in Nat \ {0} /\ s.queue[1] \in Frame
  BY <1>2, <1>3
<1> QED BY <1>1, <1>2, <1>8, <1>9, <1>10, <1>11, <1>12, <1>13

(* A sequence of one element.                                              *)
LEMMA SingleSeq ==
  ASSUME NEW S, NEW e \in S
  PROVE  <<e>> \in Seq(S) /\ Len(<<e>>) = 1 /\ <<e>>[1] = e
OBVIOUS

(* The rows of the snapshot and its end go into the stream, and the        *)
(* browser begins to buffer.                                               *)
LEMMA SnapshotDoes ==
  ASSUME TypeOK, NEW k \in Streams, Snapshot(k)
  PROVE  /\ Connected(k) /\ stream[k].phase = "snapshot"
         /\ stream' \in [Streams -> Stream]
         /\ \A j \in Streams : j # k => stream'[j] = stream[j]
         /\ stream'[k].client = stream[k].client /\ stream'[k].last = stream[k].last
         /\ stream'[k].queue = stream[k].queue /\ stream'[k].since = stream[k].since
         /\ stream'[k].phase = AfterSnapshot(k)
         /\ Len(SnapshotRows) \in Nat /\ Len(stream'[k].out) = Len(SnapshotRows) + 1
         /\ \A i \in 1 .. Len(SnapshotRows) : stream'[k].out[i] = SnapshotRows[i]
         /\ stream'[k].out[Len(SnapshotRows) + 1] = EndFrame
         /\ browser' \in [Clients -> Browser]
         /\ \A c \in Clients : c # stream[k].client => browser'[c] = browser[c]
         /\ \A c \in Clients : /\ browser'[c].on = browser[c].on
                               /\ browser'[c].last = browser[c].last
                               /\ browser'[c].heard = browser[c].heard
         /\ browser'[stream[k].client].buffering = TRUE
         /\ browser'[stream[k].client].buffer = EmptyMap
<1>1. PICK s \in Stream : s = stream[k]
  BY PartsOK
<1>2. PICK c \in Clients : c = s.client
  BY <1>1, PartsOK
<1>3. PICK b \in Browser : b = browser[c]
  BY PartsOK
<1>4. PICK rows \in Seq(Frame) : rows = SnapshotRows
  BY RowsOK DEF TypeOK
<1>5. PICK n \in Nat : n = Len(rows)
  BY LenProperties
<1>6. PICK end \in Seq(Frame) : end = <<EndFrame>> /\ Len(end) = 1 /\ end[1] = EndFrame
  <2>1. EndFrame \in Frame
    BY FrameOK
  <2>2. <<EndFrame>> \in Seq(Frame) /\ Len(<<EndFrame>>) = 1 /\ <<EndFrame>>[1] = EndFrame
    BY <2>1, SingleSeq
  <2> QED BY <2>2
<1>7. /\ rows \o end \in Seq(Frame) /\ Len(rows \o end) = n + 1
      /\ \A i \in 1 .. n + 1 : (rows \o end)[i] = IF i <= n THEN rows[i] ELSE end[i - n]
  BY <1>5, <1>6, ConcatProperties
<1>8. PICK all \in Seq(Frame) : all = rows \o end
  BY <1>7
<1>9. Len(all) = n + 1 /\ (\A i \in 1 .. n : all[i] = rows[i]) /\ all[n + 1] = EndFrame
  BY <1>6, <1>7, <1>8
<1>10. AfterSnapshot(k) \in {"live", "resume"}
  BY DEF AfterSnapshot
<1>11. PICK after \in {"live", "resume"} : after = AfterSnapshot(k)
  BY <1>10
<1>12. PICK s1 \in Stream : s1 = [s EXCEPT !.phase = after, !.out = all]
  BY DEF Stream
<1>13. s1.client = s.client /\ s1.last = s.last /\ s1.queue = s.queue /\ s1.since = s.since
       /\ s1.phase = after /\ s1.out = all
  BY <1>12 DEF Stream
<1>14. stream' = [stream EXCEPT ![k] = s1] /\ stream \in [Streams -> Stream]
  BY <1>1, <1>4, <1>6, <1>8, <1>11, <1>12 DEF Snapshot, TypeOK
<1>15. stream' \in [Streams -> Stream] /\ stream'[k] = s1
       /\ \A j \in Streams : j # k => stream'[j] = stream[j]
  BY <1>14
<1>16. PICK b1 \in Browser : b1 = [b EXCEPT !.buffer = EmptyMap, !.buffering = TRUE]
  BY NullsOK DEF Browser
<1>17. b1.on = b.on /\ b1.last = b.last /\ b1.heard = b.heard /\ b1.buffering = TRUE
       /\ b1.buffer = EmptyMap
  BY <1>16 DEF Browser
<1>18. browser' = [browser EXCEPT ![c] = b1] /\ browser \in [Clients -> Browser]
  BY <1>1, <1>2, <1>3, <1>16 DEF Snapshot, TypeOK
<1>19. browser' \in [Clients -> Browser] /\ browser'[c] = b1
       /\ \A d \in Clients : d # c => browser'[d] = browser[d]
  BY <1>18
<1>20. \A d \in Clients : /\ browser'[d].on = browser[d].on /\ browser'[d].last = browser[d].last
                          /\ browser'[d].heard = browser[d].heard
  BY <1>3, <1>17, <1>19
<1>21. Connected(k) /\ stream[k].phase = "snapshot"
  BY DEF Snapshot
<1> QED BY <1>1, <1>2, <1>4, <1>5, <1>9, <1>11, <1>13, <1>15, <1>17, <1>19, <1>20, <1>21

(* The rows of the replay: each is a row of the table, and those after the *)
(* one named are among them, as far as the limit goes.                     *)
LEMMA ReplayOK ==
  ASSUME TypeOK, Numbered, NEW id \in Ids \cup {0}
  PROVE  /\ ReplaySince(id) \in Seq(Frame)
         /\ \A j \in 1 .. Len(ReplaySince(id)) : \E i \in 1 .. Len(table) : ReplaySince(id)[j] = NoteOf(i)
         /\ \A p \in Pivot(id) : \A i \in p + 1 .. Len(table) :
              i <= p + ReplayLimit => NoteOf(i) \in Range(ReplaySince(id))
<1>a. Len(table) \in Nat
  BY PartsOK
<1>b. PICK n \in Nat : n = Len(table)
  BY <1>a, Zenon
<1>1. n = Len(table) /\ DOMAIN table = 1 .. n
  BY <1>b, PartsOK
<1>2. \A i \in 1 .. n : NoteOf(i) \in Frame
  BY <1>1, PartsOK, FrameOK DEF NoteOf
<1>3. ReplayLimit \in Nat
  BY BoundsAssumption
<1>4. CASE Pivot(id) = {}
  <2>1. ReplaySince(id) = <<>>
    BY <1>4 DEF ReplaySince
  <2>2. <<>> \in Seq(Frame) /\ Len(<<>>) = 0
    BY EmptySeq
  <2> QED BY <1>4, <2>1, <2>2
<1>5. CASE Pivot(id) # {}
  <2>1. PICK p : p = CHOOSE i \in Pivot(id) : TRUE
    OBVIOUS
  <2>2. p \in Pivot(id) /\ p \in 1 .. n
    BY <1>1, <1>5, <2>1 DEF Pivot
  <2>3. \A q \in Pivot(id) : q = p
    <3> SUFFICES ASSUME NEW q \in Pivot(id) PROVE q = p
      OBVIOUS
    <3>1. q \in 1 .. n /\ table[q].id = id /\ table[p].id = id
      BY <1>1, <2>2 DEF Pivot
    <3>2. \A i, j \in 1 .. n : i < j => table[i].id < table[j].id
      BY <1>1 DEF Numbered
    <3>3. \A i \in 1 .. n : table[i].id \in Int
      BY <1>1, PartsOK, BoundsAssumption DEF Ids
    <3>4. ~(p < q) /\ ~(q < p)
      BY <2>2, <3>1, <3>2, <3>3
    <3> QED BY <2>2, <3>1, <3>4
  <2>4. PICK m \in Nat : m = Smaller(n - p, ReplayLimit) /\ m <= n - p /\ m <= ReplayLimit
                         /\ (m = n - p \/ m = ReplayLimit)
    BY <1>3, <2>2 DEF Smaller
  <2>5. ReplaySince(id) = [j \in 1 .. m |-> NoteOf(p + j)]
    BY <1>1, <1>5, <2>1, <2>4, Zenon DEF ReplaySince
  <2>6. \A j \in 1 .. m : p + j \in 1 .. n
    BY <2>2, <2>4
  <2>7. [j \in 1 .. m |-> NoteOf(p + j)] \in [1 .. m -> Frame]
    BY <1>2, <2>6
  <2>8. PICK all : all = ReplaySince(id)
    OBVIOUS
  <2>9. all \in Seq(Frame) /\ Len(all) = m /\ DOMAIN all = 1 .. m
    BY <2>5, <2>7, <2>8, FunctionIsSeq
  <2>10. \A j \in 1 .. m : all[j] = NoteOf(p + j)
    BY <2>5, <2>8
  <2>11. \A j \in 1 .. m : \E i \in 1 .. n : all[j] = NoteOf(i)
    BY <2>6, <2>10
  <2>12. \A i \in p + 1 .. n : i <= p + ReplayLimit => NoteOf(i) \in Range(all)
    <3> SUFFICES ASSUME NEW i \in p + 1 .. n, i <= p + ReplayLimit PROVE NoteOf(i) \in Range(all)
      OBVIOUS
    <3>1. i - p \in 1 .. m /\ p + (i - p) = i
      BY <1>3, <2>2, <2>4
    <3>2. all[i - p] = NoteOf(i)
      BY <2>10, <3>1
    <3> QED BY <2>9, <3>1, <3>2 DEF Range
  <2> QED BY <1>1, <2>3, <2>8, <2>9, <2>11, <2>12
<1> QED BY <1>4, <1>5

(* The rows since the client's last one go into the stream.                *)
LEMMA ReplayDoes ==
  ASSUME TypeOK, Numbered, NEW k \in Streams, Replay(k)
  PROVE  /\ Connected(k) /\ stream[k].phase = "resume" /\ stream[k].out = <<>>
         /\ stream' \in [Streams -> Stream]
         /\ \A j \in Streams : j # k => stream'[j] = stream[j]
         /\ stream'[k].client = stream[k].client /\ stream'[k].last = stream[k].last
         /\ stream'[k].queue = stream[k].queue /\ stream'[k].since = stream[k].since
         /\ stream'[k].phase = "live" /\ stream'[k].out = ReplaySince(stream[k].last)
<1>1. PICK s \in Stream : s = stream[k]
  BY PartsOK
<1>2. s.last \in Ids \cup {0}
  BY <1>1, PartsOK
<1>3. PICK rows \in Seq(Frame) : rows = ReplaySince(s.last)
  BY <1>2, ReplayOK
<1>5. PICK s1 \in Stream : s1 = [s EXCEPT !.phase = "live", !.out = rows]
  BY DEF Stream
<1>6. s1.client = s.client /\ s1.last = s.last /\ s1.queue = s.queue /\ s1.since = s.since
      /\ s1.phase = "live" /\ s1.out = rows
  BY <1>5 DEF Stream
<1>7. stream' = [stream EXCEPT ![k] = s1] /\ stream \in [Streams -> Stream]
  BY <1>1, <1>3, <1>5 DEF Replay, TypeOK
<1>8. stream' \in [Streams -> Stream] /\ stream'[k] = s1
      /\ \A j \in Streams : j # k => stream'[j] = stream[j]
  BY <1>7
<1>9. Connected(k) /\ stream[k].phase = "resume" /\ stream[k].out = <<>>
  BY DEF Replay
<1> QED BY <1>1, <1>3, <1>6, <1>8, <1>9

(* A thread begins to push.                                                *)
LEMMA BeginDoes ==
  ASSUME TypeOK, NEW w \in Writers, NEW f \in Frame, Begin(w, f)
  PROVE  /\ thread' \in [Writers -> Work]
         /\ \A v \in Writers : v # w => thread'[v] = thread[v]
         /\ thread'[w].step = "push" /\ thread'[w].frame = f /\ thread'[w].at = 1
         /\ thread'[w].full = {}
<1>0. [step |-> "push", frame |-> f, at |-> 1, full |-> {}] \in Work
  BY DEF Work
<1>1. PICK t \in Work : t = [step |-> "push", frame |-> f, at |-> 1, full |-> {}]
  BY <1>0
<1>2. t.step = "push" /\ t.frame = f /\ t.at = 1 /\ t.full = {}
  BY <1>1
<1>3. thread' = [thread EXCEPT ![w] = t] /\ thread \in [Writers -> Work]
  BY <1>1 DEF Begin, TypeOK
<1>4. thread' \in [Writers -> Work] /\ thread'[w] = t
      /\ \A v \in Writers : v # w => thread'[v] = thread[v]
  BY <1>3
<1> QED BY <1>2, <1>4

(* One queue: the frame goes in, or the stream is skipped.                 *)
LEMMA PushOneDoes ==
  ASSUME TypeOK, NEW w \in Writers, PushOne(w)
  PROVE  /\ thread[w].step = "push" /\ thread[w].at \in 1 .. Len(subscribers)
         /\ subscribers[thread[w].at] \in Streams
         /\ thread' \in [Writers -> Work]
         /\ \A v \in Writers : v # w => thread'[v] = thread[v]
         /\ thread'[w].step = "push" /\ thread'[w].frame = thread[w].frame
         /\ thread'[w].at = thread[w].at + 1
         /\ stream' \in [Streams -> Stream]
         /\ \A k \in Streams :
              /\ stream'[k].client = stream[k].client /\ stream'[k].phase = stream[k].phase
              /\ stream'[k].last = stream[k].last /\ stream'[k].out = stream[k].out
              /\ stream'[k].since = stream[k].since
              /\ k # subscribers[thread[w].at] => stream'[k] = stream[k]
         /\ \/ /\ Room(subscribers[thread[w].at])
               /\ stream'[subscribers[thread[w].at]].queue =
                    Append(stream[subscribers[thread[w].at]].queue, thread[w].frame)
               /\ skipped' = skipped /\ thread'[w].full = thread[w].full
            \/ /\ stream' = stream /\ skipped' = skipped \cup {subscribers[thread[w].at]}
               /\ thread'[w].full = thread[w].full \cup {subscribers[thread[w].at]}
<1>1. PICK t \in Work : t = thread[w]
  BY PartsOK
<1>2. t.at \in Nat \ {0} /\ t.frame \in Frame /\ t.full \in SUBSET Streams
  BY <1>1, PartsOK
<1>3. t.step = "push" /\ t.at <= Len(subscribers)
  BY <1>1 DEF PushOne
<1>4. t.at \in 1 .. Len(subscribers) /\ subscribers[t.at] \in Streams
  BY <1>2, <1>3, PartsOK
<1>5. PICK k \in Streams : k = subscribers[t.at]
  BY <1>4
<1>6. PICK s \in Stream : s = stream[k]
  BY PartsOK
<1>7. thread \in [Writers -> Work] /\ stream \in [Streams -> Stream]
  BY DEF TypeOK
<1> DEFINE Moved ==
           /\ thread' \in [Writers -> Work] /\ stream' \in [Streams -> Stream]
           /\ \A v \in Writers : v # w => thread'[v] = thread[v]
           /\ \A j \in Streams : j # k => stream'[j] = stream[j]
           /\ thread'[w].step = "push" /\ thread'[w].frame = t.frame
           /\ thread'[w].at = t.at + 1
           Kept ==
             \A j \in Streams :
               /\ stream'[j].client = stream[j].client /\ stream'[j].phase = stream[j].phase
               /\ stream'[j].last = stream[j].last /\ stream'[j].out = stream[j].out
               /\ stream'[j].since = stream[j].since
           Given ==
             \/ /\ Room(k) /\ stream'[k].queue = Append(s.queue, t.frame)
                /\ skipped' = skipped /\ thread'[w].full = t.full
             \/ /\ stream' = stream /\ skipped' = skipped \cup {k}
                /\ thread'[w].full = t.full \cup {k}
<1>8. ASSUME Room(k) PROVE Moved /\ Kept /\ Given
  <2>1. s.queue \in Seq(Frame)
    BY <1>6, PartsOK
  <2>2. PICK q \in Seq(Frame) : q = Append(s.queue, t.frame)
    BY <1>2, <2>1, AppendProperties
  <2>3. PICK s1 \in Stream : s1 = [s EXCEPT !.queue = q]
    BY DEF Stream
  <2>4. s1.client = s.client /\ s1.phase = s.phase /\ s1.last = s.last /\ s1.out = s.out
        /\ s1.since = s.since /\ s1.queue = q
    BY <2>3 DEF Stream
  <2>a. [t EXCEPT !.at = t.at + 1] \in Work
    BY <1>2 DEF Work
  <2>5. PICK t1 \in Work : t1 = [t EXCEPT !.at = t.at + 1]
    BY <2>a
  <2>6. t1.step = t.step /\ t1.frame = t.frame /\ t1.full = t.full /\ t1.at = t.at + 1
    BY <2>5 DEF Work
  <2>7. stream' = [stream EXCEPT ![k].queue = Append(@, t.frame)]
        /\ thread' = [thread EXCEPT ![w].at = @ + 1] /\ skipped' = skipped
    BY <1>1, <1>5, <1>8 DEF PushOne
  <2>8. stream' = [stream EXCEPT ![k] = s1] /\ thread' = [thread EXCEPT ![w] = t1]
    BY <1>1, <1>6, <1>7, <2>2, <2>3, <2>5, <2>7
  <2>9. stream' \in [Streams -> Stream] /\ stream'[k] = s1
        /\ \A j \in Streams : j # k => stream'[j] = stream[j]
    BY <1>7, <2>8
  <2>10. thread' \in [Writers -> Work] /\ thread'[w] = t1
         /\ \A v \in Writers : v # w => thread'[v] = thread[v]
    BY <1>7, <2>8
  <2>11. \A j \in Streams :
           /\ stream'[j].client = stream[j].client /\ stream'[j].phase = stream[j].phase
           /\ stream'[j].last = stream[j].last /\ stream'[j].out = stream[j].out
           /\ stream'[j].since = stream[j].since
    BY <1>6, <2>4, <2>9
  <2>12. Moved
    BY <1>3, <2>6, <2>9, <2>10
  <2>13. Given
    BY <1>8, <2>2, <2>4, <2>6, <2>7, <2>9, <2>10
  <2> HIDE DEF Moved, Kept, Given
  <2> QED BY <2>11, <2>12, <2>13 DEF Kept
<1>9. ASSUME ~Room(k) PROVE Moved /\ Kept /\ Given
  <2>b. PICK more \in SUBSET Streams : more = t.full \cup {k}
    BY <1>2
  <2>d. [t EXCEPT !.at = t.at + 1] \in Work
    BY <1>2 DEF Work
  <2>e. PICK t0 \in Work : t0 = [t EXCEPT !.at = t.at + 1]
    BY <2>d
  <2>f. [t0 EXCEPT !.full = more] \in Work
    BY DEF Work
  <2>c. [t EXCEPT !.at = t.at + 1, !.full = more] \in Work
    BY <2>e, <2>f
  <2>a. [t EXCEPT !.at = t.at + 1, !.full = t.full \cup {k}] \in Work
    BY <2>b, <2>c
  <2>1. PICK t1 \in Work : t1 = [t EXCEPT !.at = t.at + 1, !.full = t.full \cup {k}]
    BY <2>a
  <2>2. t1.step = t.step /\ t1.frame = t.frame /\ t1.full = t.full \cup {k} /\ t1.at = t.at + 1
    BY <2>1 DEF Work
  <2>3. stream' = stream /\ skipped' = skipped \cup {k}
        /\ thread' = [thread EXCEPT ![w].at = @ + 1, ![w].full = @ \cup {k}]
    BY <1>1, <1>5, <1>9 DEF PushOne
  <2>4. thread' = [thread EXCEPT ![w] = t1]
    BY <1>1, <1>7, <2>1, <2>3
  <2>5. thread' \in [Writers -> Work] /\ thread'[w] = t1
        /\ \A v \in Writers : v # w => thread'[v] = thread[v]
    BY <1>7, <2>4
  <2>6. Moved
    BY <1>3, <1>7, <2>2, <2>3, <2>5
  <2>7. Given
    BY <2>2, <2>3, <2>5
  <2>8. Kept
    BY <2>3
  <2> HIDE DEF Moved, Kept, Given
  <2> QED BY <2>6, <2>7, <2>8
<1>10. Moved /\ Kept /\ Given
  <2> HIDE DEF Moved, Kept, Given
  <2> QED BY <1>8, <1>9
<1>11. /\ thread[w].step = "push" /\ thread[w].at \in 1 .. Len(subscribers)
       /\ subscribers[thread[w].at] = k
  BY <1>1, <1>3, <1>4, <1>5
<1>12. /\ thread'[w].frame = thread[w].frame /\ thread'[w].at = thread[w].at + 1
       /\ \/ /\ Room(k) /\ stream'[k].queue = Append(stream[k].queue, thread[w].frame)
             /\ skipped' = skipped /\ thread'[w].full = thread[w].full
          \/ /\ stream' = stream /\ skipped' = skipped \cup {k}
             /\ thread'[w].full = thread[w].full \cup {k}
  BY <1>1, <1>6, <1>10
<1> QED BY <1>10, <1>11, <1>12, Zenon

(* The end of a push: the full queues are no longer on the list.           *)
LEMMA PushEndsDoes ==
  ASSUME TypeOK, NEW w \in Writers, PushEnds(w)
  PROVE  /\ thread[w].step = "push" /\ thread[w].at > Len(subscribers)
         /\ thread' \in [Writers -> Work] /\ thread'[w] = Idle
         /\ \A v \in Writers : v # w => thread'[v] = thread[v]
         /\ subscribers' \in Seq(Streams) /\ IsInjective(subscribers')
         /\ \A k : k \in Range(subscribers') <=> k \in Range(subscribers) /\ k \notin thread[w].full
<1>1. thread \in [Writers -> Work] /\ subscribers \in Seq(Streams) /\ IsInjective(subscribers)
  BY DEF TypeOK
<1>2. thread' = [thread EXCEPT ![w] = Idle] /\ subscribers' = Without(subscribers, thread[w].full)
      /\ thread[w].step = "push" /\ thread[w].at > Len(subscribers)
  BY DEF PushEnds
<1>3. thread' \in [Writers -> Work] /\ thread'[w] = Idle
      /\ \A v \in Writers : v # w => thread'[v] = thread[v]
  BY <1>1, <1>2, NullsOK
<1>4. PICK gone : gone = thread[w].full
  OBVIOUS
<1>5. /\ Without(subscribers, gone) \in Seq(Streams)
      /\ \A k : k \in Range(Without(subscribers, gone)) <=> k \in Range(subscribers) /\ k \notin gone
      /\ IsInjective(subscribers) => IsInjective(Without(subscribers, gone))
  BY <1>1, WithoutOK
<1> QED BY <1>1, <1>2, <1>3, <1>4, <1>5

(* The server notices that a client is gone.                               *)
LEMMA StreamEndsDoes ==
  ASSUME TypeOK, NEW k \in Streams, StreamEnds(k)
  PROVE  /\ stream[k].phase \notin {"unopened", "closed"} /\ ~Connected(k)
         /\ stream' \in [Streams -> Stream] /\ stream'[k] = Closed
         /\ \A j \in Streams : j # k => stream'[j] = stream[j]
         /\ subscribers' \in Seq(Streams) /\ IsInjective(subscribers')
         /\ \A j : j \in Range(subscribers') <=> j \in Range(subscribers) /\ j # k
<1>1. stream \in [Streams -> Stream] /\ subscribers \in Seq(Streams) /\ IsInjective(subscribers)
  BY DEF TypeOK
<1>2. stream' = [stream EXCEPT ![k] = Closed] /\ subscribers' = Without(subscribers, {k})
      /\ stream[k].phase \notin {"unopened", "closed"} /\ ~Connected(k)
  BY DEF StreamEnds
<1>3. stream' \in [Streams -> Stream] /\ stream'[k] = Closed
      /\ \A j \in Streams : j # k => stream'[j] = stream[j]
  BY <1>1, <1>2, NullsOK
<1>4. PICK gone : gone = {k}
  OBVIOUS
<1>5. /\ Without(subscribers, gone) \in Seq(Streams)
      /\ \A j : j \in Range(Without(subscribers, gone)) <=> j \in Range(subscribers) /\ j \notin gone
      /\ IsInjective(subscribers) => IsInjective(Without(subscribers, gone))
  BY <1>1, WithoutOK
<1> QED BY <1>1, <1>2, <1>3, <1>4, <1>5

(* A client makes a connection: a stream of its own, at the end of the     *)
(* list.                                                                   *)
LEMMA ConnectDoes ==
  ASSUME TypeOK, Listed, NEW c \in Clients, Connect(c)
  PROVE  /\ opened' = opened + 1 /\ opened' \in Streams /\ browser[c].on = 0
         /\ opened' \notin Range(subscribers)
         /\ subscribers' \in Seq(Streams) /\ IsInjective(subscribers')
         /\ Range(subscribers') = Range(subscribers) \cup {opened'}
         /\ \A k \in Range(subscribers) : IndexIn(subscribers', k) = IndexIn(subscribers, k)
         /\ IndexIn(subscribers', opened') = Len(subscribers) + 1
         /\ Len(subscribers') = Len(subscribers) + 1
         /\ \A i \in 1 .. Len(subscribers) : subscribers'[i] = subscribers[i]
         /\ subscribers'[Len(subscribers) + 1] = opened'
         /\ stream' \in [Streams -> Stream]
         /\ \A k \in Streams : k # opened' => stream'[k] = stream[k]
         /\ stream'[opened'].client = c /\ stream'[opened'].phase = "snapshot"
         /\ stream'[opened'].out = <<>> /\ stream'[opened'].queue = <<>>
         /\ stream'[opened'].last \in {browser[c].last, 0} /\ stream'[opened'].since = Len(table)
         /\ browser' \in [Clients -> Browser]
         /\ \A d \in Clients : d # c => browser'[d] = browser[d]
         /\ browser'[c].on = opened'
         /\ \A d \in Clients : /\ browser'[d].mirror = browser[d].mirror
                               /\ browser'[d].buffer = browser[d].buffer
                               /\ browser'[d].buffering = browser[d].buffering
                               /\ browser'[d].last = browser[d].last
                               /\ browser'[d].heard = browser[d].heard
<1>1. opened \in Nat /\ opened < MaxStreams /\ opened' = opened + 1 /\ MaxStreams \in Nat
  BY BoundsAssumption DEF TypeOK, Connect
<1>2. PICK k \in Streams : k = opened + 1
  BY <1>1 DEF Streams
<1>3. subscribers \in Seq(Streams) /\ IsInjective(subscribers) /\ browser \in [Clients -> Browser]
      /\ stream \in [Streams -> Stream]
  BY DEF TypeOK
<1>4. k \notin Range(subscribers)
  <2>1. \A i \in 1 .. Len(subscribers) : subscribers[i] <= opened
    BY DEF Listed
  <2>2. \A j \in Range(subscribers) : IndexIn(subscribers, j) \in 1 .. Len(subscribers)
                                      /\ subscribers[IndexIn(subscribers, j)] = j
    BY <1>3, IndexOK
  <2> QED BY <1>1, <1>2, <2>1, <2>2
<1>5. /\ Append(subscribers, k) \in Seq(Streams) /\ IsInjective(Append(subscribers, k))
      /\ Range(Append(subscribers, k)) = Range(subscribers) \cup {k}
      /\ \A j \in Range(subscribers) : IndexIn(Append(subscribers, k), j) = IndexIn(subscribers, j)
      /\ IndexIn(Append(subscribers, k), k) = Len(subscribers) + 1
  BY <1>3, <1>4, JoinsList
<1>6. /\ Len(Append(subscribers, k)) = Len(subscribers) + 1
      /\ \A i \in 1 .. Len(subscribers) : Append(subscribers, k)[i] = subscribers[i]
      /\ Append(subscribers, k)[Len(subscribers) + 1] = k
  BY <1>3, AppendProperties
<1>7. subscribers' = Append(subscribers, k) /\ browser[c].on = 0
  BY <1>1, <1>2 DEF Connect
<1>8. PICK b \in Browser : b = browser[c]
  BY PartsOK
<1>9. PICK from \in {b.last, 0} : from = IF c \in Resuming THEN browser[c].last ELSE 0
  BY <1>8
<1>10. from \in Ids \cup {0}
  BY <1>8, <1>9, PartsOK
<1>a. PICK n \in Nat : n = Len(table)
  BY PartsOK
<1>11. [Unopened EXCEPT !.client = c, !.phase = "snapshot", !.last = from, !.since = n] \in Stream
  BY <1>10, NullsOK DEF Stream
<1>12. PICK s \in Stream :
         s = [Unopened EXCEPT !.client = c, !.phase = "snapshot", !.last = from, !.since = n]
  BY <1>11
<1>13. s.client = c /\ s.phase = "snapshot" /\ s.out = <<>> /\ s.queue = <<>> /\ s.last = from
       /\ s.since = Len(table)
  BY <1>a, <1>12, NullsOK DEF Stream
<1>14. stream' = [stream EXCEPT ![k] = s]
  BY <1>1, <1>2, <1>9, <1>a, <1>12 DEF Connect
<1>15. stream' \in [Streams -> Stream] /\ stream'[k] = s
       /\ \A j \in Streams : j # k => stream'[j] = stream[j]
  BY <1>3, <1>14
<1>16. [b EXCEPT !.on = k] \in Browser
  BY DEF Browser
<1>17. PICK b1 \in Browser : b1 = [b EXCEPT !.on = k]
  BY <1>16
<1>18. b1.on = k /\ b1.mirror = b.mirror /\ b1.buffer = b.buffer /\ b1.buffering = b.buffering
       /\ b1.last = b.last /\ b1.heard = b.heard
  BY <1>17 DEF Browser
<1>19. browser' = [browser EXCEPT ![c] = b1]
  BY <1>1, <1>2, <1>8, <1>17 DEF Connect
<1>20. browser' \in [Clients -> Browser] /\ browser'[c] = b1
       /\ \A d \in Clients : d # c => browser'[d] = browser[d]
  BY <1>3, <1>19
<1>21. \A d \in Clients : /\ browser'[d].mirror = browser[d].mirror
                          /\ browser'[d].buffer = browser[d].buffer
                          /\ browser'[d].buffering = browser[d].buffering
                          /\ browser'[d].last = browser[d].last
                          /\ browser'[d].heard = browser[d].heard
  BY <1>8, <1>18, <1>20
<1>22. opened' = k
  BY <1>1, <1>2
<1>23. /\ subscribers' \in Seq(Streams) /\ IsInjective(subscribers')
       /\ Range(subscribers') = Range(subscribers) \cup {k}
       /\ \A j \in Range(subscribers) : IndexIn(subscribers', j) = IndexIn(subscribers, j)
       /\ IndexIn(subscribers', k) = Len(subscribers) + 1
       /\ Len(subscribers') = Len(subscribers) + 1
       /\ \A i \in 1 .. Len(subscribers) : subscribers'[i] = subscribers[i]
       /\ subscribers'[Len(subscribers) + 1] = k
  BY <1>5, <1>6, <1>7
<1>24. /\ stream'[k].client = c /\ stream'[k].phase = "snapshot"
       /\ stream'[k].out = <<>> /\ stream'[k].queue = <<>>
       /\ stream'[k].last \in {browser[c].last, 0} /\ browser'[c].on = k
       /\ stream'[k].since = Len(table)
  BY <1>8, <1>9, <1>13, <1>15, <1>18, <1>20
<1> HIDE DEF Connect
<1> QED BY <1>1, <1>4, <1>7, <1>15, <1>20, <1>21, <1>22, <1>23, <1>24, Zenon

(* The connection breaks.                                                  *)
LEMMA DisconnectDoes ==
  ASSUME TypeOK, NEW c \in Clients, Disconnect(c)
  PROVE  /\ browser[c].on # 0 /\ browser' \in [Clients -> Browser]
         /\ \A d \in Clients : d # c => browser'[d] = browser[d]
         /\ browser'[c].on = 0
         /\ \A d \in Clients : /\ browser'[d].mirror = browser[d].mirror
                               /\ browser'[d].buffer = browser[d].buffer
                               /\ browser'[d].buffering = browser[d].buffering
                               /\ browser'[d].last = browser[d].last
                               /\ browser'[d].heard = browser[d].heard
<1>1. PICK b \in Browser : b = browser[c]
  BY PartsOK
<1>2. [b EXCEPT !.on = 0] \in Browser
  BY DEF Browser
<1>3. PICK b1 \in Browser : b1 = [b EXCEPT !.on = 0]
  BY <1>2
<1>4. b1.on = 0 /\ b1.mirror = b.mirror /\ b1.buffer = b.buffer /\ b1.buffering = b.buffering
      /\ b1.last = b.last /\ b1.heard = b.heard
  BY <1>3 DEF Browser
<1>5. browser' = [browser EXCEPT ![c] = b1] /\ browser \in [Clients -> Browser] /\ browser[c].on # 0
  BY <1>1, <1>3 DEF Disconnect, TypeOK
<1>6. browser' \in [Clients -> Browser] /\ browser'[c] = b1
      /\ \A d \in Clients : d # c => browser'[d] = browser[d]
  BY <1>5
<1>7. \A d \in Clients : /\ browser'[d].mirror = browser[d].mirror
                         /\ browser'[d].buffer = browser[d].buffer
                         /\ browser'[d].buffering = browser[d].buffering
                         /\ browser'[d].last = browser[d].last
                         /\ browser'[d].heard = browser[d].heard
  BY <1>1, <1>4, <1>6
<1> QED BY <1>4, <1>5, <1>6, <1>7

(* The server restarts: nobody is connected, nothing is being pushed.      *)
LEMMA RestartDoes ==
  ASSUME TypeOK, Restart
  PROVE  /\ cache' \in Map /\ thread' \in [Writers -> Work] /\ \A w \in Writers : thread'[w] = Idle
         /\ subscribers' = <<>> /\ subscribers' \in Seq(Streams) /\ IsInjective(subscribers')
         /\ Len(subscribers') = 0
         /\ stream' \in [Streams -> Stream]
         /\ \A k \in Streams : stream'[k] \in {Unopened, Closed}
         /\ browser' \in [Clients -> Browser]
         /\ \A d \in Clients : /\ browser'[d].on = 0
                               /\ browser'[d].mirror = browser[d].mirror
                               /\ browser'[d].buffer = browser[d].buffer
                               /\ browser'[d].buffering = browser[d].buffering
                               /\ browser'[d].last = browser[d].last
                               /\ browser'[d].heard = browser[d].heard
<1>1. cache' \in Map /\ thread' = [w \in Writers |-> Idle] /\ subscribers' = <<>>
      /\ stream' = [k \in Streams |-> IF k > opened THEN Unopened ELSE Closed]
      /\ browser' = [c \in Clients |-> [browser[c] EXCEPT !.on = 0]]
  BY DEF Restart
<1>2. thread' \in [Writers -> Work] /\ \A w \in Writers : thread'[w] = Idle
  BY <1>1, NullsOK
<1>3. stream' \in [Streams -> Stream] /\ \A k \in Streams : stream'[k] \in {Unopened, Closed}
  BY <1>1, NullsOK
<1>4. subscribers' \in Seq(Streams) /\ Len(subscribers') = 0 /\ IsInjective(subscribers')
  BY <1>1, EmptySeq DEF IsInjective
<1>5. \A d \in Clients :
        /\ browser'[d] \in Browser /\ browser'[d].on = 0
        /\ browser'[d].mirror = browser[d].mirror /\ browser'[d].buffer = browser[d].buffer
        /\ browser'[d].buffering = browser[d].buffering /\ browser'[d].last = browser[d].last
        /\ browser'[d].heard = browser[d].heard
  <2> TAKE d \in Clients
  <2>1. PICK b \in Browser : b = browser[d]
    BY PartsOK
  <2>2. [b EXCEPT !.on = 0] \in Browser
    BY DEF Browser
  <2>3. PICK b1 \in Browser : b1 = [b EXCEPT !.on = 0]
    BY <2>2
  <2>4. b1.on = 0 /\ b1.mirror = b.mirror /\ b1.buffer = b.buffer /\ b1.buffering = b.buffering
        /\ b1.last = b.last /\ b1.heard = b.heard
    BY <2>3 DEF Browser
  <2>5. browser'[d] = b1
    BY <1>1, <2>1, <2>3
  <2> QED BY <2>1, <2>4, <2>5
<1>6. browser' \in [Clients -> Browser]
  BY <1>1, <1>5
<1> QED BY <1>1, <1>2, <1>3, <1>4, <1>5, <1>6

(* Setting a state: the map, and a thread that tells of it.                *)
LEMMA SetStateDoes ==
  ASSUME TypeOK, NEW w \in Writers, NEW n \in Names, NEW to \in States \cup {Absent},
         SetState(w, n, to)
  PROVE  /\ emitted' = emitted + 1 /\ emitted' \in Ids
         /\ cache' \in Map /\ cache' = [cache EXCEPT ![n] = to]
         /\ thread' \in [Writers -> Work]
         /\ \A v \in Writers : v # w => thread'[v] = thread[v]
         /\ thread[w].step = "idle"
         /\ thread'[w].step = "push" /\ thread'[w].at = 1 /\ thread'[w].full = {}
         /\ thread'[w].frame = [kind |-> "state", id |-> emitted', name |-> n, to |-> to]
         /\ raced' = IF \E v \in Writers : Telling(v, n) THEN raced \cup {n} ELSE raced
<1>1. emitted' = emitted + 1 /\ emitted' \in Ids
  BY BoundsAssumption DEF SetState, TypeOK, Ids
<1>2. PICK e \in Ids : e = emitted'
  BY <1>1
<1>3. [kind |-> "state", id |-> e, name |-> n, to |-> to] \in Frame
  BY FrameOK
<1>4. PICK f \in Frame : f = [kind |-> "state", id |-> e, name |-> n, to |-> to]
  BY <1>3
<1>5. Begin(w, f)
  BY <1>2, <1>4 DEF SetState
<1>6. /\ thread' \in [Writers -> Work]
      /\ \A v \in Writers : v # w => thread'[v] = thread[v]
      /\ thread'[w].step = "push" /\ thread'[w].frame = f /\ thread'[w].at = 1
      /\ thread'[w].full = {}
  BY <1>5, BeginDoes
<1>7. cache' = [cache EXCEPT ![n] = to] /\ cache' \in Map /\ thread[w].step = "idle"
  BY DEF SetState, TypeOK, Map
<1>8. raced' = IF \E v \in Writers : Telling(v, n) THEN raced \cup {n} ELSE raced
  BY DEF SetState
<1> QED BY <1>1, <1>2, <1>4, <1>6, <1>7, <1>8

(* A note begins: an event of the server (with a row, with one there       *)
(* already, or without any), or a relay.                                   *)
Noting(w) == (\E topic \in Topics \cup {NoTopic} : Notify(w, topic))
             \/ NotifyUnrecorded(w) \/ RelayArrives(w)
LEMMA NotingDoes ==
  ASSUME TypeOK, NEW w \in Writers, Noting(w)
  PROVE  /\ emitted' = emitted + 1 /\ emitted' \in Ids
         /\ thread' \in [Writers -> Work]
         /\ \A v \in Writers : v # w => thread'[v] = thread[v]
         /\ thread[w].step = "idle"
         /\ thread'[w].step = "push" /\ thread'[w].at = 1 /\ thread'[w].full = {}
         /\ thread'[w].frame \in NoteFrame
         /\ thread'[w].frame.id = emitted' \/ \E i \in 1 .. Len(table) : thread'[w].frame.id = table[i].id
         /\ table' \in Seq(Row)
         /\ \/ table' = table
            \/ /\ table' = Append(table, Recorded(emitted', table'[Len(table) + 1].topic, FALSE))
               /\ Recorded(emitted', table'[Len(table) + 1].topic, FALSE) \in Row
               /\ thread'[w].frame = [kind |-> "note", id |-> emitted']
         /\ relays' \in Nat
         /\ UNCHANGED <<cache, subscribers, stream, browser, opened, crashes, history>>
<1>0. emitted' = emitted + 1 /\ emitted < MaxEvents
  BY DEF Noting, Notify, NotifyUnrecorded, RelayArrives
<1>1. emitted' = emitted + 1 /\ emitted' \in Ids
  BY <1>0, BoundsAssumption DEF TypeOK, Ids
<1>2. PICK e \in Ids : e = emitted'
  BY <1>1
<1>3. table \in Seq(Row) /\ relays \in Nat
  BY DEF TypeOK
<1>4. UNCHANGED <<cache, subscribers, stream, browser, opened, crashes, history>>
      /\ thread[w].step = "idle"
  BY DEF Noting, Notify, NotifyUnrecorded, RelayArrives
<1>5. \A i \in Ids : Begin(w, [kind |-> "note", id |-> i]) =>
        /\ thread' \in [Writers -> Work]
        /\ \A v \in Writers : v # w => thread'[v] = thread[v]
        /\ thread'[w].step = "push" /\ thread'[w].at = 1 /\ thread'[w].full = {}
        /\ thread'[w].frame \in NoteFrame /\ thread'[w].frame = [kind |-> "note", id |-> i]
        /\ thread'[w].frame.id = i
  <2> SUFFICES ASSUME NEW i \in Ids, Begin(w, [kind |-> "note", id |-> i])
               PROVE  /\ thread' \in [Writers -> Work]
                      /\ \A v \in Writers : v # w => thread'[v] = thread[v]
                      /\ thread'[w].step = "push" /\ thread'[w].at = 1 /\ thread'[w].full = {}
                      /\ thread'[w].frame \in NoteFrame
                      /\ thread'[w].frame = [kind |-> "note", id |-> i]
                      /\ thread'[w].frame.id = i
    BY Zenon
  <2>1. [kind |-> "note", id |-> i] \in Frame /\ [kind |-> "note", id |-> i] \in NoteFrame
    BY FrameOK DEF NoteFrame
  <2>2. PICK f \in Frame : f = [kind |-> "note", id |-> i] /\ f \in NoteFrame /\ f.id = i
    BY <2>1
  <2>3. Begin(w, f)
    BY <2>2
  <2>4. /\ thread' \in [Writers -> Work]
        /\ \A v \in Writers : v # w => thread'[v] = thread[v]
        /\ thread'[w].step = "push" /\ thread'[w].frame = f /\ thread'[w].at = 1
        /\ thread'[w].full = {}
    BY <2>3, BeginDoes
  <2> QED BY <2>2, <2>4
<1>6. CASE NotifyUnrecorded(w) \/ RelayArrives(w)
  <2>1. Begin(w, [kind |-> "note", id |-> e]) /\ table' = table
    BY <1>2, <1>6 DEF NotifyUnrecorded, RelayArrives
  <2>2. relays' \in Nat
    BY <1>3, <1>6 DEF NotifyUnrecorded, RelayArrives
  <2> QED BY <1>1, <1>2, <1>3, <1>4, <1>5, <2>1, <2>2
<1>7. CASE \E topic \in Topics \cup {NoTopic} : Notify(w, topic)
  <2>1. PICK topic \in Topics \cup {NoTopic} : Notify(w, topic)
    BY <1>7
  <2>2. relays' = relays
    BY <2>1 DEF Notify
  <2>3. CASE SameTopic(topic) = {}
    <3>1. Begin(w, [kind |-> "note", id |-> e]) /\ table' = Append(table, Recorded(e, topic, FALSE))
      BY <1>2, <2>1, <2>3 DEF Notify
    <3>2. Recorded(e, topic, FALSE) \in Row
      BY DEF Recorded, Row
    <3>3. PICK r \in Row : r = Recorded(e, topic, FALSE) /\ r.topic = topic
      BY <3>2 DEF Recorded
    <3>4. Append(table, r) \in Seq(Row) /\ Append(table, r)[Len(table) + 1] = r
      BY <1>3, AppendProperties
    <3>5. table' \in Seq(Row) /\ table'[Len(table) + 1].topic = topic
      BY <3>1, <3>3, <3>4
    <3> QED BY <1>1, <1>2, <1>3, <1>4, <1>5, <2>2, <3>1, <3>2, <3>5
  <2>4. CASE SameTopic(topic) # {}
    <3>1. PICK i : i = CHOOSE l \in SameTopic(topic) : TRUE
      OBVIOUS
    <3>2. i \in 1 .. Len(table) /\ table[i].id \in Ids
      BY <2>4, <3>1, PartsOK DEF SameTopic
    <3>3. Begin(w, [kind |-> "note", id |-> table[i].id]) /\ table' = table
      BY <2>1, <2>4, <3>1 DEF Notify
    <3> QED BY <1>1, <1>3, <1>4, <1>5, <2>2, <3>2, <3>3
  <2> QED BY <2>3, <2>4
<1> QED BY <1>6, <1>7 DEF Noting

(* Another process records an event.                                       *)
LEMMA CliDoes ==
  ASSUME TypeOK, CliNotify
  PROVE  /\ emitted' = emitted + 1 /\ emitted' \in Ids
         /\ table' = Append(table, Recorded(emitted', NoTopic, TRUE))
         /\ Recorded(emitted', NoTopic, TRUE) \in Row /\ table' \in Seq(Row)
         /\ relays' \in Nat
<1>1. emitted' = emitted + 1 /\ emitted' \in Ids
  BY BoundsAssumption DEF CliNotify, TypeOK, Ids
<1>2. Recorded(emitted', NoTopic, TRUE) \in Row
  BY <1>1 DEF Recorded, Row
<1>3. PICK r \in Row : r = Recorded(emitted', NoTopic, TRUE)
  BY <1>2
<1>4. Append(table, r) \in Seq(Row)
  BY AppendProperties DEF TypeOK
<1>5. table' = Append(table, Recorded(emitted', NoTopic, TRUE)) /\ relays' = relays + 1
  BY DEF CliNotify
<1>6. relays' \in Nat
  BY <1>5 DEF TypeOK
<1>7. table' \in Seq(Row)
  BY <1>3, <1>4, <1>5
<1> QED BY <1>1, <1>2, <1>5, <1>6, <1>7

(* What each action leaves alone.                                          *)
LEMMA Untouched ==
  /\ \A w, n, to : SetState(w, n, to) =>
       UNCHANGED <<table, relays, subscribers, stream, browser, opened, crashes, skipped>>
  /\ \A w : PushOne(w) => UNCHANGED <<cache, table, relays, subscribers, browser, counters, raced>>
  /\ \A w : PushEnds(w) => UNCHANGED <<cache, table, relays, stream, browser, counters, raced>>
  /\ CliNotify => UNCHANGED <<server, browser, crashes, history>>
  /\ RelayLost => UNCHANGED <<server, table, browser, emitted, crashes, history>>
  /\ \A c : Connect(c) => UNCHANGED <<cache, table, thread, relays, emitted, crashes, history>>
  /\ \A c : Disconnect(c) => UNCHANGED <<server, table, relays, emitted, crashes, history>>
  /\ \A k : Snapshot(k) => UNCHANGED <<cache, table, thread, relays, subscribers, counters, history>>
  /\ \A k : SendOne(k) => UNCHANGED <<cache, table, thread, relays, subscribers, counters, history>>
  /\ \A k : Replay(k) =>
       UNCHANGED <<cache, table, thread, relays, subscribers, browser, counters, history>>
  /\ \A k : SendLive(k) => UNCHANGED <<cache, table, thread, relays, subscribers, counters, history>>
  /\ \A k : StreamEnds(k) => UNCHANGED <<cache, table, thread, relays, browser, counters, raced>>
  /\ Restart => UNCHANGED <<table, relays, emitted, opened, history>>
BY Zenon DEF SetState, PushOne, PushEnds, CliNotify, RelayLost, Connect, Disconnect, Snapshot,
             SendOne, Replay, SendLive, StreamEnds, Restart

(* The streams that a shrinking list passes over are streams.              *)
LEMMA PassedOverOK == ASSUME subscribers' \in Seq(Streams) PROVE PassedOver(subscribers') \subseteq Streams
<1>1. Range(subscribers') \subseteq Streams
  BY IndexOK
<1> QED BY <1>1 DEF PassedOver

(* Every step keeps the types.                                             *)
LEMMA NextTypes ==
  ASSUME TypeOK, Numbered, Listed, Shaped, [Next]_vars
  PROVE  TypeOK'
<1> USE DEF counters, history, server
<1>1. ASSUME NEW w \in Writers, NEW n \in Names, NEW to \in States \cup {Absent}, SetState(w, n, to)
      PROVE  TypeOK'
  <2>1. emitted' \in Ids /\ cache' \in Map /\ thread' \in [Writers -> Work]
    BY <1>1, SetStateDoes
  <2>a. raced' = IF \E v \in Writers : Telling(v, n) THEN raced \cup {n} ELSE raced
    BY <1>1, SetStateDoes
  <2>2. raced' \subseteq Names
    BY <2>a DEF TypeOK
  <2>3. UNCHANGED <<table, relays, subscribers, stream, browser, opened, crashes, skipped>>
    BY <1>1, Untouched
  <2>4. emitted' \in 0 .. MaxEvents
    BY <2>1, BoundsAssumption DEF Ids
  <2> QED BY <2>1, <2>2, <2>3, <2>4 DEF TypeOK
<1>2. ASSUME NEW w \in Writers, Noting(w) PROVE TypeOK'
  <2>1. /\ emitted' \in Ids /\ thread' \in [Writers -> Work] /\ table' \in Seq(Row) /\ relays' \in Nat
        /\ UNCHANGED <<cache, subscribers, stream, browser, opened, crashes, history>>
    BY <1>2, NotingDoes
  <2>2. emitted' \in 0 .. MaxEvents
    BY <2>1, BoundsAssumption DEF Ids
  <2> QED BY <2>1, <2>2 DEF TypeOK
<1>3. ASSUME NEW w \in Writers, PushOne(w) PROVE TypeOK'
  <2>1. PICK k : k = subscribers[thread[w].at]
    OBVIOUS
  <2>2. /\ k \in Streams /\ thread' \in [Writers -> Work] /\ stream' \in [Streams -> Stream]
        /\ \A j \in Streams : j # k => stream'[j] = stream[j]
        /\ \/ /\ Room(k) /\ stream'[k].queue = Append(stream[k].queue, thread[w].frame)
              /\ skipped' = skipped
           \/ stream' = stream /\ skipped' = skipped \cup {k}
    BY <1>3, <2>1, PushOneDoes
  <2>3. UNCHANGED <<cache, table, relays, subscribers, browser, counters, raced>>
    BY <1>3, Untouched
  <2>4. stream[k].queue \in Seq(Frame) /\ thread[w].frame \in Frame /\ Len(stream[k].queue) \in Nat
    BY <2>2, PartsOK
  <2>5. Len(Append(stream[k].queue, thread[w].frame)) = Len(stream[k].queue) + 1
    BY <2>4, AppendProperties
  <2>6. \A j \in Streams : Len(stream'[j].queue) <= QueueSize
    BY <2>2, <2>4, <2>5, BoundsAssumption DEF TypeOK, Room
  <2> QED BY <2>2, <2>3, <2>6 DEF TypeOK
<1>4. ASSUME NEW w \in Writers, PushEnds(w) PROVE TypeOK'
  <2>1. thread' \in [Writers -> Work] /\ subscribers' \in Seq(Streams) /\ IsInjective(subscribers')
    BY <1>4, PushEndsDoes
  <2>2. UNCHANGED <<cache, table, relays, stream, browser, counters, raced>>
    BY <1>4, Untouched
  <2>3. skipped' = skipped \cup PassedOver(subscribers')
    BY <1>4 DEF PushEnds
  <2>4. skipped' \subseteq Streams
    BY <2>1, <2>3, PassedOverOK DEF TypeOK
  <2> QED BY <2>1, <2>2, <2>4 DEF TypeOK
<1>5. ASSUME CliNotify PROVE TypeOK'
  <2>1. emitted' \in Ids /\ table' \in Seq(Row) /\ relays' \in Nat
    BY <1>5, CliDoes
  <2>2. UNCHANGED <<server, browser, crashes, history>>
    BY <1>5, Untouched
  <2>3. emitted' \in 0 .. MaxEvents
    BY <2>1, BoundsAssumption DEF Ids
  <2> QED BY <2>1, <2>2, <2>3 DEF TypeOK
<1>6. ASSUME RelayLost PROVE TypeOK'
  <2>1. relays' \in Nat
    BY <1>6 DEF RelayLost, TypeOK
  <2> QED BY <1>6, <2>1, Untouched DEF TypeOK
<1>7. ASSUME NEW c \in Clients, Connect(c) PROVE TypeOK'
  <2>1. /\ opened' \in Streams /\ subscribers' \in Seq(Streams) /\ IsInjective(subscribers')
        /\ stream' \in [Streams -> Stream] /\ browser' \in [Clients -> Browser]
        /\ stream'[opened'].queue = <<>> /\ \A k \in Streams : k # opened' => stream'[k] = stream[k]
    BY <1>7, ConnectDoes
  <2>2. UNCHANGED <<cache, table, thread, relays, emitted, crashes, history>>
    BY <1>7, Untouched
  <2>3. \A k \in Streams : Len(stream'[k].queue) <= QueueSize
    <3> TAKE k \in Streams
    <3>1. CASE k = opened'
      <4>1. Len(<<>>) = 0 /\ 0 <= QueueSize
        BY BoundsAssumption, EmptySeq
      <4>2. Len(stream'[k].queue) = 0
        BY <2>1, <3>1, <4>1
      <4> QED BY <4>1, <4>2
    <3>2. CASE k # opened'
      BY <2>1, <3>2 DEF TypeOK
    <3> QED BY <3>1, <3>2
  <2>4. opened' \in 0 .. MaxStreams
    BY <2>1, BoundsAssumption DEF Streams
  <2> QED BY <2>1, <2>2, <2>3, <2>4 DEF TypeOK
<1>8. ASSUME NEW c \in Clients, Disconnect(c) PROVE TypeOK'
  <2>1. browser' \in [Clients -> Browser]
    BY <1>8, DisconnectDoes
  <2> QED BY <1>8, <2>1, Untouched DEF TypeOK
<1>9. ASSUME NEW k \in Streams, Snapshot(k) PROVE TypeOK'
  <2>1. /\ stream' \in [Streams -> Stream] /\ browser' \in [Clients -> Browser]
        /\ stream'[k].queue = stream[k].queue /\ \A j \in Streams : j # k => stream'[j] = stream[j]
    BY <1>9, SnapshotDoes
  <2>2. \A j \in Streams : Len(stream'[j].queue) <= QueueSize
    BY <2>1 DEF TypeOK
  <2> QED BY <1>9, <2>1, <2>2, Untouched DEF TypeOK
<1>10. ASSUME NEW k \in Streams, SendOne(k) PROVE TypeOK'
  <2>1. /\ stream' \in [Streams -> Stream] /\ Receive(k, stream[k].out[1])
        /\ stream[k].out[1] \in Frame
        /\ stream[k].out[1].kind = "end" => browser[stream[k].client].buffering
        /\ stream'[k].queue = stream[k].queue /\ \A j \in Streams : j # k => stream'[j] = stream[j]
    BY <1>10, SendOneDoes
  <2>2. browser' \in [Clients -> Browser]
    BY <2>1, ReceiveDoes
  <2>3. \A j \in Streams : Len(stream'[j].queue) <= QueueSize
    BY <2>1 DEF TypeOK
  <2> QED BY <1>10, <2>1, <2>2, <2>3, Untouched DEF TypeOK
<1>11. ASSUME NEW k \in Streams, Replay(k) PROVE TypeOK'
  <2>1. /\ stream' \in [Streams -> Stream]
        /\ stream'[k].queue = stream[k].queue /\ \A j \in Streams : j # k => stream'[j] = stream[j]
    BY <1>11, ReplayDoes
  <2>2. \A j \in Streams : Len(stream'[j].queue) <= QueueSize
    BY <2>1 DEF TypeOK
  <2> QED BY <1>11, <2>1, <2>2, Untouched DEF TypeOK
<1>12. ASSUME NEW k \in Streams, SendLive(k) PROVE TypeOK'
  <2>1. /\ stream' \in [Streams -> Stream] /\ Receive(k, stream[k].queue[1])
        /\ stream[k].queue[1] \in Frame /\ stream[k].queue[1].kind # "end"
        /\ Len(stream[k].queue) \in Nat \ {0} /\ Len(stream'[k].queue) = Len(stream[k].queue) - 1
        /\ \A j \in Streams : j # k => stream'[j] = stream[j]
    BY <1>12, SendLiveDoes
  <2>2. browser' \in [Clients -> Browser]
    BY <2>1, ReceiveDoes
  <2>3. \A j \in Streams : Len(stream'[j].queue) <= QueueSize
    <3> TAKE j \in Streams
    <3>1. Len(stream[j].queue) <= QueueSize
      BY DEF TypeOK
    <3>2. PICK m \in Nat \ {0} : m = Len(stream[k].queue)
      BY <2>1
    <3>3. QueueSize \in Nat
      BY BoundsAssumption
    <3>4. CASE j = k
      <4>1. Len(stream'[j].queue) = m - 1 /\ m <= QueueSize
        BY <2>1, <3>1, <3>2, <3>4
      <4>2. m - 1 <= QueueSize
        BY <3>3, <4>1
      <4> QED BY <4>1, <4>2
    <3>5. CASE j # k
      BY <2>1, <3>1, <3>5
    <3> QED BY <3>4, <3>5
  <2> QED BY <1>12, <2>1, <2>2, <2>3, Untouched DEF TypeOK
<1>13. ASSUME NEW k \in Streams, StreamEnds(k) PROVE TypeOK'
  <2>1. /\ stream' \in [Streams -> Stream] /\ stream'[k] = Closed
        /\ \A j \in Streams : j # k => stream'[j] = stream[j]
        /\ subscribers' \in Seq(Streams) /\ IsInjective(subscribers')
    BY <1>13, StreamEndsDoes
  <2>2. skipped' = skipped \cup PassedOver(subscribers')
    BY <1>13 DEF StreamEnds
  <2>3. skipped' \subseteq Streams
    BY <2>1, <2>2, PassedOverOK DEF TypeOK
  <2>4. \A j \in Streams : Len(stream'[j].queue) <= QueueSize
    BY <2>1, BoundsAssumption, NullsOK, EmptySeq DEF TypeOK
  <2> QED BY <1>13, <2>1, <2>3, <2>4, Untouched DEF TypeOK
<1>14. ASSUME Restart PROVE TypeOK'
  <2>1. /\ cache' \in Map /\ thread' \in [Writers -> Work]
        /\ subscribers' \in Seq(Streams) /\ IsInjective(subscribers')
        /\ stream' \in [Streams -> Stream] /\ \A k \in Streams : stream'[k] \in {Unopened, Closed}
        /\ browser' \in [Clients -> Browser]
    BY <1>14, RestartDoes
  <2>2. \A k \in Streams : Len(stream'[k].queue) <= QueueSize
    BY <2>1, BoundsAssumption, NullsOK, EmptySeq
  <2>3. crashes' \in 0 .. MaxCrashes
    BY <1>14, BoundsAssumption DEF Restart, TypeOK
  <2> QED BY <1>14, <2>1, <2>2, <2>3, Untouched DEF TypeOK
<1>15. ASSUME UNCHANGED vars PROVE TypeOK'
  BY <1>15 DEF vars, TypeOK, Room
<1> QED BY <1>1, <1>2, <1>3, <1>4, <1>5, <1>6, <1>7, <1>8, <1>9, <1>10, <1>11, <1>12, <1>13, <1>14,
           <1>15 DEF Next, Emitting, Streaming, Noting

-----------------------------------------------------------------------------
(* Who is on the list.                                                     *)

(* A stream of the same client at the same stage stays connected as it was. *)
LEMMA StillConnected ==
  ASSUME NEW k \in Streams, stream'[k].client = stream[k].client,
         stream'[k].phase \in {"unopened", "closed"} <=> stream[k].phase \in {"unopened", "closed"},
         browser'[stream[k].client].on = browser[stream[k].client].on
  PROVE  Connected(k)' <=> Connected(k)
BY DEF Connected

(* A client has one connection.                                            *)
LEMMA OneStream ==
  ASSUME NEW j \in Streams, NEW k \in Streams, Connected(j), Connected(k),
         stream[j].client = stream[k].client
  PROVE  j = k
BY DEF Connected

(* The list has the streams that are followed.                             *)
LEMMA NextListed ==
  ASSUME TypeOK, Numbered, Listed, Shaped, [Next]_vars
  PROVE  Listed'
<1> USE DEF counters, history, server
<1>0. \A k \in Streams : stream[k].client \in Clients
  BY PartsOK
<1>a. /\ \A i \in 1 .. Len(subscribers) : subscribers[i] <= opened
      /\ \A c \in Clients : browser[c].on <= opened
      /\ \A w \in Writers : thread[w].full \subseteq skipped
      /\ \A k \in Streams : Connected(k) /\ k \notin skipped => k \in Range(subscribers)
  BY DEF Listed, Following
<1>b. ASSUME /\ \A i \in 1 .. Len(subscribers') : subscribers'[i] <= opened'
             /\ \A c \in Clients : browser'[c].on <= opened'
             /\ \A w \in Writers : thread'[w].full \subseteq skipped'
             /\ \A k \in Streams : Connected(k)' /\ k \notin skipped' => k \in Range(subscribers')
      PROVE  Listed'
  BY <1>b DEF Listed, Following
<1>c. ASSUME subscribers' = subscribers, opened' = opened, skipped' = skipped,
             \A c \in Clients : browser'[c].on = browser[c].on,
             \A w \in Writers : thread'[w].full \subseteq thread[w].full,
             \A k \in Streams : Connected(k)' => Connected(k)
      PROVE  Listed'
  <2>1. \A c \in Clients : browser'[c].on <= opened'
    BY <1>a, <1>c
  <2>2. \A w \in Writers : thread'[w].full \subseteq skipped'
    BY <1>a, <1>c
  <2>3. \A k \in Streams : Connected(k)' /\ k \notin skipped' => k \in Range(subscribers')
    BY <1>a, <1>c
  <2>4. \A i \in 1 .. Len(subscribers') : subscribers'[i] <= opened'
    BY <1>a, <1>c
  <2> QED BY <1>b, <2>1, <2>2, <2>3, <2>4
<1>d. ASSUME stream' = stream, browser' = browser PROVE \A k \in Streams : Connected(k)' <=> Connected(k)
  BY <1>d DEF Connected
<1>1. ASSUME NEW w \in Writers, NEW n \in Names, NEW to \in States \cup {Absent}, SetState(w, n, to)
      PROVE  Listed'
  <2>1. /\ \A v \in Writers : v # w => thread'[v] = thread[v]
        /\ thread'[w].full = {}
    BY <1>1, SetStateDoes
  <2>2. UNCHANGED <<table, relays, subscribers, stream, browser, opened, crashes, skipped>>
    BY <1>1, Untouched
  <2>3. \A v \in Writers : thread'[v].full \subseteq thread[v].full
    BY <2>1
  <2> QED BY <1>c, <1>d, <2>2, <2>3
<1>2. ASSUME NEW w \in Writers, Noting(w) PROVE Listed'
  <2>1. /\ \A v \in Writers : v # w => thread'[v] = thread[v]
        /\ thread'[w].full = {}
        /\ UNCHANGED <<cache, subscribers, stream, browser, opened, crashes, history>>
    BY <1>2, NotingDoes
  <2>2. \A v \in Writers : thread'[v].full \subseteq thread[v].full
    BY <2>1
  <2> QED BY <1>c, <1>d, <2>1, <2>2
<1>3. ASSUME NEW w \in Writers, PushOne(w) PROVE Listed'
  <2>1. PICK k : k = subscribers[thread[w].at]
    OBVIOUS
  <2>2. /\ \A v \in Writers : v # w => thread'[v] = thread[v]
        /\ \A j \in Streams : stream'[j].client = stream[j].client /\ stream'[j].phase = stream[j].phase
        /\ \/ skipped' = skipped /\ thread'[w].full = thread[w].full
           \/ skipped' = skipped \cup {k} /\ thread'[w].full = thread[w].full \cup {k}
    BY <1>3, <2>1, PushOneDoes
  <2>3. subscribers' = subscribers /\ browser' = browser /\ opened' = opened
    BY <1>3, Untouched
  <2>4. \A v \in Writers : thread'[v].full \subseteq skipped'
    BY <1>a, <2>2
  <2>5. \A j \in Streams : Connected(j)' <=> Connected(j)
    BY <2>2, <2>3 DEF Connected
  <2>6. \A j \in Streams : Connected(j)' /\ j \notin skipped' => j \in Range(subscribers')
    BY <1>a, <2>2, <2>3, <2>5
  <2>7. /\ \A i \in 1 .. Len(subscribers') : subscribers'[i] <= opened'
        /\ \A c \in Clients : browser'[c].on <= opened'
    BY <1>a, <2>3
  <2> QED BY <1>b, <2>4, <2>6, <2>7
<1>e. ASSUME subscribers' \in Seq(Streams), opened' = opened,
             \A j : j \in Range(subscribers') => j \in Range(subscribers)
      PROVE  \A i \in 1 .. Len(subscribers') : subscribers'[i] <= opened'
  <2> TAKE i \in 1 .. Len(subscribers')
  <2>1. subscribers'[i] \in Range(subscribers')
    BY <1>e, IndexOK
  <2>2. PICK l \in 1 .. Len(subscribers) : subscribers[l] = subscribers'[i]
    <3>1. subscribers \in Seq(Streams)
      BY DEF TypeOK
    <3>2. \A j \in Range(subscribers) : IndexIn(subscribers, j) \in 1 .. Len(subscribers)
                                        /\ subscribers[IndexIn(subscribers, j)] = j
      BY <3>1, IndexOK
    <3> QED BY <1>e, <2>1, <3>2
  <2> QED BY <1>a, <1>e, <2>2
<1>4. ASSUME NEW w \in Writers, PushEnds(w) PROVE Listed'
  <2>1. /\ thread'[w] = Idle /\ \A v \in Writers : v # w => thread'[v] = thread[v]
        /\ subscribers' \in Seq(Streams)
        /\ \A k : k \in Range(subscribers') <=> k \in Range(subscribers) /\ k \notin thread[w].full
    BY <1>4, PushEndsDoes
  <2>2. stream' = stream /\ browser' = browser /\ opened' = opened
    BY <1>4, Untouched
  <2>3. skipped' = skipped \cup PassedOver(subscribers')
    BY <1>4 DEF PushEnds
  <2>4. \A v \in Writers : thread'[v].full \subseteq skipped'
    BY <1>a, <2>1, <2>3 DEF Idle
  <2>5. \A k \in Streams : Connected(k)' /\ k \notin skipped' => k \in Range(subscribers')
    BY <1>a, <1>d, <2>1, <2>2, <2>3
  <2>6. \A i \in 1 .. Len(subscribers') : subscribers'[i] <= opened'
    BY <1>e, <2>1, <2>2
  <2>7. \A c \in Clients : browser'[c].on <= opened'
    BY <1>a, <2>2
  <2> QED BY <1>b, <2>4, <2>5, <2>6, <2>7
<1>5. ASSUME CliNotify PROVE Listed'
  <2>1. UNCHANGED <<server, browser, crashes, history>>
    BY <1>5, Untouched
  <2> QED BY <1>c, <1>d, <2>1
<1>6. ASSUME RelayLost PROVE Listed'
  <2>1. UNCHANGED <<server, table, browser, emitted, crashes, history>>
    BY <1>6, Untouched
  <2> QED BY <1>c, <1>d, <2>1
<1>7. ASSUME NEW c \in Clients, Connect(c) PROVE Listed'
  <2>1. PICK k \in Streams : k = opened' /\ k = opened + 1
    BY <1>7, ConnectDoes
  <2>2. /\ Range(subscribers') = Range(subscribers) \cup {k}
        /\ Len(subscribers') = Len(subscribers) + 1
        /\ \A i \in 1 .. Len(subscribers) : subscribers'[i] = subscribers[i]
        /\ subscribers'[Len(subscribers) + 1] = k
        /\ \A j \in Streams : j # k => stream'[j] = stream[j]
        /\ \A d \in Clients : d # c => browser'[d] = browser[d]
        /\ browser'[c].on = k
    BY <1>7, <2>1, ConnectDoes
  <2>3. thread' = thread /\ skipped' = skipped
    BY <1>7, Untouched
  <2>4. opened \in Nat /\ Len(subscribers) \in Nat
    BY BoundsAssumption, PartsOK DEF TypeOK
  <2>5. \A d \in Clients : browser[d].on \in Nat
    BY PartsOK, BoundsAssumption DEF Streams
  <2>6. \A d \in Clients : browser'[d].on <= opened'
    BY <1>a, <2>1, <2>2, <2>4, <2>5
  <2>7. \A i \in 1 .. Len(subscribers') : subscribers'[i] <= opened'
    <3> TAKE i \in 1 .. Len(subscribers')
    <3>1. PICK n \in Nat : n = Len(subscribers)
      BY <2>4
    <3>2. i \in 1 .. n \/ i = n + 1
      BY <2>2, <3>1
    <3>3. ASSUME i \in 1 .. n PROVE subscribers'[i] <= opened'
      <4>1. subscribers'[i] = subscribers[i] /\ subscribers[i] <= opened /\ subscribers[i] \in Streams
        BY <1>a, <2>2, <3>1, <3>3, PartsOK
      <4> QED BY <2>1, <2>4, <4>1 DEF Streams
    <3>4. ASSUME i = n + 1 PROVE subscribers'[i] <= opened'
      BY <2>1, <2>2, <2>4, <3>1, <3>4
    <3> QED BY <3>2, <3>3, <3>4
  <2>8. \A j \in Streams : Connected(j)' /\ j \notin skipped' => j \in Range(subscribers')
    <3> SUFFICES ASSUME NEW j \in Streams, Connected(j)', j \notin skipped', j # k
                 PROVE  j \in Range(subscribers)
      BY <2>2
    <3>1. stream'[j] = stream[j] /\ browser'[stream[j].client].on = j
      BY <2>2 DEF Connected
    <3>2. stream[j].client # c
      BY <2>2, <3>1
    <3>3. Connected(j)
      BY <1>0, <2>2, <3>1, <3>2 DEF Connected
    <3> QED BY <1>a, <2>3, <3>3
  <2> QED BY <1>a, <1>b, <2>3, <2>6, <2>7, <2>8
<1>8. ASSUME NEW c \in Clients, Disconnect(c) PROVE Listed'
  <2>1. browser'[c].on = 0 /\ \A d \in Clients : d # c => browser'[d] = browser[d]
    BY <1>8, DisconnectDoes
  <2>2. UNCHANGED <<server, table, relays, emitted, crashes, history>>
    BY <1>8, Untouched
  <2>3. \A k \in Streams : Connected(k)' => Connected(k)
    BY <1>0, <2>1, <2>2, BoundsAssumption DEF Connected, Streams
  <2>4. \A d \in Clients : browser'[d].on <= opened'
    BY <1>a, <2>1, <2>2, BoundsAssumption DEF TypeOK
  <2>5. \A k \in Streams : Connected(k)' /\ k \notin skipped' => k \in Range(subscribers')
    BY <1>a, <2>2, <2>3
  <2>6. /\ \A i \in 1 .. Len(subscribers') : subscribers'[i] <= opened'
        /\ \A w \in Writers : thread'[w].full \subseteq skipped'
    BY <1>a, <2>2
  <2> QED BY <1>b, <2>4, <2>5, <2>6
<1>9. ASSUME NEW k \in Streams, Snapshot(k) PROVE Listed'
  <2>1. /\ Connected(k) /\ \A j \in Streams : j # k => stream'[j] = stream[j]
        /\ stream'[k].client = stream[k].client
        /\ \A d \in Clients : browser'[d].on = browser[d].on
    BY <1>9, SnapshotDoes
  <2>2. UNCHANGED <<cache, table, thread, relays, subscribers, counters, history>>
    BY <1>9, Untouched
  <2>3. \A j \in Streams : Connected(j)' => Connected(j)
    BY <1>0, <2>1 DEF Connected
  <2> QED BY <1>c, <2>1, <2>2, <2>3
<1>10. ASSUME NEW k \in Streams, SendOne(k) PROVE Listed'
  <2>1. /\ Connected(k) /\ \A j \in Streams : j # k => stream'[j] = stream[j]
        /\ stream'[k].client = stream[k].client
        /\ Receive(k, stream[k].out[1]) /\ stream[k].out[1] \in Frame
        /\ stream[k].out[1].kind = "end" => browser[stream[k].client].buffering
    BY <1>10, SendOneDoes
  <2>2. \A d \in Clients : browser'[d].on = browser[d].on
    BY <2>1, ReceiveDoes
  <2>3. UNCHANGED <<cache, table, thread, relays, subscribers, counters, history>>
    BY <1>10, Untouched
  <2>4. \A j \in Streams : Connected(j)' => Connected(j)
    BY <1>0, <2>1, <2>2 DEF Connected
  <2> QED BY <1>c, <2>2, <2>3, <2>4
<1>11. ASSUME NEW k \in Streams, Replay(k) PROVE Listed'
  <2>1. /\ Connected(k) /\ \A j \in Streams : j # k => stream'[j] = stream[j]
        /\ stream'[k].client = stream[k].client
    BY <1>11, ReplayDoes
  <2>2. UNCHANGED <<cache, table, thread, relays, subscribers, browser, counters, history>>
    BY <1>11, Untouched
  <2>3. \A j \in Streams : Connected(j)' => Connected(j)
    BY <1>0, <2>1, <2>2 DEF Connected
  <2> QED BY <1>c, <2>2, <2>3
<1>12. ASSUME NEW k \in Streams, SendLive(k) PROVE Listed'
  <2>1. /\ Connected(k) /\ \A j \in Streams : j # k => stream'[j] = stream[j]
        /\ stream'[k].client = stream[k].client
        /\ Receive(k, stream[k].queue[1]) /\ stream[k].queue[1] \in Frame
        /\ stream[k].queue[1].kind # "end"
    BY <1>12, SendLiveDoes
  <2>2. \A d \in Clients : browser'[d].on = browser[d].on
    BY <2>1, ReceiveDoes
  <2>3. UNCHANGED <<cache, table, thread, relays, subscribers, counters, history>>
    BY <1>12, Untouched
  <2>4. \A j \in Streams : Connected(j)' => Connected(j)
    BY <1>0, <2>1, <2>2 DEF Connected
  <2> QED BY <1>c, <2>2, <2>3, <2>4
<1>13. ASSUME NEW k \in Streams, StreamEnds(k) PROVE Listed'
  <2>1. /\ stream'[k] = Closed /\ \A j \in Streams : j # k => stream'[j] = stream[j]
        /\ subscribers' \in Seq(Streams)
        /\ \A j : j \in Range(subscribers') <=> j \in Range(subscribers) /\ j # k
    BY <1>13, StreamEndsDoes
  <2>2. thread' = thread /\ browser' = browser /\ opened' = opened
    BY <1>13, Untouched
  <2>3. skipped' = skipped \cup PassedOver(subscribers')
    BY <1>13 DEF StreamEnds
  <2>4. \A j \in Streams : Connected(j)' => j # k /\ Connected(j)
    BY <2>1, <2>2, NullsOK DEF Connected
  <2>5. \A j \in Streams : Connected(j)' /\ j \notin skipped' => j \in Range(subscribers')
    BY <1>a, <2>1, <2>3, <2>4
  <2>6. \A i \in 1 .. Len(subscribers') : subscribers'[i] <= opened'
    BY <1>e, <2>1, <2>2
  <2>7. /\ \A c \in Clients : browser'[c].on <= opened'
        /\ \A w \in Writers : thread'[w].full \subseteq skipped'
    BY <1>a, <2>2, <2>3
  <2> QED BY <1>b, <2>5, <2>6, <2>7
<1>14. ASSUME Restart PROVE Listed'
  <2>1. /\ \A w \in Writers : thread'[w] = Idle
        /\ Len(subscribers') = 0 /\ \A d \in Clients : browser'[d].on = 0
        /\ \A k \in Streams : stream'[k] \in {Unopened, Closed}
    BY <1>14, RestartDoes
  <2>2. \A k \in Streams : ~Connected(k)'
    BY <2>1, NullsOK DEF Connected
  <2>3. opened' = opened /\ opened \in Nat
    BY <1>14, Untouched, BoundsAssumption DEF TypeOK
  <2>4. \A i \in 1 .. Len(subscribers') : subscribers'[i] <= opened'
    BY <2>1
  <2>5. \A d \in Clients : browser'[d].on <= opened'
    BY <2>1, <2>3
  <2>6. \A w \in Writers : thread'[w].full \subseteq skipped'
    BY <2>1 DEF Idle
  <2> QED BY <1>b, <2>2, <2>4, <2>5, <2>6
<1>15. ASSUME UNCHANGED vars PROVE Listed'
  <2>1. UNCHANGED <<cache, table, thread, relays, subscribers, stream, browser, emitted,
                    opened, crashes, skipped, raced>>
    BY <1>15 DEF vars
  <2> QED BY <1>c, <1>d, <2>1
<1> QED BY <1>1, <1>2, <1>3, <1>4, <1>5, <1>6, <1>7, <1>8, <1>9, <1>10, <1>11, <1>12, <1>13, <1>14,
           <1>15 DEF Next, Emitting, Streaming, Noting

-----------------------------------------------------------------------------
(* The shape of what is sent.                                              *)

(* Nothing about the end of a snapshot changes for a stream.               *)
LEMMA FramedStill ==
  ASSUME NEW k \in Streams, Framed(k), stream'[k].client = stream[k].client,
         stream'[k].phase = stream[k].phase, stream'[k].out = stream[k].out,
         browser'[stream[k].client].buffering = browser[stream[k].client].buffering
  PROVE  Framed(k)'
BY DEF Framed, Ending

(* A snapshot ends where it should, a buffer is a map.                     *)
LEMMA NextShaped ==
  ASSUME TypeOK, Numbered, Listed, Shaped, [Next]_vars
  PROVE  Shaped'
<1> USE DEF counters, history, server
<1>0. \A k \in Streams : stream[k].client \in Clients
  BY PartsOK
<1>a. /\ \A w \in Writers : thread[w].step = "push" => thread[w].frame.kind # "end"
      /\ \A c \in Clients : browser[c].buffering => browser[c].buffer \in Map
      /\ \A k \in Streams : \A i \in 1 .. Len(stream[k].queue) : stream[k].queue[i].kind # "end"
      /\ \A k \in Streams : Connected(k) => Framed(k)
  BY DEF Shaped
<1>b. ASSUME /\ \A w \in Writers : thread'[w].step = "push" => thread'[w].frame.kind # "end"
             /\ \A c \in Clients : browser'[c].buffering => browser'[c].buffer \in Map
             /\ \A k \in Streams : \A i \in 1 .. Len(stream'[k].queue) : stream'[k].queue[i].kind # "end"
             /\ \A k \in Streams : Connected(k)' => Framed(k)'
      PROVE  Shaped'
  BY <1>b DEF Shaped
<1>c. ASSUME stream' = stream, browser' = browser,
             \A w \in Writers : thread'[w].step = "push" => thread'[w].frame.kind # "end"
      PROVE  Shaped'
  <2>1. \A k \in Streams : Connected(k)' => Framed(k)'
    BY <1>a, <1>c DEF Connected, Framed, Ending
  <2>2. \A c \in Clients : browser'[c].buffering => browser'[c].buffer \in Map
    BY <1>a, <1>c
  <2>3. \A k \in Streams : \A i \in 1 .. Len(stream'[k].queue) : stream'[k].queue[i].kind # "end"
    BY <1>a, <1>c
  <2> QED BY <1>b, <1>c, <2>1, <2>2, <2>3
<1>d. ASSUME NEW k \in Streams, Connected(k), \A j \in Streams : j # k => stream'[j] = stream[j],
             \A c \in Clients : browser'[c].on = browser[c].on,
             \A c \in Clients : c # stream[k].client => browser'[c] = browser[c]
      PROVE  \A j \in Streams : j # k => (Connected(j)' => Framed(j)')
  <2> SUFFICES ASSUME NEW j \in Streams, j # k, Connected(j)' PROVE Framed(j)'
    OBVIOUS
  <2>1. stream'[j] = stream[j] /\ stream[j].client \in Clients
    BY <1>0, <1>d
  <2>2. Connected(j)
    BY <1>d, <2>1 DEF Connected
  <2>3. stream[j].client # stream[k].client
    BY <1>d, <2>2, OneStream
  <2>4. browser'[stream[j].client] = browser[stream[j].client]
    BY <1>d, <2>1, <2>3
  <2>5. Framed(j)
    BY <1>a, <2>2
  <2> QED BY <2>1, <2>4, <2>5, FramedStill
<1>1. ASSUME NEW w \in Writers, NEW n \in Names, NEW to \in States \cup {Absent}, SetState(w, n, to)
      PROVE  Shaped'
  <2>1. /\ \A v \in Writers : v # w => thread'[v] = thread[v]
        /\ thread'[w].frame = [kind |-> "state", id |-> emitted', name |-> n, to |-> to]
    BY <1>1, SetStateDoes
  <2>2. \A v \in Writers : thread'[v].step = "push" => thread'[v].frame.kind # "end"
    BY <1>a, <2>1
  <2>3. stream' = stream /\ browser' = browser
    BY <1>1, Untouched
  <2> QED BY <1>c, <2>2, <2>3
<1>2. ASSUME NEW w \in Writers, Noting(w) PROVE Shaped'
  <2>1. /\ \A v \in Writers : v # w => thread'[v] = thread[v]
        /\ thread'[w].frame \in NoteFrame
        /\ UNCHANGED <<cache, subscribers, stream, browser, opened, crashes, history>>
    BY <1>2, NotingDoes
  <2>2. \A v \in Writers : thread'[v].step = "push" => thread'[v].frame.kind # "end"
    BY <1>a, <2>1 DEF NoteFrame
  <2> QED BY <1>c, <2>1, <2>2
<1>3. ASSUME NEW w \in Writers, PushOne(w) PROVE Shaped'
  <2>1. PICK k : k = subscribers[thread[w].at]
    OBVIOUS
  <2>2. /\ thread[w].step = "push" /\ k \in Streams
        /\ \A v \in Writers : v # w => thread'[v] = thread[v]
        /\ thread'[w].frame = thread[w].frame
        /\ \A j \in Streams :
             /\ stream'[j].client = stream[j].client /\ stream'[j].phase = stream[j].phase
             /\ stream'[j].out = stream[j].out
             /\ j # k => stream'[j] = stream[j]
        /\ stream'[k].queue = Append(stream[k].queue, thread[w].frame) \/ stream' = stream
    BY <1>3, <2>1, PushOneDoes
  <2>3. browser' = browser
    BY <1>3, Untouched
  <2>4. \A v \in Writers : thread'[v].step = "push" => thread'[v].frame.kind # "end"
    BY <1>a, <2>2
  <2>5. \A j \in Streams : Connected(j)' => Framed(j)'
    BY <1>a, <2>2, <2>3 DEF Connected, Framed, Ending
  <2>6. ASSUME NEW j \in Streams, NEW i \in 1 .. Len(stream'[j].queue)
        PROVE  stream'[j].queue[i].kind # "end"
    <3>1. CASE stream'[j] = stream[j]
      BY <1>a, <2>6, <3>1
    <3>2. CASE j = k /\ stream'[k].queue = Append(stream[k].queue, thread[w].frame)
      <4>1. PICK q \in Seq(Frame) : q = stream[k].queue
        BY <2>2, PartsOK
      <4>2. PICK f \in Frame : f = thread[w].frame /\ f.kind # "end"
        BY <1>a, <2>2, PartsOK
      <4>3. Len(q) \in Nat /\ Len(Append(q, f)) = Len(q) + 1 /\ Append(q, f)[Len(q) + 1] = f
            /\ \A l \in 1 .. Len(q) : Append(q, f)[l] = q[l]
        BY AppendProperties, LenProperties
      <4>4. i \in 1 .. Len(q) \/ i = Len(q) + 1
        BY <2>6, <3>2, <4>1, <4>2, <4>3
      <4>5. \A l \in 1 .. Len(q) : q[l].kind # "end"
        BY <1>a, <2>2, <4>1
      <4> QED BY <3>2, <4>1, <4>2, <4>3, <4>4, <4>5
    <3> QED BY <2>2, <3>1, <3>2
  <2>7. \A c \in Clients : browser'[c].buffering => browser'[c].buffer \in Map
    BY <1>a, <2>3
  <2> QED BY <1>b, <2>4, <2>5, <2>6, <2>7
<1>4. ASSUME NEW w \in Writers, PushEnds(w) PROVE Shaped'
  <2>1. /\ thread'[w] = Idle /\ \A v \in Writers : v # w => thread'[v] = thread[v]
    BY <1>4, PushEndsDoes
  <2>2. stream' = stream /\ browser' = browser
    BY <1>4, Untouched
  <2>3. \A v \in Writers : thread'[v].step = "push" => thread'[v].frame.kind # "end"
    BY <1>a, <2>1 DEF Idle
  <2> QED BY <1>c, <2>2, <2>3
<1>5. ASSUME CliNotify PROVE Shaped'
  <2>1. UNCHANGED <<server, browser, crashes, history>>
    BY <1>5, Untouched
  <2> QED BY <1>a, <1>c, <2>1
<1>6. ASSUME RelayLost PROVE Shaped'
  <2>1. UNCHANGED <<server, table, browser, emitted, crashes, history>>
    BY <1>6, Untouched
  <2> QED BY <1>a, <1>c, <2>1
<1>7. ASSUME NEW c \in Clients, Connect(c) PROVE Shaped'
  <2>1. PICK k \in Streams : k = opened'
    BY <1>7, ConnectDoes
  <2>2. /\ \A j \in Streams : j # k => stream'[j] = stream[j]
        /\ stream'[k].out = <<>> /\ stream'[k].queue = <<>> /\ stream'[k].phase = "snapshot"
        /\ \A d \in Clients : d # c => browser'[d] = browser[d]
        /\ browser'[c].on = k
        /\ \A d \in Clients : /\ browser'[d].buffer = browser[d].buffer
                              /\ browser'[d].buffering = browser[d].buffering
    BY <1>7, <2>1, ConnectDoes
  <2>3. thread' = thread
    BY <1>7, Untouched
  <2>4. Len(<<>>) = 0
    BY EmptySeq
  <2>5. \A j \in Streams : \A i \in 1 .. Len(stream'[j].queue) : stream'[j].queue[i].kind # "end"
    BY <1>a, <2>2, <2>4
  <2>6. Framed(k)'
    BY <2>2, <2>4 DEF Framed, Ending
  <2>7. ASSUME NEW j \in Streams, j # k, Connected(j)' PROVE Framed(j)'
    <3>1. stream'[j] = stream[j] /\ browser'[stream[j].client].on = j
      BY <2>2, <2>7 DEF Connected
    <3>2. stream[j].client # c
      BY <2>2, <2>7, <3>1
    <3>3. Connected(j)
      BY <1>0, <2>2, <2>7, <3>1, <3>2 DEF Connected
    <3>4. Framed(j) /\ stream[j].client \in Clients
      BY <1>0, <1>a, <3>3
    <3> QED BY <2>2, <3>1, <3>4, FramedStill
  <2>8. \A j \in Streams : Connected(j)' => Framed(j)'
    BY <2>6, <2>7
  <2>9. \A d \in Clients : browser'[d].buffering => browser'[d].buffer \in Map
    BY <1>a, <2>2
  <2>10. \A w \in Writers : thread'[w].step = "push" => thread'[w].frame.kind # "end"
    BY <1>a, <2>3
  <2> QED BY <1>b, <2>5, <2>8, <2>9, <2>10
<1>8. ASSUME NEW c \in Clients, Disconnect(c) PROVE Shaped'
  <2>1. /\ browser'[c].on = 0 /\ \A d \in Clients : d # c => browser'[d] = browser[d]
        /\ \A d \in Clients : /\ browser'[d].buffer = browser[d].buffer
                              /\ browser'[d].buffering = browser[d].buffering
    BY <1>8, DisconnectDoes
  <2>2. thread' = thread /\ stream' = stream
    BY <1>8, Untouched
  <2>3. ASSUME NEW k \in Streams, Connected(k)' PROVE Framed(k)'
    <3>1. Connected(k)
      BY <1>0, <2>1, <2>2, <2>3, BoundsAssumption DEF Connected, Streams
    <3> QED BY <1>0, <1>a, <2>1, <2>2, <3>1, FramedStill
  <2>4. \A d \in Clients : browser'[d].buffering => browser'[d].buffer \in Map
    BY <1>a, <2>1
  <2> QED BY <1>a, <1>b, <2>2, <2>3, <2>4
<1>9. ASSUME NEW k \in Streams, Snapshot(k) PROVE Shaped'
  <2>1. PICK m \in Nat : m = Len(SnapshotRows)
    BY <1>9, SnapshotDoes
  <2>2. /\ Connected(k) /\ \A j \in Streams : j # k => stream'[j] = stream[j]
        /\ stream'[k].client = stream[k].client /\ stream'[k].queue = stream[k].queue
        /\ stream'[k].phase = AfterSnapshot(k)
        /\ Len(stream'[k].out) = m + 1 /\ stream'[k].out[m + 1] = EndFrame
        /\ \A i \in 1 .. m : stream'[k].out[i] = SnapshotRows[i]
        /\ \A d \in Clients : browser'[d].on = browser[d].on
        /\ \A d \in Clients : d # stream[k].client => browser'[d] = browser[d]
        /\ browser'[stream[k].client].buffering = TRUE
        /\ browser'[stream[k].client].buffer = EmptyMap
    BY <1>9, <2>1, SnapshotDoes
  <2>3. thread' = thread
    BY <1>9, Untouched
  <2>a. \A i \in 1 .. m : \E n \in Names : SnapshotRows[i] = StateRow(n)
    BY <2>1, RowsOK DEF TypeOK
  <2>b. \A n \in Names : StateRow(n).kind = "state"
    BY DEF StateRow
  <2>4. \A i \in 1 .. m : SnapshotRows[i].kind # "end"
    BY <2>a, <2>b
  <2>5. stream'[k].out # <<>>
    BY <2>2, EmptySeq
  <2>6. stream'[k].phase # "snapshot"
    BY <2>2 DEF AfterSnapshot
  <2>7. Framed(k)'
    <3>1. \A i \in 1 .. Len(stream'[k].out) - 1 : stream'[k].out[i].kind # "end"
      BY <2>2, <2>4
    <3>2. Ending(k)' = TRUE
      BY <2>2, <2>5 DEF Ending, EndFrame
    <3> QED BY <2>2, <2>6, <3>1, <3>2 DEF Framed
  <2>8. \A j \in Streams : Connected(j)' => Framed(j)'
    BY <1>d, <2>2, <2>7
  <2>9. \A c \in Clients : browser'[c].buffering => browser'[c].buffer \in Map
    BY <1>0, <1>a, <2>2, NullsOK
  <2>10. \A j \in Streams : \A i \in 1 .. Len(stream'[j].queue) : stream'[j].queue[i].kind # "end"
    BY <1>a, <2>2
  <2> QED BY <1>a, <1>b, <2>3, <2>8, <2>9, <2>10
<1>10. ASSUME NEW k \in Streams, SendOne(k) PROVE Shaped'
  <2>1. PICK n \in Nat \ {0} : n = Len(stream[k].out)
    BY <1>10, SendOneDoes
  <2>2. PICK f \in Frame : f = stream[k].out[1]
    BY <1>10, SendOneDoes
  <2>3. /\ Connected(k) /\ \A j \in Streams : j # k => stream'[j] = stream[j]
        /\ stream'[k].client = stream[k].client /\ stream'[k].queue = stream[k].queue
        /\ stream'[k].phase = stream[k].phase /\ stream[k].out # <<>>
        /\ Receive(k, f)
        /\ f.kind = "end" => browser[stream[k].client].buffering /\ n = 1
        /\ stream' \in [Streams -> Stream]
        /\ Len(stream'[k].out) = n - 1
        /\ \A i \in 1 .. n - 1 : stream'[k].out[i] = stream[k].out[i + 1]
    BY <1>10, <2>1, <2>2, SendOneDoes
  <2>4. /\ \A c \in Clients : c # stream[k].client => browser'[c] = browser[c]
        /\ \A c \in Clients : browser'[c].on = browser[c].on
        /\ \A c \in Clients : browser'[c].buffering => browser'[c].buffer \in Map
        /\ browser'[stream[k].client].buffering = (browser[stream[k].client].buffering /\ f.kind # "end")
    <3>1. f.kind = "end" => browser[stream[k].client].buffering
      BY <2>3
    <3>2. Receive(k, f)
      BY <2>3
    <3> QED BY <3>1, <3>2, ReceiveDoes
  <2>5. thread' = thread
    BY <1>10, Untouched
  <2>6. /\ stream[k].phase # "snapshot"
        /\ browser[stream[k].client].buffering = (stream[k].out[n].kind = "end")
        /\ \A i \in 1 .. n - 1 : stream[k].out[i].kind # "end"
    BY <1>a, <2>1, <2>3 DEF Framed, Ending
  <2>7. stream'[k].out # <<>> <=> n # 1
    <3>1. stream'[k].out \in Seq(Frame)
      BY <2>3 DEF Stream
    <3>2. PICK o \in Seq(Frame) : o = stream'[k].out
      BY <3>1
    <3>3. o # <<>> <=> Len(o) # 0
      BY EmptySeq
    <3> QED BY <2>3, <3>2, <3>3
  <2>8. Framed(k)'
    <3>1. \A i \in 1 .. Len(stream'[k].out) - 1 : stream'[k].out[i].kind # "end"
      <4> SUFFICES ASSUME NEW i \in 1 .. n - 2 PROVE stream'[k].out[i].kind # "end"
        BY <2>3
      <4>1. i \in 1 .. n - 1
        OBVIOUS
      <4>2. PICK l \in 1 .. n - 1 : l = i + 1
        OBVIOUS
      <4>3. stream'[k].out[i] = stream[k].out[l]
        BY <2>3, <4>1, <4>2
      <4> QED BY <2>6, <4>3
    <3>2. browser'[stream[k].client].buffering = Ending(k)'
      <4>1. CASE n = 1
        <5>1. Ending(k)' = FALSE
          BY <2>7, <4>1 DEF Ending
        <5>2. browser'[stream[k].client].buffering = FALSE
          BY <2>2, <2>4, <2>6, <4>1
        <5> QED BY <5>1, <5>2
      <4>2. CASE n # 1
        <5>1. n - 1 \in 1 .. n - 1 /\ n - 1 + 1 = n /\ 1 \in 1 .. n - 1
          BY <4>2
        <5>2. stream'[k].out[n - 1] = stream[k].out[n]
          BY <2>3, <5>1
        <5>3. Ending(k)' = (stream[k].out[n].kind = "end")
          BY <2>3, <2>7, <4>2, <5>2 DEF Ending
        <5>4. f.kind # "end"
          BY <2>2, <2>6, <5>1
        <5> QED BY <2>4, <2>6, <5>3, <5>4
      <4> QED BY <4>1, <4>2
    <3> QED BY <2>3, <2>6, <3>1, <3>2 DEF Framed
  <2>9. \A j \in Streams : Connected(j)' => Framed(j)'
    BY <1>d, <2>3, <2>4, <2>8
  <2>10. \A j \in Streams : \A i \in 1 .. Len(stream'[j].queue) : stream'[j].queue[i].kind # "end"
    BY <1>a, <2>3
  <2> QED BY <1>a, <1>b, <2>4, <2>5, <2>9, <2>10
<1>11. ASSUME NEW k \in Streams, Replay(k) PROVE Shaped'
  <2>1. /\ Connected(k) /\ \A j \in Streams : j # k => stream'[j] = stream[j]
        /\ stream'[k].client = stream[k].client /\ stream'[k].queue = stream[k].queue
        /\ stream[k].phase = "resume" /\ stream'[k].phase = "live" /\ stream[k].out = <<>>
        /\ stream'[k].out = ReplaySince(stream[k].last)
    BY <1>11, ReplayDoes
  <2>2. thread' = thread /\ browser' = browser
    BY <1>11, Untouched
  <2>3. stream[k].last \in Ids \cup {0}
    BY PartsOK
  <2>4. PICK o \in Seq(Frame) : o = ReplaySince(stream[k].last)
    BY <2>3, ReplayOK
  <2>5. \A i \in 1 .. Len(o) : \E l \in 1 .. Len(table) : o[i] = NoteOf(l)
    BY <2>3, <2>4, ReplayOK
  <2>a. \A l \in 1 .. Len(table) : NoteOf(l).kind = "note"
    BY DEF NoteOf
  <2>6. \A i \in 1 .. Len(o) : o[i].kind # "end"
    BY <2>5, <2>a
  <2>7. o # <<>> => Len(o) \in 1 .. Len(o)
    BY EmptySeq
  <2>8. Len(o) \in Nat
    BY LenProperties
  <2>9. browser[stream[k].client].buffering = FALSE
    BY <1>a, <2>1 DEF Framed, Ending
  <2>10. Framed(k)'
    <3>1. Ending(k)' = FALSE
      BY <2>1, <2>4, <2>6, <2>7 DEF Ending
    <3>2. \A i \in 1 .. Len(stream'[k].out) - 1 : stream'[k].out[i].kind # "end"
      BY <2>1, <2>4, <2>6, <2>8
    <3>3. stream'[k].phase # "snapshot"
          /\ browser'[stream'[k].client].buffering = FALSE
      BY <2>1, <2>2, <2>9
    <3> QED BY <3>1, <3>2, <3>3 DEF Framed
  <2>11. \A j \in Streams : Connected(j)' => Framed(j)'
    BY <1>d, <2>1, <2>2, <2>10
  <2>12. \A j \in Streams : \A i \in 1 .. Len(stream'[j].queue) : stream'[j].queue[i].kind # "end"
    BY <1>a, <2>1
  <2> QED BY <1>a, <1>b, <2>2, <2>11, <2>12
<1>12. ASSUME NEW k \in Streams, SendLive(k) PROVE Shaped'
  <2>1. PICK n \in Nat \ {0} : n = Len(stream[k].queue)
    BY <1>12, SendLiveDoes
  <2>2. PICK f \in Frame : f = stream[k].queue[1]
    BY <1>12, SendLiveDoes
  <2>3. /\ Connected(k) /\ \A j \in Streams : j # k => stream'[j] = stream[j]
        /\ stream'[k].client = stream[k].client /\ stream'[k].out = stream[k].out
        /\ stream'[k].phase = stream[k].phase
        /\ Receive(k, f) /\ f.kind # "end"
        /\ Len(stream'[k].queue) = n - 1
        /\ \A i \in 1 .. n - 1 : stream'[k].queue[i] = stream[k].queue[i + 1]
    BY <1>12, <2>1, <2>2, SendLiveDoes
  <2>4. /\ \A c \in Clients : c # stream[k].client => browser'[c] = browser[c]
        /\ \A c \in Clients : browser'[c].on = browser[c].on
        /\ \A c \in Clients : browser'[c].buffering => browser'[c].buffer \in Map
        /\ browser'[stream[k].client].buffering = (browser[stream[k].client].buffering /\ f.kind # "end")
    BY <2>3, ReceiveDoes
  <2>5. thread' = thread
    BY <1>12, Untouched
  <2>6. Framed(k)' 
    <3>1. browser[stream[k].client].buffering \in BOOLEAN /\ Framed(k)
      BY <1>0, <1>a, <2>3, PartsOK
    <3>2. browser'[stream[k].client].buffering = browser[stream[k].client].buffering
      BY <2>3, <2>4, <3>1
    <3> QED BY <2>3, <3>1, <3>2, FramedStill
  <2>7. \A j \in Streams : Connected(j)' => Framed(j)'
    BY <1>d, <2>3, <2>4, <2>6
  <2>8. \A i \in 1 .. Len(stream'[k].queue) : stream'[k].queue[i].kind # "end"
    <3> SUFFICES ASSUME NEW i \in 1 .. n - 1 PROVE stream'[k].queue[i].kind # "end"
      BY <2>3
    <3>1. i + 1 \in 1 .. n
      OBVIOUS
    <3> QED BY <1>a, <2>1, <2>3, <3>1
  <2>9. \A j \in Streams : \A i \in 1 .. Len(stream'[j].queue) : stream'[j].queue[i].kind # "end"
    BY <1>a, <2>3, <2>8
  <2> QED BY <1>a, <1>b, <2>4, <2>5, <2>7, <2>9
<1>13. ASSUME NEW k \in Streams, StreamEnds(k) PROVE Shaped'
  <2>1. /\ stream'[k] = Closed /\ \A j \in Streams : j # k => stream'[j] = stream[j]
    BY <1>13, StreamEndsDoes
  <2>2. thread' = thread /\ browser' = browser
    BY <1>13, Untouched
  <2>3. Len(<<>>) = 0
    BY EmptySeq
  <2>4. \A j \in Streams : \A i \in 1 .. Len(stream'[j].queue) : stream'[j].queue[i].kind # "end"
    BY <1>a, <2>1, <2>3, NullsOK
  <2>5. \A j \in Streams : Connected(j)' => Framed(j)'
    <3> SUFFICES ASSUME NEW j \in Streams, Connected(j)' PROVE Framed(j)'
      OBVIOUS
    <3>1. j # k
      BY <2>1, NullsOK DEF Connected
    <3>2. stream'[j] = stream[j] /\ Connected(j)
      BY <2>1, <2>2, <3>1 DEF Connected
    <3> QED BY <1>a, <2>2, <3>2, FramedStill
  <2>6. \A d \in Clients : browser'[d].buffering => browser'[d].buffer \in Map
    BY <1>a, <2>2
  <2> QED BY <1>a, <1>b, <2>2, <2>4, <2>5, <2>6
<1>14. ASSUME Restart PROVE Shaped'
  <2>1. /\ \A w \in Writers : thread'[w] = Idle
        /\ \A d \in Clients : browser'[d].buffer = browser[d].buffer
                              /\ browser'[d].buffering = browser[d].buffering
        /\ \A k \in Streams : stream'[k] \in {Unopened, Closed}
    BY <1>14, RestartDoes
  <2>2. \A k \in Streams : ~Connected(k)'
    BY <2>1, NullsOK DEF Connected
  <2>3. Len(<<>>) = 0
    BY EmptySeq
  <2>4. \A j \in Streams : \A i \in 1 .. Len(stream'[j].queue) : stream'[j].queue[i].kind # "end"
    BY <2>1, <2>3, NullsOK
  <2>5. \A w \in Writers : thread'[w].step = "push" => thread'[w].frame.kind # "end"
    BY <2>1 DEF Idle
  <2>6. \A d \in Clients : browser'[d].buffering => browser'[d].buffer \in Map
    BY <1>a, <2>1
  <2> QED BY <1>b, <2>2, <2>4, <2>5, <2>6
<1>15. ASSUME UNCHANGED vars PROVE Shaped'
  <2>1. thread' = thread /\ stream' = stream /\ browser' = browser
    BY <1>15 DEF vars
  <2> QED BY <1>a, <1>c, <2>1
<1> QED BY <1>1, <1>2, <1>3, <1>4, <1>5, <1>6, <1>7, <1>8, <1>9, <1>10, <1>11, <1>12, <1>13, <1>14,
           <1>15 DEF Next, Emitting, Streaming, Noting

-----------------------------------------------------------------------------
(* The numbers of events.                                                  *)

(* A row with a new number at the end of a table in order.                 *)
LEMMA AppendsRow ==
  ASSUME TypeOK, Numbered, NEW r \in Row, r.id = emitted + 1, table' = Append(table, r),
         emitted' = emitted + 1
  PROVE  /\ Len(table') = Len(table) + 1 /\ table'[Len(table) + 1] = r
         /\ \A i \in 1 .. Len(table) : table'[i] = table[i]
         /\ \A i, j \in 1 .. Len(table') : i < j => table'[i].id < table'[j].id
         /\ \A i \in 1 .. Len(table') : table'[i].id <= emitted'
<1>1. table \in Seq(Row) /\ emitted \in Nat
  BY BoundsAssumption DEF TypeOK
<1>2. PICK n \in Nat : n = Len(table)
  BY <1>1, LenProperties
<1>3. /\ Len(table') = n + 1 /\ table'[n + 1] = r
      /\ \A i \in 1 .. n : table'[i] = table[i]
  BY <1>1, <1>2, AppendProperties
<1>4. \A i \in 1 .. n : table[i].id \in Int /\ table[i].id <= emitted
  BY <1>2, PartsOK, BoundsAssumption DEF Numbered, Ids
<1>5. \A i, j \in 1 .. n : i < j => table[i].id < table[j].id
  BY <1>2 DEF Numbered
<1>6. \A i \in 1 .. n + 1 : i \in 1 .. n \/ i = n + 1
  OBVIOUS
<1>7. \A i, j \in 1 .. n + 1 : i < j => table'[i].id < table'[j].id
  <2> SUFFICES ASSUME NEW i \in 1 .. n + 1, NEW j \in 1 .. n + 1, i < j
               PROVE  table'[i].id < table'[j].id
    OBVIOUS
  <2>1. i \in 1 .. n
    OBVIOUS
  <2>2. CASE j \in 1 .. n
    BY <1>3, <1>5, <2>1, <2>2
  <2>3. CASE j = n + 1
    BY <1>1, <1>3, <1>4, <2>1, <2>3
  <2> QED BY <1>6, <2>2, <2>3
<1>8. \A i \in 1 .. n + 1 : table'[i].id <= emitted'
  BY <1>1, <1>3, <1>4, <1>6
<1> QED BY <1>2, <1>3, <1>7, <1>8

(* Rows stay in order, and no number is known before it is given.          *)
LEMMA NextNumbered ==
  ASSUME TypeOK, Numbered, Listed, Shaped, [Next]_vars
  PROVE  Numbered'
<1> USE DEF counters, history, server
<1> DEFINE Seen(s) == /\ s.last <= emitted
                      /\ \A i \in 1 .. Len(s.out) : s.out[i].id <= emitted
                      /\ \A i \in 1 .. Len(s.queue) : s.queue[i].id <= emitted
           Rows    == /\ \A i, j \in 1 .. Len(table) : i < j => table[i].id < table[j].id
                      /\ \A i \in 1 .. Len(table) : table[i].id <= emitted
<1>0. /\ emitted \in Nat
      /\ \A i \in Ids \cup {0} : i \in Int
      /\ \A f \in Frame : f.id \in Int
      /\ \A k \in Streams : stream[k].client \in Clients /\ stream[k].last \in Int
      /\ \A c \in Clients : browser[c].last \in Int
      /\ \A w \in Writers : thread[w].frame \in Frame
  <2>1. emitted \in Nat /\ \A i \in Ids \cup {0} : i \in Int
    BY BoundsAssumption DEF TypeOK, Ids
  <2>2. \A f \in Frame : f.id \in Ids \cup {0}
    BY FrameOK
  <2>3. \A k \in Streams : stream[k].client \in Clients /\ stream[k].last \in Ids \cup {0}
    BY PartsOK
  <2>4. \A c \in Clients : browser[c].last \in Ids \cup {0}
    BY PartsOK
  <2>5. \A w \in Writers : thread[w].frame \in Frame
    BY PartsOK
  <2> QED BY <2>1, <2>2, <2>3, <2>4, <2>5
<1>a. /\ Rows /\ \A c \in Clients : browser[c].last <= emitted
      /\ \A w \in Writers : thread[w].frame.id <= emitted
      /\ \A k \in Streams : Seen(stream[k])
  BY DEF Numbered
<1>b. ASSUME Rows', \A c \in Clients : browser'[c].last <= emitted',
             \A w \in Writers : thread'[w].frame.id <= emitted',
             \A k \in Streams : Seen(stream[k])'
      PROVE  Numbered'
  BY <1>b DEF Numbered
<1>c. ASSUME NEW k \in Streams, stream'[k] = stream[k], emitted' \in {emitted, emitted + 1}
      PROVE  Seen(stream[k])'
  <2>1. /\ \A i \in 1 .. Len(stream[k].out) : stream[k].out[i].id \in Int
        /\ \A i \in 1 .. Len(stream[k].queue) : stream[k].queue[i].id \in Int
    BY <1>0, PartsOK
  <2>2. \A x \in Int : x <= emitted => x <= emitted'
    BY <1>0, <1>c
  <2>3. stream'[k].last <= emitted'
    BY <1>0, <1>a, <1>c, <2>2
  <2>4. \A i \in 1 .. Len(stream'[k].out) : stream'[k].out[i].id <= emitted'
    BY <1>a, <1>c, <2>1, <2>2
  <2>5. \A i \in 1 .. Len(stream'[k].queue) : stream'[k].queue[i].id <= emitted'
    BY <1>a, <1>c, <2>1, <2>2
  <2> QED BY <2>3, <2>4, <2>5
<1>d. ASSUME table' = table, emitted' \in {emitted, emitted + 1} PROVE Rows'
  <2>1. \A i \in 1 .. Len(table) : table[i].id \in Int
    BY <1>0, PartsOK
  <2> QED BY <1>0, <1>a, <1>d, <2>1
<1>e. ASSUME browser' = browser, emitted' \in {emitted, emitted + 1}
      PROVE  \A c \in Clients : browser'[c].last <= emitted'
  BY <1>0, <1>a, <1>e
<1>f. ASSUME NEW w \in Writers, thread'[w] = thread[w], emitted' \in {emitted, emitted + 1}
      PROVE  thread'[w].frame.id <= emitted'
  BY <1>0, <1>a, <1>f
<1>g. ASSUME NEW k \in Streams, NEW f \in Frame, f.id <= emitted, emitted' = emitted,
             \A c \in Clients : c # stream[k].client => browser'[c] = browser[c],
             browser'[stream[k].client].last = IF f.id = 0 THEN browser[stream[k].client].last ELSE f.id
      PROVE  \A c \in Clients : browser'[c].last <= emitted'
  BY <1>0, <1>a, <1>g
<1> HIDE DEF Seen, Rows
<1>1. ASSUME NEW w \in Writers, NEW n \in Names, NEW to \in States \cup {Absent}, SetState(w, n, to)
      PROVE  Numbered'
  <2>1. /\ \A v \in Writers : v # w => thread'[v] = thread[v] /\ emitted' = emitted + 1
        /\ thread'[w].frame = [kind |-> "state", id |-> emitted', name |-> n, to |-> to]
        /\ emitted' = emitted + 1
    BY <1>1, SetStateDoes
  <2>2. UNCHANGED <<table, relays, subscribers, stream, browser, opened, crashes, skipped>>
    BY <1>1, Untouched
  <2>3. thread'[w].frame.id <= emitted'
    BY <1>0, <2>1
  <2>4. \A v \in Writers : thread'[v].frame.id <= emitted'
    BY <1>f, <2>1, <2>3
  <2> QED BY <1>b, <1>c, <1>d, <1>e, <2>1, <2>2, <2>4
<1>2. ASSUME NEW w \in Writers, Noting(w) PROVE Numbered'
  <2>1. /\ emitted' = emitted + 1
        /\ \A v \in Writers : v # w => thread'[v] = thread[v]
        /\ thread'[w].frame.id = emitted' \/ \E i \in 1 .. Len(table) : thread'[w].frame.id = table[i].id
        /\ UNCHANGED <<cache, subscribers, stream, browser, opened, crashes, history>>
    BY <1>2, NotingDoes
  <2>2. \/ table' = table
        \/ /\ table' = Append(table, Recorded(emitted', table'[Len(table) + 1].topic, FALSE))
           /\ Recorded(emitted', table'[Len(table) + 1].topic, FALSE) \in Row
    BY <1>2, NotingDoes
  <2>3. thread'[w].frame.id <= emitted'
    BY <1>0, <1>a, <2>1, PartsOK DEF Rows
  <2>4. \A v \in Writers : thread'[v].frame.id <= emitted'
    BY <1>f, <2>1, <2>3
  <2>5. Rows'
    <3>1. CASE table' = table
      BY <1>d, <2>1, <3>1
    <3>2. CASE /\ table' = Append(table, Recorded(emitted', table'[Len(table) + 1].topic, FALSE))
               /\ Recorded(emitted', table'[Len(table) + 1].topic, FALSE) \in Row
      <4>1. PICK r \in Row : r = Recorded(emitted', table'[Len(table) + 1].topic, FALSE)
        BY <3>2
      <4>2. table' = Append(table, r) /\ r.id = emitted + 1
        BY <2>1, <3>2, <4>1 DEF Recorded
      <4> QED BY <2>1, <4>2, AppendsRow DEF Rows
    <3> QED BY <2>2, <3>1, <3>2
  <2> QED BY <1>b, <1>c, <1>e, <2>1, <2>4, <2>5
<1>3. ASSUME NEW w \in Writers, PushOne(w) PROVE Numbered'
  <2>1. PICK k : k = subscribers[thread[w].at]
    OBVIOUS
  <2>2. /\ k \in Streams
        /\ \A v \in Writers : v # w => thread'[v] = thread[v]
        /\ thread'[w].frame = thread[w].frame
        /\ \A j \in Streams : /\ stream'[j].last = stream[j].last
                              /\ stream'[j].out = stream[j].out
                              /\ j # k => stream'[j] = stream[j]
        /\ stream'[k].queue = Append(stream[k].queue, thread[w].frame) \/ stream' = stream
    BY <1>3, <2>1, PushOneDoes
  <2>3. browser' = browser /\ table' = table /\ emitted' = emitted
    BY <1>3, Untouched
  <2>4. \A v \in Writers : thread'[v].frame.id <= emitted'
    BY <1>a, <2>2, <2>3
  <2>5. ASSUME NEW j \in Streams PROVE Seen(stream[j])'
    <3>1. CASE stream'[j] = stream[j]
      BY <1>c, <2>3, <3>1
    <3>2. CASE j = k /\ stream'[k].queue = Append(stream[k].queue, thread[w].frame)
      <4>1. PICK q \in Seq(Frame) : q = stream[k].queue
        BY <2>2, PartsOK
      <4>2. PICK f \in Frame : f = thread[w].frame /\ f.id <= emitted
        BY <1>a, <2>2, PartsOK
      <4>3. Len(q) \in Nat /\ Len(Append(q, f)) = Len(q) + 1 /\ Append(q, f)[Len(q) + 1] = f
            /\ \A l \in 1 .. Len(q) : Append(q, f)[l] = q[l]
        BY AppendProperties, LenProperties
      <4>4. \A l \in 1 .. Len(q) : q[l].id <= emitted
        BY <1>a, <2>2, <4>1 DEF Seen
      <4>5. \A i \in 1 .. Len(q) + 1 : Append(q, f)[i].id <= emitted
        <5> TAKE i \in 1 .. Len(q) + 1
        <5>1. i \in 1 .. Len(q) \/ i = Len(q) + 1
          BY <4>3
        <5> QED BY <4>2, <4>3, <4>4, <5>1
      <4>6. stream'[k].queue = Append(q, f)
        BY <3>2, <4>1, <4>2
      <4>7. stream[k].last <= emitted /\ \A i \in 1 .. Len(stream[k].out) : stream[k].out[i].id <= emitted
        BY <1>a, <2>2 DEF Seen
      <4>8. stream'[k].last <= emitted'
        BY <2>2, <2>3, <4>7
      <4>9. \A i \in 1 .. Len(stream'[k].out) : stream'[k].out[i].id <= emitted'
        BY <2>2, <2>3, <4>7
      <4>10. \A i \in 1 .. Len(stream'[k].queue) : stream'[k].queue[i].id <= emitted'
        BY <2>3, <4>3, <4>5, <4>6
      <4> QED BY <3>2, <4>8, <4>9, <4>10 DEF Seen
    <3> QED BY <2>2, <3>1, <3>2
  <2> QED BY <1>b, <1>d, <1>e, <2>3, <2>4, <2>5
<1>4. ASSUME NEW w \in Writers, PushEnds(w) PROVE Numbered'
  <2>1. /\ thread'[w] = Idle /\ \A v \in Writers : v # w => thread'[v] = thread[v]
    BY <1>4, PushEndsDoes
  <2>2. stream' = stream /\ browser' = browser /\ table' = table /\ emitted' = emitted
    BY <1>4, Untouched
  <2>3. Idle.frame.id = 0
    BY DEF Idle, EndFrame
  <2>4. \A v \in Writers : thread'[v].frame.id <= emitted'
    BY <1>0, <1>a, <2>1, <2>2, <2>3
  <2> QED BY <1>b, <1>c, <1>d, <1>e, <2>2, <2>4
<1>5. ASSUME CliNotify PROVE Numbered'
  <2>1. UNCHANGED <<server, browser, crashes, history>>
    BY <1>5, Untouched
  <2>2. /\ emitted' = emitted + 1
        /\ table' = Append(table, Recorded(emitted', NoTopic, TRUE))
        /\ Recorded(emitted', NoTopic, TRUE) \in Row
    BY <1>5, CliDoes
  <2>3. PICK r \in Row : r = Recorded(emitted', NoTopic, TRUE)
    BY <2>2
  <2>4. table' = Append(table, r) /\ r.id = emitted + 1
    BY <2>2, <2>3 DEF Recorded
  <2>5. Rows'
    BY <2>2, <2>4, AppendsRow DEF Rows
  <2>6. \A v \in Writers : thread'[v].frame.id <= emitted'
    BY <1>f, <2>1, <2>2
  <2> QED BY <1>b, <1>c, <1>e, <2>1, <2>2, <2>5, <2>6
<1>6. ASSUME RelayLost PROVE Numbered'
  <2>1. UNCHANGED <<server, table, browser, emitted, crashes, history>>
    BY <1>6, Untouched
  <2> QED BY <1>b, <1>c, <1>d, <1>e, <1>f, <2>1
<1>7. ASSUME NEW c \in Clients, Connect(c) PROVE Numbered'
  <2>1. PICK k \in Streams : k = opened'
    BY <1>7, ConnectDoes
  <2>2. /\ \A j \in Streams : j # k => stream'[j] = stream[j]
        /\ stream'[k].out = <<>> /\ stream'[k].queue = <<>>
        /\ stream'[k].last \in {browser[c].last, 0}
        /\ \A d \in Clients : browser'[d].last = browser[d].last
    BY <1>7, <2>1, ConnectDoes
  <2>3. UNCHANGED <<cache, table, thread, relays, emitted, crashes, history>>
    BY <1>7, Untouched
  <2>4. Len(<<>>) = 0
    BY EmptySeq
  <2>5. Seen(stream[k])'
    BY <1>0, <1>a, <2>2, <2>3, <2>4 DEF Seen
  <2>6. \A j \in Streams : Seen(stream[j])'
    BY <1>c, <2>2, <2>3, <2>5
  <2>7. \A d \in Clients : browser'[d].last <= emitted'
    BY <1>a, <2>2, <2>3
  <2> QED BY <1>b, <1>d, <1>f, <2>3, <2>6, <2>7
<1>8. ASSUME NEW c \in Clients, Disconnect(c) PROVE Numbered'
  <2>1. \A d \in Clients : browser'[d].last = browser[d].last
    BY <1>8, DisconnectDoes
  <2>2. UNCHANGED <<server, table, relays, emitted, crashes, history>>
    BY <1>8, Untouched
  <2>3. \A d \in Clients : browser'[d].last <= emitted'
    BY <1>a, <2>1, <2>2
  <2> QED BY <1>b, <1>c, <1>d, <1>f, <2>2, <2>3
<1>9. ASSUME NEW k \in Streams, Snapshot(k) PROVE Numbered'
  <2>1. PICK m \in Nat : m = Len(SnapshotRows)
    BY <1>9, SnapshotDoes
  <2>2. /\ \A j \in Streams : j # k => stream'[j] = stream[j]
        /\ stream'[k].last = stream[k].last /\ stream'[k].queue = stream[k].queue
        /\ Len(stream'[k].out) = m + 1 /\ stream'[k].out[m + 1] = EndFrame
        /\ \A i \in 1 .. m : stream'[k].out[i] = SnapshotRows[i]
        /\ \A d \in Clients : browser'[d].last = browser[d].last
    BY <1>9, <2>1, SnapshotDoes
  <2>3. UNCHANGED <<cache, table, thread, relays, subscribers, counters, history>>
    BY <1>9, Untouched
  <2>a. \A i \in 1 .. m : \E n \in Names : SnapshotRows[i] = StateRow(n)
    BY <2>1, RowsOK DEF TypeOK
  <2>b. \A n \in Names : StateRow(n).id = 0
    BY DEF StateRow
  <2>4. \A i \in 1 .. m + 1 : stream'[k].out[i].id = 0
    <3> TAKE i \in 1 .. m + 1
    <3>1. i \in 1 .. m \/ i = m + 1
      OBVIOUS
    <3>2. EndFrame.id = 0
      BY DEF EndFrame
    <3> QED BY <2>2, <2>a, <2>b, <3>1, <3>2
  <2>5. Seen(stream[k])'
    BY <1>0, <1>a, <2>2, <2>3, <2>4 DEF Seen
  <2>6. \A j \in Streams : Seen(stream[j])'
    BY <1>c, <2>2, <2>3, <2>5
  <2>7. \A d \in Clients : browser'[d].last <= emitted'
    BY <1>a, <2>2, <2>3
  <2> QED BY <1>b, <1>d, <1>f, <2>3, <2>6, <2>7
<1>10. ASSUME NEW k \in Streams, SendOne(k) PROVE Numbered'
  <2>1. PICK n \in Nat \ {0} : n = Len(stream[k].out)
    BY <1>10, SendOneDoes
  <2>2. PICK f \in Frame : f = stream[k].out[1]
    BY <1>10, SendOneDoes
  <2>3. /\ \A j \in Streams : j # k => stream'[j] = stream[j]
        /\ stream'[k].last = stream[k].last /\ stream'[k].queue = stream[k].queue
        /\ Len(stream'[k].out) = n - 1
        /\ \A i \in 1 .. n - 1 : stream'[k].out[i] = stream[k].out[i + 1]
    BY <1>10, <2>1, <2>2, SendOneDoes
  <2>4. Receive(k, f) /\ (f.kind = "end" => browser[stream[k].client].buffering)
    BY <1>10, <2>2, SendOneDoes
  <2>5. /\ \A c \in Clients : c # stream[k].client => browser'[c] = browser[c]
        /\ browser'[stream[k].client].last = IF f.id = 0 THEN browser[stream[k].client].last ELSE f.id
    <3>1. f.kind = "end" => browser[stream[k].client].buffering
      BY <2>4
    <3>2. Receive(k, f)
      BY <2>4
    <3> QED BY <3>1, <3>2, ReceiveDoes
  <2>6. UNCHANGED <<cache, table, thread, relays, subscribers, counters, history>>
    BY <1>10, Untouched
  <2>7. \A i \in 1 .. n : stream[k].out[i].id <= emitted
    BY <1>a, <2>1 DEF Seen
  <2>8. f.id <= emitted
    BY <2>2, <2>7
  <2>9. \A i \in 1 .. n - 1 : stream'[k].out[i].id <= emitted
    <3> TAKE i \in 1 .. n - 1
    <3>1. PICK l \in 1 .. n : l = i + 1
      OBVIOUS
    <3>2. stream'[k].out[i] = stream[k].out[l]
      BY <2>3, <3>1
    <3> QED BY <2>7, <3>2
  <2>10. Seen(stream[k])'
    BY <1>a, <2>3, <2>6, <2>9 DEF Seen
  <2>11. \A j \in Streams : Seen(stream[j])'
    BY <1>c, <2>3, <2>6, <2>10
  <2>12. \A c \in Clients : browser'[c].last <= emitted'
    BY <1>g, <2>5, <2>6, <2>8
  <2> QED BY <1>b, <1>d, <1>f, <2>6, <2>11, <2>12
<1>11. ASSUME NEW k \in Streams, Replay(k) PROVE Numbered'
  <2>1. /\ \A j \in Streams : j # k => stream'[j] = stream[j]
        /\ stream'[k].last = stream[k].last /\ stream'[k].queue = stream[k].queue
        /\ stream'[k].out = ReplaySince(stream[k].last)
    BY <1>11, ReplayDoes
  <2>2. UNCHANGED <<cache, table, thread, relays, subscribers, browser, counters, history>>
    BY <1>11, Untouched
  <2>3. stream[k].last \in Ids \cup {0}
    BY PartsOK
  <2>4. \A i \in 1 .. Len(ReplaySince(stream[k].last)) :
          \E l \in 1 .. Len(table) : ReplaySince(stream[k].last)[i] = NoteOf(l)
    BY <2>3, ReplayOK
  <2>5. \A l \in 1 .. Len(table) : NoteOf(l).id <= emitted
    BY <1>a DEF NoteOf, Rows
  <2>6. \A i \in 1 .. Len(stream'[k].out) : stream'[k].out[i].id <= emitted
    BY <2>1, <2>4, <2>5
  <2>7. Seen(stream[k])'
    BY <1>a, <2>1, <2>2, <2>6 DEF Seen
  <2>8. \A j \in Streams : Seen(stream[j])'
    BY <1>c, <2>1, <2>2, <2>7
  <2> QED BY <1>b, <1>d, <1>e, <1>f, <2>2, <2>8
<1>12. ASSUME NEW k \in Streams, SendLive(k) PROVE Numbered'
  <2>1. PICK n \in Nat \ {0} : n = Len(stream[k].queue)
    BY <1>12, SendLiveDoes
  <2>2. PICK f \in Frame : f = stream[k].queue[1]
    BY <1>12, SendLiveDoes
  <2>3. /\ \A j \in Streams : j # k => stream'[j] = stream[j]
        /\ stream'[k].last = stream[k].last /\ stream'[k].out = stream[k].out
        /\ Len(stream'[k].queue) = n - 1
        /\ \A i \in 1 .. n - 1 : stream'[k].queue[i] = stream[k].queue[i + 1]
    BY <1>12, <2>1, <2>2, SendLiveDoes
  <2>4. Receive(k, f) /\ f.kind # "end"
    BY <1>12, <2>2, SendLiveDoes
  <2>5. /\ \A c \in Clients : c # stream[k].client => browser'[c] = browser[c]
        /\ browser'[stream[k].client].last = IF f.id = 0 THEN browser[stream[k].client].last ELSE f.id
    BY <2>4, ReceiveDoes
  <2>6. UNCHANGED <<cache, table, thread, relays, subscribers, counters, history>>
    BY <1>12, Untouched
  <2>7. \A i \in 1 .. n : stream[k].queue[i].id <= emitted
    BY <1>a, <2>1 DEF Seen
  <2>8. f.id <= emitted
    BY <2>2, <2>7
  <2>9. \A i \in 1 .. n - 1 : stream'[k].queue[i].id <= emitted
    <3> TAKE i \in 1 .. n - 1
    <3>1. PICK l \in 1 .. n : l = i + 1
      OBVIOUS
    <3>2. stream'[k].queue[i] = stream[k].queue[l]
      BY <2>3, <3>1
    <3> QED BY <2>7, <3>2
  <2>10. Seen(stream[k])'
    BY <1>a, <2>3, <2>6, <2>9 DEF Seen
  <2>11. \A j \in Streams : Seen(stream[j])'
    BY <1>c, <2>3, <2>6, <2>10
  <2>12. \A c \in Clients : browser'[c].last <= emitted'
    BY <1>g, <2>5, <2>6, <2>8
  <2> QED BY <1>b, <1>d, <1>f, <2>6, <2>11, <2>12
<1>h. ASSUME NEW k \in Streams, stream'[k] \in {Unopened, Closed}, emitted' = emitted
      PROVE  Seen(stream[k])'
  <2>1. Len(<<>>) = 0
    BY EmptySeq
  <2> QED BY <1>0, <1>h, <2>1, NullsOK DEF Seen
<1>13. ASSUME NEW k \in Streams, StreamEnds(k) PROVE Numbered'
  <2>1. stream'[k] = Closed /\ \A j \in Streams : j # k => stream'[j] = stream[j]
    BY <1>13, StreamEndsDoes
  <2>2. UNCHANGED <<cache, table, thread, relays, browser, counters, raced>>
    BY <1>13, Untouched
  <2>3. \A j \in Streams : Seen(stream[j])'
    BY <1>c, <1>h, <2>1, <2>2
  <2> QED BY <1>b, <1>d, <1>e, <1>f, <2>2, <2>3
<1>14. ASSUME Restart PROVE Numbered'
  <2>1. /\ \A w \in Writers : thread'[w] = Idle
        /\ \A d \in Clients : browser'[d].last = browser[d].last
        /\ \A k \in Streams : stream'[k] \in {Unopened, Closed}
    BY <1>14, RestartDoes
  <2>2. table' = table /\ emitted' = emitted
    BY <1>14, Untouched
  <2>3. Idle.frame.id = 0
    BY DEF Idle, EndFrame
  <2>4. \A v \in Writers : thread'[v].frame.id <= emitted'
    BY <1>0, <2>1, <2>2, <2>3
  <2>5. \A d \in Clients : browser'[d].last <= emitted'
    BY <1>a, <2>1, <2>2
  <2> QED BY <1>b, <1>d, <1>h, <2>1, <2>2, <2>4, <2>5
<1>15. ASSUME UNCHANGED vars PROVE Numbered'
  <2>1. thread' = thread /\ stream' = stream /\ browser' = browser /\ emitted' = emitted /\ table' = table
    BY <1>15 DEF vars
  <2> QED BY <1>b, <1>c, <1>d, <1>e, <1>f, <2>1
<1> QED BY <1>1, <1>2, <1>3, <1>4, <1>5, <1>6, <1>7, <1>8, <1>9, <1>10, <1>11, <1>12, <1>13, <1>14,
           <1>15 DEF Next, Emitting, Streaming, Noting

-----------------------------------------------------------------------------
(* Who tells of a name.                                                    *)

(* A thread tells what the map says, and no other tells of the same name.  *)
LEMMA NextCurrent ==
  ASSUME TypeOK, Numbered, Listed, Shaped, Current, [Next]_vars
  PROVE  Current'
<1> USE DEF counters, history, server
<1>a. \A n \in Names \ raced : \A w \in Writers : Telling(w, n) =>
        thread[w].frame.to = cache[n] /\ \A v \in Writers : Telling(v, n) => v = w
  BY DEF Current
<1>c. ASSUME cache' = cache, raced' = raced, \A w \in Writers, n \in Names :
               Telling(w, n)' => Telling(w, n) /\ thread'[w].frame = thread[w].frame
      PROVE  Current'
  BY <1>a, <1>c DEF Current
<1>d. ASSUME NEW v \in Writers, thread'[v] = thread[v]
      PROVE  \A n \in Names : Telling(v, n)' => Telling(v, n) /\ thread'[v].frame = thread[v].frame
  BY <1>d DEF Telling
<1>1. ASSUME NEW w \in Writers, NEW n \in Names, NEW to \in States \cup {Absent}, SetState(w, n, to)
      PROVE  Current'
  <2>1. /\ \A v \in Writers : v # w => thread'[v] = thread[v]
        /\ thread'[w].frame = [kind |-> "state", id |-> emitted', name |-> n, to |-> to]
        /\ cache' = [cache EXCEPT ![n] = to]
        /\ raced' = IF \E v \in Writers : Telling(v, n) THEN raced \cup {n} ELSE raced
    BY <1>1, SetStateDoes
  <2>2. cache'[n] = to /\ \A m \in Names : m # n => cache'[m] = cache[m]
    BY <2>1 DEF TypeOK, Map
  <2>3. \A m \in Names : Telling(w, m)' => m = n
    BY <2>1 DEF Telling
  <2>4. thread'[w].frame.to = to
    BY <2>1
  <2> SUFFICES ASSUME NEW m \in Names, m \notin raced', NEW v \in Writers, Telling(v, m)'
               PROVE  thread'[v].frame.to = cache'[m] /\ \A u \in Writers : Telling(u, m)' => u = v
    BY DEF Current
  <2>5. CASE m = n
    <3>1. \A u \in Writers : ~Telling(u, n)
      BY <2>1, <2>5
    <3>2. \A u \in Writers : Telling(u, n)' => u = w
      BY <1>d, <2>1, <3>1
    <3> QED BY <2>2, <2>4, <2>5, <3>2
  <2>6. CASE m # n
    <3>1. v # w /\ Telling(v, m) /\ thread'[v].frame = thread[v].frame
      BY <1>d, <2>1, <2>3, <2>6
    <3>2. m \notin raced
      BY <2>1
    <3>3. \A u \in Writers : Telling(u, m)' => Telling(u, m)
      BY <1>d, <2>1, <2>3, <2>6
    <3> QED BY <1>a, <2>2, <2>6, <3>1, <3>2, <3>3
  <2> QED BY <2>5, <2>6
<1>2. ASSUME NEW w \in Writers, Noting(w) PROVE Current'
  <2>1. /\ \A v \in Writers : v # w => thread'[v] = thread[v]
        /\ thread'[w].frame \in NoteFrame
        /\ UNCHANGED <<cache, subscribers, stream, browser, opened, crashes, history>>
    BY <1>2, NotingDoes
  <2>2. \A n \in Names : ~Telling(w, n)'
    BY <2>1 DEF Telling, NoteFrame
  <2> QED BY <1>c, <1>d, <2>1, <2>2
<1>3. ASSUME NEW w \in Writers, PushOne(w) PROVE Current'
  <2>1. /\ \A v \in Writers : v # w => thread'[v] = thread[v]
        /\ thread[w].step = "push" /\ thread'[w].frame = thread[w].frame
    BY <1>3, PushOneDoes
  <2>2. cache' = cache /\ raced' = raced
    BY <1>3, Untouched
  <2>3. \A n \in Names : Telling(w, n)' => Telling(w, n) /\ thread'[w].frame = thread[w].frame
    BY <2>1 DEF Telling
  <2> QED BY <1>c, <1>d, <2>1, <2>2, <2>3
<1>4. ASSUME NEW w \in Writers, PushEnds(w) PROVE Current'
  <2>1. /\ thread'[w] = Idle /\ \A v \in Writers : v # w => thread'[v] = thread[v]
    BY <1>4, PushEndsDoes
  <2>2. cache' = cache /\ raced' = raced
    BY <1>4, Untouched
  <2>3. \A n \in Names : ~Telling(w, n)'
    BY <2>1 DEF Telling, Idle
  <2> QED BY <1>c, <1>d, <2>1, <2>2, <2>3
<1>5. ASSUME cache' = cache, raced' = raced, thread' = thread PROVE Current'
  <2>1. \A w \in Writers : thread'[w] = thread[w]
    BY <1>5
  <2> QED BY <1>c, <1>d, <1>5, <2>1
<1>6. ASSUME Restart PROVE Current'
  <2>1. \A w \in Writers : thread'[w] = Idle
    BY <1>6, RestartDoes
  <2>2. \A w \in Writers, n \in Names : ~Telling(w, n)'
    BY <2>1 DEF Telling, Idle
  <2> QED BY <2>2 DEF Current
<1>7. ASSUME CliNotify \/ RelayLost PROVE Current'
  BY <1>5, <1>7, Untouched
<1>8. ASSUME NEW c \in Clients, Connect(c) \/ Disconnect(c) PROVE Current'
  BY <1>5, <1>8, Untouched
<1>9. ASSUME NEW k \in Streams, Streaming(k) \/ StreamEnds(k) PROVE Current'
  BY <1>5, <1>9, Untouched DEF Streaming
<1>10. ASSUME UNCHANGED vars PROVE Current'
  BY <1>5, <1>10 DEF vars
<1> QED BY <1>1, <1>2, <1>3, <1>4, <1>6, <1>7, <1>8, <1>9, <1>10 DEF Next, Emitting, Noting

-----------------------------------------------------------------------------
(* What a browser will see.                                                *)

(* One frame more at the end of a queue.                                   *)
LEMMA TellsMore ==
  ASSUME NEW q \in Seq(Frame), NEW f \in Frame, NEW n, NEW x
  PROVE  /\ Tells(f, n) => LastTells(Append(q, f), n, f.to)
         /\ ~Tells(f, n) /\ LastTells(q, n, x) => LastTells(Append(q, f), n, x)
         /\ ~Tells(f, n) /\ Silent(q, n) => Silent(Append(q, f), n)
<1>1. PICK m \in Nat : m = Len(q)
  BY LenProperties
<1>2. PICK r \in Seq(Frame) : r = Append(q, f)
  BY AppendProperties
<1>3. Len(r) = m + 1 /\ r[m + 1] = f /\ \A i \in 1 .. m : r[i] = q[i]
  BY <1>1, <1>2, AppendProperties
<1>4. \A i \in 1 .. m + 1 : i \in 1 .. m \/ i = m + 1
  OBVIOUS
<1>5. ASSUME Tells(f, n) PROVE LastTells(r, n, f.to)
  <2>1. m + 1 \in 1 .. Len(r) /\ \A j \in 1 .. Len(r) : ~(j > m + 1)
    BY <1>3
  <2> QED BY <1>3, <1>5, <2>1 DEF LastTells
<1>6. ASSUME ~Tells(f, n), LastTells(q, n, x) PROVE LastTells(r, n, x)
  <2>1. PICK i \in 1 .. m : Tells(q[i], n) /\ q[i].to = x /\ \A j \in 1 .. m : j > i => ~Tells(q[j], n)
    BY <1>1, <1>6 DEF LastTells
  <2>2. \A j \in 1 .. m + 1 : j > i => ~Tells(r[j], n)
    BY <1>3, <1>4, <1>6, <2>1
  <2>3. i \in 1 .. Len(r) /\ r[i] = q[i]
    BY <1>3
  <2> QED BY <1>3, <2>1, <2>2, <2>3 DEF LastTells
<1>7. ASSUME ~Tells(f, n), Silent(q, n) PROVE Silent(r, n)
  BY <1>1, <1>3, <1>4, <1>7 DEF Silent
<1> QED BY <1>2, <1>5, <1>6, <1>7

(* The first frame is taken from a sequence.                               *)
LEMMA TellsRest ==
  ASSUME NEW m \in Nat \ {0}, NEW q, Len(q) = m, NEW r, Len(r) = m - 1,
         \A i \in 1 .. m - 1 : r[i] = q[i + 1], NEW n, NEW x
  PROVE  /\ Silent(q, n) => ~Tells(q[1], n) /\ Silent(r, n)
         /\ LastTells(q, n, x) => \/ LastTells(r, n, x)
                                  \/ Silent(r, n) /\ Tells(q[1], n) /\ q[1].to = x
<1>1. \A i \in 1 .. m - 1 : \E l \in 1 .. m : l = i + 1 /\ r[i] = q[l]
  <2> TAKE i \in 1 .. m - 1
  <2>1. i + 1 \in 1 .. m /\ r[i] = q[i + 1]
    OBVIOUS
  <2> QED BY <2>1
<1>2. ASSUME Silent(q, n) PROVE ~Tells(q[1], n) /\ Silent(r, n)
  <2>1. \A l \in 1 .. m : ~Tells(q[l], n)
    BY <1>2 DEF Silent
  <2>2. \A i \in 1 .. m - 1 : ~Tells(r[i], n)
    BY <1>1, <2>1
  <2> QED BY <2>1, <2>2 DEF Silent
<1>3. ASSUME LastTells(q, n, x)
      PROVE  \/ LastTells(r, n, x)
             \/ Silent(r, n) /\ Tells(q[1], n) /\ q[1].to = x
  <2>1. PICK i \in 1 .. m : Tells(q[i], n) /\ q[i].to = x /\ \A j \in 1 .. m : j > i => ~Tells(q[j], n)
    BY <1>3 DEF LastTells
  <2>2. CASE i = 1
    <3>1. \A j \in 1 .. m - 1 : ~Tells(r[j], n)
      BY <1>1, <2>1, <2>2
    <3> QED BY <2>1, <2>2, <3>1 DEF Silent
  <2>3. CASE i # 1
    <3>1. PICK l \in 1 .. m - 1 : i = l + 1 /\ r[l] = q[i]
      <4>1. i - 1 \in 1 .. m - 1 /\ i = (i - 1) + 1
        BY <2>3
      <4> QED BY <4>1
    <3>2. \A j \in 1 .. m - 1 : j > l => ~Tells(r[j], n)
      BY <1>1, <2>1, <3>1
    <3> QED BY <2>1, <3>1, <3>2 DEF LastTells
  <2> QED BY <2>2, <2>3
<1> QED BY <1>2, <1>3

(* A thread that has not passed k on the list brings it its frame.         *)
Brings(w, k) == /\ thread[w].step = "push" /\ k \in Range(subscribers)
                /\ thread[w].at <= IndexIn(subscribers, k)
LEMMA ComingIs ==
  /\ \A k, f : f \in Coming(k) <=> \E w \in Writers : Brings(w, k) /\ f = thread[w].frame
  /\ \A k, f : f \in Coming(k)' <=> \E w \in Writers : Brings(w, k)' /\ f = thread'[w].frame
BY DEF Coming, Brings

(* What k's browser shows and heard stays; a thread puts its frame into    *)
(* k's queue; what a step does to a stream that goes on.                   *)
Kept(k) == LET b == browser[stream[k].client]
               new == browser'[stream[k].client]
           IN /\ new.mirror = b.mirror /\ new.buffer = b.buffer
              /\ new.buffering = b.buffering /\ new.heard = b.heard
Pushed(w, k) == /\ Brings(w, k) /\ stream'[k].queue = Append(stream[k].queue, thread[w].frame)
                /\ stream'[k].phase = stream[k].phase /\ stream'[k].last = stream[k].last
                /\ stream'[k].out = stream[k].out /\ stream'[k].since = stream[k].since
                /\ Kept(k)
Moves(k) == \/ stream'[k] = stream[k] /\ Kept(k)
            \/ \E w \in Writers : Pushed(w, k)
            \/ Streaming(k)

(* A stream that is followed was followed, or is new.                      *)
LEMMA NextFollows ==
  ASSUME TypeOK, Numbered, Listed, Shaped, [Next]_vars, NEW k \in Streams, Following(k)'
  PROVE  \/ Following(k) /\ stream'[k].client = stream[k].client /\ Moves(k)
         \/ /\ stream'[k].phase = "snapshot" /\ stream'[k].out = <<>> /\ stream'[k].queue = <<>>
            /\ stream'[k].since = Len(table) /\ table' = table /\ k \notin Range(subscribers)
<1> USE DEF counters, history, server
<1> DEFINE Goal == \/ Following(k) /\ stream'[k].client = stream[k].client /\ Moves(k)
                   \/ /\ stream'[k].phase = "snapshot" /\ stream'[k].out = <<>>
                      /\ stream'[k].queue = <<>> /\ stream'[k].since = Len(table)
                      /\ table' = table /\ k \notin Range(subscribers)
<1>0. \A j \in Streams : stream[j].client \in Clients
  BY PartsOK
<1>a. Connected(k)' /\ k \notin skipped' /\ stream'[k].phase \notin {"unopened", "closed"}
      /\ browser'[stream'[k].client].on = k
  BY DEF Following, Connected
<1>b. ASSUME stream'[k] = stream[k], browser' = browser, k \notin skipped PROVE Goal
  BY <1>a, <1>b DEF Following, Connected, Moves, Kept
<1>1. ASSUME NEW w \in Writers, NEW n \in Names, NEW to \in States \cup {Absent}, SetState(w, n, to)
      PROVE  Goal
  BY <1>a, <1>b, <1>1, Untouched
<1>2. ASSUME NEW w \in Writers, Noting(w) PROVE Goal
  <2>1. stream' = stream /\ browser' = browser /\ skipped' = skipped
    BY <1>2, NotingDoes
  <2> QED BY <1>a, <1>b, <2>1
<1>3. ASSUME NEW w \in Writers, PushOne(w) PROVE Goal
  <2>1. PICK j : j = subscribers[thread[w].at]
    OBVIOUS
  <2>2. /\ thread[w].step = "push" /\ thread[w].at \in 1 .. Len(subscribers)
        /\ stream'[k].client = stream[k].client /\ stream'[k].phase = stream[k].phase
        /\ stream'[k].last = stream[k].last /\ stream'[k].out = stream[k].out
        /\ stream'[k].since = stream[k].since
        /\ k # j => stream'[k] = stream[k]
        /\ \/ /\ stream'[j].queue = Append(stream[j].queue, thread[w].frame)
              /\ skipped' = skipped
           \/ stream' = stream /\ skipped' = skipped \cup {j}
    BY <1>3, <2>1, PushOneDoes
  <2>3. browser' = browser
    BY <1>3, Untouched
  <2>4. k \notin skipped
    BY <1>a, <2>2
  <2>5. CASE k # j
    BY <1>b, <2>2, <2>3, <2>4, <2>5
  <2>6. CASE k = j
    <3>1. stream'[k].queue = Append(stream[k].queue, thread[w].frame)
      BY <1>a, <2>2, <2>6
    <3>2. subscribers \in Seq(Streams) /\ IsInjective(subscribers)
      BY DEF TypeOK
    <3>3. \A i \in 1 .. Len(subscribers) :
             subscribers[i] \in Range(subscribers) /\ IndexIn(subscribers, subscribers[i]) = i
      BY <3>2, IndexOK
    <3>b. PICK i \in 1 .. Len(subscribers) : i = thread[w].at
      BY <2>2
    <3>c. k = subscribers[i]
      BY <2>1, <2>6, <3>b
    <3>4. k \in Range(subscribers) /\ IndexIn(subscribers, k) = thread[w].at
      BY <3>3, <3>b, <3>c
    <3>5. thread[w].at <= IndexIn(subscribers, k)
      BY <2>2, <3>4, PartsOK
    <3>6. Brings(w, k)
      BY <2>2, <3>4, <3>5 DEF Brings
    <3>7. Pushed(w, k)
      BY <2>2, <2>3, <3>1, <3>6 DEF Pushed, Kept
    <3>8. Following(k)
      BY <1>a, <2>2, <2>3, <2>4 DEF Following, Connected
    <3> QED BY <2>2, <3>7, <3>8 DEF Moves
  <2> QED BY <2>5, <2>6
<1>4. ASSUME NEW w \in Writers, PushEnds(w) PROVE Goal
  <2>1. stream' = stream /\ browser' = browser
    BY <1>4, Untouched
  <2>2. skipped' = skipped \cup PassedOver(subscribers')
    BY <1>4 DEF PushEnds
  <2> QED BY <1>a, <1>b, <2>1, <2>2
<1>5. ASSUME CliNotify \/ RelayLost PROVE Goal
  BY <1>a, <1>b, <1>5, Untouched
<1>7. ASSUME NEW c \in Clients, Connect(c) PROVE Goal
  <2>1. /\ \A j \in Streams : j # opened' => stream'[j] = stream[j]
        /\ stream'[opened'].phase = "snapshot"
        /\ stream'[opened'].out = <<>> /\ stream'[opened'].queue = <<>>
        /\ stream'[opened'].since = Len(table)
        /\ opened' \notin Range(subscribers)
        /\ \A d \in Clients : d # c => browser'[d] = browser[d]
        /\ browser'[c].on = opened'
    BY <1>7, ConnectDoes
  <2>2. skipped' = skipped /\ table' = table
    BY <1>7, Untouched
  <2>3. CASE k # opened'
    <3>1. stream'[k] = stream[k] /\ stream[k].client # c
      BY <1>a, <2>1, <2>3
    <3>2. browser'[stream[k].client] = browser[stream[k].client]
      BY <1>0, <2>1, <3>1
    <3> QED BY <1>a, <2>2, <3>1, <3>2 DEF Following, Connected, Moves, Kept
  <2>4. CASE k = opened'
    BY <2>1, <2>2, <2>4
  <2> QED BY <2>3, <2>4
<1>8. ASSUME NEW c \in Clients, Disconnect(c) PROVE Goal
  <2>1. browser'[c].on = 0 /\ \A d \in Clients : d # c => browser'[d] = browser[d]
    BY <1>8, DisconnectDoes
  <2>2. UNCHANGED <<server, table, relays, emitted, crashes, history>>
    BY <1>8, Untouched
  <2>3. k # 0
    BY BoundsAssumption DEF Streams
  <2>4. stream'[k] = stream[k] /\ stream[k].client # c
    BY <1>a, <2>1, <2>2, <2>3
  <2>5. browser'[stream[k].client] = browser[stream[k].client]
    BY <1>0, <2>1, <2>4
  <2> QED BY <1>a, <2>2, <2>4, <2>5 DEF Following, Connected, Moves, Kept
<1>c. ASSUME NEW j \in Streams, Connected(j), skipped' = skipped,
             \A i \in Streams : i # j => stream'[i] = stream[i],
             stream'[j].client = stream[j].client,
             \A d \in Clients : d # stream[j].client => browser'[d] = browser[d],
             \A d \in Clients : browser'[d].on = browser[d].on,
             Streaming(j)
      PROVE  Goal
  <2>1. stream'[k].client = stream[k].client
    BY <1>c
  <2>2. stream[k].phase \notin {"unopened", "closed"} => Connected(k) /\ Following(k)
    BY <1>0, <1>a, <1>c, <2>1 DEF Connected, Following
  <2>3. CASE k = j
    BY <1>c, <2>1, <2>2, <2>3 DEF Connected, Moves
  <2>4. CASE k # j
    <3>1. stream'[k] = stream[k]
      BY <1>c, <2>4
    <3>2. Connected(k) /\ Following(k)
      BY <1>a, <2>2, <3>1
    <3>3. stream[k].client # stream[j].client
      BY <1>c, <2>4, <3>2, OneStream
    <3>4. browser'[stream[k].client] = browser[stream[k].client]
      BY <1>0, <1>c, <3>3
    <3> QED BY <2>1, <3>1, <3>2, <3>4 DEF Moves, Kept
  <2> QED BY <2>3, <2>4
<1>9. ASSUME NEW j \in Streams, Snapshot(j) PROVE Goal
  <2>1. /\ Connected(j) /\ \A i \in Streams : i # j => stream'[i] = stream[i]
        /\ stream'[j].client = stream[j].client
        /\ \A d \in Clients : d # stream[j].client => browser'[d] = browser[d]
        /\ \A d \in Clients : browser'[d].on = browser[d].on
    BY <1>9, SnapshotDoes
  <2>2. skipped' = skipped
    BY <1>9, Untouched
  <2>3. Streaming(j)
    BY <1>9 DEF Streaming
  <2> QED BY <1>c, <2>1, <2>2, <2>3
<1>10. ASSUME NEW j \in Streams, SendOne(j) PROVE Goal
  <2>1. /\ Connected(j) /\ \A i \in Streams : i # j => stream'[i] = stream[i]
        /\ stream'[j].client = stream[j].client
        /\ Receive(j, stream[j].out[1]) /\ stream[j].out[1] \in Frame
        /\ stream[j].out[1].kind = "end" => browser[stream[j].client].buffering
    BY <1>10, SendOneDoes
  <2>2. /\ \A d \in Clients : browser'[d].on = browser[d].on
        /\ \A d \in Clients : d # stream[j].client => browser'[d] = browser[d]
    BY <2>1, ReceiveDoes
  <2>3. skipped' = skipped
    BY <1>10, Untouched
  <2>4. Streaming(j)
    BY <1>10 DEF Streaming
  <2> QED BY <1>c, <2>1, <2>2, <2>3, <2>4
<1>11. ASSUME NEW j \in Streams, Replay(j) PROVE Goal
  <2>1. /\ Connected(j) /\ \A i \in Streams : i # j => stream'[i] = stream[i]
        /\ stream'[j].client = stream[j].client
    BY <1>11, ReplayDoes
  <2>2. browser' = browser /\ skipped' = skipped
    BY <1>11, Untouched
  <2>3. Streaming(j)
    BY <1>11 DEF Streaming
  <2> QED BY <1>c, <2>1, <2>2, <2>3
<1>12. ASSUME NEW j \in Streams, SendLive(j) PROVE Goal
  <2>1. /\ Connected(j) /\ \A i \in Streams : i # j => stream'[i] = stream[i]
        /\ stream'[j].client = stream[j].client
        /\ Receive(j, stream[j].queue[1]) /\ stream[j].queue[1] \in Frame
        /\ stream[j].queue[1].kind # "end"
    BY <1>12, SendLiveDoes
  <2>2. /\ \A d \in Clients : browser'[d].on = browser[d].on
        /\ \A d \in Clients : d # stream[j].client => browser'[d] = browser[d]
    BY <2>1, ReceiveDoes
  <2>3. skipped' = skipped
    BY <1>12, Untouched
  <2>4. Streaming(j)
    BY <1>12 DEF Streaming
  <2> QED BY <1>c, <2>1, <2>2, <2>3, <2>4
<1>13. ASSUME NEW j \in Streams, StreamEnds(j) PROVE Goal
  <2>1. stream'[j] = Closed /\ \A i \in Streams : i # j => stream'[i] = stream[i]
    BY <1>13, StreamEndsDoes
  <2>2. browser' = browser
    BY <1>13, Untouched
  <2>3. skipped' = skipped \cup PassedOver(subscribers')
    BY <1>13 DEF StreamEnds
  <2>4. k # j
    BY <1>a, <2>1, NullsOK
  <2> QED BY <1>a, <1>b, <2>1, <2>2, <2>3, <2>4
<1>14. ASSUME Restart PROVE Goal
  <2>1. \A j \in Streams : stream'[j] \in {Unopened, Closed}
    BY <1>14, RestartDoes
  <2> QED BY <1>a, <2>1, NullsOK
<1>15. ASSUME UNCHANGED vars PROVE Goal
  <2>1. stream' = stream /\ browser' = browser /\ skipped' = skipped
    BY <1>15 DEF vars
  <2> QED BY <1>a, <1>b, <2>1
<1> HIDE DEF Goal
<1>16. Goal
  BY <1>1, <1>2, <1>3, <1>4, <1>5, <1>7, <1>8, <1>9, <1>10, <1>11, <1>12, <1>13, <1>14,
     <1>15 DEF Next, Emitting, Streaming, Noting
<1> QED BY <1>16 DEF Goal

(* A list that shrinks: what was still to come to k comes, or k is passed  *)
(* over.                                                                   *)
LEMMA ShrinksTo ==
  ASSUME NEW k \in Range(subscribers'), NEW w \in Writers, Brings(w, k), thread[w].at \in Nat,
         subscribers' \in Seq(Streams), TypeOK, k \notin PassedOver(subscribers')
  PROVE  thread[w].at <= IndexIn(subscribers', k)
<1>1. IndexIn(subscribers, k) >= thread[w].at => ~(IndexIn(subscribers', k) < thread[w].at)
  BY DEF PassedOver, Brings
<1>2. subscribers \in Seq(Streams) /\ k \in Range(subscribers)
  BY DEF TypeOK, Brings
<1>3. IndexIn(subscribers, k) \in 1 .. Len(subscribers) /\ Len(subscribers) \in Nat
  BY <1>2, IndexOK, PartsOK
<1>4. IndexIn(subscribers', k) \in 1 .. Len(subscribers') /\ Len(subscribers') \in Nat
  BY IndexOK, LenProperties
<1>5. thread[w].at <= IndexIn(subscribers, k)
  BY DEF Brings
<1>6. IndexIn(subscribers, k) \in Nat /\ IndexIn(subscribers', k) \in Nat
  BY <1>3, <1>4
<1> QED BY <1>1, <1>5, <1>6

(* A frame that a thread brings to a stream reaches its queue, or is still *)
(* on its way.                                                             *)
LEMMA NextBrings ==
  ASSUME TypeOK, Numbered, Listed, Shaped, [Next]_vars, NEW k \in Streams,
         Following(k), Following(k)', NEW w \in Writers, Brings(w, k)
  PROVE  \/ Brings(w, k)' /\ thread'[w].frame = thread[w].frame
         \/ Pushed(w, k)
<1> USE DEF counters, history, server
<1> DEFINE Still == Brings(w, k)' /\ thread'[w].frame = thread[w].frame
<1>0. thread[w].at \in Nat \ {0} /\ subscribers \in Seq(Streams) /\ IsInjective(subscribers)
  BY PartsOK DEF TypeOK
<1>a. /\ thread[w].step = "push" /\ k \in Range(subscribers)
      /\ thread[w].at <= IndexIn(subscribers, k)
  BY DEF Brings
<1>b. k \notin skipped' /\ k \in Range(subscribers) /\ stream'[k].phase \notin {"unopened", "closed"}
      /\ Connected(k)'
  BY <1>a DEF Following, Connected
<1>c. ASSUME thread'[w] = thread[w], subscribers' = subscribers PROVE Still
  BY <1>a, <1>c DEF Brings
<1>1. ASSUME NEW v \in Writers, NEW n \in Names, NEW to \in States \cup {Absent}, SetState(v, n, to)
      PROVE  Still
  <2>1. thread[v].step = "idle" /\ \A u \in Writers : u # v => thread'[u] = thread[u]
    BY <1>1, SetStateDoes
  <2>2. thread'[w] = thread[w]
    BY <1>a, <2>1
  <2>3. subscribers' = subscribers
    BY <1>1, Untouched
  <2> QED BY <1>c, <2>2, <2>3
<1>2. ASSUME NEW v \in Writers, Noting(v) PROVE Still
  <2>1. thread[v].step = "idle" /\ \A u \in Writers : u # v => thread'[u] = thread[u]
    BY <1>2, NotingDoes
  <2>2. thread'[w] = thread[w]
    BY <1>a, <2>1
  <2>3. subscribers' = subscribers
    BY <1>2, NotingDoes
  <2> QED BY <1>c, <2>2, <2>3
<1>3. ASSUME NEW v \in Writers, PushOne(v) PROVE Still \/ Pushed(w, k)
  <2>1. PICK j : j = subscribers[thread[v].at]
    OBVIOUS
  <2>2. /\ thread[v].step = "push" /\ thread[v].at \in 1 .. Len(subscribers)
        /\ \A u \in Writers : u # v => thread'[u] = thread[u]
        /\ thread'[v].step = "push" /\ thread'[v].frame = thread[v].frame
        /\ thread'[v].at = thread[v].at + 1
        /\ stream'[k].phase = stream[k].phase
        /\ stream'[k].last = stream[k].last /\ stream'[k].out = stream[k].out
        /\ stream'[k].since = stream[k].since
        /\ \/ /\ stream'[j].queue = Append(stream[j].queue, thread[v].frame)
              /\ skipped' = skipped
           \/ stream' = stream /\ skipped' = skipped \cup {j}
    BY <1>3, <2>1, PushOneDoes
  <2>3. browser' = browser /\ subscribers' = subscribers
    BY <1>3, Untouched
  <2>4. CASE v # w
    BY <1>c, <2>2, <2>3, <2>4
  <2>5. CASE v = w /\ k = j
    <3>1. stream'[k].queue = Append(stream[k].queue, thread[w].frame)
      BY <1>b, <2>2, <2>5
    <3> QED BY <2>2, <2>3, <3>1 DEF Pushed, Kept
  <2>6. CASE v = w /\ k # j
    <3>1. IndexIn(subscribers, k) \in 1 .. Len(subscribers) /\ subscribers[IndexIn(subscribers, k)] = k
      BY <1>0, <1>a, IndexOK
    <3>2. IndexIn(subscribers, k) # thread[w].at
      BY <2>1, <2>6, <3>1
    <3>3. IndexIn(subscribers, k) \in Nat
      BY <3>1
    <3>4. thread[w].at + 1 <= IndexIn(subscribers, k)
      BY <1>0, <1>a, <3>2, <3>3
    <3> QED BY <1>a, <2>2, <2>3, <2>6, <3>4 DEF Brings
  <2> QED BY <2>4, <2>5, <2>6
<1>4. ASSUME NEW v \in Writers, PushEnds(v) PROVE Still
  <2>1. /\ thread[v].at > Len(subscribers)
        /\ \A u \in Writers : u # v => thread'[u] = thread[u]
        /\ subscribers' \in Seq(Streams)
        /\ \A j : j \in Range(subscribers') <=> j \in Range(subscribers) /\ j \notin thread[v].full
    BY <1>4, PushEndsDoes
  <2>2. skipped' = skipped \cup PassedOver(subscribers')
    BY <1>4 DEF PushEnds
  <2>3. thread[v].full \subseteq skipped
    BY DEF Listed
  <2>4. k \in Range(subscribers') /\ k \notin PassedOver(subscribers')
    BY <1>b, <2>1, <2>2, <2>3
  <2>5. thread[w].at <= IndexIn(subscribers', k)
    BY <1>0, <2>1, <2>4, ShrinksTo
  <2>6. v # w
    <3>1. IndexIn(subscribers, k) \in 1 .. Len(subscribers) /\ Len(subscribers) \in Nat
      BY <1>0, <1>a, IndexOK, PartsOK
    <3> QED BY <1>0, <1>a, <2>1, <3>1
  <2> QED BY <1>a, <2>1, <2>4, <2>5, <2>6 DEF Brings
<1>7. ASSUME NEW c \in Clients, Connect(c) PROVE Still
  <2>1. /\ Range(subscribers') = Range(subscribers) \cup {opened'}
        /\ \A j \in Range(subscribers) : IndexIn(subscribers', j) = IndexIn(subscribers, j)
    BY <1>7, ConnectDoes
  <2>2. thread' = thread
    BY <1>7, Untouched
  <2> QED BY <1>a, <2>1, <2>2 DEF Brings
<1>13. ASSUME NEW j \in Streams, StreamEnds(j) PROVE Still
  <2>1. /\ stream'[j] = Closed /\ subscribers' \in Seq(Streams)
        /\ \A i : i \in Range(subscribers') <=> i \in Range(subscribers) /\ i # j
    BY <1>13, StreamEndsDoes
  <2>2. skipped' = skipped \cup PassedOver(subscribers')
    BY <1>13 DEF StreamEnds
  <2>3. k # j
    BY <1>b, <2>1, NullsOK
  <2>4. k \in Range(subscribers') /\ k \notin PassedOver(subscribers')
    BY <1>b, <2>1, <2>2, <2>3
  <2>5. thread[w].at <= IndexIn(subscribers', k)
    BY <1>0, <2>1, <2>4, ShrinksTo
  <2>6. thread' = thread
    BY <1>13, Untouched
  <2> QED BY <1>a, <2>4, <2>5, <2>6 DEF Brings
<1>14. ASSUME Restart PROVE Still
  <2>1. \A i \in Streams : stream'[i] \in {Unopened, Closed}
    BY <1>14, RestartDoes
  <2> QED BY <1>b, <2>1, NullsOK
<1>5. ASSUME thread' = thread, subscribers' = subscribers PROVE Still
  BY <1>c, <1>5
<1>6. ASSUME CliNotify \/ RelayLost PROVE Still
  BY <1>5, <1>6, Untouched
<1>8. ASSUME NEW c \in Clients, Disconnect(c) PROVE Still
  BY <1>5, <1>8, Untouched
<1>9. ASSUME NEW j \in Streams, Streaming(j) PROVE Still
  BY <1>5, <1>9, Untouched DEF Streaming
<1>10. ASSUME UNCHANGED vars PROVE Still
  BY <1>5, <1>10 DEF vars
<1> HIDE DEF Still
<1>16. Still \/ Pushed(w, k)
  BY <1>1, <1>2, <1>3, <1>4, <1>6, <1>7, <1>8, <1>9, <1>10, <1>13, <1>14 DEF Next, Emitting, Noting
<1> QED BY <1>16 DEF Still

(* A new state of a session is brought to every stream on the list.        *)
LEMMA NextCache ==
  ASSUME TypeOK, Numbered, Listed, Shaped, [Next]_vars, NEW k \in Streams,
         Following(k)', NEW n \in Names \ raced'
  PROVE  \/ n \notin raced /\ cache'[n] = cache[n]
         \/ \E w \in Writers : Brings(w, k)' /\ Tells(thread'[w].frame, n)
<1> USE DEF counters, history, server
<1> DEFINE Same == n \notin raced /\ cache'[n] = cache[n]
<1>1. ASSUME NEW w \in Writers, NEW m \in Names, NEW to \in States \cup {Absent}, SetState(w, m, to)
      PROVE  Same \/ (Brings(w, k)' /\ Tells(thread'[w].frame, n))
  <2>1. /\ cache' = [cache EXCEPT ![m] = to]
        /\ thread'[w].step = "push" /\ thread'[w].at = 1
        /\ thread'[w].frame = [kind |-> "state", id |-> emitted', name |-> m, to |-> to]
        /\ raced' = IF \E v \in Writers : Telling(v, m) THEN raced \cup {m} ELSE raced
    BY <1>1, SetStateDoes
  <2>2. subscribers' = subscribers /\ stream' = stream /\ browser' = browser /\ skipped' = skipped
    BY <1>1, Untouched
  <2>3. n \notin raced
    BY <2>1
  <2>4. CASE n # m
    BY <2>1, <2>3, <2>4 DEF TypeOK, Map
  <2>5. CASE n = m
    <3>1. Following(k)
      BY <2>2 DEF Following, Connected
    <3>2. k \in Range(subscribers) /\ subscribers \in Seq(Streams)
      BY <3>1 DEF Listed, TypeOK
    <3>3. IndexIn(subscribers, k) \in 1 .. Len(subscribers) /\ Len(subscribers) \in Nat
      BY <3>2, IndexOK, PartsOK
    <3>4. thread'[w].at <= IndexIn(subscribers', k)
      BY <2>1, <2>2, <3>3
    <3>5. Brings(w, k)'
      BY <2>1, <2>2, <3>2, <3>4 DEF Brings
    <3>6. Tells(thread'[w].frame, n)
      BY <2>1, <2>5 DEF Tells
    <3> QED BY <3>5, <3>6
  <2> QED BY <2>4, <2>5
<1>2. ASSUME NEW w \in Writers, Noting(w) PROVE Same
  <2>1. UNCHANGED <<cache, subscribers, stream, browser, opened, crashes, history>>
    BY <1>2, NotingDoes
  <2> QED BY <2>1
<1>3. ASSUME cache' = cache, raced' = raced PROVE Same
  BY <1>3
<1>4. ASSUME NEW w \in Writers, Emitting(w) PROVE Same
  BY <1>3, <1>4, Untouched DEF Emitting
<1>6. ASSUME CliNotify \/ RelayLost PROVE Same
  BY <1>3, <1>6, Untouched
<1>8. ASSUME NEW c \in Clients, Connect(c) \/ Disconnect(c) PROVE Same
  BY <1>3, <1>8, Untouched
<1>9. ASSUME NEW j \in Streams, Streaming(j) \/ StreamEnds(j) PROVE Same
  BY <1>3, <1>9, Untouched DEF Streaming
<1>10. ASSUME UNCHANGED vars PROVE Same
  BY <1>3, <1>10 DEF vars
<1>14. ASSUME Restart PROVE FALSE
  <2>1. \A i \in Streams : stream'[i] \in {Unopened, Closed}
    BY <1>14, RestartDoes
  <2> QED BY <2>1, NullsOK DEF Following, Connected
<1> HIDE DEF Same
<1>16. Same \/ \E w \in Writers : Brings(w, k)' /\ Tells(thread'[w].frame, n)
  BY <1>1, <1>2, <1>4, <1>6, <1>8, <1>9, <1>10, <1>14 DEF Next, Noting
<1> QED BY <1>16 DEF Same

(* Every step keeps what a browser will see.                               *)
LEMMA NextMirrors ==
  ASSUME TypeOK, Numbered, Listed, Shaped, Current, Mirrors, [Next]_vars
  PROVE  Mirrors'
<1> SUFFICES ASSUME NEW k \in Streams, Following(k)', NEW n \in Names \ raced'
             PROVE  Awaited(k, n)' \/ Sees(k, n)'
  BY DEF Mirrors
<1> DEFINE Waits == \E w \in Writers : Brings(w, k)' /\ Tells(thread'[w].frame, n)
           Seen  == \/ LastTells(stream'[k].queue, n, cache'[n])
                    \/ /\ Silent(stream'[k].queue, n)
                       /\ \/ stream'[k].phase = "snapshot"
                          \/ LastTells(stream'[k].out, n, cache'[n])
                          \/ /\ Silent(stream'[k].out, n)
                             /\ Shown(browser'[stream'[k].client], n) = cache'[n]
<1>a. Waits \/ Seen => Awaited(k, n)' \/ Sees(k, n)'
  BY ComingIs DEF Awaited, Sees
<1>b. Awaited(k, n) => \E w \in Writers : Brings(w, k) /\ Tells(thread[w].frame, n)
  BY ComingIs DEF Awaited
<1>c. /\ stream[k].client \in Clients /\ stream[k].out \in Seq(Frame) /\ Len(stream[k].out) \in Nat
      /\ stream[k].queue \in Seq(Frame) /\ Len(stream[k].queue) \in Nat
  BY PartsOK
<1>1. \/ Following(k) /\ stream'[k].client = stream[k].client /\ Moves(k)
      \/ stream'[k].phase = "snapshot" /\ stream'[k].queue = <<>>
  BY NextFollows
<1>2. CASE stream'[k].phase = "snapshot" /\ stream'[k].queue = <<>>
  <2>1. Silent(stream'[k].queue, n)
    BY <1>2, EmptySeq DEF Silent
  <2> QED BY <1>2, <1>a, <2>1
<1>3. CASE Following(k) /\ stream'[k].client = stream[k].client /\ Moves(k)
  <2>1. (n \notin raced /\ cache'[n] = cache[n]) \/ Waits
    BY NextCache
  <2> SUFFICES ASSUME n \notin raced, cache'[n] = cache[n] PROVE Waits \/ Seen
    BY <1>a, <2>1
  <2>2. Awaited(k, n) \/ Sees(k, n)
    BY <1>3 DEF Mirrors
  <2>a. \A w \in Writers : Brings(w, k) /\ Tells(thread[w].frame, n) => thread[w].frame.to = cache[n]
    BY DEF Brings, Tells, Telling, Current
  <2>b. \A w \in Writers : Pushed(w, k) /\ Tells(thread[w].frame, n) => Seen
    <3> SUFFICES ASSUME NEW w \in Writers, Pushed(w, k), Tells(thread[w].frame, n)
                 PROVE  LastTells(stream'[k].queue, n, cache'[n])
      OBVIOUS
    <3>1. stream'[k].queue = Append(stream[k].queue, thread[w].frame) /\ thread[w].frame.to = cache[n]
      BY <2>a DEF Pushed
    <3>2. thread[w].frame \in Frame
      BY PartsOK
    <3>3. LastTells(Append(stream[k].queue, thread[w].frame), n, thread[w].frame.to)
      BY <1>c, <3>2, TellsMore
    <3> QED BY <3>1, <3>3
  <2>3. ASSUME Awaited(k, n) PROVE Waits \/ Seen
    <3>1. PICK w \in Writers : Brings(w, k) /\ Tells(thread[w].frame, n)
      BY <1>b, <2>3
    <3>2. (Brings(w, k)' /\ thread'[w].frame = thread[w].frame) \/ Pushed(w, k)
      BY <1>3, <3>1, NextBrings
    <3> QED BY <2>b, <3>1, <3>2
  <2>4. ASSUME Sees(k, n) PROVE Seen
    <3>a. \/ LastTells(stream[k].queue, n, cache[n])
          \/ /\ Silent(stream[k].queue, n)
             /\ \/ stream[k].phase = "snapshot"
                \/ LastTells(stream[k].out, n, cache[n])
                \/ /\ Silent(stream[k].out, n)
                   /\ Shown(browser[stream[k].client], n) = cache[n]
      BY <2>4 DEF Sees
    <3>b. Kept(k) => Shown(browser'[stream'[k].client], n) = Shown(browser[stream[k].client], n)
      BY <1>3 DEF Kept, Shown
    <3>1. CASE stream'[k] = stream[k] /\ Kept(k)
      BY <3>1, <3>a, <3>b
    <3>2. ASSUME NEW w \in Writers, Pushed(w, k) PROVE Seen
      <4>1. CASE Tells(thread[w].frame, n)
        BY <2>b, <3>2, <4>1
      <4>2. CASE ~Tells(thread[w].frame, n)
        <5>1. /\ stream'[k].queue = Append(stream[k].queue, thread[w].frame)
              /\ stream'[k].phase = stream[k].phase /\ stream'[k].out = stream[k].out /\ Kept(k)
          BY <3>2 DEF Pushed
        <5>2. thread[w].frame \in Frame
          BY PartsOK
        <5>3. /\ Silent(stream[k].queue, n) => Silent(Append(stream[k].queue, thread[w].frame), n)
              /\ LastTells(stream[k].queue, n, cache[n]) =>
                   LastTells(Append(stream[k].queue, thread[w].frame), n, cache[n])
          BY <1>c, <4>2, <5>2, TellsMore
        <5> QED BY <3>a, <3>b, <5>1, <5>3
      <4> QED BY <4>1, <4>2
    <3>3. CASE Snapshot(k)
      <4>1. /\ stream'[k].queue = stream[k].queue
            /\ Len(SnapshotRows) \in Nat /\ Len(stream'[k].out) = Len(SnapshotRows) + 1
            /\ \A i \in 1 .. Len(SnapshotRows) : stream'[k].out[i] = SnapshotRows[i]
            /\ stream'[k].out[Len(SnapshotRows) + 1] = EndFrame
            /\ browser'[stream[k].client].buffering = TRUE
            /\ browser'[stream[k].client].buffer = EmptyMap
        BY <3>3, SnapshotDoes
      <4>2. cache \in Map
        BY DEF TypeOK
      <4>3. /\ \A i \in 1 .. Len(SnapshotRows) :
                 \E m \in Names : SnapshotRows[i] = StateRow(m) /\ cache[m] # Absent
            /\ \A m \in Names : cache[m] # Absent =>
                 \E i \in 1 .. Len(SnapshotRows) : SnapshotRows[i] = StateRow(m)
            /\ \A i, j \in 1 .. Len(SnapshotRows) : SnapshotRows[i].name = SnapshotRows[j].name => i = j
        BY <4>2, RowsOK
      <4>4. PICK r \in Nat : r = Len(SnapshotRows)
        BY <4>1
      <4>5. PICK rows : rows = SnapshotRows
        OBVIOUS
      <4>6. PICK out : out = stream'[k].out
        OBVIOUS
      <4>7. /\ Len(out) = r + 1 /\ \A i \in 1 .. r : out[i] = rows[i]
            /\ ~Tells(out[r + 1], n)
        BY <4>1, <4>4, <4>5, <4>6 DEF EndFrame, Tells
      <4>8. \A i \in 1 .. r + 1 : i \in 1 .. r \/ i = r + 1
        OBVIOUS
      <4>c. \A m : StateRow(m).kind = "state" /\ StateRow(m).name = m /\ StateRow(m).to = cache[m]
        BY DEF StateRow
      <4>9. CASE cache[n] = Absent
        <5>1. \A i \in 1 .. r : ~Tells(rows[i], n)
          BY <4>3, <4>4, <4>5, <4>9, <4>c DEF Tells
        <5>2. Silent(out, n)
          BY <4>7, <4>8, <5>1 DEF Silent
        <5>3. Shown(browser'[stream'[k].client], n) = cache'[n]
          BY <1>3, <4>1, <4>9 DEF Shown, EmptyMap
        <5> QED BY <3>a, <4>1, <4>6, <5>2, <5>3
      <4>10. CASE cache[n] # Absent
        <5>1. PICK i \in 1 .. r : rows[i] = StateRow(n)
          BY <4>3, <4>4, <4>5, <4>10
        <5>2. \A j \in 1 .. r : Tells(rows[j], n) => j = i
          BY <4>3, <4>4, <4>5, <4>c, <5>1 DEF Tells
        <5>3. Tells(out[i], n) /\ out[i].to = cache[n] /\ i \in 1 .. Len(out)
          BY <4>7, <4>c, <5>1 DEF Tells
        <5>4. \A j \in 1 .. r + 1 : j > i => ~Tells(out[j], n)
          BY <4>7, <4>8, <5>2
        <5>5. LastTells(out, n, cache[n])
          BY <4>7, <5>3, <5>4 DEF LastTells
        <5> QED BY <3>a, <4>1, <4>6, <5>5
      <4> QED BY <4>9, <4>10
    <3>4. CASE SendOne(k)
      <4>1. /\ stream[k].out[1] \in Frame /\ Receive(k, stream[k].out[1])
            /\ Len(stream[k].out) \in Nat \ {0} /\ stream[k].out # <<>>
            /\ stream[k].out[1].kind = "end" => browser[stream[k].client].buffering
            /\ stream'[k].phase = stream[k].phase /\ stream'[k].queue = stream[k].queue
            /\ Len(stream'[k].out) = Len(stream[k].out) - 1
            /\ \A i \in 1 .. Len(stream[k].out) - 1 : stream'[k].out[i] = stream[k].out[i + 1]
        BY <3>4, SendOneDoes
      <4>2. Shown(browser'[stream[k].client], n) =
              IF Tells(stream[k].out[1], n) THEN stream[k].out[1].to
                                            ELSE Shown(browser[stream[k].client], n)
        <5>1. stream[k].out[1].kind = "end" => browser[stream[k].client].buffering
          BY <4>1
        <5>2. PICK f \in Frame : f = stream[k].out[1]
          BY <4>1
        <5>3. Receive(k, f)
          BY <4>1, <5>2
        <5>4. f.kind = "end" => browser[stream[k].client].buffering
          BY <5>1, <5>2
        <5>5. \A m \in Names : Shown(browser'[stream[k].client], m) =
                IF Tells(f, m) THEN f.to ELSE Shown(browser[stream[k].client], m)
          BY <5>3, <5>4, ReceiveDoes
        <5> QED BY <5>2, <5>5
      <4>3. /\ Silent(stream[k].out, n) => ~Tells(stream[k].out[1], n) /\ Silent(stream'[k].out, n)
            /\ LastTells(stream[k].out, n, cache[n]) =>
                 \/ LastTells(stream'[k].out, n, cache[n])
                 \/ /\ Silent(stream'[k].out, n) /\ Tells(stream[k].out[1], n)
                    /\ stream[k].out[1].to = cache[n]
        <5>1. PICK m \in Nat \ {0} : m = Len(stream[k].out)
          BY <4>1
        <5>2. PICK q : q = stream[k].out
          OBVIOUS
        <5>3. PICK r : r = stream'[k].out
          OBVIOUS
        <5>4. Len(q) = m
          BY <5>1, <5>2
        <5>5. Len(r) = m - 1
          BY <4>1, <5>1, <5>3
        <5>6. \A i \in 1 .. m - 1 : r[i] = q[i + 1]
          BY <4>1, <5>1, <5>2, <5>3
        <5>7. /\ Silent(q, n) => ~Tells(q[1], n) /\ Silent(r, n)
              /\ LastTells(q, n, cache[n]) =>
                   \/ LastTells(r, n, cache[n])
                   \/ Silent(r, n) /\ Tells(q[1], n) /\ q[1].to = cache[n]
          BY <5>4, <5>5, <5>6, TellsRest
        <5> QED BY <5>2, <5>3, <5>7
      <4>4. stream[k].phase # "snapshot"
        BY <1>3, <4>1 DEF Shaped, Framed, Following
      <4> QED BY <1>3, <3>a, <4>1, <4>2, <4>3, <4>4
    <3>5. CASE Replay(k)
      <4>1. /\ stream[k].phase = "resume" /\ stream[k].out = <<>>
            /\ stream'[k].queue = stream[k].queue
            /\ stream'[k].phase = "live" /\ stream'[k].out = ReplaySince(stream[k].last)
        BY <3>5, ReplayDoes
      <4>2. browser' = browser
        BY <3>5, Untouched
      <4>3. stream[k].last \in Ids \cup {0}
        BY PartsOK
      <4>4. \A j \in 1 .. Len(ReplaySince(stream[k].last)) : \E i \in 1 .. Len(table) :
              ReplaySince(stream[k].last)[j] = NoteOf(i)
        BY <4>3, ReplayOK
      <4>5. \A i : ~Tells(NoteOf(i), n)
        BY DEF Tells, NoteOf
      <4>6. Silent(stream'[k].out, n)
        BY <4>1, <4>4, <4>5 DEF Silent
      <4>7. ~LastTells(stream[k].out, n, cache[n])
        BY <4>1, EmptySeq DEF LastTells
      <4> QED BY <1>3, <3>a, <4>1, <4>2, <4>6, <4>7
    <3>6. CASE SendLive(k)
      <4>1. /\ stream[k].queue[1] \in Frame /\ Receive(k, stream[k].queue[1])
            /\ Len(stream[k].queue) \in Nat \ {0}
            /\ stream[k].queue[1].kind # "end"
            /\ stream[k].phase = "live" /\ stream[k].out = <<>> /\ stream'[k].out = stream[k].out
            /\ stream'[k].phase = stream[k].phase
            /\ Len(stream'[k].queue) = Len(stream[k].queue) - 1
            /\ \A i \in 1 .. Len(stream[k].queue) - 1 : stream'[k].queue[i] = stream[k].queue[i + 1]
        BY <3>6, SendLiveDoes
      <4>2. Shown(browser'[stream[k].client], n) =
              IF Tells(stream[k].queue[1], n) THEN stream[k].queue[1].to
                                              ELSE Shown(browser[stream[k].client], n)
        BY <4>1, ReceiveDoes
      <4>3. /\ Silent(stream[k].queue, n) => ~Tells(stream[k].queue[1], n) /\ Silent(stream'[k].queue, n)
            /\ LastTells(stream[k].queue, n, cache[n]) =>
                 \/ LastTells(stream'[k].queue, n, cache[n])
                 \/ /\ Silent(stream'[k].queue, n) /\ Tells(stream[k].queue[1], n)
                    /\ stream[k].queue[1].to = cache[n]
        <5>1. PICK m \in Nat \ {0} : m = Len(stream[k].queue)
          BY <4>1
        <5>2. PICK q : q = stream[k].queue
          OBVIOUS
        <5>3. PICK r : r = stream'[k].queue
          OBVIOUS
        <5>4. Len(q) = m
          BY <5>1, <5>2
        <5>5. Len(r) = m - 1
          BY <4>1, <5>1, <5>3
        <5>6. \A i \in 1 .. m - 1 : r[i] = q[i + 1]
          BY <4>1, <5>1, <5>2, <5>3
        <5>7. /\ Silent(q, n) => ~Tells(q[1], n) /\ Silent(r, n)
              /\ LastTells(q, n, cache[n]) =>
                   \/ LastTells(r, n, cache[n])
                   \/ Silent(r, n) /\ Tells(q[1], n) /\ q[1].to = cache[n]
          BY <5>4, <5>5, <5>6, TellsRest
        <5> QED BY <5>2, <5>3, <5>7
      <4>4. Silent(stream'[k].out, n) /\ ~LastTells(stream[k].out, n, cache[n])
        BY <4>1, EmptySeq DEF Silent, LastTells
      <4> QED BY <1>3, <3>a, <4>1, <4>2, <4>3, <4>4
    <3> QED BY <1>3, <3>1, <3>2, <3>3, <3>4, <3>5, <3>6 DEF Moves, Streaming
  <2> QED BY <2>2, <2>3, <2>4
<1> QED BY <1>1, <1>2, <1>3

-----------------------------------------------------------------------------
(* What a resumed stream is given.                                         *)

(* A row that a step adds has a new id, and unless another process wrote   *)
(* it, it is brought to every stream on the list.                          *)
LEMMA NextTable ==
  ASSUME TypeOK, Numbered, Listed, Shaped, [Next]_vars, NEW k \in Streams, Following(k)'
  PROVE  \/ table' = table
         \/ /\ stream' = stream /\ browser' = browser /\ Len(table') = Len(table) + 1
            /\ Following(k)
            /\ \A i \in 1 .. Len(table) : table'[i] = table[i]
            /\ table'[Len(table) + 1].id = emitted + 1
            /\ \/ table'[Len(table) + 1].cli
               \/ \E w \in Writers :
                    Brings(w, k)' /\ thread'[w].frame = [kind |-> "note", id |-> emitted + 1]
<1> USE DEF counters, history, server
<1> DEFINE Goal == \/ table' = table
                   \/ /\ stream' = stream /\ browser' = browser /\ Len(table') = Len(table) + 1
                      /\ Following(k)
                      /\ \A i \in 1 .. Len(table) : table'[i] = table[i]
                      /\ table'[Len(table) + 1].id = emitted + 1
                      /\ \/ table'[Len(table) + 1].cli
                         \/ \E w \in Writers :
                              /\ Brings(w, k)'
                              /\ thread'[w].frame = [kind |-> "note", id |-> emitted + 1]
<1>1. ASSUME NEW w \in Writers, NEW n \in Names, NEW to \in States \cup {Absent}, SetState(w, n, to)
      PROVE  Goal
  BY <1>1, Untouched
<1>a. ASSUME NEW r \in Row, table' = Append(table, r)
      PROVE  /\ Len(table') = Len(table) + 1 /\ \A i \in 1 .. Len(table) : table'[i] = table[i]
             /\ table'[Len(table) + 1] = r
  BY <1>a, AppendProperties DEF TypeOK
<1>2. ASSUME NEW w \in Writers, Noting(w) PROVE Goal
  <2>1. /\ thread'[w].step = "push" /\ thread'[w].at = 1 /\ emitted' = emitted + 1
        /\ UNCHANGED <<cache, subscribers, stream, browser, opened, crashes, history>>
        /\ \/ table' = table
           \/ /\ table' = Append(table, Recorded(emitted', table'[Len(table) + 1].topic, FALSE))
              /\ Recorded(emitted', table'[Len(table) + 1].topic, FALSE) \in Row
              /\ thread'[w].frame = [kind |-> "note", id |-> emitted']
    BY <1>2, NotingDoes
  <2>2. CASE table' = table
    BY <2>2
  <2>3. CASE table' # table
    <3>1. PICK r \in Row : r = Recorded(emitted', table'[Len(table) + 1].topic, FALSE)
      BY <2>1, <2>3
    <3>2. table' = Append(table, r) /\ r.id = emitted + 1
      BY <2>1, <2>3, <3>1 DEF Recorded
    <3>3. /\ Len(table') = Len(table) + 1 /\ \A i \in 1 .. Len(table) : table'[i] = table[i]
          /\ table'[Len(table) + 1] = r
      BY <1>a, <3>2
    <3>4. Following(k)
      BY <2>1 DEF Following, Connected
    <3>5. k \in Range(subscribers) /\ subscribers \in Seq(Streams)
      BY <3>4 DEF Listed, TypeOK
    <3>6. IndexIn(subscribers, k) \in 1 .. Len(subscribers) /\ Len(subscribers) \in Nat
      BY <3>5, IndexOK, PartsOK
    <3>7. thread'[w].at <= IndexIn(subscribers', k)
      BY <2>1, <3>6
    <3>8. Brings(w, k)'
      BY <2>1, <3>5, <3>7 DEF Brings
    <3>9. thread'[w].frame = [kind |-> "note", id |-> emitted + 1]
      BY <2>1, <2>3
    <3> QED BY <2>1, <3>2, <3>3, <3>4, <3>8, <3>9
  <2> QED BY <2>2, <2>3
<1>5. ASSUME CliNotify PROVE Goal
  <2>1. UNCHANGED <<server, browser, crashes, history>>
    BY <1>5, Untouched
  <2>2. /\ emitted' = emitted + 1 /\ table' = Append(table, Recorded(emitted', NoTopic, TRUE))
        /\ Recorded(emitted', NoTopic, TRUE) \in Row
    BY <1>5, CliDoes
  <2>3. PICK r \in Row : r = Recorded(emitted', NoTopic, TRUE)
    BY <2>2
  <2>4. table' = Append(table, r) /\ r.id = emitted + 1 /\ r.cli = TRUE
    BY <2>2, <2>3 DEF Recorded
  <2>5. /\ Len(table') = Len(table) + 1 /\ \A i \in 1 .. Len(table) : table'[i] = table[i]
        /\ table'[Len(table) + 1] = r
    BY <1>a, <2>4
  <2>6. Following(k)
    BY <2>1 DEF Following, Connected
  <2> QED BY <2>1, <2>4, <2>5, <2>6
<1>3. ASSUME table' = table PROVE Goal
  BY <1>3
<1>4. ASSUME NEW w \in Writers, Emitting(w) PROVE Goal
  BY <1>3, <1>4, Untouched DEF Emitting
<1>6. ASSUME RelayLost \/ Restart PROVE Goal
  BY <1>3, <1>6, Untouched
<1>8. ASSUME NEW c \in Clients, Connect(c) \/ Disconnect(c) PROVE Goal
  BY <1>3, <1>8, Untouched
<1>9. ASSUME NEW j \in Streams, Streaming(j) \/ StreamEnds(j) PROVE Goal
  BY <1>3, <1>9, Untouched DEF Streaming
<1>10. ASSUME UNCHANGED vars PROVE Goal
  BY <1>3, <1>10 DEF vars
<1> HIDE DEF Goal
<1>16. Goal
  BY <1>1, <1>2, <1>4, <1>5, <1>6, <1>8, <1>9, <1>10 DEF Next, Noting
<1> QED BY <1>16 DEF Goal

(* What is in a sequence is its first element or in the rest.              *)
LEMMA RestHas ==
  ASSUME NEW S, NEW q \in Seq(S), NEW r \in Seq(S), NEW m \in Nat \ {0}, Len(q) = m,
         Len(r) = m - 1, \A i \in 1 .. m - 1 : r[i] = q[i + 1], NEW x \in Range(q)
  PROVE  x = q[1] \/ x \in Range(r)
<1>1. PICK i \in 1 .. m : q[i] = x
  BY IndexOK
<1>2. CASE i # 1
  <2>1. PICK l \in 1 .. m - 1 : i = l + 1
    <3>1. i - 1 \in 1 .. m - 1 /\ i = (i - 1) + 1
      BY <1>2
    <3> QED BY <3>1
  <2>2. r[l] = x
    BY <1>1, <2>1
  <2>3. r[l] \in Range(r)
    BY IndexOK
  <2> QED BY <2>2, <2>3
<1> QED BY <1>1, <1>2

(* One element more.                                                       *)
LEMMA MoreHas ==
  ASSUME NEW S, NEW q \in Seq(S), NEW f \in S
  PROVE  Range(q) \subseteq Range(Append(q, f)) /\ f \in Range(Append(q, f))
<1>1. PICK m \in Nat : m = Len(q)
  BY LenProperties
<1>2. PICK r \in Seq(S) : r = Append(q, f)
  BY AppendProperties
<1>3. Len(r) = m + 1 /\ r[m + 1] = f /\ \A i \in 1 .. m : r[i] = q[i]
  BY <1>1, <1>2, AppendProperties
<1>4. \A i \in 1 .. m + 1 : r[i] \in Range(r)
  BY <1>3, IndexOK
<1>5. f \in Range(r)
  BY <1>3, <1>4
<1>6. ASSUME NEW x \in Range(q) PROVE x \in Range(r)
  <2>1. PICK i \in 1 .. m : q[i] = x
    BY <1>1, IndexOK
  <2> QED BY <1>3, <1>4, <2>1
<1> QED BY <1>2, <1>5, <1>6

(* Every step keeps what a resumed stream is given.                        *)
LEMMA NextResume ==
  ASSUME TypeOK, Numbered, Listed, Shaped, ResumeHasNoGap, [Next]_vars, TypeOK'
  PROVE  ResumeHasNoGap'
<1> SUFFICES ASSUME NEW k \in Streams, Following(k)', NEW i \in DOMAIN table', Owed(k, i)'
             PROVE  table'[i].cli \/ Delivered(k, i)'
  BY DEF ResumeHasNoGap
<1> DEFINE Given == \/ table'[i].id \in browser'[stream'[k].client].heard
                    \/ NoteOf(i)' \in Range(stream'[k].out) \cup Range(stream'[k].queue)
                    \/ \E w \in Writers : Brings(w, k)' /\ NoteOf(i)' = thread'[w].frame
<1>a. ASSUME table'[i].cli \/ Given PROVE table'[i].cli \/ Delivered(k, i)'
  BY <1>a, ComingIs DEF Delivered
<1> HIDE DEF Given
<1> SUFFICES table'[i].cli \/ Given
  BY <1>a
<1>b. /\ stream[k].client \in Clients /\ stream[k].last \in Ids \cup {0}
      /\ stream[k].since \in Nat
      /\ stream[k].out \in Seq(Frame) /\ Len(stream[k].out) \in Nat
      /\ stream[k].queue \in Seq(Frame) /\ Len(stream[k].queue) \in Nat
      /\ Len(table) \in Nat /\ DOMAIN table = 1 .. Len(table)
  BY PartsOK
<1>c. DOMAIN table' = 1 .. Len(table') /\ Len(table') \in Nat /\ i \in 1 .. Len(table')
  BY LenProperties DEF TypeOK
<1>d. \/ stream'[k].since < i
      \/ /\ stream'[k].phase = "live"
         /\ \E p \in 1 .. Len(table') : /\ table'[p].id = stream'[k].last
                                        /\ p < i /\ i <= p + ReplayLimit
  BY <1>c DEF Owed, Pivot
<1>1. Following(k) /\ stream'[k].client = stream[k].client /\ Moves(k)
  <2>1. ASSUME stream'[k].phase = "snapshot", stream'[k].since = Len(table), table' = table PROVE FALSE
    BY <1>b, <1>c, <1>d, <2>1
  <2> QED BY <2>1, NextFollows
<1>h. stream'[k].last = stream[k].last /\ stream'[k].since = stream[k].since
  <2>1. CASE Snapshot(k)
    BY <2>1, SnapshotDoes
  <2>2. CASE SendOne(k)
    BY <2>2, SendOneDoes
  <2>3. CASE Replay(k)
    BY <2>3, ReplayDoes
  <2>4. CASE SendLive(k)
    BY <2>4, SendLiveDoes
  <2> QED BY <1>1, <2>1, <2>2, <2>3, <2>4 DEF Moves, Pushed, Streaming
<1>e. NoteOf(i)' = [kind |-> "note", id |-> table'[i].id]
  BY DEF NoteOf
<1>f. ASSUME NEW l \in 1 .. Len(table),
             \/ stream[k].since < l
             \/ /\ stream[k].phase = "live"
                /\ \E p \in 1 .. Len(table) : /\ table[p].id = stream[k].last
                                              /\ p < l /\ l <= p + ReplayLimit
      PROVE  \/ table[l].cli
             \/ table[l].id \in browser[stream[k].client].heard
             \/ NoteOf(l) \in Range(stream[k].out) \cup Range(stream[k].queue)
             \/ \E w \in Writers : Brings(w, k) /\ NoteOf(l) = thread[w].frame
  <2>1. Owed(k, l)
    BY <1>b, <1>f DEF Owed, Pivot
  <2>2. table[l].cli \/ Delivered(k, l)
    BY <1>1, <1>b, <2>1 DEF ResumeHasNoGap
  <2> QED BY <2>2, ComingIs DEF Delivered
<1>g. ASSUME NEW w \in Writers, Brings(w, k), NoteOf(i)' = thread[w].frame PROVE Given
  <2>1. (Brings(w, k)' /\ thread'[w].frame = thread[w].frame) \/ Pushed(w, k)
    BY <1>1, <1>g, NextBrings
  <2>2. CASE Pushed(w, k)
    <3>1. stream'[k].queue = Append(stream[k].queue, thread[w].frame)
      BY <2>2 DEF Pushed
    <3>2. thread[w].frame \in Frame
      BY PartsOK
    <3>3. thread[w].frame \in Range(Append(stream[k].queue, thread[w].frame))
      BY <1>b, <3>2, MoreHas
    <3> QED BY <1>g, <3>1, <3>3 DEF Given
  <2> QED BY <1>g, <2>1, <2>2 DEF Given
<1>2. ASSUME table' # table PROVE table'[i].cli \/ Given
  <2>1. /\ stream' = stream /\ browser' = browser /\ Len(table') = Len(table) + 1
        /\ \A l \in 1 .. Len(table) : table'[l] = table[l]
        /\ table'[Len(table) + 1].id = emitted + 1
        /\ \/ table'[Len(table) + 1].cli
           \/ \E w \in Writers :
                Brings(w, k)' /\ thread'[w].frame = [kind |-> "note", id |-> emitted + 1]
    BY <1>2, NextTable
  <2>3. PICK m \in Nat : m = Len(table)
    BY <1>b, Zenon
  <2>4. i \in 1 .. m + 1
    BY <1>c, <2>1, <2>3
  <2>7. CASE i = m + 1
    BY <1>e, <2>1, <2>3, <2>7 DEF Given
  <2>8. CASE i # m + 1
    <3>1. i \in 1 .. m
      BY <2>4, <2>8
    <3>5. \A p \in 1 .. m + 1 : p < i => p \in 1 .. m /\ table'[p] = table[p]
      BY <2>1, <2>3, <3>1
    <3>2. \/ table[i].cli
          \/ table[i].id \in browser[stream[k].client].heard
          \/ NoteOf(i) \in Range(stream[k].out) \cup Range(stream[k].queue)
          \/ \E w \in Writers : Brings(w, k) /\ NoteOf(i) = thread[w].frame
      BY <1>d, <1>f, <2>1, <2>3, <3>1, <3>5
    <3>3. table'[i] = table[i] /\ NoteOf(i)' = NoteOf(i)
      BY <1>e, <2>1, <2>3, <3>1 DEF NoteOf
    <3> QED BY <1>g, <2>1, <3>2, <3>3 DEF Given
  <2> QED BY <2>7, <2>8
<1>3. ASSUME table' = table, stream[k].phase = "live" \/ stream[k].since < i
      PROVE  table'[i].cli \/ Given
  <2>2. \/ table[i].cli
        \/ table[i].id \in browser[stream[k].client].heard
        \/ NoteOf(i) \in Range(stream[k].out) \cup Range(stream[k].queue)
        \/ \E w \in Writers : Brings(w, k) /\ NoteOf(i) = thread[w].frame
    BY <1>c, <1>d, <1>f, <1>h, <1>3
  <2>3. table'[i] = table[i] /\ NoteOf(i)' = NoteOf(i)
    BY <1>3, <1>e DEF NoteOf
  <2>4. ASSUME table[i].id \in browser[stream[k].client].heard
               \/ NoteOf(i) \in Range(stream[k].out) \cup Range(stream[k].queue)
        PROVE  Given
    <3>a. NoteOf(i).kind = "note" /\ NoteOf(i).id = table[i].id
      BY DEF NoteOf
    <3>1. CASE stream'[k] = stream[k] /\ Kept(k)
      BY <1>1, <2>3, <2>4, <3>1 DEF Given, Kept
    <3>2. ASSUME NEW w \in Writers, Pushed(w, k) PROVE Given
      <4>1. /\ stream'[k].queue = Append(stream[k].queue, thread[w].frame)
            /\ stream'[k].out = stream[k].out
            /\ browser'[stream[k].client].heard = browser[stream[k].client].heard
        BY <3>2 DEF Pushed, Kept
      <4>2. thread[w].frame \in Frame
        BY PartsOK
      <4>3. Range(stream[k].queue) \subseteq Range(Append(stream[k].queue, thread[w].frame))
        BY <1>b, <4>2, MoreHas
      <4> QED BY <1>1, <2>3, <2>4, <4>1, <4>3 DEF Given
    <3>0. NoteOf(i) \notin Range(<<>>)
      BY EmptySeq DEF Range
    <3>3. CASE Snapshot(k)
      <4>1. /\ Connected(k) /\ stream[k].phase = "snapshot" /\ stream'[k].queue = stream[k].queue
            /\ browser'[stream[k].client].heard = browser[stream[k].client].heard
        BY <1>b, <3>3, SnapshotDoes
      <4>2. stream[k].out = <<>>
        BY <4>1 DEF Shaped, Framed
      <4>3. \/ table[i].id \in browser[stream[k].client].heard
            \/ NoteOf(i) \in Range(stream[k].queue)
        BY <2>4, <3>0, <4>2
      <4> QED BY <1>1, <2>3, <4>1, <4>3 DEF Given
    <3>4. CASE SendOne(k)
      <4>1. /\ stream[k].out[1] \in Frame /\ Receive(k, stream[k].out[1])
            /\ Len(stream[k].out) \in Nat \ {0}
            /\ stream'[k].queue = stream[k].queue
            /\ Len(stream'[k].out) = Len(stream[k].out) - 1
            /\ \A l \in 1 .. Len(stream[k].out) - 1 : stream'[k].out[l] = stream[k].out[l + 1]
        BY <3>4, SendOneDoes
      <4>2. stream[k].out[1].kind = "end" => browser[stream[k].client].buffering
        BY <3>4, SendOneDoes
      <4>3. PICK f \in Frame : f = stream[k].out[1]
        BY <4>1
      <4>4. Receive(k, f)
        BY <4>1, <4>3
      <4>5. f.kind = "end" => browser[stream[k].client].buffering
        BY <4>2, <4>3
      <4>6. browser'[stream[k].client].heard =
              IF f.kind = "note" THEN browser[stream[k].client].heard \cup {f.id}
                                 ELSE browser[stream[k].client].heard
        BY <4>4, <4>5, ReceiveDoes
      <4>7. ASSUME NoteOf(i) \in Range(stream[k].out)
            PROVE  NoteOf(i) = f \/ NoteOf(i) \in Range(stream'[k].out)
        <5>1. PICK m \in Nat \ {0} : m = Len(stream[k].out)
          BY <4>1
        <5>2. PICK q \in Seq(Frame) : q = stream[k].out
          BY <1>b
        <5>3. stream'[k].out \in Seq(Frame)
          BY DEF TypeOK, Stream
        <5>4. PICK r \in Seq(Frame) : r = stream'[k].out
          BY <5>3
        <5>5. Len(q) = m
          BY <5>1, <5>2
        <5>6. Len(r) = m - 1
          BY <4>1, <5>1, <5>4
        <5>7. \A l \in 1 .. m - 1 : r[l] = q[l + 1]
          BY <4>1, <5>1, <5>2, <5>4
        <5>8. NoteOf(i) \in Range(q)
          BY <4>7, <5>2
        <5>9. NoteOf(i) = q[1] \/ NoteOf(i) \in Range(r)
          BY <5>5, <5>6, <5>7, <5>8, RestHas
        <5> QED BY <4>3, <5>2, <5>4, <5>9
      <4> QED BY <1>1, <2>3, <2>4, <3>a, <4>1, <4>6, <4>7 DEF Given
    <3>5. CASE Replay(k)
      <4>1. stream[k].out = <<>> /\ stream'[k].queue = stream[k].queue
        BY <3>5, ReplayDoes
      <4>2. browser' = browser
        BY <3>5, Untouched
      <4>3. \/ table[i].id \in browser[stream[k].client].heard
            \/ NoteOf(i) \in Range(stream[k].queue)
        BY <2>4, <3>0, <4>1
      <4> QED BY <1>1, <2>3, <4>1, <4>2, <4>3 DEF Given
    <3>6. CASE SendLive(k)
      <4>1. /\ stream[k].queue[1] \in Frame /\ Receive(k, stream[k].queue[1])
            /\ Len(stream[k].queue) \in Nat \ {0} /\ stream[k].queue[1].kind # "end"
            /\ stream'[k].out = stream[k].out
            /\ Len(stream'[k].queue) = Len(stream[k].queue) - 1
            /\ \A l \in 1 .. Len(stream[k].queue) - 1 : stream'[k].queue[l] = stream[k].queue[l + 1]
        BY <3>6, SendLiveDoes
      <4>3. PICK f \in Frame : f = stream[k].queue[1]
        BY <4>1
      <4>4. Receive(k, f)
        BY <4>1, <4>3
      <4>5. f.kind = "end" => browser[stream[k].client].buffering
        BY <4>1, <4>3
      <4>6. browser'[stream[k].client].heard =
              IF f.kind = "note" THEN browser[stream[k].client].heard \cup {f.id}
                                 ELSE browser[stream[k].client].heard
        BY <4>4, <4>5, ReceiveDoes
      <4>7. ASSUME NoteOf(i) \in Range(stream[k].queue)
            PROVE  NoteOf(i) = f \/ NoteOf(i) \in Range(stream'[k].queue)
        <5>1. PICK m \in Nat \ {0} : m = Len(stream[k].queue)
          BY <4>1
        <5>2. PICK q \in Seq(Frame) : q = stream[k].queue
          BY <1>b
        <5>3. stream'[k].queue \in Seq(Frame)
          BY DEF TypeOK, Stream
        <5>4. PICK r \in Seq(Frame) : r = stream'[k].queue
          BY <5>3
        <5>5. Len(q) = m
          BY <5>1, <5>2
        <5>6. Len(r) = m - 1
          BY <4>1, <5>1, <5>4
        <5>7. \A l \in 1 .. m - 1 : r[l] = q[l + 1]
          BY <4>1, <5>1, <5>2, <5>4
        <5>8. NoteOf(i) \in Range(q)
          BY <4>7, <5>2
        <5>9. NoteOf(i) = q[1] \/ NoteOf(i) \in Range(r)
          BY <5>5, <5>6, <5>7, <5>8, RestHas
        <5> QED BY <4>3, <5>2, <5>4, <5>9
      <4> QED BY <1>1, <2>3, <2>4, <3>a, <4>1, <4>6, <4>7 DEF Given
    <3> QED BY <1>1, <3>1, <3>2, <3>3, <3>4, <3>5, <3>6 DEF Moves, Streaming
  <2> QED BY <1>g, <2>2, <2>3, <2>4 DEF Given
<1>4. ASSUME table' = table, stream[k].phase # "live", ~(stream[k].since < i) PROVE Given
  <2>0. PICK p \in 1 .. Len(table) : /\ table[p].id = stream[k].last /\ p < i
                                     /\ i <= p + ReplayLimit
    BY <1>d, <1>h, <1>4
  <2>a. stream'[k].phase = "live"
    BY <1>d, <1>h, <1>4
  <2>1. Snapshot(k) \/ Replay(k)
    <3>1. ~SendOne(k)
      BY <1>4, <2>a, SendOneDoes
    <3>2. ~SendLive(k)
      BY <1>4, SendLiveDoes
    <3> QED BY <1>1, <1>4, <2>a, <3>1, <3>2 DEF Moves, Pushed, Streaming
  <2>2. CASE Snapshot(k)
    <3>1. stream'[k].phase = AfterSnapshot(k)
      BY <2>2, SnapshotDoes
    <3>2. stream[k].last = 0
      BY <2>a, <3>1 DEF AfterSnapshot
    <3>3. table[p].id \in Ids
      BY PartsOK
    <3> QED BY <2>0, <3>2, <3>3, BoundsAssumption DEF Ids
  <2>3. CASE Replay(k)
    <3>1. stream'[k].out = ReplaySince(stream[k].last)
      BY <2>3, ReplayDoes
    <3>2. p \in Pivot(stream[k].last) /\ i \in p + 1 .. Len(table)
      BY <1>b, <1>c, <1>4, <2>0 DEF Pivot
    <3>3. NoteOf(i) \in Range(ReplaySince(stream[k].last))
      BY <1>b, <2>0, <3>2, ReplayOK
    <3>4. NoteOf(i)' = NoteOf(i)
      BY <1>4, <1>e DEF NoteOf
    <3> QED BY <3>1, <3>3, <3>4 DEF Given
  <2> QED BY <2>1, <2>2, <2>3
<1> QED BY <1>2, <1>3, <1>4

-----------------------------------------------------------------------------
(* The theorems.                                                           *)

(* A server that has just started: nobody is connected.                    *)
LEMMA InitOK == ASSUME Init PROVE IInv
<1>1. /\ cache = EmptyMap /\ table = <<Recorded(1, NoTopic, FALSE)>> /\ relays = 0
      /\ subscribers = <<>> /\ \A w \in Writers : thread[w] = Idle
      /\ \A k \in Streams : stream[k] = Unopened
      /\ emitted = 1 /\ opened = 0 /\ crashes = 0 /\ skipped = {} /\ raced = {}
      /\ thread = [w \in Writers |-> Idle] /\ stream = [k \in Streams |-> Unopened]
  BY DEF Init
<1>2. \A e \in {0, 1} : [on |-> 0, mirror |-> EmptyMap, buffer |-> NoMap, buffering |-> FALSE,
                         last |-> e, heard |-> {}] \in Browser
  BY NullsOK, BoundsAssumption DEF Browser, Ids
<1>3. browser \in [Clients -> Browser]
      /\ \A c \in Clients : browser[c].on = 0 /\ browser[c].buffering = FALSE /\ browser[c].last \in {0, 1}
  <2>1. PICK first : first = [e \in {0, 1} |-> [on |-> 0, mirror |-> EmptyMap, buffer |-> NoMap,
                                              buffering |-> FALSE, last |-> e, heard |-> {}]]
    OBVIOUS
  <2>2. \A e \in {0, 1} : /\ first[e] \in Browser /\ first[e].on = 0 /\ first[e].buffering = FALSE
                          /\ first[e].last = e
    BY <1>2, <2>1
  <2>3. browser \in [Clients -> {first[e] : e \in {0, 1}}]
    BY <2>1 DEF Init
  <2> QED BY <2>2, <2>3
<1>4. Recorded(1, NoTopic, FALSE) \in Row
  BY BoundsAssumption DEF Recorded, Row, Ids
<1>5. PICK r \in Row : r = Recorded(1, NoTopic, FALSE)
  BY <1>4
<1>6. <<r>> \in Seq(Row) /\ Len(<<r>>) = 1 /\ <<r>>[1] = r /\ r.id = 1
  BY <1>5, SingleSeq DEF Recorded
<1>7. table \in Seq(Row) /\ Len(table) = 1 /\ table[1].id = 1
  BY <1>1, <1>5, <1>6
<1>8. subscribers \in Seq(Streams) /\ IsInjective(subscribers) /\ Len(subscribers) = 0
  BY <1>1, EmptySeq DEF IsInjective
<1>9. \A k \in Streams : stream[k].queue = <<>> /\ stream[k].out = <<>> /\ stream[k].last = 0
                         /\ stream[k].phase = "unopened"
  BY <1>1, NullsOK
<1>10. Len(<<>>) = 0
  BY EmptySeq
<1>a. TypeOK
  <2>1. \A k \in Streams : Len(stream[k].queue) <= QueueSize
    BY <1>9, <1>10, BoundsAssumption
  <2>2. thread \in [Writers -> Work] /\ stream \in [Streams -> Stream] /\ cache \in Map
    BY <1>1, NullsOK
  <2>3. emitted \in 0 .. MaxEvents /\ opened \in 0 .. MaxStreams /\ crashes \in 0 .. MaxCrashes
    BY <1>1, BoundsAssumption
  <2> QED BY <1>1, <1>3, <1>7, <1>8, <2>1, <2>2, <2>3 DEF TypeOK
<1>b. Numbered
  <2>1. \A w \in Writers : thread[w].frame.id <= emitted
    BY <1>1 DEF Idle, EndFrame
  <2>2. \A c \in Clients : browser[c].last <= emitted
    BY <1>1, <1>3
  <2>3. \A k \in Streams :
          /\ stream[k].last <= emitted
          /\ \A i \in 1 .. Len(stream[k].out) : stream[k].out[i].id <= emitted
          /\ \A i \in 1 .. Len(stream[k].queue) : stream[k].queue[i].id <= emitted
    BY <1>1, <1>9, <1>10
  <2>4. \A i \in 1 .. Len(table) : i = 1
    BY <1>7
  <2>5. /\ \A i, j \in 1 .. Len(table) : i < j => table[i].id < table[j].id
        /\ \A i \in 1 .. Len(table) : table[i].id <= emitted
    <3>1. \A i \in 1 .. Len(table), j \in 1 .. Len(table) : ~(i < j)
      BY <2>4
    <3>2. emitted = 1 /\ table[1].id = 1
      BY <1>1, <1>7
    <3>3. \A i \in 1 .. Len(table) : table[i].id = 1
      BY <2>4, <3>2
    <3> QED BY <3>1, <3>2, <3>3
  <2> QED BY <2>1, <2>2, <2>3, <2>5 DEF Numbered
<1>c. \A k \in Streams : ~Connected(k) /\ ~Following(k)
  BY <1>9 DEF Connected, Following
<1>d. Listed
  <2>1. \A w \in Writers : thread[w].full \subseteq skipped
    BY <1>1 DEF Idle
  <2>2. \A i \in 1 .. Len(subscribers) : subscribers[i] <= opened
    BY <1>8
  <2>3. \A c \in Clients : browser[c].on <= opened
    BY <1>1, <1>3
  <2> QED BY <1>c, <2>1, <2>2, <2>3 DEF Listed
<1>e. Shaped
  <2>1. \A w \in Writers : thread[w].step # "push"
    BY <1>1 DEF Idle
  <2>2. \A k \in Streams : \A i \in 1 .. Len(stream[k].queue) : stream[k].queue[i].kind # "end"
    BY <1>9, <1>10
  <2> QED BY <1>3, <1>c, <2>1, <2>2 DEF Shaped
<1>f. Current
  BY <1>1 DEF Current, Telling, Idle
<1>g. Mirrors /\ ResumeHasNoGap
  BY <1>c DEF Mirrors, ResumeHasNoGap
<1> QED BY <1>a, <1>b, <1>d, <1>e, <1>f, <1>g DEF IInv

(* The invariant holds throughout.                                         *)
THEOREM Invariance == Spec => []IInv
<1>1. Init => IInv
  BY InitOK
<1>2. IInv /\ [Next]_vars => IInv'
  <2> SUFFICES ASSUME IInv, [Next]_vars PROVE IInv'
    OBVIOUS
  <2>1. TypeOK /\ Numbered /\ Listed /\ Shaped /\ Current /\ Mirrors /\ ResumeHasNoGap
    BY DEF IInv
  <2>2. TypeOK'
    BY <2>1, NextTypes
  <2>3. Numbered'
    BY <2>1, NextNumbered
  <2>4. Listed'
    BY <2>1, NextListed
  <2>5. Shaped'
    BY <2>1, NextShaped
  <2>6. Current'
    BY <2>1, NextCurrent
  <2>7. Mirrors'
    BY <2>1, NextMirrors
  <2>8. ResumeHasNoGap'
    BY <2>1, <2>2, NextResume
  <2> QED BY <2>2, <2>3, <2>4, <2>5, <2>6, <2>7, <2>8 DEF IInv
<1> QED BY <1>1, <1>2, PTL DEF Spec

(* Every state is of its type, and no queue holds more than its limit.     *)
THEOREM TypeCorrect == Spec => []TypeOK
<1>1. IInv => TypeOK
  BY DEF IInv
<1> QED BY <1>1, Invariance, PTL

(* The last word of what is sent, the replay or the snapshot first.        *)
LEMMA TellsBoth ==
  ASSUME NEW a \in Seq(Frame), NEW b \in Seq(Frame), NEW n, NEW x
  PROVE  /\ Silent(a, n) /\ Silent(b, n) => Silent(a \o b, n)
         /\ LastTells(b, n, x) => LastTells(a \o b, n, x)
         /\ LastTells(a, n, x) /\ Silent(b, n) => LastTells(a \o b, n, x)
<1>1. PICK la \in Nat : la = Len(a)
  BY LenProperties
<1>2. PICK lb \in Nat : lb = Len(b)
  BY LenProperties
<1>3. PICK all \in Seq(Frame) : all = a \o b
  BY ConcatProperties
<1>4. /\ Len(all) = la + lb
      /\ \A i \in 1 .. la + lb : all[i] = IF i <= la THEN a[i] ELSE b[i - la]
  BY <1>1, <1>2, <1>3, ConcatProperties
<1>5. \A i \in 1 .. la : i \in 1 .. la + lb /\ all[i] = a[i]
  BY <1>4
<1>6. \A i \in 1 .. lb : la + i \in 1 .. la + lb /\ all[la + i] = b[i]
  <2> TAKE i \in 1 .. lb
  <2>1. la + i \in 1 .. la + lb /\ ~(la + i <= la) /\ (la + i) - la = i
    OBVIOUS
  <2> QED BY <1>4, <2>1
<1>7. \A i \in 1 .. la + lb : i \in 1 .. la \/ \E l \in 1 .. lb : i = la + l
  <2> TAKE i \in 1 .. la + lb
  <2>1. CASE i <= la
    BY <2>1
  <2>2. CASE ~(i <= la)
    <3>1. i - la \in 1 .. lb /\ i = la + (i - la)
      BY <2>2
    <3> QED BY <3>1
  <2> QED BY <2>1, <2>2
<1>8. ASSUME Silent(a, n), Silent(b, n) PROVE Silent(all, n)
  <2>1. (\A i \in 1 .. la : ~Tells(a[i], n)) /\ \A i \in 1 .. lb : ~Tells(b[i], n)
    BY <1>1, <1>2, <1>8 DEF Silent
  <2>2. \A i \in 1 .. la + lb : ~Tells(all[i], n)
    BY <1>5, <1>6, <1>7, <2>1
  <2> QED BY <1>4, <2>2 DEF Silent
<1>9. ASSUME LastTells(b, n, x) PROVE LastTells(all, n, x)
  <2>1. PICK i \in 1 .. lb : Tells(b[i], n) /\ b[i].to = x /\ \A j \in 1 .. lb : j > i => ~Tells(b[j], n)
    BY <1>2, <1>9 DEF LastTells
  <2>2. PICK m \in 1 .. la + lb : m = la + i /\ all[m] = b[i]
    BY <1>6
  <2>3. ASSUME NEW j \in 1 .. la + lb, j > m PROVE ~Tells(all[j], n)
    <3>1. ~(j \in 1 .. la)
      BY <2>2, <2>3
    <3>2. PICK l \in 1 .. lb : j = la + l
      BY <1>7, <3>1
    <3>3. la + l > la + i
      BY <2>2, <2>3, <3>2
    <3>4. l > i
      BY <3>3
    <3> QED BY <1>6, <2>1, <3>2, <3>4
  <2> QED BY <1>4, <2>1, <2>2, <2>3 DEF LastTells
<1>10. ASSUME LastTells(a, n, x), Silent(b, n) PROVE LastTells(all, n, x)
  <2>1. PICK i \in 1 .. la : Tells(a[i], n) /\ a[i].to = x /\ \A j \in 1 .. la : j > i => ~Tells(a[j], n)
    BY <1>1, <1>10 DEF LastTells
  <2>2. \A l \in 1 .. lb : ~Tells(b[l], n)
    BY <1>2, <1>10 DEF Silent
  <2>3. ASSUME NEW j \in 1 .. la + lb, j > i PROVE ~Tells(all[j], n)
    <3>1. CASE j \in 1 .. la
      BY <1>5, <2>1, <2>3, <3>1
    <3>2. CASE ~(j \in 1 .. la)
      BY <1>6, <1>7, <2>2, <3>2
    <3> QED BY <3>1, <3>2
  <2> QED BY <1>4, <1>5, <2>1, <2>3 DEF LastTells
<1> QED BY <1>3, <1>8, <1>9, <1>10

(* What a browser will see is what NothingMissed foresees.                 *)
LEMMA SeesForeseen ==
  ASSUME TypeOK, Shaped, Current, NEW k \in Streams, Connected(k), stream[k].phase # "snapshot",
         NEW n \in Names \ raced, Awaited(k, n) \/ Sees(k, n)
  PROVE  Foreseen(k, n) = {cache[n]}
<1>1. PICK out \in Seq(Frame) : out = stream[k].out
  BY PartsOK
<1>2. PICK queue \in Seq(Frame) : queue = stream[k].queue
  BY PartsOK
<1>3. PICK all \in Seq(Frame) : all = out \o queue
  BY ConcatProperties
<1>4. PICK b : b = browser[stream[k].client]
  OBVIOUS
<1>5. PICK la \in Nat : la = Len(out)
  BY LenProperties
<1>6. PICK lb \in Nat : lb = Len(queue)
  BY LenProperties
<1>7. /\ Len(all) = la + lb
      /\ \A i \in 1 .. la + lb : all[i] = IF i <= la THEN out[i] ELSE queue[i - la]
  BY <1>3, <1>5, <1>6, ConcatProperties
<1>8. DOMAIN all = 1 .. la + lb
  BY <1>7, LenProperties
<1>9. /\ b.buffering = (out # <<>> /\ out[la].kind = "end")
      /\ \A i \in 1 .. la - 1 : out[i].kind # "end"
      /\ \A i \in 1 .. lb : queue[i].kind # "end"
  BY <1>1, <1>2, <1>4, <1>5, <1>6 DEF Shaped, Framed, Ending
<1>10. b.buffering = \E i \in DOMAIN all : all[i].kind = "end"
  <2>1. ASSUME out # <<>>, out[la].kind = "end" PROVE \E i \in DOMAIN all : all[i].kind = "end"
    <3>1. la # 0
      BY <1>5, <2>1, EmptySeq
    <3>2. la \in 1 .. la + lb /\ all[la] = out[la]
      BY <1>7, <3>1
    <3> QED BY <1>8, <2>1, <3>2
  <2>2. ASSUME NEW i \in 1 .. la + lb, all[i].kind = "end" PROVE out # <<>> /\ out[la].kind = "end"
    <3>1. CASE i <= la
      <4>1. out[i].kind = "end" /\ i \in 1 .. la
        BY <1>7, <2>2, <3>1
      <4>2. i = la
        BY <1>9, <4>1
      <4>3. out # <<>>
        BY <1>5, <4>1, EmptySeq
      <4> QED BY <4>1, <4>2, <4>3
    <3>2. CASE ~(i <= la)
      <4>1. i - la \in 1 .. lb /\ queue[i - la].kind = "end"
        BY <1>7, <2>2, <3>2
      <4> QED BY <1>9, <4>1
    <3> QED BY <3>1, <3>2
  <2> QED BY <1>8, <1>9, <2>1, <2>2
<1>11. PICK coming : coming = {f \in Coming(k) : Tells(f, n)}
  OBVIOUS
<1>12. PICK told : told = {i \in DOMAIN all : Tells(all[i], n)}
  OBVIOUS
<1>13. Foreseen(k, n) =
         IF b.buffering # (\E i \in DOMAIN all : all[i].kind = "end") THEN {}
         ELSE IF coming # {} THEN {f.to : f \in coming}
         ELSE IF told # {} THEN {all[i].to : i \in {j \in told : \A l \in told : l <= j}}
         ELSE {IF b.buffering THEN b.buffer[n] ELSE b.mirror[n]}
  BY <1>1, <1>2, <1>3, <1>4, <1>11, <1>12 DEF Foreseen
<1>14. ASSUME coming # {} PROVE {f.to : f \in coming} = {cache[n]}
  <2>1. \A f \in coming : f.to = cache[n]
    <3> SUFFICES ASSUME NEW f \in coming PROVE f.to = cache[n]
      OBVIOUS
    <3>1. PICK w \in Writers : Brings(w, k) /\ f = thread[w].frame
      BY <1>11, ComingIs
    <3>2. Telling(w, n)
      BY <1>11, <3>1 DEF Tells, Telling, Brings
    <3> QED BY <3>1, <3>2 DEF Current
  <2> QED BY <1>14, <2>1
<1>15. ASSUME coming = {} PROVE Sees(k, n)
  BY <1>11, <1>15 DEF Awaited
<1>16. ASSUME LastTells(all, n, cache[n])
       PROVE  told # {} /\ {all[i].to : i \in {j \in told : \A l \in told : l <= j}} = {cache[n]}
  <2>1. PICK i \in 1 .. la + lb : /\ Tells(all[i], n) /\ all[i].to = cache[n]
                                  /\ \A j \in 1 .. la + lb : j > i => ~Tells(all[j], n)
    BY <1>7, <1>16 DEF LastTells
  <2>2. i \in told /\ \A j \in told : j <= i /\ j \in 1 .. la + lb
    BY <1>8, <1>12, <2>1
  <2>3. {j \in told : \A l \in told : l <= j} = {i}
    <3>1. \A j \in told : (\A l \in told : l <= j) => j = i
      BY <2>2
    <3> QED BY <2>2, <3>1
  <2> QED BY <2>1, <2>2, <2>3
<1>17. ASSUME Silent(all, n) PROVE told = {}
  BY <1>7, <1>8, <1>12, <1>17 DEF Silent
<1>18. ASSUME Sees(k, n) PROVE LastTells(all, n, cache[n]) \/ (Silent(all, n) /\ Shown(b, n) = cache[n])
  <2>1. \/ LastTells(queue, n, cache[n])
        \/ /\ Silent(queue, n)
           /\ \/ LastTells(out, n, cache[n])
              \/ Silent(out, n) /\ Shown(b, n) = cache[n]
    BY <1>1, <1>2, <1>4, <1>18 DEF Sees
  <2>2. /\ Silent(out, n) /\ Silent(queue, n) => Silent(out \o queue, n)
        /\ LastTells(queue, n, cache[n]) => LastTells(out \o queue, n, cache[n])
        /\ LastTells(out, n, cache[n]) /\ Silent(queue, n) => LastTells(out \o queue, n, cache[n])
    BY TellsBoth
  <2> QED BY <1>3, <2>1, <2>2
<1>19. CASE coming # {}
  BY <1>10, <1>13, <1>14, <1>19
<1>20. CASE coming = {}
  <2>1. CASE LastTells(all, n, cache[n])
    BY <1>10, <1>13, <1>16, <1>20, <2>1
  <2>2. CASE Silent(all, n) /\ Shown(b, n) = cache[n]
    BY <1>10, <1>13, <1>17, <1>20, <2>2 DEF Shown
  <2> QED BY <1>15, <1>18, <1>20, <2>1, <2>2
<1> QED BY <1>19, <1>20

(* A browser that has its snapshot on the way misses nothing: once all     *)
(* that is under way has arrived, its mirror is the server's map.          *)
THEOREM MissNothing == Spec => []NothingMissed
<1>1. IInv => NothingMissed
  <2> SUFFICES ASSUME IInv, NEW k \in Streams, Following(k), stream[k].phase # "snapshot",
                      NEW n \in Names \ raced
               PROVE  Foreseen(k, n) = {cache[n]}
    BY DEF NothingMissed
  <2>1. TypeOK /\ Shaped /\ Current /\ Connected(k) /\ (Awaited(k, n) \/ Sees(k, n))
    BY DEF IInv, Mirrors, Following
  <2> QED BY <2>1, SeesForeseen
<1> QED BY <1>1, Invariance, PTL

(* A reader is given every row the server writes while it is connected,    *)
(* and, if the id it names has a row, the ReplayLimit rows after that one: *)
(* none falls between its replay and its queue.                            *)
THEOREM ResumesWithoutGap == Spec => []ResumeHasNoGap
<1>1. IInv => ResumeHasNoGap
  BY DEF IInv
<1> QED BY <1>1, Invariance, PTL
=============================================================================

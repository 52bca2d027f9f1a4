---------------------------- MODULE Upkeep_proofs ----------------------------
(* Proofs about Upkeep: the sync of the tickets and the audit, for any     *)
(* number of tickets, instances, threads, users, tasks and findings.       *)
EXTENDS Upkeep, FiniteSetTheorems, WellFoundedInduction, TLAPS

-----------------------------------------------------------------------------
(* Numbers and sets.                                                       *)

(* A set of numbers that is not empty has a least one.                     *)
LEMMA LeastOK ==
  ASSUME NEW S \in SUBSET Nat, S # {}
  PROVE  Least(S) \in S /\ \A m \in S : Least(S) <= m
<1> DEFINE Less == {ss \in Nat \X Nat : ss[1] < ss[2]}
<1>1. IsWellFoundedOn(Less, Nat)
  BY NatLessThanWellFounded DEF OpToRel, Less
<1>2. \A m, n \in Nat : m < n => <<m, n>> \in Less
  BY DEF Less
<1> HIDE DEF Less
<1>3. PICK n \in S : \A m \in S : ~ (<<m, n>> \in Less)
  BY <1>1, WFMin
<1>4. ASSUME NEW m \in S PROVE n <= m
  <2>1. m \in Nat /\ n \in Nat
    OBVIOUS
  <2>2. ~ (m < n)
    BY <1>2, <1>3, <2>1
  <2> QED BY <2>1, <2>2
<1> QED BY <1>4 DEF Least

(* The first Cap keys of a set are at most Cap keys of it.                 *)
LEMMA FirstOfOK ==
  ASSUME NEW S \in SUBSET Keys
  PROVE  /\ FirstOf(S) \subseteq S /\ IsFiniteSet(FirstOf(S))
         /\ Cardinality(FirstOf(S)) <= Cap
<1> DEFINE below(k) == {j \in S : j < k}
           rank == [k \in FirstOf(S) |-> Cardinality(below(k))]
<1>1. S \subseteq Nat /\ IsFiniteSet(S) /\ Cap \in Nat
  BY KeysAssumption, BoundsAssumption, FS_Subset
<1>2. \A k \in S : below(k) \in SUBSET S
  OBVIOUS
<1>3. \A k \in S : IsFiniteSet(below(k)) /\ Cardinality(below(k)) \in Nat
  BY <1>1, <1>2, FS_Subset, FS_CardinalityType
<1>4. ASSUME NEW j \in S, NEW k \in S, j < k
      PROVE  Cardinality(below(j)) # Cardinality(below(k))
  <2>1. below(j) \in SUBSET below(k)
    <3>1. \A i \in S : i < j => i < k
      BY <1>1, <1>4
    <3> QED BY <3>1
  <2>2. j \in below(k) /\ j \notin below(j)
    BY <1>1, <1>4
  <2>3. below(j) # below(k)
    BY <2>2
  <2> HIDE DEF below
  <2> QED BY <1>3, <2>1, <2>3, FS_Subset
<1>5. FirstOf(S) \subseteq S
  BY DEF FirstOf
<1>6. \A k \in FirstOf(S) : rank[k] \in 0 .. Cap - 1
  BY <1>1, <1>3, <1>5 DEF FirstOf
<1>7. rank \in Injection(FirstOf(S), 0 .. Cap - 1)
  <2>1. \A j, k \in FirstOf(S) : rank[j] = rank[k] => j = k
    <3> SUFFICES ASSUME NEW j \in FirstOf(S), NEW k \in FirstOf(S), rank[j] = rank[k], j # k
                 PROVE  FALSE
      OBVIOUS
    <3>1. rank[j] = Cardinality(below(j)) /\ rank[k] = Cardinality(below(k))
      OBVIOUS
    <3>2. j \in Nat /\ k \in Nat /\ j # k
      BY <1>1, <1>5
    <3>3. j < k \/ k < j
      BY <3>2
    <3> HIDE DEF below, rank
    <3> QED BY <1>4, <1>5, <3>1, <3>3
  <2> QED BY <1>6, <2>1 DEF Injection, IsInjective
<1>8. IsFiniteSet(0 .. Cap - 1) /\ Cardinality(0 .. Cap - 1) = Cap
  BY <1>1, FS_Interval
<1> HIDE DEF rank
<1> QED BY <1>1, <1>5, <1>7, <1>8, FS_Injection

-----------------------------------------------------------------------------
(* Tickets: what the helpers return.                                       *)

(* There is an instance, and a sync rests at the first.                    *)
LEMMA InstancesOK ==
  /\ Len(Instances) \in Nat /\ DOMAIN Instances = 1 .. Len(Instances)
  /\ 1 \in DOMAIN Instances /\ \A n \in DOMAIN Instances : Instances[n] \in ToSet(Instances)
  /\ Rest \in Sync /\ Rest.again = {} /\ NoTrack \in Track
<1>1. PICK k \in Keys : TRUE
  BY KeysAssumption
<1>2. Home[k] \in ToSet(Instances)
  BY HomeAssumption
<1>3. PICK n \in DOMAIN Instances : TRUE
  BY <1>2 DEF ToSet
<1>4. /\ Len(Instances) \in Nat /\ DOMAIN Instances = 1 .. Len(Instances)
  BY HomeAssumption
<1>5. 1 \in DOMAIN Instances /\ \A m \in DOMAIN Instances : Instances[m] \in ToSet(Instances)
  BY <1>3, <1>4 DEF ToSet
<1>6. [j \in Keys |-> 0] \in [Keys -> 0 .. MaxChanges]
  BY BoundsAssumption
<1> QED BY <1>4, <1>5, <1>6 DEF Rest, Sync, NoTrack, Track

(* An upsert starts with its first look.                                   *)
LEMMA StartOK ==
  ASSUME NEW k \in Keys, NEW i \in ToSet(Instances), NEW v \in 0 .. MaxChanges,
         NEW left \in {"keep", "set", "clear"}
  PROVE  /\ Start(k, i, v, left) \in Upsert
         /\ Start(k, i, v, left).how = "look" /\ Start(k, i, v, left).id = <<k, 0>>
         /\ Start(k, i, v, left).key = k /\ Start(k, i, v, left).left = left
<1>1. <<k, 0>> \in Ids /\ 0 \in 0 .. Twins
  BY BoundsAssumption DEF Ids
<1> QED BY <1>1 DEF Start, Upsert, Looks

(* It goes on to a look at another name, or to a write.                    *)
LEMMA GoingOK ==
  ASSUME NEW w \in Upsert, NEW how \in Looks, NEW n \in 0 .. Twins
  PROVE  /\ Going(w, how, n) \in Upsert
         /\ Going(w, how, n).how = how /\ Going(w, how, n).id = <<w.key, n>>
         /\ Going(w, how, n).key = w.key /\ Going(w, how, n).left = w.left
<1>1. <<w.key, n>> \in Ids
  BY DEF Upsert, Ids
<1> QED BY <1>1 DEF Going, Upsert
Writing(w, how, r) == [w EXCEPT !.how = how, !.id = r]
LEMMA WritingOK ==
  ASSUME NEW w \in Upsert, NEW how \in Writes, NEW r \in Ids
  PROVE  /\ Writing(w, how, r) \in Upsert
         /\ Writing(w, how, r).how = how /\ Writing(w, how, r).id = r
         /\ Writing(w, how, r).key = w.key /\ Writing(w, how, r).left = w.left
BY DEF Writing, Upsert, Writes, Looks

(* A thread that is about to write has something to write.                 *)
LEMMA HowsDiffer == NoUpsert.how \notin Looks \cup Writes /\ Looks \cap Writes = {}
BY DEF NoUpsert, Looks, Writes

(* What a look makes of an upsert.                                         *)
LEMMA SeenOK ==
  ASSUME NEW w \in Upsert, w.how \in Looks, NEW x \in Seen(w), x # NoUpsert
  PROVE  /\ x \in Upsert /\ x.key = w.key /\ x.left = w.left
         /\ w.how = "look" =>
              \/ x.how = "update" /\ x.id \in RowsOf(w.key)
              \/ x.how = "shell" /\ x.id = <<w.key, 0>> /\ RowsOf(w.key) = {}
         /\ w.how = "shell" =>
              \/ x.how = "update" /\ x.id = w.id /\ w.id \in Existing
              \/ /\ ~ (w.id \in Existing /\ rows[w.id].key = None)
                 /\ \/ x.how = "shell" /\ x.id = <<w.key, 1>> /\ w.id = <<w.key, 0>>
                    \/ x.how = "name" /\ x.id = <<w.key, 0>>
         /\ w.how = "name" =>
              \/ x.how = "insert" /\ x.id = w.id
              \/ x.how = "name" /\ w.id \in Existing /\ \E n \in 0 .. Twins : x.id = <<w.key, n>>
<1>a. w.id \in Ids /\ w.key \in Keys /\ Twins \in Nat
      /\ "update" \in Writes /\ "insert" \in Writes /\ "shell" \in Looks /\ "name" \in Looks
  BY BoundsAssumption DEF Upsert, Writes, Looks
<1>1. CASE w.how = "look"
  <2>1. x \in LookByKey(w)
    BY <1>1 DEF Seen
  <2>2. CASE RowsOf(w.key) = {}
    <3>1. x = Going(w, "shell", 0)
      BY <2>1, <2>2 DEF LookByKey
    <3>2. /\ x \in Upsert /\ x.how = "shell" /\ x.id = <<w.key, 0>>
          /\ x.key = w.key /\ x.left = w.left
      BY <1>a, <3>1, GoingOK
    <3> QED BY <1>1, <2>2, <3>2
  <2>3. CASE RowsOf(w.key) # {}
    <3>1. PICK r \in RowsOf(w.key) : x = Writing(w, "update", r)
      BY <2>1, <2>3 DEF LookByKey, Writing
    <3>2. r \in Ids
      BY DEF RowsOf, Existing
    <3>3. x \in Upsert /\ x.how = "update" /\ x.id = r /\ x.key = w.key /\ x.left = w.left
      BY <1>a, <3>1, <3>2, WritingOK
    <3> QED BY <1>1, <3>3
  <2> QED BY <2>2, <2>3
<1>2. CASE w.how = "shell"
  <2>1. x \in LookForShell(w)
    BY <1>2 DEF Seen
  <2>2. CASE w.id \in Existing /\ rows[w.id].key = None
    <3>1. x = [w EXCEPT !.how = "update"]
      BY <2>1, <2>2 DEF LookForShell
    <3>2. x = Writing(w, "update", w.id)
      BY <3>1 DEF Upsert, Writing
    <3>3. x \in Upsert /\ x.how = "update" /\ x.id = w.id /\ x.key = w.key /\ x.left = w.left
      BY <1>a, <3>2, WritingOK
    <3> QED BY <1>2, <2>2, <3>3
  <2>3. CASE ~ (w.id \in Existing /\ rows[w.id].key = None) /\ w.id = <<w.key, 0>> /\ Twins > 0
    <3>1. x = Going(w, "shell", 1) /\ 1 \in 0 .. Twins
      BY <1>a, <2>1, <2>3 DEF LookForShell
    <3>2. /\ x \in Upsert /\ x.how = "shell" /\ x.id = <<w.key, 1>>
          /\ x.key = w.key /\ x.left = w.left
      BY <1>a, <3>1, GoingOK
    <3> QED BY <1>2, <2>3, <3>2
  <2>4. CASE ~ (w.id \in Existing /\ rows[w.id].key = None) /\ ~ (w.id = <<w.key, 0>> /\ Twins > 0)
    <3>1. x = Going(w, "name", 0) /\ 0 \in 0 .. Twins
      BY <1>a, <2>1, <2>4 DEF LookForShell
    <3>2. /\ x \in Upsert /\ x.how = "name" /\ x.id = <<w.key, 0>>
          /\ x.key = w.key /\ x.left = w.left
      BY <1>a, <3>1, GoingOK
    <3> QED BY <1>2, <2>4, <3>2
  <2> QED BY <2>2, <2>3, <2>4
<1>3. CASE w.how = "name"
  <2>1. x \in LookForName(w)
    BY <1>3 DEF Seen
  <2>2. PICK n \in 0 .. Twins : w.id = <<w.key, n>>
    BY <1>3 DEF Upsert, Looks
  <2>3. CASE w.id \notin Existing
    <3>1. x = [w EXCEPT !.how = "insert"]
      BY <2>1, <2>3 DEF LookForName
    <3>2. x = Writing(w, "insert", w.id)
      BY <3>1 DEF Upsert, Writing
    <3>3. x \in Upsert /\ x.how = "insert" /\ x.id = w.id /\ x.key = w.key /\ x.left = w.left
      BY <1>a, <3>2, WritingOK
    <3> QED BY <1>3, <3>3
  <2>4. CASE w.id \in Existing
    <3>1. w.id[2] = n
      BY <2>2
    <3>2. n < Twins /\ x = Going(w, "name", n + 1) /\ n + 1 \in 0 .. Twins
      BY <1>a, <2>1, <2>4, <3>1 DEF LookForName
    <3>3. /\ x \in Upsert /\ x.how = "name" /\ x.id = <<w.key, n + 1>>
          /\ x.key = w.key /\ x.left = w.left
      BY <1>a, <3>2, GoingOK
    <3> QED BY <1>3, <2>4, <3>2, <3>3
  <2> QED BY <2>3, <2>4
<1> QED BY <1>1, <1>2, <1>3 DEF Looks

(* An upsert writes the row it found, if that, or the name, is still there *)
(* to be written, and no other.                                            *)
LEMMA WrittenOK ==
  ASSUME rows \in [Ids -> Row \cup {None}], NEW w \in Upsert
  PROVE  /\ Written(w) \in [Ids -> Row \cup {None}]
         /\ \A i \in Ids \ {w.id} : Written(w)[i] = rows[i]
         /\ \/ Written(w) = rows
            \/ /\ Written(w)[w.id].key = w.key
               /\ rows[w.id] # None =>
                    /\ Written(w)[w.id].pinned = rows[w.id].pinned
                    /\ Written(w)[w.id].left =
                         IF w.left = "keep" THEN rows[w.id].left ELSE w.left = "set"
               /\ rows[w.id] = None => /\ Written(w)[w.id].pinned = FALSE
                                       /\ Written(w)[w.id].left = (w.left = "set")
<1>1. /\ w.id \in Ids /\ w.key \in Keys /\ w.inst \in ToSet(Instances)
      /\ w.ver \in 0 .. MaxChanges /\ w.left \in {"keep", "set", "clear"}
  BY DEF Upsert
<1>2. Plain \in Row
  BY BoundsAssumption DEF Plain, Row
<1>3. ASSUME NEW r \in Row
      PROVE  /\ Filled(w, r) \in Row /\ Filled(w, r).key = w.key
             /\ Filled(w, r).pinned = r.pinned
             /\ Filled(w, r).left = IF w.left = "keep" THEN r.left ELSE w.left = "set"
  BY <1>1 DEF Filled, Row
<1>4. Plain.pinned = FALSE /\ Plain.left = FALSE
  BY DEF Plain
<1>5. CASE w.how = "update" /\ rows[w.id] # None
  <2>1. Written(w) = [rows EXCEPT ![w.id] = Filled(w, rows[w.id])] /\ rows[w.id] \in Row
    BY <1>1, <1>5 DEF Written
  <2> HIDE DEF Filled
  <2> QED BY <1>1, <1>3, <1>5, <2>1
<1>6. CASE w.how = "insert" /\ rows[w.id] = None
  <2>1. Written(w) = [rows EXCEPT ![w.id] = Filled(w, Plain)]
    BY <1>1, <1>6 DEF Written
  <2>2. /\ Filled(w, Plain) \in Row /\ Filled(w, Plain).key = w.key
        /\ Filled(w, Plain).pinned = FALSE
        /\ Filled(w, Plain).left = (w.left = "set")
    BY <1>2, <1>3, <1>4
  <2> QED BY <1>1, <1>6, <2>1, <2>2
<1>7. CASE ~ (w.how = "update" /\ rows[w.id] # None) /\ ~ (w.how = "insert" /\ rows[w.id] = None)
  BY <1>7 DEF Written
<1> QED BY <1>5, <1>6, <1>7

-----------------------------------------------------------------------------
(* Tickets: type correctness.                                              *)

(* What a thread holds is typed.                                           *)
LEMMA SyncOK ==
  ASSUME TypeOK, NEW s \in Syncers
  PROVE  /\ sync[s] \in Sync /\ sync[s].pc \in {"idle", "found", "asked"}
         /\ sync[s].at \in DOMAIN Instances /\ Instance(s) \in ToSet(Instances)
         /\ sync[s].found \subseteq Keys /\ sync[s].ver \in [Keys -> 0 .. MaxChanges]
         /\ sync[s].before \subseteq Keys /\ sync[s].returned \subseteq Keys
         /\ sync[s].again \subseteq Keys /\ sync[s].pins \subseteq Keys
         /\ sync[s].write \in Upsert \cup {NoUpsert}
BY InstancesOK DEF TypeOK, Sync, Instance

(* A sync goes on with data of its type.                                   *)
LEMMA SyncMoves ==
  ASSUME TypeOK, NEW s \in Syncers, NEW x \in Sync, Cardinality(x.again) <= Cap,
         sync' = [sync EXCEPT ![s] = x]
  PROVE  /\ sync' \in [Syncers -> Sync]
         /\ \A t \in Syncers : Cardinality(sync'[t].again) <= Cap
BY DEF TypeOK

(* The next key to be asked again is one of them.                          *)
LEMMA AskedOK ==
  ASSUME TypeOK, NEW s \in Syncers, Asking(s)
  PROVE  /\ Asked(s) \in sync[s].again /\ Asked(s) \in Keys
         /\ \A w \in Upsert \cup {NoUpsert} :
              Answered(s, w) =>
                /\ sync' \in [Syncers -> Sync]
                /\ \A t \in Syncers : Cardinality(sync'[t].again) <= Cap
<1>1. sync[s].again \in SUBSET Nat /\ sync[s].again # {} /\ IsFiniteSet(sync[s].again)
      /\ Cardinality(sync[s].again) <= Cap /\ sync[s].again \subseteq Keys
  BY SyncOK, KeysAssumption, FS_Subset DEF Asking, TypeOK
<1>2. Asked(s) \in sync[s].again /\ Asked(s) \in Keys
  BY <1>1, LeastOK DEF Asked
<1>3. ASSUME NEW w \in Upsert \cup {NoUpsert}, Answered(s, w)
      PROVE  /\ sync' \in [Syncers -> Sync]
             /\ \A t \in Syncers : Cardinality(sync'[t].again) <= Cap
  <2> DEFINE x == [sync[s] EXCEPT !.again = @ \ {Asked(s)}, !.pins = @ \ {Asked(s)}, !.write = w]
  <2>1. sync' = [sync EXCEPT ![s] = x]
    BY <1>3 DEF Answered
  <2>2. x \in Sync /\ x.again = sync[s].again \ {Asked(s)}
    BY SyncOK DEF Sync
  <2>3. Cardinality(sync[s].again \ {Asked(s)}) <= Cap
    <3>1. /\ Cardinality(sync[s].again \ {Asked(s)}) <= Cardinality(sync[s].again)
          /\ Cardinality(sync[s].again \ {Asked(s)}) \in Nat
          /\ Cardinality(sync[s].again) \in Nat
      BY <1>1, FS_Subset, FS_CardinalityType
    <3> QED BY <1>1, <3>1, BoundsAssumption
  <2> HIDE DEF x
  <2> QED BY <2>1, <2>2, <2>3, SyncMoves
<1> QED BY <1>2, <1>3

(* A row for a key that disappeared.                                       *)
LEMMA RowForOK ==
  ASSUME NEW s \in Syncers, NEW k \in Disappeared(s)
  PROVE  RowFor(s, k) \in GetTicket(k, Instance(s))
BY DEF Disappeared, RowFor

(* The steps of a sync.                                                    *)
LEMMA SyncTypes ==
  ASSUME TypeOK, NEW s \in Syncers, SyncStep(s)
  PROVE  TypeOK'
<1> DEFINE Now(x) == x \in Sync /\ Cardinality(x.again) <= Cap /\ sync' = [sync EXCEPT ![s] = x]
<1>a. /\ rows \in [Ids -> Row \cup {None}] /\ jira \in [Keys -> Issue]
      /\ sync \in [Syncers -> Sync] /\ (\A t \in Syncers : Cardinality(sync[t].again) <= Cap)
      /\ tracking \in [Users -> Track] /\ changes \in 0 .. MaxChanges /\ acts \in 0 .. MaxActs
      /\ linked \subseteq Keys /\ raced \subseteq Keys
  BY DEF TypeOK
<1>b. /\ sync[s] \in Sync /\ sync[s].at \in DOMAIN Instances /\ Instance(s) \in ToSet(Instances)
      /\ sync[s].found \subseteq Keys /\ sync[s].ver \in [Keys -> 0 .. MaxChanges]
      /\ sync[s].again \subseteq Keys /\ sync[s].write \in Upsert \cup {NoUpsert}
      /\ Cardinality(sync[s].again) <= Cap /\ sync[s].returned \subseteq Keys
  BY <1>a, SyncOK
<1>c. 0 \in 0 .. MaxChanges /\ Cardinality({}) <= Cap
  BY BoundsAssumption, FS_EmptySet
<1>d. sync[s].found \in SUBSET Nat
  BY <1>b, KeysAssumption
<1>1. /\ UNCHANGED <<jira, changes, acts, linked, tracking>>
      /\ UNCHANGED rows \/ (\E w \in Upsert : w = sync[s].write /\ rows' = Written(w))
                        \/ (Asking(s) /\ rows' = Detached(Asked(s)))
      /\ UNCHANGED raced \/ \E k \in Keys : Meet(k)
  <2>1. CASE WriteIssue(s)
    BY <1>b, <2>1, HowsDiffer DEF WriteIssue, Same
  <2>2. CASE WriteLeft(s)
    BY <1>b, <2>2, HowsDiffer DEF WriteLeft, Same
  <2>3. CASE TakeIssue(s)
    <3>1. sync[s].found # {} /\ Meet(Least(sync[s].found))
      BY <2>3 DEF TakeIssue
    <3> QED BY <1>b, <1>d, <2>3, <3>1, LeastOK DEF TakeIssue, Same
  <2>4. CASE FetchFindsNone(s) \/ FetchFinds(s)
    <3>1. Asking(s)
      BY <2>4 DEF FetchFindsNone, FetchFinds
    <3> QED BY <2>4, <3>1, AskedOK DEF FetchFindsNone, FetchFinds, Same
  <2>5. CASE \/ SearchFails(s) \/ SearchAnswers(s) \/ SyncLooks(s) \/ Filter(s)
             \/ FetchFails(s) \/ FetchBreaks(s) \/ Done(s)
    BY <2>5 DEF SearchFails, SearchAnswers, SyncLooks, Filter, FetchFails, FetchBreaks, Done, Same
  <2> QED BY <2>1, <2>2, <2>3, <2>4, <2>5 DEF SyncStep
<1>2. rows' \in [Ids -> Row \cup {None}]
  <2>1. ASSUME NEW k \in Keys PROVE Detached(k) \in [Ids -> Row \cup {None}]
    <3>1. \A i \in RowsOf(k) : i \in Ids /\ rows[i] \in Row
      BY <1>a DEF RowsOf, Existing
    <3> DEFINE d(r) == [r EXCEPT !.key = None, !.inst = None, !.synced = FALSE]
    <3>2. Detached(k) = [i \in Ids |-> IF i \in RowsOf(k) THEN d(rows[i]) ELSE rows[i]]
      BY Zenon DEF Detached
    <3>3. \A r \in Row : d(r) \in Row
      BY DEF Row
    <3> HIDE DEF d
    <3> QED BY <1>a, <3>1, <3>2, <3>3
  <2>2. CASE UNCHANGED rows
    BY <1>a, <2>2
  <2>3. CASE \E w \in Upsert : w = sync[s].write /\ rows' = Written(w)
    BY <1>a, <2>3, WrittenOK
  <2>4. CASE Asking(s) /\ rows' = Detached(Asked(s))
    BY <2>1, <2>4, AskedOK
  <2> QED BY <1>1, <2>2, <2>3, <2>4
<1>3. raced' \subseteq Keys
  BY <1>1, <1>a DEF Meet
<1>4. /\ sync' \in [Syncers -> Sync]
      /\ \A t \in Syncers : Cardinality(sync'[t].again) <= Cap
  <2>1. ASSUME NEW x, Now(x) PROVE <1>4
    BY <2>1, SyncMoves
  <2>2. CASE SearchFails(s) \/ FetchBreaks(s) \/ Done(s)
    <3> DEFINE x == [Rest EXCEPT !.at = IF sync[s].at < Len(Instances) THEN sync[s].at + 1 ELSE 1]
    <3>1. sync' = [sync EXCEPT ![s] = x]
      BY <2>2 DEF SearchFails, FetchBreaks, Done, NextInstance
    <3>2. (IF sync[s].at < Len(Instances) THEN sync[s].at + 1 ELSE 1) \in DOMAIN Instances
      BY <1>b, InstancesOK
    <3>3. x \in Sync /\ x.again = {}
      BY <3>2, InstancesOK DEF Sync
    <3> QED BY <1>c, <2>1, <3>1, <3>3
  <2>3. CASE SearchAnswers(s)
    <3>1. PICK v : v = [k \in Keys |-> IF k \in Queue(Instance(s)) THEN jira[k].ver ELSE 0]
      OBVIOUS
    <3>2. v \in [Keys -> 0 .. MaxChanges]
      BY <1>a, <1>c, <3>1 DEF Issue
    <3>3. PICK q \in SUBSET Keys : q = Queue(Instance(s))
      BY DEF Queue
    <3>4. PICK f \in SUBSET Keys : f = KeysFor(Instance(s))
      BY DEF KeysFor
    <3> DEFINE x == [Rest EXCEPT !.at = sync[s].at, !.pc = "found", !.before = f,
                                 !.found = q, !.ver = v]
    <3>5. sync' = [sync EXCEPT ![s] = x]
      BY <2>3, <3>1, <3>3, <3>4 DEF SearchAnswers
    <3>6. x \in Sync /\ x.again = {}
      BY <1>b, <3>2, InstancesOK DEF Sync
    <3> QED BY <1>c, <2>1, <3>5, <3>6
  <2>4. CASE TakeIssue(s)
    <3> DEFINE k == Least(sync[s].found)
    <3>0. sync[s].found # {}
      BY <2>4 DEF TakeIssue
    <3>1. k \in sync[s].found /\ k \in Keys /\ sync[s].ver[k] \in 0 .. MaxChanges
      BY <1>b, <1>d, <3>0, LeastOK
    <3>2. PICK w \in Upsert : Taken(s, k, w)
      BY <1>b, <2>4, <3>1, StartOK DEF TakeIssue
    <3> HIDE DEF k
    <3>3. PICK v : v = [sync[s].ver EXCEPT ![k] = 0]
      OBVIOUS
    <3> DEFINE x == [sync[s] EXCEPT !.found = @ \ {k}, !.ver = v, !.write = w]
    <3>4. sync' = [sync EXCEPT ![s] = x]
      BY <3>2, <3>3 DEF Taken
    <3>5. v \in [Keys -> 0 .. MaxChanges]
      BY <1>b, <1>c, <3>3
    <3>6. x \in Sync /\ x.again = sync[s].again
      BY <1>b, <3>5 DEF Sync
    <3> QED BY <1>b, <2>1, <3>4, <3>6
  <2>10. CASE SyncLooks(s)
    <3>1. PICK w \in Seen(sync[s].write) : sync' = [sync EXCEPT ![s].write = w]
      BY <2>10 DEF SyncLooks
    <3>2. sync[s].write \in Upsert
      BY <1>b, <2>10 DEF SyncLooks, NoUpsert, Looks
    <3>3. w \in Upsert \cup {NoUpsert}
      BY <2>10, <3>1, <3>2, SeenOK DEF SyncLooks
    <3> DEFINE x == [sync[s] EXCEPT !.write = w]
    <3>4. sync' = [sync EXCEPT ![s] = x]
      BY <3>1
    <3>5. x \in Sync /\ x.again = sync[s].again
      BY <1>b, <3>3 DEF Sync
    <3> QED BY <1>b, <2>1, <3>4, <3>5
  <2>5. CASE WriteIssue(s)
    <3> DEFINE w == sync[s].write
               r == IF Raises(w) THEN sync[s].returned ELSE sync[s].returned \cup {w.key}
               x == [sync[s] EXCEPT !.write = NoUpsert, !.returned = r]
    <3>1. sync' = [sync EXCEPT ![s] = x]
      BY <2>5 DEF WriteIssue
    <3>2. r \subseteq Keys
      BY <1>b, <2>5, HowsDiffer DEF WriteIssue, Upsert
    <3>3. x \in Sync /\ x.again = sync[s].again
      BY <1>b, <3>2 DEF Sync
    <3> QED BY <1>b, <2>1, <3>1, <3>3
  <2>6. CASE WriteLeft(s)
    <3> DEFINE x == [sync[s] EXCEPT !.write = NoUpsert]
    <3>1. sync' = [sync EXCEPT ![s] = x]
      BY <2>6 DEF WriteLeft
    <3>2. x \in Sync /\ x.again = sync[s].again
      BY <1>b DEF Sync
    <3> QED BY <1>b, <2>1, <3>1, <3>2
  <2>7. CASE Filter(s)
    <3>2. {k \in Disappeared(s) : KeepsAsking(RowFor(s, k))} \in SUBSET Keys
      BY <1>a, SyncOK DEF Disappeared
    <3>3. ToAsk(s) \subseteq Keys /\ Cardinality(ToAsk(s)) <= Cap
      BY <3>2, FirstOfOK DEF ToAsk
    <3>4. PICK q \in SUBSET Keys : q = ToAsk(s)
      BY <3>3
    <3>5. PICK f \in SUBSET Keys : f = {k \in ToAsk(s) : rows[RowFor(s, k)].pinned}
      BY <3>3
    <3> DEFINE x == [Rest EXCEPT !.at = sync[s].at, !.pc = "asked", !.again = q, !.pins = f]
    <3>6. sync' = [sync EXCEPT ![s] = x]
      BY <2>7, <3>4, <3>5 DEF Filter
    <3>7. x \in Sync /\ x.again = q
      BY <1>b, InstancesOK DEF Sync
    <3> QED BY <2>1, <3>3, <3>4, <3>6, <3>7
  <2>8. CASE FetchFails(s) \/ FetchFindsNone(s)
    <3>1. Asking(s) /\ Answered(s, NoUpsert)
      BY <2>8 DEF FetchFails, FetchFindsNone
    <3> QED BY <3>1, AskedOK
  <2>9. CASE FetchFinds(s)
    <3>1. Asking(s) /\ Asked(s) \in Keys /\ jira[Asked(s)].ver \in 0 .. MaxChanges
      BY <1>a, <2>9, AskedOK DEF FetchFinds, Issue
    <3>2. BadgeFor(Asked(s) \in sync[s].pins) \in {"keep", "set", "clear"}
      BY DEF BadgeFor
    <3>3. \E w \in Upsert \cup {NoUpsert} : Answered(s, w)
      BY <1>b, <2>9, <3>1, <3>2, StartOK DEF FetchFinds
    <3> QED BY <3>1, <3>3, AskedOK
  <2> QED BY <2>2, <2>3, <2>4, <2>5, <2>6, <2>7, <2>8, <2>9, <2>10 DEF SyncStep
<1> QED BY <1>1, <1>2, <1>3, <1>4, <1>a DEF TypeOK

(* A thread that tracks a ticket has its key, then an upsert in hand that  *)
(* keeps the badge.                                                        *)
TrackHas ==
  \A u \in Users :
    /\ tracking[u].pc = "ask" => tracking[u].key \in Keys
    /\ tracking[u].pc \in {"write", "pin"} => /\ tracking[u].write \in Upsert
                                             /\ tracking[u].write.left = "keep"
TInv == TypeOK /\ TrackHas

(* The steps of the users.                                                 *)
LEMMA UserTypes ==
  ASSUME TInv, UserStep
  PROVE  TInv'
<1>a. /\ rows \in [Ids -> Row \cup {None}] /\ jira \in [Keys -> Issue]
      /\ sync \in [Syncers -> Sync] /\ (\A t \in Syncers : Cardinality(sync[t].again) <= Cap)
      /\ tracking \in [Users -> Track] /\ changes \in 0 .. MaxChanges /\ acts \in 0 .. MaxActs
      /\ linked \subseteq Keys /\ raced \subseteq Keys /\ TrackHas
  BY DEF TInv, TypeOK
<1>b. Acts => acts' \in 0 .. MaxActs
  BY <1>a, BoundsAssumption DEF Acts
<1>c. ASSUME NEW u \in Users, NEW t \in Track, tracking' = [tracking EXCEPT ![u] = t],
             t.pc = "ask" => t.key \in Keys,
             t.pc \in {"write", "pin"} => t.write \in Upsert /\ t.write.left = "keep"
      PROVE  tracking' \in [Users -> Track] /\ TrackHas'
  BY <1>a, <1>c DEF TrackHas
<1>d. NoTrack \in Track /\ NoTrack.pc = "idle"
  BY DEF NoTrack, Track
<1>1. ASSUME NEW u \in Users, NEW k \in Keys, TrackTicket(u, k) PROVE TInv'
  <2>1. PICK t : t = [NoTrack EXCEPT !.pc = "ask", !.key = k]
    OBVIOUS
  <2>2. t \in Track /\ t.pc = "ask" /\ t.key = k
    BY <2>1 DEF NoTrack, Track
  <2>3. tracking' \in [Users -> Track] /\ TrackHas'
    BY <1>1, <1>c, <2>1, <2>2 DEF TrackTicket
  <2>4. acts' \in 0 .. MaxActs /\ UNCHANGED <<rows, jira, sync, changes, linked, raced>>
    BY <1>1, <1>b DEF TrackTicket
  <2> QED BY <1>a, <2>3, <2>4 DEF TInv, TypeOK
<1>5. ASSUME NEW u \in Users, TrackAsks(u) PROVE TInv'
  <2>1. PICK k \in Keys : k = tracking[u].key
    BY <1>5, <1>a DEF TrackAsks, TrackHas
  <2>2. jira[k].ver \in 0 .. MaxChanges /\ Home[k] \in ToSet(Instances)
    BY <1>a, HomeAssumption DEF Issue
  <2>3. PICK w \in Upsert : w = Start(k, Home[k], jira[k].ver, "keep") /\ w.left = "keep"
    BY <2>2, StartOK
  <2>4. PICK t : t = [tracking[u] EXCEPT !.pc = "write", !.write = w]
    OBVIOUS
  <2>5. t \in Track /\ t.pc = "write" /\ t.write = w
    BY <1>a, <2>4 DEF Track
  <2>6. tracking' = [tracking EXCEPT ![u] = t]
    BY <1>5, <1>a, <2>1, <2>3, <2>4 DEF TrackAsks
  <2>7. tracking' \in [Users -> Track] /\ TrackHas'
    BY <1>c, <2>3, <2>5, <2>6
  <2>8. raced' \subseteq Keys /\ UNCHANGED <<rows, sync, jira, changes, acts, linked>>
    BY <1>5, <1>a, <2>1 DEF TrackAsks, Meet, Same
  <2> QED BY <1>a, <2>7, <2>8 DEF TInv, TypeOK
<1>6. ASSUME NEW u \in Users, TrackFindsNone(u) PROVE TInv'
  <2>1. tracking' \in [Users -> Track] /\ TrackHas'
    BY <1>6, <1>c, <1>d DEF TrackFindsNone
  <2>2. UNCHANGED <<rows, sync, raced, jira, changes, acts, linked>>
    BY <1>6 DEF TrackFindsNone, Same
  <2> QED BY <1>a, <2>1, <2>2 DEF TInv, TypeOK
<1>7. ASSUME NEW u \in Users, TrackLooks(u) PROVE TInv'
  <2>1. tracking[u].write \in Upsert /\ tracking[u].write.left = "keep" /\ tracking[u].pc = "write"
    BY <1>7, <1>a DEF TrackLooks, TrackHas
  <2>2. PICK w \in Seen(tracking[u].write) :
          tracking' = [tracking EXCEPT ![u] = IF w = NoUpsert THEN NoTrack
                                              ELSE [tracking[u] EXCEPT !.write = w]]
    BY <1>7, <1>a DEF TrackLooks
  <2>3. CASE w = NoUpsert
    <3>1. tracking' \in [Users -> Track] /\ TrackHas'
      BY <1>c, <1>d, <2>2, <2>3
    <3>2. UNCHANGED <<rows, sync, raced, jira, changes, acts, linked>>
      BY <1>7 DEF TrackLooks, Same
    <3> QED BY <1>a, <3>1, <3>2 DEF TInv, TypeOK
  <2>4. CASE w # NoUpsert
    <3>1. w \in Upsert /\ w.left = "keep"
      BY <1>7, <2>1, <2>4, SeenOK DEF TrackLooks
    <3>2. PICK t : t = [tracking[u] EXCEPT !.write = w]
      OBVIOUS
    <3>3. t \in Track /\ t.pc = "write" /\ t.write = w
      BY <1>a, <2>1, <3>1, <3>2 DEF Track
    <3>4. tracking' = [tracking EXCEPT ![u] = t]
      BY <2>2, <2>4, <3>2
    <3>5. tracking' \in [Users -> Track] /\ TrackHas'
      BY <1>c, <3>1, <3>3, <3>4
    <3>6. UNCHANGED <<rows, sync, raced, jira, changes, acts, linked>>
      BY <1>7 DEF TrackLooks, Same
    <3> QED BY <1>a, <3>5, <3>6 DEF TInv, TypeOK
  <2> QED BY <2>3, <2>4
<1>2. ASSUME NEW u \in Users, TrackWrites(u) PROVE TInv'
  <2>1. tracking[u].write \in Upsert /\ tracking[u].write.left = "keep"
    BY <1>2, <1>a DEF TrackWrites, TrackHas
  <2>2. rows' \in [Ids -> Row \cup {None}]
    BY <1>2, <1>a, <2>1, WrittenOK DEF TrackWrites
  <2>3. \/ tracking' = [tracking EXCEPT ![u] = NoTrack]
        \/ tracking' = [tracking EXCEPT ![u] = [tracking[u] EXCEPT !.pc = "pin"]]
    BY <1>2 DEF TrackWrites
  <2>8. PICK t : t = [tracking[u] EXCEPT !.pc = "pin"]
    OBVIOUS
  <2>9. t \in Track /\ t.pc = "pin" /\ t.write = tracking[u].write
    BY <1>a, <2>8 DEF Track
  <2>5. tracking' \in [Users -> Track] /\ TrackHas'
    BY <1>c, <1>d, <2>1, <2>3, <2>8, <2>9
  <2>6. UNCHANGED <<sync, raced, jira, changes, acts, linked>>
    BY <1>2 DEF TrackWrites, Same
  <2> QED BY <1>a, <2>2, <2>5, <2>6 DEF TInv, TypeOK
<1>3. ASSUME NEW u \in Users, TrackPins(u) PROVE TInv'
  <2>1. tracking[u].write \in Upsert /\ tracking[u].write.key \in Keys
    BY <1>3, <1>a DEF TrackPins, TrackHas, Upsert
  <2> DEFINE P == GetTicket(tracking[u].write.key, tracking[u].write.inst)
  <2>2. \A i \in P : rows[i] \in Row /\ i \in Ids
    BY <1>a DEF GetTicket, RowsOf, Existing
  <2>3. rows' = [i \in Ids |-> IF i \in P THEN [rows[i] EXCEPT !.pinned = TRUE] ELSE rows[i]]
    BY <1>3, Zenon DEF TrackPins
  <2>4. \A r \in Row : [r EXCEPT !.pinned = TRUE] \in Row
    BY DEF Row
  <2>5. rows' \in [Ids -> Row \cup {None}]
    <3> HIDE DEF P
    <3> QED BY <1>a, <2>2, <2>3, <2>4
  <2>6. tracking' = [tracking EXCEPT ![u] = NoTrack] /\ raced' \subseteq Keys
        /\ UNCHANGED <<sync, jira, changes, acts, linked>>
    BY <1>3, <1>a, <2>1 DEF TrackPins, Same
  <2>7. NoTrack \in Track /\ NoTrack.pc = "idle"
    BY DEF NoTrack, Track
  <2>8. tracking' \in [Users -> Track] /\ TrackHas'
    BY <1>a, <2>6, <2>7 DEF TrackHas
  <2> QED BY <1>a, <2>5, <2>6, <2>8 DEF TInv, TypeOK
<1>4. ASSUME NEW i \in Ids, Unlink(i) \/ DeleteTask(i) \/ \E k \in Keys : Link(i, k) PROVE TInv'
  <2>1. i \in Existing /\ rows[i] \in Row
    BY <1>4, <1>a DEF Unlink, DeleteTask, Link, Existing
  <2>2. \A k \in Keys \cup {None} : [rows[i] EXCEPT !.key = k] \in Row
    BY <2>1 DEF Row
  <2>3. PICK r \in Row \cup {None} : rows' = [rows EXCEPT ![i] = r]
    BY <1>4, <2>2 DEF Unlink, DeleteTask, Link
  <2>4. rows' \in [Ids -> Row \cup {None}]
    BY <1>a, <2>3
  <2>5. acts' \in 0 .. MaxActs /\ UNCHANGED <<jira, sync, tracking, changes, raced>>
        /\ linked' \subseteq Keys
    BY <1>4, <1>a, <1>b DEF Unlink, DeleteTask, Link
  <2> QED BY <1>a, <2>4, <2>5 DEF TInv, TypeOK, TrackHas
<1> QED BY <1>1, <1>2, <1>3, <1>4, <1>5, <1>6, <1>7 DEF UserStep

(* An issue that changes is still an issue.                                *)
LEMMA ChangeTypes ==
  ASSUME TInv, NEW k \in Keys, Change(k)
  PROVE  TInv'
<1>1. PICK st \in {"mine", "elsewhere", "gone"} :
        jira' = [jira EXCEPT ![k] = [state |-> st, ver |-> changes + 1]]
  BY DEF Change
<1>2. changes + 1 \in 0 .. MaxChanges /\ changes' = changes + 1
  BY BoundsAssumption DEF Change, TInv, TypeOK
<1>3. [state |-> st, ver |-> changes + 1] \in Issue
  BY <1>2 DEF Issue
<1>4. jira' \in [Keys -> Issue]
  BY <1>1, <1>3 DEF TInv, TypeOK
<1> QED BY <1>2, <1>4 DEF Change, TInv, TypeOK, TrackHas

(* Types hold at first, and every step keeps them.                         *)
LEMMA TicketsInit == Init => TInv
<1> SUFFICES ASSUME Init PROVE TInv
  OBVIOUS
<1>1. /\ Plain \in Row /\ NoTrack \in Track /\ NoTrack.pc = "idle"
      /\ Rest \in Sync /\ Cardinality(Rest.again) <= Cap
  BY BoundsAssumption, InstancesOK, FS_EmptySet DEF Plain, Row, NoTrack, Track
<1>2. [state : {"mine", "elsewhere"}, ver : {0}] \subseteq Issue
  BY BoundsAssumption DEF Issue
<1>3. jira \in [Keys -> Issue]
  BY <1>2 DEF Init
<1>4. 0 \in 0 .. MaxChanges /\ 0 \in 0 .. MaxActs
  BY BoundsAssumption
<1> QED BY <1>1, <1>3, <1>4 DEF Init, TInv, TypeOK, TrackHas

(* Every step of the threads, the users and JIRA.                          *)
LEMMA TicketsNext == TInv /\ [Next]_vars => TInv'
<1> SUFFICES ASSUME TInv, [Next]_vars PROVE TInv'
  OBVIOUS
<1>1. ASSUME NEW s \in Syncers, SyncStep(s) PROVE TInv'
  <2>1. TypeOK'
    BY <1>1, SyncTypes DEF TInv
  <2>2. UNCHANGED tracking
    BY <1>1 DEF SyncStep, SearchFails, SearchAnswers, TakeIssue, SyncLooks, WriteIssue, Filter,
                FetchFails, FetchBreaks, FetchFindsNone, FetchFinds, WriteLeft, Done
  <2> QED BY <2>1, <2>2 DEF TInv, TrackHas
<1>2. CASE UNCHANGED vars
  BY <1>2 DEF vars, TInv, TypeOK, TrackHas
<1> QED BY <1>1, <1>2, UserTypes, ChangeTypes DEF Next

-----------------------------------------------------------------------------
(* Tickets: a ticket that no task was linked to by hand, and whose upserts *)
(* were not concurrent, has one row, the first that is named after it.     *)

(* A row named after a key has that key or none; a task of the user has a  *)
(* key that it was linked to.                                              *)
Named ==
  \A i \in Existing :
    /\ (i \in HandMade /\ rows[i].key # None) => rows[i].key \in linked
    /\ \A k \in Keys, n \in 0 .. Twins : i = <<k, n>> => rows[i].key \in {k, None}
(* No second row is named after a key.                                     *)
Excused == linked \cup raced
Single  == \A i \in (Keys \ Excused) \X (1 .. Twins) : rows[i] = None
(* What an upsert saw still stands, when nobody else upserts the key.      *)
Sees(w) ==
  /\ w.id = <<w.key, 0>> \/ (w.how = "shell" /\ w.id = <<w.key, 1>>)
  /\ w.how \in {"shell", "name", "insert"} => RowsOf(w.key) = {}
  /\ w.id = <<w.key, 1>> \/ w.how \in {"name", "insert"} => rows[<<w.key, 0>>] = None
(* So what it writes is a row of that sort.                                *)
Fits(w) ==
  /\ w.id \in HandMade => w.key \in linked
  /\ \A k \in Keys, n \in 0 .. Twins : w.id = <<k, n>> => k = w.key
  /\ w.key \notin Excused => Sees(w)
HeldFits ==
  /\ \A s \in Syncers : sync[s].write # NoUpsert => Fits(sync[s].write)
  /\ \A u \in Users : tracking[u].pc = "write" => Fits(tracking[u].write)
(* One thread at a time upserts a key.                                     *)
Syncs(s, k)  == sync[s].write # NoUpsert /\ sync[s].write.key = k
Tracks(u, k) == tracking[u].pc = "write" /\ tracking[u].write.key = k
Alone ==
  \A k \in Keys \ Excused :
    /\ \A s, t \in Syncers : Syncs(s, k) /\ Syncs(t, k) => s = t
    /\ \A u, v \in Users : Tracks(u, k) /\ Tracks(v, k) => u = v
    /\ \A s \in Syncers, u \in Users : ~ (Syncs(s, k) /\ Tracks(u, k))
(* A ticket that a sync is about to badge is not pinned.                   *)
Unpinned(k) == \A n \in 0 .. Twins : rows[<<k, n>>] # None => ~rows[<<k, n>>].pinned
Badging(s, k) ==
  \/ k \in sync[s].again /\ k \notin sync[s].pins
  \/ sync[s].write # NoUpsert /\ sync[s].write.left = "set" /\ sync[s].write.key = k
PinRead == \A s \in Syncers, k \in Keys \ Excused : Badging(s, k) => Unpinned(k)
NInv == TInv /\ Named /\ Single /\ HeldFits /\ Alone /\ PinRead

(* A row of an unexcused key is the first named after it.                  *)
LEMMA OnlyRow ==
  ASSUME NInv, NEW k \in Keys \ Excused, NEW i \in RowsOf(k)
  PROVE  i = <<k, 0>> /\ i \in Ids /\ rows[i] # None
<1>1. i \in Ids /\ rows[i] # None /\ rows[i].key = k /\ i \in Existing
  BY DEF RowsOf, Existing
<1>2. i \notin HandMade
  BY <1>1, KeysAssumption DEF NInv, Named, Excused
<1>3. PICK j \in Keys, n \in 0 .. Twins : i = <<j, n>>
  BY <1>1, <1>2 DEF Ids
<1>4. j = k
  BY <1>1, <1>3, KeysAssumption DEF NInv, Named
<1>5. n \in 1 .. Twins => rows[<<k, n>>] = None
  BY DEF NInv, Single
<1>6. n = 0
  BY <1>1, <1>3, <1>4, <1>5, BoundsAssumption
<1> QED BY <1>1, <1>3, <1>4, <1>6

(* An upsert that starts fits, whatever the rows are.                      *)
LEMMA StartFits ==
  ASSUME NEW w \in Upsert, w.how = "look", w.id = <<w.key, 0>>
  PROVE  Fits(w) /\ Fits(w)'
<1>1. w.key \in Keys /\ 0 \in 0 .. Twins
  BY BoundsAssumption DEF Upsert
<1>2. w.id \notin HandMade /\ w.id # <<w.key, 1>>
  BY <1>1, NamesAssumption
<1> QED BY <1>1, <1>2 DEF Fits, Sees

(* What it goes on to after a look fits.                                   *)
LEMMA SeenFits ==
  ASSUME NInv, NEW w \in Upsert, w.how \in Looks, Fits(w), NEW x \in Seen(w), x # NoUpsert
  PROVE  x \in Upsert /\ x.key = w.key /\ x.left = w.left /\ Fits(x)
<1>1. x \in Upsert /\ x.key = w.key /\ x.left = w.left /\ w.key \in Keys
  BY SeenOK DEF Upsert
<1>2. PICK m \in 0 .. Twins : w.id = <<w.key, m>>
  BY DEF Upsert
<1>3. HandMade \cap (Keys \X (0 .. Twins)) = {} /\ None \notin Keys /\ 0 \in 0 .. Twins
  BY NamesAssumption, KeysAssumption, BoundsAssumption
<1>4. \/ x.id \in RowsOf(w.key) /\ x.how = "update" /\ w.how = "look"
      \/ \E n \in 0 .. Twins : x.id = <<w.key, n>>
  <2>1. CASE w.how = "look"
    BY <2>1, <1>3, SeenOK
  <2>2. CASE w.how = "shell"
    <3>1. x.how \in Looks => \E n \in 0 .. Twins : x.id = <<x.key, n>>
      BY <1>1 DEF Upsert
    <3>2. x.id = w.id \/ x.how \in {"shell", "name"}
      BY <2>2, SeenOK
    <3> QED BY <1>1, <1>2, <3>1, <3>2 DEF Looks
  <2>3. CASE w.how = "name"
    BY <2>3, <1>2, SeenOK
  <2> QED BY <2>1, <2>2, <2>3 DEF Looks
<1>5. x.id \in HandMade => x.key \in linked
  <2>1. CASE x.id \in RowsOf(w.key)
    BY <2>1, <1>1, <1>3 DEF RowsOf, Existing, NInv, Named
  <2>2. CASE \E n \in 0 .. Twins : x.id = <<w.key, n>>
    BY <2>2, <1>1, <1>3
  <2> QED BY <1>4, <2>1, <2>2
<1>6. ASSUME NEW k \in Keys, NEW n \in 0 .. Twins, x.id = <<k, n>> PROVE k = x.key
  <2>1. CASE x.id \in RowsOf(w.key)
    BY <2>1, <1>1, <1>3, <1>6 DEF RowsOf, Existing, NInv, Named
  <2>2. CASE \E j \in 0 .. Twins : x.id = <<w.key, j>>
    BY <2>2, <1>1, <1>6
  <2> QED BY <1>4, <2>1, <2>2
<1>7. ASSUME x.key \notin Excused PROVE Sees(x)
  <2>0. w.key \in Keys \ Excused /\ Sees(w)
    BY <1>1, <1>7 DEF Fits
  <2>1. CASE w.how = "look"
    <3>1. CASE x.how = "update" /\ x.id \in RowsOf(w.key)
      <4>1. x.id = <<w.key, 0>>
        BY <2>0, <3>1, OnlyRow
      <4> QED BY <1>1, <3>1, <4>1 DEF Sees
    <3>2. CASE x.how = "shell" /\ x.id = <<w.key, 0>> /\ RowsOf(w.key) = {}
      BY <1>1, <3>2 DEF Sees
    <3> QED BY <2>1, <3>1, <3>2, SeenOK
  <2>2. CASE w.how = "shell"
    <3>1. RowsOf(w.key) = {} /\ (w.id = <<w.key, 0>> \/ w.id = <<w.key, 1>>)
          /\ (w.id = <<w.key, 1>> => rows[<<w.key, 0>>] = None)
      BY <2>0, <2>2 DEF Sees
    <3>2. CASE x.how = "update" /\ x.id = w.id /\ w.id \in Existing
      <4>1. w.id # <<w.key, 1>>
        <5> SUFFICES ASSUME w.id = <<w.key, 1>> PROVE FALSE
          OBVIOUS
        <5>1. 1 \in 1 .. Twins
          BY <1>2, BoundsAssumption
        <5>2. rows[w.id] = None
          BY <2>0, <5>1 DEF NInv, Single
        <5> QED BY <3>2, <5>2 DEF Existing
      <4> QED BY <1>1, <3>1, <3>2, <4>1 DEF Sees
    <3>3. CASE ~ (w.id \in Existing /\ rows[w.id].key = None)
               /\ (\/ x.how = "shell" /\ x.id = <<w.key, 1>> /\ w.id = <<w.key, 0>>
                   \/ x.how = "name" /\ x.id = <<w.key, 0>>)
      <4>1. rows[<<w.key, 0>>] = None
        <5>1. CASE w.id = <<w.key, 1>>
          BY <3>1, <5>1
        <5>2. CASE w.id = <<w.key, 0>>
          <6> SUFFICES ASSUME rows[w.id] # None PROVE FALSE
            BY <5>2
          <6>1. w.id \in Existing
            BY DEF Existing, Upsert
          <6>2. rows[w.id].key \in {w.key, None}
            BY <1>1, <1>3, <5>2, <6>1 DEF NInv, Named
          <6>3. rows[w.id].key # w.key
            BY <3>1, <6>1 DEF RowsOf
          <6> QED BY <3>3, <6>1, <6>2, <6>3
        <5> QED BY <3>1, <5>1, <5>2
      <4> QED BY <1>1, <3>1, <3>3, <4>1 DEF Sees
    <3> QED BY <2>2, <3>2, <3>3, SeenOK
  <2>3. CASE w.how = "name"
    <3>1. w.id = <<w.key, 0>> /\ rows[<<w.key, 0>>] = None /\ RowsOf(w.key) = {}
      BY <2>0, <2>3 DEF Sees
    <3>2. w.id \notin Existing
      BY <3>1 DEF Existing
    <3>3. x.how = "insert" /\ x.id = w.id
      BY <2>3, <3>2, SeenOK
    <3> QED BY <1>1, <3>1, <3>3 DEF Sees
  <2> QED BY <2>1, <2>2, <2>3 DEF Looks
<1> QED BY <1>1, <1>5, <1>6, <1>7 DEF Fits

(* What an upsert saw stands while no row gets its key or its first name.  *)
Calm(k) ==
  \/ k \in Excused'
  \/ /\ RowsOf(k)' \subseteq RowsOf(k)
     /\ rows[<<k, 0>>] = None => rows'[<<k, 0>>] = None
Grows == linked \subseteq linked' /\ raced \subseteq raced'
LEMMA FitsStays ==
  ASSUME Grows, NEW w \in Upsert, Fits(w), Calm(w.key)
  PROVE  Fits(w)'
<1>1. ASSUME w.key \notin Excused' PROVE Sees(w)'
  <2>1. w.key \notin Excused
    BY <1>1 DEF Excused, Grows
  <2> QED BY <1>1, <2>1 DEF Fits, Sees, Calm
<1> QED BY <1>1 DEF Fits, Grows

(* Calm are the keys of a table that only loses rows and keys, and the     *)
(* other keys when one is written.                                         *)
Fewer ==
  \A i \in Ids : \/ rows'[i] = None
                 \/ rows[i] # None /\ rows'[i].key \in {rows[i].key, None}
LEMMA FewerCalm ==
  ASSUME Fewer, NEW k \in Keys
  PROVE  Calm(k)
<1>1. <<k, 0>> \in Ids /\ k # None
  BY BoundsAssumption, KeysAssumption DEF Ids
<1> QED BY <1>1 DEF Calm, Fewer, RowsOf, Existing
LEMMA WrittenCalm ==
  ASSUME rows \in [Ids -> Row \cup {None}], NEW w \in Upsert, Fits(w), rows' = Written(w),
         NEW k \in Keys, k # w.key
  PROVE  Calm(k)
<1>0. w.id \in Ids /\ w.key \in Keys
  BY DEF Upsert
<1>1. /\ \A i \in Ids \ {w.id} : rows'[i] = rows[i]
      /\ rows' = rows \/ rows'[w.id].key = w.key
  BY WrittenOK
<1>2. <<k, 0>> \in Ids /\ <<k, 0>> # w.id
  BY <1>0, BoundsAssumption DEF Ids, Fits
<1>3. ASSUME NEW i \in Ids, rows'[i] # None, rows'[i].key = k
      PROVE  rows[i] # None /\ rows[i].key = k
  BY <1>0, <1>1, <1>3
<1> QED BY <1>1, <1>2, <1>3 DEF Calm, RowsOf, Existing

(* The upserts in hand fit after a step in which each goes on to one that  *)
(* fits, or stays as it is while its key is calm.                          *)
LEMMA HeldKept ==
  ASSUME NInv, Grows,
         \A t \in Syncers : \/ sync'[t].write = NoUpsert
                            \/ sync'[t].write = sync[t].write /\ Calm(sync[t].write.key)
                            \/ \E x \in Upsert : sync'[t].write = x /\ Fits(x)',
         \A v \in Users : \/ tracking'[v].pc # "write"
                          \/ /\ tracking'[v].pc = tracking[v].pc
                             /\ tracking'[v].write = tracking[v].write
                             /\ Calm(tracking[v].write.key)
                          \/ \E x \in Upsert : tracking'[v].write = x /\ Fits(x)'
  PROVE  HeldFits'
<1>1. ASSUME NEW t \in Syncers, sync'[t].write # NoUpsert PROVE Fits(sync[t].write)'
  <2>1. CASE sync'[t].write = sync[t].write /\ Calm(sync[t].write.key)
    <3>1. PICK w \in Upsert : w = sync[t].write
      BY <1>1, <2>1, SyncOK DEF NInv, TInv
    <3>2. Fits(w)
      BY <1>1, <2>1, <3>1 DEF NInv, HeldFits
    <3>3. Fits(w)'
      BY <2>1, <3>1, <3>2, FitsStays
    <3>4. sync'[t].write = w
      BY <2>1, <3>1
    <3> QED BY <3>3, <3>4
  <2>2. CASE \E x \in Upsert : sync'[t].write = x /\ Fits(x)'
    <3>1. PICK x \in Upsert : sync'[t].write = x /\ Fits(x)'
      BY <2>2
    <3> QED BY <3>1
  <2> QED BY <1>1, <2>1, <2>2
<1>2. ASSUME NEW v \in Users, tracking'[v].pc = "write" PROVE Fits(tracking[v].write)'
  <2>1. CASE /\ tracking'[v].pc = tracking[v].pc
             /\ tracking'[v].write = tracking[v].write
             /\ Calm(tracking[v].write.key)
    <3>1. PICK w \in Upsert : w = tracking[v].write
      BY <1>2, <2>1 DEF NInv, TInv, TrackHas
    <3>2. Fits(w)
      BY <1>2, <2>1, <3>1 DEF NInv, HeldFits
    <3>3. Fits(w)'
      BY <2>1, <3>1, <3>2, FitsStays
    <3>4. tracking'[v].write = w
      BY <2>1, <3>1
    <3> QED BY <3>3, <3>4
  <2>2. CASE \E x \in Upsert : tracking'[v].write = x /\ Fits(x)'
    <3>1. PICK x \in Upsert : tracking'[v].write = x /\ Fits(x)'
      BY <2>2
    <3> QED BY <3>1
  <2> QED BY <1>2, <2>1, <2>2
<1> QED BY <1>1, <1>2 DEF HeldFits

(* Threads stay alone when none takes a key, or one takes a key that no    *)
(* other has, or else the key is raced.                                    *)
LEMMA AloneKept ==
  ASSUME NInv, Grows,
         \A t \in Syncers, k \in Keys \ Excused' : Syncs(t, k)' => Syncs(t, k),
         \A v \in Users, k \in Keys \ Excused' : Tracks(v, k)' => Tracks(v, k)
  PROVE  Alone'
<1>1. \A k \in Keys \ Excused' : k \in Keys \ Excused
  BY DEF Excused, Grows
<1> QED BY <1>1 DEF NInv, Alone
LEMMA MetIsRaced ==
  ASSUME NEW k \in Keys, Meet(k), k \notin Excused'
  PROVE  (\A t \in Syncers : ~Syncs(t, k)) /\ (\A v \in Users : ~Tracks(v, k))
<1>1. k \notin InHand
  BY DEF Meet, Excused
<1> QED BY <1>1 DEF InHand, Syncs, Tracks
LEMMA AloneTaken ==
  ASSUME NInv, Grows, NEW k \in Keys, Meet(k),
         \/ /\ UNCHANGED tracking
            /\ \E s \in Syncers : /\ \A t \in Syncers \ {s} : sync'[t] = sync[t]
                                  /\ sync'[s].write.key = k \/ sync'[s].write = NoUpsert
         \/ /\ UNCHANGED sync
            /\ \E u \in Users : /\ \A v \in Users \ {u} : tracking'[v] = tracking[v]
                                /\ tracking'[u].write.key = k
  PROVE  Alone'
<1>1. \A j \in Keys \ Excused' : j \in Keys \ Excused
  BY DEF Excused, Grows
<1>2. CASE /\ UNCHANGED tracking
           /\ \E s \in Syncers : /\ \A t \in Syncers \ {s} : sync'[t] = sync[t]
                                 /\ sync'[s].write.key = k \/ sync'[s].write = NoUpsert
  <2>1. PICK s \in Syncers : /\ \A t \in Syncers \ {s} : sync'[t] = sync[t]
                             /\ sync'[s].write.key = k \/ sync'[s].write = NoUpsert
    BY <1>2
  <2>2. \A j \in Keys, t \in Syncers : Syncs(t, j)' => Syncs(t, j) \/ (t = s /\ j = k)
    BY <2>1 DEF Syncs
  <2>3. \A j \in Keys, v \in Users : Tracks(v, j)' => Tracks(v, j)
    BY <1>2 DEF Tracks
  <2> QED BY <1>1, <2>2, <2>3, MetIsRaced DEF NInv, Alone
<1>3. CASE /\ UNCHANGED sync
           /\ \E u \in Users : /\ \A v \in Users \ {u} : tracking'[v] = tracking[v]
                               /\ tracking'[u].write.key = k
  <2>1. PICK u \in Users : /\ \A v \in Users \ {u} : tracking'[v] = tracking[v]
                           /\ tracking'[u].write.key = k
    BY <1>3
  <2>2. \A j \in Keys, v \in Users : Tracks(v, j)' => Tracks(v, j) \/ (v = u /\ j = k)
    BY <2>1 DEF Tracks
  <2>3. \A j \in Keys, t \in Syncers : Syncs(t, j)' => Syncs(t, j)
    BY <1>3 DEF Syncs
  <2> QED BY <1>1, <2>2, <2>3, MetIsRaced DEF NInv, Alone
<1> QED BY <1>2, <1>3

(* A table keeps to the names when rows go, lose their key, or change only *)
(* in what the names are not about.                                        *)
LEMMA FewerFit ==
  ASSUME Named, Single, Grows, Fewer
  PROVE  Named' /\ Single'
<1>1. Named'
  <2> SUFFICES ASSUME NEW i \in Ids, rows'[i] # None
               PROVE  /\ (i \in HandMade /\ rows'[i].key # None) => rows'[i].key \in linked'
                      /\ \A k \in Keys, n \in 0 .. Twins :
                           i = <<k, n>> => rows'[i].key \in {k, None}
    BY DEF Named, Existing
  <2> QED BY DEF Named, Existing, Fewer, Grows
<1>2. Single'
  <2>1. (Keys \ Excused') \X (1 .. Twins) \subseteq (Keys \ Excused) \X (1 .. Twins)
    BY DEF Excused, Grows
  <2>2. (Keys \ Excused) \X (1 .. Twins) \subseteq Ids
    BY BoundsAssumption DEF Ids
  <2> QED BY <2>1, <2>2 DEF Single, Fewer
<1> QED BY <1>1, <1>2

(* Writing what fits keeps the table to the names, and pins nothing.       *)
LEMMA WrittenFits ==
  ASSUME NInv, NEW w \in Upsert, w.how \in Writes, Fits(w), rows' = Written(w),
         UNCHANGED <<linked, raced>>
  PROVE  Named' /\ Single' /\ \A k \in Keys : Unpinned(k) => Unpinned(k)'
<1>a. /\ w.id \in Ids /\ w.key \in Keys /\ rows \in [Ids -> Row \cup {None}]
      /\ Ids = HandMade \cup (Keys \X (0 .. Twins)) /\ None \notin Keys
  BY KeysAssumption DEF Upsert, NInv, TInv, TypeOK, Ids
<1>b. /\ \A i \in Ids \ {w.id} : rows'[i] = rows[i]
      /\ \/ rows' = rows
         \/ /\ rows'[w.id].key = w.key
            /\ rows[w.id] # None => rows'[w.id].pinned = rows[w.id].pinned
            /\ rows[w.id] = None => rows'[w.id].pinned = FALSE
  BY <1>a, WrittenOK
<1>1. Named'
  <2> SUFFICES ASSUME NEW i \in Ids, rows'[i] # None
               PROVE  /\ (i \in HandMade /\ rows'[i].key # None) => rows'[i].key \in linked
                      /\ \A k \in Keys, n \in 0 .. Twins :
                           i = <<k, n>> => rows'[i].key \in {k, None}
    BY DEF Named, Existing
  <2>1. CASE rows'[i] = rows[i]
    BY <2>1 DEF NInv, Named, Existing
  <2>2. CASE i = w.id /\ rows'[w.id].key = w.key
    BY <2>2 DEF Fits
  <2> QED BY <1>b, <2>1, <2>2
<1>2. Single'
  <2> SUFFICES ASSUME NEW i \in (Keys \ Excused) \X (1 .. Twins) PROVE rows'[i] = None
    BY DEF Single, Excused
  <2>1. PICK k \in Keys \ Excused, n \in 1 .. Twins : i = <<k, n>>
    OBVIOUS
  <2>2. n \in 0 .. Twins /\ n # 0 /\ i \in Ids
    BY <1>a, <2>1, BoundsAssumption
  <2>3. i # w.id
    <3> SUFFICES ASSUME i = w.id PROVE FALSE
      OBVIOUS
    <3>1. k = w.key
      BY <2>1, <2>2 DEF Fits
    <3>2. w.id = <<w.key, 0>>
      BY <2>1, <3>1 DEF Fits, Sees, Writes
    <3>3. <<k, n>> = <<w.key, 0>>
      BY <2>1, <3>2
    <3>4. n = 0
      BY ONLY <3>3
    <3> QED BY <2>2, <3>4
  <2> QED BY <1>b, <2>2, <2>3 DEF NInv, Single
<1>3. ASSUME NEW k \in Keys, Unpinned(k), NEW n \in 0 .. Twins, rows'[<<k, n>>] # None
      PROVE  ~rows'[<<k, n>>].pinned
  <2>1. <<k, n>> \in Ids
    BY <1>a
  <2> QED BY <1>3, <1>b, <2>1 DEF Unpinned
<1> QED BY <1>1, <1>2, <1>3 DEF Unpinned

(* A step that leaves the rows alone, or changes them and pins nothing,    *)
(* keeps what the syncs rely on.                                           *)
LEMMA PinKept ==
  ASSUME NInv, UNCHANGED linked, raced \subseteq raced',
         \A k \in Keys : Unpinned(k) => Unpinned(k)',
         \A s \in Syncers, k \in Keys \ Excused :
           Badging(s, k)' => Badging(s, k) \/ Unpinned(k)
  PROVE  PinRead'
<1> SUFFICES ASSUME NEW s \in Syncers, NEW k \in Keys \ Excused', Badging(s, k)'
             PROVE  Unpinned(k)'
  BY DEF PinRead
<1>1. k \in Keys \ Excused
  BY DEF Excused
<1>2. Badging(s, k) \/ Unpinned(k)
  BY <1>1
<1>3. Unpinned(k)
  BY <1>1, <1>2 DEF NInv, PinRead
<1> QED BY <1>1, <1>3

(* The same for a step of one sync.                                        *)
LEMMA SyncFit ==
  ASSUME NInv, NEW s \in Syncers, UNCHANGED <<tracking, linked>>, raced \subseteq raced',
         \A t \in Syncers \ {s} : sync'[t] = sync[t],
         \/ sync'[s].write = NoUpsert
         \/ \E x \in Upsert : sync'[s].write = x /\ Fits(x)',
         \A t \in Syncers \ {s}, k \in Keys : Syncs(t, k) => Calm(k),
         \A u \in Users, k \in Keys : Tracks(u, k) => Calm(k),
         \A k \in Keys : Unpinned(k) => Unpinned(k)',
         \A k \in Keys \ Excused : Badging(s, k)' => Badging(s, k) \/ Unpinned(k)
  PROVE  HeldFits' /\ PinRead'
<1>0. Grows
  BY DEF Grows
<1>1. ASSUME NEW t \in Syncers
      PROVE  \/ sync'[t].write = NoUpsert
             \/ sync'[t].write = sync[t].write /\ Calm(sync[t].write.key)
             \/ \E x \in Upsert : sync'[t].write = x /\ Fits(x)'
  <2>1. CASE t = s
    BY <2>1
  <2>2. CASE t # s
    <3>1. sync'[t].write = sync[t].write
      BY <2>2
    <3>2. sync[t].write # NoUpsert => sync[t].write.key \in Keys
      BY SyncOK DEF NInv, TInv, Upsert
    <3>3. sync[t].write # NoUpsert => Calm(sync[t].write.key)
      BY <2>2, <3>2 DEF Syncs
    <3> QED BY <3>1, <3>3
  <2> QED BY <2>1, <2>2
<1>2. ASSUME NEW v \in Users
      PROVE  \/ tracking'[v].pc # "write"
             \/ /\ tracking'[v].pc = tracking[v].pc /\ tracking'[v].write = tracking[v].write
                /\ Calm(tracking[v].write.key)
  <2>1. tracking[v].pc = "write" => tracking[v].write.key \in Keys
    BY DEF NInv, TInv, TrackHas, Upsert
  <2> QED BY <2>1 DEF Tracks
<1>3. HeldFits'
  BY <1>0, <1>1, <1>2, HeldKept
<1>4. ASSUME NEW t \in Syncers, NEW k \in Keys \ Excused, Badging(t, k)'
      PROVE  Badging(t, k) \/ Unpinned(k)
  <2>1. CASE t = s
    BY <1>4, <2>1
  <2>2. CASE t # s
    <3>1. sync'[t] = sync[t]
      BY <2>2
    <3> QED BY <1>4, <3>1 DEF Badging
  <2> QED BY <2>1, <2>2
<1>5. PinRead'
  BY <1>4, PinKept
<1> QED BY <1>3, <1>5

(* Detaching the rows of a key keeps the table to the names.               *)
LEMMA DetachedFits ==
  ASSUME NInv, NEW k \in Keys, rows' = Detached(k), Grows
  PROVE  Named' /\ Single' /\ Fewer /\ \A j \in Keys : Unpinned(j) => Unpinned(j)'
<1> DEFINE d(r) == [r EXCEPT !.key = None, !.inst = None, !.synced = FALSE]
<1>1. rows' = [i \in Ids |-> IF i \in RowsOf(k) THEN d(rows[i]) ELSE rows[i]]
  BY Zenon DEF Detached
<1>2. \A r \in Row : d(r).key = None /\ d(r).pinned = r.pinned
  BY DEF Row
<1>3. \A i \in Ids : rows[i] \in Row \cup {None} /\ (i \in RowsOf(k) => rows[i] # None)
  BY DEF NInv, TInv, TypeOK, RowsOf, Existing
<1> HIDE DEF d
<1>4. \A i \in Ids : \/ rows'[i] = rows[i]
                     \/ /\ rows[i] # None /\ rows'[i].key = None
                        /\ rows'[i].pinned = rows[i].pinned
  BY <1>1, <1>2, <1>3
<1>5. Fewer
  BY <1>4 DEF Fewer
<1>6. Named' /\ Single'
  BY <1>5, FewerFit DEF NInv
<1>7. ASSUME NEW j \in Keys, Unpinned(j), NEW n \in 0 .. Twins, rows'[<<j, n>>] # None
      PROVE  ~rows'[<<j, n>>].pinned
  <2>1. <<j, n>> \in Ids
    BY DEF Ids
  <2> QED BY <1>4, <1>7, <2>1 DEF Unpinned
<1> QED BY <1>5, <1>6, <1>7 DEF Unpinned

(* When the rows stay, so does all that is said of them.                   *)
LEMMA RowsStay ==
  ASSUME NInv, UNCHANGED rows, Grows
  PROVE  /\ Named' /\ Single' /\ \A k \in Keys : (Unpinned(k) => Unpinned(k)') /\ Calm(k)
<1>1. Fewer
  BY DEF Fewer
<1>2. \A k \in Keys : Unpinned(k) => Unpinned(k)'
  BY DEF Unpinned
<1> QED BY <1>1, <1>2, FewerFit, FewerCalm DEF NInv

(* The steps of a sync keep the table to the names.                        *)
LEMMA SyncNames ==
  ASSUME NInv, NEW s \in Syncers, SyncStep(s)
  PROVE  Named' /\ Single' /\ HeldFits' /\ Alone' /\ PinRead'
<1> DEFINE Kept == Named' /\ Single' /\ \A k \in Keys : Unpinned(k) => Unpinned(k)'
<1>a. TypeOK /\ sync \in [Syncers -> Sync] /\ rows \in [Ids -> Row \cup {None}]
      /\ sync[s] \in Sync /\ sync[s].write \in Upsert \cup {NoUpsert}
      /\ Instance(s) \in ToSet(Instances) /\ sync[s].ver \in [Keys -> 0 .. MaxChanges]
      /\ sync[s].found \in SUBSET Keys /\ sync[s].found \in SUBSET Nat
  BY SyncOK, KeysAssumption DEF NInv, TInv, TypeOK
<1>b. sync[s].write # NoUpsert => Fits(sync[s].write)
  BY DEF NInv, HeldFits
<1>c. UNCHANGED <<rows, linked>> /\ raced \subseteq raced' => Kept /\ \A k \in Keys : Calm(k)
  BY RowsStay DEF Grows
<1>d. ASSUME UNCHANGED <<tracking, linked>>, raced \subseteq raced',
             \A t \in Syncers \ {s} : sync'[t] = sync[t],
             \/ sync'[s].write = NoUpsert
             \/ sync[s].write # NoUpsert /\ sync'[s].write.key = sync[s].write.key
      PROVE  Alone'
  <2>1. \A t \in Syncers, k \in Keys : Syncs(t, k)' => Syncs(t, k)
    BY <1>d DEF Syncs
  <2>2. \A v \in Users, k \in Keys : Tracks(v, k)' => Tracks(v, k)
    BY <1>d DEF Tracks
  <2> QED BY <1>d, <2>1, <2>2, AloneKept DEF Grows
<1>1. CASE SearchFails(s) \/ FetchBreaks(s) \/ Done(s) \/ SearchAnswers(s)
  <2>1. /\ sync'[s].again = {} /\ sync'[s].write = NoUpsert
        /\ \A t \in Syncers \ {s} : sync'[t] = sync[t]
    <3>1. CASE SearchAnswers(s)
      BY <1>a, <3>1 DEF SearchAnswers, Rest
    <3>2. CASE SearchFails(s) \/ FetchBreaks(s) \/ Done(s)
      BY <1>a, <3>2 DEF SearchFails, FetchBreaks, Done, NextInstance, Rest
    <3> QED BY <1>1, <3>1, <3>2
  <2>2. UNCHANGED <<rows, tracking, raced, linked>>
    BY <1>1 DEF SearchFails, FetchBreaks, Done, SearchAnswers, Same
  <2>3. \A k \in Keys : ~Badging(s, k)'
    BY <2>1 DEF Badging
  <2>4. Alone'
    BY <1>d, <2>1, <2>2
  <2> QED BY <1>c, <2>1, <2>2, <2>3, <2>4, SyncFit
<1>2. CASE TakeIssue(s)
  <2> DEFINE k == Least(sync[s].found)
  <2>0. sync[s].found # {} /\ sync[s].write = NoUpsert
    BY <1>2 DEF TakeIssue
  <2>1. k \in sync[s].found /\ k \in Keys /\ sync[s].ver[k] \in 0 .. MaxChanges
    BY <1>a, <2>0, LeastOK
  <2>2. UNCHANGED <<rows, tracking, linked>> /\ raced \subseteq raced' /\ Meet(k)
    BY <1>2 DEF TakeIssue, Same, Meet
  <2>3. PICK w : w = Start(k, Instance(s), sync[s].ver[k], "clear") /\ Taken(s, k, w)
    BY <1>2 DEF TakeIssue
  <2>4. w \in Upsert /\ w.how = "look" /\ w.id = <<k, 0>> /\ w.key = k /\ w.left = "clear"
    BY <1>a, <2>1, <2>3, StartOK
  <2> HIDE DEF k
  <2>5. Fits(w)'
    BY <2>4, StartFits
  <2>6. /\ sync'[s].again = sync[s].again /\ sync'[s].pins = sync[s].pins /\ sync'[s].write = w
        /\ \A t \in Syncers \ {s} : sync'[t] = sync[t]
    BY <1>a, <2>3 DEF Taken, Sync
  <2>7. \A j \in Keys : Badging(s, j)' => Badging(s, j)
    BY <2>4, <2>6 DEF Badging
  <2>8. Alone'
    BY <2>1, <2>2, <2>4, <2>6, AloneTaken DEF Grows
  <2> QED BY <1>c, <2>2, <2>4, <2>5, <2>6, <2>7, <2>8, SyncFit
<1>7. CASE SyncLooks(s)
  <2>1. UNCHANGED <<rows, tracking, linked, raced>> /\ sync[s].write.how \in Looks
    BY <1>7 DEF SyncLooks, Same
  <2>2. PICK x \in Seen(sync[s].write) : sync' = [sync EXCEPT ![s].write = x]
    BY <1>7 DEF SyncLooks
  <2>3. PICK w \in Upsert : w = sync[s].write
    BY <1>a, <2>1 DEF NoUpsert, Looks
  <2>4. w # NoUpsert
    BY <2>1, <2>3 DEF NoUpsert, Looks
  <2>5. x # NoUpsert => x \in Upsert /\ x.key = w.key /\ x.left = w.left /\ Fits(x)
    BY <1>b, <2>1, <2>2, <2>3, <2>4, SeenFits
  <2>6. x # NoUpsert => Fits(x)'
    <3>1. x # NoUpsert => x.key \in Keys
      BY <2>5 DEF Upsert
    <3> QED BY <1>c, <2>1, <2>5, <3>1, FitsStays DEF Grows
  <2>7. /\ sync'[s].again = sync[s].again /\ sync'[s].pins = sync[s].pins /\ sync'[s].write = x
        /\ \A t \in Syncers \ {s} : sync'[t] = sync[t]
    BY <1>a, <2>2 DEF Sync
  <2>8. \A j \in Keys : Badging(s, j)' => Badging(s, j)
    BY <2>3, <2>4, <2>5, <2>7 DEF Badging
  <2>9. Alone'
    BY <1>d, <2>1, <2>3, <2>4, <2>5, <2>7
  <2> QED BY <1>c, <2>1, <2>5, <2>6, <2>7, <2>8, <2>9, SyncFit
<1>3. CASE WriteIssue(s) \/ WriteLeft(s)
  <2>0. sync[s].write.how \in Writes
    BY <1>3 DEF WriteIssue, WriteLeft
  <2>1. PICK w \in Upsert : w = sync[s].write /\ w # NoUpsert /\ rows' = Written(w)
    BY <1>3, <1>a, <2>0 DEF WriteIssue, WriteLeft, NoUpsert, Writes
  <2>a. Fits(w) /\ w.how \in Writes
    BY <1>b, <2>0, <2>1
  <2>2. UNCHANGED <<tracking, linked, raced>>
    BY <1>3 DEF WriteIssue, WriteLeft, Same
  <2>3. Kept
    BY <2>1, <2>a, <2>2, WrittenFits
  <2>4. /\ sync'[s].again = sync[s].again /\ sync'[s].pins = sync[s].pins
        /\ sync'[s].write = NoUpsert
        /\ \A t \in Syncers \ {s} : sync'[t] = sync[t]
    <3>1. CASE WriteIssue(s)
      BY <1>a, <3>1 DEF WriteIssue, Sync
    <3>2. CASE WriteLeft(s)
      BY <1>a, <3>2 DEF WriteLeft, Sync
    <3> QED BY <1>3, <3>1, <3>2
  <2>5. \A j \in Keys : Badging(s, j)' => Badging(s, j)
    BY <2>4 DEF Badging
  <2>6. Alone'
    BY <1>d, <2>2, <2>4
  <2>7. Syncs(s, w.key) /\ w.key \in Keys
    BY <2>1 DEF Syncs, Upsert
  <2>8. \A k \in Keys : k # w.key => Calm(k)
    BY <1>a, <2>1, <2>a, WrittenCalm
  <2>9. w.key \in Excused => Calm(w.key)
    BY <2>2 DEF Calm, Excused
  <2>10. /\ \A t \in Syncers \ {s}, k \in Keys : Syncs(t, k) => Calm(k)
         /\ \A u \in Users, k \in Keys : Tracks(u, k) => Calm(k)
    BY <2>7, <2>8, <2>9 DEF NInv, Alone
  <2> QED BY <2>2, <2>3, <2>4, <2>5, <2>6, <2>10, SyncFit
<1>4. CASE Filter(s)
  <2>1. UNCHANGED <<rows, tracking, raced, linked>>
    BY <1>4 DEF Filter, Same
  <2>2. /\ sync'[s].again = ToAsk(s) /\ sync'[s].write = NoUpsert
        /\ sync'[s].pins = {k \in ToAsk(s) : rows[RowFor(s, k)].pinned}
        /\ \A t \in Syncers \ {s} : sync'[t] = sync[t]
    <3>1. PICK q : q = ToAsk(s)
      OBVIOUS
    <3>2. PICK f : f = {k \in ToAsk(s) : rows[RowFor(s, k)].pinned}
      OBVIOUS
    <3>3. sync' = [sync EXCEPT ![s] = [Rest EXCEPT !.at = sync[s].at, !.pc = "asked",
                                                   !.again = q, !.pins = f]]
      BY <1>4, <3>1, <3>2 DEF Filter
    <3> QED BY <1>a, <3>1, <3>2, <3>3 DEF Rest
  <2>3. ASSUME NEW k \in Keys \ Excused, Badging(s, k)' PROVE Unpinned(k)
    <3>1. k \in ToAsk(s) /\ ~rows[RowFor(s, k)].pinned
      BY <2>2, <2>3 DEF Badging
    <3>2. k \in Disappeared(s)
      <4>1. {j \in Disappeared(s) : KeepsAsking(RowFor(s, j))} \in SUBSET Keys
        BY SyncOK, <1>a DEF Disappeared
      <4> QED BY <3>1, <4>1, FirstOfOK DEF ToAsk
    <3>3. RowFor(s, k) \in RowsOf(k)
      BY <3>2, RowForOK DEF GetTicket
    <3>4. RowFor(s, k) = <<k, 0>>
      BY <3>3, OnlyRow
    <3>5. \A n \in 1 .. Twins : rows[<<k, n>>] = None
      BY DEF NInv, Single
    <3>6. \A n \in 0 .. Twins : n = 0 \/ n \in 1 .. Twins
      BY BoundsAssumption
    <3> QED BY <3>1, <3>4, <3>5, <3>6 DEF Unpinned
  <2>4. Alone'
    BY <1>d, <2>1, <2>2
  <2> QED BY <1>c, <2>1, <2>2, <2>3, <2>4, SyncFit
<1>5. CASE FetchFails(s) \/ FetchFindsNone(s)
  <2>1. Asking(s) /\ Answered(s, NoUpsert) /\ UNCHANGED <<tracking, linked>>
        /\ raced \subseteq raced'
    BY <1>5 DEF FetchFails, FetchFindsNone, Same, Meet
  <2>2. Kept /\ \A k \in Keys : Calm(k)
    <3>1. CASE FetchFails(s)
      BY <1>c, <3>1 DEF FetchFails, Same
    <3>2. CASE FetchFindsNone(s)
      BY <1>a, <2>1, <3>2, AskedOK, DetachedFits, FewerCalm DEF FetchFindsNone, Grows
    <3> QED BY <1>5, <3>1, <3>2
  <2>3. /\ sync'[s].again = sync[s].again \ {Asked(s)}
        /\ sync'[s].pins = sync[s].pins \ {Asked(s)}
        /\ sync'[s].write = NoUpsert /\ \A t \in Syncers \ {s} : sync'[t] = sync[t]
    BY <1>a, <2>1 DEF Answered, Sync
  <2>4. \A j \in Keys : Badging(s, j)' => Badging(s, j)
    BY <2>3 DEF Badging
  <2>5. Alone'
    BY <1>d, <2>1, <2>3
  <2> QED BY <2>1, <2>2, <2>3, <2>4, <2>5, SyncFit
<1>6. CASE FetchFinds(s)
  <2>1. Asking(s) /\ UNCHANGED <<rows, tracking, linked>> /\ raced \subseteq raced'
        /\ sync[s].write = NoUpsert
    BY <1>6 DEF FetchFinds, Same, Meet, Asking
  <2>2. PICK k \in Keys : k = Asked(s) /\ k \in sync[s].again
    BY <1>a, <2>1, AskedOK
  <2>3. jira[k].ver \in 0 .. MaxChanges
    BY DEF NInv, TInv, TypeOK, Issue
  <2>4. PICK b \in {"keep", "set", "clear"} : b = BadgeFor(k \in sync[s].pins)
    BY DEF BadgeFor
  <2>5. b = "set" => k \notin sync[s].pins
    BY <2>4 DEF BadgeFor
  <2>6. PICK w : w = Start(k, Instance(s), jira[k].ver, b) /\ Answered(s, w) /\ Meet(k)
    BY <1>6, <2>2, <2>4 DEF FetchFinds
  <2>7. w \in Upsert /\ w.how = "look" /\ w.id = <<k, 0>> /\ w.key = k /\ w.left = b
    BY <1>a, <2>3, <2>6, StartOK
  <2>8. Fits(w)'
    BY <2>7, StartFits
  <2>9. /\ sync'[s].again = sync[s].again \ {k} /\ sync'[s].pins = sync[s].pins \ {k}
        /\ sync'[s].write = w /\ \A t \in Syncers \ {s} : sync'[t] = sync[t]
    BY <1>a, <2>2, <2>6 DEF Answered, Sync
  <2>10. \A j \in Keys : Badging(s, j)' => Badging(s, j)
    BY <2>2, <2>5, <2>7, <2>9 DEF Badging
  <2>11. Alone'
    BY <2>1, <2>6, <2>7, <2>9, AloneTaken DEF Grows
  <2> QED BY <1>c, <2>1, <2>7, <2>8, <2>9, <2>10, <2>11, SyncFit
<1> QED BY <1>1, <1>2, <1>3, <1>4, <1>5, <1>6, <1>7 DEF SyncStep

(* The same for a step of one user, which leaves the syncs as they are.    *)
LEMMA UserFit ==
  ASSUME NInv, NEW u \in Users, UNCHANGED <<sync, linked>>, raced \subseteq raced',
         \A v \in Users \ {u} : tracking'[v] = tracking[v],
         \/ tracking'[u].pc # "write"
         \/ \E x \in Upsert : tracking'[u].write = x /\ Fits(x)',
         \A t \in Syncers, k \in Keys : Syncs(t, k) => Calm(k),
         \A v \in Users \ {u}, k \in Keys : Tracks(v, k) => Calm(k)
  PROVE  HeldFits'
<1>0. Grows
  BY DEF Grows
<1>1. ASSUME NEW t \in Syncers
      PROVE  \/ sync'[t].write = NoUpsert
             \/ sync'[t].write = sync[t].write /\ Calm(sync[t].write.key)
  <2>1. sync[t].write # NoUpsert => sync[t].write.key \in Keys
    BY SyncOK DEF NInv, TInv, Upsert
  <2> QED BY <2>1 DEF Syncs
<1>2. ASSUME NEW v \in Users
      PROVE  \/ tracking'[v].pc # "write"
             \/ /\ tracking'[v].pc = tracking[v].pc /\ tracking'[v].write = tracking[v].write
                /\ Calm(tracking[v].write.key)
             \/ \E x \in Upsert : tracking'[v].write = x /\ Fits(x)'
  <2>1. CASE v = u
    BY <2>1
  <2>2. CASE v # u
    <3>1. tracking[v].pc = "write" => tracking[v].write.key \in Keys
      BY DEF NInv, TInv, TrackHas, Upsert
    <3>2. tracking'[v] = tracking[v]
      BY <2>2
    <3> QED BY <2>2, <3>1, <3>2 DEF Tracks
  <2> QED BY <2>1, <2>2
<1> QED BY <1>0, <1>1, <1>2, HeldKept

(* So do the steps of the users.                                           *)
LEMMA UserNames ==
  ASSUME NInv, UserStep
  PROVE  Named' /\ Single' /\ HeldFits' /\ Alone' /\ PinRead'
<1> DEFINE Goal == Named' /\ Single' /\ HeldFits' /\ Alone' /\ PinRead'
<1>a. /\ rows \in [Ids -> Row \cup {None}] /\ tracking \in [Users -> Track]
      /\ jira \in [Keys -> Issue] /\ TrackHas
  BY DEF NInv, TInv, TypeOK
<1>b. UNCHANGED <<sync, linked>> => \A s \in Syncers, k \in Keys : Badging(s, k)' => Badging(s, k)
  BY DEF Badging
<1>c. NoTrack.pc = "idle"
  BY DEF NoTrack
<1>d. ASSUME UNCHANGED sync, Grows, NEW u \in Users,
             \A v \in Users \ {u} : tracking'[v] = tracking[v],
             \/ tracking'[u].pc # "write"
             \/ tracking[u].pc = "write" /\ tracking'[u].write.key = tracking[u].write.key
      PROVE  Alone'
  <2>1. \A t \in Syncers, k \in Keys : Syncs(t, k)' => Syncs(t, k)
    BY <1>d DEF Syncs
  <2>2. \A v \in Users, k \in Keys : Tracks(v, k)' => Tracks(v, k)
    BY <1>d DEF Tracks
  <2> QED BY <1>d, <2>1, <2>2, AloneKept
<1>e. ASSUME UNCHANGED <<rows, sync, linked>>, raced \subseteq raced', Alone', NEW u \in Users,
             \A v \in Users \ {u} : tracking'[v] = tracking[v],
             \/ tracking'[u].pc # "write"
             \/ \E x \in Upsert : tracking'[u].write = x /\ Fits(x)'
      PROVE  Goal
  <2>1. Named' /\ Single' /\ \A k \in Keys : (Unpinned(k) => Unpinned(k)') /\ Calm(k)
    BY <1>e, RowsStay DEF Grows
  <2> QED BY <1>b, <1>e, <2>1, UserFit, PinKept
<1>1. ASSUME NEW u \in Users, NEW k \in Keys, TrackTicket(u, k) PROVE Goal
  <2>1. UNCHANGED <<rows, sync, linked, raced>>
    BY <1>1 DEF TrackTicket
  <2>2. /\ tracking'[u].pc = "ask" /\ \A v \in Users \ {u} : tracking'[v] = tracking[v]
    BY <1>1, <1>a DEF TrackTicket, NoTrack
  <2>3. Alone'
    BY <1>d, <2>1, <2>2 DEF Grows
  <2> QED BY <1>e, <2>1, <2>2, <2>3
<1>6. ASSUME NEW u \in Users, TrackAsks(u) PROVE Goal
  <2>1. PICK k \in Keys : k = tracking[u].key
    BY <1>6, <1>a DEF TrackAsks, TrackHas
  <2>2. UNCHANGED <<rows, sync, linked>> /\ raced \subseteq raced' /\ Meet(k)
    BY <1>6, <2>1 DEF TrackAsks, Same, Meet
  <2>3. jira[k].ver \in 0 .. MaxChanges /\ Home[k] \in ToSet(Instances)
    BY <1>a, HomeAssumption DEF Issue
  <2>4. PICK w \in Upsert : /\ w = Start(k, Home[k], jira[k].ver, "keep")
                           /\ w.how = "look" /\ w.id = <<k, 0>> /\ w.key = k
    BY <2>3, StartOK
  <2>5. tracking'[u].write = w /\ \A v \in Users \ {u} : tracking'[v] = tracking[v]
    BY <1>6, <1>a, <2>1, <2>4 DEF TrackAsks, Track
  <2>6. Fits(w)'
    BY <2>4, StartFits
  <2>7. Alone'
    BY <2>2, <2>4, <2>5, AloneTaken DEF Grows
  <2> QED BY <1>e, <2>2, <2>5, <2>6, <2>7
<1>7. ASSUME NEW u \in Users, TrackFindsNone(u) PROVE Goal
  <2>1. /\ UNCHANGED <<rows, sync, linked, raced>>
        /\ tracking'[u].pc # "write" /\ \A v \in Users \ {u} : tracking'[v] = tracking[v]
    BY <1>7, <1>a, <1>c DEF TrackFindsNone, Same
  <2>2. Alone'
    BY <1>d, <2>1 DEF Grows
  <2> QED BY <1>e, <2>1, <2>2
<1>8. ASSUME NEW u \in Users, TrackLooks(u) PROVE Goal
  <2>1. /\ UNCHANGED <<rows, sync, linked, raced>>
        /\ tracking[u].pc = "write" /\ tracking[u].write.how \in Looks
    BY <1>8 DEF TrackLooks, Same
  <2>2. PICK x \in Seen(tracking[u].write) :
          tracking' = [tracking EXCEPT ![u] = IF x = NoUpsert THEN NoTrack
                                              ELSE [tracking[u] EXCEPT !.write = x]]
    BY <1>8, <1>a DEF TrackLooks
  <2>3. PICK w \in Upsert : w = tracking[u].write /\ Fits(w) /\ w.how \in Looks
    BY <1>a, <2>1 DEF TrackHas, NInv, HeldFits
  <2>4. \A v \in Users \ {u} : tracking'[v] = tracking[v]
    BY <1>a, <2>2
  <2>5. CASE x = NoUpsert
    <3>1. tracking'[u].pc # "write"
      BY <1>a, <1>c, <2>2, <2>5
    <3>2. Alone'
      BY <1>d, <2>1, <2>4, <3>1 DEF Grows
    <3> QED BY <1>e, <2>1, <2>4, <3>1, <3>2
  <2>6. CASE x # NoUpsert
    <3>1. x \in Upsert /\ x.key = w.key /\ Fits(x) /\ x.key \in Keys
      BY <2>2, <2>3, <2>6, SeenFits DEF Upsert
    <3>2. tracking'[u].write = x
      BY <1>a, <2>2, <2>6 DEF Track
    <3>3. Fits(x)'
      BY <2>1, <3>1, RowsStay, FitsStays DEF Grows
    <3>4. Alone'
      BY <1>d, <2>1, <2>3, <2>4, <3>1, <3>2 DEF Grows
    <3> QED BY <1>e, <2>1, <2>4, <3>1, <3>2, <3>3, <3>4
  <2> QED BY <2>5, <2>6
<1>2. ASSUME NEW u \in Users, TrackWrites(u) PROVE Goal
  <2>1. UNCHANGED <<sync, linked, raced>> /\ tracking[u].pc = "write"
    BY <1>2 DEF TrackWrites, Same
  <2>2. PICK w \in Upsert : w = tracking[u].write /\ Fits(w) /\ rows' = Written(w)
                           /\ w.how \in Writes
    BY <1>2, <1>a DEF TrackWrites, TrackHas, NInv, HeldFits
  <2>3. Named' /\ Single' /\ \A j \in Keys : Unpinned(j) => Unpinned(j)'
    BY <2>1, <2>2, WrittenFits
  <2>4. tracking'[u].pc # "write" /\ \A v \in Users \ {u} : tracking'[v] = tracking[v]
    BY <1>2, <1>a, <1>c DEF TrackWrites, Track
  <2>5. Tracks(u, w.key) /\ w.key \in Keys
    BY <2>1, <2>2 DEF Tracks, Upsert
  <2>6. \A k \in Keys : k # w.key => Calm(k)
    BY <1>a, <2>2, WrittenCalm
  <2>7. w.key \in Excused => Calm(w.key)
    BY <2>1 DEF Calm, Excused
  <2>8. /\ \A t \in Syncers, k \in Keys : Syncs(t, k) => Calm(k)
        /\ \A v \in Users \ {u}, k \in Keys : Tracks(v, k) => Calm(k)
    BY <2>5, <2>6, <2>7 DEF NInv, Alone
  <2>9. HeldFits'
    BY <2>1, <2>4, <2>8, UserFit
  <2>10. Alone'
    BY <1>d, <2>1, <2>4 DEF Grows
  <2>11. PinRead'
    BY <1>b, <2>1, <2>3, PinKept
  <2> QED BY <2>3, <2>9, <2>10, <2>11
<1>3. ASSUME NEW u \in Users, TrackPins(u) PROVE Goal
  <2>1. UNCHANGED <<sync, linked>> /\ raced \subseteq raced'
    BY <1>3 DEF TrackPins, Same
  <2>2. PICK w \in Upsert : w = tracking[u].write
    BY <1>3, <1>a DEF TrackPins, TrackHas
  <2>3. w.key \in Keys
    BY DEF Upsert
  <2>4. \A i \in GetTicket(w.key, w.inst) :
          rows[i] \in Row /\ rows[i].key = w.key /\ i \in Existing
    BY <1>a DEF GetTicket, RowsOf, Existing
  <2>5. rows' = [i \in Ids |-> IF i \in GetTicket(w.key, w.inst)
                               THEN [rows[i] EXCEPT !.pinned = TRUE] ELSE rows[i]]
    BY <1>3, <2>2, Zenon DEF TrackPins
  <2>6. /\ \A i \in Ids \ GetTicket(w.key, w.inst) : rows'[i] = rows[i]
        /\ \A i \in Ids : rows'[i] # rows[i] => rows[i] # None /\ rows'[i].key = rows[i].key
    <3>1. \A r \in Row : [r EXCEPT !.pinned = TRUE].key = r.key
      BY DEF Row
    <3>2. \A i \in GetTicket(w.key, w.inst) : rows[i] # None /\ rows[i] \in Row
      BY <2>4 DEF Existing
    <3> QED BY <2>5, <3>1, <3>2
  <2>7. Fewer
    BY <2>6 DEF Fewer
  <2>8. Named' /\ Single'
    BY <2>1, <2>7, FewerFit DEF NInv, Grows
  <2>9. tracking'[u].pc # "write" /\ \A v \in Users \ {u} : tracking'[v] = tracking[v]
    BY <1>3, <1>a, <1>c DEF TrackPins
  <2>10. HeldFits'
    BY <2>1, <2>7, <2>9, FewerCalm, UserFit
  <2>11. Alone'
    BY <1>d, <2>1, <2>9 DEF Grows
  <2>12. ASSUME NEW s \in Syncers, NEW k \in Keys \ Excused', Badging(s, k)
        PROVE  Unpinned(k)'
    <3>1. k \notin Excused /\ k \notin raced'
      BY <2>1, <2>12 DEF Excused
    <3>2. k # w.key
      <4>1. ASSUME k = w.key PROVE FALSE
        <5>1. \/ w.key \in sync[s].again
              \/ (sync[s].write # NoUpsert /\ sync[s].write.key = w.key)
          BY <2>12, <4>1 DEF Badging
        <5>2. raced' = raced \cup {w.key}
          BY <1>3, <2>2, <5>1 DEF TrackPins
        <5> QED BY <3>1, <4>1, <5>2
      <4> QED BY <4>1
    <3>3. Unpinned(k)
      BY <2>12, <3>1 DEF NInv, PinRead
    <3>4. ASSUME NEW n \in 0 .. Twins, rows'[<<k, n>>] # None PROVE ~rows'[<<k, n>>].pinned
      <4>1. <<k, n>> \in Ids
        BY DEF Ids
      <4>2. <<k, n>> \notin GetTicket(w.key, w.inst)
        <5>1. <<k, n>> \in Existing => rows[<<k, n>>].key \in {k, None}
          BY DEF NInv, Named
        <5> QED BY <2>3, <2>4, <3>2, <5>1, KeysAssumption
      <4> QED BY <2>6, <3>3, <3>4, <4>1, <4>2 DEF Unpinned
    <3> QED BY <3>4 DEF Unpinned
  <2>13. PinRead'
    <3>1. ASSUME NEW s \in Syncers, NEW k \in Keys \ Excused', Badging(s, k)'
          PROVE  Unpinned(k)'
      <4>1. Badging(s, k)
        BY <1>b, <2>1, <3>1
      <4> QED BY <2>12, <4>1
    <3> QED BY <3>1 DEF PinRead
  <2> QED BY <2>8, <2>10, <2>11, <2>13
<1>4. ASSUME NEW i \in Ids, Unlink(i) \/ DeleteTask(i) PROVE Goal
  <2>1. UNCHANGED <<sync, tracking, linked, raced>>
    BY <1>4 DEF Unlink, DeleteTask
  <2>2. rows[i] \in Row /\ rows[i] # None
    BY <1>4, <1>a DEF Unlink, DeleteTask, Existing
  <2>3. \/ rows' = [rows EXCEPT ![i] = [rows[i] EXCEPT !.key = None]]
        \/ rows' = [rows EXCEPT ![i] = None]
    BY <1>4 DEF Unlink, DeleteTask
  <2>4. [rows[i] EXCEPT !.key = None].key = None
        /\ [rows[i] EXCEPT !.key = None].pinned = rows[i].pinned
    BY <2>2 DEF Row
  <2>5. \A j \in Ids : \/ rows'[j] = rows[j] \/ rows'[j] = None
                       \/ /\ rows[j] # None /\ rows'[j].key = None
                          /\ rows'[j].pinned = rows[j].pinned
    BY <1>a, <2>2, <2>3, <2>4
  <2>a. Fewer
    BY <2>5 DEF Fewer
  <2>6. Named' /\ Single'
    BY <2>1, <2>a, FewerFit DEF NInv, Grows
  <2>7. ASSUME NEW k \in Keys, Unpinned(k) PROVE Unpinned(k)'
    <3>1. \A n \in 0 .. Twins : <<k, n>> \in Ids
      BY DEF Ids
    <3> QED BY <2>5, <2>7, <3>1 DEF Unpinned
  <2>8. HeldFits'
    <3>1. \A t \in Syncers : sync[t].write # NoUpsert => Calm(sync[t].write.key)
      BY <2>a, FewerCalm, SyncOK DEF NInv, TInv, Upsert
    <3>2. \A v \in Users : tracking[v].pc = "write" => Calm(tracking[v].write.key)
      BY <2>a, FewerCalm DEF NInv, TInv, TrackHas, Upsert
    <3> QED BY <2>1, <3>1, <3>2, HeldKept DEF Grows
  <2>9. Alone'
    BY <2>1, AloneKept DEF Grows, Syncs, Tracks
  <2> QED BY <1>b, <2>1, <2>6, <2>7, <2>8, <2>9, PinKept
<1>5. ASSUME NEW i \in Ids, NEW k \in Keys, Link(i, k) PROVE Goal
  <2>1. UNCHANGED <<sync, tracking, raced>> /\ linked' = linked \cup {k} /\ i \in HandMade
        /\ rows' = [rows EXCEPT ![i] = [rows[i] EXCEPT !.key = k]] /\ i \in Existing
    BY <1>5 DEF Link
  <2>a. Grows /\ k \in Excused' /\ \A j \in Keys : j \notin Excused' => j \notin Excused
    BY <2>1 DEF Grows, Excused
  <2>2. rows[i] \in Row /\ rows[i] # None /\ [rows[i] EXCEPT !.key = k].key = k
    BY <2>1, <1>a DEF Existing, Row
  <2>3. rows'[i].key = k /\ \A j \in Ids \ {i} : rows'[j] = rows[j]
    BY <1>a, <2>1, <2>2
  <2>4. \A j \in Keys, n \in 0 .. Twins : <<j, n>> \in Ids /\ <<j, n>> # i
    BY <2>1, NamesAssumption DEF Ids
  <2>5. Named'
    <3> SUFFICES ASSUME NEW j \in Ids, rows'[j] # None
                 PROVE  /\ (j \in HandMade /\ rows'[j].key # None) => rows'[j].key \in linked'
                        /\ \A m \in Keys, n \in 0 .. Twins :
                             j = <<m, n>> => rows'[j].key \in {m, None}
      BY DEF Named, Existing
    <3>1. CASE j = i
      BY <2>1, <2>3, <2>4, <3>1
    <3>2. CASE j # i
      BY <2>1, <2>3, <3>2 DEF NInv, Named, Existing
    <3> QED BY <3>1, <3>2
  <2>6. Single'
    <3> SUFFICES ASSUME NEW x \in (Keys \ Excused') \X (1 .. Twins) PROVE rows'[x] = None
      BY DEF Single
    <3>1. x \in Ids /\ x # i /\ x \in (Keys \ Excused) \X (1 .. Twins)
      BY <2>4, <2>a, BoundsAssumption
    <3>2. rows[x] = None
      BY <3>1 DEF NInv, Single
    <3> QED BY <2>3, <3>1, <3>2
  <2>7. ASSUME NEW j \in Keys PROVE Calm(j)
    <3>1. CASE j = k
      BY <2>a, <3>1 DEF Calm
    <3>2. CASE j # k
      <4>1. 0 \in 0 .. Twins
        BY BoundsAssumption
      <4>2. rows'[<<j, 0>>] = rows[<<j, 0>>]
        BY <2>3, <2>4, <4>1
      <4>3. \A r \in Ids : rows'[r] # None /\ rows'[r].key = j => rows[r] # None /\ rows[r].key = j
        BY <2>3, <3>2
      <4> QED BY <4>2, <4>3 DEF Calm, RowsOf, Existing
    <3> QED BY <3>1, <3>2
  <2>8. HeldFits'
    <3>1. \A t \in Syncers : sync[t].write # NoUpsert => Calm(sync[t].write.key)
      BY <2>7, SyncOK DEF NInv, TInv, Upsert
    <3>2. \A v \in Users : tracking[v].pc = "write" => Calm(tracking[v].write.key)
      BY <2>7 DEF NInv, TInv, TrackHas, Upsert
    <3> QED BY <2>1, <2>a, <3>1, <3>2, HeldKept
  <2>9. Alone'
    BY <2>1, <2>a, AloneKept DEF Syncs, Tracks
  <2>10. PinRead'
    <3>1. ASSUME NEW s \in Syncers, NEW j \in Keys \ Excused', Badging(s, j)'
          PROVE  Unpinned(j)'
      <4>1. Badging(s, j) /\ j \in Keys \ Excused
        BY <2>1, <2>a, <3>1 DEF Badging
      <4>2. Unpinned(j)
        BY <4>1 DEF NInv, PinRead
      <4> QED BY <2>3, <2>4, <4>2 DEF Unpinned
    <3> QED BY <3>1 DEF PinRead
  <2> QED BY <2>5, <2>6, <2>8, <2>9, <2>10
<1> QED BY <1>1, <1>2, <1>3, <1>4, <1>5, <1>6, <1>7, <1>8 DEF UserStep

(* The names hold at first.                                                *)
LEMMA NamesInit == Init => NInv
<1> SUFFICES ASSUME Init PROVE NInv
  OBVIOUS
<1>1. TInv
  BY TicketsInit
<1>2. \A i \in Ids : rows[i] = (IF i \in HandMade THEN Plain ELSE None) /\ Plain.key = None
  BY DEF Init, Plain
<1>3. Named
  BY <1>2 DEF Named, Existing
<1>4. Single
  <2>1. \A i \in (Keys \ Excused) \X (1 .. Twins) : i \in Ids /\ i \notin HandMade
    BY NamesAssumption, BoundsAssumption DEF Ids
  <2> QED BY <1>2, <2>1 DEF Single
<1>5. \A s \in Syncers : sync[s].again = {} /\ sync[s].write = NoUpsert
  BY DEF Init, Rest
<1>6. HeldFits
  BY <1>5 DEF Init, NoTrack, HeldFits
<1>7. PinRead
  BY <1>5 DEF PinRead, Badging
<1>8. Alone
  BY <1>5 DEF Init, NoTrack, Alone, Syncs, Tracks
<1> QED BY <1>1, <1>3, <1>4, <1>6, <1>7, <1>8 DEF NInv

(* Every step keeps them.                                                  *)
LEMMA NamesNext == NInv /\ [Next]_vars => NInv'
<1> SUFFICES ASSUME NInv, [Next]_vars PROVE NInv'
  OBVIOUS
<1>1. TInv'
  BY TicketsNext DEF NInv
<1>2. CASE UNCHANGED <<rows, sync, tracking, linked, raced>>
  <2>1. Named' /\ Single' /\ HeldFits' /\ Alone' /\ PinRead'
    BY <1>2 DEF NInv, Named, Existing, Excused, Single, HeldFits, Fits, Sees, RowsOf,
                Alone, Syncs, Tracks, PinRead, Badging, Unpinned
  <2> QED BY <1>1, <2>1 DEF NInv
<1>3. ASSUME NEW k \in Keys, Change(k) PROVE NInv'
  BY <1>2, <1>3 DEF Change
<1>4. ASSUME NEW s \in Syncers, SyncStep(s) PROVE NInv'
  BY <1>1, <1>4, SyncNames DEF NInv
<1>5. CASE UserStep
  BY <1>1, <1>5, UserNames DEF NInv
<1>6. CASE UNCHANGED vars
  BY <1>2, <1>6 DEF vars
<1> QED BY <1>3, <1>4, <1>5, <1>6 DEF Next

(* A ticket that is not excused has one row.                               *)
LEMMA NamesOnce == NInv => TicketOnce
<1> SUFFICES ASSUME NInv, NEW k \in Keys \ Excused PROVE Cardinality(RowsOf(k)) <= 1
  BY DEF TicketOnce, Excused
<1>1. RowsOf(k) \in SUBSET {<<k, 0>>}
  BY OnlyRow
<1>2. IsFiniteSet({<<k, 0>>}) /\ Cardinality({<<k, 0>>}) = 1
  BY FS_Singleton
<1>3. /\ Cardinality(RowsOf(k)) <= Cardinality({<<k, 0>>}) /\ IsFiniteSet(RowsOf(k))
      /\ Cardinality(RowsOf(k)) \in Nat
  BY <1>1, <1>2, FS_Subset, FS_CardinalityType
<1> QED BY <1>2, <1>3

(* A row that is pinned, and about no linked or raced ticket, is not       *)
(* badged by what is written: the upsert keeps the badge, or its row was   *)
(* read as not pinned and still is.                                        *)
LEMMA NotBadged ==
  ASSUME NInv, NEW w \in Upsert, Fits(w), rows' = Written(w),
         w.left # "set" \/ \E s \in Syncers : sync[s].write = w /\ w # NoUpsert,
         NEW i \in Existing, rows[i].pinned, ~rows[i].left,
         rows[i].key \notin linked \cup raced \cup {None}
  PROVE  rows'[i] = None \/ ~rows'[i].left
<1>1. /\ w.id \in Ids /\ w.key \in Keys /\ w.left \in {"keep", "set", "clear"} /\ i \in Ids
      /\ rows \in [Ids -> Row \cup {None}] /\ rows[i] # None
  BY DEF Upsert, NInv, TInv, TypeOK, Existing
<1>2. /\ \A j \in Ids \ {w.id} : rows'[j] = rows[j]
      /\ \/ rows' = rows
         \/ rows[w.id] # None =>
              rows'[w.id].left = IF w.left = "keep" THEN rows[w.id].left ELSE w.left = "set"
  BY <1>1, WrittenOK
<1>3. CASE i # w.id \/ rows' = rows \/ w.left # "set"
  BY <1>1, <1>2, <1>3
<1>4. CASE i = w.id /\ w.left = "set"
  <2>1. PICK s \in Syncers : sync[s].write = w /\ w # NoUpsert
    BY <1>4
  <2>2. PICK k \in Keys, n \in 0 .. Twins : i = <<k, n>>
    <3>1. i \notin HandMade
      BY DEF NInv, Named
    <3> QED BY <1>1, <3>1 DEF Ids
  <2>3. rows[i].key = k /\ k = w.key
    BY <1>4, <2>2 DEF NInv, Named, Fits
  <2>4. Unpinned(k)
    BY <1>4, <2>1, <2>3 DEF NInv, PinRead, Badging, Excused
  <2>5. ~rows[i].pinned
    BY <1>1, <2>2, <2>4 DEF Unpinned
  <2> QED BY <2>5
<1> QED BY <1>3, <1>4

(* So a step badges no such row.                                           *)
LEMMA StepBadgesNone ==
  ASSUME NInv, Next, NEW i \in Existing, rows[i].pinned, ~rows[i].left,
         rows[i].key \notin linked \cup raced \cup {None}
  PROVE  rows'[i] = None \/ ~rows'[i].left
<1>a. /\ rows \in [Ids -> Row \cup {None}] /\ TrackHas
      /\ i \in Ids /\ rows[i] \in Row /\ rows[i] # None
  BY DEF NInv, TInv, TypeOK, Existing
<1>1. CASE UNCHANGED rows
  BY <1>1
<1>2. ASSUME NEW s \in Syncers, SyncStep(s) PROVE rows'[i] = None \/ ~rows'[i].left
  <2>1. CASE WriteIssue(s) \/ WriteLeft(s)
    <3>1. PICK w \in Upsert : w = sync[s].write /\ w # NoUpsert /\ rows' = Written(w)
      BY <2>1, SyncOK DEF NInv, TInv, WriteIssue, WriteLeft, NoUpsert, Writes
    <3>2. Fits(w)
      BY <3>1 DEF NInv, HeldFits
    <3> QED BY <3>1, <3>2, NotBadged
  <2>2. CASE FetchFindsNone(s)
    <3> DEFINE d(r) == [r EXCEPT !.key = None, !.inst = None, !.synced = FALSE]
    <3>1. rows' = [j \in Ids |-> IF j \in RowsOf(Asked(s)) THEN d(rows[j]) ELSE rows[j]]
      BY <2>2, Zenon DEF FetchFindsNone, Detached
    <3>2. \A r \in Row : d(r).left = r.left
      BY DEF Row
    <3> HIDE DEF d
    <3> QED BY <1>a, <3>1, <3>2
  <2>3. CASE UNCHANGED rows
    BY <1>1, <2>3
  <2>4. \/ WriteIssue(s) \/ WriteLeft(s) \/ FetchFindsNone(s) \/ UNCHANGED rows
    BY <1>2 DEF SyncStep, SearchFails, SearchAnswers, TakeIssue, SyncLooks, Filter, FetchFails,
                FetchBreaks, FetchFinds, Done
  <2> QED BY <2>1, <2>2, <2>3, <2>4
<1>3. ASSUME NEW u \in Users, TrackWrites(u) PROVE rows'[i] = None \/ ~rows'[i].left
  <2>1. PICK w \in Upsert : w = tracking[u].write /\ rows' = Written(w) /\ w.left = "keep"
    BY <1>3, <1>a DEF TrackWrites, TrackHas
  <2>2. Fits(w)
    BY <1>3, <2>1 DEF TrackWrites, NInv, HeldFits
  <2> QED BY <2>1, <2>2, NotBadged
<1>4. ASSUME NEW u \in Users, TrackPins(u) PROVE rows'[i] = None \/ ~rows'[i].left
  <2>1. rows' = [j \in Ids |-> IF j \in GetTicket(tracking[u].write.key, tracking[u].write.inst)
                               THEN [rows[j] EXCEPT !.pinned = TRUE] ELSE rows[j]]
    BY <1>4, Zenon DEF TrackPins
  <2>2. [rows[i] EXCEPT !.pinned = TRUE].left = rows[i].left
    BY <1>a DEF Row
  <2> QED BY <1>a, <2>1, <2>2
<1>5. ASSUME NEW j \in Ids, Unlink(j) \/ DeleteTask(j) \/ \E k \in Keys : Link(j, k)
      PROVE  rows'[i] = None \/ ~rows'[i].left
  <2>1. \/ rows' = [rows EXCEPT ![j] = None]
        \/ \E k \in Keys \cup {None} : rows' = [rows EXCEPT ![j] = [rows[j] EXCEPT !.key = k]]
    BY <1>5 DEF Unlink, DeleteTask, Link
  <2>2. \A k \in Keys \cup {None} : [rows[i] EXCEPT !.key = k].left = rows[i].left
    BY <1>a DEF Row
  <2> QED BY <1>a, <2>1, <2>2
<1>6. \/ UserStep \/ (\E s \in Syncers : SyncStep(s)) \/ UNCHANGED rows
  BY DEF Next, Change
<1>7. \/ (\E u \in Users : TrackWrites(u) \/ TrackPins(u)) \/ (\E s \in Syncers : SyncStep(s))
      \/ UNCHANGED rows
      \/ (\E j \in Ids : Unlink(j) \/ DeleteTask(j) \/ \E k \in Keys : Link(j, k))
  BY <1>6 DEF UserStep, TrackTicket, TrackAsks, TrackFindsNone, TrackLooks
<1> QED BY <1>1, <1>2, <1>3, <1>4, <1>5, <1>7

-----------------------------------------------------------------------------
(* Audit: what the checks return, and type correctness.                    *)

Kinds == FixKinds \cup Reported

(* The kinds of findings that are repaired; there are finitely many kinds. *)
LEMMA FixKindsAre ==
  FixKinds = {"orphan_pr", "orphan_history", "orphan_dependency", "pr_missing_author",
              "stale_cron_run", "stale_task_session", "long_idle_input_session",
              "stale_review_session", "noncanonical_task_type"}
BY DEF FixKinds, Fixable

LEMMA KindsFinite == IsFiniteSet(Kinds)
<1>1. \A a, b, c, d, e : IsFiniteSet({a, b, c, d, e})
  <2> TAKE a, b, c, d, e
  <2>1. IsFiniteSet({a}) /\ IsFiniteSet({b}) /\ IsFiniteSet({c}) /\ IsFiniteSet({d}) /\ IsFiniteSet({e})
    BY FS_Singleton
  <2>2. IsFiniteSet({a} \cup {b}) /\ IsFiniteSet({c} \cup {d})
    BY <2>1, FS_Union
  <2>3. IsFiniteSet((({a} \cup {b}) \cup ({c} \cup {d})) \cup {e})
    BY <2>1, <2>2, FS_Union
  <2>4. {a, b, c, d, e} = (({a} \cup {b}) \cup ({c} \cup {d})) \cup {e}
    OBVIOUS
  <2> QED BY <2>3, <2>4
<1>2. FixKinds = {"orphan_pr", "orphan_history", "orphan_dependency", "pr_missing_author",
                  "stale_cron_run"}
                   \cup {"stale_task_session", "long_idle_input_session", "stale_review_session",
                         "noncanonical_task_type", "noncanonical_task_type"}
  BY FixKindsAre
<1>3. /\ IsFiniteSet({"orphan_pr", "orphan_history", "orphan_dependency", "pr_missing_author",
                      "stale_cron_run"})
      /\ IsFiniteSet({"stale_task_session", "long_idle_input_session", "stale_review_session",
                      "noncanonical_task_type", "noncanonical_task_type"})
      /\ IsFiniteSet(Reported)
  BY <1>1 DEF Reported
<1> QED BY <1>2, <1>3, FS_Union DEF Kinds

(* The check of each kind.                                                 *)
LEMMA RefersAre ==
  /\ Refers("pr_merged_task_not_started") = PrTaskDrift
  /\ Refers("all_prs_merged_task_open") = AllPrsMerged
  /\ Refers("ticket_fields_unpaired") = TicketUnpaired
  /\ Refers("orphan_pr") = OrphanPrs
  /\ Refers("orphan_history") = OrphanHistory
  /\ Refers("orphan_dependency") = OrphanDeps
  /\ Refers("duplicate_pr_url") = DuplicateUrls
  /\ Refers("pr_missing_author") = MissingAuthor
  /\ Refers("stale_cron_run") = StaleCronRun
  /\ Refers("stale_task_session") = StaleTaskSess
  /\ Refers("long_idle_input_session") = LongIdle
  /\ Refers("stale_review_session") = StaleReviewSess
  /\ Refers("noncanonical_task_type") = AliasedType
  /\ Refers("terminal_status_missing_transition") = NoTransition
BY DEF Refers

(* A finding is a kind and what the check of the kind refers to.           *)
LEMMA FindingsAre ==
  \A f : f \in Findings <=> \E k \in Kinds : \E r \in Refers(k) : f = [kind |-> k, ref |-> r]
BY DEF Findings, Kinds

(* What the checks refer to: a task, but for dependencies, URLs and jobs;  *)
(* a review's session with its PR's URL.                                   *)
Odd == {"orphan_dependency", "stale_cron_run", "stale_review_session"}
LEMMA RefersTyped ==
  ASSUME AuditTypeOK, NEW k \in Kinds, NEW r \in Refers(k)
  PROVE  /\ k = "orphan_dependency" => r \in TaskIds \X TaskIds
         /\ k = "stale_cron_run" => r = <<Job>>
         /\ k = "duplicate_pr_url" => \E w \in PrUrls : r = <<w>>
         /\ k = "stale_review_session" =>
              \E i \in TaskIds, u \in PrUrls \cup {None} : r = <<i, u>>
         /\ k \notin Odd \cup {"duplicate_pr_url"} => \E i \in TaskIds : r = <<i>>
         /\ r \in Refs
<1>1. CASE k = "orphan_dependency"
  BY <1>1, RefersAre DEF OrphanDeps, AuditTypeOK, Refs, Odd
<1>2. CASE k = "stale_cron_run"
  BY <1>2, RefersAre DEF StaleCronRun, Refs, Odd
<1>3. CASE k = "duplicate_pr_url"
  BY <1>3, RefersAre DEF DuplicateUrls, Refs, Odd
<1>5. CASE k = "stale_review_session"
  <2>1. PICK i \in TaskIds : r = <<i, Url(i)>>
    BY <1>5, RefersAre DEF StaleReviewSess
  <2>2. Url(i) \in PrUrls \cup {None}
    BY DEF Url, PrUrls
  <2> QED BY <1>5, <2>1, <2>2 DEF Refs, Odd
<1>4. CASE k \notin Odd \cup {"duplicate_pr_url"}
  <2>1. \E i \in TaskIds : r = <<i>>
    <3>1. CASE k \in {"pr_merged_task_not_started", "all_prs_merged_task_open",
                      "ticket_fields_unpaired", "terminal_status_missing_transition"}
      BY <3>1, RefersAre DEF PrTaskDrift, AllPrsMerged, TicketUnpaired, NoTransition
    <3>2. CASE k \in {"orphan_pr", "orphan_history", "pr_missing_author"}
      BY <3>2, RefersAre DEF OrphanPrs, OrphanHistory, MissingAuthor, HasPr
    <3>3. CASE k \in {"stale_task_session", "long_idle_input_session", "noncanonical_task_type"}
      BY <3>3, RefersAre DEF StaleTaskSess, LongIdle, AliasedType
    <3> QED BY <1>4, <3>1, <3>2, <3>3, FixKindsAre DEF Kinds, Reported, Odd
  <2> QED BY <1>4, <2>1 DEF Refs, Odd
<1> QED BY <1>1, <1>2, <1>3, <1>4, <1>5 DEF Odd

(* So findings are typed.                                                  *)
LEMMA FindingsTyped == AuditTypeOK => Findings \subseteq Finding
<1> SUFFICES ASSUME AuditTypeOK, NEW f \in Findings PROVE f \in Finding
  OBVIOUS
<1>1. PICK k \in Kinds : \E r \in Refers(k) : f = [kind |-> k, ref |-> r]
  BY FindingsAre
<1>2. PICK r \in Refers(k) : f = [kind |-> k, ref |-> r]
  BY <1>1
<1>3. r \in Refs
  BY RefersTyped
<1> QED BY <1>2, <1>3 DEF Finding, Kinds

(* What is left to fix refers to what its fixer writes.                    *)
RefOf(f) ==
  /\ f.kind = "orphan_dependency" => f.ref \in TaskIds \X TaskIds
  /\ f.kind = "stale_cron_run" => f.ref = <<Job>>
  /\ f.kind = "stale_review_session" =>
       \E i \in TaskIds, u \in PrUrls \cup {None} : f.ref = <<i, u>>
  /\ f.kind \notin Odd => \E i \in TaskIds : f.ref = <<i>>
TodoOK == \A f \in todo : f.kind \in FixKinds /\ RefOf(f) /\ f = [kind |-> f.kind, ref |-> f.ref]
ATypes == AuditTypeOK /\ TodoOK

(* What the scan puts on the list is of that sort.                         *)
LEMMA ScanRefs ==
  ASSUME AuditTypeOK, NEW f \in Findings, f.kind \in FixKinds
  PROVE  RefOf(f) /\ f = [kind |-> f.kind, ref |-> f.ref] /\ f.ref \in Refers(f.kind)
<1>1. PICK k \in Kinds : \E r \in Refers(k) : f = [kind |-> k, ref |-> r]
  BY FindingsAre
<1>2. PICK r \in Refers(k) : f = [kind |-> k, ref |-> r]
  BY <1>1
<1>3. k # "duplicate_pr_url"
  BY <1>2, FixKindsAre
<1> QED BY <1>2, <1>3, RefersTyped DEF RefOf

(* The rows a finding is about, by its reference.                          *)
LEMMA OnRef ==
  ASSUME NEW f, RefOf(f), f.kind \in FixKinds
  PROVE  /\ On(f) \subseteq TaskIds \cup {Job} /\ f.ref[1] \in On(f)
         /\ f.kind # "orphan_dependency" => On(f) = {f.ref[1]}
         /\ f.kind = "orphan_dependency" => On(f) = {f.ref[1], f.ref[2]}
<1>1. f.kind # "duplicate_pr_url"
  BY FixKindsAre
<1>2. CASE f.kind = "orphan_dependency"
  <2>1. f.ref[1] \in TaskIds /\ f.ref[2] \in TaskIds
    BY <1>2 DEF RefOf
  <2>2. On(f) = {f.ref[1], f.ref[2]}
    BY <1>1, <1>2 DEF On
  <2> QED BY <1>2, <2>1, <2>2
<1>3. CASE f.kind # "orphan_dependency"
  <2>1. f.ref[1] \in TaskIds \cup {Job}
    BY <1>3 DEF RefOf, Odd
  <2>2. On(f) = {f.ref[1]}
    BY <1>1, <1>3 DEF On
  <2> QED BY <1>3, <2>1, <2>2
<1> QED BY <1>2, <1>3

(* A fixer takes a finding of its kind off the list.                       *)
LEMMA FixesOK ==
  ASSUME ATypes, NEW kind, NEW f, Fixes(f, kind)
  PROVE  /\ f \in todo /\ f.kind = kind /\ RefOf(f) /\ todo' = todo \ {f} /\ TodoOK'
         /\ f = [kind |-> kind, ref |-> f.ref] /\ todo' \subseteq Finding
         /\ kind \notin Odd => \E i \in TaskIds : f.ref = <<i>> /\ f.ref[1] = i
         /\ kind = "stale_review_session" =>
              f.ref[1] \in TaskIds /\ ReviewId[f.ref[2]] \in TaskIds \cup {None}
<1>1. f \in todo /\ f.kind = kind /\ RefOf(f) /\ todo' = todo \ {f} /\ f = [kind |-> kind, ref |-> f.ref]
  BY DEF Fixes, NextFix, ATypes, TodoOK
<1>2. TodoOK' /\ todo' \subseteq Finding
  BY <1>1 DEF ATypes, TodoOK, RefOf, AuditTypeOK
<1>3. kind = "stale_review_session" =>
        f.ref[1] \in TaskIds /\ ReviewId[f.ref[2]] \in TaskIds \cup {None}
  BY <1>1, ReviewAssumption DEF RefOf
<1>4. kind \notin Odd => \E i \in TaskIds : f.ref = <<i>> /\ f.ref[1] = i
  BY <1>1 DEF RefOf
<1> QED BY <1>1, <1>2, <1>3, <1>4

(* Data of its type in the place of the rows of one task.                  *)
LEMMA FixTypes ==
  ASSUME ATypes, FixFinding
  PROVE  ATypes'
<1>a. /\ task \in [TaskIds -> Task \cup {None}] /\ pr \in [TaskIds -> PrEntry \cup {None}]
      /\ log \in [TaskIds -> {"none", "some", "closing"}] /\ deps \subseteq TaskIds \X TaskIds
      /\ sess \in [TaskIds -> Session \cup {None}] /\ panes \subseteq TaskIds \cup {Job}
      /\ run \in Runs /\ stage \in {"idle", "fixing", "done"}
      /\ before \subseteq Finding \cup CheckErrors
      /\ touched \subseteq TaskIds \cup {Job} /\ outside \in 0 .. MaxOutside
  BY DEF ATypes, AuditTypeOK
<1> DEFINE Typed(t, p, l, d, s, r) ==
      /\ t \in [TaskIds -> Task \cup {None}] /\ p \in [TaskIds -> PrEntry \cup {None}]
      /\ l \in [TaskIds -> {"none", "some", "closing"}] /\ d \subseteq TaskIds \X TaskIds
      /\ s \in [TaskIds -> Session \cup {None}] /\ r \in Runs
<1>c. ASSUME NEW f, NEW kind, Fixes(f, kind), Repairs,
             Typed(task', pr', log', deps', sess', run')
      PROVE  ATypes'
  <2>1. TodoOK' /\ todo' \subseteq Finding
    BY <1>c, FixesOK
  <2>2. UNCHANGED <<panes, stage, before, touched, outside>>
    BY <1>c DEF Repairs, OnlyTodo
  <2> QED BY <1>a, <1>c, <2>1, <2>2 DEF ATypes, AuditTypeOK
<1>1. CASE DeleteOrphanPr
  <2>1. PICK f : /\ Fixes(f, "orphan_pr") /\ pr' = DeletedPrs(f.ref[1])
                 /\ UNCHANGED <<task, log, deps, sess, run>> /\ Repairs
    BY <1>1 DEF DeleteOrphanPr
  <2>2. pr' \in [TaskIds -> PrEntry \cup {None}]
    BY <1>a, <2>1 DEF DeletedPrs
  <2> QED BY <1>a, <1>c, <2>1, <2>2
<1>2. CASE DeleteOrphanHistory
  <2>1. PICK f : /\ Fixes(f, "orphan_history") /\ log' = [log EXCEPT ![f.ref[1]] = "none"]
                 /\ UNCHANGED <<task, pr, deps, sess, run>> /\ Repairs
    BY <1>2 DEF DeleteOrphanHistory
  <2> QED BY <1>a, <1>c, <2>1
<1>3. CASE DeleteOrphanDependency
  <2>1. PICK f : /\ Fixes(f, "orphan_dependency") /\ deps' = deps \ {f.ref}
                 /\ UNCHANGED <<task, pr, log, sess, run>> /\ Repairs
    BY <1>3 DEF DeleteOrphanDependency
  <2> QED BY <1>a, <1>c, <2>1
<1>4. CASE BackfillPrAuthor
  <2>1. PICK f \in NextFix :
          /\ Fixes(f, "pr_missing_author")
          /\ pr' = IF pr[f.ref[1]] # None THEN [pr EXCEPT ![f.ref[1]].author = TRUE] ELSE pr
          /\ UNCHANGED <<task, log, deps, sess, run>> /\ Repairs
    BY <1>4, Zenon DEF BackfillPrAuthor
  <2>2. PICK i \in TaskIds : i = f.ref[1]
    BY <2>1, FixesOK DEF Odd
  <2>3. pr[i] # None => [pr[i] EXCEPT !.author = TRUE] \in PrEntry
    BY <1>a DEF PrEntry
  <2>4. pr' = pr \/ (pr[i] # None /\ pr' = [pr EXCEPT ![i] = [pr[i] EXCEPT !.author = TRUE]])
    BY <2>1, <2>2
  <2>5. pr' \in [TaskIds -> PrEntry \cup {None}]
    BY <1>a, <2>3, <2>4
  <2> QED BY <1>a, <1>c, <2>1, <2>2, <2>5
<1>5. CASE CloseStaleCronRun
  <2>1. PICK f : /\ Fixes(f, "stale_cron_run")
                 /\ run' = IF run = "none" THEN run ELSE "cancelled"
                 /\ UNCHANGED <<task, pr, log, deps, sess>> /\ Repairs
    BY <1>5 DEF CloseStaleCronRun
  <2>2. run' \in Runs
    BY <1>a, <2>1 DEF Runs
  <2> QED BY <1>a, <1>c, <2>1, <2>2
<1>6. CASE CloseStaleTaskSession
  <2>1. PICK f : /\ Fixes(f, "stale_task_session") \/ Fixes(f, "long_idle_input_session")
                 /\ sess' = Stopped(f.ref[1])
                 /\ UNCHANGED <<task, pr, log, deps, run>> /\ Repairs
    BY <1>6 DEF CloseStaleTaskSession
  <2>2. PICK i \in TaskIds : i = f.ref[1]
    BY <2>1, FixesOK DEF Odd
  <2>3. sess[i] # None => [sess[i] EXCEPT !.status = "stopped"] \in Session
    BY <1>a DEF Session
  <2>4. \/ sess' = sess
        \/ (sess[i] # None /\ sess' = [sess EXCEPT ![i] = [sess[i] EXCEPT !.status = "stopped"]])
    BY <2>1, <2>2 DEF Stopped
  <2>5. sess' \in [TaskIds -> Session \cup {None}]
    BY <1>a, <2>3, <2>4
  <2> QED BY <1>a, <1>c, <2>1, <2>5
<1>7. CASE CloseStaleReviewSession
  <2>1. PICK f :
          /\ Fixes(f, "stale_review_session")
          /\ IF ReviewId[f.ref[2]] # None
             THEN /\ task' = IF ~Gone(ReviewId[f.ref[2]]) /\ task[ReviewId[f.ref[2]]].kind = "review"
                             THEN [task EXCEPT ![ReviewId[f.ref[2]]].active = FALSE] ELSE task
                  /\ sess' = [sess EXCEPT ![ReviewId[f.ref[2]]] = None]
             ELSE UNCHANGED <<task, sess>>
          /\ UNCHANGED <<pr, log, deps, run>> /\ Repairs
    BY <1>7 DEF CloseStaleReviewSession
  <2>2. PICK i \in TaskIds \cup {None} : i = ReviewId[f.ref[2]]
    BY <2>1, FixesOK
  <2>3. CASE i = None
    BY <1>a, <1>c, <2>1, <2>2, <2>3
  <2>4. CASE i \in TaskIds /\ i # None
    <3>1. ~Gone(i) => [task[i] EXCEPT !.active = FALSE] \in Task
      BY <1>a, <2>4 DEF Task, Gone
    <3>2. /\ \/ task' = task
             \/ (~Gone(i) /\ task' = [task EXCEPT ![i] = [task[i] EXCEPT !.active = FALSE]])
          /\ sess' = [sess EXCEPT ![i] = None]
      BY <2>1, <2>2, <2>4
    <3>3. task' \in [TaskIds -> Task \cup {None}]
      BY <1>a, <2>4, <3>1, <3>2
    <3>4. sess' \in [TaskIds -> Session \cup {None}]
      BY <1>a, <3>2
    <3> QED BY <1>a, <1>c, <2>1, <3>3, <3>4
  <2> QED BY <2>3, <2>4
<1>8. CASE CanonicalizeTaskType
  <2>1. PICK f :
          /\ Fixes(f, "noncanonical_task_type")
          /\ task' = IF Gone(f.ref[1]) THEN task ELSE [task EXCEPT ![f.ref[1]].kind = "task"]
          /\ UNCHANGED <<pr, log, deps, sess, run>> /\ Repairs
    BY <1>8 DEF CanonicalizeTaskType
  <2>2. PICK i \in TaskIds : i = f.ref[1]
    BY <2>1, FixesOK DEF Odd
  <2>3. ~Gone(i) => [task[i] EXCEPT !.kind = "task"] \in Task
    BY <1>a DEF Task, Gone
  <2>4. \/ task' = task
        \/ (~Gone(i) /\ task' = [task EXCEPT ![i] = [task[i] EXCEPT !.kind = "task"]])
    BY <2>1, <2>2
  <2>5. task' \in [TaskIds -> Task \cup {None}]
    BY <1>a, <2>3, <2>4
  <2> QED BY <1>a, <1>c, <2>1, <2>5
<1>9. CASE FixFails
  <2>1. PICK f \in NextFix :
          /\ todo' = todo \ {f} /\ touched' = touched \cup On(f)
          /\ outside < MaxOutside /\ outside' = outside + 1
          /\ UNCHANGED <<task, pr, log, deps, sess, run>> /\ OnlyTodo
    BY <1>9 DEF FixFails
  <2>2. On(f) \subseteq TaskIds \cup {Job}
    BY OnRef DEF NextFix, ATypes, TodoOK
  <2>3. outside' \in 0 .. MaxOutside
    BY <1>a, <2>1, OutsideAssumption
  <2> QED BY <1>a, <2>1, <2>2, <2>3 DEF ATypes, AuditTypeOK, TodoOK, RefOf, OnlyTodo
<1> QED BY <1>1, <1>2, <1>3, <1>4, <1>5, <1>6, <1>7, <1>8, <1>9 DEF FixFinding

(* The server writes the rows of one task, or the job.                     *)
Apart(i) ==
  /\ \A j \in TaskIds \ {i} : /\ task'[j] = task[j] /\ pr'[j] = pr[j]
                              /\ log'[j] = log[j] /\ sess'[j] = sess[j]
  /\ \A j \in (TaskIds \cup {Job}) \ {i} : j \in panes' <=> j \in panes
  /\ deps' \subseteq deps
  /\ i # Job => run' = run

(* That is what its steps do, and the rows stay typed.                     *)
LEMMA ServerWrites ==
  ASSUME ATypes, ServerStep
  PROVE  /\ ATypes'
         /\ \E i \in TaskIds \cup {Job} :
              /\ Apart(i) /\ touched' = touched \cup {i} /\ stage # "done"
              /\ UNCHANGED <<stage, todo, before>>
<1> DEFINE Goal == /\ ATypes'
                   /\ \E i \in TaskIds \cup {Job} :
                        /\ Apart(i) /\ touched' = touched \cup {i} /\ stage # "done"
                        /\ UNCHANGED <<stage, todo, before>>
<1>a. /\ task \in [TaskIds -> Task \cup {None}] /\ pr \in [TaskIds -> PrEntry \cup {None}]
      /\ log \in [TaskIds -> {"none", "some", "closing"}] /\ deps \subseteq TaskIds \X TaskIds
      /\ sess \in [TaskIds -> Session \cup {None}] /\ panes \subseteq TaskIds \cup {Job}
      /\ run \in Runs /\ stage \in {"idle", "fixing", "done"}
      /\ before \subseteq Finding \cup CheckErrors /\ todo \subseteq Finding
      /\ touched \subseteq TaskIds \cup {Job} /\ outside \in 0 .. MaxOutside
      /\ MaxOutside \in Nat /\ Job \notin TaskIds
  BY OutsideAssumption, TaskIdsAssumption DEF ATypes, AuditTypeOK
<1> DEFINE Typed(t, p, l, d, s, q, r) ==
      /\ t \in [TaskIds -> Task \cup {None}] /\ p \in [TaskIds -> PrEntry \cup {None}]
      /\ l \in [TaskIds -> {"none", "some", "closing"}] /\ d \subseteq TaskIds \X TaskIds
      /\ s \in [TaskIds -> Session \cup {None}] /\ q \subseteq TaskIds \cup {Job} /\ r \in Runs
<1>b. ASSUME NEW i \in TaskIds \cup {Job}, Touch(i), Apart(i),
             Typed(task', pr', log', deps', sess', panes', run')
      PROVE  Goal
  <2>1. /\ outside' \in 0 .. MaxOutside /\ touched' = touched \cup {i} /\ stage # "done"
        /\ UNCHANGED <<stage, todo, before>>
    BY <1>a, <1>b DEF Touch
  <2>2. ATypes'
    BY <1>a, <1>b, <2>1 DEF ATypes, AuditTypeOK, TodoOK, RefOf
  <2> QED BY <1>b, <2>1, <2>2
<1>c. Fresh \in Task
  BY DEF Fresh, Task
<1>1. ASSUME NEW i \in TaskIds, CreateTask(i) PROVE Goal
  <2>1. Touch(i) /\ UNCHANGED <<pr, deps, sess, panes, run>> /\ task' = [task EXCEPT ![i] = Fresh]
        /\ \E l \in {"none", "some", "closing"} : log' = [log EXCEPT ![i] = l]
    BY <1>1, <1>a DEF CreateTask
  <2>2. Apart(i)
    BY <1>a, <2>1 DEF Apart
  <2>3. Typed(task', pr', log', deps', sess', panes', run')
    BY <1>a, <1>c, <2>1
  <2> QED BY <1>b, <2>1, <2>2, <2>3
<1>2. ASSUME NEW i \in TaskIds, RemoveTask(i) \/ DropReview(i) PROVE Goal
  <2>1. /\ Touch(i) /\ UNCHANGED <<sess, panes, run>> /\ task' = [task EXCEPT ![i] = None]
        /\ pr' = [pr EXCEPT ![i] = None] /\ deps' \subseteq deps
        /\ log' = log \/ log' = [log EXCEPT ![i] = "none"]
    BY <1>2 DEF RemoveTask, DropReview, WithoutTask
  <2>2. Apart(i)
    BY <1>a, <2>1 DEF Apart
  <2>3. Typed(task', pr', log', deps', sess', panes', run')
    <3>1. task' \in [TaskIds -> Task \cup {None}] /\ pr' \in [TaskIds -> PrEntry \cup {None}]
      BY <1>a, <2>1
    <3>2. log' \in [TaskIds -> {"none", "some", "closing"}]
      BY <1>a, <2>1
    <3> QED BY <1>a, <2>1, <3>1, <3>2
  <2> QED BY <1>b, <2>1, <2>2, <2>3
<1>3. ASSUME NEW i \in TaskIds, FinishTask(i) PROVE Goal
  <2>1. /\ Touch(i) /\ UNCHANGED <<pr, deps, sess, panes, run>> /\ ~Gone(i)
        /\ task' = [task EXCEPT ![i] = [task[i] EXCEPT !.status = "done"]]
        /\ log' = [log EXCEPT ![i] = "closing"]
    BY <1>3 DEF FinishTask
  <2>2. [task[i] EXCEPT !.status = "done"] \in Task
    BY <1>a, <2>1 DEF Gone, Task
  <2>3. Apart(i)
    BY <1>a, <2>1 DEF Apart
  <2>4. Typed(task', pr', log', deps', sess', panes', run')
    <3>1. task' \in [TaskIds -> Task \cup {None}]
      BY <1>a, <2>1, <2>2
    <3>2. log' \in [TaskIds -> {"none", "some", "closing"}]
      BY <1>a, <2>1
    <3> QED BY <1>a, <2>1, <3>1, <3>2
  <2> QED BY <1>b, <2>1, <2>3, <2>4
<1>4. ASSUME NEW i \in TaskIds, LinkPr(i) PROVE Goal
  <2>1. /\ Touch(i) /\ UNCHANGED <<task, log, deps, sess, panes, run>>
        /\ \E p \in PrEntry : pr' = [pr EXCEPT ![i] = p]
    BY <1>4 DEF LinkPr
  <2>2. Apart(i)
    BY <1>a, <2>1 DEF Apart
  <2>3. Typed(task', pr', log', deps', sess', panes', run')
    BY <1>a, <2>1
  <2> QED BY <1>b, <2>1, <2>2, <2>3
<1>5. ASSUME NEW i \in TaskIds, LinkTicket(i) PROVE Goal
  <2>1. PICK b \in BOOLEAN :
          /\ Touch(i) /\ UNCHANGED <<pr, log, deps, sess, panes, run>> /\ ~Gone(i)
          /\ task' = [task EXCEPT ![i] = [task[i] EXCEPT !.paired = b]]
    BY <1>5 DEF LinkTicket
  <2>2. [task[i] EXCEPT !.paired = b] \in Task
    BY <1>a, <2>1 DEF Gone, Task
  <2>3. Apart(i)
    BY <1>a, <2>1 DEF Apart
  <2>4. Typed(task', pr', log', deps', sess', panes', run')
    BY <1>a, <2>1, <2>2
  <2> QED BY <1>b, <2>1, <2>3, <2>4
<1>6. ASSUME NEW i \in TaskIds, OpenSession(i) PROVE Goal
  <2>1. /\ Touch(i) /\ UNCHANGED <<pr, log, deps, run>> /\ ~Gone(i) /\ panes' = panes \cup {i}
        /\ sess' = [sess EXCEPT ![i] = [status |-> "waiting", old |-> FALSE]]
        /\ task' = [task EXCEPT ![i].active = (@ \/ task[i].kind = "review")]
    BY <1>6 DEF OpenSession
  <2>2. PICK b \in BOOLEAN : b = (task[i].active \/ task[i].kind = "review")
    OBVIOUS
  <2>3. task' = [task EXCEPT ![i] = [task[i] EXCEPT !.active = b]]
    BY <2>1, <2>2
  <2>4. /\ [task[i] EXCEPT !.active = b] \in Task
        /\ [status |-> "waiting", old |-> FALSE] \in Session
    BY <1>a, <2>1 DEF Gone, Task, Session
  <2>5. Apart(i)
    BY <1>a, <2>1, <2>3 DEF Apart
  <2>6. Typed(task', pr', log', deps', sess', panes', run')
    <3>1. task' \in [TaskIds -> Task \cup {None}]
      BY <1>a, <2>3, <2>4
    <3>2. sess' \in [TaskIds -> Session \cup {None}]
      BY <1>a, <2>1, <2>4
    <3> QED BY <1>a, <2>1, <3>1, <3>2
  <2> QED BY <1>b, <2>1, <2>5, <2>6
<1>7. ASSUME NEW i \in TaskIds, AgentReports(i) PROVE Goal
  <2>1. PICK s \in Live \cup {"waiting"} :
          /\ Touch(i) /\ UNCHANGED <<task, pr, log, deps, panes, run>>
          /\ sess' = [sess EXCEPT ![i] = [status |-> s, old |-> FALSE]]
    BY <1>7 DEF AgentReports
  <2>2. [status |-> s, old |-> FALSE] \in Session
    BY DEF Session
  <2>3. Apart(i)
    BY <1>a, <2>1 DEF Apart
  <2>4. Typed(task', pr', log', deps', sess', panes', run')
    BY <1>a, <2>1, <2>2
  <2> QED BY <1>b, <2>1, <2>3, <2>4
<1>8. ASSUME NEW n \in TaskIds \cup {Job}, PaneDies(n) PROVE Goal
  <2>1. Touch(n) /\ UNCHANGED <<task, pr, log, deps, sess, run>> /\ panes' = panes \ {n}
    BY <1>8 DEF PaneDies
  <2>2. Apart(n)
    BY <1>a, <2>1 DEF Apart
  <2>3. Typed(task', pr', log', deps', sess', panes', run')
    BY <1>a, <2>1
  <2> QED BY <1>b, <2>1, <2>2, <2>3
<1>9. CASE RunStarts \/ RunEnds
  <2>1. /\ Touch(Job) /\ UNCHANGED <<task, pr, log, deps, sess>> /\ run' \in Runs
        /\ panes' \in {panes, panes \cup {Job}}
    BY <1>9 DEF RunStarts, RunEnds, Runs
  <2>2. Apart(Job)
    BY <1>a, <2>1 DEF Apart
  <2>3. Typed(task', pr', log', deps', sess', panes', run')
    BY <1>a, <2>1
  <2> QED BY <1>b, <2>1, <2>2, <2>3
<1> QED BY <1>1, <1>2, <1>3, <1>4, <1>5, <1>6, <1>7, <1>8, <1>9 DEF ServerStep

(* Types at first, and in every step of the audit.                         *)
LEMMA AuditTypesInit == AuditInit => ATypes
<1> SUFFICES ASSUME AuditInit PROVE ATypes
  OBVIOUS
<1>1. task \in [TaskIds -> Task \cup {None}] /\ pr \in [TaskIds -> PrEntry \cup {None}]
  BY DEF AuditInit
<1>2. sess \in [TaskIds -> Session \cup {None}]
  BY DEF AuditInit
<1>3. deps \subseteq TaskIds \X TaskIds /\ panes \subseteq TaskIds \cup {Job}
  BY TaskIdsAssumption DEF AuditInit
<1>4. run \in Runs /\ outside \in 0 .. MaxOutside
  BY OutsideAssumption DEF AuditInit, Runs
<1> QED BY <1>1, <1>2, <1>3, <1>4 DEF AuditInit, ATypes, AuditTypeOK, TodoOK

LEMMA AuditTypesNext == ATypes /\ [AuditNext]_avars => ATypes'
<1> SUFFICES ASSUME ATypes, [AuditNext]_avars PROVE ATypes'
  OBVIOUS
<1>1. CASE RunAudit
  <2>1. PICK failed \in SUBSET {f.kind : f \in Findings} :
          /\ outside' = outside + Cardinality(failed) /\ outside' <= MaxOutside
          /\ before' = {f \in Findings : f.kind \notin failed} \cup {CheckError(kind) : kind \in failed}
          /\ todo' = {f \in {f \in Findings : f.kind \notin failed} : f.kind \in FixKinds}
    BY <1>1 DEF RunAudit
  <2>2. Findings \subseteq Finding /\ failed \subseteq Kinds
    BY FindingsTyped DEF ATypes, Finding, Kinds
  <2>3. TodoOK'
    <3>1. \A f \in todo' : f \in Findings /\ f.kind \in FixKinds
      BY <2>1
    <3> QED BY <3>1, ScanRefs DEF TodoOK, RefOf, ATypes
  <2>4. todo' \subseteq Finding /\ before' \subseteq Finding \cup CheckErrors
    BY <2>1, <2>2 DEF CheckErrors, Kinds
  <2>5. Cardinality(failed) \in Nat
    BY <2>2, KindsFinite, FS_Subset, FS_CardinalityType
  <2>6. outside' \in 0 .. MaxOutside
    BY <2>1, <2>5, OutsideAssumption DEF ATypes, AuditTypeOK
  <2> QED BY <1>1, <2>3, <2>4, <2>6 DEF RunAudit, ATypes, AuditTypeOK
<1>2. CASE FixedAll
  BY <1>2 DEF FixedAll, ATypes, AuditTypeOK, TodoOK, RefOf
<1>3. CASE UNCHANGED avars
  BY <1>3 DEF avars, ATypes, AuditTypeOK, TodoOK, RefOf
<1> QED BY <1>1, <1>2, <1>3, FixTypes, ServerWrites DEF AuditNext

-----------------------------------------------------------------------------
(* Audit: no step of a fixer, and none of the server elsewhere, makes a    *)
(* finding.                                                                *)

(* The rows of a task are in no worse order than they were.                *)
Mended(j) ==
  /\ task'[j] = None <=> task[j] = None
  /\ task'[j] # None => /\ task'[j].status = task[j].status
                        /\ task[j].paired => task'[j].paired
                        /\ task'[j].kind \in {task[j].kind, "task"}
                        /\ task'[j].active => task[j].active
  /\ pr'[j] # None => /\ pr[j] # None
                      /\ pr'[j].merged => pr[j].merged
                      /\ pr[j].author => pr'[j].author
  /\ log'[j] \in {log[j], "none"}
  /\ sess'[j] # None => /\ sess[j] # None
                        /\ sess'[j].old => sess[j].old
                        /\ sess'[j].status \in {sess[j].status, "stopped"}
MendedOn(T) ==
  /\ \A j \in TaskIds \cap T : Mended(j)
  /\ \A j \in (TaskIds \cup {Job}) \cap T : j \in panes' <=> j \in panes
  /\ deps' \subseteq deps
  /\ Job \in T => run' \in {run, "cancelled"}

(* The PR of a task is the one it had.                                     *)
SamePr(j) == task[j] # None => (pr'[j] = None <=> pr[j] = None)

(* Where rows are in no worse order, nothing new is found.                 *)
LEMMA NoneNew ==
  ASSUME ATypes, ATypes', NEW T, MendedOn(T), \A j \in TaskIds \cap T : SamePr(j),
         NEW f \in Findings', On(f) \subseteq T
  PROVE  f \in Findings
<1>1. PICK k \in Kinds : \E r \in Refers(k)' : f = [kind |-> k, ref |-> r]
  <2>1. \A g : g \in Findings' <=>
                 \E k \in Kinds : \E r \in Refers(k)' : g = [kind |-> k, ref |-> r]
    BY DEF Findings, Kinds
  <2> QED BY <2>1
<1>2. PICK r \in Refers(k)' : f = [kind |-> k, ref |-> r]
  BY <1>1
<1>3. f.kind = k /\ f.ref = r
  BY <1>2
<1>a. /\ \A j \in TaskIds \cap T : Mended(j)
      /\ \A j \in (TaskIds \cup {Job}) \cap T : j \in panes' <=> j \in panes
      /\ deps' \subseteq deps
      /\ Job \in T => run' \in {run, "cancelled"}
  BY DEF MendedOn
<1>b. \A i : k \notin {"duplicate_pr_url", "orphan_dependency"} /\ r[1] = i => i \in T
  BY <1>3 DEF On
<1>4. r \in Refers(k)
  <2>1. CASE k = "pr_merged_task_not_started"
    <3>1. PICK i \in TaskIds : r = <<i>> /\ task'[i] # None /\ pr'[i] # None /\ pr'[i].merged
                                /\ task'[i].status = "not_started"
      BY <2>1 DEF Refers, PrTaskDrift, Gone, MergedOf, HasPr
    <3> QED BY <1>a, <1>b, <2>1, <3>1, RefersAre DEF Mended, PrTaskDrift, Gone, MergedOf, HasPr
  <2>2. CASE k = "all_prs_merged_task_open"
    <3>1. PICK i \in TaskIds : r = <<i>> /\ task'[i] # None /\ pr'[i] # None /\ pr'[i].merged
                                /\ task'[i].status # "done"
      BY <2>2 DEF Refers, AllPrsMerged, Gone, MergedOf, HasPr
    <3> QED BY <1>a, <1>b, <2>2, <3>1, RefersAre DEF Mended, AllPrsMerged, Gone, MergedOf, HasPr
  <2>3. CASE k = "ticket_fields_unpaired"
    <3>1. PICK i \in TaskIds : r = <<i>> /\ task'[i] # None /\ ~task'[i].paired
      BY <2>3 DEF Refers, TicketUnpaired, Gone
    <3> QED BY <1>a, <1>b, <2>3, <3>1, RefersAre DEF Mended, TicketUnpaired, Gone
  <2>4. CASE k = "orphan_pr"
    <3>1. PICK i \in TaskIds : r = <<i>> /\ task'[i] = None /\ pr'[i] # None
      BY <2>4 DEF Refers, OrphanPrs, Gone, HasPr
    <3> QED BY <1>a, <1>b, <2>4, <3>1, RefersAre DEF Mended, OrphanPrs, Gone, HasPr
  <2>5. CASE k = "orphan_history"
    <3>1. PICK i \in TaskIds : r = <<i>> /\ task'[i] = None /\ log'[i] # "none"
      BY <2>5 DEF Refers, OrphanHistory, Gone
    <3> QED BY <1>a, <1>b, <2>5, <3>1, RefersAre DEF Mended, OrphanHistory, Gone
  <2>6. CASE k = "orphan_dependency"
    <3>1. r \in deps' /\ (task'[r[1]] = None \/ task'[r[2]] = None)
      BY <2>6 DEF Refers, OrphanDeps, Gone
    <3>2. PICK i \in TaskIds, j \in TaskIds : r = <<i, j>>
      BY <3>1 DEF ATypes, AuditTypeOK
    <3>3. i \in T /\ j \in T
      BY <1>3, <2>6, <3>2 DEF On
    <3> QED BY <1>a, <2>6, <3>1, <3>2, <3>3, RefersAre DEF Mended, OrphanDeps, Gone
  <2>7. CASE k = "duplicate_pr_url"
    <3>1. PICK w \in PrUrls : r = <<w>> /\ Cardinality({i \in HasPr' : PrUrl[i] = w}) > 1
      BY <2>7 DEF Refers, DuplicateUrls
    <3>2. {i \in HasPr' : PrUrl[i] = w} \in SUBSET {i \in HasPr : PrUrl[i] = w}
      <4>1. \A i \in TaskIds : PrUrl[i] = w => i \in T
        BY <1>3, <2>7, <3>1 DEF On
      <4> QED BY <1>a, <4>1 DEF Mended, HasPr
    <3>3. {i \in HasPr : PrUrl[i] = w} \in SUBSET TaskIds
      BY DEF HasPr
    <3>4. /\ IsFiniteSet({i \in HasPr : PrUrl[i] = w})
          /\ Cardinality({i \in HasPr : PrUrl[i] = w}) \in Nat
          /\ IsFiniteSet({i \in HasPr' : PrUrl[i] = w})
          /\ Cardinality({i \in HasPr' : PrUrl[i] = w}) \in Nat
          /\ Cardinality({i \in HasPr' : PrUrl[i] = w})
               <= Cardinality({i \in HasPr : PrUrl[i] = w})
      BY <3>2, <3>3, TaskIdsAssumption, FS_Subset, FS_CardinalityType
    <3>5. Cardinality({i \in HasPr : PrUrl[i] = w}) > 1
      BY <3>1, <3>4
    <3> QED BY <2>7, <3>1, <3>5, RefersAre DEF DuplicateUrls
  <2>8. CASE k = "pr_missing_author"
    <3>1. PICK i \in TaskIds : r = <<i>> /\ pr'[i] # None /\ ~pr'[i].author
      BY <2>8 DEF Refers, MissingAuthor, HasPr
    <3> QED BY <1>a, <1>b, <2>8, <3>1, RefersAre DEF Mended, MissingAuthor, HasPr
  <2>9. CASE k = "stale_cron_run"
    <3>1. r = <<Job>> /\ run' = "running" /\ Job \notin panes'
      BY <2>9 DEF Refers, StaleCronRun
    <3> QED BY <1>a, <1>b, <2>9, <3>1, RefersAre DEF StaleCronRun
  <2>10. CASE k = "stale_task_session"
    <3>1. PICK i \in TaskIds : /\ r = <<i>> /\ sess'[i] # None
                               /\ i \notin panes' /\ sess'[i].status \in Live
      BY <2>10 DEF Refers, StaleTaskSess
    <3> QED BY <1>a, <1>b, <2>10, <3>1, RefersAre DEF Mended, StaleTaskSess, Live
  <2>11. CASE k = "long_idle_input_session"
    <3>1. PICK i \in TaskIds : /\ r = <<i>> /\ sess'[i] # None
                               /\ sess'[i].old /\ sess'[i].status = "waiting"
      BY <2>11 DEF Refers, LongIdle
    <3> QED BY <1>a, <1>b, <2>11, <3>1, RefersAre DEF Mended, LongIdle
  <2>12. CASE k = "stale_review_session"
    <3>1. PICK i \in TaskIds : /\ r = <<i, Url(i)'>> /\ task'[i] # None /\ task'[i].kind = "review"
                               /\ task'[i].active /\ sess'[i] # None /\ i \notin panes'
      BY <2>12 DEF Refers, StaleReviewSess, Gone
    <3>2. i \in T
      BY <1>b, <2>12, <3>1
    <3>3. /\ task[i] # None /\ task[i].kind = "review" /\ task[i].active
          /\ sess[i] # None /\ i \notin panes
      BY <1>a, <3>1, <3>2 DEF Mended
    <3>4. Url(i)' = Url(i)
      BY <3>2, <3>3 DEF Url, SamePr
    <3> QED BY <2>12, <3>1, <3>3, <3>4, RefersAre DEF StaleReviewSess, Gone
  <2>13. CASE k = "noncanonical_task_type"
    <3>1. PICK i \in TaskIds : r = <<i>> /\ task'[i] # None /\ task'[i].kind = "alias"
      BY <2>13 DEF Refers, AliasedType, Gone
    <3> QED BY <1>a, <1>b, <2>13, <3>1, RefersAre DEF Mended, AliasedType, Gone
  <2>14. CASE k = "terminal_status_missing_transition"
    <3>1. PICK i \in TaskIds : /\ r = <<i>> /\ task'[i] # None
                               /\ task'[i].status = "done" /\ log'[i] = "some"
      BY <2>14 DEF Refers, NoTransition, Gone
    <3> QED BY <1>a, <1>b, <2>14, <3>1, RefersAre DEF Mended, NoTransition, Gone
  <2> QED BY <2>1, <2>2, <2>3, <2>4, <2>5, <2>6, <2>7, <2>8, <2>9, <2>10, <2>11, <2>12, <2>13,
             <2>14, FixKindsAre DEF Kinds, Reported
<1> QED BY <1>2, <1>4, FindingsAre

(* What a fixer writes, for the finding f: the rows the finding is about.  *)
Wrote(f) ==
  /\ \A j \in TaskIds :
       /\ pr'[j] # pr[j] => /\ f.ref = <<j>>
                            /\ \/ f.kind = "orphan_pr" /\ pr'[j] = None
                               \/ f.kind = "pr_missing_author" /\ pr'[j] # None
       /\ log'[j] # log[j] => f.ref = <<j>> /\ f.kind = "orphan_history"
       /\ sess'[j] # sess[j] =>
            \/ f.ref = <<j>> /\ f.kind \in {"stale_task_session", "long_idle_input_session"}
            \/ ReviewId[f.ref[2]] = j /\ f.kind = "stale_review_session" /\ sess'[j] = None
  /\ \A d \in deps \ deps' : f.ref = d /\ f.kind = "orphan_dependency"
  /\ run' # run => f.kind = "stale_cron_run"
(* ... after which it is found no more, or could not be repaired.          *)
Fixed(f) ==
  f \notin Findings' \/ On(f) \cap touched' # {}
    \/ (f.kind = "stale_review_session" /\ ReviewId[f.ref[2]] # f.ref[1])
FixOf(f) ==
  /\ f \in todo /\ todo' = todo \ {f} /\ UNCHANGED <<panes, stage, before>>
  /\ touched \subseteq touched' /\ MendedOn(TaskIds \cup {Job}) /\ Wrote(f) /\ Fixed(f)

(* Is a finding of the kind still there?                                   *)
LEMMA StillThere ==
  ASSUME NEW k \in Kinds, NEW r, [kind |-> k, ref |-> r] \in Findings'
  PROVE  r \in Refers(k)'
<1>1. \A g : g \in Findings' <=>
               \E j \in Kinds : \E x \in Refers(j)' : g = [kind |-> j, ref |-> x]
  BY DEF Findings, Kinds
<1>2. PICK j \in Kinds : \E x \in Refers(j)' : [kind |-> k, ref |-> r] = [kind |-> j, ref |-> x]
  BY <1>1
<1>3. PICK x \in Refers(j)' : [kind |-> k, ref |-> r] = [kind |-> j, ref |-> x]
  BY <1>2
<1>4. k = j /\ r = x
  BY <1>3
<1> QED BY <1>4

(* The steps of the fixers.                                                *)
LEMMA FixWrites ==
  ASSUME ATypes, FixFinding
  PROVE  \E f \in todo : FixOf(f)
<1>a. /\ task \in [TaskIds -> Task \cup {None}] /\ pr \in [TaskIds -> PrEntry \cup {None}]
      /\ log \in [TaskIds -> {"none", "some", "closing"}] /\ deps \subseteq TaskIds \X TaskIds
      /\ sess \in [TaskIds -> Session \cup {None}] /\ Job \notin TaskIds
  BY TaskIdsAssumption DEF ATypes, AuditTypeOK
<1>b. \A j \in TaskIds : task[j] # None => task[j] \in Task
  BY <1>a
<1>c. ASSUME NEW f, NEW kind, Fixes(f, kind), Repairs,
             deps' \subseteq deps, run' \in {run, "cancelled"},
             \A j \in TaskIds : Mended(j), Wrote(f), Fixed(f)
      PROVE  \E g \in todo : FixOf(g)
  <2>1. f \in todo /\ todo' = todo \ {f} /\ UNCHANGED <<panes, stage, before, touched>>
    BY <1>c, FixesOK DEF OnlyTodo, Repairs
  <2>2. MendedOn(TaskIds \cup {Job})
    BY <1>c, <2>1 DEF MendedOn
  <2> QED BY <1>c, <2>1, <2>2 DEF FixOf
<1>d. ASSUME NEW f, NEW kind \in FixKinds, Fixes(f, kind)
      PROVE  /\ f.kind = kind /\ f = [kind |-> kind, ref |-> f.ref]
             /\ f \in Findings' => f.ref \in Refers(kind)'
  <2>1. f.kind = kind /\ f = [kind |-> kind, ref |-> f.ref]
    BY <1>d, FixesOK
  <2>2. kind \in Kinds
    BY DEF Kinds
  <2> QED BY <2>1, <2>2, StillThere
<1>1. CASE DeleteOrphanPr
  <2>1. PICK f : /\ Fixes(f, "orphan_pr") /\ pr' = DeletedPrs(f.ref[1])
                 /\ UNCHANGED <<task, log, deps, sess, run>> /\ Repairs
    BY <1>1 DEF DeleteOrphanPr
  <2>2. PICK i \in TaskIds : f.ref = <<i>> /\ i = f.ref[1]
    BY <2>1, FixesOK DEF Odd
  <2>3. pr' = [pr EXCEPT ![i] = None]
    BY <2>1, <2>2 DEF DeletedPrs
  <2>4. f.kind = "orphan_pr" /\ (f \in Findings' => f.ref \in Refers("orphan_pr")')
    BY <1>d, <2>1, FixKindsAre
  <2>5. f \notin Findings'
    BY <1>a, <2>2, <2>3, <2>4 DEF Refers, OrphanPrs, HasPr
  <2>6. \A j \in TaskIds : Mended(j)
    BY <1>a, <2>1, <2>3 DEF Mended
  <2>7. Wrote(f)
    BY <1>a, <2>1, <2>2, <2>3, <2>4 DEF Wrote
  <2> QED BY <1>c, <2>1, <2>5, <2>6, <2>7 DEF Fixed
<1>2. CASE DeleteOrphanHistory
  <2>1. PICK f : /\ Fixes(f, "orphan_history") /\ log' = [log EXCEPT ![f.ref[1]] = "none"]
                 /\ UNCHANGED <<task, pr, deps, sess, run>> /\ Repairs
    BY <1>2 DEF DeleteOrphanHistory
  <2>2. PICK i \in TaskIds : f.ref = <<i>> /\ i = f.ref[1]
    BY <2>1, FixesOK DEF Odd
  <2>4. f.kind = "orphan_history" /\ (f \in Findings' => f.ref \in Refers("orphan_history")')
    BY <1>d, <2>1, FixKindsAre
  <2>5. f \notin Findings'
    BY <1>a, <2>1, <2>2, <2>4 DEF Refers, OrphanHistory
  <2>6. \A j \in TaskIds : Mended(j)
    BY <1>a, <2>1, <2>2 DEF Mended
  <2>7. Wrote(f)
    BY <1>a, <2>1, <2>2, <2>4 DEF Wrote
  <2> QED BY <1>c, <2>1, <2>5, <2>6, <2>7 DEF Fixed
<1>3. CASE DeleteOrphanDependency
  <2>1. PICK f : /\ Fixes(f, "orphan_dependency") /\ deps' = deps \ {f.ref}
                 /\ UNCHANGED <<task, pr, log, sess, run>> /\ Repairs
    BY <1>3 DEF DeleteOrphanDependency
  <2>4. /\ f.kind = "orphan_dependency"
        /\ f \in Findings' => f.ref \in Refers("orphan_dependency")'
    BY <1>d, <2>1, FixKindsAre
  <2>5. f \notin Findings'
    BY <2>1, <2>4 DEF Refers, OrphanDeps
  <2>6. \A j \in TaskIds : Mended(j)
    BY <1>a, <2>1 DEF Mended
  <2>7. Wrote(f)
    BY <1>a, <2>1, <2>4 DEF Wrote
  <2> QED BY <1>c, <2>1, <2>5, <2>6, <2>7 DEF Fixed
<1>4. CASE BackfillPrAuthor
  <2>1. PICK f \in NextFix :
          /\ Fixes(f, "pr_missing_author")
          /\ pr' = IF pr[f.ref[1]] # None THEN [pr EXCEPT ![f.ref[1]].author = TRUE] ELSE pr
          /\ UNCHANGED <<task, log, deps, sess, run>> /\ Repairs
    BY <1>4, Zenon DEF BackfillPrAuthor
  <2>2. PICK i \in TaskIds : f.ref = <<i>> /\ i = f.ref[1]
    BY <2>1, FixesOK DEF Odd
  <2>3. \/ pr[i] = None /\ pr' = pr
        \/ pr[i] # None /\ pr' = [pr EXCEPT ![i] = [pr[i] EXCEPT !.author = TRUE]]
    BY <2>1, <2>2
  <2>4. /\ f.kind = "pr_missing_author"
        /\ f \in Findings' => f.ref \in Refers("pr_missing_author")'
    BY <1>d, <2>1, FixKindsAre
  <2>8. pr[i] # None => /\ [pr[i] EXCEPT !.author = TRUE].author = TRUE
                        /\ [pr[i] EXCEPT !.author = TRUE].merged = pr[i].merged
                        /\ [pr[i] EXCEPT !.author = TRUE] \in PrEntry
    BY <1>a DEF PrEntry
  <2>5. Fixed(f)
    <3>1. pr'[i] # None => pr'[i].author = TRUE
      BY <1>a, <2>3, <2>8
    <3>2. f.ref \notin Refers("pr_missing_author")'
      BY <2>2, <3>1 DEF Refers, MissingAuthor, HasPr
    <3> QED BY <2>4, <3>2 DEF Fixed
  <2>9. \A j \in TaskIds :
          pr'[j] = pr[j] \/ (j = i /\ pr[j] # None /\ pr'[j] = [pr[i] EXCEPT !.author = TRUE])
    BY <1>a, <2>3
  <2>6. \A j \in TaskIds : Mended(j)
    BY <1>a, <2>1, <2>8, <2>9 DEF Mended
  <2>7. Wrote(f)
    <3>1. None \notin PrEntry
      BY NoneAssumption
    <3> QED BY <2>1, <2>2, <2>4, <2>8, <2>9, <3>1 DEF Wrote
  <2> QED BY <1>c, <2>1, <2>5, <2>6, <2>7
<1>5. CASE CloseStaleCronRun
  <2>1. PICK f : /\ Fixes(f, "stale_cron_run")
                 /\ run' = IF run = "none" THEN run ELSE "cancelled"
                 /\ UNCHANGED <<task, pr, log, deps, sess>> /\ Repairs
    BY <1>5 DEF CloseStaleCronRun
  <2>4. f.kind = "stale_cron_run" /\ (f \in Findings' => f.ref \in Refers("stale_cron_run")')
    BY <1>d, <2>1, FixKindsAre
  <2>5. f \notin Findings'
    BY <2>1, <2>4 DEF Refers, StaleCronRun
  <2>6. \A j \in TaskIds : Mended(j)
    BY <1>a, <2>1 DEF Mended
  <2>7. Wrote(f)
    BY <1>a, <2>1, <2>4 DEF Wrote
  <2> QED BY <1>c, <2>1, <2>5, <2>6, <2>7 DEF Fixed
<1>6. CASE CloseStaleTaskSession
  <2>0. PICK f : /\ Fixes(f, "stale_task_session") \/ Fixes(f, "long_idle_input_session")
                 /\ sess' = Stopped(f.ref[1])
                 /\ UNCHANGED <<task, pr, log, deps, run>> /\ Repairs
    BY <1>6 DEF CloseStaleTaskSession
  <2>1. PICK k \in {"stale_task_session", "long_idle_input_session"} :
          /\ Fixes(f, k) /\ sess' = Stopped(f.ref[1])
          /\ UNCHANGED <<task, pr, log, deps, run>> /\ Repairs
    BY <2>0
  <2>2. PICK i \in TaskIds : f.ref = <<i>> /\ i = f.ref[1]
    BY <2>1, FixesOK DEF Odd
  <2>3. \/ sess' = sess /\ sess[i] = None
        \/ (sess[i] # None /\ sess' = [sess EXCEPT ![i] = [sess[i] EXCEPT !.status = "stopped"]])
    BY <2>1, <2>2 DEF Stopped
  <2>4. f.kind = k /\ (f \in Findings' => f.ref \in Refers(k)')
    BY <1>d, <2>1, FixKindsAre
  <2>8. sess[i] # None => /\ [sess[i] EXCEPT !.status = "stopped"].status = "stopped"
                          /\ [sess[i] EXCEPT !.status = "stopped"].old = sess[i].old
    BY <1>a DEF Session
  <2>9. /\ \A j \in TaskIds :
             \/ sess'[j] = sess[j]
             \/ (j = i /\ sess[j] # None /\ sess'[j] = [sess[i] EXCEPT !.status = "stopped"])
        /\ sess'[i] # None => sess'[i].status = "stopped"
    BY <1>a, <2>3, <2>8
  <2>5. f \notin Findings'
    BY <2>2, <2>4, <2>9 DEF Refers, StaleTaskSess, LongIdle, Live
  <2>6. \A j \in TaskIds : Mended(j)
    BY <1>a, <2>1, <2>8, <2>9 DEF Mended
  <2>7. Wrote(f)
    BY <1>a, <2>1, <2>2, <2>4, <2>9 DEF Wrote
  <2> QED BY <1>c, <2>1, <2>5, <2>6, <2>7 DEF Fixed
<1>7. CASE CloseStaleReviewSession
  <2>1. PICK f :
          /\ Fixes(f, "stale_review_session")
          /\ IF ReviewId[f.ref[2]] # None
             THEN /\ task' = IF ~Gone(ReviewId[f.ref[2]]) /\ task[ReviewId[f.ref[2]]].kind = "review"
                             THEN [task EXCEPT ![ReviewId[f.ref[2]]].active = FALSE] ELSE task
                  /\ sess' = [sess EXCEPT ![ReviewId[f.ref[2]]] = None]
             ELSE UNCHANGED <<task, sess>>
          /\ UNCHANGED <<pr, log, deps, run>> /\ Repairs
    BY <1>7 DEF CloseStaleReviewSession
  <2>2. PICK i \in TaskIds \cup {None} : i = ReviewId[f.ref[2]]
    BY <2>1, FixesOK
  <2>4. /\ f.kind = "stale_review_session" /\ f.ref[1] \in TaskIds
        /\ f \in Findings' => f.ref \in Refers("stale_review_session")'
    BY <1>d, <2>1, FixKindsAre, FixesOK
  <2>3. \/ i = None /\ UNCHANGED <<task, sess>>
        \/ /\ i \in TaskIds /\ i # None /\ sess' = [sess EXCEPT ![i] = None]
           /\ \/ task' = task
              \/ (task[i] # None /\ task' = [task EXCEPT ![i] = [task[i] EXCEPT !.active = FALSE]])
    BY <2>1, <2>2 DEF Gone
  <2>8. i \in TaskIds /\ task[i] # None =>
          /\ [task[i] EXCEPT !.active = FALSE].active = FALSE
          /\ [task[i] EXCEPT !.active = FALSE].paired = task[i].paired
          /\ [task[i] EXCEPT !.active = FALSE].kind = task[i].kind
          /\ [task[i] EXCEPT !.active = FALSE].status = task[i].status
          /\ [task[i] EXCEPT !.active = FALSE] \in Task
    BY <1>b DEF Task
  <2>9. /\ \A j \in TaskIds :
             \/ task'[j] = task[j]
             \/ (j = i /\ task[j] # None /\ task'[j] = [task[i] EXCEPT !.active = FALSE])
        /\ \A j \in TaskIds : sess'[j] = sess[j] \/ (j = i /\ sess'[j] = None)
        /\ i \in TaskIds /\ i # None => sess'[i] = None
    BY <1>a, <2>3
  <2>5. Fixed(f)
    <3>1. CASE i # f.ref[1]
      BY <2>2, <2>4, <3>1 DEF Fixed
    <3>2. CASE i = f.ref[1] /\ i # None
      <4>1. sess'[i] = None
        BY <2>4, <2>9, <3>2
      <4>2. f.ref \notin Refers("stale_review_session")'
        BY <3>2, <4>1 DEF Refers, StaleReviewSess
      <4> QED BY <2>4, <4>2 DEF Fixed
    <3> QED BY <2>4, <3>1, <3>2, NoneAssumption
  <2>6. \A j \in TaskIds : Mended(j)
    <3>1. None \notin Task
      BY NoneAssumption
    <3> QED BY <2>1, <2>8, <2>9, <3>1 DEF Mended
  <2>7. Wrote(f)
    BY <1>a, <2>1, <2>2, <2>4, <2>9 DEF Wrote
  <2> QED BY <1>c, <2>1, <2>5, <2>6, <2>7
<1>8. CASE CanonicalizeTaskType
  <2>1. PICK f :
          /\ Fixes(f, "noncanonical_task_type")
          /\ task' = IF Gone(f.ref[1]) THEN task ELSE [task EXCEPT ![f.ref[1]].kind = "task"]
          /\ UNCHANGED <<pr, log, deps, sess, run>> /\ Repairs
    BY <1>8 DEF CanonicalizeTaskType
  <2>2. PICK i \in TaskIds : f.ref = <<i>> /\ i = f.ref[1]
    BY <2>1, FixesOK DEF Odd
  <2>3. \/ task[i] = None /\ task' = task
        \/ (task[i] # None /\ task' = [task EXCEPT ![i] = [task[i] EXCEPT !.kind = "task"]])
    BY <2>1, <2>2 DEF Gone
  <2>4. /\ f.kind = "noncanonical_task_type"
        /\ f \in Findings' => f.ref \in Refers("noncanonical_task_type")'
    BY <1>d, <2>1, FixKindsAre
  <2>8. task[i] # None => /\ [task[i] EXCEPT !.kind = "task"].active = task[i].active
                          /\ [task[i] EXCEPT !.kind = "task"].paired = task[i].paired
                          /\ [task[i] EXCEPT !.kind = "task"].kind = "task"
                          /\ [task[i] EXCEPT !.kind = "task"].status = task[i].status
                          /\ [task[i] EXCEPT !.kind = "task"] \in Task
    BY <1>b DEF Task
  <2>9. /\ \A j \in TaskIds :
             \/ task'[j] = task[j]
             \/ (j = i /\ task[j] # None /\ task'[j] = [task[i] EXCEPT !.kind = "task"])
        /\ task'[i] # None => task'[i].kind = "task"
    BY <1>a, <2>3, <2>8
  <2>5. f \notin Findings'
    BY <2>2, <2>4, <2>9 DEF Refers, AliasedType, Gone
  <2>6. \A j \in TaskIds : Mended(j)
    <3>1. None \notin Task
      BY NoneAssumption
    <3> QED BY <2>1, <2>8, <2>9, <3>1 DEF Mended
  <2>7. Wrote(f)
    BY <1>a, <2>1, <2>2, <2>4, <2>9 DEF Wrote
  <2> QED BY <1>c, <2>1, <2>5, <2>6, <2>7 DEF Fixed
<1>9. CASE FixFails
  <2>1. PICK f \in NextFix :
          /\ todo' = todo \ {f} /\ touched' = touched \cup On(f)
          /\ UNCHANGED <<task, pr, log, deps, sess, run>> /\ OnlyTodo
    BY <1>9 DEF FixFails
  <2>2. f \in todo /\ f.ref[1] \in On(f)
    BY OnRef DEF NextFix, ATypes, TodoOK
  <2>3. Fixed(f) /\ Wrote(f)
    BY <2>1, <2>2 DEF Fixed, Wrote
  <2>4. MendedOn(TaskIds \cup {Job})
    BY <2>1 DEF MendedOn, Mended, OnlyTodo
  <2> QED BY <2>1, <2>2, <2>3, <2>4 DEF FixOf, OnlyTodo
<1> QED BY <1>1, <1>2, <1>3, <1>4, <1>5, <1>6, <1>7, <1>8, <1>9 DEF FixFinding

-----------------------------------------------------------------------------
(* Audit: what is on the list is still broken, and what is found is on the *)
(* list, unless the server wrote it.                                       *)

(* What a finding said holds on, as far as its fixer relies on it.         *)
Standing(f) ==
  /\ f.kind \in {"orphan_pr", "orphan_history"} => Gone(f.ref[1])
  /\ f.kind = "orphan_dependency" => Gone(f.ref[1]) \/ Gone(f.ref[2])
  /\ f.kind = "pr_missing_author" => pr[f.ref[1]] = None \/ ~pr[f.ref[1]].author
  /\ f.kind = "stale_cron_run" => run = "running" /\ Job \notin panes
  /\ f.kind \in {"stale_task_session", "stale_review_session"} => f.ref[1] \notin panes
  /\ f.kind = "long_idle_input_session" =>
       \/ f.ref[1] \notin panes \/ sess[f.ref[1]] = None
       \/ (sess[f.ref[1]].old /\ sess[f.ref[1]].status = "waiting")
AllStanding == \A f \in todo : On(f) \cap touched = {} => Standing(f)
(* What is found was found by the scan, and is on the list if a fixer can  *)
(* reach it.                                                               *)
Known(f) ==
  /\ f \in before
  /\ f.kind \in FixKinds =>
       f \in todo \/ (f.kind = "stale_review_session" /\ ReviewId[f.ref[2]] # f.ref[1])
AllKnown ==
  stage = "fixing" =>
    \A f \in Findings : On(f) \cap touched = {} /\ CheckError(f.kind) \notin before => Known(f)
AuditInv ==
  /\ ATypes /\ (stage # "fixing" => todo = {})
  /\ AllStanding /\ AllKnown /\ NothingLeftToFix

(* The rows of what the scan finds are as its fixer expects them.          *)
LEMMA ScanStands ==
  ASSUME ATypes, NEW f \in Findings, f.kind \in FixKinds
  PROVE  Standing(f)
<1>1. f.ref \in Refers(f.kind) /\ RefOf(f)
  BY ScanRefs DEF ATypes
<1>2. CASE f.kind \in {"orphan_pr", "orphan_history"}
  BY <1>1, <1>2, RefersAre DEF Standing, OrphanPrs, OrphanHistory
<1>3. CASE f.kind = "orphan_dependency"
  BY <1>1, <1>3, RefersAre DEF Standing, OrphanDeps
<1>4. CASE f.kind = "pr_missing_author"
  BY <1>1, <1>4, RefersAre DEF Standing, MissingAuthor
<1>5. CASE f.kind = "stale_cron_run"
  BY <1>1, <1>5, RefersAre DEF Standing, StaleCronRun
<1>6. CASE f.kind \in {"stale_task_session", "stale_review_session"}
  BY <1>1, <1>6, RefersAre DEF Standing, StaleTaskSess, StaleReviewSess
<1>7. CASE f.kind = "long_idle_input_session"
  BY <1>1, <1>7, RefersAre DEF Standing, LongIdle
<1>8. CASE f.kind = "noncanonical_task_type"
  BY <1>8 DEF Standing
<1> QED BY <1>2, <1>3, <1>4, <1>5, <1>6, <1>7, <1>8, FixKindsAre

(* The server leaves what a finding said where it does not write.          *)
LEMMA StandingApart ==
  ASSUME ATypes, NEW f \in todo, NEW i \in TaskIds \cup {Job}, Apart(i), i \notin On(f),
         Standing(f)
  PROVE  Standing(f)'
<1>1. RefOf(f) /\ f.kind \in FixKinds
  BY DEF ATypes, TodoOK
<1>2. /\ f.kind # "orphan_dependency" => f.ref[1] # i /\ f.ref[1] \in TaskIds \cup {Job}
      /\ f.kind \notin {"orphan_dependency", "stale_cron_run"} => f.ref[1] \in TaskIds
      /\ f.kind = "stale_cron_run" => f.ref[1] = Job
      /\ f.kind = "orphan_dependency" => /\ f.ref[1] # i /\ f.ref[2] # i
                                         /\ f.ref[1] \in TaskIds /\ f.ref[2] \in TaskIds
  BY <1>1, OnRef DEF RefOf, Odd
<1> QED BY <1>2 DEF Standing, Apart, Gone

(* So does a fixer, where it is another finding's.                         *)
LEMMA StandingFixed ==
  ASSUME ATypes, NEW f \in todo, NEW g \in todo, g # f, FixOf(f), Standing(g),
         On(f) \cap touched = {} => Standing(f), On(g) \cap touched = {}
  PROVE  Standing(g)'
<1>1. RefOf(g) /\ g.kind \in FixKinds /\ RefOf(f) /\ f.kind \in FixKinds
      /\ f = [kind |-> f.kind, ref |-> f.ref] /\ g = [kind |-> g.kind, ref |-> g.ref]
  BY DEF ATypes, TodoOK
<1>2. g.kind = f.kind => g.ref # f.ref
  BY <1>1
<1>3. /\ UNCHANGED panes /\ Wrote(f) /\ MendedOn(TaskIds \cup {Job})
      /\ \A j \in TaskIds : task'[j] = None <=> task[j] = None
  BY DEF FixOf, MendedOn, Mended
<1>4. CASE g.kind \in {"orphan_pr", "orphan_history"}
  <2>1. g.ref[1] \in TaskIds
    BY <1>1, <1>4 DEF RefOf, Odd
  <2> QED BY <1>3, <1>4, <2>1 DEF Standing, Gone
<1>5. CASE g.kind = "orphan_dependency"
  <2>1. g.ref[1] \in TaskIds /\ g.ref[2] \in TaskIds
    BY <1>1, <1>5 DEF RefOf
  <2> QED BY <1>3, <1>5, <2>1 DEF Standing, Gone
<1>6. CASE g.kind = "pr_missing_author"
  <2>1. PICK i \in TaskIds : g.ref = <<i>> /\ g.ref[1] = i
    BY <1>1, <1>6 DEF RefOf, Odd
  <2>2. pr'[i] = pr[i] \/ pr'[i] = None
    BY <1>2, <1>3, <1>6, <2>1 DEF Wrote
  <2> QED BY <1>6, <2>1, <2>2 DEF Standing
<1>7. CASE g.kind = "stale_cron_run"
  <2>1. run' = run
    BY <1>1, <1>2, <1>3, <1>7 DEF Wrote, RefOf
  <2> QED BY <1>3, <1>7, <2>1 DEF Standing
<1>8. CASE g.kind \in {"stale_task_session", "stale_review_session"}
  BY <1>3, <1>8 DEF Standing
<1>9. CASE g.kind = "long_idle_input_session"
  <2>1. PICK i \in TaskIds : g.ref = <<i>> /\ g.ref[1] = i
    BY <1>1, <1>9 DEF RefOf, Odd
  <2>2. CASE sess'[i] = sess[i]
    BY <1>3, <1>9, <2>1, <2>2 DEF Standing
  <2>4. CASE sess'[i] = None
    BY <1>9, <2>1, <2>4 DEF Standing
  <2>3. CASE sess'[i] # sess[i] /\ sess'[i] # None
    <3>1. f.ref = <<i>> /\ f.kind = "stale_task_session"
      BY <1>2, <1>3, <1>9, <2>1, <2>3 DEF Wrote
    <3>2. On(f) = On(g)
      BY <1>1, <1>9, <2>1, <3>1, OnRef
    <3>3. i \notin panes
      BY <3>1, <3>2 DEF Standing
    <3> QED BY <1>3, <1>9, <2>1, <3>3 DEF Standing
  <2> QED BY <2>2, <2>3, <2>4
<1>10. CASE g.kind = "noncanonical_task_type"
  BY <1>10 DEF Standing
<1> QED BY <1>1, <1>4, <1>5, <1>6, <1>7, <1>8, <1>9, <1>10, FixKindsAre

(* Every finding is about rows of tasks, or the job.                       *)
LEMMA FindingOn ==
  ASSUME ATypes, NEW f \in Findings
  PROVE  On(f) \subseteq TaskIds \cup {Job}
<1>1. PICK k \in Kinds : \E r \in Refers(k) : f = [kind |-> k, ref |-> r]
  BY FindingsAre
<1>2. PICK r \in Refers(k) : f = [kind |-> k, ref |-> r]
  BY <1>1
<1>3. f.kind = k /\ f.ref = r
  BY <1>2
<1>4. CASE k = "duplicate_pr_url"
  BY <1>3, <1>4 DEF On
<1>5. CASE k = "orphan_dependency"
  <2>1. PICK i \in TaskIds, j \in TaskIds : r = <<i, j>>
    BY <1>5, RefersTyped DEF ATypes
  <2> QED BY <1>3, <1>5, <2>1 DEF On
<1>6. CASE k = "stale_cron_run"
  BY <1>3, <1>6, RefersTyped DEF On, ATypes
<1>7. CASE k = "stale_review_session"
  <2>1. PICK i \in TaskIds, u \in PrUrls \cup {None} : r = <<i, u>>
    BY <1>7, RefersTyped DEF ATypes
  <2> QED BY <1>3, <1>7, <2>1 DEF On
<1>8. CASE k \notin Odd \cup {"duplicate_pr_url"}
  <2>1. PICK i \in TaskIds : r = <<i>>
    BY <1>8, RefersTyped DEF ATypes
  <2> QED BY <1>3, <1>8, <2>1 DEF On, Odd
<1> QED BY <1>4, <1>5, <1>6, <1>7, <1>8 DEF Odd

(* Nothing is found anew while nothing is written.                         *)
LEMMA SameFindings ==
  ASSUME ATypes, ATypes', UNCHANGED <<task, pr, log, deps, sess, panes, run>>, NEW f \in Findings'
  PROVE  f \in Findings
<1>1. MendedOn(On(f)) /\ \A j \in TaskIds : SamePr(j)
  BY DEF MendedOn, Mended, SamePr
<1> QED BY <1>1, NoneNew

(* Nor where the server does not write.                                    *)
LEMMA ApartFindings ==
  ASSUME ATypes, ATypes', NEW i, Apart(i), NEW f \in Findings', i \notin On(f)
  PROVE  f \in Findings
<1>1. MendedOn(On(f)) /\ \A j \in TaskIds \cap On(f) : SamePr(j)
  BY DEF MendedOn, Mended, SamePr, Apart
<1> QED BY <1>1, NoneNew

(* The steps of the audit and of the server keep the invariant.            *)
LEMMA AuditInvInit == AuditInit => AuditInv
<1> SUFFICES ASSUME AuditInit PROVE AuditInv
  OBVIOUS
<1>1. stage = "idle" /\ todo = {}
  BY DEF AuditInit
<1> QED BY <1>1, AuditTypesInit DEF AuditInv, AllStanding, AllKnown, NothingLeftToFix

LEMMA AuditInvNext == AuditInv /\ [AuditNext]_avars => AuditInv'
<1> SUFFICES ASSUME AuditInv, [AuditNext]_avars PROVE AuditInv'
  OBVIOUS
<1>a. ATypes /\ ATypes'
  BY AuditTypesNext DEF AuditInv
<1>1. CASE RunAudit
  <2>1. /\ UNCHANGED <<task, pr, log, deps, sess, panes, run>> /\ stage' = "fixing"
    BY <1>1 DEF RunAudit
  <2>0. PICK failed \in SUBSET {f.kind : f \in Findings} :
          /\ before' = {f \in Findings : f.kind \notin failed} \cup {CheckError(kind) : kind \in failed}
          /\ todo' = {f \in {f \in Findings : f.kind \notin failed} : f.kind \in FixKinds}
    BY <1>1 DEF RunAudit
  <2>2. AllStanding'
    <3> SUFFICES ASSUME NEW f \in todo' PROVE Standing(f)'
      BY DEF AllStanding
    <3>1. Standing(f)
      BY <1>a, <2>0, ScanStands
    <3> QED BY <2>1, <3>1 DEF Standing, Gone
  <2>3. AllKnown'
    <3> SUFFICES ASSUME NEW f \in Findings', CheckError(f.kind) \notin before' PROVE Known(f)'
      BY DEF AllKnown
    <3>1. f \in Findings
      BY <1>a, <2>1, SameFindings
    <3>2. f.kind \notin failed
      BY <2>0
    <3> QED BY <2>0, <3>1, <3>2 DEF Known
  <2> QED BY <1>a, <2>1, <2>2, <2>3 DEF AuditInv, NothingLeftToFix
<1>2. CASE FixFinding
  <2>1. PICK f \in todo : FixOf(f)
    BY <1>a, <1>2, FixWrites
  <2>2. stage = "fixing" /\ stage' = "fixing"
    BY <2>1 DEF AuditInv, FixOf
  <2>3. /\ todo' = todo \ {f} /\ before' = before /\ touched \subseteq touched'
        /\ MendedOn(TaskIds \cup {Job}) /\ Fixed(f)
    BY <2>1 DEF FixOf
  <2>4. AllStanding'
    <3> SUFFICES ASSUME NEW g \in todo', On(g) \cap touched' = {} PROVE Standing(g)'
      BY DEF AllStanding
    <3>1. g \in todo /\ g # f /\ On(g) \cap touched = {}
      BY <2>3
    <3>2. Standing(g) /\ (On(f) \cap touched = {} => Standing(f))
      BY <3>1 DEF AuditInv, AllStanding
    <3> QED BY <1>a, <2>1, <3>1, <3>2, StandingFixed
  <2>5. AllKnown'
    <3> SUFFICES ASSUME NEW g \in Findings', On(g) \cap touched' = {},
                        CheckError(g.kind) \notin before
                 PROVE  Known(g)'
      BY <2>3 DEF AllKnown
    <3>1. MendedOn(On(g))
      BY <2>3 DEF MendedOn
    <3>2. ASSUME NEW j \in TaskIds \cap On(g) PROVE SamePr(j)
      <4> SUFFICES ASSUME task[j] # None, pr[j] # None, pr'[j] = None PROVE FALSE
        BY <2>3 DEF SamePr, MendedOn, Mended
      <4>1. f.ref = <<j>> /\ f.kind = "orphan_pr"
        BY <2>1 DEF FixOf, Wrote
      <4>2. On(f) = {j} /\ f.ref[1] = j
        BY <1>a, <4>1, OnRef DEF ATypes, TodoOK
      <4>3. On(f) \cap touched = {}
        BY <2>3, <4>2
      <4>4. Standing(f)
        BY <4>3 DEF AuditInv, AllStanding
      <4> QED BY <4>1, <4>2, <4>4 DEF Standing, Gone
    <3>3. g \in Findings
      BY <1>a, <3>1, <3>2, NoneNew
    <3>4. Known(g)
      BY <2>2, <2>3, <3>3 DEF AuditInv, AllKnown
    <3>5. CASE g # f
      BY <2>3, <3>4, <3>5 DEF Known
    <3>6. CASE g = f
      BY <2>3, <3>4, <3>6 DEF Known, Fixed
    <3> QED BY <3>5, <3>6
  <2> QED BY <1>a, <2>2, <2>4, <2>5 DEF AuditInv, NothingLeftToFix
<1>3. CASE FixedAll
  <2>1. /\ UNCHANGED <<task, pr, log, deps, sess, panes, run, todo, before, touched>>
        /\ stage = "fixing" /\ todo = {} /\ stage' = "done" /\ UNCHANGED before
    BY <1>3 DEF FixedAll
  <2>2. NothingLeftToFix'
    <3> SUFFICES ASSUME NEW f \in Findings', On(f) \cap touched' = {},
                        CheckError(f.kind) \notin before'
                 PROVE  /\ f.kind \in FixKinds =>
                             f.kind = "stale_review_session" /\ ReviewId[f.ref[2]] # f.ref[1]
                        /\ f \in before'
      BY DEF NothingLeftToFix
    <3>1. f \in Findings
      BY <1>a, <2>1, SameFindings
    <3>2. Known(f)
      BY <2>1, <3>1 DEF AuditInv, AllKnown
    <3> QED BY <2>1, <3>2 DEF Known
  <2> QED BY <1>a, <2>1, <2>2 DEF AuditInv, AllStanding, AllKnown
<1>4. CASE ServerStep
  <2>1. PICK i \in TaskIds \cup {Job} :
          /\ Apart(i) /\ touched' = touched \cup {i} /\ stage # "done"
          /\ UNCHANGED <<stage, todo, before>>
    BY <1>a, <1>4, ServerWrites
  <2>2. AllStanding'
    <3> SUFFICES ASSUME NEW g \in todo', On(g) \cap touched' = {} PROVE Standing(g)'
      BY DEF AllStanding
    <3>1. g \in todo /\ i \notin On(g) /\ On(g) \cap touched = {}
      BY <2>1
    <3>2. Standing(g)
      BY <3>1 DEF AuditInv, AllStanding
    <3> QED BY <1>a, <2>1, <3>1, <3>2, StandingApart
  <2>3. AllKnown'
    <3> SUFFICES ASSUME stage = "fixing", NEW g \in Findings', On(g) \cap touched' = {},
                        CheckError(g.kind) \notin before
                 PROVE  Known(g)'
      BY <2>1 DEF AllKnown
    <3>1. i \notin On(g) /\ On(g) \cap touched = {}
      BY <2>1
    <3>2. g \in Findings
      BY <1>a, <2>1, <3>1, ApartFindings
    <3>3. Known(g)
      BY <3>1, <3>2 DEF AuditInv, AllKnown
    <3> QED BY <2>1, <3>3 DEF Known
  <2>4. stage' # "fixing" => todo' = {}
    BY <2>1 DEF AuditInv
  <2> QED BY <1>a, <2>1, <2>2, <2>3, <2>4 DEF AuditInv, NothingLeftToFix
<1>5. CASE UNCHANGED avars
  <2>1. UNCHANGED <<task, pr, log, deps, sess, panes, run, stage, todo, before, touched>>
    BY <1>5 DEF avars
  <2>2. AllStanding'
    BY <2>1 DEF AuditInv, AllStanding, Standing, Gone
  <2>3. \A f \in Findings' : f \in Findings
    BY <1>a, <2>1, SameFindings
  <2>4. AllKnown' /\ NothingLeftToFix'
    BY <2>1, <2>3 DEF AuditInv, AllKnown, Known, NothingLeftToFix
  <2> QED BY <1>a, <2>1, <2>2, <2>4 DEF AuditInv
<1> QED BY <1>1, <1>2, <1>3, <1>4, <1>5 DEF AuditNext

(* A fixer takes away only what is not in order.                           *)
SessBroken(i) ==
  \/ i \notin panes \/ (sess[i].old /\ sess[i].status = "waiting")
  \/ \E f \in todo : f.kind = "stale_review_session" /\ f.ref[1] # i /\ ReviewId[f.ref[2]] = i
LEMMA FixTakesBroken ==
  ASSUME AuditInv, FixFinding, NEW i \in TaskIds \ touched
  PROVE  /\ pr'[i] # pr[i] => Gone(i) \/ (pr'[i] # None /\ ~pr[i].author)
         /\ log'[i] # log[i] => Gone(i)
         /\ \A d \in deps \ deps' : d[1] = i \/ d[2] = i =>
              Gone(d[1]) \/ Gone(d[2]) \/ {d[1], d[2]} \cap touched # {}
         /\ sess'[i] # sess[i] => SessBroken(i)
         /\ Job \notin touched /\ run' # run => run = "running" /\ Job \notin panes
<1>1. PICK f \in todo : FixOf(f)
  BY FixWrites DEF AuditInv
<1>2. /\ Wrote(f) /\ Mended(i) /\ ATypes /\ RefOf(f) /\ f.kind \in FixKinds
      /\ On(f) \cap touched = {} => Standing(f)
  BY <1>1 DEF FixOf, MendedOn, AuditInv, ATypes, TodoOK, AllStanding
<1>3. f.ref = <<i>> /\ f.kind # "orphan_dependency" => Standing(f) /\ f.ref[1] = i
  BY <1>2, OnRef
<1>4. pr'[i] # pr[i] => Gone(i) \/ (pr'[i] # None /\ ~pr[i].author)
  <2> SUFFICES ASSUME pr'[i] # pr[i] PROVE Gone(i) \/ (pr'[i] # None /\ ~pr[i].author)
    OBVIOUS
  <2>1. /\ f.ref = <<i>>
        /\ \/ f.kind = "orphan_pr" /\ pr'[i] = None
           \/ f.kind = "pr_missing_author" /\ pr'[i] # None
    BY <1>2 DEF Wrote
  <2>2. Standing(f) /\ f.ref[1] = i
    BY <1>3, <2>1
  <2>3. pr'[i] # None => pr[i] # None
    BY <1>2 DEF Mended
  <2> QED BY <2>1, <2>2, <2>3 DEF Standing
<1>5. log'[i] # log[i] => Gone(i)
  <2>1. log'[i] # log[i] => f.ref = <<i>> /\ f.kind = "orphan_history"
    BY <1>2 DEF Wrote
  <2> QED BY <1>3, <2>1 DEF Standing
<1>6. ASSUME NEW d \in deps \ deps'
      PROVE  Gone(d[1]) \/ Gone(d[2]) \/ {d[1], d[2]} \cap touched # {}
  <2>1. f.ref = d /\ f.kind = "orphan_dependency"
    BY <1>2, <1>6 DEF Wrote
  <2>2. On(f) = {d[1], d[2]}
    BY <1>2, <2>1, OnRef
  <2> QED BY <1>2, <2>1, <2>2 DEF Standing
<1>7. sess'[i] # sess[i] => SessBroken(i)
  <2> SUFFICES ASSUME sess'[i] # sess[i] PROVE SessBroken(i)
    OBVIOUS
  <2>1. CASE f.kind = "stale_review_session"
    <3>1. ReviewId[f.ref[2]] = i
      BY <1>2, <2>1 DEF Wrote
    <3>2. CASE f.ref[1] # i
      BY <1>1, <2>1, <3>1, <3>2 DEF SessBroken
    <3>3. CASE f.ref[1] = i
      <4>1. On(f) = {i}
        BY <1>2, <2>1, <3>3, OnRef
      <4> QED BY <1>2, <2>1, <3>3, <4>1 DEF Standing, SessBroken
    <3> QED BY <3>2, <3>3
  <2>2. CASE f.kind # "stale_review_session"
    <3>1. f.ref = <<i>> /\ f.kind \in {"stale_task_session", "long_idle_input_session"}
      BY <1>2, <2>2 DEF Wrote
    <3>2. Standing(f) /\ f.ref[1] = i
      BY <1>3, <3>1
    <3>3. sess[i] # None
      BY <1>2 DEF Mended
    <3> QED BY <3>1, <3>2, <3>3 DEF Standing, SessBroken
  <2> QED BY <2>1, <2>2
<1>8. Job \notin touched /\ run' # run => run = "running" /\ Job \notin panes
  <2>1. run' # run => f.ref = <<Job>> /\ f.kind = "stale_cron_run"
    BY <1>2 DEF Wrote, RefOf
  <2>2. f.ref = <<Job>> /\ f.kind = "stale_cron_run" => On(f) = {Job}
    BY <1>2, OnRef
  <2> QED BY <1>2, <2>1, <2>2 DEF Standing
<1> QED BY <1>4, <1>5, <1>6, <1>7, <1>8

-----------------------------------------------------------------------------
(* The two parts together.                                                 *)

UpkeepInv == part \in {"tickets", "audit"} /\ NInv /\ AuditInv

(* Both invariants hold, whichever part runs.                              *)
LEMMA UpkeepInvInit == UpkeepInit => UpkeepInv
BY NamesInit, AuditInvInit DEF UpkeepInit, UpkeepInv

LEMMA UpkeepInvNext == UpkeepInv /\ [UpkeepNext]_all => UpkeepInv'
<1> SUFFICES ASSUME UpkeepInv, [UpkeepNext]_all PROVE UpkeepInv'
  OBVIOUS
<1>1. UNCHANGED part /\ [Next]_vars /\ [AuditNext]_avars
  BY DEF UpkeepNext, all, auditVars, avars
<1> QED BY <1>1, NamesNext, AuditInvNext DEF UpkeepInv

(* Every variable keeps to its type.                                       *)
THEOREM UpkeepTypes == UpkeepSpec => []UpkeepTypeOK
<1>1. UpkeepInv => UpkeepTypeOK
  BY DEF UpkeepInv, NInv, TInv, AuditInv, ATypes, UpkeepTypeOK
<1> QED BY <1>1, UpkeepInvInit, UpkeepInvNext, PTL DEF UpkeepSpec

(* A ticket has one row at the most, whatever the user unlinks and deletes *)
(* while any number of threads sync and track tickets (upsert_ticket),     *)
(* unless a task was linked to it by hand, or two threads were in the      *)
(* midst of its upsert at once.                                            *)
THEOREM TicketsOnce == UpkeepSpec => []TicketOnce
<1>1. UpkeepInv => TicketOnce
  BY NamesOnce DEF UpkeepInv
<1> QED BY <1>1, UpkeepInvInit, UpkeepInvNext, PTL DEF UpkeepSpec

(* No sync badges a ticket that was pinned before it read the row          *)
(* (_sync_disappeared).                                                    *)
THEOREM PinsKept == UpkeepSpec => PinnedNeverBadged
<1> DEFINE A == \A i \in Existing :
                  rows[i].pinned /\ rows[i].key \notin linked \cup raced \cup {None}
                    /\ ~rows[i].left
                    => rows'[i] = None \/ ~rows'[i].left
<1>1. UpkeepInv /\ [UpkeepNext]_all => [A]_vars
  <2> SUFFICES ASSUME UpkeepInv, [UpkeepNext]_all PROVE [A]_vars
    OBVIOUS
  <2>1. [Next]_vars
    BY DEF UpkeepNext, all
  <2>2. CASE Next
    BY <2>2, StepBadgesNone DEF UpkeepInv
  <2> QED BY <2>1, <2>2
<1> QED BY <1>1, UpkeepInvInit, UpkeepInvNext, PTL DEF UpkeepSpec, PinnedNeverBadged

(* After the repairs, the second scan finds nothing that the first did not *)
(* find, and nothing that can be repaired, but for what the server wrote   *)
(* in between, what a check or a fixer raised on, and reviews under        *)
(* another id than their PR's url gives (eva-cli audit --fix): no repair   *)
(* breaks what another check looks at.                                     *)
THEOREM AuditRepairs == UpkeepSpec => []NothingLeftToFix
<1>1. UpkeepInv => NothingLeftToFix
  BY DEF UpkeepInv, AuditInv
<1> QED BY <1>1, UpkeepInvInit, UpkeepInvNext, PTL DEF UpkeepSpec

(* A repair takes away nothing that is in order, but for what the server   *)
(* wrote after the scan.                                                   *)
THEOREM RepairsAreSafe == UpkeepSpec => RepairsOnlyBroken
<1> DEFINE A == stage = "fixing" /\ FixFinding =>
                  \A i \in TaskIds \ touched :
                    /\ pr'[i] # pr[i] => Gone(i) \/ (pr'[i] # None /\ ~pr[i].author)
                    /\ log'[i] # log[i] => Gone(i)
                    /\ \A d \in deps \ deps' : d[1] = i \/ d[2] = i =>
                         Gone(d[1]) \/ Gone(d[2]) \/ {d[1], d[2]} \cap touched # {}
                    /\ sess'[i] # sess[i] =>
                         \/ i \notin panes \/ (sess[i].old /\ sess[i].status = "waiting")
                         \/ \E f \in todo : /\ f.kind = "stale_review_session"
                                            /\ f.ref[1] # i /\ ReviewId[f.ref[2]] = i
                    /\ Job \notin touched /\ run' # run => run = "running" /\ Job \notin panes
<1>1. UpkeepInv => [A]_avars
  BY FixTakesBroken DEF UpkeepInv, SessBroken
<1> QED BY <1>1, UpkeepInvInit, UpkeepInvNext, PTL DEF UpkeepSpec, RepairsOnlyBroken

=============================================================================

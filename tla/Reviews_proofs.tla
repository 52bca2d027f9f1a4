--------------------------- MODULE Reviews_proofs ---------------------------
(***************************************************************************)
(* What holds of the review queue for any number of PRs, of changes on     *)
(* GitHub and of the user's acts.                                          *)
(***************************************************************************)
EXTENDS Reviews, TLAPS

(* The bounds are numbers, and None stands for no row.                     *)
Bounds == MaxAsks \in Nat /\ MaxUses \in Nat
NoneIsNoRow == None \notin Review

(* What a write starts from is a row.                                      *)
LEMMA RowOK ==
  ASSUME ReviewsTypeOK, Bounds, NEW u \in Urls PROVE RowOr(u) \in Review
<1>1. NewRow \in Review
  BY DEF NewRow, Review, Sources, Flow, Bounds, Ver
<1> QED BY <1>1 DEF RowOr, ReviewsTypeOK

(* What is written to a row is a row, and the other rows stay.             *)
LEMMA PutOK ==
  ASSUME ReviewsTypeOK, Bounds, NEW u \in Urls, NEW s \in Sources, NEW v \in Ver, NEW f \in Flow
  PROVE  /\ RowOr(u) \in Review
         /\ Put(u, s, v) \in [Urls -> Review \cup {None}]
         /\ Put(u, s, v)[u] = [RowOr(u) EXCEPT !.source = s, !.ver = v]
         /\ Put(u, s, v)[u] \in Review
         /\ \A w \in Urls : w # u => Put(u, s, v)[w] = queue[w]
         /\ PutFlow(u, f) \in [Urls -> Review \cup {None}]
         /\ PutFlow(u, f)[u] = [RowOr(u) EXCEPT !.flow = f]
         /\ PutFlow(u, f)[u] \in Review
         /\ \A w \in Urls : w # u => PutFlow(u, f)[w] = queue[w]
<1>4. RowOr(u) \in Review
  BY RowOK
<1>5. [RowOr(u) EXCEPT !.source = s, !.ver = v] \in Review /\ [RowOr(u) EXCEPT !.flow = f] \in Review
  BY <1>4 DEF Review
<1> QED BY <1>4, <1>5 DEF ReviewsTypeOK, Put, PutFlow

(* Clearing marks keeps rows and all but their mark.                       *)
LEMMA UnmarkedOK ==
  ASSUME ReviewsTypeOK, NoneIsNoRow, NEW U
  PROVE  /\ Unmarked(U) \in [Urls -> Review \cup {None}]
         /\ \A w \in Urls : /\ Unmarked(U)[w] = None <=> queue[w] = None
                            /\ queue[w] # None => /\ Unmarked(U)[w].source = queue[w].source
                                                  /\ Unmarked(U)[w].flow = queue[w].flow
<1> SUFFICES ASSUME NEW w \in Urls
             PROVE  /\ Unmarked(U)[w] \in Review \cup {None}
                    /\ Unmarked(U)[w] = None <=> queue[w] = None
                    /\ queue[w] # None => /\ Unmarked(U)[w].source = queue[w].source
                                          /\ Unmarked(U)[w].flow = queue[w].flow
  BY DEF Unmarked
<1>1. queue[w] \in Review \cup {None}
  BY DEF ReviewsTypeOK
<1>2. CASE queue[w] = None
  BY <1>2 DEF Unmarked
<1>3. CASE queue[w] # None
  <2>1. [queue[w] EXCEPT !.dirty = FALSE] \in Review
    BY <1>1, <1>3 DEF Review
  <2>2. Unmarked(U)[w] \in {queue[w], [queue[w] EXCEPT !.dirty = FALSE]}
    BY DEF Unmarked
  <2> QED BY <1>1, <1>3, <2>1, <2>2 DEF NoneIsNoRow, Review
<1> QED BY <1>2, <1>3

(* Nothing is under way.                                                   *)
LEMMA NullsOK ==
  ASSUME Bounds PROVE NoFull \in Full /\ NoQuick \in Quick /\ NoRequest \in Request
<1>1. 0 \in Ver
  BY DEF Bounds, Ver
<1>2. NoFull \in Full
  BY DEF NoFull, Full
<1>3. NoQuick \in Quick
  BY <1>1 DEF NoQuick, Quick
<1>4. NoRequest \in Request
  BY <1>1 DEF NoRequest, Request, Pinned, Flow
<1> QED BY <1>2, <1>3, <1>4

(* A row that is held is one that is still to be written, and a request    *)
(* under way is about a PR.                                                *)
Busy    == full.hold # None => full.work[full.hold.url] \in Ver
UserHas == user.does # "nothing" => user.url \in Urls
Types   == ReviewsTypeOK /\ Busy /\ UserHas

(* The full sync keeps the types.                                          *)
LEMMA FullTypes ==
  ASSUME Types, Bounds, NoneIsNoRow, FullStep
  PROVE  Types'
<1>0. full \in Full /\ \A u \in Urls : asks[u] \in Ask /\ queue[u] \in Review \cup {None}
  BY DEF Types, ReviewsTypeOK
<1>a. SUFFICES /\ queue' \in [Urls -> Review \cup {None}] /\ full' \in Full /\ Busy'
               /\ UNCHANGED quick /\ SyncOnly
  BY DEF Types, ReviewsTypeOK, UserHas, SyncOnly
<1>1. CASE SearchOrFail
  <2>1. PICK req \in {Wanted("request"), {}}, mention \in {Wanted("mention"), {}},
             got \in SUBSET Urls : Search(req, mention, got)
    BY <1>1 DEF SearchOrFail
  <2>2. Found(req, mention, got) \in [Urls -> Ver \cup {None}]
    BY <1>0 DEF Found, Ask, Review
  <2>3. req \in SUBSET Urls
    BY DEF Wanted
  <2>4. full' \in Full /\ full'.hold = None
    BY <2>1, <2>2, <2>3, NullsOK DEF Search, NoFull, Full
  <2> QED BY <1>0, <2>1, <2>4 DEF Search, Types, ReviewsTypeOK, Busy
<1>2. ASSUME NEW u \in Urls, LookAt(u)
      PROVE  /\ queue' \in [Urls -> Review \cup {None}] /\ full' \in Full /\ Busy'
             /\ UNCHANGED quick /\ SyncOnly
  <2> DEFINE prior == IF queue[u] = None THEN None ELSE queue[u].source
             held  == [url |-> u, source |-> ResolveReviewSource(u \in full.req, prior)]
  <2>1. ResolveReviewSource(u \in full.req, prior) \in Sources
    BY DEF ResolveReviewSource, Sources, Pinned
  <2>2. full' = [full EXCEPT !.hold = held]
    BY <1>2 DEF LookAt
  <2> HIDE DEF prior
  <2>3. held \in Held /\ held.url = u
    BY <2>1 DEF Held
  <2> HIDE DEF held
  <2>4. full' \in Full /\ full'.hold = held /\ full'.work[u] \in Ver
    BY <1>0, <1>2, <2>2, <2>3 DEF LookAt, Full
  <2> QED BY <1>2, <2>3, <2>4 DEF LookAt, Types, ReviewsTypeOK, Busy
<1>3. CASE PutRow
  <2>1. full.hold \in Held /\ full.work[full.hold.url] \in Ver
    BY <1>0, <1>3 DEF PutRow, Full, Types, Busy
  <2>2. full.hold.url \in Urls /\ full.hold.source \in Sources
    BY <2>1 DEF Held
  <2>3. full' \in Full /\ full'.hold = None
    BY <1>0, <1>3, <2>2 DEF PutRow, Full
  <2>4. 0 \in Ver /\ "queued" \in Flow
    BY DEF Bounds, Ver, Flow
  <2>5. queue' \in [Urls -> Review \cup {None}]
    BY <1>3, <2>1, <2>2, <2>4, PutOK DEF PutRow, Types
  <2> QED BY <1>3, <2>3, <2>5 DEF PutRow, Busy
<1>4. CASE ListStale
  <2>1. Stale("github") \subseteq Urls /\ Stale("both") \subseteq Urls
    BY DEF Stale
  <2>2. full' \in Full /\ full'.hold = None
    BY <1>0, <1>4, <2>1 DEF ListStale, Full
  <2> QED BY <1>4, <2>2 DEF ListStale, Types, ReviewsTypeOK, Busy
<1>5. ASSUME NEW u \in Urls, Prune(u)
      PROVE  /\ queue' \in [Urls -> Review \cup {None}] /\ full' \in Full /\ Busy'
             /\ UNCHANGED quick /\ SyncOnly
  <2>1. "manual" \in Sources /\ 0 \in Ver /\ "queued" \in Flow
    BY DEF Sources, Bounds, Ver, Flow
  <2>2. RowOr(u) \in Review
    BY <2>1, PutOK DEF Types
  <2>3. [RowOr(u) EXCEPT !.source = "manual"] \in Review
    BY <2>1, <2>2 DEF Review
  <2>4. queue' \in [Urls -> Review \cup {None}]
    BY <1>5, <2>3 DEF Prune, Types, ReviewsTypeOK
  <2>5. full' \in Full /\ full'.hold = full.hold /\ full'.work = full.work
    BY <1>0, <1>5 DEF Prune, Full
  <2> QED BY <1>5, <2>4, <2>5 DEF Prune, Types, Busy
<1>6. CASE EndFullSync
  <2>1. queue' \in [Urls -> Review \cup {None}]
    BY <1>6, UnmarkedOK DEF EndFullSync, Types
  <2>2. full' \in Full /\ full'.hold = None
    BY <1>6, NullsOK DEF EndFullSync, NoFull
  <2> QED BY <1>6, <2>1, <2>2 DEF EndFullSync, Busy
<1> QED BY <1>1, <1>2, <1>3, <1>4, <1>5, <1>6 DEF FullStep

(* The sync of marked rows keeps the types.                                *)
LEMMA QuickTypes ==
  ASSUME Types, Bounds, NoneIsNoRow, QuickStep
  PROVE  Types'
<1>0. quick \in Quick /\ \A u \in Urls : asks[u] \in Ask /\ queue[u] \in Review \cup {None}
  BY DEF Types, ReviewsTypeOK
<1>a. SUFFICES queue' \in [Urls -> Review \cup {None}] /\ quick' \in Quick /\ UNCHANGED full /\ SyncOnly
  BY DEF Types, ReviewsTypeOK, Busy, UserHas, SyncOnly
<1>b. 0 \in Ver /\ "queued" \in Flow
  BY DEF Bounds, Ver, Flow
<1>1. ASSUME NEW got \in SUBSET Urls, ListMarked(got)
      PROVE  queue' \in [Urls -> Review \cup {None}] /\ quick' \in Quick /\ UNCHANGED full /\ SyncOnly
  <2> DEFINE src == [u \in Urls |-> IF u \in Marked THEN queue[u].source ELSE None]
             ver == [u \in Urls |-> IF u \in Marked \cap got THEN asks[u].ver
                                    ELSE IF u \in Marked THEN queue[u].ver ELSE 0]
  <2>1. src \in [Urls -> Sources \cup {None}]
    BY <1>0 DEF Marked, Review
  <2>2. ver \in [Urls -> Ver]
    BY <1>0, <1>b DEF Marked, Review, Ask
  <2>3. quick' = [NoQuick EXCEPT !.pc = "busy", !.source = src, !.ver = ver]
    BY <1>1 DEF ListMarked
  <2> HIDE DEF src, ver
  <2>4. quick' \in Quick
    BY <2>1, <2>2, <2>3, NullsOK DEF NoQuick, Quick
  <2> QED BY <1>1, <2>4 DEF ListMarked, Types, ReviewsTypeOK
<1>2. ASSUME NEW u \in Urls, PutMarked(u)
      PROVE  queue' \in [Urls -> Review \cup {None}] /\ quick' \in Quick /\ UNCHANGED full /\ SyncOnly
  <2>1. quick.source[u] \in Sources /\ quick.ver[u] \in Ver
    BY <1>0, <1>2 DEF PutMarked, Quick
  <2>2. queue' \in [Urls -> Review \cup {None}]
    BY <1>2, <2>1, <1>b, PutOK DEF PutMarked, Types
  <2>3. quick' \in Quick
    BY <1>0, <1>2, <1>b DEF PutMarked, Quick
  <2> QED BY <1>2, <2>2, <2>3 DEF PutMarked
<1>3. CASE ClearMark
  <2>1. queue' \in [Urls -> Review \cup {None}]
    BY <1>3, UnmarkedOK DEF ClearMark, Types
  <2>2. [quick EXCEPT !.clear = None] \in Quick
    BY <1>0 DEF Quick
  <2>3. quick' \in Quick
    BY <1>3, <2>2, NullsOK DEF ClearMark
  <2> QED BY <1>3, <2>1, <2>3 DEF ClearMark
<1> QED BY <1>1, <1>2, <1>3 DEF QuickStep

(* The user and the notifications keep the types.                          *)
LEMMA UserTypes ==
  ASSUME Types, Bounds, NoneIsNoRow, NEW u \in Urls,
         \/ PinLook(u) \/ Unwatch(u) \/ Mark(u) \/ RequestStep
         \/ (\E flow \in Flow : FlowLook(u, flow))
         \/ \E what \in {"nothing", "mention", "request"} : AskFor(u, what)
  PROVE  Types'
<1>0. /\ user \in Request /\ (user.does # "nothing" => user.url \in Urls)
      /\ \A w \in Urls : asks[w] \in Ask /\ queue[w] \in Review \cup {None}
      /\ asks \in [Urls -> Ask] /\ queue \in [Urls -> Review \cup {None}]
      /\ used \in 0 .. MaxUses /\ asked \in 0 .. MaxAsks
      /\ wish \in [Urls -> Flow \cup {None}] /\ out \subseteq Urls /\ met \subseteq Urls
  BY DEF Types, ReviewsTypeOK, UserHas
<1>b. 0 \in Ver /\ "queued" \in Flow /\ "manual" \in Pinned /\ Pinned \subseteq Sources
  BY DEF Bounds, Ver, Flow, Pinned, Sources
<1>c. Uses => used' \in 0 .. MaxUses
  BY <1>0 DEF Uses, Bounds
<1>1. CASE PinLook(u)
  <2>1. user' \in Request /\ user'.url = u
    BY <1>0, <1>1, <1>b DEF PinLook, NoRequest, Request, Pinned, Ask
  <2> QED BY <1>1, <1>c, <2>1 DEF PinLook, Types, ReviewsTypeOK, Busy, UserHas
<1>2. CASE Unwatch(u)
  <2>1. queue' \in [Urls -> Review \cup {None}] /\ wish' \in [Urls -> Flow \cup {None}]
    BY <1>0, <1>2 DEF Unwatch, Deleted
  <2>2. out' \subseteq Urls /\ met' \subseteq Urls
    BY <1>0, <1>2 DEF Unwatch
  <2> QED BY <1>2, <1>c, <2>1, <2>2 DEF Unwatch, Types, ReviewsTypeOK, Busy, UserHas
<1>3. CASE Mark(u)
  <2>1. [queue[u] EXCEPT !.dirty = TRUE] \in Review
    BY <1>0, <1>3 DEF Mark, Review
  <2>2. queue' \in [Urls -> Review \cup {None}]
    BY <1>0, <1>3, <2>1 DEF Mark
  <2> QED BY <1>3, <2>2 DEF Mark, Types, ReviewsTypeOK, Busy, UserHas
<1>4. ASSUME NEW flow \in Flow, FlowLook(u, flow)
      PROVE  Types'
  <2>1. user' \in Request /\ user'.url = u
    BY <1>0, <1>4, <1>b DEF FlowLook, NoRequest, Request
  <2> QED BY <1>4, <1>c, <2>1 DEF FlowLook, Types, ReviewsTypeOK, Busy, UserHas
<1>5. ASSUME NEW what \in {"nothing", "mention", "request"}, AskFor(u, what)
      PROVE  Types'
  <2>1. asked' \in 0 .. MaxAsks /\ asked + 1 \in Ver
    BY <1>0, <1>5 DEF AskFor, Bounds, Ver
  <2>2. asks' \in [Urls -> Ask]
    BY <1>0, <1>5, <2>1 DEF AskFor, Ask
  <2>3. out' \subseteq Urls
    BY <1>0, <1>5 DEF AskFor
  <2> QED BY <1>5, <2>1, <2>2, <2>3 DEF AskFor, Types, ReviewsTypeOK, Busy, UserHas
<1>6. CASE PinWrite
  <2>1. user.url \in Urls /\ user.source \in Sources /\ user.ver \in Ver
    BY <1>0, <1>6, <1>b DEF PinWrite, Request
  <2>2. queue' \in [Urls -> Review \cup {None}]
    BY <1>6, <2>1, <1>b, PutOK DEF PinWrite, Types
  <2>3. RowOr(user.url) \in Review
    BY <2>1, <1>b, PutOK DEF Types
  <2>4. wish' \in [Urls -> Flow \cup {None}]
    BY <1>0, <1>6, <2>1, <2>3 DEF PinWrite, Review
  <2>5. out' \subseteq Urls /\ met' \subseteq Urls
    BY <1>0, <1>6, <2>1 DEF PinWrite, Meets
  <2>6. user' \in Request /\ user'.does = "nothing"
    BY <1>6, NullsOK DEF PinWrite, NoRequest
  <2> QED BY <1>6, <2>2, <2>4, <2>5, <2>6 DEF PinWrite, Types, ReviewsTypeOK, Busy, UserHas
<1>7. CASE FlowWrite
  <2>1. user.url \in Urls /\ user.flow \in Flow
    BY <1>0, <1>7 DEF FlowWrite, Request
  <2>2. queue' \in [Urls -> Review \cup {None}]
    BY <1>7, <2>1, <1>b, PutOK DEF FlowWrite, Types
  <2>3. wish' \in [Urls -> Flow \cup {None}]
    BY <1>0, <1>7, <2>1 DEF FlowWrite
  <2>4. user' \in Request /\ user'.does = "nothing"
    BY <1>7, NullsOK DEF FlowWrite, NoRequest
  <2> QED BY <1>7, <2>2, <2>3, <2>4 DEF FlowWrite, Types, ReviewsTypeOK, Busy, UserHas
<1> QED BY <1>1, <1>2, <1>3, <1>4, <1>5, <1>6, <1>7 DEF RequestStep

(* The types hold at the start,                                            *)
LEMMA InitTypes ==
  ASSUME Bounds, ReviewsInit PROVE Types
<1>1. asks \in [Urls -> Ask]
  BY DEF ReviewsInit
<1>2. 0 \in 0 .. MaxAsks /\ 0 \in 0 .. MaxUses
  BY DEF Bounds
<1> QED BY <1>1, <1>2, NullsOK DEF ReviewsInit, Types, ReviewsTypeOK, Busy, UserHas, NoFull, NoRequest

(* Every step of the queue is one of the syncs', or is about some PR.      *)
LEMMA NextCases ==
  ASSUME ReviewsNext
  PROVE  \/ FullStep \/ QuickStep \/ RequestStep
         \/ \E u \in Urls : \/ PinLook(u) \/ Unwatch(u) \/ Mark(u)
                            \/ (\E flow \in Flow : FlowLook(u, flow))
                            \/ \E what \in {"nothing", "mention", "request"} : AskFor(u, what)
BY DEF ReviewsNext

(* and every step keeps them.                                              *)
LEMMA NextTypes ==
  ASSUME Bounds, NoneIsNoRow, Types, [ReviewsNext]_rvars PROVE Types'
<1>1. CASE UNCHANGED rvars
  BY <1>1 DEF rvars, Types, ReviewsTypeOK, Busy, UserHas
<1>2. CASE RequestStep
  <2>1. user.url \in Urls
    BY <1>2 DEF RequestStep, PinWrite, FlowWrite, Types, UserHas
  <2> QED BY <1>2, <2>1, UserTypes
<1>3. ASSUME NEW u \in Urls,
             \/ PinLook(u) \/ Unwatch(u) \/ Mark(u)
             \/ (\E flow \in Flow : FlowLook(u, flow))
             \/ \E what \in {"nothing", "mention", "request"} : AskFor(u, what)
      PROVE  Types'
  BY <1>3, UserTypes
<1> QED BY <1>1, <1>2, <1>3, NextCases, FullTypes, QuickTypes

(* No fairness is needed for it, nor for what follows.                     *)
LEMMA TypesKept ==
  ASSUME Bounds, NoneIsNoRow PROVE ReviewsInit /\ [][ReviewsNext]_rvars => []ReviewsTypeOK
<1>1. ReviewsInit => Types
  BY InitTypes
<1>2. Types /\ [ReviewsNext]_rvars => Types'
  BY NextTypes
<1>3. Types => ReviewsTypeOK
  BY DEF Types
<1> QED BY <1>1, <1>2, <1>3, PTL

(* The state of the queue and of the syncs and requests over it is well    *)
(* typed (prs.py, reviews.py).                                             *)
THEOREM QueueTyped ==
  ASSUME Bounds, NoneIsNoRow PROVE ReviewsSpec => []ReviewsTypeOK
BY TypesKept, PTL DEF ReviewsSpec

(* What a sync holds of a pinned review says that it is pinned, and none   *)
(* is about to delete it.                                                  *)
PinSafe(u) ==
  /\ queue[u] # None /\ queue[u].source \in Pinned /\ queue[u].flow = wish[u]
  /\ (full.hold # None /\ full.hold.url = u) => full.hold.source \in Pinned
  /\ u \notin full.drop
  /\ quick.source[u] # None => quick.source[u] \in Pinned
PinSafely == \A u \in Urls \ met : wish[u] # None => PinSafe(u)

(* What a write of one row leaves of the others, and of its own.           *)
LEMMA PutKeeps ==
  ASSUME Types, Bounds, NEW u \in Urls, NEW s \in Sources, NEW v \in Ver
  PROVE  /\ Put(u, s, v)[u] \in Review
         /\ Put(u, s, v)[u].source = s /\ Put(u, s, v)[u].flow = RowOr(u).flow
         /\ \A w \in Urls : w # u => Put(u, s, v)[w] = queue[w]
<1>1. RowOr(u) \in Review
  BY RowOK DEF Types
<1>2. /\ Put(u, s, v)[u] = [RowOr(u) EXCEPT !.source = s, !.ver = v]
      /\ \A w \in Urls : w # u => Put(u, s, v)[w] = queue[w]
  BY DEF Put, Types, ReviewsTypeOK
<1>3. Put(u, s, v)[u] \in Review /\ Put(u, s, v)[u].source = s /\ Put(u, s, v)[u].flow = RowOr(u).flow
  BY <1>1, <1>2 DEF Review
<1> QED BY <1>2, <1>3

(* The other flows stay as they are.                                       *)
LEMMA PutFlowKeeps ==
  ASSUME Types, Bounds, NEW u \in Urls, NEW f \in Flow
  PROVE  /\ PutFlow(u, f)[u] \in Review
         /\ PutFlow(u, f)[u].source = RowOr(u).source /\ PutFlow(u, f)[u].flow = f
         /\ \A w \in Urls : w # u => PutFlow(u, f)[w] = queue[w]
<1>1. 0 \in Ver /\ "manual" \in Sources
  BY DEF Bounds, Ver, Sources
<1>2. /\ RowOr(u) \in Review /\ PutFlow(u, f)[u] = [RowOr(u) EXCEPT !.flow = f]
      /\ PutFlow(u, f)[u] \in Review /\ \A w \in Urls : w # u => PutFlow(u, f)[w] = queue[w]
  BY <1>1, PutOK DEF Types
<1>3. PutFlow(u, f)[u].source = RowOr(u).source /\ PutFlow(u, f)[u].flow = f
  BY <1>2 DEF Review
<1> QED BY <1>2, <1>3

(* The steps of a full sync.                                               *)
LEMMA FullPins ==
  ASSUME Types, PinSafely, Bounds, NoneIsNoRow, FullStep PROVE PinSafely'
<1>0. full \in Full /\ quick \in Quick /\ \A u \in Urls : queue[u] \in Review \cup {None}
  BY DEF Types, ReviewsTypeOK
<1>b. 0 \in Ver /\ "queued" \in Flow /\ "manual" \in Sources
  BY DEF Bounds, Ver, Flow, Sources
<1>c. UNCHANGED <<met, wish, quick>>
  BY DEF FullStep, SearchOrFail, Search, PutRow, ListStale, EndFullSync, LookAt, Prune, SyncOnly
<1>d. SUFFICES ASSUME NEW w \in Urls \ met, wish[w] # None, PinSafe(w)
               PROVE  PinSafe(w)'
  BY <1>c DEF PinSafely
<1>1. CASE SearchOrFail
  <2>1. queue' = queue /\ full'.hold = None /\ full'.drop = {}
    BY <1>1 DEF SearchOrFail, Search, NoFull
  <2> QED BY <1>c, <1>d, <2>1 DEF PinSafe
<1>2. ASSUME NEW u \in Urls, LookAt(u)
      PROVE  PinSafe(w)'
  <2>1. CASE u = w
    <3>1. ResolveReviewSource(u \in full.req, queue[u].source) \in Pinned
      BY <1>d, <2>1 DEF PinSafe, ResolveReviewSource, Pinned, Sources
    <3>2. full'.hold.source = ResolveReviewSource(u \in full.req, queue[u].source)
      BY <1>0, <1>2, <1>d, <2>1 DEF LookAt, Full, PinSafe
    <3>3. queue' = queue /\ full'.drop = full.drop
      BY <1>0, <1>2 DEF LookAt, Full
    <3> QED BY <1>c, <1>d, <3>1, <3>2, <3>3 DEF PinSafe
  <2>2. CASE u # w
    <3>1. full'.hold.url = u /\ queue' = queue /\ full'.drop = full.drop
      BY <1>0, <1>2 DEF LookAt, Full
    <3> QED BY <1>c, <1>d, <2>2, <3>1 DEF PinSafe
  <2> QED BY <2>1, <2>2
<1>3. CASE PutRow
  <2> DEFINE u == full.hold.url
  <2>1. /\ u \in Urls /\ full.hold.source \in Sources /\ full.work[u] \in Ver
        /\ queue' = Put(u, full.hold.source, full.work[u])
        /\ full'.hold = None /\ full'.drop = full.drop
    BY <1>0, <1>3 DEF PutRow, Full, Held, Types, Busy
  <2>2. CASE u = w
    <3>1. full.hold.source \in Pinned
      BY <1>3, <1>d, <2>2 DEF PinSafe, PutRow
    <3>2. queue'[w] \in Review /\ queue'[w].source = full.hold.source /\ queue'[w].flow = queue[w].flow
      BY <1>d, <2>1, <2>2, PutKeeps DEF PinSafe, RowOr
    <3> QED BY <1>c, <1>d, <2>1, <3>1, <3>2 DEF PinSafe, NoneIsNoRow
  <2>3. CASE u # w
    <3>1. queue'[w] = queue[w]
      BY <2>1, <2>3, PutKeeps
    <3> QED BY <1>c, <1>d, <2>1, <3>1 DEF PinSafe
  <2> QED BY <2>2, <2>3
<1>4. CASE ListStale
  <2>1. w \notin Stale("github")
    BY <1>d DEF Stale, PinSafe, Pinned
  <2>2. queue' = queue /\ full'.hold = None /\ full'.drop = Stale("github")
    BY <1>0, <1>4 DEF ListStale, Full
  <2> QED BY <1>c, <1>d, <2>1, <2>2 DEF PinSafe
<1>5. ASSUME NEW u \in Urls, Prune(u)
      PROVE  PinSafe(w)'
  <2>1. full'.hold = full.hold /\ full'.drop \subseteq full.drop
    BY <1>0, <1>5 DEF Prune, Full
  <2>2. CASE queue'[w] = queue[w]
    BY <1>c, <1>d, <2>1, <2>2 DEF PinSafe
  <2>3. CASE queue'[w] # queue[w]
    <3>1. queue'[w] = [queue[w] EXCEPT !.source = "manual"]
      BY <1>5, <1>d, <2>3 DEF Prune, PinSafe, Types, ReviewsTypeOK, RowOr
    <3>2. queue'[w] \in Review /\ queue'[w].source = "manual" /\ queue'[w].flow = queue[w].flow
      BY <1>0, <1>b, <1>d, <3>1 DEF PinSafe, Review
    <3> QED BY <1>c, <1>d, <2>1, <3>2 DEF PinSafe, NoneIsNoRow, Pinned
  <2> QED BY <2>2, <2>3
<1>6. CASE EndFullSync
  <2>1. full'.hold = None /\ full'.drop = {} /\ queue' = Unmarked(Urls)
    BY <1>6 DEF EndFullSync, NoFull
  <2>2. queue'[w] # None /\ queue'[w].source = queue[w].source /\ queue'[w].flow = queue[w].flow
    BY <1>d, <2>1, UnmarkedOK DEF PinSafe, Types
  <2> QED BY <1>c, <1>d, <2>1, <2>2 DEF PinSafe
<1> QED BY <1>1, <1>2, <1>3, <1>4, <1>5, <1>6 DEF FullStep

(* The steps of a quick sync.                                              *)
LEMMA QuickPins ==
  ASSUME Types, PinSafely, Bounds, NoneIsNoRow, QuickStep PROVE PinSafely'
<1>0. quick \in Quick /\ \A u \in Urls : queue[u] \in Review \cup {None}
  BY DEF Types, ReviewsTypeOK
<1>b. 0 \in Ver /\ "queued" \in Flow /\ "manual" \in Sources
  BY DEF Bounds, Ver, Flow, Sources
<1>c. UNCHANGED <<met, wish, full>>
  BY DEF QuickStep, ListMarked, PutMarked, ClearMark, SyncOnly
<1>d. SUFFICES ASSUME NEW w \in Urls \ met, wish[w] # None, PinSafe(w)
               PROVE  PinSafe(w)'
  BY <1>c DEF PinSafely
<1>1. ASSUME NEW got \in SUBSET Urls, ListMarked(got)
      PROVE  PinSafe(w)'
  <2>1. queue' = queue /\ quick'.source[w] \in {queue[w].source, None}
    BY <1>1 DEF ListMarked, NoQuick
  <2> QED BY <1>c, <1>d, <2>1 DEF PinSafe
<1>2. ASSUME NEW u \in Urls, PutMarked(u)
      PROVE  PinSafe(w)'
  <2>1. /\ quick.source[u] \in Sources /\ quick.ver[u] \in Ver
        /\ queue' = Put(u, quick.source[u], quick.ver[u])
        /\ quick'.source[w] \in {quick.source[w], None}
    BY <1>0, <1>2 DEF PutMarked, Quick
  <2>2. CASE u = w
    <3>1. quick.source[w] \in Pinned
      BY <1>2, <1>d, <2>2 DEF PinSafe, PutMarked
    <3>2. queue'[w] \in Review /\ queue'[w].source = quick.source[w] /\ queue'[w].flow = queue[w].flow
      BY <1>d, <2>1, <2>2, PutKeeps DEF PinSafe, RowOr
    <3> QED BY <1>c, <1>d, <2>1, <3>1, <3>2 DEF PinSafe, NoneIsNoRow
  <2>3. CASE u # w
    <3>1. queue'[w] = queue[w]
      BY <2>1, <2>3, PutKeeps
    <3> QED BY <1>c, <1>d, <2>1, <3>1 DEF PinSafe
  <2> QED BY <2>2, <2>3
<1>3. CASE ClearMark
  <2>1. queue' = Unmarked({quick.clear}) /\ quick'.source[w] \in {quick.source[w], None}
    BY <1>0, <1>3 DEF ClearMark, NoQuick, Quick
  <2>2. queue'[w] # None /\ queue'[w].source = queue[w].source /\ queue'[w].flow = queue[w].flow
    BY <1>d, <2>1, UnmarkedOK DEF PinSafe, Types
  <2> QED BY <1>c, <1>d, <2>1, <2>2 DEF PinSafe
<1> QED BY <1>1, <1>2, <1>3 DEF QuickStep

(* What the user does.                                                     *)
LEMMA UserPins ==
  ASSUME Types, PinSafely, Bounds, NoneIsNoRow, NEW u \in Urls,
         \/ PinLook(u) \/ Unwatch(u) \/ Mark(u) \/ RequestStep
         \/ (\E flow \in Flow : FlowLook(u, flow))
         \/ \E what \in {"nothing", "mention", "request"} : AskFor(u, what)
  PROVE  PinSafely'
<1>0. /\ \A w \in Urls : queue[w] \in Review \cup {None}
      /\ queue \in [Urls -> Review \cup {None}] /\ wish \in [Urls -> Flow \cup {None}]
      /\ user \in Request /\ (user.does # "nothing" => user.url \in Urls)
  BY DEF Types, ReviewsTypeOK, UserHas
<1>b. Pinned \subseteq Sources
  BY DEF Pinned, Sources
<1>c. UNCHANGED <<full, quick>>
  BY DEF RequestStep, PinWrite, FlowWrite, PinLook, Unwatch, Mark, FlowLook, AskFor
<1>1. ASSUME UNCHANGED <<queue, wish, met>>
      PROVE  PinSafely'
  BY <1>1, <1>c DEF PinSafely, PinSafe
<1>2. CASE PinLook(u) \/ (\E flow \in Flow : FlowLook(u, flow))
           \/ \E what \in {"nothing", "mention", "request"} : AskFor(u, what)
  BY <1>1, <1>2 DEF PinLook, FlowLook, AskFor
<1>3. CASE Unwatch(u)
  <2>1. SUFFICES ASSUME NEW w \in Urls \ met', wish'[w] # None
                 PROVE  PinSafe(w)'
    BY DEF PinSafely
  <2>2. w # u
    BY <1>0, <1>3, <2>1 DEF Unwatch
  <2>3. queue'[w] = queue[w] /\ wish'[w] = wish[w] /\ w \notin met
    BY <1>0, <1>3, <2>1, <2>2 DEF Unwatch, Deleted
  <2> QED BY <1>c, <2>1, <2>3 DEF PinSafely, PinSafe
<1>4. CASE Mark(u)
  <2>1. UNCHANGED <<wish, met>>
    BY <1>4 DEF Mark
  <2>2. SUFFICES ASSUME NEW w \in Urls \ met, wish[w] # None, PinSafe(w)
                 PROVE  PinSafe(w)'
    BY <2>1 DEF PinSafely
  <2>3. queue'[w] # None /\ queue'[w].source = queue[w].source /\ queue'[w].flow = queue[w].flow
    <3>1. CASE w = u
      <4>1. queue[u] \in Review /\ queue'[u] = [queue[u] EXCEPT !.dirty = TRUE]
        BY <1>0, <1>4 DEF Mark
      <4>2. queue'[u] \in Review
        BY <4>1 DEF Review
      <4>3. queue'[u].source = queue[u].source /\ queue'[u].flow = queue[u].flow
        BY <4>1 DEF Review
      <4> QED BY <3>1, <4>2, <4>3 DEF NoneIsNoRow
    <3>2. CASE w # u
      BY <1>0, <1>4, <2>2, <3>2 DEF Mark, PinSafe
    <3> QED BY <3>1, <3>2
  <2> QED BY <1>c, <2>1, <2>2, <2>3 DEF PinSafe
<1>5. CASE PinWrite
  <2> DEFINE p == user.url
  <2>1. /\ p \in Urls /\ user.source \in Pinned /\ user.source \in Sources /\ user.ver \in Ver
        /\ queue' = Put(p, user.source, user.ver) /\ wish' = [wish EXCEPT ![p] = RowOr(p).flow]
        /\ met' = IF InSync(p) THEN met \cup {p} ELSE met
    BY <1>0, <1>5, <1>b DEF PinWrite, Request, Meets
  <2> HIDE DEF p
  <2>2. SUFFICES ASSUME NEW w \in Urls \ met', wish'[w] # None
                 PROVE  PinSafe(w)'
    BY DEF PinSafely
  <2>3. CASE w = p
    <3>1. ~InSync(p)
      BY <2>1, <2>2, <2>3
    <3>2. queue'[w] # None /\ queue'[w].source \in Pinned /\ queue'[w].flow = wish'[w]
      BY <1>0, <2>1, <2>3, PutKeeps DEF NoneIsNoRow
    <3> QED BY <1>c, <2>3, <3>1, <3>2 DEF PinSafe, InSync
  <2>4. CASE w # p
    <3>1. queue'[w] = queue[w] /\ wish'[w] = wish[w] /\ w \notin met
      BY <1>0, <2>1, <2>2, <2>4, PutKeeps
    <3> QED BY <1>c, <2>2, <3>1 DEF PinSafely, PinSafe
  <2> QED BY <2>3, <2>4
<1>6. CASE FlowWrite
  <2> DEFINE p == user.url
  <2>1. /\ p \in Urls /\ user.flow \in Flow /\ queue' = PutFlow(p, user.flow)
        /\ wish' = [wish EXCEPT ![p] = IF wish[p] = None THEN None ELSE user.flow] /\ met' = met
    BY <1>0, <1>6 DEF FlowWrite, Request
  <2> HIDE DEF p
  <2>2. SUFFICES ASSUME NEW w \in Urls \ met, wish'[w] # None
                 PROVE  PinSafe(w)'
    BY <2>1 DEF PinSafely
  <2>3. CASE w = p
    <3>1. wish[w] # None /\ wish'[w] = user.flow
      BY <1>0, <2>1, <2>2, <2>3
    <3>2. PinSafe(w) /\ RowOr(w) = queue[w]
      BY <2>2, <3>1 DEF PinSafely, PinSafe, RowOr
    <3>3. queue'[w] # None /\ queue'[w].source = queue[w].source /\ queue'[w].flow = wish'[w]
      BY <2>1, <2>3, <3>1, <3>2, PutFlowKeeps DEF NoneIsNoRow
    <3> QED BY <1>c, <2>1, <3>2, <3>3 DEF PinSafe
  <2>4. CASE w # p
    <3>1. queue'[w] = queue[w] /\ wish'[w] = wish[w]
      BY <1>0, <2>1, <2>2, <2>4, PutFlowKeeps
    <3> QED BY <1>c, <2>2, <3>1 DEF PinSafely, PinSafe
  <2> QED BY <2>3, <2>4
<1> QED BY <1>2, <1>3, <1>4, <1>5, <1>6 DEF RequestStep

(* What is held of pins carries over from step to step.                    *)
LEMMA PinsStay ==
  ASSUME Bounds, NoneIsNoRow PROVE ReviewsInit /\ [][ReviewsNext]_rvars => []PinKept
<1>1. ReviewsInit => Types /\ PinSafely
  <2>1. ReviewsInit => PinSafely
    BY DEF ReviewsInit, PinSafely
  <2> QED BY <2>1, InitTypes
<1>2. Types /\ PinSafely /\ [ReviewsNext]_rvars => (Types /\ PinSafely)'
  <2> SUFFICES ASSUME Types, PinSafely, [ReviewsNext]_rvars PROVE (Types /\ PinSafely)'
    OBVIOUS
  <2>1. Types'
    BY NextTypes
  <2>2. CASE UNCHANGED rvars
    BY <2>2, <2>1 DEF rvars, PinSafely, PinSafe
  <2>3. CASE RequestStep
    <3>1. user.url \in Urls
      BY <2>3 DEF RequestStep, PinWrite, FlowWrite, Types, UserHas
    <3> QED BY <2>1, <2>3, <3>1, UserPins
  <2>4. ASSUME NEW u \in Urls,
               \/ PinLook(u) \/ Unwatch(u) \/ Mark(u)
               \/ (\E flow \in Flow : FlowLook(u, flow))
               \/ \E what \in {"nothing", "mention", "request"} : AskFor(u, what)
        PROVE  PinSafely'
    BY <2>4, UserPins
  <2> QED BY <2>1, <2>2, <2>3, <2>4, NextCases, FullPins, QuickPins
<1>3. PinSafely => PinKept
  BY DEF PinSafely, PinSafe, PinKept
<1> QED BY <1>1, <1>2, <1>3, PTL

(* A review the user pinned stays pinned, in the state the user gave it,   *)
(* through every full sync, sync of marked rows, prune and notification,   *)
(* in any interleaving (prs.py:264), unless the user wrote it while a sync *)
(* held it.                                                                *)
THEOREM PinsSurvive ==
  ASSUME Bounds, NoneIsNoRow PROVE ReviewsSpec => []PinKept
BY PinsStay, PTL DEF ReviewsSpec

(* Nobody holds a removed review: no sync, and no request that would put   *)
(* it back under another name than the user's pin.                         *)
GoneSafe(u) ==
  /\ queue[u] = None /\ asks[u].asks = "nothing" /\ ~InSync(u)
  /\ ~(user.does = "flow" /\ user.url = u)
Gone == \A u \in out \ met : u \in Urls /\ GoneSafe(u)

(* The steps of a sync.                                                    *)
LEMMA SyncGone ==
  ASSUME Types, Gone, Bounds, NoneIsNoRow, FullStep \/ QuickStep PROVE Gone'
<1>0. /\ full \in Full /\ quick \in Quick /\ out \subseteq Urls /\ queue \in [Urls -> Review \cup {None}]
      /\ \A u \in Urls : queue[u] \in Review \cup {None}
  BY DEF Types, ReviewsTypeOK
<1>b. "manual" \in Sources
  BY DEF Sources
<1>c. UNCHANGED <<met, out, asks, user>>
  BY DEF FullStep, QuickStep, SearchOrFail, Search, PutRow, ListStale, EndFullSync, LookAt, Prune,
         ListMarked, PutMarked, ClearMark, SyncOnly
<1>d. SUFFICES ASSUME NEW w \in Urls, GoneSafe(w)
               PROVE  queue'[w] = None /\ ~InSync(w)'
  BY <1>c DEF Gone, GoneSafe
<1>e. /\ queue[w] = None /\ asks[w].asks = "nothing"
      /\ full.work[w] = None /\ (full.hold = None \/ full.hold.url # w)
      /\ w \notin full.drop \cup full.demote /\ quick.source[w] = None
  BY <1>d DEF GoneSafe, InSync
<1>1. CASE SearchOrFail
  <2>1. PICK req \in {Wanted("request"), {}}, mention \in {Wanted("mention"), {}},
             got \in SUBSET Urls : Search(req, mention, got)
    BY <1>1 DEF SearchOrFail
  <2>2. Found(req, mention, got)[w] = None
    BY <1>e DEF Found, Wanted
  <2>3. full'.work[w] = None /\ full'.hold = None /\ full'.drop = {} /\ full'.demote = {}
    BY <2>1, <2>2 DEF Search, NoFull
  <2> QED BY <1>e, <2>1, <2>3 DEF Search, InSync
<1>2. ASSUME NEW u \in Urls, LookAt(u)
      PROVE  queue'[w] = None /\ ~InSync(w)'
  <2>1. u # w
    BY <1>2, <1>e DEF LookAt
  <2>2. /\ full'.hold.url = u /\ full'.work = full.work
        /\ full'.drop = full.drop /\ full'.demote = full.demote
    BY <1>0, <1>2 DEF LookAt, Full
  <2> QED BY <1>2, <1>e, <2>1, <2>2 DEF LookAt, InSync
<1>3. CASE PutRow
  <2> DEFINE u == full.hold.url
  <2>1. /\ u \in Urls /\ full.hold.source \in Sources /\ full.work[u] \in Ver /\ u # w
        /\ queue' = Put(u, full.hold.source, full.work[u])
    BY <1>0, <1>3, <1>e DEF PutRow, Full, Held, Types, Busy
  <2>2. /\ full'.hold = None /\ full'.work[w] = None
        /\ full'.drop = full.drop /\ full'.demote = full.demote
    BY <1>0, <1>3, <1>e, <2>1 DEF PutRow, Full
  <2> HIDE DEF u
  <2>3. queue'[w] = queue[w]
    BY <2>1, PutKeeps
  <2> QED BY <1>3, <1>e, <2>2, <2>3 DEF PutRow, InSync
<1>4. CASE ListStale
  <2>1. w \notin Stale("github") \cup Stale("both")
    BY <1>e DEF Stale
  <2>2. /\ full'.hold = full.hold /\ full'.work = full.work
        /\ full'.drop = Stale("github") /\ full'.demote = Stale("both")
    BY <1>0, <1>4 DEF ListStale, Full
  <2> QED BY <1>4, <1>e, <2>1, <2>2 DEF ListStale, InSync
<1>5. ASSUME NEW u \in Urls, Prune(u)
      PROVE  queue'[w] = None /\ ~InSync(w)'
  <2>1. u # w
    BY <1>5, <1>e DEF Prune
  <2>2. /\ full'.hold = full.hold /\ full'.work = full.work
        /\ full'.drop \subseteq full.drop /\ full'.demote \subseteq full.demote
    BY <1>0, <1>5 DEF Prune, Full
  <2>3. queue'[w] = queue[w]
    BY <1>0, <1>5, <2>1 DEF Prune
  <2> QED BY <1>5, <1>e, <2>2, <2>3 DEF Prune, InSync
<1>6. CASE EndFullSync
  <2>1. full'.hold = None /\ full'.work[w] = None /\ full'.drop = {} /\ full'.demote = {}
    BY <1>6 DEF EndFullSync, NoFull
  <2>2. queue'[w] = None
    BY <1>6, <1>e, UnmarkedOK DEF EndFullSync, Types
  <2> QED BY <1>6, <1>e, <2>1, <2>2 DEF EndFullSync, InSync
<1>7. ASSUME NEW got \in SUBSET Urls, ListMarked(got)
      PROVE  queue'[w] = None /\ ~InSync(w)'
  <2>1. queue' = queue /\ full' = full /\ quick'.source[w] = None
    BY <1>7, <1>e DEF ListMarked, Marked, NoQuick
  <2> QED BY <1>e, <2>1 DEF InSync
<1>8. ASSUME NEW u \in Urls, PutMarked(u)
      PROVE  queue'[w] = None /\ ~InSync(w)'
  <2>1. /\ u # w /\ quick.source[u] \in Sources /\ quick.ver[u] \in Ver
        /\ queue' = Put(u, quick.source[u], quick.ver[u])
        /\ full' = full /\ quick'.source[w] = None
    BY <1>0, <1>8, <1>e DEF PutMarked, Quick
  <2>2. queue'[w] = queue[w]
    BY <2>1, PutKeeps
  <2> QED BY <1>e, <2>1, <2>2 DEF InSync
<1>9. CASE ClearMark
  <2>1. queue' = Unmarked({quick.clear}) /\ full' = full /\ quick'.source[w] = None
    BY <1>0, <1>9, <1>e DEF ClearMark, NoQuick, Quick
  <2>2. queue'[w] = None
    BY <1>e, <2>1, UnmarkedOK DEF Types
  <2> QED BY <1>e, <2>1, <2>2 DEF InSync
<1> QED BY <1>1, <1>2, <1>3, <1>4, <1>5, <1>6, <1>7, <1>8, <1>9 DEF FullStep, QuickStep

(* What the user does.                                                     *)
LEMMA UserGone ==
  ASSUME Types, Gone, Bounds, NoneIsNoRow, NEW u \in Urls,
         \/ PinLook(u) \/ Unwatch(u) \/ Mark(u) \/ RequestStep
         \/ (\E flow \in Flow : FlowLook(u, flow))
         \/ \E what \in {"nothing", "mention", "request"} : AskFor(u, what)
  PROVE  Gone'
<1>0. /\ queue \in [Urls -> Review \cup {None}] /\ asks \in [Urls -> Ask] /\ out \subseteq Urls
      /\ user \in Request /\ (user.does # "nothing" => user.url \in Urls)
      /\ \A w \in out \ met : GoneSafe(w)
  BY DEF Types, ReviewsTypeOK, UserHas, Gone
<1>b. Pinned \subseteq Sources
  BY DEF Pinned, Sources
<1>c. UNCHANGED <<full, quick>>
  BY DEF RequestStep, PinWrite, FlowWrite, PinLook, Unwatch, Mark, FlowLook, AskFor
<1>d. \A w : InSync(w) <=> InSync(w)'
  BY <1>c DEF InSync
<1>1. CASE PinLook(u)
  <2>1. user'.does = "pin" /\ UNCHANGED <<queue, asks, out, met>>
    BY <1>1 DEF PinLook, NoRequest
  <2> QED BY <1>d, <2>1 DEF Gone, GoneSafe
<1>2. ASSUME NEW flow \in Flow, FlowLook(u, flow)
      PROVE  Gone'
  <2>1. user'.url = u /\ queue[u] # None /\ UNCHANGED <<queue, asks, out, met>>
    BY <1>2 DEF FlowLook, NoRequest
  <2> QED BY <1>d, <2>1 DEF Gone, GoneSafe
<1>3. CASE Unwatch(u)
  <2> SUFFICES ASSUME NEW w \in out' \ met' PROVE w \in Urls /\ GoneSafe(w)'
    BY DEF Gone
  <2>1. CASE w = u /\ u \notin out
    <3>1. asks[u].asks = "nothing" /\ ~InSync(u) /\ user.url # u /\ queue'[u] = None
      BY <1>0, <1>3, <2>1 DEF Unwatch, Deleted
    <3> QED BY <1>3, <1>d, <2>1, <3>1 DEF Unwatch, GoneSafe
  <2>2. CASE w \in out
    <3>1. w \notin met /\ queue'[w] = None
      BY <1>0, <1>3, <2>2 DEF Unwatch, Deleted, GoneSafe
    <3> QED BY <1>0, <1>3, <1>d, <2>2, <3>1 DEF Unwatch, GoneSafe
  <2> QED BY <1>3, <2>1, <2>2 DEF Unwatch
<1>4. CASE Mark(u)
  <2>1. \A w \in out \ met : queue'[w] = None
    BY <1>0, <1>4 DEF Mark, GoneSafe
  <2> QED BY <1>4, <1>d, <2>1 DEF Mark, Gone, GoneSafe
<1>5. ASSUME NEW what \in {"nothing", "mention", "request"}, AskFor(u, what)
      PROVE  Gone'
  <2>1. out' \subseteq out /\ met' = met /\ (u \in out' => what = "nothing")
    BY <1>0, <1>5 DEF AskFor
  <2>2. \A w \in out' : w \in Urls /\ (asks[w].asks = "nothing" => asks'[w].asks = "nothing")
    BY <1>0, <1>5, <2>1 DEF AskFor
  <2> QED BY <1>5, <1>d, <2>1, <2>2 DEF AskFor, Gone, GoneSafe
<1>6. CASE PinWrite
  <2> DEFINE p == user.url
  <2>1. /\ p \in Urls /\ user.source \in Sources /\ user.ver \in Ver
        /\ queue' = Put(p, user.source, user.ver) /\ out' = out \ {p} /\ met \subseteq met'
        /\ asks' = asks /\ user'.does = "nothing"
    BY <1>0, <1>6, <1>b DEF PinWrite, Request, Meets, NoRequest
  <2> HIDE DEF p
  <2>2. \A w \in out' : w \in Urls /\ queue'[w] = queue[w]
    BY <1>0, <2>1, PutKeeps
  <2> QED BY <1>d, <2>1, <2>2 DEF Gone, GoneSafe
<1>7. CASE FlowWrite
  <2> DEFINE p == user.url
  <2>1. /\ p \in Urls /\ user.flow \in Flow /\ queue' = PutFlow(p, user.flow)
        /\ UNCHANGED <<asks, out, met>> /\ user'.does = "nothing"
    BY <1>0, <1>7 DEF FlowWrite, Request, NoRequest
  <2>2. p \notin out \ met
    BY <1>0, <1>7 DEF FlowWrite, GoneSafe
  <2> HIDE DEF p
  <2>3. \A w \in out \ met : w \in Urls /\ queue'[w] = queue[w]
    BY <1>0, <2>1, <2>2, PutFlowKeeps
  <2> QED BY <1>d, <2>1, <2>3 DEF Gone, GoneSafe
<1> QED BY <1>1, <1>2, <1>3, <1>4, <1>5, <1>6, <1>7 DEF RequestStep

(* So does what nobody holds.                                              *)
LEMMA RemovedGone ==
  ASSUME Bounds, NoneIsNoRow PROVE ReviewsInit /\ [][ReviewsNext]_rvars => []RemovedStaysOut
<1>1. ReviewsInit => Types /\ Gone
  <2>1. ReviewsInit => Gone
    BY DEF ReviewsInit, Gone
  <2> QED BY <2>1, InitTypes
<1>2. Types /\ Gone /\ [ReviewsNext]_rvars => (Types /\ Gone)'
  <2> SUFFICES ASSUME Types, Gone, [ReviewsNext]_rvars PROVE (Types /\ Gone)'
    OBVIOUS
  <2>1. Types'
    BY NextTypes
  <2>2. CASE UNCHANGED rvars
    BY <2>2, <2>1 DEF rvars, Gone, GoneSafe, InSync
  <2>3. CASE RequestStep
    <3>1. user.url \in Urls
      BY <2>3 DEF RequestStep, PinWrite, FlowWrite, Types, UserHas
    <3> QED BY <2>1, <2>3, <3>1, UserGone
  <2>4. ASSUME NEW u \in Urls,
               \/ PinLook(u) \/ Unwatch(u) \/ Mark(u)
               \/ (\E flow \in Flow : FlowLook(u, flow))
               \/ \E what \in {"nothing", "mention", "request"} : AskFor(u, what)
        PROVE  Gone'
    BY <2>4, UserGone
  <2> QED BY <2>1, <2>2, <2>3, <2>4, NextCases, SyncGone
<1>3. Gone => RemovedStaysOut
  BY DEF Gone, GoneSafe, RemovedStaysOut
<1> QED BY <1>1, <1>2, <1>3, PTL

(* A review the user removed, and GitHub does not ask for, is not put back *)
(* by a full sync, a sync of marked rows or a change of its state          *)
(* (prs.py:289, :488, :591), unless one of them held it when it went.       *)
THEOREM RemovedStayOut ==
  ASSUME Bounds, NoneIsNoRow PROVE ReviewsSpec => []RemovedStaysOut
BY RemovedGone, PTL DEF ReviewsSpec
=============================================================================

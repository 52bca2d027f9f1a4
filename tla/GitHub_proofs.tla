---------------------------- MODULE GitHub_proofs ----------------------------
(***************************************************************************)
(* What holds of the cache of pull requests for any number of PRs, rows,   *)
(* tasks and events; Reviews_proofs speaks of the review queue.            *)
(***************************************************************************)
EXTENDS GitHub, Reviews_proofs, NaturalsInduction, WellFoundedInduction

-----------------------------------------------------------------------------
(* The first row of a PR.                                                  *)

(* A set of row ids that is not empty has a least one, and only one.       *)
LEMMA LeastRow ==
  ASSUME NEW S \in SUBSET Rows, S # {}
  PROVE  LET m == CHOOSE r \in S : \A s \in S : r <= s
         IN  m \in S /\ (\A s \in S : m <= s) /\ \A r \in S : (\A s \in S : r <= s) => r = m
<1> DEFINE Less == {ss \in Nat \X Nat : ss[1] < ss[2]}
<1>0. S \subseteq Nat
  BY RowsAssumption
<1>1. IsWellFoundedOn(Less, Nat)
  BY NatLessThanWellFounded DEF OpToRel, Less
<1>2. \A m, n \in Nat : m < n => <<m, n>> \in Less
  BY DEF Less
<1> HIDE DEF Less
<1>3. PICK n \in S : \A m \in S : ~ (<<m, n>> \in Less)
  BY <1>0, <1>1, WFMin
<1>4. ASSUME NEW m \in S PROVE n <= m
  <2>1. m \in Nat /\ n \in Nat
    BY <1>0
  <2>2. ~ (m < n)
    BY <1>2, <1>3, <2>1
  <2> QED BY <2>1, <2>2
<1> DEFINE least == CHOOSE r \in S : \A s \in S : r <= s
<1>5. least \in S /\ \A s \in S : least <= s
  BY <1>3, <1>4
<1> HIDE DEF least
<1>6. ASSUME NEW r \in S, \A s \in S : r <= s
      PROVE  r = least
  <2>1. r \in Nat /\ least \in Nat /\ r <= least /\ least <= r
    BY <1>0, <1>5, <1>6
  <2> QED BY <2>1
<1> QED BY <1>5, <1>6 DEF least

(* What find_pr_by_number returns of a PR that has a row.                  *)
LEMMA FirstOK ==
  ASSUME NEW p \in Prs
  PROVE  /\ Known(p) => /\ FirstRow(p) \in PrRows(p) /\ First(p) = prs[FirstRow(p)]
                        /\ \A s \in PrRows(p) : FirstRow(p) <= s
         /\ ~Known(p) => FirstRow(p) = None /\ First(p) = NoRow
         /\ Known(p) <=> PrRows(p) # {}
         /\ Known(p) <=> FirstRow(p) # None
<1>0. PrRows(p) \in SUBSET Rows /\ None \notin PrRows(p)
  BY NoneAssumption DEF PrRows
<1>1. CASE Known(p)
  BY <1>0, <1>1, LeastRow DEF Known, FirstRow, First
<1>2. CASE ~Known(p)
  BY <1>2 DEF Known, FirstRow, First
<1> QED BY <1>1, <1>2 DEF Known

(* The same after a step.                                                  *)
LEMMA FirstNextOK ==
  ASSUME NEW p \in Prs
  PROVE  /\ Known(p)' => /\ FirstRow(p)' \in PrRows(p)' /\ First(p)' = prs'[FirstRow(p)']
                         /\ \A s \in PrRows(p)' : FirstRow(p)' <= s
         /\ ~Known(p)' => FirstRow(p)' = None /\ First(p)' = NoRow
         /\ Known(p)' <=> PrRows(p)' # {}
         /\ Known(p)' <=> FirstRow(p)' # None
<1>0. PrRows(p)' \in SUBSET Rows /\ None \notin PrRows(p)'
  BY NoneAssumption DEF PrRows
<1>1. CASE Known(p)'
  BY <1>0, <1>1, LeastRow DEF Known, FirstRow, First
<1>2. CASE ~Known(p)'
  BY <1>2 DEF Known, FirstRow, First
<1> QED BY <1>1, <1>2 DEF Known

(* The first row stays the first while no row of its PR comes or goes, or  *)
(* a new one comes last.                                                   *)
LEMMA FirstStays ==
  ASSUME NEW p \in Prs, Known(p), FirstRow(p) \in PrRows(p)',
         \A s \in PrRows(p)' : s \in PrRows(p) \/ FirstRow(p) <= s
  PROVE  FirstRow(p)' = FirstRow(p) /\ Known(p)'
<1>1. \A s \in PrRows(p)' : FirstRow(p) <= s
  BY FirstOK
<1>2. PrRows(p)' \in SUBSET Rows
  BY DEF PrRows
<1> QED BY <1>1, <1>2, LeastRow DEF FirstRow, Known

(* What is read of the first row has its type.                             *)
LEMMA FirstTyped ==
  ASSUME PullsTypeOK, NEW p \in Prs
  PROVE  /\ FirstRow(p) \in Rows \cup {None}
         /\ First(p) \in PrRow \cup {NoRow}
         /\ First(p).status \in {"none", "open"} \cup Ends /\ First(p).ver \in 0 .. MaxEvents
         /\ First(p).stamp \in Stamp
         /\ (First(p).status = "none" <=> ~Known(p))
         /\ Owner(FirstRow(p)) \in Tasks \cup {None}
<1>1. CASE Known(p)
  <2>1. FirstRow(p) \in Rows /\ prs[FirstRow(p)] \in PrRow /\ First(p) = prs[FirstRow(p)]
    BY <1>1, FirstOK DEF PrRows, PullsTypeOK
  <2> QED BY <1>1, <2>1, RowsAssumption DEF PrRow, Ends, Owner
<1>2. CASE ~Known(p)
  BY <1>2, FirstOK, EventsAssumption DEF NoRow, Unset, Stamp, Owner
<1> QED BY <1>1, <1>2

-----------------------------------------------------------------------------
(* Writes to the table.                                                    *)

(* An update writes the rows of its PR and no other, and the first of them *)
(* says afterwards what was to be written.                                 *)
LEMMA UpdatedOK ==
  ASSUME PullsTypeOK, NEW p \in Prs, NEW status \in {"open"} \cup Ends,
         NEW ver \in 0 .. MaxEvents, NEW stamp \in Stamp
  PROVE  /\ Updated(p, status, ver, stamp) \in [Rows -> PrRow \cup {None}]
         /\ \A r \in Rows : r \notin PrRows(p) => Updated(p, status, ver, stamp)[r] = prs[r]
         /\ \A r \in PrRows(p) : Updated(p, status, ver, stamp)[r] \in PrRow
         /\ Known(p) =>
              LET row == Updated(p, status, ver, stamp)[FirstRow(p)] IN
              row.status = status /\ row.ver = ver /\ row.stamp = NewStamp(p, status, stamp)
<1> DEFINE s == NewStamp(p, status, stamp)
           d(r) == [prs[r] EXCEPT !.status = IF First(p).status # status THEN status ELSE @,
                                  !.ver    = IF First(p).ver # ver THEN ver ELSE @,
                                  !.stamp  = IF First(p).stamp # s THEN s ELSE @]
           U == Updated(p, status, ver, stamp)
<1>1. s \in Stamp
  BY FirstTyped, EventsAssumption DEF NewStamp, Stamp, Now
<1>2. U = [r \in Rows |-> IF r \notin PrRows(p) THEN prs[r] ELSE d(r)]
  BY Zenon DEF Updated
<1>3. \A r \in PrRows(p) : r \in Rows /\ prs[r] \in PrRow
  BY DEF PrRows, PullsTypeOK
<1>4. ASSUME NEW r \in PrRows(p)
      PROVE  /\ d(r) \in PrRow
             /\ d(r).status = (IF First(p).status # status THEN status ELSE prs[r].status)
             /\ d(r).ver = (IF First(p).ver # ver THEN ver ELSE prs[r].ver)
             /\ d(r).stamp = (IF First(p).stamp # s THEN s ELSE prs[r].stamp)
  <2> HIDE DEF s
  <2> QED BY <1>1, <1>3 DEF PrRow
<1>5. Known(p) => FirstRow(p) \in PrRows(p) /\ First(p) = prs[FirstRow(p)]
  BY FirstOK
<1> HIDE DEF d, s
<1>6. \A r \in Rows : prs[r] \in PrRow \cup {None}
  BY DEF PullsTypeOK
<1>7. U \in [Rows -> PrRow \cup {None}] /\ (\A r \in Rows : r \notin PrRows(p) => U[r] = prs[r])
      /\ \A r \in PrRows(p) : U[r] = d(r)
  BY <1>2, <1>3, <1>4, <1>6
<1> HIDE DEF U
<1>8. Known(p) => U[FirstRow(p)].status = status /\ U[FirstRow(p)].ver = ver
                  /\ U[FirstRow(p)].stamp = s
  BY <1>4, <1>5, <1>7
<1> QED BY <1>4, <1>7, <1>8 DEF U, s

(* Marking leaves all but the marks.                                       *)
LEMMA MarkOK ==
  ASSUME PullsTypeOK, NEW p \in Prs, NEW b \in BOOLEAN
  PROVE  /\ WithMark(p, b) \in [Rows -> PrRow \cup {None}]
         /\ \A r \in Rows : prs[r] = None => WithMark(p, b)[r] = None
         /\ \A r \in Rows : prs[r] # None =>
              /\ WithMark(p, b)[r] \in PrRow
              /\ WithMark(p, b)[r].status = prs[r].status /\ WithMark(p, b)[r].ver = prs[r].ver
              /\ WithMark(p, b)[r].stamp = prs[r].stamp
<1> DEFINE d(r) == [prs[r] EXCEPT !.dirty = b]
           W == WithMark(p, b)
<1>1. W = [r \in Rows |-> IF r \in PrRows(p) THEN d(r) ELSE prs[r]]
  BY Zenon DEF WithMark
<1>2. \A r \in Rows : prs[r] \in PrRow \cup {None}
  BY DEF PullsTypeOK
<1>3. \A r \in PrRows(p) : r \in Rows /\ prs[r] \in PrRow
  BY DEF PrRows, PullsTypeOK
<1>4. ASSUME NEW r \in Rows, prs[r] \in PrRow
      PROVE  /\ d(r) \in PrRow /\ d(r).status = prs[r].status /\ d(r).ver = prs[r].ver
             /\ d(r).stamp = prs[r].stamp
  BY <1>4 DEF PrRow
<1>5. \A r \in Rows : prs[r] = None => r \notin PrRows(p)
  BY DEF PrRows
<1> HIDE DEF d
<1> QED BY <1>1, <1>2, <1>3, <1>4, <1>5

(* A row that is inserted is new, and says no more than its status.        *)
LEMMA InsertedOK ==
  ASSUME PullsTypeOK, NEW r \in Rows, NEW status \in {"open"} \cup Ends
  PROVE  /\ Inserted(r, status) \in [Rows -> PrRow \cup {None}]
         /\ \A s \in Rows : prs[s] # None => Inserted(r, status)[s] = prs[s]
         /\ \A s \in Rows : s # r => Inserted(r, status)[s] = prs[s]
         /\ prs[r] = None => Inserted(r, status)[r] = NewRowOf(status)
         /\ NewRowOf(status) \in PrRow /\ NewRowOf(status).status = status
         /\ NewRowOf(status).stamp = Unset /\ NewRowOf(status).ver = 0
<1>1. /\ NewRowOf(status) \in PrRow /\ NewRowOf(status).status = status
      /\ NewRowOf(status).stamp = Unset /\ NewRowOf(status).ver = 0
  <2>1. 0 \in 0 .. MaxEvents /\ 0 \in Stamp
    BY EventsAssumption DEF Stamp
  <2>2. /\ NoRow \in [status : {"none"}, ver : 0 .. MaxEvents, stamp : Stamp, dirty : BOOLEAN]
        /\ NoRow.stamp = Unset /\ NoRow.ver = 0
    BY <2>1 DEF NoRow, Unset
  <2> QED BY <2>2 DEF NewRowOf, PrRow
<1> QED BY <1>1 DEF Inserted, PullsTypeOK

-----------------------------------------------------------------------------
(* Types.                                                                  *)

(* What a refresh is about to write of a PR.                               *)
LEMMA PreparedOK ==
  ASSUME PullsTypeOK, NEW p \in Prs, NEW item \in Pr, NEW status \in Resolved(item.state)
  PROVE  /\ Prepared(p, item, status) \in Hand
         /\ [Prepared(p, item, status) EXCEPT !.stamp = Unset] \in Hand
<1>1. status \in {"open"} \cup Ends
  BY DEF Resolved, Pr, Ends
<1>2. item.ver \in 0 .. MaxEvents /\ item.ended \in Stamp /\ Unset \in Stamp
  BY EventsAssumption DEF Pr, Stamp, Unset
<1>3. (IF item.ended # 0 /\ First(p).stamp = Unset THEN item.ended ELSE Unset) \in Stamp
  BY <1>2
<1> DEFINE stamp == IF item.ended # 0 /\ First(p).stamp = Unset THEN item.ended ELSE Unset
<1>4. Prepared(p, item, status) =
        [pr |-> p, row |-> FirstRow(p), prev |-> First(p).status, status |-> status,
         ver |-> item.ver, stamp |-> stamp, wrote |-> FALSE]
  BY DEF Prepared
<1>5. stamp \in Stamp
  BY <1>3
<1> HIDE DEF stamp
<1>6. FirstRow(p) \in Rows \cup {None} /\ First(p).status \in {"none", "open"} \cup Ends
  BY FirstTyped
<1>7. Prepared(p, item, status) \in Hand
  BY <1>1, <1>2, <1>4, <1>5, <1>6 DEF Hand
<1>8. \A h \in Hand : [h EXCEPT !.stamp = Unset] \in Hand
  BY <1>2 DEF Hand
<1> QED BY <1>7, <1>8

(* The idle job, the job of a request for one PR, the job of a batch.      *)
LEMMA NoJobOK ==
  /\ NoJob \in Job /\ NoJob.pc = "idle" /\ NoJob.hand = None /\ NoJob.ok = {}
  /\ \A p \in Prs : NoJob.items[p] = None
<1>1. [p \in Prs |-> None] \in [Prs -> Pr \cup {None}]
  OBVIOUS
<1> DEFINE none == [p \in Prs |-> None]
<1>2. NoJob = [pc |-> "idle", items |-> none, hand |-> None, ok |-> {}]
  BY DEF NoJob
<1>3. none \in [Prs -> Pr \cup {None}]
  BY <1>1
<1> HIDE DEF none
<1>4. NoJob \in Job /\ NoJob.pc = "idle" /\ NoJob.hand = None /\ NoJob.ok = {} /\ NoJob.items = none
  BY <1>2, <1>3 DEF Job
<1>5. \A p \in Prs : none[p] = None
  BY DEF none
<1> QED BY <1>4, <1>5

LEMMA HoldingOK ==
  ASSUME NEW pc \in {"user", "view", "found"}, NEW h \in Hand
  PROVE  /\ Holding(pc, h) \in Job /\ Holding(pc, h).pc = pc /\ Holding(pc, h).hand = h
         /\ \A p \in Prs : Holding(pc, h).items[p] = None
BY NoJobOK DEF Job, Holding

LEMMA BatchOK ==
  ASSUME NEW pc \in {"busy", "every"}, NEW got \in SUBSET Prs, NEW ok \in SUBSET Prs,
         github \in [Prs -> Pr]
  PROVE  /\ Batch(pc, Answer(got), ok) \in Job /\ Batch(pc, Answer(got), ok).pc = pc
         /\ Batch(pc, Answer(got), ok).hand = None
         /\ \A p \in Prs : Batch(pc, Answer(got), ok).items[p] = None
                           \/ Batch(pc, Answer(got), ok).items[p] = github[p]
<1>1. Answer(got) \in [Prs -> Pr \cup {None}]
  BY DEF Answer
<1>2. \A p \in Prs : Answer(got)[p] = None \/ Answer(got)[p] = github[p]
  BY DEF Answer
<1>3. /\ Batch(pc, Answer(got), ok) \in Job /\ Batch(pc, Answer(got), ok).pc = pc
      /\ Batch(pc, Answer(got), ok).hand = None /\ Batch(pc, Answer(got), ok).items = Answer(got)
  BY <1>1, NoJobOK DEF Job, Batch
<1> QED BY <1>2, <1>3

(* Excused PRs are PRs, and nothing counts for them.                       *)
LEMMA ExcuseOK ==
  ASSUME PullsTypeOK, NEW P \in SUBSET Prs, Excuse(P)
  PROVE  /\ odd' = odd \cup P /\ odd' \subseteq Prs /\ told' \in [Prs -> [Ends -> Nat]]
         /\ \A p \in Prs \ P : told'[p] = told[p]
<1>1. Untold \in [Ends -> Nat]
  BY DEF Untold
<1> QED BY <1>1 DEF Excuse, PullsTypeOK

(* A task that is promoted is a task.                                      *)
LEMMA PromotedOK ==
  ASSUME over \subseteq Tasks, NEW t \in Tasks \cup {None}, NEW table
  PROVE  Promoted(t, table) \subseteq Tasks /\ over \subseteq Promoted(t, table)
BY DEF Promoted

(* What happens outside the jobs keeps the types:                          *)
LEMMA OutsideTypes ==
  ASSUME PullsTypeOK, NEW p \in Prs, NEW m \in Messages,
         Edit(p) \/ Poll(p) \/ MarkDirty(p, m) \/ WriteSaid(p, m) \/ RefreshFails(p)
  PROVE  PullsTypeOK'
<1>0. /\ github \in [Prs -> Pr] /\ notes \in [Prs -> SUBSET Listener] /\ over \subseteq Tasks
      /\ edits \in Nat /\ extras \in Nat /\ edits \in 0 .. MaxEvents
  BY EventsAssumption DEF PullsTypeOK
<1>1. CASE Edit(p)
  <2>1. edits' \in 0 .. MaxEvents /\ edits' = edits + 1 /\ 0 \in 0 .. MaxEvents
    BY <1>0, <1>1, EventsAssumption DEF Edit, Bounded
  <2>2. PICK st \in {"open", "closed", "landed", "merged"} :
          github' = [github EXCEPT ![p] =
            [state |-> st, ver |-> edits + 1,
             ended |-> IF st = "open" THEN 0
                       ELSE IF @.ended # 0 /\ st = @.state THEN @.ended ELSE edits + 1]]
    BY <1>1 DEF Edit
  <2>3. github' \in [Prs -> Pr]
    BY <1>0, <2>1, <2>2 DEF Pr
  <2> QED BY <1>1, <2>1, <2>3 DEF Edit, PullsTypeOK
<1>2. CASE Poll(p)
  <2>1. PICK l \in Messages :
          notes' = [notes EXCEPT ![p] = @ \cup
            {[does |-> "mark", says |-> IF l = "merged" THEN l ELSE "other"]} \cup
            {[does |-> "status", says |-> n] : n \in {l} \ {"other"}}]
    BY <1>2 DEF Poll
  <2>2. [does |-> "mark", says |-> IF l = "merged" THEN l ELSE "other"] \in Listener
    BY DEF Listener
  <2>3. {[does |-> "status", says |-> n] : n \in {l} \ {"other"}} \subseteq Listener
    BY DEF Listener
  <2>4. notes' \in [Prs -> SUBSET Listener]
    BY <1>0, <2>1, <2>2, <2>3
  <2> QED BY <1>2, <2>4 DEF Poll, PullsTypeOK
<1>3. CASE MarkDirty(p, m)
  <2>1. prs' \in [Rows -> PrRow \cup {None}]
    BY <1>3, MarkOK DEF MarkDirty
  <2>2. over' \subseteq Tasks
    BY <1>0, <1>3, FirstTyped, PromotedOK DEF MarkDirty
  <2>3. notes' \in [Prs -> SUBSET Listener]
    BY <1>0, <1>3 DEF MarkDirty
  <2> QED BY <1>3, <2>1, <2>2, <2>3 DEF MarkDirty, PullsTypeOK
<1>4. CASE WriteSaid(p, m)
  <2>1. notes' \in [Prs -> SUBSET Listener]
    BY <1>0, <1>4 DEF WriteSaid
  <2>2. m # "other"
    BY <1>0, <1>4 DEF WriteSaid, Listener
  <2>3. Said(p, m) \subseteq {"open"} \cup Ends
    BY <2>2 DEF Said, Messages, Resolved, Ends
  <2>4. PICK status \in Said(p, m) : prs' = Updated(p, status, First(p).ver, Unset)
    BY <1>4 DEF WriteSaid
  <2>5. Unset \in Stamp
    BY EventsAssumption DEF Unset, Stamp
  <2>6. prs' \in [Rows -> PrRow \cup {None}]
    BY <2>3, <2>4, <2>5, FirstTyped, UpdatedOK
  <2> QED BY <1>4, <2>1, <2>6, ExcuseOK DEF WriteSaid, PullsTypeOK
<1>5. CASE RefreshFails(p)
  <2>1. prs' \in [Rows -> PrRow \cup {None}]
    BY <1>5, MarkOK DEF RefreshFails
  <2>2. extras' \in 0 .. MaxEvents
    BY <1>0, <1>5, EventsAssumption DEF RefreshFails, Extra, Bounded
  <2> QED BY <1>5, <2>1, <2>2 DEF RefreshFails, PullsTypeOK
<1> QED BY <1>1, <1>2, <1>3, <1>4, <1>5

(* the requests of the user,                                               *)
LEMMA RequestTypes ==
  ASSUME PullsTypeOK, NEW p \in Prs, NEW got \in SUBSET Prs,
         \/ Refresh(p) \/ SyncStream(p) \/ SyncAllPrs(p) \/ Ingest(p)
         \/ SyncMarked(got) \/ SyncEvery(got)
  PROVE  PullsTypeOK'
<1>0. /\ github \in [Prs -> Pr] /\ jobs \in [Kinds -> Job] /\ "dirty" \in Kinds
      /\ edits \in Nat /\ extras \in Nat
  BY EventsAssumption DEF PullsTypeOK, Kinds
<1>1. Extra => extras' \in 0 .. MaxEvents
  BY <1>0, EventsAssumption DEF Extra, Bounded
<1>2. ASSUME NEW who \in {"user", "view"}, NEW timed \in BOOLEAN, ReadNow(p, who, timed)
      PROVE  PullsTypeOK'
  <2>1. PICK status \in Resolved(github[p].state) :
          jobs' = [jobs EXCEPT !["dirty"] = Holding(who,
                    IF timed THEN Prepared(p, github[p], status)
                    ELSE [Prepared(p, github[p], status) EXCEPT !.stamp = Unset])]
    BY <1>2 DEF ReadNow
  <2>2. (IF timed THEN Prepared(p, github[p], status)
         ELSE [Prepared(p, github[p], status) EXCEPT !.stamp = Unset]) \in Hand
    BY <1>0, PreparedOK
  <2>3. jobs' \in [Kinds -> Job]
    BY <1>0, <2>1, <2>2, HoldingOK
  <2>4. {p} \in SUBSET Prs
    OBVIOUS
  <2>5. odd' \subseteq Prs /\ told' \in [Prs -> [Ends -> Nat]]
    BY <1>2, <2>4, ExcuseOK DEF ReadNow
  <2> QED BY <1>1, <1>2, <2>3, <2>5 DEF ReadNow, PullsTypeOK
<1>3. CASE Ingest(p)
  <2>1. PICK status \in Resolved(github[p].state) :
          jobs' = [jobs EXCEPT !["dirty"] = Holding("found", Prepared(p, github[p], status))]
    BY <1>3 DEF Ingest
  <2>2. Prepared(p, github[p], status) \in Hand
    BY <1>0, PreparedOK
  <2>3. jobs' \in [Kinds -> Job]
    BY <1>0, <2>1, <2>2, HoldingOK
  <2> QED BY <1>1, <1>3, <2>3 DEF Ingest, PullsTypeOK
<1>4. CASE SyncMarked(got)
  <2>1. Listed("dirty") \ got \in SUBSET Prs
    BY DEF Listed
  <2>2. jobs' \in [Kinds -> Job]
    BY <1>0, <1>4, <2>1, BatchOK DEF SyncMarked
  <2> QED BY <1>1, <1>4, <2>2 DEF SyncMarked, PullsTypeOK
<1>5. CASE SyncEvery(got)
  <2>1. jobs' \in [Kinds -> Job]
    BY <1>0, <1>5, BatchOK DEF SyncEvery
  <2> QED BY <1>1, <1>5, <2>1 DEF SyncEvery, PullsTypeOK
<1> QED BY <1>2, <1>3, <1>4, <1>5 DEF Refresh, SyncStream, SyncAllPrs

(* the jobs,                                                               *)
LEMMA JobTypes ==
  ASSUME PullsTypeOK, NEW j \in Kinds, JobStep(j),
         jobs["dirty"].pc = "found" => jobs["dirty"].hand # None
  PROVE  PullsTypeOK'
<1>0. /\ github \in [Prs -> Pr] /\ jobs \in [Kinds -> Job] /\ jobs[j] \in Job
      /\ over \subseteq Tasks /\ told \in [Prs -> [Ends -> Nat]]
      /\ \A h \in Hand : h # None
  BY NoneAssumption DEF PullsTypeOK
<1>a. \A b \in Job : /\ b.items \in [Prs -> Pr \cup {None}] /\ b.ok \in SUBSET Prs
                     /\ b.hand \in Hand \cup {None}
  BY DEF Job
<1>b. \A b \in Job : [jobs EXCEPT ![j] = b] \in [Kinds -> Job]
  BY <1>0
<1>1. ASSUME NEW got \in SUBSET Prs, Fetch(j, got)
      PROVE  PullsTypeOK'
  BY <1>0, <1>b, <1>1, BatchOK DEF Fetch, PullsTypeOK
<1>2. ASSUME NEW p \in Prs, Take(j, p)
      PROVE  PullsTypeOK'
  <2>1. PICK status \in Resolved(jobs[j].items[p].state) :
          jobs' = [jobs EXCEPT ![j].items[p] = None, ![j].hand = Prepared(p, jobs[j].items[p], status)]
    BY <1>2 DEF Take
  <2> DEFINE h == Prepared(p, jobs[j].items[p], status)
             b == [jobs[j] EXCEPT !.items[p] = None, !.hand = h]
  <2>2. jobs[j].items[p] \in Pr
    BY <1>0, <1>a, <1>2 DEF Take
  <2>3. h \in Hand
    BY <2>2, PreparedOK
  <2>4. jobs' = [jobs EXCEPT ![j] = b]
    BY <1>0, <2>1
  <2> HIDE DEF h
  <2>5. b \in Job
    BY <1>0, <2>3 DEF Job
  <2> HIDE DEF b
  <2> QED BY <1>b, <1>2, <2>4, <2>5, ExcuseOK DEF Take, PullsTypeOK
<1>3. ASSUME NEW p \in Prs, Clear(j, p)
      PROVE  PullsTypeOK'
  <2> DEFINE b == IF jobs[j].ok = {p} THEN NoJob ELSE [jobs[j] EXCEPT !.ok = @ \ {p}]
  <2>1. jobs' = [jobs EXCEPT ![j] = b]
    BY <1>0, <1>3 DEF Clear
  <2>4. [jobs[j] EXCEPT !.ok = @ \ {p}] \in Job
    BY <1>0 DEF Job
  <2>2. b \in Job
    BY <2>4, NoJobOK
  <2> HIDE DEF b
  <2>3. prs' \in [Rows -> PrRow \cup {None}]
    BY <1>3, MarkOK DEF Clear
  <2> QED BY <1>b, <1>3, <2>1, <2>2, <2>3 DEF Clear, PullsTypeOK
<1>4. CASE Write(j)
  <2> DEFINE h == jobs[j].hand
             w == [h EXCEPT !.wrote = TRUE, !.ver = 0, !.stamp = Unset]
             b == [jobs[j] EXCEPT !.hand = w]
  <2>1. h \in Hand
    BY <1>0, <1>a, <1>4 DEF Write
  <2>2. 0 \in 0 .. MaxEvents /\ Unset \in Stamp
    BY EventsAssumption DEF Unset, Stamp
  <2>3. h.pr \in Prs /\ w \in Hand
    BY <2>1, <2>2 DEF Hand
  <2>4. jobs' = [jobs EXCEPT ![j] = b]
    BY <1>0, <1>4 DEF Write
  <2>5. prs' \in [Rows -> PrRow \cup {None}]
    <3>1. h.status \in {"open"} \cup Ends /\ h.ver \in 0 .. MaxEvents /\ h.stamp \in Stamp
      BY <2>1 DEF Hand
    <3> QED BY <1>4, <2>3, <3>1, UpdatedOK DEF Write
  <2>6. told' \in [Prs -> [Ends -> Nat]]
    BY <1>0, <1>4, <2>3 DEF Write, Untold
  <2> HIDE DEF w
  <2>7. b \in Job
    BY <1>0, <2>3 DEF Job
  <2> HIDE DEF b
  <2> QED BY <1>b, <1>4, <2>4, <2>5, <2>6, <2>7 DEF Write, PullsTypeOK
<1>5. CASE Follow(j)
  <2> DEFINE h == jobs[j].hand
             b == IF jobs[j].pc = "view" THEN NoJob
                  ELSE [jobs[j] EXCEPT !.hand = None,
                                       !.ok = IF jobs[j].pc = "every" THEN @ ELSE @ \cup {h.pr}]
             t == Owner(IF h.row = None THEN FirstRow(h.pr) ELSE h.row)
  <2>1. h \in Hand /\ h.pr \in Prs /\ h.row \in Rows \cup {None}
    BY <1>0, <1>a, <1>5 DEF Follow, Hand
  <2>2. jobs' = [jobs EXCEPT ![j] = b]
    BY <1>0, <1>5 DEF Follow
  <2> DEFINE ok == IF jobs[j].pc = "every" THEN jobs[j].ok ELSE jobs[j].ok \cup {h.pr}
  <2>8. ok \in SUBSET Prs
    BY <1>0, <1>a, <2>1
  <2>9. b = IF jobs[j].pc = "view" THEN NoJob ELSE [jobs[j] EXCEPT !.hand = None, !.ok = ok]
    BY <1>0 DEF Job
  <2> HIDE DEF b, ok
  <2>3. b \in Job
    <3>1. [jobs[j] EXCEPT !.hand = None, !.ok = ok] \in Job
      BY <1>0, <2>8 DEF Job
    <3> QED BY <2>9, <3>1, NoJobOK
  <2>4. t \in Tasks \cup {None}
    BY <2>1, FirstTyped, RowsAssumption DEF Owner
  <2> HIDE DEF b, t
  <2>5. over' \subseteq Tasks
    BY <1>0, <1>5, <2>4, PromotedOK DEF Follow, t
  <2>6. told' = told \/ told' = [told EXCEPT ![h.pr][h.status] = @ + 1]
    BY <1>5 DEF Follow
  <2>7. told' \in [Prs -> [Ends -> Nat]]
    <3>1. \A e \in Ends : [told[h.pr] EXCEPT ![e] = @ + 1] \in [Ends -> Nat]
      BY <1>0, <2>1
    <3>2. CASE h.status \in Ends
      <4>1. told' = told \/ told' = [told EXCEPT ![h.pr] = [told[h.pr] EXCEPT ![h.status] = @ + 1]]
        BY <2>6
      <4> QED BY <1>0, <2>1, <3>1, <3>2, <4>1
    <3>3. CASE h.status \notin Ends
      <4>1. told' = told
        BY <1>5, <3>3 DEF Follow, Tells, Ends
      <4> QED BY <1>0, <4>1
    <3> QED BY <3>2, <3>3
  <2> QED BY <1>b, <1>5, <2>2, <2>3, <2>5, <2>7 DEF Follow, PullsTypeOK
<1>6. CASE EndFull(j)
  BY <1>b, <1>6, NoJobOK DEF EndFull, PullsTypeOK
<1>7. CASE j = "dirty" /\ IngestInsert
  <2> DEFINE h == jobs["dirty"].hand
  <2>1. PICK r \in Matches(h.pr) : prs' = Inserted(r, h.status)
    BY <1>7 DEF IngestInsert
  <2>2. h \in Hand
    BY <1>0, <1>7, <1>a DEF IngestInsert
  <2> HIDE DEF h
  <2>3. h.status \in {"open"} \cup Ends /\ r \in Rows /\ h.pr \in Prs
    BY <2>2 DEF Hand, Matches
  <2>4. prs' \in [Rows -> PrRow \cup {None}]
    BY <2>1, <2>3, InsertedOK
  <2>5. jobs' \in [Kinds -> Job]
    BY <1>b, <1>7, NoJobOK DEF IngestInsert
  <2>6. EndedOrHeld("dirty", h.pr, h.status) \in SUBSET Prs
    BY <2>3 DEF EndedOrHeld
  <2>7. odd' \subseteq Prs /\ told' \in [Prs -> [Ends -> Nat]]
    BY <1>7, <2>6, ExcuseOK DEF IngestInsert, h
  <2> QED BY <1>7, <2>4, <2>5, <2>7 DEF IngestInsert, PullsTypeOK
<1> QED BY <1>1, <1>2, <1>3, <1>4, <1>5, <1>6, <1>7 DEF JobStep

(* and the rest of the user's acts, and a restart.                         *)
LEMMA UseTypes ==
  ASSUME PullsTypeOK,
         \/ \E r \in Rows : RemovePr(r) \/ \E status \in {"open"} \cup Ends : LinkPr(r, status)
         \/ Restart
  PROVE  PullsTypeOK'
<1>0. /\ jobs \in [Kinds -> Job] /\ prs \in [Rows -> PrRow \cup {None}] /\ over \subseteq Tasks
      /\ told \in [Prs -> [Ends -> Nat]] /\ odd \subseteq Prs
      /\ edits \in Nat /\ extras \in Nat
  BY EventsAssumption DEF PullsTypeOK
<1>1. Extra => extras' \in 0 .. MaxEvents
  BY <1>0, EventsAssumption DEF Extra, Bounded
<1>2. ASSUME NEW r \in Rows, NEW status \in {"open"} \cup Ends, LinkPr(r, status)
      PROVE  PullsTypeOK'
  <2>1. TaskOf[r] \in Tasks \cup {None} /\ PrOf[r] \in Prs
    BY RowsAssumption
  <2>2. prs' \in [Rows -> PrRow \cup {None}]
    BY <1>2, InsertedOK DEF LinkPr
  <2>3. over' \subseteq Tasks
    BY <1>0, <1>2, <2>1, PromotedOK DEF LinkPr
  <2>4. EndedOrHeld("user", PrOf[r], status) \in SUBSET Prs
    BY <2>1 DEF EndedOrHeld
  <2>5. odd' \subseteq Prs /\ told' \in [Prs -> [Ends -> Nat]]
    BY <1>2, <2>4, ExcuseOK DEF LinkPr
  <2> QED BY <1>1, <1>2, <2>2, <2>3, <2>5 DEF LinkPr, PullsTypeOK
<1>3. ASSUME NEW r \in Rows, RemovePr(r)
      PROVE  PullsTypeOK'
  <2>1. PrOf[r] \in Prs /\ Untold \in [Ends -> Nat]
    BY RowsAssumption DEF Untold
  <2>2. told' \in [Prs -> [Ends -> Nat]] /\ prs' \in [Rows -> PrRow \cup {None}] /\ odd' \subseteq Prs
    BY <1>0, <1>3, <2>1 DEF RemovePr
  <2> QED BY <1>1, <1>3, <2>2 DEF RemovePr, PullsTypeOK
<1>4. CASE Restart
  <2> DEFINE P == {p \in Prs : \E j \in Kinds : jobs[j].hand # None /\ jobs[j].hand.pr = p}
  <2>1. odd' \subseteq Prs /\ told' \in [Prs -> [Ends -> Nat]]
    <3>1. P \in SUBSET Prs /\ Excuse(P)
      BY <1>4 DEF Restart
    <3> HIDE DEF P
    <3> QED BY <3>1, ExcuseOK
  <2>2. jobs' \in [Kinds -> Job] /\ notes' \in [Prs -> SUBSET Listener]
    BY <1>4, NoJobOK DEF Restart
  <2> QED BY <1>1, <1>4, <2>1, <2>2 DEF Restart, PullsTypeOK
<1> QED BY <1>2, <1>3, <1>4

-----------------------------------------------------------------------------
(* The phases of a job.                                                    *)

(* Only a batch has items.  What a request of the user holds is excused,   *)
(* what discovery holds is not yet written.                                *)
Phase(j) ==
  LET b == jobs[j] IN
  /\ b.pc \in {"idle", "user", "view", "found"} => \A p \in Prs : b.items[p] = None
  /\ b.pc = "idle" => b.hand = None
  /\ b.pc = "found" => b.hand # None /\ ~b.hand.wrote
  /\ b.hand # None /\ b.pc \in {"user", "view"} => b.hand.pr \in odd
(* What was fetched is what GitHub says, or older; a merge is final.       *)
Dated(j) ==
  \A p \in Prs : LET item == jobs[j].items[p] IN
    item # None => /\ item.ver <= github[p].ver
                   /\ item.ver = github[p].ver \/ item.state = "merged" => item = github[p]
Phases ==
  /\ PullsTypeOK /\ (\A j \in Kinds : Phase(j) /\ Dated(j))
  /\ \A p \in Prs : github[p].ver <= edits

(* How a job looks after a step of its own.                                *)
LEMMA JobAfter ==
  ASSUME PullsTypeOK, NEW j \in Kinds, NEW b \in Job, jobs' = [jobs EXCEPT ![j] = b]
  PROVE  jobs'[j] = b /\ \A k \in Kinds : k # j => jobs'[k] = jobs[k]
BY DEF PullsTypeOK

(* Take: one item of the batch is read against the table.                  *)
LEMMA TakeDoes ==
  ASSUME PullsTypeOK, NEW j \in Kinds, NEW p \in Prs, Take(j, p)
  PROVE  \E item \in Pr : \E status \in Resolved(item.state) :
           LET b == jobs[j] IN
           /\ b.hand = None /\ item = b.items[p] /\ item # None
           /\ jobs'[j].pc = b.pc /\ jobs'[j].hand = Prepared(p, item, status)
           /\ \A q \in Prs : jobs'[j].items[q] = IF q = p THEN None ELSE b.items[q]
           /\ \A k \in Kinds : k # j => jobs'[k] = jobs[k]
           /\ Excuse(IF Others(j, p) # {} \/ Flaky(item) \/ Late(p, item) THEN {p} ELSE {})
<1>0. jobs[j] \in Job /\ jobs \in [Kinds -> Job]
  BY DEF PullsTypeOK
<1>1. PICK status \in Resolved(jobs[j].items[p].state) :
        jobs' = [jobs EXCEPT ![j].items[p] = None, ![j].hand = Prepared(p, jobs[j].items[p], status)]
  BY DEF Take
<1> DEFINE item == jobs[j].items[p]
           h == Prepared(p, item, status)
           b == [jobs[j] EXCEPT !.items[p] = None, !.hand = h]
<1>2. item # None /\ item \in Pr /\ jobs[j].hand = None
      /\ Excuse(IF Others(j, p) # {} \/ Flaky(item) \/ Late(p, item) THEN {p} ELSE {})
  BY <1>0 DEF Take, Job
<1>3. h \in Hand
  BY <1>1, <1>2, PreparedOK
<1>4. jobs' = [jobs EXCEPT ![j] = b]
  BY <1>0, <1>1
<1> HIDE DEF h
<1>5. /\ b \in Job /\ b.pc = jobs[j].pc /\ b.hand = h
      /\ \A q \in Prs : b.items[q] = IF q = p THEN None ELSE jobs[j].items[q]
  BY <1>0, <1>3 DEF Job
<1> HIDE DEF b
<1>6. jobs'[j] = b /\ \A k \in Kinds : k # j => jobs'[k] = jobs[k]
  BY <1>4, <1>5, JobAfter
<1> QED BY <1>1, <1>2, <1>5, <1>6 DEF h

(* Write: the row is written, and the refresh goes on to tell.             *)
LEMMA WriteDoes ==
  ASSUME PullsTypeOK, NEW j \in Kinds, Write(j)
  PROVE  LET h == jobs[j].hand
             w == jobs'[j].hand IN
         /\ h \in Hand /\ ~h.wrote /\ jobs[j].pc # "found"
         /\ jobs'[j].pc = jobs[j].pc /\ jobs'[j].items = jobs[j].items
         /\ w \in Hand /\ w.pr = h.pr /\ w.row = h.row /\ w.prev = h.prev /\ w.status = h.status
         /\ w.wrote /\ w.stamp = Unset
         /\ \A k \in Kinds : k # j => jobs'[k] = jobs[k]
<1>0. jobs[j] \in Job /\ jobs \in [Kinds -> Job]
  BY DEF PullsTypeOK
<1> DEFINE h == jobs[j].hand
           w == [h EXCEPT !.wrote = TRUE, !.ver = 0, !.stamp = Unset]
           b == [jobs[j] EXCEPT !.hand = w]
<1>1. h \in Hand /\ ~h.wrote /\ jobs[j].pc # "found"
  BY <1>0 DEF Write, Job
<1>2. 0 \in 0 .. MaxEvents /\ Unset \in Stamp
  BY EventsAssumption DEF Unset, Stamp
<1>3. /\ w \in Hand /\ w.pr = h.pr /\ w.row = h.row /\ w.prev = h.prev /\ w.status = h.status
      /\ w.wrote /\ w.stamp = Unset
  BY <1>1, <1>2 DEF Hand
<1>4. jobs' = [jobs EXCEPT ![j] = b]
  BY <1>0 DEF Write
<1> HIDE DEF w
<1>5. b \in Job /\ b.pc = jobs[j].pc /\ b.hand = w /\ b.items = jobs[j].items
  BY <1>0, <1>3 DEF Job
<1> HIDE DEF b
<1>6. jobs'[j] = b /\ \A k \in Kinds : k # j => jobs'[k] = jobs[k]
  BY <1>4, <1>5, JobAfter
<1> QED BY <1>1, <1>3, <1>5, <1>6

(* Follow: the refresh is over.                                            *)
LEMMA FollowDoes ==
  ASSUME PullsTypeOK, NEW j \in Kinds, Follow(j)
  PROVE  /\ jobs[j].hand \in Hand /\ jobs[j].hand # None /\ jobs[j].hand.wrote
         /\ \/ jobs'[j] = NoJob
            \/ /\ jobs'[j].pc = jobs[j].pc /\ jobs'[j].items = jobs[j].items
               /\ jobs[j].pc # "view"
         /\ jobs'[j].hand = None
         /\ \A k \in Kinds : k # j => jobs'[k] = jobs[k]
<1>0. jobs[j] \in Job /\ jobs \in [Kinds -> Job]
  BY DEF PullsTypeOK
<1> DEFINE h == jobs[j].hand
           ok == IF jobs[j].pc = "every" THEN jobs[j].ok ELSE jobs[j].ok \cup {h.pr}
           c == [jobs[j] EXCEPT !.hand = None, !.ok = ok]
           b == IF jobs[j].pc = "view" THEN NoJob ELSE c
<1>1. h \in Hand /\ h # None /\ h.wrote /\ h.pr \in Prs
  BY <1>0 DEF Follow, Job, Hand
<1>2. jobs' = [jobs EXCEPT ![j] = b]
  BY <1>0 DEF Follow, Job
<1>3. ok \in SUBSET Prs
  BY <1>0, <1>1 DEF Job
<1> HIDE DEF ok
<1>4. c \in Job /\ c.pc = jobs[j].pc /\ c.items = jobs[j].items /\ c.hand = None
  BY <1>0, <1>3 DEF Job
<1> HIDE DEF c
<1>5. b \in Job
  BY <1>4, NoJobOK
<1>6. jobs'[j] = b /\ \A k \in Kinds : k # j => jobs'[k] = jobs[k]
  BY <1>2, <1>5, JobAfter
<1> QED BY <1>1, <1>4, <1>6, NoJobOK

(* Clear: a mark is cleared, or the last one, when nothing is held.        *)
LEMMA ClearDoes ==
  ASSUME PullsTypeOK, NEW j \in Kinds, NEW p \in Prs, Clear(j, p)
  PROVE  /\ jobs[j].hand = None /\ jobs'[j].hand = None
         /\ \/ jobs'[j] = NoJob
            \/ jobs'[j].pc = jobs[j].pc /\ jobs'[j].items = jobs[j].items
         /\ \A k \in Kinds : k # j => jobs'[k] = jobs[k]
<1>0. jobs[j] \in Job
  BY DEF PullsTypeOK
<1> DEFINE c == [jobs[j] EXCEPT !.ok = @ \ {p}]
           b == IF jobs[j].ok = {p} THEN NoJob ELSE c
<1>1. jobs' = [jobs EXCEPT ![j] = b] /\ jobs[j].hand = None
  BY <1>0 DEF Clear, AllDone
<1>2. c \in Job /\ c.pc = jobs[j].pc /\ c.items = jobs[j].items /\ c.hand = jobs[j].hand
  BY <1>0 DEF Job
<1> HIDE DEF c
<1>3. b \in Job
  BY <1>2, NoJobOK
<1>4. jobs'[j] = b /\ \A k \in Kinds : k # j => jobs'[k] = jobs[k]
  BY <1>1, <1>3, JobAfter
<1> QED BY <1>1, <1>2, <1>4, NoJobOK

(* A job that is started, and one that ends.                               *)
LEMMA StartedOK ==
  ASSUME Phases, NEW j \in Kinds, NEW got \in SUBSET Prs, NEW ok \in SUBSET Prs,
         NEW pc \in {"busy", "every"}, github' = github,
         jobs'[j] = NoJob \/ jobs'[j] = Batch(pc, Answer(got), ok)
  PROVE  Phase(j)' /\ Dated(j)' /\ jobs'[j].hand = None
<1>0. github \in [Prs -> Pr]
  BY DEF Phases, PullsTypeOK
<1>1. CASE jobs'[j] = NoJob
  BY <1>1, NoJobOK DEF Phase, Dated
<1>2. CASE jobs'[j] = Batch(pc, Answer(got), ok)
  <2>1. /\ jobs'[j].pc = pc /\ jobs'[j].hand = None
        /\ \A p \in Prs : jobs'[j].items[p] = None \/ jobs'[j].items[p] = github[p]
    BY <1>0, <1>2, BatchOK
  <2>2. \A p \in Prs : github[p].ver \in Nat
    BY <1>0, EventsAssumption DEF Pr
  <2> QED BY <2>1, <2>2 DEF Phase, Dated
<1> QED BY <1>1, <1>2

(* What stays of a job that holds nothing, or less.                        *)
LEMMA StaysOK ==
  ASSUME Phases, NEW j \in Kinds, github' = github, odd \subseteq odd',
         jobs'[j].pc = jobs[j].pc, jobs'[j].items = jobs[j].items,
         \/ jobs'[j].hand = jobs[j].hand
         \/ jobs'[j].hand = None /\ jobs[j].pc # "found"
         \/ /\ jobs'[j].hand # None /\ jobs[j].hand # None /\ jobs[j].pc # "found"
            /\ jobs'[j].hand.pr = jobs[j].hand.pr
  PROVE  Phase(j)' /\ Dated(j)'
<1>1. Phase(j) /\ Dated(j)
  BY DEF Phases
<1> QED BY <1>1 DEF Phase, Dated

(* The steps of the jobs keep the phases.                                  *)
LEMMA JobPhases ==
  ASSUME Phases, NEW j \in Kinds, JobStep(j), PullsTypeOK'
  PROVE  Phases'
<1>0. PullsTypeOK /\ (\A k \in Kinds : Phase(k) /\ Dated(k)) /\ jobs \in [Kinds -> Job]
  BY DEF Phases, PullsTypeOK
<1>a. github' = github /\ edits' = edits
  BY DEF JobStep, Fetch, Take, Clear, Write, Follow, EndFull, IngestInsert
<1>b. ASSUME odd \subseteq odd', Phase(j)', Dated(j)',
             \A k \in Kinds : k # j => jobs'[k] = jobs[k]
      PROVE  Phases'
  <2>1. ASSUME NEW k \in Kinds, k # j PROVE Phase(k)' /\ Dated(k)'
    BY <1>0, <1>a, <1>b, <2>1 DEF Phase, Dated
  <2> QED BY <1>a, <1>b, <2>1 DEF Phases
<1>1. ASSUME NEW got \in SUBSET Prs, Fetch(j, got)
      PROVE  Phases'
  <2>1. Batch("busy", Answer(got), {}) \in Job
    BY <1>0, BatchOK DEF PullsTypeOK
  <2>2. /\ jobs'[j] = Batch("busy", Answer(got), {}) /\ odd' = odd
        /\ \A k \in Kinds : k # j => jobs'[k] = jobs[k]
    BY <1>0, <1>1, <2>1 DEF Fetch
  <2>3. {} \in SUBSET Prs
    OBVIOUS
  <2> QED BY <1>a, <1>b, <2>2, <2>3, StartedOK
<1>2. ASSUME NEW p \in Prs, Take(j, p)
      PROVE  Phases'
  <2>1. PICK item \in Pr : \E status \in Resolved(item.state) :
           LET b == jobs[j] IN
           /\ b.hand = None /\ item = b.items[p] /\ item # None
           /\ jobs'[j].pc = b.pc /\ jobs'[j].hand = Prepared(p, item, status)
           /\ \A q \in Prs : jobs'[j].items[q] = IF q = p THEN None ELSE b.items[q]
           /\ \A k \in Kinds : k # j => jobs'[k] = jobs[k]
           /\ Excuse(IF Others(j, p) # {} \/ Flaky(item) \/ Late(p, item) THEN {p} ELSE {})
    BY <1>0, <1>2, TakeDoes
  <2>2. odd \subseteq odd'
    BY <2>1 DEF Excuse
  <2>3. jobs[j].pc \notin {"idle", "user", "view", "found"}
    BY <1>0, <2>1 DEF Phase
  <2>4. Phase(j)'
    BY <2>1, <2>3 DEF Phase
  <2>5. Dated(j)'
    BY <1>0, <1>a, <2>1 DEF Dated
  <2> QED BY <1>b, <2>1, <2>2, <2>4, <2>5
<1>3. ASSUME NEW p \in Prs, Clear(j, p)
      PROVE  Phases'
  <2>1. odd' = odd
    BY <1>3 DEF Clear
  <2>2. {} \in SUBSET Prs
    OBVIOUS
  <2> QED BY <1>0, <1>3, <1>a, <1>b, <2>1, <2>2, ClearDoes, StartedOK, StaysOK
<1>4. CASE Write(j)
  <2>1. odd' = odd
    BY <1>4 DEF Write
  <2>2. \A h \in Hand : h # None
    BY NoneAssumption
  <2> QED BY <1>0, <1>4, <1>a, <1>b, <2>1, <2>2, WriteDoes, StaysOK
<1>5. CASE Follow(j)
  <2>1. odd' = odd
    BY <1>5 DEF Follow
  <2>2. jobs[j].pc # "found"
    BY <1>0, <1>5, FollowDoes DEF Phase
  <2>3. {} \in SUBSET Prs
    OBVIOUS
  <2> QED BY <1>0, <1>5, <1>a, <1>b, <2>1, <2>2, <2>3, FollowDoes, StartedOK, StaysOK
<1>6. CASE EndFull(j)
  <2>1. odd' = odd /\ jobs'[j] = NoJob /\ \A k \in Kinds : k # j => jobs'[k] = jobs[k]
    BY <1>0, <1>6, NoJobOK, JobAfter DEF EndFull
  <2>2. {} \in SUBSET Prs
    OBVIOUS
  <2> QED BY <1>a, <1>b, <2>1, <2>2, StartedOK
<1>7. CASE j = "dirty" /\ IngestInsert
  <2>1. jobs'[j] = NoJob /\ \A k \in Kinds : k # j => jobs'[k] = jobs[k]
    BY <1>0, <1>7, NoJobOK, JobAfter DEF IngestInsert
  <2>2. odd \subseteq odd' /\ {} \in SUBSET Prs
    BY <1>7 DEF IngestInsert, Excuse
  <2> QED BY <1>a, <1>b, <2>1, <2>2, StartedOK
<1> QED BY <1>1, <1>2, <1>3, <1>4, <1>5, <1>6, <1>7 DEF JobStep

(* The requests that start a job: what they do to it.                      *)
LEMMA ReadNowDoes ==
  ASSUME PullsTypeOK, NEW p \in Prs, NEW who \in {"user", "view"}, NEW timed \in BOOLEAN,
         ReadNow(p, who, timed)
  PROVE  /\ jobs'["dirty"].pc = who /\ jobs'["dirty"].hand # None /\ jobs'["dirty"].hand.pr = p
         /\ \A q \in Prs : jobs'["dirty"].items[q] = None
         /\ \A k \in Kinds : k # "dirty" => jobs'[k] = jobs[k]
         /\ jobs["dirty"].pc = "idle" /\ odd' = odd \cup {p}
<1>0. github[p] \in Pr /\ "dirty" \in Kinds
  BY DEF PullsTypeOK, Kinds
<1>1. PICK status \in Resolved(github[p].state) :
        jobs' = [jobs EXCEPT !["dirty"] = Holding(who,
                  IF timed THEN Prepared(p, github[p], status)
                  ELSE [Prepared(p, github[p], status) EXCEPT !.stamp = Unset])]
  BY DEF ReadNow
<1> DEFINE h == IF timed THEN Prepared(p, github[p], status)
                ELSE [Prepared(p, github[p], status) EXCEPT !.stamp = Unset]
<1>2. h \in Hand /\ h.pr = p
  <2>1. Prepared(p, github[p], status).pr = p /\ Prepared(p, github[p], status) \in Hand
    BY <1>0, PreparedOK DEF Prepared
  <2>2. [Prepared(p, github[p], status) EXCEPT !.stamp = Unset] \in Hand
    BY <1>0, PreparedOK
  <2> QED BY <2>1, <2>2 DEF Hand
<1>3. jobs' = [jobs EXCEPT !["dirty"] = Holding(who, h)]
  BY <1>1
<1> HIDE DEF h
<1>4. /\ Holding(who, h) \in Job /\ Holding(who, h).pc = who /\ Holding(who, h).hand = h
      /\ \A q \in Prs : Holding(who, h).items[q] = None
  BY <1>2, HoldingOK
<1>5. jobs'["dirty"] = Holding(who, h) /\ \A k \in Kinds : k # "dirty" => jobs'[k] = jobs[k]
  BY <1>0, <1>3, <1>4, JobAfter
<1>6. h # None
  BY <1>2, NoneAssumption
<1> QED BY <1>2, <1>4, <1>5, <1>6 DEF ReadNow, Excuse

LEMMA IngestDoes ==
  ASSUME PullsTypeOK, NEW p \in Prs, Ingest(p)
  PROVE  /\ jobs'["dirty"].pc = "found" /\ jobs'["dirty"].hand # None /\ ~jobs'["dirty"].hand.wrote
         /\ \A q \in Prs : jobs'["dirty"].items[q] = None
         /\ \A k \in Kinds : k # "dirty" => jobs'[k] = jobs[k]
         /\ jobs["dirty"].pc = "idle"
         /\ UNCHANGED <<github, prs, seen, notes, over, told, odd, edits>>
<1>0. github[p] \in Pr /\ "dirty" \in Kinds
  BY DEF PullsTypeOK, Kinds
<1>1. PICK status \in Resolved(github[p].state) :
        jobs' = [jobs EXCEPT !["dirty"] = Holding("found", Prepared(p, github[p], status))]
  BY DEF Ingest
<1> DEFINE h == Prepared(p, github[p], status)
<1>2. h \in Hand /\ ~h.wrote
  BY <1>0, PreparedOK DEF Prepared
<1>3. jobs' = [jobs EXCEPT !["dirty"] = Holding("found", h)]
  BY <1>1
<1> HIDE DEF h
<1>4. /\ Holding("found", h) \in Job /\ Holding("found", h).pc = "found"
      /\ Holding("found", h).hand = h
      /\ \A q \in Prs : Holding("found", h).items[q] = None
  BY <1>2, HoldingOK
<1>5. jobs'["dirty"] = Holding("found", h) /\ \A k \in Kinds : k # "dirty" => jobs'[k] = jobs[k]
  BY <1>0, <1>3, <1>4, JobAfter
<1>6. h # None
  BY <1>2, NoneAssumption
<1> QED BY <1>2, <1>4, <1>5, <1>6 DEF Ingest

LEMMA SyncDoes ==
  ASSUME PullsTypeOK, NEW got \in SUBSET Prs, SyncMarked(got) \/ SyncEvery(got)
  PROVE  /\ \E pc \in {"busy", "every"}, ok \in SUBSET Prs :
              jobs'["dirty"] = Batch(pc, Answer(got), ok)
         /\ \A k \in Kinds : k # "dirty" => jobs'[k] = jobs[k]
         /\ jobs["dirty"].pc = "idle"
         /\ UNCHANGED <<github, prs, seen, notes, over, told, odd, edits>>
<1>0. github \in [Prs -> Pr] /\ "dirty" \in Kinds /\ {} \in SUBSET Prs
      /\ Listed("dirty") \ got \in SUBSET Prs
  BY DEF PullsTypeOK, Kinds, Listed
<1>1. CASE SyncMarked(got)
  <2>1. Batch("busy", Answer(got), Listed("dirty") \ got) \in Job
    BY <1>0, BatchOK
  <2>2. jobs' = [jobs EXCEPT !["dirty"] = Batch("busy", Answer(got), Listed("dirty") \ got)]
    BY <1>1 DEF SyncMarked
  <2> QED BY <1>0, <1>1, <2>1, <2>2, JobAfter DEF SyncMarked
<1>2. CASE SyncEvery(got)
  <2>1. Batch("every", Answer(got), {}) \in Job
    BY <1>0, BatchOK
  <2>2. jobs' = [jobs EXCEPT !["dirty"] = Batch("every", Answer(got), {})]
    BY <1>2 DEF SyncEvery
  <2> QED BY <1>0, <1>2, <2>1, <2>2, JobAfter DEF SyncEvery
<1> QED BY <1>1, <1>2

(* The other steps keep them too:  the requests,                           *)
LEMMA RequestPhases ==
  ASSUME Phases, NEW p \in Prs, NEW got \in SUBSET Prs, PullsTypeOK',
         \/ Refresh(p) \/ SyncStream(p) \/ SyncAllPrs(p) \/ Ingest(p)
         \/ SyncMarked(got) \/ SyncEvery(got)
  PROVE  Phases'
<1>0. PullsTypeOK /\ (\A k \in Kinds : Phase(k) /\ Dated(k)) /\ "dirty" \in Kinds
  BY DEF Phases, Kinds
<1>a. github' = github /\ edits' = edits /\ odd \subseteq odd'
  BY DEF Refresh, SyncStream, SyncAllPrs, ReadNow, Excuse, Ingest, SyncMarked, SyncEvery
<1>b. ASSUME Phase("dirty")', Dated("dirty")', \A k \in Kinds : k # "dirty" => jobs'[k] = jobs[k]
      PROVE  Phases'
  <2>1. ASSUME NEW k \in Kinds, k # "dirty" PROVE Phase(k)' /\ Dated(k)'
    BY <1>0, <1>a, <1>b, <2>1 DEF Phase, Dated
  <2> QED BY <1>a, <1>b, <2>1 DEF Phases
<1>1. ASSUME NEW who \in {"user", "view"}, NEW timed \in BOOLEAN, ReadNow(p, who, timed)
      PROVE  Phases'
  <2>1. Phase("dirty")' /\ Dated("dirty")'
    BY <1>0, <1>1, ReadNowDoes DEF Phase, Dated
  <2> QED BY <1>0, <1>1, <1>b, <2>1, ReadNowDoes
<1>2. CASE Ingest(p)
  <2>1. Phase("dirty")' /\ Dated("dirty")'
    BY <1>0, <1>2, IngestDoes DEF Phase, Dated
  <2> QED BY <1>0, <1>2, <1>b, <2>1, IngestDoes
<1>3. CASE SyncMarked(got) \/ SyncEvery(got)
  BY <1>0, <1>3, <1>a, <1>b, SyncDoes, StartedOK
<1> QED BY <1>1, <1>2, <1>3 DEF Refresh, SyncStream, SyncAllPrs

(* GitHub, the listeners and the user's writes.                            *)
LEMMA RestPhases ==
  ASSUME Phases, PullsTypeOK',
         \/ \E p \in Prs : \/ Edit(p) \/ Poll(p) \/ RefreshFails(p)
                           \/ \E m \in Messages : MarkDirty(p, m) \/ WriteSaid(p, m)
         \/ \E r \in Rows : RemovePr(r) \/ \E status \in {"open"} \cup Ends : LinkPr(r, status)
         \/ Restart \/ UNCHANGED pullVars
  PROVE  Phases'
<1>0. PullsTypeOK /\ \A k \in Kinds : Phase(k) /\ Dated(k)
  BY DEF Phases
<1>1. ASSUME NEW p \in Prs, Edit(p)
      PROVE  Phases'
  <2>0. /\ github \in [Prs -> Pr] /\ edits \in Nat /\ \A q \in Prs : github[q].ver \in Nat
        /\ \A q \in Prs : github[q].ver <= edits
    BY <1>0, EventsAssumption DEF Phases, PullsTypeOK, Pr
  <2>1. PICK st \in {"open", "closed", "landed", "merged"} :
          github' = [github EXCEPT ![p] =
            [state |-> st, ver |-> edits + 1,
             ended |-> IF st = "open" THEN 0
                       ELSE IF @.ended # 0 /\ st = @.state THEN @.ended ELSE edits + 1]]
    BY <1>1 DEF Edit
  <2>2. /\ edits' = edits + 1 /\ jobs' = jobs /\ odd' = odd /\ github[p].state # "merged"
        /\ github'[p].ver = edits + 1 /\ \A q \in Prs : q # p => github'[q] = github[q]
    BY <1>1, <2>0, <2>1 DEF Edit
  <2>3. \A q \in Prs : github'[q].ver <= edits'
    BY <2>0, <2>2
  <2>4. \A k \in Kinds : Phase(k)'
    BY <1>0, <2>2 DEF Phase
  <2>5. ASSUME NEW k \in Kinds, NEW q \in Prs, jobs[k].items[q] # None
        PROVE  /\ jobs'[k].items[q].ver <= github'[q].ver
               /\ jobs'[k].items[q].ver = github'[q].ver \/ jobs'[k].items[q].state = "merged"
                    => jobs'[k].items[q] = github'[q]
    <3>1. jobs[k].items[q] \in Pr /\ jobs[k].items[q].ver \in Nat
      <4>1. jobs[k].items[q] \in Pr
        BY <1>0, <2>5 DEF PullsTypeOK, Job
      <4> QED BY <4>1, EventsAssumption DEF Pr
    <3>2. /\ jobs[k].items[q].ver <= github[q].ver
          /\ jobs[k].items[q].ver = github[q].ver \/ jobs[k].items[q].state = "merged"
               => jobs[k].items[q] = github[q]
      BY <1>0, <2>5 DEF Dated
    <3> QED BY <2>0, <2>2, <3>1, <3>2
  <2>6. \A k \in Kinds : Dated(k)'
    BY <2>2, <2>5 DEF Dated
  <2> QED BY <2>3, <2>4, <2>6 DEF Phases
<1>2. ASSUME github' = github, edits' = edits, odd \subseteq odd',
             jobs' = jobs \/ jobs' = [j \in Kinds |-> NoJob]
      PROVE  Phases'
  <2>1. ASSUME NEW k \in Kinds PROVE Phase(k)' /\ Dated(k)'
    <3>1. jobs'[k] = jobs[k] \/ jobs'[k] = NoJob
      BY <1>2
    <3> QED BY <1>0, <1>2, <3>1, NoJobOK DEF Phase, Dated
  <2> QED BY <1>2, <2>1 DEF Phases
<1>3. ASSUME NEW p \in Prs, NEW m \in Messages,
             Poll(p) \/ RefreshFails(p) \/ MarkDirty(p, m) \/ WriteSaid(p, m)
      PROVE  Phases'
  BY <1>2, <1>3 DEF Poll, RefreshFails, MarkDirty, WriteSaid, Excuse
<1>4. ASSUME NEW r \in Rows, NEW status \in {"open"} \cup Ends, RemovePr(r) \/ LinkPr(r, status)
      PROVE  Phases'
  BY <1>2, <1>4 DEF RemovePr, LinkPr, Excuse
<1>5. CASE Restart
  BY <1>2, <1>5 DEF Restart, Excuse
<1>6. CASE UNCHANGED pullVars
  BY <1>2, <1>6 DEF pullVars
<1>7. "merged" \in Messages /\ "open" \in {"open"} \cup Ends
  BY DEF Messages
<1> QED BY <1>1, <1>3, <1>4, <1>5, <1>6, <1>7

(* Every step of the cache is one of these.                                *)
LEMMA PullsCases ==
  ASSUME PullsNext
  PROVE  \/ \E j \in Kinds : JobStep(j)
         \/ \E p \in Prs : \/ Edit(p) \/ Poll(p) \/ RefreshFails(p)
                           \/ \E m \in Messages : MarkDirty(p, m) \/ WriteSaid(p, m)
         \/ \E p \in Prs, got \in SUBSET Prs :
              \/ Refresh(p) \/ SyncStream(p) \/ SyncAllPrs(p) \/ Ingest(p)
              \/ SyncMarked(got) \/ SyncEvery(got)
         \/ \E r \in Rows : RemovePr(r) \/ \E status \in {"open"} \cup Ends : LinkPr(r, status)
         \/ Restart
<1>1. CASE \E got \in SUBSET Prs : SyncMarked(got) \/ SyncEvery(got)
  <2>1. PICK got \in SUBSET Prs : SyncMarked(got) \/ SyncEvery(got)
    BY <1>1
  <2>2. PICK p \in Prs : TRUE
    BY <2>1 DEF SyncMarked, SyncEvery, Listed
  <2> QED BY <2>1, <2>2
<1>2. CASE \E p \in Prs : Refresh(p) \/ SyncStream(p) \/ SyncAllPrs(p) \/ Ingest(p)
  <2>1. {} \in SUBSET Prs
    OBVIOUS
  <2> QED BY <1>2, <2>1
<1>3. CASE \E p \in Prs : Edit(p) \/ Poll(p) \/ RefreshFails(p) \/ Listeners(p)
  BY <1>3 DEF Listeners
<1> QED BY <1>1, <1>2, <1>3 DEF PullsNext

(* The types and the phases hold at the start and after every step.        *)
LEMMA InitPhases ==
  ASSUME PullsInit \/ (PullsInit /\ \A r \in Rows : prs[r] = None) PROVE Phases
<1>1. 0 \in 0 .. MaxEvents
  BY EventsAssumption
<1>2. NewRowOf("open") \in PrRow
  <2>1. Unset \in Stamp
    BY EventsAssumption DEF Unset, Stamp
  <2>2. NoRow \in [status : {"none"}, ver : 0 .. MaxEvents, stamp : Stamp, dirty : BOOLEAN]
    BY <1>1, <2>1 DEF NoRow
  <2> QED BY <2>2 DEF NewRowOf, PrRow
<1>3. prs \in [Rows -> PrRow \cup {None}]
  BY <1>2 DEF PullsInit
<1>4. github \in [Prs -> Pr] /\ \A p \in Prs : github[p].ver = 0
  BY <1>1 DEF PullsInit, Pr
<1>5. jobs \in [Kinds -> Job] /\ \A j \in Kinds : jobs[j] = NoJob
  BY NoJobOK DEF PullsInit
<1>6. told \in [Prs -> [Ends -> Nat]]
  BY DEF PullsInit, Untold
<1>7. PullsTypeOK
  BY <1>1, <1>3, <1>4, <1>5, <1>6 DEF PullsInit, PullsTypeOK
<1>8. \A j \in Kinds : Phase(j) /\ Dated(j)
  BY <1>5, NoJobOK DEF Phase, Dated
<1> QED BY <1>4, <1>7, <1>8 DEF Phases, PullsInit

LEMMA NextPhases ==
  ASSUME Phases, PullsNext \/ UNCHANGED pullVars PROVE Phases'
<1>0. PullsTypeOK /\ (jobs["dirty"].pc = "found" => jobs["dirty"].hand # None)
  BY DEF Phases, Phase, Kinds
<1>1. ASSUME NEW j \in Kinds, JobStep(j) PROVE Phases'
  BY <1>0, <1>1, JobTypes, JobPhases
<1>2. ASSUME NEW p \in Prs,
             \/ Edit(p) \/ Poll(p) \/ RefreshFails(p)
             \/ \E m \in Messages : MarkDirty(p, m) \/ WriteSaid(p, m)
      PROVE  Phases'
  <2>1. "merged" \in Messages
    BY DEF Messages
  <2>2. PullsTypeOK'
    BY <1>0, <1>2, <2>1, OutsideTypes
  <2> QED BY <1>2, <2>2, RestPhases
<1>3. ASSUME NEW p \in Prs, NEW got \in SUBSET Prs,
             \/ Refresh(p) \/ SyncStream(p) \/ SyncAllPrs(p) \/ Ingest(p)
             \/ SyncMarked(got) \/ SyncEvery(got)
      PROVE  Phases'
  BY <1>0, <1>3, RequestTypes, RequestPhases
<1>4. CASE \/ \E r \in Rows : RemovePr(r) \/ \E status \in {"open"} \cup Ends : LinkPr(r, status)
           \/ Restart
  <2>1. PullsTypeOK'
    BY <1>0, <1>4, UseTypes
  <2> QED BY <1>4, <2>1, RestPhases
<1>5. CASE UNCHANGED pullVars
  <2>1. PullsTypeOK'
    BY <1>0, <1>5 DEF pullVars, PullsTypeOK
  <2> QED BY <1>5, <2>1, RestPhases
<1> QED BY <1>1, <1>2, <1>3, <1>4, <1>5, PullsCases

-----------------------------------------------------------------------------
(* Which rows a step touches.                                              *)

(* What is read of a PR is the same before and after.                      *)
FaceKept(p) ==
  /\ FirstRow(p)' = FirstRow(p) /\ (Known(p)' <=> Known(p))
  /\ First(p)'.status = First(p).status /\ First(p)'.ver = First(p).ver
  /\ First(p)'.stamp = First(p).stamp

(* So it is when its rows say the same as before,                          *)
LEMMA SameRows ==
  ASSUME NEW p \in Prs,
         \A r \in Rows : PrOf[r] = p =>
           /\ prs'[r] = None <=> prs[r] = None
           /\ prs[r] # None => /\ prs'[r].status = prs[r].status /\ prs'[r].ver = prs[r].ver
                               /\ prs'[r].stamp = prs[r].stamp
  PROVE  FaceKept(p)
<1>1. PrRows(p)' = PrRows(p)
  BY DEF PrRows
<1>2. CASE Known(p)
  <2>1. FirstRow(p) \in PrRows(p) /\ First(p) = prs[FirstRow(p)]
    BY <1>2, FirstOK
  <2>2. FirstRow(p)' = FirstRow(p) /\ Known(p)'
    BY <1>1, <1>2, <2>1, FirstStays
  <2>3. First(p)' = prs'[FirstRow(p)]
    BY <2>2, FirstNextOK
  <2> QED BY <1>2, <2>1, <2>2, <2>3 DEF FaceKept, PrRows
<1>3. CASE ~Known(p)
  <2>1. ~Known(p)'
    BY <1>1, <1>3 DEF Known
  <2>2. FirstRow(p)' = FirstRow(p) /\ First(p)' = First(p)
    BY <1>3, <2>1, FirstOK, FirstNextOK
  <2> QED BY <1>3, <2>1, <2>2 DEF FaceKept
<1> QED BY <1>2, <1>3

(* when only rows that come after the first one come or go,                *)
LEMMA LaterRows ==
  ASSUME NEW p \in Prs, Known(p), prs'[FirstRow(p)] = prs[FirstRow(p)],
         \A r \in PrRows(p)' : r \in PrRows(p) \/ FirstRow(p) <= r
  PROVE  FaceKept(p)
<1>1. FirstRow(p) \in PrRows(p) /\ First(p) = prs[FirstRow(p)]
  BY FirstOK
<1>2. FirstRow(p) \in PrRows(p)'
  BY <1>1 DEF PrRows
<1>3. FirstRow(p)' = FirstRow(p) /\ Known(p)'
  BY <1>2, FirstStays
<1>4. First(p)' = prs'[FirstRow(p)]
  BY <1>3, FirstNextOK
<1> QED BY <1>1, <1>3, <1>4 DEF FaceKept

(* and when a row is marked, or one of another PR is written.              *)
LEMMA MarkKeeps ==
  ASSUME PullsTypeOK, NEW q \in Prs, NEW b \in BOOLEAN, prs' = WithMark(q, b), NEW p \in Prs
  PROVE  FaceKept(p)
<1>1. \A r \in Rows : prs[r] # None => prs'[r] # None
  BY MarkOK, NoneAssumption
<1> QED BY <1>1, MarkOK, SameRows

LEMMA UpdateKeeps ==
  ASSUME PullsTypeOK, NEW q \in Prs, NEW status \in {"open"} \cup Ends,
         NEW ver \in 0 .. MaxEvents, NEW stamp \in Stamp, prs' = Updated(q, status, ver, stamp)
  PROVE  /\ \A p \in Prs : p # q => FaceKept(p)
         /\ FirstRow(q)' = FirstRow(q) /\ (Known(q)' <=> Known(q))
         /\ Known(q) => /\ First(q)'.status = status /\ First(q)'.ver = ver
                        /\ First(q)'.stamp = NewStamp(q, status, stamp)
<1>1. ASSUME NEW p \in Prs, p # q PROVE FaceKept(p)
  <2>1. \A r \in Rows : PrOf[r] = p => prs'[r] = prs[r]
    BY <1>1, UpdatedOK DEF PrRows
  <2> QED BY <2>1, SameRows
<1>2. PrRows(q)' = PrRows(q)
  <2>1. \A r \in PrRows(q) : prs'[r] # None
    BY UpdatedOK, NoneAssumption
  <2>2. \A r \in Rows : r \notin PrRows(q) => prs'[r] = prs[r]
    BY UpdatedOK DEF PrRows
  <2> QED BY <2>1, <2>2 DEF PrRows
<1>3. CASE Known(q)
  <2>1. FirstRow(q) \in PrRows(q)
    BY <1>3, FirstOK
  <2>2. FirstRow(q)' = FirstRow(q) /\ Known(q)'
    BY <1>2, <1>3, <2>1, FirstStays
  <2>3. First(q)' = prs'[FirstRow(q)]
    BY <2>2, FirstNextOK
  <2> QED BY <1>1, <1>3, <2>2, <2>3, UpdatedOK
<1>4. CASE ~Known(q)
  <2>1. ~Known(q)'
    BY <1>2, <1>4 DEF Known
  <2> QED BY <1>1, <1>4, <2>1, FirstOK, FirstNextOK
<1> QED BY <1>3, <1>4

(* A new row comes last: it is the first one only if there was none.       *)
LEMMA InsertKeeps ==
  ASSUME PullsTypeOK, NEW r \in Rows, NEW status \in {"open"} \cup Ends,
         prs' = Inserted(r, status), prs[r] # None \/ Last(r)
  PROVE  /\ \A p \in Prs : p # PrOf[r] \/ Known(p) => FaceKept(p)
         /\ ~Known(PrOf[r]) => First(PrOf[r])'.status = status /\ First(PrOf[r])'.stamp = Unset
<1>0. PrOf[r] \in Prs
  BY RowsAssumption
<1>1. ASSUME NEW p \in Prs, p # PrOf[r] PROVE FaceKept(p)
  <2>1. \A s \in Rows : PrOf[s] = p => prs'[s] = prs[s]
    BY <1>1, InsertedOK
  <2> QED BY <2>1, SameRows
<1>2. CASE prs[r] # None
  <2>1. Known(PrOf[r]) /\ prs' = prs
    BY <1>2, FirstOK, <1>0 DEF PrRows, Inserted
  <2>2. \A p \in Prs : FaceKept(p)
    BY <2>1, SameRows
  <2> QED BY <2>1, <2>2
<1>3. CASE prs[r] = None
  <2>0. /\ \A s \in Rows : s # r => prs'[s] = prs[s]
        /\ prs'[r] = NewRowOf(status) /\ NewRowOf(status) \in PrRow
        /\ NewRowOf(status).status = status /\ NewRowOf(status).stamp = Unset
    BY <1>3, InsertedOK
  <2>1. ASSUME Known(PrOf[r]) PROVE FaceKept(PrOf[r])
    <3> DEFINE p == PrOf[r]
    <3>1. FirstRow(p) \in PrRows(p) /\ FirstRow(p) \in Nat /\ r \in Nat
      BY <1>0, <2>1, FirstOK, RowsAssumption DEF PrRows
    <3>2. prs'[FirstRow(p)] = prs[FirstRow(p)]
      BY <1>3, <2>0, <3>1 DEF PrRows
    <3>3. FirstRow(p) < r
      BY <1>3, <3>1 DEF Last
    <3>4. \A s \in PrRows(p)' : s \in PrRows(p) \/ s = r
      BY <2>0 DEF PrRows
    <3>5. \A s \in PrRows(p)' : s \in PrRows(p) \/ FirstRow(p) <= s
      BY <3>1, <3>3, <3>4
    <3> HIDE DEF p
    <3>6. FaceKept(p)
      BY <1>0, <2>1, <3>2, <3>5, LaterRows DEF p
    <3> QED BY <3>6 DEF p
  <2>2. ASSUME ~Known(PrOf[r])
        PROVE  First(PrOf[r])'.status = status /\ First(PrOf[r])'.stamp = Unset
    <3> DEFINE p == PrOf[r]
    <3>1. PrRows(p)' = {r}
      <4>1. PrRows(p) = {} /\ prs'[r] # None
        BY <1>0, <2>0, <2>2, FirstOK, NoneAssumption
      <4> QED BY <2>0, <4>1 DEF PrRows
    <3>2. Known(p)' /\ FirstRow(p)' \in {r} /\ First(p)' = prs'[FirstRow(p)']
      BY <1>0, <3>1, FirstNextOK
    <3> QED BY <2>0, <3>2
  <2> QED BY <1>1, <2>1, <2>2
<1> QED BY <1>2, <1>3

(* A row that goes matters if it is the first.                             *)
LEMMA RemoveKeeps ==
  ASSUME PullsTypeOK, NEW r \in Rows, prs[r] # None, prs' = [prs EXCEPT ![r] = None]
  PROVE  /\ \A p \in Prs : p # PrOf[r] \/ r # FirstRow(p) => FaceKept(p)
         /\ FirstRow(PrOf[r])' # FirstRow(PrOf[r]) \/ r # FirstRow(PrOf[r])
         /\ Known(PrOf[r])' => /\ FirstRow(PrOf[r])' \in PrRows(PrOf[r]) \ {r}
                               /\ First(PrOf[r])'.status = prs[FirstRow(PrOf[r])'].status
<1>0. PrOf[r] \in Prs
  BY RowsAssumption
<1>1. prs'[r] = None /\ \A s \in Rows : s # r => prs'[s] = prs[s]
  BY DEF PullsTypeOK
<1>2. ASSUME NEW p \in Prs, p # PrOf[r] PROVE FaceKept(p)
  <2>1. \A s \in Rows : PrOf[s] = p => prs'[s] = prs[s]
    BY <1>1, <1>2
  <2> QED BY <2>1, SameRows
<1>3. ASSUME NEW p \in Prs, p = PrOf[r], r # FirstRow(p) PROVE FaceKept(p)
  <2>1. Known(p) /\ FirstRow(p) \in PrRows(p)
    BY <1>3, FirstOK DEF PrRows
  <2>2. prs'[FirstRow(p)] = prs[FirstRow(p)]
    BY <1>1, <1>3, <2>1 DEF PrRows
  <2>3. \A s \in PrRows(p)' : s \in PrRows(p)
    BY <1>1 DEF PrRows
  <2> QED BY <2>1, <2>2, <2>3, LaterRows
<1>4. PrRows(PrOf[r])' = PrRows(PrOf[r]) \ {r}
  BY <1>1 DEF PrRows
<1>5. Known(PrOf[r])' => FirstRow(PrOf[r])' \in PrRows(PrOf[r])' /\ First(PrOf[r])' = prs'[FirstRow(PrOf[r])']
  BY <1>0, FirstNextOK
<1>6. FirstRow(PrOf[r])' = FirstRow(PrOf[r]) => r # FirstRow(PrOf[r])
  <2>1. CASE Known(PrOf[r])'
    BY <1>4, <1>5, <2>1
  <2>2. CASE ~Known(PrOf[r])'
    BY <1>0, <2>2, FirstNextOK, NoneAssumption
  <2> QED BY <2>1, <2>2
<1>7. \A s \in PrRows(PrOf[r]) \ {r} : s \in Rows /\ prs'[s] = prs[s]
  BY <1>1 DEF PrRows
<1> QED BY <1>2, <1>3, <1>4, <1>5, <1>6, <1>7

-----------------------------------------------------------------------------
(* What the agent of a PR's task has been told.                            *)

(* Job j refreshes p; discovery does not, it inserts a row or nothing.     *)
Reads(j, p) == jobs[j].hand # None /\ jobs[j].hand.pr = p /\ jobs[j].pc # "found"
(* The task whose agent is told.                                           *)
Boss(p) == Owner(FirstRow(p))

(* What a refresh holds fits the first row: it was read from it, and it is *)
(* to be written, or it has been.                                          *)
ReadOK(h, p) ==
  /\ h.row = FirstRow(p)
  /\ ~h.wrote => /\ h.prev = First(p).status
                 /\ h.stamp # Unset => First(p).stamp = Unset
                 /\ h.status = "merged" => github[p].state = "merged" /\ h.ver = github[p].ver
                 /\ Boss(p) # None /\ h.prev = "merged" => h.status = "merged"
  /\ h.wrote => h.stamp = Unset /\ (Known(p) => First(p).status = h.status)

(* The agent has been told of the end the row says; of the end it has come *)
(* to say since it said `prev`, not yet.                                   *)
Told(p, prev, status) ==
  /\ status \notin Ends => told[p] = Untold
  /\ status = "closed" => prev # "merged" /\ told[p]["merged"] = 0
  /\ status \in Ends /\ ~Tells(prev, status) /\ Boss(p) \notin over => told[p][status] = 1
  /\ status \in Ends /\ Tells(prev, status) => told[p][status] = 0
Telling(p) == \E j \in Kinds : Reads(j, p) /\ jobs[j].hand.wrote

TellAt(p) ==
  /\ Boss(p) = None => told[p] = Untold
  /\ Boss(p) # None /\ First(p).status = "merged"
       => github[p].state = "merged" /\ First(p).ver = github[p].ver
  /\ \A j, k \in Kinds : Reads(j, p) /\ Reads(k, p) => j = k
  /\ \A j \in Kinds : Reads(j, p) => ReadOK(jobs[j].hand, p)
  /\ Boss(p) # None /\ ~Telling(p) => Told(p, First(p).status, First(p).status)
  /\ Boss(p) # None => \A j \in Kinds : Reads(j, p) /\ jobs[j].hand.wrote
                         => Told(p, jobs[j].hand.prev, jobs[j].hand.status)
AllTold == \A p \in Prs \ odd : TellAt(p)

(* A step that leaves p and its refreshes alone, or edits p on GitHub.     *)
Unmoved(p) ==
  /\ FaceKept(p) /\ told'[p] = told[p] /\ over \subseteq over'
  /\ github'[p] = github[p] \/ github[p].state # "merged"
  /\ \A j \in Kinds : (Reads(j, p)' <=> Reads(j, p))
                      /\ (Reads(j, p) => jobs'[j].hand = jobs[j].hand)

LEMMA UnmovedTold ==
  ASSUME NEW p \in Prs, TellAt(p), Unmoved(p) PROVE TellAt(p)'
<1>1. Boss(p)' = Boss(p)
  BY DEF Unmoved, FaceKept, Boss, Owner
<1>2. \A prev, status : Told(p, prev, status) => Told(p, prev, status)'
  BY <1>1 DEF Told, Unmoved, Tells
<1>3. Telling(p)' <=> Telling(p)
  BY DEF Telling, Unmoved
<1>4. ASSUME NEW j \in Kinds, Reads(j, p)'
      PROVE  ReadOK(jobs[j].hand, p)'
  <2>1. Reads(j, p) /\ jobs'[j].hand = jobs[j].hand /\ ReadOK(jobs[j].hand, p)
    BY <1>4 DEF Unmoved, TellAt
  <2> QED BY <1>1, <2>1 DEF ReadOK, Unmoved, FaceKept
<1>5. Boss(p)' # None /\ ~Telling(p)' => Told(p, First(p).status, First(p).status)'
  <2>1. ASSUME Told(p, First(p).status, First(p).status)
        PROVE  Told(p, First(p).status, First(p).status)'
    BY <1>1, <2>1 DEF Told, Unmoved, Tells, FaceKept
  <2> QED BY <1>1, <1>3, <2>1 DEF TellAt
<1>6. ASSUME NEW j \in Kinds, Reads(j, p)', jobs'[j].hand.wrote, Boss(p)' # None
      PROVE  Told(p, jobs[j].hand.prev, jobs[j].hand.status)'
  <2>1. Told(p, jobs[j].hand.prev, jobs[j].hand.status) /\ jobs'[j].hand = jobs[j].hand
    BY <1>1, <1>6 DEF Unmoved, TellAt
  <2> QED BY <1>1, <2>1 DEF Told, Unmoved, Tells
<1>7. Boss(p)' # None /\ First(p)'.status = "merged"
        => github'[p].state = "merged" /\ First(p)'.ver = github'[p].ver
  BY <1>1 DEF TellAt, Unmoved, FaceKept
<1>8. /\ Boss(p)' = None => told'[p] = Untold
      /\ \A j, k \in Kinds : Reads(j, p)' /\ Reads(k, p)' => j = k
  BY <1>1 DEF TellAt, Unmoved
<1> QED BY <1>4, <1>5, <1>6, <1>7, <1>8 DEF TellAt

(* A PR whose first row is new, or another than before, that nobody        *)
(* refreshes and whose agent has been told nothing.                        *)
LEMMA AnewTold ==
  ASSUME NEW p \in Prs, told'[p] = Untold, \A j \in Kinds : ~Reads(j, p)',
         Boss(p)' # None => First(p)'.status \notin Ends
  PROVE  TellAt(p)'
<1>1. ASSUME Boss(p)' # None
      PROVE  Told(p, First(p).status, First(p).status)' /\ First(p)'.status # "merged"
  BY <1>1 DEF Told, Ends
<1> QED BY <1>1 DEF TellAt, Telling

(* A step that changes no job and no row but for marks moves no PR.        *)
LEMMA RestMoves ==
  ASSUME Phases, NEW p \in Prs, told' = told, over \subseteq over', jobs' = jobs, FaceKept(p),
         github'[p] = github[p] \/ github[p].state # "merged"
  PROVE  Unmoved(p)
BY DEF Unmoved, Reads

(* What is done to a job that holds no refresh of p moves not p, either,   *)
(* if it holds none afterwards.                                            *)
LEMMA JobMoves ==
  ASSUME NEW p \in Prs, NEW j \in Kinds, told'[p] = told[p], over \subseteq over', FaceKept(p),
         github' = github, \A k \in Kinds : k # j => jobs'[k] = jobs[k],
         ~Reads(j, p), ~Reads(j, p)'
  PROVE  Unmoved(p)
<1>1. ASSUME NEW k \in Kinds
      PROVE  (Reads(k, p)' <=> Reads(k, p)) /\ (Reads(k, p) => jobs'[k].hand = jobs[k].hand)
  <2>1. CASE k = j
    BY <2>1
  <2>2. CASE k # j
    BY <2>2 DEF Reads
  <2> QED BY <2>1, <2>2
<1> QED BY <1>1 DEF Unmoved

(* Nothing happens to the rows.                                            *)
LEMMA RowsRest ==
  ASSUME prs' = prs, NEW p \in Prs PROVE FaceKept(p)
BY SameRows

(* GitHub and the listeners.                                               *)
LEMMA OutsideTold ==
  ASSUME Phases, AllTold, NEW q \in Prs, NEW m \in Messages,
         Edit(q) \/ Poll(q) \/ RefreshFails(q) \/ MarkDirty(q, m) \/ WriteSaid(q, m)
  PROVE  AllTold'
<1>0. PullsTypeOK
  BY DEF Phases
<1>1. CASE Edit(q)
  <2>1. /\ github[q].state # "merged" /\ \A p \in Prs : p # q => github'[p] = github[p]
        /\ UNCHANGED <<prs, jobs, over, told, odd>>
    BY <1>0, <1>1 DEF Edit, PullsTypeOK
  <2>2. \A p \in Prs : Unmoved(p)
    BY <2>1, RestMoves, RowsRest
  <2> QED BY <2>1, <2>2, UnmovedTold DEF AllTold
<1>2. CASE Poll(q)
  <2>1. \A p \in Prs : Unmoved(p)
    BY <1>2, RestMoves, RowsRest DEF Poll
  <2> QED BY <1>2, <2>1, UnmovedTold DEF AllTold, Poll
<1>3. CASE RefreshFails(q)
  <2>1. \A p \in Prs : FaceKept(p)
    BY <1>0, <1>3, MarkKeeps DEF RefreshFails
  <2>2. \A p \in Prs : Unmoved(p)
    BY <1>3, <2>1, RestMoves DEF RefreshFails
  <2> QED BY <1>3, <2>2, UnmovedTold DEF AllTold, RefreshFails
<1>4. CASE MarkDirty(q, m)
  <2>1. \A p \in Prs : FaceKept(p)
    BY <1>0, <1>4, MarkKeeps DEF MarkDirty
  <2>2. over \subseteq over'
    BY <1>4 DEF MarkDirty, Promoted
  <2>3. \A p \in Prs : Unmoved(p)
    BY <1>4, <2>1, <2>2, RestMoves DEF MarkDirty
  <2> QED BY <1>4, <2>3, UnmovedTold DEF AllTold, MarkDirty
<1>5. CASE WriteSaid(q, m)
  <2>1. m # "other"
    BY <1>0, <1>5 DEF WriteSaid, PullsTypeOK, Listener
  <2>2. Said(q, m) \subseteq {"open"} \cup Ends
    BY <2>1 DEF Said, Messages, Resolved, Ends
  <2>3. PICK status \in Said(q, m) : prs' = Updated(q, status, First(q).ver, Unset)
    BY <1>5 DEF WriteSaid
  <2>4. Unset \in Stamp /\ First(q).ver \in 0 .. MaxEvents
    BY <1>0, FirstTyped, EventsAssumption DEF Unset, Stamp
  <2>5. \A p \in Prs : p # q => FaceKept(p)
    BY <1>0, <2>2, <2>3, <2>4, UpdateKeeps
  <2>6. /\ odd' = odd \cup {q} /\ \A p \in Prs : p # q => told'[p] = told[p]
        /\ UNCHANGED <<github, jobs, over>>
    BY <1>5 DEF WriteSaid, Excuse
  <2>7. \A p \in Prs : p # q => Unmoved(p)
    BY <2>5, <2>6 DEF Unmoved, Reads
  <2> QED BY <2>6, <2>7, UnmovedTold DEF AllTold
<1> QED BY <1>1, <1>2, <1>3, <1>4, <1>5

(* The requests of the user.                                               *)
LEMMA RequestTold ==
  ASSUME Phases, AllTold, NEW q \in Prs, NEW got \in SUBSET Prs,
         \/ Refresh(q) \/ SyncStream(q) \/ SyncAllPrs(q) \/ Ingest(q)
         \/ SyncMarked(got) \/ SyncEvery(got)
  PROVE  AllTold'
<1>0. PullsTypeOK /\ "dirty" \in Kinds /\ Phase("dirty")
  BY DEF Phases, Kinds
<1>1. ASSUME NEW who \in {"user", "view"}, NEW timed \in BOOLEAN, ReadNow(q, who, timed)
      PROVE  AllTold'
  <2>1. /\ odd' = odd \cup {q} /\ \A p \in Prs : p # q => told'[p] = told[p]
        /\ UNCHANGED <<github, prs, over>>
    BY <1>1 DEF ReadNow, Excuse
  <2>2. ASSUME NEW p \in Prs, p # q PROVE Unmoved(p)
    <3>1. ~Reads("dirty", p) /\ ~Reads("dirty", p)' /\ FaceKept(p)
      BY <1>0, <1>1, <2>1, <2>2, ReadNowDoes, RowsRest DEF Reads, Phase
    <3> QED BY <1>0, <1>1, <2>1, <2>2, <3>1, ReadNowDoes, JobMoves
  <2> QED BY <2>1, <2>2, UnmovedTold DEF AllTold
<1>2. CASE Ingest(q)
  <2>1. ASSUME NEW p \in Prs PROVE Unmoved(p)
    <3>1. ~Reads("dirty", p) /\ ~Reads("dirty", p)' /\ FaceKept(p)
      BY <1>0, <1>2, IngestDoes, RowsRest DEF Reads, Phase
    <3> QED BY <1>0, <1>2, <3>1, IngestDoes, JobMoves
  <2> QED BY <1>0, <1>2, <2>1, IngestDoes, UnmovedTold DEF AllTold
<1>3. CASE SyncMarked(got) \/ SyncEvery(got)
  <2>0. PICK pc \in {"busy", "every"}, ok \in SUBSET Prs :
          jobs'["dirty"] = Batch(pc, Answer(got), ok)
    BY <1>0, <1>3, SyncDoes
  <2>1. jobs'["dirty"].hand = None
    BY <1>0, <2>0, BatchOK DEF PullsTypeOK
  <2>2. ASSUME NEW p \in Prs PROVE Unmoved(p)
    <3>1. ~Reads("dirty", p) /\ ~Reads("dirty", p)' /\ FaceKept(p)
      BY <1>0, <1>3, <2>1, SyncDoes, RowsRest DEF Reads, Phase
    <3> QED BY <1>0, <1>3, <3>1, SyncDoes, JobMoves
  <2> QED BY <1>0, <1>3, <2>2, SyncDoes, UnmovedTold DEF AllTold
<1> QED BY <1>1, <1>2, <1>3 DEF Refresh, SyncStream, SyncAllPrs

(* A PR that nobody refreshes, or that discovery alone holds.              *)
LEMMA OthersOK ==
  ASSUME Phases, NEW p \in Prs
  PROVE  /\ Others("user", p) = {} => \A j \in Kinds : ~Reads(j, p)
         /\ \A j \in Kinds : Others(j, p) = {} => \A k \in Kinds : Reads(k, p) => k = j
BY DEF Others, Reads, Kinds

(* What linking or discovery inserts.                                      *)
LEMMA InsertTold ==
  ASSUME Phases, AllTold, NEW r \in Rows, NEW status \in {"open"} \cup Ends,
         prs' = Inserted(r, status), prs[r] # None \/ Last(r), over \subseteq over',
         github' = github, NEW P \in SUBSET {PrOf[r]}, Excuse(P),
         status \in Ends => PrOf[r] \in P,
         \A p \in Prs \ P : \A j \in Kinds : /\ Reads(j, p)' <=> Reads(j, p)
                                             /\ Reads(j, p) => jobs'[j].hand = jobs[j].hand,
         PrOf[r] \notin P => \A j \in Kinds : ~Reads(j, PrOf[r])
  PROVE  AllTold'
<1>0. PullsTypeOK /\ PrOf[r] \in Prs
  BY RowsAssumption DEF Phases
<1>1. odd' = odd \cup P /\ \A p \in Prs \ P : told'[p] = told[p]
  BY DEF Excuse
<1>2. ASSUME NEW p \in Prs \ P, p # PrOf[r] \/ Known(p)
      PROVE  Unmoved(p)
  <2>1. FaceKept(p)
    BY <1>0, <1>2, InsertKeeps
  <2> QED BY <1>1, <1>2, <2>1 DEF Unmoved
<1>3. ASSUME PrOf[r] \notin odd', ~Known(PrOf[r])
      PROVE  TellAt(PrOf[r])'
  <2> DEFINE p == PrOf[r]
  <2>1. p \in Prs \ odd /\ p \in Prs \ P /\ TellAt(p)
    BY <1>0, <1>1, <1>3 DEF AllTold
  <2>2. told'[p] = Untold
    BY <1>1, <1>3, <2>1, FirstOK DEF TellAt, Boss, Owner
  <2>3. First(p)'.status = status /\ status \notin Ends
    BY <1>0, <1>3, <2>1, InsertKeeps
  <2>4. \A j \in Kinds : ~Reads(j, p)'
    BY <2>1
  <2> HIDE DEF p
  <2>5. TellAt(p)'
    BY <2>1, <2>2, <2>3, <2>4, AnewTold
  <2> QED BY <2>5 DEF p
<1>4. ASSUME NEW p \in Prs, p \notin odd'
      PROVE  TellAt(p)'
  BY <1>1, <1>2, <1>3, <1>4, UnmovedTold DEF AllTold
<1> QED BY <1>4 DEF AllTold

(* The user's own writes, and a restart.                                   *)
LEMMA UseTold ==
  ASSUME Phases, AllTold,
         \/ \E r \in Rows : RemovePr(r) \/ \E status \in {"open"} \cup Ends : LinkPr(r, status)
         \/ Restart
  PROVE  AllTold'
<1>0. PullsTypeOK /\ told \in [Prs -> [Ends -> Nat]]
  BY DEF Phases, PullsTypeOK
<1>1. ASSUME NEW r \in Rows, NEW status \in {"open"} \cup Ends, LinkPr(r, status)
      PROVE  AllTold'
  <2> DEFINE P == EndedOrHeld("user", PrOf[r], status)
  <2>1. P \in SUBSET {PrOf[r]} /\ (status \in Ends => PrOf[r] \in P)
        /\ (PrOf[r] \notin P => Others("user", PrOf[r]) = {})
    BY DEF EndedOrHeld
  <2>2. prs' = Inserted(r, status) /\ Last(r) /\ Excuse(P) /\ github' = github /\ jobs' = jobs
    BY <1>1 DEF LinkPr
  <2> HIDE DEF P
  <2>3. over \subseteq over'
    BY <1>1 DEF LinkPr, Promoted
  <2>4. \A p \in Prs : \A j \in Kinds : /\ Reads(j, p)' <=> Reads(j, p)
                                        /\ Reads(j, p) => jobs'[j].hand = jobs[j].hand
    BY <2>2 DEF Reads
  <2>5. PrOf[r] \in Prs
    BY RowsAssumption
  <2>6. PrOf[r] \notin P => \A j \in Kinds : ~Reads(j, PrOf[r])
    BY <2>1, <2>5, OthersOK
  <2> QED BY <2>1, <2>2, <2>3, <2>4, <2>6, InsertTold
<1>2. ASSUME NEW r \in Rows, RemovePr(r)
      PROVE  AllTold'
  <2> DEFINE q == PrOf[r]
  <2>1. q \in Prs
    BY RowsAssumption
  <2>2. /\ prs' = [prs EXCEPT ![r] = None] /\ prs[r] # None /\ jobs' = jobs /\ over' = over
        /\ github' = github /\ odd \subseteq odd'
        /\ q \notin odd' => Others("user", q) = {} /\ ~Inherited(r)
    BY <1>2 DEF RemovePr
  <2>3. /\ told'[q] = IF r = FirstRow(q) THEN Untold ELSE told[q]
        /\ \A p \in Prs : p # q => told'[p] = told[p]
    BY <1>0, <1>2, <2>1 DEF RemovePr
  <2>4. ASSUME NEW p \in Prs, p # q \/ r # FirstRow(p)
        PROVE  Unmoved(p)
    <3>1. FaceKept(p)
      BY <1>0, <2>2, <2>4, RemoveKeeps
    <3> QED BY <2>2, <2>3, <2>4, <3>1 DEF Unmoved, Reads
  <2>5. ASSUME q \notin odd', r = FirstRow(q)
        PROVE  TellAt(q)'
    <3>1. \A j \in Kinds : ~Reads(j, q)'
      BY <2>1, <2>2, <2>5, OthersOK DEF Reads
    <3>2. ASSUME Boss(q)' # None
          PROVE  First(q)'.status \notin Ends
      <4>1. Known(q)' /\ TaskOf[FirstRow(q)'] # None
        BY <2>1, <3>2, FirstNextOK DEF Boss, Owner
      <4>2. FirstRow(q)' \in PrRows(q) \ {r} /\ First(q)'.status = prs[FirstRow(q)'].status
        BY <1>0, <2>2, <4>1, RemoveKeeps
      <4> QED BY <2>2, <2>5, <4>1, <4>2 DEF Inherited
    <3> HIDE DEF q
    <3> QED BY <2>1, <2>3, <2>5, <3>1, <3>2, AnewTold
  <2>6. ASSUME NEW p \in Prs, p \notin odd'
        PROVE  TellAt(p)'
    BY <2>2, <2>4, <2>5, <2>6, UnmovedTold DEF AllTold
  <2> QED BY <2>6 DEF AllTold
<1>3. CASE Restart
  <2>1. /\ UNCHANGED <<github, prs, over>> /\ odd \subseteq odd' /\ \A j \in Kinds : jobs'[j] = NoJob
        /\ \A p \in Prs : p \notin odd' =>
             told'[p] = told[p] /\ \A j \in Kinds : ~(jobs[j].hand # None /\ jobs[j].hand.pr = p)
    BY <1>3 DEF Restart, Excuse
  <2>2. ASSUME NEW p \in Prs, p \notin odd'
        PROVE  TellAt(p)'
    <3>1. \A j \in Kinds : ~Reads(j, p) /\ ~Reads(j, p)'
      BY <2>1, <2>2, NoJobOK DEF Reads
    <3>2. Unmoved(p)
      BY <2>1, <2>2, <3>1, RowsRest DEF Unmoved
    <3> QED BY <2>1, <2>2, <3>2, UnmovedTold DEF AllTold
  <2> QED BY <2>2 DEF AllTold
<1> QED BY <1>1, <1>2, <1>3

(* Take: what was fetched is no older than what the row was written with.  *)
LEMMA TakeTold ==
  ASSUME Phases, AllTold, NEW j \in Kinds, NEW q \in Prs, Take(j, q)
  PROVE  AllTold'
<1>0. PullsTypeOK /\ Phase(j) /\ Dated(j) /\ github \in [Prs -> Pr]
  BY DEF Phases, PullsTypeOK
<1>1. PICK item \in Pr : \E status \in Resolved(item.state) :
         LET b == jobs[j] IN
         /\ b.hand = None /\ item = b.items[q] /\ item # None
         /\ jobs'[j].pc = b.pc /\ jobs'[j].hand = Prepared(q, item, status)
         /\ \A p \in Prs : jobs'[j].items[p] = IF p = q THEN None ELSE b.items[p]
         /\ \A k \in Kinds : k # j => jobs'[k] = jobs[k]
         /\ Excuse(IF Others(j, q) # {} \/ Flaky(item) \/ Late(q, item) THEN {q} ELSE {})
  BY <1>0, TakeDoes
<1>2. PICK status \in Resolved(item.state) :
         /\ jobs[j].hand = None /\ item = jobs[j].items[q] /\ item # None
         /\ jobs'[j].pc = jobs[j].pc /\ jobs'[j].hand = Prepared(q, item, status)
         /\ \A k \in Kinds : k # j => jobs'[k] = jobs[k]
         /\ Excuse(IF Others(j, q) # {} \/ Flaky(item) \/ Late(q, item) THEN {q} ELSE {})
  BY <1>1
<1>3. UNCHANGED <<github, prs, over>> /\ FaceKept(q)
  BY SameRows DEF Take
<1>4. /\ odd \subseteq odd' /\ \A p \in Prs : p # q => told'[p] = told[p]
      /\ q \notin odd' => /\ Others(j, q) = {} /\ ~Flaky(item) /\ ~Late(q, item)
                          /\ told'[q] = told[q]
  BY <1>2 DEF Excuse
<1> DEFINE h == Prepared(q, item, status)
<1>5. /\ h.pr = q /\ h.row = FirstRow(q) /\ h.prev = First(q).status /\ h.status = status
      /\ h.ver = item.ver /\ ~h.wrote /\ h \in Hand
      /\ h.stamp # Unset => First(q).stamp = Unset
  BY <1>0, PreparedOK DEF Prepared, Unset
<1> HIDE DEF h
<1>6. ASSUME NEW p \in Prs, p # q PROVE Unmoved(p)
  <2>1. ~Reads(j, p) /\ ~Reads(j, p)' /\ FaceKept(p)
    BY <1>2, <1>3, <1>5, <1>6, RowsRest DEF Reads, h
  <2> QED BY <1>2, <1>3, <1>4, <1>6, <2>1, JobMoves
<1>7. ASSUME q \notin odd' PROVE TellAt(q)'
  <2>1. TellAt(q) /\ told'[q] = told[q]
    BY <1>4, <1>7 DEF AllTold
  <2>2. status = item.state
    BY <1>4, <1>7 DEF Flaky, Resolved
  <2>3. /\ item.ver <= github[q].ver
        /\ item.ver = github[q].ver \/ item.state = "merged" => item = github[q]
    BY <1>0, <1>2 DEF Dated
  <2>4. Boss(q) # None /\ First(q).status = "merged" => status = "merged"
    <3>1. ASSUME Boss(q) # None, First(q).status = "merged" PROVE status = "merged"
      <4>1. github[q].state = "merged" /\ First(q).ver = github[q].ver
        BY <2>1, <3>1 DEF TellAt
      <4>2. item.ver \in Nat /\ github[q].ver \in Nat /\ ~(item.ver < First(q).ver)
        BY <1>0, <1>4, <1>7, EventsAssumption DEF Pr, Late
      <4> QED BY <2>2, <2>3, <4>1, <4>2
    <3> QED BY <3>1
  <2>5. Boss(q)' = Boss(q) /\ FirstRow(q)' = FirstRow(q) /\ First(q)'.status = First(q).status
        /\ First(q)'.ver = First(q).ver /\ First(q)'.stamp = First(q).stamp
    BY <1>3 DEF FaceKept, Boss, Owner
  <2>6. \A k \in Kinds : ~Reads(k, q) /\ (Reads(k, q)' => k = j)
    BY <1>2, <1>4, <1>7 DEF Others, Reads
  <2>7. ReadOK(jobs[j].hand, q)' /\ ~jobs'[j].hand.wrote
    <3>1. jobs'[j].hand = h
      BY <1>2 DEF h
    <3>2. h.status = "merged" => github'[q].state = "merged" /\ h.ver = github'[q].ver
      BY <1>3, <1>5, <2>2, <2>3
    <3> QED BY <1>5, <2>4, <2>5, <3>1, <3>2 DEF ReadOK
  <2>8. ~Telling(q) /\ ~Telling(q)'
    BY <2>6, <2>7 DEF Telling
  <2>9. Boss(q) # None => Told(q, First(q).status, First(q).status)'
    <3>1. ASSUME Told(q, First(q).status, First(q).status)
          PROVE  Told(q, First(q).status, First(q).status)'
      BY <1>3, <2>1, <2>5, <3>1 DEF Told, Tells
    <3> QED BY <2>1, <2>8, <3>1 DEF TellAt
  <2>10. /\ Boss(q)' = None => told'[q] = Untold
         /\ Boss(q)' # None /\ First(q)'.status = "merged"
              => github'[q].state = "merged" /\ First(q)'.ver = github'[q].ver
    BY <1>3, <2>1, <2>5 DEF TellAt
  <2> QED BY <2>5, <2>6, <2>7, <2>8, <2>9, <2>10 DEF TellAt
<1>8. ASSUME NEW p \in Prs, p \notin odd' PROVE TellAt(p)'
  BY <1>4, <1>6, <1>7, <1>8, UnmovedTold DEF AllTold
<1> QED BY <1>8 DEF AllTold

(* Write: the row comes to say what the refresh tells next.                *)
LEMMA WriteTold ==
  ASSUME Phases, AllTold, NEW j \in Kinds, Write(j)
  PROVE  AllTold'
<1>0. PullsTypeOK /\ told \in [Prs -> [Ends -> Nat]]
  BY DEF Phases, PullsTypeOK
<1>h. PICK h \in Hand, w \in Hand, q \in Prs :
         /\ h = jobs[j].hand /\ w = jobs'[j].hand /\ q = h.pr
         /\ ~h.wrote /\ jobs[j].pc # "found" /\ jobs'[j].pc = jobs[j].pc
         /\ w.pr = h.pr /\ w.row = h.row /\ w.prev = h.prev
         /\ w.status = h.status /\ w.wrote /\ w.stamp = Unset
         /\ \A k \in Kinds : k # j => jobs'[k] = jobs[k]
  <2>1. \A g \in Hand : g.pr \in Prs
    BY DEF Hand
  <2> QED BY <1>0, <2>1, WriteDoes
<1>1. h # None /\ w # None
  BY NoneAssumption
<1>2. h.status \in {"open"} \cup Ends /\ h.ver \in 0 .. MaxEvents /\ h.stamp \in Stamp
  BY DEF Hand
<1>3. /\ prs' = Updated(q, h.status, h.ver, h.stamp) /\ UNCHANGED <<github, over, odd>>
      /\ told' = IF h.status = "open" THEN [told EXCEPT ![q] = Untold] ELSE told
  BY <1>h DEF Write
<1>4. /\ \A p \in Prs : p # q => told'[p] = told[p]
      /\ told'[q] = IF h.status = "open" THEN Untold ELSE told[q]
  BY <1>0, <1>3
<1>5. /\ \A p \in Prs : p # q => FaceKept(p)
      /\ FirstRow(q)' = FirstRow(q) /\ (Known(q)' <=> Known(q))
      /\ Known(q) => First(q)'.status = h.status /\ First(q)'.ver = h.ver
  BY <1>0, <1>2, <1>3, UpdateKeeps
<1>6. /\ Reads(j, q) /\ Reads(j, q)'
      /\ \A p \in Prs : p # q => ~Reads(j, p) /\ ~Reads(j, p)'
  BY <1>1, <1>h DEF Reads
<1>7. ASSUME NEW p \in Prs, p # q PROVE Unmoved(p)
  BY <1>h, <1>3, <1>4, <1>5, <1>6, <1>7, JobMoves
<1>8. ASSUME q \notin odd PROVE TellAt(q)'
  <2>1. TellAt(q)
    BY <1>8 DEF AllTold
  <2>2. \A k \in Kinds : (Reads(k, q) => k = j) /\ (Reads(k, q)' => k = j)
    <3>1. \A k \in Kinds : Reads(k, q) => k = j
      BY <1>6, <2>1 DEF TellAt
    <3>2. \A k \in Kinds : k # j => (Reads(k, q)' <=> Reads(k, q))
      BY <1>h DEF Reads
    <3> QED BY <3>1, <3>2
  <2>3. ReadOK(h, q)
    BY <1>6, <1>h, <2>1 DEF TellAt
  <2>4. Boss(q)' = Boss(q) /\ (Boss(q) # None => Known(q))
    BY <1>5, FirstOK DEF Boss, Owner
  <2>5. ~Telling(q) /\ Telling(q)'
    BY <1>h, <1>6, <2>2 DEF Telling
  <2>6. Boss(q) # None /\ h.status = "merged"
          => github'[q].state = "merged" /\ First(q)'.ver = github'[q].ver
    BY <1>h, <1>3, <1>5, <2>3, <2>4 DEF ReadOK
  <2>7. ReadOK(w, q)'
    BY <1>h, <1>5, <2>3 DEF ReadOK
  <2>8. ASSUME Boss(q) # None PROVE Told(q, w.prev, w.status)'
    <3> DEFINE a == First(q).status
               s == h.status
    <3>1. Told(q, a, a) /\ (a = "merged" => s = "merged") /\ w.prev = a /\ w.status = s
      BY <1>h, <2>1, <2>3, <2>5, <2>8 DEF TellAt, ReadOK
    <3>2. a \in {"none", "open"} \cup Ends /\ s \in {"open"} \cup Ends
      BY <1>0, <1>2, FirstTyped
    <3>3. told'[q] = IF s = "open" THEN Untold ELSE told[q]
      BY <1>4
    <3> HIDE DEF a, s
    <3>4. over' = over
      BY <1>3
    <3>5. \A e \in Ends : Untold[e] = 0
      BY DEF Untold
    <3>6. a \notin Ends => told[q] = Untold
      BY <3>1 DEF Told
    <3>7. CASE s = "open"
      BY <3>1, <3>3, <3>7 DEF Told, Ends, Tells
    <3>8. CASE s = "closed"
      <4>1. told'[q] = told[q] /\ a # "merged"
        BY <3>1, <3>3, <3>8
      <4>2. CASE a = "closed"
        BY <2>4, <3>1, <3>4, <3>8, <4>1, <4>2 DEF Told, Ends, Tells
      <4>3. CASE a \notin Ends
        BY <2>4, <3>1, <3>4, <3>5, <3>6, <3>8, <4>1, <4>3 DEF Told, Ends, Tells
      <4> QED BY <3>2, <4>1, <4>2, <4>3 DEF Ends
    <3>9. CASE s = "merged"
      <4>1. told'[q] = told[q]
        BY <3>3, <3>9
      <4>2. CASE a \in Ends
        BY <2>4, <3>1, <3>4, <3>9, <4>1, <4>2 DEF Told, Ends, Tells
      <4>3. CASE a \notin Ends
        BY <2>4, <3>1, <3>4, <3>5, <3>6, <3>9, <4>1, <4>3 DEF Told, Ends, Tells
      <4> QED BY <4>2, <4>3
    <3> QED BY <3>2, <3>7, <3>8, <3>9 DEF Ends
  <2>9. Boss(q) = None => told'[q] = Untold
    BY <1>4, <2>1 DEF TellAt
  <2>10. \A k \in Kinds : Reads(k, q)' => ReadOK(jobs[k].hand, q)'
    BY <1>h, <2>2, <2>7
  <2>11. Boss(q)' # None => \A k \in Kinds : Reads(k, q)' /\ jobs'[k].hand.wrote
                              => Told(q, jobs[k].hand.prev, jobs[k].hand.status)'
    BY <1>h, <2>2, <2>4, <2>8
  <2>12. Boss(q)' # None /\ First(q)'.status = "merged"
           => github'[q].state = "merged" /\ First(q)'.ver = github'[q].ver
    BY <1>5, <2>4, <2>6
  <2> QED BY <2>2, <2>4, <2>5, <2>9, <2>10, <2>11, <2>12 DEF TellAt
<1>9. ASSUME NEW p \in Prs, p \notin odd' PROVE TellAt(p)'
  BY <1>3, <1>7, <1>8, <1>9, UnmovedTold DEF AllTold
<1> QED BY <1>9 DEF AllTold

(* Follow: the agent is told, or has been before.                          *)
LEMMA FollowTold ==
  ASSUME Phases, AllTold, NEW j \in Kinds, Follow(j)
  PROVE  AllTold'
<1>0. PullsTypeOK /\ Phase(j) /\ told \in [Prs -> [Ends -> Nat]] /\ jobs[j] \in Job
  BY DEF Phases, PullsTypeOK
<1>h. PICK h \in Hand, q \in Prs :
         /\ h = jobs[j].hand /\ q = h.pr /\ h.wrote /\ jobs'[j].hand = None
         /\ \A k \in Kinds : k # j => jobs'[k] = jobs[k]
  <2>1. \A g \in Hand : g.pr \in Prs
    BY DEF Hand
  <2> QED BY <1>0, <2>1, FollowDoes
<1>1. h # None /\ h.status \in {"open"} \cup Ends
  BY NoneAssumption DEF Hand
<1> DEFINE t == Owner(IF h.row = None THEN FirstRow(q) ELSE h.row)
<1>2. /\ UNCHANGED <<github, prs, odd>>
      /\ told' = IF /\ jobs[j].pc \in {"busy", "every"} /\ t # None /\ t \notin over
                    /\ Tells(h.prev, h.status) /\ q \notin odd
                 THEN [told EXCEPT ![q][h.status] = @ + 1] ELSE told
      /\ over' = IF jobs[j].pc \in {"busy", "every"} THEN Promoted(t, prs) ELSE over
  BY <1>h DEF Follow
<1>3. over \subseteq over' /\ \A p \in Prs : FaceKept(p)
  BY <1>2, RowsRest DEF Promoted
<1>4. \A p \in Prs : p # q => told'[p] = told[p]
  BY <1>0, <1>2
<1>5. jobs[j].pc # "found" /\ jobs[j].pc # "idle"
  BY <1>0, <1>1, <1>h DEF Phase
<1>6. /\ Reads(j, q) /\ \A p \in Prs : ~Reads(j, p)'
      /\ \A p \in Prs : p # q => ~Reads(j, p)
  BY <1>1, <1>h, <1>5 DEF Reads
<1>7. ASSUME NEW p \in Prs, p # q PROVE Unmoved(p)
  BY <1>h, <1>2, <1>3, <1>4, <1>6, <1>7, JobMoves
<1>8. ASSUME q \notin odd PROVE TellAt(q)'
  <2>1. TellAt(q)
    BY <1>8 DEF AllTold
  <2>2. jobs[j].pc \in {"busy", "every"}
    BY <1>0, <1>1, <1>5, <1>8, <1>h DEF Phase, Job
  <2>3. ReadOK(h, q) /\ (Boss(q) # None => Told(q, h.prev, h.status))
    BY <1>h, <1>6, <2>1 DEF TellAt
  <2>4. t = Boss(q)
    BY <2>3 DEF ReadOK, Boss
  <2> HIDE DEF t
  <2>5. Boss(q)' = Boss(q) /\ First(q)'.status = First(q).status /\ First(q)'.ver = First(q).ver
    BY <1>3 DEF FaceKept, Boss, Owner
  <2>6. \A k \in Kinds : ~Reads(k, q)'
    <3>1. \A k \in Kinds : k # j => ~Reads(k, q)
      BY <1>6, <2>1 DEF TellAt
    <3>2. \A k \in Kinds : k # j => (Reads(k, q)' <=> Reads(k, q))
      BY <1>h DEF Reads
    <3> QED BY <1>6, <3>1, <3>2
  <2>7. ASSUME Boss(q) # None PROVE Told(q, First(q).status, First(q).status)'
    <3>1. First(q)'.status = h.status
      <4>1. Known(q)
        BY <2>7, FirstOK DEF Boss, Owner
      <4> QED BY <1>h, <2>3, <2>5, <4>1 DEF ReadOK
    <3>2. Told(q, h.prev, h.status)
      BY <2>3, <2>7
    <3>3. told' = IF Boss(q) \notin over /\ Tells(h.prev, h.status)
                  THEN [told EXCEPT ![q][h.status] = @ + 1] ELSE told
      BY <1>2, <1>8, <2>2, <2>4, <2>7
    <3>4. CASE h.status \notin Ends
      <4>1. told' = told
        BY <3>3, <3>4 DEF Tells, Ends
      <4> QED BY <3>1, <3>2, <3>4, <4>1 DEF Told
    <3>5. CASE h.status \in Ends /\ Boss(q) \notin over /\ Tells(h.prev, h.status)
      <4>1. told' = [told EXCEPT ![q] = [told[q] EXCEPT ![h.status] = @ + 1]]
        BY <3>3, <3>5
      <4>2. told'[q] = [told[q] EXCEPT ![h.status] = @ + 1] /\ told[q][h.status] = 0
        BY <1>0, <3>2, <3>5, <4>1 DEF Told
      <4>3. told'[q][h.status] = 1 /\ \A e \in Ends : e # h.status => told'[q][e] = told[q][e]
        BY <1>0, <3>5, <4>2
      <4> QED BY <2>5, <3>1, <3>2, <3>5, <4>3 DEF Told, Tells, Ends
    <3>6. CASE h.status \in Ends /\ ~(Boss(q) \notin over /\ Tells(h.prev, h.status))
      <4>1. told' = told /\ over \subseteq over'
        BY <1>3, <3>3, <3>6
      <4> QED BY <2>5, <3>1, <3>2, <3>6, <4>1 DEF Told, Tells, Ends
    <3> QED BY <3>4, <3>5, <3>6
  <2>8. Boss(q)' = None => told'[q] = Untold
    BY <1>2, <2>1, <2>4, <2>5 DEF TellAt
  <2>9. Boss(q)' # None /\ First(q)'.status = "merged"
          => github'[q].state = "merged" /\ First(q)'.ver = github'[q].ver
    BY <1>2, <2>1, <2>5 DEF TellAt
  <2> QED BY <2>5, <2>6, <2>7, <2>8, <2>9 DEF TellAt
<1>9. ASSUME NEW p \in Prs, p \notin odd' PROVE TellAt(p)'
  BY <1>2, <1>7, <1>8, <1>9, UnmovedTold DEF AllTold
<1> QED BY <1>9 DEF AllTold

(* The jobs' steps together.                                               *)
LEMMA JobTold ==
  ASSUME Phases, AllTold, NEW j \in Kinds, JobStep(j)
  PROVE  AllTold'
<1>0. PullsTypeOK /\ (\A k \in Kinds : Phase(k)) /\ github \in [Prs -> Pr] /\ jobs \in [Kinds -> Job]
  BY DEF Phases, PullsTypeOK
<1>1. ASSUME UNCHANGED <<github, over, told, odd>>, \A p \in Prs : FaceKept(p),
             jobs[j].hand = None, jobs'[j].hand = None,
             \A k \in Kinds : k # j => jobs'[k] = jobs[k]
      PROVE  AllTold'
  <2>1. \A p \in Prs : Unmoved(p)
    BY <1>1, JobMoves DEF Reads
  <2> QED BY <1>1, <2>1, UnmovedTold DEF AllTold
<1>2. ASSUME NEW got \in SUBSET Prs, Fetch(j, got) PROVE AllTold'
  <2>1. {} \in SUBSET Prs /\ jobs[j].hand = None /\ jobs' = [jobs EXCEPT ![j] = Batch("busy", Answer(got), {})]
    BY <1>0, <1>2 DEF Fetch, Phase
  <2>2. Batch("busy", Answer(got), {}) \in Job /\ Batch("busy", Answer(got), {}).hand = None
    BY <1>0, <2>1, BatchOK
  <2>3. jobs'[j].hand = None /\ \A k \in Kinds : k # j => jobs'[k] = jobs[k]
    BY <1>0, <2>1, <2>2, JobAfter
  <2> QED BY <1>1, <1>2, <2>1, <2>3, RowsRest DEF Fetch
<1>3. ASSUME NEW p \in Prs, Clear(j, p) PROVE AllTold'
  <2>1. \A q \in Prs : FaceKept(q)
    BY <1>0, <1>3, MarkKeeps DEF Clear
  <2>2. UNCHANGED <<github, over, told, odd>>
    BY <1>3 DEF Clear
  <2> QED BY <1>0, <1>1, <1>3, <2>1, <2>2, ClearDoes
<1>4. CASE EndFull(j)
  <2>1. jobs[j].hand = None /\ jobs' = [jobs EXCEPT ![j] = NoJob]
    BY <1>4 DEF EndFull, AllDone
  <2>2. jobs'[j].hand = None /\ \A k \in Kinds : k # j => jobs'[k] = jobs[k]
    BY <1>0, <2>1, NoJobOK, JobAfter
  <2> QED BY <1>1, <1>4, <2>1, <2>2, RowsRest DEF EndFull
<1>5. CASE j = "dirty" /\ IngestInsert
  <2>1. PICK h \in Hand : h = jobs["dirty"].hand
    BY <1>0, <1>5 DEF Phase, IngestInsert, Job
  <2> DEFINE P == EndedOrHeld("dirty", h.pr, h.status)
  <2>2. PICK r \in Matches(h.pr) : (prs[r] # None \/ Last(r)) /\ prs' = Inserted(r, h.status)
    BY <1>5, <2>1 DEF IngestInsert
  <2>3. r \in Rows /\ PrOf[r] = h.pr /\ h.status \in {"open"} \cup Ends /\ h.pr \in Prs
    BY DEF Matches, Hand
  <2>4. P \in SUBSET {h.pr} /\ (h.status \in Ends => h.pr \in P)
        /\ (h.pr \notin P => Others("dirty", h.pr) = {})
    BY DEF EndedOrHeld
  <2>5. /\ Excuse(P) /\ github' = github /\ over' = over /\ jobs["dirty"].pc = "found"
        /\ jobs' = [jobs EXCEPT !["dirty"] = NoJob]
    BY <1>5, <2>1 DEF IngestInsert
  <2>6. jobs'["dirty"] = NoJob /\ \A k \in Kinds : k # "dirty" => jobs'[k] = jobs[k]
    BY <1>0, <1>5, <2>5, NoJobOK, JobAfter
  <2> HIDE DEF P
  <2>7. ASSUME NEW p \in Prs, NEW k \in Kinds
        PROVE  (Reads(k, p)' <=> Reads(k, p)) /\ (Reads(k, p) => jobs'[k].hand = jobs[k].hand)
    <3>1. CASE k = "dirty"
      BY <2>5, <2>6, <3>1, NoJobOK DEF Reads
    <3>2. CASE k # "dirty"
      BY <2>6, <3>2 DEF Reads
    <3> QED BY <3>1, <3>2
  <2>8. h.pr \notin P => \A k \in Kinds : ~Reads(k, h.pr)
    <3>1. ~Reads("dirty", h.pr)
      BY <2>5 DEF Reads
    <3> QED BY <2>3, <2>4, <3>1, OthersOK DEF Kinds
  <2> QED BY <2>2, <2>3, <2>4, <2>5, <2>7, <2>8, InsertTold
<1> QED BY <1>2, <1>3, <1>4, <1>5, TakeTold, WriteTold, FollowTold DEF JobStep

(* It holds at the start and after every step.                             *)
LEMMA InitTold ==
  ASSUME PullsInit PROVE AllTold
<1>1. \A p \in Prs : told[p] = Untold /\ ~(\E j \in Kinds : Reads(j, p))
  BY NoJobOK DEF PullsInit, Reads
<1>2. \A p \in Prs : First(p).status \notin Ends
  <2>1. ASSUME NEW p \in Prs, Known(p) PROVE First(p).status \notin Ends
    <3>1. FirstRow(p) \in Rows /\ First(p) = prs[FirstRow(p)] /\ prs[FirstRow(p)] # None
      BY <2>1, FirstOK DEF PrRows
    <3>2. First(p) = NewRowOf("open")
      BY <3>1 DEF PullsInit
    <3> QED BY <3>2 DEF NewRowOf, NoRow, Ends
  <2>2. ASSUME NEW p \in Prs, ~Known(p) PROVE First(p).status \notin Ends
    BY <2>2, FirstOK DEF NoRow, Ends
  <2> QED BY <2>1, <2>2
<1>3. ASSUME NEW p \in Prs
      PROVE  Told(p, First(p).status, First(p).status) /\ First(p).status # "merged"
  BY <1>1, <1>2 DEF Told, Ends
<1> QED BY <1>1, <1>3 DEF AllTold, TellAt, Telling

LEMMA NextTold ==
  ASSUME Phases, AllTold, PullsNext \/ UNCHANGED pullVars PROVE AllTold'
<1>1. CASE UNCHANGED pullVars
  <2>1. /\ UNCHANGED <<github, over, told, odd, jobs, prs>>
    BY <1>1 DEF pullVars
  <2>2. \A p \in Prs : Unmoved(p)
    BY <2>1, RestMoves, RowsRest
  <2> QED BY <2>1, <2>2, UnmovedTold DEF AllTold
<1>2. "merged" \in Messages
  BY DEF Messages
<1> QED BY <1>1, <1>2, PullsCases, JobTold, OutsideTold, RequestTold, UseTold

-----------------------------------------------------------------------------
(* When a PR ended.                                                        *)

(* A write without a time keeps the time that is there.                    *)
LEMMA UntimedOK ==
  ASSUME NEW p \in Prs, First(p).stamp # Unset, NEW status
  PROVE  NewStamp(p, status, Unset) = First(p).stamp
BY DEF NewStamp

StampStays(p) ==
  First(p).stamp # Unset /\ FirstRow(p)' = FirstRow(p) => First(p)'.stamp = First(p).stamp

(* The time is given by a refresh only to a row that had none.             *)
LEMMA JobStamp ==
  ASSUME Phases, AllTold, NEW j \in Kinds, JobStep(j), NEW p \in Prs \ odd
  PROVE  StampStays(p)
<1>0. PullsTypeOK /\ (\A k \in Kinds : Phase(k)) /\ jobs[j] \in Job
  BY DEF Phases, PullsTypeOK
<1>1. CASE prs' = prs
  BY <1>1, SameRows DEF FaceKept, StampStays
<1>2. ASSUME NEW q \in Prs, Clear(j, q) PROVE StampStays(p)
  BY <1>0, <1>2, MarkKeeps DEF Clear, FaceKept, StampStays
<1>3. CASE Write(j)
  <2>1. PICK h \in Hand : h = jobs[j].hand /\ jobs[j].pc # "found" /\ ~h.wrote
    BY <1>0, <1>3, WriteDoes
  <2>2. /\ h.pr \in Prs /\ h.status \in {"open"} \cup Ends /\ h.ver \in 0 .. MaxEvents
        /\ h.stamp \in Stamp /\ prs' = Updated(h.pr, h.status, h.ver, h.stamp)
    BY <1>3, <2>1 DEF Hand, Write
  <2>3. CASE p # h.pr
    BY <1>0, <2>2, <2>3, UpdateKeeps DEF FaceKept, StampStays
  <2>4. CASE p = h.pr
    <3>1. ReadOK(h, p)
      BY <2>1, <2>4, NoneAssumption DEF AllTold, TellAt, Reads
    <3>2. First(p).stamp # Unset => h.stamp = Unset /\ Known(p)
      BY <2>1, <3>1, FirstOK DEF ReadOK, NoRow
    <3>3. Known(p) => First(p)'.stamp = NewStamp(p, h.status, h.stamp)
      BY <1>0, <2>2, <2>4, UpdateKeeps
    <3> QED BY <3>2, <3>3, UntimedOK DEF StampStays
  <2> QED BY <2>3, <2>4
<1>4. CASE j = "dirty" /\ IngestInsert
  <2>1. PICK h \in Hand : h = jobs["dirty"].hand
    BY <1>0, <1>4 DEF Phase, IngestInsert, Job
  <2>2. PICK r \in Matches(h.pr) : (prs[r] # None \/ Last(r)) /\ prs' = Inserted(r, h.status)
    BY <1>4, <2>1 DEF IngestInsert
  <2>3. r \in Rows /\ h.status \in {"open"} \cup Ends
    BY DEF Matches, Hand
  <2>4. First(p).stamp # Unset => Known(p)
    BY FirstOK DEF NoRow
  <2>5. Known(p) => FaceKept(p)
    BY <1>0, <2>2, <2>3, InsertKeeps
  <2> QED BY <2>4, <2>5 DEF FaceKept, StampStays
<1>5. prs' = prs \/ (\E q \in Prs : Clear(j, q)) \/ Write(j) \/ (j = "dirty" /\ IngestInsert)
  BY DEF JobStep, Fetch, Take, Follow, EndFull
<1> QED BY <1>1, <1>2, <1>3, <1>4, <1>5

(* Nobody else gives one.                                                  *)
LEMMA NextStamp ==
  ASSUME Phases, AllTold, PullsNext \/ UNCHANGED pullVars, NEW p \in Prs \ odd
  PROVE  StampStays(p)
<1>0. PullsTypeOK
  BY DEF Phases
<1>1. CASE prs' = prs
  BY <1>1, SameRows DEF FaceKept, StampStays
<1>2. ASSUME NEW q \in Prs, NEW m \in Messages, RefreshFails(q) \/ MarkDirty(q, m)
      PROVE  StampStays(p)
  BY <1>0, <1>2, MarkKeeps DEF RefreshFails, MarkDirty, FaceKept, StampStays
<1>3. ASSUME NEW q \in Prs, NEW m \in Messages, WriteSaid(q, m) PROVE StampStays(p)
  <2>1. m # "other"
    BY <1>0, <1>3 DEF WriteSaid, PullsTypeOK, Listener
  <2>2. Said(q, m) \subseteq {"open"} \cup Ends
    BY <2>1 DEF Said, Messages, Resolved, Ends
  <2>3. PICK status \in Said(q, m) : prs' = Updated(q, status, First(q).ver, Unset)
    BY <1>3 DEF WriteSaid
  <2>4. Unset \in Stamp /\ First(q).ver \in 0 .. MaxEvents
    BY <1>0, FirstTyped, EventsAssumption DEF Unset, Stamp
  <2>5. CASE p # q
    BY <1>0, <2>2, <2>3, <2>4, <2>5, UpdateKeeps DEF FaceKept, StampStays
  <2>6. CASE p = q
    <3>1. First(p).stamp # Unset => Known(p)
      BY FirstOK DEF NoRow
    <3>2. Known(p) => First(p)'.stamp = NewStamp(p, status, Unset)
      BY <1>0, <2>2, <2>3, <2>4, <2>6, UpdateKeeps
    <3> QED BY <3>1, <3>2, UntimedOK DEF StampStays
  <2> QED BY <2>5, <2>6
<1>4. ASSUME NEW r \in Rows, RemovePr(r) PROVE StampStays(p)
  <2>1. FaceKept(p) \/ FirstRow(p)' # FirstRow(p)
    BY <1>0, <1>4, RemoveKeeps DEF RemovePr
  <2> QED BY <2>1 DEF FaceKept, StampStays
<1>5. ASSUME NEW r \in Rows, NEW status \in {"open"} \cup Ends, LinkPr(r, status)
      PROVE  StampStays(p)
  <2>1. First(p).stamp # Unset => Known(p)
    BY FirstOK DEF NoRow
  <2>2. Known(p) => FaceKept(p)
    BY <1>0, <1>5, InsertKeeps DEF LinkPr
  <2> QED BY <2>1, <2>2 DEF FaceKept, StampStays
<1>6. "merged" \in Messages
  BY DEF Messages
<1>7. ASSUME NEW q \in Prs, NEW got \in SUBSET Prs,
             \/ Edit(q) \/ Poll(q) \/ Refresh(q) \/ SyncStream(q) \/ SyncAllPrs(q) \/ Ingest(q)
             \/ SyncMarked(got) \/ SyncEvery(got)
      PROVE  prs' = prs
  BY <1>7 DEF Edit, Poll, Refresh, SyncStream, SyncAllPrs, ReadNow, Ingest, SyncMarked, SyncEvery
<1>8. CASE Restart \/ UNCHANGED pullVars
  BY <1>1, <1>8 DEF Restart, pullVars
<1> QED BY <1>1, <1>2, <1>3, <1>4, <1>5, <1>6, <1>7, <1>8, PullsCases, JobStamp

-----------------------------------------------------------------------------
(* The two caches together.                                                *)

(* A step is one of the cache that runs, and leaves the other alone.       *)
LEMMA EitherStep ==
  ASSUME [GitHubNext]_all
  PROVE  /\ PullsNext \/ UNCHANGED pullVars
         /\ [ReviewsNext]_rvars
         /\ cache' = cache
BY DEF GitHubNext, all

InvariantOfBoth == cache \in {"pulls", "reviews"} /\ Phases /\ AllTold /\ Types

LEMMA BothKept ==
  ASSUME Bounds, NoneIsNoRow PROVE GitHubSpec => []InvariantOfBoth
<1>1. GitHubInit => InvariantOfBoth
  BY InitPhases, InitTold, InitTypes DEF GitHubInit, InvariantOfBoth
<1>2. InvariantOfBoth /\ [GitHubNext]_all => InvariantOfBoth'
  BY EitherStep, NextPhases, NextTold, NextTypes DEF InvariantOfBoth
<1> QED BY <1>1, <1>2, PTL DEF GitHubSpec

(* The tables, the jobs' memory and the requests keep their types, for any *)
(* number of PRs, rows, tasks and events.                                  *)
THEOREM CachesTyped ==
  ASSUME Bounds, NoneIsNoRow PROVE GitHubSpec => []GitHubTypeOK
<1>1. InvariantOfBoth => GitHubTypeOK
  BY DEF InvariantOfBoth, GitHubTypeOK, Phases, Types
<1> QED BY <1>1, BothKept, PTL

(* "Once set ... we never rewrite it" (eva_db.py:1357): as long as the     *)
(* first row of a PR is the same, the time at which it ended stays,        *)
(* whoever writes the row (update_pr_status and map_gh_pr_to_updates) and  *)
(* whatever is linked, unlinked and marked meanwhile.                      *)
THEOREM EndTimesStay ==
  ASSUME Bounds, NoneIsNoRow PROVE GitHubSpec => StampKept
<1>1. InvariantOfBoth /\ [GitHubNext]_all =>
        [\A p \in Prs \ odd : First(p).stamp # Unset /\ FirstRow(p)' = FirstRow(p)
                                => First(p)'.stamp = First(p).stamp]_pvars
  BY EitherStep, NextStamp DEF InvariantOfBoth, StampStays
<1> QED BY <1>1, BothKept, PTL DEF GitHubSpec, StampKept

(* Of the end of a PR the agent of its task is told once and not again     *)
(* (_update_pr_from_gh, prs.py:979-1004), however often the two ticks see  *)
(* it and whatever else is linked, marked or asked for in between.         *)
THEOREM EndToldOnce ==
  ASSUME Bounds, NoneIsNoRow PROVE GitHubSpec => []EndTold
<1>1. ASSUME AllTold PROVE EndTold
  <2> SUFFICES ASSUME NEW p \in Prs \ odd, Owner(FirstRow(p)) # None,
                      Owner(FirstRow(p)) \notin over, First(p).status \in Ends,
                      \A j \in Kinds : jobs[j].hand = None
               PROVE  told[p][First(p).status] = 1
    BY DEF EndTold
  <2>1. Told(p, First(p).status, First(p).status)
    BY <1>1 DEF AllTold, TellAt, Telling, Reads, Boss
  <2> QED BY <2>1 DEF Told, Tells, Boss, Ends
<1>2. InvariantOfBoth => EndTold
  BY <1>1 DEF InvariantOfBoth
<1> QED BY <1>2, BothKept, PTL

(* What the two caches promise each for itself they promise together:  a   *)
(* pin (prs.py:264) and a removal (prs.py:289, :488, :591) survive the     *)
(* syncs whether the scheduler's jobs for PRs run beside them or not.      *)
THEOREM QueueKept ==
  ASSUME Bounds, NoneIsNoRow PROVE GitHubSpec => []PinKept /\ []RemovedStaysOut
<1>1. GitHubInit => ReviewsInit
  BY DEF GitHubInit
<1>2. [GitHubNext]_all => [ReviewsNext]_rvars
  BY EitherStep
<1>3. GitHubSpec => ReviewsInit /\ [][ReviewsNext]_rvars
  BY <1>1, <1>2, PTL DEF GitHubSpec
<1> QED BY <1>3, PinsStay, RemovedGone, PTL
=============================================================================

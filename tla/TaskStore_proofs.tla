-------------------------- MODULE TaskStore_proofs --------------------------
(***************************************************************************)
(* What holds of the tasks for any number of ids, threads, requests and    *)
(* restarts.                                                               *)
(***************************************************************************)
EXTENDS TaskStore, FiniteSetTheorems, SequenceTheorems, TLAPS

(* A function on 1 .. n is a sequence.                                     *)
LEMMA FunctionIsSeq ==
  ASSUME NEW S, NEW n \in Nat, NEW f \in [1 .. n -> S] PROVE f \in Seq(S)
BY SeqDef

(* What the fields of a request hold, by its kind.                         *)
LEMMA RequestOK ==
  ASSUME NEW r \in Request
  PROVE  /\ r.id \in Ids
         /\ r.kind \in {"create", "smart", "update", "check", "delete", "note", "open", "rename",
                        "move", "depend", "undepend", "pr"}
         /\ r.kind \in {"create", "smart"} =>
              r.deps \subseteq Ids /\ r.project \in Projects /\ r.status \in Statuses
         /\ r.kind = "smart" => r.ticket \in BOOLEAN /\ r.notes \in BOOLEAN
         /\ r.kind \in {"update", "check"} => r.change \in Change
         /\ r.kind = "rename" => r.to \in Ids
         /\ r.kind = "move" => r.to \in Projects
         /\ r.kind \in {"depend", "undepend"} => r.on \in Ids
         /\ r.kind = "pr" => r.number \in Numbers /\ r.status \in PrStatuses
BY DEF Request

(* A status is put into a request of check_status.                         *)
LEMMA DecidedOK ==
  ASSUME NEW r \in Request, r.kind = "check", NEW s \in Statuses \cup {NoStatus}
  PROVE  /\ [r EXCEPT !.change.status = s] \in Request
         /\ [r EXCEPT !.change.status = s].id = r.id
         /\ [r EXCEPT !.change.status = s].kind = "check"
         /\ [r EXCEPT !.change.status = s].change.status = s
<1>1. r \in [kind : {"update", "check"}, id : Ids, change : Change]
  BY DEF Request
<1>2. [r.change EXCEPT !.status = s] \in Change
  BY <1>1 DEF Change
<1>3. [r EXCEPT !.change.status = s] \in [kind : {"update", "check"}, id : Ids, change : Change]
  BY <1>1, <1>2
<1> QED BY <1>1, <1>3 DEF Request, Change

(* A status that check_status detects is one of a row.                     *)
LEMMA DetectedOK ==
  ASSUME NEW i PROVE Detected(i) \in Statuses \cup {NoStatus}
BY DEF Detected, DetectedStatus, SuggestStatus, Statuses, NoStatus

(* The request that an idle thread has in hand is one.                     *)
LEMMA IdleOK == Idle \in Worker /\ NoSnap \in Row
<1>1. (CHOOSE r \in Requests : TRUE) \in Request
  BY RequestsAssumption
<1>2. (CHOOSE p \in Projects : TRUE) \in Projects
  BY FoldersAssumption
<1>3. NoSnap \in Row
  BY <1>2 DEF NoSnap, Row, Statuses
<1> QED BY <1>1, <1>3 DEF Idle, Worker

(* What a smart create has left to do is requests about the same task.     *)
RestOf(id) == {x \in Request : x.id = id /\ x.kind \in {"update", "depend"}}
LEMMA RestOK ==
  ASSUME NEW r \in Request
  PROVE  /\ Rest(r) \in Seq(Request)
         /\ \A k \in DOMAIN Rest(r) : /\ Rest(r)[k].id = r.id
                                      /\ Rest(r)[k].kind \in {"update", "depend"}
         /\ r.kind # "smart" => Rest(r) = <<>>
<1>1. CASE r.kind # "smart"
  BY <1>1 DEF Rest
<1>2. CASE r.kind = "smart"
  <2> DEFINE P    == RestOf(r.id)
             n    == Cardinality(r.deps)
             seq  == SetToSeq(r.deps)
             then == [i \in 1 .. n |-> [kind |-> "depend", id |-> r.id, on |-> seq[i]]]
  <2>1. /\ If(r.ticket, <<Put(r.id, "set")>>) \in Seq(P)
        /\ If(r.notes, <<Put(r.id, "keep")>>) \in Seq(P)
    <3>1. \A x \in {"set", "keep"} : Put(r.id, x) \in P
      BY RequestOK DEF Put, Request, Change, RestOf
    <3> HIDE DEF P
    <3>2. \A c \in BOOLEAN, x \in P : If(c, <<x>>) \in Seq(P)
      BY EmptySeq DEF If
    <3> QED BY <1>2, <3>1, <3>2, RequestOK
  <2>2. IsFiniteSet(r.deps) /\ n \in Nat
    BY <1>2, IdsAssumption, RequestOK, FS_Subset, FS_CardinalityType
  <2>3. \A i \in 1 .. n : seq[i] \in r.deps
    <3>1. \E f \in [1 .. n -> r.deps] : IsInjective(f)
      BY <2>2, FS_CardinalityType DEF ExistsBijection, Bijection, Injection, IsInjective
    <3> QED BY <3>1 DEF SetToSeq
  <2>4. \A i \in 1 .. n : then[i] \in P
    BY <1>2, <2>3, RequestOK DEF Request, RestOf
  <2>5. then \in Seq(P)
    <3>1. then \in [1 .. n -> P]
      BY <2>4
    <3> HIDE DEF then, P
    <3> QED BY <2>2, <3>1, FunctionIsSeq
  <2>6. Rest(r) = If(r.ticket, <<Put(r.id, "set")>>) \o If(r.notes, <<Put(r.id, "keep")>>) \o then
    BY <1>2 DEF Rest
  <2> HIDE DEF then, n
  <2>7. Rest(r) \in Seq(P)
    BY <2>1, <2>5, <2>6, ConcatProperties
  <2>8. \A k \in DOMAIN Rest(r) : Rest(r)[k] \in P
    BY <2>7, LenProperties, ElementOfSeq
  <2>9. Rest(r) \in Seq(Request)
    <3>1. Len(Rest(r)) \in Nat /\ Rest(r) \in [1 .. Len(Rest(r)) -> P] /\ DOMAIN Rest(r) = 1 .. Len(Rest(r))
      BY <2>7, LenProperties
    <3>2. Rest(r) \in [1 .. Len(Rest(r)) -> Request]
      BY <2>8, <3>1 DEF RestOf
    <3> QED BY <3>1, <3>2, FunctionIsSeq
  <2> QED BY <1>2, <2>8, <2>9 DEF RestOf
<1> QED BY <1>1, <1>2

-----------------------------------------------------------------------------
(* How the steps of a plan follow each other.  What a statement executed   *)
(* is committed by the next step, or by the one after dropHistory or pr;   *)
(* what changes a board is followed by an event, or by the step that plans *)
(* one; some steps only begin a plan, and some replace one that has no     *)
(* event; each step belongs to some requests.                              *)
Executing == {"insert", "save", "note", "dropHistory", "dropSession", "newSession",
              "depend", "undepend", "pr", "touch", "promote", "open"}
Then(s)   == IF s = "pr" THEN "touch" ELSE "commit"
Showing   == {"insert", "save", "savedeps", "setdeps", "depend", "undepend", "promote"}
First     == {"insert", "look", "drop", "rename", "session", "move", "note", "open",
              "depend", "undepend", "pr", "promote"}
Belongs(s, kind) ==
  /\ s = "insert" => kind \in {"create", "smart"}
  /\ s \in {"look", "save", "savedeps"} => kind \in {"update", "check"}
  /\ s = "setdeps" => kind \in {"create", "update"}
  /\ s = "result" => kind = "update"
  /\ s \in {"drop", "dropHistory"} => kind = "delete"
  /\ s = "dropSession" => kind \in {"delete", "rename"}
  /\ s \in {"rename", "session", "newSession"} => kind = "rename"
  /\ s = "note" => kind \in {"note", "move", "update", "pr"}
  /\ s \in {"move", "depend", "undepend", "pr", "open"} => kind = s
  /\ s \in {"touch", "seek", "suggest", "promote", "record"} => kind = "pr"
Replanned == {"drop", "rename", "session", "move", "seek", "suggest"}
PlanFits(plan, kind) ==
  \A n \in DOMAIN plan :
    /\ Belongs(plan[n], kind)
    /\ plan[n] \in First => n = 1
    /\ plan[n] \in Executing => n + 1 \in DOMAIN plan /\ plan[n + 1] = Then(plan[n])
    /\ plan[n] = "drop" => n + 1 \in DOMAIN plan /\ plan[n + 1] = "dropHistory"
    /\ plan[n] = "look" => n + 1 \in DOMAIN plan /\ plan[n + 1] = "save"
    /\ plan[n] = "save" => n = 1 \/ plan[n - 1] = "look"
    /\ plan[n] \in Replanned => \A m \in DOMAIN plan : plan[m] \notin {"emit", "result"}
    /\ plan[n] \in Showing /\ kind # "check" =>
         \E m \in DOMAIN plan : m > n /\ plan[m] \in {"emit", "result"}
    /\ plan[n] = "dropHistory" => n = 1 \/ plan[n - 1] = "drop"
    /\ plan[n] = "save" /\ kind = "update" => \E m \in DOMAIN plan : m > n /\ plan[m] = "result"
    /\ plan[n] \in {"note", "pr"} => \A m \in DOMAIN plan : plan[m] \notin {"result", "record"}
    /\ plan[n] = "promote" => \E m \in DOMAIN plan : plan[m] = "record"
TodoFits(w) ==
  /\ \A k \in DOMAIN w.todo : w.todo[k].id = w.req.id /\ w.todo[k].kind \in {"update", "depend"}
  /\ w.todo # <<>> => w.req.kind \in {"smart", "update", "depend"}
Fits(w) ==
  /\ PlanFits(w.plan, w.req.kind)
  /\ TodoFits(w)
  /\ w.to # NoStatus => w.req.kind \in {"update", "pr"}
  /\ w.plan # <<>> /\ Head(w.plan) = "promote" => w.to # NoStatus
Save(t) == Update(t) \/ Recreate(t)

(* What follows the first step of a plan fits as the plan does.            *)
LEMMA TailFits ==
  ASSUME NEW plan \in Seq(Steps), plan # <<>>, NEW kind, PlanFits(plan, kind)
  PROVE  /\ Tail(plan) \in Seq(Steps) /\ Head(plan) \in Steps /\ Head(plan) = plan[1]
         /\ 1 \in DOMAIN plan
         /\ PlanFits(Tail(plan), kind)
         /\ DOMAIN Tail(plan) = 1 .. Len(plan) - 1
         /\ \A n \in DOMAIN Tail(plan) : n + 1 \in DOMAIN plan /\ Tail(plan)[n] = plan[n + 1]
         /\ \A n \in DOMAIN plan : n # 1 => n - 1 \in DOMAIN Tail(plan) /\ Tail(plan)[n - 1] = plan[n]
<1>1. /\ Tail(plan) \in Seq(Steps) /\ Head(plan) \in Steps /\ Len(Tail(plan)) = Len(plan) - 1
      /\ \A n \in 1 .. Len(Tail(plan)) : Tail(plan)[n] = plan[n + 1]
      /\ Head(plan) = plan[1] /\ Len(plan) \in Nat \ {0}
  BY HeadTailProperties, EmptySeq
<1>2. /\ DOMAIN Tail(plan) = 1 .. Len(plan) - 1
      /\ DOMAIN plan = 1 .. Len(plan)
  BY <1>1, LenProperties
<1>3. /\ \A n \in DOMAIN Tail(plan) : n + 1 \in DOMAIN plan /\ Tail(plan)[n] = plan[n + 1]
      /\ \A n \in DOMAIN plan : n # 1 => n - 1 \in DOMAIN Tail(plan) /\ Tail(plan)[n - 1] = plan[n]
  BY <1>1, <1>2
<1>4. ASSUME NEW n \in DOMAIN Tail(plan)
      PROVE  /\ Belongs(Tail(plan)[n], kind)
             /\ Tail(plan)[n] \in First => n = 1
             /\ Tail(plan)[n] \in Executing =>
                  n + 1 \in DOMAIN Tail(plan) /\ Tail(plan)[n + 1] = Then(Tail(plan)[n])
             /\ Tail(plan)[n] \notin {"drop", "look", "promote"}
             /\ Tail(plan)[n] = "save" => n = 1 \/ Tail(plan)[n - 1] = "look"
             /\ Tail(plan)[n] = "save" /\ kind = "update" =>
                  \E m \in DOMAIN Tail(plan) : m > n /\ Tail(plan)[m] = "result"
             /\ Tail(plan)[n] \in Replanned =>
                  \A m \in DOMAIN Tail(plan) : Tail(plan)[m] \notin {"emit", "result"}
             /\ Tail(plan)[n] \in Showing /\ kind # "check" =>
                  \E m \in DOMAIN Tail(plan) : m > n /\ Tail(plan)[m] \in {"emit", "result"}
             /\ Tail(plan)[n] = "dropHistory" => n = 1 \/ Tail(plan)[n - 1] = "drop"
             /\ Tail(plan)[n] \notin {"note", "pr"}
  <2>1. n \in Nat /\ n >= 1 /\ n + 1 \in DOMAIN plan /\ Tail(plan)[n] = plan[n + 1]
    BY <1>2, <1>3
  <2>2. /\ Belongs(plan[n + 1], kind)
        /\ plan[n + 1] \notin First
        /\ plan[n + 1] \in Executing => n + 2 \in DOMAIN plan /\ plan[n + 2] = Then(plan[n + 1])
        /\ plan[n + 1] \in Replanned => \A m \in DOMAIN plan : plan[m] \notin {"emit", "result"}
        /\ plan[n + 1] \in Showing /\ kind # "check" =>
             \E m \in DOMAIN plan : m > n + 1 /\ plan[m] \in {"emit", "result"}
        /\ plan[n + 1] = "save" /\ kind = "update" =>
             \E m \in DOMAIN plan : m > n + 1 /\ plan[m] = "result"
    BY <2>1 DEF PlanFits, First
  <2>3. n + 2 \in DOMAIN plan => n + 1 \in DOMAIN Tail(plan) /\ Tail(plan)[n + 1] = plan[n + 2]
    BY <1>2, <1>3, <2>1
  <2>4. \A m \in DOMAIN plan : m > n + 1 => /\ m - 1 \in DOMAIN Tail(plan) /\ m - 1 > n
                                            /\ Tail(plan)[m - 1] = plan[m]
    BY <1>2, <1>3, <2>1
  <2>5. plan[n + 1] = "dropHistory" => n = 1 \/ Tail(plan)[n - 1] = "drop"
    <3>1. plan[n + 1] = "dropHistory" => n + 1 = 1 \/ plan[n + 1 - 1] = "drop"
      BY <2>1 DEF PlanFits
    <3>2. n # 1 => n - 1 \in DOMAIN Tail(plan) /\ Tail(plan)[n - 1] = plan[n]
      BY <1>2, <1>3, <2>1
    <3> QED BY <2>1, <3>1, <3>2
  <2>6. plan[n + 1] = "save" => n = 1 \/ Tail(plan)[n - 1] = "look"
    <3>1. plan[n + 1] = "save" => n + 1 = 1 \/ plan[n + 1 - 1] = "look"
      BY <2>1 DEF PlanFits
    <3>2. n # 1 => n - 1 \in DOMAIN Tail(plan) /\ Tail(plan)[n - 1] = plan[n]
      BY <1>2, <1>3, <2>1
    <3> QED BY <2>1, <3>1, <3>2
  <2>7. plan[n + 1] \in Replanned => \A m \in DOMAIN Tail(plan) : Tail(plan)[m] \notin {"emit", "result"}
    BY <1>3, <2>2
  <2> QED BY <2>1, <2>2, <2>3, <2>4, <2>5, <2>6, <2>7 DEF First
<1> QED BY <1>1, <1>2, <1>3, <1>4 DEF PlanFits

(* The plans of the requests.                                              *)
LEMMA PlansFit ==
  /\ \A kind : PlanFits(<<>>, kind)
  /\ \A kind \in {"create", "smart"} : PlanFits(<<"insert", "commit", "emit">>, kind)
  /\ PlanFits(<<"insert", "commit", "setdeps", "emit">>, "create")
  /\ PlanFits(<<"look", "save", "commit", "savedeps", "setdeps", "result">>, "update")
  /\ PlanFits(<<"look", "save", "commit", "savedeps", "result">>, "update")
  /\ PlanFits(<<"look", "save", "commit", "savedeps">>, "check")
  /\ PlanFits(<<"drop", "dropHistory", "commit">>, "delete")
  /\ PlanFits(<<"dropHistory", "commit">>, "delete")
  /\ PlanFits(<<"dropHistory", "commit", "dropSession", "commit", "emit">>, "delete")
  /\ PlanFits(<<"rename">>, "rename")
  /\ PlanFits(<<"session">>, "rename")
  /\ PlanFits(<<"dropSession", "commit", "newSession", "commit">>, "rename")
  /\ PlanFits(<<"move">>, "move")
  /\ \A kind \in {"move", "note", "update"} : PlanFits(<<"note", "commit", "emit">>, kind)
  /\ \A kind \in {"depend", "undepend"} : PlanFits(<<kind, "commit", "emit">>, kind)
  /\ PlanFits(<<"open", "commit">>, "open")
  /\ PlanFits(<<"pr", "touch", "commit", "seek", "suggest">>, "pr")
  /\ PlanFits(<<"suggest">>, "pr")
  /\ PlanFits(<<"note", "commit", "suggest">>, "pr") /\ PlanFits(<<"note", "commit", "emit">>, "pr")
  /\ PlanFits(<<"promote", "commit", "record", "emit">>, "pr")
  /\ \A kind \in {"update", "pr"} : PlanFits(<<"emit">>, kind)
BY DEF PlanFits, Belongs, First, Executing, Then, Showing, Replanned

(* The plans are sequences of steps that begin with none that ends one.    *)
LEMMA PlansStep ==
  /\ <<"insert", "commit", "emit">> \in Seq(Steps) /\ Head(<<"insert", "commit", "emit">>) = "insert"
  /\ <<"insert", "commit", "setdeps", "emit">> \in Seq(Steps) /\ Head(<<"insert", "commit", "setdeps", "emit">>) = "insert"
  /\ <<"look", "save", "commit", "savedeps", "setdeps", "result">> \in Seq(Steps)
       /\ Head(<<"look", "save", "commit", "savedeps", "setdeps", "result">>) = "look"
  /\ <<"look", "save", "commit", "savedeps", "result">> \in Seq(Steps) /\ Head(<<"look", "save", "commit", "savedeps", "result">>) = "look"
  /\ <<"look", "save", "commit", "savedeps">> \in Seq(Steps) /\ Head(<<"look", "save", "commit", "savedeps">>) = "look"
  /\ <<"drop", "dropHistory", "commit">> \in Seq(Steps) /\ Head(<<"drop", "dropHistory", "commit">>) = "drop"
  /\ <<"rename">> \in Seq(Steps) /\ Head(<<"rename">>) = "rename"
  /\ <<"move">> \in Seq(Steps) /\ Head(<<"move">>) = "move"
  /\ <<"depend", "commit", "emit">> \in Seq(Steps) /\ Head(<<"depend", "commit", "emit">>) = "depend"
  /\ <<"undepend", "commit", "emit">> \in Seq(Steps) /\ Head(<<"undepend", "commit", "emit">>) = "undepend"
  /\ <<"note", "commit", "emit">> \in Seq(Steps) /\ Head(<<"note", "commit", "emit">>) = "note"
  /\ <<"pr", "touch", "commit", "seek", "suggest">> \in Seq(Steps)
       /\ Head(<<"pr", "touch", "commit", "seek", "suggest">>) = "pr"
  /\ <<"suggest">> \in Seq(Steps) /\ Head(<<"suggest">>) = "suggest"
  /\ <<"note", "commit", "suggest">> \in Seq(Steps) /\ Head(<<"note", "commit", "suggest">>) = "note"
  /\ <<"promote", "commit", "record", "emit">> \in Seq(Steps)
       /\ Head(<<"promote", "commit", "record", "emit">>) = "promote"
  /\ <<"open", "commit">> \in Seq(Steps) /\ Head(<<"open", "commit">>) = "open"
  /\ <<"session">> \in Seq(Steps) /\ Head(<<"session">>) = "session"
  /\ <<"dropSession", "commit", "newSession", "commit">> \in Seq(Steps) /\ Head(<<"dropSession", "commit", "newSession", "commit">>) = "dropSession"
  /\ <<"dropHistory", "commit">> \in Seq(Steps) /\ Head(<<"dropHistory", "commit">>) = "dropHistory"
  /\ <<"dropHistory", "commit", "dropSession", "commit", "emit">> \in Seq(Steps) /\ Head(<<"dropHistory", "commit", "dropSession", "commit", "emit">>) = "dropHistory"
  /\ <<"emit">> \in Seq(Steps) /\ Head(<<"emit">>) = "emit"
BY DEF Steps

(* What a request plans, by its kind.                                      *)
LEMMA PlanIs ==
  ASSUME NEW r \in Request
  PROVE  \/ Plan(r) = <<>>
         \/ r.kind = "create" /\ Plan(r) \in {<<"insert", "commit", "emit">>,
                                            <<"insert", "commit", "setdeps", "emit">>}
         \/ r.kind = "smart" /\ Plan(r) = <<"insert", "commit", "emit">>
         \/ r.kind = "update" /\ Exists(r.id)
              /\ Plan(r) \in {<<"look", "save", "commit", "savedeps", "setdeps", "result">>,
                             <<"look", "save", "commit", "savedeps", "result">>}
         \/ r.kind = "check" /\ Exists(r.id) /\ Plan(r) = <<"look", "save", "commit", "savedeps">>
         \/ r.kind = "delete" /\ Exists(r.id) /\ Deletable(r.id)
              /\ Plan(r) = <<"drop", "dropHistory", "commit">>
         \/ r.kind = "rename" /\ Plan(r) = <<"rename">>
         \/ r.kind = "move" /\ Exists(r.id) /\ Plan(r) = <<"move">>
         \/ r.kind = "depend" /\ Plan(r) = <<"depend", "commit", "emit">>
         \/ r.kind = "undepend" /\ Plan(r) = <<"undepend", "commit", "emit">>
         \/ r.kind = "note" /\ Exists(r.id) /\ Plan(r) = <<"note", "commit", "emit">>
         \/ r.kind = "pr" /\ Exists(r.id) /\ Plan(r) = <<"pr", "touch", "commit", "seek", "suggest">>
         \/ r.kind = "open" /\ Exists(r.id) /\ Plan(r) = <<"open", "commit">>
<1>1. CASE r.kind = "create"
  <2>1. Plan(r) = CreatePlan(r)
    BY <1>1 DEF Plan
  <2>2. CreatePlan(r) \in {<<>>, <<"insert", "commit", "emit">>, <<"insert", "commit", "setdeps", "emit">>}
    BY DEF CreatePlan, Creates, If
  <2> QED BY <1>1, <2>1, <2>2
<1>2. CASE r.kind = "smart"
  BY <1>2 DEF Plan, SmartPlan, If
<1>3. CASE r.kind = "update"
  <2>1. Plan(r) = UpdatePlan(r)
    BY <1>3 DEF Plan
  <2>2. \/ UpdatePlan(r) = <<>>
        \/ /\ Exists(r.id)
           /\ UpdatePlan(r) \in {<<"look", "save", "commit", "savedeps", "setdeps", "result">>,
                                <<"look", "save", "commit", "savedeps", "result">>}
    BY DEF UpdatePlan, If, Saves
  <2> QED BY <1>3, <2>1, <2>2
<1>4. CASE r.kind = "check"
  BY <1>4 DEF Plan, CheckPlan, If
<1>5. CASE r.kind = "delete"
  BY <1>5 DEF Plan, DeletePlan, If
<1>6. CASE r.kind \in {"rename", "move", "depend", "note"}
  BY <1>6 DEF Plan, RenamePlan, MovePlan, DependPlan, NotePlan, If
<1>7. CASE r.kind \in {"undepend", "pr", "open"}
  BY <1>7 DEF Plan, If
<1> QED BY <1>1, <1>2, <1>3, <1>4, <1>5, <1>6, <1>7, RequestOK

(* What a request plans fits it.                                           *)
LEMMA PlanOK ==
  ASSUME NEW r \in Request
  PROVE  /\ Plan(r) \in Seq(Steps) /\ PlanFits(Plan(r), r.kind)
         /\ Plan(r) # <<>> => Head(Plan(r)) \notin {"commit", "dropHistory", "touch", "emit", "promote"}
<1>1. /\ Plan(r) \in Seq(Steps)
      /\ Plan(r) # <<>> => Head(Plan(r)) \notin {"commit", "dropHistory", "touch", "emit", "promote"}
  <2>1. Plan(r) \in Seq(Steps)
    BY PlanIs, PlansStep, EmptySeq
  <2>2. Plan(r) # <<>> => Head(Plan(r)) \in {"insert", "look", "drop", "rename", "move", "depend",
                                          "undepend", "note", "pr", "open"}
    BY PlanIs, PlansStep
  <2> QED BY <2>1, <2>2
<1>2. PlanFits(Plan(r), r.kind)
  BY PlanIs, PlansFit
<1> QED BY <1>1, <1>2

(* What a thread has in hand when a request begins.                        *)
LEMMA WorkingOK ==
  ASSUME TypeOK, NEW r \in Request
  PROVE  /\ Working(r) \in Worker /\ Fits(Working(r))
         /\ Working(r).req.id = r.id /\ Working(r).req.kind = r.kind
         /\ IdsOf(Working(r).req) = IdsOf(r)
         /\ r.kind # "check" => Working(r).req = r
         /\ Working(r).plan = Plan(r) /\ Working(r).todo = Rest(r) /\ Working(r).to = NoStatus
         /\ Exists(r.id) => Working(r).snap = db.row[r.id]
<1>1. Decided(r) \in Request /\ Decided(r).id = r.id /\ Decided(r).kind = r.kind
  BY DecidedOK, DetectedOK DEF Decided
<1>2. (IF Exists(r.id) THEN db.row[r.id] ELSE NoSnap) \in Row
  BY RequestOK, IdleOK DEF Exists, TypeOK, Tables
<1>3. DepsOf(db.deps, r.id) \subseteq Ids
  BY DEF DepsOf, TypeOK, Tables
<1>4. /\ Working(r).req = Decided(r) /\ Working(r).plan = Plan(r) /\ Working(r).todo = Rest(r)
      /\ Working(r).snap = (IF Exists(r.id) THEN db.row[r.id] ELSE NoSnap)
      /\ Working(r).to = NoStatus
  BY DEF Working, Idle
<1>5. Working(r) \in Worker
  BY <1>1, <1>2, <1>3, PlanOK, RestOK, IdleOK DEF Working, Worker
<1>6. Fits(Working(r))
  <2>1. PlanFits(Plan(r), r.kind)
    BY PlanOK
  <2>2. TodoFits(Working(r))
    BY <1>1, <1>4, RestOK DEF TodoFits
  <2> QED BY <1>1, <1>4, <2>1, <2>2, PlanOK DEF Fits
<1>7. IdsOf(Decided(r)) = IdsOf(r)
  BY <1>1 DEF IdsOf, Decided
<1>8. r.kind # "check" => Decided(r) = r
  BY DEF Decided
<1> QED BY <1>1, <1>4, <1>5, <1>6, <1>7, <1>8

-----------------------------------------------------------------------------
(* What the threads have in hand fits.                                     *)
AllFit == \A t \in Threads : Fits(thread[t])
Typed  == TypeOK /\ AllFit
(* Only t's work changes, to some that fits.                               *)
Works(t) ==
  /\ thread' \in [Threads -> Worker] /\ Fits(thread'[t])
  /\ \A u \in Threads : u # t => thread'[u] = thread[u]

(* The next step of a plan.                                                *)
LEMMA AtOK ==
  ASSUME Typed, NEW t \in Threads, Busy(t)
  PROVE  /\ thread[t] \in Worker /\ Fits(thread[t])
         /\ thread[t].plan \in Seq(Steps) /\ thread[t].plan # <<>>
         /\ 1 \in DOMAIN thread[t].plan /\ Head(thread[t].plan) = thread[t].plan[1]
         /\ Head(thread[t].plan) \in Steps
         /\ Belongs(Head(thread[t].plan), thread[t].req.kind)
         /\ thread[t].req \in Request /\ thread[t].req.id \in Ids
<1>1. thread[t] \in Worker /\ Fits(thread[t])
  BY DEF Typed, TypeOK, AllFit
<1>2. thread[t].plan \in Seq(Steps) /\ thread[t].plan # <<>> /\ thread[t].req \in Request
  BY <1>1 DEF Worker, Busy
<1>3. PlanFits(thread[t].plan, thread[t].req.kind)
  BY <1>1 DEF Fits
<1>4. /\ 1 \in DOMAIN thread[t].plan /\ Head(thread[t].plan) = thread[t].plan[1]
      /\ Head(thread[t].plan) \in Steps
  BY <1>2, <1>3, TailFits
<1> QED BY <1>1, <1>2, <1>3, <1>4, RequestOK DEF PlanFits

(* The step after the first one does not begin a plan.                     *)
LEMMA TailHead ==
  ASSUME NEW plan \in Seq(Steps), plan # <<>>, NEW kind, PlanFits(plan, kind)
  PROVE  /\ Tail(plan) \in Seq(Steps) /\ PlanFits(Tail(plan), kind)
         /\ Tail(plan) # <<>> =>
              /\ 2 \in DOMAIN plan /\ Head(Tail(plan)) = plan[2] /\ plan[2] \notin First
              /\ plan[2] = "save" => Head(plan) = "look"
              /\ plan[2] = "dropHistory" => Head(plan) = "drop"
<1>1. Tail(plan) \in Seq(Steps) /\ PlanFits(Tail(plan), kind) /\ Head(plan) = plan[1]
  BY TailFits
<1>2. SUFFICES ASSUME Tail(plan) # <<>>
               PROVE  /\ 2 \in DOMAIN plan /\ Head(Tail(plan)) = plan[2] /\ plan[2] \notin First
                      /\ plan[2] = "save" => plan[1] = "look"
                      /\ plan[2] = "dropHistory" => plan[1] = "drop"
  BY <1>1
<1>3. 1 \in DOMAIN Tail(plan) /\ Head(Tail(plan)) = Tail(plan)[1]
  BY <1>1, <1>2, LenProperties, EmptySeq, HeadTailProperties
<1>4. 2 \in DOMAIN plan /\ Tail(plan)[1] = plan[2]
  BY <1>3, TailFits
<1>5. /\ plan[2] \in First => 2 = 1
      /\ plan[2] = "save" => 2 = 1 \/ plan[2 - 1] = "look"
      /\ plan[2] = "dropHistory" => 2 = 1 \/ plan[2 - 1] = "drop"
  BY <1>4 DEF PlanFits
<1> QED BY <1>3, <1>4, <1>5

(* A thread goes on with its plan.                                         *)
LEMMA AdvanceOK ==
  ASSUME Typed, NEW t \in Threads, Busy(t), Advance(t)
  PROVE  Works(t) /\ thread'[t] = [thread[t] EXCEPT !.plan = Tail(thread[t].plan)]
<1>1. thread' = [thread EXCEPT ![t] = [thread[t] EXCEPT !.plan = Tail(thread[t].plan)]]
  BY DEF Advance
<1>2. /\ Tail(thread[t].plan) \in Seq(Steps)
      /\ PlanFits(Tail(thread[t].plan), thread[t].req.kind)
      /\ Tail(thread[t].plan) # <<>> => Head(Tail(thread[t].plan)) # "promote"
  BY AtOK, TailHead DEF Fits, First
<1>3. [thread[t] EXCEPT !.plan = Tail(thread[t].plan)] \in Worker
  BY <1>2, AtOK DEF Worker
<1>4. Fits([thread[t] EXCEPT !.plan = Tail(thread[t].plan)])
  BY <1>2, AtOK DEF Fits, TodoFits, Worker
<1> QED BY <1>1, <1>3, <1>4 DEF Works, Typed, TypeOK

(* A thread goes on with another plan.                                     *)
LEMMA ContinueOK ==
  ASSUME Typed, NEW t \in Threads, NEW p \in Seq(Steps), PlanFits(p, thread[t].req.kind),
         p = <<>> \/ Head(p) # "promote", Continue(t, p)
  PROVE  Works(t) /\ thread'[t] = [thread[t] EXCEPT !.plan = p]
<1>1. thread[t] \in Worker /\ Fits(thread[t])
  BY DEF Typed, TypeOK, AllFit
<1>2. thread' = [thread EXCEPT ![t] = [thread[t] EXCEPT !.plan = p]]
  BY DEF Continue
<1>3. [thread[t] EXCEPT !.plan = p] \in Worker
  BY <1>1 DEF Worker
<1>4. Fits([thread[t] EXCEPT !.plan = p])
  BY <1>1 DEF Fits, TodoFits, Worker
<1> QED BY <1>2, <1>3, <1>4 DEF Works, Typed, TypeOK

(* A thread without work fits.                                             *)
LEMMA IdleFits == Fits(Idle) /\ Idle \in Worker /\ Idle.plan = <<>> /\ Idle.todo = <<>>
<1>1. Fits(Idle)
  BY DEF Fits, TodoFits, PlanFits, Idle
<1>2. Idle.plan = <<>> /\ Idle.todo = <<>>
  BY DEF Idle
<1> QED BY <1>1, <1>2, IdleOK

(* A thread ends in an error.                                              *)
LEMMA AbortOK ==
  ASSUME Typed, NEW t \in Threads, Abort(t) PROVE Works(t) /\ thread'[t] = Idle
BY IdleFits DEF Abort, Works, Typed, TypeOK

(* A save looks for its row, and goes on with what it found.               *)
LEMMA LookOK ==
  ASSUME Typed, NEW t \in Threads, Look(t)
  PROVE  /\ Works(t) /\ Busy(t) /\ Head(thread[t].plan) = "look"
         /\ thread'[t] = [thread[t] EXCEPT !.plan = Tail(thread[t].plan), !.found = Exists(thread[t].req.id)]
         /\ Tail(thread[t].plan) # <<>> /\ Head(Tail(thread[t].plan)) = "save"
<1> DEFINE w   == thread[t]
           new == [w EXCEPT !.plan = Tail(w.plan), !.found = Exists(w.req.id)]
<1>1. Busy(t) /\ Head(w.plan) = "look"
  BY DEF Look, At
<1>2. w \in Worker /\ Fits(w) /\ w.plan \in Seq(Steps) /\ w.plan # <<>> /\ thread \in [Threads -> Worker]
  BY <1>1, AtOK DEF Typed, TypeOK
<1>3. thread' = [thread EXCEPT ![t] = new]
  BY DEF Look
<1>4. /\ Tail(w.plan) \in Seq(Steps) /\ PlanFits(Tail(w.plan), w.req.kind)
      /\ Tail(w.plan) # <<>> => Head(Tail(w.plan)) # "promote"
  BY <1>2, TailHead DEF Fits, First
<1>5. new \in Worker
  BY <1>2, <1>4 DEF Worker, Exists
<1>6. /\ new.plan = Tail(w.plan) /\ new.req = w.req /\ new.todo = w.todo /\ new.to = w.to
  BY <1>2 DEF Worker
<1> HIDE DEF new
<1>7. Fits(new)
  BY <1>2, <1>4, <1>6 DEF Fits, TodoFits
<1>8. Tail(w.plan) # <<>> /\ Head(Tail(w.plan)) = "save"
  <2>1. /\ 1 \in DOMAIN w.plan /\ w.plan[1] = "look" /\ PlanFits(w.plan, w.req.kind)
    BY <1>1, <1>2, AtOK DEF Fits
  <2>2. 2 \in DOMAIN w.plan /\ w.plan[2] = "save"
    BY <2>1 DEF PlanFits
  <2>3. 2 - 1 \in DOMAIN Tail(w.plan)
    BY <1>2, <2>1, <2>2, TailFits
  <2>4. DOMAIN <<>> = {}
    OBVIOUS
  <2>5. Tail(w.plan) # <<>>
    BY <2>3, <2>4
  <2> QED BY <1>2, <2>1, <2>2, <2>5, TailHead
<1> QED BY <1>1, <1>2, <1>3, <1>5, <1>7, <1>8 DEF Works, new

(* The entry of a pull request: the task is looked for, and a suggested    *)
(* status is to be written.                                                *)
LEMMA SeekOK ==
  ASSUME Typed, NEW t \in Threads, Seek(t) \/ Suggest(t)
  PROVE  /\ Works(t) /\ Busy(t) /\ thread[t].req.kind = "pr" /\ Head(thread[t].plan) \in {"seek", "record", "suggest"}
         /\ thread'[t].req = thread[t].req /\ thread'[t].todo = thread[t].todo
         /\ thread'[t].deps = thread[t].deps /\ thread'[t].found = thread[t].found
         /\ Seek(t) =>
              /\ thread'[t].to = thread[t].to
              /\ IF Exists(thread[t].req.id)
                 THEN /\ thread'[t].snap.born = db.row[thread[t].req.id].born
                      /\ thread'[t].plan = IF At(t, "seek") THEN <<"note", "commit", "suggest">>
                                           ELSE <<"note", "commit", "emit">>
                 ELSE thread'[t].plan = IF At(t, "seek") THEN <<"suggest">> ELSE <<"emit">>
         /\ Suggest(t) =>
              /\ thread'[t].snap = thread[t].snap
              /\ \/ thread'[t].plan = Tail(thread[t].plan) /\ thread'[t].to = thread[t].to
                 \/ /\ thread'[t].plan = <<"promote", "commit", "record", "emit">>
                    /\ thread'[t].to \in Statuses
<1> DEFINE w == thread[t]
<1>1. Busy(t) /\ Head(w.plan) \in {"seek", "record", "suggest"}
  BY DEF Seek, Suggest, At
<1>2. /\ w \in Worker /\ Fits(w) /\ w.plan \in Seq(Steps) /\ w.plan # <<>> /\ thread \in [Threads -> Worker]
      /\ w.req.kind = "pr" /\ w.req \in Request /\ w.req.id \in Ids
  BY <1>1, AtOK DEF Typed, TypeOK, Belongs
<1>3. Exists(w.req.id) => db.row[w.req.id] \in Row
  BY <1>2 DEF Exists, Typed, TypeOK, Tables
<1>4. CASE Seek(t)
  <2> DEFINE p   == IF At(t, "seek") THEN <<"note", "commit", "suggest">> ELSE <<"note", "commit", "emit">>
             q   == IF At(t, "seek") THEN <<"suggest">> ELSE <<"emit">>
             new == [w EXCEPT !.plan = p, !.snap.born = db.row[w.req.id].born]
  <2>1. /\ p \in Seq(Steps) /\ q \in Seq(Steps) /\ PlanFits(p, "pr") /\ PlanFits(q, "pr")
        /\ Head(p) # "promote" /\ Head(q) # "promote"
    BY PlansFit, PlansStep
  <2>2. /\ Exists(w.req.id) => thread' = [thread EXCEPT ![t] = new]
        /\ ~Exists(w.req.id) => Continue(t, q)
    BY <1>4 DEF Seek
  <2> HIDE DEF p, q
  <2>3. CASE Exists(w.req.id)
    <3>1. [w.snap EXCEPT !.born = db.row[w.req.id].born] \in Row
      BY <1>2, <1>3, <2>3 DEF Worker, Row
    <3>2. new \in Worker
      BY <1>2, <2>1, <3>1 DEF Worker
    <3>3. /\ new.plan = p /\ new.req = w.req /\ new.todo = w.todo /\ new.to = w.to /\ new.deps = w.deps
          /\ new.found = w.found
          /\ new.snap.born = db.row[w.req.id].born
      BY <1>2 DEF Worker, Row
    <3> HIDE DEF new
    <3>4. Fits(new)
      BY <1>2, <2>1, <3>3 DEF Fits, TodoFits
    <3>5. Works(t) /\ thread'[t] = new
      BY <1>2, <2>2, <2>3, <3>2, <3>4 DEF Works
    <3>6. ~Suggest(t)
      BY <1>4 DEF Seek, Suggest, At
    <3> QED BY <1>1, <1>2, <2>3, <3>3, <3>5, <3>6 DEF p
  <2>4. CASE ~Exists(w.req.id)
    <3>1. Works(t) /\ thread'[t] = [w EXCEPT !.plan = q]
      BY <1>2, <2>1, <2>2, <2>4, ContinueOK
    <3>2. ~Suggest(t)
      BY <1>4 DEF Seek, Suggest, At
    <3> QED BY <1>1, <1>2, <2>4, <3>1, <3>2 DEF q, Worker
  <2> QED BY <2>3, <2>4
<1>5. CASE Suggest(t)
  <2> DEFINE p   == <<"promote", "commit", "record", "emit">>
             new == [w EXCEPT !.plan = p, !.to = Suggested(w.req.id)]
  <2>0. ~Seek(t)
    BY <1>5 DEF Seek, Suggest, At
  <2>1. CASE Exists(w.req.id) /\ Suggested(w.req.id) # NoStatus
    <3>1. thread' = [thread EXCEPT ![t] = new]
      BY <1>5, <2>1 DEF Suggest
    <3>2. Suggested(w.req.id) \in Statuses
      BY <2>1 DEF Suggested, SuggestStatus, Statuses, NoStatus
    <3>3. p \in Seq(Steps) /\ PlanFits(p, "pr")
      BY PlansFit, PlansStep
    <3> HIDE DEF p
    <3>4. new \in Worker
      BY <1>2, <3>2, <3>3 DEF Worker
    <3>5. /\ new.plan = p /\ new.req = w.req /\ new.todo = w.todo /\ new.to = Suggested(w.req.id)
          /\ new.deps = w.deps /\ new.snap = w.snap /\ new.found = w.found
      BY <1>2 DEF Worker
    <3> HIDE DEF new
    <3>6. Fits(new)
      BY <1>2, <2>1, <3>3, <3>5 DEF Fits, TodoFits
    <3>7. Works(t) /\ thread'[t] = new
      BY <1>2, <3>1, <3>4, <3>6 DEF Works
    <3> QED BY <1>1, <1>2, <2>0, <2>1, <3>2, <3>5, <3>7 DEF p
  <2>2. CASE ~ (Exists(w.req.id) /\ Suggested(w.req.id) # NoStatus)
    <3>1. Advance(t)
      BY <1>5, <2>2 DEF Suggest
    <3>2. Works(t) /\ thread'[t] = [w EXCEPT !.plan = Tail(w.plan)]
      BY <1>1, <3>1, AdvanceOK
    <3> QED BY <1>1, <1>2, <2>0, <3>2 DEF Worker
  <2> QED BY <2>1, <2>2
<1> QED BY <1>4, <1>5

-----------------------------------------------------------------------------
(* What the statements do to the tables.                                   *)
LEMMA TablesOK ==
  ASSUME TypeOK, NEW i \in Ids
  PROVE  /\ \A x \in Row : InsertRow(i, x) \in Tables
         /\ \A on \in SUBSET Ids : SetDeps(i, on) \in Tables
         /\ DeleteRow(i) \in Tables /\ DeleteHistory(i) \in Tables
         /\ \A to \in Ids : Exists(i) => RenameRow(i, to) \in Tables
         /\ \A n \in Numbers, x \in PrStatuses : InsertPr(i, n, x) \in Tables
         /\ \A e \in Entry : [db EXCEPT !.history[i] = Append(@, e)] \in Tables
         /\ [db EXCEPT !.session = @ \ {i}] \in Tables /\ [db EXCEPT !.session = @ \cup {i}] \in Tables
         /\ \A p \in Projects : Exists(i) => [db EXCEPT !.row[i].project = p] \in Tables
         /\ \A j \in Ids : /\ [db EXCEPT !.deps = @ \cup {<<i, j>>}] \in Tables
                           /\ [db EXCEPT !.deps = @ \ {<<i, j>>}] \in Tables
<1>0. db \in Tables
  BY DEF TypeOK
<1>1. /\ db.row \in [Ids -> Row \cup {NoRow}] /\ db.deps \subseteq Ids \X Ids /\ db.prs \subseteq PrRow
      /\ db.history \in [Ids -> Seq(Entry)] /\ db.session \subseteq Ids
  BY <1>0 DEF Tables
<1>2. ASSUME NEW x \in Row PROVE InsertRow(i, x) \in Tables
  BY <1>0, <1>1 DEF Tables, InsertRow
<1>3. ASSUME NEW on \in SUBSET Ids PROVE SetDeps(i, on) \in Tables
  BY <1>0, <1>1 DEF Tables, SetDeps
<1>4. DeleteRow(i) \in Tables
  BY <1>0, <1>1 DEF Tables, DeleteRow
<1>5. DeleteHistory(i) \in Tables
  <2>1. <<>> \in Seq(Entry)
    BY EmptySeq
  <2> QED BY <1>0, <1>1, <2>1 DEF Tables, DeleteHistory
<1>6. ASSUME NEW to \in Ids, Exists(i) PROVE RenameRow(i, to) \in Tables
  <2>1. db.row[i] \in Row
    BY <1>1, <1>6 DEF Exists
  <2>2. [db.row EXCEPT ![to] = db.row[i], ![i] = NoRow] \in [Ids -> Row \cup {NoRow}]
    BY <1>1, <2>1
  <2>3. {<<Renamed(e[1], i, to), Renamed(e[2], i, to)>> : e \in db.deps} \subseteq Ids \X Ids
    BY <1>1 DEF Renamed
  <2>4. {[p EXCEPT !.task = Renamed(@, i, to)] : p \in db.prs} \subseteq PrRow
    BY <1>1 DEF Renamed, PrRow
  <2> QED BY <1>0, <2>2, <2>3, <2>4 DEF Tables, RenameRow
<1>7. ASSUME NEW n \in Numbers, NEW x \in PrStatuses PROVE InsertPr(i, n, x) \in Tables
  <2>1. [task |-> i, number |-> n, status |-> x] \in PrRow
    BY DEF PrRow
  <2> QED BY <1>0, <1>1, <2>1 DEF Tables, InsertPr
<1>8. ASSUME NEW e \in Entry PROVE [db EXCEPT !.history[i] = Append(@, e)] \in Tables
  <2>1. Append(db.history[i], e) \in Seq(Entry)
    BY <1>1
  <2> QED BY <1>0, <1>1, <2>1 DEF Tables
<1>9. [db EXCEPT !.session = @ \ {i}] \in Tables /\ [db EXCEPT !.session = @ \cup {i}] \in Tables
  BY <1>0, <1>1 DEF Tables
<1>10. ASSUME NEW p \in Projects, Exists(i) PROVE [db EXCEPT !.row[i].project = p] \in Tables
  <2>1. [db.row[i] EXCEPT !.project = p] \in Row
    BY <1>1, <1>10 DEF Exists, Row
  <2> QED BY <1>0, <1>1, <2>1 DEF Tables
<1>11. ASSUME NEW j \in Ids
       PROVE  /\ [db EXCEPT !.deps = @ \cup {<<i, j>>}] \in Tables
              /\ [db EXCEPT !.deps = @ \ {<<i, j>>}] \in Tables
  <2>1. /\ db.deps \cup {<<i, j>>} \in SUBSET (Ids \X Ids)
        /\ db.deps \ {<<i, j>>} \in SUBSET (Ids \X Ids)
    BY <1>1
  <2> QED BY <1>0, <2>1 DEF Tables
<1> QED BY <1>2, <1>3, <1>4, <1>5, <1>6, <1>7, <1>8, <1>9, <1>10, <1>11

(* What the connection does with the tables.                               *)
LEMMA ConnectionOK ==
  ASSUME TypeOK
  PROVE  /\ Before \in Tables
         /\ \A new \in Tables : Execute(new) \/ WithBlock(new) => db' \in Tables /\ undo' \in Tables \cup {NoTx}
         /\ ExecuteFails \/ Commit \/ Rollback \/ Unchanged => db' \in Tables /\ undo' \in Tables \cup {NoTx}
BY DEF TypeOK, Before, Execute, WithBlock, ExecuteFails, Commit, Rollback, Unchanged

-----------------------------------------------------------------------------
(* A thread that has executed and not committed.                           *)
Owes(t) == Busy(t) /\ Head(thread[t].plan) \in {"commit", "dropHistory", "touch"}
(* A step leaves nothing to commit, or its thread owes the commit, or it   *)
(* wrote nothing and its thread owed none.                                 *)
Settles(t) ==
  \/ undo' = NoTx
  \/ Owes(t)'
  \/ ~Owes(t) /\ db' = db /\ undo' \in {undo, Before}
(* What a request's step keeps of the types.                               *)
Keeping(t) ==
  /\ Works(t) /\ Settles(t)
  /\ db' \in Tables /\ undo' \in Tables \cup {NoTx}
  /\ fk' \in BOOLEAN /\ asked' \in 0 .. MaxRequests /\ restarts' = restarts
  /\ stale' \in BOOLEAN /\ silent' \in BOOLEAN /\ undone' \in BOOLEAN
  /\ births' \in Nat /\ contested' \subseteq Ids /\ renamed' \subseteq Ids /\ detected' \subseteq Ids

(* Requests that begin.                                                    *)
LEMMA BeginKeeps ==
  ASSUME Typed, NEW t \in Threads, (\E r \in Requests : Begin(t, r)) \/ BeginNext(t)
  PROVE  Keeping(t) /\ Unchanged /\ ~Owes(t)
<1>1. ASSUME NEW r \in Requests, Begin(t, r) PROVE Keeping(t) /\ Unchanged /\ ~Owes(t)
  <2>1. r \in Request
    BY RequestsAssumption
  <2>2. Works(t)
    BY <1>1, <2>1, WorkingOK DEF Begin, Works, Typed, TypeOK
  <2>3. contested' \subseteq Ids
    <3>1. \A u \in Threads : IdsOf(thread[u].req) \subseteq Ids
      BY RequestOK DEF Typed, TypeOK, Worker, IdsOf
    <3> QED BY <1>1, <3>1 DEF Begin, Contend, Typed, TypeOK
  <2> QED BY <1>1, <2>2, <2>3, BoundsAssumption DEF Begin, Keeping, Settles, Owes, Unchanged, Typed, TypeOK
<1>2. CASE BeginNext(t)
  <2> DEFINE w == thread[t]
             r == Head(w.todo)
  <2>1. w \in Worker /\ Fits(w) /\ w.todo \in Seq(Request) /\ w.todo # <<>>
    BY <1>2 DEF BeginNext, Typed, TypeOK, AllFit, Worker
  <2>2. /\ r \in Request /\ r = w.todo[1] /\ 1 \in DOMAIN w.todo
        /\ Tail(w.todo) \in Seq(Request) /\ Len(w.todo) \in Nat \ {0}
        /\ Len(Tail(w.todo)) = Len(w.todo) - 1
        /\ \A k \in 1 .. Len(Tail(w.todo)) : Tail(w.todo)[k] = w.todo[k + 1]
    BY <2>1, HeadTailProperties, EmptySeq, LenProperties
  <2>3. /\ r.id = w.req.id /\ r.kind \in {"update", "depend"}
        /\ \A k \in DOMAIN Tail(w.todo) : /\ Tail(w.todo)[k].id = w.req.id
                                          /\ Tail(w.todo)[k].kind \in {"update", "depend"}
    BY <2>1, <2>2, LenProperties DEF Fits, TodoFits
  <2>4. /\ Working(r) \in Worker /\ Fits(Working(r)) /\ Working(r).req = r
    BY <2>2, <2>3, WorkingOK DEF Typed
  <2>5. thread' = [thread EXCEPT ![t] = [Working(r) EXCEPT !.todo = Tail(w.todo)]]
    BY <1>2 DEF BeginNext
  <2> HIDE DEF r
  <2>6. [Working(r) EXCEPT !.todo = Tail(w.todo)] \in Worker
    BY <2>2, <2>4 DEF Worker
  <2>7. Fits([Working(r) EXCEPT !.todo = Tail(w.todo)])
    BY <2>3, <2>4 DEF Fits, TodoFits, Worker
  <2>8. Works(t)
    BY <2>5, <2>6, <2>7 DEF Works, Typed, TypeOK
  <2> QED BY <1>2, <2>8 DEF BeginNext, Keeping, Settles, Owes, Unchanged, ghosts, Typed, TypeOK
<1> QED BY <1>1, <1>2

(* Statements that one thread executes, one at a time.                     *)
LEMMA AtBusy == ASSUME NEW t, NEW s, At(t, s) PROVE Busy(t) /\ Head(thread[t].plan) = s
BY DEF At

(* What is left of a plan begins with the commit that its step needs.      *)
LEMMA ExecutingOwes ==
  ASSUME Typed, NEW t \in Threads, Busy(t), Advance(t), Head(thread[t].plan) \in Executing
  PROVE  /\ Works(t) /\ Owes(t)' /\ thread'[t] = [thread[t] EXCEPT !.plan = Tail(thread[t].plan)]
         /\ Head(thread'[t].plan) = Then(Head(thread[t].plan))
<1>1. Works(t) /\ thread'[t] = [thread[t] EXCEPT !.plan = Tail(thread[t].plan)]
  BY AdvanceOK
<1>2. /\ thread[t].plan \in Seq(Steps) /\ thread[t].plan # <<>>
      /\ 1 \in DOMAIN thread[t].plan /\ Head(thread[t].plan) = thread[t].plan[1]
      /\ PlanFits(thread[t].plan, thread[t].req.kind) /\ thread[t] \in Worker
  BY AtOK DEF Fits
<1>3. 2 \in DOMAIN thread[t].plan /\ thread[t].plan[2] = Then(Head(thread[t].plan))
  BY <1>2 DEF PlanFits
<1>4. 1 \in DOMAIN Tail(thread[t].plan) /\ Tail(thread[t].plan)[1] = Then(Head(thread[t].plan))
  BY <1>2, <1>3, TailFits
<1>5. Tail(thread[t].plan) # <<>> /\ Head(Tail(thread[t].plan)) = Then(Head(thread[t].plan))
  <2>1. Tail(thread[t].plan) \in Seq(Steps)
    BY <1>2, TailFits
  <2>2. Tail(thread[t].plan) # <<>>
    <3>1. DOMAIN <<>> = {}
      OBVIOUS
    <3> QED BY <1>4, <3>1
  <2>3. Head(Tail(thread[t].plan)) = Tail(thread[t].plan)[1]
    BY <2>1, <2>2, HeadTailProperties
  <2> QED BY <1>4, <2>2, <2>3
<1>6. thread'[t].plan = Tail(thread[t].plan)
  BY <1>1, <1>2 DEF Worker
<1> QED BY <1>1, <1>5, <1>6 DEF Owes, Busy, Then

(* The commit, the event and the result of a request.                      *)
LEMMA TellingKeeps ==
  ASSUME Typed, NEW t \in Threads, CommitStep(t) \/ Emit(t) \/ Result(t) PROVE Keeping(t)
<1>1. CASE CommitStep(t)
  BY <1>1, AtBusy, AdvanceOK, ConnectionOK
     DEF CommitStep, Commit, Keeping, Settles, Quiet, Frame, Boards, Typed, TypeOK
<1>2. CASE Emit(t)
  <2>1. ~Owes(t)
    BY <1>2, AtBusy DEF Emit, Owes
  <2> QED BY <1>2, <2>1, AtBusy, AdvanceOK DEF Emit, Keeping, Settles, Unchanged, Typed, TypeOK
<1>3. CASE Result(t)
  <2>1. ~Owes(t) /\ thread[t].req.kind = "update"
    BY <1>3, AtBusy, AtOK DEF Result, Owes, Belongs
  <2>2. Works(t)
    <3>1. CASE ~Logs(t)
      <4>1. <<"emit">> \in Seq(Steps)
        BY DEF Steps
      <4>2. PlanFits(<<"emit">>, thread[t].req.kind) /\ Head(<<"emit">>) # "promote"
        BY <2>1, PlansFit, PlansStep
      <4> QED BY <1>3, <3>1, <4>1, <4>2, ContinueOK DEF Result
    <3>2. CASE Logs(t)
      <4> DEFINE w   == thread[t]
                 new == [w EXCEPT !.plan = <<"note", "commit", "emit">>, !.to = db.row[w.req.id].status,
                                  !.snap.born = db.row[w.req.id].born]
      <4>1. w \in Worker /\ Fits(w)
        BY DEF Typed, TypeOK, AllFit
      <4>2. db.row[w.req.id] \in Row
        BY <3>2, <4>1, RequestOK DEF Logs, Exists, Typed, TypeOK, Tables, Worker
      <4>3. [w.snap EXCEPT !.born = db.row[w.req.id].born] \in Row
        BY <4>1, <4>2 DEF Worker, Row
      <4>4. new \in Worker
        BY <4>1, <4>2, <4>3, PlansStep DEF Worker, Row
      <4>5. PlanFits(<<"note", "commit", "emit">>, w.req.kind)
        BY <2>1, PlansFit
      <4>6. Fits(new)
        <5>1. /\ new.plan = <<"note", "commit", "emit">> /\ new.req = w.req /\ new.todo = w.todo
              /\ Head(<<"note", "commit", "emit">>) # "promote"
          BY <4>1 DEF Worker
        <5> HIDE DEF new
        <5> QED BY <2>1, <4>1, <4>5, <5>1 DEF Fits, TodoFits
      <4> QED BY <1>3, <3>2, <4>4, <4>6 DEF Result, Works, Typed, TypeOK
    <3> QED BY <3>1, <3>2
  <2> QED BY <1>3, <2>1, <2>2 DEF Result, Keeping, Settles, Unchanged, Quiet, Frame, Boards, Typed, TypeOK
<1> QED BY <1>1, <1>2, <1>3

(* The row that is created.                                                *)
LEMMA InsertIs ==
  ASSUME Typed, NEW t \in Threads, Insert(t), ~Exists(thread[t].req.id)
  PROVE  \E x \in Row : /\ Execute(InsertRow(thread[t].req.id, x))
                        /\ x.first = x.status /\ x.ticket = FALSE
<1> DEFINE r == thread[t].req
           x == NewRow(r)
<1>1. r \in Request /\ r.kind \in {"create", "smart"}
  BY AtBusy, AtOK DEF Insert, Belongs
<1>2. x \in Row /\ x.first = x.status /\ x.ticket = FALSE
  BY <1>1, RequestOK DEF NewRow, Row, Typed, TypeOK
<1>3. Execute(InsertRow(r.id, x))
  BY DEF Insert
<1> HIDE DEF x
<1> QED BY <1>2, <1>3

(* The row that is saved, or created again, if it is not another's.        *)
LEMMA SaveIs ==
  ASSUME Typed, NEW t \in Threads, Save(t)
  PROVE  LET w == thread[t] IN
         \/ ExecuteFails /\ Abort(t) /\ UNCHANGED <<births, detected>> /\ Exists(w.req.id) /\ ~w.found
         \/ /\ Advance(t) /\ Saved(t) /\ births' \in Nat
            /\ \/ Execute(db) /\ ~Exists(w.req.id) /\ w.found
               \/ \E x \in Row : /\ Execute(InsertRow(w.req.id, x))
                                 /\ x.status = Changed(w.req, w.snap).status
                                 /\ x.ticket = Changed(w.req, w.snap).ticket
                                 /\ Exists(w.req.id) => x.born = db.row[w.req.id].born /\ x.first = db.row[w.req.id].first
<1> DEFINE w   == thread[t]
           new == Changed(w.req, w.snap)
<1>1. w \in Worker /\ w.req \in Request /\ w.req.id \in Ids /\ w.req.kind \in {"update", "check"}
  BY AtBusy, AtOK DEF Save, Update, Recreate, Belongs
<1>2. new \in Row
  <2>1. w.snap \in Row /\ w.req.change \in Change
    BY <1>1, RequestOK DEF Worker
  <2> QED BY <2>1 DEF Changed, Row, Change
<1>3. CASE Update(t)
  <2>1. Advance(t) /\ Saved(t) /\ births' \in Nat /\ w.found
    BY <1>3 DEF Update, Typed, TypeOK
  <2>2. CASE Exists(w.req.id)
    <3> DEFINE old == db.row[w.req.id]
               x   == [old EXCEPT !.status = new.status, !.ticket = new.ticket]
    <3>1. Execute(InsertRow(w.req.id, x))
      BY <1>3, <2>2 DEF Update
    <3>2. old \in Row
      BY <1>1, <2>2 DEF Exists, Typed, TypeOK, Tables
    <3> HIDE DEF new, old
    <3>3. /\ x \in Row /\ x.status = new.status /\ x.ticket = new.ticket
          /\ x.born = old.born /\ x.first = old.first
      BY <1>2, <3>2 DEF Row
    <3> HIDE DEF x
    <3> QED BY <2>1, <2>2, <3>1, <3>3 DEF old, new
  <2>3. CASE ~Exists(w.req.id)
    BY <1>3, <2>1, <2>3 DEF Update
  <2> QED BY <2>2, <2>3
<1>4. CASE Recreate(t) /\ ~Exists(w.req.id)
  <2> DEFINE x == [new EXCEPT !.born = births + 1, !.first = new.status]
  <2>1. Execute(InsertRow(w.req.id, x)) /\ Advance(t) /\ Saved(t) /\ births' = births + 1
    BY <1>4 DEF Recreate
  <2>2. births + 1 \in Nat
    BY DEF Typed, TypeOK
  <2> HIDE DEF new
  <2>3. x \in Row /\ x.status = new.status /\ x.ticket = new.ticket
    BY <1>2, <2>2 DEF Row
  <2> HIDE DEF x
  <2> QED BY <1>4, <2>1, <2>2, <2>3 DEF new
<1>5. CASE Recreate(t) /\ Exists(w.req.id)
  BY <1>5 DEF Recreate
<1> QED BY <1>3, <1>4, <1>5 DEF Save

(* A row is created.                                                       *)
LEMMA InsertKeeps ==
  ASSUME Typed, NEW t \in Threads, Insert(t) PROVE Keeping(t)
<1> DEFINE r == thread[t].req
<1>1. Busy(t) /\ Head(thread[t].plan) = "insert" /\ ~Owes(t) /\ r.id \in Ids
  BY AtBusy, AtOK DEF Insert, Owes
<1>2. CASE ~Exists(r.id)
  <2>1. births' = births + 1 /\ Advance(t) /\ UNCHANGED silent
    BY <1>2 DEF Insert
  <2>2. Works(t) /\ Owes(t)'
    BY <1>1, <2>1, ExecutingOwes DEF Executing
  <2>3. db' \in Tables /\ undo' \in Tables \cup {NoTx}
    BY <1>1, <1>2, InsertIs, TablesOK, ConnectionOK DEF Typed
  <2> QED BY <2>1, <2>2, <2>3 DEF Insert, Keeping, Settles, Frame, Boards, Typed, TypeOK
<1>3. CASE Exists(r.id)
  <2>1. ExecuteFails /\ Abort(t) /\ UNCHANGED births
    BY <1>3 DEF Insert
  <2>2. Works(t)
    BY <2>1, AbortOK
  <2>3. db' \in Tables /\ undo' \in Tables \cup {NoTx}
    BY <2>1, ConnectionOK DEF Typed
  <2> QED BY <1>1, <2>1, <2>2, <2>3
          DEF Insert, Keeping, Settles, ExecuteFails, Abort, Frame, Boards, Typed, TypeOK
<1> QED BY <1>2, <1>3

(* A row is saved with the changes, or created again.                      *)
LEMMA SaveKeeps ==
  ASSUME Typed, NEW t \in Threads, Save(t)
  PROVE  /\ Keeping(t) /\ ~Owes(t) /\ Busy(t) /\ Head(thread[t].plan) = "save"
         /\ Abort(t) \/ (Advance(t) /\ Owes(t)' /\ Head(thread'[t].plan) = "commit")
<1> DEFINE w == thread[t]
<1>1. /\ Busy(t) /\ Head(w.plan) = "save" /\ ~Owes(t) /\ w.req.id \in Ids
  BY AtBusy, AtOK DEF Save, Update, Recreate, Owes
<1>2. UNCHANGED <<fk, renamed, undone>> /\ Frame
  BY DEF Save, Update, Recreate
<1>3. CASE ExecuteFails /\ Abort(t) /\ UNCHANGED <<births, detected>>
  <2>1. Works(t) /\ db' \in Tables /\ undo' \in Tables \cup {NoTx}
    BY <1>3, AbortOK, ConnectionOK DEF Typed
  <2> QED BY <1>1, <1>2, <1>3, <2>1
          DEF Keeping, Settles, ExecuteFails, Abort, Frame, Boards, Typed, TypeOK
<1>4. CASE Advance(t) /\ Saved(t) /\ births' \in Nat /\ \E new \in Tables : Execute(new)
  <2>1. Works(t) /\ Owes(t)' /\ Head(thread'[t].plan) = "commit"
    BY <1>1, <1>4, ExecutingOwes DEF Executing, Then
  <2>2. db' \in Tables /\ undo' \in Tables \cup {NoTx}
    BY <1>4, ConnectionOK DEF Typed
  <2>3. silent' \in BOOLEAN /\ detected' \subseteq Ids
    BY <1>1, <1>4 DEF Saved, Typed, TypeOK
  <2> QED BY <1>1, <1>2, <1>4, <2>1, <2>2, <2>3 DEF Keeping, Settles, Frame, Boards, Typed, TypeOK
<1>5. db \in Tables /\ \A x \in Row : InsertRow(w.req.id, x) \in Tables
  BY <1>1, TablesOK DEF Typed, TypeOK
<1> QED BY <1>3, <1>4, <1>5, SaveIs

(* What a save looks for, and what a pull request looks for and suggests.  *)
LEMMA LookKeeps ==
  ASSUME Typed, NEW t \in Threads, Look(t) \/ Seek(t) \/ Suggest(t) PROVE Keeping(t) /\ ~Owes(t)
<1>1. Works(t) /\ ~Owes(t)
  BY LookOK, SeekOK DEF Owes
<1> QED BY <1>1 DEF Look, Seek, Suggest, Keeping, Settles, Unchanged, Quiet, Frame, Boards, Typed, TypeOK

(* The dependencies that a request puts in the place of a task's, if any.  *)
LEMMA SaveDepsIs ==
  ASSUME Typed, NEW t \in Threads, SaveDeps(t)
  PROVE  /\ Busy(t) /\ ~Owes(t)
         /\ \/ \E on \in SUBSET Ids : ReplaceDeps(t, on)
            \/ Unchanged /\ Advance(t) /\ UNCHANGED <<silent, undone>>
<1>1. Busy(t) /\ ~Owes(t)
  BY AtBusy DEF SaveDeps, Owes
<1>2. thread[t] \in Worker /\ thread[t].req \in Request
  BY <1>1, AtOK
<1>3. thread[t].deps \in SUBSET Ids
  BY <1>2 DEF Worker
<1>4. thread[t].req.kind = "update" => thread[t].req.change.deps \in SUBSET Ids
  BY <1>2, RequestOK DEF Change
<1>5. thread[t].req.kind = "create" => thread[t].req.deps \in SUBSET Ids
  BY <1>2, RequestOK
<1> QED BY <1>1, <1>3, <1>4, <1>5 DEF SaveDeps

(* The dependencies of a task are replaced.                                *)
LEMMA SaveDepsKeeps ==
  ASSUME Typed, NEW t \in Threads, SaveDeps(t) PROVE Keeping(t)
<1>0. /\ Busy(t) /\ ~Owes(t) /\ thread[t].req.id \in Ids
      /\ Frame /\ UNCHANGED <<fk, births, renamed, detected>>
  BY SaveDepsIs, AtOK DEF SaveDeps
<1>1. ASSUME NEW on \in SUBSET Ids, ReplaceDeps(t, on) PROVE Keeping(t)
  <2>1. undo' = NoTx
    BY <1>1 DEF ReplaceDeps, WithBlock, Rollback
  <2>2. Works(t)
    BY <1>0, <1>1, AdvanceOK, AbortOK DEF ReplaceDeps
  <2>3. db' \in Tables
    BY <1>0, <1>1, TablesOK, ConnectionOK DEF ReplaceDeps, Typed
  <2>4. silent' \in BOOLEAN /\ undone' \in BOOLEAN
    BY <1>1 DEF ReplaceDeps, Abort, Rollback, Typed, TypeOK
  <2> QED BY <1>0, <2>1, <2>2, <2>3, <2>4 DEF Keeping, Settles, Frame, Boards, Typed, TypeOK
<1>2. CASE Unchanged /\ Advance(t) /\ UNCHANGED <<silent, undone>>
  BY <1>0, <1>2, AdvanceOK DEF Unchanged, Keeping, Settles, Frame, Boards, Typed, TypeOK
<1> QED BY <1>1, <1>2, SaveDepsIs

(* The row whose status is promoted.                                       *)
LEMMA PromoteIs ==
  ASSUME Typed, NEW t \in Threads, Promote(t)
  PROVE  LET w == thread[t] IN
         /\ w.to # NoStatus /\ w.req.kind = "pr" /\ w.req.id \in Ids
         /\ \/ Execute(db) /\ ~Exists(w.req.id)
            \/ \E x \in Row : /\ Execute(InsertRow(w.req.id, x)) /\ Exists(w.req.id)
                              /\ x.status = w.to /\ x.ticket = db.row[w.req.id].ticket
                              /\ x.born = db.row[w.req.id].born /\ x.first = db.row[w.req.id].first
<1> DEFINE w == thread[t]
<1>1. w \in Worker /\ w.req.id \in Ids /\ w.req.kind = "pr" /\ Fits(w) /\ w.to # NoStatus
  BY AtBusy, AtOK DEF Promote, Belongs, Fits
<1>2. CASE Exists(w.req.id)
  <2> DEFINE old == db.row[w.req.id]
             x   == [old EXCEPT !.status = w.to]
  <2>1. Execute(InsertRow(w.req.id, x))
    BY <1>2 DEF Promote
  <2>2. old \in Row /\ w.to \in Statuses
    BY <1>1, <1>2 DEF Exists, Typed, TypeOK, Tables, Worker
  <2> HIDE DEF old
  <2>3. x \in Row /\ x.status = w.to /\ x.ticket = old.ticket /\ x.born = old.born /\ x.first = old.first
    BY <2>2 DEF Row
  <2> HIDE DEF x
  <2> QED BY <1>1, <1>2, <2>1, <2>3 DEF old
<1>3. CASE ~Exists(w.req.id)
  BY <1>1, <1>3 DEF Promote
<1> QED BY <1>2, <1>3

(* Statements that are executed one at a time, each with its commit.       *)
LEMMA ExecuteKeeps ==
  ASSUME Typed, NEW t \in Threads,
         \/ Note(t) \/ DropHistory(t) \/ DropSession(t) \/ NewSession(t) \/ Undepend(t) \/ Open(t)
         \/ Touch(t) \/ Promote(t)
  PROVE  Keeping(t) /\ Owes(t)'
<1> DEFINE w == thread[t]
<1>1. /\ Busy(t) /\ Advance(t) /\ Head(w.plan) \in Executing
      /\ w \in Worker /\ w.req \in Request /\ w.req.id \in Ids /\ Belongs(Head(w.plan), w.req.kind)
  BY AtBusy, AtOK DEF Note, DropHistory, DropSession, NewSession, Undepend, Open, Touch, Promote, Executing
<1>2. PICK new \in Tables : Execute(new)
  <2>1. CASE Note(t)
    <3>1. [born |-> w.snap.born, to |-> w.to] \in Entry
      BY <1>1 DEF Worker, Row, Entry
    <3> QED BY <1>1, <2>1, <3>1, TablesOK DEF Note, Typed
  <2>2. CASE DropHistory(t) \/ DropSession(t)
    BY <1>1, <2>2, TablesOK DEF DropHistory, DropSession, Typed
  <2>3. CASE NewSession(t)
    <3>1. w.req.to \in Ids
      BY <1>1, <2>3, AtBusy, RequestOK DEF NewSession, Belongs
    <3> QED BY <2>3, <3>1, TablesOK DEF NewSession, Typed
  <2>4. CASE Undepend(t)
    <3>1. w.req.on \in Ids
      BY <1>1, <2>4, AtBusy, RequestOK DEF Undepend, Belongs
    <3> QED BY <1>1, <2>4, <3>1, TablesOK DEF Undepend, Typed
  <2>5. CASE Open(t)
    BY <1>1, <2>5, TablesOK DEF Open, Typed
  <2>6. CASE Touch(t)
    BY <2>6 DEF Touch, Typed, TypeOK
  <2>7. CASE Promote(t)
    BY <1>1, <2>7, PromoteIs, TablesOK DEF Typed, TypeOK
  <2> QED BY <2>1, <2>2, <2>3, <2>4, <2>5, <2>6, <2>7
<1>3. Works(t) /\ Owes(t)'
  BY <1>1, ExecutingOwes
<1>4. db' \in Tables /\ undo' \in Tables \cup {NoTx}
  BY <1>2, ConnectionOK DEF Typed
<1>5. Quiet /\ Frame /\ UNCHANGED fk
  BY DEF Note, DropHistory, DropSession, NewSession, Undepend, Open, Touch, Promote
<1> QED BY <1>3, <1>4, <1>5 DEF Keeping, Settles, Quiet, Frame, Boards, Typed, TypeOK

(* A row is deleted.                                                       *)
LEMMA DropKeeps ==
  ASSUME Typed, NEW t \in Threads, Drop(t) PROVE Keeping(t) /\ Owes(t)'
<1> DEFINE w == thread[t]
           p == IF Exists(w.req.id) THEN <<"dropHistory", "commit", "dropSession", "commit", "emit">>
                ELSE <<"dropHistory", "commit">>
<1>1. /\ Busy(t) /\ w \in Worker /\ w.req.id \in Ids /\ w.req.kind = "delete"
  BY AtBusy, AtOK DEF Drop, Belongs
<1>2. Execute(DeleteRow(w.req.id)) /\ Continue(t, p)
  BY DEF Drop
<1>3. p \in Seq(Steps) /\ PlanFits(p, "delete") /\ p # <<>> /\ Head(p) = "dropHistory"
  BY PlansFit, PlansStep
<1> HIDE DEF p
<1>4. Works(t) /\ thread'[t] = [w EXCEPT !.plan = p]
  BY <1>1, <1>2, <1>3, ContinueOK
<1>5. Owes(t)'
  BY <1>1, <1>3, <1>4 DEF Owes, Busy, Worker
<1>6. db' \in Tables /\ undo' \in Tables \cup {NoTx}
  BY <1>1, <1>2, TablesOK, ConnectionOK DEF Typed
<1> QED BY <1>4, <1>5, <1>6 DEF Drop, Keeping, Settles, Quiet, Frame, Boards, Typed, TypeOK

(* A task is renamed, and its session row.                                 *)
LEMMA RenameKeeps ==
  ASSUME Typed, NEW t \in Threads, Rename(t) \/ SessionOf(t) PROVE Keeping(t)
<1> DEFINE w == thread[t]
<1>1. /\ Busy(t) /\ w \in Worker /\ w.req.id \in Ids /\ w.req.to \in Ids /\ w.req.kind = "rename"
      /\ ~Owes(t)
  BY AtBusy, AtOK, RequestOK DEF Rename, SessionOf, Belongs, Owes
<1>2. CASE Rename(t)
  <2>1. undo' = NoTx
    BY <1>2 DEF Rename, WithBlock, Rollback, Commit
  <2>2. Works(t)
    BY <1>1, <1>2, PlansFit, PlansStep, ContinueOK, AbortOK, EmptySeq DEF Rename
  <2>3. db' \in Tables
    <3>1. Exists(w.req.id) => RenameRow(w.req.id, w.req.to) \in Tables
      BY <1>1, TablesOK DEF Typed
    <3> QED BY <1>2, <3>1, ConnectionOK DEF Rename, Typed
  <2>4. fk' \in BOOLEAN /\ renamed' \subseteq Ids /\ silent' \in BOOLEAN /\ undone' \in BOOLEAN
    BY <1>1, <1>2 DEF Rename, Abort, Rollback, Typed, TypeOK
  <2> QED BY <1>2, <2>1, <2>2, <2>3, <2>4 DEF Rename, Keeping, Settles, Frame, Boards, Typed, TypeOK
<1>3. CASE SessionOf(t)
  <2>1. Works(t)
    BY <1>1, <1>3, PlansFit, PlansStep, ContinueOK, EmptySeq DEF SessionOf
  <2> QED BY <1>1, <1>3, <2>1 DEF SessionOf, Keeping, Settles, Unchanged, Quiet, Frame, Boards, Typed, TypeOK
<1> QED BY <1>2, <1>3

(* A task is moved to another project.                                     *)
LEMMA MoveKeeps ==
  ASSUME Typed, NEW t \in Threads, Move(t) PROVE Keeping(t)
<1> DEFINE w == thread[t]
<1>1. /\ Busy(t) /\ w \in Worker /\ w.req.id \in Ids /\ w.req.to \in Projects /\ w.req.kind = "move"
  BY AtBusy, AtOK, RequestOK DEF Move, Belongs
<1>2. undo' = NoTx
  BY DEF Move, WithBlock, Commit
<1>3. Works(t)
  BY <1>1, PlansFit, PlansStep, ContinueOK, EmptySeq DEF Move
<1>4. db' \in Tables
  BY <1>1, TablesOK, ConnectionOK DEF Move, Typed
<1> QED BY <1>2, <1>3, <1>4 DEF Move, Keeping, Settles, Quiet, Frame, Boards, Typed, TypeOK

(* A row of a task's dependencies or pull requests is added.               *)
LEMMA ChildKeeps ==
  ASSUME Typed, NEW t \in Threads, Depend(t) \/ AddPr(t) PROVE Keeping(t)
<1> DEFINE w == thread[t]
<1>1. /\ Busy(t) /\ ~Owes(t) /\ w.req.id \in Ids /\ Head(w.plan) \in Executing
      /\ Depend(t) => w.req.on \in Ids
      /\ AddPr(t) => w.req.number \in Numbers /\ w.req.status \in PrStatuses
  BY AtBusy, AtOK, RequestOK DEF Depend, AddPr, Owes, Belongs, Executing
<1>2. CASE Advance(t) /\ UNCHANGED silent /\ \E new \in Tables : Execute(new)
  <2>1. Works(t) /\ Owes(t)'
    BY <1>1, <1>2, ExecutingOwes
  <2> QED BY <1>2, <2>1, ConnectionOK DEF Depend, AddPr, Keeping, Settles, Frame, Boards, Typed, TypeOK
<1>3. CASE ExecuteFails /\ Abort(t)
  <2>1. Works(t) /\ db' \in Tables /\ undo' \in Tables \cup {NoTx}
    BY <1>3, AbortOK, ConnectionOK DEF Typed
  <2> QED BY <1>1, <1>3, <2>1
          DEF Depend, AddPr, ExecuteFails, Abort, Keeping, Settles, Frame, Boards, Typed, TypeOK
<1>4. \/ Advance(t) /\ UNCHANGED silent /\ \E new \in Tables : Execute(new)
      \/ ExecuteFails /\ Abort(t)
  BY <1>1, TablesOK DEF Depend, AddPr, Typed
<1> QED BY <1>2, <1>3, <1>4

(* A step of a request keeps the types.                                    *)
LEMMA ServeKeeps ==
  ASSUME Typed, NEW t \in Threads, Serve(t) PROVE Keeping(t) /\ Typed'
<1>1. Keeping(t)
  BY BeginKeeps, TellingKeeps, InsertKeeps, SaveKeeps, LookKeeps, SaveDepsKeeps, ExecuteKeeps, DropKeeps,
     RenameKeeps, MoveKeeps, ChildKeeps DEF Serve, Save
<1>2. AllFit'
  BY <1>1 DEF Keeping, Works, AllFit, Typed
<1> QED BY <1>1, <1>2 DEF Keeping, Works, Typed, TypeOK

(* So does a restart.                                                      *)
LEMMA RestartKeeps ==
  ASSUME Typed, Restart
  PROVE  Typed' /\ undo' = NoTx /\ fk' = TRUE /\ silent' = TRUE /\ \A t \in Threads : thread'[t] = Idle
<1>1. undo' = NoTx /\ fk' = TRUE /\ silent' = TRUE /\ thread' = [t \in Threads |-> Idle]
  BY DEF Restart, Rollback
<1>2. AllFit'
  BY <1>1, IdleFits DEF AllFit
<1>3. db' \in Tables
  BY ConnectionOK DEF Restart, Typed
<1> QED BY <1>1, <1>2, <1>3, IdleFits, BoundsAssumption DEF Restart, Rollback, Boards, Typed, TypeOK

(* The server starts with tables of their type.                            *)
LEMMA InitTyped == ASSUME Init PROVE Typed
<1>1. <<>> \in Seq(Entry)
  BY EmptySeq
<1>2. Empty \in Tables
  BY <1>1 DEF Empty, Tables
<1>3. AllFit /\ thread \in [Threads -> Worker]
  BY IdleFits DEF Init, AllFit
<1>4. asked \in 0 .. MaxRequests /\ restarts \in 0 .. MaxRestarts
  BY BoundsAssumption DEF Init
<1> HIDE DEF Typed
<1> QED BY <1>2, <1>3, <1>4 DEF Init, Typed, TypeOK

(* Every step keeps the types.                                             *)
LEMMA NextTyped == ASSUME Typed, [Next]_vars PROVE Typed'
<1>1. CASE UNCHANGED vars
  BY <1>1 DEF vars, ghosts, Typed, TypeOK, AllFit
<1> QED BY <1>1, ServeKeeps, RestartKeeps DEF Next

(* The tables, the requests in hand and what is known of them are of their *)
(* types, whatever the threads do: the dispatch of a request's statements, *)
(* what each of them reads of the request, and the rows written.           *)
THEOREM TypeCorrect == Spec => []TypeOK
<1>1. Init => Typed
  BY InitTyped
<1>2. Typed /\ [Next]_vars => Typed'
  BY NextTyped
<1> QED BY <1>1, <1>2, PTL DEF Spec, Typed

-----------------------------------------------------------------------------
(* What waits for a commit has a thread that owes it.                      *)
SomeOwes == undo \notin {NoTx, db} => \E t \in Threads : Owes(t)

(* A step keeps that: it wrote and owes the commit, or another thread does.*)
LEMMA NextOwes == ASSUME Typed, SomeOwes, [Next]_vars PROVE SomeOwes'
<1>1. CASE UNCHANGED vars
  BY <1>1 DEF vars, SomeOwes, Owes, Busy
<1>2. CASE Restart
  BY <1>2, RestartKeeps DEF SomeOwes
<1>3. ASSUME NEW t \in Threads, Serve(t) PROVE SomeOwes'
  <2>1. Keeping(t)
    BY <1>3, ServeKeeps
  <2>2. CASE undo' = NoTx \/ Owes(t)'
    BY <2>2 DEF SomeOwes
  <2>3. CASE ~Owes(t) /\ db' = db /\ undo' \in {undo, Before}
    <3>1. SUFFICES ASSUME undo' \notin {NoTx, db'} PROVE \E u \in Threads : Owes(u)'
      BY DEF SomeOwes
    <3>2. undo \notin {NoTx, db}
      BY <2>3, <3>1 DEF Before
    <3>3. PICK u \in Threads : Owes(u)
      BY <3>2 DEF SomeOwes
    <3>4. thread'[u] = thread[u]
      BY <2>1, <2>3, <3>3 DEF Keeping, Works
    <3> QED BY <3>3, <3>4 DEF Owes, Busy
  <2> QED BY <2>1, <2>2, <2>3 DEF Keeping, Settles
<1> QED BY <1>1, <1>2, <1>3 DEF Next

(* When no request is under way, nothing that was written waits for a      *)
(* commit, whatever statements the threads interleaved on the one          *)
(* connection and whichever of them failed.                                *)
THEOREM CommittedAtRest == Spec => []NothingUncommittedAtRest
<1>1. Init => Typed /\ SomeOwes
  BY InitTyped DEF Init, SomeOwes
<1>2. Typed /\ SomeOwes /\ [Next]_vars => Typed' /\ SomeOwes'
  BY NextTyped, NextOwes
<1>3. SomeOwes => NothingUncommittedAtRest
  BY DEF SomeOwes, NothingUncommittedAtRest, Resting, Owes
<1> QED BY <1>1, <1>2, <1>3, PTL DEF Spec

-----------------------------------------------------------------------------
(* A dependency or a pull request row has its task, now and in what a      *)
(* rollback would bring back.                                              *)
Rooted(tables) ==
  /\ \A e \in tables.deps : tables.row[e[1]] # NoRow
  /\ \A p \in tables.prs : tables.row[p.task] # NoRow
Roots == renamed = {} => fk /\ Rooted(db) /\ (undo # NoTx => Rooted(undo))

(* The statements keep it, where the foreign key is enforced.              *)
LEMMA StatementsRooted ==
  ASSUME TypeOK, fk, Rooted(db), NEW i \in Ids
  PROVE  /\ \A x \in Row : Rooted(InsertRow(i, x))
         /\ \A on \in SUBSET Ids : on = {} \/ Keeps(i) => Rooted(SetDeps(i, on))
         /\ Rooted(DeleteRow(i)) /\ Rooted(DeleteHistory(i))
         /\ \A n, x : Keeps(i) => Rooted(InsertPr(i, n, x))
         /\ \A e : Rooted([db EXCEPT !.history[i] = Append(@, e)])
         /\ Rooted([db EXCEPT !.session = @ \ {i}]) /\ Rooted([db EXCEPT !.session = @ \cup {i}])
         /\ \A p \in Projects : Exists(i) => Rooted([db EXCEPT !.row[i].project = p])
         /\ \A j : /\ Keeps(i) => Rooted([db EXCEPT !.deps = @ \cup {<<i, j>>}])
                   /\ Rooted([db EXCEPT !.deps = @ \ {<<i, j>>}])
<1>0. db \in Tables
  BY DEF TypeOK
<1>1. /\ db.row \in [Ids -> Row \cup {NoRow}] /\ db.deps \subseteq Ids \X Ids /\ db.prs \subseteq PrRow
      /\ db.history \in [Ids -> Seq(Entry)]
  BY <1>0 DEF Tables
<1>2. ASSUME NEW x \in Row PROVE Rooted(InsertRow(i, x))
  BY <1>0, <1>1, NullsAssumption DEF Tables, InsertRow, Rooted
<1>3. ASSUME NEW on \in SUBSET Ids, on = {} \/ Keeps(i) PROVE Rooted(SetDeps(i, on))
  BY <1>0, <1>1, <1>3 DEF Tables, SetDeps, Rooted, Keeps, Exists
<1>4. Rooted(DeleteRow(i))
  <2>1. CASE Exists(i)
    BY <1>0, <1>1, <2>1 DEF Tables, DeleteRow, Rooted, Cascades
  <2>2. CASE ~Exists(i)
    BY <1>0, <1>1, <2>2 DEF Tables, DeleteRow, Rooted, Cascades, Exists
  <2> QED BY <2>1, <2>2
<1>5. Rooted(DeleteHistory(i))
  BY <1>0, <1>1 DEF Tables, DeleteHistory, Rooted
<1>6. ASSUME NEW n, NEW x, Keeps(i) PROVE Rooted(InsertPr(i, n, x))
  BY <1>0, <1>1, <1>6 DEF Tables, InsertPr, Rooted, Keeps, Exists
<1>7. /\ \A e : Rooted([db EXCEPT !.history[i] = Append(@, e)])
      /\ Rooted([db EXCEPT !.session = @ \ {i}]) /\ Rooted([db EXCEPT !.session = @ \cup {i}])
  BY <1>0, <1>1 DEF Tables, Rooted
<1>8. ASSUME NEW p \in Projects, Exists(i) PROVE Rooted([db EXCEPT !.row[i].project = p])
  <2>1. [db.row[i] EXCEPT !.project = p] # NoRow
    BY <1>1, <1>8, NullsAssumption DEF Exists, Row
  <2> QED BY <1>0, <1>1, <2>1 DEF Tables, Rooted
<1>9. ASSUME NEW j
      PROVE  /\ Keeps(i) => Rooted([db EXCEPT !.deps = @ \cup {<<i, j>>}])
             /\ Rooted([db EXCEPT !.deps = @ \ {<<i, j>>}])
  BY <1>0, <1>1 DEF Tables, Rooted, Keeps, Exists
<1> QED BY <1>2, <1>3, <1>4, <1>5, <1>6, <1>7, <1>8, <1>9

(* So does every step.                                                     *)
LEMMA NextRoots == ASSUME Typed, Roots, [Next]_vars PROVE Roots'
<1>1. CASE UNCHANGED vars
  BY <1>1 DEF vars, ghosts, Roots, Rooted
<1>2. SUFFICES ASSUME Next, renamed' = {} PROVE fk' /\ Rooted(db') /\ (undo' # NoTx => Rooted(undo'))
  BY <1>1 DEF Roots, Rooted
<1>3. CASE Restart
  BY <1>2, <1>3 DEF Restart, Rollback, Before, Roots
<1>4. ASSUME NEW t \in Threads, Serve(t) PROVE fk' /\ Rooted(db') /\ (undo' # NoTx => Rooted(undo'))
  <2> DEFINE w == thread[t]
  <2>0. w.req.id \in Ids
    BY RequestOK DEF Typed, TypeOK, Worker
  <2>1. CASE ~Rename(t)
    <3>1. renamed' = renamed /\ fk' = fk
      BY <1>4, <2>1 DEF Serve, Begin, BeginNext, CommitStep, Insert, Look, Save, Update, Recreate, SaveDeps, Result, Note, Emit, Drop,
         DropHistory, DropSession, SessionOf, NewSession, Move, Depend, Undepend, AddPr, Touch, Seek, Suggest, Promote, Open, Quiet, ghosts
    <3>2. fk /\ Rooted(db) /\ (undo # NoTx => Rooted(undo)) /\ Rooted(Before)
      BY <1>2, <3>1 DEF Roots, Before
    <3>3. CASE Unchanged \/ Commit \/ Rollback \/ ExecuteFails
      BY <3>1, <3>2, <3>3 DEF Unchanged, Commit, Rollback, ExecuteFails
    <3>4. ASSUME NEW new, Rooted(new), Execute(new) \/ WithBlock(new)
          PROVE  fk' /\ Rooted(db') /\ (undo' # NoTx => Rooted(undo'))
      BY <3>1, <3>2, <3>4 DEF Execute, WithBlock
    <3>5. CASE (\E r \in Requests : Begin(t, r)) \/ BeginNext(t) \/ Look(t) \/ Result(t) \/ Emit(t)
                 \/ SessionOf(t) \/ CommitStep(t) \/ Seek(t) \/ Suggest(t)
      BY <3>3, <3>5 DEF Begin, BeginNext, Look, Result, Emit, SessionOf, CommitStep, Seek, Suggest
    <3>6. CASE Insert(t)
      <4>1. CASE ~Exists(w.req.id)
        BY <2>0, <3>2, <3>4, <3>6, <4>1, InsertIs, StatementsRooted DEF Typed
      <4> QED BY <3>3, <3>6, <4>1 DEF Insert
    <3>7. CASE Save(t)
      BY <2>0, <3>2, <3>3, <3>4, <3>7, SaveIs, StatementsRooted DEF Typed
    <3>8. CASE SaveDeps(t)
      <4>1. ASSUME NEW on \in SUBSET Ids, ReplaceDeps(t, on)
            PROVE  fk' /\ Rooted(db') /\ (undo' # NoTx => Rooted(undo'))
        BY <2>0, <3>2, <3>3, <3>4, <4>1, StatementsRooted DEF ReplaceDeps, Typed
      <4> QED BY <3>3, <3>8, <4>1, SaveDepsIs
    <3>9. CASE Note(t) \/ DropHistory(t) \/ DropSession(t) \/ Open(t) \/ Drop(t) \/ Undepend(t)
      BY <2>0, <3>2, <3>4, <3>9, StatementsRooted
         DEF Note, DropHistory, DropSession, Open, Drop, Undepend, Typed
    <3>13. CASE Touch(t) \/ Promote(t)
      BY <2>0, <3>2, <3>4, <3>13, PromoteIs, StatementsRooted DEF Touch, Typed
    <3>10. CASE NewSession(t)
      <4>1. w.req.to \in Ids
        BY <3>10, AtBusy, AtOK, RequestOK DEF NewSession, Belongs
      <4> QED BY <3>2, <3>4, <3>10, <4>1, StatementsRooted DEF NewSession, Typed
    <3>11. CASE Move(t)
      <4>1. w.req.to \in Projects
        BY <3>11, AtBusy, AtOK, RequestOK DEF Move, Belongs
      <4> QED BY <2>0, <3>2, <3>3, <3>4, <3>11, <4>1, StatementsRooted DEF Move, Typed
    <3>12. CASE Depend(t) \/ AddPr(t)
      BY <2>0, <3>2, <3>3, <3>4, <3>12, StatementsRooted DEF Depend, AddPr, Typed
    <3> QED BY <1>4, <2>1, <3>5, <3>6, <3>7, <3>8, <3>9, <3>10, <3>11, <3>12, <3>13 DEF Serve, Save
  <2>2. CASE Rename(t)
    <3>1. renamed' = renamed /\ ((Rollback /\ UNCHANGED fk) \/ (Commit /\ UNCHANGED fk))
      BY <1>2, <2>2 DEF Rename
    <3> QED BY <1>2, <3>1 DEF Rollback, Commit, Before, Roots
  <2> QED BY <2>1, <2>2
<1> QED BY <1>2, <1>3, <1>4 DEF Next

(* Before a rename the connection enforces the foreign keys, and each      *)
(* dependency and each pull request row has its task: saves over a row     *)
(* that is gone, cascades, and what a rollback or a crash brings back.     *)
THEOREM ChildrenHaveTasks == Spec => []NoOrphans
<1>1. Init => Typed /\ Roots
  <2>1. Rooted(Empty)
    BY DEF Rooted, Empty
  <2> QED BY <2>1, InitTyped DEF Init, Roots
<1>2. Typed /\ Roots /\ [Next]_vars => Typed' /\ Roots'
  BY NextTyped, NextRoots
<1>3. Roots => NoOrphans
  BY DEF Roots, Rooted, NoOrphans, Exists
<1> QED BY <1>1, <1>2, <1>3, PTL DEF Spec

-----------------------------------------------------------------------------
(* A thread that will tell the boards, or that plans to.                   *)
WillTell(t) == \E n \in DOMAIN thread[t].plan : thread[t].plan[n] \in {"emit", "result"}
SomeTells   == stale /\ ~silent => \E t \in Threads : WillTell(t)

(* What a step other than an event does to a change that is to be told.    *)
Telling(t) ==
  /\ stale' = (stale \/ Board(db') # Board(db))
  /\ silent => silent'
  /\ WillTell(t) => WillTell(t)' \/ silent'
  /\ Board(db') # Board(db) => WillTell(t)' \/ silent'

(* A thread that goes on with its plan will tell what it was to tell.      *)
LEMMA AdvanceTells ==
  ASSUME Typed, NEW t \in Threads, Busy(t), Advance(t) \/ Look(t)
  PROVE  /\ WillTell(t) /\ Head(thread[t].plan) \notin {"emit", "result"} => WillTell(t)'
         /\ Head(thread[t].plan) \in Showing /\ thread[t].req.kind # "check" => WillTell(t)'
<1> DEFINE plan == thread[t].plan
<1>1. /\ plan \in Seq(Steps) /\ plan # <<>> /\ PlanFits(plan, thread[t].req.kind)
      /\ Head(plan) = plan[1] /\ 1 \in DOMAIN plan
  BY AtOK DEF Fits
<1>2. thread'[t].plan = Tail(plan)
  BY AtOK, AdvanceOK, LookOK DEF Worker
<1>3. \A n \in DOMAIN plan : n # 1 => n - 1 \in DOMAIN Tail(plan) /\ Tail(plan)[n - 1] = plan[n]
  BY <1>1, TailFits
<1>4. ASSUME NEW n \in DOMAIN plan, n # 1, plan[n] \in {"emit", "result"} PROVE WillTell(t)'
  BY <1>2, <1>3, <1>4 DEF WillTell
<1>5. WillTell(t) /\ Head(plan) \notin {"emit", "result"} => WillTell(t)'
  BY <1>1, <1>4 DEF WillTell
<1>6. Head(plan) \in Showing /\ thread[t].req.kind # "check" => WillTell(t)'
  <2>1. Head(plan) \in Showing /\ thread[t].req.kind # "check" =>
          \E n \in DOMAIN plan : n > 1 /\ plan[n] \in {"emit", "result"}
    BY <1>1 DEF PlanFits
  <2>2. ~ (1 > 1)
    OBVIOUS
  <2> QED BY <1>4, <2>1, <2>2
<1> QED BY <1>5, <1>6

(* A plan that is replaced had no event in it.                             *)
LEMMA ReplannedTells ==
  ASSUME Typed, NEW t \in Threads, Busy(t), Head(thread[t].plan) \in Replanned PROVE ~WillTell(t)
BY AtOK DEF Fits, PlanFits, WillTell

(* Requests that begin, statements that fail.                              *)
LEMMA ServeTells ==
  ASSUME Typed, NEW t \in Threads, Serve(t), ~Emit(t) PROVE Telling(t)
<1> DEFINE w == thread[t]
<1>0. db \in Tables /\ w \in Worker
  BY DEF Typed, TypeOK
<1>1. CASE (\E r \in Requests : Begin(t, r)) \/ BeginNext(t)
  <2>1. ~WillTell(t)
    BY <1>1 DEF Begin, BeginNext, Busy, WillTell
  <2>2. UNCHANGED <<db, stale, silent>> /\ stale \in BOOLEAN
    BY <1>1 DEF Begin, BeginNext, Unchanged, ghosts, Typed, TypeOK
  <2> QED BY <2>1, <2>2 DEF Telling, Board
<1>2. SUFFICES ASSUME Busy(t), ~ ((\E r \in Requests : Begin(t, r)) \/ BeginNext(t)) PROVE Telling(t)
  BY <1>1, AtBusy
     DEF Serve, CommitStep, Insert, Look, Save, Update, Recreate, SaveDeps, Result, Note, Drop, DropHistory, DropSession,
         Rename, SessionOf, NewSession, Move, Depend, Undepend, AddPr, Touch, Seek, Suggest, Promote, Open
<1>3. CASE CommitStep(t)
  BY <1>2, <1>3, AtBusy, AdvanceTells DEF CommitStep, Commit, Telling, Frame, Boards, Quiet
<1>4. CASE Note(t) \/ DropHistory(t) \/ DropSession(t) \/ NewSession(t) \/ Open(t) \/ Touch(t) \/ Look(t)
  <2>1. /\ Advance(t) \/ Look(t)
        /\ Quiet /\ Frame /\ Head(w.plan) \notin {"emit", "result"}
    BY <1>4, AtBusy DEF Note, DropHistory, DropSession, NewSession, Open, Touch, Look
  <2>2. Board(db') = Board(db)
    BY <1>0, <1>4
       DEF Note, DropHistory, DropSession, NewSession, Open, Touch, Look, Execute, Unchanged, DeleteHistory, Board, Tables
  <2> QED BY <1>2, <2>1, <2>2, AdvanceTells DEF Telling, Frame, Boards, Quiet
<1>5. CASE Result(t)
  <2>1. thread'[t].plan \in {<<"note", "commit", "emit">>, <<"emit">>}
    BY <1>0, <1>5 DEF Result, Continue, Typed, TypeOK, Worker
  <2>2. WillTell(t)'
    BY <2>1 DEF WillTell
  <2> QED BY <1>5, <2>2 DEF Result, Unchanged, Telling, Frame, Boards, Quiet
<1>6. CASE Advance(t) /\ Frame /\ Head(w.plan) \in Showing /\ silent' = (silent \/ w.req.kind = "check")
  <2>1. WillTell(t)' \/ silent'
    BY <1>2, <1>6, AdvanceTells
  <2> QED BY <1>6, <2>1 DEF Telling, Frame, Boards
<1>7. CASE Abort(t) /\ Frame
  BY <1>7 DEF Abort, Telling, Frame, Boards
<1>8. CASE Insert(t) \/ Depend(t) \/ Undepend(t)
  <2>1. Head(w.plan) \in Showing /\ w.req.kind # "check"
    BY <1>8, AtBusy, AtOK DEF Insert, Depend, Undepend, Showing, Belongs
  <2>2. (Advance(t) /\ UNCHANGED silent) \/ Abort(t)
    BY <1>8 DEF Insert, Depend, Undepend, Quiet
  <2>3. silent \in BOOLEAN /\ Frame
    BY <1>8 DEF Insert, Depend, Undepend, Typed, TypeOK
  <2> QED BY <1>6, <1>7, <2>1, <2>2, <2>3
<1>9. CASE SaveDeps(t)
  <2>1. Head(w.plan) \in Showing /\ Head(w.plan) \notin {"emit", "result"} /\ Frame
    BY <1>9, AtBusy DEF SaveDeps, Showing
  <2>2. CASE Unchanged /\ Advance(t) /\ UNCHANGED <<silent, undone>>
    BY <1>2, <2>1, <2>2, AdvanceTells DEF Unchanged, Board, Telling, Frame, Boards
  <2>3. ASSUME NEW on, ReplaceDeps(t, on) PROVE Telling(t)
    BY <1>6, <1>7, <2>1, <2>3 DEF ReplaceDeps
  <2> QED BY <1>9, <2>2, <2>3, SaveDepsIs
<1>10. CASE Save(t)
  <2>1. Head(w.plan) \in Showing /\ Frame
    BY <1>10, SaveKeeps DEF Save, Update, Recreate, Showing
  <2> QED BY <1>6, <1>7, <1>10, <2>1, SaveIs DEF Saved
<1>14. CASE Promote(t)
  <2>1. /\ Advance(t) /\ Head(w.plan) \in Showing /\ Frame /\ UNCHANGED silent
        /\ silent \in BOOLEAN
    BY <1>14, AtBusy DEF Promote, Showing, Quiet, Typed, TypeOK
  <2>2. w.req.kind # "check"
    BY <1>14, PromoteIs
  <2> QED BY <1>6, <2>1, <2>2
<1>15. CASE Seek(t) \/ Suggest(t)
  <2>1. Board(db') = Board(db) /\ UNCHANGED silent /\ Frame
    BY <1>15 DEF Seek, Suggest, Unchanged, Board, Quiet
  <2>2. CASE At(t, "record")
    <3>1. ~Suggest(t) /\ ~At(t, "seek")
      BY <2>2 DEF Suggest, At
    <3>2. thread'[t].plan \in {<<"note", "commit", "emit">>, <<"emit">>}
      BY <1>15, <3>1, SeekOK
    <3>3. WillTell(t)'
      BY <3>2 DEF WillTell
    <3> QED BY <2>1, <3>3 DEF Telling, Frame, Boards
  <2>3. CASE ~At(t, "record")
    <3>1. Head(w.plan) \in Replanned
      BY <1>15, <2>3 DEF Seek, Suggest, At, Replanned
    <3> QED BY <1>2, <2>1, <3>1, ReplannedTells DEF Telling, Frame, Boards
  <2> QED BY <2>2, <2>3
<1>11. CASE AddPr(t)
  <2>1. Head(w.plan) \notin {"emit", "result"}
    BY <1>11, AtBusy DEF AddPr
  <2>2. CASE Execute(InsertPr(w.req.id, w.req.number, w.req.status)) /\ Advance(t) /\ UNCHANGED silent
    <3>1. Board(db') = Board(db)
      BY <1>0, <2>2 DEF Execute, InsertPr, Board, Tables
    <3> QED BY <1>2, <1>11, <2>1, <2>2, <3>1, AdvanceTells DEF AddPr, Telling, Frame, Boards
  <2> QED BY <1>7, <1>11, <2>2 DEF AddPr
<1>12. CASE Drop(t)
  <2>1. ~WillTell(t)
    BY <1>2, <1>12, AtBusy, ReplannedTells DEF Drop, Replanned
  <2>2. CASE Exists(w.req.id)
    <3>1. thread'[t].plan = <<"dropHistory", "commit", "dropSession", "commit", "emit">>
      BY <1>0, <1>12, <2>2 DEF Drop, Continue, Typed, TypeOK, Worker
    <3>2. WillTell(t)'
      BY <3>1 DEF WillTell
    <3> QED BY <1>12, <3>2 DEF Drop, Telling, Frame, Boards, Quiet
  <2>3. CASE ~Exists(w.req.id)
    <3>1. Board(db') = Board(db)
      <4>1. db.row[w.req.id] = NoRow /\ db' = DeleteRow(w.req.id)
        BY <1>12, <2>3 DEF Drop, Exists, Execute
      <4>2. db'.row = db.row /\ db'.deps = db.deps
        BY <1>0, <2>3, <4>1 DEF DeleteRow, Cascades, Tables
      <4> QED BY <4>2 DEF Board
    <3> QED BY <1>12, <2>1, <3>1 DEF Drop, Telling, Frame, Boards, Quiet
  <2> QED BY <2>2, <2>3
<1>13. CASE Rename(t) \/ SessionOf(t) \/ Move(t)
  <2>1. ~WillTell(t)
    BY <1>2, <1>13, AtBusy, ReplannedTells DEF Rename, SessionOf, Move, Replanned
  <2>2. CASE Rename(t)
    <3>1. silent' = TRUE \/ UNCHANGED <<db, silent>>
      BY <2>2 DEF Rename, Abort, Commit
    <3> QED BY <2>1, <2>2, <3>1 DEF Rename, Telling, Frame, Boards, Board
  <2>3. CASE SessionOf(t)
    BY <2>1, <2>3 DEF SessionOf, Telling, Frame, Boards, Board, Unchanged, Quiet
  <2>4. CASE Move(t)
    <3>1. CASE Exists(w.req.id)
      <4>1. thread'[t].plan = <<"note", "commit", "emit">>
        BY <1>0, <2>4, <3>1 DEF Move, Continue, Typed, TypeOK, Worker
      <4>2. WillTell(t)'
        BY <4>1 DEF WillTell
      <4> QED BY <2>4, <4>2 DEF Move, Telling, Frame, Boards, Quiet
    <3>2. CASE ~Exists(w.req.id)
      BY <2>1, <2>4, <3>2 DEF Move, Commit, Telling, Frame, Boards, Board, Quiet
    <3> QED BY <3>1, <3>2
  <2> QED BY <1>13, <2>2, <2>3, <2>4
<1> QED BY <1>1, <1>2, <1>3, <1>4, <1>5, <1>8, <1>9, <1>10, <1>11, <1>12, <1>13, <1>14, <1>15 DEF Serve, Save

(* Every step keeps that a change is told, unless it was a silent one.     *)
LEMMA NextTells == ASSUME Typed, SomeTells, [Next]_vars PROVE SomeTells'
<1>1. CASE UNCHANGED vars
  BY <1>1 DEF vars, ghosts, SomeTells, WillTell
<1>2. CASE Restart
  BY <1>2, RestartKeeps DEF SomeTells
<1>3. ASSUME NEW t \in Threads, Serve(t) PROVE SomeTells'
  <2>1. CASE Emit(t)
    BY <2>1 DEF Emit, SomeTells
  <2>2. CASE ~Emit(t)
    <3>1. Telling(t) /\ \A u \in Threads : u # t => thread'[u] = thread[u]
      BY <1>3, <2>2, ServeTells, ServeKeeps DEF Keeping, Works
    <3>2. \A u \in Threads : u # t /\ WillTell(u) => WillTell(u)'
      BY <3>1 DEF WillTell
    <3> QED BY <3>1, <3>2 DEF SomeTells, Telling
  <2> QED BY <2>1, <2>2
<1> QED BY <1>1, <1>2, <1>3 DEF Next

(* When the server rests, every change of a task or a dependency has been  *)
(* told to the boards, unless a path without an event made it: each        *)
(* request still owes its event until it ends, whatever the others emit.   *)
THEOREM BoardsAreTold == Spec => []BoardsTold
<1>1. Init => Typed /\ SomeTells
  BY InitTyped DEF Init, SomeTells
<1>2. Typed /\ SomeTells /\ [Next]_vars => Typed' /\ SomeTells'
  BY NextTyped, NextTells
<1>3. SomeTells => BoardsTold
  BY DEF SomeTells, WillTell, BoardsTold, Resting, Busy
<1> QED BY <1>1, <1>2, <1>3, PTL DEF Spec

-----------------------------------------------------------------------------
(* A request has an id in hand from its first read to its last step, and   *)
(* an id that is apart is one that no two requests had at once and that no *)
(* task was renamed from or to.                                            *)
Holds(t, i) == (Busy(t) \/ thread[t].todo # <<>>) /\ i \in IdsOf(thread[t].req)
Apart       == Ids \ (contested \cup renamed)
OneHolder   == \A i \in Ids \ contested : \A t, u \in Threads : Holds(t, i) /\ Holds(u, i) => t = u
Begins(t)   == (\E r \in Requests : Begin(t, r)) \/ BeginNext(t)

(* A thread still has the same request and the rest of it in hand.         *)
SameHand(t) ==
  /\ thread'[t].req = thread[t].req /\ thread'[t].todo = thread[t].todo
  /\ thread'[t].deps = thread[t].deps

(* A step of a request that has begun: the request stays in hand, or the   *)
(* thread has ended.                                                       *)
LEMMA HandSame ==
  ASSUME Typed, NEW t \in Threads, Serve(t), ~Begins(t)
  PROVE  /\ Busy(t) /\ UNCHANGED contested /\ renamed \subseteq renamed'
         /\ \/ thread'[t] = Idle
            \/ /\ SameHand(t)
               /\ ~Suggest(t) /\ ~Result(t) => thread'[t].to = thread[t].to
               /\ ~Result(t) /\ ~Seek(t) => thread'[t].snap = thread[t].snap
               /\ ~Look(t) => thread'[t].found = thread[t].found
<1>0. thread \in [Threads -> Worker] /\ thread[t] \in Worker
  BY DEF Typed, TypeOK
<1>1. Busy(t)
  BY AtBusy
     DEF Begins, Serve, CommitStep, Insert, Look, Save, Update, Recreate, SaveDeps, Result, Note, Emit, Drop, DropHistory, DropSession,
         Rename, SessionOf, NewSession, Move, Depend, Undepend, AddPr, Touch, Seek, Suggest, Promote, Open
<1>2. CASE Advance(t) \/ (\E p : Continue(t, p)) \/ Abort(t)
  <2>1. \/ thread'[t] = Idle
        \/ /\ SameHand(t) /\ thread'[t].snap = thread[t].snap /\ thread'[t].to = thread[t].to
           /\ thread'[t].found = thread[t].found
    BY <1>0, <1>2 DEF Advance, Continue, Abort, Worker, SameHand
  <2>2. UNCHANGED contested /\ renamed \subseteq renamed'
    BY DEF Begins, Serve, CommitStep, Insert, Look, Save, Update, Recreate, SaveDeps, Result, Note, Emit, Drop, DropHistory, DropSession,
       Rename, SessionOf, NewSession, Move, Depend, Undepend, AddPr, Touch, Seek, Suggest, Promote, Open, Frame, Quiet, ReplaceDeps
  <2> QED BY <1>1, <2>1, <2>2
<1>3. CASE Result(t)
  <2>1. Logs(t) => SameHand(t) /\ thread'[t].found = thread[t].found
    <3> DEFINE w   == thread[t]
               new == [w EXCEPT !.plan = <<"note", "commit", "emit">>, !.to = db.row[w.req.id].status,
                                !.snap.born = db.row[w.req.id].born]
    <3>1. Logs(t) => thread' = [thread EXCEPT ![t] = new]
      BY <1>3 DEF Result
    <3>2. new.req = w.req /\ new.todo = w.todo /\ new.deps = w.deps /\ new.found = w.found
      BY <1>0 DEF Worker
    <3> HIDE DEF new
    <3> QED BY <1>0, <3>1, <3>2 DEF SameHand
  <2>2. ~Logs(t) => SameHand(t) /\ thread'[t].found = thread[t].found
    BY <1>0, <1>3 DEF Result, Continue, Worker, SameHand
  <2>3. UNCHANGED contested /\ renamed \subseteq renamed'
    BY <1>3 DEF Result, Quiet, Frame
  <2> QED BY <1>1, <1>3, <2>1, <2>2, <2>3 DEF SameHand
<1>4. CASE CommitStep(t) \/ Note(t) \/ Emit(t) \/ DropHistory(t) \/ DropSession(t) \/ NewSession(t)
             \/ Undepend(t) \/ Open(t) \/ Touch(t) \/ Promote(t)
  BY <1>2, <1>4
     DEF CommitStep, Note, Emit, DropHistory, DropSession, NewSession, Undepend, Open, Touch, Promote
<1>5. CASE Insert(t) \/ SaveDeps(t) \/ Depend(t) \/ AddPr(t)
  BY <1>2, <1>5 DEF Insert, SaveDeps, ReplaceDeps, Depend, AddPr
<1>8. CASE Look(t)
  <2>1. thread'[t] = [thread[t] EXCEPT !.plan = Tail(thread[t].plan), !.found = Exists(thread[t].req.id)]
    BY <1>8, LookOK
  <2>2. SameHand(t) /\ thread'[t].snap = thread[t].snap /\ thread'[t].to = thread[t].to
    BY <1>0, <2>1 DEF Worker, SameHand
  <2> QED BY <1>1, <1>8, <2>2 DEF Look, Quiet, Frame
<1>9. CASE Seek(t) \/ Suggest(t)
  <2>1. UNCHANGED contested /\ renamed \subseteq renamed'
    BY <1>9 DEF Seek, Suggest, Quiet, Frame
  <2> QED BY <1>1, <1>9, <2>1, SeekOK DEF SameHand
<1>6. CASE Save(t) \/ Drop(t)
  <2>1. Save(t) => Advance(t) \/ Abort(t)
    BY SaveKeeps
  <2>2. Drop(t) => \E p : Continue(t, p)
    BY DEF Drop
  <2> QED BY <1>2, <1>6, <2>1, <2>2
<1>7. CASE Rename(t) \/ SessionOf(t) \/ Move(t)
  BY <1>2, <1>7 DEF Rename, SessionOf, Move
<1> QED BY <1>3, <1>4, <1>5, <1>6, <1>7, <1>8, <1>9 DEF Begins, Serve, Save

(* What a request has in hand when it begins.                              *)
LEMMA HandBegun ==
  ASSUME Typed, NEW t \in Threads, Begins(t)
  PROVE  /\ ~Busy(t) /\ Unchanged /\ contested \subseteq contested' /\ UNCHANGED <<renamed, restarts>>
         /\ UNCHANGED <<undone, detected>>
         /\ \E r \in Request :
              /\ \/ \E q \in Requests : q = r /\ Begin(t, r)
                 \/ BeginNext(t) /\ Holds(t, r.id) /\ r.kind \in {"update", "depend"}
              /\ thread'[t].plan = Plan(r) /\ thread'[t].req = Working(r).req
              /\ thread'[t].snap = Working(r).snap /\ thread'[t].to = NoStatus
              /\ IdsOf(thread'[t].req) = IdsOf(r) /\ thread'[t].req.id = r.id /\ thread'[t].req.kind = r.kind
<1>0. thread \in [Threads -> Worker] /\ thread[t] \in Worker /\ Fits(thread[t])
  BY DEF Typed, TypeOK, AllFit
<1>1. ASSUME NEW r \in Requests, Begin(t, r)
      PROVE  /\ r \in Request /\ thread'[t] = Working(r) /\ ~Busy(t) /\ Unchanged
             /\ contested \subseteq contested' /\ UNCHANGED <<renamed, restarts, undone, detected>>
  BY <1>0, <1>1, RequestsAssumption DEF Begin, Contend
<1>2. CASE BeginNext(t)
  <2> DEFINE r == Head(thread[t].todo)
  <2>1. thread[t].todo \in Seq(Request) /\ thread[t].todo # <<>>
    BY <1>0, <1>2 DEF BeginNext, Worker
  <2>2. r \in Request /\ r = thread[t].todo[1] /\ 1 \in DOMAIN thread[t].todo
    BY <2>1, HeadTailProperties, EmptySeq, LenProperties
  <2>3. r.id = thread[t].req.id /\ r.kind \in {"update", "depend"}
    BY <1>0, <2>2 DEF Fits, TodoFits
  <2>4. thread'[t] = [Working(r) EXCEPT !.todo = Tail(thread[t].todo)]
    BY <1>0, <1>2 DEF BeginNext
  <2> HIDE DEF r
  <2>5. Working(r) \in Worker
    BY <2>2, WorkingOK DEF Typed
  <2>6. /\ thread'[t].plan = Working(r).plan /\ thread'[t].req = Working(r).req
        /\ thread'[t].snap = Working(r).snap /\ thread'[t].to = Working(r).to
    BY <2>4, <2>5 DEF Worker
  <2>7. Holds(t, r.id)
    BY <2>1, <2>3 DEF Holds, IdsOf
  <2> QED BY <1>2, <2>2, <2>3, <2>6, <2>7, WorkingOK DEF BeginNext, ghosts, Typed
<1> QED BY <1>1, <1>2, WorkingOK DEF Begins, Typed

(* Two requests never have an id in hand at once that is not contested.    *)
LEMMA NextOneHolder == ASSUME Typed, OneHolder, [Next]_vars PROVE OneHolder'
<1>1. CASE UNCHANGED vars
  BY <1>1 DEF vars, ghosts, OneHolder, Holds, Busy
<1>2. CASE Restart
  <2>1. \A t \in Threads : thread'[t].plan = <<>> /\ thread'[t].todo = <<>>
    BY <1>2, RestartKeeps, IdleFits
  <2> QED BY <2>1 DEF OneHolder, Holds, Busy
<1>3. ASSUME NEW t \in Threads, Serve(t) PROVE OneHolder'
  <2>1. \A u \in Threads : u # t => thread'[u] = thread[u]
    BY <1>3, ServeKeeps DEF Keeping, Works
  <2>2. \A u \in Threads, i \in Ids : u # t => (Holds(u, i)' <=> Holds(u, i))
    BY <2>1 DEF Holds, Busy
  <2>3. contested \subseteq contested'
    BY <1>3, HandSame, HandBegun
  <2>4. SUFFICES ASSUME NEW i \in Ids \ contested', NEW u \in Threads, u # t, Holds(u, i), Holds(t, i)'
                 PROVE  FALSE
    BY <2>2, <2>3 DEF OneHolder
  <2>5. ~Holds(t, i)
    BY <2>3, <2>4 DEF OneHolder
  <2>6. CASE ~Begins(t)
    <3>1. thread'[t] # Idle
      BY <2>4 DEF Holds, Busy, Idle
    <3>2. Holds(t, i)
      BY <1>3, <2>4, <2>6, <3>1, HandSame DEF Holds, SameHand
    <3> QED BY <2>5, <3>2
  <2>7. CASE Begins(t)
    <3>1. PICK r \in Request :
            /\ \/ \E q \in Requests : q = r /\ Begin(t, r)
               \/ BeginNext(t) /\ Holds(t, r.id) /\ r.kind \in {"update", "depend"}
            /\ IdsOf(thread'[t].req) = IdsOf(r)
      BY <2>7, HandBegun
    <3>2. i \in IdsOf(r)
      BY <2>4, <3>1 DEF Holds
    <3>3. CASE BeginNext(t) /\ Holds(t, r.id) /\ r.kind \in {"update", "depend"}
      BY <2>5, <3>2, <3>3 DEF IdsOf
    <3>4. CASE Begin(t, r)
      <4>1. i \in IdsOf(thread[u].req) \cap IdsOf(r) /\ (Busy(u) \/ thread[u].todo # <<>>)
        BY <2>4, <3>2 DEF Holds
      <4>2. i \in contested'
        BY <2>4, <3>4, <4>1 DEF Begin, Contend
      <4> QED BY <2>4, <4>2
    <3> QED BY <3>1, <3>3, <3>4
  <2> QED BY <2>6, <2>7
<1> QED BY <1>1, <1>2, <1>3 DEF Next

(* What the tables hold of a task, apart from its dependencies.            *)
Slice(tables, i) == <<tables.row[i], tables.history[i], i \in tables.session>>

(* A request changes nothing of a task that it does not have in hand,      *)
(* unless its error takes back what others have executed.                  *)
LEMMA Elsewhere ==
  ASSUME Typed, NEW t \in Threads, Serve(t), NEW i \in Ids, ~ (Busy(t) /\ i \in IdsOf(thread[t].req))
  PROVE  \/ Slice(db', i) = Slice(db, i) /\ undo' \in {undo, NoTx, Before}
         \/ Rollback
<1> DEFINE w == thread[t]
<1>0. db \in Tables /\ w \in Worker
  BY DEF Typed, TypeOK
<1>1. CASE Unchanged \/ Commit \/ ExecuteFails \/ Rollback
  BY <1>1 DEF Unchanged, Commit, ExecuteFails, Slice
<1>2. ASSUME NEW new, Execute(new) \/ WithBlock(new), Slice(new, i) = Slice(db, i)
      PROVE  Slice(db', i) = Slice(db, i) /\ undo' \in {undo, NoTx, Before}
  BY <1>2 DEF Execute, WithBlock, Slice
<1>3. CASE Begins(t)
  BY <1>1, <1>3, HandBegun
<1>4. SUFFICES ASSUME Busy(t), i \notin IdsOf(w.req), ~Begins(t)
               PROVE  \/ Slice(db', i) = Slice(db, i) /\ undo' \in {undo, NoTx, Before}
                      \/ Rollback
  BY <1>3, HandSame
<1>5. i # w.req.id /\ (w.req.kind = "rename" => i # w.req.to)
  BY <1>4 DEF IdsOf
<1>6. CASE CommitStep(t) \/ Look(t) \/ Result(t) \/ Emit(t) \/ SessionOf(t) \/ Seek(t) \/ Suggest(t)
  BY <1>1, <1>6 DEF CommitStep, Look, Result, Emit, SessionOf, Seek, Suggest
<1>7. CASE Insert(t) \/ Save(t) \/ Touch(t) \/ Promote(t)
  <2>1. \A x : Slice(InsertRow(w.req.id, x), i) = Slice(db, i)
    BY <1>0, <1>5 DEF InsertRow, Slice, Tables
  <2>2. CASE Save(t)
    BY <1>1, <1>2, <2>1, <2>2, SaveIs
  <2> QED BY <1>1, <1>2, <1>7, <2>1, <2>2 DEF Insert, Touch, Promote
<1>8. CASE SaveDeps(t)
  <2>1. \A on : Slice(SetDeps(w.req.id, on), i) = Slice(db, i)
    BY <1>0 DEF SetDeps, Slice, Tables
  <2>2. ASSUME NEW on, ReplaceDeps(t, on)
        PROVE  \/ Slice(db', i) = Slice(db, i) /\ undo' \in {undo, NoTx, Before}
               \/ Rollback
    BY <1>1, <1>2, <2>1, <2>2 DEF ReplaceDeps
  <2> QED BY <1>1, <1>8, <2>2, SaveDepsIs
<1>9. CASE Note(t)
  <2>1. \A e : Slice([db EXCEPT !.history[w.req.id] = Append(@, e)], i) = Slice(db, i)
    BY <1>0, <1>5 DEF Slice, Tables
  <2> QED BY <1>2, <1>9, <2>1 DEF Note
<1>10. CASE Drop(t)
  <2>1. Slice(DeleteRow(w.req.id), i) = Slice(db, i)
    BY <1>0, <1>5 DEF DeleteRow, Slice, Tables
  <2> QED BY <1>2, <1>10, <2>1 DEF Drop
<1>11. CASE DropHistory(t)
  <2>1. Slice(DeleteHistory(w.req.id), i) = Slice(db, i)
    BY <1>0, <1>5 DEF DeleteHistory, Slice, Tables
  <2> QED BY <1>2, <1>11, <2>1 DEF DropHistory
<1>12. CASE DropSession(t) \/ Open(t)
  <2>1. /\ Slice([db EXCEPT !.session = @ \ {w.req.id}], i) = Slice(db, i)
        /\ Slice([db EXCEPT !.session = @ \cup {w.req.id}], i) = Slice(db, i)
    BY <1>0, <1>5 DEF Slice, Tables
  <2> QED BY <1>2, <1>12, <2>1 DEF DropSession, Open
<1>13. CASE NewSession(t)
  <2>1. w.req.kind = "rename"
    BY <1>13, AtBusy, AtOK DEF NewSession, Belongs
  <2>2. Slice([db EXCEPT !.session = @ \cup {w.req.to}], i) = Slice(db, i)
    BY <1>0, <1>5, <2>1 DEF Slice, Tables
  <2> QED BY <1>2, <1>13, <2>2 DEF NewSession
<1>14. CASE Rename(t)
  <2>1. w.req.kind = "rename" /\ w.req.id \in Ids /\ w.req.to \in Ids
    BY <1>14, AtBusy, AtOK, RequestOK DEF Rename, Belongs
  <2>2. Slice(RenameRow(w.req.id, w.req.to), i) = Slice(db, i)
    BY <1>0, <1>5, <2>1 DEF RenameRow, Slice, Tables
  <2> QED BY <1>1, <1>2, <1>14, <2>2 DEF Rename
<1>15. CASE Move(t)
  <2>1. Slice([db EXCEPT !.row[w.req.id].project = w.req.to], i) = Slice(db, i)
    BY <1>0, <1>5 DEF Slice, Tables
  <2> QED BY <1>1, <1>2, <1>15, <2>1 DEF Move
<1>16. CASE Depend(t) \/ Undepend(t) \/ AddPr(t)
  <2>1. /\ \A d : Slice([db EXCEPT !.deps = d], i) = Slice(db, i)
        /\ \A n, x : Slice(InsertPr(w.req.id, n, x), i) = Slice(db, i)
    BY <1>0 DEF InsertPr, Slice, Tables
  <2> QED BY <1>1, <1>2, <1>16, <2>1 DEF Depend, Undepend, AddPr
<1> QED BY <1>4, <1>6, <1>7, <1>8, <1>9, <1>10, <1>11, <1>12, <1>13, <1>14, <1>15, <1>16 DEF Serve, Begins, Save

-----------------------------------------------------------------------------
(* Only the beginning of a request comes to one of these steps.            *)
Opening == {"insert", "look", "drop", "rename", "move", "open"}

(* Only the beginning of a request comes to one of them, and only the look *)
(* for the row comes to a save.                                            *)
LEMMA OpeningBegins ==
  ASSUME Typed, NEW t \in Threads, Serve(t), ~Begins(t), Busy(t)'
  PROVE  Head(thread'[t].plan) \notin Opening /\ (Head(thread'[t].plan) = "save" => Look(t))
<1> DEFINE w == thread[t]
<1>0. Busy(t) /\ w \in Worker /\ thread \in [Threads -> Worker]
  BY HandSame DEF Typed, TypeOK
<1>1. CASE Advance(t) \/ Look(t)
  <2>1. /\ w.plan \in Seq(Steps) /\ w.plan # <<>> /\ PlanFits(w.plan, w.req.kind)
        /\ thread'[t].plan = Tail(w.plan)
    <3>1. w.plan \in Seq(Steps) /\ w.plan # <<>> /\ PlanFits(w.plan, w.req.kind)
      BY <1>0, AtOK DEF Fits
    <3>2. \/ thread'[t] = [w EXCEPT !.plan = Tail(w.plan)]
          \/ thread'[t] = [w EXCEPT !.plan = Tail(w.plan), !.found = Exists(w.req.id)]
      BY <1>0, <1>1, AdvanceOK, LookOK
    <3> QED BY <1>0, <3>1, <3>2 DEF Worker
  <2>2. Tail(w.plan) # <<>>
    BY <2>1 DEF Busy
  <2>3. /\ Head(thread'[t].plan) \notin First
        /\ Head(thread'[t].plan) = "save" => Head(w.plan) = "look"
    BY <2>1, <2>2, TailHead
  <2>4. Head(w.plan) = "look" => Look(t)
    BY DEF At, Begins, Serve, CommitStep, Insert, Look, Save, Update, Recreate, SaveDeps, Result, Note, Emit, Drop, DropHistory, DropSession,
           Rename, SessionOf, NewSession, Move, Depend, Undepend, AddPr, Touch, Seek, Suggest, Promote, Open
  <2> QED BY <2>3, <2>4 DEF Opening, First
<1>2. CASE Abort(t)
  BY <1>0, <1>2, IdleFits, AbortOK DEF Busy
<1>3. CASE Save(t) \/ Drop(t)
  <2>1. Drop(t) => Head(thread'[t].plan) \in {"commit", "dropHistory", "touch"}
    BY DropKeeps DEF Owes
  <2> QED BY <1>1, <1>2, <1>3, <2>1, SaveKeeps DEF Opening
<1>6. CASE Seek(t) \/ Suggest(t)
  <2>1. \/ thread'[t].plan = Tail(w.plan) /\ Suggest(t)
        \/ thread'[t].plan \in {<<"note", "commit", "suggest">>, <<"note", "commit", "emit">>,
                               <<"suggest">>, <<"emit">>, <<"promote", "commit", "record", "emit">>}
    BY <1>6, SeekOK
  <2>2. CASE thread'[t].plan = Tail(w.plan) /\ Suggest(t)
    <3>1. /\ w.plan \in Seq(Steps) /\ w.plan # <<>> /\ PlanFits(w.plan, w.req.kind)
          /\ Tail(w.plan) # <<>> /\ Head(w.plan) # "look"
      BY <1>0, <2>2, AtOK DEF Fits, Busy, Suggest, At
    <3> QED BY <2>2, <3>1, TailHead DEF Opening, First
  <2> QED BY <2>1, <2>2 DEF Opening
<1>4. CASE Result(t)
  <2>1. thread'[t].plan \in {<<"note", "commit", "emit">>, <<"emit">>}
    BY <1>0, <1>4 DEF Result, Continue, Worker
  <2> QED BY <2>1 DEF Opening
<1>5. CASE Rename(t) \/ SessionOf(t) \/ Move(t)
  <2>1. \/ Abort(t)
        \/ thread'[t].plan \in {<<>>, <<"session">>, <<"dropSession", "commit", "newSession", "commit">>,
                               <<"note", "commit", "emit">>}
    BY <1>0, <1>5 DEF Rename, SessionOf, Move, Continue, Worker
  <2> QED BY <1>2, <2>1 DEF Opening, Busy
<1>7. CASE SaveDeps(t)
  BY <1>1, <1>2, <1>7 DEF SaveDeps, ReplaceDeps
<1> QED BY <1>1, <1>2, <1>3, <1>4, <1>5, <1>6, <1>7
        DEF Begins, Serve, Save, CommitStep, Insert, Note, Emit, DropHistory,
            DropSession, NewSession, Depend, Undepend, AddPr, Touch, Promote, Open

(* What a rollback would bring back of a task's row is the row, unless the *)
(* request that has the task in hand owes a commit; and it is a row, where *)
(* the row has a ticket.                                                   *)
RowUndo == \A i \in Apart : \/ undo = NoTx \/ undo.row[i] = db.row[i]
                            \/ \E t \in Threads : Holds(t, i) /\ Owes(t)
TicketUndo == \A i \in Apart : undo # NoTx /\ Exists(i) /\ db.row[i].ticket => undo.row[i] # NoRow
(* A delete finds the row it looked at, without a ticket, a save finds its.*)
Finds == \A t \in Threads : thread[t].req.id \in Apart =>
           /\ At(t, "drop") => Exists(thread[t].req.id) /\ ~db.row[thread[t].req.id].ticket
           /\ At(t, "look") => Exists(thread[t].req.id)
           /\ At(t, "save") => Exists(thread[t].req.id) /\ thread[t].found
TicketInv == OneHolder /\ RowUndo /\ TicketUndo /\ Finds

(* A thread that has a task in hand and owes no commit sees its row as a   *)
(* rollback would leave it.                                                *)
LEMMA Steady ==
  ASSUME OneHolder, RowUndo, NEW i \in Apart, NEW t \in Threads, Holds(t, i), ~Owes(t)
  PROVE  Before.row[i] = db.row[i] /\ (undo = NoTx \/ undo.row[i] = db.row[i])
BY DEF OneHolder, RowUndo, Before, Apart

(* A step keeps what a rollback would bring back of the rows.              *)
LEMMA ServeRowUndo ==
  ASSUME Typed, TicketInv, NEW t \in Threads, Serve(t) PROVE RowUndo'
<1>0. /\ Keeping(t)
      /\ \A u \in Threads : u # t => thread'[u] = thread[u]
      /\ Apart' \subseteq Apart
  BY ServeKeeps, HandSame, HandBegun DEF Keeping, Works, Apart
<1>1. SUFFICES ASSUME NEW i \in Apart', undo' # NoTx
               PROVE  undo'.row[i] = db'.row[i] \/ \E u \in Threads : Holds(u, i)' /\ Owes(u)'
  BY DEF RowUndo
<1>2. i \in Apart /\ i \in Ids
  BY <1>0, <1>1 DEF Apart
<1>3. \A u \in Threads : u # t => (Holds(u, i)' <=> Holds(u, i)) /\ (Owes(u)' <=> Owes(u))
  BY <1>0 DEF Holds, Owes, Busy
<1>4. CASE ~ (Busy(t) /\ i \in IdsOf(thread[t].req))
  <2>1. ~ (Holds(t, i) /\ Owes(t))
    BY <1>4 DEF Holds, Owes
  <2>2. db'.row[i] = db.row[i] /\ undo' \in {undo, Before}
    BY <1>1, <1>2, <1>4, Elsewhere DEF Slice, Rollback
  <2> QED BY <1>1, <1>2, <1>3, <2>1, <2>2 DEF TicketInv, RowUndo, Before
<1>5. CASE Busy(t) /\ i \in IdsOf(thread[t].req)
  <2>1. Holds(t, i) /\ ~Begins(t)
    BY <1>5, HandBegun DEF Holds
  <2>2. CASE Owes(t)'
    <3>1. thread'[t] # Idle
      BY <2>2, IdleFits DEF Owes, Busy
    <3>2. Holds(t, i)'
      BY <1>5, <2>1, <2>2, <3>1, HandSame DEF Holds, SameHand, Owes
    <3> QED BY <2>2, <3>2
  <2>3. CASE ~Owes(t) /\ db' = db /\ undo' \in {undo, Before}
    BY <1>1, <1>2, <2>1, <2>3, Steady DEF TicketInv, Before
  <2> QED BY <1>0, <1>1, <2>2, <2>3 DEF Keeping, Settles
<1> QED BY <1>4, <1>5

(* What the requests do to the row of the task they have in hand.          *)
LEMMA RowSteps ==
  ASSUME Typed, NEW t \in Threads, Serve(t), Busy(t), NEW i \in Ids, i \in IdsOf(thread[t].req)
  PROVE  \/ db'.row[i] = db.row[i]
         \/ Rollback
         \/ i \in renamed'
         \/ /\ Insert(t) /\ i = thread[t].req.id /\ db'.row[i] \in Row /\ ~db'.row[i].ticket
            /\ db'.row[i].status = db'.row[i].first /\ ~Exists(i) /\ undo' = Before
         \/ /\ Save(t) /\ i = thread[t].req.id /\ db'.row[i] \in Row /\ undo' = Before
            /\ Exists(i) => db'.row[i].born = db.row[i].born /\ db'.row[i].first = db.row[i].first
            /\ db'.row[i].status = Changed(thread[t].req, thread[t].snap).status
         \/ /\ Promote(t) /\ i = thread[t].req.id /\ db'.row[i] \in Row /\ undo' = Before /\ Exists(i)
            /\ db'.row[i].born = db.row[i].born /\ db'.row[i].first = db.row[i].first
            /\ db'.row[i].status = thread[t].to /\ db'.row[i].ticket = db.row[i].ticket
         \/ /\ Move(t) /\ i = thread[t].req.id /\ db'.row[i] \in Row /\ undo' = NoTx /\ Exists(i)
            /\ db'.row[i].born = db.row[i].born /\ db'.row[i].status = db.row[i].status
            /\ db'.row[i].first = db.row[i].first
         \/ Drop(t) /\ i = thread[t].req.id /\ db'.row[i] = NoRow /\ undo' = Before
<1> DEFINE w == thread[t]
<1>0. /\ db \in Tables /\ db.row \in [Ids -> Row \cup {NoRow}] /\ w.req.id \in Ids
      /\ i = w.req.id \/ (w.req.kind = "rename" /\ i = w.req.to)
  BY AtOK DEF Typed, TypeOK, Tables, IdsOf
<1>1. CASE Unchanged \/ Commit \/ ExecuteFails \/ Rollback
  BY <1>1 DEF Unchanged, Commit, ExecuteFails
<1>2. CASE Begins(t) \/ CommitStep(t) \/ Look(t) \/ Result(t) \/ Emit(t) \/ SessionOf(t) \/ Seek(t) \/ Suggest(t)
  BY <1>1, <1>2, HandBegun DEF CommitStep, Look, Result, Emit, SessionOf, Seek, Suggest
<1>3. CASE Insert(t)
  <2>1. w.req.kind # "rename"
    BY <1>3, AtBusy, AtOK DEF Insert, Belongs
  <2>2. CASE Exists(w.req.id)
    BY <1>1, <1>3, <2>2 DEF Insert
  <2>3. CASE ~Exists(w.req.id)
    <3>1. PICK x \in Row : /\ Execute(InsertRow(w.req.id, x))
                           /\ x.ticket = FALSE /\ x.status = x.first
      BY <1>3, <2>3, InsertIs
    <3>2. db'.row[w.req.id] = x
      BY <1>0, <3>1 DEF Execute, InsertRow, Tables
    <3> QED BY <1>0, <1>3, <2>1, <2>3, <3>1, <3>2 DEF Execute
  <2> QED BY <2>2, <2>3
<1>4. CASE Save(t)
  <2>1. w.req.kind # "rename"
    BY <1>4, SaveKeeps, AtOK DEF Belongs
  <2>2. CASE ExecuteFails \/ Execute(db)
    BY <1>1, <2>2 DEF Execute
  <2>3. ASSUME NEW x \in Row, Execute(InsertRow(w.req.id, x)),
               Exists(w.req.id) => x.born = db.row[w.req.id].born /\ x.first = db.row[w.req.id].first,
               x.status = Changed(w.req, w.snap).status
        PROVE  /\ i = w.req.id /\ db'.row[i] \in Row /\ undo' = Before
               /\ Exists(i) => db'.row[i].born = db.row[i].born /\ db'.row[i].first = db.row[i].first
               /\ db'.row[i].status = Changed(w.req, w.snap).status
    <3>1. db' = InsertRow(w.req.id, x) /\ undo' = Before
      BY <2>3 DEF Execute
    <3>2. i = w.req.id /\ InsertRow(i, x).row[i] = x
      BY <1>0, <2>1 DEF InsertRow, Tables
    <3>3. db'.row[i] = x
      BY <3>1, <3>2
    <3> QED BY <2>3, <3>1, <3>2, <3>3
  <2> QED BY <1>4, <2>2, <2>3, SaveIs
<1>11. CASE Promote(t)
  <2>1. i = w.req.id
    BY <1>0, <1>11, PromoteIs
  <2>2. CASE Execute(db)
    BY <2>2 DEF Execute
  <2>3. ASSUME NEW x \in Row, Execute(InsertRow(w.req.id, x)) PROVE db'.row[i] = x /\ undo' = Before
    <3>1. InsertRow(i, x).row[i] = x
      BY <1>0 DEF InsertRow, Tables
    <3> QED BY <2>1, <2>3, <3>1 DEF Execute
  <2> QED BY <1>11, <2>1, <2>2, <2>3, PromoteIs
<1>5. CASE SaveDeps(t)
  <2>1. \A on : SetDeps(w.req.id, on).row = db.row
    BY <1>0 DEF SetDeps, Tables
  <2>2. ASSUME NEW on, ReplaceDeps(t, on) PROVE db'.row[i] = db.row[i] \/ Rollback
    BY <2>1, <2>2 DEF ReplaceDeps, WithBlock
  <2> QED BY <1>1, <1>5, <2>2, SaveDepsIs
<1>6. CASE Note(t) \/ DropHistory(t) \/ DropSession(t) \/ NewSession(t) \/ Open(t) \/ Touch(t)
  BY <1>0, <1>6 DEF Note, DropHistory, DropSession, NewSession, Open, Touch, Execute, DeleteHistory, Tables
<1>7. CASE Depend(t) \/ Undepend(t) \/ AddPr(t)
  <2>1. CASE Depend(t)
    <3>1. [db EXCEPT !.deps = @ \cup {<<w.req.id, w.req.on>>}].row = db.row
      BY <1>0 DEF Tables
    <3> QED BY <1>1, <2>1, <3>1 DEF Depend, Execute
  <2>2. CASE Undepend(t)
    <3>1. [db EXCEPT !.deps = @ \ {<<w.req.id, w.req.on>>}].row = db.row
      BY <1>0 DEF Tables
    <3> QED BY <2>2, <3>1 DEF Undepend, Execute
  <2>3. CASE AddPr(t)
    <3>1. InsertPr(w.req.id, w.req.number, w.req.status).row = db.row
      BY <1>0 DEF InsertPr, Tables
    <3> QED BY <1>1, <2>3, <3>1 DEF AddPr, Execute
  <2> QED BY <1>7, <2>1, <2>2, <2>3
<1>8. CASE Drop(t)
  <2>1. w.req.kind # "rename"
    BY <1>8, AtBusy, AtOK DEF Drop, Belongs
  <2>2. db' = DeleteRow(w.req.id) /\ undo' = Before
    BY <1>8 DEF Drop, Execute
  <2>3. db'.row[w.req.id] = NoRow
    BY <1>0, <2>2 DEF DeleteRow, Tables
  <2> QED BY <1>0, <1>8, <2>1, <2>2, <2>3
<1>9. CASE Rename(t)
  BY <1>0, <1>1, <1>9 DEF Rename
<1>10. CASE Move(t)
  <2>1. w.req.kind = "move" /\ w.req.to \in Projects
    BY <1>10, AtBusy, AtOK, RequestOK DEF Move, Belongs
  <2>2. CASE Exists(w.req.id)
    <3>1. db' = [db EXCEPT !.row[w.req.id].project = w.req.to] /\ undo' = NoTx
      BY <1>10, <2>2 DEF Move, WithBlock
    <3>2. db'.row[w.req.id] = [db.row[w.req.id] EXCEPT !.project = w.req.to]
      BY <1>0, <3>1 DEF Tables
    <3>3. db.row[w.req.id] \in Row
      BY <1>0, <2>2 DEF Exists
    <3>4. LET x == [db.row[w.req.id] EXCEPT !.project = w.req.to] IN
          /\ x \in Row /\ x.born = db.row[w.req.id].born /\ x.status = db.row[w.req.id].status
          /\ x.first = db.row[w.req.id].first
      BY <2>1, <3>3 DEF Row
    <3> QED BY <1>0, <1>10, <2>1, <2>2, <3>1, <3>2, <3>4
  <2> QED BY <1>1, <1>10, <2>2 DEF Move
<1> QED BY <1>2, <1>3, <1>4, <1>5, <1>6, <1>7, <1>8, <1>9, <1>10, <1>11 DEF Serve, Begins, Save

(* A step leaves open the transaction there was, or one from before it.    *)
LEMMA ConnectionUndo ==
  ASSUME Typed, NEW t \in Threads, Serve(t), undo' # NoTx PROVE undo' \in {undo, Before}
<1>1. \/ Unchanged \/ Commit \/ ExecuteFails \/ Rollback
      \/ \E new : Execute(new) \/ WithBlock(new)
  BY HandBegun, SaveDepsIs
     DEF Serve, Begins, CommitStep, Insert, Look, Update, Recreate, ReplaceDeps, Result, Note, Emit, Drop, DropHistory,
         DropSession, Rename, SessionOf, NewSession, Move, Depend, Undepend, AddPr, Touch, Seek, Suggest, Promote, Open
<1> QED BY <1>1 DEF Unchanged, Commit, ExecuteFails, Rollback, Execute, WithBlock

(* A step keeps that a ticketed row survives a rollback.                   *)
LEMMA ServeTicketUndo ==
  ASSUME Typed, TicketInv, NEW t \in Threads, Serve(t) PROVE TicketUndo'
<1>0. Apart' \subseteq Apart
  BY HandSame, HandBegun DEF Apart
<1>1. SUFFICES ASSUME NEW i \in Apart', undo' # NoTx, Exists(i)', db'.row[i].ticket
               PROVE  undo'.row[i] # NoRow
  BY DEF TicketUndo
<1>2. i \in Apart /\ i \in Ids /\ i \notin renamed'
  BY <1>0, <1>1 DEF Apart
<1>3. CASE db'.row[i] = db.row[i] /\ undo' \in {undo, Before}
  BY <1>1, <1>2, <1>3 DEF TicketInv, TicketUndo, Exists, Before
<1>4. CASE ~ (Busy(t) /\ i \in IdsOf(thread[t].req))
  <2>1. db'.row[i] = db.row[i] /\ undo' \in {undo, Before}
    BY <1>1, <1>2, <1>4, Elsewhere DEF Slice, Rollback
  <2> QED BY <1>3, <2>1
<1>5. CASE Busy(t) /\ i \in IdsOf(thread[t].req)
  <2>1. undo' \in {undo, Before}
    BY <1>1, <1>5, ConnectionUndo
  <2>2. ~Rollback
    BY <1>1 DEF Rollback
  <2>3. CASE Save(t) /\ i = thread[t].req.id /\ undo' = Before
    <3>1. At(t, "save") /\ Holds(t, i) /\ ~Owes(t)
      BY <1>5, <2>3, SaveKeeps DEF At, Holds
    <3>2. Exists(i)
      BY <1>2, <2>3, <3>1 DEF TicketInv, Finds
    <3> QED BY <1>2, <2>3, <3>1, <3>2, Steady DEF TicketInv, Exists
  <2>4. CASE Exists(i) /\ db'.row[i].ticket = db.row[i].ticket
    BY <1>1, <1>2, <2>1, <2>4 DEF TicketInv, TicketUndo, Exists, Before
  <2> QED BY <1>1, <1>2, <1>3, <1>5, <2>1, <2>2, <2>3, <2>4, RowSteps DEF Exists
<1> QED BY <1>4, <1>5

(* A step keeps that a delete and a save find their row.                   *)
LEMMA ServeFinds ==
  ASSUME Typed, TicketInv, NEW t \in Threads, Serve(t) PROVE Finds'
<1>0. /\ \A u \in Threads : u # t => thread'[u] = thread[u]
      /\ Apart' \subseteq Apart
  BY ServeKeeps, HandSame, HandBegun DEF Keeping, Works, Apart
<1>1. SUFFICES ASSUME NEW u \in Threads, thread'[u].req.id \in Apart',
                      At(u, "drop")' \/ At(u, "look")' \/ At(u, "save")'
               PROVE  /\ db'.row[thread'[u].req.id] # NoRow
                      /\ At(u, "drop")' => ~db'.row[thread'[u].req.id].ticket
                      /\ At(u, "save")' => thread'[u].found
  BY DEF Finds, Exists
<1> DEFINE i == thread'[u].req.id
<1>2. i \in Apart /\ i \in Ids
  BY <1>0, <1>1 DEF Apart
<1>3. CASE u # t
  <2>1. /\ thread'[u] = thread[u] /\ Busy(u) /\ Holds(u, i) /\ ~Owes(u)
        /\ At(u, "drop")' <=> At(u, "drop")
        /\ At(u, "look")' <=> At(u, "look")
        /\ At(u, "save")' <=> At(u, "save")
    BY <1>0, <1>1, <1>3 DEF At, Busy, Holds, Owes, IdsOf
  <2>2. ~ (Busy(t) /\ i \in IdsOf(thread[t].req))
    BY <1>2, <1>3, <2>1 DEF TicketInv, OneHolder, Holds, Apart
  <2>3. db'.row[i] = db.row[i]
    <3>1. Rollback => db'.row[i] = db.row[i]
      BY <1>2, <2>1, Steady DEF Rollback, TicketInv
    <3> HIDE DEF i
    <3> QED BY <1>2, <2>2, <3>1, Elsewhere DEF Slice
  <2> QED BY <1>1, <1>2, <2>1, <2>3 DEF TicketInv, Finds, Exists
<1>4. CASE u = t /\ Begins(t)
  <2>2. PICK r \in Request : /\ thread'[t].plan = Plan(r) /\ thread'[t].req.id = r.id
                             /\ thread'[t].req.kind = r.kind
    BY <1>4, HandBegun
  <2>3. Plan(r) # <<>> /\ Head(Plan(r)) \in {"drop", "look", "save"} /\ (At(u, "drop")' <=> Head(Plan(r)) = "drop")
        /\ (At(u, "save")' => Head(Plan(r)) = "save")
    BY <1>1, <1>4, <2>2 DEF At, Busy
  <2>4. Exists(r.id) /\ (Head(Plan(r)) = "drop" => Deletable(r.id)) /\ Head(Plan(r)) # "save"
    BY <2>3, PlanIs, PlansStep
  <2>5. UNCHANGED db
    BY <1>4, HandBegun DEF Unchanged
  <2> QED BY <1>4, <2>2, <2>3, <2>4, <2>5 DEF Exists, Deletable
<1>5. CASE u = t /\ ~Begins(t)
  <2>1. Look(t) /\ At(u, "save")' /\ ~At(u, "drop")'
    BY <1>1, <1>5, OpeningBegins DEF At, Busy, Opening
  <2>2. /\ At(t, "look") /\ thread'[t].found = Exists(thread[t].req.id) /\ thread'[t].req = thread[t].req
        /\ db' = db
    <3>1. thread[t] \in Worker
      BY DEF Typed, TypeOK
    <3>2. thread'[t] = [thread[t] EXCEPT !.plan = Tail(thread[t].plan), !.found = Exists(thread[t].req.id)]
      BY <2>1, LookOK
    <3>3. At(t, "look") /\ db' = db
      BY <2>1 DEF Look, Unchanged
    <3> QED BY <3>1, <3>2, <3>3 DEF Worker
  <2> QED BY <1>2, <1>5, <2>1, <2>2 DEF TicketInv, Finds, Exists
<1> QED BY <1>3, <1>4, <1>5

(* Every step keeps all of it.                                             *)
LEMMA NextTicketInv == ASSUME Typed, TicketInv, [Next]_vars PROVE TicketInv'
<1>1. OneHolder'
  BY NextOneHolder DEF TicketInv
<1>2. CASE UNCHANGED vars
  BY <1>1, <1>2 DEF vars, ghosts, TicketInv, RowUndo, TicketUndo, Finds, Apart, Holds, Owes, At, Busy, Exists
<1>3. CASE Restart
  <2>1. undo' = NoTx /\ \A t \in Threads : ~Busy(t)'
    BY <1>3, RestartKeeps, IdleFits DEF Busy
  <2> QED BY <1>1, <2>1 DEF TicketInv, RowUndo, TicketUndo, Finds, At
<1>4. ASSUME NEW t \in Threads, Serve(t) PROVE TicketInv'
  BY <1>1, <1>4, ServeRowUndo, ServeTicketUndo, ServeFinds DEF TicketInv
<1> QED BY <1>2, <1>3, <1>4 DEF Next

(* A step of the server keeps a row with a ticket.                         *)
LEMMA ServeStays ==
  ASSUME Typed, TicketInv, NEW t \in Threads, Serve(t), NEW i \in Apart, Exists(i), db.row[i].ticket
  PROVE  db'.row[i] # NoRow \/ i \in renamed'
<1>0. i \in Ids
  BY DEF Apart
<1>1. Rollback => db'.row[i] # NoRow
  BY DEF Rollback, Before, TicketInv, TicketUndo, Exists
<1>2. CASE ~ (Busy(t) /\ i \in IdsOf(thread[t].req))
  BY <1>0, <1>1, <1>2, Elsewhere DEF Slice, Exists
<1>3. CASE Busy(t) /\ i \in IdsOf(thread[t].req)
  <2>1. ~ (Drop(t) /\ i = thread[t].req.id)
    BY DEF Drop, TicketInv, Finds
  <2> QED BY <1>0, <1>1, <1>3, <2>1, RowSteps, NullsAssumption DEF Exists
<1> QED BY <1>2, <1>3

(* A task that has a ticket is not deleted, however many requests there    *)
(* are: not by a delete that read the row before it had its ticket, not by *)
(* an error that takes back the transaction in which it got its row.       *)
THEOREM TicketsStay == Spec => TicketedStays
<1>1. Init => Typed /\ TicketInv
  <2>1. ASSUME Init PROVE \A t \in Threads : ~Busy(t) /\ thread[t].todo = <<>>
    BY <2>1, IdleFits DEF Init, Busy
  <2> QED BY <2>1, InitTyped DEF Init, TicketInv, OneHolder, RowUndo, TicketUndo, Finds, Holds, At
<1>2. Typed /\ TicketInv /\ [Next]_vars => Typed' /\ TicketInv'
  BY NextTyped, NextTicketInv
<1>3. Typed /\ TicketInv /\ [Next]_vars =>
        [\A i \in Ids \ (contested \cup renamed) :
           Exists(i) /\ db.row[i].ticket /\ restarts' = restarts
             => db'.row[i] # NoRow \/ i \in renamed']_vars
  <2>1. SUFFICES ASSUME Typed, TicketInv, Next, NEW i \in Apart,
                        Exists(i), db.row[i].ticket, restarts' = restarts
                 PROVE  db'.row[i] # NoRow \/ i \in renamed'
    BY DEF Apart
  <2>2. ~Restart
    BY <2>1 DEF Restart, Typed, TypeOK
  <2> QED BY <2>1, <2>2, ServeStays DEF Next
<1> QED BY <1>1, <1>2, <1>3, PTL DEF Spec, TicketedStays
-----------------------------------------------------------------------------
(* The server runs and no error took back what other threads executed.     *)
Calm         == restarts = 0 /\ ~undone
HistoryOf(i) == \A k \in DOMAIN db.history[i] : Exists(i) /\ db.history[i][k].born = db.row[i].born
Clears(t)    == /\ thread[t].req.kind = "delete"
                /\ \E n \in DOMAIN thread[t].plan : thread[t].plan[n] = "dropSession"
(* A timeline and a session row are those of the row that is there, or the *)
(* delete that has the task in hand is about to clear them.                *)
Belong == Calm => \A i \in Apart :
  /\ HistoryOf(i) \/ \E t \in Threads : Holds(t, i) /\ At(t, "dropHistory")
  /\ (i \in db.session => Exists(i)) \/ \E t \in Threads : Holds(t, i) /\ Clears(t)
(* What a request read of its row is still so.                             *)
ReadOf(t) ==
  LET w == thread[t] IN
  /\ w.req.kind \in {"update", "check", "note", "move", "open", "pr"} => Exists(w.req.id)
  /\ At(t, "note") \/ At(t, "move") => w.snap.born = db.row[w.req.id].born
  /\ At(t, "dropHistory") => ~Exists(w.req.id)
Reads == Calm => \A t \in Threads : Busy(t) /\ thread[t].req.id \in Apart => ReadOf(t)
(* A rename that goes on has renamed.                                      *)
RenamedIds == \A t \in Threads :
  Busy(t) /\ thread[t].req.kind = "rename" /\ ~At(t, "rename")
    => {thread[t].req.id, thread[t].req.to} \subseteq renamed
BelongInv == Belong /\ Reads /\ RenamedIds

(* A calm step comes from a calm state, and takes nothing back.            *)
LEMMA CalmStep ==
  ASSUME Typed, NEW t \in Threads, Serve(t), Calm'
  PROVE  Calm /\ (Rollback => db' = db)
<1>1. Rollback => db' = db
  BY DEF Rollback, Before, Calm
<1>2. CASE Begins(t)
  BY <1>1, <1>2, HandBegun DEF Calm
<1>3. CASE ~Begins(t)
  <2>1. restarts' = restarts
    BY <1>3 DEF Begins, Serve, CommitStep, Insert, Look, Save, Update, Recreate, SaveDeps, Result, Note, Emit, Drop, DropHistory,
                DropSession, Rename, SessionOf, NewSession, Move, Depend, Undepend, AddPr, Touch, Seek, Suggest, Promote, Open, Frame
  <2>2. undone' = undone \/ Rollback
    BY <1>3 DEF Begins, Serve, CommitStep, Insert, Look, Save, Update, Recreate, SaveDeps, Result, Note, Emit, Drop, DropHistory,
                DropSession, Rename, SessionOf, NewSession, Move, Depend, Undepend, AddPr, Touch, Seek, Suggest, Promote, Open, Quiet,
                ReplaceDeps
  <2>3. Rollback => undone' = (undone \/ undo \notin {NoTx, db})
    BY DEF Rollback
  <2>4. undone \in BOOLEAN
    BY DEF Typed, TypeOK
  <2> QED BY <1>1, <2>1, <2>2, <2>3, <2>4 DEF Calm
<1> QED BY <1>2, <1>3

(* A step leaves a task that its request does not have in hand as it is.   *)
LEMMA Undisturbed ==
  ASSUME Typed, NEW t \in Threads, Serve(t), Calm', NEW i \in Ids, ~ (Busy(t) /\ i \in IdsOf(thread[t].req))
  PROVE  Slice(db', i) = Slice(db, i)
BY CalmStep, Elsewhere DEF Slice

(* The next step of a thread's plan, after a step, belongs to its request. *)
LEMMA HeadBelongs ==
  ASSUME NEW t, Works(t), Busy(t)', t \in Threads
  PROVE  /\ thread'[t].plan \in Seq(Steps) /\ thread'[t].plan # <<>>
         /\ PlanFits(thread'[t].plan, thread'[t].req.kind)
         /\ Belongs(Head(thread'[t].plan), thread'[t].req.kind)
<1>1. thread'[t] \in Worker /\ thread'[t].plan # <<>>
  BY DEF Works, Busy
<1>2. thread'[t].plan \in Seq(Steps) /\ PlanFits(thread'[t].plan, thread'[t].req.kind)
  BY <1>1 DEF Works, Worker, Fits
<1>3. 1 \in DOMAIN thread'[t].plan /\ Head(thread'[t].plan) = thread'[t].plan[1]
  BY <1>1, <1>2, TailFits
<1> QED BY <1>1, <1>2, <1>3 DEF PlanFits

(* A note comes after the result of an update, a move or the look for the  *)
(* task of a pull request, or begins a request; the history of a task is   *)
(* dropped right after its row.                                            *)
LEMMA ComesAfter ==
  ASSUME Typed, NEW t \in Threads, Serve(t), ~Begins(t), Busy(t)'
  PROVE  /\ Head(thread'[t].plan) = "note" => Result(t) \/ Move(t) \/ Seek(t)
         /\ Head(thread'[t].plan) = "dropHistory" => Drop(t)
<1> DEFINE w == thread[t]
<1>0. /\ Busy(t) /\ w \in Worker /\ thread \in [Threads -> Worker] /\ Works(t)
      /\ thread'[t] # Idle => thread'[t].req = w.req
  BY HandSame, ServeKeeps DEF Typed, TypeOK, Keeping, SameHand
<1>1. thread'[t] # Idle
  BY IdleFits DEF Busy
<1>2. CASE Advance(t) \/ Look(t)
  <2>1. /\ w.plan \in Seq(Steps) /\ w.plan # <<>> /\ PlanFits(w.plan, w.req.kind)
        /\ thread'[t].plan = Tail(w.plan)
    <3>1. w.plan \in Seq(Steps) /\ w.plan # <<>> /\ PlanFits(w.plan, w.req.kind)
      BY <1>0, AtOK DEF Fits
    <3>2. \/ thread'[t] = [w EXCEPT !.plan = Tail(w.plan)]
          \/ thread'[t] = [w EXCEPT !.plan = Tail(w.plan), !.found = Exists(w.req.id)]
      BY <1>0, <1>2, AdvanceOK, LookOK
    <3> QED BY <1>0, <3>1, <3>2 DEF Worker
  <2>2. Tail(w.plan) # <<>>
    BY <2>1 DEF Busy
  <2>3. /\ Head(thread'[t].plan) # "note"
        /\ Head(thread'[t].plan) = "dropHistory" => Head(w.plan) = "drop"
    BY <2>1, <2>2, TailHead DEF First
  <2>4. Head(w.plan) = "drop" => Drop(t)
    BY DEF Begins, Serve, At, CommitStep, Insert, Look, Save, Update, Recreate, SaveDeps, Result, Note, Emit, DropHistory,
           DropSession, Rename, SessionOf, NewSession, Move, Depend, Undepend, AddPr, Touch, Seek, Suggest, Promote, Open
  <2> QED BY <2>3, <2>4
<1>3. CASE Abort(t)
  BY <1>0, <1>1, <1>3 DEF Abort
<1>4. CASE Save(t) \/ SaveDeps(t)
  BY <1>2, <1>3, <1>4, SaveKeeps DEF SaveDeps, ReplaceDeps
<1>7. CASE Suggest(t)
  <2>1. ~At(t, "drop") /\ ~At(t, "look")
    BY <1>7 DEF Suggest, At
  <2>2. CASE thread'[t].plan = Tail(w.plan)
    <3>1. /\ w.plan \in Seq(Steps) /\ w.plan # <<>> /\ PlanFits(w.plan, w.req.kind)
          /\ Tail(w.plan) # <<>> /\ Head(w.plan) \notin {"drop", "look"}
      BY <1>0, <2>1, <2>2, AtOK DEF Fits, Busy, At
    <3> QED BY <2>2, <3>1, TailHead DEF First
  <2>3. CASE thread'[t].plan = <<"promote", "commit", "record", "emit">>
    BY <2>3
  <2> QED BY <1>7, <2>2, <2>3, SeekOK
<1>8. CASE Seek(t)
  <2>1. thread'[t].plan \in {<<"note", "commit", "suggest">>, <<"note", "commit", "emit">>, <<"suggest">>, <<"emit">>}
    BY <1>8, SeekOK
  <2> QED BY <1>8, <2>1
<1>5. CASE Rename(t) \/ SessionOf(t)
  <2>1. w.req.kind = "rename"
    BY <1>5, AtBusy, AtOK DEF Rename, SessionOf, Belongs
  <2> QED BY <1>0, <1>1, <2>1, HeadBelongs DEF Belongs
<1>6. CASE Drop(t) \/ Result(t) \/ Move(t)
  <2>1. Drop(t) => w.req.kind = "delete"
    BY AtBusy, AtOK DEF Drop, Belongs
  <2>2. Result(t) => w.req.kind = "update"
    BY AtBusy, AtOK DEF Result, Belongs
  <2>3. Move(t) => w.req.kind = "move"
    BY AtBusy, AtOK DEF Move, Belongs
  <2> QED BY <1>0, <1>1, <1>6, <2>1, <2>2, <2>3, HeadBelongs DEF Belongs
<1> QED BY <1>2, <1>3, <1>4, <1>5, <1>6, <1>7, <1>8
        DEF Begins, Serve, Save, CommitStep, Insert, Note, Emit, DropHistory,
            DropSession, NewSession, Depend, Undepend, AddPr, Touch, Promote, Open

(* What the requests do to the timeline and the session row of the task    *)
(* they have in hand.                                                      *)
LEMMA HistorySteps ==
  ASSUME Typed, NEW t \in Threads, Serve(t), Busy(t), NEW i \in Ids, i \in IdsOf(thread[t].req)
  PROVE  /\ \/ db'.history[i] = db.history[i]
            \/ Rollback
            \/ /\ Note(t) /\ i = thread[t].req.id
               /\ db'.history[i] = Append(db.history[i], [born |-> thread[t].snap.born, to |-> thread[t].to])
            \/ DropHistory(t) /\ i = thread[t].req.id /\ db'.history[i] = <<>>
         /\ \/ i \in db'.session => i \in db.session
            \/ Rollback
            \/ Open(t) /\ i = thread[t].req.id
            \/ NewSession(t) /\ thread[t].req.kind = "rename"
<1> DEFINE w == thread[t]
<1>0. /\ db \in Tables /\ db.history \in [Ids -> Seq(Entry)] /\ w.req.id \in Ids
      /\ i = w.req.id \/ (w.req.kind = "rename" /\ i = w.req.to)
  BY AtOK DEF Typed, TypeOK, Tables, IdsOf
<1>1. CASE Unchanged \/ Commit \/ ExecuteFails \/ Rollback
  BY <1>1 DEF Unchanged, Commit, ExecuteFails
<1>2. CASE Begins(t) \/ CommitStep(t) \/ Look(t) \/ Result(t) \/ Emit(t) \/ SessionOf(t) \/ Seek(t) \/ Suggest(t)
  BY <1>1, <1>2, HandBegun DEF CommitStep, Look, Result, Emit, SessionOf, Seek, Suggest
<1>3. ASSUME NEW new, Execute(new) \/ WithBlock(new), new.history = db.history, new.session \subseteq db.session
      PROVE  db'.history[i] = db.history[i] /\ (i \in db'.session => i \in db.session)
  BY <1>3 DEF Execute, WithBlock
<1>4. CASE Insert(t) \/ Save(t) \/ Touch(t) \/ Promote(t)
  <2>1. \A x : /\ InsertRow(w.req.id, x).history = db.history
               /\ InsertRow(w.req.id, x).session = db.session
    BY <1>0 DEF InsertRow, Tables
  <2>2. Save(t) \/ Promote(t) => ExecuteFails \/ Execute(db) \/ \E x : Execute(InsertRow(w.req.id, x))
    BY SaveIs, PromoteIs
  <2>3. Insert(t) => ExecuteFails \/ \E x : Execute(InsertRow(w.req.id, x))
    BY DEF Insert
  <2> QED BY <1>1, <1>3, <1>4, <2>1, <2>2, <2>3 DEF Touch
<1>5. CASE SaveDeps(t)
  <2>1. \A on : SetDeps(w.req.id, on).history = db.history /\ SetDeps(w.req.id, on).session = db.session
    BY <1>0 DEF SetDeps, Tables
  <2>2. ASSUME NEW on, ReplaceDeps(t, on)
        PROVE  Rollback \/ (db'.history[i] = db.history[i] /\ (i \in db'.session => i \in db.session))
    BY <1>1, <1>3, <2>1, <2>2 DEF ReplaceDeps
  <2> QED BY <1>1, <1>5, <2>2, SaveDepsIs
<1>6. CASE Note(t)
  <2>1. w.req.kind # "rename" /\ i = w.req.id
    BY <1>0, <1>6, AtBusy, AtOK DEF Note, Belongs
  <2> DEFINE e   == [born |-> w.snap.born, to |-> w.to]
             new == [db EXCEPT !.history[w.req.id] = Append(@, e)]
  <2>2. db' = new
    BY <1>6 DEF Note, Execute
  <2>3. new.history[i] = Append(db.history[i], e) /\ new.session = db.session
    BY <1>0, <2>1 DEF Tables
  <2> QED BY <1>6, <2>1, <2>2, <2>3
<1>7. CASE DropHistory(t)
  <2>1. w.req.kind # "rename" /\ i = w.req.id
    BY <1>0, <1>7, AtBusy, AtOK DEF DropHistory, Belongs
  <2>2. db' = DeleteHistory(i)
    BY <1>7, <2>1 DEF DropHistory, Execute
  <2>3. DeleteHistory(i).history[i] = <<>> /\ DeleteHistory(i).session = db.session
    BY <1>0 DEF DeleteHistory, Tables
  <2> QED BY <1>7, <2>1, <2>2, <2>3
<1>8. CASE DropSession(t)
  <2>1. LET new == [db EXCEPT !.session = @ \ {w.req.id}] IN
        new.history = db.history /\ new.session \subseteq db.session
    BY <1>0 DEF Tables
  <2> QED BY <1>3, <1>8, <2>1 DEF DropSession
<1>9. CASE Open(t)
  <2>1. w.req.kind # "rename" /\ i = w.req.id
    BY <1>0, <1>9, AtBusy, AtOK DEF Open, Belongs
  <2>2. [db EXCEPT !.session = @ \cup {w.req.id}].history = db.history
    BY <1>0 DEF Tables
  <2> QED BY <1>9, <2>1, <2>2 DEF Open, Execute
<1>10. CASE NewSession(t)
  <2>1. w.req.kind = "rename"
    BY <1>10, AtBusy, AtOK DEF NewSession, Belongs
  <2>2. [db EXCEPT !.session = @ \cup {w.req.to}].history = db.history
    BY <1>0 DEF Tables
  <2> QED BY <1>10, <2>1, <2>2 DEF NewSession, Execute
<1>11. CASE Depend(t) \/ Undepend(t) \/ AddPr(t)
  <2>1. /\ \A d : [db EXCEPT !.deps = d].history = db.history /\ [db EXCEPT !.deps = d].session = db.session
        /\ \A n, x : InsertPr(w.req.id, n, x).history = db.history /\ InsertPr(w.req.id, n, x).session = db.session
    BY <1>0 DEF InsertPr, Tables
  <2> QED BY <1>1, <1>3, <1>11, <2>1 DEF Depend, Undepend, AddPr
<1>12. CASE Drop(t)
  <2>1. DeleteRow(w.req.id).history = db.history /\ DeleteRow(w.req.id).session = db.session
    BY <1>0 DEF DeleteRow, Tables
  <2> QED BY <1>3, <1>12, <2>1 DEF Drop
<1>13. CASE Rename(t)
  <2>1. LET new == RenameRow(w.req.id, w.req.to) IN new.history = db.history /\ new.session = db.session
    BY <1>0 DEF RenameRow, Tables
  <2> QED BY <1>1, <1>3, <1>13, <2>1 DEF Rename
<1>14. CASE Move(t)
  <2>1. LET new == [db EXCEPT !.row[w.req.id].project = w.req.to] IN
        new.history = db.history /\ new.session = db.session
    BY <1>0 DEF Tables
  <2> QED BY <1>1, <1>3, <1>14, <2>1 DEF Move
<1> QED BY <1>2, <1>4, <1>5, <1>6, <1>7, <1>8, <1>9, <1>10, <1>11, <1>12, <1>13, <1>14 DEF Serve, Begins, Save

(* A rename whose row is renamed has both ids among the renamed.           *)
LEMMA NextRenamedIds == ASSUME Typed, RenamedIds, [Next]_vars PROVE RenamedIds'
<1>1. CASE UNCHANGED vars
  BY <1>1 DEF vars, ghosts, RenamedIds, Busy, At
<1>2. CASE Restart
  <2>1. \A t \in Threads : ~Busy(t)'
    BY <1>2, RestartKeeps, IdleFits DEF Busy
  <2> QED BY <2>1 DEF RenamedIds
<1>3. ASSUME NEW t \in Threads, Serve(t) PROVE RenamedIds'
  <2>1. renamed \subseteq renamed' /\ \A u \in Threads : u # t => thread'[u] = thread[u]
    BY <1>3, ServeKeeps, HandSame, HandBegun DEF Keeping, Works
  <2>2. SUFFICES ASSUME Busy(t)', thread'[t].req.kind = "rename", ~At(t, "rename")'
                 PROVE  thread'[t].req.id \in renamed' /\ thread'[t].req.to \in renamed'
    BY <2>1 DEF RenamedIds, Busy, At
  <2>3. ~Begins(t)
    <3>1. ASSUME NEW r \in Request, thread'[t].plan = Plan(r), thread'[t].req.kind = r.kind PROVE FALSE
      <4>1. Plan(r) = <<"rename">> /\ Head(Plan(r)) = "rename"
        BY <2>2, <3>1, PlanIs, PlansStep DEF Busy
      <4> QED BY <2>2, <3>1, <4>1 DEF At
    <3> QED BY <3>1, HandBegun
  <2>4. Busy(t) /\ thread'[t].req = thread[t].req
    BY <1>3, <2>2, <2>3, HandSame, IdleFits DEF Busy, SameHand
  <2>5. CASE At(t, "rename")
    <3>1. Rename(t)
      BY <1>3, <2>3, <2>5
         DEF Begins, Serve, At, CommitStep, Insert, Look, Save, Update, Recreate, SaveDeps, Result, Note, Emit, Drop, DropHistory,
             DropSession, SessionOf, NewSession, Move, Depend, Undepend, AddPr, Touch, Seek, Suggest, Promote, Open
    <3>2. thread \in [Threads -> Worker]
      BY DEF Typed, TypeOK
    <3>3. thread'[t].plan # <<>>
      BY <2>2 DEF Busy
    <3>4. ~Abort(t) /\ ~Continue(t, <<>>)
      <4>1. Abort(t) => thread'[t].plan = <<>>
        BY AbortOK, IdleFits
      <4>2. Continue(t, <<>>) => thread'[t].plan = <<>>
        BY <3>2 DEF Continue, Worker
      <4> QED BY <3>3, <4>1, <4>2
    <3>5. renamed' = renamed \cup {thread[t].req.id, thread[t].req.to}
      BY <3>1, <3>4 DEF Rename
    <3> QED BY <2>4, <3>5
  <2>6. CASE ~At(t, "rename")
    BY <2>1, <2>2, <2>4, <2>6 DEF RenamedIds
  <2> QED BY <2>5, <2>6
<1> QED BY <1>1, <1>2, <1>3 DEF Next

(* What another thread holds is left alone.                                *)
LEMMA OthersHold ==
  ASSUME Typed, TicketInv, NEW t \in Threads, Serve(t), Calm', NEW u \in Threads, u # t,
         NEW i \in Apart', Holds(u, i)
  PROVE  /\ i \in Apart /\ i \in Ids /\ ~Holds(t, i) /\ ~ (Busy(t) /\ i \in IdsOf(thread[t].req))
         /\ Slice(db', i) = Slice(db, i) /\ thread'[u] = thread[u]
<1>1. /\ Apart' \subseteq Apart /\ Apart \subseteq Ids \ contested
      /\ thread'[u] = thread[u]
  BY ServeKeeps, HandSame, HandBegun DEF Keeping, Works, Apart
<1>2. i \in Apart /\ i \in Ids /\ ~Holds(t, i)
  BY <1>1 DEF TicketInv, OneHolder, Apart
<1>3. ~ (Busy(t) /\ i \in IdsOf(thread[t].req))
  BY <1>2 DEF Holds
<1> QED BY <1>1, <1>2, <1>3, Undisturbed

(* In a calm step the row of the task in hand stays, with its birth, but   *)
(* for an insert and a delete.                                             *)
LEMMA CalmRow ==
  ASSUME Typed, TicketInv, NEW t \in Threads, Serve(t), Calm', Busy(t), NEW i \in Apart',
         i \in IdsOf(thread[t].req)
  PROVE  /\ Exists(i) /\ ~Drop(t) => /\ Exists(i)' /\ db'.row[i].born = db.row[i].born
                                   /\ db'.row[i].first = db.row[i].first
         /\ ~Exists(i) /\ ~Insert(t) => ~Exists(i)'
         /\ Insert(t) /\ ~Exists(i) /\ Exists(i)' => db'.row[i].status = db'.row[i].first
         /\ Insert(t) /\ Exists(i) => db'.row[i] = db.row[i]
         /\ Drop(t) => ~Exists(i)' \/ db'.row[i] = db.row[i]
         /\ ~Insert(t) /\ ~Save(t) /\ ~Promote(t) /\ ~Drop(t) /\ Exists(i) =>
              db'.row[i].status = db.row[i].status
         /\ Save(t) => Exists(i) /\ Update(t)
<1>1. i \in Apart /\ i \in Ids /\ i \notin renamed'
  BY HandSame, HandBegun DEF Apart
<1>2. Rollback => db'.row[i] = db.row[i]
  BY CalmStep
<1>3. Save(t) => i = thread[t].req.id /\ Exists(i) /\ Update(t)
  <2>1. Save(t) => At(t, "save") /\ thread[t].req.kind # "rename"
    BY SaveKeeps, AtOK DEF At, Belongs
  <2>2. Save(t) => i = thread[t].req.id /\ Exists(i) /\ thread[t].found
    BY <1>1, <2>1 DEF IdsOf, TicketInv, Finds
  <2> QED BY <2>2 DEF Save, Recreate
<1>4. /\ Insert(t) => ~Save(t) /\ ~Move(t) /\ ~Drop(t) /\ ~Promote(t)
      /\ Save(t) => ~Move(t) /\ ~Drop(t) /\ ~Promote(t)
      /\ Move(t) => ~Drop(t) /\ ~Promote(t)
      /\ Promote(t) => ~Drop(t)
  BY DEF Insert, Save, Update, Recreate, Move, Promote, Drop, At
<1>5. \/ db'.row[i] = db.row[i]
      \/ Insert(t) /\ db'.row[i] \in Row /\ db'.row[i].status = db'.row[i].first /\ ~Exists(i)
      \/ /\ Save(t) \/ Promote(t) \/ Move(t)
         /\ db'.row[i] \in Row /\ Exists(i)
         /\ db'.row[i].born = db.row[i].born /\ db'.row[i].first = db.row[i].first
         /\ Move(t) => db'.row[i].status = db.row[i].status
      \/ Drop(t) /\ db'.row[i] = NoRow
  BY <1>1, <1>2, <1>3, <1>4, RowSteps
<1>6. db'.row[i] \in Row => db'.row[i] # NoRow
  BY NullsAssumption
<1> QED BY <1>3, <1>4, <1>5, <1>6 DEF Exists

(* What a request read of its row stays so.                                *)
LEMMA ServeReads ==
  ASSUME Typed, TicketInv, Reads, NEW t \in Threads, Serve(t) PROVE Reads'
<1>1. SUFFICES ASSUME Calm', NEW u \in Threads, Busy(u)', thread'[u].req.id \in Apart' PROVE ReadOf(u)'
  BY DEF Reads
<1>2. Calm /\ Apart' \subseteq Apart
  BY <1>1, CalmStep, HandSame, HandBegun DEF Apart
<1>3. CASE u # t
  <2>1. thread'[u] = thread[u]
    BY <1>3, ServeKeeps DEF Keeping, Works
  <2>2. Busy(u) /\ Holds(u, thread[u].req.id)
    BY <1>1, <2>1 DEF Busy, Holds, IdsOf
  <2> DEFINE i == thread[u].req.id
  <2>3. db'.row[i] = db.row[i] /\ i \in Apart
    BY <1>1, <1>3, <2>1, <2>2, OthersHold DEF Slice
  <2>4. ReadOf(u)
    BY <1>2, <2>2, <2>3 DEF Reads
  <2> QED BY <2>1, <2>3, <2>4 DEF ReadOf, At, Busy, Exists
<1>4. CASE u = t /\ Begins(t)
  <2>1. PICK r \in Request :
          /\ thread'[t].plan = Plan(r) /\ thread'[t].snap = Working(r).snap
          /\ thread'[t].req.id = r.id /\ thread'[t].req.kind = r.kind
    BY <1>4, HandBegun
  <2>2. Plan(r) # <<>> /\ db' = db
    BY <1>1, <1>4, <2>1, HandBegun DEF Busy, Unchanged
  <2>3. r.kind \in {"update", "check", "note", "move", "open", "pr"} => Exists(r.id)
    BY <2>2, PlanIs
  <2>4. Head(Plan(r)) # "dropHistory"
    BY <2>2, PlanOK
  <2>5. Head(Plan(r)) \in {"note", "move"} => r.kind \in {"note", "move"}
    BY <2>2, PlanIs, PlansStep
  <2>6. Exists(r.id) => Working(r).snap = db.row[r.id]
    BY WorkingOK DEF Typed
  <2> QED BY <1>4, <2>1, <2>2, <2>3, <2>4, <2>5, <2>6 DEF ReadOf, At, Exists
<1>5. CASE u = t /\ ~Begins(t)
  <2> DEFINE w == thread[t]
             i == w.req.id
  <2>1. /\ Busy(t) /\ thread'[t].req = w.req
        /\ ~Result(t) /\ ~Seek(t) => thread'[t].snap = w.snap
    BY <1>1, <1>5, HandSame, IdleFits DEF Busy, SameHand
  <2>2. i \in Apart' /\ i \in Apart /\ i \in IdsOf(w.req) /\ ReadOf(t)
    BY <1>1, <1>2, <1>5, <2>1 DEF Reads, IdsOf
  <2>3. /\ Exists(i) /\ ~Drop(t) => Exists(i)' /\ db'.row[i].born = db.row[i].born
    BY <1>1, <2>1, <2>2, CalmRow
  <2>4. w.req.kind \in {"update", "check", "note", "move", "open", "pr"} => Exists(i)'
    <3>1. Drop(t) => w.req.kind = "delete"
      BY AtBusy, AtOK DEF Drop, Belongs
    <3> QED BY <2>2, <2>3, <3>1 DEF ReadOf
  <2>5. ~At(t, "move")'
    BY <1>1, <1>5, OpeningBegins DEF At, Opening
  <2>6. At(t, "note")' => thread'[t].snap.born = db'.row[i].born
    <3>1. At(t, "note")' => Result(t) \/ Move(t) \/ Seek(t)
      BY <1>1, <1>5, ComesAfter DEF At
    <3>4. CASE Seek(t)
      <4>1. w.req.kind = "pr" /\ db' = db
        BY <3>4, SeekOK DEF Seek, Unchanged
      <4>2. Exists(i)
        BY <2>2, <4>1 DEF ReadOf
      <4> QED BY <3>4, <4>1, <4>2, SeekOK
    <3>2. CASE Move(t)
      <4>1. At(t, "move") /\ ~Result(t) /\ ~Drop(t) /\ ~Seek(t) /\ w.req.kind = "move"
        BY <3>2, AtBusy, AtOK DEF Move, Result, Drop, Seek, At, Belongs
      <4> QED BY <2>1, <2>2, <2>3, <4>1 DEF ReadOf
    <3>3. CASE Result(t) /\ At(t, "note")'
      <4>1. Logs(t)
        <5>1. thread \in [Threads -> Worker]
          BY DEF Typed, TypeOK
        <5>2. ~Logs(t) => thread'[t].plan = <<"emit">>
          BY <3>3, <5>1 DEF Result, Continue, Worker
        <5> QED BY <3>3, <5>2, PlansStep DEF At
      <4> DEFINE new == [w EXCEPT !.plan = <<"note", "commit", "emit">>, !.to = db.row[w.req.id].status,
                                  !.snap.born = db.row[w.req.id].born]
      <4>2. w \in Worker /\ thread \in [Threads -> Worker]
        BY DEF Typed, TypeOK
      <4>3. thread'[t] = new
        BY <3>3, <4>1, <4>2 DEF Result
      <4>4. new.snap.born = db.row[i].born
        BY <4>2 DEF Worker, Row
      <4>5. db' = db
        BY <3>3 DEF Result, Unchanged
      <4> QED BY <4>3, <4>4, <4>5
    <3> QED BY <3>1, <3>2, <3>3, <3>4
  <2>7. At(t, "dropHistory")' => ~Exists(i)'
    <3>1. At(t, "dropHistory")' => Drop(t)
      BY <1>1, <1>5, ComesAfter DEF At
    <3>2. Drop(t) => db'.row[i] = NoRow
      <4>1. db \in Tables /\ i \in Ids
        BY <2>2 DEF Typed, TypeOK, Apart
      <4>2. DeleteRow(i).row[i] = NoRow
        BY <4>1 DEF DeleteRow, Tables
      <4> QED BY <4>2 DEF Drop, Execute
    <3> QED BY <2>1, <3>1, <3>2 DEF Exists
  <2> HIDE DEF i
  <2>8. ReadOf(t)' <=> /\ w.req.kind \in {"update", "check", "note", "move", "open", "pr"} => Exists(i)'
                       /\ At(t, "note")' \/ At(t, "move")' => thread'[t].snap.born = db'.row[i].born
                       /\ At(t, "dropHistory")' => ~Exists(i)'
    BY <2>1 DEF ReadOf, Exists, i
  <2> QED BY <1>5, <2>4, <2>5, <2>6, <2>7, <2>8
<1> QED BY <1>3, <1>4, <1>5

(* Timelines and session rows stay those of the rows.                      *)
LEMMA ServeBelong ==
  ASSUME Typed, TicketInv, BelongInv, NEW t \in Threads, Serve(t) PROVE Belong'
<1>1. SUFFICES ASSUME Calm', NEW i \in Apart'
               PROVE  /\ HistoryOf(i)' \/ \E u \in Threads : Holds(u, i)' /\ At(u, "dropHistory")'
                      /\ (i \in db'.session => Exists(i)') \/ \E u \in Threads : Holds(u, i)' /\ Clears(u)'
  BY DEF Belong
<1>2. /\ Calm /\ i \in Apart /\ i \in Ids /\ i \notin renamed'
      /\ \A u \in Threads : u # t => thread'[u] = thread[u]
      /\ (Rollback => db' = db)
  BY <1>1, CalmStep, HandSame, HandBegun, ServeKeeps DEF Apart, Keeping, Works
<1>3. /\ HistoryOf(i) \/ \E u \in Threads : Holds(u, i) /\ At(u, "dropHistory")
      /\ (i \in db.session => Exists(i)) \/ \E u \in Threads : Holds(u, i) /\ Clears(u)
  BY <1>2 DEF BelongInv, Belong
<1>4. \A u \in Threads : u # t => /\ Holds(u, i)' <=> Holds(u, i)
                                  /\ At(u, "dropHistory")' <=> At(u, "dropHistory")
                                  /\ Clears(u)' <=> Clears(u)
  BY <1>2 DEF Holds, At, Busy, Clears
<1>5. CASE ~ (Busy(t) /\ i \in IdsOf(thread[t].req))
  <2>1. Slice(db', i) = Slice(db, i)
    BY <1>1, <1>2, <1>5, Undisturbed
  <2>2. ~ (Holds(t, i) /\ At(t, "dropHistory")) /\ ~ (Holds(t, i) /\ Clears(t))
    <3>1. At(t, "dropHistory") => Busy(t)
      BY AtBusy
    <3>2. Clears(t) => Busy(t)
      BY DEF Clears, Busy
    <3> QED BY <1>5, <3>1, <3>2 DEF Holds
  <2>3. (HistoryOf(i)' <=> HistoryOf(i)) /\ (Exists(i)' <=> Exists(i)) /\ (i \in db'.session <=> i \in db.session)
    BY <2>1 DEF Slice, HistoryOf, Exists
  <2> QED BY <1>3, <1>4, <2>2, <2>3
<1>6. CASE Busy(t) /\ i \in IdsOf(thread[t].req)
  <2> DEFINE w == thread[t]
  <2>0. /\ Holds(t, i) /\ ~Begins(t)
        /\ \A u \in Threads : Holds(u, i) => u = t
    BY <1>2, <1>6, HandBegun DEF Holds, TicketInv, OneHolder, Apart
  <2>1. /\ HistoryOf(i) \/ At(t, "dropHistory")
        /\ (i \in db.session => Exists(i)) \/ Clears(t)
    BY <1>3, <2>0
  <2>2. /\ w \in Worker /\ thread \in [Threads -> Worker] /\ db.history \in [Ids -> Seq(Entry)]
        /\ w.req.id \in Ids /\ w.snap \in Row
    BY <1>6, AtOK DEF Typed, TypeOK, Tables, Worker
  <2>3. /\ Exists(i) /\ ~Drop(t) => Exists(i)' /\ db'.row[i].born = db.row[i].born
        /\ Save(t) => Exists(i)
        /\ ~Exists(i) /\ ~Insert(t) => ~Exists(i)'
        /\ Drop(t) => ~Exists(i)' \/ db'.row[i] = db.row[i]
    BY <1>1, <1>6, CalmRow
  <2>4. CASE Drop(t)
    <3>1. w.req.kind = "delete" /\ i = w.req.id
      BY <1>6, <2>4, AtBusy, AtOK DEF Drop, Belongs, IdsOf
    <3>2. Exists(i)
      BY <1>2, <2>4, <3>1 DEF Drop, TicketInv, Finds
    <3> DEFINE p == <<"dropHistory", "commit", "dropSession", "commit", "emit">>
    <3>3. Continue(t, p)
      BY <2>4, <3>1, <3>2 DEF Drop
    <3>4. thread'[t] = [w EXCEPT !.plan = p]
      BY <2>2, <3>3 DEF Continue
    <3>5. p[3] = "dropSession" /\ 3 \in DOMAIN p /\ Head(p) = "dropHistory" /\ p # <<>>
      OBVIOUS
    <3> HIDE DEF p
    <3>6. thread'[t].plan = p /\ thread'[t].req = w.req
      BY <2>2, <3>4 DEF Worker
    <3>7. Holds(t, i)' /\ At(t, "dropHistory")' /\ Clears(t)'
      BY <1>6, <3>1, <3>5, <3>6 DEF Holds, At, Busy, Clears
    <3> QED BY <3>7
  <2>5. CASE ~Drop(t)
    <3>1. HistoryOf(i)' \/ \E u \in Threads : Holds(u, i)' /\ At(u, "dropHistory")'
      <4>1. CASE DropHistory(t)
        <5>1. w.req.kind # "rename" /\ i = w.req.id
          BY <1>6, <4>1, AtBusy, AtOK DEF DropHistory, Belongs, IdsOf
        <5>2. db' = DeleteHistory(i)
          BY <4>1, <5>1 DEF DropHistory, Execute
        <5>3. DeleteHistory(i).history[i] = <<>>
          BY <1>2, <2>2 DEF DeleteHistory, Typed, TypeOK, Tables
        <5>4. DOMAIN db'.history[i] = {}
          BY <5>2, <5>3
        <5> QED BY <5>4 DEF HistoryOf
      <4>2. CASE ~DropHistory(t)
        <5>1. HistoryOf(i)
          <6>1. At(t, "dropHistory") => DropHistory(t)
            BY <2>0, <2>5
               DEF Begins, Serve, At, CommitStep, Insert, Look, Save, Update, Recreate, SaveDeps, Result, Note, Emit, Drop, DropSession,
                   Rename, SessionOf, NewSession, Move, Depend, Undepend, AddPr, Touch, Seek, Suggest, Promote, Open
          <6> QED BY <2>1, <4>2, <6>1
        <5>2. CASE ~Exists(i)
          <6>1. DOMAIN db.history[i] = {} /\ ~Note(t)
            <7>1. Note(t) => i = w.req.id
              BY <1>6, AtBusy, AtOK DEF Note, Belongs, IdsOf
            <7>2. Note(t) => w.req.kind \in {"note", "move", "update", "pr"}
              BY AtBusy, AtOK DEF Note, Belongs
            <7>3. Note(t) => FALSE
              BY <1>2, <1>6, <5>2, <7>1, <7>2 DEF BelongInv, Reads, ReadOf
            <7> QED BY <5>1, <5>2, <7>3 DEF HistoryOf
          <6>2. db'.history[i] = db.history[i]
            BY <1>2, <1>6, <4>2, <6>1, HistorySteps
          <6> QED BY <6>1, <6>2 DEF HistoryOf
        <5>3. CASE Exists(i)
          <6>1. Exists(i)' /\ db'.row[i].born = db.row[i].born
            BY <2>3, <2>5, <5>3
          <6>2. CASE db'.history[i] = db.history[i]
            BY <5>1, <6>1, <6>2 DEF HistoryOf
          <6>3. CASE Note(t)
            <7>1. i = w.req.id
              BY <1>6, <6>3, AtBusy, AtOK DEF Note, Belongs, IdsOf
            <7>2. w.snap.born = db.row[i].born
              BY <1>2, <1>6, <6>3, <7>1 DEF BelongInv, Reads, ReadOf, Note
            <7> DEFINE e == [born |-> w.snap.born, to |-> w.to]
            <7>3. db'.history[i] = db.history[i] \/ db'.history[i] = Append(db.history[i], e)
              BY <1>2, <1>6, <4>2, HistorySteps
            <7>4. db.history[i] \in Seq(Entry) /\ e \in Entry /\ e.born = db.row[i].born
              BY <1>2, <2>2, <7>2 DEF Entry, Worker, Row
            <7> HIDE DEF e
            <7>5. ASSUME NEW k \in DOMAIN Append(db.history[i], e)
                  PROVE  Append(db.history[i], e)[k].born = db.row[i].born
              <8>1. k \in DOMAIN db.history[i] \/ Append(db.history[i], e)[k] = e
                BY <7>4, <7>5, AppendProperties
              <8>2. k \in DOMAIN db.history[i] => Append(db.history[i], e)[k] = db.history[i][k]
                BY <7>4, AppendProperties
              <8> QED BY <5>1, <7>4, <8>1, <8>2 DEF HistoryOf
            <7> QED BY <5>1, <6>1, <7>3, <7>5 DEF HistoryOf
          <6> QED BY <1>2, <1>6, <4>2, <6>2, <6>3, HistorySteps
        <5> QED BY <5>2, <5>3
      <4> QED BY <4>1, <4>2
    <3>2. (i \in db'.session => Exists(i)') \/ \E u \in Threads : Holds(u, i)' /\ Clears(u)'
      <4>1. CASE Open(t)
        <5>1. w.req.kind = "open" /\ i = w.req.id
          BY <1>6, <4>1, AtBusy, AtOK DEF Open, Belongs, IdsOf
        <5> QED BY <1>2, <1>6, <2>3, <2>5, <5>1 DEF BelongInv, Reads, ReadOf
      <4>2. CASE NewSession(t)
        <5>1. w.req.kind = "rename" /\ ~At(t, "rename") /\ renamed' = renamed
          BY <4>2, AtBusy, AtOK DEF NewSession, Belongs, At, Quiet
        <5> QED BY <1>2, <1>6, <5>1 DEF BelongInv, RenamedIds, IdsOf
      <4>3. CASE DropSession(t)
        <5>1. w.req.kind \in {"delete", "rename"}
          BY <4>3, AtBusy, AtOK DEF DropSession, Belongs
        <5>2. w.req.kind = "rename" => FALSE
          <6>1. ~At(t, "rename") /\ renamed' = renamed
            BY <4>3 DEF DropSession, At, Quiet
          <6> QED BY <1>2, <1>6, <6>1 DEF BelongInv, RenamedIds, IdsOf
        <5>3. i = w.req.id /\ db' = [db EXCEPT !.session = @ \ {w.req.id}]
          BY <1>6, <4>3, <5>1, <5>2 DEF DropSession, Execute, IdsOf
        <5>4. i \notin db'.session
          BY <5>3 DEF Typed, TypeOK, Tables
        <5> QED BY <5>4
      <4>4. CASE ~Open(t) /\ ~NewSession(t) /\ ~DropSession(t)
        <5>1. i \in db'.session => i \in db.session
          BY <1>2, <1>6, <4>4, HistorySteps
        <5>2. CASE i \in db.session => Exists(i)
          BY <2>3, <2>5, <5>1, <5>2
        <5>3. CASE Clears(t)
          <6>1. PICK n \in DOMAIN w.plan : w.plan[n] = "dropSession"
            BY <5>3 DEF Clears
          <6>2. /\ w.plan \in Seq(Steps) /\ w.plan # <<>> /\ PlanFits(w.plan, "delete")
                /\ w.req.kind = "delete" /\ Head(w.plan) = w.plan[1] /\ Belongs(Head(w.plan), "delete")
            BY <1>6, <2>2, <5>3, AtOK DEF Fits, Clears
          <6>3. Head(w.plan) # "dropSession"
            BY <1>6, <2>0, <4>4
               DEF Begins, Serve, At, CommitStep, Insert, Look, Save, Update, Recreate, SaveDeps, Result, Note, Emit, Drop, DropHistory,
                   DropSession, Rename, SessionOf, NewSession, Move, Depend, Undepend, AddPr, Touch, Seek, Suggest, Promote, Open
          <6>4. CommitStep(t) \/ DropHistory(t) \/ Emit(t)
            BY <2>0, <2>5, <4>4, <6>2
               DEF Begins, Serve, At, CommitStep, Insert, Look, Save, Update, Recreate, SaveDeps, Result, Note, Emit, Drop, DropHistory,
                   DropSession, Rename, SessionOf, NewSession, Move, Depend, Undepend, AddPr, Touch, Seek, Suggest, Promote, Open, Belongs
          <6>5. thread'[t] = [w EXCEPT !.plan = Tail(w.plan)]
            BY <1>6, <6>4, AdvanceOK DEF CommitStep, DropHistory, Emit
          <6>6. thread'[t].plan = Tail(w.plan) /\ thread'[t].req = w.req
            BY <2>2, <6>5 DEF Worker
          <6>7. n - 1 \in DOMAIN Tail(w.plan) /\ Tail(w.plan)[n - 1] = "dropSession"
            BY <6>1, <6>2, <6>3, TailFits
          <6>8. Clears(t)' /\ thread'[t].plan # <<>>
            BY <6>2, <6>6, <6>7 DEF Clears
          <6> QED BY <1>6, <6>6, <6>8 DEF Holds, Busy
        <5> QED BY <2>1, <5>2, <5>3
      <4> QED BY <4>1, <4>2, <4>3, <4>4
    <3> QED BY <3>1, <3>2
  <2> QED BY <2>4, <2>5
<1> QED BY <1>5, <1>6

(* Every step keeps all of it.                                             *)
LEMMA NextBelong == ASSUME Typed, TicketInv, BelongInv, [Next]_vars PROVE BelongInv'
<1>1. RenamedIds'
  BY NextRenamedIds DEF BelongInv
<1>2. CASE UNCHANGED vars
  BY <1>1, <1>2 DEF vars, ghosts, BelongInv, Belong, Reads, ReadOf, Calm, HistoryOf, Clears, Apart, Holds, At, Busy,
                    Exists
<1>3. CASE Restart
  <2>1. restarts' # 0
    BY <1>3 DEF Restart, Typed, TypeOK
  <2> QED BY <1>1, <2>1 DEF BelongInv, Belong, Reads, Calm
<1>4. ASSUME NEW t \in Threads, Serve(t) PROVE BelongInv'
  BY <1>1, <1>4, ServeReads, ServeBelong DEF BelongInv
<1> QED BY <1>2, <1>3, <1>4 DEF Next

(* When the server rests, what is on a task's timeline and its session row *)
(* are the task's own, not an earlier one's of that id.                    *)
THEOREM BelongToTheirTask == Spec => []NothingLeftBehind
<1>1. Init => Typed /\ TicketInv /\ BelongInv
  <2>1. ASSUME Init PROVE \A t \in Threads : ~Busy(t) /\ thread[t].todo = <<>>
    BY <2>1, IdleFits DEF Init, Busy
  <2>2. ASSUME Init PROVE TicketInv
    BY <2>1, <2>2 DEF Init, TicketInv, OneHolder, RowUndo, TicketUndo, Finds, Holds, At
  <2>3. ASSUME Init PROVE \A i \in Ids : DOMAIN db.history[i] = {} /\ i \notin db.session
    BY <2>3 DEF Init, Empty
  <2>4. ASSUME Init PROVE BelongInv
    BY <2>1, <2>3, <2>4 DEF BelongInv, Belong, Reads, RenamedIds, HistoryOf, Apart
  <2> QED BY <2>2, <2>4, InitTyped
<1>2. Typed /\ TicketInv /\ BelongInv /\ [Next]_vars => Typed' /\ TicketInv' /\ BelongInv'
  BY NextTyped, NextTicketInv, NextBelong
<1>3. Typed /\ BelongInv => NothingLeftBehind
  <2>1. SUFFICES ASSUME Typed, Belong, Calm, \A t \in Threads : ~Busy(t), NEW i \in Apart
                 PROVE  HistoryOf(i) /\ (i \in db.session => Exists(i))
    BY DEF BelongInv, NothingLeftBehind, Calm, Apart, HistoryOf, Resting
  <2>2. \A t \in Threads : ~Clears(t) /\ ~At(t, "dropHistory")
    BY <2>1 DEF Busy, Clears, At
  <2> QED BY <2>1, <2>2 DEF Belong
<1> QED BY <1>1, <1>2, <1>3, PTL DEF Spec

-----------------------------------------------------------------------------
(* The changes of status on a task's timeline end with s; a task without a *)
(* change on it has the status it began with.                              *)
Says(i, s)   == /\ Changes(i) = {} => s = db.row[i].first
                /\ \A k \in Changes(i) : (\A m \in Changes(i) : m <= k) => s = db.history[i][k].to
HasResult(t) == \E n \in DOMAIN thread[t].plan : thread[t].plan[n] = "result"
Records(t)   == \E n \in DOMAIN thread[t].plan :
                  \/ thread[t].req.kind = "update" /\ thread[t].plan[n] \in {"result", "note"}
                  \/ /\ thread[t].req.kind = "pr" /\ thread[t].to # NoStatus
                     /\ thread[t].plan[n] \in {"record", "note"}
(* An update knows which status the timeline says, until it has put its    *)
(* own on it; a pull request's suggestion is the status, once written.     *)
UpdateOf(t) ==
  LET w == thread[t] IN
  /\ HasResult(t) => Says(w.req.id, w.snap.status)
  /\ At(t, "look") \/ At(t, "save") => w.snap.status = db.row[w.req.id].status
  /\ HasResult(t) /\ ~At(t, "look") /\ ~At(t, "save") =>
       db.row[w.req.id].status = Changed(w.req, w.snap).status
  /\ At(t, "note") => w.to = db.row[w.req.id].status
Promoted == Calm => \A t \in Threads :
  Busy(t) /\ thread[t].req.kind = "pr" /\ thread[t].req.id \in Apart /\ thread[t].to # NoStatus
    /\ ~At(t, "promote") => db.row[thread[t].req.id].status = thread[t].to
Updates == Calm => \A t \in Threads :
  Busy(t) /\ thread[t].req.kind = "update" /\ thread[t].req.id \in Apart \ detected => UpdateOf(t)
Told == Calm => \A i \in Apart \ detected :
  Exists(i) => Says(i, db.row[i].status) \/ \E t \in Threads : Holds(t, i) /\ Records(t)

(* A note that is not about a status leaves what the timeline says, one    *)
(* about a status says that status.                                        *)
LEMMA SaysNote ==
  ASSUME Typed, NEW i \in Ids, NEW e \in Entry, db'.history[i] = Append(db.history[i], e),
         db'.row[i] = db.row[i]
  PROVE  /\ e.to = NoStatus => \A s : Says(i, s) => Says(i, s)'
         /\ e.to # NoStatus => Says(i, e.to)'
<1> DEFINE h == db.history[i]
           n == Len(h)
<1>1. h \in Seq(Entry) /\ n \in Nat /\ DOMAIN h = 1 .. n
  BY LenProperties DEF Typed, TypeOK, Tables
<1>2. /\ Append(h, e) \in Seq(Entry) /\ DOMAIN Append(h, e) = 1 .. n + 1
      /\ \A k \in 1 .. n : Append(h, e)[k] = h[k]
      /\ Append(h, e)[n + 1] = e
  BY <1>1, AppendProperties, LenProperties
<1> DEFINE C == {k \in DOMAIN h : h[k].to # NoStatus}
           D == {k \in DOMAIN Append(h, e) : Append(h, e)[k].to # NoStatus}
<1>3. Changes(i) = C /\ Changes(i)' = D /\ C \subseteq 1 .. n
  BY <1>1 DEF Changes
<1>4. CASE e.to = NoStatus
  <2>1. D = C
    BY <1>1, <1>2, <1>4
  <2>2. \A k \in C : Append(h, e)[k] = h[k]
    BY <1>1, <1>2
  <2> HIDE DEF C, D, h
  <2>3. ASSUME NEW s, Says(i, s) PROVE Says(i, s)'
    BY <1>3, <2>1, <2>2, <2>3 DEF Says, h
  <2> QED BY <1>4, <2>3
<1>5. CASE e.to # NoStatus
  <2>1. n + 1 \in D /\ \A k \in D : k \in 1 .. n + 1
    BY <1>2, <1>5
  <2>2. ASSUME NEW k \in D, \A m \in D : m <= k PROVE Append(h, e)[k] = e
    <3>1. k = n + 1
      BY <1>1, <2>1, <2>2
    <3> QED BY <1>2, <3>1
  <2> HIDE DEF D, n
  <2>3. Says(i, e.to)'
    BY <1>3, <2>1, <2>2 DEF Says
  <2> QED BY <1>5, <2>3
<1> QED BY <1>4, <1>5

(* The status that a save writes, and the entry that a note appends.       *)
LEMMA SaveWrites ==
  ASSUME Typed, NEW t \in Threads, Save(t), Update(t), Exists(thread[t].req.id)
  PROVE  db'.row[thread[t].req.id].status = Changed(thread[t].req, thread[t].snap).status
<1> DEFINE w == thread[t]
<1>1. ~Abort(t)
  <2>1. thread[t].plan # <<>> /\ thread'[t].plan = Tail(thread[t].plan) /\ Tail(thread[t].plan) # <<>>
    <3>1. Advance(t) /\ Busy(t) /\ Head(thread[t].plan) = "save"
      BY SaveKeeps DEF Update
    <3>2. Owes(t)'
      BY <3>1, ExecutingOwes DEF Executing
    <3>3. thread'[t].plan = Tail(thread[t].plan)
      BY <3>1, AdvanceOK, AtOK DEF Worker
    <3> QED BY <3>1, <3>2, <3>3 DEF Owes, Busy
  <2> QED BY <2>1, AbortOK, IdleFits
<1>2. PICK x \in Row : Execute(InsertRow(w.req.id, x)) /\ x.status = Changed(w.req, w.snap).status
  BY <1>1, SaveIs
<1>3. db' = InsertRow(w.req.id, x)
  BY <1>2 DEF Execute
<1>4. InsertRow(w.req.id, x).row[w.req.id] = x
  BY SaveKeeps, AtOK DEF InsertRow, Typed, TypeOK, Tables
<1> QED BY <1>2, <1>3, <1>4

(* What a noted change writes.                                             *)
LEMMA NoteWrites ==
  ASSUME Typed, NEW t \in Threads, Note(t)
  PROVE  LET w == thread[t]  e == [born |-> w.snap.born, to |-> w.to] IN
         /\ e \in Entry
         /\ db'.history[w.req.id] = Append(db.history[w.req.id], e) /\ db'.row = db.row
<1> DEFINE w   == thread[t]
           e   == [born |-> w.snap.born, to |-> w.to]
           new == [db EXCEPT !.history[w.req.id] = Append(@, e)]
<1>1. w \in Worker /\ w.req.id \in Ids /\ db \in Tables
  BY AtBusy, AtOK DEF Note, Typed, TypeOK
<1>2. e \in Entry
  BY <1>1 DEF Worker, Row, Entry
<1>3. db' = new
  BY DEF Note, Execute
<1>4. new.history[w.req.id] = Append(db.history[w.req.id], e) /\ new.row = db.row
  BY <1>1 DEF Tables
<1> QED BY <1>2, <1>3, <1>4

(* A step of an update that is not its look or its result goes on with the *)
(* plan, for the task is there.                                            *)
LEMMA UpdateSteps ==
  ASSUME Typed, NEW t \in Threads, Serve(t), ~Begins(t), thread[t].req.kind = "update",
         Exists(thread[t].req.id), Save(t) => Update(t)
  PROVE  \/ Result(t) \/ Look(t)
         \/ Advance(t) /\ (Save(t) \/ CommitStep(t) \/ SaveDeps(t) \/ Note(t) \/ Emit(t))
<1>1. Busy(t) /\ Belongs(Head(thread[t].plan), "update")
  BY HandSame, AtOK
<1>2. Look(t) \/ Save(t) \/ CommitStep(t) \/ SaveDeps(t) \/ Note(t) \/ Emit(t) \/ Result(t)
  BY <1>1
     DEF Begins, Serve, At, CommitStep, Insert, Look, Save, Update, Recreate, SaveDeps, Result, Note, Emit, Drop, DropHistory,
         DropSession, Rename, SessionOf, NewSession, Move, Depend, Undepend, AddPr, Touch, Seek, Suggest, Promote, Open, Belongs
<1>3. SaveDeps(t) => Advance(t)
  <2>1. Keeps(thread[t].req.id)
    BY DEF Keeps
  <2> QED BY <2>1, SaveDepsIs DEF ReplaceDeps
<1>4. Save(t) => Advance(t)
  BY DEF Update
<1> QED BY <1>2, <1>3, <1>4 DEF CommitStep, Note, Emit

(* The suggestion of a pull request is on no timeline yet when it is       *)
(* written, and there is none when the pull request is added.              *)
LEMMA PrRecords ==
  ASSUME Typed, NEW t \in Threads, Busy(t)
  PROVE  (At(t, "promote") => Records(t)) /\ (At(t, "pr") => ~Records(t))
<1> DEFINE w == thread[t]
<1>1. /\ w.plan # <<>> /\ PlanFits(w.plan, w.req.kind) /\ Head(w.plan) = w.plan[1] /\ 1 \in DOMAIN w.plan
      /\ Belongs(Head(w.plan), w.req.kind)
  BY AtOK DEF Fits, Worker
<1>2. At(t, "promote") => Records(t)
  <2>1. ASSUME At(t, "promote") PROVE Records(t)
    <3>1. w.plan[1] = "promote" /\ w.req.kind = "pr" /\ w.to # NoStatus
      BY <1>1, <2>1, AtOK DEF At, Belongs, Fits
    <3>2. PICK m \in DOMAIN w.plan : w.plan[m] = "record"
      BY <1>1, <3>1 DEF PlanFits
    <3> QED BY <3>1, <3>2 DEF Records
  <2> QED BY <2>1
<1>3. At(t, "pr") => ~Records(t)
  <2>1. ASSUME At(t, "pr"), NEW m \in DOMAIN w.plan, w.plan[m] \in {"record", "note"} PROVE FALSE
    <3>1. w.plan[1] = "pr" /\ w.plan[m] \notin {"result", "record"}
      BY <1>1, <2>1 DEF At, PlanFits
    <3>2. w.plan[m] \in First => m = 1
      BY <1>1 DEF PlanFits
    <3> QED BY <2>1, <3>1, <3>2 DEF First
  <2>2. At(t, "pr") => w.req.kind = "pr"
    BY <1>1 DEF At, Belongs
  <2> QED BY <2>1, <2>2 DEF Records
<1> QED BY <1>2, <1>3

(* What a thread that goes on with its plan still has to say.              *)
LEMMA AdvanceRecords ==
  ASSUME Typed, NEW t \in Threads, Busy(t), thread'[t].plan = Tail(thread[t].plan),
         thread'[t].req = thread[t].req, thread'[t].to = thread[t].to
  PROVE  /\ HasResult(t)' => HasResult(t)
         /\ HasResult(t) /\ Head(thread[t].plan) # "result" => HasResult(t)'
         /\ Records(t) /\ Head(thread[t].plan) \notin {"result", "note", "record"} => Records(t)'
         /\ Head(thread[t].plan) = "note" => ~HasResult(t)
         /\ At(t, "save") /\ thread[t].req.kind = "update" => HasResult(t)
<1> DEFINE w == thread[t]
<1>1. /\ w.plan \in Seq(Steps) /\ w.plan # <<>> /\ PlanFits(w.plan, w.req.kind)
      /\ thread'[t].plan = Tail(w.plan) /\ thread'[t].req = w.req /\ Head(w.plan) = w.plan[1] /\ 1 \in DOMAIN w.plan
      /\ Belongs(Head(w.plan), w.req.kind)
  BY AtOK DEF Fits, Worker
<1>2. /\ \A n \in DOMAIN Tail(w.plan) : n + 1 \in DOMAIN w.plan /\ Tail(w.plan)[n] = w.plan[n + 1]
      /\ \A n \in DOMAIN w.plan : n # 1 => n - 1 \in DOMAIN Tail(w.plan) /\ Tail(w.plan)[n - 1] = w.plan[n]
  BY <1>1, TailFits
<1>3. HasResult(t)' => HasResult(t)
  BY <1>1, <1>2 DEF HasResult
<1>4. ASSUME HasResult(t), Head(w.plan) # "result" PROVE HasResult(t)'
  <2>1. PICK n \in DOMAIN w.plan : w.plan[n] = "result"
    BY <1>4 DEF HasResult
  <2>2. n - 1 \in DOMAIN Tail(w.plan) /\ Tail(w.plan)[n - 1] = "result"
    BY <1>1, <1>2, <1>4, <2>1
  <2> QED BY <1>1, <2>2 DEF HasResult
<1>5. Records(t) /\ Head(w.plan) \notin {"result", "note", "record"} => Records(t)'
  BY <1>1, <1>2 DEF Records
<1>6. Head(w.plan) = "note" => ~HasResult(t)
  BY <1>1 DEF HasResult, PlanFits
<1>7. At(t, "save") /\ w.req.kind = "update" => HasResult(t)
  BY <1>1 DEF HasResult, PlanFits, At
<1> QED BY <1>3, <1>4, <1>5, <1>6, <1>7

(* What an update knows of the timeline stays so.                          *)
LEMMA ServeUpdates ==
  ASSUME Typed, TicketInv, BelongInv, Updates, Told, NEW t \in Threads, Serve(t) PROVE Updates'
<1>1. SUFFICES ASSUME Calm', NEW u \in Threads, Busy(u)', thread'[u].req.kind = "update",
                      thread'[u].req.id \in Apart' \ detected'
               PROVE  UpdateOf(u)'
  BY DEF Updates
<1>2. /\ Calm /\ Apart' \subseteq Apart /\ (Rollback => db' = db) /\ detected \subseteq detected'
      /\ Apart \subseteq Ids \ contested
  <2>1. detected \subseteq detected'
    BY HandBegun
       DEF Serve, Begins, CommitStep, Insert, Look, Save, Update, Recreate, SaveDeps, Result, Note, Emit, Drop, DropHistory, DropSession,
           Rename, SessionOf, NewSession, Move, Depend, Undepend, AddPr, Touch, Seek, Suggest, Promote, Open, Quiet, Saved
  <2> QED BY <1>1, <2>1, CalmStep, HandSame, HandBegun DEF Apart
<1>3. CASE u # t
  <2>1. thread'[u] = thread[u]
    BY <1>3, ServeKeeps DEF Keeping, Works
  <2> DEFINE i == thread[u].req.id
  <2>2. Busy(u) /\ Holds(u, i) /\ i \in Apart \ detected
    BY <1>1, <1>2, <2>1 DEF Busy, Holds, IdsOf
  <2>3. db'.row[i] = db.row[i] /\ db'.history[i] = db.history[i]
    BY <1>1, <1>3, <2>1, <2>2, OthersHold DEF Slice
  <2>4. UpdateOf(u)
    BY <1>1, <1>2, <2>1, <2>2 DEF Updates
  <2>5. \A s : Says(i, s)' <=> Says(i, s)
    BY <2>1, <2>3 DEF Says, Changes
  <2> QED BY <2>1, <2>3, <2>4, <2>5 DEF UpdateOf, HasResult, At, Busy
<1>4. CASE u = t /\ Begins(t)
  <2>1. PICK r \in Request :
          /\ thread'[t].plan = Plan(r) /\ thread'[t].snap = Working(r).snap
          /\ thread'[t].req.id = r.id /\ thread'[t].req.kind = r.kind
    BY <1>4, HandBegun
  <2>2. Plan(r) # <<>> /\ db' = db /\ r.kind = "update"
    BY <1>1, <1>4, <2>1, HandBegun DEF Busy, Unchanged
  <2>3. Exists(r.id) /\ Head(Plan(r)) = "look"
    BY <2>2, PlanIs, PlansStep
  <2>4. Working(r).snap = db.row[r.id]
    BY <2>3, WorkingOK DEF Typed
  <2>5. r.id \in Apart \ detected /\ r.id \in Ids \ contested' /\ Holds(t, r.id)'
    BY <1>1, <1>2, <1>4, <2>1 DEF Apart, Holds, IdsOf
  <2>6. Says(r.id, db.row[r.id].status)
    <3>1. ASSUME NEW v \in Threads, Holds(v, r.id), Records(v) PROVE FALSE
      <4>1. Busy(v)
        BY <3>1 DEF Records, Busy
      <4>2. v # t
        BY <1>4, <4>1, HandBegun
      <4>3. Holds(v, r.id)'
        BY <3>1, <4>2, ServeKeeps DEF Keeping, Works, Holds, Busy
      <4>4. OneHolder'
        BY NextOneHolder DEF TicketInv, Next
      <4> QED BY <2>5, <4>2, <4>3, <4>4 DEF OneHolder
    <3> QED BY <1>2, <2>3, <2>5, <3>1 DEF Told
  <2>7. \A s : Says(r.id, s)' <=> Says(r.id, s)
    BY <2>2 DEF Says, Changes
  <2>8. ~At(t, "note")' /\ At(t, "look")'
    BY <2>1, <2>2, <2>3 DEF At, Busy
  <2> QED BY <1>4, <2>1, <2>2, <2>4, <2>6, <2>7, <2>8 DEF UpdateOf
<1>5. CASE u = t /\ ~Begins(t)
  <2> DEFINE w == thread[t]
             i == w.req.id
  <2>1. /\ Busy(t) /\ thread'[t].req = w.req
        /\ ~Result(t) /\ ~Seek(t) => thread'[t].snap = w.snap
    BY <1>1, <1>5, HandSame, IdleFits DEF Busy, SameHand
  <2>2. i \in Apart' /\ i \in Apart \ detected /\ i \in Ids /\ i \in IdsOf(w.req) /\ w.req.kind = "update" /\ UpdateOf(t)
    BY <1>1, <1>2, <1>5, <2>1 DEF Updates, IdsOf, Apart
  <2>3. /\ Exists(i) /\ ~Drop(t) => db'.row[i].first = db.row[i].first
        /\ Exists(i) /\ ~Drop(t) /\ ~Seek(t) /\ ~Promote(t)
        /\ Save(t) => Update(t)
    <3>1. Exists(i)
      BY <1>2, <2>1, <2>2 DEF BelongInv, Reads, ReadOf
    <3>2. ~Drop(t) /\ ~Seek(t) /\ ~Promote(t)
      BY <2>2, AtBusy, AtOK, SeekOK DEF Drop, Promote, Belongs
    <3> QED BY <1>1, <2>1, <2>2, <3>1, <3>2, CalmRow
  <2>4. ~At(t, "look")' /\ (At(t, "save")' => Look(t))
    BY <1>1, <1>5, OpeningBegins DEF At, Opening
  <2>5. thread \in [Threads -> Worker] /\ w \in Worker
    BY DEF Typed, TypeOK
  <2>8. Result(t) => ~At(t, "save")'
    BY <2>4 DEF Result, Look, At
  <2>9. CASE Look(t)
    <3>1. /\ db' = db /\ At(t, "look") /\ ~Result(t) /\ thread'[t].snap = w.snap
      BY <2>1, <2>3, <2>9 DEF Look, Result, Unchanged, At
    <3>2. /\ thread'[t] = [w EXCEPT !.plan = Tail(w.plan), !.found = Exists(w.req.id)]
          /\ Tail(w.plan) # <<>> /\ Head(Tail(w.plan)) = "save"
      BY <2>9, LookOK
    <3>3. thread'[t].plan = Tail(w.plan) /\ thread'[t].to = w.to
      BY <2>5, <3>2 DEF Worker
    <3>4. At(t, "save")' /\ ~At(t, "note")'
      BY <3>2, <3>3 DEF At, Busy
    <3>5. HasResult(t)' => HasResult(t)
      BY <2>1, <3>3, AdvanceRecords
    <3>6. Says(i, w.snap.status) => Says(i, w.snap.status)'
      BY <2>1, <3>1 DEF Says, Changes
    <3>7. At(t, "look") => w.snap.status = db.row[i].status
      BY <2>2 DEF UpdateOf
    <3> QED BY <1>5, <2>1, <2>2, <2>4, <3>1, <3>4, <3>5, <3>6, <3>7 DEF UpdateOf
  <2>6. CASE Result(t)
    <3>1. db' = db
      BY <2>6 DEF Result, Unchanged
    <3>2. CASE ~Logs(t)
      <4>1. thread'[t].plan = <<"emit">>
        BY <2>5, <2>6, <3>2 DEF Result, Continue, Worker
      <4>2. ~HasResult(t)' /\ ~At(t, "note")'
        BY <4>1, PlansStep DEF HasResult, At
      <4> QED BY <1>5, <2>4, <2>6, <2>8, <4>2 DEF UpdateOf
    <3>3. CASE Logs(t)
      <4> DEFINE new == [w EXCEPT !.plan = <<"note", "commit", "emit">>, !.to = db.row[w.req.id].status,
                                  !.snap.born = db.row[w.req.id].born]
      <4>1. thread'[t] = new
        BY <2>5, <2>6, <3>3 DEF Result
      <4>2. new.plan = <<"note", "commit", "emit">> /\ new.to = db.row[i].status
        BY <2>5 DEF Worker
      <4> HIDE DEF new
      <4>3. ~HasResult(t)' /\ thread'[t].to = db.row[i].status
        BY <4>1, <4>2 DEF HasResult
      <4> QED BY <1>5, <2>1, <2>4, <2>6, <2>8, <3>1, <4>3 DEF UpdateOf
    <3> QED BY <3>2, <3>3
  <2>7. CASE ~Result(t) /\ ~Look(t)
    <3>1. Advance(t) /\ (Save(t) \/ CommitStep(t) \/ SaveDeps(t) \/ Note(t) \/ Emit(t))
      BY <1>5, <2>2, <2>3, <2>7, UpdateSteps
    <3>2. ~At(t, "note")'
      <4>1. ~Move(t)
        BY <2>2, AtBusy, AtOK DEF Move, Belongs
      <4> QED BY <1>1, <1>5, <2>3, <2>7, <4>1, ComesAfter DEF At
    <3>0. thread'[t].plan = Tail(w.plan) /\ thread'[t].to = w.to
      <4>1. thread'[t] = [w EXCEPT !.plan = Tail(w.plan)]
        BY <2>1, <3>1, AdvanceOK
      <4> QED BY <2>5, <4>1 DEF Worker
    <3>3. ~HasResult(t)' \/ (HasResult(t) /\ ~Note(t))
      <4>1. Note(t) => Head(w.plan) = "note"
        BY AtBusy DEF Note
      <4> QED BY <2>1, <3>0, <3>1, <4>1, AdvanceRecords
    <3>4. SUFFICES ASSUME HasResult(t), ~Note(t)
                   PROVE  Says(i, w.snap.status)' /\ db'.row[i].status = Changed(w.req, w.snap).status
      BY <1>5, <2>1, <2>3, <2>4, <2>7, <3>2, <3>3 DEF UpdateOf
    <3>5. db'.history[i] = db.history[i]
      <4>1. ~DropHistory(t)
        BY <2>2, AtBusy, AtOK DEF DropHistory, Belongs
      <4> QED BY <1>2, <2>1, <2>2, <3>4, <4>1, HistorySteps
    <3>6. Says(i, w.snap.status)
      BY <2>2, <3>4 DEF UpdateOf
    <3>7. Says(i, w.snap.status)'
      <4>1. thread'[t].snap.status = w.snap.status /\ thread'[t].req.id = i
        BY <2>1, <2>3, <2>7
      <4> QED BY <2>3, <3>5, <3>6, <4>1 DEF Says, Changes
    <3>8. CASE Save(t)
      BY <2>3, <3>7, <3>8, SaveWrites
    <3>9. CASE ~Save(t)
      <4>1. ~At(t, "save") /\ ~At(t, "look") /\ ~Insert(t) /\ ~Drop(t)
        BY <3>1, <3>9 DEF At, CommitStep, SaveDeps, Note, Emit, Insert, Drop
      <4>2. db'.row[i].status = db.row[i].status
        BY <1>1, <2>1, <2>2, <2>3, <3>9, <4>1, CalmRow
      <4> QED BY <2>2, <3>4, <3>7, <4>1, <4>2 DEF UpdateOf
    <3> QED BY <3>8, <3>9
  <2> QED BY <2>6, <2>7, <2>9
<1> QED BY <1>3, <1>4, <1>5

(* A suggested status that was written stays the status of the row.        *)
LEMMA ServePromoted ==
  ASSUME Typed, TicketInv, BelongInv, Promoted, NEW t \in Threads, Serve(t) PROVE Promoted'
<1>1. SUFFICES ASSUME Calm', NEW u \in Threads, Busy(u)', thread'[u].req.kind = "pr",
                      thread'[u].req.id \in Apart', thread'[u].to # NoStatus, ~At(u, "promote")'
               PROVE  db'.row[thread'[u].req.id].status = thread'[u].to
  BY DEF Promoted
<1>2. Calm /\ Apart' \subseteq Apart
  BY <1>1, CalmStep, HandSame, HandBegun DEF Apart
<1>3. CASE u # t
  <2>1. thread'[u] = thread[u]
    BY <1>3, ServeKeeps DEF Keeping, Works
  <2> DEFINE i == thread[u].req.id
  <2>2. Busy(u) /\ Holds(u, i) /\ i \in Apart /\ ~At(u, "promote")
    BY <1>1, <1>2, <2>1 DEF Busy, Holds, IdsOf, At
  <2>3. db'.row[i] = db.row[i]
    BY <1>1, <1>3, <2>1, <2>2, OthersHold DEF Slice
  <2> QED BY <1>1, <1>2, <2>1, <2>2, <2>3 DEF Promoted
<1>4. CASE u = t /\ Begins(t)
  BY <1>1, <1>4, HandBegun
<1>5. CASE u = t /\ ~Begins(t)
  <2> DEFINE w == thread[t]
             i == w.req.id
  <2>1. /\ Busy(t) /\ thread'[t].req = w.req
        /\ ~Result(t) /\ ~Suggest(t) => thread'[t].to = w.to
    BY <1>1, <1>5, HandSame, IdleFits DEF Busy, SameHand
  <2>2. i \in Apart' /\ i \in Apart /\ i \in IdsOf(w.req) /\ w.req.kind = "pr"
    BY <1>1, <1>2, <1>5, <2>1 DEF IdsOf
  <2>3. Exists(i) /\ ~Result(t)
    <3>1. Exists(i)
      BY <1>2, <2>1, <2>2 DEF BelongInv, Reads, ReadOf
    <3> QED BY <2>2, <3>1, AtBusy, AtOK DEF Result, Belongs
  <2>4. CASE Suggest(t)
    <3>1. db' = db /\ ~At(t, "promote")
      BY <2>4 DEF Suggest, Unchanged, At
    <3>2. ~ (thread'[t].plan = <<"promote", "commit", "record", "emit">>)
      BY <1>1, <1>5, PlansStep DEF At, Busy
    <3>3. thread'[t].to = w.to
      BY <2>4, <3>2, SeekOK
    <3> QED BY <1>1, <1>2, <1>5, <2>1, <2>2, <3>1, <3>3 DEF Promoted
  <2>5. CASE Promote(t)
    <3>1. ~Suggest(t)
      BY <2>5 DEF Promote, Suggest, At
    <3>2. db \in Tables /\ i \in Ids
      BY <2>2 DEF Typed, TypeOK, Apart
    <3>3. \A x : InsertRow(i, x).row[i] = x
      BY <3>2 DEF InsertRow, Tables
    <3>4. db'.row[i].status = w.to
      BY <2>3, <2>5, <3>3, PromoteIs DEF Execute
    <3> QED BY <1>5, <2>1, <2>3, <3>1, <3>4
  <2>6. CASE ~Suggest(t) /\ ~Promote(t)
    <3>1. ~At(t, "promote")
      BY <1>5, <2>6
         DEF Begins, Serve, At, CommitStep, Insert, Look, Save, Update, Recreate, SaveDeps, Result, Note, Emit, Drop, DropHistory,
             DropSession, Rename, SessionOf, NewSession, Move, Depend, Undepend, AddPr, Touch, Seek, Suggest, Promote, Open
    <3>2. ~Insert(t) /\ ~Save(t) /\ ~Drop(t)
      BY <2>2, AtBusy, AtOK, SaveKeeps DEF Insert, Drop, Belongs
    <3>3. db'.row[i].status = db.row[i].status
      BY <1>1, <2>1, <2>2, <2>3, <2>6, <3>2, CalmRow
    <3> QED BY <1>1, <1>2, <1>5, <2>1, <2>2, <2>3, <2>6, <3>1, <3>3 DEF Promoted
  <2> QED BY <2>4, <2>5, <2>6
<1> QED BY <1>3, <1>4, <1>5

(* The timeline says the status of the row, or the update that has the     *)
(* task in hand will make it say it.                                       *)
LEMMA ServeTold ==
  ASSUME Typed, TicketInv, BelongInv, Updates, Promoted, Told, NEW t \in Threads, Serve(t) PROVE Told'
<1>1. SUFFICES ASSUME Calm', NEW i \in Apart' \ detected', db'.row[i] # NoRow,
                      ~ \E u \in Threads : Holds(u, i)' /\ Records(u)'
               PROVE  Says(i, db.row[i].status)'
  BY DEF Told, Exists
<1>2. /\ Calm /\ i \in Apart \ detected /\ i \in Ids /\ (Rollback => db' = db)
      /\ \A u \in Threads : u # t => thread'[u] = thread[u]
  <2>1. detected \subseteq detected'
    BY HandBegun
       DEF Serve, Begins, CommitStep, Insert, Look, Save, Update, Recreate, SaveDeps, Result, Note, Emit, Drop, DropHistory, DropSession,
           Rename, SessionOf, NewSession, Move, Depend, Undepend, AddPr, Touch, Seek, Suggest, Promote, Open, Quiet, Saved
  <2>2. Apart' \subseteq Apart /\ Apart \subseteq Ids
    BY HandSame, HandBegun DEF Apart
  <2> QED BY <1>1, <2>1, <2>2, CalmStep, ServeKeeps DEF Keeping, Works
<1>3. \A u \in Threads : u # t => ~ (Holds(u, i) /\ Records(u))
  <2>1. ASSUME NEW u \in Threads, u # t, Holds(u, i), Records(u) PROVE FALSE
    <3>1. Holds(u, i)' /\ Records(u)'
      BY <1>2, <2>1 DEF Holds, Records, Busy
    <3> QED BY <1>1, <3>1
  <2> QED BY <2>1
<1>4. Exists(i) => Says(i, db.row[i].status) \/ (Holds(t, i) /\ Records(t))
  BY <1>2, <1>3 DEF Told
<1>5. ASSUME Says(i, db.row[i].status), db'.row[i].status = db.row[i].status, db'.history[i] = db.history[i],
             db'.row[i].first = db.row[i].first
      PROVE  Says(i, db.row[i].status)'
  BY <1>5 DEF Says, Changes
<1>6. CASE ~ (Busy(t) /\ i \in IdsOf(thread[t].req))
  <2>1. db'.row[i] = db.row[i] /\ db'.history[i] = db.history[i]
    BY <1>1, <1>2, <1>6, Undisturbed DEF Slice
  <2>2. ~ (Holds(t, i) /\ Records(t))
    BY <1>6 DEF Holds, Records, Busy
  <2> QED BY <1>1, <1>4, <1>5, <2>1, <2>2 DEF Exists
<1>7. CASE Busy(t) /\ i \in IdsOf(thread[t].req)
  <2> DEFINE w == thread[t]
  <2>0. /\ Holds(t, i) /\ ~Begins(t) /\ w \in Worker /\ thread \in [Threads -> Worker] /\ Fits(w)
        /\ db.row \in [Ids -> Row \cup {NoRow}]
    BY <1>7, HandBegun DEF Holds, Typed, TypeOK, AllFit, Tables
  <2>1. /\ ~Exists(i) /\ ~Insert(t) => ~Exists(i)'
        /\ Insert(t) /\ ~Exists(i) /\ Exists(i)' => db'.row[i].status = db'.row[i].first
        /\ Insert(t) /\ Exists(i) => db'.row[i] = db.row[i]
        /\ Drop(t) => ~Exists(i)' \/ db'.row[i] = db.row[i]
        /\ ~Insert(t) /\ ~Save(t) /\ ~Promote(t) /\ ~Drop(t) /\ Exists(i) =>
             db'.row[i].status = db.row[i].status
        /\ Exists(i) /\ ~Drop(t) => db'.row[i].first = db.row[i].first
        /\ Save(t) => Update(t)
    BY <1>1, <1>7, CalmRow
  <2>2. Exists(i)'
    BY <1>1 DEF Exists
  <2>3. CASE w.req.kind = "update"
    <3>1. i = w.req.id
      BY <1>7, <2>3 DEF IdsOf
    <3>2. Exists(i) /\ UpdateOf(t)
      BY <1>2, <1>7, <2>3, <3>1 DEF BelongInv, Reads, ReadOf, Updates
    <3>3. CASE Result(t)
      <4>1. db' = db /\ At(t, "result")
        BY <3>3 DEF Result, Unchanged
      <4>2. HasResult(t) /\ ~At(t, "save") /\ ~At(t, "look")
        <5>1. 1 \in DOMAIN w.plan /\ w.plan[1] = "result"
          BY <1>7, <4>1, AtOK DEF At
        <5> QED BY <4>1, <5>1 DEF HasResult, At
      <4>3. Says(i, w.snap.status) /\ db.row[i].status = Changed(w.req, w.snap).status
        BY <3>1, <3>2, <4>2 DEF UpdateOf
      <4>4. ~Logs(t)
        <5>1. ASSUME Logs(t) PROVE FALSE
          <6> DEFINE new == [w EXCEPT !.plan = <<"note", "commit", "emit">>, !.to = db.row[w.req.id].status,
                                      !.snap.born = db.row[w.req.id].born]
          <6>1. thread'[t] = new
            BY <2>0, <3>3, <5>1 DEF Result
          <6>2. new.plan = <<"note", "commit", "emit">> /\ new.req = w.req
            BY <2>0 DEF Worker
          <6> HIDE DEF new
          <6>3. thread'[t].plan # <<>> /\ thread'[t].plan[1] = "note" /\ 1 \in DOMAIN thread'[t].plan
            BY <6>1, <6>2
          <6>4. Holds(t, i)' /\ Records(t)'
            BY <1>7, <2>3, <6>1, <6>2, <6>3 DEF Holds, Busy, Records
          <6> QED BY <1>1, <6>4
        <5> QED BY <5>1
      <4>5. db.row[i].status = w.snap.status
        <5>1. w.req.change.status = NoStatus => Changed(w.req, w.snap).status = w.snap.status
          BY <2>0 DEF Changed, Worker, Row
        <5> QED BY <3>1, <3>2, <4>3, <4>4, <5>1 DEF Logs
      <4> QED BY <1>5, <4>1, <4>3, <4>5
    <3>5. CASE Look(t)
      <4>1. db' = db /\ Head(w.plan) = "look"
        BY <3>5, LookOK DEF Look, Unchanged
      <4>2. thread'[t] = [w EXCEPT !.plan = Tail(w.plan), !.found = Exists(w.req.id)]
        BY <3>5, LookOK
      <4>3. thread'[t].plan = Tail(w.plan) /\ thread'[t].req = w.req /\ thread'[t].to = w.to
        BY <2>0, <4>2 DEF Worker
      <4>4. Records(t) => Records(t)'
        BY <1>7, <4>1, <4>3, AdvanceRecords
      <4>5. ~Records(t)
        <5>1. Records(t)' => Busy(t)'
          BY DEF Records, Busy
        <5> QED BY <1>1, <1>7, <4>3, <4>4, <5>1 DEF Holds
      <4> QED BY <1>4, <1>5, <3>2, <4>1, <4>5
    <3>4. CASE ~Result(t) /\ ~Look(t)
      <4>1. Advance(t) /\ (Save(t) \/ CommitStep(t) \/ SaveDeps(t) \/ Note(t) \/ Emit(t))
        BY <2>0, <2>1, <2>3, <3>1, <3>2, <3>4, UpdateSteps
      <4>2. thread'[t] = [w EXCEPT !.plan = Tail(w.plan)]
        BY <1>7, <4>1, AdvanceOK
      <4>3. thread'[t].req = w.req /\ thread'[t].plan = Tail(w.plan) /\ thread'[t].to = w.to
        BY <2>0, <4>2 DEF Worker
      <4>4. ~Records(t)'
        <5>1. Records(t)' => Busy(t)'
          BY DEF Records, Busy
        <5> QED BY <1>1, <1>7, <4>3, <5>1 DEF Holds
      <4>5. CASE Note(t)
        <5>1. PICK e \in Entry : /\ e = [born |-> w.snap.born, to |-> w.to] /\ db'.row = db.row
                                 /\ db'.history[i] = Append(db.history[i], e)
          BY <3>1, <4>5, NoteWrites
        <5>2. e.to = db.row[i].status
          BY <3>1, <3>2, <4>5, <5>1 DEF UpdateOf, Note
        <5>3. e.to # NoStatus
          <6>1. db.row[i] \in Row
            BY <1>2, <2>0, <3>2 DEF Exists
          <6> QED BY <5>2, <6>1 DEF Row, Statuses, NoStatus
        <5>4. Says(i, e.to)'
          BY <1>2, <5>1, <5>3, SaysNote
        <5>5. e.to = db'.row[i].status
          BY <5>1, <5>2
        <5> QED BY <5>4, <5>5
      <4>6. CASE Save(t)
        <5>1. At(t, "save") /\ Head(w.plan) = "save"
          BY <4>6, SaveKeeps DEF At
        <5>2. HasResult(t)'
          BY <1>7, <2>3, <4>3, <5>1, AdvanceRecords
        <5> QED BY <2>3, <4>3, <4>4, <5>2 DEF HasResult, Records
      <4>7. CASE ~Note(t) /\ ~Save(t)
        <5>1. Head(w.plan) \notin {"result", "note", "record"}
          BY <4>1, <4>7, AtBusy DEF CommitStep, SaveDeps, Emit
        <5>2. ~Records(t)
          BY <1>7, <4>3, <4>4, <5>1, AdvanceRecords
        <5>3. Says(i, db.row[i].status)
          BY <1>4, <3>2, <5>2
        <5>4. ~DropHistory(t) /\ ~Insert(t) /\ ~Drop(t) /\ ~Promote(t)
          BY <4>1, <4>7, AtBusy DEF CommitStep, SaveDeps, Emit, DropHistory, Insert, Drop, Promote
        <5>5. db'.history[i] = db.history[i]
          BY <1>2, <1>7, <4>7, <5>4, HistorySteps
        <5> QED BY <1>5, <2>1, <3>2, <4>7, <5>3, <5>4, <5>5
      <4> QED BY <4>5, <4>6, <4>7
    <3> QED BY <3>3, <3>4, <3>5
  <2>5. CASE w.req.kind = "pr"
    <3>1. i = w.req.id
      BY <1>7, <2>5 DEF IdsOf
    <3>2. /\ Exists(i) /\ ~Insert(t) /\ ~Drop(t) /\ ~Save(t) /\ ~DropHistory(t)
          /\ (~At(t, "promote") /\ w.to # NoStatus => db.row[i].status = w.to)
      <4>1. Exists(i)
        BY <1>2, <1>7, <2>5, <3>1 DEF BelongInv, Reads, ReadOf
      <4>2. ~Insert(t) /\ ~Drop(t) /\ ~Save(t) /\ ~DropHistory(t)
        BY <2>5, AtBusy, AtOK, SaveKeeps DEF Insert, Drop, DropHistory, Belongs
      <4>3. ~At(t, "promote") /\ w.to # NoStatus => db.row[i].status = w.to
        BY <1>2, <1>7, <2>5, <3>1 DEF Promoted
      <4> QED BY <4>1, <4>2, <4>3
    <3>3. ASSUME thread'[t].req = w.req PROVE ~Records(t)'
      <4>1. Records(t)' => Busy(t)'
        BY DEF Records, Busy
      <4> QED BY <1>1, <1>7, <3>3, <4>1 DEF Holds
    <3>4. ASSUME Advance(t)
          PROVE  thread'[t].req = w.req /\ thread'[t].plan = Tail(w.plan) /\ thread'[t].to = w.to
      <4>1. thread'[t] = [w EXCEPT !.plan = Tail(w.plan)]
        BY <1>7, <3>4, AdvanceOK
      <4> QED BY <2>0, <4>1 DEF Worker
    <3>5. CASE Suggest(t)
      <4>1. db' = db /\ thread'[t].req = w.req /\ Head(w.plan) = "suggest"
        BY <3>5, SeekOK DEF Suggest, Unchanged, At
      <4>2. thread'[t].plan = Tail(w.plan) /\ thread'[t].to = w.to
        <5>1. ASSUME thread'[t].plan = <<"promote", "commit", "record", "emit">>, thread'[t].to # NoStatus
              PROVE  FALSE
          <6>1. thread'[t].plan[3] = "record" /\ 3 \in DOMAIN thread'[t].plan
            BY <5>1
          <6>2. Records(t)'
            BY <2>5, <4>1, <5>1, <6>1 DEF Records
          <6> QED BY <3>3, <4>1, <6>2
        <5>2. \A x \in Statuses : x # NoStatus
          BY DEF Statuses, NoStatus
        <5> QED BY <3>5, <5>1, <5>2, SeekOK
      <4>3. ~Records(t)
        BY <1>7, <3>3, <4>1, <4>2, AdvanceRecords
      <4> QED BY <1>4, <1>5, <3>2, <4>1, <4>3
    <3>6. CASE Seek(t)
      <4>1. db' = db /\ thread'[t].req = w.req /\ thread'[t].to = w.to
        BY <3>6, SeekOK DEF Seek, Unchanged
      <4>2. thread'[t].plan # <<>> /\ thread'[t].plan[1] = "note" /\ 1 \in DOMAIN thread'[t].plan
        BY <3>1, <3>2, <3>6, SeekOK
      <4>3. ~Records(t)
        BY <2>5, <3>3, <4>1, <4>2 DEF Records
      <4> QED BY <1>4, <1>5, <3>2, <4>1, <4>3
    <3>7. CASE Promote(t)
      <4>1. At(t, "promote") /\ Head(w.plan) = "promote" /\ Advance(t)
        BY <3>7 DEF Promote, At
      <4>2. Records(t)'
        BY <1>7, <3>4, <4>1, PrRecords, AdvanceRecords
      <4> QED BY <3>3, <3>4, <4>1, <4>2
    <3>8. CASE Note(t)
      <4>1. PICK e \in Entry : /\ e = [born |-> w.snap.born, to |-> w.to] /\ db'.row = db.row
                               /\ db'.history[i] = Append(db.history[i], e)
        BY <3>1, <3>8, NoteWrites
      <4>2. e.to = w.to /\ ~At(t, "promote")
        BY <3>8, <4>1 DEF Note, At
      <4>3. PICK s : s = db.row[i].status
        OBVIOUS
      <4>4. CASE w.to = NoStatus
        <5>1. ~Records(t)
          BY <2>5, <4>4 DEF Records
        <5>2. Says(i, s)'
          BY <1>2, <1>4, <3>2, <4>1, <4>2, <4>3, <4>4, <5>1, SaysNote
        <5> QED BY <4>1, <4>3, <5>2
      <4>5. CASE w.to # NoStatus
        <5>1. s = e.to
          BY <3>2, <4>2, <4>3, <4>5
        <5>2. Says(i, e.to)'
          BY <1>2, <4>1, <4>2, <4>5, SaysNote
        <5>3. db'.row[i].status = e.to
          BY <4>1, <4>3, <5>1
        <5> QED BY <5>2, <5>3
      <4> QED BY <4>4, <4>5
    <3>9. CASE ~Suggest(t) /\ ~Seek(t) /\ ~Promote(t) /\ ~Note(t)
      <4>1. AddPr(t) \/ Touch(t) \/ CommitStep(t) \/ Emit(t)
        BY <2>0, <2>5, <3>9, <1>7, AtOK
           DEF Begins, Serve, At, CommitStep, Insert, Look, Save, Update, Recreate, SaveDeps, Result, Note, Emit, Drop, DropHistory,
               DropSession, Rename, SessionOf, NewSession, Move, Depend, Undepend, AddPr, Touch, Seek, Suggest, Promote, Open, Belongs
      <4>2. ~Records(t)
        <5>1. AddPr(t) => At(t, "pr")
          BY DEF AddPr
        <5>2. ~AddPr(t) => Advance(t) /\ Head(w.plan) \notin {"result", "note", "record"}
          BY <4>1 DEF Touch, CommitStep, Emit, At
        <5>3. ~AddPr(t) => ~Records(t)
          BY <1>7, <3>3, <3>4, <5>2, AdvanceRecords
        <5> QED BY <1>7, <5>1, <5>3, PrRecords
      <4>3. db'.history[i] = db.history[i]
        BY <1>2, <1>7, <3>2, <3>9, HistorySteps
      <4>4. db'.row[i].status = db.row[i].status /\ db'.row[i].first = db.row[i].first
        BY <2>1, <3>2, <3>9
      <4> QED BY <1>4, <1>5, <3>2, <4>2, <4>3, <4>4
    <3> QED BY <3>5, <3>6, <3>7, <3>8, <3>9
  <2>4. CASE w.req.kind \notin {"update", "pr"}
    <3>1. ~Records(t)
      BY <2>4 DEF Records
    <3>2. CASE ~Exists(i)
      <4>1. Insert(t) /\ db'.row[i].status = db'.row[i].first
        BY <2>1, <2>2, <3>2
      <4>2. HistoryOf(i)
        <5>1. ~At(t, "dropHistory") /\ \A u \in Threads : Holds(u, i) => u = t
          BY <1>2, <2>0, <4>1 DEF Insert, At, TicketInv, OneHolder, Apart
        <5> QED BY <1>2, <5>1 DEF BelongInv, Belong
      <4>3. DOMAIN db.history[i] = {}
        BY <3>2, <4>2 DEF HistoryOf
      <4>4. db'.history[i] = db.history[i]
        <5>1. ~Note(t) /\ ~DropHistory(t)
          BY <4>1 DEF Insert, Note, DropHistory, At
        <5> QED BY <1>2, <1>7, <5>1, HistorySteps
      <4> QED BY <4>1, <4>3, <4>4 DEF Says, Changes
    <3>3. CASE Exists(i)
      <4>1. Says(i, db.row[i].status)
        BY <1>4, <3>1, <3>3
      <4>2. ~Save(t)
        <5>1. Save(t) => w.req.kind = "check" /\ Update(t) /\ i = w.req.id
          BY <1>7, <2>1, <2>4, SaveKeeps, AtOK DEF Belongs, IdsOf
        <5>2. Save(t) => detected' = detected \cup {w.req.id}
          BY <5>1 DEF Update, Saved
        <5> QED BY <1>1, <5>1, <5>2
      <4>3. db'.row[i].status = db.row[i].status /\ db'.row[i].first = db.row[i].first
        <5>1. ~Promote(t)
          BY <2>4, AtBusy, AtOK DEF Promote, Belongs
        <5>2. Drop(t) => db'.row[i] = db.row[i]
          BY <2>1, <2>2
        <5>3. Insert(t) => db'.row[i] = db.row[i]
          BY <2>1, <3>3
        <5>4. ~Insert(t) /\ ~Drop(t) => db'.row[i].status = db.row[i].status
          BY <2>1, <3>3, <4>2, <5>1
        <5>5. ~Drop(t) => db'.row[i].first = db.row[i].first
          BY <2>1, <3>3
        <5> QED BY <5>2, <5>3, <5>4, <5>5
      <4>4. CASE Note(t)
        <5>1. i = w.req.id /\ w.to = NoStatus
          BY <1>7, <2>0, <2>4, <4>4, AtBusy, AtOK DEF Note, Belongs, IdsOf, Fits
        <5>2. PICK e \in Entry : /\ e = [born |-> w.snap.born, to |-> w.to] /\ db'.row = db.row
                                 /\ db'.history[i] = Append(db.history[i], e)
          BY <4>4, <5>1, NoteWrites
        <5>3. PICK s : s = db.row[i].status
          OBVIOUS
        <5>4. Says(i, s)'
          BY <1>2, <4>1, <5>1, <5>2, <5>3, SaysNote
        <5> QED BY <4>3, <5>3, <5>4
      <4>5. CASE ~Note(t)
        <5>1. ~DropHistory(t)
          <6>1. DropHistory(t) => i = w.req.id /\ At(t, "dropHistory")
            BY <1>7, AtBusy, AtOK DEF DropHistory, Belongs, IdsOf
          <6> QED BY <1>2, <1>7, <3>3, <6>1 DEF BelongInv, Reads, ReadOf
        <5>2. db'.history[i] = db.history[i]
          BY <1>2, <1>7, <4>5, <5>1, HistorySteps
        <5> QED BY <1>5, <4>1, <4>3, <5>2
      <4> QED BY <4>4, <4>5
    <3> QED BY <3>2, <3>3
  <2> QED BY <2>3, <2>4, <2>5
<1> QED BY <1>6, <1>7

(* Every step keeps what the timelines say.                                *)
LEMMA NextTold ==
  ASSUME Typed, TicketInv, BelongInv, Updates, Promoted, Told, [Next]_vars
  PROVE  Updates' /\ Promoted' /\ Told'
<1>1. CASE UNCHANGED vars
  <2>1. Updates'
    <3>1. UNCHANGED <<db, thread, restarts, undone, renamed, contested, detected>>
      BY <1>1 DEF vars, ghosts
    <3>2. \A i, x : Says(i, x)' <=> Says(i, x)
      BY <3>1 DEF Says, Changes
    <3>3. \A t \in Threads : UpdateOf(t) => UpdateOf(t)'
      BY <3>1, <3>2 DEF UpdateOf, HasResult, At, Busy
    <3> QED BY <3>1, <3>3 DEF Updates, Calm, Apart, Busy
  <2>2. Told'
    BY <1>1 DEF vars, ghosts, Told, Says, Changes, Records, Calm, Apart, Holds, Busy, Exists
  <2>3. Promoted'
    BY <1>1 DEF vars, ghosts, Promoted, Calm, Apart, At, Busy
  <2> QED BY <2>1, <2>2, <2>3
<1>2. CASE Restart
  <2>1. restarts' # 0
    BY <1>2 DEF Restart, Typed, TypeOK
  <2> QED BY <2>1 DEF Updates, Promoted, Told, Calm
<1>3. ASSUME NEW t \in Threads, Serve(t) PROVE Updates' /\ Promoted' /\ Told'
  BY <1>3, ServeUpdates, ServePromoted, ServeTold
<1> QED BY <1>1, <1>2, <1>3 DEF Next

(* When the server rests, the last status on a task's timeline is the      *)
(* status of its row, unless check_status wrote it.                        *)
THEOREM TimelinesTell == Spec => []TimelineTold
<1>1. Init => Typed /\ TicketInv /\ BelongInv /\ Updates /\ Promoted /\ Told
  <2>1. ASSUME Init PROVE \A t \in Threads : ~Busy(t) /\ thread[t].todo = <<>>
    BY <2>1, IdleFits DEF Init, Busy
  <2>2. ASSUME Init PROVE TicketInv
    BY <2>1, <2>2 DEF Init, TicketInv, OneHolder, RowUndo, TicketUndo, Finds, Holds, At
  <2>3. ASSUME Init PROVE \A i \in Ids : DOMAIN db.history[i] = {} /\ i \notin db.session /\ ~Exists(i)
    BY <2>3 DEF Init, Empty, Exists
  <2>4. ASSUME Init PROVE BelongInv
    BY <2>1, <2>3, <2>4 DEF BelongInv, Belong, Reads, RenamedIds, HistoryOf, Apart
  <2>5. ASSUME Init PROVE Updates /\ Promoted /\ Told
    BY <2>1, <2>3, <2>5 DEF Updates, Promoted, Told, Apart
  <2> QED BY <2>2, <2>4, <2>5, InitTyped
<1>2. Typed /\ TicketInv /\ BelongInv /\ Updates /\ Promoted /\ Told /\ [Next]_vars
        => Typed' /\ TicketInv' /\ BelongInv' /\ Updates' /\ Promoted' /\ Told'
  BY NextTyped, NextTicketInv, NextBelong, NextTold
<1>3. Told => TimelineTold
  <2>1. SUFFICES ASSUME Told, Calm, \A t \in Threads : ~Busy(t), NEW i \in Apart \ detected, Exists(i)
                 PROVE  Tells(i)
    BY DEF TimelineTold, Calm, Apart, Resting, Existing
  <2>2. \A t \in Threads : ~Records(t)
    BY <2>1 DEF Busy, Records
  <2> QED BY <2>1, <2>2 DEF Told, Says, Tells
<1> QED BY <1>1, <1>2, <1>3, PTL DEF Spec
=============================================================================

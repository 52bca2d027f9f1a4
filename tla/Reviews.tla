------------------------------- MODULE Reviews -------------------------------
(***************************************************************************)
(* The review queue (common/prs.py, common/reviews.py, the review methods  *)
(* of eva_db.py): PRs GitHub asks the user to review, PRs that mention     *)
(* the user, and PRs the user pinned.  A full sync and a sync of the rows  *)
(* that notifications marked run in threads of their own, while the user   *)
(* pins, works on and removes reviews.                                     *)
(***************************************************************************)
EXTENDS Integers, FiniteSets

CONSTANTS
  Urls,           \* the PRs
  None,
  MaxAsks,        \* bound on the changes on GitHub
  MaxUses         \* bound on what the user does

VARIABLES
  queue,    \* [Urls -> Review \cup {None}]: task and pr row of a review
  asks,     \* [Urls -> Ask]: what GitHub says
  full,     \* the full sync
  quick,    \* the sync of marked rows
  user,     \* the user's request, between what it read and what it writes
  asked,    \* how often GitHub changed
  used,     \* how often the user acted
  wish,     \* history: [Urls -> workflow state of a pinned review, or None]
  out,      \* history: reviews removed, and not asked for or pinned since
  met       \* history: reviews the user changed while a sync held them

rvars == <<queue, asks, full, quick, user, asked, used, wish, out, met>>

Ver     == 0 .. MaxAsks
Sources == {"github", "manual", "both"}
Pinned  == {"manual", "both"}
Flow    == {"queued", "active"}   \* of the four; what a state means is the user's
Review  == [source : Sources, dirty : BOOLEAN, flow : Flow, ver : Ver]
Ask     == [asks : {"nothing", "mention", "request"}, ver : Ver]
Held    == [url : Urls, source : Sources]
(* `work`: the working set with the data to write, `req`: what was found   *)
(* to be requested, `hold`: the source decided for the row to write next.  *)
Full    == [pc : {"idle", "found", "prune"}, req : SUBSET Urls,
            work : [Urls -> Ver \cup {None}], hold : Held \cup {None},
            drop : SUBSET Urls, demote : SUBSET Urls]
Quick   == [pc : {"idle", "busy"}, source : [Urls -> Sources \cup {None}],
            ver : [Urls -> Ver], clear : Urls \cup {None}]
Request == [does : {"nothing", "pin", "flow"}, url : Urls \cup {None}, ver : Ver,
            source : Pinned, flow : Flow]
NoFull  == [pc |-> "idle", req |-> {}, work |-> [u \in Urls |-> None], hold |-> None,
            drop |-> {}, demote |-> {}]
NoQuick == [pc |-> "idle", source |-> [u \in Urls |-> None], ver |-> [u \in Urls |-> 0],
            clear |-> None]
NoRequest == [does |-> "nothing", url |-> None, ver |-> 0, source |-> "manual",
              flow |-> "queued"]

ReviewsTypeOK ==
  /\ queue \in [Urls -> Review \cup {None}] /\ asks \in [Urls -> Ask]
  /\ full \in Full /\ quick \in Quick /\ user \in Request
  /\ asked \in 0 .. MaxAsks /\ used \in 0 .. MaxUses
  /\ wish \in [Urls -> Flow \cup {None}] /\ out \subseteq Urls /\ met \subseteq Urls

ReviewsInit ==
  /\ queue = [u \in Urls |-> None] /\ asks \in [Urls -> {a \in Ask : a.ver = 0}]
  /\ full = NoFull /\ quick = NoQuick /\ user = NoRequest /\ asked = 0 /\ used = 0
  /\ wish = [u \in Urls |-> None] /\ out = {} /\ met = {}

-----------------------------------------------------------------------------
(* upsert_review_pr: merges the fields into the row; a row that is not     *)
(* there is made, as a manual one unless the caller says otherwise.        *)
NewRow == [source |-> "manual", dirty |-> FALSE, flow |-> "queued", ver |-> 0]
RowOr(u)           == IF queue[u] = None THEN NewRow ELSE queue[u]
Put(u, source, v)  == [queue EXCEPT ![u] = [RowOr(u) EXCEPT !.source = source, !.ver = v]]
PutFlow(u, flow)   == [queue EXCEPT ![u] = [RowOr(u) EXCEPT !.flow = flow]]
Unmarked(U)        == [u \in Urls |-> IF u \in U /\ queue[u] # None
                                      THEN [queue[u] EXCEPT !.dirty = FALSE] ELSE queue[u]]

(* _resolve_review_source.                                                 *)
ResolvedForgetsPin(isReq, prior) ==   \* mutant: a request takes the row over
  IF isReq THEN "github" ELSE IF prior \in Sources THEN prior ELSE "manual"
ResolveReviewSource(isReq, prior) ==
  CASE isReq /\ prior \in Pinned     -> "both"
    [] isReq /\ prior \notin Pinned  -> "github"
    [] ~isReq /\ prior \in Sources   -> prior
    [] OTHER                         -> "manual"

(* A review a sync has read and will write.                                *)
InSync(u) == \/ full.work[u] # None \/ (full.hold # None /\ full.hold.url = u)
             \/ u \in full.drop \cup full.demote \/ quick.source[u] # None
Meets(u) == met' = IF InSync(u) THEN met \cup {u} ELSE met
SyncOnly == UNCHANGED <<asks, user, asked, used, wish, out, met>>

-----------------------------------------------------------------------------
(* sync_review_requests.  The searches answer what GitHub asks for, or     *)
(* fail, which counts as nothing; the pinned rows of the table are added;  *)
(* then GitHub is asked for each of them (_enrich_review_rows), and those  *)
(* not in `got` are not answered.  All of it is what GitHub says at once.  *)
Wanted(what) == {u \in Urls : asks[u].asks = what}
Found(req, mention, got) ==
  [u \in Urls |->
     IF u \in req \cup mention THEN asks[u].ver
     ELSE IF queue[u] # None /\ queue[u].source \in Pinned
          THEN IF u \in got THEN asks[u].ver ELSE queue[u].ver
     ELSE None]
Search(req, mention, got) ==
  /\ full.pc = "idle"
  /\ full' = [NoFull EXCEPT !.pc = "found", !.req = req, !.work = Found(req, mention, got)]
  /\ UNCHANGED <<queue, quick>> /\ SyncOnly
SearchOrFail ==
  \E req \in {Wanted("request"), {}}, mention \in {Wanted("mention"), {}}, got \in SUBSET Urls :
    Search(req, mention, got)
SyncAnswered == Search(Wanted("request"), Wanted("mention"), Urls)

(* One row: read its source, then write it.                                *)
LookAt(u) ==
  /\ full.pc = "found" /\ full.work[u] # None /\ full.hold = None
  /\ full' = [full EXCEPT !.hold =
       [url |-> u, source |-> ResolveReviewSource(u \in full.req,
                                IF queue[u] = None THEN None ELSE queue[u].source)]]
  /\ UNCHANGED <<queue, quick>> /\ SyncOnly
PutRow ==
  /\ full.hold # None
  /\ queue' = Put(full.hold.url, full.hold.source, full.work[full.hold.url])
  /\ full' = [full EXCEPT !.hold = None, !.work[full.hold.url] = None]
  /\ UNCHANGED quick /\ SyncOnly

(* _prune_stale_review_rows: list the rows, then delete or demote them.    *)
StaleNeverBoth(source) ==   \* mutant: a pin that was requested too stays both
  {u \in Urls : queue[u] # None /\ queue[u].source = source /\ source # "both"} \ full.req
Stale(source) == {u \in Urls : queue[u] # None /\ queue[u].source = source} \ full.req
ListStale ==
  /\ full.pc = "found" /\ full.hold = None /\ \A u \in Urls : full.work[u] = None
  /\ full' = [full EXCEPT !.pc = "prune", !.drop = Stale("github"), !.demote = Stale("both")]
  /\ UNCHANGED <<queue, quick>> /\ SyncOnly
Prune(u) ==
  /\ full.pc = "prune"
  /\ \/ /\ u \in full.drop /\ queue' = [queue EXCEPT ![u] = None]
        /\ full' = [full EXCEPT !.drop = @ \ {u}]
     \/ /\ u \in full.demote /\ queue' = [queue EXCEPT ![u] = [RowOr(u) EXCEPT !.source = "manual"]]
        /\ full' = [full EXCEPT !.demote = @ \ {u}]
  /\ UNCHANGED quick /\ SyncOnly
(* clear_all_review_pr_dirty: also the marks set during the sync.          *)
EndFullSync ==
  /\ full.pc = "prune" /\ full.drop = {} /\ full.demote = {}
  /\ queue' = Unmarked(Urls) /\ full' = NoFull
  /\ UNCHANGED quick /\ SyncOnly

(* sync_review_requests_dirty_only: the rows as they were listed, the      *)
(* source too, are written back with what GitHub answered.                 *)
Marked == {u \in Urls : queue[u] # None /\ queue[u].dirty}
ListMarked(got) ==
  /\ quick.pc = "idle" /\ Marked # {}
  /\ quick' = [NoQuick EXCEPT !.pc = "busy",
       !.source = [u \in Urls |-> IF u \in Marked THEN queue[u].source ELSE None],
       !.ver = [u \in Urls |-> IF u \in Marked \cap got THEN asks[u].ver
                               ELSE IF u \in Marked THEN queue[u].ver ELSE 0]]
  /\ UNCHANGED <<queue, full>> /\ SyncOnly
PutMarked(u) ==
  /\ quick.source[u] # None /\ quick.clear = None
  /\ queue' = Put(u, quick.source[u], quick.ver[u])
  /\ quick' = [quick EXCEPT !.source[u] = None, !.ver[u] = 0, !.clear = u]
  /\ UNCHANGED full /\ SyncOnly
ClearMark ==
  /\ quick.clear # None /\ queue' = Unmarked({quick.clear})
  /\ quick' = IF \E u \in Urls : quick.source[u] # None
              THEN [quick EXCEPT !.clear = None] ELSE NoQuick
  /\ UNCHANGED full /\ SyncOnly

-----------------------------------------------------------------------------
Uses == used < MaxUses /\ used' = used + 1
(* add_review_watch: fetch the PR and read the row, then write it as       *)
(* pinned.                                                                 *)
PinLook(u) ==
  /\ user.does = "nothing" /\ Uses
  /\ user' = [NoRequest EXCEPT !.does = "pin", !.url = u, !.ver = asks[u].ver,
       !.source = IF queue[u] # None /\ queue[u].source \in {"github", "both"}
                  THEN "both" ELSE "manual"]
  /\ UNCHANGED <<queue, asks, full, quick, asked, wish, out, met>>
PinWrite ==
  LET u == user.url IN
  /\ user.does = "pin"
  /\ queue' = Put(u, user.source, user.ver) /\ user' = NoRequest
  /\ wish' = [wish EXCEPT ![u] = RowOr(u).flow] /\ out' = out \ {u} /\ Meets(u)
  /\ UNCHANGED <<asks, full, quick, asked, used>>

(* remove_review_watch deletes the row, whatever its source.               *)
DeletedUnlessPinned(u) ==   \* mutant: delete_review_watch keeps what GitHub found
  IF RowOr(u).source = "manual" THEN [queue EXCEPT ![u] = None] ELSE queue
Deleted(u) == [queue EXCEPT ![u] = None]
Unwatch(u) ==
  /\ Uses /\ queue[u] # None
  /\ queue' = Deleted(u) /\ wish' = [wish EXCEPT ![u] = None]
  /\ out' = IF asks[u].asks = "nothing" THEN out \cup {u} ELSE out
  /\ met' = IF InSync(u) \/ (user.url = u) THEN met \cup {u} ELSE met
  /\ UNCHANGED <<asks, full, quick, user, asked>>

(* open_review_session makes a review active, update_review sets any       *)
(* state: both read the row first and then upsert.                         *)
FlowLook(u, flow) ==
  /\ user.does = "nothing" /\ Uses /\ queue[u] # None
  /\ user' = [NoRequest EXCEPT !.does = "flow", !.url = u, !.flow = flow]
  /\ UNCHANGED <<queue, asks, full, quick, asked, wish, out, met>>
FlowWrite ==
  LET u == user.url IN
  /\ user.does = "flow"
  /\ queue' = PutFlow(u, user.flow) /\ user' = NoRequest
  /\ wish' = [wish EXCEPT ![u] = IF @ = None THEN None ELSE user.flow]
  /\ UNCHANGED <<asks, full, quick, asked, used, out, met>>

(* A notification marks the row (github_poller.py).                        *)
Mark(u) ==
  /\ queue[u] # None /\ ~queue[u].dirty /\ queue' = [queue EXCEPT ![u].dirty = TRUE]
  /\ UNCHANGED <<asks, full, quick, user, asked, used, wish, out, met>>
AskFor(u, what) ==
  /\ asked < MaxAsks /\ asked' = asked + 1
  /\ asks' = [asks EXCEPT ![u] = [asks |-> what, ver |-> asked + 1]]
  /\ out' = IF what = "nothing" THEN out ELSE out \ {u}
  /\ UNCHANGED <<queue, full, quick, user, used, wish, met>>

FullStep ==
  \/ SearchOrFail \/ PutRow \/ ListStale \/ EndFullSync
  \/ \E u \in Urls : LookAt(u) \/ Prune(u)
QuickStep ==
  \/ ClearMark \/ (\E got \in SUBSET Urls : ListMarked(got)) \/ (\E u \in Urls : PutMarked(u))
RequestStep == PinWrite \/ FlowWrite
ReviewsNext ==
  \/ FullStep \/ QuickStep \/ RequestStep
  \/ \E u \in Urls : \/ PinLook(u) \/ Unwatch(u) \/ Mark(u)
                     \/ \E flow \in Flow : FlowLook(u, flow)
                     \/ \E what \in {"nothing", "mention", "request"} : AskFor(u, what)

(* Threads run; what the full sync asks GitHub is answered again and again *)
ReviewsFairness ==
  /\ WF_rvars(FullStep) /\ WF_rvars(QuickStep) /\ WF_rvars(RequestStep)
  /\ SF_rvars(SyncAnswered)
ReviewsSpec == ReviewsInit /\ [][ReviewsNext]_rvars /\ ReviewsFairness

-----------------------------------------------------------------------------
(* "so the user's pin survives even though GitHub no longer considers it   *)
(* review-requested" (prs.py:264): a review that was pinned is in the      *)
(* queue as pinned, in the state the user gave it, whatever the syncs and  *)
(* GitHub did, unless the user wrote while a sync held the row.            *)
PinKept ==
  \A u \in Urls \ met :
    wish[u] # None => /\ queue[u] # None /\ queue[u].source \in Pinned
                      /\ queue[u].flow = wish[u]

(* A review the user removed, that GitHub does not ask for, is not put     *)
(* back by a sync, unless it was removed while one held the row.           *)
RemovedStaysOut == \A u \in out \ met : queue[u] = None

(* Again and again the queue says what GitHub says: a requested review is  *)
(* in it as such, in its last version, and no other is.                    *)
QueueFollows ==
  []<>(\A u \in Urls :
         /\ asks[u].asks = "request" =>
              queue[u] # None /\ queue[u].source \in {"github", "both"} /\ queue[u].ver = asks[u].ver
         /\ asks[u].asks # "request" => queue[u] = None \/ queue[u].source = "manual")
=============================================================================

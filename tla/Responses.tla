----------------------------- MODULE Responses -----------------------------
(***************************************************************************)
(* Users who ask a dispatcher with the retry and the deduplicate           *)
(* interceptors, composed in either order, for the same resource:          *)
(* lib/handler/retry-handler.js, lib/handler/deduplication-handler.js,     *)
(* lib/interceptor/deduplicate.js and the Request of lib/core/request.js   *)
(* that calls them.  The client below is external: it starts a request,    *)
(* passes on its answer or fails it (see Client and ClientH2).             *)
(*                                                                         *)
(* A call of a handler is an operator on the state, which calls those of   *)
(* the next handler.  User u has at most one RetryHandler, one request     *)
(* that is under way, one waiting handler and one DeduplicationHandler that *)
(* is registered, so each is found under u.  A user that waits on another  *)
(* without a RetryHandler of its own (kind.inside) has the waiting handler's *)
(* controller: of retry[u] only paused and target are used, as if it were  *)
(* behind a RetryController.                                               *)
(***************************************************************************)
EXTENDS Retry, SequencesExt, FiniteSetsExt

CONSTANTS
  Kinds,       \* the cases to check
  MaxBuffer,   \* the maxBufferSize option of deduplicate, in chunks
  \* What the code is not made for:
  JoinLate,    \* a retry of a response whose head was passed on, but no part
               \* of its body, may join a request of another
  AbortLate,   \* a user may abort while a retry is pending although its
               \* controller still reports that
  Overlap      \* the policy, asked for an answer and then for the failure of its
               \* connection, may decide for the failure first (the answer has
               \* a Retry-After header), or pass the answer on

\* inside: compose(retry, deduplicate), retries are deduplicated otherwise.
\* throws: throwOnError.  custom: the policy is the user's and decides later,
\* always.  etag, length: whether the server sends them.  does: the users; one
\* that "pauses" may do so in a callback, one that "aborts" at any time.
KindSet ==
  [inside : BOOLEAN, throws : BOOLEAN, custom : BOOLEAN, etag : BOOLEAN,
   length : BOOLEAN, does : Seq({"reads", "pauses", "aborts"})]

ASSUME KindAssumption == Kinds \subseteq KindSet
ASSUME BufferAssumption == MaxBuffer \in Nat
ASSUME CasesAssumption == {JoinLate, AbortLate, Overlap} \subseteq BOOLEAN

VARIABLES
  kind,        \* which of Kinds
  s,           \* users and handlers: see States
  dispatched,  \* users 1..dispatched have dispatched their request
  version      \* what the resource is now

vars == <<kind, s, dispatched, version>>

Users == DOMAIN kind.does

\* What the handler of the user was given: heads and outcomes, the head, how
\* many chunks; intact if they belong to that head and follow one another;
\* late if something came after the outcome.
UserStates ==
  [heads : Nat, ends : Nat, head : 0..503, got : Nat, intact : BOOLEAN, late : BOOLEAN]

\* A Request and its controller; at: the next position of the body.
Requests ==
  [phase : {"none", "queued", "started", "body", "over"}, paused : BOOLEAN,
   aborted : BOOLEAN, answer : Answers, at : Nat]

\* A waiting handler of a DeduplicationHandler.
WaitingHandlers ==
  [paused : BOOLEAN, aborted : BOOLEAN, done : BOOLEAN, buffer : Seq(Chunks),
   trailers : BOOLEAN]

\* live: registered in pendingRequests.  data: #responseDataStarted.
DeduplicationHandlers ==
  [live : BOOLEAN, range : Seq(Int), match : Nat, started : BOOLEAN, data : BOOLEAN,
   answer : Answers, waiting : Seq(Users)]

\* eager: the users do in their callbacks what they may do there, in this job.
States ==
  [user : [Users -> UserStates], retry : [Users -> RetryHandlers],
   req : [Users -> Requests], wait : [Users -> WaitingHandlers],
   dedup : [Users -> DeduplicationHandlers], eager : BOOLEAN]

TypeOK ==
  /\ kind \in Kinds /\ s \in States
  /\ dispatched \in 0..Len(kind.does) /\ version \in Versions

NoRequest == [phase |-> "none", paused |-> FALSE, aborted |-> FALSE,
              answer |-> NoAnswer, at |-> 0]
NewWaiting == [paused |-> FALSE, aborted |-> FALSE, done |-> FALSE, buffer |-> <<>>,
               trailers |-> FALSE]
NoDeduplication == [live |-> FALSE, range |-> <<>>, match |-> 0, started |-> FALSE,
                    data |-> FALSE, answer |-> NoAnswer, waiting |-> <<>>]

\* The DeduplicationHandler of u that the request calls first, or that the
\* RetryHandler calls next, if there is one; one that has completed is not
\* passed: what still came would be late.  Below, an operator for a call of it
\* is given that, and the operator for the call of a handler that it has.
DedupFirst(t, u) == ~kind.inside /\ t.dedup[u].live
DedupNext(t, u) == kind.inside /\ t.dedup[u].live

WaitingOn(t, d, passed) == IF passed /\ t.dedup[d].live THEN t.dedup[d].waiting ELSE <<>>

----------------------------------------------------------------------------
(* onResponseError, from the user's handler down to the request's.          *)

UserError(t, u) ==
  [t EXCEPT !.user[u].late = @ \/ t.user[u].ends > 0, !.user[u].ends = @ + 1]

Spent(w) == [w EXCEPT !.done = TRUE, !.buffer = <<>>, !.trailers = FALSE]

\* DeduplicationHandler.onResponseError
DedupError(t, d, passed, Fails(_, _)) ==
  LET g == [t EXCEPT !.dedup[d].live = @ /\ ~passed]
      Errored(x, w) == IF x.wait[w].done THEN x
                       ELSE Fails([x EXCEPT !.wait[w] = Spent(@)], w)
  IN FoldLeft(Errored, Fails(g, d), WaitingOn(t, d, passed))

\* The handler of a RetryHandler.
ErrorNext(t, u) == DedupError(t, u, DedupNext(t, u), UserError)

\* RetryHandler.onResponseError, from a controller that was aborted or not.
RetryError(t, u, aborted, err) ==
  LET r == t.retry[u]
      gone == aborted \/ (r.headersSent /\ ~r.resume)
      counted == IF gone THEN r ELSE [r EXCEPT !.count = CountAfterError(r)]
      asked == ~gone /\ (kind.custom \/ Retries(err, counted.count))
  IN CASE r.aborted -> t
       [] ~r.aborted /\ asked -> [t EXCEPT !.retry[u] = Asked(counted, "error", NoAnswer)]
       [] OTHER -> ErrorNext(
            [t EXCEPT !.retry[u] = [counted EXCEPT !.pending = @ /\ gone]], u)

\* The handler of a request: a DeduplicationHandler in front of RetryHandlers.
FirstError(t, u, err) ==
  LET Fails(x, w) == RetryError(x, w, w = u /\ x.req[u].aborted, err)
  IN DedupError(t, u, DedupFirst(t, u), Fails)

\* onResponseError of a request.
RequestError(t, u, err) == FirstError([t EXCEPT !.req[u].phase = "over"], u, err)

----------------------------------------------------------------------------
(* Controllers: abort and pause.                                            *)

Started(t, u) == t.req[u].phase \in {"started", "body"}

\* RequestController.abort with the closure of the client.
RequestAbort(t, u) ==
  IF Started(t, u) THEN RequestError([t EXCEPT !.req[u].aborted = TRUE], u, "final") ELSE t

\* abort of a waiting handler
WaitingAbort(t, w) ==
  LET g == [t EXCEPT !.wait[w] = [Spent(@) EXCEPT !.aborted = TRUE]]
  IN CASE t.wait[w].aborted -> t
       [] ~t.wait[w].aborted /\ kind.inside -> UserError(g, w)
       [] OTHER -> RetryError(g, w, TRUE, "final")

\* RetryController.abort
RetryAbort(t, u) ==
  LET target == t.retry[u].target
      Told(x) == IF ~x.retry[u].pending THEN x
                 ELSE ErrorNext([x EXCEPT !.retry[u] = GivenUp(@)], u)
  IN Told(CASE target = "request" -> RequestAbort(t, u)
            [] target = "waiting" -> WaitingAbort(t, u)
            [] OTHER -> t)

RequestPause(t, u) == IF Started(t, u) THEN [t EXCEPT !.req[u].paused = TRUE] ELSE t
WaitingPause(t, w) == [t EXCEPT !.wait[w].paused = @ \/ ~t.wait[w].aborted]

\* pause() of the controller that a RetryHandler was given for this attempt.
TargetPause(t, u) ==
  CASE t.retry[u].target = "request" -> RequestPause(t, u)
    [] t.retry[u].target = "waiting" -> WaitingPause(t, u)
    [] OTHER -> t

RetryPause(t, u) == TargetPause([t EXCEPT !.retry[u].paused = TRUE], u)

\* What a user does in a callback.
Reacts(t, u) ==
  CASE t.eager /\ kind.does[u] = "pauses" -> RetryPause(t, u)
    [] t.eager /\ kind.does[u] = "aborts" /\ t.user[u].ends = 0 -> RetryAbort(t, u)
    [] OTHER -> t

----------------------------------------------------------------------------
(* onResponseStart                                                          *)

UserHead(t, u, answer) ==
  Reacts([t EXCEPT !.user[u].late = @ \/ t.user[u].ends > 0, !.user[u].heads = @ + 1,
                   !.user[u].head = answer.v,
                   !.user[u].intact = @ /\ answer.from = 0], u)

Prune(t, d) ==
  [t EXCEPT !.dedup[d].waiting = SelectSeq(@, LAMBDA w : ~t.wait[w].done)]

\* DeduplicationHandler.onResponseStart
DedupHead(t, d, answer, passed, Starts(_, _)) ==
  LET g == IF ~passed THEN t
           ELSE [t EXCEPT !.dedup[d].started = TRUE, !.dedup[d].answer = answer]
      Passed(x, w) == IF x.wait[w].done THEN x ELSE Starts(x, w)
      PassedAll(x) == FoldLeft(Passed, x, WaitingOn(x, d, passed))
  IN Prune(PassedAll(Starts(g, d)), d)

PassHead(t, u, answer) ==
  LET g == [t EXCEPT !.retry[u] = Accepted(@, answer, kind.etag, kind.length)]
  IN DedupHead(g, u, answer, DedupNext(t, u), LAMBDA x, w : UserHead(x, w, answer))

\* RetryHandler.onResponseStart of an answer it does not refuse.  A policy that
\* decides at once has the head passed on, and resume() called after it.
RetryHead(t, u, answer) ==
  LET g == [t EXCEPT !.retry[u] = Counted(@)]
      r == g.retry[u]
      page == ~r.headersSent /\ IsPage(answer.v)
      asked == page /\ ~kind.throws
                 /\ (kind.custom \/ Retries(ErrorOf(answer.status), r.count))
      decided == page /\ ~kind.throws /\ ~asked
      Unpaused(x) == IF ~decided THEN x
                     ELSE [x EXCEPT !.wait[u].paused = FALSE, !.req[u].paused = FALSE]
  IN CASE r.headersSent -> g
       [] page /\ kind.throws /\ answer.status = 503 -> [g EXCEPT !.retry[u].error = TRUE]
       [] asked -> TargetPause([g EXCEPT !.retry[u] = Asked(Hold(@), "response", answer)], u)
       [] OTHER -> Unpaused(PassHead(
            [g EXCEPT !.retry[u] = IF decided THEN LetGo(@) ELSE @], u, answer))

\* A waiting handler that throws is heard of no more than one that does not.
WaitingHead(t, w, answer) ==
  CASE kind.inside -> UserHead(t, w, answer)
    [] ~kind.inside /\ Refuses(t.retry[w], answer) -> [t EXCEPT !.retry[w] = Counted(@)]
    [] OTHER -> RetryHead(t, w, answer)

FirstHead(t, u, answer) ==
  LET Starts(x, w) ==
        IF w # u /\ Refuses(x.retry[w], answer) THEN [x EXCEPT !.retry[w] = Counted(@)]
        ELSE RetryHead(x, w, answer)
  IN DedupHead(t, u, answer, DedupFirst(t, u), Starts)

\* onResponseStart of a request, which is aborted when it throws.
RequestHead(t, u, answer) ==
  LET g == [t EXCEPT !.req[u].phase = "body", !.req[u].answer = answer,
                     !.req[u].at = answer.from]
  IN IF Refuses(t.retry[u], answer)
     THEN RequestError([g EXCEPT !.retry[u] = Counted(@)], u, ErrorOf(answer.status))
     ELSE FirstHead(g, u, answer)

----------------------------------------------------------------------------
(* onResponseData                                                           *)

UserData(t, u, chunk) ==
  LET user == t.user[u]
  IN Reacts([t EXCEPT !.user[u].late = @ \/ user.ends > 0, !.user[u].got = @ + 1,
                      !.user[u].intact = @ /\ chunk = [v |-> user.head, at |-> user.got]],
            u)

\* #bufferWaitingChunk
Buffered(t, w, chunk) ==
  LET g == [t EXCEPT !.wait[w].buffer = Append(@, chunk)]
  IN IF Len(g.wait[w].buffer) > MaxBuffer THEN WaitingAbort(g, w) ELSE g

\* DeduplicationHandler.onResponseData
DedupData(t, d, chunk, passed, Gets(_, _)) ==
  LET g == [t EXCEPT !.dedup[d].data = @ \/ passed]
      Passed(x, w) == CASE x.wait[w].done -> x
                        [] ~x.wait[w].done /\ x.wait[w].paused -> Buffered(x, w, chunk)
                        [] OTHER -> Gets(x, w)
      PassedAll(x) == FoldLeft(Passed, x, WaitingOn(x, d, passed))
  IN Prune(PassedAll(Gets(g, d)), d)

\* RetryHandler.onResponseData
RetryData(t, u, chunk) ==
  CASE t.retry[u].holds -> [t EXCEPT !.retry[u].held = Append(@, chunk)]
    [] ~t.retry[u].holds /\ t.retry[u].error -> t
    [] OTHER -> DedupData([t EXCEPT !.retry[u].start = @ + 1], u, chunk, DedupNext(t, u),
                          LAMBDA x, w : UserData(x, w, chunk))

WaitingData(t, w, chunk) ==
  IF kind.inside THEN UserData(t, w, chunk) ELSE RetryData(t, w, chunk)

FirstData(t, u, chunk) ==
  DedupData(t, u, chunk, DedupFirst(t, u), LAMBDA x, w : RetryData(x, w, chunk))

RequestData(t, u) ==
  FirstData([t EXCEPT !.req[u].at = @ + 1], u,
            [v |-> t.req[u].answer.v, at |-> t.req[u].at])

----------------------------------------------------------------------------
(* dispatch                                                                 *)

\* RetryHandler.onRequestStart, or that of a user's handler for its controller.
Connected(t, u, target) ==
  LET g == [t EXCEPT !.retry[u].target = target]
  IN IF t.retry[u].paused THEN TargetPause(g, u) ELSE g

\* dispatch of the client
Queued(t, u) ==
  [t EXCEPT !.req[u] = [NoRequest EXCEPT !.phase = "queued"], !.retry[u].attempt = @ + 1]

\* addWaitingHandler, when no part of the body has come.  What a RetryHandler
\* throws is ignored, but it is not added.
AddWaiting(t, d, w) ==
  LET dedup == t.dedup[d]
      throws == ~kind.inside /\ dedup.started /\ Refuses(t.retry[w], dedup.answer)
      joined == Connected([t EXCEPT !.wait[w] = NewWaiting, !.retry[w].attempt = @ + 1],
                          w, "waiting")
      Added(x) == IF x.wait[w].aborted \/ throws THEN x
                  ELSE [x EXCEPT !.dedup[d].waiting = Append(@, w)]
  IN Added(IF dedup.started THEN WaitingHead(joined, w, dedup.answer) ELSE joined)

\* The dispatch of interceptor/deduplicate.js: Next is that of what it wraps.
SameKey(t, u) ==
  {d \in Users : /\ t.dedup[d].live
                 /\ t.dedup[d].range = t.retry[u].range /\ t.dedup[d].match = t.retry[u].match}

DedupDispatch(t, u) ==
  LET d == CHOOSE d \in SameKey(t, u) : TRUE
      own == [t EXCEPT !.dedup[u] = [NoDeduplication EXCEPT !.live = TRUE,
                !.range = t.retry[u].range, !.match = t.retry[u].match]]
  IN CASE SameKey(t, u) = {} -> Queued(own, u)
       [] SameKey(t, u) # {} /\ ~t.dedup[d].data -> AddWaiting(t, d, u)
       [] OTHER -> Queued(t, u)

\* The user's dispatch.
UserDispatch(t, u) ==
  DedupDispatch([t EXCEPT !.retry[u] = NewRetryHandler], u)

\* retry()
Retry(t, u) ==
  LET g == [t EXCEPT !.retry[u] = Resumed(@)]
  IN IF kind.inside THEN Queued(g, u) ELSE DedupDispatch(g, u)

----------------------------------------------------------------------------
(* onResponseEnd                                                            *)

UserEnd(t, u) ==
  LET user == t.user[u]
  IN [t EXCEPT !.user[u].late = @ \/ user.ends > 0, !.user[u].ends = @ + 1,
               !.user[u].intact = @ /\ user.got = LengthOf(user.head)]

\* #flushWaitingHandler
Flush(t, w) ==
  LET Next(x, chunk) ==
        IF x.wait[w].done \/ x.wait[w].paused THEN x
        ELSE WaitingData([x EXCEPT !.wait[w].buffer = Tail(@)], w, chunk)
  IN FoldLeft(Next, t, t.wait[w].buffer)

\* DeduplicationHandler.onResponseEnd
DedupEnd(t, d, passed, Ends(_, _)) ==
  LET g == [t EXCEPT !.dedup[d].live = @ /\ ~passed]
      EndsOne(x, w) ==
        CASE x.wait[w].done -> x
          [] ~x.wait[w].done /\ x.wait[w].paused -> [x EXCEPT !.wait[w].trailers = TRUE]
          [] OTHER -> Ends([x EXCEPT !.wait[w] = Spent(@)], w)
      Ended(x, w) == EndsOne(Flush(x, w), w)
  IN FoldLeft(Ended, Ends(g, d), WaitingOn(t, d, passed))

\* RetryHandler.onResponseEnd.  What it throws comes back as onResponseError,
\* from each of its callers.
RetryEnd(t, u) ==
  LET r == t.retry[u]
      thrown == (r.error /\ kind.throws) \/ (~r.error /\ IsShort(r))
  IN CASE r.holds -> [t EXCEPT !.retry[u].heldEnd = TRUE]
       [] ~r.holds /\ thrown ->
            RetryError(t, u, FALSE, IF r.error THEN "retriable" ELSE "final")
       [] ~r.holds /\ ~thrown /\ r.error -> Retry(t, u)
       [] OTHER -> DedupEnd([t EXCEPT !.retry[u].count = 0], u, DedupNext(t, u), UserEnd)

WaitingEnd(t, w) == IF kind.inside THEN UserEnd(t, w) ELSE RetryEnd(t, w)

FirstEnd(t, u) == DedupEnd(t, u, DedupFirst(t, u), RetryEnd)

RequestEnd(t, u) == FirstEnd([t EXCEPT !.req[u].phase = "over"], u)

----------------------------------------------------------------------------
(* Controllers: resume; the decisions of the policy.                        *)

\* Mutant of WaitingResume: the end that came while it was paused is forgotten.
WaitingResumeNoEnd(t, w) ==
  IF t.wait[w].aborted THEN t ELSE Flush([t EXCEPT !.wait[w].paused = FALSE], w)

\* resume() of a waiting handler
WaitingResume(t, w) ==
  LET Ended(x) ==
        IF x.wait[w].trailers /\ x.wait[w].buffer = <<>> /\ ~x.wait[w].paused
        THEN WaitingEnd([x EXCEPT !.wait[w] = Spent(@)], w)
        ELSE x
  IN IF t.wait[w].aborted THEN t ELSE Ended(Flush([t EXCEPT !.wait[w].paused = FALSE], w))

TargetResume(t, u) ==
  CASE t.retry[u].target = "request" -> [t EXCEPT !.req[u].paused = FALSE]
    [] t.retry[u].target = "waiting" -> WaitingResume(t, u)
    [] OTHER -> t

RetryResume(t, u) == TargetResume([t EXCEPT !.retry[u].paused = FALSE], u)

\* shouldRetry of onResponseError
Decided(t, u, again) ==
  LET g == [t EXCEPT !.retry[u].pending = FALSE]
  IN IF again THEN Retry(g, u) ELSE ErrorNext(g, u)

\* shouldRetry of onResponseStartWithRetry, for the answer of an attempt whose
\* controller is resumed.
DecidedOnResponse(t, u, decision, again) ==
  LET r == t.retry[u]
      g == [t EXCEPT !.retry[u] = [LetGo(@) EXCEPT !.pending = FALSE]]
      decided == CASE again -> [g EXCEPT !.retry[u].error = TRUE]
                   [] ~again /\ r.headersSent -> ErrorNext(g, u)
                   [] OTHER -> PassHead(g, u, decision.answer)
      Resumes(x) == IF decision.attempt = x.retry[u].attempt THEN TargetResume(x, u) ELSE x
      Gets(x, chunk) == RetryData(x, u, chunk)
      ends == r.heldEnd /\ (again \/ ~r.headersSent)
      Ended(x) == IF ~ends THEN x
                  ELSE RetryEnd(FoldLeft(Gets, x, IF again THEN <<>> ELSE r.held), u)
  IN Ended(Resumes(decided))

----------------------------------------------------------------------------
(* The actions: what the client, timers and users do, one at a time.        *)

\* A job, in which users do or do not what they may do in callbacks.
Job(Does(_)) ==
  \E eager \in BOOLEAN : s' = [Does([s EXCEPT !.eager = eager]) EXCEPT !.eager = FALSE]

Same == UNCHANGED <<kind, dispatched, version>>

Dispatch ==
  LET u == dispatched + 1
  IN /\ dispatched < Len(kind.does)
     /\ dispatched' = u
     /\ Job(LAMBDA t : UserDispatch(t, u))
     /\ UNCHANGED <<kind, version>>

\* onRequestStart of a request
Starts(u) ==
  /\ s.req[u].phase = "queued"
  /\ s' = Connected([s EXCEPT !.req[u].phase = "started"], u, "request")
  /\ Same

\* What the server may answer: the resource, an error, and for a range a part,
\* the right one or not.
AnswersTo(r) ==
  {[status |-> 200, v |-> version, from |-> 0]}
    \cup {[status |-> code, v |-> code, from |-> 0] : code \in {404, 503}}
    \cup {[status |-> 206, v |-> version, from |-> n] :
            n \in IF r.range # <<>> /\ r.range[1] < BodyLen THEN {0, r.range[1]} ELSE {}}

Responds(u) ==
  \E answer \in AnswersTo(s.retry[u]) :
    /\ s.req[u].phase = "started"
    /\ Job(LAMBDA t : RequestHead(t, u, answer))
    /\ Same

Reading(u) == s.req[u].phase = "body" /\ ~s.req[u].paused

Rest(t, u) == LengthOf(t.req[u].answer.v) - t.req[u].at

\* The whole of the answer has come, or all there is of a part, of which the
\* server gave a range but no length.
MayEnd(t, u) == Rest(t, u) = 0 \/ (t.req[u].answer.status = 206 /\ kind.length)

Sends(u) ==
  /\ Reading(u) /\ Rest(s, u) > 0
  /\ Job(LAMBDA t : RequestData(t, u))
  /\ Same

Ends(u) ==
  /\ Reading(u) /\ MayEnd(s, u)
  /\ Job(LAMBDA t : RequestEnd(t, u))
  /\ Same

\* The peer closes a connection that is paused: what came is passed on
\* nevertheless, with the end or a failure.
Closes(u) ==
  \E n \in 0..Rest(s, u), ends \in BOOLEAN :
    LET Sent(t, k) == IF t.req[u].phase = "body" THEN RequestData(t, u) ELSE t
        Closed(t) == CASE t.req[u].phase # "body" -> t
                       [] t.req[u].phase = "body" /\ ends -> RequestEnd(t, u)
                       [] OTHER -> RequestError(t, u, "final")
    IN /\ s.req[u].phase = "body" /\ s.req[u].paused
       /\ ends => (n = Rest(s, u) \/ (s.req[u].answer.status = 206 /\ kind.length))
       /\ Job(LAMBDA t : Closed(FoldLeft(Sent, t, [k \in 1..n |-> k])))
       /\ Same

\* The connection fails, or could not be made.
Fails(u) ==
  \E err \in {"retriable", "final"} :
    /\ s.req[u].phase \in {"queued", "started", "body"}
    /\ s' = RequestError(s, u, err)
    /\ Same

\* JoinLate is left out: a retry would join, and no part of the body was passed on.
MayRetry(u) ==
  \/ JoinLate \/ kind.inside \/ ~s.retry[u].headersSent
  \/ s.retry[u].start # 0 \/ SameKey(s, u) = {}

\* The policy decides, in order; one of the user gives up at last.
Decides(u) ==
  \E k \in DOMAIN s.retry[u].asked, again \in BOOLEAN :
    LET decision == s.retry[u].asked[k]
        g == [s EXCEPT !.retry[u].asked = RemoveAt(@, k)]
    IN /\ IF kind.custom THEN again => s.retry[u].count <= MaxRetries ELSE again
       /\ Overlap \/ (k = 1 /\ (Len(s.retry[u].asked) > 1 => again))
       /\ MayRetry(u)
       /\ Job(LAMBDA t :
            LET x == [t EXCEPT !.retry[u].asked = RemoveAt(@, k)]
            IN IF decision.at = "error" THEN Decided(x, u, again)
               ELSE DecidedOnResponse(x, u, decision, again))
  /\ Same

\* The server's resource changes, and its etag.
Changes ==
  /\ kind.etag /\ version = 1 /\ version' = 2
  /\ UNCHANGED <<kind, s, dispatched>>

Held(u) == u <= dispatched /\ s.user[u].ends = 0

Paused(u) == s.retry[u].paused

UserResumes(u) ==
  /\ Held(u) /\ Paused(u)
  /\ Job(LAMBDA t : RetryResume(t, u))
  /\ Same

\* An abort that reports twice: from a controller that is not over, and from a
\* RetryHandler that waits for its policy or has dispatched its retry.
ReportsTwice(u) ==
  LET r == s.retry[u]
  IN \/ r.target = "request" /\ Started(s, u) /\ r.pending
     \/ r.target = "waiting" /\ ~s.wait[u].aborted /\ (s.wait[u].done \/ r.pending)

UserAborts(u) ==
  /\ kind.does[u] = "aborts" /\ Held(u)
  /\ AbortLate \/ ~ReportsTwice(u)
  /\ s' = RetryAbort(s, u)
  /\ Same

----------------------------------------------------------------------------

NewUser == [heads |-> 0, ends |-> 0, head |-> 0, got |-> 0, intact |-> TRUE,
            late |-> FALSE]

Init ==
  /\ kind \in Kinds
  /\ s = [user |-> [u \in Users |-> NewUser], retry |-> [u \in Users |-> NewRetryHandler],
          req |-> [u \in Users |-> NoRequest], wait |-> [u \in Users |-> NewWaiting],
          dedup |-> [u \in Users |-> NoDeduplication], eager |-> FALSE]
  /\ dispatched = 0 /\ version = 1

\* What goes on by itself: the dispatcher and the server of a request that is
\* not paused, the policy, and users, who read on.
Progress ==
  \/ Dispatch
  \/ \E u \in Users : \/ Starts(u) \/ Responds(u) \/ Sends(u) \/ Ends(u)
                      \/ Decides(u) \/ UserResumes(u)

Next ==
  \/ Dispatch
  \/ \E u \in Users : \/ Starts(u) \/ Responds(u) \/ Sends(u) \/ Ends(u)
                      \/ Closes(u) \/ Fails(u) \/ Decides(u) \/ UserResumes(u) \/ UserAborts(u)
  \/ Changes

\* ENABLED <<Progress>>_vars
CanProgress ==
  \/ dispatched < Len(kind.does)
  \/ \E u \in Users : \/ s.req[u].phase \in {"queued", "started"}
                      \/ Reading(u)
                      \/ Held(u) /\ Paused(u)
                      \/ s.retry[u].asked # <<>> /\ MayRetry(u)

Fairness == []<>(~CanProgress) \/ []<><<Progress>>_vars

Spec == Init /\ [][Next]_vars /\ Fairness

----------------------------------------------------------------------------
(* Properties                                                               *)

\* Whatever attempts, retries and other users' requests its bytes came from, a
\* user is given the body of the answer whose head it was given, from its first
\* byte, without a gap or a repetition, and the whole of it before
\* onResponseEnd (retry-handler.js:442, 527, deduplication-handler.js:207).
IntactBody == \A u \in Users : s.user[u].intact

\* A user's handler is given at most one head, one outcome (onResponseEnd or
\* onResponseError), and nothing after it, although the same failure, abort or
\* end may reach it from the policy, the request and the one it waits on
\* (retry-handler.js:573, 624, deduplication-handler.js:249, 295, 371).
OneOutcome ==
  \A u \in Users : s.user[u].heads <= 1 /\ s.user[u].ends <= 1 /\ ~s.user[u].late

\* Every user that dispatched a request is given an outcome, though it may wait
\* on another's, which is paused, aborted, fails or is held for the policy
\* (retry-handler.js:41, 556, deduplication-handler.js:343, 451).
EveryUserAnswered == []<>(\A u \in Users : u <= dispatched => s.user[u].ends > 0)
=============================================================================

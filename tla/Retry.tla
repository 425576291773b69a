------------------------------- MODULE Retry -------------------------------
(***************************************************************************)
(* What a RetryHandler (lib/handler/retry-handler.js) remembers of one     *)
(* response that may take several attempts, and how it judges an answer:   *)
(* the default retry policy, the checks of a resumed body, the checks at   *)
(* its end.  How the handler is called is in Responses.                    *)
(*                                                                         *)
(* A body is counted in chunks of one position.  An answer has a status,   *)
(* what it is a representation of ("v", which a strong etag names), and    *)
(* the position it starts from.                                            *)
(***************************************************************************)
EXTENDS Integers, Sequences, FiniteSets

CONSTANTS
  BodyLen,     \* the length of the resource
  MaxRetries   \* the maxRetries option

ASSUME BodyAssumption == BodyLen \in Nat \ {0}
ASSUME RetriesAssumption == MaxRetries \in Nat

\* 404 stands for a status that is not retried, 503 for one that is; the body
\* of such an answer is a page of one chunk.
Statuses == {200, 206, 404, 503}
Versions == {1, 2}
Answers == [status : Statuses, v : Versions \cup {404, 503}, from : 0..BodyLen]

IsPage(v) == v \in {404, 503}
LengthOf(v) == IF IsPage(v) THEN 1 ELSE BodyLen

\* A "retriable" error is one of errorCodes or a RequestRetryError with one of
\* statusCodes; any other is "final".
ErrorOf(status) == IF status = 503 THEN "retriable" ELSE "final"

\* count, checkpoint: retryCount, retryCountCheckpoint.  end: -1 when the length
\* is not known.  etag: the representation, 0 for none.  error: this.error is
\* set.  asked: the calls of the policy that wait for its decision, with the
\* attempt and the answer in the closure of the callback.  held, heldEnd:
\* pendingResponseData while holds, pendingResponseEnded.  paused, target: of
\* the RetryController, whose target is the controller of a request or of a
\* waiting handler.  attempt: how many there were.  range, match: the headers
\* that retry() sets, <<>> and 0 for none.
Decisions == [at : {"error", "response"}, attempt : Nat, answer : Answers]
Chunks == [v : Versions \cup {404, 503}, at : Nat]
RetryHandlers ==
  [count : Nat, checkpoint : Nat, headersSent : BOOLEAN, start : Nat, end : Int,
   etag : Nat, error : BOOLEAN, resume : BOOLEAN, pending : BOOLEAN,
   asked : Seq(Decisions), holds : BOOLEAN, held : Seq(Chunks), heldEnd : BOOLEAN,
   aborted : BOOLEAN, paused : BOOLEAN, target : {"none", "request", "waiting"},
   attempt : Nat, range : Seq(Int), match : Nat]

NoAnswer == [status |-> 404, v |-> 404, from |-> 0]

NewRetryHandler ==
  [count |-> 0, checkpoint |-> 0, headersSent |-> FALSE, start |-> 0, end |-> -1,
   etag |-> 0, error |-> FALSE, resume |-> FALSE, pending |-> FALSE, asked |-> <<>>,
   holds |-> FALSE, held |-> <<>>, heldEnd |-> FALSE, aborted |-> FALSE,
   paused |-> FALSE, target |-> "none", attempt |-> 0, range |-> <<>>, match |-> 0]

\* The default policy starts a timer, or passes the error on.
Retries(err, counter) == err = "retriable" /\ counter <= MaxRetries

\* The retry count after an attempt failed with an error.
CountAfterError(r) == IF r.count > r.checkpoint THEN r.count ELSE r.count + 1

\* The first lines of onResponseStart.
Counted(r) == [r EXCEPT !.error = FALSE, !.count = @ + 1]


\* onResponseStart throws: part of a response was passed on, and the answer is
\* not a part of the same that continues it.  Only a 206 has a content-range.
Refuses(r, a) ==
  /\ r.headersSent
  /\ \/ a.status # 206
     \/ r.etag # 0 /\ r.etag # a.v
     \/ r.start # a.from
     \/ r.end # -1 /\ r.end # BodyLen - 1

\* The first answer to be passed on, with or without an etag and a length.  A
\* page is not given an etag, and is resumed only if its length is known.
Accepted(r, a, hasEtag, hasLength) ==
  LET end == IF hasLength THEN LengthOf(a.v) - 1 ELSE -1
  IN [r EXCEPT !.headersSent = TRUE, !.end = end,
               !.resume = ~IsPage(a.v) \/ hasLength,
               !.etag = IF hasEtag /\ ~IsPage(a.v) THEN a.v ELSE 0]

\* onResponseEnd finds that the body it passed on is not whole.
IsShort(r) == r.end # -1 /\ r.start # r.end + 1

\* What retry() sends.
Resumed(r) ==
  [r EXCEPT !.checkpoint = r.count,
            !.range = IF r.start # 0 THEN <<r.start, r.end>> ELSE @,
            !.match = IF r.start # 0 THEN r.etag ELSE @]

\* A response is held, or no longer.
Hold(r) == [r EXCEPT !.holds = TRUE, !.held = <<>>, !.heldEnd = FALSE]
LetGo(r) == [r EXCEPT !.holds = FALSE, !.held = <<>>, !.heldEnd = FALSE]

\* The policy is asked, and will decide later.
Asked(r, at, answer) ==
  [r EXCEPT !.pending = TRUE,
            !.asked = Append(@, [at |-> at, attempt |-> r.attempt, answer |-> answer])]

\* Mutant of GivenUp: the timer is not cleared.
GivenUpUncleared(r) == [LetGo(r) EXCEPT !.aborted = TRUE, !.pending = FALSE]

\* onAbort while the policy has yet to decide.
GivenUp(r) == [LetGo(r) EXCEPT !.aborted = TRUE, !.pending = FALSE, !.asked = <<>>]

=============================================================================

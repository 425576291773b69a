------------------------------- MODULE Fetch -------------------------------
(***************************************************************************)
(* One call of fetch() (lib/web/fetch/index.js): the chain of awaits from  *)
(* mainFetch to httpNetworkFetch and back, which follows redirects and     *)
(* repeats after a 421; the controller the hops share; the web stream that *)
(* pulls the body of the last one; the signal, the reader, and a request   *)
(* body that fails.  The dispatcher and node:stream are external.          *)
(***************************************************************************)
EXTENDS Integers, Sequences, FiniteSets

CONSTANTS
  Kinds,         \* the options of fetch(), see KindSet
  Statuses,      \* what a server may answer, see Redirects
  MaxChunks,     \* chunks of a response's body
  RedirectLimit, \* 20 in the code
  ErrorWithHead, \* a response fails in the job that brought its head
  AbortWithHead, \* the signal is aborted between that job and its microtasks
  LateBare,      \* a redirect without Location may follow another redirect
  LongRefusal    \* a response that is refused unread is larger than a buffer

\* What a body is made of; only one with a source can be sent again.
Inits == {"null", "string", "URLSearchParams", "BufferSource", "FormData", "Blob",
          "ReadableStream", "asyncIterable"}

ExtractBody == [init \in Inits |->
  CASE init = "null" -> "none"
    [] init \in {"ReadableStream", "asyncIterable"} -> "stream"
    [] OTHER -> "source"]

\* The requests that the constructor of Request makes.
KindSet ==
  [redirect : {"follow", "error", "manual"},
   body : {ExtractBody[init] : init \in Inits}, integrity : BOOLEAN]

ASSUME KindAssumption == Kinds \subseteq KindSet

\* "none" is the status of a hop that was not answered.
ASSUME StatusAssumption == "none" \notin Statuses

ASSUME FetchAssumption ==
  /\ MaxChunks \in Nat /\ RedirectLimit \in Nat
  /\ {ErrorWithHead, AbortWithHead, LateBare, LongRefusal} \subseteq BOOLEAN

VARIABLES
  kind,     \* the member of Kinds this fetch is
  at,       \* where the chain of awaits is
  request,  \* what redirects change of the request
  ctl,      \* class Fetch with its connection, and timingInfo
  hops,     \* the requests that were dispatched, in order
  response, \* what the chain returns
  user      \* the promise, the signal and the reader

vars == <<kind, at, request, ctl, hops, response, user>>

\* 301 and 302, 303, 307 and 308, and any of them without a Location.
Redirects == {"found", "see other", "temporary", "bare"}

\* A 407, and too many content-encodings: an error, and the body is not read.
Refused == {"proxy", "encoded"}

Hop(again) ==
  [st |-> "queued", promise |-> "pending", status |-> "none", again |-> again,
   aborted |-> FALSE, sent |-> 0, body |-> "none", chunks |-> 0,
   paused |-> FALSE, stream |-> "none"]

NoResponse == [type |-> "none", hop |-> 0]
NetworkError == [type |-> "error", hop |-> 0]

Init ==
  /\ kind \in Kinds
  /\ at = "start"
  /\ request = [body |-> kind.body, redirects |-> 0, cors |-> FALSE]
  /\ ctl = [state |-> "ongoing", hop |-> 0, destroyed |-> FALSE, armed |-> FALSE,
            onAborted |-> 0, stream |-> 0, dump |-> FALSE, ended |-> FALSE,
            encoded |-> FALSE]
  /\ hops = <<>>
  /\ response = NoResponse
  /\ user = [promise |-> "pending", aborted |-> FALSE, cancelled |-> FALSE,
             reading |-> FALSE, got |-> 0]

HeadCame == at = "await" /\ hops[ctl.hop].promise = "head"

\* The chain of awaits goes on in microtasks, before any other job.
Microtasks ==
  \/ at \in {"check", "main", "answer"}
  \/ at = "await" /\ hops[ctl.hop].promise # "pending"

IsCancelled == ctl.state # "ongoing"

\* The web stream of the response, as the user or bytesMatch() reads it.
Stream == IF response.hop = 0 THEN "none" ELSE hops[response.hop].stream

(***************************************************************************)
(* Giving up.  controller.abort() of a request that has no outcome calls   *)
(* onResponseError at once, which destroys the body and rejects dispatch().*)
(***************************************************************************)
Destroyed(body) == IF body = "none" THEN "none" ELSE "failed"

Rejected(promise) == IF promise = "pending" THEN "error" ELSE promise

Failed(h) ==
  [h EXCEPT !.st = "failed", !.chunks = 0, !.body = Destroyed(@),
            !.promise = Rejected(@)]

Abort(h) ==
  [IF h.st \in {"queued", "running"} THEN Failed(h) ELSE h
     EXCEPT !.aborted = TRUE]

\* connection.destroy(): before onRequestStart there is nothing to abort yet.
Destroy(hs) ==
  IF ctl.armed /\ ~ctl.destroyed /\ ~hs[ctl.hop].aborted
  THEN [hs EXCEPT ![ctl.hop] = Abort(@)]
  ELSE hs

OnAbortedOfFirst(hs) ==
  IF ctl.onAborted # 0 /\ hs[ctl.onAborted].stream = "readable"
  THEN [hs EXCEPT ![ctl.onAborted].stream = "errored"]
  ELSE hs

\* The listener of 'terminated' looks at the stream of the hop that registered
\* it, and errors the newest one.
OnAborted(hs) ==
  IF ctl.onAborted # 0 /\ hs[ctl.onAborted].stream = "readable"
       /\ hs[ctl.stream].stream = "readable"
  THEN [hs EXCEPT ![ctl.stream].stream = "errored"]
  ELSE hs

\* terminate() and abort() of the controller; only the first one acts.
Stop(state, hs) ==
  IF IsCancelled THEN hops' = hs /\ UNCHANGED ctl
  ELSE /\ ctl' = [ctl EXCEPT !.state = state, !.destroyed = TRUE]
       /\ hops' = OnAborted(Destroy(hs))

(***************************************************************************)
(* The chain of awaits.                                                    *)
(***************************************************************************)
\* What is kept of a hop that is over: whether its stream is readable.
Past(h) ==
  IF h.st \in {"ended", "failed"}
  THEN [Hop(FALSE) EXCEPT !.st = "ended", !.stream = h.stream] ELSE h

\* httpNetworkFetch up to its await; assert(connection.destroyed) is part of
\* ExchangesGivenUp.
Dispatch(hs, again) ==
  /\ hops' = Append([i \in DOMAIN hs |-> Past(hs[i])], Hop(again))
  /\ ctl' = [ctl EXCEPT !.hop = Len(hs) + 1, !.destroyed = FALSE, !.armed = FALSE]
  /\ at' = "await"
  /\ response' = NoResponse

Start ==
  /\ at = "start"
  /\ Dispatch(<<>>, FALSE)
  /\ UNCHANGED <<kind, request, user>>

Return(r) == at' = "main" /\ response' = r

\* The rest of httpNetworkFetch: a stream for the body, and onAborted once.
NetworkFetch ==
  LET h == ctl.hop
  IN  /\ at = "await" /\ hops[h].promise = "head"
      /\ hops' = [hops EXCEPT ![h].stream = "readable"]
      /\ ctl' = [ctl EXCEPT !.stream = h,
                            !.onAborted = IF @ = 0 THEN h ELSE @]
      /\ response' = [type |-> "default", hop |-> h]
      /\ at' = "check"
      /\ UNCHANGED <<kind, request, user>>

\* Whoever rejected dispatch() has destroyed the connection, unless it was
\* onResponseStart itself.
NetworkFetchFails ==
  /\ at = "await" /\ hops[ctl.hop].promise = "error"
  /\ Return(NetworkError)
  /\ UNCHANGED <<kind, request, ctl, hops, user>>

\* httpNetworkOrCacheFetch tries a 421 once more, if it still has the body.
TriesAgain(h) ==
  h.status = "misdirected" /\ ~h.again /\ request.body # "stream"

Repeat ==
  /\ at = "check" /\ TriesAgain(hops[ctl.hop])
  /\ IF IsCancelled
     THEN Return(NetworkError) /\ UNCHANGED <<ctl, hops>>
     ELSE Dispatch(Destroy(hops), TRUE)
  /\ UNCHANGED <<kind, request, user>>

\* A 407 is an error; its connection is left as it is.
ProxyAuthentication ==
  /\ at = "check" /\ hops[ctl.hop].status = "proxy"
  /\ Return(NetworkError)
  /\ UNCHANGED <<kind, request, ctl, hops, user>>

Proceed ==
  /\ at = "check"
  /\ LET h == hops[ctl.hop]
     IN  /\ ~TriesAgain(h) /\ h.status # "proxy"
         /\ h.status \in Redirects => kind.redirect = "manual"
  /\ Return(response)
  /\ UNCHANGED <<kind, request, ctl, hops, user>>

\* The errors of httpFetch and httpRedirectFetch.
RedirectRefused(status) ==
  \/ kind.redirect = "error"
  \/ status # "bare" /\ \/ request.redirects = RedirectLimit
                        \/ status # "see other" /\ request.body = "stream"

\* The request after a redirect; cross: to another origin.
Redirected(status, cross) ==
  [body |-> IF status \in {"found", "see other"} THEN "none" ELSE request.body,
   redirects |-> request.redirects + 1,
   cors |-> request.cors \/ cross]

\* httpFetch gives up the connection of a redirect and follows it with a
\* recursive mainFetch; only schemeFetch, of the same origin, asks isCancelled.
Redirect ==
  /\ at = "check" /\ kind.redirect # "manual"
  /\ LET status == hops[ctl.hop].status
     IN  /\ status \in Redirects
         /\ \/ /\ RedirectRefused(status)
               /\ Return(NetworkError)
               /\ hops' = Destroy(hops)
               /\ ctl' = [ctl EXCEPT !.destroyed = TRUE]
               /\ UNCHANGED request
            \/ /\ ~RedirectRefused(status) /\ status = "bare"
               /\ Return(response)
               /\ hops' = Destroy(hops)
               /\ ctl' = [ctl EXCEPT !.destroyed = TRUE]
               /\ UNCHANGED request
            \/ /\ ~RedirectRefused(status) /\ status # "bare"
               /\ \E cross \in BOOLEAN : request' = Redirected(status, cross)
               /\ IF IsCancelled /\ ~request'.cors
                  THEN /\ Return(NetworkError)
                       /\ hops' = Destroy(hops)
                       /\ ctl' = [ctl EXCEPT !.destroyed = TRUE]
                  ELSE Dispatch(Destroy(hops), FALSE)
  /\ UNCHANGED <<kind, user>>

\* The end of mainFetch: a response without a body is dumped, one with
\* integrity metadata is read before anybody sees it.
MainFetch ==
  /\ at = "main"
  /\ LET empty == response.type = "default" /\ hops[response.hop].status = "empty"
     IN  /\ ctl' = [ctl EXCEPT !.dump = @ \/ empty]
         /\ \/ /\ kind.integrity /\ (empty \/ response.type = "error")
               /\ at' = "answer" /\ response' = NetworkError
            \/ /\ kind.integrity /\ ~empty /\ response.type = "default"
               /\ at' = "verify" /\ UNCHANGED response
            \/ /\ ~kind.integrity
               /\ at' = "answer"
               /\ response' = IF empty THEN [type |-> "default", hop |-> 0]
                                       ELSE response
  /\ UNCHANGED <<kind, request, hops, user>>

\* fullyReadBody() ended: bytesMatch() or not, or it failed.  The bytes that
\* matched are the body, which the network cannot disturb any more.
Verify ==
  /\ at = "verify" /\ Stream \in {"closed", "errored"}
  /\ at' = "answer"
  /\ \/ response' = NetworkError
     \/ Stream = "closed" /\ response' = [type |-> "default", hop |-> 0]
  /\ UNCHANGED <<kind, request, ctl, hops, user>>

ProcessResponse ==
  /\ at = "answer"
  /\ at' = "done"
  /\ user' = [user EXCEPT !.promise =
                IF user.aborted THEN @
                ELSE IF response.type = "error" THEN "rejected" ELSE "resolved"]
  /\ UNCHANGED <<kind, request, ctl, hops, response>>

(***************************************************************************)
(* Pulling the body: controller.resume, which awaits the iterator of the   *)
(* hop's Readable and gives one chunk to the read that is waiting.         *)
(***************************************************************************)
Pulls == user.reading /\ Stream = "readable"

PullChunkOnly ==
  /\ Pulls /\ hops[ctl.stream].chunks > 0
  /\ hops' = [hops EXCEPT ![ctl.stream].chunks = @ - 1]
  /\ user' = [user EXCEPT !.got = @ + 1, !.reading = FALSE]
  /\ UNCHANGED <<kind, at, request, ctl, response>>

\* Taking a chunk makes room: read() resumes the response when little is left.
PullChunk ==
  /\ Pulls /\ hops[ctl.stream].chunks > 0
  /\ LET left == hops[ctl.stream].chunks - 1
     IN  \E paused \in IF left = 0 THEN {FALSE} ELSE {FALSE, hops[ctl.stream].paused} :
           hops' = [hops EXCEPT ![ctl.stream].chunks = left,
                                ![ctl.stream].paused = paused]
  /\ user' = [user EXCEPT !.got = @ + 1, !.reading = FALSE]
  /\ UNCHANGED <<kind, at, request, ctl, response>>

Close(hs) == [hs EXCEPT ![ctl.stream].stream = "closed"]

PullEnd ==
  /\ Pulls /\ hops[ctl.stream].chunks = 0 /\ hops[ctl.stream].body = "eof"
  /\ hops' = Close(hops)
  /\ UNCHANGED <<kind, at, request, ctl, response, user>>

CountsAsEndEither == ctl.ended \/ ~ctl.encoded

\* An empty compressed body fails in zlib and counts as its end.
CountsAsEnd == ctl.ended /\ ~ctl.encoded

PullFails ==
  /\ Pulls /\ hops[ctl.stream].body = "failed"
  /\ IF CountsAsEnd
     THEN hops' = Close(hops) /\ UNCHANGED ctl
     ELSE Stop("terminated", hops)
  /\ UNCHANGED <<kind, at, request, response, user>>

(***************************************************************************)
(* The user: reads, cancels, aborts.                                       *)
(***************************************************************************)
HasBody == at = "done" /\ user.promise = "resolved" /\ Stream = "readable"

Read ==
  /\ HasBody \/ at = "verify"
  /\ Stream = "readable" /\ ~user.reading
  /\ user' = [user EXCEPT !.reading = TRUE]
  /\ UNCHANGED <<kind, at, request, ctl, hops, response>>

\* cancel() closes the stream, then asks cancelAlgorithm.
Cancel ==
  /\ HasBody
  /\ user' = [user EXCEPT !.cancelled = TRUE]
  /\ Stop("aborted", Close(hops))
  /\ UNCHANGED <<kind, at, request, response>>

\* The abort steps of fetch(), until they are cleaned up: abort the controller,
\* reject the promise or error the body.
AbortFetch(hs) ==
  IF HasBody /\ hs[response.hop].stream = "readable"
  THEN [hs EXCEPT ![ctl.stream].stream = "errored"] ELSE hs

SignalAborts ==
  /\ at # "start" /\ ~user.aborted
  /\ user.promise = "pending" \/ HasBody
  /\ Microtasks => AbortWithHead \/ at = "answer"
  /\ user' = [user EXCEPT !.aborted = TRUE, !.promise =
                IF @ = "pending" THEN "rejected" ELSE @]
  /\ IF IsCancelled
     THEN hops' = AbortFetch(hops) /\ UNCHANGED ctl
     ELSE Stop("aborted", hops)
  /\ UNCHANGED <<kind, at, request, response>>

(***************************************************************************)
(* The dispatcher and its calls of the handler.                            *)
(***************************************************************************)
Change(h, hop) == hops' = [hops EXCEPT ![h] = hop]

OnRequestStartAnyway(h) ==
  /\ hops[h].st = "queued" /\ ~Microtasks
  /\ Change(h, [hops[h] EXCEPT !.st = "running"])
  /\ ctl' = [ctl EXCEPT !.armed = TRUE]
  /\ UNCHANGED <<kind, at, request, response, user>>

\* onRequestStart looks whether the fetch has given up meanwhile.
OnRequestStart(h) ==
  /\ hops[h].st = "queued" /\ ~Microtasks
  /\ IF ctl.destroyed
     THEN Change(h, Abort(hops[h])) /\ UNCHANGED ctl
     ELSE /\ Change(h, [hops[h] EXCEPT !.st = "running"])
          /\ ctl' = [ctl EXCEPT !.armed = TRUE]
  /\ UNCHANGED <<kind, at, request, response, user>>

\* The connection was lost before the head and the request is sent again.
Requeue(h) ==
  /\ hops[h].st = "running" /\ hops[h].status = "none" /\ ~Microtasks
  /\ Change(h, [hops[h] EXCEPT !.st = "queued"])
  /\ UNCHANGED <<kind, at, request, ctl, response, user>>

OnResponseStart(h, status) ==
  /\ hops[h].st = "running" /\ hops[h].status = "none" /\ ~Microtasks
  /\ status = "bare" => h = 1 \/ LateBare
  /\ Change(h, [hops[h] EXCEPT !.status = status, !.body = "open",
                               !.promise = IF status = "encoded" THEN "error"
                                                                 ELSE "head"])
  /\ UNCHANGED <<kind, at, request, ctl, response, user>>

\* Data and the end may come in the job that brought the head.
Receives(h) ==
  hops[h].st = "running" /\ hops[h].status # "none" /\ (HeadCame \/ ~Microtasks)

OnResponseData(h) ==
  /\ Receives(h) /\ ~hops[h].paused
  /\ hops[h].sent < MaxChunks /\ hops[h].status # "empty"
  /\ \E full \in BOOLEAN :
       /\ full /\ hops[h].status \in Refused => LongRefusal
       /\ Change(h, [hops[h] EXCEPT !.sent = @ + 1, !.chunks = @ + 1,
                                    !.paused = full])
  /\ ctl' = [ctl EXCEPT !.encoded = TRUE]
  /\ UNCHANGED <<kind, at, request, response, user>>

OnResponseEnd(h) ==
  /\ Receives(h) /\ ~hops[h].paused
  /\ Change(h, [hops[h] EXCEPT !.st = "ended", !.body = "eof"])
  /\ ctl' = [ctl EXCEPT !.ended = TRUE]
  /\ UNCHANGED <<kind, at, request, response, user>>

OnResponseError(h) ==
  /\ hops[h].st \in {"queued", "running"}
  /\ ~Microtasks \/ (ErrorWithHead /\ HeadCame)
  /\ Stop("terminated", [hops EXCEPT ![h] = Failed(@)])
  /\ UNCHANGED <<kind, at, request, response, user>>

\* pipeline() reports an error of zlib to onResponseError as well, also when
\* the response itself is complete.
DecodeFails(h) ==
  /\ hops[h].body \in {"open", "eof"} /\ hops[h].chunks > 0 /\ ~Microtasks
  /\ Stop("terminated",
          [hops EXCEPT ![h].body = "failed", ![h].chunks = 0])
  /\ UNCHANGED <<kind, at, request, response, user>>

\* processBodyError: reading the request's body fails while it is sent.
RequestBodyFails(h) ==
  /\ hops[h].st = "running" /\ request.body # "none" /\ h = ctl.hop
  /\ ~Microtasks /\ ~IsCancelled
  /\ \E state \in {"aborted", "terminated"} : Stop(state, hops)
  /\ UNCHANGED <<kind, at, request, response, user>>

Chain ==
  \/ Start \/ NetworkFetch \/ NetworkFetchFails \/ Repeat \/ ProxyAuthentication
  \/ Proceed \/ Redirect \/ MainFetch \/ Verify \/ ProcessResponse

Pull == PullChunk \/ PullEnd \/ PullFails

Next ==
  \/ Chain \/ Pull \/ Read \/ Cancel \/ SignalAborts
  \/ \E h \in DOMAIN hops :
       \/ OnRequestStart(h) \/ Requeue(h) \/ OnResponseData(h) \/ OnResponseEnd(h)
       \/ OnResponseError(h) \/ DecodeFails(h) \/ RequestBodyFails(h)
       \/ \E status \in Statuses : OnResponseStart(h, status)

\* The chain runs on, a request is started and answered however often it is
\* requeued, a response that is not paused ends, and who has a body reads on.
Fairness ==
  /\ WF_vars(Chain) /\ WF_vars(Pull) /\ WF_vars(Read)
  /\ SF_vars(\E h \in DOMAIN hops :
       \/ OnRequestStart(h) /\ hops'[h].st = "failed"
       \/ OnResponseError(h) /\ hops[h].status = "none"
       \/ \E status \in Statuses : OnResponseStart(h, status))
  /\ WF_vars(\E h \in DOMAIN hops : OnRequestStart(h))
  /\ WF_vars(\E h \in DOMAIN hops : OnResponseData(h) \/ OnResponseEnd(h))

Spec == Init /\ [][Next]_vars /\ Fairness

(***************************************************************************)
(* Properties.                                                             *)
(***************************************************************************)
\* A body that the reader sees end is the whole body of the last response,
\* also behind redirects, pauses and failures; and so is one that bytesMatch
\* was asked about.  And a fetch that was terminated or aborted leaves no reader
\* waiting: "if stream is readable, error stream" (onAborted).
BodyIsHonest ==
  /\ Stream = "closed" /\ ~user.cancelled =>
       LET h == hops[response.hop]
       IN  h.st = "ended" /\ user.got = h.sent
  /\ IsCancelled /\ ~Microtasks => Stream # "readable"

\* At most one request of a fetch is under way: each begins when the one before
\* has ended or was given up, as the assertion in httpNetworkFetch says.  Once
\* the user has aborted nothing new is sent, and what was sent is given up at
\* once or, if it has not begun, when it begins.
GivenUp(h) == h.st \in {"ended", "failed"} \/ (h.st = "queued" /\ ctl.destroyed)
ExchangesGivenUp ==
  /\ [](\A h \in DOMAIN hops : h < Len(hops) => hops[h].st \in {"ended", "failed"})
  /\ [](user.aborted => \A h \in DOMAIN hops : GivenUp(hops[h]))
  /\ [][user.aborted => Len(hops') = Len(hops)]_vars

\* The promise settles, the body comes to an end, and no exchange is left open
\* that would hold its connection for ever.
FetchEnds ==
  <>[](/\ user.promise # "pending" /\ Stream # "readable"
       /\ \A h \in DOMAIN hops : hops[h].st \in {"ended", "failed"})
=============================================================================

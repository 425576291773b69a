------------------------------ MODULE Exchange ------------------------------
(***************************************************************************)
(* One request over one HTTP/1.1 connection, between a user and a server:  *)
(* the handlers of request(), stream(), pipeline(), upgrade() and connect()*)
(* (lib/api), what core/request.js does between them and the connection,   *)
(* the body of the response (Body), and the writer of a request body that  *)
(* is a stream or an iterable (lib/dispatcher/client-h1.js).  External: the sockets and streams of    *)
(* Node.js, the user's own streams, and when the dispatcher starts.        *)
(***************************************************************************)
EXTENDS Body

CONSTANTS
  Kinds,     \* records [api, promise, read, upload, iterable, strict, signal], see MCExchange
  MaxChunks, \* chunks of the response, and of the request's body
  LateError  \* the body that stream() sends fails after the response's head

ASSUME ExchangeAssumption == MaxChunks \in Nat /\ LateError \in BOOLEAN

VARIABLES
  kind, \* the member of Kinds this request is
  s     \* everything else, see Init: a handler calls into all of it

vars == <<kind, s>>

Whole(n) == [i \in 1..n |-> i]

\* The chunks of the request's body, and those its content-length allows.
Uploads == kind.upload # "none"
Declared ==
  CASE kind.upload = "short" -> MaxChunks + 1
    [] kind.upload = "long" -> MaxChunks - 1
    [] OTHER -> MaxChunks

\* The fields of a handler: callback, res, abort, reason, and its listener.
NewHandler ==
  [callback |-> TRUE, res |-> FALSE, abort |-> FALSE,
   reason |-> kind.signal = "aborted", listening |-> kind.signal = "live"]

NewRequest ==
  [st |-> "queued", given |-> 0, paused |-> FALSE, error |-> FALSE, ctl |-> "none",
   again |-> FALSE]

\* The Writable that stream() is given.
NewSink ==
  [st |-> "none", buf |-> 0, got |-> 0, full |-> FALSE, err |-> FALSE, done |-> FALSE]

\* The Duplex pipeline() returns, and the inner stream, PipelineResponse.
NewPipe ==
  [st |-> IF kind.api = "pipeline" THEN "open" ELSE "none", res |-> "none",
   inner |-> 0, held |-> FALSE, buf |-> 0, got |-> 0, ended |-> FALSE,
   written |-> 0, pending |-> FALSE]

Init ==
  /\ kind \in Kinds
  /\ s = [req |-> NewRequest, h |-> NewHandler, signal |-> kind.signal,
          res |-> NewBody, sink |-> NewSink, pipe |-> NewPipe,
          src |-> [st |-> "idle", at |-> 0, paused |-> FALSE, err |-> FALSE],
          writer |-> [st |-> "none", wrote |-> 0, ended |-> FALSE],
          sock |-> [st |-> "open", writing |-> FALSE, reset |-> FALSE, full |-> FALSE],
          ticks |-> <<>>, micros |-> <<>>, inMicros |-> FALSE,
          outcome |-> <<>>]

Tick(x, job) == [x EXCEPT !.ticks = Append(@, job)]
Microtask(x, job) == [x EXCEPT !.micros = Append(@, job)]

\* The event loop runs every tick and microtask before the next event.
AtRest == s.ticks = <<>> /\ s.micros = <<>>

(***************************************************************************)
(* Failing.                                                                *)
(***************************************************************************)
\* util.destroy() of the request's body: 'error' and 'close' in a tick.  That of
\* a pipeline() lets go of a write that waits; an iterable is no stream.
DestroySource(x, err) ==
  IF ~Uploads \/ kind.iterable \/ x.src.st \in {"destroyed", "closed"} THEN x
  ELSE Tick([x EXCEPT !.src.st = "destroyed", !.src.err = err,
                      !.pipe.pending = FALSE], "source")

DestroySocket(x) ==
  IF x.sock.st = "open" THEN [x EXCEPT !.sock.st = "destroyed"] ELSE x

\* util.destroy() of the Writable a factory returned.
DestroySink(x, err) ==
  IF x.sink.st \in {"none", "destroyed", "closed"} THEN x
  ELSE Tick([x EXCEPT !.sink.st = "destroyed", !.sink.err = err], "sink")

\* A callback that is called in a microtask is taken at once.
FailCallback(x) ==
  IF x.h.callback THEN Microtask([x EXCEPT !.h.callback = FALSE], "callback") ELSE x

\* destroy() of the Duplex of pipeline(): what it was joined to goes with it.
PipeGone(x, err) ==
  IF x.pipe.st # "open" THEN x
  ELSE Tick(DestroySource([x EXCEPT !.pipe.st = IF err THEN "failed" ELSE "destroyed",
                                    !.pipe.res = "destroyed",
                                    !.h.listening = FALSE], err), "pipeClose")

\* onResponseError of request().  After the head the listener of the signal goes
\* with the 'close' of the body that the request resolved with.
RequestError(x) ==
  LET a == FailCallback(x)
      b == IF a.h.res THEN Microtask([a EXCEPT !.h.res = FALSE], "destroy") ELSE a
  IN  DestroySource([b EXCEPT !.h.listening = @ /\ b.outcome = <<"response">>], TRUE)

\* onResponseError of stream(): its Writable reports the error, if it has one.
StreamError(x) ==
  LET a == [x EXCEPT !.h.listening = FALSE]
  IN  DestroySource(IF a.h.res THEN DestroySink([a EXCEPT !.h.res = FALSE], TRUE)
                    ELSE FailCallback(a), TRUE)

UpgradeError(x) == FailCallback([x EXCEPT !.h.listening = FALSE])
ConnectError(x) == FailCallback([x EXCEPT !.h.listening = FALSE])

HandlerError(x) ==
  CASE kind.api = "request" -> RequestError(x)
    [] kind.api = "stream" -> StreamError(x)
    [] kind.api = "pipeline" -> PipeGone(x, TRUE)
    [] kind.api = "upgrade" -> UpgradeError(x)
    [] kind.api = "connect" -> ConnectError(x)

\* Request.onResponseError.
ErrorRequest(x) ==
  IF x.req.st = "failed" THEN x
  ELSE HandlerError([x EXCEPT !.req.st = "failed"])

\* The abort closure of writeH1.
AbortRequest(x) ==
  IF x.req.st \in {"failed", "ended"} THEN x
  ELSE DestroySocket(DestroySource(ErrorRequest(x), FALSE))

\* RequestController.abort().
ControllerAbort(x) ==
  IF x.req.ctl = "aborted" THEN x
  ELSE AbortRequest([x EXCEPT !.req.ctl = "aborted"])

\* What an operation on the body owes: jobs, and calls of the controller.
Settle(x, b) ==
  LET Job(y, job) == IF job = "consume" THEN Microtask(y, job) ELSE Tick(y, job)
      a == FoldLeft(Job, [x EXCEPT !.res = [b EXCEPT !.owes = <<>>, !.gives = "none"]],
                    b.owes)
  IN  CASE b.gives = "abort" -> ControllerAbort(a)
        [] b.gives = "resume" -> [a EXCEPT !.req.paused = FALSE]
        [] OTHER -> a

DestroyBody(x) == Settle(x, Destroy(x.res, TRUE))

\* destroy() by its user or by autoDestroy, which gives the request up unless
\* the response has been read to its end.
DestroyPipe(x) ==
  LET err == x.outcome = <<>>
      a == PipeGone(x, err)
  IN  IF err /\ x.pipe.st = "open" /\ x.h.abort THEN ControllerAbort(a) ELSE a

\* A signal aborts: what the handler knows of the request by then decides.
SignalOfRequest(x) ==
  LET a == [x EXCEPT !.h.reason = TRUE]
  IN  IF x.h.res THEN DestroyBody([a EXCEPT !.h.res = FALSE])
      ELSE IF x.h.abort THEN ControllerAbort(a) ELSE a

\* abort-signal.js, for the other handlers: abort and removeSignal.
SignalOfOthers(x) ==
  LET a == [x EXCEPT !.h.listening = FALSE]
  IN  IF x.h.abort THEN ControllerAbort(a) ELSE [a EXCEPT !.h.reason = TRUE]

SignalAborted(x) ==
  LET a == [x EXCEPT !.signal = "aborted"]
  IN  IF ~x.h.listening THEN a
      ELSE IF kind.api = "request" THEN SignalOfRequest(a) ELSE SignalOfOthers(a)

(***************************************************************************)
(* The writer of the request's body: AsyncWriter and writeStream.          *)
(***************************************************************************)
\* Mutant of EndBody: a body that was too short leaves the socket in use.
EndBodyReused(x) ==
  [x EXCEPT !.sock.writing = FALSE, !.writer.ended = x.sock.st = "open"]

\* AsyncWriter.end(): it throws when strict and the length is not the declared
\* one; when not strict the socket is not used again.
Short(x) == kind.upload # "chunked" /\ x.writer.wrote # Declared
EndThrows(x) == x.sock.st = "open" /\ kind.strict /\ Short(x)
EndBody(x) ==
  [x EXCEPT !.sock.writing = FALSE,
            !.writer.ended = x.sock.st = "open",
            !.sock.reset = @ \/ (x.sock.st = "open" /\ Short(x))]

\* onFinished of writeStream: for 'end', an error, or the end of the socket; and
\* the end of writeIterable, which throws or returns.
OnFinished(x, failed) ==
  IF x.writer.st # "writing" THEN x
  ELSE LET a == [x EXCEPT !.writer.st = "done"]
           b == IF failed THEN [a EXCEPT !.sock.writing = FALSE] ELSE EndBody(a)
           err == failed \/ EndThrows(a)
           c == IF err THEN AbortRequest(b) ELSE b
       IN  IF kind.iterable THEN [c EXCEPT !.src.st = "closed"]
           ELSE DestroySource(c, err)

\* onData: one chunk, which must not go beyond the declared length.
TooLong(x) == kind.upload # "chunked" /\ x.writer.wrote = Declared
WriteChunk(x, full) ==
  IF x.sock.st = "closed" THEN OnFinished(x, TRUE)
  ELSE IF x.sock.st = "destroyed" THEN [x EXCEPT !.src.paused = TRUE]
  ELSE IF TooLong(x)
  THEN IF ~kind.strict THEN [x EXCEPT !.sock.reset = TRUE]
       ELSE IF kind.iterable THEN OnFinished(x, TRUE) ELSE DestroySource(x, TRUE)
  ELSE [x EXCEPT !.writer.wrote = @ + 1, !.src.paused = full, !.sock.full = full]

\* errorHandler of the Request, until it is over.
RequestHearsError(x) ==
  IF x.req.st \in {"ended", "failed"} THEN x
  ELSE IF x.req.ctl = "none" THEN [x EXCEPT !.req.error = TRUE] ELSE AbortRequest(x)

\* The listener of the constructor of StreamHandler.
StreamHearsError(x) == IF kind.api = "stream" THEN StreamError(x) ELSE x

\* 'error' of the source: the StreamHandler hears it, then the Request, then the
\* writer; 'close' reaches the writer a microtask later.
SourceEvents(x) ==
  LET b == IF x.src.err THEN OnFinished(RequestHearsError(StreamHearsError(x)), TRUE)
           ELSE x
      c == [b EXCEPT !.src.st = "closed"]
  IN  IF c.writer.st = "writing" THEN Microtask(c, "sourceClosed") ELSE c

(***************************************************************************)
(* The Writable of stream(): trackWritableLifecycle.                       *)
(***************************************************************************)
\* A callback that onResponseError has taken already is not there to be called.
Result(x, failed) ==
  IF ~x.h.callback THEN "uncaught" ELSE IF failed THEN "error" ELSE "done"
Finish(x, failed) ==
  IF x.sink.done THEN x
  ELSE LET a == [x EXCEPT !.sink.done = TRUE, !.h.res = FALSE, !.h.callback = FALSE,
                          !.outcome = Append(@, Result(x, failed))]
       IN  IF failed THEN ControllerAbort(a) ELSE a

\* Mutant of SinkEvents: 'close' without an error is taken for an end.
SinkEventsTrusting(x) == [Finish(x, x.sink.err) EXCEPT !.sink.st = "closed"]

\* 'error' and 'close': a stream that closes before it has finished fails.
SinkEvents(x) == [Finish(x, x.sink.st # "finished") EXCEPT !.sink.st = "closed"]

SinkEnded(x) ==
  IF x.sink.st = "ending" /\ x.sink.buf = 0
  THEN Tick([x EXCEPT !.sink.st = "finished"], "sink") ELSE x

(***************************************************************************)
(* The response of pipeline(), whose handler returns it as it is: each of  *)
(* the two streams it passes holds it up when it is full.                  *)
(***************************************************************************)
\* 'data' of the inner stream, until the outer one is full; read() of an inner
\* stream that has room resumes the request.
PipeFlow(x) ==
  IF x.pipe.held \/ x.pipe.res = "destroyed" THEN x
  ELSE LET a == [x EXCEPT !.pipe.inner = 0, !.pipe.buf = @ + x.pipe.inner,
                          !.pipe.held = x.pipe.buf + x.pipe.inner >= HighWater,
                          !.req.paused = @ /\ x.pipe.res = "ended"]
       IN  IF a.pipe.res = "ended" THEN Tick(a, "pipeEnd") ELSE a

\* push() of a chunk into the inner stream.
PipeData(x) ==
  LET a == PipeFlow([x EXCEPT !.pipe.inner = @ + 1])
  IN  [a EXCEPT !.req.paused = a.pipe.inner >= HighWater \/ a.pipe.res = "destroyed"]

\* autoDestroy, when both sides are over: 'end' was emitted, all is written.
PipeOver(x) ==
  IF x.outcome = <<"done">> /\ x.pipe.written = MaxChunks /\ ~x.pipe.pending
  THEN DestroyPipe(x) ELSE x

\* The user reads on.
PipeRead(x) ==
  LET a == [x EXCEPT !.pipe.got = @ + x.pipe.buf, !.pipe.buf = 0]
  IN  IF a.pipe.ended THEN PipeOver([a EXCEPT !.outcome = <<"done">>])
      ELSE IF a.pipe.held THEN Tick([a EXCEPT !.pipe.held = FALSE], "pipeFlow") ELSE a

(***************************************************************************)
(* The user's part of a request().                                         *)
(***************************************************************************)
\* text(), json(), blob(), bytes() and arrayBuffer() differ in what they decode.
ReadsWhole(x) == Settle(x, Mixin(x.res))

Reads(x) ==
  CASE kind.read = "mixin" -> ReadsWhole(x)
    [] kind.read = "data" -> Settle(x, Listen(x.res))
    [] kind.read = "dump" -> Settle(x, Dump(x.res))

\* The user has the body and has not begun to read it.
MayRead(x) ==
  /\ kind.read # "none" /\ x.outcome = <<"response">>
  /\ x.res.mixin = "none" /\ ~x.res.used /\ x.res.dump = "none"

\* What code that is given the response does: read it now or later, destroy it,
\* or abort.
UserCode(x) ==
  {x, DestroyBody(x)} \cup (IF MayRead(x) THEN {Reads(x)} ELSE {})
    \cup (IF x.signal = "live" THEN {SignalAborted(x)} ELSE {})

(***************************************************************************)
(* The event loop.                                                         *)
(***************************************************************************)
\* A callback of stream(), upgrade() or connect() may not throw here.
Ran(x, job) ==
  CASE job = "user" -> UserCode(x)
    [] job = "callback" -> {[x EXCEPT !.outcome = Append(@, "error")]}
    [] job = "destroy" -> {DestroyBody(x)}
    [] job = "consume" -> {Settle(x, ConsumeStart(x.res))}
    [] job = "flow" -> {Settle(x, Flow(x.res))}
    [] job = "end" -> {Settle(x, End(x.res))}
    [] job = "close" -> {[Settle(x, Closed(x.res)) EXCEPT !.h.listening = FALSE]}
    [] job = "source" -> {SourceEvents(x)}
    [] job = "sourceClosed" -> {OnFinished(x, TRUE)}
    [] job = "sink" -> {SinkEvents(x)}
    [] job = "pipeFlow" -> {PipeFlow(x)}
    [] job = "pipeEnd" -> {[x EXCEPT !.pipe.ended = TRUE]}
    [] job = "pipeClose" ->
         {[x EXCEPT !.outcome = IF @ = <<>> THEN <<"error">> ELSE @]}

\* Ticks come first, but microtasks that have begun come before them.
RunTick ==
  /\ s.ticks # <<>> /\ ~s.inMicros
  /\ s' \in Ran([s EXCEPT !.ticks = Tail(@)], Head(s.ticks))
  /\ UNCHANGED kind

RunMicrotask ==
  /\ s.micros # <<>> /\ (s.inMicros \/ s.ticks = <<>>)
  /\ \E x \in Ran([s EXCEPT !.micros = Tail(@)], Head(s.micros)) :
       s' = [x EXCEPT !.inMicros = x.micros # <<>>]
  /\ UNCHANGED kind

RunImmediate ==
  /\ AtRest /\ s.res.closing = "immediate"
  /\ s' = Settle(s, Immediate(s.res))
  /\ UNCHANGED kind

(***************************************************************************)
(* The dispatcher and the server.                                          *)
(***************************************************************************)
Becomes(x) == s' = x /\ UNCHANGED kind

\* writeH1: onRequestStart, and a writer for the body.  A handler that knows it
\* was aborted, or a body that has failed, gives up here.
Begin(x) ==
  LET a == [x EXCEPT !.req.st = "open", !.req.ctl = "live", !.sock.st = "open"]
  IN  IF x.req.error \/ x.h.reason THEN ControllerAbort(a)
      ELSE [a EXCEPT !.h.abort = TRUE]

BeginBody(x) ==
  IF ~Uploads \/ x.req.st = "failed" THEN x
  ELSE LET a == [x EXCEPT !.writer.st = "writing", !.sock.writing = TRUE]
       IN  IF x.src.st = "closed" THEN Tick(a, "source")
           ELSE [a EXCEPT !.src.st = IF @ = "idle" THEN "flowing" ELSE @]

OnRequestStart ==
  /\ AtRest /\ s.req.st = "queued"
  /\ Becomes(BeginBody(Begin(s)))

\* The dispatcher cannot connect, or was destroyed.
NeverStarts ==
  /\ AtRest /\ s.req.st = "queued"
  /\ Becomes(ErrorRequest(s))

\* Its connection ends with no error of its own: it is pending again.
Requeue ==
  /\ AtRest /\ s.req.st = "open" /\ s.sock.st = "open"
  /\ ~Uploads /\ ~s.req.again
  /\ Becomes([s EXCEPT !.req.st = "queued", !.req.again = TRUE, !.sock.st = "closed"])

Answering == AtRest /\ s.sock.st = "open"

Responded(x) == [x EXCEPT !.outcome = Append(@, "response"), !.h.callback = FALSE]

\* The user has a callback, which may throw, or a promise that resolves.
UserIsCalled(x) ==
  IF kind.promise THEN {Microtask(x, "user")}
  ELSE UserCode(x) \cup {DestroyBody([x EXCEPT !.h.res = FALSE])}

\* onResponseStart of request().
ResponseForRequest(x) == UserIsCalled([Responded(x) EXCEPT !.h.res = TRUE])

\* A factory returns a stream, one that is closed already, or throws.
ResponseForStream(x) ==
  LET Sink(st) == [x EXCEPT !.h.res = TRUE, !.sink.st = st]
  IN  {Sink("open"), Tick(Sink("closed"), "sink"), AbortRequest(x)}

\* The handler of a pipeline() returns the body it is given, or throws.
ResponseForPipeline(x) ==
  LET a == [x EXCEPT !.pipe.res = "open"] IN {a, AbortRequest(a)}

\* upgrade() and connect() throw.
ResponseForUpgrade(x) == {AbortRequest(x)}
ResponseForConnect(x) == {AbortRequest(x)}

OnResponseStart ==
  /\ Answering /\ s.req.st = "open"
  /\ s' \in LET x == [s EXCEPT !.req.st = "body"]
            IN  CASE kind.api = "request" -> ResponseForRequest(x)
                  [] kind.api = "stream" -> ResponseForStream(x)
                  [] kind.api = "pipeline" -> ResponseForPipeline(x)
                  [] kind.api = "upgrade" -> ResponseForUpgrade(x)
                  [] kind.api = "connect" -> ResponseForConnect(x)
  /\ UNCHANGED kind

\* upgrade() takes only a 101, connect() any status.
Upgraded(x) ==
  {[Responded(x) EXCEPT !.h.listening = FALSE, !.req.st = "ended"], ControllerAbort(x)}
Connected(x) == {[Responded(x) EXCEPT !.h.listening = FALSE, !.req.st = "ended"]}

OnRequestUpgrade ==
  /\ Answering /\ s.req.st = "open"
  /\ \/ kind.api = "upgrade" /\ s' \in Upgraded(s)
     \/ kind.api = "connect" /\ s' \in Connected(s)
  /\ UNCHANGED kind

\* onResponseData of request() and of stream(), whose body or Writable may have
\* been let go.
RequestData(x) ==
  IF ~x.h.res THEN x
  ELSE LET a == Settle(x, Push(x.res, x.req.given))
       IN  [a EXCEPT !.req.paused = a.h.res /\ Full(a.res)]

StreamData(x) ==
  IF ~x.h.res THEN x
  ELSE LET full == x.sink.buf + 1 >= HighWater
       IN  [x EXCEPT !.sink.buf = @ + 1, !.sink.got = @ + 1, !.sink.full = full,
                     !.req.paused = full]

HandlerData(x) ==
  CASE kind.api = "request" -> RequestData(x)
    [] kind.api = "stream" -> StreamData(x)
    [] kind.api = "pipeline" -> PipeData(x)

OnResponseData ==
  /\ Answering /\ s.req.st = "body" /\ ~s.req.paused /\ s.req.given < MaxChunks
  /\ Becomes(HandlerData([s EXCEPT !.req.given = @ + 1]))

\* onResponseEnd.
RequestEnd(x) == IF x.h.res THEN Settle(x, PushEnd(x.res)) ELSE x

StreamEnd(x) ==
  LET a == [x EXCEPT !.h.listening = FALSE]
  IN  IF x.h.res THEN SinkEnded([a EXCEPT !.sink.st = IF @ = "open" THEN "ending" ELSE @])
      ELSE a

PipeEnd(x) ==
  IF x.pipe.res = "open" THEN PipeFlow([x EXCEPT !.pipe.res = "ended"]) ELSE x

HandlerEnd(x) ==
  CASE kind.api = "request" -> RequestEnd(x)
    [] kind.api = "stream" -> StreamEnd(x)
    [] kind.api = "pipeline" -> PipeEnd(x)

\* onMessageComplete: a response that comes before its request was sent whole
\* takes the connection down.
OnResponseEnd ==
  /\ Answering /\ s.req.st = "body" /\ ~s.req.paused /\ s.req.given = MaxChunks
  /\ LET x == HandlerEnd([s EXCEPT !.req.st = "ended"])
     IN  Becomes(IF x.sock.writing THEN DestroySocket(x) ELSE x)

\* The connection fails while it serves the request.
SocketFails ==
  /\ Answering /\ s.req.st \in {"open", "body"}
  /\ Becomes(DestroySocket(s))

\* 'error' and 'close' of the socket: the writer hears of it, and what still
\* runs on it fails.
OnSocketClose ==
  /\ AtRest /\ s.sock.st = "destroyed"
  /\ LET a == [s EXCEPT !.sock.st = "closed"]
         x == IF kind.iterable THEN [a EXCEPT !.src.paused = FALSE]
              ELSE OnFinished(a, TRUE)
     IN  Becomes(IF x.req.st \in {"open", "body"} THEN ErrorRequest(x) ELSE x)

SocketDrains ==
  /\ Answering /\ s.sock.full
  /\ Becomes([s EXCEPT !.sock.full = FALSE,
                       !.src.paused = @ /\ s.writer.st # "writing"])

(***************************************************************************)
(* The streams of the user.                                                *)
(***************************************************************************)
Flowing == AtRest /\ s.src.st = "flowing" /\ ~s.src.paused
Held(x) == x.pipe.written - x.src.at >= HighWater

\* The body of a pipeline() has what its user has written.
SourceData ==
  /\ Flowing /\ s.src.at < MaxChunks
  /\ kind.api = "pipeline" => s.src.at < s.pipe.written
  /\ LET x == [s EXCEPT !.src.at = @ + 1]
         y == [x EXCEPT !.pipe.pending = @ /\ Held(x)]
     IN  \E full \in BOOLEAN : Becomes(PipeOver(WriteChunk(y, full)))

SourceEnd ==
  /\ Flowing /\ s.src.at = MaxChunks
  /\ Becomes(DestroySource(OnFinished(s, FALSE), FALSE))

SourceFails ==
  /\ AtRest /\ Uploads /\ kind.api # "pipeline"
  /\ IF kind.iterable THEN s.src.st = "flowing" /\ Becomes(OnFinished(s, TRUE))
     ELSE /\ s.src.st \in {"idle", "flowing"}
          /\ \E err \in IF s.sink.st = "none" \/ LateError THEN BOOLEAN ELSE {FALSE} :
               Becomes(DestroySource(s, err))

\* write() of the Duplex: its callback waits while the body is full, and comes
\* at once when nobody wants the body any more.
PipeWrites ==
  /\ AtRest /\ s.pipe.st = "open" /\ s.pipe.written < MaxChunks /\ ~s.pipe.pending
  /\ LET x == [s EXCEPT !.pipe.written = @ + 1]
         waits == Held(x) /\ x.src.st \in {"idle", "flowing"}
     IN  Becomes(PipeOver([x EXCEPT !.pipe.pending = waits]))

PipeReads ==
  /\ AtRest /\ s.pipe.st = "open" /\ s.outcome = <<>>
  /\ s.pipe.buf > 0 \/ s.pipe.ended
  /\ Becomes(PipeRead(s))

PipeDestroyed ==
  /\ AtRest /\ s.pipe.st = "open" /\ s.outcome = <<>>
  /\ Becomes(DestroyPipe(s))

\* The sink has written all it was given.
SinkDrains ==
  /\ AtRest /\ s.sink.buf > 0 /\ s.sink.st \in {"open", "ending"}
  /\ LET x == [s EXCEPT !.sink.buf = 0, !.sink.full = FALSE]
     IN  Becomes(SinkEnded(IF s.sink.full /\ s.sink.st = "open"
                           THEN [x EXCEPT !.req.paused = FALSE] ELSE x))

SinkFails ==
  /\ AtRest /\ s.sink.st \in {"open", "ending"}
  /\ \E err \in BOOLEAN : Becomes(DestroySink(s, err))

UserReads == AtRest /\ MayRead(s) /\ Becomes(Reads(s))

UserDestroys ==
  /\ AtRest /\ s.outcome = <<"response">> /\ kind.api = "request"
  /\ ~Destroyed(s.res) /\ Becomes(DestroyBody(s))

SignalAborts == AtRest /\ s.signal = "live" /\ Becomes(SignalAborted(s))

(***************************************************************************)
(* The system.  Some steps fail or give up; the others are fair: the event *)
(* loop runs, the dispatcher starts the request, the server answers it,    *)
(* streams and sockets move on, and a user who reads the body does so.     *)
(***************************************************************************)
Progress ==
  \/ RunTick \/ RunMicrotask \/ RunImmediate
  \/ OnRequestStart \/ OnResponseStart \/ OnRequestUpgrade
  \/ OnResponseData \/ OnResponseEnd \/ OnSocketClose \/ SocketDrains
  \/ SourceData \/ SourceEnd \/ SinkDrains \/ UserReads \/ PipeWrites \/ PipeReads

Next ==
  \/ Progress
  \/ NeverStarts \/ Requeue \/ SocketFails \/ SourceFails \/ SinkFails
  \/ UserDestroys \/ SignalAborts \/ PipeDestroyed

Spec == Init /\ [][Next]_vars /\ WF_vars(Progress)

(***************************************************************************)
(* Properties.                                                             *)
(***************************************************************************)
Over == s.req.st \in {"ended", "failed"}

\* What a user is told is whole is whole: a mixin that resolves, a body whose
\* 'end' is seen and a stream() that succeeds had every chunk of a response
\* that ended, and a call has one outcome.
IntactBody ==
  /\ s.res.mixin = "resolved" => s.req.st = "ended" /\ s.res.body = Whole(MaxChunks)
  /\ s.res.endEmitted /\ kind.read = "data" => s.res.got = Whole(MaxChunks)
  /\ s.outcome = <<"done">> =>
       s.req.st = "ended" /\ MaxChunks \in {s.sink.got, s.pipe.got}
  /\ Len(s.outcome) <= 1

\* A request whose body, sink or signal was given up does not hold on to its
\* connection: it is over, or will be as soon as it starts; and a request that
\* failed takes its connection along, on which an answer may still come.  A
\* connection is used again only when the request on it was sent as declared:
\* not cut short, and never longer, or the server would take the next request
\* for the rest of this one, or the rest of this one for the next request.
GivenUp ==
  \/ s.signal = "aborted" \/ Destroyed(s.res)
  \/ s.sink.st \in {"destroyed", "closed"} \/ s.pipe.st = "failed"
ConnectionIsFit ==
  /\ AtRest =>
       /\ GivenUp => Over \/ (s.req.st = "queued" /\ (s.h.reason \/ s.req.error))
       /\ s.req.st = "failed" /\ s.req.ctl # "none" => s.sock.st # "open"
  /\ Uploads =>
       /\ kind.upload # "chunked" => s.writer.wrote <= Declared
       /\ s.req.st = "ended" /\ s.sock.st = "open" /\ ~s.sock.reset =>
            s.writer.ended /\ ~Short(s)

\* Every call is answered, every mixin and dump() settles, a body that is read
\* ends or fails, and the stream of the request is closed.
EveryCallEnds ==
  <>[](/\ s.outcome # <<>>
       /\ s.res.mixin \notin {"asked", "refused", "reading"}
       /\ s.res.dump # "pending"
       /\ kind.read # "none" => Over
       /\ Uploads => s.src.st = "closed" \/ (kind.iterable /\ s.src.st = "idle")
       /\ ~s.pipe.pending)
=============================================================================

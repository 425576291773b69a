------------------------------ MODULE ClientH1 ------------------------------
(***************************************************************************)
(* The HTTP/1.1 connection of a Client: lib/dispatcher/client-h1.js.  The  *)
(* llhttp parser is external: what it reports (a response head, the end of *)
(* a message, a protocol error) is chosen here, in the order of the        *)
(* requests on the wire.                                                   *)
(***************************************************************************)
EXTENDS ClientState

ExpectsPayload(r) == Opt[r].method = "POST"
IsUpgrade(r) == Opt[r].method \in {"UPGRADE", "CONNECT"}
HasStream(r) == Opt[r].body = "stream"

\* Mutant of SocketBusy: a socket that is being validated is not busy.
SocketBusyUnvalidated == sock.writing \/ sock.reset \/ sock.blocking

\* busy(null) of the context.
SocketBusy == sock.writing \/ sock.reset \/ sock.blocking \/ sock.idle = 1

\* Mutant of BusyFor: the idempotent flag is ignored.
BusyForTaking(r) ==
  \/ SocketBusy
  \/ Running > 0 /\ (IsUpgrade(r) \/ HasStream(r))

\* busy(request): what may not join requests that are still running.
BusyFor(r) ==
  \/ SocketBusy
  \/ Running > 0 /\ (~Opt[r].idempotent \/ IsUpgrade(r) \/ HasStream(r))

----------------------------------------------------------------------------
(* connectH1 and resumeH1.                                                  *)

Connected(s) == [NoSock EXCEPT !.st = "live", !.name = s.name]

\* An idle socket that has been used is validated before it is used again.
NeedsValidation(s) == Running = 0 /\ Pending > 0 /\ s.used /\ s.idle # 2

\* Mutant of Timer: headersTimeout is not armed.
TimerUnarmed(s) == IF Size = 0 THEN "keepAlive" ELSE s.timer

\* The parser timeout that fits what the connection waits for.
Timer(s) ==
  IF Size = 0 THEN "keepAlive"
  ELSE IF Running > 0 /\ ~s.midBody THEN "headers" ELSE s.timer

\* The sockets resumeH1 may leave: readMore may find bytes nobody asked for,
\* and destroys the socket.
ResumeH1(s) ==
  LET checked == IF NeedsValidation(s) THEN [s EXCEPT !.idle = 1] ELSE s
      ready == IF NeedsValidation(s) THEN checked
                                     ELSE [s EXCEPT !.timer = Timer(s)]
      garbage == Running = 0 /\ "bytes" \in Faults
  IN IF s.st # "live" THEN {s}
     ELSE {ready} \cup
          IF garbage THEN {Kill(checked, e) : e \in {"socket", "other"}} ELSE {}

\* The immediate of scheduleIdleSocketValidation.
IdleValidated ==
  /\ Quiet /\ Live /\ sock.idle = 1
  /\ sock' = [sock EXCEPT !.idle = 2]
  /\ stack' = Call(<<Do("resume")>>)
  /\ UNCHANGED <<qVars, resuming, needDrain, pipelining, connVars, lifeVars,
                 taskVars, dispatched, reqVars, histVars, broken>>

----------------------------------------------------------------------------
(* writeH1, from the moment the request is known to be acceptable.          *)

\* The socket has served as many requests as it may.
LastUse(count) == MaxRequests > 0 /\ count >= MaxRequests

\* The flags the head of r leaves on the socket.
Flagged(s, r) ==
  LET o == Opt[r]
      resets == o.method = "HEAD" \/ IsUpgrade(r)
      asked == IF o.reset = "unset" THEN s.reset \/ resets ELSE o.reset = "on"
      count == IF MaxRequests = 0 THEN s.counter ELSE s.counter + 1
      unexpected == o.body \in {"buffer", "stream"} /\ ~ExpectsPayload(r)
                      /\ o.reset # "off"
  IN [s EXCEPT !.counter = count,
               !.reset = asked \/ LastUse(count) \/ unexpected,
               !.blocking = s.blocking \/ o.blocking,
               !.writing = s.writing \/ o.body = "stream"]

\* After onRequestStart: a request aborted by then is not written.  A request
\* without a stream is complete on the socket before onRequestSent.
WriteHead ==
  /\ At("write")
  /\ LET r == Top.reqs[1] IN
     IF r \in aborted
     THEN /\ stack' = Goto("splice")
          /\ UNCHANGED <<sock, wire, sent>>
     ELSE /\ sock' = Flagged(sock, r)
          /\ wire' = Append(wire, r)
          /\ sent' = [sent EXCEPT ![r] = IF Live THEN @ + 1 ELSE @]
          /\ stack' = IF HasStream(r) THEN Goto("advance")
                      ELSE <<Frame("sent", <<r>>)>> \o Goto("advance")
  /\ UNCHANGED <<qVars, resuming, needDrain, pipelining, connVars, lifeVars,
                 taskVars, dispatched, reqVars, heads, ends, broken>>

\* The end of the abort closure, after onResponseError.
AbortSocket ==
  /\ At("abortSocket")
  /\ sock' = Kill(sock, "info")
  /\ stack' = Caller
  /\ UNCHANGED <<qVars, resuming, needDrain, pipelining, connVars, lifeVars,
                 taskVars, dispatched, reqVars, histVars, broken>>

\* writeStream: the body has ended; AsyncWriter.end calls onRequestSent.
BodyEnd ==
  /\ Quiet /\ sock.writing
  /\ stack' = Call(<<Frame("sent", <<>>), Do("endBody")>>)
  /\ UNCHANGED <<qVars, resuming, needDrain, pipelining, connVars, sock,
                 lifeVars, taskVars, dispatched, reqVars, histVars, broken>>

\* The rest of AsyncWriter.end.
EndBody ==
  /\ At("endBody")
  /\ sock' = [sock EXCEPT !.writing = FALSE]
  /\ stack' = Become(IF Live THEN <<Do("resume")>> ELSE <<>>)
  /\ UNCHANGED <<qVars, resuming, needDrain, pipelining, connVars, lifeVars,
                 taskVars, dispatched, reqVars, histVars, broken>>

\* onFinished(err) and AsyncWriter.destroy(err): the request is aborted,
\* unless it is over already.
WriterFail ==
  /\ At("writerFail")
  /\ sock' = [sock EXCEPT !.writing = FALSE]
  /\ Require(Running <= 1, "pipeline should only contain this request")
  /\ IF sock.writing /\ Running > 0 /\ RunningHead # Null /\ InFlight(RunningHead)
     THEN /\ Aborts(RunningHead)
          /\ stack' = Become(AbortFrames(RunningHead))
     ELSE /\ stack' = Caller
          /\ UNCHANGED <<aborted, ends>>
  /\ UNCHANGED <<qVars, resuming, needDrain, pipelining, connVars, lifeVars,
                 taskVars, dispatched, completed, bodyErr, wire, sent, heads>>

\* The body of the request being written fails: its own error handler calls
\* the abort closure, then onFinished runs.
BodyError ==
  /\ Quiet /\ sock.writing /\ "bodyError" \in Faults
  /\ stack' = Call(<<Do("writerFail")>>)
  /\ UNCHANGED <<qVars, resuming, needDrain, pipelining, connVars, sock,
                 lifeVars, taskVars, dispatched, reqVars, histVars, broken>>

----------------------------------------------------------------------------
(* The response parser's callbacks.                                         *)

\* onHeadersComplete with a final status.  keep: the message allows the
\* connection to be reused; short: the peer's keep-alive hint is too short.
ResponseHead(keep, short) ==
  /\ Quiet /\ Live /\ ~sock.midBody /\ wire # <<>>
  /\ Running > 0 /\ RunningHead # Null
  /\ Opt[RunningHead].method # "CONNECT"
  /\ ~keep => "noKeepAlive" \in Faults
  /\ short => keep /\ "shortKeepAlive" \in Faults
  /\ LET r == RunningHead
     IN /\ Require(sock.timer = "headers", "TIMEOUT_HEADERS")
        /\ sock' = [sock EXCEPT
                      !.midBody = TRUE, !.keep = keep, !.timer = "body",
                      !.reset = @ \/ ~keep \/ short \/ pipelining = 0]
        /\ heads' = [heads EXCEPT ![r] = @ + 1]
        /\ stack' = Call(<<Frame("headers", <<r>>),
                           Frame("afterHeaders", <<r>>)>>)
  /\ UNCHANGED <<qVars, resuming, needDrain, pipelining, connVars, lifeVars,
                 taskVars, dispatched, reqVars, wire, sent, ends>>

\* The head of the response ends the blocking of the pipeline.
Unblocked == [sock EXCEPT !.blocking = FALSE]

\* The rest of onHeadersComplete; the handler may have paused the response.
\* A response to HEAD is complete at once.
AfterHeaders ==
  /\ At("afterHeaders")
  /\ LET r == Top.reqs[1]
     IN IF r \in aborted
        THEN stack' = Caller /\ UNCHANGED sock
        ELSE IF Opt[r].method = "HEAD"
        THEN stack' = Goto("complete") /\ UNCHANGED sock
        ELSE /\ \E pause \in IF "pause" \in Faults THEN BOOLEAN ELSE {FALSE} :
                  sock' = [Unblocked EXCEPT !.paused = pause]
             /\ stack' = Become(IF sock.blocking THEN <<Do("resume")>> ELSE <<>>)
  /\ UNCHANGED <<qVars, resuming, needDrain, pipelining, connVars, lifeVars,
                 taskVars, dispatched, reqVars, histVars, broken>>

\* onBody: the handler's onResponseData may ask for a pause.
ResponseData ==
  /\ Quiet /\ Live /\ sock.midBody /\ ~sock.paused
  /\ Require(RunningHead # Null /\ sock.timer = "body", "TIMEOUT_BODY")
  /\ \E pause \in IF "pause" \in Faults THEN BOOLEAN ELSE {FALSE} :
       sock' = [sock EXCEPT !.paused = pause]
  /\ UNCHANGED <<qVars, resuming, needDrain, pipelining, connVars, lifeVars,
                 taskVars, stack, dispatched, reqVars, histVars>>

\* The user resumes the response (Parser.resume).
ResponseResumed ==
  /\ Quiet /\ Live /\ sock.paused
  /\ Require(sock.timer = "body", "TIMEOUT_BODY")
  /\ sock' = [sock EXCEPT !.paused = FALSE]
  /\ UNCHANGED <<qVars, resuming, needDrain, pipelining, connVars, lifeVars,
                 taskVars, stack, dispatched, reqVars, histVars>>

\* The message ends.
ResponseEnd ==
  /\ Quiet /\ Live /\ sock.midBody /\ ~sock.paused
  /\ stack' = Call(<<Do("complete")>>)
  /\ UNCHANGED <<qVars, resuming, needDrain, pipelining, connVars, sock,
                 lifeVars, taskVars, dispatched, reqVars, histVars, broken>>

\* onMessageComplete up to request.onResponseEnd.
Complete ==
  /\ At("complete")
  /\ IF ~Live /\ (~sock.midBody \/ sock.keep)
     THEN /\ stack' = Caller
          /\ UNCHANGED <<sock, completed, ends, broken>>
     ELSE IF Running <= 0 \/ RunningHead = Null \/ ~InFlight(RunningHead)
     THEN /\ broken' = "request && !request.aborted && !request.completed"
          /\ UNCHANGED <<sock, completed, ends, stack>>
     ELSE LET r == RunningHead
          IN /\ UNCHANGED broken
             /\ completed' = completed \cup {r}
             /\ ends' = [ends EXCEPT ![r] = @ + 1]
             /\ sock' = [sock EXCEPT !.midBody = FALSE]
             /\ stack' = Become(<<Frame("end", <<r>>), Do("afterEnd")>>)
  /\ UNCHANGED <<qVars, resuming, needDrain, pipelining, connVars, lifeVars,
                 taskVars, dispatched, aborted, bodyErr, wire, sent, heads>>

\* The rest of onMessageComplete: leave the queue, and destroy the socket,
\* wait for the next turn of the event loop, or go on at once.
AfterEnd ==
  /\ At("afterEnd")
  /\ queue' = [queue EXCEPT ![runningIdx + 1] = Null]
  /\ runningIdx' = runningIdx + 1
  /\ wire' = From(wire, 1)
  /\ LET left == Running - 1
         used == [sock EXCEPT !.used = Pending = 0]
         lastUse == sock.writing \/ ~sock.keep \/ (sock.reset /\ left = 0)
     IN /\ Require(sock.writing => left = 0, "kRunning === 0")
        /\ sock' = IF lastUse THEN Kill(used, "info") ELSE used
        /\ immediate' = (immediate \/ (~lastUse /\ pipelining = 1))
        /\ stack' = Become(IF lastUse \/ pipelining = 1
                           THEN <<>> ELSE <<Do("resume")>>)
  /\ UNCHANGED <<pendingIdx, resuming, needDrain, pipelining, connVars,
                 lifeVars, micro, dispatched, reqVars, sent, heads, ends>>

\* onHeadersComplete and onUpgrade: the socket leaves the client.
ResponseUpgrade ==
  /\ Quiet /\ Live /\ ~sock.midBody /\ wire # <<>>
  /\ Running > 0 /\ RunningHead # Null /\ IsUpgrade(RunningHead)
  /\ Require(Running = 1 /\ sock.timer = "headers", "kRunning === 1")
  /\ sock' = NoSock /\ ctx' = FALSE /\ wire' = <<>>
  /\ queue' = [queue EXCEPT ![runningIdx + 1] = Null]
  /\ runningIdx' = runningIdx + 1
  /\ stack' = Call(<<Do("disconnect"), Frame("upgradeCall", <<RunningHead>>),
                     Do("resume")>>)
  /\ UNCHANGED <<pendingIdx, resuming, needDrain, pipelining, connecting,
                 serverName, lifeVars, taskVars, dispatched, reqVars, sent,
                 heads, ends>>

\* request.onRequestUpgrade asserts that the request is not aborted; onUpgrade
\* catches the failure.
UpgradeCall ==
  /\ At("upgradeCall")
  /\ LET r == Top.reqs[1] IN
     stack' = IF r \in aborted THEN Caller
              ELSE Become(<<Frame("upgrade", <<r>>), Frame("upgraded", <<r>>)>>)
  /\ UNCHANGED <<qVars, resuming, needDrain, pipelining, connVars, sock,
                 lifeVars, taskVars, dispatched, reqVars, histVars, broken>>

Upgraded ==
  /\ At("upgraded")
  /\ LET r == Top.reqs[1]
         done == IF r \in aborted THEN {} ELSE {r}
     IN /\ completed' = completed \cup done
        /\ ends' = [q \in Requests |-> ends[q] + IF q \in done THEN 1 ELSE 0]
  /\ stack' = Caller
  /\ UNCHANGED <<qVars, resuming, needDrain, pipelining, connVars, sock,
                 lifeVars, taskVars, dispatched, aborted, bodyErr, wire, sent,
                 heads, broken>>

----------------------------------------------------------------------------
(* Timeouts, the peer and the socket's events.                              *)

\* The connection is destroyed with an error of class e, and no more.
Destroys(e) ==
  /\ sock' = Kill(sock, e)
  /\ UNCHANGED <<qVars, resuming, needDrain, pipelining, connVars, lifeVars,
                 taskVars, stack, dispatched, reqVars, histVars>>

\* onParserTimeout.  While a stream is written it may spare the socket.
HeadersTimeout ==
  /\ Quiet /\ Live /\ sock.timer = "headers" /\ "headersTimeout" \in Faults
  /\ Require(~sock.paused, "cannot be paused while waiting for headers")
  /\ Destroys("other")

BodyTimeout ==
  /\ Quiet /\ Live /\ sock.timer = "body" /\ "bodyTimeout" \in Faults
  /\ ~sock.paused
  /\ Destroys("other") /\ UNCHANGED broken

KeepAliveTimeout ==
  /\ Quiet /\ Live /\ sock.timer = "keepAlive" /\ "idleTimeout" \in Faults
  /\ Require(Running = 0, "kRunning === 0")
  /\ Destroys("info")

\* Bytes that are no response to a request: a SocketError when no request is
\* running, a parser error (or one of the response's size) otherwise.
BadBytes(e) ==
  /\ Quiet /\ Live /\ ~sock.paused /\ "bytes" \in Faults
  /\ Destroys(e) /\ UNCHANGED broken

\* onHttpSocketEnd: the end may complete a response without a length.
SocketEnd ==
  /\ Quiet /\ Live /\ "fin" \in Faults
  /\ IF sock.midBody /\ ~sock.keep
     THEN \/ /\ sock' = [sock EXCEPT !.paused = FALSE]
             /\ stack' = Call(<<Do("complete")>>)
          \/ /\ sock' = Kill([sock EXCEPT !.paused = FALSE], "other")
             /\ UNCHANGED stack
     ELSE sock' = Kill(sock, "socket") /\ UNCHANGED stack
  /\ UNCHANGED <<qVars, resuming, needDrain, pipelining, connVars, lifeVars,
                 taskVars, dispatched, reqVars, histVars, broken>>

\* onError (client.js): with nothing running, an error that is not about one
\* socket fails everything that is queued.
FailsQueue(e) == Running = 0 /\ e \notin {"info", "socket"}

QueueAfterError(e) == IF FailsQueue(e) THEN Upto(queue, runningIdx) ELSE queue

ErrorFrames(e) ==
  IF FailsQueue(e)
  THEN Fail(From(queue, runningIdx)) \o <<Do("checkEmpty")>> ELSE <<>>

\* onHttpSocketError with kError = err; a writer listens for the error, too.
SocketErrors(s, e) ==
  /\ sock' = [s EXCEPT !.st = "errored", !.err = e]
  /\ queue' = QueueAfterError(e)
  /\ stack' = Call(ErrorFrames(e) \o
                   IF s.writing THEN <<Do("writerFail")>> ELSE <<>>)

SocketError ==
  /\ Quiet /\ sock.st = "dying"
  /\ SocketErrors(sock, sock.err)
  /\ UNCHANGED <<runningIdx, pendingIdx, resuming, needDrain, pipelining,
                 connVars, lifeVars, taskVars, dispatched, reqVars, histVars,
                 broken>>

\* ECONNRESET: like any error, unless the response runs until the connection
\* ends and is complete.
SocketReset ==
  /\ Quiet /\ Live /\ "reset" \in Faults
  /\ \/ SocketErrors([sock EXCEPT !.paused = FALSE], "other")
     \/ /\ sock.midBody /\ ~sock.keep
        /\ sock' = [sock EXCEPT !.st = "errored", !.paused = FALSE]
        /\ stack' = Call(<<Do("complete")>> \o
                      IF sock.writing THEN <<Do("writerFail")>> ELSE <<>>)
        /\ UNCHANGED queue
  /\ UNCHANGED <<runningIdx, pendingIdx, resuming, needDrain, pipelining,
                 connVars, lifeVars, taskVars, dispatched, reqVars, histVars,
                 broken>>

\* onHttpSocketClose, up to the requests it fails, and what follows them; then
\* the 'close' listeners of the servername change and of destroy().
CloseError == IF sock.err = "none" THEN "socket" ELSE sock.err

\* Mutant of FailsHead: a request whose connection just ended is retried.
FailsHeadRetries == ~destroyed /\ Running > 0 /\ CloseError = "other"

FailsHead == ~destroyed /\ Running > 0 /\ CloseError # "info"

SocketClose ==
  /\ Quiet /\ sock.st = "errored"
  /\ Require(destroyed => Pending = 0, "kPending === 0")
  /\ sock' = NoSock /\ ctx' = FALSE /\ wire' = <<>>
  /\ queue' = IF destroyed THEN Upto(queue, runningIdx)
              ELSE IF FailsHead THEN [queue EXCEPT ![runningIdx + 1] = Null]
              ELSE queue
  /\ runningIdx' = IF FailsHead THEN runningIdx + 1 ELSE runningIdx
  /\ LET failed == IF destroyed THEN From(queue, runningIdx)
                   ELSE IF FailsHead THEN <<RunningHead>> ELSE <<>>
     IN stack' = Call(Fail(failed) \o <<Do("closeEnd")>> \o
                   (IF "rename" \in sock.onClose THEN <<Do("resume")>> ELSE <<>>)
                   \o IF "destroy" \in sock.onClose
                      THEN <<Do("destroyCallback")>> ELSE <<>>)
  /\ UNCHANGED <<pendingIdx, resuming, needDrain, pipelining, connecting,
                 serverName, lifeVars, taskVars, dispatched, reqVars, sent,
                 heads, ends>>

\* Mutants of CloseEnd: what was running is not pending again; no resume().
CloseEndKept ==
  /\ At("closeEnd")
  /\ stack' = Become(<<Do("disconnect"), Do("resume")>>)
  /\ UNCHANGED <<qVars, resuming, needDrain, pipelining, connVars, sock,
                 lifeVars, taskVars, dispatched, reqVars, histVars, broken>>
CloseEndIdle ==
  /\ At("closeEnd")
  /\ pendingIdx' = runningIdx
  /\ stack' = Become(<<Do("disconnect")>>)
  /\ UNCHANGED <<queue, runningIdx, resuming, needDrain, pipelining, connVars,
                 sock, lifeVars, taskVars, dispatched, reqVars, histVars,
                 broken>>

\* The rest of onHttpSocketClose: what was running is pending again.
CloseEnd ==
  /\ At("closeEnd")
  /\ pendingIdx' = runningIdx
  /\ stack' = Become(<<Do("disconnect"), Do("resume")>>)
  /\ UNCHANGED <<queue, runningIdx, resuming, needDrain, pipelining, connVars,
                 sock, lifeVars, taskVars, dispatched, reqVars, histVars,
                 broken>>
=============================================================================

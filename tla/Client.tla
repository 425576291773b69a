------------------------------- MODULE Client -------------------------------
(***************************************************************************)
(* undici's Client: the request queue, the resume loop, connecting, and    *)
(* the life cycle (lib/dispatcher/client.js, dispatcher-base.js and the    *)
(* parts of lib/core/request.js they use), over the connection of          *)
(* ClientH1.                                                               *)
(***************************************************************************)
EXTENDS ClientH1

Init ==
  /\ queue = <<>> /\ runningIdx = 0 /\ pendingIdx = 0
  /\ resuming = 0 /\ needDrain = 0 /\ pipelining = Pipelining
  /\ connecting = "no" /\ ctx = FALSE /\ serverName = NoName
  /\ sock = NoSock
  /\ closed = FALSE /\ destroyed = FALSE
  /\ closing = "open" /\ destroying = "no"
  /\ micro = <<>> /\ immediate = FALSE /\ stack = <<>>
  /\ dispatched = <<>> /\ aborted = {} /\ completed = {} /\ bodyErr = {}
  /\ wire = <<>>
  /\ sent = [r \in Requests |-> 0]
  /\ heads = [r \in Requests |-> 0]
  /\ ends = [r \in Requests |-> 0]
  /\ broken = "none"

\* get [kBusy]
Busy == (ctx /\ SocketBusy) \/ Size >= MaxConcurrent \/ Pending > 0

----------------------------------------------------------------------------
(* What the user calls.                                                     *)

Loop(sync) == [at |-> "loop", reqs |-> <<>>, sync |-> sync]

\* DispatcherBase.dispatch refuses the request: only onResponseError is called.
DispatchRefused(r) ==
  /\ UserMay("dispatch") /\ r \notin Range(dispatched)
  /\ closed \/ destroyed
  /\ dispatched' = Append(dispatched, r)
  /\ ends' = [ends EXCEPT ![r] = @ + 1]
  /\ stack' = Call(<<Frame("error", <<r>>)>>)
  /\ UNCHANGED <<qVars, resuming, needDrain, pipelining, connVars, sock,
                 lifeVars, taskVars, reqVars, wire, sent, heads, broken>>

\* [kDispatch]: resume now, on the next tick for a stream, or leave it to the
\* resume that is running or scheduled.
Dispatch(r) ==
  /\ UserMay("dispatch") /\ r \notin Range(dispatched)
  /\ ~closed /\ ~destroyed
  /\ dispatched' = Append(dispatched, r)
  /\ queue' = Append(queue, r)
  /\ LET waits == resuming = 0 /\ HasStream(r)
         resumes == resuming = 0 /\ ~HasStream(r)
     IN /\ resuming' = IF waits THEN 1 ELSE IF resumes THEN 2 ELSE resuming
        /\ micro' = IF waits THEN Append(micro, "resume") ELSE micro
        /\ stack' = IF resumes THEN Call(<<Loop(TRUE)>>) ELSE stack
        \* kBusy holds: the request is pending
        /\ needDrain' = IF resumes THEN needDrain ELSE 2
  /\ UNCHANGED <<runningIdx, pendingIdx, pipelining, connVars, sock, lifeVars,
                 immediate, reqVars, histVars, broken>>

\* The controller's abort(), once the request was started.
Abort(r) ==
  /\ UserMay("abort") /\ InFlight(r)
  /\ sent[r] > 0 \/ OnSocket(r)
  /\ Aborts(r)
  /\ stack' = Call(AbortFrames(r))
  /\ UNCHANGED <<qVars, resuming, needDrain, pipelining, connVars, sock,
                 lifeVars, taskVars, dispatched, completed, bodyErr, wire,
                 sent, heads, broken>>

\* The body of a request that was not started yet fails.
QueuedBodyError(r) ==
  /\ Quiet /\ "bodyError" \in Faults /\ HasStream(r)
  /\ r \in Range(dispatched) \ bodyErr /\ InFlight(r)
  /\ sent[r] = 0 /\ ends[r] = 0
  /\ bodyErr' = bodyErr \cup {r}
  /\ UNCHANGED <<qVars, resuming, needDrain, pipelining, connVars, sock,
                 lifeVars, taskVars, stack, dispatched, aborted, completed,
                 histVars, broken>>

\* set pipelining(value)
SetPipelining(value) ==
  /\ UserMay("pipelining") /\ value # pipelining
  /\ pipelining' = value
  /\ resuming' = 2
  /\ stack' = IF resuming = 2 THEN stack ELSE Call(<<Loop(TRUE)>>)
  /\ UNCHANGED <<qVars, needDrain, connVars, sock, lifeVars, taskVars,
                 dispatched, reqVars, histVars, broken>>

\* close() has something to wait for.
Waits == Size # 0

\* close() and [kClose]: wait for the queue, then destroy.
Close ==
  /\ UserMay("close") /\ ~closed /\ ~destroyed
  /\ closed' = TRUE
  /\ closing' = IF Waits THEN "waiting" ELSE "settled"
  /\ micro' = IF Waits THEN micro ELSE Append(micro, "closed")
  /\ UNCHANGED <<qVars, resuming, needDrain, pipelining, connVars, sock,
                 destroyed, destroying, immediate, stack, dispatched, reqVars,
                 histVars, broken>>

\* Mutant of BeginDestroy: the pending requests are failed but stay in the queue.
BeginDestroyKept ==
  /\ destroyed' = TRUE
  /\ destroying' = "waiting"
  /\ queue' = queue
  /\ stack' = Call(Fail(From(queue, pendingIdx)) \o <<Do("destroyEnd")>>)

\* destroy() and [kDestroy]: fail what is pending, then the connection.
BeginDestroy ==
  /\ destroyed' = TRUE
  /\ destroying' = "waiting"
  /\ queue' = Upto(queue, pendingIdx)
  /\ stack' = Call(Fail(From(queue, pendingIdx)) \o <<Do("destroyEnd")>>)

Destroy ==
  /\ UserMay("destroy") /\ ~destroyed
  /\ BeginDestroy
  /\ UNCHANGED <<runningIdx, pendingIdx, resuming, needDrain, pipelining,
                 connVars, sock, closed, closing, taskVars, dispatched,
                 reqVars, histVars, broken>>

----------------------------------------------------------------------------
(* The parts of functions that follow a call.                              *)

\* A callback of the user returns.
CallbackReturns ==
  /\ stack # <<>> /\ Top.at \in Callbacks
  /\ stack' = Caller
  /\ UNCHANGED <<qVars, resuming, needDrain, pipelining, connVars, sock,
                 lifeVars, taskVars, dispatched, reqVars, histVars, broken>>

\* request.onResponseError returns early.
ErrorSkips(r) == r = Null \/ r \in aborted

\* errorRequest for the next of the requests the frame holds.
FailNext ==
  /\ At("fail") /\ Top.reqs # <<>>
  /\ LET r == Head(Top.reqs)
         rest == Fail(Tail(Top.reqs))
     IN IF ErrorSkips(r)
        THEN stack' = Become(rest) /\ UNCHANGED <<aborted, ends>>
        ELSE /\ Aborts(r)
             /\ stack' = Become(<<Frame("error", <<r>>)>> \o rest)
  /\ UNCHANGED <<qVars, resuming, needDrain, pipelining, connVars, sock,
                 lifeVars, taskVars, dispatched, completed, bodyErr, wire,
                 sent, heads, broken>>

\* The end of onError.
CheckEmpty ==
  /\ At("checkEmpty")
  /\ Require(Size = 0, "kSize === 0")
  /\ stack' = Caller
  /\ UNCHANGED <<qVars, resuming, needDrain, pipelining, connVars, sock,
                 lifeVars, taskVars, dispatched, reqVars, histVars>>

\* Mutants of DestroyEnd: the callback does not wait for the socket; it is
\* never called.
DestroyEndEarly ==
  /\ At("destroyEnd")
  /\ ctx' = FALSE
  /\ sock' = IF ctx THEN Kill(sock, "other") ELSE sock
  /\ micro' = Append(micro, "destroyCallback")
  /\ stack' = Become(<<Do("resume")>>)
  /\ UNCHANGED <<qVars, resuming, needDrain, pipelining, connecting,
                 serverName, lifeVars, immediate, dispatched, reqVars,
                 histVars, broken>>
\* [kDestroy] after the pending requests were failed.
DestroyEnd ==
  /\ At("destroyEnd")
  /\ ctx' = FALSE
  /\ sock' = IF ctx THEN [Kill(sock, "other") EXCEPT !.onClose = @ \cup {"destroy"}]
             ELSE sock
  /\ micro' = IF ctx THEN micro ELSE Append(micro, "destroyCallback")
  /\ stack' = Become(<<Do("resume")>>)
  /\ UNCHANGED <<qVars, resuming, needDrain, pipelining, connecting,
                 serverName, lifeVars, immediate, dispatched, reqVars,
                 histVars, broken>>

\* The callback of [kDestroy] settles a close() that was waiting, and itself.
SettleDestroy(tasks) ==
  /\ closing' = IF closing = "waiting" THEN "settled" ELSE closing
  /\ micro' = tasks \o (IF closing = "waiting" THEN <<"closed">> ELSE <<>>)
                    \o <<"destroyed">>

DestroyCallback ==
  /\ At("destroyCallback")
  /\ SettleDestroy(micro)
  /\ stack' = Caller
  /\ UNCHANGED <<qVars, resuming, needDrain, pipelining, connVars, sock,
                 closed, destroyed, destroying, immediate, dispatched,
                 reqVars, histVars, broken>>

----------------------------------------------------------------------------
(* resume and _resume.                                                      *)

\* Mutant of Resume: kResuming is not tested.
ResumeNested ==
  /\ At("resume")
  /\ resuming' = 2
  /\ stack' = Become(<<Loop(FALSE)>>)
  /\ UNCHANGED <<qVars, needDrain, pipelining, connVars, sock, lifeVars,
                 taskVars, dispatched, reqVars, histVars, broken>>

\* resume(): nothing happens within another resume.
Resume ==
  /\ At("resume")
  /\ resuming' = 2
  /\ stack' = Become(IF resuming = 2 THEN <<>> ELSE <<Loop(FALSE)>>)
  /\ UNCHANGED <<qVars, needDrain, pipelining, connVars, sock, lifeVars,
                 taskVars, dispatched, reqVars, histVars, broken>>

LoopDestroyed ==
  /\ At("loop") /\ destroyed
  /\ Require(Pending = 0, "kPending === 0")
  /\ stack' = Goto("exit")
  /\ UNCHANGED <<qVars, resuming, needDrain, pipelining, connVars, sock,
                 lifeVars, taskVars, dispatched, reqVars, histVars>>

\* Mutant of LoopClosed: close() is not resolved.
LoopClosedSilent ==
  /\ At("loop") /\ ~destroyed /\ closing = "waiting" /\ Size = 0
  /\ stack' = Goto("exit")
  /\ UNCHANGED <<qVars, resuming, needDrain, pipelining, connVars, sock,
                 lifeVars, taskVars, dispatched, reqVars, histVars, broken>>

LoopClosed ==
  /\ At("loop") /\ ~destroyed /\ closing = "waiting" /\ Size = 0
  /\ closing' = "settled"
  /\ micro' = Append(micro, "closed")
  /\ stack' = Goto("exit")
  /\ UNCHANGED <<qVars, resuming, needDrain, pipelining, connVars, sock,
                 closed, destroyed, destroying, immediate, dispatched,
                 reqVars, histVars, broken>>

LoopContext ==
  /\ At("loop") /\ ~destroyed /\ ~(closing = "waiting" /\ Size = 0)
  /\ IF ctx THEN sock' \in ResumeH1(sock) ELSE UNCHANGED sock
  /\ stack' = Goto("busy")
  /\ UNCHANGED <<qVars, resuming, needDrain, pipelining, connVars, lifeVars,
                 taskVars, dispatched, reqVars, histVars, broken>>

LoopBusy ==
  /\ At("busy") /\ (Busy \/ needDrain # 2)
  /\ needDrain' = IF Busy THEN 2 ELSE needDrain
  /\ stack' = Goto("pick")
  /\ UNCHANGED <<qVars, resuming, pipelining, connVars, sock, lifeVars,
                 taskVars, dispatched, reqVars, histVars, broken>>

\* 'drain' is emitted at once, or by a microtask when the user is in the call.
LoopDrain ==
  /\ At("busy") /\ ~Busy /\ needDrain = 2
  /\ needDrain' = IF Top.sync THEN 1 ELSE 0
  /\ micro' = IF Top.sync THEN Append(micro, "drain") ELSE micro
  /\ stack' = (IF Top.sync THEN <<>> ELSE <<Do("drain")>>) \o Goto("loop")
  /\ UNCHANGED <<qVars, resuming, pipelining, connVars, sock, lifeVars,
                 immediate, dispatched, reqVars, histVars, broken>>

\* The request the loop looks at next, if the pipeline has room for it.
HasCandidate == Pending > 0 /\ Running < MaxConcurrent /\ PendingHead # Null

Renames(r) == Secure /\ serverName # Opt[r].name

\* Why the loop returns with a request left.
MustWait(r) ==
  IF Renames(r) THEN Running > 0
  ELSE \/ connecting # "no"
       \/ ctx /\ (~Live \/ BusyFor(r))

PickNothing ==
  /\ At("pick")
  /\ HasCandidate => PendingHead \notin aborted /\ MustWait(PendingHead)
  /\ stack' = Goto("exit")
  /\ UNCHANGED <<qVars, resuming, needDrain, pipelining, connVars, sock,
                 lifeVars, taskVars, dispatched, reqVars, histVars, broken>>

PickAborted ==
  /\ At("pick") /\ HasCandidate /\ PendingHead \in aborted
  /\ queue' = WithoutAt(queue, pendingIdx)
  /\ stack' = Goto("loop")
  /\ UNCHANGED <<runningIdx, pendingIdx, resuming, needDrain, pipelining,
                 connVars, sock, lifeVars, taskVars, dispatched, reqVars,
                 histVars, broken>>

\* The request wants another server name: the connection is given up.
PickRename ==
  /\ At("pick") /\ HasCandidate /\ PendingHead \notin aborted
  /\ Renames(PendingHead) /\ Running <= 0
  /\ serverName' = Opt[PendingHead].name
  /\ sock' = IF ctx THEN [Kill(sock, "info") EXCEPT !.onClose = @ \cup {"rename"}]
             ELSE sock
  /\ UNCHANGED <<qVars, resuming, needDrain, pipelining, connecting, ctx,
                 lifeVars, taskVars, stack, dispatched, reqVars, histVars,
                 broken>>

\* connect()
PickConnect ==
  /\ At("pick") /\ HasCandidate /\ PendingHead \notin aborted
  /\ ~Renames(PendingHead) /\ connecting = "no" /\ ~ctx
  /\ connecting' = "dialing"
  /\ serverName' = Opt[PendingHead].name
  /\ sock' = [NoSock EXCEPT !.name = Opt[PendingHead].name]
  /\ stack' = Goto("exit")
  /\ UNCHANGED <<qVars, resuming, needDrain, pipelining, ctx, lifeVars,
                 taskVars, dispatched, reqVars, histVars, broken>>

\* write(): a body that contradicts its content-length fails the request, a
\* body that has failed aborts it, otherwise onRequestStart is called.
PickWrite ==
  /\ At("pick") /\ HasCandidate /\ PendingHead \notin aborted
  /\ ~MustWait(PendingHead) /\ ~Renames(PendingHead) /\ ctx
  /\ LET r == PendingHead
         write == Moved("write", <<r>>)
         splice == Moved("splice", <<>>)
     IN IF Opt[r].body = "mismatch"
        THEN /\ stack' = Become(Fail(<<r>>) \o <<splice>>)
             /\ UNCHANGED <<sock, aborted, ends>>
        ELSE /\ sock' = [sock EXCEPT !.idle = 0]
             /\ IF r \in bodyErr
                THEN /\ Aborts(r)
                     /\ stack' = Become(<<Frame("error", <<r>>),
                                          Do("abortSocket"), splice>>)
                ELSE /\ stack' = Become(<<Frame("start", <<r>>), write>>)
                     /\ UNCHANGED <<aborted, ends>>
  /\ UNCHANGED <<qVars, resuming, needDrain, pipelining, connVars, lifeVars,
                 taskVars, dispatched, completed, bodyErr, wire, sent, heads,
                 broken>>

\* write() returned true or false.
Advance ==
  /\ At("advance")
  /\ pendingIdx' = pendingIdx + 1
  /\ stack' = Goto("loop")
  /\ UNCHANGED <<queue, runningIdx, resuming, needDrain, pipelining, connVars,
                 sock, lifeVars, taskVars, dispatched, reqVars, histVars,
                 broken>>

Splice ==
  /\ At("splice")
  /\ queue' = WithoutAt(queue, pendingIdx)
  /\ stack' = Goto("loop")
  /\ UNCHANGED <<runningIdx, pendingIdx, resuming, needDrain, pipelining,
                 connVars, sock, lifeVars, taskVars, dispatched, reqVars,
                 histVars, broken>>

\* Mutants of Compact: the indices are swapped; one request too many is cut off.
CompactSwapped ==
  /\ queue' = From(queue, runningIdx)
  /\ runningIdx' = runningIdx - pendingIdx
  /\ pendingIdx' = 0
\* The complete part of the queue is cut off.
Compact ==
  /\ queue' = From(queue, runningIdx)
  /\ pendingIdx' = pendingIdx - runningIdx
  /\ runningIdx' = 0

\* The end of resume().
Exit ==
  /\ At("exit")
  /\ resuming' = 0
  /\ IF runningIdx > CompactAt THEN Compact ELSE UNCHANGED qVars
  /\ stack' = Caller
  /\ UNCHANGED <<needDrain, pipelining, connVars, sock, lifeVars, taskVars,
                 dispatched, reqVars, histVars, broken>>

----------------------------------------------------------------------------
(* The connector's answer.                                                  *)

\* The client was destroyed meanwhile: the socket or the error is dropped, and
\* kConnecting stays set.
ConnectTooLate ==
  /\ Quiet /\ connecting = "dialing" /\ destroyed
  /\ connecting' = "left"
  /\ stack' = Call(<<Do("resume")>>)
  /\ UNCHANGED <<qVars, resuming, needDrain, pipelining, ctx, serverName,
                 sock, lifeVars, taskVars, dispatched, reqVars, histVars,
                 broken>>

ConnectOK ==
  /\ Quiet /\ connecting = "dialing" /\ ~destroyed
  /\ connecting' = "no"
  /\ ctx' = TRUE
  /\ sock' = Connected(sock)
  /\ stack' = Call(<<Do("connect"), Do("resume")>>)
  /\ UNCHANGED <<qVars, resuming, needDrain, pipelining, serverName, lifeVars,
                 taskVars, dispatched, reqVars, histVars, broken>>

\* handleConnectError: an error of class e, or a certificate for another name.
ConnectFail(e) ==
  /\ Quiet /\ connecting = "dialing" /\ ~destroyed
  /\ connecting' = "no"
  /\ LET tail == <<Do("connectionError"), Do("resume")>>
     IN IF e = "altname"
        THEN /\ queue' = Upto(queue, runningIdx) \o From(queue, pendingIdx)
             /\ pendingIdx' = runningIdx
             /\ stack' = Call(Fail(RunningPart) \o <<Do("failAltname")>> \o tail)
        ELSE /\ queue' = QueueAfterError(e)
             /\ stack' = Call(ErrorFrames(e) \o tail)
             /\ UNCHANGED pendingIdx
  /\ UNCHANGED <<runningIdx, resuming, needDrain, pipelining, ctx, serverName,
                 sock, lifeVars, taskVars, dispatched, reqVars, histVars,
                 broken>>

\* Mutant of FailAltname: the request is looked up after it was removed.
FailAltnameSwapped ==
  /\ At("failAltname")
  /\ IF Pending > 0 /\ Opt[PendingHead].name = serverName
     THEN /\ queue' = WithoutAt(queue, pendingIdx)
          /\ stack' = Call(Fail(<<Slot(queue, pendingIdx + 1)>>))
     ELSE stack' = Caller /\ UNCHANGED queue
  /\ UNCHANGED <<runningIdx, pendingIdx, resuming, needDrain, pipelining,
                 connVars, sock, lifeVars, taskVars, dispatched, reqVars,
                 histVars, broken>>

\* Requests for the rejected name are failed one by one.
FailAltname ==
  /\ At("failAltname")
  /\ IF Pending > 0 /\ Opt[PendingHead].name = serverName
     THEN /\ queue' = WithoutAt(queue, pendingIdx)
          /\ stack' = Call(Fail(<<PendingHead>>))
     ELSE stack' = Caller /\ UNCHANGED queue
  /\ UNCHANGED <<runningIdx, pendingIdx, resuming, needDrain, pipelining,
                 connVars, sock, lifeVars, taskVars, dispatched, reqVars,
                 histVars, broken>>

----------------------------------------------------------------------------
(* Tasks.                                                                   *)

NextTask(task) == stack = <<>> /\ micro # <<>> /\ Head(micro) = task

TaskResume ==
  /\ NextTask("resume")
  /\ resuming' = 2
  /\ micro' = Tail(micro)
  /\ stack' = <<Loop(FALSE)>>
  /\ UNCHANGED <<qVars, needDrain, pipelining, connVars, sock, lifeVars,
                 immediate, dispatched, reqVars, histVars, broken>>

\* emitDrain
TaskDrain ==
  /\ NextTask("drain")
  /\ needDrain' = 0
  /\ micro' = Tail(micro)
  /\ stack' = <<Do("drain")>>
  /\ UNCHANGED <<qVars, resuming, pipelining, connVars, sock, lifeVars,
                 immediate, dispatched, reqVars, histVars, broken>>

\* The queue of a closed client is empty: close() goes on with destroy().
TaskClosed ==
  /\ NextTask("closed")
  /\ micro' = Tail(micro)
  /\ closing' = IF destroying = "done" THEN "done" ELSE "joined"
  /\ IF destroyed
     THEN UNCHANGED <<destroyed, destroying, queue, stack>>
     ELSE BeginDestroy
  /\ UNCHANGED <<runningIdx, pendingIdx, resuming, needDrain, pipelining,
                 connVars, sock, closed, immediate, dispatched, reqVars,
                 histVars, broken>>

TaskDestroyCallback ==
  /\ NextTask("destroyCallback")
  /\ SettleDestroy(Tail(micro))
  /\ UNCHANGED <<qVars, resuming, needDrain, pipelining, connVars, sock,
                 closed, destroyed, destroying, immediate, stack, dispatched,
                 reqVars, histVars, broken>>

\* onDestroyed and, behind it, onClosed: the user's callbacks.
TaskDestroyed ==
  /\ NextTask("destroyed")
  /\ micro' = Tail(micro)
  /\ destroying' = "done"
  /\ closing' = IF closing = "joined" THEN "done" ELSE closing
  /\ UNCHANGED <<qVars, resuming, needDrain, pipelining, connVars, sock,
                 closed, destroyed, immediate, stack, dispatched, reqVars,
                 histVars, broken>>

\* setImmediate(client[kResume])
ImmediateResume ==
  /\ Quiet /\ immediate
  /\ immediate' = FALSE
  /\ stack' = Call(<<Do("resume")>>)
  /\ UNCHANGED <<qVars, resuming, needDrain, pipelining, connVars, sock,
                 lifeVars, micro, dispatched, reqVars, histVars, broken>>

----------------------------------------------------------------------------
UserStep ==
  \/ \E r \in Requests : Dispatch(r) \/ DispatchRefused(r) \/ Abort(r)
  \/ \E value \in Pipelinings : SetPipelining(value)
  \/ Close \/ Destroy

FrameStep ==
  \/ CallbackReturns \/ FailNext \/ CheckEmpty \/ DestroyEnd \/ DestroyCallback
  \/ Resume \/ LoopDestroyed \/ LoopClosed \/ LoopContext \/ LoopBusy
  \/ LoopDrain \/ PickNothing \/ PickAborted \/ PickRename \/ PickConnect
  \/ PickWrite \/ WriteHead \/ Advance \/ Splice \/ Exit \/ FailAltname
  \/ AbortSocket \/ EndBody \/ WriterFail \/ AfterHeaders \/ Complete
  \/ AfterEnd \/ UpgradeCall \/ Upgraded \/ CloseEnd

TaskStep ==
  TaskResume \/ TaskDrain \/ TaskClosed \/ TaskDestroyCallback \/ TaskDestroyed

Connector ==
  \/ ConnectTooLate \/ ConnectOK
  \/ "connectSocket" \in Faults /\ ConnectFail("socket")
  \/ "connectOther" \in Faults /\ ConnectFail("other")
  \/ "altname" \in Faults /\ ConnectFail("altname")

Answer ==
  \/ \E keep, short \in BOOLEAN : ResponseHead(keep, short)
  \/ ResponseEnd \/ ResponseUpgrade \/ HeadersTimeout \/ BodyTimeout

Disturbance ==
  \/ ResponseData \/ KeepAliveTimeout \/ SocketEnd \/ SocketReset
  \/ \E e \in {"socket", "other"} : BadBytes(e)
  \/ BodyError \/ \E r \in Requests : QueuedBodyError(r)

Next ==
  /\ broken = "none"
  /\ \/ UserStep \/ FrameStep \/ TaskStep \/ Connector \/ Answer \/ Disturbance
     \/ ResponseResumed \/ BodyEnd \/ IdleValidated \/ ImmediateResume
     \/ SocketError \/ SocketClose

Spec == Init /\ [][Next]_vars

\* What the event loop, the peer's timers and well-behaved user code owe:
\* code that runs goes on, tasks and events are delivered, the connector
\* answers, a response goes on or its timer fires, streams and pauses end.
Fairness ==
  /\ WF_vars(broken = "none" /\ FrameStep)
  /\ WF_vars(broken = "none" /\ TaskStep)
  /\ WF_vars(broken = "none" /\ Connector)
  /\ SF_vars(broken = "none" /\ Answer)
  /\ WF_vars(broken = "none" /\ ResponseResumed)
  /\ WF_vars(broken = "none" /\ BodyEnd)
  /\ WF_vars(broken = "none" /\ IdleValidated)
  /\ WF_vars(broken = "none" /\ ImmediateResume)
  /\ WF_vars(broken = "none" /\ SocketError)
  /\ WF_vars(broken = "none" /\ SocketClose)

FairSpec == Spec /\ Fairness

----------------------------------------------------------------------------
(* Invariants.                                                              *)

\* Every variable has its type (the fields of client.js:355-399).
TypeOK ==
  /\ queue \in Seq(Requests \cup {Null})
  /\ runningIdx \in Nat /\ pendingIdx \in Int
  /\ resuming \in 0..2 /\ needDrain \in 0..2
  /\ pipelining \in Nat
  /\ connecting \in {"no", "dialing", "left"}
  /\ ctx \in BOOLEAN /\ serverName \in Names \cup {NoName}
  /\ sock \in Socks
  /\ closed \in BOOLEAN /\ destroyed \in BOOLEAN
  /\ closing \in {"open", "waiting", "settled", "joined", "done"}
  /\ destroying \in {"no", "waiting", "done"}
  /\ micro \in Seq(Tasks) /\ immediate \in BOOLEAN
  /\ stack \in Seq(Frames)
  /\ dispatched \in Seq(Requests)
  /\ aborted \subseteq Requests /\ completed \subseteq Requests
  /\ bodyErr \subseteq Requests
  /\ wire \in Seq(Requests)
  /\ sent \in [Requests -> Nat] /\ heads \in [Requests -> Nat]
  /\ ends \in [Requests -> Nat]

AtRest == stack = <<>>

\* resume() does not run within resume(): kResuming is 2 exactly while one
\* frame of the call stack is in it.
ResumeNotNested ==
  /\ \A i, j \in DOMAIN stack :
       stack[i].at \in LoopLabels /\ stack[j].at \in LoopLabels => i = j
  /\ resuming = 2 <=> \E i \in DOMAIN stack : stack[i].at \in LoopLabels

\* No assert() of client.js and client-h1.js fails.
NoAssertFails == broken = "none"

\* Between jobs the running part of kQueue is exactly what was written to the
\* socket and is unanswered, in that order, so that the parser gives each
\* response to the request it answers (client-h1.js reads kRunningIdx only).
QueueIsOnWire == AtRest /\ sock.st # "none" => wire = RunningPart

\* A request without an outcome is in the running or pending part of the
\* queue, so that something will still end it.
NoRequestLost ==
  AtRest => \A r \in Range(dispatched) :
              ends[r] = 0 => r \in Range(From(queue, runningIdx))

\* What may share a connection.  Nothing with a response nobody wants any more,
\* since an abort gives the connection up;
NothingUnwanted == AtRest /\ Live => \A r \in Range(wire) : r \notin aborted

\* behind the first unanswered request only what can be retried and does not
\* take the connection over (busy(request));
NothingHeldUp ==
  \A i \in 2..Len(wire) :
    Opt[wire[i]].idempotent /\ ~IsUpgrade(wire[i]) /\ ~HasStream(wire[i])

\* no more requests than maxRequestsPerClient;
WithinMaxRequests == MaxRequests > 0 => sock.counter <= MaxRequests

\* A request for name n was aborted or has failed.
AbortedFor(n) == \E a \in aborted : Opt[a].name = n

\* and over TLS only requests for kServerName, which is the name the connection
\* was opened for, unless a request for that name was given up: the connector
\* may have been started for it, and the next in the queue gets what it opens.
OneServerName ==
  Secure => \A r \in Range(wire) :
    Opt[r].name = serverName /\ (Opt[r].name = sock.name \/ AbortedFor(sock.name))

ConnectionShared ==
  NothingUnwanted /\ NothingHeldUp /\ WithinMaxRequests /\ OneServerName

\* The requests dispatched after r that were aborted or have failed.
AbortedBehind(r) ==
  {dispatched[j] : j \in {k \in DOMAIN dispatched :
     dispatched[k] \in aborted /\ \E i \in 1..(k - 1) : dispatched[i] = r}}

\* A request is not repeated without a cause.  An abort gives the connection up
\* for all that is on it, so each further time a request that is not idempotent
\* is written, and each further final head a request is given, goes back to a
\* request behind it that was aborted; a request that is idempotent is repeated
\* only for one that has ended, too.  Requests are first written in the order
\* they were dispatched in, leaving out those that ended before, and those that
\* are repeated stay in that order on the wire.
SentInTurn ==
  /\ \A r \in Requests :
       LET causes == Cardinality(AbortedBehind(r))
           over == Cardinality({q \in Requests \ {r} : ends[q] > 0})
       IN /\ heads[r] - 1 <= causes
          /\ sent[r] - 1 <= IF Opt[r].idempotent THEN over ELSE causes
  /\ \A i, j \in DOMAIN dispatched :
       i < j /\ sent[dispatched[j]] > 0 =>
         sent[dispatched[i]] > 0 \/ ends[dispatched[i]] > 0
  /\ \A i, j \in DOMAIN dispatched : \A m, n \in DOMAIN wire :
       wire[m] = dispatched[i] /\ wire[n] = dispatched[j] /\ i < j => m < n

\* A live connection that waits for a response has the timer armed that will
\* end the wait: headersTimeout or bodyTimeout.
WaitIsTimed ==
  AtRest /\ Live /\ Running > 0 =>
    sock.timer = IF sock.midBody THEN "body" ELSE "headers"

\* A request gets at most one terminal callback: onResponseEnd, a finished
\* onRequestUpgrade or onResponseError.  destroy() reports only after every
\* request had its own, close() after destroy() did, and close() moves on to
\* destroy() only when nothing is left.
EndsAreOver ==
  /\ \A r \in Requests : ends[r] <= 1
  /\ \/ destroying = "done" \/ closing = "done"
     \/ AtRest /\ closing = "settled" /\ ~destroyed
     => \A r \in Range(dispatched) : ends[r] = 1

----------------------------------------------------------------------------
(* Action properties.                                                       *)

\* An idle keep-alive socket that was used before gets a request only after
\* the event loop had a turn to report its end (scheduleIdleSocketValidation).
WritesToValidated ==
  [][At("pick") /\ PickWrite /\ Running = 0 /\ sock.used => sock.idle = 2]_vars

----------------------------------------------------------------------------
(* Liveness.                                                                *)

\* Every dispatched request gets an outcome.
EveryRequestEnds ==
  \A r \in Requests : r \in Range(dispatched) ~> ends[r] > 0

\* A user who was told to wait for 'drain' is not left waiting, and close()
\* and destroy() report their end.
CallersAreTold ==
  /\ needDrain = 2 ~> needDrain = 0 \/ destroyed
  /\ closed ~> closing = "done"
  /\ destroyed ~> destroying = "done"
=============================================================================

---------------------------- MODULE ClientState ----------------------------
(***************************************************************************)
(* The state of undici's Client on one HTTP/1.1 origin, shared by the      *)
(* module of the connection (ClientH1: lib/dispatcher/client-h1.js) and    *)
(* the module of the queue and the life cycle (Client: lib/dispatcher/     *)
(* client.js and dispatcher-base.js).                                      *)
(*                                                                         *)
(* JavaScript runs one job to completion, but undici calls user code in    *)
(* the middle of its own jobs (handler callbacks, 'drain', 'connect',      *)
(* 'disconnect'), and that code may call the client again.  The model      *)
(* therefore keeps the call stack of the running job: "stack" is a         *)
(* sequence of frames, the innermost first; a frame at a label of          *)
(* Callbacks is user code that is running, any other frame is the rest of  *)
(* a function of undici.  Events of the socket, timers and microtasks      *)
(* start only when the stack is empty.                                     *)
(***************************************************************************)
EXTENDS Integers, Sequences, FiniteSets, SequencesExt

CONSTANTS
  Requests,      \* the requests the user may dispatch, each at most once
  Null,          \* a cleared slot of kQueue
  Names, NoName, \* TLS server names, and kServerName before the first one
  Opt,           \* [Requests -> Options]: what each request asks for
  Pipelining,    \* the initial kPipelining
  Pipelinings,   \* the values the pipelining setter is called with
  MaxRequests,   \* kMaxRequests, 0 when unset
  CompactAt,     \* resume() compacts kQueue beyond this index (256 in the code)
  Secure,        \* the origin is https:
  UserCalls,     \* <<where, operation>>: what the user calls, and from where
  Faults         \* the ways the peer, the network and bodies may misbehave

Methods == {"GET", "HEAD", "POST", "UPGRADE", "CONNECT"}

\* A Request as its constructor leaves it.  UPGRADE is a GET with the upgrade
\* option; POST stands for the methods that expect a payload; a "mismatch"
\* body contradicts the content-length header.
Options == [method: Methods, idempotent: BOOLEAN, blocking: BOOLEAN,
            reset: {"unset", "on", "off"},
            body: {"none", "buffer", "stream", "mismatch"}, name: Names]

\* Labels of frames that are user code.
Callbacks == {"start", "sent", "headers", "end", "upgrade", "error",
              "drain", "connect", "disconnect", "connectionError"}

\* Labels of frames that are about one request.
RequestLabels == {"start", "headers", "end", "upgrade", "error", "write",
                  "afterHeaders", "upgradeCall", "upgraded"}

\* Labels of the frame of resume().
LoopLabels == {"loop", "busy", "pick", "write", "advance", "splice", "exit"}

Labels == Callbacks \cup LoopLabels \cup
  {"resume", "fail", "failAltname", "checkEmpty", "destroyEnd", "closeEnd",
   "destroyCallback", "abortSocket", "afterHeaders", "complete", "afterEnd",
   "upgradeCall", "upgraded", "endBody", "writerFail"}

Operations == {"dispatch", "abort", "close", "destroy", "pipelining"}

AllFaults == {"fin", "reset", "bytes", "connectSocket", "connectOther",
              "altname", "headersTimeout", "bodyTimeout", "idleTimeout",
              "bodyError", "pause", "noKeepAlive", "shortKeepAlive"}

Tasks == {"resume", "drain", "closed", "destroyCallback", "destroyed"}

ASSUME OptAssumption == Opt \in [Requests -> Options]
ASSUME NullAssumption == Null \notin Requests /\ NoName \notin Names
ASSUME NumberAssumption ==
  /\ Pipelining \in Nat /\ Pipelinings \subseteq Nat
  /\ MaxRequests \in Nat /\ CompactAt \in Nat
ASSUME FlagAssumption == Secure \in BOOLEAN
ASSUME EnvironmentAssumption ==
  /\ UserCalls \subseteq (Callbacks \cup {"top"}) \X Operations
  /\ Faults \subseteq AllFaults

VARIABLES
  queue,       \* kQueue: complete | running | pending
  runningIdx,  \* kRunningIdx
  pendingIdx,  \* kPendingIdx
  resuming,    \* kResuming: 0 idle, 1 scheduled, 2 resuming
  needDrain,   \* kNeedDrain: 0 idle, 1 scheduled, 2 owed
  pipelining,  \* kPipelining
  connecting,  \* kConnecting: "left" is true after the connector has answered
  ctx,         \* kHTTPContext is set
  serverName,  \* kServerName
  sock,        \* kSocket, its flags and its parser
  closed,      \* kClosed
  destroyed,   \* kDestroyed
  closing,     \* how far close() got: its promise chain and kClosedResolve
  destroying,  \* how far destroy() got
  micro,       \* the microtask queue
  immediate,   \* setImmediate(client[kResume]) is outstanding
  stack,       \* the frames of the running job
  dispatched,  \* every request given to dispatch(), in order
  aborted,     \* request.aborted
  completed,   \* request.completed
  bodyErr,     \* request.error: the body failed before the request started
  wire,        \* history: requests of this socket not yet answered, in order
  sent,        \* history: how often each request was written to a live socket
  heads,       \* history: how many final response heads each request was given
  ends,        \* history: how many terminal callbacks each request was given
  broken       \* the assertion of the code that failed, or "none"

qVars     == <<queue, runningIdx, pendingIdx>>
connVars  == <<connecting, ctx, serverName>>
lifeVars  == <<closed, destroyed, closing, destroying>>
taskVars  == <<micro, immediate>>
reqVars   == <<aborted, completed, bodyErr>>
histVars  == <<wire, sent, heads, ends>>
vars == <<qVars, resuming, needDrain, pipelining, connVars, sock, lifeVars,
          taskVars, stack, dispatched, reqVars, histVars, broken>>

----------------------------------------------------------------------------
(* kQueue and its getters.                                                  *)

\* Array.prototype.splice(i) removes From(q, i) and leaves Upto(q, i);
\* splice(i, 1) leaves WithoutAt(q, i).  Indices outside q are clamped.
From(q, i) == SubSeq(q, IF i < 0 THEN 1 ELSE i + 1, Len(q))
Upto(q, i) == SubSeq(q, 1, IF i < Len(q) THEN i ELSE Len(q))
WithoutAt(q, i) == Upto(q, i) \o From(q, i + 1)

\* q[i], undefined beyond the end.
Slot(q, i) == IF i + 1 \in DOMAIN q THEN q[i + 1] ELSE Null

Pending == Len(queue) - pendingIdx
Running == pendingIdx - runningIdx
Size    == Len(queue) - runningIdx

\* client[kQueue][client[kRunningIdx]] and client[kQueue][client[kPendingIdx]]
RunningHead == Slot(queue, runningIdx)
PendingHead == Slot(queue, pendingIdx)

\* The running part: splice(kRunningIdx, kRunning).
RunningPart == Upto(From(queue, runningIdx), Running)

MaxConcurrent == IF pipelining = 0 THEN 1 ELSE pipelining

----------------------------------------------------------------------------
(* The socket.                                                              *)

\* st: "dying" is destroyed with its 'error' event outstanding, "errored" is
\* destroyed with only its 'close' event outstanding.  err: the class of the
\* error it was destroyed with (UND_ERR_INFO, UND_ERR_SOCKET, any other).
\* midBody: the parser has a final status (parser.statusCode) and the message
\* is not complete.  keep: parser.shouldKeepAlive.  timer: parser.timeoutType.
\* name: the server name it was opened for.  onClose: 'close' listeners.
NoSock ==
  [st |-> "none", err |-> "none", name |-> NoName, writing |-> FALSE,
   reset |-> FALSE, blocking |-> FALSE, idle |-> 0, used |-> FALSE,
   counter |-> 0, midBody |-> FALSE, keep |-> FALSE, paused |-> FALSE,
   timer |-> "none", onClose |-> {}]

Socks ==
  [st: {"none", "live", "dying", "errored"},
   err: {"none", "info", "socket", "other"}, name: Names \cup {NoName},
   writing: BOOLEAN, reset: BOOLEAN, blocking: BOOLEAN, idle: 0..2,
   used: BOOLEAN, counter: Nat, midBody: BOOLEAN, keep: BOOLEAN,
   paused: BOOLEAN, timer: {"none", "headers", "body", "keepAlive"},
   onClose: SUBSET {"rename", "destroy"}]

Live == sock.st = "live"

\* util.destroy(socket, err): nothing happens to a destroyed socket.
Kill(s, e) == IF s.st = "live" THEN [s EXCEPT !.st = "dying", !.err = e] ELSE s

----------------------------------------------------------------------------
(* The call stack.                                                          *)

Frames ==
  [at: Labels \ RequestLabels, reqs: Seq(Requests \cup {Null}), sync: BOOLEAN]
    \cup [at: RequestLabels, reqs: {<<r>> : r \in Requests}, sync: BOOLEAN]

Frame(at, rs) == [at |-> at, reqs |-> rs, sync |-> FALSE]
Do(at) == Frame(at, <<>>)
Top == Head(stack)
At(label) == stack # <<>> /\ Top.at = label
Caller == Tail(stack)

Call(fs) == fs \o stack                             \* call fs in order
Become(fs) == fs \o Caller                          \* the frame ends in fs
Moved(label, rs) == [at |-> label, reqs |-> rs, sync |-> Top.sync]
Goto(label) == <<Moved(label, <<>>)>> \o Caller

\* errorRequest for each of rs, in order.
Fail(rs) == IF rs = <<>> THEN <<>> ELSE <<Frame("fail", rs)>>

\* Every event but a call of the user starts on an empty stack, and every
\* one but a microtask after the microtasks.
Quiet == stack = <<>> /\ micro = <<>>
UserMay(op) == <<IF stack = <<>> THEN "top" ELSE Top.at, op>> \in UserCalls

\* assert(cond): its failure is recorded and ends the behaviour.
Require(cond, name) == broken' = IF cond THEN broken ELSE name

----------------------------------------------------------------------------
(* Requests.                                                                *)

\* The abort closure of writeH1 was made for the current socket: the request
\* is unanswered on it, or is being started on it.
OnSocket(r) ==
  \/ r \in Range(wire)
  \/ \E i \in DOMAIN stack : stack[i].at = "write" /\ stack[i].reqs = <<r>>

\* request.onResponseError is called and gets through: the request is aborted.
Aborts(r) ==
  /\ aborted' = aborted \cup {r}
  /\ ends' = [ends EXCEPT ![r] = @ + 1]

\* The abort closure: onResponseError, then the socket is destroyed.
AbortFrames(r) ==
  <<Frame("error", <<r>>)>> \o
  IF OnSocket(r) THEN <<Do("abortSocket")>> ELSE <<>>

InFlight(r) == r \notin aborted /\ r \notin completed
=============================================================================

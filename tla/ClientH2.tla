------------------------------ MODULE ClientH2 ------------------------------
(***************************************************************************)
(* A Client on an HTTP/2 origin (lib/dispatcher/client-h2.js with the      *)
(* queue, the resume loop and the connecting of lib/dispatcher/client.js): *)
(* one session at a time, a stream for each running request, requests that *)
(* return to the queue after GOAWAY, REFUSED_STREAM or the loss of a       *)
(* socket, upgrades, idle and "no streams" timeouts.                       *)
(*                                                                         *)
(* What Node does is external.  An event of Node is a job, which runs when *)
(* "stack" (what is left of the functions of undici that are running) and  *)
(* "ticks" (process.nextTick) are empty; a session or a socket that is     *)
(* destroyed ends its streams, and itself, by ticks.  Errors are "soft"    *)
(* (UND_ERR_INFO, UND_ERR_SOCKET: see OnError) or "hard" (any other).      *)
(***************************************************************************)
EXTENDS Integers, Sequences, FiniteSets, SequencesExt, FiniteSetsExt

CONSTANTS
  Kinds,       \* the cases to check: the kind of each request, in the order
               \* they are dispatched, and the bounds on faults and on the
               \* chunks of a response
  Limits,      \* the SETTINGS_MAX_CONCURRENT_STREAMS a peer may send
  StartLimit,  \* kMaxConcurrentStreams before the peer's settings
  Pipelining,  \* the pipelining option, 1 by default
  DestroyLate  \* destroy() may come while requests run on a session that
               \* received GOAWAY, which the code is not made for

\* An "upgrade" is a websocket or CONNECT; the body of a "stream" request is
\* sent piece by piece and can not be sent again (canReplayRequest).
RequestKinds == {"plain", "stream", "upgrade"}

ASSUME KindAssumption ==
  \A k \in Kinds : k.of \in Seq(RequestKinds) /\ k.faults \in Nat /\ k.chunks \in Nat
ASSUME LimitAssumption == Limits \subseteq Nat /\ StartLimit \in Nat
ASSUME NumberAssumption == Pipelining \in Nat /\ DestroyLate \in BOOLEAN

VARIABLES
  kind,        \* which of Kinds
  h2,          \* the client, its sessions, streams and requests: see States
  dispatched,  \* requests 1..dispatched were given to dispatch()
  faults       \* what the peer, the network, bodies and the user broke off so far

vars == <<kind, h2, dispatched, faults>>

Requests == DOMAIN kind.of
Is(r, k) == kind.of[r] = k

\* closed, destroyed: the flags of the Http2Session; "over" once it emitted
\* 'close'.  last: the error it emits after the 'close' of its socket, "no" if
\* it does not wait for that.
Sessions ==
  [life: {"open", "closed", "destroyed", "over"},
   socket: {"open", "destroyed", "closed"}, last: {"no", "none", "soft", "hard"},
   goaway: BOOLEAN, settings: BOOLEAN, connect: BOOLEAN, open: Int,
   idle: BOOLEAN, noStreams: BOOLEAN]

\* node: a stream "ending" has its 'close' in ticks.  live: its state
\* (kRequestStreamState) is set.  heard: its listeners are attached, but for
\* that of 'close'.  counted: kHTTP2Session of the stream is set.  body: of the
\* request, "waiting" for 100 (Continue).  length, got: responseContentLength,
\* -1 for null, and bytesRead, in chunks.
Streams ==
  [req: Requests, ses: Nat, id: Nat, node: {"open", "ending", "gone"},
   live: BOOLEAN, heard: BOOLEAN, counted: BOOLEAN, response: BOOLEAN,
   finalized: BOOLEAN, body: {"waiting", "sending", "sent", "failed"},
   length: Int, got: Nat]

\* stream: kRequestStream, or 0.  closure: the stream of the abort closure the
\* handler was given last, 0 if it has none, -1 if it was given no closure.
\* heads, ends: history, the final heads and the outcomes the handler was given.
RequestStates ==
  [aborted: BOOLEAN, completed: BOOLEAN, refusals: Nat, retried: BOOLEAN,
   stream: Nat, closure: Int, heads: Nat, ends: Nat]

Ticks ==
  [at: {"stream", "session", "socket", "goaway"}, x: Nat,
   err: {"none", "soft", "hard", "refused"}, last: Nat]

\* queue: kQueue from kRunningIdx on.  running: kRunning.  current: the session
\* of kHTTP2Session, kSocket and kHTTPContext, or 0.  limit:
\* kMaxConcurrentStreams.  broken: an assertion failed.
States ==
  [queue: Seq(Requests), running: Nat, current: Nat, connecting: BOOLEAN,
   limit: Nat, destroyed: BOOLEAN, broken: BOOLEAN,
   ses: Seq(Sessions), str: Seq(Streams), req: [Requests -> RequestStates],
   ticks: Seq(Ticks), stack: Seq(Nat)]

TypeOK ==
  /\ kind \in Kinds /\ h2 \in States
  /\ dispatched \in 0..Len(kind.of) /\ faults \in 0..kind.faults

\* Entries of stack: resume(), or the end of completeRequestStream or
\* onUpgradeStreamClose for a stream.
Resume == 0

----------------------------------------------------------------------------
(* The queue and the requests, as functions of the state.                   *)

Size(h) == Len(h.queue)
Pending(h) == Size(h) - h.running
Over(h, r) == h.req[r].aborted \/ h.req[r].completed
CanReplay(r) == ~Is(r, "stream")

\* util.errorRequest
ErrorRequest(h, r) ==
  IF h.req[r].aborted THEN h
  ELSE [h EXCEPT !.req[r].aborted = TRUE, !.req[r].ends = @ + 1]

ErrorAll(h, rs) == FoldLeft(ErrorRequest, h, rs)

\* completeRequest
CompleteRequest(h, r) ==
  LET i == SelectInSeq(h.queue, LAMBDA q : q = r)
  IN IF i \in 1..h.running
     THEN [h EXCEPT !.queue = RemoveAt(@, i), !.running = @ - 1] ELSE h

\* onError of client.js
OnError(h, err) ==
  IF h.running = 0 /\ err \notin {"soft", "none"}
  THEN [ErrorAll(h, h.queue) EXCEPT !.queue = <<>>] ELSE h

Call(h, entries) == [h EXCEPT !.stack = entries \o @]

----------------------------------------------------------------------------
(* Streams and sessions.                                                    *)

Tick(at, x, err, last) == [at |-> at, x |-> x, err |-> err, last |-> last]
Later(h, ticks) == [h EXCEPT !.ticks = @ \o ticks]

OpenStreams(h, s) ==
  {i \in DOMAIN h.str : h.str[i].ses = s /\ h.str[i].node = "open"}

\* Node destroys the streams S: each emits 'error', if any, and 'close'.
EndStreams(h, S, err) ==
  LET order == SetToSortSeq(S, <)
  IN Later([h EXCEPT !.str = [i \in DOMAIN h.str |->
              IF i \in S THEN [h.str[i] EXCEPT !.node = "ending"] ELSE h.str[i]]],
           [k \in DOMAIN order |-> Tick("stream", order[k], err, 0)])

\* setHttp2IdleTimeout
SetIdle(h, s) ==
  IF h.current # s \/ h.ses[s].life # "open" THEN h
  ELSE [h EXCEPT !.ses[s].idle = (h.ses[s].open = 0 /\ Size(h) = 0)]

\* closeStreamSession
CloseStreamSession(h, i) ==
  LET s == h.str[i].ses
      g == [h EXCEPT !.str[i].counted = FALSE, !.ses[s].open = @ - 1]
  IN IF g.ses[s].open = 0 /\ (Size(g) = 0 \/ g.ses[s].goaway) THEN SetIdle(g, s) ELSE g

\* releaseRequestStream and releaseUpgradeStream
ReleaseStream(h, i) ==
  LET r == h.str[i].req
  IN IF ~h.str[i].live THEN h
     ELSE [h EXCEPT !.req[r].stream = IF @ = i THEN 0 ELSE @,
                    !.str[i].heard = @ /\ h.str[i].node # "open"]

\* clearRequestStream
ClearRequestStream(h, r) ==
  LET i == h.req[r].stream
      g == [h EXCEPT !.req[r].stream = 0]
  IN IF i = 0 THEN g ELSE ReleaseStream(g, i)

\* Mutant of SeverStream: the listeners of 'close' stay.
\* severRequestStream
SeverStream(h, i) ==
  IF i = 0 \/ ~h.str[i].live THEN h
  ELSE LET g == [h EXCEPT !.str[i].live = FALSE]
       IN IF g.str[i].counted THEN CloseStreamSession(g, i) ELSE g

\* detachRequestStreamForClose
DetachForClose(h, r) ==
  LET i == h.req[r].stream IN SeverStream(ClearRequestStream(h, r), i)

\* bindRequestToStream, and what writeH2 does with a new stream i.
Bound(h, r, i) == [ClearRequestStream(h, r) EXCEPT !.req[r].stream = i]

\* finalizeRequest; resume() follows unless it has been called.
Finalize(h, i) ==
  IF h.str[i].finalized THEN h
  ELSE Call(CompleteRequest([h EXCEPT !.str[i].finalized = TRUE], h.str[i].req),
            <<Resume>>)

\* The abort closure of writeH2 that belongs to stream i.
Abort(h, i, err) ==
  LET r == h.str[i].req
      g == ClearRequestStream(ErrorRequest(h, r), r)
  IN IF Over(h, r) THEN h
     ELSE Finalize(OnError(EndStreams(g, {i} \cap OpenStreams(g, h.str[i].ses), "none"),
                           err), i)

\* session.destroy(err), which destroys the socket.
DestroySession(h, s, err) ==
  LET dead == EndStreams([h EXCEPT !.ses[s].life = "destroyed"], OpenStreams(h, s), err)
  IN CASE h.ses[s].life \in {"destroyed", "over"} -> h
       [] h.ses[s].life \notin {"destroyed", "over"} /\ h.ses[s].socket = "open" ->
            Later([dead EXCEPT !.ses[s].socket = "destroyed", !.ses[s].last = err],
                  IF err = "none" THEN <<>> ELSE <<Tick("socket", s, err, 0)>>)
       [] OTHER -> Later(dead, <<Tick("session", s, err, 0)>>)

\* util.destroy(socket, err)
DestroySocket(h, s, err) ==
  IF h.ses[s].socket # "open" THEN h
  ELSE Later([h EXCEPT !.ses[s].socket = "destroyed"], <<Tick("socket", s, err, 0)>>)

\* client[kSocket], client[kHTTPContext] and client[kHTTP2Session] are cleared.
Leave(h, s) == [h EXCEPT !.current = IF @ = s THEN 0 ELSE @]

\* resetHttp2Session
ResetSession(h, s, err) ==
  LET g == Leave(h, s)
  IN DestroySocket(IF g.ses[s].life = "open" THEN DestroySession(g, s, err) ELSE g, s, err)

ClearTimers(h, s) == [h EXCEPT !.ses[s].idle = FALSE, !.ses[s].noStreams = FALSE]

----------------------------------------------------------------------------
(* The events of streams.                                                   *)

\* failUpgradeStream
FailUpgrade(h, i) ==
  IF h.str[i].response \/ Over(h, h.str[i].req) THEN h
  ELSE Abort(ReleaseStream(h, i), i, "soft")

\* completeRequestStream on 'close', or what is left of it after resume().
RequestStreamClosed(h, i) ==
  LET r == h.str[i].req
      released == ReleaseStream(h, i)
      g == IF Over(h, r) THEN released ELSE ErrorRequest(released, r)
  IN CASE ~h.str[i].live -> h
       [] h.str[i].live /\ h.str[i].finalized ->
            [CloseStreamSession(g, i) EXCEPT !.str[i].live = FALSE]
       [] OTHER -> Finalize(Call(g, <<i>>), i)

\* onUpgradeStreamClose, likewise.
UpgradeStreamClosed(h, i) ==
  LET g == [h EXCEPT !.str[i].live = FALSE]
      failing == ~h.str[i].response /\ ~Over(h, h.str[i].req)
  IN CASE ~h.str[i].counted -> h
       [] h.str[i].counted /\ h.str[i].live /\ failing -> FailUpgrade(Call(g, <<i>>), i)
       [] OTHER -> CloseStreamSession(g, i)

StreamClosed(h, i) ==
  IF Is(h.str[i].req, "upgrade") THEN UpgradeStreamClosed(h, i)
  ELSE RequestStreamClosed(h, i)

\* Mutant of MayRetryRefused: time and again.
MayAlwaysRetry(h, i) ==
  ~h.str[i].response /\ ~Over(h, h.str[i].req) /\ CanReplay(h.str[i].req)

\* retryRefusedStream does so once for each request.
MayRetryRefused(h, i) ==
  LET r == h.str[i].req
  IN ~h.str[i].response /\ ~Over(h, r) /\ ~h.req[r].retried /\ CanReplay(r)

RetryRefused(h, i) ==
  LET r == h.str[i].req
      g == CompleteRequest([DetachForClose(h, r) EXCEPT
             !.req[r].retried = TRUE, !.req[r].closure = 0, !.str[i].finalized = TRUE], r)
  IN Call([g EXCEPT !.queue = InsertAt(@, g.running + 1, r)], <<Resume>>)

\* The response is not as long as its head says.
LengthDiffers(h, i) == h.str[i].length \notin {-1, h.str[i].got}

\* onError and onUpgradeStreamError
StreamErrors(h, i, err) ==
  CASE ~h.str[i].live \/ ~h.str[i].heard -> h
    [] h.str[i].live /\ h.str[i].heard /\ Is(h.str[i].req, "upgrade") -> FailUpgrade(h, i)
    [] OTHER -> IF err = "refused" /\ MayRetryRefused(h, i) THEN RetryRefused(h, i)
                ELSE Abort(h, i, IF LengthDiffers(h, i) THEN "hard" ELSE err)

\* A stream that ends emits 'error', if any, and then 'close'.
StreamEnds(h, i, err) ==
  LET g == Call([h EXCEPT !.str[i].node = "gone"], <<i>>)
  IN IF err = "none" THEN g ELSE StreamErrors(g, i, err)

----------------------------------------------------------------------------
(* The events of sessions and sockets.                                      *)

\* Mutant of MayReplay: a response that has started is not looked at.
MayReplayAll(h, r) == CanReplay(r)

\* hasResponseStarted and canReplayRequest, before the stream is detached.
MayReplay(h, r) ==
  LET i == h.req[r].stream
  IN ~(i # 0 /\ h.str[i].live /\ h.str[i].response) /\ CanReplay(r)

\* registerGoAwayRefusal
MAX_GOAWAY_REPLAY_ATTEMPTS == 1
Replays(h, r) == MayReplay(h, r) /\ h.req[r].refusals + 1 <= MAX_GOAWAY_REPLAY_ATTEMPTS

\* What onHttp2SessionGoAway does with a request that was refused.
Refuse(h, r) ==
  LET i == h.req[r].stream
      detached == DetachForClose(h, r)
      closed == IF i = 0 \/ h.str[i].node # "open" THEN detached
                ELSE [detached EXCEPT !.str[i].node = "gone"]
      g == IF MayReplay(h, r) THEN [closed EXCEPT !.req[r].refusals = @ + 1] ELSE closed
  IN IF Replays(h, r) THEN g ELSE ErrorRequest(g, r)

\* getGoAwayPendingIdx: the running requests in front of the first that the
\* peer has not accepted.
Accepted(h, last) ==
  LET refused == {k \in 1..h.running :
        h.req[h.queue[k]].stream = 0 \/ h.str[h.req[h.queue[k]].stream].id > last}
  IN IF refused = {} THEN h.running ELSE Min(refused) - 1

\* Mutant of Requeued: what was pending behind the refused requests is dropped.
RequeuedOnly(h, keep, refused) ==
  SubSeq(h.queue, 1, keep) \o SelectSeq(refused, LAMBDA r : Replays(h, r))

\* The queue with the refused requests that are replayed first among the pending.
Requeued(h, keep, refused) ==
  SubSeq(h.queue, 1, keep) \o SelectSeq(refused, LAMBDA r : Replays(h, r))
    \o SubSeq(h.queue, h.running + 1, Size(h))

\* onHttp2SessionGoAway
GoAway(h, s, last) ==
  LET keep == Accepted(h, last)
      refused == SubSeq(h.queue, keep + 1, h.running)
      g == FoldLeft(Refuse, [h EXCEPT !.ses[s].goaway = TRUE], refused)
  IN IF h.ses[s].goaway THEN h
     ELSE Call([ClearTimers(Leave(g, s), s) EXCEPT
                 !.queue = Requeued(h, keep, refused), !.running = keep,
                 !.ses[s].life = IF @ = "open" THEN "closed" ELSE @], <<Resume>>)

\* onHttp2SessionClose
SessionClose(h, s) ==
  LET g == ClearTimers(Leave(h, s), s)
  IN IF ~h.destroyed THEN g
     ELSE [ErrorAll(g, g.queue) EXCEPT !.queue = <<>>, !.broken = @ \/ Pending(h) # 0]

\* The session emits 'error' (onHttp2SessionError), if any, and 'close'.
SessionEnds(h, s, err) ==
  SessionClose(IF h.ses[s].goaway THEN [h EXCEPT !.ses[s].life = "over"]
               ELSE OnError([h EXCEPT !.ses[s].life = "over"], err), s)

\* 'error' of the socket, which Node passes to the session; onHttp2SocketError.
SocketErrors(h, s, err) ==
  LET g == DestroySession(h, s, err) IN IF h.ses[s].goaway THEN g ELSE OnError(g, err)

\* Mutant of SocketIsStale: the close of a socket that was replaced counts.
SocketIsNeverStale(h, s) == FALSE

SocketIsStale(h, s) ==
  h.current # s /\ (h.ses[s].goaway \/ h.current # 0)

\* onHttp2SocketClose
SocketClose(h, s) ==
  IF SocketIsStale(h, s) THEN h
  ELSE Call([h EXCEPT !.current = 0, !.running = 0], <<Resume>>)

----------------------------------------------------------------------------
(* resume(), an iteration of its loop at a time.                            *)

Resuming == h2.stack # <<>> /\ Head(h2.stack) = Resume
Return(h) == [h EXCEPT !.stack = Tail(@)]

SocketOpen(h) == h.current # 0 /\ h.ses[h.current].socket = "open"

\* Mutant of NoStreamsAllowed: nobody waits for the peer.
NeverNoStreams(h) == FALSE

NoStreamsAllowed(h) == h.limit = 0 /\ h.running = 0 /\ Pending(h) > 0

\* resumeH2
ResumeH2(h) ==
  IF ~SocketOpen(h) THEN h
  ELSE LET s == h.current
           g == IF Size(h) = 0 /\ h.ses[s].open = 0 THEN SetIdle(h, s)
                ELSE [h EXCEPT !.ses[s].idle = FALSE]
       IN [g EXCEPT !.ses[s].noStreams = NoStreamsAllowed(h)]

\* getMaxConcurrent(client) || 1
MaxConcurrent(h) == LET n == IF h.current = 0 THEN Pipelining ELSE h.limit
                    IN IF n = 0 THEN 1 ELSE n

\* busy() of the context
Busy(h, r) ==
  LET known == h.ses[h.current].settings
  IN \/ ~known /\ h.running > 0
     \/ h.running >= h.limit
     \/ ~known /\ Is(r, "upgrade")

MayPick(h) == ~h.destroyed /\ Pending(h) > 0 /\ h.running < MaxConcurrent(h)
Picked(h) == h.queue[h.running + 1]
MustConnect(h) == MayPick(h) /\ ~h.req[Picked(h)].aborted /\ ~h.connecting /\ h.current = 0
MayWrite(h) ==
  /\ MayPick(h) /\ ~h.req[Picked(h)].aborted /\ ~h.connecting
  /\ SocketOpen(h) /\ ~Busy(h, Picked(h))

Fault == faults < kind.faults /\ faults' = faults + 1
Same == UNCHANGED <<kind, dispatched, faults>>

\* The loop ends: nothing to do, or the client or its session can not do more.
ResumeEnds ==
  /\ Resuming /\ ~MustConnect(h2) /\ ~MayWrite(h2)
  /\ ~(MayPick(h2) /\ h2.req[Picked(h2)].aborted)
  /\ h2' = Return(IF h2.destroyed THEN [h2 EXCEPT !.broken = @ \/ Pending(h2) # 0]
                  ELSE ResumeH2(h2))
  /\ Same

ResumeConnects ==
  /\ Resuming /\ MustConnect(h2)
  /\ h2' = Return([h2 EXCEPT !.connecting = TRUE])
  /\ Same

Spliced(h) == [h EXCEPT !.queue = RemoveAt(@, h.running + 1)]

\* A request that was aborted while it waited.
ResumeDrops ==
  /\ Resuming /\ MayPick(h2) /\ h2.req[Picked(h2)].aborted
  /\ h2' = Spliced(ResumeH2(h2))
  /\ Same

\* writeH2 up to openStream: onRequestStart throws or aborts, no extended
\* CONNECT, a content-length that does not match.
WriteFails ==
  LET r == Picked(h2)
      certain == \/ Is(r, "upgrade") /\ ~h2.ses[h2.current].connect
                 \/ h2.req[r].completed
  IN /\ Resuming /\ MayWrite(h2)
     /\ h2' = Spliced(ErrorRequest(ResumeH2([h2 EXCEPT !.req[r].closure = 0]), r))
     /\ IF certain THEN faults' = faults ELSE Fault
     /\ UNCHANGED <<kind, dispatched>>

Writes(r) ==
  /\ Resuming /\ MayWrite(h2) /\ r = Picked(h2)
  /\ Is(r, "upgrade") => h2.ses[h2.current].connect
  /\ ~h2.req[r].completed

\* openStream throws: the session has ended in Node and its events are still to
\* come; the request stays at the head of what is pending.
WriteFindsSessionOver ==
  \E r \in Requests :
    /\ Writes(r) /\ h2.ses[h2.current].life # "open"
    /\ h2' = ResetSession(ResumeH2([h2 EXCEPT !.req[r].closure = 0]), h2.current, "soft")
    /\ Same

\* openStream throws: Node rejects the headers, and the session is given up.
WriteRejected ==
  \E r \in Requests :
    /\ Writes(r) /\ h2.ses[h2.current].life = "open"
    /\ LET g == DestroySession(ResumeH2(h2), h2.current, "soft")
       IN h2' = Spliced(ErrorRequest([g EXCEPT !.req[r].closure = 0], r))
    /\ Fault
    /\ UNCHANGED <<kind, dispatched>>

\* The state object and setupUpgradeStream.
NewStream(h, r, body) ==
  [req |-> r, ses |-> h.current,
   id |-> 1 + Cardinality({k \in DOMAIN h.str : h.str[k].ses = h.current}),
   node |-> "open", live |-> TRUE, heard |-> TRUE, counted |-> TRUE,
   response |-> FALSE, finalized |-> FALSE, body |-> body, length |-> -1, got |-> 0]

\* writeBodyH2 and writeBuffer: a buffer, or no body, has been sent by the time
\* writeH2 returns, any other takes its time, and may wait for 100 (Continue).
BodyOf(r) == IF Is(r, "stream") THEN {"waiting", "sending"} ELSE {"sent"}

\* A stream is opened for the request.
WriteOpens ==
  \E r \in Requests :
    /\ Writes(r) /\ h2.ses[h2.current].life = "open"
    /\ \E body \in BodyOf(r) :
         LET i == Len(h2.str) + 1
             s == h2.current
             g == Bound(ResumeH2(h2), r, i)
         IN h2' = [g EXCEPT !.str = Append(@, NewStream(h2, r, body)), !.req[r].closure = i,
                     !.ses[s].open = @ + 1, !.ses[s].idle = FALSE, !.running = @ + 1]
    /\ Same

\* An entry of the stack that is not resume().
StackStreamClosed ==
  /\ h2.stack # <<>> /\ Head(h2.stack) # Resume
  /\ h2' = StreamClosed(Return(h2), Head(h2.stack))
  /\ Same

----------------------------------------------------------------------------
(* Node: ticks, and the jobs that run when there are none.                  *)

RunTick ==
  LET t == Head(h2.ticks)
      h == [h2 EXCEPT !.ticks = Tail(@)]
  IN /\ h2.stack = <<>> /\ h2.ticks # <<>>
     /\ h2' = CASE t.at = "stream" -> StreamEnds(h, t.x, t.err)
                [] t.at = "session" -> SessionEnds(h, t.x, t.err)
                [] t.at = "socket" -> SocketErrors(h, t.x, t.err)
                [] t.at = "goaway" -> GoAway(h, t.x, t.last)
     /\ Same

Quiet == h2.stack = <<>> /\ h2.ticks = <<>>
\* The session of a live connection.
Up(s) == Quiet /\ h2.ses[s].life \in {"open", "closed"} /\ h2.ses[s].socket = "open"

\* The connector answers; a client that was destroyed destroys the socket.
Connects ==
  /\ Quiet /\ h2.connecting /\ ~h2.destroyed
  /\ LET session == [life |-> "open", socket |-> "open", last |-> "no", goaway |-> FALSE,
                     settings |-> FALSE, connect |-> FALSE, open |-> 0,
                     idle |-> FALSE, noStreams |-> FALSE]
     IN h2' = Call([h2 EXCEPT !.connecting = FALSE, !.current = Len(h2.ses) + 1,
                      !.ses = Append(@, session)], <<Resume>>)
  /\ Same

ConnectFails ==
  \E err \in {"soft", "hard"} :
    /\ Quiet /\ h2.connecting /\ ~h2.destroyed
    /\ h2' = Call(OnError([h2 EXCEPT !.connecting = FALSE], err), <<Resume>>)
    /\ Fault
    /\ UNCHANGED <<kind, dispatched>>

\* onHttp2RemoteSettings
Settings(s, limit, connect) ==
  /\ Up(s)
  /\ h2' = Call([h2 EXCEPT !.limit = limit, !.ses[s].settings = TRUE,
                   !.ses[s].connect = @ \/ connect], <<Resume>>)

\* The first settings, and what a peer may change later.
FirstSettings(s) ==
  /\ ~h2.ses[s].settings
  /\ \E limit \in Limits, connect \in {FALSE, "upgrade" \in Range(kind.of)} :
       Settings(s, limit, connect)
  /\ Same

LaterSettings(s) ==
  /\ h2.ses[s].settings
  /\ \E limit \in Limits : limit # h2.limit /\ Settings(s, limit, FALSE)
  /\ Fault
  /\ UNCHANGED <<kind, dispatched>>

Hears(i) == Quiet /\ h2.str[i].node = "open" /\ h2.str[i].live /\ h2.str[i].heard
IsUpgrade(i) == Is(h2.str[i].req, "upgrade")

\* The content-length of a response: none, or one it keeps to or not.
Lengths == IF kind.chunks = 0 THEN {-1} ELSE {-1} \cup 0..kind.chunks

\* onResponse; a body that waits for 100 (Continue) is not sent any more.
Response(i) ==
  LET r == h2.str[i].req
  IN /\ Hears(i) /\ ~IsUpgrade(i) /\ ~h2.str[i].response
     /\ \E length \in Lengths :
          LET g == [h2 EXCEPT !.str[i].response = TRUE, !.str[i].length = length,
                              !.str[i].body = IF @ = "waiting" THEN "sent" ELSE @]
          IN h2' = IF Over(h2, r) THEN ReleaseStream(g, i)
                   ELSE [g EXCEPT !.req[r].heads = @ + 1]
     /\ Same

\* onData
Data(i) ==
  LET length == h2.str[i].length
  IN /\ Hears(i) /\ ~IsUpgrade(i) /\ h2.str[i].response /\ h2.str[i].got < kind.chunks
     /\ h2' = CASE Over(h2, h2.str[i].req) -> h2
                [] ~Over(h2, h2.str[i].req) /\ length = h2.str[i].got -> Abort(h2, i, "hard")
                [] OTHER -> [h2 EXCEPT !.str[i].got = @ + 1]
     /\ Same

\* onEnd; Node keeps the stream for as long as the body of the request is sent.
End(i) ==
  LET r == h2.str[i].req
      g == [h2 EXCEPT !.str[i].node = IF h2.str[i].body = "sent" THEN "gone" ELSE @]
  IN /\ Hears(i) /\ ~IsUpgrade(i) /\ h2.str[i].response
     /\ h2' = CASE Over(h2, r) -> g
                [] ~Over(h2, r) /\ LengthDiffers(h2, i) -> Abort(h2, i, "hard")
                [] OTHER -> Call([g EXCEPT !.req[r].completed = TRUE, !.req[r].ends = @ + 1],
                                 <<i>>)
     /\ Same

\* 'continue'
Continue(i) ==
  /\ Hears(i) /\ h2.str[i].body = "waiting"
  /\ h2' = [h2 EXCEPT !.str[i].body = "sending"]
  /\ Same

Sending(i) == Quiet /\ h2.str[i].node = "open" /\ h2.str[i].body = "sending"

\* writeStream, writeBlob and writeIterable have sent the body.
BodySent(i) ==
  /\ Sending(i)
  /\ h2' = Call([h2 EXCEPT !.str[i].body = "sent",
                   !.str[i].node = IF h2.str[i].live THEN @ ELSE "gone"], <<Resume>>)
  /\ Same

\* The source of the body fails: pipeline() destroys the stream, or the closure
\* is called, which leaves the stream of a request that is over as it is.
BodyFails(i) ==
  LET g == [h2 EXCEPT !.str[i].body = "failed"]
  IN /\ Sending(i)
     /\ h2' \in {EndStreams(g, {i}, "hard"), Abort(g, i, "hard")}
     /\ Fault
     /\ UNCHANGED <<kind, dispatched>>

\* onUpgradeResponse: the stream is the user's from now on.
UpgradeResponse(i) ==
  LET r == h2.str[i].req
      g == [h2 EXCEPT !.str[i].response = TRUE, !.str[i].heard = FALSE,
              !.req[r].completed = TRUE, !.req[r].heads = @ + 1, !.req[r].ends = @ + 1,
              !.req[r].stream = 0]
  IN /\ Hears(i) /\ IsUpgrade(i) /\ ~Over(h2, r)
     /\ h2' = Finalize(g, i)
     /\ Same

\* An upgraded stream closes.
UpgradedCloses(i) ==
  /\ Quiet /\ IsUpgrade(i) /\ h2.str[i].node = "open" /\ h2.str[i].response
  /\ h2' = EndStreams(h2, {i}, "none")
  /\ Same

\* The peer resets a stream: CANCEL and NO_ERROR give no 'error'.
StreamReset(i) ==
  \E err \in {"none", "hard", "refused"} :
    /\ Quiet /\ h2.str[i].node = "open"
    /\ h2' = EndStreams(h2, {i}, err)
    /\ Fault
    /\ UNCHANGED <<kind, dispatched>>

\* A timeout, a frame error, a response that is too large, an 'end' before the
\* response: the stream is aborted.
StreamFails(i) ==
  \E err \in {"soft", "hard"} :
    /\ Hears(i)
    /\ h2' = IF IsUpgrade(i) THEN FailUpgrade(h2, i) ELSE Abort(h2, i, err)
    /\ Fault
    /\ UNCHANGED <<kind, dispatched>>

\* GOAWAY: with NO_ERROR Node closes the session, and nghttp2 the streams above
\* the last one; otherwise Node destroys the session, before or after it queues
\* the event.  A socket that was destroyed before has closed by then.
PeerGoesAway(s, last) ==
  LET event == <<Tick("goaway", s, "none", last)>>
      above == {i \in OpenStreams(h2, s) : h2.str[i].id > last}
  IN /\ Up(s) /\ h2.ses[s].life = "open"
     /\ \A t \in DOMAIN h2.ses : h2.ses[t].socket # "destroyed"
     /\ \/ h2' = EndStreams(Later([h2 EXCEPT !.ses[s].life = "closed"], event), above, "refused")
        \/ h2' = DestroySession(Later(h2, event), s, "hard")
        \/ h2' = Later(DestroySession(h2, s, "hard"), event)
     /\ Fault
     /\ UNCHANGED <<kind, dispatched>>

\* A protocol error that Node or nghttp2 finds; a write that is under way keeps
\* the socket open for a while.
SessionFails(s) ==
  /\ Up(s)
  /\ \/ h2' = DestroySession(h2, s, "hard")
     \/ h2' = EndStreams([h2 EXCEPT !.ses[s].life = "destroyed", !.ses[s].last = "hard"],
                         OpenStreams(h2, s), "hard")
  /\ Fault
  /\ UNCHANGED <<kind, dispatched>>

\* The connection is reset, or the peer ends it and onHttp2SocketEnd destroys it.
SocketFails(s) ==
  \E err \in {"soft", "hard"} :
    /\ Up(s)
    /\ h2' = DestroySocket(h2, s, err)
    /\ Fault
    /\ UNCHANGED <<kind, dispatched>>

\* 'close' of a socket without an 'error': Node cancels the streams first.
SocketCloses(s) ==
  /\ Up(s)
  /\ LET g == EndStreams(h2, OpenStreams(h2, s), "none")
     IN h2' = SocketClose(Later([g EXCEPT !.ses[s].socket = "closed",
                                   !.ses[s].life = "destroyed"],
                                <<Tick("session", s, "none", 0)>>), s)
  /\ Fault
  /\ UNCHANGED <<kind, dispatched>>

\* 'close' of a socket that was destroyed; a session that waits for it follows.
DestroyedSocketCloses(s) ==
  /\ Quiet /\ h2.ses[s].socket = "destroyed"
  /\ LET g == SocketClose([h2 EXCEPT !.ses[s].socket = "closed"], s)
     IN h2' = IF h2.ses[s].last = "no" THEN g
              ELSE Later(g, <<Tick("session", s, h2.ses[s].last, 0)>>)
  /\ Same

\* The write of a session that failed has ended.
SocketLetGo(s) ==
  /\ Quiet /\ h2.ses[s].life = "destroyed" /\ h2.ses[s].socket = "open"
  /\ h2' = DestroySocket(h2, s, h2.ses[s].last)
  /\ Same

\* Node destroys a closed session whose streams have ended.
SessionFinishes(s) ==
  /\ Up(s) /\ h2.ses[s].life = "closed" /\ OpenStreams(h2, s) = {}
  /\ h2' = DestroySession(h2, s, "none")
  /\ Same

\* onHttp2SessionIdleTimeout
IdleTimeout(s) ==
  LET g == [h2 EXCEPT !.ses[s].idle = FALSE]
  IN /\ Quiet /\ h2.ses[s].idle
     /\ h2' = IF h2.current # s \/ h2.ses[s].open # 0 \/ Size(h2) # 0 \/ h2.ses[s].life # "open"
              THEN g ELSE DestroySocket(g, s, "soft")
     /\ Fault
     /\ UNCHANGED <<kind, dispatched>>

\* onNoStreamsTimeout
NoStreamsTimeout(s) ==
  LET g == [h2 EXCEPT !.ses[s].noStreams = FALSE]
      rest == [ErrorAll(g, SubSeq(g.queue, g.running + 1, Size(g))) EXCEPT
                 !.queue = SubSeq(@, 1, g.running)]
  IN /\ Quiet /\ h2.ses[s].noStreams
     /\ h2' = IF h2.current # s \/ ~NoStreamsAllowed(h2) THEN g
              ELSE ResetSession(rest, s, "hard")
     /\ Same

----------------------------------------------------------------------------
(* What the user calls.                                                     *)

Dispatch ==
  LET r == dispatched + 1
  IN /\ Quiet /\ dispatched < Len(kind.of) /\ ~h2.destroyed
     /\ dispatched' = r
     /\ h2' = Call([h2 EXCEPT !.queue = Append(@, r)], <<Resume>>)
     /\ UNCHANGED <<kind, faults>>

\* The abort closure the handler was given last; bounded with the faults.
UserAborts(r) ==
  /\ Quiet /\ ~Over(h2, r) /\ h2.req[r].closure >= 0
  /\ h2' = IF h2.req[r].closure = 0 THEN ErrorRequest(h2, r)
           ELSE Abort(h2, h2.req[r].closure, "hard")
  /\ Fault
  /\ UNCHANGED <<kind, dispatched>>

\* kDestroy
Destroy ==
  LET pending == SubSeq(h2.queue, h2.running + 1, Size(h2))
      g == [ErrorAll(h2, pending) EXCEPT !.queue = SubSeq(@, 1, h2.running),
                                         !.destroyed = TRUE]
  IN /\ Quiet /\ ~h2.destroyed
     /\ DestroyLate \/ h2.running = 0 \/ h2.current # 0
     /\ h2' = Call(IF h2.current = 0 THEN g ELSE DestroySocket(g, h2.current, "hard"),
                   <<Resume>>)
     /\ Fault
     /\ UNCHANGED <<kind, dispatched>>

----------------------------------------------------------------------------
(* The specification.                                                       *)

Init ==
  /\ kind \in Kinds /\ dispatched = 0 /\ faults = 0
  /\ h2 = [queue |-> <<>>, running |-> 0, current |-> 0, connecting |-> FALSE,
           limit |-> StartLimit, destroyed |-> FALSE, broken |-> FALSE,
           ses |-> <<>>, str |-> <<>>, ticks |-> <<>>, stack |-> <<>>,
           req |-> [r \in Requests |->
             [aborted |-> FALSE, completed |-> FALSE, refusals |-> 0, retried |-> FALSE,
              stream |-> 0, closure |-> -1, heads |-> 0, ends |-> 0]]]

StackStep ==
  \/ ResumeEnds \/ ResumeConnects \/ ResumeDrops
  \/ WriteFails \/ WriteFindsSessionOver \/ WriteRejected \/ WriteOpens
  \/ StackStreamClosed \/ RunTick

StreamProgress(i) ==
  Response(i) \/ Data(i) \/ End(i) \/ UpgradeResponse(i) \/ Continue(i) \/ BodySent(i)

SessionProgress(s) ==
  \/ FirstSettings(s) \/ DestroyedSocketCloses(s) \/ SessionFinishes(s)
  \/ SocketLetGo(s) \/ NoStreamsTimeout(s)

Progress ==
  \/ StackStep \/ Connects
  \/ \E i \in DOMAIN h2.str : StreamProgress(i)
  \/ \E s \in DOMAIN h2.ses : SessionProgress(s)

StreamFault(i) == StreamReset(i) \/ StreamFails(i) \/ BodyFails(i)

SessionFault(s) ==
  \/ LaterSettings(s) \/ SessionFails(s) \/ SocketFails(s) \/ SocketCloses(s)
  \/ IdleTimeout(s)
  \/ \E last \in {0} \cup {h2.str[i].id : i \in DOMAIN h2.str} : PeerGoesAway(s, last)

Next ==
  \/ Progress
  \/ Dispatch \/ Destroy \/ ConnectFails
  \/ \E r \in Requests : UserAborts(r)
  \/ \E i \in DOMAIN h2.str : UpgradedCloses(i) \/ StreamFault(i)
  \/ \E s \in DOMAIN h2.ses : SessionFault(s)

\* Whether Progress is enabled, spelt out because the actions take long to
\* evaluate.
CanProgress ==
  \/ ~Quiet
  \/ h2.connecting /\ ~h2.destroyed
  \/ \E i \in DOMAIN h2.str :
       \/ Hears(i) /\ (IsUpgrade(i) => ~Over(h2, h2.str[i].req))
       \/ Sending(i)
  \/ \E s \in DOMAIN h2.ses :
       \/ h2.ses[s].socket = "destroyed" \/ h2.ses[s].noStreams
       \/ h2.ses[s].socket = "open" /\ h2.ses[s].life = "destroyed"
       \/ Up(s) /\ (h2.ses[s].settings =>
                          h2.ses[s].life = "closed" /\ OpenStreams(h2, s) = {})

\* Functions return and ticks run; the connector, the peer and Node do what
\* they owe, and the timer of a peer that allows no stream fires.  Faults and
\* requests are bounded, so each happens at last if one of them does as long
\* as one can: weak fairness of Progress.
Fairness == []<>(~CanProgress) \/ []<><<Progress>>_vars

Spec == Init /\ [][Next]_vars /\ Fairness

----------------------------------------------------------------------------
(* Properties.                                                              *)

Unanswered == {i \in DOMAIN h2.str : h2.str[i].live /\ ~h2.str[i].finalized}

\* Streams whose response was complete before the body of the request was.
Uploading ==
  {i \in DOMAIN h2.str : h2.str[i].body # "sent" /\ h2.req[h2.str[i].req].completed}

\* Between jobs the running requests are those of the streams that are still
\* to answer, one stream for each: a stream that was abandoned by GOAWAY or
\* REFUSED_STREAM can not end a request that has moved to another
\* (client-h2.js:224), and no request runs without a stream.  And each session
\* counts exactly its streams that are open in Node, also when some were severed
\* or upgraded, except those that only send the rest of a body for a request that
\* is over (kOpenStreams, client-h2.js:781): the idle timer reads this count; too
\* high, the connection stays for ever, too low, it is destroyed in use.
StreamsMatchRequests ==
  Quiet =>
    /\ ~h2.broken
    /\ Cardinality(Unanswered) = h2.running
    /\ \A k \in 1..h2.running :
         \E i \in Unanswered : h2.str[i].req = h2.queue[k] /\ h2.req[h2.queue[k]].stream = i
    /\ \A s \in DOMAIN h2.ses :
         h2.ses[s].open = Cardinality(OpenStreams(h2, s) \ Uploading)

\* Each request that was dispatched is once in the queue, or has had its one
\* outcome: those that GOAWAY, a refused stream or a lost socket moves within
\* the queue are neither lost nor doubled.  It is sent again only if it may be
\* (its body can be replayed, no part of a response was seen), and at most once
\* for GOAWAY and once for REFUSED_STREAM (client-h2.js:57, 1531).  A response
\* that is reported complete is as long as its head says, however its chunks, its
\* end, a reset and the loss of the session follow each other.
AnsweredOnce ==
  /\ \A r \in Requests : h2.req[r].ends <= 1
  /\ Quiet => \A r \in 1..dispatched :
       LET places == Cardinality({k \in DOMAIN h2.queue : h2.queue[k] = r})
       IN places <= 1 /\ (h2.req[r].ends = 0 => places = 1)
  /\ \A i \in DOMAIN h2.str :
       LET r == h2.str[i].req
           earlier == {k \in DOMAIN h2.str : k < i /\ h2.str[k].req = r}
       IN /\ Cardinality(earlier) <= 2
          /\ earlier # {} => CanReplay(r) /\ \A k \in earlier : ~h2.str[k].response
          /\ h2.req[r].completed /\ h2.str[i].response => ~LengthDiffers(h2, i)

\* Time and again every request that was dispatched has its outcome, whatever
\* the peer refuses, and although one that allows no stream is never written
\* to (client-h2.js:447).
EveryRequestEnds == []<>(\A r \in 1..dispatched : h2.req[r].ends > 0)
=============================================================================

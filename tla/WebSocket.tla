----------------------------- MODULE WebSocket -----------------------------
(***************************************************************************)
(* One WebSocket or WebSocketStream (lib/web/websocket) after fetch() was  *)
(* asked for the opening handshake, and the server it talks to: sending    *)
(* through the queue that waits for blobs, the parser of frames with its   *)
(* buffered chunks and its inflater, the closing handshake, failures, and  *)
(* what the user is told.  The socket, zlib and the server are external.   *)
(***************************************************************************)
EXTENDS Integers, SequencesExt

CONSTANTS
  Kinds,        \* records [stream, deflate, script]: the class, whether it has
                \* permessage-deflate, and the frames the server sends by itself
  MaxSends,     \* messages the user sends
  MaxFragments, \* webSocketOptions.maxFragments
  SlowInflate,  \* a socket may close while the inflater works
  AbortLate,    \* the signal is aborted after the handshake
  CancelPaused  \* the readable is cancelled while it holds the socket back

ASSUME WebSocketAssumption ==
  /\ MaxSends \in Nat /\ MaxFragments \in Nat \ {0}
  /\ {SlowInflate, AbortLate, CancelPaused} \subseteq BOOLEAN

VARIABLES
  kind,     \* the member of Kinds this WebSocket is
  ws,       \* the handler, its socket, and what the user saw
  parser,   \* the ByteParser and the Writable it is
  queue,    \* the SendQueue; its head is the blob that is awaited
  sends,    \* number of messages the user sent
  calling,  \* a listener of 'message' is running
  peer      \* the server and what is on the wire

vars == <<kind, ws, parser, queue, sends, calling, peer>>

(***************************************************************************)
(* Frames of the server: their opcode, FIN and RSV1 bits, and what is wrong *)
(* with them.  On the wire a frame is a head and a payload, and a chunk may *)
(* end after either; of a frame with an unknown opcode there is no payload. *)
(***************************************************************************)
Frame(op, fin, rsv1, wrong) == [op |-> op, fin |-> fin, rsv1 |-> rsv1, wrong |-> wrong]

Frames ==
  [op : {"text", "continuation", "ping", "close"}, fin : BOOLEAN, rsv1 : BOOLEAN,
   wrong : {"", "opcode", "reserved", "body", "utf8", "deflate"}]

\* Only a Close frame has a body that can be malformed, and only a message has
\* text, and deflated data if its first frame says so.
IsScript(fs) ==
  /\ fs \in Seq(Frames)
  /\ \A i \in DOMAIN fs :
       /\ fs[i].wrong = "body" => fs[i].op = "close"
       /\ fs[i].wrong \in {"utf8", "deflate"} => fs[i].op \in {"text", "continuation"}
       /\ fs[i].wrong = "deflate" =>
            \E j \in 1..i : /\ fs[j].op = "text" /\ fs[j].rsv1
                            /\ \A m \in j+1..i : fs[m].op # "text"

ASSUME KindAssumption ==
  \A k \in Kinds : {k.stream, k.deflate} \subseteq BOOLEAN /\ IsScript(k.script)

Parts(id, f) ==
  LET part(name) == [id |-> id, frame |-> f, part |-> name]
  IN  IF f.wrong = "opcode" THEN <<part("head")>> ELSE <<part("head"), part("payload")>>

Wire(fs) ==
  LET wire[n \in 0..Len(fs)] ==
        IF n = 0 THEN <<>> ELSE wire[n-1] \o Parts(n, fs[n])
  IN wire[Len(fs)]

NoPart == [id |-> 0, frame |-> Frame("", TRUE, FALSE, ""), part |-> ""]
NoInfo == [op |-> "", fin |-> FALSE, fragmented |-> FALSE, compressed |-> FALSE]

Init ==
  /\ kind \in Kinds
  /\ ws = [readyState |-> "CONNECTING", closeState |-> {}, socket |-> "none",
           paused |-> FALSE, aborted |-> FALSE, task |-> FALSE, out |-> <<>>,
           got |-> <<>>, events |-> <<>>, failed |-> FALSE, closedBy |-> "",
           opened |-> "pending", closed |-> "pending", readable |-> "none",
           unread |-> 0, reading |-> FALSE, handshakeAborted |-> FALSE]
  /\ parser = [state |-> "INFO", buffers |-> <<>>, chunks |-> <<>>,
               busy |-> "idle", full |-> FALSE, needDrain |-> FALSE,
               info |-> NoInfo, body |-> NoPart, fragments |-> <<>>]
  /\ queue = <<>>
  /\ sends = 0
  /\ calling = FALSE
  /\ peer = [inbox |-> Wire(kind.script), frames |-> kind.script,
             reset |-> FALSE, handshake |-> "pending"]

\* One job runs at a time; a listener runs within the job of the parser.
Quiet == parser.busy # "parsing" /\ ~calling /\ ~ws.task
UserTurn == Quiet \/ calling

(***************************************************************************)
(* connection.js: closing and failing, on the record w.                    *)
(***************************************************************************)
\* What is written: a Close or Pong frame, or the m-th message of the user.
Control(op) == [op |-> op, id |-> 0]
Message(m) == [op |-> "message", id |-> m]
CloseSent == Contains(ws.out, Control("close"))

Write(w, frame) ==
  IF w.socket = "open" THEN [w EXCEPT !.out = Append(@, frame)]
  ELSE IF w.socket = "ended" THEN [w EXCEPT !.socket = "destroyed"]
  ELSE w

StartClosing(w, who) ==
  [(IF w.closeState = {}
    THEN [Write(w, Control("close")) EXCEPT !.closeState = {"SENT"}, !.closedBy = who]
    ELSE w) EXCEPT !.readyState = "CLOSING"]

\* Mutant: clean means that a Close frame was sent or received.
OnSocketCloseEither(w) ==
  [w EXCEPT !.readyState = "CLOSED",
            !.events = @ \o (IF "RECEIVED" \in w.closeState THEN <<>> ELSE <<"error">>)
                         \o <<IF w.closeState # {} THEN "clean" ELSE "unclean">>]

OnSocketClose(w) ==
  LET clean == w.closeState = {"SENT", "RECEIVED"}
  IN  [w EXCEPT !.readyState = "CLOSED",
                !.events = @ \o (IF "RECEIVED" \in w.closeState THEN <<>>
                                 ELSE <<"error">>)
                             \o <<IF clean THEN "clean" ELSE "unclean">>]

\* The 'close' event of a stream is a microtask.
Closed(w) == IF kind.stream THEN [w EXCEPT !.task = TRUE] ELSE OnSocketClose(w)

\* Mutant: a connection that was never made has no socket to report its end.
FailInSilence(w) ==
  LET v == [(IF w.readyState = "OPEN" THEN StartClosing(w, "us") ELSE w)
              EXCEPT !.aborted = TRUE, !.failed = TRUE]
  IN  IF v.socket \in {"open", "ended"} THEN [v EXCEPT !.socket = "destroyed"] ELSE v

FailWebsocketConnection(w) ==
  LET v == [(IF w.readyState = "OPEN" THEN StartClosing(w, "us") ELSE w)
              EXCEPT !.aborted = TRUE, !.failed = TRUE]
  IN  IF v.readyState = "CONNECTING" THEN Closed(v)
      ELSE IF v.socket \in {"open", "ended"}
           THEN [v EXCEPT !.socket = "destroyed"]
           ELSE v

CloseWebSocketConnection(w) ==
  CASE w.readyState = "CONNECTING" ->
         [FailWebsocketConnection(w) EXCEPT !.readyState = "CLOSING"]
    [] w.readyState = "OPEN" -> StartClosing(w, "us")
    [] OTHER -> w

(***************************************************************************)
(* The opening handshake: processResponse.  fetch() answers, at the latest *)
(* with the network error of the abort.                                    *)
(***************************************************************************)
Opened(w) == [w EXCEPT !.readyState = "OPEN", !.events = Append(@, "open")]
StreamOpened(w) ==
  [w EXCEPT !.readyState = "OPEN", !.opened = "resolved", !.readable = "readable"]

Establish ==
  /\ Quiet /\ peer.handshake = "pending" /\ ~ws.aborted
  /\ peer' = [peer EXCEPT !.handshake = "over"]
  /\ LET w == [ws EXCEPT !.socket = "open"]
     IN  ws' = IF kind.stream THEN StreamOpened(w) ELSE Opened(w)
  /\ UNCHANGED <<kind, parser, queue, sends, calling>>

FailHandshake ==
  /\ Quiet /\ peer.handshake = "pending"
  /\ peer' = [peer EXCEPT !.handshake = "over"]
  /\ ws' = FailWebsocketConnection(ws)
  /\ UNCHANGED <<kind, parser, queue, sends, calling>>

(***************************************************************************)
(* receiver.js.  "stuck" is run() having returned without the callback of  *)
(* _write: the Writable takes no further chunk.                            *)
(***************************************************************************)
RunReturns(p, w) ==
  IF p.chunks # <<>>
  THEN /\ parser' = [p EXCEPT !.busy = "parsing", !.chunks = Tail(@),
                              !.buffers = @ \o Head(p.chunks)]
       /\ ws' = w
  ELSE /\ parser' = [p EXCEPT !.busy = "idle", !.full = FALSE,
                              !.needDrain = FALSE]
       /\ ws' = IF p.needDrain THEN [w EXCEPT !.paused = FALSE] ELSE w

RunStops(p, w, busy) ==
  /\ parser' = [p EXCEPT !.busy = busy, !.full = FALSE]
  /\ ws' = IF p.full THEN [w EXCEPT !.paused = TRUE] ELSE w

\* Socket 'data': onSocketData.  `full` says that the Writable has reached its
\* high-water mark.
SocketData(n, full) ==
  /\ Quiet /\ ws.socket = "open" /\ ~ws.paused
  /\ peer' = [peer EXCEPT !.inbox = SubSeq(@, n + 1, Len(@))]
  /\ LET chunk == SubSeq(peer.inbox, 1, n)
     IN  IF parser.busy = "idle"
         THEN /\ parser' = [parser EXCEPT !.buffers = @ \o chunk, !.full = full,
                                          !.busy = "parsing", !.needDrain = full]
              /\ ws' = ws
         ELSE /\ parser' = [parser EXCEPT !.chunks = Append(@, chunk),
                                          !.needDrain = @ \/ full]
              /\ ws' = [ws EXCEPT !.paused = full]
  /\ UNCHANGED <<kind, queue, sends, calling>>

Parsing == parser.busy = "parsing" /\ ~calling
NothingElse == UNCHANGED <<kind, queue, sends, peer>>

NotEnoughBytes ==
  /\ Parsing /\ parser.buffers = <<>>
  /\ RunReturns(parser, ws)
  /\ NothingElse /\ UNCHANGED calling

Fragmented(f) == ~f.fin /\ f.op # "continuation"

\* What the head of a frame is refused for, after its own faults.
Unexpected(f) ==
  \/ f.rsv1 /\ ~kind.deflate
  \/ f.op = "text" /\ parser.fragments # <<>>
  \/ Fragmented(f) /\ parser.info.fragmented
  \/ f.op = "continuation" /\ parser.fragments = <<>> /\ ~parser.info.compressed

\* Mutant: every frame, a ping too, says anew whether the message is deflated.
ParseHeadForgets ==
  /\ Parsing /\ parser.state = "INFO" /\ parser.buffers # <<>>
  /\ LET f == Head(parser.buffers).frame
         rest == [parser EXCEPT !.buffers = Tail(@)]
     IN  IF f.wrong = "opcode" THEN RunReturns(rest, FailWebsocketConnection(ws))
         ELSE IF f.wrong = "reserved" \/ Unexpected(f)
         THEN RunStops(rest, FailWebsocketConnection(ws), "stuck")
         ELSE /\ parser' = [rest EXCEPT
                    !.state = "READ_DATA",
                    !.info = [op |-> f.op, fin |-> f.fin,
                              fragmented |-> Fragmented(f), compressed |-> f.rsv1]]
              /\ ws' = ws
  /\ NothingElse /\ UNCHANGED calling

ParseHead ==
  /\ Parsing /\ parser.state = "INFO" /\ parser.buffers # <<>>
  /\ LET f == Head(parser.buffers).frame
         rest == [parser EXCEPT !.buffers = Tail(@)]
     IN  IF f.wrong = "opcode" THEN RunReturns(rest, FailWebsocketConnection(ws))
         ELSE IF f.wrong = "reserved" \/ Unexpected(f)
         THEN RunStops(rest, FailWebsocketConnection(ws), "stuck")
         ELSE /\ parser' = [rest EXCEPT
                    !.state = "READ_DATA",
                    !.info = [op |-> f.op, fin |-> f.fin,
                              fragmented |-> Fragmented(f),
                              compressed |-> IF f.op = "text" THEN f.rsv1
                                             ELSE @.compressed]]
              /\ ws' = ws
  /\ NothingElse /\ UNCHANGED calling

\* onMessage: the listeners of a WebSocket run now, the chunk of a stream is
\* read at once or queued.
Undecodable(m) == \E i \in DOMAIN m : m[i].frame.wrong = "utf8"

\* What the message is made of: 0 is a fragment that is deflated still, or that
\* was inflated although it never was deflated.
Ids(m) == [i \in DOMAIN m |-> IF m[i].inflated = m[1].frame.rsv1 THEN m[i].id ELSE 0]

\* A pull resumes the socket: there is room, or a read waits.
Enqueue(w) ==
  IF w.reading THEN [w EXCEPT !.reading = FALSE, !.paused = FALSE]
  ELSE [w EXCEPT !.unread = @ + 1, !.paused = TRUE]

OnMessage(w, m) ==
  IF w.readyState # "OPEN" THEN w
  ELSE IF Undecodable(m) THEN FailWebsocketConnection(w)
  ELSE LET v == [w EXCEPT !.got = Append(@, Ids(m))]
       IN  IF kind.stream THEN Enqueue(v) ELSE [v EXCEPT !.events = Append(@, "message")]

Listens(m) == ~kind.stream /\ ws.readyState = "OPEN" /\ ~Undecodable(m)

\* The end of a frame with data: p.fragments holds it already.
FrameReceived(p) ==
  IF p.info.fin
  THEN /\ parser' = [p EXCEPT !.state = "INFO", !.fragments = <<>>,
                              !.info.compressed = FALSE]
       /\ ws' = OnMessage(ws, p.fragments)
       /\ calling' = Listens(p.fragments)
  ELSE parser' = [p EXCEPT !.state = "INFO"] /\ UNCHANGED <<ws, calling>>

AddFragment(p, f, inflated) ==
  IF Len(p.fragments) = MaxFragments
  THEN RunStops(p, FailWebsocketConnection(ws), "stuck") /\ UNCHANGED calling
  ELSE FrameReceived([p EXCEPT !.fragments =
      Append(@, [id |-> f.id, frame |-> f.frame, inflated |-> inflated])])

\* The server's Close frame: answered unless ours is out; nothing is parsed
\* after it.
CloseReceived(p, f) ==
  RunStops(p,
           IF f.wrong # "" THEN FailWebsocketConnection(ws)
           ELSE [StartClosing(ws, "peer") EXCEPT !.closeState = {"SENT", "RECEIVED"}],
           "stuck")

Pong(w) == IF "RECEIVED" \in w.closeState THEN w ELSE Write(w, Control("pong"))

ParsePayload ==
  /\ Parsing /\ parser.state = "READ_DATA" /\ parser.buffers # <<>>
  /\ LET f == Head(parser.buffers)
         rest == [parser EXCEPT !.buffers = Tail(@)]
         done == [rest EXCEPT !.state = "INFO"]
     IN  CASE f.frame.op = "close" -> CloseReceived(done, f.frame) /\ UNCHANGED calling
           [] f.frame.op = "ping" -> /\ parser' = done /\ ws' = Pong(ws)
                               /\ UNCHANGED calling
           [] OTHER ->
                IF parser.info.compressed
                THEN /\ RunStops([rest EXCEPT !.body = f], ws, "inflating")
                     /\ UNCHANGED calling
                ELSE AddFragment(rest, f, FALSE)
  /\ NothingElse

\* zlib's answer, in a job of its own.
Inflated ==
  /\ Quiet /\ parser.busy = "inflating"
  /\ IF parser.body.frame.wrong = "deflate"
     THEN /\ RunStops(parser, FailWebsocketConnection(ws), "stuck")
          /\ UNCHANGED calling
     ELSE AddFragment([parser EXCEPT !.busy = "parsing"], parser.body, TRUE)
  /\ NothingElse

ListenerReturns ==
  /\ calling
  /\ calling' = FALSE
  /\ UNCHANGED <<kind, ws, parser, queue, sends, peer>>

(***************************************************************************)
(* The end of the socket.                                                  *)
(***************************************************************************)
InflaterLate == SlowInflate \/ parser.busy # "inflating"

\* The server's FIN, after whatever of its frames it has sent; it is seen by a
\* paused socket too, and the socket is not half-open.
SocketEnd ==
  /\ Quiet /\ InflaterLate /\ ws.socket = "open"
  /\ ws' = [ws EXCEPT !.socket = "ended"]
  /\ UNCHANGED <<kind, parser, queue, sends, calling, peer>>

SocketClose ==
  /\ Quiet /\ InflaterLate /\ ws.socket \in {"ended", "destroyed"}
  /\ ws' = Closed([ws EXCEPT !.socket = "closed"])
  /\ UNCHANGED <<kind, parser, queue, sends, calling, peer>>

\* 'error' and 'close' are emitted in one tick.
SocketError ==
  /\ Quiet /\ InflaterLate /\ ws.socket = "open"
  /\ peer' = [peer EXCEPT !.reset = TRUE]
  /\ ws' = Closed([ws EXCEPT !.socket = "closed", !.readyState = "CLOSING"])
  /\ UNCHANGED <<kind, parser, queue, sends, calling>>

\* WebSocketStream.#onSocketClose.
CloseTask ==
  /\ ws.task /\ ~calling /\ parser.busy # "parsing"
  /\ LET clean == ws.closeState = {"SENT", "RECEIVED"}
         v == [ws EXCEPT !.task = FALSE, !.readyState = "CLOSED"]
     IN  ws' = IF ws.handshakeAborted THEN v
               ELSE [v EXCEPT
                      !.opened = IF @ = "pending" THEN "rejected" ELSE @,
                      !.closed = IF @ # "pending" THEN @
                                 ELSE IF clean THEN "resolved" ELSE "rejected",
                      !.readable = IF @ # "readable" THEN @
                                   ELSE IF clean THEN "closed" ELSE "errored",
                      !.unread = IF clean THEN @ ELSE 0,
                      !.reading = FALSE]
  /\ UNCHANGED <<kind, parser, queue, sends, calling, peer>>

(***************************************************************************)
(* The user.                                                               *)
(***************************************************************************)
\* close(), and for a stream also closing or aborting its writable.
UserCloses ==
  /\ UserTurn /\ ws.readyState \in {"CONNECTING", "OPEN"}
  /\ ws' = CloseWebSocketConnection(ws)
  /\ UNCHANGED <<kind, parser, queue, sends, calling, peer>>

\* sender.js: what is not a blob is written, or waits behind the blobs.
Node(m, ready) == [message |-> m, ready |-> ready]

\* Mutant: what is not a blob is written at once.
SendAtOnce(m, blob) ==
  IF blob THEN queue' = Append(queue, Node(m, FALSE)) /\ UNCHANGED ws
  ELSE ws' = Write(ws, Message(m)) /\ UNCHANGED queue

SendQueueAdd(m, blob) ==
  IF blob THEN queue' = Append(queue, Node(m, FALSE)) /\ UNCHANGED ws
  ELSE IF queue # <<>> THEN queue' = Append(queue, Node(m, TRUE)) /\ UNCHANGED ws
  ELSE ws' = Write(ws, Message(m)) /\ UNCHANGED queue

Send(m) == \E blob \in BOOLEAN : ws.readyState = "OPEN" /\ SendQueueAdd(m, blob)

StreamWrite(m) ==
  /\ ws.readable # "none" /\ ws.closed = "pending"
  /\ ws' = IF ws.closeState = {} THEN Write(ws, Message(m)) ELSE ws
  /\ UNCHANGED queue

UserSends ==
  /\ UserTurn /\ sends < MaxSends
  /\ sends' = sends + 1
  /\ IF kind.stream THEN StreamWrite(sends') ELSE Send(sends')
  /\ UNCHANGED <<kind, parser, calling, peer>>

\* What Write does n times, with the first messages of q.
WriteAll(w, q, n) ==
  IF w.socket = "open"
  THEN [w EXCEPT !.out = @ \o [k \in 1..n |-> Message(q[k].message)]]
  ELSE IF w.socket = "ended" /\ n > 0 THEN [w EXCEPT !.socket = "destroyed"]
  ELSE w

\* A blob is read; what has become writable at the head of the queue is written.
BlobRead(i) ==
  /\ Quiet /\ ~queue[i].ready
  /\ LET read == [queue EXCEPT ![i] = Node(queue[i].message, TRUE)]
     IN  \E n \in 0..Len(read) :
           /\ \A k \in 1..n : read[k].ready
           /\ n < Len(read) => ~read[n + 1].ready
           /\ ws' = WriteAll(ws, read, n)
           /\ queue' = SubSeq(read, n + 1, Len(read))
  /\ UNCHANGED <<kind, parser, sends, calling, peer>>

\* A read takes a queued chunk, or waits; pull() resumes the socket whenever
\* nothing is queued.
UserReads ==
  /\ Quiet /\ ~ws.reading /\ ws.readable \in {"readable", "closed"}
  /\ ws.readable = "closed" => ws.unread > 0
  /\ ws' = [ws EXCEPT !.unread = IF @ > 0 THEN @ - 1 ELSE 0,
                      !.reading = ws.unread = 0,
                      !.paused = @ /\ ws.unread > 1]
  /\ UNCHANGED <<kind, parser, queue, sends, calling, peer>>

UserCancels ==
  /\ Quiet /\ ws.readable = "readable" /\ (CancelPaused \/ ~ws.paused)
  /\ ws' = [CloseWebSocketConnection(ws) EXCEPT
              !.readable = "cancelled", !.unread = 0, !.reading = FALSE]
  /\ UNCHANGED <<kind, parser, queue, sends, calling, peer>>

SignalAborts ==
  /\ Quiet /\ kind.stream /\ ~ws.handshakeAborted
  /\ IF AbortLate THEN ws.readyState # "OPEN" ELSE ws.readyState = "CONNECTING"
  /\ ws' = [FailWebsocketConnection(ws) EXCEPT
              !.readyState = "CLOSING", !.handshakeAborted = TRUE,
              !.opened = IF @ = "pending" THEN "rejected" ELSE @,
              !.closed = IF @ = "pending" THEN "rejected" ELSE @]
  /\ UNCHANGED <<kind, parser, queue, sends, calling, peer>>

(***************************************************************************)
(* The server answers a Close frame, unless one of its own is under way.   *)
(***************************************************************************)
PeerAnswers ==
  /\ CloseSent /\ \A i \in DOMAIN peer.frames : peer.frames[i].op # "close"
  /\ LET close == Frame("close", TRUE, FALSE, "")
     IN  peer' = [peer EXCEPT !.frames = Append(@, close),
                              !.inbox = @ \o Parts(Len(peer.frames) + 1, close)]
  /\ UNCHANGED <<kind, ws, parser, queue, sends, calling>>

(***************************************************************************)
(* The specification.                                                      *)
(***************************************************************************)
DataArrives == \E n \in 1..Len(peer.inbox), full \in BOOLEAN : SocketData(n, full)
ParserRuns == NotEnoughBytes \/ ParseHead \/ ParsePayload
BlobArrives == \E i \in DOMAIN queue : BlobRead(i)

Next ==
  \/ Establish \/ FailHandshake
  \/ DataArrives \/ ParserRuns \/ Inflated \/ ListenerReturns
  \/ SocketEnd \/ SocketClose \/ SocketError \/ CloseTask
  \/ UserCloses \/ UserSends \/ BlobArrives
  \/ UserReads \/ UserCancels \/ SignalAborts
  \/ PeerAnswers

\* fetch() settles, callbacks return, zlib and blobs answer, a closed socket says
\* so and what arrives is read; a stream is read on; the server answers a Close
\* frame and then ends the connection.
EndsClosed == CloseSent /\ peer.inbox = <<>> /\ SocketEnd

Fairness ==
  /\ WF_vars(Establish \/ FailHandshake) /\ WF_vars(DataArrives)
  /\ WF_vars(ParserRuns) /\ WF_vars(Inflated) /\ WF_vars(ListenerReturns)
  /\ WF_vars(EndsClosed) /\ WF_vars(SocketClose) /\ WF_vars(CloseTask)
  /\ WF_vars(BlobArrives) /\ WF_vars(UserReads)
  /\ WF_vars(PeerAnswers)

Spec == Init /\ [][Next]_vars /\ Fairness

(***************************************************************************)
(* Properties.                                                             *)
(***************************************************************************)
\* The messages of the frames fs, by RFC 6455: the reference for the parser.
Silence == [ok |-> TRUE, open |-> <<>>, said |-> <<>>]

Wrong(k, f, m) ==
  \/ f.wrong # "" \/ f.op = "close"
  \/ (f.op = "text") = (Len(m) > 1)
  \/ f.rsv1 /\ ~k.deflate
  \/ Len(m) > MaxFragments

Hear(k, f, acc, i) ==
  LET m == Append(acc.open, i)
  IN  IF ~acc.ok \/ (f.op = "ping" /\ f.wrong = "") THEN acc
      ELSE IF Wrong(k, f, m) THEN [acc EXCEPT !.ok = FALSE]
      ELSE IF f.fin THEN [acc EXCEPT !.said = Append(@, m), !.open = <<>>]
      ELSE [acc EXCEPT !.open = m]

Heard(k, fs) ==
  LET heard[n \in 0..Len(fs)] ==
        IF n = 0 THEN Silence ELSE Hear(k, fs[n], heard[n-1], n)
  IN heard

Said == Heard(kind, peer.frames)[Len(peer.frames)].said

\* What the user gets are the messages of the server, whole and in order,
\* whatever chunks, pings and the inflater do in between; and all of them when
\* it was the server that closed.  His own leave in the order of send() although
\* blobs are read later, there is one Close frame, and a stream writes nothing
\* behind it.
MessagesIntact ==
  /\ IsPrefix(ws.got, Said)
  /\ ws.closedBy = "peer" => ws.got = Said
  /\ \A i, j \in DOMAIN ws.out :
       LET a == ws.out[i]
           b == ws.out[j]
       IN  i < j => /\ a.op = "message" /\ b.op = "message" => a.id < b.id
                    /\ a.op = "close" => b.op # "close"
                    /\ a.op = "close" /\ kind.stream => b.op # "message"

ReportedClean == ws.closed = "resolved" \/ Contains(ws.events, "clean")
ReportedUnclean == ws.closed = "rejected" \/ Contains(ws.events, "unclean")

\* The parser goes on behind a text that is not UTF-8 or an unknown opcode, and
\* may find a Close frame in what has come.
ReadsOn == \E i \in DOMAIN peer.frames : peer.frames[i].wrong \in {"utf8", "opcode"}

\* wasClean, and a `closed` that is fulfilled, say that both Close frames were
\* sent and that undici did not fail the connection, unless it read on behind
\* what it failed for; a handshake that was completed is reported so unless
\* something failed.
HandshakeDone ==
  /\ CloseSent /\ peer.inbox = <<>>
  /\ \E i \in DOMAIN peer.frames : peer.frames[i].op = "close" /\ peer.frames[i].wrong = ""
CloseIsHonest ==
  /\ ReportedClean => HandshakeDone /\ (ws.failed => ReadsOn)
  /\ ReportedUnclean /\ HandshakeDone => ws.failed \/ peer.reset

\* The user learns of the end: the 'close' event; of a stream the promise and
\* the end of its readable.
Over ==
  IF kind.stream
  THEN ws.closed # "pending" /\ (ws.readable # "readable" /\ ~ws.reading)
  ELSE ReportedClean \/ ReportedUnclean

\* A WebSocket stays open or its end is reported.
EndIsReported == <>[](ws.readyState = "OPEN" /\ ws.socket = "open") \/ <>Over
=============================================================================

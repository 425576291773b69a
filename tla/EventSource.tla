----------------------------- MODULE EventSource -----------------------------
(***************************************************************************)
(* EventSource (lib/web/eventsource/eventsource.js) and the parser of its  *)
(* streams (eventsource-stream.js).  The body of a response arrives in     *)
(* chunks cut anywhere; the parser keeps the chunks of the line it is in,  *)
(* a cursor and the start of the line, and hands an event over at the      *)
(* blank line that ends it.  A connection that ends is opened again after  *)
(* the reconnection time, with the last event id, unless the user has      *)
(* closed.                                                                 *)
(*                                                                         *)
(* A chunk is a sequence of symbols: the bytes of a BOM, CR and LF, a      *)
(* field name with its colon, and one symbol for each byte of a value.     *)
(* The fetch of a connection is its answer, the head's callback, the body, *)
(* and the callback at the body's end.                                     *)
(***************************************************************************)
EXTENDS Naturals, Sequences, SequencesExt, FiniteSets

CONSTANTS
  Scripts,        \* what a server sends: records [bom, blocks, max], the
                  \* blocks ending with a blank line, max = maxEventSize
  DefaultTime,    \* the reconnection time of the options
  TimeOf(_),      \* parseInt of the value of a retry field; 0: not a number
  MaxTime,        \* the longest delay of setTimeout, 2^31 - 1
  Unsendable,     \* ids that are no valid header values
  MaxFaults,      \* bound: connections refused or cut by the server
  CloseWithHead   \* TRUE: close() may run between a head and its callback

ASSUME ScriptsAssumption ==
  \A s \in Scripts : /\ s.bom \in BOOLEAN
                     /\ s.blocks \in Seq(Seq(STRING))
                     /\ s.max \in Nat
ASSUME TimesAssumption ==
  DefaultTime \in 1 .. MaxTime /\ MaxFaults \in Nat /\ CloseWithHead \in BOOLEAN

VARIABLES
  script,       \* the server
  readyState,   \* #readyState
  request,      \* #request: its last-event-id header, or Null after close()
  state,        \* #state: [lastEventId, reconnectionTime]
  timer,        \* the delay the armed reconnection timer has in Node, or 0
  conn,         \* the current fetch
  parser,       \* its EventSourceStream
  seen,         \* the 'message' events the user got
  faults        \* refused or cut so far

vars == <<script, readyState, request, state, timer, conn, parser, seen, faults>>

Null == "null"
NoId == ""
BOM == <<"EF", "BB", "BF">>
EndOfLine == {"LF", "CR"}

-----------------------------------------------------------------------------
(* EventSourceStream: the buffered chunks and the cursor.  Indices start at 1. *)

NoEvent == [data |-> <<>>, event |-> <<>>, id |-> Null, retry |-> <<>>]

\* The constructor.
NewStream == [checkBOM |-> TRUE, crlfCheck |-> FALSE, eventEndCheck |-> FALSE,
              chunks |-> <<>>, chunkIndex |-> 1, pos |-> 1,
              lineChunkIndex |-> 1, linePos |-> 1,
              eventDataSize |-> 0, currentLineSize |-> 0,
              event |-> NoEvent, failed |-> FALSE]

HasCurrentByte(p) == /\ p.chunkIndex <= Len(p.chunks)
                     /\ p.pos <= Len(p.chunks[p.chunkIndex])

CurrentByte(p) == p.chunks[p.chunkIndex][p.pos]

\* advanceCursor(): no chunk is empty, so the cursor moves over one at most.
AdvanceCursor(p) ==
  IF p.pos < Len(p.chunks[p.chunkIndex])
  THEN [p EXCEPT !.pos = @ + 1]
  ELSE [p EXCEPT !.chunkIndex = @ + 1, !.pos = 1]

\* dropConsumedChunks(): the chunks before the line are gone.
DropConsumedChunks(p) ==
  LET gone == p.lineChunkIndex - 1
      left == SubSeq(p.chunks, gone + 1, Len(p.chunks))
  IN IF p.chunkIndex > Len(p.chunks)
     THEN [p EXCEPT !.chunks = <<>>, !.chunkIndex = 1, !.pos = 1,
                    !.lineChunkIndex = 1, !.linePos = 1]
     ELSE [p EXCEPT !.chunks = left, !.chunkIndex = @ - gone, !.lineChunkIndex = 1]

SyncLineStartToCursor(p) ==
  DropConsumedChunks([p EXCEPT !.lineChunkIndex = p.chunkIndex, !.linePos = p.pos,
                               !.currentLineSize = 0])

ConsumeCurrentByte(p) == SyncLineStartToCursor(AdvanceCursor(p))

\* The slice of chunk i that belongs to the line.
LineSlice(p, i) ==
  SubSeq(p.chunks[i], IF i = p.lineChunkIndex THEN p.linePos ELSE 1,
                      IF i = p.chunkIndex THEN p.pos - 1 ELSE Len(p.chunks[i]))

\* MUTANT of ReadLine: only the last chunk of the line.
ReadLineOfLast(p) == LineSlice(p, p.chunkIndex)

\* readLine()
ReadLine(p) ==
  FlattenSeq([i \in 1 .. p.chunkIndex - p.lineChunkIndex + 1 |->
                LineSlice(p, p.lineChunkIndex + i - 1)])

\* handleBOM(): the first symbols of the stream; `wait` returns from
\* _transform() until the next chunk.
Leading(p) == LET all == FlattenSeq(p.chunks)
              IN SubSeq(all, 1, IF Len(all) < 3 THEN Len(all) ELSE 3)

\* discardLeadingBytes(3): the cursor and the line start after the BOM.
DiscardBOM(p) ==
  SyncLineStartToCursor(AdvanceCursor(AdvanceCursor(AdvanceCursor(p))))

HandleBOM(p) ==
  LET first == Leading(p)
      checked == [p EXCEPT !.checkBOM = FALSE]
  IN CASE Len(first) < 3 /\ IsPrefix(first, BOM) -> [wait |-> TRUE, p |-> p]
       [] Len(first) = 1 /\ first[1] # BOM[1] -> [wait |-> TRUE, p |-> checked]
       [] Len(first) = 2 /\ first # SubSeq(BOM, 1, 2) -> [wait |-> FALSE, p |-> checked]
       [] Len(first) = 3 ->
            LET after == IF first = BOM THEN DiscardBOM(checked) ELSE checked
            IN [wait |-> ~HasCurrentByte(after), p |-> after]

-----------------------------------------------------------------------------
(* Lines and events. *)

\* The size the data buffer gets: lines are joined by one LF.
SizeWith(event, value, size) ==
  size + (IF event.data = <<>> THEN 0 ELSE 1) + Len(value)

\* parseLine(): the fields of an event; too much data fails the stream.
ParseLine(p, line, max) ==
  LET field == IF line = <<>> THEN "none" ELSE Head(line)
      value == IF line = <<>> THEN <<>> ELSE Tail(line)
      size  == SizeWith(p.event, value, p.eventDataSize)
  IN CASE field = "data" /\ max > 0 /\ size > max -> [p EXCEPT !.failed = TRUE]
       [] field = "data" /\ ~(max > 0 /\ size > max) ->
            [p EXCEPT !.event.data = Append(@, value), !.eventDataSize = size]
       [] field = "retry" /\ value # <<>> /\ TimeOf(Head(value)) > 0 ->
            [p EXCEPT !.event.retry = value]
       [] field = "id" /\ "NUL" \notin ToSet(value) ->
            [p EXCEPT !.event.id = IF value = <<>> THEN NoId ELSE Head(value)]
       [] field = "event" /\ value # <<>> -> [p EXCEPT !.event.event = value]
       [] OTHER -> p

HasPendingEvent(p) == p.event # NoEvent

\* processEvent(): what the fields of a finished event do to the settings of
\* the EventSource, and the message, if the event has data.
Settings(event, st) ==
  [lastEventId |-> IF event.id # Null THEN event.id ELSE st.lastEventId,
   reconnectionTime |-> IF event.retry # <<>> THEN TimeOf(Head(event.retry))
                        ELSE st.reconnectionTime]

Message(event, st) == [type |-> event.event, data |-> event.data,
                       lastEventId |-> Settings(event, st).lastEventId]

ClearEvent(p) == [p EXCEPT !.event = NoEvent, !.eventDataSize = 0]

(* The loop of _transform() over a work record: the parser p, the settings *)
(* st and the messages pushed. *)

\* A line end while eventEndCheck is set: a blank line, the end of the event.
EndEvent(w) ==
  LET p == ConsumeCurrentByte([w.p EXCEPT !.crlfCheck = (CurrentByte(w.p) = "CR")])
  IN [w EXCEPT !.p = ClearEvent(p),
               !.st = IF HasPendingEvent(p) THEN Settings(p.event, @) ELSE @,
               !.pushed = IF p.event.data # <<>>
                          THEN Append(@, Message(p.event, w.st)) ELSE @]

\* A line end after the symbols of a line.
EndLine(w, max) ==
  LET p == ParseLine([w.p EXCEPT !.crlfCheck = @ \/ CurrentByte(w.p) = "CR"],
                     ReadLine(w.p), max)
  IN [w EXCEPT !.p = IF p.failed THEN p
                     ELSE [ConsumeCurrentByte(p) EXCEPT !.eventEndCheck = TRUE]]

\* A symbol of a line; a line longer than any that fits fails the stream.
InLine(w, max) ==
  LET p == [AdvanceCursor(w.p) EXCEPT !.currentLineSize = @ + 1]
  IN [w EXCEPT !.p = [p EXCEPT !.failed = max > 0 /\ p.currentLineSize > max + 1]]

\* One turn of the loop.
Turn(w, max) ==
  LET byte == CurrentByte(w.p)
      sameLineEnd == w.p.eventEndCheck /\ w.p.crlfCheck /\ byte = "LF"
  IN CASE sameLineEnd -> [w EXCEPT !.p = ConsumeCurrentByte([@ EXCEPT !.crlfCheck = FALSE])]
       [] w.p.eventEndCheck /\ ~sameLineEnd /\ byte \in EndOfLine -> EndEvent(w)
       [] w.p.eventEndCheck /\ byte \notin EndOfLine ->
            [w EXCEPT !.p.crlfCheck = FALSE, !.p.eventEndCheck = FALSE]
       [] ~w.p.eventEndCheck /\ byte \in EndOfLine -> EndLine(w, max)
       [] OTHER -> InLine(w, max)

\* The loop: as long as there is a byte, which takes two turns at most.
Loop(w, max) ==
  LET most == 2 * Len(FlattenSeq(w.p.chunks))
      turns[n \in 0 .. most] ==
        IF n = 0 THEN w
        ELSE LET v == turns[n-1]
             IN IF HasCurrentByte(v.p) /\ ~v.p.failed THEN Turn(v, max) ELSE v
  IN turns[most]

\* _transform(chunk)
Transform(p, chunk, st, max) ==
  LET q == [p EXCEPT !.chunks = Append(@, chunk)]
      bom == IF p.checkBOM THEN HandleBOM(q) ELSE [wait |-> FALSE, p |-> q]
      w == [p |-> bom.p, st |-> st, pushed |-> <<>>]
  IN IF bom.wait THEN w ELSE Loop(w, max)

-----------------------------------------------------------------------------
(* What a stream says, after the HTML standard: symbol by symbol, with      *)
(* nothing of chunks.  The server resumes by it. *)

Text(body) == IF IsPrefix(BOM, body) THEN SubSeq(body, 4, Len(body)) ELSE body

\* r: the lines of the finished blocks, of the block and of the line in hand.
ReadSymbol(r, c) ==
  CASE c = "LF" /\ r.cr -> [r EXCEPT !.cr = FALSE]
    [] c \in EndOfLine /\ ~(c = "LF" /\ r.cr) /\ r.line = <<>> ->
         [r EXCEPT !.blocks = Append(@, r.block), !.block = <<>>, !.cr = (c = "CR")]
    [] c \in EndOfLine /\ ~(c = "LF" /\ r.cr) /\ r.line # <<>> ->
         [r EXCEPT !.block = Append(@, r.line), !.line = <<>>, !.cr = (c = "CR")]
    [] OTHER -> [r EXCEPT !.line = Append(@, c), !.cr = FALSE]

Read(text) ==
  LET read[n \in 0 .. Len(text)] ==
        IF n = 0 THEN [blocks |-> <<>>, block |-> <<>>, line |-> <<>>, cr |-> FALSE]
        ELSE ReadSymbol(read[n-1], text[n])
  IN read[Len(text)]

\* The values of the lines of a block for a field, and the last of those in ok.
ValuesOf(block, field) ==
  LET lines == SelectSeq(block, LAMBDA line : Head(line) = field)
  IN [i \in DOMAIN lines |-> Tail(lines[i])]
LastOf(values, ok(_), none) ==
  LET good == SelectSeq(values, ok) IN IF good = <<>> THEN none ELSE Last(good)

IdOf(block) ==
  LastOf(ValuesOf(block, "id"), LAMBDA v : "NUL" \notin ToSet(v), <<Null>>)
TimeAsked(block) ==
  LastOf(ValuesOf(block, "retry"), LAMBDA v : v # <<>> /\ TimeOf(Head(v)) > 0, <<Null>>)

\* The settings after some blocks, and the messages of blocks.
SettingsAfter(blocks, base) ==
  LET ids   == SelectSeq(blocks, LAMBDA block : IdOf(block) # <<Null>>)
      times == SelectSeq(blocks, LAMBDA block : TimeAsked(block) # <<Null>>)
  IN [lastEventId |-> CASE ids = <<>> -> base.lastEventId
                        [] ids # <<>> /\ IdOf(Last(ids)) = <<>> -> NoId
                        [] OTHER -> Head(IdOf(Last(ids))),
      reconnectionTime |-> IF times = <<>> THEN base.reconnectionTime
                           ELSE TimeOf(Head(TimeAsked(Last(times))))]

MessagesOf(blocks, base) ==
  FlattenSeq([k \in DOMAIN blocks |->
    IF ValuesOf(blocks[k], "data") = <<>> THEN <<>>
    ELSE << [type |-> LastOf(ValuesOf(blocks[k], "event"), LAMBDA v : v # <<>>, <<>>),
             data |-> ValuesOf(blocks[k], "data"),
             lastEventId |-> SettingsAfter(SubSeq(blocks, 1, k), base).lastEventId] >>])

\* A line or an event no stream with this limit may hold.
TooBig(r, max) ==
  \/ \E block \in ToSet(r.blocks) \cup {r.block} :
       \/ \E line \in ToSet(block) : Len(line) > max + 1
       \/ LET data == ValuesOf(block, "data")
          IN data # <<>> /\ Len(FlattenSeq(data)) + Len(data) - 1 > max
  \/ Len(r.line) > max + 1

\* The blocks of a script, read, and the body a server answers with: what
\* follows the block with that id, or all.
BlocksOf == [s \in Scripts |-> Read(FlattenSeq(s.blocks)).blocks]

Body(header) ==
  LET past == {k \in DOMAIN script.blocks :
                 header # NoId /\ IdOf(BlocksOf[script][k]) = <<header>>}
      k == IF past = {} THEN 0 ELSE CHOOSE m \in past : \A o \in past : o <= m
  IN (IF script.bom THEN BOM ELSE <<>>)
     \o FlattenSeq(SubSeq(script.blocks, k + 1, Len(script.blocks)))

-----------------------------------------------------------------------------
(* EventSource *)

\* The fetch of a connection, with the settings and messages so far.
Fetching(header) == [st |-> "fetching", answer |-> Null, header |-> header, pos |-> 0,
                     aborted |-> FALSE, base |-> state, first |-> Len(seen)]

Init ==
  /\ script \in Scripts
  /\ readyState = "CONNECTING"
  /\ request = NoId
  /\ state = [lastEventId |-> NoId, reconnectionTime |-> DefaultTime]
  /\ timer = 0
  /\ seen = <<>>
  /\ conn = Fetching(NoId)
  /\ parser = NewStream
  /\ faults = 0

\* close(): #controller.abort() of the fetch that is at c.
Close(c) ==
  /\ readyState' = "CLOSED"
  /\ request' = Null
  /\ conn' = [c EXCEPT !.aborted = TRUE]

\* The step ends with a listener that may call close().
ThenMayClose(closes, ready, c) ==
  IF closes THEN Close(c) ELSE /\ readyState' = ready /\ conn' = c /\ UNCHANGED request

\* setTimeout(): Node fires a delay beyond MaxTime after 1 ms.
NodeDelay(delay) == IF delay > MaxTime THEN 1 ELSE delay

\* MUTANTS of Reconnect: a connection is opened again whatever readyState says,
\* or only if it was open.
ReconnectAnyway(closes, c) ==
  /\ ThenMayClose(closes, "CONNECTING", c)
  /\ timer' = NodeDelay(IF state.reconnectionTime > MaxTime THEN MaxTime
                        ELSE state.reconnectionTime)

ReconnectIfOpen(closes, c) ==
  IF readyState # "OPEN"
  THEN conn' = c /\ UNCHANGED <<readyState, request, timer>>
  ELSE ReconnectAnyway(closes, c)

\* #reconnect(): the 'error' event, whose listener may close(), and the timer.
Reconnect(closes, c) ==
  IF readyState = "CLOSED"
  THEN conn' = c /\ UNCHANGED <<readyState, request, timer>>
  ELSE /\ ThenMayClose(closes, "CONNECTING", c)
       /\ timer' = NodeDelay(IF state.reconnectionTime > MaxTime THEN MaxTime
                             ELSE state.reconnectionTime)

(* The fetch answers: with an event stream, with a status or type that is   *)
(* none, or with a network error. *)
Answer(kind) ==
  /\ conn.st = "fetching"
  /\ conn.aborted <=> kind = "aborted"
  /\ kind = "refused" => faults < MaxFaults
  /\ conn' = [conn EXCEPT !.st = "answered", !.answer = kind]
  /\ faults' = IF kind = "refused" THEN faults + 1 ELSE faults
  /\ UNCHANGED <<script, readyState, request, state, timer, parser, seen>>

\* processResponse()
ProcessResponse(closes) ==
  /\ conn.st = "answered"
  /\ \/ /\ conn.answer = "aborted" /\ ~closes
        /\ Close([conn EXCEPT !.st = "over"])
        /\ UNCHANGED <<timer, parser>>
     \/ /\ conn.answer = "refused"
        /\ readyState = "CLOSED" => ~closes
        /\ Reconnect(closes, [conn EXCEPT !.st = "over"])
        /\ UNCHANGED parser
     \/ /\ conn.answer = "wrong" /\ ~closes
        /\ Close([conn EXCEPT !.st = "ending"])
        /\ UNCHANGED <<timer, parser>>
     \/ /\ conn.answer = "stream"
        /\ ThenMayClose(closes, "OPEN", [conn EXCEPT !.st = "open"])
        /\ parser' = NewStream
        /\ UNCHANGED timer
  /\ UNCHANGED <<script, state, seen, faults>>

(* The next n symbols arrive as one chunk.  A 'message' listener may close(): *)
(* the rest of the chunk is still parsed, and its events dispatched.  A      *)
(* stream that fails closes the EventSource. *)
Deliver(n, closes) ==
  /\ conn.st = "open" /\ ~conn.aborted
  /\ conn.pos + n <= Len(Body(conn.header))
  /\ LET chunk == SubSeq(Body(conn.header), conn.pos + 1, conn.pos + n)
         w == Transform(parser, chunk, state, script.max)
         after == [conn EXCEPT !.pos = @ + n, !.st = IF w.p.failed THEN "ending" ELSE @]
     IN /\ closes => w.pushed # <<>>
        /\ parser' = w.p
        /\ state' = w.st
        /\ seen' = seen \o w.pushed
        /\ ThenMayClose(closes \/ w.p.failed, readyState, after)
  /\ UNCHANGED <<script, timer, faults>>

\* The body is over: aborted, or ended or cut by the server, wherever it was.
BodyEnds ==
  /\ conn.st = "open"
  /\ conn.aborted \/ faults < MaxFaults
  /\ conn' = [conn EXCEPT !.st = "ending"]
  /\ faults' = IF conn.aborted THEN faults ELSE faults + 1
  /\ UNCHANGED <<script, readyState, request, state, timer, parser, seen>>

\* processResponseEndOfBody()
EndOfBody(closes) ==
  /\ conn.st = "ending"
  /\ readyState = "CLOSED" => ~closes
  /\ Reconnect(closes, [conn EXCEPT !.st = "over"])
  /\ UNCHANGED <<script, state, parser, seen, faults>>

\* The header the timer gives the request.
LastEventId == IF state.lastEventId \in Unsendable THEN NoId ELSE state.lastEventId

\* The timer fires: #connect().
TimerFires ==
  /\ timer > 0 /\ readyState = "CONNECTING" /\ request # Null
  /\ timer' = 0
  /\ request' = LastEventId
  /\ conn' = Fetching(LastEventId)
  /\ UNCHANGED <<script, readyState, state, parser, seen, faults>>

\* The timer fires after close(); with CloseWithHead it throws (request is null).
TimerIsLate ==
  /\ timer > 0 /\ (readyState # "CONNECTING" \/ request = Null)
  /\ timer' = 0
  /\ UNCHANGED <<script, readyState, request, state, conn, parser, seen, faults>>

\* The user calls close().
UserCloses ==
  /\ readyState # "CLOSED"
  /\ conn.st = "answered" => CloseWithHead
  /\ Close(conn)
  /\ UNCHANGED <<script, state, timer, parser, seen, faults>>

Answers == {"stream", "wrong", "refused", "aborted"}
ChunkSizes == 1 .. Len(Body(conn.header)) - conn.pos

Next ==
  \/ \E kind \in Answers : Answer(kind)
  \/ \E closes \in BOOLEAN : ProcessResponse(closes) \/ EndOfBody(closes)
  \/ \E n \in ChunkSizes, closes \in BOOLEAN : Deliver(n, closes)
  \/ BodyEnds
  \/ TimerFires
  \/ TimerIsLate
  \/ UserCloses

(* The server sends on: weak fairness of Deliver, which is enabled while     *)
(* symbols are left and is the one action that adds to conn.pos. *)
CanDeliver == conn.st = "open" /\ ~conn.aborted /\ conn.pos < Len(Body(conn.header))
SendsOn == []<>(~CanDeliver) \/ []<><<conn'.pos > conn.pos>>_vars

(* The fetch answers and calls its callbacks, an aborted body ends, and the *)
(* timer fires. *)
Spec ==
  /\ Init /\ [][Next]_vars
  /\ WF_vars(\E kind \in Answers : Answer(kind))
  /\ WF_vars(\E closes \in BOOLEAN : ProcessResponse(closes) \/ EndOfBody(closes))
  /\ SendsOn
  /\ WF_vars(conn.aborted /\ BodyEnds)
  /\ WF_vars(TimerFires \/ TimerIsLate)

-----------------------------------------------------------------------------
(* Properties *)

Whole == BlocksOf[script]
Arrived == Read(Text(SubSeq(Body(conn.header), 1, conn.pos)))
FirstSettings == [lastEventId |-> NoId, reconnectionTime |-> DefaultTime]

\* Every block with data has an id a request can carry.
Resumes ==
  \A k \in DOMAIN Whole :
    ValuesOf(Whole[k], "data") # <<>> =>
      IdOf(Whole[k]) \notin {<<Null>>, <<>>} \cup {<<id>> : id \in Unsendable}

(* However a stream is cut into chunks, the user gets the messages of the   *)
(* blocks that have arrived, the settings are theirs, and a stream fails    *)
(* exactly if something in it is too big.  Over all connections a stream    *)
(* with ids is seen once and in order, whatever connections break; a        *)
(* request carries the last id, and the timer waits for what was asked.     *)
EventsIntact ==
  LET mine == SubSeq(seen, conn.first + 1, Len(seen))
  IN /\ parser.failed <=> script.max > 0 /\ TooBig(Arrived, script.max)
     /\ parser.failed => IsPrefix(mine, MessagesOf(Arrived.blocks, conn.base))
     /\ ~parser.failed => /\ mine = MessagesOf(Arrived.blocks, conn.base)
                          /\ state = SettingsAfter(Arrived.blocks, conn.base)
     /\ Resumes => IsPrefix(seen, MessagesOf(Whole, FirstSettings))
     /\ conn.header = (IF conn.base.lastEventId \in Unsendable THEN NoId
                       ELSE conn.base.lastEventId)
     /\ timer > 0 => timer = (IF state.reconnectionTime > MaxTime THEN MaxTime
                              ELSE state.reconnectionTime)

(* An EventSource that is CLOSED stays so, opens no connection and gives    *)
(* its user no message of a chunk that comes later, and no connection is    *)
(* opened while another is not over or its timer is armed.  (close() and    *)
(* #reconnect() with the callbacks of a fetch between them.  The rest of    *)
(* the chunk whose listener called close() still yields its messages, and   *)
(* the aborted fetch an 'error' event, which `seen` does not hold.)         *)
ClosedForGood ==
  [][/\ readyState = "CLOSED" =>
          readyState' = "CLOSED" /\ request' = Null /\ seen' = seen
     /\ conn'.st = "fetching" /\ conn.st # "fetching" =>
          readyState # "CLOSED" /\ conn.st = "over" /\ timer' = 0
     /\ timer = 0 /\ timer' # 0 => conn'.st = "over"]_vars

(* Every message of the stream reaches the user in the end, whatever        *)
(* connections break, unless the EventSource closes; one that does gives    *)
(* its connection up. *)
EveryEventArrives ==
  /\ <>(readyState = "CLOSED" \/ ToSet(MessagesOf(Whole, FirstSettings)) \subseteq ToSet(seen))
  /\ (readyState = "CLOSED") ~> (conn.st = "over")

=============================================================================

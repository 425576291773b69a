------------------------- MODULE EventSourceProofs -------------------------
(***************************************************************************)
(* close() is final: an EventSource that is CLOSED stays so and gives its  *)
(* user no further chunk's messages, and there is one connection at a      *)
(* time, for any servers, listeners and connections.                       *)
(***************************************************************************)
EXTENDS EventSource, TLAPS

\* conn has the fields of a fetch; what the parser puts into some is left open.
Points == {"fetching", "answered", "open", "ending", "over"}

Fetches(headers, bases, numbers) ==
  [st: Points, answer: Answers \cup {Null}, header: headers, pos: numbers,
   aborted: BOOLEAN, base: bases, first: numbers]

IsFetch(c) ==
  \E headers, bases, numbers : c \in Fetches(headers, bases, numbers)

\* The timer is armed when a connection is over, and nothing but the timer
\* opens the next one.
TimerAfterEnd == timer # 0 => conn.st = "over"

\* close() has aborted the fetch, and no head of a stream waits for its callback.
ClosedIsAborted ==
  readyState = "CLOSED" =>
    /\ request = Null
    /\ conn.aborted
    /\ conn.st = "answered" => conn.answer = "aborted"

IInv == IsFetch(conn) /\ TimerAfterEnd /\ ClosedIsAborted

\* One step of ClosedForGood.
StaysClosed ==
  /\ readyState = "CLOSED" =>
       readyState' = "CLOSED" /\ request' = Null /\ seen' = seen
  /\ conn'.st = "fetching" /\ conn.st # "fetching" =>
       readyState # "CLOSED" /\ conn.st = "over" /\ timer' = 0
  /\ timer = 0 /\ timer' # 0 => conn'.st = "over"

----------------------------------------------------------------------------

\* A fetch that moves on, or is aborted, is still one.
LEMMA StillFetchAnswered ==
  ASSUME NEW c, IsFetch(c), NEW answer \in Answers
  PROVE  LET d == [c EXCEPT !.st = "answered", !.answer = answer]
         IN IsFetch(d) /\ d.st = "answered" /\ d.answer = answer /\ d.aborted = c.aborted
<1>1. PICK headers, bases, numbers : c \in Fetches(headers, bases, numbers)
  BY DEF IsFetch
<1> DEFINE d == [c EXCEPT !.st = "answered", !.answer = answer]
<1>2. /\ d \in Fetches(headers, bases, numbers)
      /\ d.st = "answered" /\ d.answer = answer /\ d.aborted = c.aborted
  BY <1>1 DEF Fetches, Points
<1>3. QED
  BY <1>2 DEF IsFetch

LEMMA StillFetchRead ==
  ASSUME NEW c, IsFetch(c), NEW st \in Points, NEW pos
  PROVE  LET e == [c EXCEPT !.pos = pos, !.st = st]
         IN IsFetch(e) /\ e.st = st /\ e.answer = c.answer /\ e.aborted = c.aborted
<1>1. PICK headers, bases, numbers : c \in Fetches(headers, bases, numbers)
  BY DEF IsFetch
<1> DEFINE e == [c EXCEPT !.pos = pos, !.st = st]
<1>2. /\ e \in Fetches(headers, bases, numbers \cup {pos})
      /\ e.st = st /\ e.answer = c.answer /\ e.aborted = c.aborted
  BY <1>1 DEF Fetches
<1>3. QED
  BY <1>2 DEF IsFetch

LEMMA StillFetchAt ==
  ASSUME NEW c, IsFetch(c), NEW st \in Points
  PROVE  LET d == [c EXCEPT !.st = st]
         IN IsFetch(d) /\ d.st = st /\ d.answer = c.answer /\ d.aborted = c.aborted
<1>1. PICK headers, bases, numbers : c \in Fetches(headers, bases, numbers)
  BY DEF IsFetch
<1> DEFINE d == [c EXCEPT !.st = st]
<1>2. /\ d \in Fetches(headers, bases, numbers)
      /\ d.st = st /\ d.answer = c.answer /\ d.aborted = c.aborted
  BY <1>1 DEF Fetches
<1>3. QED
  BY <1>2 DEF IsFetch

LEMMA StillFetchAborted ==
  ASSUME NEW c, IsFetch(c)
  PROVE  LET e == [c EXCEPT !.aborted = TRUE]
         IN IsFetch(e) /\ e.st = c.st /\ e.answer = c.answer /\ e.aborted
<1>1. PICK headers, bases, numbers : c \in Fetches(headers, bases, numbers)
  BY DEF IsFetch
<1> DEFINE e == [c EXCEPT !.aborted = TRUE]
<1>2. /\ e \in Fetches(headers, bases, numbers)
      /\ e.st = c.st /\ e.answer = c.answer /\ e.aborted
  BY <1>1 DEF Fetches
<1>3. QED
  BY <1>2 DEF IsFetch

\* A fetch that begins.
LEMMA FetchingIsFetch ==
  ASSUME NEW header
  PROVE  IsFetch(Fetching(header)) /\ Fetching(header).st = "fetching"
<1>1. Fetching(header) \in Fetches({header}, {state}, {0, Len(seen)})
  BY DEF Fetches, Fetching, Points
<1>2. QED
  BY <1>1 DEF IsFetch, Fetching

\* close() leaves a fetch where it is.
LEMMA CloseMeans ==
  ASSUME NEW c, IsFetch(c), Close(c)
  PROVE  /\ readyState' = "CLOSED" /\ request' = Null
         /\ IsFetch(conn') /\ conn'.st = c.st /\ conn'.answer = c.answer /\ conn'.aborted
BY StillFetchAborted DEF Close

LEMMA MayCloseMeans ==
  ASSUME NEW c, IsFetch(c), NEW closes, NEW ready, ThenMayClose(closes, ready, c)
  PROVE  /\ IsFetch(conn') /\ conn'.st = c.st /\ conn'.answer = c.answer
         /\ \/ readyState' = "CLOSED" /\ request' = Null /\ conn'.aborted
            \/ readyState' = ready /\ request' = request /\ conn' = c
<1>1. CASE closes
  BY <1>1, CloseMeans DEF ThenMayClose
<1>2. CASE ~closes
  BY <1>2 DEF ThenMayClose
<1>3. QED
  BY <1>1, <1>2

\* #reconnect() of a fetch that is over.
LEMMA ReconnectMeans ==
  ASSUME NEW c, IsFetch(c), NEW closes, Reconnect(closes, c), c.st = "over"
  PROVE  /\ IsFetch(conn') /\ conn'.st = "over"
         /\ readyState = "CLOSED" =>
              conn' = c /\ readyState' = "CLOSED" /\ request' = request /\ timer' = timer
         /\ readyState # "CLOSED" /\ readyState' = "CLOSED" =>
              request' = Null /\ conn'.aborted
<1>1. CASE readyState = "CLOSED"
  BY <1>1 DEF Reconnect
<1>2. CASE readyState # "CLOSED"
  <2>1. ThenMayClose(closes, "CONNECTING", c)
    BY <1>2 DEF Reconnect
  <2>2. QED
    BY <1>2, <2>1, MayCloseMeans
<1>3. QED
  BY <1>1, <1>2

----------------------------------------------------------------------------

LEMMA InitIInv == Init => IInv
BY FetchingIsFetch DEF Init, IInv, TimerAfterEnd, ClosedIsAborted

\* Unless close() runs between a head and its callback (CloseWithHead), each
\* step keeps the invariant and does what ClosedForGood says.
LEMMA NextIInv ==
  ASSUME ~CloseWithHead, IInv, [Next]_vars
  PROVE  IInv' /\ (vars' = vars \/ StaysClosed)
<1> USE DEF IInv, TimerAfterEnd, ClosedIsAborted, StaysClosed
<1>1. ASSUME NEW kind \in Answers, Answer(kind)
      PROVE  IInv' /\ StaysClosed
  <2>1. /\ IsFetch(conn') /\ conn'.st = "answered" /\ conn'.answer = kind
        /\ conn'.aborted = conn.aborted
    BY <1>1, StillFetchAnswered DEF Answer
  <2>2. kind # "aborted" => ~conn.aborted
    BY <1>1 DEF Answer
  <2>3. conn.st = "fetching" /\ UNCHANGED <<readyState, request, timer, seen>>
    BY <1>1 DEF Answer
  <2>4. QED
    BY <2>1, <2>2, <2>3
<1>2. ASSUME NEW closes \in BOOLEAN, ProcessResponse(closes)
      PROVE  IInv' /\ StaysClosed
  <2>0. conn.st = "answered" /\ timer = 0 /\ seen' = seen
    BY <1>2 DEF ProcessResponse
  <2>1. PICK st, c :
          /\ st \in {"over", "ending", "open"}
          /\ c = [conn EXCEPT !.st = st]
          /\ \/ conn.answer = "aborted" /\ Close(c) /\ timer' = timer
             \/ conn.answer = "refused" /\ Reconnect(closes, c) /\ st = "over"
             \/ conn.answer = "wrong" /\ Close(c) /\ timer' = timer
             \/ conn.answer = "stream" /\ ThenMayClose(closes, "OPEN", c) /\ timer' = timer
    BY <1>2 DEF ProcessResponse
  <2>2. IsFetch(c) /\ c.st = st /\ c.aborted = conn.aborted
    <3>1. IsFetch(conn) /\ st \in Points
      BY <2>1 DEF Points
    <3>2. c = [conn EXCEPT !.st = st]
      BY <2>1
    <3>3. QED
      BY ONLY <3>1, <3>2, StillFetchAt
  <2>3. CASE Close(c) /\ timer' = timer
    <3>1. /\ readyState' = "CLOSED" /\ request' = Null
          /\ IsFetch(conn') /\ conn'.st = st /\ conn'.aborted
      BY <2>2, <2>3, CloseMeans
    <3>2. QED
      BY <2>0, <2>1, <2>3, <3>1
  <2>4. CASE conn.answer = "refused" /\ Reconnect(closes, c) /\ st = "over"
    <3>1. /\ IsFetch(conn') /\ conn'.st = "over"
          /\ readyState # "CLOSED" /\ readyState' = "CLOSED" =>
               request' = Null /\ conn'.aborted
      BY <2>2, <2>4, ReconnectMeans
    <3>2. readyState # "CLOSED"
      BY <2>0, <2>4
    <3>3. QED
      BY <3>1, <3>2
  <2>5. CASE conn.answer = "stream" /\ ThenMayClose(closes, "OPEN", c) /\ timer' = timer
    <3>1. /\ IsFetch(conn') /\ conn'.st = st
          /\ \/ readyState' = "CLOSED" /\ request' = Null /\ conn'.aborted
             \/ readyState' = "OPEN"
      BY <2>2, <2>5, MayCloseMeans
    <3>2. readyState # "CLOSED"
      BY <2>0, <2>5
    <3>3. QED
      BY <2>0, <2>1, <2>5, <3>1, <3>2
  <2>6. QED
    BY <2>1, <2>3, <2>4, <2>5
<1>3. ASSUME NEW n, NEW closes \in BOOLEAN, Deliver(n, closes)
      PROVE  IInv' /\ StaysClosed
  <2> DEFINE chunk == SubSeq(Body(conn.header), conn.pos + 1, conn.pos + n)
             w     == Transform(parser, chunk, state, script.max)
             st    == IF w.p.failed THEN "ending" ELSE "open"
  <2>1. PICK c : c = [conn EXCEPT !.pos = conn.pos + n, !.st = st]
    OBVIOUS
  <2>1a. conn.st = "open" /\ ThenMayClose(closes \/ w.p.failed, readyState, c)
    BY <1>3, <2>1 DEF Deliver
  <2>1b. st \in Points /\ st # "answered" /\ st # "fetching" /\ st # "over"
    BY DEF Points
  <2> HIDE DEF st, w
  <2>1c. IsFetch(c) /\ c.st = st
    BY <2>1, <2>1b, StillFetchRead
  <2>2. /\ IsFetch(conn') /\ conn'.st = st
        /\ \/ readyState' = "CLOSED" /\ request' = Null /\ conn'.aborted
           \/ readyState' = readyState /\ request' = request
    BY <2>1a, <2>1c, MayCloseMeans
  <2>3. conn.st = "open" /\ ~conn.aborted /\ timer' = timer
    BY <1>3 DEF Deliver
  <2>4. QED
    BY <2>1b, <2>2, <2>3
<1>4. ASSUME BodyEnds PROVE IInv' /\ StaysClosed
  <2>1. IsFetch(conn') /\ conn'.st = "ending" /\ conn'.aborted = conn.aborted
    BY <1>4, StillFetchAt DEF BodyEnds, Points
  <2>2. QED
    BY <1>4, <2>1 DEF BodyEnds
<1>5. ASSUME NEW closes \in BOOLEAN, EndOfBody(closes) PROVE IInv' /\ StaysClosed
  <2>0. PICK c : c = [conn EXCEPT !.st = "over"]
    OBVIOUS
  <2>1. IsFetch(c) /\ c.st = "over" /\ c.aborted = conn.aborted
    BY <2>0, StillFetchAt DEF Points
  <2>2. /\ IsFetch(conn') /\ conn'.st = "over"
        /\ readyState = "CLOSED" =>
             conn' = c /\ readyState' = "CLOSED" /\ request' = request /\ timer' = timer
        /\ readyState # "CLOSED" /\ readyState' = "CLOSED" =>
             request' = Null /\ conn'.aborted
    BY <1>5, <2>0, <2>1, ReconnectMeans DEF EndOfBody
  <2>3. seen' = seen
    BY <1>5 DEF EndOfBody
  <2>4. QED
    BY <2>1, <2>2, <2>3
<1>6. ASSUME TimerFires PROVE IInv' /\ StaysClosed
  <2>1. timer # 0 /\ readyState = "CONNECTING" /\ readyState' = readyState /\ timer' = 0
    BY <1>6 DEF TimerFires
  <2>2. IsFetch(conn')
    BY <1>6, FetchingIsFetch DEF TimerFires
  <2>3. QED
    BY <2>1, <2>2
<1>7. ASSUME TimerIsLate PROVE IInv' /\ StaysClosed
  BY <1>7 DEF TimerIsLate
<1>8. ASSUME UserCloses PROVE IInv' /\ StaysClosed
  <2>1. /\ readyState' = "CLOSED" /\ request' = Null
        /\ IsFetch(conn') /\ conn'.st = conn.st /\ conn'.answer = conn.answer
        /\ conn'.aborted
    BY <1>8, CloseMeans DEF UserCloses
  <2>2. conn.st # "answered" /\ timer' = timer /\ seen' = seen
    BY <1>8 DEF UserCloses
  <2>3. QED
    BY <2>1, <2>2
<1>9. CASE UNCHANGED vars
  BY <1>9 DEF vars
<1>10. QED
  BY <1>1, <1>2, <1>3, <1>4, <1>5, <1>6, <1>7, <1>8, <1>9 DEF Next

(* An EventSource that is CLOSED stays so, opens no connection and gives    *)
(* its user no message of a later chunk, and no connection is opened while  *)
(* another is not over or its timer is armed, as long as close() does not   *)
(* run between a head and its callback: there processResponse opens the     *)
(* EventSource again (eventsource.js:309).  The messages behind the one     *)
(* whose listener calls close(), of the same chunk, do follow, and so does  *)
(* the 'error' event of the aborted fetch (eventsource.js:275).             *)
THEOREM CloseIsFinal == ~CloseWithHead /\ Spec => ClosedForGood
<1> SUFFICES ASSUME ~CloseWithHead PROVE Spec => ClosedForGood
  OBVIOUS
<1>1. Init => IInv
  BY InitIInv
<1>2. IInv /\ [Next]_vars => IInv' /\ (vars' = vars \/ StaysClosed)
  BY NextIInv
<1>3. StaysClosed \/ vars' = vars <=> [StaysClosed]_vars
  OBVIOUS
<1>4. QED
  BY <1>1, <1>2, <1>3, PTL DEF Spec, ClosedForGood, StaysClosed
=============================================================================

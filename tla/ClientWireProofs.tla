-------------------------- MODULE ClientWireProofs --------------------------
(***************************************************************************)
(* What Client writes to its socket, for every value of its constants: the *)
(* running part of the queue is what is on the wire, a used socket is      *)
(* validated before it is used again, and what shares a connection may do  *)
(* so (ConnectionShared).                                                  *)
(***************************************************************************)
EXTENDS ClientStackProofs

----------------------------------------------------------------------------
(* The inductive invariant: the indices of the queue and the wire.          *)

\* The running requests, with the one that was written and is not counted yet.
Counted == IF "advance" \in On(stack) THEN Running + 1 ELSE Running

\* The indices lie within the queue, unless a closed socket's requests are
\* not pending again yet.
Bounds ==
  /\ runningIdx <= pendingIdx /\ runningIdx <= Len(queue)
  /\ pendingIdx <= Len(queue) \/ "closeEnd" \in On(stack)

\* kSocket, kHTTPContext, kConnecting and kDestroyed fit each other.
Life ==
  /\ Live => ctx
  /\ ctx => sock.st # "none"
  /\ ~destroyed /\ ~ctx => sock.st = "none"
  /\ connecting = "dialing" => ~ctx
  /\ On(stack) \cap {"busy", "pick"} # {} => ~destroyed
  /\ "destroyEnd" \in On(stack) => destroyed

\* With a socket, what is running is on the wire.
WireMatches ==
  sock.st # "none" =>
    /\ Len(wire) = Counted /\ runningIdx + Len(wire) <= Len(queue)
    /\ \A k \in 1..Len(wire) : queue[runningIdx + k] = wire[k]
    /\ "closeEnd" \notin On(stack)

\* Without one nothing runs, and nothing of the connection is on the stack.
OfSocket == {"write", "advance", "complete", "afterEnd", "afterHeaders"}
NoWire ==
  sock.st = "none" =>
    /\ wire = <<>>
    /\ Running = 0 \/ "closeEnd" \in On(stack) \/ broken # "none"
    /\ On(stack) \cap OfSocket = {}

\* A request that is leaving the queue is in it.
EndRuns == "afterEnd" \in On(stack) => Running > 0

Core == Bounds /\ Life /\ WireMatches /\ NoWire /\ EndRuns

----------------------------------------------------------------------------
(* Sequences and sockets.                                                   *)

LEMMA SpliceElements ==
  ASSUME NEW T, NEW q \in Seq(T), NEW i \in Nat
  PROVE  /\ i <= Len(q) =>
              /\ Len(Upto(q, i)) = i /\ \A k \in 1..i : Upto(q, i)[k] = q[k]
              /\ Len(From(q, i)) = Len(q) - i
              /\ \A k \in 1..(Len(q) - i) : From(q, i)[k] = q[i + k]
         /\ i >= Len(q) => Upto(q, i) = q /\ From(q, i) = <<>>
<1>1. Len(q) \in Nat /\ \A k \in 1..Len(q) : q[k] \in T
  BY LenProperties, ElementOfSeq
<1>2. ASSUME i <= Len(q)
      PROVE  Len(Upto(q, i)) = i /\ \A k \in 1..i : Upto(q, i)[k] = q[k]
  <2>1. Upto(q, i) = SubSeq(q, 1, i)
    BY <1>1, <1>2 DEF Upto
  <2>2. \A k \in 1..i : q[k] \in T
    BY <1>1, <1>2
  <2>3. /\ Len(SubSeq(q, 1, i)) = IF 1 <= i THEN i - 1 + 1 ELSE 0
        /\ \A k \in 1..(i - 1 + 1) : SubSeq(q, 1, i)[k] = q[1 + k - 1]
    BY <2>2, SubSeqProperties
  <2>4. QED
    BY <2>1, <2>3
<1>3. ASSUME i <= Len(q)
      PROVE  /\ Len(From(q, i)) = Len(q) - i
             /\ \A k \in 1..(Len(q) - i) : From(q, i)[k] = q[i + k]
  <2>1. From(q, i) = SubSeq(q, i + 1, Len(q))
    BY <1>1 DEF From
  <2>2. \A k \in (i + 1)..Len(q) : q[k] \in T
    BY <1>1
  <2>3. /\ Len(SubSeq(q, i + 1, Len(q))) =
              IF i + 1 <= Len(q) THEN Len(q) - (i + 1) + 1 ELSE 0
        /\ \A k \in 1..(Len(q) - (i + 1) + 1) :
             SubSeq(q, i + 1, Len(q))[k] = q[(i + 1) + k - 1]
    BY <1>1, <2>2, SubSeqProperties
  <2>4. Len(From(q, i)) = Len(q) - i
    BY <1>1, <1>3, <2>1, <2>3
  <2>5. ASSUME NEW k \in 1..(Len(q) - i) PROVE From(q, i)[k] = q[i + k]
    <3>1. k \in 1..(Len(q) - (i + 1) + 1) /\ (i + 1) + k - 1 = i + k
      BY <1>1
    <3>2. From(q, i)[k] = q[(i + 1) + k - 1]
      BY <2>1, <2>3, <3>1
    <3>3. QED
      BY <3>1, <3>2
  <2>6. QED
    BY <2>4, <2>5
<1>4. ASSUME i >= Len(q) PROVE Upto(q, i) = q /\ From(q, i) = <<>>
  <2>1. Upto(q, i) = SubSeq(q, 1, Len(q)) /\ From(q, i) = SubSeq(q, i + 1, Len(q))
    BY <1>1, <1>4 DEF Upto, From
  <2>2. SubSeq(q, 1, Len(q)) = q
    BY SubSeqFull
  <2>3. i + 1 \in Int /\ Len(q) \in Int /\ Len(q) < i + 1
    BY <1>1, <1>4
  <2>4. SubSeq(q, i + 1, Len(q)) = <<>>
    BY <2>3, SubSeqEmpty
  <2>5. QED
    BY <2>1, <2>2, <2>4
<1>5. QED
  BY <1>2, <1>3, <1>4

LEMMA WithoutElements ==
  ASSUME NEW T, NEW q \in Seq(T), NEW i \in Nat
  PROVE  /\ i >= Len(q) => WithoutAt(q, i) = q
         /\ i < Len(q) => Len(WithoutAt(q, i)) = Len(q) - 1
         /\ \A k \in 1..Len(q) :
              k <= i => k <= Len(WithoutAt(q, i)) /\ WithoutAt(q, i)[k] = q[k]
         /\ \A k \in 1..Len(q) :
              k > i + 1 => WithoutAt(q, i)[k - 1] = q[k]
<1>1. Len(q) \in Nat /\ i + 1 \in Nat
      /\ Upto(q, i) \in Seq(T) /\ From(q, i + 1) \in Seq(T)
  <2>1. i \in Int /\ i + 1 \in Int /\ i + 1 \in Nat /\ Len(q) \in Nat
    BY LenProperties
  <2>2. Upto(q, i) \in Seq(T)
    BY <2>1, SpliceTypes
  <2>3. From(q, i + 1) \in Seq(T)
    BY <2>1, SpliceTypes
  <2>4. QED
    BY <2>1, <2>2, <2>3
<1>2. CASE i >= Len(q)
  <2>1. Upto(q, i) = q /\ From(q, i + 1) = <<>>
    BY <1>1, <1>2, SpliceElements
  <2>2. WithoutAt(q, i) = q
    BY <2>1, ConcatEmptySeq DEF WithoutAt
  <2>3. QED
    BY <1>1, <1>2, <2>2
<1>3. CASE i < Len(q)
  <2>1. /\ Len(Upto(q, i)) = i /\ \A k \in 1..i : Upto(q, i)[k] = q[k]
    BY <1>1, <1>3, SpliceElements
  <2>2. /\ Len(From(q, i + 1)) = Len(q) - (i + 1)
        /\ \A k \in 1..(Len(q) - (i + 1)) : From(q, i + 1)[k] = q[(i + 1) + k]
    BY <1>1, <1>3, SpliceElements, SMTT(30)
  <2> DEFINE u == Upto(q, i)
             f == From(q, i + 1)
  <2>3. /\ Len(u \o f) = Len(u) + Len(f)
        /\ \A k \in 1..(Len(u) + Len(f)) :
             (u \o f)[k] = IF k <= Len(u) THEN u[k] ELSE f[k - Len(u)]
    BY <1>1, ConcatProperties
  <2>4. WithoutAt(q, i) = u \o f
    BY DEF WithoutAt
  <2>5. Len(u) = i /\ Len(f) = Len(q) - (i + 1)
    BY <2>1, <2>2
  <2> HIDE DEF u, f
  <2>6. Len(WithoutAt(q, i)) = Len(q) - 1
    BY <1>1, <2>3, <2>4, <2>5
  <2>7. ASSUME NEW k \in 1..Len(q), k <= i
        PROVE  k <= Len(WithoutAt(q, i)) /\ WithoutAt(q, i)[k] = q[k]
    BY <1>1, <1>3, <2>1, <2>3, <2>4, <2>5, <2>6, <2>7 DEF u
  <2>8. ASSUME NEW k \in 1..Len(q), k > i + 1
        PROVE  WithoutAt(q, i)[k - 1] = q[k]
    <3>1. /\ k - 1 \in 1..(Len(u) + Len(f)) /\ ~(k - 1 <= Len(u))
          /\ k - 1 - Len(u) \in 1..(Len(q) - (i + 1))
          /\ (i + 1) + (k - 1 - Len(u)) = k
      BY <1>1, <2>5, <2>8
    <3>2. WithoutAt(q, i)[k - 1] = f[k - 1 - Len(u)]
      BY <2>3, <2>4, <3>1
    <3>3. f[k - 1 - Len(u)] = q[(i + 1) + (k - 1 - Len(u))]
      BY <2>2, <3>1 DEF f
    <3>4. QED
      BY <3>1, <3>2, <3>3
  <2>9. QED
    BY <1>3, <2>6, <2>7, <2>8
<1>4. QED
  BY <1>1, <1>2, <1>3

\* What util.destroy leaves alone.
LEMMA KillFields ==
  ASSUME NEW s \in Socks, NEW e
  PROVE  /\ Kill(s, e).st = IF s.st = "live" THEN "dying" ELSE s.st
         /\ Kill(s, e).counter = s.counter /\ Kill(s, e).name = s.name
         /\ Kill(s, e).reset = s.reset /\ Kill(s, e).used = s.used
         /\ Kill(s, e).idle = s.idle
<1>1. CASE s.st = "live"
  <2>1. PICK t : t = [s EXCEPT !.st = "dying", !.err = e]
    OBVIOUS
  <2>2. /\ t.st = "dying" /\ t.counter = s.counter /\ t.name = s.name
        /\ t.reset = s.reset /\ t.used = s.used /\ t.idle = s.idle
    BY <2>1 DEF Socks
  <2>3. Kill(s, e) = t
    BY <1>1, <2>1 DEF Kill
  <2>4. QED
    BY <1>1, <2>2, <2>3
<1>2. CASE s.st # "live"
  BY <1>2 DEF Kill
<1>3. QED
  BY <1>1, <1>2

----------------------------------------------------------------------------
(* Steps that leave the indices and the wire alone.                         *)

\* What such a step may do to the stack, in terms of the invariant.
LEMMA CoreKept ==
  ASSUME TypeOK, Core, broken = "none",
         queue' \in Seq(Slots), runningIdx' = runningIdx,
         pendingIdx' = pendingIdx, wire' = wire,
         \A k \in 1..Len(queue) : k <= runningIdx + Counted =>
           k <= Len(queue') /\ queue'[k] = queue[k],
         sock'.st = "none" <=> sock.st = "none",
         NEW S, NEW t \in Seq(Frames), Moves(S, t),
         \/ t = stack
         \/ stack # <<>> /\ t = Caller /\ Top.at \notin {"advance", "closeEnd"},
         S \cap {"advance", "closeEnd"} = {},
         S \cap OfSocket = {} \/ sock.st # "none",
         "afterEnd" \in S => Running > 0
  PROVE  Bounds' /\ WireMatches' /\ NoWire' /\ EndRuns'
<1>a. /\ stack \in Seq(Frames) /\ runningIdx \in Nat /\ pendingIdx \in Int
      /\ queue \in Seq(Slots) /\ Len(queue) \in Nat /\ Len(queue') \in Nat
      /\ wire \in Seq(Requests) /\ Len(wire) \in Nat
  BY TypeParts, LenProperties DEF TypeOK
<1>1. /\ On(stack') \subseteq S \cup On(t) /\ S \cup On(t) \subseteq On(stack') \cup {"fail"}
  BY MovesOn
<1>2. t = stack \/ (On(stack) = {Top.at} \cup On(t) /\ Top.at \notin {"advance", "closeEnd"})
  BY <1>a, OnTop
<1>3. /\ "advance" \in On(stack') <=> "advance" \in On(stack)
      /\ "closeEnd" \in On(stack') <=> "closeEnd" \in On(stack)
      /\ "afterEnd" \in On(stack') => "afterEnd" \in On(stack) \/ Running > 0
      /\ On(stack') \cap OfSocket # {} =>
           On(stack) \cap OfSocket # {} \/ sock.st # "none"
  BY <1>1, <1>2
<1>4. Running' = Running /\ Counted' = Counted
  BY <1>3 DEF Running, Counted
<1>5. Running \in Int /\ Counted \in Int /\ runningIdx + Running = pendingIdx
      /\ (Counted = Running \/ Counted = Running + 1)
      /\ ("advance" \notin On(stack) => Counted = Running)
  BY <1>a DEF Running, Counted
<1>6. Bounds'
  <2>1. runningIdx <= Len(queue')
    <3>1. CASE runningIdx = 0
      BY <1>a, <3>1
    <3>2. CASE runningIdx # 0
      BY <1>a, <1>5, <3>2 DEF Core, Bounds
    <3>3. QED
      BY <3>1, <3>2
  <2>2. pendingIdx <= Len(queue) => pendingIdx <= Len(queue')
    <3>1. CASE pendingIdx = 0
      BY <1>a, <3>1
    <3>2. CASE pendingIdx # 0
      BY <1>a, <1>5, <3>2 DEF Core, Bounds
    <3>3. QED
      BY <3>1, <3>2
  <2>3. QED
    BY <1>3, <2>1, <2>2 DEF Core, Bounds
<1>7. WireMatches'
  <2> SUFFICES ASSUME sock'.st # "none"
               PROVE  /\ Len(wire) = Counted /\ runningIdx + Len(wire) <= Len(queue')
                      /\ \A k \in 1..Len(wire) : queue'[runningIdx + k] = wire[k]
                      /\ "closeEnd" \notin On(stack')
    BY <1>4 DEF WireMatches
  <2>1. /\ Len(wire) = Counted /\ runningIdx + Len(wire) <= Len(queue)
        /\ \A k \in 1..Len(wire) : queue[runningIdx + k] = wire[k]
        /\ "closeEnd" \notin On(stack)
    BY DEF Core, WireMatches
  <2>2. runningIdx + Len(wire) <= Len(queue')
    <3>1. CASE runningIdx + Len(wire) = 0
      BY <1>a, <3>1
    <3>2. CASE runningIdx + Len(wire) # 0
      <4>1. runningIdx + Len(wire) \in 1..Len(queue)
        BY <1>a, <2>1, <3>2
      <4>2. QED
        BY <1>a, <2>1, <4>1
    <3>3. QED
      BY <3>1, <3>2
  <2>3. ASSUME NEW k \in 1..Len(wire) PROVE queue'[runningIdx + k] = wire[k]
    <3>1. runningIdx + k \in 1..Len(queue) /\ runningIdx + k <= runningIdx + Counted
      BY <1>a, <1>5, <2>1
    <3>2. QED
      BY <2>1, <3>1
  <2>4. QED
    BY <1>3, <2>1, <2>2, <2>3
<1>8. NoWire'
  BY <1>3, <1>4 DEF Core, NoWire
<1>9. EndRuns'
  BY <1>3, <1>4 DEF Core, EndRuns
<1>10. QED
  BY <1>6, <1>7, <1>8, <1>9

LEMMA LifeKept ==
  ASSUME TypeOK, Life, ctx' = ctx, destroyed' = destroyed,
         connecting' = "dialing" => connecting = "dialing",
         sock'.st = "none" <=> sock.st = "none",
         sock'.st = "live" => sock.st = "live",
         NEW S, NEW t \in Seq(Frames), Moves(S, t),
         t = stack \/ (stack # <<>> /\ t = Caller),
         S \cap {"busy", "pick"} = {} \/ ~destroyed,
         "destroyEnd" \notin S
  PROVE  Life'
<1>1. On(stack') \subseteq S \cup On(t)
  BY MovesOn
<1>2. On(t) \subseteq On(stack)
  BY OnTop, TypeParts
<1>3. /\ On(stack') \cap {"busy", "pick"} # {} =>
           On(stack) \cap {"busy", "pick"} # {} \/ ~destroyed
      /\ "destroyEnd" \in On(stack') => "destroyEnd" \in On(stack)
  BY <1>1, <1>2
<1>4. QED
  BY <1>3 DEF Life, Live

\* The socket is the same, or what util.destroy and its 'error' event left of it.
Remains(s, t) ==
  /\ t.st = "none" <=> s.st = "none"
  /\ t.st = "live" => s.st = "live"
  /\ t.counter = s.counter /\ t.name = s.name
  /\ s.reset => t.reset

\* The queue is the same up to the last request that was written.
PrefixKept ==
  /\ queue' \in Seq(Slots) /\ runningIdx' = runningIdx /\ pendingIdx' = pendingIdx
  /\ \A k \in 1..Len(queue) :
       k <= runningIdx + Counted => k <= Len(queue') /\ queue'[k] = queue[k]

\* A step of a kind that needs no account of its own.
Steady(S, t) ==
  /\ Moves(S, t)
  /\ \/ t = stack
     \/ stack # <<>> /\ t = Caller /\ Top.at \notin {"advance", "closeEnd"}
  /\ S \cap {"advance", "closeEnd", "destroyEnd", "busy", "pick"} = {}
  /\ S \cap OfSocket = {} \/ sock.st # "none"
  /\ "afterEnd" \in S => Running > 0

LEMMA CoreStep ==
  ASSUME TypeOK, Core, broken = "none", PrefixKept, wire' = wire, ctx' = ctx,
         destroyed' = destroyed, connecting' = "dialing" => connecting = "dialing",
         Remains(sock, sock'), \E S, t : Steady(S, t)
  PROVE  Core'
<1>1. PICK S, t : Steady(S, t)
  OBVIOUS
<1>2. t \in Seq(Frames)
  BY <1>1, TypeParts, TopType DEF Steady
<1>3. Bounds' /\ WireMatches' /\ NoWire' /\ EndRuns'
  BY <1>1, <1>2, CoreKept DEF Steady, PrefixKept, Remains
<1>4. Life'
  <2>1. /\ Life /\ Moves(S, t) /\ (t = stack \/ (stack # <<>> /\ t = Caller))
        /\ S \cap {"busy", "pick"} = {} /\ "destroyEnd" \notin S
        /\ (sock'.st = "none" <=> sock.st = "none")
        /\ (sock'.st = "live" => sock.st = "live")
    BY <1>1 DEF Steady, Remains, Core
  <2>2. QED
    BY <1>2, <2>1, LifeKept
<1>5. QED
  BY <1>3, <1>4 DEF Core

LEMMA SamePrefix == TypeOK /\ UNCHANGED qVars => PrefixKept
BY TypeParts DEF PrefixKept, qVars

LEMMA RemainsSame == sock' = sock => Remains(sock, sock')
BY DEF Remains

\* The flags of the socket that are set one at a time.
LEMMA FlagsRemain ==
  ASSUME NEW s \in Socks, NEW v
  PROVE  /\ Remains(s, [s EXCEPT !.idle = v]) /\ Remains(s, [s EXCEPT !.writing = v])
         /\ Remains(s, [s EXCEPT !.paused = v]) /\ Remains(s, [s EXCEPT !.midBody = v])
         /\ Remains(s, [s EXCEPT !.used = v]) /\ Remains(s, [s EXCEPT !.timer = v])
         /\ Remains(s, [s EXCEPT !.blocking = v])
BY DEF Remains, Socks

LEMMA KillRemains ==
  ASSUME NEW s \in Socks, NEW e
  PROVE  Remains(s, Kill(s, e)) /\ Kill(s, e).st # "live"
BY KillFields DEF Remains

\* And its listeners for 'close'.
LEMMA GivenUp ==
  ASSUME NEW s \in Socks, NEW e, NEW c
  PROVE  /\ Remains(s, [Kill(s, e) EXCEPT !.onClose = @ \cup c])
         /\ [Kill(s, e) EXCEPT !.onClose = @ \cup c].st # "live"
<1>1. Remains(s, Kill(s, e)) /\ Kill(s, e).st # "live"
  BY KillRemains
<1>2. PICK k : k = Kill(s, e)
  OBVIOUS
<1>3. PICK d : d = [s EXCEPT !.st = "dying", !.err = e]
  OBVIOUS
<1>4. DOMAIN d = DOMAIN s /\ DOMAIN s = DOMAIN NoSock
  BY <1>3 DEF Socks, NoSock
<1>5. k = d \/ k = s
  BY <1>2, <1>3 DEF Kill
<1>6. DOMAIN k = DOMAIN NoSock
  BY <1>4, <1>5
<1>7. PICK t : t = [k EXCEPT !.onClose = @ \cup c]
  OBVIOUS
<1>8. /\ t.st = k.st /\ t.counter = k.counter /\ t.name = k.name /\ t.reset = k.reset
  BY <1>6, <1>7 DEF NoSock
<1>9. Remains(s, t) /\ t.st # "live"
  BY <1>1, <1>2, <1>8 DEF Remains
<1>10. QED
  BY <1>2, <1>7, <1>9

LEMMA RemainsChain ==
  ASSUME NEW s, NEW t, NEW u, Remains(s, t), Remains(t, u)
  PROVE  Remains(s, u)
BY DEF Remains

\* Only connecting, writing a head, upgrading and 'close' make more of the socket.
LEMMA FrameRemains ==
  ASSUME TypeOK,
         \/ UserStep
         \/ CallbackReturns \/ FailNext \/ CheckEmpty \/ DestroyEnd
         \/ DestroyCallback \/ Resume \/ LoopDestroyed \/ LoopClosed
         \/ LoopContext \/ LoopBusy \/ LoopDrain \/ PickNothing
         \/ PickAborted \/ PickRename \/ PickWrite \/ Advance \/ Splice
         \/ Exit \/ FailAltname \/ AbortSocket \/ EndBody \/ WriterFail
         \/ AfterHeaders \/ Complete \/ AfterEnd \/ UpgradeCall
         \/ Upgraded \/ CloseEnd
  PROVE  Remains(sock, sock')
<1>a. sock \in Socks
  BY TypeParts
<1>1. CASE sock' = sock
  BY <1>1, RemainsSame
<1>2. UserStep => sock' = sock
  BY DEF UserStep, Dispatch, DispatchRefused, Abort, SetPipelining, Close, Destroy
<1>3. CallbackReturns \/ FailNext \/ CheckEmpty \/ DestroyCallback \/ FailAltname
      \/ UpgradeCall \/ Upgraded \/ CloseEnd => sock' = sock
  BY DEF CallbackReturns, FailNext, CheckEmpty, DestroyCallback, FailAltname,
     UpgradeCall, Upgraded, CloseEnd
<1>4. Resume \/ LoopDestroyed \/ LoopClosed \/ LoopBusy \/ LoopDrain \/ PickNothing
      \/ PickAborted \/ Advance \/ Splice \/ Exit => sock' = sock
  BY DEF Resume, LoopDestroyed, LoopClosed, LoopBusy, LoopDrain, PickNothing,
     PickAborted, Advance, Splice, Exit
<1>5. DestroyEnd \/ PickRename \/ AbortSocket => Remains(sock, sock')
  <2>1. AbortSocket => sock' = Kill(sock, "info")
    BY DEF AbortSocket
  <2>2. Remains(sock, Kill(sock, "info"))
    BY <1>a, KillRemains
  <2>3. DestroyEnd =>
          sock' = sock \/ sock' = [Kill(sock, "other") EXCEPT !.onClose = @ \cup {"destroy"}]
    BY DEF DestroyEnd
  <2>4. PickRename =>
          sock' = sock \/ sock' = [Kill(sock, "info") EXCEPT !.onClose = @ \cup {"rename"}]
    BY DEF PickRename
  <2>5. /\ Remains(sock, [Kill(sock, "other") EXCEPT !.onClose = @ \cup {"destroy"}])
        /\ Remains(sock, [Kill(sock, "info") EXCEPT !.onClose = @ \cup {"rename"}])
    BY <1>a, GivenUp
  <2>6. QED
    BY <1>1, <2>1, <2>2, <2>3, <2>4, <2>5
<1>6. EndBody \/ WriterFail \/ PickWrite => Remains(sock, sock')
  BY <1>a, <1>1, FlagsRemain DEF EndBody, WriterFail, PickWrite
<1>7. ASSUME LoopContext PROVE Remains(sock, sock')
  <2>1. sock' = sock \/ sock' \in ResumeH1(sock)
    BY <1>7 DEF LoopContext
  <2> DEFINE checked == IF NeedsValidation(sock) THEN [sock EXCEPT !.idle = 1] ELSE sock
  <2>2. checked \in Socks /\ Remains(sock, checked)
    <3>1. [sock EXCEPT !.idle = 1] \in Socks
      BY <1>a DEF Socks
    <3>2. QED
      BY <1>a, <3>1, FlagsRemain DEF Remains
  <2>3. Remains(sock, [sock EXCEPT !.timer = Timer(sock)])
    BY <1>a, FlagsRemain
  <2>4. \A e : Remains(checked, Kill(checked, e))
    BY <2>2, KillRemains
  <2>5. \/ sock' = sock \/ sock' = checked
        \/ sock' = [sock EXCEPT !.timer = Timer(sock)]
        \/ \E e : sock' = Kill(checked, e)
    BY <2>1 DEF ResumeH1
  <2> HIDE DEF checked
  <2>6. QED
    BY <1>1, <2>2, <2>3, <2>4, <2>5, RemainsChain
<1>8. ASSUME AfterHeaders PROVE Remains(sock, sock')
  <2>1. sock' = sock \/ \E pause : sock' = [Unblocked EXCEPT !.paused = pause]
    BY <1>8 DEF AfterHeaders
  <2>2. Unblocked \in Socks /\ Remains(sock, Unblocked)
    BY <1>a, FlagsRemain DEF Unblocked, Socks
  <2>3. \A pause : Remains(Unblocked, [Unblocked EXCEPT !.paused = pause])
    BY <2>2, FlagsRemain
  <2>4. QED
    BY <1>1, <2>1, <2>2, <2>3, RemainsChain
<1>9. Complete => Remains(sock, sock')
  <2>1. Complete => sock' = sock \/ sock' = [sock EXCEPT !.midBody = FALSE]
    BY DEF Complete
  <2>2. QED
    BY <1>a, <1>1, <2>1, FlagsRemain
<1>10. ASSUME AfterEnd PROVE Remains(sock, sock')
  <2> DEFINE used == [sock EXCEPT !.used = Pending = 0]
  <2>1. used \in Socks /\ Remains(sock, used)
    BY <1>a, FlagsRemain DEF Socks
  <2>2. sock' = used \/ sock' = Kill(used, "info")
    BY <1>10 DEF AfterEnd
  <2> HIDE DEF used
  <2>3. Remains(used, Kill(used, "info"))
    BY <2>1, KillRemains
  <2>4. QED
    BY <2>1, <2>2, <2>3, RemainsChain
<1>11. QED
  BY <1>1, <1>2, <1>3, <1>4, <1>5, <1>6, <1>7, <1>8, <1>9, <1>10

LEMMA ErrorRemains ==
  ASSUME TypeOK, SocketError \/ SocketReset
  PROVE  Remains(sock, sock') /\ sock'.st = "errored"
<1>a. sock \in Socks /\ sock.st \in {"live", "dying"}
  BY TypeParts DEF SocketError, SocketReset, Live
<1>1. ASSUME NEW s \in Socks, s.st \in {"live", "dying"}, NEW e
      PROVE  /\ Remains(s, [s EXCEPT !.st = "errored", !.err = e])
             /\ [s EXCEPT !.st = "errored", !.err = e].st = "errored"
  <2>1. PICK t : t = [s EXCEPT !.st = "errored", !.err = e]
    OBVIOUS
  <2>2. t.st = "errored" /\ t.counter = s.counter /\ t.name = s.name /\ t.reset = s.reset
    BY <2>1 DEF Socks
  <2>3. QED
    BY <1>1, <2>1, <2>2 DEF Remains
<1>2. /\ [sock EXCEPT !.paused = FALSE] \in Socks
      /\ [sock EXCEPT !.paused = FALSE].st = sock.st
      /\ Remains(sock, [sock EXCEPT !.paused = FALSE])
  BY <1>a, FlagsRemain DEF Socks
<1>3. PICK t : t = [sock EXCEPT !.st = "errored", !.paused = FALSE]
  OBVIOUS
<1>4. t.st = "errored" /\ t.counter = sock.counter /\ t.name = sock.name /\ t.reset = sock.reset
  BY <1>3, <1>a DEF Socks
<1>5. Remains(sock, t)
  BY <1>4, <1>a DEF Remains
<1>6. \/ \E e : sock' = [sock EXCEPT !.st = "errored", !.err = e]
      \/ \E e : sock' = [[sock EXCEPT !.paused = FALSE] EXCEPT !.st = "errored", !.err = e]
      \/ sock' = t
  BY <1>3 DEF SocketError, SocketReset, SocketErrors
<1>7. CASE \E e : sock' = [sock EXCEPT !.st = "errored", !.err = e]
  BY <1>a, <1>1, <1>7
<1>8. CASE \E e : sock' = [[sock EXCEPT !.paused = FALSE] EXCEPT !.st = "errored", !.err = e]
  <2> DEFINE s == [sock EXCEPT !.paused = FALSE]
  <2>1. PICK e : sock' = [s EXCEPT !.st = "errored", !.err = e]
    BY <1>8
  <2>2. s \in Socks /\ s.st \in {"live", "dying"} /\ Remains(sock, s)
    BY <1>2, <1>a
  <2> HIDE DEF s
  <2>3. Remains(s, sock') /\ sock'.st = "errored"
    BY <1>1, <2>1, <2>2
  <2>4. QED
    BY <2>2, <2>3, RemainsChain
<1>9. QED
  BY <1>4, <1>5, <1>6, <1>7, <1>8

LEMMA EventRemains ==
  ASSUME TypeOK,
         \/ TaskStep \/ ImmediateResume \/ ConnectTooLate \/ (\E e : ConnectFail(e))
         \/ (\E keep, short \in BOOLEAN : ResponseHead(keep, short))
         \/ ResponseEnd \/ HeadersTimeout \/ BodyTimeout \/ ResponseResumed
         \/ Disturbance \/ BodyEnd \/ IdleValidated \/ SocketError
  PROVE  Remains(sock, sock')
<1>a. sock \in Socks
  BY TypeParts
<1>1. CASE sock' = sock
  BY <1>1, RemainsSame
<1>2. TaskStep \/ ImmediateResume \/ ConnectTooLate \/ (\E e : ConnectFail(e))
        => sock' = sock
  BY DEF TaskStep, TaskResume, TaskDrain, TaskClosed, TaskDestroyCallback,
     TaskDestroyed, ImmediateResume, ConnectTooLate, ConnectFail
<1>3. ASSUME NEW keep \in BOOLEAN, NEW short \in BOOLEAN, ResponseHead(keep, short)
      PROVE  Remains(sock, sock')
  <2>1. PICK reset : reset = (sock.reset \/ ~keep \/ short \/ pipelining = 0)
    OBVIOUS
  <2>2. PICK t : t = [sock EXCEPT !.midBody = TRUE, !.keep = keep, !.timer = "body",
                                  !.reset = reset]
    OBVIOUS
  <2>3. sock' = t
    BY <1>3, <2>1, <2>2 DEF ResponseHead
  <2>4. t.st = sock.st /\ t.counter = sock.counter /\ t.name = sock.name /\ t.reset = reset
    BY <1>a, <2>2 DEF Socks
  <2>5. QED
    BY <2>1, <2>3, <2>4 DEF Remains
<1>4. ResponseEnd \/ BodyEnd \/ BodyError \/ (\E r \in Requests : QueuedBodyError(r))
        => sock' = sock
  BY DEF ResponseEnd, BodyEnd, BodyError, QueuedBodyError
<1>5. HeadersTimeout \/ BodyTimeout \/ KeepAliveTimeout \/ (\E e : BadBytes(e))
        => Remains(sock, sock')
  BY <1>a, KillRemains DEF HeadersTimeout, BodyTimeout, KeepAliveTimeout, BadBytes,
     Destroys
<1>6. ResponseResumed \/ ResponseData \/ IdleValidated => Remains(sock, sock')
  BY <1>a, FlagsRemain, ZenonT(30) DEF ResponseResumed, ResponseData, IdleValidated
<1>7. ASSUME SocketEnd PROVE Remains(sock, sock')
  <2> DEFINE s == [sock EXCEPT !.paused = FALSE]
  <2>1. s \in Socks /\ Remains(sock, s)
    BY <1>a, FlagsRemain DEF Socks
  <2>2. sock' = s \/ sock' = Kill(s, "other") \/ sock' = Kill(sock, "socket")
    BY <1>7 DEF SocketEnd
  <2> HIDE DEF s
  <2>3. Remains(s, Kill(s, "other")) /\ Remains(sock, Kill(sock, "socket"))
    BY <1>a, <2>1, KillRemains
  <2>4. QED
    BY <2>1, <2>2, <2>3, RemainsChain
<1>8. QED
  BY <1>1, <1>2, <1>3, <1>4, <1>5, <1>6, <1>7, ErrorRemains DEF Disturbance

----------------------------------------------------------------------------
(* The calls of the user.                                                   *)

LEMMA AppendKeeps ==
  ASSUME TypeOK, NEW r \in Requests, queue' = Append(queue, r),
         runningIdx' = runningIdx, pendingIdx' = pendingIdx
  PROVE  PrefixKept
<1>1. r \in Slots /\ queue \in Seq(Slots) /\ Len(queue) \in Nat
  BY TypeParts, LenProperties DEF Slots
<1>2. /\ Append(queue, r) \in Seq(Slots) /\ Len(Append(queue, r)) = Len(queue) + 1
      /\ \A k \in 1..Len(queue) : Append(queue, r)[k] = queue[k]
  BY <1>1, AppendProperties
<1>3. QED
  BY <1>1, <1>2 DEF PrefixKept

\* What is cut off lies behind what was written.
LEMMA CutKeeps ==
  ASSUME TypeOK, Bounds, NEW i \in Nat, queue' = Upto(queue, i),
         runningIdx' = runningIdx, pendingIdx' = pendingIdx,
         runningIdx + Counted <= i
  PROVE  PrefixKept
<1>1. queue \in Seq(Slots) /\ Len(queue) \in Nat /\ queue' \in Seq(Slots)
      /\ runningIdx \in Nat /\ Counted \in Int
  <2>1. queue \in Seq(Slots) /\ i \in Int /\ runningIdx \in Nat /\ Running \in Int
    BY TypeParts
  <2>2. Upto(queue, i) \in Seq(Slots)
    BY <2>1, SpliceTypes
  <2>3. QED
    BY <2>1, <2>2, LenProperties DEF Counted
<1>2. CASE i <= Len(queue)
  <2>1. Len(queue') = i /\ \A k \in 1..i : queue'[k] = queue[k]
    BY <1>1, <1>2, SpliceElements
  <2>2. QED
    BY <1>1, <1>2, <2>1 DEF PrefixKept
<1>3. CASE i > Len(queue)
  <2>1. queue' = queue
    BY <1>1, <1>3, SpliceElements
  <2>2. QED
    BY <1>1, <2>1 DEF PrefixKept
<1>4. QED
  BY <1>1, <1>2, <1>3

LEMMA WithoutKeeps ==
  ASSUME TypeOK, Bounds, queue' = WithoutAt(queue, pendingIdx),
         runningIdx' = runningIdx, pendingIdx' = pendingIdx,
         "advance" \notin On(stack)
  PROVE  PrefixKept
<1>1. queue \in Seq(Slots) /\ Len(queue) \in Nat
      /\ runningIdx \in Nat /\ pendingIdx \in Nat
      /\ runningIdx + Counted = pendingIdx
  BY TypeParts, LenProperties DEF Bounds, Counted, Running
<1>2. queue' \in Seq(Slots)
  <2>1. pendingIdx \in Int
    BY <1>1
  <2>2. QED
    BY <1>1, <2>1, SpliceTypes
<1>3. \A k \in 1..Len(queue) :
        k <= pendingIdx => k <= Len(queue') /\ queue'[k] = queue[k]
  BY <1>1, WithoutElements
<1>4. QED
  BY <1>1, <1>2, <1>3 DEF PrefixKept

\* Nothing has a part of destroy() cut off what was written, unless the loop
\* has not counted it yet.
LEMMA DestroyCore ==
  ASSUME TypeOK, Core, broken = "none", BeginDestroy,
         UNCHANGED <<runningIdx, pendingIdx, sock, connVars, wire>>,
         On(stack) \cap {"advance", "busy", "pick"} = {}
  PROVE  Core'
<1>1. Moves({"fail", "destroyEnd"}, stack) /\ stack \in Seq(Frames)
  BY DestroyMoves, TypeParts
<1>2. PrefixKept
  <2>1. pendingIdx \in Nat /\ runningIdx + Counted <= pendingIdx
    BY TypeParts DEF Core, Bounds, Counted, Running
  <2>2. queue' = Upto(queue, pendingIdx)
    BY DEF BeginDestroy
  <2>3. QED
    BY <2>1, <2>2, CutKeeps DEF Core
<1>3. Bounds' /\ WireMatches' /\ NoWire' /\ EndRuns'
  <2>1. wire' = wire /\ sock' = sock /\ Remains(sock, sock')
    BY RemainsSame
  <2>2. {"fail", "destroyEnd"} \cap {"advance", "closeEnd"} = {}
        /\ {"fail", "destroyEnd"} \cap OfSocket = {}
    BY DEF OfSocket
  <2>3. QED
    BY <1>1, <1>2, <2>1, <2>2, CoreKept DEF PrefixKept
<1>4. Life'
  <2>1. On(stack') \subseteq {"fail", "destroyEnd"} \cup On(stack)
    BY <1>1, MovesOn
  <2>2. destroyed' /\ sock' = sock /\ ctx' = ctx /\ connecting' = connecting
    BY DEF BeginDestroy, connVars
  <2>3. QED
    BY <2>1, <2>2 DEF Core, Life, Live
<1>5. QED
  BY <1>3, <1>4 DEF Core

\* destroy() is not called while the loop has a request to count.
LEMMA DestroyOutside ==
  ASSUME CarefulUser, TypeOK, Nesting, Shape(stack), Destroy
  PROVE  On(stack) \cap {"advance", "splice", "busy", "pick", "exit"} = {}
<1>1. UserMay("destroy")
  BY DEF Destroy
<1>2. /\ On(stack) \cap {"busy", "pick", "exit"} = {}
      /\ stack # <<>> => Top.at \in Callbacks /\ <<Top.at, "destroy">> \in UserCalls
      /\ stack = <<>> => On(stack) = {}
  BY <1>1, UserTop
<1>3. stack # <<>> => Top.at \in Callbacks \ {"sent", "error"}
  BY <1>2 DEF CarefulUser
<1>4. stack # <<>> => On(stack) \cap {"advance", "splice"} = {}
  BY <1>3, ShapeTop DEF Callbacks
<1>5. QED
  BY <1>2, <1>4

LEMMA UserCore ==
  ASSUME CarefulUser, TypeOK, Nesting, Shape(stack), Core, broken = "none", UserStep
  PROVE  Core'
<1>1. CASE Destroy
  <2>1. On(stack) \cap {"advance", "busy", "pick"} = {}
    BY <1>1, DestroyOutside
  <2>2. BeginDestroy /\ UNCHANGED <<runningIdx, pendingIdx, sock, connVars, wire>>
    BY <1>1 DEF Destroy, histVars
  <2>3. QED
    BY <2>1, <2>2, DestroyCore
<1>2. CASE ~Destroy
  <2>1. PICK S : Moves(S, stack) /\ S \in {{}, {"loop"}, {"error"}, {"error", "abortSocket"}}
    BY <1>2, UserMoves DEF UserStep
  <2>2. Steady(S, stack)
    BY <2>1 DEF Steady, OfSocket
  <2>3. PrefixKept
    <3>1. ASSUME NEW r \in Requests, Dispatch(r) PROVE PrefixKept
      BY <3>1, AppendKeeps DEF Dispatch
    <3>2. CASE UNCHANGED qVars
      BY <3>2, SamePrefix
    <3>3. \/ UNCHANGED qVars \/ \E r \in Requests : Dispatch(r)
      BY <1>2 DEF UserStep, DispatchRefused, Abort, SetPipelining, Close, qVars
    <3>4. QED
      BY <3>1, <3>2, <3>3
  <2>4. wire' = wire /\ ctx' = ctx /\ destroyed' = destroyed /\ connecting' = connecting
    BY <1>2 DEF UserStep, Dispatch, DispatchRefused, Abort, SetPipelining, Close,
       connVars, lifeVars, histVars
  <2>5. Remains(sock, sock')
    BY FrameRemains
  <2>6. QED
    BY <2>2, <2>3, <2>4, <2>5, CoreStep
<1>3. QED
  BY <1>1, <1>2

----------------------------------------------------------------------------
(* resume().                                                                *)

\* A request whose start callback is running, or was about to be written, is
\* still the one the loop picked, unless it was aborted or waits for that.
WriteOk ==
  \A i \in DOMAIN stack : stack[i].at = "write" =>
    LET r == stack[i].reqs[1]
    IN \/ r \in aborted
       \/ pendingIdx < Len(queue) /\ PendingHead = r
       \/ \E j \in 1..(i - 1) : stack[j].at = "fail" /\ r \in Range(stack[j].reqs)

\* The steps of the loop that change nothing of what Core is about.
LEMMA LoopCore ==
  ASSUME TypeOK, Nesting, Shape(stack), Core, broken = "none",
         \/ Resume \/ LoopDestroyed \/ LoopClosed \/ LoopDrain \/ PickNothing
         \/ PickAborted \/ PickRename \/ PickWrite \/ Splice
  PROVE  Core'
<1>a. stack # <<>> /\ Top.at \in {"resume", "loop", "busy", "pick", "splice"}
  BY DEF Resume, LoopDestroyed, LoopClosed, LoopDrain, PickNothing, PickAborted,
     PickRename, PickWrite, Splice, At
<1>1. "advance" \notin On(stack)
  BY <1>a, ShapeTop
<1>2. PickWrite => sock.st # "none"
  BY DEF PickWrite, Core, Life
<1>3. PICK S, t :
        /\ Moves(S, t) /\ (t = stack \/ t = Caller)
        /\ S \in {{}, {"exit"}, {"loop"}, {"drain", "loop"}, {"fail", "splice"},
                  {"error", "abortSocket", "splice"}, {"start", "write"}}
        /\ "write" \in S => PickWrite
  <2>1. PickWrite => \E S \in {{"fail", "splice"}, {"error", "abortSocket", "splice"},
                               {"start", "write"}} : Moves(S, Caller)
    BY PickWriteMoves
  <2>2. ~PickWrite => \/ Moves({}, stack) \/ Moves({}, Caller)
                      \/ Moves({"exit"}, Caller) \/ Moves({"loop"}, Caller)
                      \/ Moves({"drain", "loop"}, Caller)
    BY ResumeMoves, LoopStepMoves, DrainMoves
  <2>3. QED
    BY <2>1, <2>2
<1>4. Steady(S, t)
  BY <1>a, <1>2, <1>3 DEF Steady, OfSocket
<1>5. PrefixKept
  <2>1. CASE UNCHANGED qVars
    BY <2>1, SamePrefix
  <2>2. CASE PickAborted \/ Splice
    BY <1>1, <2>2, WithoutKeeps DEF PickAborted, Splice, Core
  <2>3. QED
    BY <2>1, <2>2 DEF Resume, LoopDestroyed, LoopClosed, LoopDrain, PickNothing,
       PickRename, PickWrite
<1>6. wire' = wire /\ ctx' = ctx /\ destroyed' = destroyed /\ connecting' = connecting
  BY DEF Resume, LoopDestroyed, LoopClosed, LoopDrain, PickNothing, PickAborted,
     PickRename, PickWrite, Splice, connVars, lifeVars, histVars
<1>7. Remains(sock, sock')
  BY FrameRemains
<1>8. QED
  BY <1>4, <1>5, <1>6, <1>7, CoreStep

\* The first half of an iteration: the client is not destroyed.
LEMMA BusyCore ==
  ASSUME TypeOK, Core, broken = "none", LoopContext \/ LoopBusy
  PROVE  Core'
<1>1. stack # <<>> /\ Top.at \in {"loop", "busy"} /\ Caller \in Seq(Frames)
  BY TypeParts, TopType DEF LoopContext, LoopBusy, At
<1>2. PICK S \in {{"busy"}, {"pick"}} : Moves(S, Caller)
  BY LoopStepMoves
<1>3. ~destroyed
  <2>1. LoopBusy => "busy" \in On(stack)
    BY <1>1, TypeParts, OnTop DEF LoopBusy, At
  <2>2. QED
    BY <2>1 DEF LoopContext, Core, Life
<1>4. PrefixKept /\ wire' = wire /\ ctx' = ctx /\ destroyed' = destroyed
      /\ connecting' = connecting
  BY SamePrefix DEF LoopContext, LoopBusy, connVars, lifeVars, histVars
<1>5. Remains(sock, sock')
  BY FrameRemains
<1>6. Bounds' /\ WireMatches' /\ NoWire' /\ EndRuns'
  <2>1. S \cap {"advance", "closeEnd"} = {} /\ S \cap OfSocket = {} /\ "afterEnd" \notin S
    BY <1>2 DEF OfSocket
  <2>2. (sock'.st = "none" <=> sock.st = "none")
    BY <1>5 DEF Remains
  <2>3. QED
    BY <1>1, <1>2, <1>4, <2>1, <2>2, CoreKept DEF PrefixKept
<1>7. Life'
  <2>1. /\ (sock'.st = "none" <=> sock.st = "none")
        /\ (sock'.st = "live" => sock.st = "live")
    BY <1>5 DEF Remains
  <2>2. "destroyEnd" \notin S
    BY <1>2
  <2>3. QED
    BY <1>1, <1>2, <1>3, <1>4, <2>1, <2>2, LifeKept DEF Core
<1>8. QED
  BY <1>6, <1>7 DEF Core

\* connect(): there was no connection.
LEMMA PickConnectCore ==
  ASSUME TypeOK, Core, broken = "none", PickConnect
  PROVE  Core' /\ sock.st = "none" /\ sock'.st = "none"
<1>1. /\ stack # <<>> /\ Top.at = "pick" /\ Caller \in Seq(Frames) /\ ~ctx
      /\ Moves({"exit"}, Caller) /\ On(stack) = {Top.at} \cup On(Caller)
  BY TypeParts, TopType, LoopStepMoves, OnTop DEF PickConnect, At
<1>2. ~destroyed /\ sock.st = "none"
  BY <1>1 DEF Core, Life
<1>3. sock'.st = "none"
  BY DEF PickConnect, NoSock
<1>4. PrefixKept /\ wire' = wire /\ ctx' = ctx /\ destroyed' = destroyed
  BY SamePrefix DEF PickConnect, lifeVars, histVars
<1>5. Bounds' /\ WireMatches' /\ NoWire' /\ EndRuns'
  <2>1. {"exit"} \cap {"advance", "closeEnd"} = {} /\ {"exit"} \cap OfSocket = {}
    BY DEF OfSocket
  <2>2. QED
    BY <1>1, <1>2, <1>3, <1>4, <2>1, CoreKept DEF PrefixKept
<1>6. On(stack') \subseteq {"exit"} \cup On(Caller)
  BY <1>1, MovesOn
<1>7. Life'
  BY <1>1, <1>2, <1>3, <1>4, <1>6 DEF Core, Life, Live
<1>8. QED
  BY <1>2, <1>3, <1>5, <1>7 DEF Core

\* A request that is written is the first pending one.
LEMMA WriteTop ==
  ASSUME TypeOK, WriteOk, At("write"), Top.reqs[1] \notin aborted
  PROVE  /\ Top.reqs[1] \in Requests /\ Top.reqs[1] = PendingHead
         /\ pendingIdx < Len(queue)
<1>1. stack \in Seq(Frames) /\ stack # <<>> /\ Top.at = "write"
  BY TypeParts DEF At
<1>2. 1 \in DOMAIN stack /\ stack[1] = Top
  BY <1>1, EmptySeq, LenProperties, HeadTailProperties DEF Top
<1>3. \A j \in 1..(1 - 1) : FALSE
  OBVIOUS
<1>4. Top.reqs[1] \in Requests
  BY <1>1, TopType, RequestLabelsAre
<1>5. QED
  BY <1>1, <1>2, <1>3, <1>4 DEF WriteOk

LEMMA WriteHeadCore ==
  ASSUME TypeOK, Nesting, Shape(stack), Core, WriteOk, broken = "none", WriteHead
  PROVE  Core'
<1> DEFINE r == Top.reqs[1]
<1>1. /\ stack # <<>> /\ Top.at = "write" /\ Caller \in Seq(Frames)
      /\ On(stack) = {Top.at} \cup On(Caller)
      /\ "advance" \notin On(stack)
  <2>1. stack # <<>> /\ Top.at = "write"
    BY DEF WriteHead, At
  <2>2. QED
    BY <2>1, ShapeTop
<1>2. sock.st # "none"
  BY <1>1 DEF Core, NoWire, OfSocket
<1>3. ctx' = ctx /\ destroyed' = destroyed /\ connecting' = connecting /\ UNCHANGED qVars
  BY DEF WriteHead, connVars, lifeVars
<1>4. CASE r \in aborted
  <2>1. stack' = Goto("splice") /\ sock' = sock /\ wire' = wire
    BY <1>4 DEF WriteHead
  <2>2. Moves({"splice"}, Caller)
    BY <1>1, <2>1, GotoMoves, PlainLabelsAre
  <2>3. Steady({"splice"}, Caller)
    BY <1>1, <2>2 DEF Steady, OfSocket
  <2>4. QED
    BY <1>3, <2>1, <2>3, SamePrefix, RemainsSame, CoreStep
<1>5. CASE r \notin aborted
  <2>1. r \in Requests /\ r = PendingHead /\ pendingIdx < Len(queue)
    BY <1>5, WriteTop DEF WriteHead
  <2>2. wire' = Append(wire, r) /\ sock' = Flagged(sock, r)
    BY <1>5 DEF WriteHead
  <2>3. sock'.st = sock.st
    <3>1. sock \in Socks
      BY TypeParts
    <3>2. \A a, b, c, d : [sock EXCEPT !.counter = a, !.reset = b, !.blocking = c,
                                      !.writing = d].st = sock.st
      BY <3>1 DEF Socks
    <3>3. QED
      BY <2>2, <3>2 DEF Flagged
  <2>4. PICK S \in {{"advance"}, {"sent", "advance"}} : Moves(S, Caller)
    BY <1>5, WriteHeadMoves
  <2>5. /\ On(stack') \subseteq S \cup On(Caller)
        /\ S \cup On(Caller) \subseteq On(stack') \cup {"fail"}
    BY <1>1, <2>4, MovesOn
  <2>6. /\ "advance" \in On(stack')
        /\ "closeEnd" \in On(stack') <=> "closeEnd" \in On(stack)
        /\ "afterEnd" \in On(stack') => "afterEnd" \in On(stack)
        /\ On(stack') \cap {"busy", "pick", "destroyEnd"} \subseteq On(stack)
    BY <1>1, <2>4, <2>5
  <2>7. /\ runningIdx \in Nat /\ pendingIdx \in Int /\ wire \in Seq(Requests)
        /\ Len(wire) \in Nat /\ Len(queue) \in Nat /\ runningIdx + Running = pendingIdx
        /\ Len(wire) = Running /\ Counted' = Running + 1
    <3>1. Running' = Running
      BY <1>3 DEF Running, qVars
    <3>2. Len(wire) = Running
      BY <1>1, <1>2 DEF Core, WireMatches, Counted
    <3>3. QED
      BY <2>6, <3>1, <3>2, TypeParts, LenProperties DEF Counted, TypeOK, Running
  <2>8. Bounds'
    BY <1>3, <2>6 DEF Core, Bounds, qVars
  <2>9. Life'
    BY <1>3, <2>3, <2>6 DEF Core, Life, Live
  <2>10. WireMatches'
    <3>1. /\ Len(wire') = Len(wire) + 1 /\ wire'[Len(wire) + 1] = r
          /\ \A k \in 1..Len(wire) : wire'[k] = wire[k]
      BY <2>1, <2>2, <2>7, AppendProperties
    <3>2. queue[pendingIdx + 1] = r
      BY <2>1, <2>7, TypeParts, LenProperties DEF PendingHead, Slot
    <3>3. "closeEnd" \notin On(stack) /\ \A k \in 1..Len(wire) : queue[runningIdx + k] = wire[k]
      BY <1>2 DEF Core, WireMatches
    <3>4. ASSUME NEW k \in 1..Len(wire') PROVE queue[runningIdx + k] = wire'[k]
      <4>1. CASE k = Len(wire) + 1
        <5>1. runningIdx + k = pendingIdx + 1
          BY <2>7, <4>1, SMTT(30)
        <5>2. QED
          BY <3>1, <3>2, <4>1, <5>1
      <4>2. CASE k # Len(wire) + 1
        <5>1. k \in 1..Len(wire)
          BY <2>7, <3>1, <4>2
        <5>2. QED
          BY <3>1, <3>3, <5>1
      <4>3. QED
        BY <4>1, <4>2
    <3>5. runningIdx + Len(wire') <= Len(queue)
      BY <2>1, <2>7, <3>1
    <3>6. Len(wire') = Counted'
      BY <2>7, <3>1
    <3>7. QED
      BY <1>3, <2>6, <3>3, <3>4, <3>5, <3>6 DEF WireMatches, qVars
  <2>11. NoWire'
    BY <1>2, <2>3 DEF NoWire
  <2>12. EndRuns'
    BY <1>3, <2>6 DEF Core, EndRuns, Running, qVars
  <2>13. QED
    BY <2>8, <2>9, <2>10, <2>11, <2>12 DEF Core
<1>6. QED
  BY <1>4, <1>5

\* write() returned: the request on the wire is counted.
LEMMA AdvanceCore ==
  ASSUME TypeOK, Nesting, Shape(stack), Core, broken = "none", Advance
  PROVE  Core'
<1>1. /\ stack # <<>> /\ Top.at = "advance" /\ Caller \in Seq(Frames)
      /\ On(stack) = {Top.at} \cup On(Caller)
      /\ On(Caller) \cap LoopLabels = {}
  <2>1. stack # <<>> /\ Top.at = "advance"
    BY DEF Advance, At
  <2>2. QED
    BY <2>1, ShapeTop DEF Inner
<1>2. Moves({"loop"}, Caller)
  BY LoopStepMoves
<1>3. /\ On(stack') \subseteq {"loop"} \cup On(Caller)
      /\ {"loop"} \cup On(Caller) \subseteq On(stack') \cup {"fail"}
  BY <1>1, <1>2, MovesOn
<1>4. /\ "advance" \notin On(stack') /\ On(stack') \cap {"busy", "pick"} = {}
      /\ "closeEnd" \in On(stack') <=> "closeEnd" \in On(stack)
      /\ "destroyEnd" \in On(stack') => "destroyEnd" \in On(stack)
      /\ "afterEnd" \in On(stack') => "afterEnd" \in On(stack)
  BY <1>1, <1>3 DEF LoopLabels
<1>5. sock.st # "none"
  BY <1>1 DEF Core, NoWire, OfSocket
<1>6. /\ sock' = sock /\ wire' = wire /\ queue' = queue /\ runningIdx' = runningIdx
      /\ pendingIdx' = pendingIdx + 1 /\ ctx' = ctx /\ destroyed' = destroyed
      /\ connecting' = connecting
  BY DEF Advance, connVars, lifeVars, histVars
<1>7. /\ runningIdx \in Nat /\ pendingIdx \in Int /\ Len(wire) \in Nat /\ Len(queue) \in Nat
      /\ Running = pendingIdx - runningIdx
  BY TypeParts, LenProperties DEF TypeOK, Running
<1>8. /\ Len(wire) = Running + 1 /\ runningIdx + Len(wire) <= Len(queue)
      /\ \A k \in 1..Len(wire) : queue[runningIdx + k] = wire[k]
      /\ "closeEnd" \notin On(stack)
  BY <1>1, <1>5 DEF Core, WireMatches, Counted
<1>9. Running' = Running + 1 /\ Counted' = Running + 1
  BY <1>4, <1>6, <1>7 DEF Running, Counted
<1>10. Bounds'
  BY <1>6, <1>7, <1>8 DEF Core, Bounds
<1>11. Life'
  BY <1>4, <1>6 DEF Core, Life, Live
<1>12. WireMatches'
  BY <1>4, <1>6, <1>8, <1>9 DEF WireMatches
<1>13. NoWire' /\ EndRuns'
  BY <1>4, <1>5, <1>6, <1>7, <1>9 DEF Core, NoWire, EndRuns
<1>14. QED
  BY <1>10, <1>11, <1>12, <1>13 DEF Core

\* The end of resume(): the indices move with the queue.
LEMMA ExitCore ==
  ASSUME TypeOK, Nesting, Shape(stack), Core, broken = "none", Exit
  PROVE  Core'
<1>1. /\ stack # <<>> /\ Top.at = "exit" /\ Caller \in Seq(Frames)
      /\ On(stack) = {Top.at} \cup On(Caller)
      /\ "advance" \notin On(stack)
  <2>1. stack # <<>> /\ Top.at = "exit"
    BY DEF Exit, At
  <2>2. QED
    BY <2>1, ShapeTop
<1>2. Moves({}, Caller)
  BY LoopStepMoves
<1>3. wire' = wire /\ ctx' = ctx /\ destroyed' = destroyed /\ connecting' = connecting
      /\ sock' = sock
  BY DEF Exit, connVars, lifeVars, histVars
<1>4. CASE UNCHANGED qVars
  <2>1. Steady({}, Caller)
    BY <1>1, <1>2 DEF Steady
  <2>2. QED
    BY <1>3, <1>4, <2>1, SamePrefix, RemainsSame, CoreStep
<1>5. CASE Compact
  <2>1. On(stack') \subseteq On(Caller) /\ On(Caller) \subseteq On(stack') \cup {"fail"}
    BY <1>1, <1>2, MovesOn
  <2>2. /\ "advance" \notin On(stack')
        /\ "closeEnd" \in On(stack') <=> "closeEnd" \in On(stack)
        /\ On(stack') \subseteq On(stack)
    BY <1>1, <2>1
  <2>3. /\ queue' = From(queue, runningIdx) /\ pendingIdx' = pendingIdx - runningIdx
        /\ runningIdx' = 0
    BY <1>5 DEF Compact
  <2>4. /\ runningIdx \in Nat /\ pendingIdx \in Int /\ runningIdx <= Len(queue)
        /\ Len(queue) \in Nat /\ Len(wire) \in Nat /\ runningIdx <= pendingIdx
    BY TypeParts, LenProperties DEF TypeOK, Core, Bounds
  <2>5. /\ Len(queue') = Len(queue) - runningIdx
        /\ \A k \in 1..(Len(queue) - runningIdx) : queue'[k] = queue[runningIdx + k]
    BY <2>3, <2>4, TypeParts, SpliceElements
  <2>6. Running' = Running /\ Counted' = Counted
    BY <1>1, <2>2, <2>3, <2>4 DEF Running, Counted
  <2>7. Bounds'
    BY <2>2, <2>3, <2>4, <2>5 DEF Core, Bounds
  <2>8. Life'
    BY <1>3, <2>2 DEF Core, Life, Live
  <2>9. WireMatches'
    <3> SUFFICES ASSUME sock.st # "none"
                 PROVE  /\ Len(wire) = Counted /\ 0 + Len(wire) <= Len(queue')
                        /\ \A k \in 1..Len(wire) : queue'[0 + k] = wire[k]
                        /\ "closeEnd" \notin On(stack')
      BY <1>3, <2>3, <2>6 DEF WireMatches
    <3>1. /\ Len(wire) = Counted /\ runningIdx + Len(wire) <= Len(queue)
          /\ \A k \in 1..Len(wire) : queue[runningIdx + k] = wire[k]
          /\ "closeEnd" \notin On(stack)
      BY DEF Core, WireMatches
    <3>2. ASSUME NEW k \in 1..Len(wire) PROVE queue'[0 + k] = wire[k]
      <4>1. k \in 1..(Len(queue) - runningIdx) /\ 0 + k = k
        BY <2>4, <3>1
      <4>2. QED
        BY <2>5, <3>1, <4>1
    <3>3. QED
      BY <2>2, <2>4, <2>5, <3>1, <3>2
  <2>10. NoWire' /\ EndRuns'
    BY <1>3, <2>2, <2>6 DEF Core, NoWire, EndRuns
  <2>11. QED
    BY <2>7, <2>8, <2>9, <2>10 DEF Core
<1>6. QED
  BY <1>4, <1>5 DEF Exit

----------------------------------------------------------------------------
(* The other frames.                                                        *)

LEMMA QueueFrameCore ==
  ASSUME TypeOK, Nesting, Shape(stack), Core, broken = "none",
         \/ CallbackReturns \/ FailNext \/ CheckEmpty \/ DestroyCallback
         \/ FailAltname
  PROVE  Core'
<1>a. /\ stack # <<>> /\ Top.at \notin {"advance", "closeEnd"}
      /\ FailAltname => Top.at = "failAltname"
  BY DEF CallbackReturns, Callbacks, FailNext, CheckEmpty, DestroyCallback,
     FailAltname, At
<1>1. PICK S, t :
        /\ Moves(S, t) /\ (t = stack \/ t = Caller)
        /\ S \in {{}, {"fail"}, {"error", "fail"}}
  BY QueueFrameMoves, FailNextMoves
<1>2. Steady(S, t)
  BY <1>a, <1>1 DEF Steady, OfSocket
<1>3. PrefixKept
  <2>1. CASE UNCHANGED qVars
    BY <2>1, SamePrefix
  <2>2. CASE FailAltname /\ queue' = WithoutAt(queue, pendingIdx)
    <3>1. "advance" \notin On(stack)
      BY <1>a, <2>2, ShapeTop
    <3>2. QED
      BY <2>2, <3>1, WithoutKeeps DEF FailAltname, Core
  <2>3. QED
    BY <2>1, <2>2 DEF CallbackReturns, FailNext, CheckEmpty, DestroyCallback,
       FailAltname, qVars
<1>4. wire' = wire /\ ctx' = ctx /\ destroyed' = destroyed /\ connecting' = connecting
  BY DEF CallbackReturns, FailNext, CheckEmpty, DestroyCallback, FailAltname,
     connVars, lifeVars, histVars
<1>5. Remains(sock, sock')
  BY FrameRemains
<1>6. QED
  BY <1>2, <1>3, <1>4, <1>5, CoreStep

LEMMA DestroyEndCore ==
  ASSUME TypeOK, Nesting, Shape(stack), Core, broken = "none", DestroyEnd
  PROVE  Core' /\ ~Live'
<1>1. /\ stack # <<>> /\ Top.at = "destroyEnd" /\ Caller \in Seq(Frames)
      /\ On(stack) = {Top.at} \cup On(Caller)
      /\ On(Caller) \cap {"busy", "pick", "exit"} = {}
  <2>1. stack # <<>> /\ Top.at = "destroyEnd"
    BY DEF DestroyEnd, At
  <2>2. QED
    BY <2>1, ShapeTop
<1>2. Moves({"resume"}, Caller)
  BY QueueFrameMoves
<1>3. PrefixKept /\ wire' = wire /\ ctx' = FALSE /\ destroyed' = destroyed
      /\ connecting' = connecting
  BY SamePrefix DEF DestroyEnd, lifeVars, histVars
<1>4. Remains(sock, sock')
  BY FrameRemains
<1>5. Bounds' /\ WireMatches' /\ NoWire' /\ EndRuns'
  <2>1. {"resume"} \cap {"advance", "closeEnd"} = {} /\ {"resume"} \cap OfSocket = {}
    BY DEF OfSocket
  <2>2. (sock'.st = "none" <=> sock.st = "none")
    BY <1>4 DEF Remains
  <2>3. QED
    BY <1>1, <1>2, <1>3, <2>1, <2>2, CoreKept DEF PrefixKept
<1>6. ~Live'
  <2>1. CASE ctx
    <3>1. sock' = [Kill(sock, "other") EXCEPT !.onClose = @ \cup {"destroy"}]
      BY <2>1 DEF DestroyEnd
    <3>2. [Kill(sock, "other") EXCEPT !.onClose = @ \cup {"destroy"}].st # "live"
      BY TypeParts, GivenUp
    <3>3. QED
      BY <3>1, <3>2 DEF Live
  <2>2. CASE ~ctx
    BY <1>4, <2>2 DEF Core, Life, Live, Remains
  <2>3. QED
    BY <2>1, <2>2
<1>7. Life'
  <2>1. On(stack') \subseteq {"resume"} \cup On(Caller)
    BY <1>1, <1>2, MovesOn
  <2>2. On(stack') \cap {"busy", "pick"} = {}
    BY <1>1, <2>1
  <2>3. destroyed
    BY <1>1 DEF Core, Life
  <2>4. QED
    BY <1>3, <1>6, <2>2, <2>3 DEF Life
<1>8. QED
  BY <1>5, <1>6, <1>7 DEF Core

\* What was running on the closed socket is pending again.
LEMMA CloseEndCore ==
  ASSUME TypeOK, Nesting, Shape(stack), Core, broken = "none", CloseEnd
  PROVE  Core' /\ sock.st = "none"
<1>1. /\ stack # <<>> /\ Top.at = "closeEnd" /\ Caller \in Seq(Frames)
      /\ On(stack) = {Top.at} \cup On(Caller)
      /\ On(Caller) \cap {"busy", "pick", "exit"} = {}
      /\ On(Caller) \cap Finishing = {}
  <2>1. stack # <<>> /\ Top.at = "closeEnd"
    BY DEF CloseEnd, At
  <2>2. QED
    BY <2>1, ShapeTop DEF Finishing
<1>2. sock.st = "none"
  BY <1>1 DEF Core, WireMatches
<1>3. /\ sock' = sock /\ wire' = wire /\ queue' = queue /\ runningIdx' = runningIdx
      /\ pendingIdx' = runningIdx /\ ctx' = ctx /\ destroyed' = destroyed
      /\ connecting' = connecting
  BY DEF CloseEnd, connVars, lifeVars, histVars
<1>4. On(stack') \subseteq {"disconnect", "resume"} \cup On(Caller)
  <2>1. Moves({"disconnect", "resume"}, Caller)
    BY QueueFrameMoves
  <2>2. QED
    BY <1>1, <2>1, MovesOn
<1>5. /\ On(stack') \cap {"busy", "pick"} = {} /\ On(stack') \cap OfSocket = {}
      /\ "destroyEnd" \in On(stack') => "destroyEnd" \in On(stack)
      /\ "afterEnd" \notin On(stack')
  <2>1. On(stack) \cap OfSocket = {}
    BY <1>2 DEF Core, NoWire
  <2>2. QED
    BY <1>1, <1>4, <2>1 DEF OfSocket, Finishing
<1>6. Bounds'
  BY <1>3, TypeParts, LenProperties DEF Core, Bounds
<1>7. Life'
  BY <1>3, <1>5 DEF Core, Life, Live
<1>8. WireMatches' /\ NoWire' /\ EndRuns'
  <2>1. Running' = 0
    BY <1>3, TypeParts DEF Running
  <2>2. QED
    BY <1>2, <1>3, <1>5, <2>1 DEF Core, WireMatches, NoWire, EndRuns
<1>9. QED
  BY <1>2, <1>6, <1>7, <1>8 DEF Core

LEMMA SocketFrameCore ==
  ASSUME TypeOK, Nesting, Shape(stack), Core, broken = "none",
         \/ AbortSocket \/ EndBody \/ WriterFail \/ AfterHeaders \/ Complete
         \/ UpgradeCall \/ Upgraded
  PROVE  Core'
<1>a. /\ stack # <<>> /\ Top.at \notin {"advance", "closeEnd"}
      /\ AfterHeaders => Top.at = "afterHeaders"
      /\ Complete => Top.at = "complete"
  BY DEF AbortSocket, EndBody, WriterFail, AfterHeaders, Complete, UpgradeCall,
     Upgraded, At
<1>1. AfterHeaders \/ Complete => sock.st # "none"
  BY <1>a, TypeParts, OnTop DEF Core, NoWire, OfSocket
<1>2. PICK S, t :
        /\ Moves(S, t) /\ (t = stack \/ t = Caller)
        /\ S \in {{}, {"resume"}, {"error"}, {"error", "abortSocket"}, {"complete"},
                  {"end", "afterEnd"}, {"upgrade", "upgraded"}}
        /\ S \in {{"complete"}, {"end", "afterEnd"}} => AfterHeaders \/ Complete
        /\ "afterEnd" \in S => Running > 0
  <2>1. AbortSocket \/ EndBody \/ WriterFail \/ Upgraded =>
          \E S \in {{}, {"resume"}, {"error"}, {"error", "abortSocket"}} : Moves(S, Caller)
    BY SocketFrameMoves, WriterFailMoves
  <2>2. AfterHeaders => \E S \in {{}, {"complete"}, {"resume"}} : Moves(S, Caller)
    BY SocketFrameMoves
  <2>3. UpgradeCall => \E S \in {{}, {"upgrade", "upgraded"}} : Moves(S, Caller)
    BY UpgradeMoves
  <2>4. Complete => \/ Moves({}, stack) \/ Moves({}, Caller)
                    \/ Moves({"end", "afterEnd"}, Caller) /\ Running > 0
    BY CompleteMoves
  <2>5. CASE Complete
    BY <2>4, <2>5
  <2>6. QED
    BY <2>1, <2>2, <2>3, <2>5
<1>3. Steady(S, t)
  BY <1>a, <1>1, <1>2 DEF Steady, OfSocket
<1>4. PrefixKept /\ wire' = wire /\ ctx' = ctx /\ destroyed' = destroyed
      /\ connecting' = connecting
  BY SamePrefix DEF AbortSocket, EndBody, WriterFail, AfterHeaders, Complete,
     UpgradeCall, Upgraded, connVars, lifeVars, histVars
<1>5. Remains(sock, sock')
  BY FrameRemains
<1>6. QED
  BY <1>3, <1>4, <1>5, CoreStep

\* A request that is answered leaves the queue and the wire together.
LEMMA AfterEndCore ==
  ASSUME TypeOK, Nesting, Shape(stack), Core, broken = "none", AfterEnd
  PROVE  Core'
<1>1. /\ stack # <<>> /\ Top.at = "afterEnd" /\ Caller \in Seq(Frames)
      /\ On(stack) = {Top.at} \cup On(Caller)
      /\ On(Caller) \cap {"busy", "pick", "exit"} = {}
      /\ On(Caller) \cap Finishing = {} /\ "advance" \notin On(stack)
  <2>1. stack # <<>> /\ Top.at = "afterEnd"
    BY DEF AfterEnd, At
  <2>2. QED
    BY <2>1, ShapeTop DEF Finishing
<1>2. sock.st # "none" /\ Running > 0
  BY <1>1 DEF Core, NoWire, EndRuns, OfSocket
<1>3. PICK S \in {{}, {"resume"}} : Moves(S, Caller)
  BY SocketFrameMoves
<1>4. On(stack') \subseteq S \cup On(Caller)
  BY <1>1, <1>3, MovesOn
<1>5. /\ On(stack') \cap {"busy", "pick", "closeEnd", "afterEnd", "advance"} = {}
      /\ "destroyEnd" \in On(stack') => "destroyEnd" \in On(stack)
  BY <1>1, <1>3, <1>4 DEF Finishing
<1>6. Remains(sock, sock')
  BY FrameRemains
<1>7. /\ queue' = [queue EXCEPT ![runningIdx + 1] = Null]
      /\ runningIdx' = runningIdx + 1 /\ wire' = From(wire, 1)
      /\ pendingIdx' = pendingIdx /\ ctx' = ctx /\ destroyed' = destroyed
      /\ connecting' = connecting
  BY DEF AfterEnd, connVars, lifeVars
<1>8. /\ runningIdx \in Nat /\ pendingIdx \in Int /\ Len(wire) \in Nat
      /\ Running = pendingIdx - runningIdx /\ queue \in Seq(Slots) /\ Len(queue) \in Nat
      /\ wire \in Seq(Requests)
  BY TypeParts, LenProperties DEF TypeOK, Running
<1>9. /\ Len(wire) = Running /\ runningIdx + Len(wire) <= Len(queue)
      /\ \A k \in 1..Len(wire) : queue[runningIdx + k] = wire[k]
      /\ "closeEnd" \notin On(stack)
  BY <1>1, <1>2 DEF Core, WireMatches, Counted
<1>10. /\ Len(queue') = Len(queue)
       /\ \A k \in 1..Len(queue) : k # runningIdx + 1 => queue'[k] = queue[k]
  BY <1>7, <1>8, LenProperties, ExceptSeq
<1>11. /\ Len(wire') = Len(wire) - 1
       /\ \A k \in 1..(Len(wire) - 1) : wire'[k] = wire[1 + k]
  <2>1. 1 <= Len(wire) /\ 1 \in Nat
    BY <1>2, <1>8, <1>9
  <2>2. QED
    BY <1>7, <1>8, <2>1, SpliceElements
<1>12. Running' = Running - 1 /\ Counted' = Running - 1
  BY <1>5, <1>7, <1>8 DEF Running, Counted
<1>13. Bounds'
  BY <1>2, <1>7, <1>8, <1>9, <1>10 DEF Core, Bounds
<1>14. Life'
  BY <1>5, <1>6, <1>7 DEF Core, Life, Live, Remains
<1>15. WireMatches'
  <2>1. ASSUME NEW k \in 1..Len(wire') PROVE queue'[runningIdx' + k] = wire'[k]
    <3>1. k \in 1..(Len(wire) - 1) /\ 1 + k \in 1..Len(wire)
      BY <1>8, <1>11
    <3>2. /\ runningIdx' + k = runningIdx + (1 + k)
          /\ runningIdx + (1 + k) \in 1..Len(queue)
          /\ runningIdx + (1 + k) # runningIdx + 1
      BY <1>7, <1>8, <1>9, <3>1
    <3>3. queue'[runningIdx + (1 + k)] = wire[1 + k]
      BY <1>9, <1>10, <3>1, <3>2
    <3>4. QED
      BY <1>11, <3>1, <3>2, <3>3
  <2>2. Len(wire') = Counted' /\ runningIdx' + Len(wire') <= Len(queue')
    BY <1>7, <1>8, <1>9, <1>10, <1>11, <1>12
  <2>3. QED
    BY <1>5, <2>1, <2>2 DEF WireMatches
<1>16. NoWire' /\ EndRuns'
  BY <1>2, <1>5, <1>6 DEF NoWire, EndRuns, Remains
<1>17. QED
  BY <1>13, <1>14, <1>15, <1>16 DEF Core

LEMMA FrameCore ==
  ASSUME TypeOK, Nesting, Shape(stack), Core, WriteOk, broken = "none", FrameStep
  PROVE  Core'
<1>1. CASE \/ Resume \/ LoopDestroyed \/ LoopClosed \/ LoopDrain \/ PickNothing
           \/ PickAborted \/ PickRename \/ PickWrite \/ Splice
  BY <1>1, LoopCore
<1>2. CASE LoopContext \/ LoopBusy \/ PickConnect \/ WriteHead \/ Advance \/ Exit
  BY <1>2, BusyCore, PickConnectCore, WriteHeadCore, AdvanceCore, ExitCore
<1>3. CASE \/ CallbackReturns \/ FailNext \/ CheckEmpty \/ DestroyCallback
           \/ FailAltname \/ DestroyEnd \/ CloseEnd
  BY <1>3, QueueFrameCore, DestroyEndCore, CloseEndCore
<1>4. CASE \/ AbortSocket \/ EndBody \/ WriterFail \/ AfterHeaders \/ Complete
           \/ UpgradeCall \/ Upgraded \/ AfterEnd
  BY <1>4, SocketFrameCore, AfterEndCore
<1>5. QED
  BY <1>1, <1>2, <1>3, <1>4 DEF FrameStep

----------------------------------------------------------------------------
(* Events.                                                                  *)

LEMMA NothingOn == stack = <<>> => On(stack) = {} /\ Counted = Running
BY OnFew DEF Counted

\* An error fails everything that is queued only when nothing is running.
LEMMA ErrorKeeps ==
  ASSUME TypeOK, Bounds, stack = <<>>, NEW e,
         queue' = QueueAfterError(e) \/ queue' = queue,
         runningIdx' = runningIdx, pendingIdx' = pendingIdx
  PROVE  PrefixKept
<1>1. CASE queue' = queue
  BY <1>1, SamePrefix DEF qVars
<1>2. CASE queue' # queue
  <2>1. FailsQueue(e) /\ queue' = Upto(queue, runningIdx)
    BY <1>2 DEF QueueAfterError
  <2>2. Running = 0 /\ Counted = Running /\ runningIdx \in Nat
    BY <2>1, NothingOn, TypeParts DEF FailsQueue
  <2>3. runningIdx + Counted <= runningIdx
    BY <2>2
  <2>4. QED
    BY <2>1, <2>2, <2>3, CutKeeps
<1>3. QED
  BY <1>1, <1>2

\* Nothing is running while the connector is at work.
LEMMA DialingIsIdle ==
  ASSUME TypeOK, Core, broken = "none", stack = <<>>,
         connecting = "dialing", ~destroyed
  PROVE  sock.st = "none" /\ wire = <<>> /\ Running = 0 /\ pendingIdx = runningIdx
<1>1. sock.st = "none"
  BY DEF Core, Life
<1>2. wire = <<>> /\ Running = 0
  BY <1>1, NothingOn DEF Core, NoWire
<1>3. QED
  BY <1>1, <1>2, TypeParts DEF Running

LEMMA ConnectFailKeeps ==
  ASSUME TypeOK, Core, broken = "none", NEW e, ConnectFail(e)
  PROVE  PrefixKept
<1>1. stack = <<>> /\ connecting = "dialing" /\ ~destroyed /\ runningIdx' = runningIdx
  BY DEF ConnectFail, Quiet
<1>2. pendingIdx = runningIdx
  BY <1>1, DialingIsIdle
<1>3. CASE e = "altname"
  <2>1. queue' = Upto(queue, runningIdx) \o From(queue, runningIdx)
        /\ pendingIdx' = pendingIdx
    BY <1>2, <1>3 DEF ConnectFail
  <2>2. /\ queue \in Seq(Slots) /\ Len(queue) \in Nat /\ runningIdx \in Nat
        /\ runningIdx \in Int /\ runningIdx <= Len(queue) /\ Counted = Running
    BY <1>1, NothingOn, TypeParts, LenProperties DEF Core, Bounds
  <2>3. Upto(queue, runningIdx) \in Seq(Slots) /\ From(queue, runningIdx) \in Seq(Slots)
    BY <2>2, SpliceTypes
  <2>4. /\ Len(Upto(queue, runningIdx)) = runningIdx
        /\ \A k \in 1..runningIdx : Upto(queue, runningIdx)[k] = queue[k]
    BY <2>2, SpliceElements
  <2> DEFINE u == Upto(queue, runningIdx)
             f == From(queue, runningIdx)
  <2>5. /\ u \o f \in Seq(Slots) /\ Len(u \o f) = Len(u) + Len(f)
        /\ \A k \in 1..(Len(u) + Len(f)) :
             (u \o f)[k] = IF k <= Len(u) THEN u[k] ELSE f[k - Len(u)]
        /\ Len(f) \in Nat
    BY <2>3, ConcatProperties, LenProperties
  <2>6. Len(u) = runningIdx /\ \A k \in 1..runningIdx : u[k] = queue[k]
    BY <2>4
  <2>7. queue' = u \o f
    BY <2>1
  <2> HIDE DEF u, f
  <2>8. \A k \in 1..Len(queue) :
          k <= runningIdx => k <= Len(queue') /\ queue'[k] = queue[k]
    BY <2>2, <2>5, <2>6, <2>7
  <2>9. runningIdx + Counted = runningIdx
    BY <1>1, <2>2, DialingIsIdle
  <2>10. QED
    BY <1>1, <2>1, <2>5, <2>7, <2>8, <2>9 DEF PrefixKept
<1>4. CASE e # "altname"
  <2>1. queue' = QueueAfterError(e) /\ pendingIdx' = pendingIdx
    BY <1>4 DEF ConnectFail
  <2>2. QED
    BY <1>1, <2>1, ErrorKeeps DEF Core
<1>5. QED
  BY <1>3, <1>4

SteadyEvent ==
  \/ TaskResume \/ TaskDrain \/ TaskDestroyCallback \/ TaskDestroyed
  \/ ImmediateResume \/ ConnectTooLate \/ (\E e : ConnectFail(e))
  \/ (\E keep, short \in BOOLEAN : ResponseHead(keep, short))
  \/ ResponseEnd \/ HeadersTimeout \/ BodyTimeout \/ ResponseResumed
  \/ Disturbance \/ BodyEnd \/ IdleValidated \/ SocketError

\* They put nothing on the stack that belongs to the inside of resume().
LEMMA SteadyEventMoves ==
  ASSUME TypeOK, SteadyEvent
  PROVE  \E S : /\ Moves(S, stack)
                /\ S \cap {"advance", "closeEnd", "destroyEnd", "busy", "pick",
                           "write", "afterEnd"} = {}
                /\ S \cap {"complete", "afterHeaders"} = {} \/ Live
<1>1. CASE TaskResume \/ TaskDrain \/ TaskDestroyCallback \/ TaskDestroyed
           \/ ImmediateResume \/ ConnectTooLate \/ IdleValidated
  <2>1. \E S \in {{"loop"}, {"drain"}, {}, {"resume"}} : Moves(S, stack)
    BY <1>1, TaskMoves
  <2>2. QED
    BY <2>1
<1>2. CASE \E e : ConnectFail(e)
  <2>1. \E S \in SUBSET ConnectorLabels : Moves(S, stack)
    BY <1>2, ConnectMoves
  <2>2. QED
    BY <2>1 DEF ConnectorLabels
<1>3. CASE \E keep, short \in BOOLEAN : ResponseHead(keep, short)
  <2>1. Moves({"headers", "afterHeaders"}, stack)
    BY <1>3, AnswerMoves
  <2>2. Live
    BY <1>3 DEF ResponseHead
  <2>3. QED
    BY <2>1, <2>2
<1>4. CASE ResponseEnd \/ HeadersTimeout \/ BodyTimeout \/ ResponseResumed
  <2>1. Moves({}, stack) \/ (Moves({"complete"}, stack) /\ Live)
    BY <1>4, AnswerMoves DEF ResponseEnd
  <2>2. QED
    BY <2>1
<1>5. CASE Disturbance \/ BodyEnd
  <2>1. CASE SocketReset
    <3>1. \E S \in SUBSET SocketLabels : Moves(S, stack)
      BY <2>1, SocketMoves
    <3>2. Live
      BY <2>1 DEF SocketReset
    <3>3. QED
      BY <3>1, <3>2 DEF SocketLabels
  <2>2. CASE ~SocketReset
    <3>1. \/ Moves({}, stack) \/ Moves({"writerFail"}, stack)
          \/ Moves({"sent", "endBody"}, stack)
          \/ (Moves({"complete"}, stack) /\ Live)
      BY <1>5, <2>2, DisturbanceMoves DEF Disturbance, SocketEnd
    <3>2. QED
      BY <3>1
  <2>3. QED
    BY <2>1, <2>2
<1>6. CASE SocketError
  <2>1. \E S \in SUBSET SocketLabels : Moves(S, stack) /\ "complete" \notin S
    BY <1>6, SocketMoves
  <2>2. QED
    BY <2>1 DEF SocketLabels
<1>7. QED
  BY <1>1, <1>2, <1>3, <1>4, <1>5, <1>6 DEF SteadyEvent

LEMMA SteadyEventCore ==
  ASSUME TypeOK, Core, broken = "none", stack = <<>>, SteadyEvent
  PROVE  Core'
<1>1. PrefixKept
  <2>1. CASE \E e : ConnectFail(e)
    BY <2>1, ConnectFailKeeps
  <2>2. CASE SocketError \/ SocketReset
    <3>1. /\ runningIdx' = runningIdx /\ pendingIdx' = pendingIdx
          /\ queue' = queue \/ \E e : queue' = QueueAfterError(e)
      BY <2>2 DEF SocketError, SocketReset, SocketErrors
    <3>2. QED
      BY <3>1, ErrorKeeps DEF Core
  <2>3. CASE UNCHANGED qVars
    BY <2>3, SamePrefix
  <2>4. \/ (\E e : ConnectFail(e)) \/ SocketError \/ SocketReset \/ UNCHANGED qVars
    <3>1. TaskResume \/ TaskDrain \/ TaskDestroyCallback \/ TaskDestroyed
          \/ ImmediateResume \/ ConnectTooLate
          \/ (\E keep, short \in BOOLEAN : ResponseHead(keep, short))
          => UNCHANGED qVars
      BY DEF TaskResume, TaskDrain, TaskDestroyCallback, TaskDestroyed,
         ImmediateResume, ConnectTooLate, ResponseHead
    <3>2. ResponseEnd \/ HeadersTimeout \/ BodyTimeout \/ ResponseResumed \/ BodyEnd
          \/ IdleValidated => UNCHANGED qVars
      BY DEF ResponseEnd, HeadersTimeout, BodyTimeout, ResponseResumed, BodyEnd,
         IdleValidated, Destroys
    <3>3. Disturbance => SocketReset \/ UNCHANGED qVars
      BY DEF Disturbance, ResponseData, KeepAliveTimeout, SocketEnd, BadBytes,
         BodyError, QueuedBodyError, Destroys
    <3>4. QED
      BY <3>1, <3>2, <3>3 DEF SteadyEvent
  <2>5. QED
    BY <2>1, <2>2, <2>3, <2>4
<1>2. wire' = wire /\ ctx' = ctx /\ destroyed' = destroyed
      /\ (connecting' = "dialing" => connecting = "dialing")
  <2>1. TaskResume \/ TaskDrain \/ TaskDestroyCallback \/ TaskDestroyed
        \/ ImmediateResume \/ ConnectTooLate \/ (\E e : ConnectFail(e))
        \/ (\E keep, short \in BOOLEAN : ResponseHead(keep, short))
        => wire' = wire /\ ctx' = ctx /\ destroyed' = destroyed
           /\ (connecting' = "dialing" => connecting = "dialing")
    BY DEF TaskResume, TaskDrain, TaskDestroyCallback, TaskDestroyed,
       ImmediateResume, ConnectTooLate, ConnectFail, ResponseHead, connVars,
       lifeVars, histVars
  <2>2. ResponseEnd \/ HeadersTimeout \/ BodyTimeout \/ ResponseResumed \/ BodyEnd
        \/ IdleValidated \/ SocketError
        => wire' = wire /\ ctx' = ctx /\ destroyed' = destroyed
           /\ (connecting' = "dialing" => connecting = "dialing")
    BY DEF ResponseEnd, HeadersTimeout, BodyTimeout, ResponseResumed, BodyEnd,
       IdleValidated, SocketError, Destroys, connVars, lifeVars, histVars
  <2>3. Disturbance
        => wire' = wire /\ ctx' = ctx /\ destroyed' = destroyed
           /\ (connecting' = "dialing" => connecting = "dialing")
    BY DEF Disturbance, ResponseData, KeepAliveTimeout, SocketEnd, SocketReset,
       BadBytes, BodyError, QueuedBodyError, Destroys, connVars, lifeVars, histVars
  <2>4. QED
    BY <2>1, <2>2, <2>3 DEF SteadyEvent
<1>3. Remains(sock, sock')
  BY EventRemains DEF SteadyEvent, TaskStep
<1>4. \E S : Steady(S, stack)
  BY SteadyEventMoves DEF Steady, OfSocket, Live
<1>5. QED
  BY <1>1, <1>2, <1>3, <1>4, CoreStep

LEMMA ConnectCore ==
  ASSUME TypeOK, Core, broken = "none", ConnectOK
  PROVE  Core'
<1>1. /\ stack = <<>> /\ sock' = Connected(sock) /\ ctx' = TRUE /\ connecting' = "no"
      /\ UNCHANGED <<queue, runningIdx, pendingIdx, wire, destroyed>>
      /\ ~destroyed /\ connecting = "dialing"
  BY DEF ConnectOK, Quiet, qVars, lifeVars, histVars
<1>2. wire = <<>> /\ Running = 0 /\ pendingIdx = runningIdx
  BY <1>1, DialingIsIdle
<1>3. On(stack') \subseteq {"connect", "resume"}
  <2>1. Moves({"connect", "resume"}, <<>>)
    BY <1>1, ConnectMoves
  <2>2. QED
    BY <2>1, MovesOn, OnFew, FewFrames
<1>4. sock'.st = "live"
  BY <1>1 DEF Connected, NoSock
<1>5. runningIdx \in Nat /\ Len(queue) \in Nat /\ runningIdx <= Len(queue)
  BY TypeParts, LenProperties DEF Core, Bounds
<1>6. Len(wire') = 0 /\ Counted' = 0
  BY <1>1, <1>2, <1>3, <1>5 DEF Counted, Running
<1>7. Bounds' /\ Life' /\ NoWire' /\ EndRuns'
  BY <1>1, <1>2, <1>3, <1>4, <1>5 DEF Bounds, Life, NoWire, EndRuns, Live
<1>8. WireMatches'
  BY <1>1, <1>3, <1>5, <1>6 DEF WireMatches
<1>9. QED
  BY <1>7, <1>8 DEF Core

LEMMA ResponseUpgradeCore ==
  ASSUME TypeOK, Core, broken = "none", ResponseUpgrade
  PROVE  Core'
<1>1. /\ stack = <<>> /\ Live /\ Running > 0
      /\ sock' = NoSock /\ ctx' = FALSE /\ wire' = <<>>
      /\ queue' = [queue EXCEPT ![runningIdx + 1] = Null]
      /\ runningIdx' = runningIdx + 1 /\ pendingIdx' = pendingIdx
      /\ destroyed' = destroyed
      /\ Running = 1 \/ broken' # "none"
  BY DEF ResponseUpgrade, Quiet, Require, lifeVars
<1>2. On(stack') \subseteq {"disconnect", "upgradeCall", "resume"}
  <2>1. Moves({"disconnect", "upgradeCall", "resume"}, <<>>)
    BY <1>1, AnswerMoves
  <2>2. QED
    BY <2>1, MovesOn, OnFew, FewFrames
<1>3. /\ runningIdx \in Nat /\ pendingIdx \in Int /\ Len(queue) \in Nat
      /\ Running = pendingIdx - runningIdx /\ queue \in Seq(Slots)
      /\ pendingIdx <= Len(queue)
  BY <1>1, NothingOn, TypeParts, LenProperties DEF Core, Bounds, Running
<1>4. Len(queue') = Len(queue)
  BY <1>1, <1>3, ExceptSeq
<1>5. sock'.st = "none"
  BY <1>1 DEF NoSock
<1>6. Bounds' /\ Life' /\ WireMatches' /\ EndRuns'
  BY <1>1, <1>2, <1>3, <1>4, <1>5 DEF Bounds, Life, WireMatches, EndRuns, Live, Core
<1>7. Running' = 0 \/ broken' # "none"
  BY <1>1, <1>3 DEF Running
<1>8. NoWire'
  BY <1>1, <1>2, <1>7 DEF NoWire, OfSocket
<1>9. QED
  BY <1>6, <1>8 DEF Core

LEMMA SocketCloseCore ==
  ASSUME TypeOK, Core, broken = "none", SocketClose
  PROVE  Core'
<1>1. /\ stack = <<>> /\ sock' = NoSock /\ ctx' = FALSE /\ wire' = <<>>
      /\ queue' = (IF destroyed THEN Upto(queue, runningIdx)
                   ELSE IF FailsHead THEN [queue EXCEPT ![runningIdx + 1] = Null]
                   ELSE queue)
      /\ runningIdx' = (IF FailsHead THEN runningIdx + 1 ELSE runningIdx)
      /\ pendingIdx' = pendingIdx /\ destroyed' = destroyed
      /\ sock.st = "errored"
  BY DEF SocketClose, Quiet, lifeVars
<1>2. On(stack') \subseteq CloseLabels /\ "closeEnd" \in On(stack')
  <2>1. PICK S \in SUBSET CloseLabels : Moves(S, stack) /\ "closeEnd" \in S
    BY SocketMoves
  <2>2. stack \in Seq(Frames) /\ On(stack) = {}
    BY <1>1, NothingOn, TypeParts
  <2>3. On(stack') \subseteq S /\ S \subseteq On(stack') \cup {"fail"}
    BY <2>1, <2>2, MovesOn
  <2>4. QED
    BY <2>1, <2>3
<1>3. /\ runningIdx \in Nat /\ pendingIdx \in Int /\ Len(queue) \in Nat
      /\ Running = pendingIdx - runningIdx /\ queue \in Seq(Slots)
      /\ pendingIdx <= Len(queue) /\ runningIdx <= Len(queue)
      /\ runningIdx <= pendingIdx
  BY <1>1, NothingOn, TypeParts, LenProperties DEF Core, Bounds, Running
<1>4. Len(queue') >= runningIdx'
  <2>1. CASE destroyed
    <3>1. ~FailsHead
      BY <2>1 DEF FailsHead
    <3>2. Len(Upto(queue, runningIdx)) = runningIdx
      BY <1>3, SpliceElements
    <3>3. QED
      BY <1>1, <1>3, <2>1, <3>1, <3>2
  <2>2. CASE ~destroyed /\ FailsHead
    <3>1. Running > 0
      BY <2>2 DEF FailsHead
    <3>2. Len(queue') = Len(queue)
      BY <1>1, <1>3, <2>2, ExceptSeq
    <3>3. QED
      BY <1>1, <1>3, <2>2, <3>1, <3>2
  <2>3. QED
    BY <1>1, <1>3, <2>1, <2>2
<1>5. runningIdx' <= pendingIdx'
  <2>1. FailsHead => Running > 0
    BY DEF FailsHead
  <2>2. QED
    BY <1>1, <1>3, <2>1
<1>6. sock'.st = "none"
  BY <1>1 DEF NoSock
<1>7. Bounds'
  BY <1>2, <1>4, <1>5, <1>1, <1>3 DEF Bounds
<1>8. Life' /\ WireMatches' /\ NoWire' /\ EndRuns'
  BY <1>1, <1>2, <1>6 DEF Life, WireMatches, NoWire, EndRuns, Live, OfSocket, CloseLabels
<1>9. QED
  BY <1>7, <1>8 DEF Core

LEMMA EventCore ==
  ASSUME TypeOK, Core, broken = "none",
         TaskStep \/ ImmediateResume \/ Connector \/ Answer \/ Disturbance
         \/ ResponseResumed \/ BodyEnd \/ IdleValidated \/ SocketError \/ SocketClose
  PROVE  Core'
<1>1. stack = <<>>
  BY EventShape
<1>2. CASE TaskClosed
  <2>1. CASE BeginDestroy
    <3>1. UNCHANGED <<runningIdx, pendingIdx, sock, connVars, wire>>
      BY <1>2 DEF TaskClosed, histVars
    <3>2. QED
      BY <1>1, <2>1, <3>1, NothingOn, DestroyCore
  <2>2. CASE ~BeginDestroy
    <3>1. /\ Moves({}, stack) /\ UNCHANGED qVars /\ wire' = wire /\ ctx' = ctx
          /\ destroyed' = destroyed /\ connecting' = connecting /\ sock' = sock
      <4>1. UNCHANGED <<queue, runningIdx, pendingIdx, wire, ctx, destroyed, connecting,
                        sock, stack>>
        BY <1>2, <2>2 DEF TaskClosed, connVars, histVars
      <4>2. QED
        BY <4>1, NothingMoves, TypeParts DEF qVars
    <3>2. Steady({}, stack)
      BY <3>1 DEF Steady
    <3>3. QED
      BY <3>1, <3>2, SamePrefix, RemainsSame, CoreStep
  <2>3. QED
    BY <2>1, <2>2
<1>3. CASE SteadyEvent
  BY <1>1, <1>3, SteadyEventCore
<1>4. TaskClosed \/ SteadyEvent \/ ConnectOK \/ ResponseUpgrade \/ SocketClose
  BY DEF TaskStep, Connector, Answer, SteadyEvent
<1>5. QED
  BY <1>2, <1>3, <1>4, ConnectCore, ResponseUpgradeCore, SocketCloseCore

----------------------------------------------------------------------------
(* The request the loop is about to write, and the socket it writes to.     *)

\* What a request being written may become: aborted, still the next one, or
\* held by a frame that will abort it.
Spared(r, fs) ==
  \/ r \in aborted'
  \/ pendingIdx' < Len(queue') /\ PendingHead' = r
  \/ \E j \in DOMAIN fs : fs[j].at = "fail" /\ r \in Range(fs[j].reqs)

LEMMA WriteKept ==
  ASSUME TypeOK, WriteOk, NEW fs \in Seq(Frames), NEW t \in Seq(Frames),
         stack' = fs \o t, "write" \notin On(fs), aborted \subseteq aborted',
         t = stack \/ (stack # <<>> /\ t = Caller),
         pendingIdx < Len(queue) /\ PendingHead \in Requests => Spared(PendingHead, fs),
         t # stack /\ Top.at = "fail" =>
           \A r \in Range(Top.reqs) \cap Requests : Spared(r, fs)
  PROVE  WriteOk'
<1> SUFFICES ASSUME NEW i \in DOMAIN stack', stack'[i].at = "write",
                    NEW r, r = stack'[i].reqs[1]
             PROVE  \/ r \in aborted'
                    \/ pendingIdx' < Len(queue') /\ PendingHead' = r
                    \/ \E j \in 1..(i - 1) :
                         stack'[j].at = "fail" /\ r \in Range(stack'[j].reqs)
  BY DEF WriteOk
<1>1. /\ Len(fs) \in Nat /\ Len(t) \in Nat
      /\ DOMAIN fs = 1..Len(fs) /\ DOMAIN t = 1..Len(t)
      /\ DOMAIN stack' = 1..(Len(fs) + Len(t))
      /\ \A k \in 1..Len(fs) : stack'[k] = fs[k]
      /\ \A k \in 1..Len(t) : stack'[Len(fs) + k] = t[k]
  BY CatElements
<1>2. i > Len(fs)
  <2>1. i \in DOMAIN fs => fs[i].at # "write"
    BY DEF On
  <2>2. QED
    BY <1>1, <2>1
<1>3. PICK k \in 1..Len(t) : i = Len(fs) + k
  <2>1. i - Len(fs) \in 1..Len(t) /\ i = Len(fs) + (i - Len(fs))
    BY <1>1, <1>2
  <2>2. QED
    BY <2>1
<1>4. t[k].at = "write" /\ t[k].reqs[1] = r
  BY <1>1, <1>3
<1>5. r \in Requests
  <2>1. t[k] \in Frames
    BY <1>1, ElementOfSeq
  <2>2. QED
    BY <1>4, <2>1, FrameFields, RequestLabelsAre
<1>6. Spared(r, fs) => \/ r \in aborted'
                       \/ pendingIdx' < Len(queue') /\ PendingHead' = r
                       \/ \E j \in 1..(i - 1) :
                            stack'[j].at = "fail" /\ r \in Range(stack'[j].reqs)
  <2>1. \A j \in DOMAIN fs : j \in 1..(i - 1) /\ stack'[j] = fs[j]
    BY <1>1, <1>2
  <2>2. QED
    BY <2>1 DEF Spared
<1>7. \A j \in 1..(k - 1) : /\ Len(fs) + j \in 1..(i - 1)
                            /\ stack'[Len(fs) + j] = t[j]
  BY <1>1, <1>3
<1>8. CASE t = stack
  <2>1. \/ r \in aborted
        \/ pendingIdx < Len(queue) /\ PendingHead = r
        \/ \E j \in 1..(k - 1) : t[j].at = "fail" /\ r \in Range(t[j].reqs)
    <3>1. k \in DOMAIN stack /\ stack[k].at = "write" /\ stack[k].reqs[1] = r
      BY <1>1, <1>4, <1>8
    <3>2. \/ stack[k].reqs[1] \in aborted
          \/ pendingIdx < Len(queue) /\ PendingHead = stack[k].reqs[1]
          \/ \E j \in 1..(k - 1) :
               stack[j].at = "fail" /\ stack[k].reqs[1] \in Range(stack[j].reqs)
      BY <3>1 DEF WriteOk
    <3>3. QED
      BY <1>8, <3>1, <3>2
  <2>2. CASE \E j \in 1..(k - 1) : t[j].at = "fail" /\ r \in Range(t[j].reqs)
    <3>1. PICK j \in 1..(k - 1) : t[j].at = "fail" /\ r \in Range(t[j].reqs)
      BY <2>2
    <3>2. stack'[Len(fs) + j].at = "fail" /\ r \in Range(stack'[Len(fs) + j].reqs)
      BY <1>7, <3>1
    <3>3. QED
      BY <1>7, <3>2
  <2>3. QED
    BY <1>5, <1>6, <2>1, <2>2
<1>9. CASE t # stack
  <2>1. stack # <<>> /\ t = Caller /\ stack \in Seq(Frames)
    BY <1>9, TypeParts
  <2>2. /\ DOMAIN stack = 1..Len(stack) /\ Len(stack) \in Nat \ {0}
        /\ Top = stack[1] /\ Len(t) = Len(stack) - 1
        /\ \A n \in 1..(Len(stack) - 1) : t[n] = stack[n + 1]
    BY <2>1, EmptySeq, LenProperties, HeadTailProperties DEF Top, Caller
  <2>3. k + 1 \in DOMAIN stack /\ stack[k + 1] = t[k]
    BY <1>1, <2>2
  <2>4. \/ r \in aborted
        \/ pendingIdx < Len(queue) /\ PendingHead = r
        \/ \E j \in 1..((k + 1) - 1) : stack[j].at = "fail" /\ r \in Range(stack[j].reqs)
    BY <1>4, <2>3 DEF WriteOk
  <2>5. CASE \E j \in 1..((k + 1) - 1) : stack[j].at = "fail" /\ r \in Range(stack[j].reqs)
    <3>1. PICK j \in 1..((k + 1) - 1) : stack[j].at = "fail" /\ r \in Range(stack[j].reqs)
      BY <2>5
    <3>2. CASE j = 1
      <4>1. Top.at = "fail" /\ r \in Range(Top.reqs)
        BY <2>2, <3>1, <3>2
      <4>2. QED
        BY <1>5, <1>6, <1>9, <4>1
    <3>3. CASE j # 1
      <4>1. j - 1 \in 1..(k - 1) /\ t[j - 1] = stack[j]
        <5>1. j - 1 \in 1..(k - 1) /\ j - 1 \in 1..(Len(stack) - 1) /\ (j - 1) + 1 = j
          BY <1>1, <2>2, <3>1, <3>3
        <5>2. QED
          BY <2>2, <5>1
      <4>2. /\ Len(fs) + (j - 1) \in 1..(i - 1)
            /\ stack'[Len(fs) + (j - 1)].at = "fail"
            /\ r \in Range(stack'[Len(fs) + (j - 1)].reqs)
        BY <1>7, <3>1, <4>1
      <4>3. QED
        BY <4>2
    <3>4. QED
      BY <3>2, <3>3
  <2>6. QED
    BY <1>5, <1>6, <2>4, <2>5
<1>10. QED
  BY <1>8, <1>9

\* The head of the queue and the aborted requests stay.
LEMMA HeadSpared ==
  ASSUME queue' = queue, pendingIdx' = pendingIdx, NEW fs
  PROVE  pendingIdx < Len(queue) /\ PendingHead \in Requests => Spared(PendingHead, fs)
BY DEF Spared, PendingHead

LEMMA UserWriteOk ==
  ASSUME TypeOK, Core, WriteOk, UserStep
  PROVE  WriteOk'
<1>a. stack \in Seq(Frames) /\ queue \in Seq(Slots) /\ Len(queue) \in Nat
      /\ pendingIdx \in Nat /\ <<>> \in Seq(Frames) /\ On(<<>>) = {}
  BY TypeParts, LenProperties, OnFew, FewFrames DEF Core, Bounds
<1>1. ASSUME NEW fs \in Seq(Frames), "write" \notin On(fs), stack' = fs \o stack,
             queue' = queue, pendingIdx' = pendingIdx, aborted \subseteq aborted'
      PROVE  WriteOk'
  BY <1>a, <1>1, WriteKept, HeadSpared
<1>2. <<>> \o stack = stack
  BY <1>a, ConcatEmptySeq
<1>3. <<Loop(TRUE)>> \in Seq(Frames) /\ "write" \notin On(<<Loop(TRUE)>>)
  <2>1. <<Loop(TRUE)>> \in Seq(Frames)
    BY LoopAlone
  <2>2. On(<<Loop(TRUE)>>) = {Loop(TRUE).at}
    BY OnFew
  <2>3. Loop(TRUE).at = "loop"
    BY DEF Loop
  <2>4. QED
    BY <2>1, <2>2, <2>3
<1>4. ASSUME NEW r \in Requests, Dispatch(r) PROVE WriteOk'
  <2>1. queue' = Append(queue, r) /\ pendingIdx' = pendingIdx /\ aborted' = aborted
    BY <1>4 DEF Dispatch, reqVars
  <2>2. pendingIdx < Len(queue) => pendingIdx' < Len(queue') /\ PendingHead' = PendingHead
    <3>1. /\ Len(queue') = Len(queue) + 1
          /\ \A k \in 1..Len(queue) : queue'[k] = queue[k]
          /\ DOMAIN queue = 1..Len(queue) /\ DOMAIN queue' = 1..(Len(queue) + 1)
      <4>1. r \in Slots
        BY DEF Slots
      <4>2. QED
        BY <1>a, <2>1, <4>1, AppendProperties, LenProperties
    <3>2. QED
      BY <1>a, <2>1, <3>1 DEF PendingHead, Slot
  <2>3. stack' = <<>> \o stack \/ stack' = <<Loop(TRUE)>> \o stack
    BY <1>2, <1>4 DEF Dispatch, Call
  <2>4. \A fs : pendingIdx < Len(queue) /\ PendingHead \in Requests => Spared(PendingHead, fs)
    BY <2>2 DEF Spared
  <2>5. aborted \subseteq aborted'
    BY <2>1
  <2>6. CASE stack' = <<>> \o stack
    BY <1>a, <2>4, <2>5, <2>6, WriteKept
  <2>7. CASE stack' = <<Loop(TRUE)>> \o stack
    BY <1>a, <1>3, <2>4, <2>5, <2>7, WriteKept
  <2>8. QED
    BY <2>3, <2>6, <2>7
<1>5. ASSUME NEW r \in Requests, DispatchRefused(r) PROVE WriteOk'
  <2>1. /\ stack' = <<Frame("error", <<r>>)>> \o stack
        /\ queue' = queue /\ pendingIdx' = pendingIdx /\ aborted' = aborted
    BY <1>5 DEF DispatchRefused, Call, qVars, reqVars
  <2>2. Frame("error", <<r>>) \in Frames /\ Frame("error", <<r>>).at = "error"
    BY Labelled, RequestLabelsAre
  <2>3. <<Frame("error", <<r>>)>> \in Seq(Frames)
        /\ "write" \notin On(<<Frame("error", <<r>>)>>)
    BY <2>2, FewFrames, OnFew
  <2>4. aborted \subseteq aborted'
    BY <2>1
  <2>5. QED
    BY <1>1, <2>1, <2>3, <2>4
<1>6. ASSUME NEW r \in Requests, Abort(r) PROVE WriteOk'
  <2>1. /\ stack' = AbortFrames(r) \o stack
        /\ queue' = queue /\ pendingIdx' = pendingIdx /\ aborted \subseteq aborted'
    BY <1>6 DEF Abort, Call, Aborts, qVars
  <2>2. Frame("error", <<r>>) \in Frames /\ Frame("error", <<r>>).at = "error"
        /\ Do("abortSocket") \in Frames /\ Do("abortSocket").at = "abortSocket"
    BY Labelled, RequestLabelsAre, PlainLabelsAre
  <2> DEFINE f == Frame("error", <<r>>)
             g == Do("abortSocket")
  <2>3. f \in Frames /\ f.at = "error" /\ g \in Frames /\ g.at = "abortSocket"
    BY <2>2
  <2>4. AbortFrames(r) = <<f>> \o <<>> \/ AbortFrames(r) = <<f>> \o <<g>>
    BY DEF AbortFrames
  <2> HIDE DEF f, g
  <2>5. AbortFrames(r) = <<f>> \/ AbortFrames(r) = <<f, g>>
    BY <2>3, <2>4, CatFew
  <2>6. "write" \notin On(AbortFrames(r))
    <3>1. "write" \notin On(<<f>>) /\ "write" \notin On(<<f, g>>)
      BY <2>3, OnFew
    <3>2. QED
      BY <2>5, <3>1
  <2>7. QED
    BY <1>1, <2>1, <2>6, AbortFramesType
<1>7. ASSUME NEW value \in Pipelinings, SetPipelining(value) PROVE WriteOk'
  <2>1. /\ stack' = <<>> \o stack \/ stack' = <<Loop(TRUE)>> \o stack
        /\ queue' = queue /\ pendingIdx' = pendingIdx /\ aborted \subseteq aborted'
    BY <1>2, <1>7 DEF SetPipelining, Call, qVars, reqVars
  <2>2. QED
    BY <1>1, <1>3, <1>a, <2>1
<1>8. ASSUME Close PROVE WriteOk'
  <2>1. /\ stack' = <<>> \o stack
        /\ queue' = queue /\ pendingIdx' = pendingIdx /\ aborted \subseteq aborted'
    BY <1>2, <1>8 DEF Close, qVars, reqVars
  <2>2. QED
    BY <1>1, <1>a, <2>1
<1>9. ASSUME Destroy PROVE WriteOk'
  <2> DEFINE pending == From(queue, pendingIdx)
             failing == Fail(pending)
             rest == <<Do("destroyEnd")>>
  <2>1. stack' = (failing \o rest) \o stack /\ aborted \subseteq aborted'
    BY <1>9 DEF Destroy, BeginDestroy, Call, reqVars
  <2>2. pending \in Seq(Slots) /\ pendingIdx \in Int
    <3>1. pendingIdx \in Int
      BY <1>a
    <3>2. QED
      BY <1>a, <3>1, SpliceTypes
  <2>3. failing \in Seq(Frames) /\ On(failing) \subseteq {"fail"}
    BY <2>2, OnFail
  <2>4. rest \in Seq(Frames) /\ On(rest) = {"destroyEnd"}
    <3>1. Do("destroyEnd") \in Frames /\ Do("destroyEnd").at = "destroyEnd"
      BY Labelled, PlainLabelsAre
    <3>2. QED
      BY <3>1, FewFrames, OnFew
  <2>5. failing \o rest \in Seq(Frames) /\ "write" \notin On(failing \o rest)
    BY <2>3, <2>4, OnCat, CatElements
  <2>6. pendingIdx < Len(queue) =>
          \E j \in DOMAIN (failing \o rest) :
            /\ (failing \o rest)[j].at = "fail"
            /\ PendingHead \in Range((failing \o rest)[j].reqs)
    <3> SUFFICES ASSUME pendingIdx < Len(queue)
                 PROVE  /\ 1 \in DOMAIN (failing \o rest)
                        /\ (failing \o rest)[1].at = "fail"
                        /\ PendingHead \in Range((failing \o rest)[1].reqs)
      OBVIOUS
    <3>1. Len(pending) = Len(queue) - pendingIdx
          /\ \A k \in 1..(Len(queue) - pendingIdx) : pending[k] = queue[pendingIdx + k]
      BY <1>a, SpliceElements, SMTT(30)
    <3>2. 1 \in 1..Len(pending) /\ pending[1] = queue[pendingIdx + 1]
      BY <1>a, <3>1
    <3>3. PendingHead = pending[1]
      BY <1>a, <3>2, LenProperties DEF PendingHead, Slot
    <3>4. PendingHead \in Range(pending) /\ pending # <<>>
      <4>1. 1 \in DOMAIN pending
        BY <2>2, <3>2, LenProperties
      <4>2. QED
        BY <3>3, <4>1 DEF Range
    <3>5. failing = <<Frame("fail", pending)>>
      BY <3>4 DEF Fail
    <3>6. Len(failing) = 1 /\ failing[1] = Frame("fail", pending)
      BY <3>5
    <3>7. 1 \in DOMAIN (failing \o rest) /\ (failing \o rest)[1] = failing[1]
      BY <2>3, <2>4, <3>6, CatElements
    <3>8. Frame("fail", pending).at = "fail" /\ Frame("fail", pending).reqs = pending
      BY DEF Frame
    <3>9. QED
      BY <3>4, <3>6, <3>7, <3>8
  <2>7. pendingIdx < Len(queue) /\ PendingHead \in Requests
          => Spared(PendingHead, failing \o rest)
    BY <2>6 DEF Spared
  <2> HIDE DEF failing, rest
  <2>8. QED
    BY <1>a, <2>1, <2>5, <2>7, WriteKept
<1>10. QED
  BY <1>4, <1>5, <1>6, <1>7, <1>8, <1>9 DEF UserStep

\* While resume() is within its loop only these frames run above it; every
\* other frame of undici finds nothing of the loop on the stack.
LEMMA InnerWriteOk ==
  ASSUME TypeOK, WriteOk, CallbackReturns \/ AbortSocket \/ DestroyEnd \/ Resume
  PROVE  WriteOk'
<1>a. stack \in Seq(Frames) /\ stack # <<>> /\ Top.at # "fail" /\ Caller \in Seq(Frames)
  <2>1. stack # <<>> /\ Top.at # "fail"
    BY DEF CallbackReturns, AbortSocket, DestroyEnd, Resume, At, Callbacks
  <2>2. QED
    BY <2>1, TypeParts, TopType
<1>b. queue' = queue /\ pendingIdx' = pendingIdx /\ aborted \subseteq aborted'
  BY DEF CallbackReturns, AbortSocket, DestroyEnd, Resume, qVars, reqVars
<1>1. /\ <<>> \in Seq(Frames) /\ "write" \notin On(<<>>)
      /\ <<Do("resume")>> \in Seq(Frames) /\ "write" \notin On(<<Do("resume")>>)
      /\ <<Loop(FALSE)>> \in Seq(Frames) /\ "write" \notin On(<<Loop(FALSE)>>)
  <2>1. Do("resume") \in Frames /\ Do("resume").at = "resume"
    BY Labelled, PlainLabelsAre
  <2>2. <<Loop(FALSE)>> \in Seq(Frames) /\ Loop(FALSE).at = "loop"
    BY LoopAlone DEF Loop
  <2>3. On(<<Loop(FALSE)>>) = {Loop(FALSE).at} /\ On(<<Do("resume")>>) = {Do("resume").at}
    BY OnFew
  <2>4. QED
    BY <2>1, <2>2, <2>3, FewFrames, OnFew
<1>2. PICK fs \in {<<>>, <<Do("resume")>>, <<Loop(FALSE)>>} : stack' = fs \o Caller
  <2>1. <<>> \o Caller = Caller
    BY <1>a, ConcatEmptySeq
  <2>2. QED
    BY <2>1 DEF CallbackReturns, AbortSocket, DestroyEnd, Resume, Become
<1>3. fs \in Seq(Frames) /\ "write" \notin On(fs)
  BY <1>1
<1>4. pendingIdx < Len(queue) /\ PendingHead \in Requests => Spared(PendingHead, fs)
  BY <1>b, HeadSpared
<1>5. QED
  BY <1>a, <1>b, <1>2, <1>3, <1>4, WriteKept

LEMMA FailNextWriteOk ==
  ASSUME TypeOK, WriteOk, FailNext
  PROVE  WriteOk'
<1> DEFINE rest == Fail(Tail(Top.reqs))
           err == <<Frame("error", <<Head(Top.reqs)>>)>>
<1>a. /\ stack \in Seq(Frames) /\ stack # <<>> /\ Top.at = "fail" /\ Caller \in Seq(Frames)
      /\ Top.reqs \in Seq(Slots) /\ Top.reqs # <<>>
  <2>1. stack # <<>> /\ Top.at = "fail" /\ Top.reqs # <<>>
    BY DEF FailNext, At
  <2>2. QED
    BY <2>1, TypeParts, TopType
<1>1. /\ Head(Top.reqs) = Top.reqs[1] /\ Tail(Top.reqs) \in Seq(Slots)
      /\ DOMAIN Top.reqs = 1..Len(Top.reqs) /\ Len(Top.reqs) \in Nat \ {0}
      /\ Len(Tail(Top.reqs)) = Len(Top.reqs) - 1
      /\ DOMAIN Tail(Top.reqs) = 1..(Len(Top.reqs) - 1)
      /\ \A k \in 1..(Len(Top.reqs) - 1) : Tail(Top.reqs)[k] = Top.reqs[k + 1]
      /\ Head(Top.reqs) \in Slots
  BY <1>a, EmptySeq, LenProperties, HeadTailProperties, ElementOfSeq
<1>2. rest \in Seq(Frames) /\ On(rest) \subseteq {"fail"}
  BY <1>1, OnFail
<1>3. \A r \in Range(Top.reqs) : r = Head(Top.reqs) \/ r \in Range(Tail(Top.reqs))
  <2> SUFFICES ASSUME NEW k \in 1..Len(Top.reqs)
               PROVE  Top.reqs[k] = Head(Top.reqs) \/ Top.reqs[k] \in Range(Tail(Top.reqs))
    BY <1>1 DEF Range
  <2>1. CASE k = 1
    BY <1>1, <2>1
  <2>2. CASE k # 1
    <3>1. k - 1 \in 1..(Len(Top.reqs) - 1) /\ (k - 1) + 1 = k
      BY <1>1, <2>2
    <3>2. k - 1 \in DOMAIN Tail(Top.reqs) /\ Tail(Top.reqs)[k - 1] = Top.reqs[k]
      BY <1>1, <3>1
    <3>3. QED
      BY <3>2 DEF Range
  <2>3. QED
    BY <2>1, <2>2
<1>4. \A r \in Range(Tail(Top.reqs)) :
        1 \in DOMAIN rest /\ rest[1].at = "fail" /\ r \in Range(rest[1].reqs)
  <2> SUFFICES ASSUME NEW r \in Range(Tail(Top.reqs))
               PROVE  1 \in DOMAIN rest /\ rest[1].at = "fail" /\ r \in Range(rest[1].reqs)
    OBVIOUS
  <2>1. Tail(Top.reqs) # <<>>
    <3>1. DOMAIN Tail(Top.reqs) # {}
      BY DEF Range
    <3>2. QED
      BY <1>1, <3>1, EmptySeq
  <2>2. rest = <<Frame("fail", Tail(Top.reqs))>>
    BY <2>1 DEF Fail
  <2>3. rest[1] = Frame("fail", Tail(Top.reqs)) /\ 1 \in DOMAIN rest
    BY <2>2
  <2>4. /\ Frame("fail", Tail(Top.reqs)).at = "fail"
        /\ Frame("fail", Tail(Top.reqs)).reqs = Tail(Top.reqs)
    BY DEF Frame
  <2>5. QED
    BY <2>3, <2>4
<1>b. queue' = queue /\ pendingIdx' = pendingIdx
  BY DEF FailNext, qVars
<1>5. CASE ErrorSkips(Head(Top.reqs))
  <2>1. stack' = rest \o Caller /\ aborted' = aborted
    BY <1>5 DEF FailNext, Become
  <2>2. "write" \notin On(rest) /\ aborted \subseteq aborted'
    BY <1>2, <2>1
  <2>3. \A r \in Range(Top.reqs) \cap Requests : Spared(r, rest)
    <3>1. Head(Top.reqs) \in Requests => Head(Top.reqs) \in aborted'
      BY <1>5, <2>1, NullAssumption DEF ErrorSkips
    <3>2. QED
      BY <1>3, <1>4, <3>1 DEF Spared
  <2>4. pendingIdx < Len(queue) /\ PendingHead \in Requests => Spared(PendingHead, rest)
    BY <1>b, HeadSpared
  <2> HIDE DEF rest
  <2>5. QED
    BY <1>a, <1>2, <2>1, <2>2, <2>3, <2>4, WriteKept
<1>6. CASE ~ErrorSkips(Head(Top.reqs))
  <2>1. stack' = (err \o rest) \o Caller /\ aborted' = aborted \cup {Head(Top.reqs)}
    BY <1>6 DEF FailNext, Become, Aborts
  <2>2. Head(Top.reqs) \in Requests
    BY <1>1, <1>6 DEF ErrorSkips, Slots
  <2>3. err \in Seq(Frames) /\ On(err) = {"error"} /\ Len(err) = 1
    <3>1. /\ Frame("error", <<Head(Top.reqs)>>) \in Frames
          /\ Frame("error", <<Head(Top.reqs)>>).at = "error"
      BY <2>2, Labelled, RequestLabelsAre
    <3>2. QED
      BY <3>1, FewFrames, OnFew
  <2>4. \A r \in Range(Tail(Top.reqs)) :
          \E j \in DOMAIN (err \o rest) :
            (err \o rest)[j].at = "fail" /\ r \in Range((err \o rest)[j].reqs)
    <3> SUFFICES ASSUME NEW r \in Range(Tail(Top.reqs))
                 PROVE  /\ 2 \in DOMAIN (err \o rest)
                        /\ (err \o rest)[2].at = "fail"
                        /\ r \in Range((err \o rest)[2].reqs)
      OBVIOUS
    <3>1. 1 \in DOMAIN rest /\ rest[1].at = "fail" /\ r \in Range(rest[1].reqs)
      BY <1>4
    <3> HIDE DEF err, rest
    <3>2. 2 \in DOMAIN (err \o rest) /\ (err \o rest)[2] = rest[1]
      <4>1. 1 \in 1..Len(rest) /\ Len(err) + 1 = 2
        BY <1>2, <2>3, <3>1, CatElements
      <4>2. (err \o rest)[Len(err) + 1] = rest[1]
        BY <1>2, <2>3, <4>1, CatElements
      <4>3. DOMAIN (err \o rest) = 1..(Len(err) + Len(rest)) /\ Len(rest) \in Nat
        BY <1>2, <2>3, CatElements
      <4>4. 2 \in 1..(Len(err) + Len(rest))
        BY <2>3, <4>1, <4>3
      <4>5. QED
        BY <4>1, <4>2, <4>3, <4>4
    <3>3. QED
      BY <3>1, <3>2
  <2>5. err \o rest \in Seq(Frames) /\ "write" \notin On(err \o rest)
    <3> HIDE DEF err, rest
    <3>1. err \o rest \in Seq(Frames)
      BY <1>2, <2>3, CatElements
    <3>2. On(err \o rest) = On(err) \cup On(rest)
      BY <1>2, <2>3, OnCat
    <3>3. QED
      BY <1>2, <2>3, <3>1, <3>2
  <2>6. \A r \in Range(Top.reqs) \cap Requests : Spared(r, err \o rest)
    BY <1>3, <2>1, <2>4 DEF Spared
  <2>7. pendingIdx < Len(queue) /\ PendingHead \in Requests
          => Spared(PendingHead, err \o rest)
    BY <1>b, HeadSpared
  <2>8. aborted \subseteq aborted'
    BY <2>1
  <2> HIDE DEF err, rest
  <2>9. QED
    BY <1>a, <2>1, <2>5, <2>6, <2>7, <2>8, WriteKept
<1>7. QED
  BY <1>5, <1>6

LEMMA NoWriteOk == "write" \notin On(stack') => WriteOk'
BY DEF WriteOk, On

\* Nothing of the loop is below its frame.
LEMMA LoopAtTop ==
  ASSUME TypeOK, Nesting, Shape(stack), stack # <<>>, Top.at \in LoopLabels
  PROVE  /\ stack \in Seq(Frames) /\ Caller \in Seq(Frames)
         /\ On(stack) = {Top.at} \cup On(Caller) /\ On(Caller) \cap LoopLabels = {}
<1>1. Top.at \notin Inner
  BY DEF LoopLabels, Inner
<1>2. QED
  BY <1>1, ShapeTop, TypeParts

\* Only PickWrite leaves a request to be written on the stack.
LEMMA LoopOn ==
  ASSUME TypeOK, Nesting, Shape(stack),
         \/ LoopDestroyed \/ LoopClosed \/ LoopContext \/ LoopBusy \/ LoopDrain
         \/ PickNothing \/ PickAborted \/ PickRename \/ PickConnect
         \/ WriteHead \/ Advance \/ Splice \/ Exit
  PROVE  "write" \notin On(stack')
<1>1. stack # <<>> /\ Top.at \in LoopLabels
  BY DEF LoopDestroyed, LoopClosed, LoopContext, LoopBusy, LoopDrain, PickNothing,
     PickAborted, PickRename, PickConnect, WriteHead, Advance, Splice, Exit, At,
     LoopLabels
<1>2. Caller \in Seq(Frames) /\ On(stack) = {Top.at} \cup On(Caller)
      /\ "write" \notin On(Caller)
  BY <1>1, LoopAtTop DEF LoopLabels
<1>3. ASSUME NEW S, "write" \notin S, Moves(S, Caller) PROVE "write" \notin On(stack')
  BY <1>2, <1>3, MovesOn
<1>4. CASE ~PickRename
  <2>1. \E S \in {{"exit"}, {"busy"}, {"pick"}, {"loop"}, {}, {"drain", "loop"},
                  {"splice"}, {"advance"}, {"sent", "advance"}} : Moves(S, Caller)
    BY <1>4, LoopStepMoves, DrainMoves, WriteHeadMoves
  <2>2. QED
    BY <1>3, <2>1
<1>5. CASE PickRename
  <2>1. stack' = stack /\ Top.at = "pick"
    BY <1>5 DEF PickRename, At
  <2>2. QED
    BY <1>2, <2>1
<1>6. QED
  BY <1>4, <1>5

\* PickWrite leaves the head of the pending part, and it is acceptable.
LEMMA PickWriteOn ==
  ASSUME TypeOK, Nesting, Shape(stack), PickWrite
  PROVE  /\ PendingHead \in Requests /\ pendingIdx < Len(queue)
         /\ \A i \in DOMAIN stack' : stack'[i].at = "write" =>
              stack'[i].reqs[1] = PendingHead /\ Opt[PendingHead].body # "mismatch"
<1>1. stack # <<>> /\ Top.at \in LoopLabels
  BY DEF PickWrite, At, LoopLabels
<1>2. stack \in Seq(Frames) /\ Caller \in Seq(Frames) /\ "write" \notin On(Caller)
  BY <1>1, LoopAtTop DEF LoopLabels
<1>3. PendingHead \in Requests /\ pendingIdx \in Int
  <2>1. PendingHead # Null
    BY DEF PickWrite, HasCandidate
  <2>2. QED
    BY <2>1, TypeParts DEF Slots
<1>4. pendingIdx < Len(queue)
  BY <1>3, TypeParts, LenProperties DEF PickWrite, HasCandidate, Pending
<1> DEFINE write == Moved("write", <<PendingHead>>)
           splice == Moved("splice", <<>>)
           start == Frame("start", <<PendingHead>>)
           err == Frame("error", <<PendingHead>>)
           kill == Do("abortSocket")
<1>5. \/ stack' = (Fail(<<PendingHead>>) \o <<splice>>) \o Caller
      \/ stack' = <<err, kill, splice>> \o Caller
      \/ stack' = <<start, write>> \o Caller /\ Opt[PendingHead].body # "mismatch"
  BY DEF PickWrite, Become
<1>6. /\ write \in Frames /\ write.at = "write" /\ write.reqs[1] = PendingHead
      /\ splice \in Frames /\ splice.at = "splice"
      /\ start \in Frames /\ start.at = "start"
      /\ err \in Frames /\ err.at = "error" /\ kill \in Frames /\ kill.at = "abortSocket"
  <2>1. write \in Frames /\ write.at = "write" /\ write.reqs[1] = PendingHead
    BY <1>2, <1>1, <1>3, TopType, RequestLabelsAre DEF Moved, Frames
  <2>2. splice \in Frames /\ splice.at = "splice"
    BY <1>1, <1>2, PlainLabelsAre, MovedLoop DEF Moved
  <2>3. QED
    BY <1>3, <2>1, <2>2, Labelled, RequestLabelsAre, PlainLabelsAre
<1>7. <<PendingHead>> \in Seq(Slots)
  BY <1>3 DEF Slots
<1> HIDE DEF write, splice, start, err, kill
<1>8. CASE "write" \notin On(stack')
  BY <1>3, <1>4, <1>8 DEF On
<1>9. CASE stack' = (Fail(<<PendingHead>>) \o <<splice>>) \o Caller
  <2>1. Fail(<<PendingHead>>) \in Seq(Frames) /\ On(Fail(<<PendingHead>>)) \subseteq {"fail"}
    BY <1>7, OnFail
  <2>2. <<splice>> \in Seq(Frames) /\ On(<<splice>>) = {"splice"}
    BY <1>6, FewFrames, OnFew
  <2>3. /\ Fail(<<PendingHead>>) \o <<splice>> \in Seq(Frames)
        /\ "write" \notin On(Fail(<<PendingHead>>) \o <<splice>>)
    <3>1. On(Fail(<<PendingHead>>) \o <<splice>>) = On(Fail(<<PendingHead>>)) \cup On(<<splice>>)
      BY <2>1, <2>2, OnCat
    <3>2. QED
      BY <2>1, <2>2, <3>1, ConcatProperties
  <2>4. "write" \notin On((Fail(<<PendingHead>>) \o <<splice>>) \o Caller)
    BY <1>2, <2>3, OnCat, ZenonT(30)
  <2>5. "write" \notin On(stack')
    BY <1>9, <2>4
  <2>6. QED
    BY <1>8, <2>5
<1>10. CASE stack' = <<err, kill, splice>> \o Caller
  <2>1. <<err, kill, splice>> \in Seq(Frames) /\ "write" \notin On(<<err, kill, splice>>)
    BY <1>6, FewFrames, OnFew
  <2>2. QED
    BY <1>2, <1>8, <1>10, <2>1, OnCat, ZenonT(30)
<1>11. CASE stack' = <<start, write>> \o Caller /\ Opt[PendingHead].body # "mismatch"
  <2>1. PICK fs : fs = <<start, write>>
    OBVIOUS
  <2>2. fs \in Seq(Frames) /\ Len(fs) = 2 /\ fs[1] = start /\ fs[2] = write
    BY <1>6, <2>1, FewFrames
  <2>3. ASSUME NEW i \in DOMAIN stack', stack'[i].at = "write"
        PROVE  stack'[i].reqs[1] = PendingHead
    <3>1. /\ i \in 1..(Len(fs) + Len(Caller))
          /\ i <= Len(fs) => stack'[i] = fs[i]
          /\ i > Len(fs) => i - Len(fs) \in DOMAIN Caller
                            /\ stack'[i] = Caller[i - Len(fs)]
          /\ Len(fs) \in Nat /\ Len(Caller) \in Nat
      BY <1>2, <1>11, <2>1, <2>2, CatElements
    <3>2. i <= Len(fs)
      <4>1. \A k \in DOMAIN Caller : Caller[k].at # "write"
        BY <1>2 DEF On
      <4>2. QED
        BY <2>3, <3>1, <4>1
    <3>3. i = 1 \/ i = 2
      BY <2>2, <3>1, <3>2
    <3>4. i = 2
      <4>1. i = 1 => stack'[i].at = "start"
        BY <1>6, <2>2, <3>1, <3>2
      <4>2. QED
        BY <2>3, <3>3, <4>1
    <3>5. QED
      BY <1>6, <2>2, <3>1, <3>2, <3>4
  <2>4. QED
    BY <1>3, <1>4, <1>11, <2>3
<1>12. QED
  BY <1>5, <1>9, <1>10, <1>11

LEMMA PickWriteOk ==
  ASSUME TypeOK, Nesting, Shape(stack), PickWrite
  PROVE  WriteOk'
<1>1. PendingHead' = PendingHead /\ pendingIdx' < Len(queue')
  BY PickWriteOn DEF PickWrite, qVars, PendingHead
<1>2. QED
  BY <1>1, PickWriteOn DEF WriteOk

\* The frames below which the loop cannot be.
LEMMA OuterOn ==
  ASSUME TypeOK, Nesting, Shape(stack),
         \/ CheckEmpty \/ DestroyCallback \/ FailAltname \/ CloseEnd
         \/ EndBody \/ WriterFail \/ AfterHeaders \/ Complete \/ AfterEnd
         \/ UpgradeCall \/ Upgraded
  PROVE  "write" \notin On(stack')
<1>1. /\ stack # <<>> /\ stack \in Seq(Frames) /\ Caller \in Seq(Frames)
      /\ "write" \notin On(stack) /\ "write" \notin On(Caller)
  <2>1. stack # <<>> /\ Top.at \in {"checkEmpty", "destroyCallback", "failAltname",
          "closeEnd", "endBody", "writerFail", "afterHeaders", "complete", "afterEnd",
          "upgradeCall", "upgraded"}
    BY DEF CheckEmpty, DestroyCallback, FailAltname, CloseEnd, EndBody, WriterFail,
       AfterHeaders, Complete, AfterEnd, UpgradeCall, Upgraded, At
  <2>2. Top.at \notin Inner /\ Top.at # "write"
    BY <2>1 DEF Inner
  <2>3. QED
    BY <2>1, <2>2, ShapeTop, TypeParts DEF LoopLabels
<1>2. \E S, t : /\ Moves(S, t) /\ "write" \notin S
                /\ t = stack \/ t = Caller
  <2>1. CASE CheckEmpty \/ DestroyCallback \/ FailAltname \/ CloseEnd
    <3>1. \/ \E S \in {{}, {"disconnect", "resume"}} : Moves(S, Caller)
          \/ Moves({"fail"}, stack)
      BY <2>1, QueueFrameMoves
    <3>2. QED
      BY <3>1
  <2>2. CASE EndBody \/ AfterHeaders \/ AfterEnd \/ Upgraded
    <3>1. \E S \in {{}, {"resume"}, {"complete"}} : Moves(S, Caller)
      BY <2>2, SocketFrameMoves
    <3>2. QED
      BY <3>1
  <2>3. CASE WriterFail \/ UpgradeCall
    <3>1. \E S \in {{}, {"error"}, {"error", "abortSocket"}, {"upgrade", "upgraded"}} :
            Moves(S, Caller)
      BY <2>3, WriterFailMoves, UpgradeMoves
    <3>2. QED
      BY <3>1
  <2>4. CASE Complete
    <3>1. \/ \E S \in {{}, {"end", "afterEnd"}} : Moves(S, Caller)
          \/ Moves({}, stack)
      BY <2>4, CompleteMoves
    <3>2. QED
      BY <3>1
  <2>5. QED
    BY <2>1, <2>2, <2>3, <2>4
<1>3. PICK S, t : /\ Moves(S, t) /\ "write" \notin S
                  /\ t = stack \/ t = Caller
  BY <1>2
<1>4. QED
  BY <1>1, <1>3, MovesOn

\* An event finds nothing on the stack, and puts nothing of the loop's inside there.
LEMMA EventOn ==
  ASSUME TypeOK,
         TaskStep \/ ImmediateResume \/ Connector \/ Answer \/ Disturbance
         \/ ResponseResumed \/ BodyEnd \/ IdleValidated \/ SocketError \/ SocketClose
  PROVE  On(stack') \cap {"write", "busy", "pick"} = {}
<1>1. stack = <<>> /\ stack \in Seq(Frames) /\ On(stack) = {}
  BY EventShape, NothingOn, TypeParts
<1>2. ASSUME NEW S, Moves(S, stack), S \cap {"write", "busy", "pick"} = {}
      PROVE  On(stack') \cap {"write", "busy", "pick"} = {}
  BY <1>1, <1>2, MovesOn
<1>3. CASE SteadyEvent
  <2>1. \E S : Moves(S, stack) /\ S \cap {"write", "busy", "pick"} = {}
    BY <1>3, SteadyEventMoves
  <2>2. QED
    BY <1>2, <2>1
<1>4. CASE TaskClosed \/ ConnectOK \/ ResponseUpgrade
  <2>1. \E S \in {{}, {"fail", "destroyEnd"}, {"connect", "resume"},
                  {"disconnect", "upgradeCall", "resume"}} : Moves(S, stack)
    BY <1>4, TaskMoves, ConnectMoves, AnswerMoves
  <2>2. QED
    BY <1>2, <2>1
<1>5. CASE SocketClose
  <2>1. PICK S \in SUBSET CloseLabels : Moves(S, stack)
    BY <1>5, SocketMoves
  <2>2. S \cap {"write", "busy", "pick"} = {}
    BY DEF CloseLabels
  <2>3. QED
    BY <1>2, <2>1, <2>2
<1>6. TaskClosed \/ SteadyEvent \/ ConnectOK \/ ResponseUpgrade \/ SocketClose
  BY DEF TaskStep, Connector, Answer, SteadyEvent
<1>7. QED
  BY <1>3, <1>4, <1>5, <1>6

LEMMA WriteOkStep ==
  ASSUME TypeOK, Nesting, Shape(stack), Core, WriteOk, Next
  PROVE  WriteOk'
<1>1. CASE UserStep
  BY <1>1, UserWriteOk
<1>2. CASE FrameStep
  <2>1. CASE CallbackReturns \/ AbortSocket \/ DestroyEnd \/ Resume \/ FailNext
    BY <2>1, InnerWriteOk, FailNextWriteOk
  <2>2. CASE \/ LoopDestroyed \/ LoopClosed \/ LoopContext \/ LoopBusy \/ LoopDrain
             \/ PickNothing \/ PickAborted \/ PickRename \/ PickConnect \/ PickWrite
             \/ WriteHead \/ Advance \/ Splice \/ Exit
    BY <2>2, LoopOn, NoWriteOk, PickWriteOk
  <2>3. CASE \/ CheckEmpty \/ DestroyCallback \/ FailAltname \/ CloseEnd
             \/ EndBody \/ WriterFail \/ AfterHeaders \/ Complete \/ AfterEnd
             \/ UpgradeCall \/ Upgraded
    BY <2>3, OuterOn, NoWriteOk
  <2>4. QED
    BY <1>2, <2>1, <2>2, <2>3 DEF FrameStep
<1>3. CASE TaskStep \/ ImmediateResume \/ Connector \/ Answer \/ Disturbance
           \/ ResponseResumed \/ BodyEnd \/ IdleValidated \/ SocketError \/ SocketClose
  BY <1>3, EventOn, NoWriteOk
<1>4. QED
  BY <1>1, <1>2, <1>3 DEF Next

\* A socket that is about to get a request was validated, if it was used before.
Validated ==
  At("busy") \/ At("pick") =>
    (ctx /\ Live /\ Running = 0 /\ Pending > 0 /\ sock.used => sock.idle # 0)

LEMMA TopOn ==
  ASSUME stack' \in Seq(Frames), At("busy")' \/ At("pick")'
  PROVE  On(stack') \cap {"busy", "pick"} # {}
<1>1. stack' # <<>> /\ Head(stack').at \in {"busy", "pick"}
  BY DEF At, Top
<1>2. 1 \in DOMAIN stack' /\ stack'[1] = Head(stack')
  BY <1>1, EmptySeq, LenProperties, HeadTailProperties
<1>3. QED
  BY <1>1, <1>2 DEF On

\* Only the loop itself gets to where it looks at a request.
LEMMA FrameOn ==
  ASSUME TypeOK, Nesting, Shape(stack), FrameStep,
         ~LoopContext, ~LoopBusy, ~PickRename
  PROVE  On(stack') \cap {"busy", "pick"} = {}
<1>1. stack # <<>>
  BY DEF FrameStep, CallbackReturns, FailNext, CheckEmpty, DestroyEnd,
     DestroyCallback, Resume, LoopDestroyed, LoopClosed, LoopDrain, PickNothing,
     PickAborted, PickConnect, PickWrite, WriteHead, Advance, Splice, Exit,
     FailAltname, AbortSocket, EndBody, WriterFail, AfterHeaders, Complete,
     AfterEnd, UpgradeCall, Upgraded, CloseEnd, At
<1>2. /\ stack \in Seq(Frames) /\ Caller \in Seq(Frames)
      /\ On(Caller) \cap {"busy", "pick"} = {} /\ On(stack) = {Top.at} \cup On(Caller)
  BY <1>1, TypeParts, ShapeTop
<1>3. ASSUME NEW S, Moves(S, Caller), S \cap {"busy", "pick"} = {}
      PROVE  On(stack') \cap {"busy", "pick"} = {}
  BY <1>2, <1>3, MovesOn
<1>4. CASE CallbackReturns \/ FailNext \/ CheckEmpty \/ DestroyEnd
           \/ DestroyCallback \/ CloseEnd
  <2>1. \E S \in {{}, {"resume"}, {"fail"}, {"error", "fail"}, {"disconnect", "resume"}} :
          Moves(S, Caller)
    BY <1>4, QueueFrameMoves, FailNextMoves
  <2>2. QED
    BY <1>3, <2>1
<1>5. CASE \/ Resume \/ LoopDestroyed \/ LoopClosed \/ LoopDrain \/ PickNothing
           \/ PickAborted \/ PickConnect \/ PickWrite
  <2>1. \E S \in {{}, {"loop"}, {"exit"}, {"drain", "loop"}, {"fail", "splice"},
                  {"error", "abortSocket", "splice"}, {"start", "write"}} :
          Moves(S, Caller)
    BY <1>5, ResumeMoves, LoopStepMoves, DrainMoves, PickWriteMoves
  <2>2. QED
    BY <1>3, <2>1
<1>6. CASE WriteHead \/ Advance \/ Splice \/ Exit
  <2>1. \E S \in {{"splice"}, {"advance"}, {"sent", "advance"}, {"loop"}, {}} :
          Moves(S, Caller)
    BY <1>6, WriteHeadMoves, LoopStepMoves
  <2>2. QED
    BY <1>3, <2>1
<1>7. CASE AbortSocket \/ EndBody \/ AfterHeaders \/ AfterEnd \/ Upgraded
  <2>1. \E S \in {{}, {"resume"}, {"complete"}} : Moves(S, Caller)
    BY <1>7, SocketFrameMoves
  <2>2. QED
    BY <1>3, <2>1
<1>8. CASE WriterFail \/ UpgradeCall
  <2>1. \E S \in {{}, {"error"}, {"error", "abortSocket"}, {"upgrade", "upgraded"}} :
          Moves(S, Caller)
    BY <1>8, WriterFailMoves, UpgradeMoves
  <2>2. QED
    BY <1>3, <2>1
<1>9. CASE FailAltname \/ Complete
  <2>1. On(stack) \cap {"busy", "pick"} = {}
    BY <1>2, <1>9 DEF FailAltname, Complete, At
  <2>2. \/ \E S \in {{}, {"end", "afterEnd"}} : Moves(S, Caller)
        \/ \E S \in {{}, {"fail"}} : Moves(S, stack)
    BY <1>9, QueueFrameMoves, CompleteMoves
  <2>3. ASSUME NEW S \in {{}, {"fail"}}, Moves(S, stack)
        PROVE  On(stack') \cap {"busy", "pick"} = {}
    BY <1>2, <2>1, <2>3, MovesOn
  <2>4. QED
    BY <1>3, <2>2, <2>3
<1>10. QED
  BY <1>4, <1>5, <1>6, <1>7, <1>8, <1>9 DEF FrameStep

LEMMA UserOn ==
  ASSUME TypeOK, Nesting, Shape(stack), UserStep
  PROVE  On(stack') \cap {"busy", "pick"} = {}
<1>1. \E op : UserMay(op)
  BY DEF UserStep, Dispatch, DispatchRefused, Abort, SetPipelining, Close, Destroy
<1>2. On(stack) \cap {"busy", "pick"} = {} /\ stack \in Seq(Frames)
  BY <1>1, UserTop, TypeParts
<1>3. \E S \in {{}, {"loop"}, {"error"}, {"error", "abortSocket"}, {"fail", "destroyEnd"}} :
        Moves(S, stack)
  BY UserMoves DEF UserStep
<1>4. QED
  BY <1>2, <1>3, MovesOn

LEMMA ValidatedStep ==
  ASSUME TypeOK, TypeOK', Nesting, Shape(stack), Validated, Next
  PROVE  Validated'
<1>a. stack' \in Seq(Frames) /\ sock \in Socks
  BY TypeParts DEF TypeOK
<1>1. CASE LoopContext
  <2> SUFFICES ASSUME ctx', sock'.st = "live", Running' = 0, Pending' > 0, sock'.used
               PROVE  sock'.idle # 0
    BY DEF Validated, Live
  <2>1. ctx /\ sock' \in ResumeH1(sock) /\ Running = 0 /\ Pending > 0
    BY <1>1 DEF LoopContext, connVars, qVars, Running, Pending
  <2> DEFINE checked == IF NeedsValidation(sock) THEN [sock EXCEPT !.idle = 1] ELSE sock
             timed == [sock EXCEPT !.timer = Timer(sock)]
  <2>2. /\ [sock EXCEPT !.idle = 1] \in Socks /\ [sock EXCEPT !.idle = 1].idle = 1
        /\ timed.idle = sock.idle /\ timed.used = sock.used
    BY <1>a DEF Socks
  <2>3. checked \in Socks
    BY <1>a, <2>2
  <2>4. \A e : Kill(checked, e).st # "live"
    BY <2>3, KillRemains
  <2>5. sock.st = "live"
    <3>1. sock.st # "live" => sock' = sock
      BY <2>1 DEF ResumeH1
    <3>2. QED
      BY <3>1
  <2>6. \/ sock' = (IF NeedsValidation(sock) THEN checked ELSE timed)
        \/ \E e : sock' = Kill(checked, e)
    BY <2>1, <2>5 DEF ResumeH1
  <2>7. sock' = (IF NeedsValidation(sock) THEN checked ELSE timed)
    BY <2>4, <2>6
  <2>8. CASE NeedsValidation(sock)
    BY <2>2, <2>7, <2>8
  <2>9. CASE ~NeedsValidation(sock)
    <3>1. sock' = timed
      BY <2>7, <2>9
    <3>2. sock.used
      BY <2>2, <3>1
    <3>3. sock.idle = 2
      BY <2>1, <2>9, <3>2 DEF NeedsValidation
    <3>4. QED
      BY <2>2, <3>1, <3>3
  <2>10. QED
    BY <2>8, <2>9
<1>2. CASE LoopBusy
  BY <1>2 DEF LoopBusy, Validated, connVars, qVars, Running, Pending, Live
<1>3. CASE PickRename
  <2>1. At("pick") /\ ctx' = ctx /\ Running' = Running /\ Pending' = Pending
    BY <1>3 DEF PickRename, qVars, Running, Pending
  <2>2. \/ sock' = sock
        \/ sock' = [Kill(sock, "info") EXCEPT !.onClose = @ \cup {"rename"}]
    BY <1>3 DEF PickRename
  <2>3. [Kill(sock, "info") EXCEPT !.onClose = @ \cup {"rename"}].st # "live"
    BY <1>a, GivenUp
  <2>4. sock' = sock \/ sock'.st # "live"
    BY <2>2, <2>3
  <2>5. QED
    BY <2>1, <2>4 DEF Validated, Live
<1>4. CASE On(stack') \cap {"busy", "pick"} = {}
  <2>1. ~(At("busy")' \/ At("pick")')
    BY <1>a, <1>4, TopOn
  <2>2. QED
    BY <2>1 DEF Validated
<1>5. QED
  BY <1>1, <1>2, <1>3, <1>4, FrameOn, UserOn, EventOn DEF Next

----------------------------------------------------------------------------
(* The theorems.                                                            *)

WireInv ==
  /\ TypeOK /\ Nesting /\ Shape(stack)
  /\ Core /\ WriteOk /\ Validated

LEMMA InitWire == Init => WireInv
<1> SUFFICES ASSUME Init PROVE WireInv
  OBVIOUS
<1>1. TypeOK /\ Nesting
  BY InitType DEF Init, Nesting, NoLoop
<1>2. stack = <<>> /\ On(stack) = {} /\ Shape(stack)
  BY OnFew, ShapeFew DEF Init
<1>3. /\ runningIdx = 0 /\ pendingIdx = 0 /\ Len(queue) = 0 /\ wire = <<>>
      /\ ctx = FALSE /\ destroyed = FALSE /\ connecting = "no" /\ sock.st = "none"
  BY DEF Init, NoSock
<1>4. Core
  BY <1>2, <1>3 DEF Core, Bounds, Life, WireMatches, NoWire, EndRuns, Live, Running
<1>5. WriteOk /\ Validated
  BY <1>2 DEF WriteOk, Validated, At
<1>6. QED
  BY <1>1, <1>2, <1>4, <1>5 DEF WireInv

LEMMA CoreNext ==
  ASSUME CarefulUser, TypeOK, Nesting, Shape(stack), Core, WriteOk, Next
  PROVE  Core'
<1>1. broken = "none"
  BY DEF Next
<1>2. CASE UserStep
  BY <1>1, <1>2, UserCore
<1>3. CASE FrameStep
  BY <1>1, <1>3, FrameCore
<1>4. CASE TaskStep \/ ImmediateResume \/ Connector \/ Answer \/ Disturbance
           \/ ResponseResumed \/ BodyEnd \/ IdleValidated \/ SocketError \/ SocketClose
  BY <1>1, <1>4, EventCore
<1>5. QED
  BY <1>2, <1>3, <1>4 DEF Next

LEMMA WireStep ==
  ASSUME CarefulUser, WireInv, [Next]_vars
  PROVE  WireInv'
<1>1. TypeOK' /\ Nesting'
  BY TypeStep, NestingStep DEF WireInv
<1>2. CASE Next
  <2>1. Shape(stack')
    BY <1>2, ShapeStep DEF WireInv
  <2>2. Core' /\ WriteOk' /\ Validated'
    BY <1>1, <1>2, CoreNext, WriteOkStep, ValidatedStep DEF WireInv
  <2>3. QED
    BY <1>1, <2>1, <2>2 DEF WireInv
<1>3. CASE UNCHANGED vars
  <2>1. /\ UNCHANGED qVars /\ UNCHANGED connVars /\ UNCHANGED lifeVars
        /\ UNCHANGED reqVars /\ UNCHANGED histVars
        /\ stack' = stack /\ sock' = sock /\ broken' = broken
    BY <1>3 DEF vars
  <2>2. Core'
    BY <2>1 DEF WireInv, Core, Bounds, Life, WireMatches, NoWire, EndRuns,
                Counted, Running, Live, qVars, connVars, lifeVars, histVars
  <2>3. WriteOk' /\ Validated'
    BY <2>1 DEF WireInv, WriteOk, Validated, At, Top, Live, Running, Pending,
                PendingHead, qVars, connVars, reqVars
  <2>4. Shape(stack') /\ Shape(stack)'
    BY <2>1 DEF WireInv
  <2>5. QED
    BY <1>1, <2>2, <2>3, <2>4 DEF WireInv
<1>4. QED
  BY <1>2, <1>3

\* Between jobs the invariant is about the running part as it stands.
LEMMA WireIsQueue ==
  ASSUME WireInv
  PROVE  QueueIsOnWire
<1> SUFFICES ASSUME stack = <<>>, sock.st # "none"
             PROVE  wire = RunningPart
  BY DEF QueueIsOnWire, AtRest
<1>a. /\ queue \in Seq(Requests \cup {Null}) /\ wire \in Seq(Requests)
      /\ runningIdx \in Nat /\ pendingIdx \in Int
      /\ Len(queue) \in Nat /\ Len(wire) \in Nat
  BY LenProperties DEF WireInv, TypeOK
<1>1. /\ Len(wire) = Running /\ runningIdx + Running <= Len(queue)
      /\ \A k \in 1..Len(wire) : queue[runningIdx + k] = wire[k]
  BY NothingOn DEF WireInv, Core, WireMatches
<1>2. runningIdx <= Len(queue) /\ Running \in Nat
  BY <1>a, <1>1
<1> DEFINE left == From(queue, runningIdx)
<1>3. /\ Len(left) = Len(queue) - runningIdx
      /\ \A k \in 1..(Len(queue) - runningIdx) : left[k] = queue[runningIdx + k]
  BY <1>a, <1>2, SpliceElements
<1>4. left \in Seq(Requests \cup {Null})
  <2>1. runningIdx \in Int
    BY <1>a
  <2>2. QED
    BY <1>a, <2>1, SpliceTypes
<1> HIDE DEF left
<1>5. Running <= Len(left)
  BY <1>a, <1>1, <1>2, <1>3
<1>6. /\ Len(Upto(left, Running)) = Running
      /\ \A k \in 1..Running : Upto(left, Running)[k] = left[k]
  BY <1>2, <1>4, <1>5, SpliceElements
<1>7. Upto(left, Running) \in Seq(Requests \cup {Null})
  <2>1. Running \in Int
    BY <1>2
  <2>2. QED
    BY <1>4, <2>1, SpliceTypes
<1>8. \A k \in 1..Running : Upto(left, Running)[k] = wire[k]
  <2> SUFFICES ASSUME NEW k \in 1..Running PROVE Upto(left, Running)[k] = wire[k]
    OBVIOUS
  <2>1. k \in 1..Len(wire) /\ k \in 1..(Len(queue) - runningIdx)
    BY <1>a, <1>1, <1>2
  <2>2. QED
    BY <1>1, <1>3, <1>6, <2>1
<1>9. wire \in Seq(Requests \cup {Null})
  BY <1>a, SeqMonotonic
<1>10. wire = Upto(left, Running)
  BY <1>1, <1>6, <1>7, <1>8, <1>9, SeqEqual
<1>11. QED
  BY <1>10 DEF RunningPart, left

LEMMA WritesChecked ==
  ASSUME WireInv, At("pick"), PickWrite, Running = 0, sock.used
  PROVE  sock.idle = 2
<1>1. ctx /\ HasCandidate /\ ~MustWait(PendingHead) /\ ~Renames(PendingHead)
  BY DEF PickWrite
<1>2. Live /\ ~BusyFor(PendingHead) /\ Pending > 0
  BY <1>1 DEF MustWait, HasCandidate
<1>3. sock.idle # 1
  BY <1>2 DEF BusyFor, SocketBusy
<1>4. sock.idle # 0
  BY <1>1, <1>2 DEF WireInv, Validated
<1>5. sock.idle \in 0..2
  BY DEF WireInv, TypeOK, Socks
<1>6. QED
  BY <1>3, <1>4, <1>5

(* Between jobs the running part of the queue is what is on the wire, in    *)
(* the same order, so that each response reaches the request it answers,    *)
(* unless destroy() is called within onResponseError or onRequestSent.      *)
THEOREM QueueOnWire == CarefulUser /\ Spec => []QueueIsOnWire
<1> SUFFICES ASSUME CarefulUser PROVE Spec => []QueueIsOnWire
  OBVIOUS
<1>1. Init => WireInv
  BY InitWire
<1>2. WireInv /\ [Next]_vars => WireInv'
  BY WireStep
<1>3. WireInv => QueueIsOnWire
  BY WireIsQueue
<1>4. QED
  BY <1>1, <1>2, <1>3, PTL DEF Spec

(* A keep-alive socket that was used before is written to only after the    *)
(* event loop had a turn to report its end (scheduleIdleSocketValidation),  *)
(* unless destroy() is called within onResponseError or onRequestSent.      *)
THEOREM UsedSocketsChecked == CarefulUser /\ Spec => WritesToValidated
<1> SUFFICES ASSUME CarefulUser PROVE Spec => WritesToValidated
  OBVIOUS
<1> DEFINE Checked == At("pick") /\ PickWrite /\ Running = 0 /\ sock.used => sock.idle = 2
<1>1. Init => WireInv
  BY InitWire
<1>2. WireInv /\ [Next]_vars => WireInv'
  BY WireStep
<1>3. WireInv /\ [Next]_vars => [Checked]_vars
  BY WritesChecked
<1>4. QED
  BY <1>1, <1>2, <1>3, PTL DEF Spec, WritesToValidated

----------------------------------------------------------------------------
(* What each step changes, apart from the stack.                            *)

\* The connection is gone, and what was on the wire with it.
Disconnects == sock.st # "none" /\ wire' = <<>> /\ sock' = NoSock

Effects ==
  /\ \/ wire' = wire \/ WriteHead \/ Disconnects
     \/ AfterEnd /\ wire' = From(wire, 1)
  /\ \/ Remains(sock, sock') \/ WriteHead \/ PickConnect \/ ConnectOK \/ Disconnects
  /\ serverName' = serverName \/ PickRename \/ PickConnect
  /\ ctx' => ctx \/ ConnectOK
  /\ connecting' = "dialing" => connecting = "dialing" \/ PickConnect
  /\ destroyed => destroyed'
  /\ aborted \subseteq aborted'
  /\ \/ aborted' = aborted \/ FailNext \/ PickWrite \/ WriterFail
     \/ \E r \in Requests : Abort(r)

LEMMA UserEffects == TypeOK /\ UserStep => Effects
<1> SUFFICES ASSUME TypeOK, UserStep PROVE Effects
  OBVIOUS
<1>1. /\ wire' = wire /\ sock' = sock /\ UNCHANGED connVars
      /\ destroyed => destroyed'
      /\ aborted \subseteq aborted'
      /\ aborted' = aborted \/ \E r \in Requests : Abort(r)
  <2>1. ASSUME NEW r \in Requests, Dispatch(r) \/ DispatchRefused(r) \/ Abort(r)
        PROVE  /\ wire' = wire /\ sock' = sock /\ UNCHANGED connVars
               /\ destroyed => destroyed'
               /\ aborted \subseteq aborted' /\ (aborted' = aborted \/ Abort(r))
    BY <2>1 DEF Dispatch, DispatchRefused, Abort, Aborts, lifeVars, histVars, reqVars
  <2>2. (\E value \in Pipelinings : SetPipelining(value)) \/ Close \/ Destroy
          => /\ wire' = wire /\ sock' = sock /\ UNCHANGED connVars
             /\ destroyed => destroyed'
             /\ aborted' = aborted
    BY DEF SetPipelining, Close, Destroy, BeginDestroy, lifeVars, histVars, reqVars
  <2>3. QED
    BY <2>1, <2>2 DEF UserStep
<1>2. QED
  BY <1>1, RemainsSame DEF Effects, connVars

LEMMA FrameEffects == TypeOK /\ FrameStep => Effects
<1> SUFFICES ASSUME TypeOK, FrameStep PROVE Effects
  OBVIOUS
<1>1. wire' = wire \/ WriteHead \/ (AfterEnd /\ wire' = From(wire, 1))
  <2>1. CallbackReturns \/ FailNext \/ CheckEmpty \/ DestroyEnd \/ DestroyCallback
        \/ Resume \/ LoopDestroyed \/ LoopClosed \/ LoopContext \/ LoopBusy
        \/ LoopDrain \/ PickNothing \/ PickAborted \/ PickRename \/ PickConnect
        => wire' = wire
    BY DEF CallbackReturns, FailNext, CheckEmpty, DestroyEnd, DestroyCallback,
       Resume, LoopDestroyed, LoopClosed, LoopContext, LoopBusy, LoopDrain,
       PickNothing, PickAborted, PickRename, PickConnect, histVars
  <2>2. PickWrite \/ Advance \/ Splice \/ Exit \/ FailAltname \/ AbortSocket
        \/ EndBody \/ WriterFail \/ AfterHeaders \/ Complete \/ UpgradeCall
        \/ Upgraded \/ CloseEnd => wire' = wire
    BY DEF PickWrite, Advance, Splice, Exit, FailAltname, AbortSocket, EndBody,
       WriterFail, AfterHeaders, Complete, UpgradeCall, Upgraded, CloseEnd, histVars
  <2>3. AfterEnd => wire' = From(wire, 1)
    BY DEF AfterEnd
  <2>4. QED
    BY <2>1, <2>2, <2>3 DEF FrameStep
<1>2. Remains(sock, sock') \/ WriteHead \/ PickConnect
  BY FrameRemains DEF FrameStep
<1>3. /\ serverName' = serverName \/ PickRename \/ PickConnect
      /\ ctx' => ctx
      /\ connecting' = "dialing" => connecting = "dialing" \/ PickConnect
  <2>1. CallbackReturns \/ FailNext \/ CheckEmpty \/ DestroyCallback
        \/ Resume \/ LoopDestroyed \/ LoopClosed \/ LoopContext \/ LoopBusy
        \/ LoopDrain \/ PickNothing \/ PickAborted => UNCHANGED connVars
    BY DEF CallbackReturns, FailNext, CheckEmpty, DestroyCallback,
       Resume, LoopDestroyed, LoopClosed, LoopContext, LoopBusy, LoopDrain,
       PickNothing, PickAborted
  <2>2. PickWrite \/ WriteHead \/ Advance \/ Splice \/ Exit \/ FailAltname
        \/ AbortSocket \/ EndBody \/ WriterFail \/ AfterHeaders \/ Complete
        \/ AfterEnd \/ UpgradeCall \/ Upgraded \/ CloseEnd => UNCHANGED connVars
    BY DEF PickWrite, WriteHead, Advance, Splice, Exit, FailAltname, AbortSocket,
       EndBody, WriterFail, AfterHeaders, Complete, AfterEnd, UpgradeCall, Upgraded,
       CloseEnd
  <2>3. DestroyEnd => /\ serverName' = serverName /\ ~ctx' /\ connecting' = connecting
    BY DEF DestroyEnd
  <2>4. PickRename \/ PickConnect => ctx' = ctx
    BY DEF PickRename, PickConnect
  <2>5. PickRename => connecting' = connecting
    BY DEF PickRename
  <2>6. QED
    BY <2>1, <2>2, <2>3, <2>4, <2>5 DEF FrameStep, connVars
<1>4. destroyed' = destroyed
  <2>1. CallbackReturns \/ FailNext \/ CheckEmpty \/ DestroyEnd \/ DestroyCallback
        \/ Resume \/ LoopDestroyed \/ LoopClosed \/ LoopContext \/ LoopBusy
        \/ LoopDrain \/ PickNothing \/ PickAborted \/ PickRename \/ PickConnect
        => destroyed' = destroyed
    BY DEF CallbackReturns, FailNext, CheckEmpty, DestroyEnd, DestroyCallback,
       Resume, LoopDestroyed, LoopClosed, LoopContext, LoopBusy, LoopDrain,
       PickNothing, PickAborted, PickRename, PickConnect, lifeVars
  <2>2. PickWrite \/ WriteHead \/ Advance \/ Splice \/ Exit \/ FailAltname
        \/ AbortSocket \/ EndBody \/ WriterFail \/ AfterHeaders \/ Complete
        \/ AfterEnd \/ UpgradeCall \/ Upgraded \/ CloseEnd => destroyed' = destroyed
    BY DEF PickWrite, WriteHead, Advance, Splice, Exit, FailAltname, AbortSocket,
       EndBody, WriterFail, AfterHeaders, Complete, AfterEnd, UpgradeCall, Upgraded,
       CloseEnd, lifeVars
  <2>3. QED
    BY <2>1, <2>2 DEF FrameStep
<1>5. /\ aborted' = aborted \/ FailNext \/ PickWrite \/ WriterFail
      /\ aborted \subseteq aborted'
  <2>1. CallbackReturns \/ CheckEmpty \/ DestroyEnd \/ DestroyCallback
        \/ Resume \/ LoopDestroyed \/ LoopClosed \/ LoopContext \/ LoopBusy
        \/ LoopDrain \/ PickNothing \/ PickAborted \/ PickRename \/ PickConnect
        => aborted' = aborted
    BY DEF CallbackReturns, CheckEmpty, DestroyEnd, DestroyCallback,
       Resume, LoopDestroyed, LoopClosed, LoopContext, LoopBusy, LoopDrain,
       PickNothing, PickAborted, PickRename, PickConnect, reqVars
  <2>2. WriteHead \/ Advance \/ Splice \/ Exit \/ FailAltname \/ AbortSocket
        \/ EndBody \/ AfterHeaders \/ Complete \/ AfterEnd \/ UpgradeCall
        \/ Upgraded \/ CloseEnd => aborted' = aborted
    BY DEF WriteHead, Advance, Splice, Exit, FailAltname, AbortSocket, EndBody,
       AfterHeaders, Complete, AfterEnd, UpgradeCall, Upgraded, CloseEnd, reqVars
  <2>3. FailNext \/ PickWrite \/ WriterFail => aborted \subseteq aborted'
    BY DEF FailNext, PickWrite, WriterFail, Aborts
  <2>4. QED
    BY <2>1, <2>2, <2>3 DEF FrameStep
<1>6. QED
  BY <1>1, <1>2, <1>3, <1>4, <1>5 DEF Effects

\* The steps that start on an empty stack.
Event == TaskStep \/ ImmediateResume \/ Connector \/ Answer \/ Disturbance
         \/ ResponseResumed \/ BodyEnd \/ IdleValidated \/ SocketError \/ SocketClose

LEMMA EventEffects == TypeOK /\ Event => Effects
<1> SUFFICES ASSUME TypeOK, Event PROVE Effects
  OBVIOUS
<1>1. ResponseUpgrade \/ SocketClose => Disconnects /\ ~ctx'
  BY DEF ResponseUpgrade, SocketClose, Disconnects, Live
<1>2. /\ wire' = wire \/ Disconnects
      /\ serverName' = serverName
      /\ ctx' => ctx \/ ConnectOK
      /\ connecting' = "dialing" => connecting = "dialing"
      /\ destroyed => destroyed'
      /\ aborted' = aborted
  <2>1. TaskStep \/ ImmediateResume
        => /\ wire' = wire /\ UNCHANGED connVars
           /\ destroyed => destroyed'
           /\ aborted' = aborted
    <3>1. TaskResume \/ TaskDrain \/ TaskDestroyCallback \/ TaskDestroyed \/ ImmediateResume
            => /\ wire' = wire /\ UNCHANGED connVars /\ destroyed' = destroyed
               /\ aborted' = aborted
      BY DEF TaskResume, TaskDrain, TaskDestroyCallback, TaskDestroyed, ImmediateResume,
         lifeVars, histVars, reqVars
    <3>2. TaskClosed => wire' = wire /\ UNCHANGED connVars /\ aborted' = aborted
      BY DEF TaskClosed, histVars, reqVars
    <3>3. TaskClosed => (destroyed' = destroyed \/ destroyed')
      BY DEF TaskClosed, BeginDestroy
    <3>4. QED
      BY <3>1, <3>2, <3>3 DEF TaskStep
  <2>2. Connector
        => /\ wire' = wire /\ serverName' = serverName
           /\ ctx' => ctx \/ ConnectOK
           /\ connecting' # "dialing" /\ destroyed' = destroyed /\ aborted' = aborted
    <3>1. ConnectTooLate \/ (\E e : ConnectFail(e))
            => /\ wire' = wire /\ serverName' = serverName /\ ctx' = ctx
               /\ connecting' # "dialing" /\ destroyed' = destroyed
               /\ aborted' = aborted
      BY DEF ConnectTooLate, ConnectFail, lifeVars, histVars, reqVars
    <3>2. ConnectOK
            => /\ wire' = wire /\ serverName' = serverName /\ connecting' # "dialing"
               /\ destroyed' = destroyed /\ aborted' = aborted
      BY DEF ConnectOK, lifeVars, histVars, reqVars
    <3>3. Connector => ConnectTooLate \/ (\E e : ConnectFail(e)) \/ ConnectOK
      BY DEF Connector
    <3>4. QED
      BY <3>1, <3>2, <3>3
  <2>3. ASSUME \/ \E keep, short \in BOOLEAN : ResponseHead(keep, short)
               \/ ResponseEnd \/ HeadersTimeout \/ BodyTimeout
               \/ ResponseResumed \/ BodyEnd \/ IdleValidated
        PROVE  /\ wire' = wire /\ UNCHANGED connVars
               /\ destroyed' = destroyed /\ aborted' = aborted
    BY <2>3 DEF ResponseHead, ResponseEnd, HeadersTimeout, BodyTimeout, ResponseResumed,
       BodyEnd, IdleValidated, Destroys, lifeVars, histVars, reqVars
  <2>4. Disturbance \/ SocketError
        => /\ wire' = wire /\ UNCHANGED connVars
           /\ destroyed' = destroyed /\ aborted' = aborted
    BY DEF Disturbance, ResponseData, KeepAliveTimeout, SocketEnd, SocketReset,
       BadBytes, BodyError, QueuedBodyError, SocketError, Destroys, lifeVars,
       histVars, reqVars
  <2>5. ResponseUpgrade \/ SocketClose
        => /\ Disconnects /\ ~ctx' /\ serverName' = serverName
           /\ connecting' = connecting /\ destroyed' = destroyed /\ aborted' = aborted
    BY <1>1 DEF ResponseUpgrade, SocketClose, lifeVars, reqVars
  <2>6. QED
    BY <2>1, <2>2, <2>3, <2>4, <2>5 DEF Event, Answer, connVars
<1>3. Remains(sock, sock') \/ ConnectOK \/ Disconnects
  <2>1. \/ ConnectOK \/ ResponseUpgrade \/ SocketClose
        \/ TaskStep \/ ImmediateResume \/ ConnectTooLate \/ (\E e : ConnectFail(e))
        \/ (\E keep, short \in BOOLEAN : ResponseHead(keep, short))
        \/ ResponseEnd \/ HeadersTimeout \/ BodyTimeout \/ ResponseResumed
        \/ Disturbance \/ BodyEnd \/ IdleValidated \/ SocketError
    BY DEF Event, Connector, Answer
  <2>2. QED
    BY <1>1, <2>1, EventRemains
<1>4. QED
  BY <1>2, <1>3 DEF Effects

LEMMA NextEffects == TypeOK /\ Next => Effects
BY UserEffects, FrameEffects, EventEffects DEF Next, Event

----------------------------------------------------------------------------
(* What each step puts on the stack.                                        *)

\* Where the frames come from that matter for what shares a connection.
Listed(S) ==
  /\ "write" \in S => PickWrite
  /\ "splice" \in S => PickWrite \/ WriteHead
  /\ "failAltname" \in S => \E e : ConnectFail(e)
  /\ "closeEnd" \in S => SocketClose
  /\ "afterEnd" \in S => Complete
  /\ "upgradeCall" \in S => ResponseUpgrade
  /\ "upgraded" \in S => UpgradeCall
  /\ "destroyEnd" \in S => Destroy \/ TaskClosed
  /\ "destroyCallback" \in S => SocketClose
  /\ "fail" \in S =>
       \/ "destroyEnd" \in S \/ FailNext \/ PickWrite \/ FailAltname
       \/ (\E e : ConnectFail(e)) \/ SocketError \/ SocketReset \/ SocketClose

\* A step puts such frames on the stack, or in the place of its innermost frame.
Pushes(S, t) ==
  /\ Moves(S, t) /\ Listed(S)
  /\ \/ t = stack
     \/ /\ stack # <<>> /\ t = Caller
        /\ Top.at = "abortSocket" => AbortSocket
        /\ Top.at = "destroyEnd" => DestroyEnd

LEMMA UserPushes ==
  ASSUME TypeOK, UserStep
  PROVE  \E S : Pushes(S, stack)
<1>1. CASE Destroy
  <2>1. Moves({"fail", "destroyEnd"}, stack) /\ Listed({"fail", "destroyEnd"})
    BY <1>1, UserMoves DEF Listed
  <2>2. QED
    BY <2>1 DEF Pushes
<1>2. CASE ~Destroy
  <2>1. \E S \in {{}, {"loop"}, {"error"}, {"error", "abortSocket"}} : Moves(S, stack)
    BY <1>2, UserMoves DEF UserStep
  <2>2. QED
    BY <2>1 DEF Pushes, Listed
<1>3. QED
  BY <1>1, <1>2

LEMMA FramePushes ==
  ASSUME TypeOK, FrameStep
  PROVE  stack # <<>> /\ \E S, t : Pushes(S, t)
<1>1. stack # <<>>
  BY DEF FrameStep, CallbackReturns, FailNext, CheckEmpty, DestroyEnd,
     DestroyCallback, Resume, LoopDestroyed, LoopClosed, LoopContext, LoopBusy,
     LoopDrain, PickNothing, PickAborted, PickRename, PickConnect, PickWrite,
     WriteHead, Advance, Splice, Exit, FailAltname, AbortSocket, EndBody,
     WriterFail, AfterHeaders, Complete, AfterEnd, UpgradeCall, Upgraded,
     CloseEnd, At
<1>2. Top.at = "abortSocket" => AbortSocket
  BY <1>1 DEF FrameStep, CallbackReturns, FailNext, CheckEmpty, DestroyEnd,
     DestroyCallback, Resume, LoopDestroyed, LoopClosed, LoopContext, LoopBusy,
     LoopDrain, PickNothing, PickAborted, PickRename, PickConnect, PickWrite,
     WriteHead, Advance, Splice, Exit, FailAltname, EndBody,
     WriterFail, AfterHeaders, Complete, AfterEnd, UpgradeCall, Upgraded,
     CloseEnd, At, Callbacks
<1>3. Top.at = "destroyEnd" => DestroyEnd
  BY <1>1 DEF FrameStep, CallbackReturns, FailNext, CheckEmpty,
     DestroyCallback, Resume, LoopDestroyed, LoopClosed, LoopContext, LoopBusy,
     LoopDrain, PickNothing, PickAborted, PickRename, PickConnect, PickWrite,
     WriteHead, Advance, Splice, Exit, FailAltname, AbortSocket, EndBody,
     WriterFail, AfterHeaders, Complete, AfterEnd, UpgradeCall, Upgraded,
     CloseEnd, At, Callbacks
<1>4. ASSUME NEW S, Moves(S, Caller), Listed(S) PROVE \E S1, t : Pushes(S1, t)
  BY <1>1, <1>2, <1>3, <1>4 DEF Pushes
<1>5. ASSUME NEW S, Moves(S, stack), Listed(S) PROVE \E S1, t : Pushes(S1, t)
  BY <1>5 DEF Pushes
<1>6. CASE CallbackReturns \/ CheckEmpty \/ DestroyEnd \/ DestroyCallback \/ CloseEnd
  <2>1. PICK S \in {{}, {"resume"}, {"disconnect", "resume"}} : Moves(S, Caller)
    BY <1>6, QueueFrameMoves
  <2>2. Listed(S)
    BY <2>1 DEF Listed
  <2>3. QED
    BY <1>1, <1>4, <2>1, <2>2
<1>7. CASE FailNext \/ FailAltname
  <2>1. \/ \E S \in {{}, {"fail"}, {"error", "fail"}} : Moves(S, Caller)
        \/ Moves({"fail"}, stack)
    BY <1>7, FailNextMoves, QueueFrameMoves
  <2>2. \A S \in {{}, {"fail"}, {"error", "fail"}} : Listed(S)
    BY <1>7 DEF Listed
  <2>3. QED
    BY <1>1, <1>4, <1>5, <2>1, <2>2
<1>8. CASE \/ Resume \/ LoopDestroyed \/ LoopClosed \/ LoopContext \/ LoopBusy
           \/ LoopDrain \/ PickNothing \/ PickAborted \/ PickConnect \/ Advance
           \/ Splice \/ Exit
  <2>1. PICK S \in {{}, {"loop"}, {"exit"}, {"busy"}, {"pick"}, {"drain", "loop"}} :
          Moves(S, Caller)
    BY <1>8, ResumeMoves, LoopStepMoves, DrainMoves
  <2>2. Listed(S)
    BY <2>1 DEF Listed
  <2>3. QED
    BY <1>1, <1>4, <2>1, <2>2
<1>9. CASE PickRename
  <2>1. Moves({}, stack)
    BY <1>9, LoopStepMoves
  <2>2. Listed({})
    BY DEF Listed
  <2>3. QED
    BY <1>1, <1>5, <2>1, <2>2
<1>10. CASE PickWrite \/ WriteHead
  <2>1. CASE PickWrite
    <3>1. \A S \in {{"fail", "splice"}, {"error", "abortSocket", "splice"},
                   {"start", "write"}} : Listed(S)
      BY <2>1 DEF Listed
    <3>2. PICK S \in {{"fail", "splice"}, {"error", "abortSocket", "splice"},
                     {"start", "write"}} : Moves(S, Caller)
      BY <2>1, PickWriteMoves
    <3>3. QED
      BY <1>1, <1>4, <3>1, <3>2
  <2>2. CASE WriteHead
    <3>1. \A S \in {{"splice"}, {"advance"}, {"sent", "advance"}} : Listed(S)
      BY <2>2 DEF Listed
    <3>2. PICK S \in {{"splice"}, {"advance"}, {"sent", "advance"}} : Moves(S, Caller)
      BY <2>2, WriteHeadMoves
    <3>3. QED
      BY <1>1, <1>4, <3>1, <3>2
  <2>3. QED
    BY <1>10, <2>1, <2>2
<1>11. CASE AbortSocket \/ EndBody \/ AfterHeaders \/ AfterEnd \/ Upgraded
  <2>1. PICK S \in {{}, {"resume"}, {"complete"}} : Moves(S, Caller)
    BY <1>11, SocketFrameMoves
  <2>2. Listed(S)
    BY <2>1 DEF Listed
  <2>3. QED
    BY <1>1, <1>4, <2>1, <2>2
<1>12. CASE WriterFail \/ UpgradeCall
  <2>1. CASE WriterFail
    <3>1. PICK S \in {{}, {"error"}, {"error", "abortSocket"}} : Moves(S, Caller)
      BY <2>1, WriterFailMoves
    <3>2. Listed(S)
      BY <3>1 DEF Listed
    <3>3. QED
      BY <1>1, <1>4, <3>1, <3>2
  <2>2. CASE UpgradeCall
    <3>1. PICK S \in {{}, {"upgrade", "upgraded"}} : Moves(S, Caller)
      BY <2>2, UpgradeMoves
    <3>2. Listed(S)
      BY <2>2, <3>1 DEF Listed
    <3>3. QED
      BY <1>1, <1>4, <3>1, <3>2
  <2>3. QED
    BY <1>12, <2>1, <2>2
<1>13. CASE Complete
  <2>1. (\E S \in {{}, {"end", "afterEnd"}} : Moves(S, Caller)) \/ Moves({}, stack)
    BY <1>13, CompleteMoves
  <2>2. Listed({}) /\ Listed({"end", "afterEnd"})
    BY <1>13 DEF Listed
  <2>3. QED
    BY <1>1, <1>4, <1>5, <2>1, <2>2
<1>14. QED
  BY <1>1, <1>6, <1>7, <1>8, <1>9, <1>10, <1>11, <1>12, <1>13 DEF FrameStep

LEMMA EventPushes ==
  ASSUME TypeOK, Event
  PROVE  stack = <<>> /\ \E S : Pushes(S, stack)
<1>1. stack = <<>>
  BY EventShape DEF Event
<1>2. CASE TaskStep \/ ImmediateResume \/ ConnectTooLate \/ ConnectOK \/ IdleValidated
           \/ ResponseResumed \/ BodyEnd \/ Answer
  <2>1. CASE TaskClosed
    <3>1. PICK S \in {{}, {"fail", "destroyEnd"}} : Moves(S, stack)
      BY <2>1, TaskMoves
    <3>2. Listed(S)
      BY <2>1, <3>1 DEF Listed
    <3>3. QED
      BY <1>1, <3>1, <3>2 DEF Pushes
  <2>2. CASE ResponseUpgrade
    <3>1. /\ Moves({"disconnect", "upgradeCall", "resume"}, stack)
          /\ Listed({"disconnect", "upgradeCall", "resume"})
      BY <2>2, AnswerMoves DEF Listed
    <3>2. QED
      BY <1>1, <3>1 DEF Pushes
  <2>3. CASE ~TaskClosed /\ ~ResponseUpgrade
    <3>1. PICK S \in {{"loop"}, {"drain"}, {}, {"resume"}, {"connect", "resume"},
                    {"sent", "endBody"}, {"complete"}, {"headers", "afterHeaders"}} :
            Moves(S, stack)
      BY <1>2, <2>3, TaskMoves, ConnectMoves, AnswerMoves, DisturbanceMoves
         DEF TaskStep, Answer
    <3>2. Listed(S)
      BY <3>1 DEF Listed
    <3>3. QED
      BY <1>1, <3>1, <3>2 DEF Pushes
  <2>4. QED
    BY <2>1, <2>2, <2>3
<1>3. CASE \E e : ConnectFail(e)
  <2>1. PICK S \in SUBSET ConnectorLabels : Moves(S, stack)
    BY <1>3, ConnectMoves
  <2>2. Listed(S)
    BY <1>3, <2>1 DEF Listed, ConnectorLabels
  <2>3. QED
    BY <1>1, <2>1, <2>2 DEF Pushes
<1>4. CASE SocketError \/ SocketReset
  <2>1. PICK S \in SUBSET SocketLabels : Moves(S, stack)
    BY <1>4, SocketMoves
  <2>2. Listed(S)
    BY <1>4, <2>1 DEF Listed, SocketLabels
  <2>3. QED
    BY <1>1, <2>1, <2>2 DEF Pushes
<1>5. CASE SocketClose
  <2>1. PICK S \in SUBSET CloseLabels : Moves(S, stack)
    BY <1>5, SocketMoves
  <2>2. Listed(S)
    BY <1>5, <2>1 DEF Listed, CloseLabels
  <2>3. QED
    BY <1>1, <2>1, <2>2 DEF Pushes
<1>6. CASE Disturbance /\ ~SocketReset
  <2>1. PICK S \in {{}, {"complete"}, {"writerFail"}} : Moves(S, stack)
    BY <1>6, DisturbanceMoves DEF Disturbance
  <2>2. Listed(S)
    BY <2>1 DEF Listed
  <2>3. QED
    BY <1>1, <2>1, <2>2 DEF Pushes
<1>7. QED
  BY <1>1, <1>2, <1>3, <1>4, <1>5, <1>6 DEF Event, Connector

LEMMA NextPushes ==
  ASSUME TypeOK, Next
  PROVE  \E S, t : Pushes(S, t)
BY UserPushes, FramePushes, EventPushes DEF Next, Event

\* What that leaves on the stack.
LEMMA PushesOn ==
  ASSUME TypeOK, NEW S, NEW t, Pushes(S, t)
  PROVE  /\ t \in Seq(Frames) /\ On(t) \subseteq On(stack)
         /\ On(stack') \subseteq S \cup On(t)
         /\ S \cup On(t) \subseteq On(stack') \cup {"fail"}
         /\ stack # <<>> => On(stack) = {Top.at} \cup On(Caller)
         /\ t # stack => stack # <<>> /\ t = Caller
<1>1. stack \in Seq(Frames) /\ (stack # <<>> => Caller \in Seq(Frames))
  BY TypeParts, TopType
<1>2. t \in Seq(Frames) /\ (t # stack => stack # <<>> /\ t = Caller)
  BY <1>1 DEF Pushes
<1>3. stack # <<>> => On(stack) = {Top.at} \cup On(Caller)
  BY <1>1, OnTop
<1>4. QED
  BY <1>2, <1>3, MovesOn DEF Pushes

----------------------------------------------------------------------------
(* Requests that are about to be failed are not on the wire.                *)

\* The loop fails a request it did not write; w is what is on the wire.
Unwired(s, w) ==
  \A i \in DOMAIN s : s[i].at = "fail" =>
    /\ \E j \in DOMAIN s : j > i /\ s[j].at = "splice"
    /\ Range(s[i].reqs) \cap Range(w) = {}

LEMMA UnwiredCat ==
  ASSUME NEW fs \in Seq(Frames), NEW t \in Seq(Frames), "fail" \notin On(fs),
         NEW w, NEW v, Unwired(t, w), Range(v) \subseteq Range(w)
  PROVE  Unwired(fs \o t, v)
<1> SUFFICES ASSUME NEW i \in DOMAIN (fs \o t), (fs \o t)[i].at = "fail"
             PROVE  /\ \E j \in DOMAIN (fs \o t) : j > i /\ (fs \o t)[j].at = "splice"
                    /\ Range((fs \o t)[i].reqs) \cap Range(v) = {}
  BY DEF Unwired
<1>1. /\ Len(fs) \in Nat /\ Len(t) \in Nat /\ i \in 1..(Len(fs) + Len(t))
  BY CatElements
<1>2. i > Len(fs)
  <2>1. \A k \in 1..Len(fs) : (fs \o t)[k] = fs[k] /\ k \in DOMAIN fs
    BY CatElements
  <2>2. QED
    BY <1>1, <2>1 DEF On
<1>3. i - Len(fs) \in DOMAIN t /\ (fs \o t)[i] = t[i - Len(fs)]
  BY <1>1, <1>2, CatElements
<1>4. PICK j \in DOMAIN t : j > i - Len(fs) /\ t[j].at = "splice"
  BY <1>3 DEF Unwired
<1>5. j \in 1..Len(t)
  BY CatElements
<1>6. Len(fs) + j \in DOMAIN (fs \o t) /\ (fs \o t)[Len(fs) + j] = t[j]
  BY <1>1, <1>5, CatElements
<1>7. Len(fs) + j > i
  BY <1>1, <1>4, <1>5
<1>8. Range((fs \o t)[i].reqs) \cap Range(v) = {}
  BY <1>3 DEF Unwired
<1>9. QED
  BY <1>4, <1>6, <1>7, <1>8

LEMMA UnwiredCaller ==
  ASSUME stack \in Seq(Frames), stack # <<>>, NEW w, Unwired(stack, w)
  PROVE  /\ Unwired(Caller, w)
         /\ Top.at = "fail" => "splice" \in On(Caller)
                               /\ Range(Top.reqs) \cap Range(w) = {}
<1>1. /\ DOMAIN stack = 1..Len(stack) /\ Len(stack) \in Nat \ {0}
      /\ Top = stack[1] /\ DOMAIN Caller = 1..(Len(stack) - 1)
      /\ \A i \in 1..(Len(stack) - 1) : Caller[i] = stack[i + 1]
  BY EmptySeq, LenProperties, HeadTailProperties DEF Top, Caller
<1>2. ASSUME NEW i \in 1..Len(stack), stack[i].at = "fail"
      PROVE  /\ \E j \in 1..(Len(stack) - 1) : j + 1 > i /\ Caller[j].at = "splice"
             /\ Range(stack[i].reqs) \cap Range(w) = {}
  <2>1. PICK j \in 1..Len(stack) : j > i /\ stack[j].at = "splice"
    BY <1>1, <1>2 DEF Unwired
  <2>2. j - 1 \in 1..(Len(stack) - 1) /\ (j - 1) + 1 = j
    BY <1>1, <2>1
  <2>3. Caller[j - 1].at = "splice" /\ (j - 1) + 1 > i
    BY <1>1, <2>1, <2>2
  <2>4. Range(stack[i].reqs) \cap Range(w) = {}
    BY <1>1, <1>2 DEF Unwired
  <2>5. QED
    BY <2>2, <2>3, <2>4
<1>3. ASSUME NEW i \in 1..(Len(stack) - 1), Caller[i].at = "fail"
      PROVE  /\ \E j \in 1..(Len(stack) - 1) : j > i /\ Caller[j].at = "splice"
             /\ Range(Caller[i].reqs) \cap Range(w) = {}
  <2>1. i + 1 \in 1..Len(stack) /\ Caller[i] = stack[i + 1]
    BY <1>1
  <2>2. stack[i + 1].at = "fail"
    BY <1>3, <2>1
  <2>3. PICK j \in 1..(Len(stack) - 1) : j + 1 > i + 1 /\ Caller[j].at = "splice"
    BY <1>2, <2>1, <2>2
  <2>4. j > i
    BY <1>1, <2>3
  <2>5. QED
    BY <1>2, <2>1, <2>2, <2>3, <2>4
<1>4. Unwired(Caller, w)
  BY <1>1, <1>3 DEF Unwired
<1>5. Top.at = "fail" => "splice" \in On(Caller) /\ Range(Top.reqs) \cap Range(w) = {}
  <2>1. 1 \in 1..Len(stack)
    BY <1>1
  <2>2. QED
    BY <1>1, <1>2, <2>1 DEF On
<1>6. QED
  BY <1>4, <1>5

\* Requests that are not on the wire are failed before the loop splices.
LEMMA UnwiredFail ==
  ASSUME NEW rs \in Seq(Slots), NEW t \in Seq(Frames), NEW w, Unwired(t, w),
         "splice" \in On(t), Range(rs) \cap Range(w) = {}
  PROVE  Unwired(Fail(rs) \o t, w)
<1>1. CASE rs = <<>>
  <2>1. Fail(rs) \o t = t
    BY <1>1, ConcatEmptySeq DEF Fail
  <2>2. QED
    BY <2>1
<1>2. CASE rs # <<>>
  <2> DEFINE fs == Fail(rs)
  <2>1. fs \in Seq(Frames) /\ Len(fs) = 1 /\ fs[1].reqs = rs
    BY <1>2, OnFail DEF Fail, Frame
  <2>2. /\ Len(t) \in Nat /\ DOMAIN t = 1..Len(t) /\ DOMAIN (fs \o t) = 1..(1 + Len(t))
        /\ (fs \o t)[1] = fs[1]
        /\ \A i \in 1..Len(t) : (fs \o t)[1 + i] = t[i]
    <3>1. 1 \in 1..Len(fs)
      BY <2>1
    <3>2. QED
      BY <2>1, <3>1, CatElements
  <2> HIDE DEF fs
  <2>3. ASSUME NEW i \in 1..(1 + Len(t)), (fs \o t)[i].at = "fail"
        PROVE  /\ \E j \in 1..(1 + Len(t)) : j > i /\ (fs \o t)[j].at = "splice"
               /\ Range((fs \o t)[i].reqs) \cap Range(w) = {}
    <3>1. CASE i = 1
      <4>1. PICK j \in 1..Len(t) : t[j].at = "splice"
        BY <2>2 DEF On
      <4>2. 1 + j \in 1..(1 + Len(t)) /\ 1 + j > i
        BY <2>2, <3>1, <4>1
      <4>3. (fs \o t)[1 + j].at = "splice"
        BY <2>2, <4>1
      <4>4. QED
        BY <2>1, <2>2, <3>1, <4>2, <4>3
    <3>2. CASE i # 1
      <4>1. i - 1 \in 1..Len(t) /\ 1 + (i - 1) = i
        BY <2>2, <3>2
      <4>2. (fs \o t)[i] = t[i - 1]
        BY <2>2, <4>1
      <4>3. PICK j \in 1..Len(t) : j > i - 1 /\ t[j].at = "splice"
        BY <2>2, <2>3, <4>1, <4>2 DEF Unwired
      <4>4. 1 + j \in 1..(1 + Len(t)) /\ 1 + j > i
        BY <2>2, <4>1, <4>3
      <4>5. (fs \o t)[1 + j].at = "splice"
        BY <2>2, <4>3
      <4>6. Range(t[i - 1].reqs) \cap Range(w) = {}
        BY <2>2, <2>3, <4>1, <4>2 DEF Unwired
      <4>7. QED
        BY <4>2, <4>4, <4>5, <4>6
    <3>3. QED
      BY <3>1, <3>2
  <2>4. Unwired(fs \o t, w)
    BY <2>2, <2>3 DEF Unwired
  <2>5. QED
    BY <2>4 DEF fs
<1>3. QED
  BY <1>1, <1>2

LEMMA UnwiredNone ==
  ASSUME NEW s \in Seq(Frames), "fail" \notin On(s), NEW w
  PROVE  Unwired(s, w)
BY DEF Unwired, On

----------------------------------------------------------------------------
(* The invariant: nobody who waits on the connection is given up silently.  *)

\* A rejected certificate leaves no connection.
NoAltname == "failAltname" \in On(stack) => ~ctx

\* What waits to be failed is not on the wire, unless destroy() gives up all.
FailsApart == Live => "destroyEnd" \in On(stack) \/ Unwired(stack, wire)

\* When a request on the wire is aborted, the connection is about to go.
Wanted ==
  Live => \/ On(stack) \cap {"abortSocket", "destroyEnd"} # {}
          \/ Range(wire) \cap aborted = {}

\* What may follow a request that is running.
Joins(r) == Opt[r].idempotent /\ ~IsUpgrade(r) /\ ~HasStream(r)

\* The connection is the one r asks for, or was opened for one given up.
Named(r) ==
  Secure => Opt[r].name = serverName /\ (Opt[r].name = sock.name \/ AbortedFor(sock.name))

WireFits ==
  \A i \in 1..Len(wire) :
    /\ Opt[wire[i]].body # "mismatch" /\ Named(wire[i])
    /\ i > 1 => Joins(wire[i])

\* What is written to a socket, and what becomes of it.
LEMMA FlaggedFields ==
  ASSUME NEW s \in Socks, NEW r \in Requests
  PROVE  /\ Flagged(s, r).st = s.st /\ Flagged(s, r).name = s.name
         /\ Flagged(s, r).counter = IF MaxRequests = 0 THEN s.counter ELSE s.counter + 1
         /\ LastUse(Flagged(s, r).counter) => Flagged(s, r).reset
<1> DEFINE count == IF MaxRequests = 0 THEN s.counter ELSE s.counter + 1
           unexpected == /\ Opt[r].body \in {"buffer", "stream"} /\ ~ExpectsPayload(r)
                         /\ Opt[r].reset # "off"
           resets == Opt[r].method = "HEAD" \/ IsUpgrade(r)
           asked == IF Opt[r].reset = "unset" THEN s.reset \/ resets
                    ELSE Opt[r].reset = "on"
<1>1. PICK a, b, c, d :
        /\ Flagged(s, r) = [s EXCEPT !.counter = a, !.reset = b, !.blocking = c,
                                     !.writing = d]
        /\ a = count /\ b = (asked \/ LastUse(count) \/ unexpected)
  BY DEF Flagged
<1>2. PICK t : t = [s EXCEPT !.counter = a, !.reset = b, !.blocking = c, !.writing = d]
  OBVIOUS
<1>3. /\ t.st = s.st /\ t.name = s.name /\ t.counter = a /\ t.reset = b
  BY <1>2 DEF Socks
<1>4. LastUse(count) => b
  BY <1>1
<1> HIDE DEF count
<1>5. Flagged(s, r) = t
  BY <1>1, <1>2
<1>6. /\ Flagged(s, r).st = s.st /\ Flagged(s, r).name = s.name
      /\ Flagged(s, r).counter = count
      /\ LastUse(Flagged(s, r).counter) => Flagged(s, r).reset
  BY <1>1, <1>3, <1>4, <1>5
<1>7. QED
  BY <1>6 DEF count

LEMMA RangeFrom ==
  ASSUME wire \in Seq(Requests)
  PROVE  /\ Range(From(wire, 1)) \subseteq Range(wire)
         /\ Len(From(wire, 1)) \in Nat /\ Len(wire) \in Nat
         /\ \A k \in 1..Len(From(wire, 1)) :
              k + 1 \in 1..Len(wire) /\ From(wire, 1)[k] = wire[k + 1]
<1>1. Len(wire) \in Nat /\ DOMAIN wire = 1..Len(wire) /\ 1 \in Nat /\ 1 \in Int
  BY LenProperties
<1>2. From(wire, 1) \in Seq(Requests)
  BY <1>1, SpliceTypes
<1>3. /\ Len(From(wire, 1)) \in Nat /\ DOMAIN From(wire, 1) = 1..Len(From(wire, 1))
  BY <1>2, LenProperties
<1>4. \A k \in 1..Len(From(wire, 1)) :
        k + 1 \in 1..Len(wire) /\ From(wire, 1)[k] = wire[k + 1]
  <2>1. CASE 1 <= Len(wire)
    <3>1. /\ Len(From(wire, 1)) = Len(wire) - 1
          /\ \A k \in 1..(Len(wire) - 1) : From(wire, 1)[k] = wire[1 + k]
      BY <1>1, <2>1, SpliceElements
    <3>2. ASSUME NEW k \in 1..(Len(wire) - 1)
          PROVE  k + 1 \in 1..Len(wire) /\ From(wire, 1)[k] = wire[k + 1]
      <4>1. k + 1 \in 1..Len(wire) /\ 1 + k = k + 1
        BY <1>1
      <4>2. From(wire, 1)[k] = wire[1 + k]
        BY <3>1
      <4>3. QED
        BY <4>1, <4>2
    <3>3. QED
      BY <3>1, <3>2
  <2>2. CASE ~(1 <= Len(wire))
    <3>1. From(wire, 1) = <<>>
      BY <1>1, <2>2, SpliceElements
    <3>2. Len(From(wire, 1)) = 0
      BY <3>1
    <3>3. QED
      BY <3>2
  <2>3. QED
    BY <2>1, <2>2
<1>5. Range(From(wire, 1)) \subseteq Range(wire)
  BY <1>1, <1>3, <1>4 DEF Range
<1>6. QED
  BY <1>1, <1>3, <1>4, <1>5

\* What a step leaves of the connection, unless it connects or writes.
LEMMA ConnectionLeft ==
  ASSUME TypeOK, Core, Next
  PROVE  /\ ~ConnectOK /\ ~WriteHead =>
              /\ Live' => Live
              /\ Range(wire') \subseteq Range(wire)
         /\ ConnectOK => stack = <<>> /\ wire = <<>> /\ wire' = wire /\ aborted' = aborted
<1>1. Effects /\ broken = "none" /\ wire \in Seq(Requests)
  BY NextEffects DEF Next, TypeOK
<1>2. Range(<<>>) = {} /\ NoSock.st = "none"
  BY DEF Range, NoSock
<1>3. PickConnect => sock'.st = "none"
  BY <1>1, PickConnectCore
<1>4. ConnectOK => stack = <<>> /\ wire = <<>> /\ wire' = wire /\ aborted' = aborted
  <2>1. ConnectOK => /\ stack = <<>> /\ connecting = "dialing" /\ ~destroyed
                     /\ wire' = wire /\ aborted' = aborted
    BY DEF ConnectOK, Quiet, histVars, reqVars
  <2>2. QED
    BY <1>1, <2>1, DialingIsIdle
<1>5. ~ConnectOK /\ ~WriteHead => (Live' => Live)
  BY <1>1, <1>2, <1>3 DEF Effects, Remains, Disconnects, Live
<1>6. ~WriteHead => Range(wire') \subseteq Range(wire)
  <2>1. wire' = wire \/ wire' = <<>> \/ wire' = From(wire, 1) \/ WriteHead
    BY <1>1 DEF Effects, Disconnects
  <2>2. QED
    BY <1>1, <1>2, <2>1, RangeFrom
<1>7. QED
  BY <1>4, <1>5, <1>6

LEMMA NoAltnameStep ==
  ASSUME TypeOK, Core, NoAltname, Next
  PROVE  NoAltname'
<1> SUFFICES ASSUME "failAltname" \in On(stack') PROVE ~ctx'
  BY DEF NoAltname
<1>1. Effects /\ broken = "none"
  BY NextEffects DEF Next
<1>2. PICK S, t : Pushes(S, t)
  BY NextPushes
<1>3. On(t) \subseteq On(stack) /\ On(stack') \subseteq S \cup On(t)
  BY <1>2, PushesOn
<1>4. ~ConnectOK
  <2>1. SUFFICES ASSUME ConnectOK PROVE FALSE
    OBVIOUS
  <2>2. stack \in Seq(Frames) /\ Moves({"connect", "resume"}, stack) /\ stack = <<>>
    BY <2>1, TypeParts, ConnectMoves DEF ConnectOK, Quiet
  <2>3. On(stack') \subseteq {"connect", "resume"} \cup On(stack)
    BY <2>2, MovesOn
  <2>4. QED
    BY <2>2, <2>3, NothingOn
<1>5. CASE "failAltname" \in On(t)
  BY <1>1, <1>3, <1>4, <1>5 DEF NoAltname, Effects
<1>6. CASE "failAltname" \in S
  <2>1. PICK e : ConnectFail(e)
    BY <1>2, <1>6 DEF Pushes, Listed
  <2>2. /\ stack = <<>> /\ connecting = "dialing" /\ ~destroyed
    BY <2>1 DEF ConnectFail, Quiet
  <2>3. sock.st = "none"
    BY <1>1, <2>2, DialingIsIdle
  <2>4. ~ctx
    BY <2>3 DEF Core, Life
  <2>5. QED
    BY <1>1, <1>4, <2>4 DEF Effects
<1>7. QED
  BY <1>3, <1>5, <1>6

\* destroyEnd and abortSocket stay on the stack until they end the connection.
LEMMA EndsStay ==
  ASSUME TypeOK, Nesting, Shape(stack), Core, Next, NEW S, NEW t, Pushes(S, t),
         Live', NEW label \in {"abortSocket", "destroyEnd"}, label \in On(stack)
  PROVE  label \in On(stack')
<1>1. /\ t \in Seq(Frames) /\ S \cup On(t) \subseteq On(stack') \cup {"fail"}
      /\ stack # <<>> => On(stack) = {Top.at} \cup On(Caller)
      /\ t # stack => stack # <<>> /\ t = Caller
  BY PushesOn
<1>2. CASE label \in On(t)
  BY <1>1, <1>2
<1>3. CASE label \notin On(t)
  <2>1. stack # <<>> /\ t = Caller /\ Top.at = label
    BY <1>1, <1>3
  <2>2. AbortSocket \/ DestroyEnd
    BY <1>3, <2>1 DEF Pushes
  <2>3. broken = "none"
    BY DEF Next
  <2>4. DestroyEnd => ~Live'
    BY <2>3, DestroyEndCore
  <2>5. AbortSocket => ~Live'
    <3>1. AbortSocket => sock' = Kill(sock, "info")
      BY DEF AbortSocket
    <3>2. Kill(sock, "info").st # "live"
      BY TypeParts, KillRemains
    <3>3. QED
      BY <3>1, <3>2 DEF Live
  <2>6. QED
    BY <2>2, <2>4, <2>5
<1>4. QED
  BY <1>2, <1>3

\* Where the loop writes, nothing is about to be failed.
LEMMA NoFailAtWrite ==
  ASSUME TypeOK, Nesting, Shape(stack), WriteHead, NEW w, Unwired(stack, w)
  PROVE  "fail" \notin On(stack')
<1>1. stack # <<>> /\ Top.at = "write"
  BY DEF WriteHead, At
<1>2. Caller \in Seq(Frames) /\ "splice" \notin On(Caller)
  BY <1>1, ShapeTop
<1>3. Unwired(Caller, w)
  BY <1>1, TypeParts, UnwiredCaller
<1>4. "fail" \notin On(Caller)
  BY <1>2, <1>3 DEF Unwired, On
<1>5. PICK S \in {{"splice"}, {"advance"}, {"sent", "advance"}} : Moves(S, Caller)
  BY WriteHeadMoves
<1>6. On(stack') \subseteq S \cup On(Caller)
  BY <1>2, <1>5, MovesOn
<1>7. QED
  BY <1>4, <1>5, <1>6

LEMMA FailNextApart ==
  ASSUME TypeOK, FailNext, NEW w, Unwired(stack, w)
  PROVE  Unwired(stack', w) /\ Range(Top.reqs) \cap Range(w) = {}
<1> DEFINE rest == Fail(Tail(Top.reqs))
           err == <<Frame("error", <<Head(Top.reqs)>>)>>
<1>1. /\ stack \in Seq(Frames) /\ stack # <<>> /\ Top.at = "fail" /\ Caller \in Seq(Frames)
      /\ Top.reqs \in Seq(Slots) /\ Top.reqs # <<>>
  <2>1. stack # <<>> /\ Top.at = "fail" /\ Top.reqs # <<>>
    BY DEF FailNext, At
  <2>2. QED
    BY <2>1, TypeParts, TopType
<1>2. /\ Head(Top.reqs) = Top.reqs[1] /\ Tail(Top.reqs) \in Seq(Slots)
      /\ DOMAIN Top.reqs = 1..Len(Top.reqs) /\ Len(Top.reqs) \in Nat \ {0}
      /\ DOMAIN Tail(Top.reqs) = 1..(Len(Top.reqs) - 1)
      /\ \A k \in 1..(Len(Top.reqs) - 1) : Tail(Top.reqs)[k] = Top.reqs[k + 1]
      /\ Head(Top.reqs) \in Slots
  BY <1>1, EmptySeq, LenProperties, HeadTailProperties, ElementOfSeq
<1>3. /\ Unwired(Caller, w) /\ "splice" \in On(Caller)
      /\ Range(Top.reqs) \cap Range(w) = {}
  BY <1>1, UnwiredCaller
<1>4. Range(Tail(Top.reqs)) \subseteq Range(Top.reqs)
  <2>1. \A k \in 1..(Len(Top.reqs) - 1) : k + 1 \in 1..Len(Top.reqs)
    BY <1>2
  <2>2. QED
    BY <1>2, <2>1 DEF Range
<1>5. Unwired(rest \o Caller, w)
  BY <1>1, <1>2, <1>3, <1>4, UnwiredFail
<1>6. rest \in Seq(Frames)
  BY <1>2, OnFail
<1>7. CASE ErrorSkips(Head(Top.reqs))
  <2>1. stack' = rest \o Caller
    BY <1>7 DEF FailNext, Become
  <2>2. QED
    BY <1>3, <1>5, <2>1
<1>8. CASE ~ErrorSkips(Head(Top.reqs))
  <2>1. stack' = (err \o rest) \o Caller
    BY <1>8 DEF FailNext, Become
  <2>2. Head(Top.reqs) \in Requests
    BY <1>2, <1>8 DEF ErrorSkips, Slots
  <2>3. Frame("error", <<Head(Top.reqs)>>) \in Frames
        /\ Frame("error", <<Head(Top.reqs)>>).at = "error"
    BY <2>2, Labelled, RequestLabelsAre
  <2>4. err \in Seq(Frames) /\ "fail" \notin On(err)
    BY <2>3, FewFrames, OnFew
  <2>5. rest \o Caller \in Seq(Frames)
    BY <1>1, <1>6, ConcatProperties
  <2> HIDE DEF rest, err
  <2>6. Unwired(err \o (rest \o Caller), w)
    BY <1>5, <2>4, <2>5, UnwiredCat
  <2>7. (err \o rest) \o Caller = err \o (rest \o Caller)
    BY <1>1, <1>6, <2>4, ConcatAssociative, SMTT(30)
  <2>8. QED
    BY <1>3, <2>1, <2>6, <2>7
<1>9. QED
  BY <1>7, <1>8

\* A request with a body of the wrong length is refused before it is written.
LEMMA PickWriteApart ==
  ASSUME TypeOK, Nesting, Shape(stack), WireFits, PickWrite, Unwired(stack, wire)
  PROVE  Unwired(stack', wire')
<1> DEFINE r == PendingHead
           splice == Moved("splice", <<>>)
           write == Moved("write", <<r>>)
           start == Frame("start", <<r>>)
           err == Frame("error", <<r>>)
           kill == Do("abortSocket")
<1>1. /\ stack \in Seq(Frames) /\ stack # <<>> /\ Caller \in Seq(Frames)
      /\ Unwired(Caller, wire)
  <2>1. stack # <<>>
    BY DEF PickWrite, At
  <2>2. QED
    BY <2>1, TypeParts, TopType, UnwiredCaller
<1>2. r \in Requests /\ wire' = wire /\ Top.at = "pick"
  BY PickWriteOn DEF PickWrite, histVars, At
<1>3. \/ stack' = (Fail(<<r>>) \o <<splice>>) \o Caller /\ Opt[r].body = "mismatch"
      \/ stack' = <<err, kill, splice>> \o Caller
      \/ stack' = <<start, write>> \o Caller
  BY DEF PickWrite, Become
<1>4. /\ splice \in Frames /\ splice.at = "splice" /\ write \in Frames /\ write.at = "write"
      /\ start \in Frames /\ start.at = "start"
      /\ err \in Frames /\ err.at = "error" /\ kill \in Frames /\ kill.at = "abortSocket"
  <2>1. write \in Frames /\ write.at = "write"
    BY <1>1, <1>2, TopType, RequestLabelsAre DEF Moved, Frames
  <2>2. splice \in Frames /\ splice.at = "splice"
    BY <1>1, <1>2, PlainLabelsAre, MovedLoop DEF Moved
  <2>3. QED
    BY <1>2, <2>1, <2>2, Labelled, RequestLabelsAre, PlainLabelsAre
<1> HIDE DEF splice, write, start, err, kill
<1>5. CASE stack' = (Fail(<<r>>) \o <<splice>>) \o Caller /\ Opt[r].body = "mismatch"
  <2>1. <<r>> \in Seq(Slots) /\ Range(<<r>>) = {r}
    <3>1. r \in Slots /\ DOMAIN <<r>> = {1} /\ <<r>>[1] = r
      BY <1>2 DEF Slots
    <3>2. QED
      BY <3>1 DEF Range
  <2>2. r \notin Range(wire)
    <3>1. DOMAIN wire = 1..Len(wire)
      BY LenProperties DEF TypeOK
    <3>2. QED
      BY <1>5, <3>1 DEF WireFits, Range
  <2>3. <<splice>> \in Seq(Frames) /\ On(<<splice>>) = {"splice"}
    BY <1>4, FewFrames, OnFew
  <2>4. /\ <<splice>> \o Caller \in Seq(Frames)
        /\ On(<<splice>> \o Caller) = On(<<splice>>) \cup On(Caller)
    BY <1>1, <2>3, OnCat, ConcatProperties
  <2>5. Unwired(<<splice>> \o Caller, wire)
    BY <1>1, <2>3, UnwiredCat
  <2>6. Unwired(Fail(<<r>>) \o (<<splice>> \o Caller), wire)
    <3>1. "splice" \in On(<<splice>> \o Caller) /\ Range(<<r>>) \cap Range(wire) = {}
      BY <2>1, <2>2, <2>3, <2>4
    <3>2. QED
      BY <2>1, <2>4, <2>5, <3>1, UnwiredFail
  <2>7. Fail(<<r>>) \in Seq(Frames)
    BY <2>1, OnFail
  <2>8. (Fail(<<r>>) \o <<splice>>) \o Caller = Fail(<<r>>) \o (<<splice>> \o Caller)
    BY <1>1, <2>3, <2>7, ConcatAssociative
  <2>9. QED
    BY <1>2, <1>5, <2>6, <2>8
<1>6. CASE stack' = <<err, kill, splice>> \o Caller
  <2>1. <<err, kill, splice>> \in Seq(Frames) /\ "fail" \notin On(<<err, kill, splice>>)
    BY <1>4, FewFrames, OnFew
  <2>2. Unwired(<<err, kill, splice>> \o Caller, wire)
    BY <1>1, <2>1, UnwiredCat
  <2>3. QED
    BY <1>2, <1>6, <2>2
<1>7. CASE stack' = <<start, write>> \o Caller
  <2>1. <<start, write>> \in Seq(Frames) /\ "fail" \notin On(<<start, write>>)
    BY <1>4, FewFrames, OnFew
  <2>2. Unwired(<<start, write>> \o Caller, wire)
    BY <1>1, <2>1, UnwiredCat
  <2>3. QED
    BY <1>2, <1>7, <2>2
<1>8. QED
  BY <1>3, <1>5, <1>6, <1>7

LEMMA FailsApartStep ==
  ASSUME TypeOK, Nesting, Shape(stack), Core, NoAltname, WireFits, FailsApart, Next
  PROVE  FailsApart'
<1> SUFFICES ASSUME Live', "destroyEnd" \notin On(stack')
             PROVE  Unwired(stack', wire')
  BY DEF FailsApart
<1>1. Effects /\ broken = "none"
  BY NextEffects DEF Next
<1>2. PICK S, t : Pushes(S, t)
  BY NextPushes
<1>3. /\ t \in Seq(Frames) /\ On(stack') \subseteq S \cup On(t)
      /\ S \cup On(t) \subseteq On(stack') \cup {"fail"}
      /\ t # stack => stack # <<>> /\ t = Caller
  BY <1>2, PushesOn
<1>4. CASE ConnectOK
  <2>1. stack' \in Seq(Frames) /\ "fail" \notin On(stack')
    <3>1. stack = <<>> /\ stack \in Seq(Frames) /\ Moves({"connect", "resume"}, stack)
      BY <1>4, TypeParts, ConnectMoves DEF ConnectOK, Quiet
    <3>2. On(stack') \subseteq {"connect", "resume"} \cup On(stack)
      BY <3>1, MovesOn
    <3>3. stack' \in Seq(Frames)
      BY TypeStep DEF TypeOK
    <3>4. QED
      BY <3>1, <3>2, <3>3, NothingOn
  <2>2. QED
    BY <2>1, UnwiredNone
<1>5. ASSUME ~ConnectOK
      PROVE  Live /\ Unwired(stack, wire)
  <2>1. Live
    <3>1. WriteHead => sock' = sock \/ \E r \in Requests : sock' = Flagged(sock, r)
      BY TypeParts, TopType, RequestLabelsAre DEF WriteHead, At
    <3>2. WriteHead => sock'.st = sock.st
      BY <3>1, TypeParts, FlaggedFields
    <3>3. QED
      BY <1>5, <3>2, ConnectionLeft DEF Live
  <2>2. "destroyEnd" \notin On(stack)
    BY <1>2, EndsStay
  <2>3. QED
    BY <2>1, <2>2 DEF FailsApart
<1>6. CASE WriteHead
  <2>1. ~ConnectOK
    BY <1>6 DEF WriteHead, ConnectOK, At, Quiet
  <2>2. "fail" \notin On(stack')
    BY <1>5, <1>6, <2>1, NoFailAtWrite
  <2>3. stack' \in Seq(Frames)
    BY TypeStep DEF TypeOK
  <2>4. QED
    BY <2>2, <2>3, UnwiredNone
<1>7. CASE FailNext
  <2>1. ~ConnectOK /\ wire' = wire
    BY <1>7 DEF FailNext, ConnectOK, At, Quiet, histVars
  <2>2. QED
    BY <1>5, <1>7, <2>1, FailNextApart
<1>8. CASE PickWrite
  <2>1. ~ConnectOK
    BY <1>8 DEF PickWrite, ConnectOK, At, Quiet
  <2>2. QED
    BY <1>5, <1>8, <2>1, PickWriteApart
<1>9. CASE ~ConnectOK /\ ~WriteHead /\ ~FailNext /\ ~PickWrite
  <2>1. Range(wire') \subseteq Range(wire)
    BY <1>9, ConnectionLeft
  <2>2. Unwired(t, wire)
    BY <1>3, <1>5, <1>9, TypeParts, UnwiredCaller
  <2>3. "fail" \notin S
    <3>1. "destroyEnd" \notin S
      BY <1>3
    <3>2. ~FailAltname
      <4>1. FailAltname => stack \in Seq(Frames) /\ stack # <<>> /\ Top.at = "failAltname"
        BY TypeParts DEF FailAltname, At
      <4>2. FailAltname => "failAltname" \in On(stack)
        BY <4>1, OnTop
      <4>3. ctx
        BY <1>5, <1>9 DEF Core, Life
      <4>4. QED
        BY <4>2, <4>3 DEF NoAltname
    <3>3. \A e : ~ConnectFail(e) /\ ~SocketError /\ ~SocketReset /\ ~SocketClose
      <4> TAKE e
      <4>1. ~ConnectFail(e)
        <5>1. ConnectFail(e) => stack = <<>> /\ connecting = "dialing" /\ ~destroyed
          BY DEF ConnectFail, Quiet
        <5>2. ConnectFail(e) => sock.st = "none"
          BY <1>1, <5>1, DialingIsIdle
        <5>3. QED
          BY <1>5, <1>9, <5>2 DEF Live
      <4>2. ~SocketError /\ ~SocketReset
        BY ErrorRemains DEF Live
      <4>3. ~SocketClose
        BY <1>5, <1>9 DEF SocketClose, Live
      <4>4. QED
        BY <4>1, <4>2, <4>3
    <3>4. QED
      BY <1>2, <1>9, <3>1, <3>2, <3>3 DEF Pushes, Listed
  <2>4. PICK fs : stack' = fs \o t /\ Pile(fs, S)
    BY <1>2 DEF Pushes, Moves
  <2>5. fs \in Seq(Frames) /\ "fail" \notin On(fs)
    BY <2>3, <2>4 DEF Pile
  <2>6. Unwired(fs \o t, wire')
    BY <1>3, <2>1, <2>2, <2>5, UnwiredCat
  <2>7. QED
    BY <2>4, <2>6
<1>10. QED
  BY <1>4, <1>6, <1>7, <1>8, <1>9

\* A request on the wire takes the connection with it when it is aborted.
LEMMA AbortGoes ==
  ASSUME NEW r \in Requests, NEW t \in Seq(Frames), stack' = AbortFrames(r) \o t,
         "abortSocket" \notin On(stack')
  PROVE  r \notin Range(wire)
<1> SUFFICES ASSUME r \in Range(wire) PROVE FALSE
  OBVIOUS
<1> DEFINE err == Frame("error", <<r>>)
           kill == Do("abortSocket")
<1>1. err \in Frames /\ kill \in Frames /\ kill.at = "abortSocket"
  BY Labelled, RequestLabelsAre, PlainLabelsAre
<1>2. AbortFrames(r) = <<err>> \o <<kill>>
  BY DEF AbortFrames, OnSocket
<1> HIDE DEF err, kill
<1>3. <<err>> \in Seq(Frames) /\ <<kill>> \in Seq(Frames) /\ On(<<kill>>) = {"abortSocket"}
  BY <1>1, FewFrames, OnFew
<1>4. /\ <<err>> \o <<kill>> \in Seq(Frames)
      /\ On(<<err>> \o <<kill>>) = On(<<err>>) \cup On(<<kill>>)
  BY <1>3, OnCat, ConcatProperties
<1>5. On((<<err>> \o <<kill>>) \o t) = On(<<err>> \o <<kill>>) \cup On(t)
  BY <1>4, OnCat
<1>6. QED
  BY <1>2, <1>3, <1>4, <1>5

LEMMA WantedStep ==
  ASSUME TypeOK, Nesting, Shape(stack), Core, FailsApart, Wanted, Next
  PROVE  Wanted'
<1> SUFFICES ASSUME Live', On(stack') \cap {"abortSocket", "destroyEnd"} = {}
             PROVE  Range(wire') \cap aborted' = {}
  BY DEF Wanted
<1>1. Effects /\ broken = "none" /\ stack \in Seq(Frames) /\ wire \in Seq(Requests)
  BY NextEffects, TypeParts DEF Next, TypeOK
<1>2. PICK S, t : Pushes(S, t)
  BY NextPushes
<1>3. CASE ConnectOK
  <2>1. wire' = <<>>
    BY <1>3, ConnectionLeft
  <2>2. QED
    BY <2>1 DEF Range
<1>4. ASSUME ~ConnectOK
      PROVE  Range(wire) \cap aborted = {} /\ Unwired(stack, wire)
  <2>1. Live
    <3>1. WriteHead => sock' = sock \/ \E r \in Requests : sock' = Flagged(sock, r)
      BY TypeParts, TopType, RequestLabelsAre DEF WriteHead, At
    <3>2. WriteHead => sock'.st = sock.st
      BY <3>1, TypeParts, FlaggedFields
    <3>3. QED
      BY <1>4, <3>2, ConnectionLeft DEF Live
  <2>2. "abortSocket" \notin On(stack) /\ "destroyEnd" \notin On(stack)
    BY <1>2, EndsStay
  <2>3. QED
    BY <2>1, <2>2 DEF FailsApart, Wanted
<1>5. CASE WriteHead
  <2>1. ~ConnectOK /\ aborted' = aborted
    BY <1>5 DEF WriteHead, ConnectOK, At, Quiet, reqVars
  <2>2. wire' = wire \/ (Top.reqs[1] \notin aborted /\ wire' = Append(wire, Top.reqs[1]))
    BY <1>5 DEF WriteHead
  <2>3. Top.reqs[1] \in Requests
    BY <1>1, <1>5, TopType, RequestLabelsAre DEF WriteHead, At
  <2>4. wire' = wire \/ Range(wire') \subseteq Range(wire) \cup {Top.reqs[1]}
    <3>1. CASE wire' = Append(wire, Top.reqs[1])
      <4>1. /\ Len(wire') = Len(wire) + 1 /\ wire'[Len(wire) + 1] = Top.reqs[1]
            /\ \A k \in 1..Len(wire) : wire'[k] = wire[k]
            /\ wire' \in Seq(Requests) /\ Len(wire) \in Nat
            /\ DOMAIN wire = 1..Len(wire) /\ DOMAIN wire' = 1..Len(wire')
        BY <1>1, <2>3, <3>1, AppendProperties, LenProperties
      <4>2. \A k \in 1..(Len(wire) + 1) : k \in 1..Len(wire) \/ k = Len(wire) + 1
        BY <4>1
      <4>3. QED
        BY <4>1, <4>2 DEF Range
    <3>2. QED
      BY <2>2, <3>1
  <2>5. QED
    BY <1>4, <2>1, <2>2, <2>4
<1>6. CASE ~ConnectOK /\ ~WriteHead
  <2>1. Range(wire') \subseteq Range(wire)
    BY <1>6, ConnectionLeft
  <2>2. CASE aborted' = aborted
    BY <1>4, <1>6, <2>1, <2>2
  <2>3. CASE FailNext
    <3>1. aborted' \subseteq aborted \cup {Head(Top.reqs)}
      BY <2>3 DEF FailNext, Aborts
    <3>2. Range(Top.reqs) \cap Range(wire) = {}
      BY <1>4, <1>6, <2>3, FailNextApart
    <3>3. Head(Top.reqs) \in Range(Top.reqs)
      <4>1. Top.reqs \in Seq(Slots) /\ Top.reqs # <<>>
        BY <1>1, <2>3, TopType DEF FailNext, At
      <4>2. /\ Head(Top.reqs) = Top.reqs[1] /\ DOMAIN Top.reqs = 1..Len(Top.reqs)
            /\ Len(Top.reqs) \in Nat \ {0}
        BY <4>1, EmptySeq, LenProperties, HeadTailProperties
      <4>3. 1 \in DOMAIN Top.reqs
        BY <4>2
      <4>4. QED
        BY <4>2, <4>3 DEF Range
    <3>4. QED
      BY <1>4, <1>6, <2>1, <3>1, <3>2, <3>3
  <2>4. CASE PickWrite /\ aborted' # aborted
    <3>1. Moves({"error", "abortSocket", "splice"}, Caller) \/ aborted' = aborted
      <4> DEFINE r == PendingHead
                 err == Frame("error", <<r>>)
                 kill == Do("abortSocket")
                 splice == Moved("splice", <<>>)
      <4>1. stack # <<>> /\ Top.at = "pick" /\ r \in Requests /\ Caller \in Seq(Frames)
        BY <1>1, <2>4, PickWriteOn, TopType DEF PickWrite, At
      <4>2. stack' = <<err, kill, splice>> \o Caller \/ aborted' = aborted
        BY <2>4 DEF PickWrite, Become
      <4>3. kill \in Frames /\ kill.at = "abortSocket" /\ err \in Frames
            /\ splice \in Frames
        BY <1>1, <4>1, Labelled, RequestLabelsAre, PlainLabelsAre, MovedLoop DEF Moved
      <4> HIDE DEF err, kill, splice
      <4>4. <<err, kill, splice>> \in Seq(Frames) /\ "abortSocket" \in On(<<err, kill, splice>>)
        BY <4>3, FewFrames, OnFew
      <4>5. On(<<err, kill, splice>> \o Caller) = On(<<err, kill, splice>>) \cup On(Caller)
        BY <4>1, <4>4, OnCat
      <4>6. QED
        BY <4>2, <4>4, <4>5
    <3>2. QED
      <4>1. stack # <<>>
        BY <2>4 DEF PickWrite, At
      <4>2. Moves({"error", "abortSocket", "splice"}, Caller)
        BY <2>4, <3>1
      <4>3. "abortSocket" \in On(stack')
        BY <1>1, <4>1, <4>2, TopType, MovesOn
      <4>4. QED
        BY <4>3
  <2>5. CASE WriterFail
    <3>1. \/ aborted' = aborted
          \/ /\ aborted' = aborted \cup {RunningHead} /\ RunningHead # Null
             /\ stack' = AbortFrames(RunningHead) \o Caller
      BY <2>5 DEF WriterFail, Aborts, Become
    <3>2. RunningHead # Null => RunningHead \in Requests
      BY TypeParts DEF Slots
    <3>3. Caller \in Seq(Frames)
      BY <1>1, <2>5, TopType DEF WriterFail, At
    <3>4. aborted' # aborted => RunningHead \notin Range(wire)
      BY <3>1, <3>2, <3>3, AbortGoes
    <3>5. QED
      BY <1>4, <1>6, <2>1, <2>2, <3>1, <3>4
  <2>6. CASE \E r \in Requests : Abort(r)
    <3>1. PICK r \in Requests : Abort(r)
      BY <2>6
    <3>2. aborted' = aborted \cup {r} /\ stack' = AbortFrames(r) \o stack
      BY <3>1 DEF Abort, Aborts, Call
    <3>3. r \notin Range(wire)
      BY <1>1, <3>2, AbortGoes
    <3>4. QED
      BY <1>4, <1>6, <2>1, <3>2, <3>3
  <2>7. QED
    BY <1>1, <2>2, <2>3, <2>4, <2>5, <2>6 DEF Effects
<1>7. QED
  BY <1>3, <1>5, <1>6

----------------------------------------------------------------------------
(* The invariant: what is written fits the connection.                      *)

\* A request whose start callback is running may go to the socket.
Ready(r) ==
  /\ Opt[r].body # "mismatch" /\ Named(r)
  /\ Running > 0 => Joins(r)
  /\ MaxRequests > 0 => sock.counter < MaxRequests

WriteFits ==
  \A i \in DOMAIN stack : stack[i].at = "write" => Ready(stack[i].reqs[1])

\* A socket that has served its last request takes no other.
Counter ==
  MaxRequests > 0 =>
    sock.counter <= MaxRequests /\ (sock.counter = MaxRequests => sock.reset)

\* The connection is the one for kServerName, or was opened for one given up.
SockName == Secure /\ Live => sock.name = serverName \/ AbortedFor(sock.name)

\* What was given up stays given up.
LEMMA AbortedForStays ==
  ASSUME aborted \subseteq aborted'
  PROVE  \A n : AbortedFor(n) => AbortedFor(n)'
BY DEF AbortedFor

LEMMA WriteFramesKept ==
  ASSUME stack \in Seq(Frames), NEW fs \in Seq(Frames), NEW t \in Seq(Frames),
         "write" \notin On(fs), stack' = fs \o t,
         t = stack \/ (stack # <<>> /\ t = Caller)
  PROVE  \A i \in DOMAIN stack' :
           stack'[i].at = "write" => \E j \in DOMAIN stack : stack[j] = stack'[i]
<1> SUFFICES ASSUME NEW i \in DOMAIN stack', stack'[i].at = "write"
             PROVE  \E j \in DOMAIN stack : stack[j] = stack'[i]
  OBVIOUS
<1>1. /\ Len(fs) \in Nat /\ Len(t) \in Nat /\ i \in 1..(Len(fs) + Len(t))
      /\ i <= Len(fs) => i \in DOMAIN fs /\ stack'[i] = fs[i]
      /\ i > Len(fs) => i - Len(fs) \in DOMAIN t /\ stack'[i] = t[i - Len(fs)]
  BY CatElements
<1>2. i > Len(fs)
  BY <1>1 DEF On
<1>3. PICK k \in DOMAIN t : stack'[i] = t[k]
  BY <1>1, <1>2
<1>4. CASE t = stack
  BY <1>3, <1>4
<1>5. CASE stack # <<>> /\ t = Caller
  <2>1. /\ DOMAIN stack = 1..Len(stack) /\ Len(stack) \in Nat \ {0}
        /\ DOMAIN Caller = 1..(Len(stack) - 1)
        /\ \A j \in 1..(Len(stack) - 1) : Caller[j] = stack[j + 1]
    BY <1>5, EmptySeq, LenProperties, HeadTailProperties DEF Caller
  <2>2. k + 1 \in DOMAIN stack /\ stack[k + 1] = t[k]
    BY <1>3, <1>5, <2>1
  <2>3. QED
    BY <1>3, <2>2
<1>6. QED
  BY <1>4, <1>5

\* While a request is being written only its callback and what that calls run.
LEMMA WriteStays ==
  ASSUME TypeOK, Nesting, Shape(stack), Next, "write" \in On(stack'), ~PickWrite
  PROVE  /\ runningIdx' = runningIdx /\ pendingIdx' = pendingIdx
         /\ serverName' = serverName /\ Remains(sock, sock')
         /\ \A i \in DOMAIN stack' :
              stack'[i].at = "write" => \E j \in DOMAIN stack : stack[j] = stack'[i]
         /\ UserStep \/ CallbackReturns \/ FailNext \/ DestroyEnd \/ Resume \/ AbortSocket
<1>1. UserStep \/ CallbackReturns \/ FailNext \/ DestroyEnd \/ Resume \/ AbortSocket
  <2>1. ~Event
    BY EventOn DEF Event
  <2>2. ~(\/ LoopDestroyed \/ LoopClosed \/ LoopContext \/ LoopBusy \/ LoopDrain
          \/ PickNothing \/ PickAborted \/ PickRename \/ PickConnect
          \/ WriteHead \/ Advance \/ Splice \/ Exit)
    BY LoopOn
  <2>3. ~(\/ CheckEmpty \/ DestroyCallback \/ FailAltname \/ CloseEnd
          \/ EndBody \/ WriterFail \/ AfterHeaders \/ Complete \/ AfterEnd
          \/ UpgradeCall \/ Upgraded)
    BY OuterOn
  <2>4. UserStep \/ FrameStep
    BY <2>1 DEF Next, Event
  <2>5. QED
    BY <2>2, <2>3, <2>4 DEF FrameStep
<1>2. runningIdx' = runningIdx /\ pendingIdx' = pendingIdx /\ serverName' = serverName
  <2>1. UserStep => UNCHANGED <<runningIdx, pendingIdx, serverName>>
    <3>1. ASSUME NEW r \in Requests, Dispatch(r) \/ DispatchRefused(r) \/ Abort(r)
          PROVE  UNCHANGED <<runningIdx, pendingIdx, serverName>>
      BY <3>1 DEF Dispatch, DispatchRefused, Abort, qVars, connVars
    <3>2. (\E value \in Pipelinings : SetPipelining(value)) \/ Close \/ Destroy
            => UNCHANGED <<runningIdx, pendingIdx, serverName>>
      BY DEF SetPipelining, Close, Destroy, qVars, connVars
    <3>3. QED
      BY <3>1, <3>2 DEF UserStep
  <2>2. CallbackReturns \/ FailNext \/ DestroyEnd \/ Resume \/ AbortSocket
          => UNCHANGED <<runningIdx, pendingIdx, serverName>>
    BY DEF CallbackReturns, FailNext, DestroyEnd, Resume, AbortSocket, qVars, connVars
  <2>3. QED
    BY <1>1, <2>1, <2>2
<1>3. Remains(sock, sock')
  BY <1>1, FrameRemains
<1>4. PICK S, t : Pushes(S, t)
  BY NextPushes
<1>5. "write" \notin S
  BY <1>4 DEF Pushes, Listed
<1>6. PICK fs : stack' = fs \o t /\ Pile(fs, S)
  BY <1>4 DEF Pushes, Moves
<1>7. fs \in Seq(Frames) /\ "write" \notin On(fs)
  BY <1>5, <1>6 DEF Pile
<1>8. t \in Seq(Frames) /\ (t = stack \/ (stack # <<>> /\ t = Caller))
  BY <1>4, PushesOn
<1>9. QED
  BY <1>1, <1>2, <1>3, <1>6, <1>7, <1>8, TypeParts, WriteFramesKept

LEMMA WriteFitsStep ==
  ASSUME TypeOK, Nesting, Shape(stack), WriteFits, Counter, SockName, Next
  PROVE  WriteFits'
<1> SUFFICES ASSUME NEW i \in DOMAIN stack', stack'[i].at = "write"
             PROVE  \A r : r = stack'[i].reqs[1] =>
                      /\ Opt[r].body # "mismatch"
                      /\ Secure => Opt[r].name = serverName'
                                   /\ (Opt[r].name = sock'.name \/ AbortedFor(sock.name)')
                      /\ Running' > 0 => Joins(r)
                      /\ MaxRequests > 0 => sock'.counter < MaxRequests
  BY DEF WriteFits, Ready, Named
<1>1. aborted \subseteq aborted' /\ sock.counter \in Nat
  BY NextEffects, TypeParts DEF Effects, Socks
<1>2. CASE PickWrite
  <2> DEFINE r == PendingHead
  <2>1. /\ stack'[i].reqs[1] = r /\ Opt[r].body # "mismatch"
    BY <1>2, PickWriteOn
  <2>2. /\ ~MustWait(r) /\ ~Renames(r) /\ ctx
        /\ runningIdx' = runningIdx /\ pendingIdx' = pendingIdx
        /\ serverName' = serverName
    BY <1>2 DEF PickWrite, qVars, connVars
  <2>3. Live /\ ~BusyFor(r)
    BY <2>2 DEF MustWait
  <2>4. Remains(sock, sock')
    BY <1>2, FrameRemains
  <2>5. Running' = Running
    BY <2>2 DEF Running
  <2>6. (Running > 0 => Joins(r)) /\ ~sock.reset
    BY <2>3 DEF BusyFor, SocketBusy, Joins
  <2>7. MaxRequests > 0 => sock'.counter < MaxRequests
    BY <1>1, <2>4, <2>6, NumberAssumption DEF Counter, Remains
  <2>8. Secure => Opt[r].name = serverName' /\ (Opt[r].name = sock'.name \/ AbortedFor(sock.name)')
    BY <1>1, <2>2, <2>3, <2>4 DEF SockName, Remains, Renames, AbortedFor
  <2> HIDE DEF r
  <2>9. QED
    BY <2>1, <2>5, <2>6, <2>7, <2>8
<1>3. CASE ~PickWrite
  <2>1. "write" \in On(stack')
    BY DEF On
  <2>2. /\ runningIdx' = runningIdx /\ pendingIdx' = pendingIdx
        /\ serverName' = serverName /\ Remains(sock, sock')
        /\ \E j \in DOMAIN stack : stack[j] = stack'[i]
    BY <1>3, <2>1, WriteStays
  <2>3. Ready(stack'[i].reqs[1])
    BY <2>2 DEF WriteFits
  <2>4. PICK r : r = stack'[i].reqs[1]
    OBVIOUS
  <2>5. Running' = Running /\ sock'.counter = sock.counter /\ sock'.name = sock.name
    BY <2>2 DEF Running, Remains
  <2>6. Named(r) => /\ Secure => Opt[r].name = serverName'
                    /\ Secure => Opt[r].name = sock'.name \/ AbortedFor(sock.name)'
    BY <1>1, <2>2, <2>5 DEF Named, AbortedFor
  <2>7. QED
    BY <2>3, <2>4, <2>5, <2>6 DEF Ready, Named
<1>4. QED
  BY <1>2, <1>3

\* The request on top of the stack is ready.
LEMMA ReadyTop ==
  ASSUME TypeOK, WriteFits, WriteHead
  PROVE  Top.reqs[1] \in Requests /\ Ready(Top.reqs[1])
<1>1. stack \in Seq(Frames) /\ stack # <<>> /\ Top.at = "write"
  BY TypeParts DEF WriteHead, At
<1>2. Top = stack[1] /\ 1 \in DOMAIN stack
  BY <1>1, EmptySeq, LenProperties DEF Top
<1>3. QED
  BY <1>1, <1>2, TopType, RequestLabelsAre DEF WriteFits

LEMMA CounterStep ==
  ASSUME TypeOK, Core, WriteFits, Counter, Next
  PROVE  Counter'
<1> SUFFICES ASSUME MaxRequests > 0
             PROVE  sock'.counter <= MaxRequests
                    /\ (sock'.counter = MaxRequests => sock'.reset)
  BY DEF Counter
<1>1. Effects /\ sock \in Socks /\ sock.counter \in Nat /\ MaxRequests \in Nat
  BY NextEffects, TypeParts, NumberAssumption DEF Socks
<1>2. sock.counter <= MaxRequests /\ (sock.counter = MaxRequests => sock.reset)
  BY DEF Counter
<1>3. CASE Remains(sock, sock')
  BY <1>2, <1>3 DEF Remains
<1>4. CASE WriteHead
  <2>1. Top.reqs[1] \in Requests /\ sock.counter < MaxRequests
    BY <1>4, ReadyTop DEF Ready
  <2>2. sock' = sock \/ sock' = Flagged(sock, Top.reqs[1])
    BY <1>4 DEF WriteHead
  <2>3. CASE sock' = Flagged(sock, Top.reqs[1])
    <3>1. sock'.counter = sock.counter + 1 /\ (LastUse(sock'.counter) => sock'.reset)
      BY <1>1, <2>1, <2>3, FlaggedFields
    <3>2. QED
      BY <1>1, <2>1, <3>1 DEF LastUse
  <2>4. QED
    BY <1>2, <2>2, <2>3
<1>5. CASE PickConnect \/ ConnectOK \/ Disconnects
  <2>1. ASSUME PickConnect PROVE sock'.counter = 0
    <3>1. PICK n : sock' = [NoSock EXCEPT !.name = n]
      BY <2>1 DEF PickConnect
    <3>2. QED
      BY <3>1 DEF NoSock
  <2>2. ASSUME ConnectOK PROVE sock'.counter = 0
    <3>1. PICK n : sock' = [NoSock EXCEPT !.st = "live", !.name = n]
      BY <2>2 DEF ConnectOK, Connected
    <3>2. QED
      BY <3>1 DEF NoSock
  <2>3. ASSUME Disconnects PROVE sock'.counter = 0
    BY <2>3 DEF Disconnects, NoSock
  <2>4. sock'.counter = 0
    BY <1>5, <2>1, <2>2, <2>3
  <2>5. QED
    BY <1>1, <2>4
<1>6. QED
  BY <1>1, <1>3, <1>4, <1>5 DEF Effects

----------------------------------------------------------------------------
(* The invariant: the connection that is opened is the one that is wanted.  *)

\* A request for name n was given up, or is about to be.
Given(n) ==
  \/ AbortedFor(n)
  \/ \E i \in DOMAIN stack, r \in Requests :
       Opt[r].name = n /\ stack[i] = Frame("fail", <<r>>)

\* The first pending request wants the connection the connector works on,
\* unless the one it was started for was given up,
Aimed ==
  Secure /\ connecting = "dialing" /\ ~destroyed =>
    \/ Given(sock.name)
    \/ /\ Pending > 0 /\ PendingHead # Null
       /\ Opt[PendingHead].name = serverName /\ sock.name = serverName

\* since no request is being taken out of the queue meanwhile,
Clean == connecting = "dialing" /\ ~destroyed => "splice" \notin On(stack)

\* and what will be pending again wants the same name.
Retried ==
  Secure /\ ~destroyed /\ "closeEnd" \in On(stack) =>
    /\ pendingIdx <= Len(queue)
    /\ \A k \in (runningIdx + 1)..pendingIdx :
         queue[k] # Null /\ Opt[queue[k]].name = serverName

\* What follows a lost connection runs only once its requests were failed.
Lost == {"failAltname", "closeEnd"}

\* Over TLS the connection has the name the queue asks for.
LEMMA SockNameStep ==
  ASSUME TypeOK, Core, SockName, Aimed, Next
  PROVE  SockName'
<1> SUFFICES ASSUME Secure, Live'
             PROVE  sock'.name = serverName' \/ AbortedFor(sock.name)'
  BY DEF SockName
<1>1. Effects /\ sock \in Socks /\ aborted \subseteq aborted' /\ broken = "none"
  BY NextEffects, TypeParts DEF Effects, Next
<1>2. sock'.st = "live"
  BY DEF Live
<1>3. CASE ConnectOK
  <2>1. /\ connecting = "dialing" /\ ~destroyed /\ serverName' = serverName
    BY <1>3 DEF ConnectOK
  <2>2. PICK n : sock' = [NoSock EXCEPT !.st = "live", !.name = n] /\ n = sock.name
    BY <1>3 DEF ConnectOK, Connected
  <2>3. sock'.name = sock.name
    BY <2>2 DEF NoSock
  <2>4. stack = <<>>
    BY <1>3 DEF ConnectOK, Quiet
  <2>5. Given(sock.name) => AbortedFor(sock.name)
    BY <2>4 DEF Given
  <2>6. QED
    BY <1>1, <2>1, <2>3, <2>5 DEF Aimed, AbortedFor
<1>4. CASE WriteHead
  <2>1. serverName' = serverName /\ (sock' = sock \/ sock' = Flagged(sock, Top.reqs[1]))
    BY <1>4 DEF WriteHead, connVars
  <2>2. Top.reqs[1] \in Requests
    BY <1>4, TypeParts, TopType, RequestLabelsAre DEF WriteHead, At
  <2>3. sock'.name = sock.name /\ sock'.st = sock.st
    BY <1>1, <2>1, <2>2, FlaggedFields
  <2>4. QED
    BY <1>1, <1>2, <2>1, <2>3 DEF SockName, Live, AbortedFor
<1>5. ~PickRename
  <2>1. SUFFICES ASSUME PickRename PROVE FALSE
    OBVIOUS
  <2>2. \/ sock' = [Kill(sock, "info") EXCEPT !.onClose = @ \cup {"rename"}]
        \/ sock' = sock /\ ~ctx
    BY <2>1 DEF PickRename
  <2>3. [Kill(sock, "info") EXCEPT !.onClose = @ \cup {"rename"}].st # "live"
    BY <1>1, GivenUp
  <2>4. ~ctx => ~Live
    BY DEF Core, Life
  <2>5. QED
    BY <1>2, <2>2, <2>3, <2>4 DEF Live
<1>6. ~PickConnect /\ ~Disconnects
  <2>1. PickConnect => sock'.st = "none"
    BY <1>1, PickConnectCore
  <2>2. Disconnects => sock'.st = "none"
    BY DEF Disconnects, NoSock
  <2>3. QED
    BY <1>2, <2>1, <2>2
<1>7. CASE Remains(sock, sock')
  <2>1. serverName' = serverName
    BY <1>1, <1>5, <1>6 DEF Effects
  <2>2. Live /\ sock'.name = sock.name
    BY <1>2, <1>7 DEF Remains, Live
  <2>3. QED
    BY <1>1, <2>1, <2>2 DEF SockName, AbortedFor
<1>8. QED
  BY <1>1, <1>3, <1>4, <1>6, <1>7 DEF Effects

\* Where the loop picks a request the wire holds what is running.
LEMMA WireAtLoop ==
  ASSUME TypeOK, Nesting, Shape(stack), Core, broken = "none", stack # <<>>,
         Top.at \in LoopLabels \ {"advance"}
  PROVE  Len(wire) = Running \/ wire = <<>>
<1>1. /\ On(stack) = {Top.at} \cup On(Caller) /\ On(Caller) \cap LoopLabels = {}
  BY LoopAtTop
<1>2. "advance" \notin On(stack)
  BY <1>1 DEF LoopLabels
<1>3. CASE sock.st = "none"
  BY <1>3 DEF Core, NoWire
<1>4. CASE sock.st # "none"
  BY <1>2, <1>4 DEF Core, WireMatches, Counted
<1>5. QED
  BY <1>3, <1>4

LEMMA WireFitsStep ==
  ASSUME TypeOK, Nesting, Shape(stack), Core, WireFits, WriteFits, Next
  PROVE  WireFits'
<1> SUFFICES ASSUME NEW i \in 1..Len(wire')
             PROVE  /\ Opt[wire'[i]].body # "mismatch"
                    /\ Secure => /\ Opt[wire'[i]].name = serverName'
                                 /\ Opt[wire'[i]].name = sock'.name \/ AbortedFor(sock.name)'
                    /\ i > 1 => Joins(wire'[i])
  BY DEF WireFits, Named
<1>1. Effects /\ broken = "none" /\ sock \in Socks /\ wire \in Seq(Requests)
      /\ Len(wire) \in Nat
  BY NextEffects, TypeParts, LenProperties DEF Next, TypeOK
<1>2. aborted \subseteq aborted'
  BY <1>1 DEF Effects
\* What is on the wire stays there, and so does the connection.
<1>3. ASSUME NEW k \in 1..Len(wire), wire'[i] = wire[k], i > 1 => k > 1,
             serverName' = serverName, sock'.name = sock.name
      PROVE  /\ Opt[wire'[i]].body # "mismatch"
             /\ Secure => /\ Opt[wire'[i]].name = serverName'
                          /\ Opt[wire'[i]].name = sock'.name \/ AbortedFor(sock.name)'
             /\ i > 1 => Joins(wire'[i])
  BY <1>2, <1>3 DEF WireFits, Named, AbortedFor
<1>4. CASE WriteHead
  <2> DEFINE r == Top.reqs[1]
  <2>1. r \in Requests /\ Ready(r)
    BY <1>4, ReadyTop
  <2>2. /\ serverName' = serverName
        /\ \/ wire' = wire /\ sock' = sock
           \/ wire' = Append(wire, r) /\ sock' = Flagged(sock, r)
    BY <1>4 DEF WriteHead, connVars
  <2> HIDE DEF r
  <2>3. sock'.name = sock.name
    BY <1>1, <2>1, <2>2, FlaggedFields
  <2>4. CASE wire' = wire
    BY <1>3, <2>2, <2>3, <2>4
  <2>5. CASE wire' = Append(wire, r)
    <3>1. /\ Len(wire') = Len(wire) + 1 /\ wire'[Len(wire) + 1] = r
          /\ \A k \in 1..Len(wire) : wire'[k] = wire[k]
      BY <1>1, <2>1, <2>5, AppendProperties
    <3>2. CASE i \in 1..Len(wire)
      BY <1>3, <2>2, <2>3, <3>1, <3>2
    <3>3. CASE i \notin 1..Len(wire)
      <4>1. wire'[i] = r /\ i = Len(wire) + 1
        BY <1>1, <3>1, <3>3
      <4>2. i > 1 => Running > 0
        <5>1. stack # <<>> /\ Top.at = "write"
          BY <1>4 DEF WriteHead, At
        <5>2. Len(wire) = Running \/ wire = <<>>
          BY <1>1, <5>1, WireAtLoop DEF LoopLabels
        <5>3. CASE wire = <<>>
          <6>1. Len(wire) = 0
            BY <5>3
          <6>2. QED
            BY <4>1, <6>1
        <5>4. QED
          BY <1>1, <4>1, <5>2, <5>3
      <4>3. QED
        BY <1>2, <2>1, <2>2, <2>3, <4>1, <4>2 DEF Ready, Named, AbortedFor
    <3>4. QED
      BY <3>2, <3>3
  <2>6. QED
    BY <2>2, <2>4, <2>5
<1>5. ~Disconnects
  <2>1. Len(<<>>) = 0
    OBVIOUS
  <2>2. QED
    BY <2>1 DEF Disconnects
<1>6. CASE ~WriteHead
  <2>1. wire # <<>>
    <3>1. SUFFICES ASSUME wire = <<>> PROVE FALSE
      OBVIOUS
    <3>2. wire' = wire \/ wire' = From(wire, 1)
      BY <1>1, <1>5, <1>6 DEF Effects
    <3>3. Len(wire') = 0
      <4>1. Len(wire) = 0 /\ 1 \in Nat /\ 1 >= Len(wire)
        BY <3>1
      <4>2. From(wire, 1) = <<>>
        BY <1>1, <4>1, SpliceElements
      <4>3. QED
        BY <3>2, <4>1, <4>2
    <3>4. QED
      BY <3>3
  <2>2. ~ConnectOK
    BY <2>1, ConnectionLeft
  <2>3. ~PickConnect
    <3>1. PickConnect => sock.st = "none"
      BY <1>1, PickConnectCore
    <3>2. QED
      BY <2>1, <3>1 DEF Core, NoWire
  <2>4. ~PickRename
    <3>1. PickRename => stack # <<>> /\ Top.at = "pick" /\ Running <= 0
      BY DEF PickRename, At
    <3>2. PickRename => Len(wire) = Running
      BY <1>1, <2>1, <3>1, WireAtLoop DEF LoopLabels
    <3>3. Len(wire) # 0
      BY <1>1, <2>1, EmptySeq
    <3>4. QED
      BY <1>1, <3>1, <3>2, <3>3
  <2>5. serverName' = serverName /\ sock'.name = sock.name
    BY <1>1, <1>5, <1>6, <2>2, <2>3, <2>4 DEF Effects, Remains
  <2>6. CASE wire' = wire
    BY <1>3, <2>5, <2>6
  <2>7. CASE wire' = From(wire, 1)
    <3>1. i + 1 \in 1..Len(wire) /\ wire'[i] = wire[i + 1]
      BY <1>1, <2>7, RangeFrom
    <3>2. i > 1 => i + 1 > 1
      BY <1>1
    <3>3. QED
      BY <1>3, <2>5, <3>1, <3>2
  <2>8. QED
    BY <1>1, <1>5, <1>6, <2>6, <2>7 DEF Effects
<1>7. QED
  BY <1>4, <1>6

\* Under the frame of errorRequest only its own step runs.
LEMMA FailAlone ==
  ASSUME TypeOK, Next, stack # <<>>, Top.at = "fail"
  PROVE  FailNext
<1>1. ~UserStep
  <2>1. Top.at \notin Callbacks
    BY DEF Callbacks
  <2>2. \A op : ~UserMay(op)
    <3> TAKE op
    <3>1. UserMay(op) => <<Top.at, op>> \in (Callbacks \cup {"top"}) \X Operations
      BY EnvironmentAssumption DEF UserMay
    <3>2. QED
      BY <2>1, <3>1
  <2>3. QED
    BY <2>2 DEF UserStep, Dispatch, DispatchRefused, Abort, SetPipelining, Close, Destroy
<1>2. ~Event
  BY EventPushes
<1>3. FrameStep
  BY <1>1, <1>2 DEF Next, Event
<1>4. ~CallbackReturns
  BY DEF CallbackReturns, Callbacks
<1>5. ~(\/ CheckEmpty \/ DestroyEnd \/ DestroyCallback \/ Resume \/ LoopDestroyed
        \/ LoopClosed \/ LoopContext \/ LoopBusy \/ LoopDrain \/ PickNothing
        \/ PickAborted \/ PickRename \/ PickConnect \/ PickWrite \/ WriteHead)
  BY DEF CheckEmpty, DestroyEnd, DestroyCallback, Resume, LoopDestroyed, LoopClosed,
     LoopContext, LoopBusy, LoopDrain, PickNothing, PickAborted, PickRename,
     PickConnect, PickWrite, WriteHead, At
<1>6. ~(\/ Advance \/ Splice \/ Exit \/ AbortSocket \/ EndBody \/ WriterFail
        \/ AfterHeaders \/ Complete \/ AfterEnd \/ UpgradeCall \/ Upgraded
        \/ FailAltname \/ CloseEnd)
  BY DEF Advance, Splice, Exit, AbortSocket, EndBody, WriterFail, AfterHeaders,
     Complete, AfterEnd, UpgradeCall, Upgraded, FailAltname, CloseEnd, At
<1>7. QED
  BY <1>3, <1>4, <1>5, <1>6 DEF FrameStep

LEMMA AboveNone ==
  ASSUME NEW s, NEW lower, NEW upper, On(s) \cap lower = {}
  PROVE  Above(s, lower, upper)
BY DEF Above, On

LEMMA AboveOne ==
  ASSUME NEW f \in Frames, NEW lower, NEW upper
  PROVE  Above(<<f>>, lower, upper)
<1>1. \A i \in DOMAIN <<f>> : i = 1
  OBVIOUS
<1>2. \A i \in DOMAIN <<f>> : 1..(i - 1) = {}
  BY <1>1
<1>3. QED
  BY <1>2 DEF Above

\* The frames that fail what is lost, what follows it, and the rest.
LEMMA AboveLost ==
  ASSUME NEW rs \in Seq(Slots), NEW f \in Frames, NEW t \in Seq(Frames),
         On(t) \cap Lost = {}
  PROVE  Above((Fail(rs) \o <<f>>) \o t, Lost, {"fail"})
<1>1. Fail(rs) \in Seq(Frames) /\ On(Fail(rs)) \subseteq {"fail"}
  BY OnFail
<1>2. <<f>> \in Seq(Frames) /\ Above(<<f>>, Lost, {"fail"})
  BY FewFrames, AboveOne
<1>3. Above(Fail(rs), Lost, {"fail"}) /\ Above(t, Lost, {"fail"})
  BY <1>1, AboveNone DEF Lost
<1>4. Above(Fail(rs) \o <<f>>, Lost, {"fail"})
  BY <1>1, <1>2, <1>3, AboveCat
<1>5. Fail(rs) \o <<f>> \in Seq(Frames)
  BY <1>1, <1>2, ConcatProperties
<1>6. QED
  BY <1>3, <1>4, <1>5, AboveCat

LEMMA SocketCloseAbove ==
  ASSUME TypeOK, SocketClose
  PROVE  Above(stack', Lost, {"fail"})
<1> DEFINE failed == IF destroyed THEN From(queue, runningIdx)
                     ELSE IF FailsHead THEN <<RunningHead>> ELSE <<>>
           renamed == IF "rename" \in sock.onClose THEN <<Do("resume")>> ELSE <<>>
           settled == IF "destroy" \in sock.onClose THEN <<Do("destroyCallback")>>
                      ELSE <<>>
           close == Do("closeEnd")
<1>1. stack = <<>> /\ stack \in Seq(Frames)
  BY TypeParts DEF SocketClose, Quiet
<1>2. stack' = (((Fail(failed) \o <<close>>) \o renamed) \o settled) \o stack
  BY DEF SocketClose, Call
<1>3. failed \in Seq(Slots)
  <2>1. From(queue, runningIdx) \in Seq(Slots)
    BY TypeParts, SpliceTypes
  <2>2. RunningHead \in Slots
    BY TypeParts
  <2>3. <<RunningHead>> \in Seq(Slots) /\ <<>> \in Seq(Slots)
    BY <2>2
  <2>4. QED
    BY <2>1, <2>3
<1>4. /\ close \in Frames /\ Do("resume") \in Frames /\ Do("resume").at = "resume"
      /\ Do("destroyCallback") \in Frames
      /\ Do("destroyCallback").at = "destroyCallback"
  BY Labelled, PlainLabelsAre
<1>5. renamed \in Seq(Frames) /\ On(renamed) \subseteq {"resume"}
  BY <1>4, FewFrames, OnFew
<1>6. settled \in Seq(Frames) /\ On(settled) \subseteq {"destroyCallback"}
  BY <1>4, FewFrames, OnFew
<1> HIDE DEF failed, renamed, settled, close
<1>7. Above((Fail(failed) \o <<close>>) \o renamed, Lost, {"fail"})
  BY <1>3, <1>4, <1>5, AboveLost DEF Lost
<1>8. (Fail(failed) \o <<close>>) \o renamed \in Seq(Frames)
  BY <1>3, <1>4, <1>5, OnFail, FewFrames, ConcatProperties
<1>9. Above(settled, Lost, {"fail"}) /\ On(settled) \cap Lost = {}
  BY <1>6, AboveNone DEF Lost
<1>10. Above(((Fail(failed) \o <<close>>) \o renamed) \o settled, Lost, {"fail"})
  BY <1>6, <1>7, <1>8, <1>9, AboveCat
<1>11. ((Fail(failed) \o <<close>>) \o renamed) \o settled \in Seq(Frames)
  BY <1>6, <1>8, ConcatProperties
<1>12. stack' = ((Fail(failed) \o <<close>>) \o renamed) \o settled
  BY <1>1, <1>2, <1>11, ConcatEmptySeq
<1>13. QED
  BY <1>10, <1>12

\* While the connector is at work there is no socket, and nothing of one.
LEMMA Dialing ==
  ASSUME TypeOK, Core, connecting = "dialing", ~destroyed
  PROVE  ~ctx /\ sock.st = "none" /\ wire = <<>> /\ On(stack) \cap OfSocket = {}
BY DEF Core, Life, NoWire

LEMMA CleanStep ==
  ASSUME TypeOK, Nesting, Shape(stack), Core, Clean, Next
  PROVE  Clean'
<1> SUFFICES ASSUME connecting' = "dialing", ~destroyed'
             PROVE  "splice" \notin On(stack')
  BY DEF Clean
<1>1. Effects /\ ~destroyed /\ stack \in Seq(Frames)
  BY NextEffects, TypeParts DEF Effects
<1>2. CASE PickConnect
  <2>1. stack # <<>> /\ Top.at = "pick" /\ stack' = Goto("exit")
    BY <1>2 DEF PickConnect, At
  <2>2. Caller \in Seq(Frames) /\ "splice" \notin On(Caller)
    BY <2>1, ShapeTop
  <2>3. Moves({"exit"}, Caller)
    BY <2>1, GotoMoves, PlainLabelsAre
  <2>4. On(stack') \subseteq {"exit"} \cup On(Caller)
    BY <2>2, <2>3, MovesOn
  <2>5. QED
    BY <2>2, <2>4
<1>3. CASE ~PickConnect
  <2>1. connecting = "dialing"
    BY <1>1, <1>3 DEF Effects
  <2>2. ~ctx /\ On(stack) \cap OfSocket = {}
    BY <1>1, <2>1, Dialing
  <2>3. PICK S, t : Pushes(S, t)
    BY NextPushes
  <2>4. On(t) \subseteq On(stack) /\ On(stack') \subseteq S \cup On(t)
    BY <2>3, PushesOn
  <2>5. ~PickWrite
    BY <2>2 DEF PickWrite
  <2>6. ~WriteHead
    <3>1. WriteHead => stack # <<>> /\ Top.at = "write"
      BY DEF WriteHead, At
    <3>2. WriteHead => "write" \in On(stack)
      BY <1>1, <3>1, OnTop
    <3>3. QED
      BY <2>2, <3>2 DEF OfSocket
  <2>7. "splice" \notin S
    BY <2>3, <2>5, <2>6 DEF Pushes, Listed
  <2>8. QED
    BY <1>1, <2>1, <2>4, <2>7 DEF Clean
<1>4. QED
  BY <1>2, <1>3

\* The steps that change the queue or its indices.
LEMMA QueueChanges ==
  ASSUME TypeOK, Next
  PROVE  \/ UNCHANGED qVars
         \/ BeginDestroy /\ runningIdx' = runningIdx /\ pendingIdx' = pendingIdx
         \/ (\E r \in Requests : Dispatch(r))
         \/ PickAborted \/ Splice \/ Advance \/ Exit \/ FailAltname \/ CloseEnd
         \/ AfterEnd \/ ResponseUpgrade \/ SocketError \/ SocketReset \/ SocketClose
         \/ \E e : ConnectFail(e)
<1> DEFINE Cuts == BeginDestroy /\ runningIdx' = runningIdx /\ pendingIdx' = pendingIdx
<1>1. UserStep => UNCHANGED qVars \/ Cuts \/ \E r \in Requests : Dispatch(r)
  <2>1. \A r \in Requests : DispatchRefused(r) \/ Abort(r) => UNCHANGED qVars
    BY DEF DispatchRefused, Abort
  <2>2. (\E value \in Pipelinings : SetPipelining(value)) \/ Close => UNCHANGED qVars
    BY DEF SetPipelining, Close
  <2>3. Destroy => Cuts
    BY DEF Destroy
  <2>4. QED
    BY <2>1, <2>2, <2>3 DEF UserStep
<1>2. FrameStep =>
        \/ UNCHANGED qVars
        \/ PickAborted \/ Splice \/ Advance \/ Exit \/ FailAltname \/ CloseEnd \/ AfterEnd
  <2>1. CallbackReturns \/ FailNext \/ CheckEmpty \/ DestroyEnd \/ DestroyCallback
        \/ Resume \/ LoopDestroyed \/ LoopClosed \/ LoopContext \/ LoopBusy
        \/ LoopDrain \/ PickNothing \/ PickRename \/ PickConnect => UNCHANGED qVars
    BY DEF CallbackReturns, FailNext, CheckEmpty, DestroyEnd, DestroyCallback,
       Resume, LoopDestroyed, LoopClosed, LoopContext, LoopBusy, LoopDrain,
       PickNothing, PickRename, PickConnect
  <2>2. PickWrite \/ WriteHead \/ AbortSocket \/ EndBody \/ WriterFail \/ AfterHeaders
        \/ Complete \/ UpgradeCall \/ Upgraded => UNCHANGED qVars
    BY DEF PickWrite, WriteHead, AbortSocket, EndBody, WriterFail, AfterHeaders,
       Complete, UpgradeCall, Upgraded
  <2>3. QED
    BY <2>1, <2>2 DEF FrameStep
<1>3. TaskStep \/ ImmediateResume => UNCHANGED qVars \/ Cuts
  <2>1. TaskResume \/ TaskDrain \/ TaskDestroyCallback \/ TaskDestroyed \/ ImmediateResume
          => UNCHANGED qVars
    BY DEF TaskResume, TaskDrain, TaskDestroyCallback, TaskDestroyed, ImmediateResume
  <2>2. TaskClosed => Cuts \/ UNCHANGED qVars
    BY DEF TaskClosed, qVars
  <2>3. QED
    BY <2>1, <2>2 DEF TaskStep
<1>4. Connector => UNCHANGED qVars \/ \E e : ConnectFail(e)
  <2>1. ConnectTooLate \/ ConnectOK => UNCHANGED qVars
    BY DEF ConnectTooLate, ConnectOK
  <2>2. QED
    BY <2>1 DEF Connector
<1>5. Answer \/ ResponseResumed \/ BodyEnd \/ IdleValidated
        => UNCHANGED qVars \/ ResponseUpgrade
  <2>1. \A keep, short \in BOOLEAN : ResponseHead(keep, short) => UNCHANGED qVars
    BY DEF ResponseHead
  <2>2. ResponseEnd \/ HeadersTimeout \/ BodyTimeout \/ ResponseResumed \/ BodyEnd
        \/ IdleValidated => UNCHANGED qVars
    BY DEF ResponseEnd, HeadersTimeout, BodyTimeout, ResponseResumed, BodyEnd,
       IdleValidated, Destroys
  <2>3. QED
    BY <2>1, <2>2 DEF Answer
<1>6. Disturbance => UNCHANGED qVars \/ SocketReset
  BY DEF Disturbance, ResponseData, KeepAliveTimeout, SocketEnd, BadBytes, BodyError,
     QueuedBodyError, Destroys
<1>7. QED
  BY <1>1, <1>2, <1>3, <1>4, <1>5, <1>6 DEF Next

\* Only those that take requests out change the first pending one.
LEMMA HeadStays ==
  ASSUME TypeOK, Core, Pending > 0, PendingHead # Null,
         UNCHANGED qVars \/ (\E r \in Requests : Dispatch(r)) \/ Exit
  PROVE  Pending' > 0 /\ PendingHead' = PendingHead
<1>1. /\ queue \in Seq(Slots) /\ Len(queue) \in Nat /\ DOMAIN queue = 1..Len(queue)
      /\ pendingIdx \in Int /\ runningIdx \in Nat
      /\ runningIdx <= Len(queue) /\ runningIdx <= pendingIdx
  BY TypeParts, LenProperties DEF Core, Bounds
<1>2. pendingIdx + 1 \in 1..Len(queue) /\ PendingHead = queue[pendingIdx + 1]
  BY <1>1 DEF PendingHead, Slot
<1>3. CASE UNCHANGED qVars
  BY <1>3 DEF qVars, Pending, PendingHead
<1>4. CASE \E r \in Requests : Dispatch(r)
  <2>1. PICK r \in Requests : queue' = Append(queue, r) /\ pendingIdx' = pendingIdx
    BY <1>4 DEF Dispatch
  <2>2. r \in Slots
    BY DEF Slots
  <2>3. /\ Len(queue') = Len(queue) + 1 /\ queue' \in Seq(Slots)
        /\ \A k \in 1..Len(queue) : queue'[k] = queue[k]
    BY <1>1, <2>1, <2>2, AppendProperties
  <2>4. DOMAIN queue' = 1..Len(queue')
    BY <2>3, LenProperties
  <2>5. PendingHead' = queue'[pendingIdx + 1]
    BY <1>1, <1>2, <2>1, <2>3, <2>4 DEF PendingHead, Slot
  <2>6. QED
    BY <1>1, <1>2, <2>1, <2>3, <2>5 DEF Pending
<1>5. CASE Exit
  <2>1. Compact \/ UNCHANGED qVars
    BY <1>5 DEF Exit
  <2>2. CASE Compact
    <3>1. queue' = From(queue, runningIdx) /\ pendingIdx' = pendingIdx - runningIdx
      BY <2>2 DEF Compact
    <3>2. /\ Len(queue') = Len(queue) - runningIdx
          /\ \A k \in 1..(Len(queue) - runningIdx) : queue'[k] = queue[runningIdx + k]
      BY <1>1, <3>1, SpliceElements
    <3>3. queue' \in Seq(Slots) /\ DOMAIN queue' = 1..Len(queue')
      <4>1. runningIdx \in Int
        BY <1>1
      <4>2. From(queue, runningIdx) \in Seq(Slots)
        BY <1>1, <4>1, SpliceTypes
      <4>3. QED
        BY <3>1, <4>2, LenProperties
    <3>4. /\ pendingIdx' + 1 \in 1..(Len(queue) - runningIdx)
          /\ runningIdx + (pendingIdx' + 1) = pendingIdx + 1
      BY <1>1, <1>2, <3>1
    <3>5. queue'[pendingIdx' + 1] = queue[pendingIdx + 1]
      BY <3>2, <3>4
    <3>6. PendingHead' = queue'[pendingIdx' + 1]
      BY <3>2, <3>3, <3>4 DEF PendingHead, Slot
    <3>7. Pending' > 0
      <4>1. Pending' = Len(queue') - pendingIdx'
        BY DEF Pending
      <4>2. pendingIdx' = pendingIdx - runningIdx /\ Len(queue') = Len(queue) - runningIdx
        BY <3>1, <3>2
      <4>3. QED
        BY <1>1, <1>2, <4>1, <4>2
    <3>8. QED
      BY <1>2, <3>5, <3>6, <3>7
  <2>3. QED
    BY <1>3, <2>1, <2>2
<1>6. QED
  BY <1>3, <1>4, <1>5

\* A request that is being given up is given up.
LEMMA GivenStays ==
  ASSUME TypeOK, Next
  PROVE  \A n : Given(n) => Given(n)'
<1> SUFFICES ASSUME NEW n, Given(n) PROVE Given(n)'
  OBVIOUS
<1>1. aborted \subseteq aborted' /\ stack \in Seq(Frames)
  BY NextEffects, TypeParts DEF Effects
<1>2. CASE AbortedFor(n)
  BY <1>1, <1>2 DEF Given, AbortedFor
<1>3. CASE ~AbortedFor(n)
  <2>1. PICK i \in DOMAIN stack, r \in Requests :
          Opt[r].name = n /\ stack[i] = Frame("fail", <<r>>)
    BY <1>3 DEF Given
  <2>2. PICK S, t : Pushes(S, t)
    BY NextPushes
  <2>3. PICK fs : stack' = fs \o t /\ fs \in Seq(Frames)
    BY <2>2 DEF Pushes, Moves, Pile
  <2>4. t \in Seq(Frames) /\ (t # stack => stack # <<>> /\ t = Caller)
    BY <2>2, PushesOn
  <2>5. ASSUME NEW j \in DOMAIN t, t[j] = stack[i] PROVE Given(n)'
    <3>1. Len(fs) + j \in DOMAIN stack' /\ stack'[Len(fs) + j] = t[j]
      BY <2>3, <2>4, CatElements
    <3>2. QED
      BY <2>1, <2>5, <3>1 DEF Given
  <2>6. CASE t = stack
    BY <2>5, <2>6
  <2>7. CASE t # stack /\ i # 1
    <3>1. /\ DOMAIN stack = 1..Len(stack) /\ Len(stack) \in Nat \ {0}
          /\ DOMAIN Caller = 1..(Len(stack) - 1)
          /\ \A j \in 1..(Len(stack) - 1) : Caller[j] = stack[j + 1]
      BY <1>1, <2>4, <2>7, EmptySeq, LenProperties, HeadTailProperties DEF Caller
    <3>2. i - 1 \in DOMAIN t /\ t[i - 1] = stack[i]
      BY <2>4, <2>7, <3>1
    <3>3. QED
      BY <2>5, <3>2
  <2>8. CASE t # stack /\ i = 1
    <3>1. stack # <<>> /\ Top = Frame("fail", <<r>>)
      BY <1>1, <2>1, <2>4, <2>8 DEF Top
    <3>2. Top.at = "fail" /\ Head(Top.reqs) = r
      BY <3>1 DEF Frame
    <3>3. FailNext
      BY <3>1, <3>2, FailAlone
    <3>4. r \in aborted'
      <4>1. CASE ErrorSkips(r)
        BY <1>1, <4>1, NullAssumption DEF ErrorSkips
      <4>2. CASE ~ErrorSkips(r)
        BY <3>2, <3>3, <4>2 DEF FailNext, Aborts
      <4>3. QED
        BY <4>1, <4>2
    <3>5. QED
      BY <2>1, <3>4 DEF Given, AbortedFor
  <2>9. QED
    BY <2>6, <2>7, <2>8
<1>4. QED
  BY <1>2, <1>3

\* Among the steps that take requests out of the queue, each one that can run
\* while the connector is at work leaves one for the name it works on.
LEMMA AimedStep ==
  ASSUME TypeOK, Nesting, Shape(stack), Core, Aimed, Clean, Retried, Next
  PROVE  Aimed'
<1> DEFINE Wants == /\ Pending > 0 /\ PendingHead # Null
                    /\ Opt[PendingHead].name = serverName /\ sock.name = serverName
<1> SUFFICES ASSUME Secure, connecting' = "dialing", ~destroyed'
             PROVE  Given(sock.name)' \/ Wants'
  BY DEF Aimed
<1>1. Effects /\ ~destroyed /\ stack \in Seq(Frames) /\ sock \in Socks
      /\ aborted \subseteq aborted'
  BY NextEffects, TypeParts DEF Effects
<1>2. CASE PickConnect
  <2>1. /\ Pending > 0 /\ PendingHead # Null /\ UNCHANGED qVars
        /\ serverName' = Opt[PendingHead].name
    BY <1>2 DEF PickConnect, HasCandidate
  <2>2. PICK n : sock' = [NoSock EXCEPT !.name = n] /\ n = Opt[PendingHead].name
    BY <1>2 DEF PickConnect
  <2>3. sock'.name = n
    BY <2>2 DEF NoSock
  <2>4. Pending' > 0 /\ PendingHead' = PendingHead
    BY <2>1 DEF qVars, Pending, PendingHead
  <2>5. QED
    BY <2>1, <2>2, <2>3, <2>4
<1>3. CASE ~PickConnect
  <2>1. connecting = "dialing"
    BY <1>1, <1>3 DEF Effects
  <2>2. ~ctx /\ sock.st = "none" /\ On(stack) \cap OfSocket = {}
    BY <1>1, <2>1, Dialing
  <2>3. ASSUME NEW label, stack # <<>>, Top.at = label
        PROVE  label \in On(stack)
    BY <1>1, <2>3, OnTop
  <2>4. ~WriteHead /\ ~Advance /\ ~AfterEnd
    <3>1. WriteHead \/ Advance \/ AfterEnd => stack # <<>> /\ Top.at \in OfSocket
      BY DEF WriteHead, Advance, AfterEnd, At, OfSocket
    <3>2. QED
      BY <2>2, <2>3, <3>1
  <2>5. ~Splice
    <3>1. Splice => stack # <<>> /\ Top.at = "splice"
      BY DEF Splice, At
    <3>2. QED
      BY <1>1, <2>1, <2>3, <3>1 DEF Clean
  <2>6. ~ResponseUpgrade /\ ~SocketClose /\ ~SocketError /\ ~SocketReset
    BY <2>2 DEF ResponseUpgrade, SocketClose, SocketError, SocketReset, Live
  <2>7. ~ConnectOK /\ \A e : ~ConnectFail(e)
    BY DEF ConnectOK, ConnectFail
  <2>8. sock'.name = sock.name
    BY <1>1, <1>3, <2>2, <2>4, <2>7 DEF Effects, Disconnects, Remains
  <2>9. PICK n : n = sock.name
    OBVIOUS
  <2>10. Given(n)' => Given(sock.name)'
    BY <2>8, <2>9 DEF Given, AbortedFor
  <2>11. CASE Given(n)
    BY <2>10, <2>11, GivenStays
  <2>12. CASE Wants
    <3>1. serverName' = serverName
      <4>1. ~PickRename
        BY <2>12 DEF PickRename, Renames
      <4>2. QED
        BY <1>1, <1>3, <4>1 DEF Effects
    <3>2. PendingHead \in Requests
      BY <2>12, TypeParts DEF Slots
    <3>3. CASE PickAborted
      <4>1. PendingHead \in aborted'
        BY <1>1, <3>3 DEF PickAborted
      <4>2. QED
        BY <2>9, <2>10, <2>12, <4>1 DEF Given, AbortedFor
    <3>4. CASE FailAltname
      <4>1. stack' = Fail(<<PendingHead>>) \o stack
        BY <2>12, <3>4 DEF FailAltname, Call
      <4>2. PICK f : f = Frame("fail", <<PendingHead>>)
        OBVIOUS
      <4>3. f \in Frames /\ Fail(<<PendingHead>>) = <<f>>
        <5>1. <<PendingHead>> \in Seq(Slots) /\ <<PendingHead>> # <<>>
          BY <3>2 DEF Slots
        <5>2. QED
          BY <4>2, <5>1, FrameTypes, PlainLabelsAre DEF Fail
      <4>4. <<f>> \in Seq(Frames) /\ Len(<<f>>) = 1 /\ <<f>>[1] = f
        BY <4>3
      <4>5. 1 \in DOMAIN stack' /\ stack'[1] = f
        <5>1. 1 \in 1..(Len(<<f>>) + Len(stack)) /\ 1 \in 1..Len(<<f>>)
          BY <1>1, <4>4, LenProperties
        <5>2. DOMAIN (<<f>> \o stack) = 1..(Len(<<f>>) + Len(stack))
              /\ (<<f>> \o stack)[1] = <<f>>[1]
          BY <1>1, <4>4, <5>1, CatElements
        <5>3. stack' = <<f>> \o stack
          BY <4>1, <4>3
        <5>4. QED
          BY <4>4, <5>1, <5>2, <5>3
      <4>6. QED
        BY <2>9, <2>10, <2>12, <3>2, <4>2, <4>5 DEF Given
    <3>5. CASE CloseEnd
      <4>1. /\ queue' = queue /\ runningIdx' = runningIdx /\ pendingIdx' = runningIdx
            /\ "closeEnd" \in On(stack)
        BY <2>3, <3>5 DEF CloseEnd, At
      <4>2. /\ queue \in Seq(Slots) /\ Len(queue) \in Nat /\ DOMAIN queue = 1..Len(queue)
            /\ pendingIdx \in Int /\ runningIdx \in Nat /\ runningIdx <= pendingIdx
        BY TypeParts, LenProperties DEF Core, Bounds
      <4>3. CASE runningIdx = pendingIdx
        <5>1. Pending' = Pending /\ PendingHead' = PendingHead
          BY <4>1, <4>3 DEF Pending, PendingHead
        <5>2. QED
          BY <2>8, <2>12, <3>1, <5>1
      <4>4. CASE runningIdx < pendingIdx
        <5>1. /\ runningIdx + 1 \in (runningIdx + 1)..pendingIdx
              /\ runningIdx + 1 \in 1..Len(queue)
          BY <1>1, <4>1, <4>2, <4>4 DEF Retried
        <5>2. queue[runningIdx + 1] # Null /\ Opt[queue[runningIdx + 1]].name = serverName
          BY <1>1, <4>1, <5>1 DEF Retried
        <5>3. PendingHead' = queue[runningIdx + 1]
          BY <4>1, <4>2, <5>1 DEF PendingHead, Slot
        <5>4. Pending' > 0
          BY <4>1, <4>2, <5>1 DEF Pending
        <5>5. QED
          BY <2>8, <2>12, <3>1, <5>2, <5>3, <5>4
      <4>5. QED
        BY <4>2, <4>3, <4>4
    <3>6. CASE UNCHANGED qVars \/ (\E r \in Requests : Dispatch(r)) \/ Exit
      <4>1. Pending' > 0 /\ PendingHead' = PendingHead
        BY <2>12, <3>6, HeadStays
      <4>2. QED
        BY <2>8, <2>12, <3>1, <4>1
    <3>7. ~BeginDestroy
      BY DEF BeginDestroy
    <3>8. QED
      BY <2>4, <2>5, <2>6, <2>7, <3>3, <3>4, <3>5, <3>6, <3>7, QueueChanges
  <2>13. QED
    BY <1>1, <2>1, <2>9, <2>11, <2>12 DEF Aimed
<1>4. QED
  BY <1>2, <1>3

\* When a socket closes what was on the wire wants kServerName; until it is
\* pending again the loop neither adds to it nor takes from it.
LEMMA RetriedStep ==
  ASSUME TypeOK, Nesting, Shape(stack), Core, WireFits, Retried, Next
  PROVE  Retried'
<1> SUFFICES ASSUME Secure, ~destroyed', "closeEnd" \in On(stack')
             PROVE  /\ pendingIdx' <= Len(queue')
                    /\ \A k \in (runningIdx' + 1)..pendingIdx' :
                         queue'[k] # Null /\ Opt[queue'[k]].name = serverName'
  BY DEF Retried
<1>1. Effects /\ ~destroyed /\ stack \in Seq(Frames) /\ sock \in Socks
  BY NextEffects, TypeParts DEF Effects
<1>2. /\ queue \in Seq(Slots) /\ Len(queue) \in Nat /\ DOMAIN queue = 1..Len(queue)
      /\ pendingIdx \in Int /\ runningIdx \in Nat
      /\ runningIdx <= pendingIdx /\ runningIdx <= Len(queue)
      /\ Running = pendingIdx - runningIdx
  BY TypeParts, LenProperties DEF Core, Bounds, Running
<1>3. CASE SocketClose
  <2>1. /\ stack = <<>> /\ pendingIdx' = pendingIdx /\ serverName' = serverName
        /\ sock.st # "none"
        /\ queue' = (IF FailsHead THEN [queue EXCEPT ![runningIdx + 1] = Null] ELSE queue)
        /\ runningIdx' = (IF FailsHead THEN runningIdx + 1 ELSE runningIdx)
    BY <1>1, <1>3 DEF SocketClose, Quiet
  <2>2. /\ Len(wire) = Running /\ runningIdx + Len(wire) <= Len(queue)
        /\ \A k \in 1..Len(wire) : queue[runningIdx + k] = wire[k]
    BY <2>1, NothingOn DEF Core, WireMatches
  <2>3. \A k \in 1..Len(wire) : wire[k] \in Requests /\ Opt[wire[k]].name = serverName
    BY ElementOfSeq DEF TypeOK, WireFits, Named
  <2>4. ASSUME NEW k \in (runningIdx + 1)..pendingIdx
        PROVE  queue[k] # Null /\ Opt[queue[k]].name = serverName
    <3>1. k - runningIdx \in 1..Len(wire) /\ runningIdx + (k - runningIdx) = k
      BY <1>2, <2>2
    <3>2. queue[k] = wire[k - runningIdx]
      BY <2>2, <3>1
    <3>3. QED
      BY <2>3, <3>1, <3>2, NullAssumption
  <2>5. pendingIdx <= Len(queue)
    BY <1>2, <2>2
  <2>6. CASE ~FailsHead
    BY <2>1, <2>4, <2>5, <2>6
  <2>7. CASE FailsHead
    <3>1. /\ queue' = [queue EXCEPT ![runningIdx + 1] = Null]
          /\ runningIdx' = runningIdx + 1
      BY <2>1, <2>7
    <3>2. /\ Len(queue') = Len(queue)
          /\ \A k \in (runningIdx + 2)..pendingIdx : queue'[k] = queue[k]
      BY <1>2, <2>5, <3>1, ExceptSeq
    <3>3. \A k \in (runningIdx' + 1)..pendingIdx' :
            k \in (runningIdx + 2)..pendingIdx /\ k \in (runningIdx + 1)..pendingIdx
      BY <1>2, <2>1, <3>1
    <3>4. QED
      BY <2>1, <2>4, <2>5, <3>2, <3>3
  <2>8. QED
    BY <2>6, <2>7
<1>4. CASE ~SocketClose
  <2>1. "closeEnd" \in On(stack)
    <3>1. PICK S, t : Pushes(S, t)
      BY NextPushes
    <3>2. On(t) \subseteq On(stack) /\ On(stack') \subseteq S \cup On(t)
      BY <3>1, PushesOn
    <3>3. "closeEnd" \notin S
      BY <1>4, <3>1 DEF Pushes, Listed
    <3>4. QED
      BY <3>2, <3>3
  <2>2. stack # <<>>
    BY <2>1, NothingOn
  <2>3. sock.st = "none" /\ On(stack) \cap OfSocket = {}
    BY <2>1 DEF Core, WireMatches, NoWire
  <2>4. "advance" \notin On(stack) /\ Counted = Running
    BY <2>3 DEF OfSocket, Counted
  <2>5. /\ pendingIdx <= Len(queue)
        /\ \A k \in (runningIdx + 1)..pendingIdx :
             queue[k] # Null /\ Opt[queue[k]].name = serverName
    BY <1>1, <2>1 DEF Retried
  <2>6. ASSUME NEW label, Top.at = label PROVE label \in On(stack)
    BY <1>1, <2>2, <2>6, OnTop
  <2>7. ~Advance /\ ~AfterEnd
    <3>1. Advance \/ AfterEnd => Top.at \in OfSocket
      BY DEF Advance, AfterEnd, At, OfSocket
    <3>2. QED
      BY <2>3, <2>6, <3>1
  <2>8. ~CloseEnd
    <3>1. SUFFICES ASSUME CloseEnd PROVE FALSE
      OBVIOUS
    <3>2. Top.at = "closeEnd"
      BY <3>1 DEF CloseEnd, At
    <3>3. Caller \in Seq(Frames) /\ "closeEnd" \notin On(Caller)
      BY <2>2, <3>2, ShapeTop DEF Finishing
    <3>4. Moves({"disconnect", "resume"}, Caller)
      BY <3>1, QueueFrameMoves
    <3>5. QED
      BY <3>3, <3>4, MovesOn
  <2>9. ~ResponseUpgrade /\ ~SocketError /\ ~SocketReset /\ \A e : ~ConnectFail(e)
    BY <2>2 DEF ResponseUpgrade, SocketError, SocketReset, ConnectFail, Quiet
  <2>10. serverName' = serverName \/ (UNCHANGED qVars /\ Running <= 0)
    <3>1. PickRename => UNCHANGED qVars /\ Running <= 0
      BY DEF PickRename
    <3>2. PickConnect => serverName' = serverName
      BY DEF PickConnect, Renames
    <3>3. serverName' = serverName \/ PickRename \/ PickConnect
      BY <1>1 DEF Effects
    <3>4. QED
      BY <3>1, <3>2, <3>3
  <2>11. CASE UNCHANGED qVars
    <3>1. queue' = queue /\ runningIdx' = runningIdx /\ pendingIdx' = pendingIdx
      BY <2>11 DEF qVars
    <3>2. CASE serverName' = serverName
      BY <2>5, <3>1, <3>2
    <3>3. CASE Running <= 0
      <4>1. (runningIdx' + 1)..pendingIdx' = {}
        BY <1>2, <3>1, <3>3
      <4>2. QED
        BY <2>5, <3>1, <4>1
    <3>4. QED
      BY <2>10, <3>2, <3>3
  <2>12. CASE ~(UNCHANGED qVars) /\ PrefixKept
    <3>1. /\ runningIdx' = runningIdx /\ pendingIdx' = pendingIdx
          /\ \A k \in 1..Len(queue) :
               k <= pendingIdx => k <= Len(queue') /\ queue'[k] = queue[k]
      BY <1>2, <2>4, <2>12 DEF PrefixKept
    <3>2. \A k \in (runningIdx + 1)..pendingIdx : k \in 1..Len(queue) /\ k <= pendingIdx
      BY <1>2, <2>5
    <3>3. pendingIdx <= Len(queue')
      <4>1. queue' \in Seq(Slots) /\ Len(queue') \in Nat
        BY <2>12, LenProperties DEF PrefixKept
      <4>2. CASE pendingIdx \in 1..Len(queue)
        BY <3>1, <4>2
      <4>3. CASE pendingIdx <= 0
        BY <1>2, <4>1, <4>3
      <4>4. QED
        BY <1>2, <2>5, <4>2, <4>3
    <3>4. serverName' = serverName
      BY <2>10, <2>12
    <3>5. QED
      BY <2>5, <3>1, <3>2, <3>3, <3>4
  <2>13. CASE Exit /\ Compact
    <3>1. /\ queue' = From(queue, runningIdx) /\ pendingIdx' = pendingIdx - runningIdx
          /\ runningIdx' = 0
      BY <2>13 DEF Compact
    <3>2. /\ Len(queue') = Len(queue) - runningIdx
          /\ \A k \in 1..(Len(queue) - runningIdx) : queue'[k] = queue[runningIdx + k]
      BY <1>2, <3>1, SpliceElements
    <3>3. serverName' = serverName
      BY <2>13 DEF Exit, connVars
    <3>4. ASSUME NEW k \in (runningIdx' + 1)..pendingIdx'
          PROVE  queue'[k] # Null /\ Opt[queue'[k]].name = serverName'
      <4>1. /\ k \in 1..(Len(queue) - runningIdx)
            /\ runningIdx + k \in (runningIdx + 1)..pendingIdx
        BY <1>2, <2>5, <3>1
      <4>2. queue'[k] = queue[runningIdx + k]
        BY <3>2, <4>1
      <4>3. QED
        BY <2>5, <3>3, <4>1, <4>2
    <3>5. pendingIdx' <= Len(queue')
      BY <1>2, <2>5, <3>1, <3>2
    <3>6. QED
      BY <3>4, <3>5
  <2>14. (\E r \in Requests : Dispatch(r)) => PrefixKept
    <3>1. ASSUME NEW r \in Requests, Dispatch(r)
          PROVE  /\ queue' = Append(queue, r)
                 /\ runningIdx' = runningIdx /\ pendingIdx' = pendingIdx
      BY <3>1 DEF Dispatch
    <3>2. QED
      BY <3>1, AppendKeeps
  <2>15. PickAborted \/ Splice \/ FailAltname => UNCHANGED qVars \/ PrefixKept
    <3>1. PickAborted \/ Splice \/ FailAltname =>
            \/ UNCHANGED qVars
            \/ /\ queue' = WithoutAt(queue, pendingIdx)
               /\ runningIdx' = runningIdx /\ pendingIdx' = pendingIdx
      BY DEF PickAborted, Splice, FailAltname, qVars
    <3>2. QED
      BY <2>4, <3>1, WithoutKeeps DEF Core
  <2>16. Exit => UNCHANGED qVars \/ Compact
    BY DEF Exit
  <2>17. ~BeginDestroy
    BY DEF BeginDestroy
  <2>18. QED
    BY <1>4, <2>7, <2>8, <2>9, <2>11, <2>12, <2>13, <2>14, <2>15, <2>16, <2>17,
       QueueChanges
<1>5. QED
  BY <1>3, <1>4

----------------------------------------------------------------------------
(* The theorem.                                                             *)

ShareInv ==
  /\ WireInv
  /\ NoAltname /\ FailsApart /\ Wanted /\ WireFits
  /\ WriteFits /\ Counter /\ SockName
  /\ Aimed /\ Clean /\ Retried

LEMMA InitShare == Init => ShareInv
<1> SUFFICES ASSUME Init PROVE ShareInv
  OBVIOUS
<1>1. WireInv
  BY InitWire
<1>2. /\ stack = <<>> /\ wire = <<>> /\ sock = NoSock /\ connecting = "no"
  BY DEF Init
<1>3. /\ On(stack) = {} /\ ~Live /\ sock.counter = 0 /\ Len(wire) = 0
      /\ DOMAIN stack = {}
  BY <1>2, NothingOn DEF Live, NoSock
<1>4. NoAltname /\ FailsApart /\ Wanted /\ WireFits
  BY <1>3 DEF NoAltname, FailsApart, Wanted, WireFits
<1>5. WriteFits /\ Counter /\ SockName
  BY <1>3, NumberAssumption DEF WriteFits, Counter, SockName
<1>6. Aimed /\ Clean /\ Retried
  BY <1>2, <1>3 DEF Aimed, Clean, Retried
<1>7. QED
  BY <1>1, <1>4, <1>5, <1>6 DEF ShareInv

LEMMA ShareStep ==
  ASSUME CarefulUser, ShareInv, [Next]_vars
  PROVE  ShareInv'
<1>1. WireInv'
  BY WireStep DEF ShareInv
<1>2. CASE Next
  <2>1. TypeOK /\ Nesting /\ Shape(stack) /\ Core
    BY DEF ShareInv, WireInv
  <2>2. NoAltname' /\ FailsApart' /\ Wanted' /\ WireFits'
    BY <1>2, <2>1, NoAltnameStep, FailsApartStep, WantedStep, WireFitsStep DEF ShareInv
  <2>3. WriteFits' /\ Counter' /\ SockName'
    BY <1>2, <2>1, WriteFitsStep, CounterStep, SockNameStep DEF ShareInv
  <2>4. Aimed' /\ Clean' /\ Retried'
    BY <1>2, <2>1, AimedStep, CleanStep, RetriedStep DEF ShareInv
  <2>5. QED
    BY <1>1, <2>2, <2>3, <2>4 DEF ShareInv
<1>3. CASE UNCHANGED vars
  <2>1. UNCHANGED <<queue, runningIdx, pendingIdx, connecting, ctx, serverName, sock,
                    destroyed, stack, aborted, wire>>
    BY <1>3 DEF vars, qVars, connVars, lifeVars, reqVars, histVars
  <2>2. NoAltname' /\ FailsApart' /\ Wanted' /\ WireFits'
    BY <2>1 DEF ShareInv, NoAltname, FailsApart, Wanted, WireFits, Named, Live, AbortedFor
  <2>3. WriteFits' /\ Counter' /\ SockName'
    BY <2>1 DEF ShareInv, WriteFits, Ready, Named, Running, Counter, SockName, Live,
       AbortedFor
  <2>4. Aimed' /\ Clean' /\ Retried'
    BY <2>1 DEF ShareInv, Aimed, Clean, Retried, Pending, PendingHead, Given, AbortedFor
  <2>5. QED
    BY <1>1, <2>2, <2>3, <2>4 DEF ShareInv
<1>4. QED
  BY <1>2, <1>3

LEMMA ShareMeans ==
  ASSUME ShareInv
  PROVE  ConnectionShared
<1>1. wire \in Seq(Requests) /\ Len(wire) \in Nat /\ DOMAIN wire = 1..Len(wire)
  BY LenProperties DEF ShareInv, WireInv, TypeOK
<1>2. NothingUnwanted
  <2> SUFFICES ASSUME stack = <<>>, Live PROVE \A r \in Range(wire) : r \notin aborted
    BY DEF NothingUnwanted, AtRest
  <2>1. On(stack) = {}
    BY NothingOn
  <2>2. QED
    BY <2>1 DEF ShareInv, Wanted
<1>3. NothingHeldUp
  <2> SUFFICES ASSUME NEW i \in 2..Len(wire) PROVE Joins(wire[i])
    BY DEF NothingHeldUp, Joins
  <2>1. i \in 1..Len(wire) /\ i > 1
    BY <1>1
  <2>2. QED
    BY <2>1 DEF ShareInv, WireFits
<1>4. WithinMaxRequests
  BY DEF ShareInv, Counter, WithinMaxRequests
<1>5. OneServerName
  <2> SUFFICES ASSUME Secure, NEW i \in 1..Len(wire)
               PROVE  /\ Opt[wire[i]].name = serverName
                      /\ Opt[wire[i]].name = sock.name \/ AbortedFor(sock.name)
    BY <1>1 DEF OneServerName, Range
  <2>1. QED
    BY DEF ShareInv, WireFits, Named
<1>6. QED
  BY <1>2, <1>3, <1>4, <1>5 DEF ConnectionShared

(* A connection is shared only by requests that may share it: between jobs  *)
(* none of them was aborted, those behind the first can be retried and do   *)
(* not take the connection over, there are no more than maxRequests, and    *)
(* over TLS they all want kServerName, which is the name the connection was *)
(* opened for unless a request for that name was aborted or has failed      *)
(* (busy(request), _resume and connect).  CarefulUser excludes destroy()    *)
(* within onResponseError and onRequestSent.                                *)
THEOREM ConnectionIsShared == CarefulUser /\ Spec => []ConnectionShared
<1> SUFFICES ASSUME CarefulUser PROVE Spec => []ConnectionShared
  OBVIOUS
<1>1. Init => ShareInv
  BY InitShare
<1>2. ShareInv /\ [Next]_vars => ShareInv'
  BY ShareStep
<1>3. ShareInv => ConnectionShared
  BY ShareMeans
<1>4. QED
  BY <1>1, <1>2, <1>3, PTL DEF Spec
=============================================================================

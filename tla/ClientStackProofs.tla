-------------------------- MODULE ClientStackProofs -------------------------
(***************************************************************************)
(* The types and the call stack of Client, for every value of its          *)
(* constants and whatever the user calls from within the callbacks: the    *)
(* state is type correct, resume() never runs within resume(), and which   *)
(* frames may lie above which others.  The last part starts with a table   *)
(* of what every action does to the stack.                                 *)
(***************************************************************************)
EXTENDS Client, SequenceTheorems, TLAPS

Slots == Requests \cup {Null}

\* The labels of frames that hold any number of requests.
PlainLabels == Labels \ RequestLabels

----------------------------------------------------------------------------
(* The operators on frames and on the call stack.                           *)

LEMMA PlainLabelsAre ==
  {"sent", "drain", "connect", "disconnect", "connectionError", "loop", "busy",
   "pick", "advance", "splice", "exit", "resume", "fail", "failAltname",
   "checkEmpty", "destroyEnd", "closeEnd", "destroyCallback", "abortSocket",
   "complete", "afterEnd", "endBody", "writerFail"} = PlainLabels
BY DEF PlainLabels, Labels, RequestLabels, Callbacks, LoopLabels

LEMMA RequestLabelsAre ==
  /\ "start" \in RequestLabels /\ "headers" \in RequestLabels
  /\ "end" \in RequestLabels /\ "upgrade" \in RequestLabels
  /\ "error" \in RequestLabels /\ "write" \in RequestLabels
  /\ "afterHeaders" \in RequestLabels /\ "upgradeCall" \in RequestLabels
  /\ "upgraded" \in RequestLabels
BY DEF RequestLabels

LEMMA FrameTypes ==
  /\ \A at \in PlainLabels : Do(at) \in Frames
  /\ \A at \in PlainLabels, rs \in Seq(Slots) : Frame(at, rs) \in Frames
  /\ \A at \in RequestLabels, r \in Requests : Frame(at, <<r>>) \in Frames
BY DEF PlainLabels, Slots, Do, Frame, Frames

LEMMA LoopTypes ==
  ASSUME NEW sync \in BOOLEAN
  PROVE  Loop(sync) \in Frames
BY PlainLabelsAre DEF Loop, Frames, PlainLabels

\* Sequences of one, two and three frames.
LEMMA FewFrames ==
  /\ <<>> \in Seq(Frames)
  /\ \A f \in Frames : <<f>> \in Seq(Frames)
  /\ \A f, g \in Frames : <<f, g>> \in Seq(Frames)
  /\ \A f, g, h \in Frames : <<f, g, h>> \in Seq(Frames)
OBVIOUS

LEMMA FrameFields ==
  ASSUME NEW f \in Frames
  PROVE  /\ f.at \in Labels /\ f.reqs \in Seq(Slots) /\ f.sync \in BOOLEAN
         /\ f.at \in RequestLabels => f.reqs # <<>> /\ f.reqs[1] \in Requests
<1>1. RequestLabels \subseteq Labels
  BY DEF RequestLabels, Labels, Callbacks, LoopLabels
<1>2. CASE f \in [at: PlainLabels, reqs: Seq(Slots), sync: BOOLEAN]
  BY <1>2 DEF PlainLabels
<1>3. CASE f \in [at: RequestLabels, reqs: {<<r>> : r \in Requests}, sync: BOOLEAN]
  <2>1. PICK r \in Requests : f.reqs = <<r>>
    BY <1>3
  <2>2. f.reqs \in Seq(Slots)
    BY <2>1 DEF Slots
  <2>3. QED
    BY <1>1, <1>3, <2>1, <2>2
<1>4. QED
  BY <1>2, <1>3 DEF Frames, PlainLabels, Slots

\* The innermost frame and its caller.
LEMMA TopType ==
  ASSUME stack \in Seq(Frames), stack # <<>>
  PROVE  /\ Top \in Frames /\ Caller \in Seq(Frames)
         /\ Top.at \in Labels /\ Top.reqs \in Seq(Slots) /\ Top.sync \in BOOLEAN
         /\ Top.at \in RequestLabels =>
              Top.reqs # <<>> /\ Top.reqs[1] \in Requests
<1>1. Top \in Frames /\ Caller \in Seq(Frames)
  BY HeadTailProperties DEF Top, Caller
<1>2. QED
  BY <1>1, FrameFields

LEMMA PushType ==
  ASSUME stack \in Seq(Frames), NEW fs \in Seq(Frames)
  PROVE  /\ Call(fs) \in Seq(Frames)
         /\ stack # <<>> => Become(fs) \in Seq(Frames)
<1>1. stack # <<>> => Caller \in Seq(Frames)
  BY TopType
<1>2. QED
  BY <1>1, ConcatProperties DEF Call, Become

LEMMA GotoType ==
  ASSUME stack \in Seq(Frames), stack # <<>>, NEW label \in PlainLabels
  PROVE  Goto(label) \in Seq(Frames)
<1>1. Moved(label, <<>>) \in Frames
  BY TopType DEF Moved, Frames, PlainLabels, Slots
<1>2. QED
  BY <1>1, TopType, ConcatProperties DEF Goto

LEMMA FailType ==
  ASSUME NEW rs \in Seq(Slots)
  PROVE  Fail(rs) \in Seq(Frames)
<1>1. "fail" \in PlainLabels
  BY DEF PlainLabels, Labels, RequestLabels, Callbacks, LoopLabels
<1>2. QED
  BY <1>1, FrameTypes DEF Fail

LEMMA AbortFramesType ==
  ASSUME NEW r \in Requests
  PROVE  AbortFrames(r) \in Seq(Frames)
<1>1. Frame("error", <<r>>) \in Frames /\ Do("abortSocket") \in Frames
  BY FrameTypes DEF PlainLabels, Labels, RequestLabels, Callbacks, LoopLabels
<1>2. QED
  BY <1>1, ConcatProperties DEF AbortFrames

\* splice() keeps the type of the queue.
LEMMA SpliceTypes ==
  ASSUME NEW S, NEW q \in Seq(S), NEW i \in Int
  PROVE  /\ From(q, i) \in Seq(S)
         /\ Upto(q, i) \in Seq(S)
         /\ WithoutAt(q, i) \in Seq(S)
<1>1. ASSUME NEW k \in Int PROVE From(q, k) \in Seq(S) /\ Upto(q, k) \in Seq(S)
  <2>1. \A m, n \in Int : m >= 1 /\ n <= Len(q) => SubSeq(q, m, n) \in Seq(S)
    <3> SUFFICES ASSUME NEW m \in Int, NEW n \in Int, m >= 1, n <= Len(q)
                 PROVE  SubSeq(q, m, n) \in Seq(S)
      OBVIOUS
    <3>1. \A j \in m .. n : q[j] \in S
      BY ElementOfSeq
    <3>2. QED
      BY <3>1, SubSeqProperties
  <2>2. QED
    BY <2>1, LenProperties DEF From, Upto
<1>2. i + 1 \in Int
  OBVIOUS
<1>3. QED
  BY <1>1, <1>2, ConcatProperties DEF WithoutAt

LEMMA SlotType ==
  ASSUME NEW q \in Seq(Slots), NEW i \in Int
  PROVE  Slot(q, i) \in Slots /\ (Slot(q, i) # Null => i + 1 \in 1..Len(q))
<1>1. DOMAIN q = 1..Len(q)
  BY LenProperties
<1>2. QED
  BY <1>1, ElementOfSeq DEF Slot, Slots

LEMMA KillType ==
  ASSUME NEW s \in Socks, NEW e \in {"info", "socket", "other"}
  PROVE  Kill(s, e) \in Socks
<1>1. [s EXCEPT !.st = "dying"] \in Socks
  BY DEF Socks
<1>2. [[s EXCEPT !.st = "dying"] EXCEPT !.err = e] \in Socks
  BY <1>1 DEF Socks
<1>3. s.st = "live" => Kill(s, e) = [[s EXCEPT !.st = "dying"] EXCEPT !.err = e]
  BY DEF Kill, Socks
<1>4. QED
  BY <1>2, <1>3 DEF Kill

----------------------------------------------------------------------------
(* Type correctness.                                                        *)

LEMMA CountType ==
  ASSUME NEW f \in [Requests -> Nat], NEW r \in Requests
  PROVE  /\ [f EXCEPT ![r] = @ + 1] \in [Requests -> Nat]
         /\ [f EXCEPT ![r] = @] \in [Requests -> Nat]
OBVIOUS

LEMMA NoSockType == NoSock \in Socks
BY DEF NoSock, Socks

LEMMA InitType == Init => TypeOK
<1> SUFFICES ASSUME Init PROVE TypeOK
  OBVIOUS
<1>1. NoSock \in Socks
  BY NoSockType
<1>2. /\ queue \in Seq(Requests \cup {Null}) /\ micro \in Seq(Tasks)
      /\ stack \in Seq(Frames) /\ dispatched \in Seq(Requests)
      /\ wire \in Seq(Requests)
  BY DEF Init
<1>3. /\ sent \in [Requests -> Nat] /\ heads \in [Requests -> Nat]
      /\ ends \in [Requests -> Nat]
  BY DEF Init
<1>4. /\ runningIdx \in Nat /\ pendingIdx \in Int /\ pipelining \in Nat
      /\ resuming \in 0..2 /\ needDrain \in 0..2
  BY NumberAssumption DEF Init
<1>5. /\ ctx \in BOOLEAN /\ closed \in BOOLEAN /\ destroyed \in BOOLEAN
      /\ immediate \in BOOLEAN
  BY DEF Init
<1>6. /\ aborted \subseteq Requests /\ completed \subseteq Requests
      /\ bodyErr \subseteq Requests
  BY DEF Init
<1>7. /\ connecting \in {"no", "dialing", "left"}
      /\ serverName \in Names \cup {NoName} /\ sock \in Socks
      /\ closing \in {"open", "waiting", "settled", "joined", "done"}
      /\ destroying \in {"no", "waiting", "done"}
  BY <1>1 DEF Init
<1>8. QED
  BY <1>2, <1>3, <1>4, <1>5, <1>6, <1>7 DEF TypeOK

LEMMA BeginDestroyType ==
  ASSUME TypeOK, BeginDestroy
  PROVE  /\ destroyed' \in BOOLEAN /\ destroying' \in {"no", "waiting", "done"}
         /\ queue' \in Seq(Requests \cup {Null}) /\ stack' \in Seq(Frames)
<1>1. From(queue, pendingIdx) \in Seq(Slots) /\ Upto(queue, pendingIdx) \in Seq(Slots)
  BY SpliceTypes DEF TypeOK, Slots
<1>2. Fail(From(queue, pendingIdx)) \in Seq(Frames)
  BY <1>1, FailType
<1>3. <<Do("destroyEnd")>> \in Seq(Frames)
  BY FrameTypes, PlainLabelsAre, FewFrames
<1>4. Call(Fail(From(queue, pendingIdx)) \o <<Do("destroyEnd")>>) \in Seq(Frames)
  BY <1>2, <1>3, ConcatProperties, PushType DEF TypeOK
<1>5. QED
  BY <1>1, <1>4 DEF BeginDestroy, Slots

LEMMA UserType == TypeOK /\ UserStep => TypeOK'
<1> SUFFICES ASSUME TypeOK, UserStep PROVE TypeOK'
  OBVIOUS
<1> USE DEF qVars, connVars, lifeVars, taskVars, reqVars, histVars
<1>a. stack \in Seq(Frames)
  BY DEF TypeOK
<1>b. Call(<<Loop(TRUE)>>) \in Seq(Frames)
  BY <1>a, LoopTypes, FewFrames, PushType
<1>1. ASSUME NEW r \in Requests, Dispatch(r) PROVE TypeOK'
  <2>1. micro' \in Seq(Tasks)
    BY <1>1, AppendProperties DEF TypeOK, Dispatch, Tasks
  <2>2. stack' \in Seq(Frames)
    BY <1>1, <1>a, <1>b DEF Dispatch
  <2>3. queue' \in Seq(Requests \cup {Null}) /\ dispatched' \in Seq(Requests)
    BY <1>1, AppendProperties DEF TypeOK, Dispatch
  <2>4. QED
    BY <1>1, <2>1, <2>2, <2>3 DEF TypeOK, Dispatch
<1>2. ASSUME NEW r \in Requests, DispatchRefused(r) PROVE TypeOK'
  <2>1. Call(<<Frame("error", <<r>>)>>) \in Seq(Frames)
    BY <1>a, FrameTypes, RequestLabelsAre, FewFrames, PushType
  <2>2. QED
    BY <1>2, <2>1, AppendProperties, SMTT(30) DEF TypeOK, DispatchRefused
<1>3. ASSUME NEW r \in Requests, Abort(r) PROVE TypeOK'
  BY <1>3, <1>a, AbortFramesType, PushType, SMTT(30) DEF TypeOK, Abort, Aborts
<1>4. ASSUME NEW value \in Pipelinings, SetPipelining(value) PROVE TypeOK'
  BY <1>4, <1>b, NumberAssumption DEF TypeOK, SetPipelining
<1>5. CASE Close
  BY <1>5, AppendProperties DEF TypeOK, Close, Tasks
<1>6. CASE Destroy
  BY <1>6, BeginDestroyType DEF TypeOK, Destroy
<1>7. QED
  BY <1>1, <1>2, <1>3, <1>4, <1>5, <1>6 DEF UserStep

\* The conjuncts every later step needs.
LEMMA TypeParts ==
  ASSUME TypeOK
  PROVE  /\ stack \in Seq(Frames) /\ sock \in Socks /\ queue \in Seq(Slots)
         /\ runningIdx \in Nat /\ pendingIdx \in Int
         /\ Pending \in Int /\ Running \in Int /\ Size \in Int
         /\ RunningHead \in Slots /\ PendingHead \in Slots
         /\ RunningHead # Null => runningIdx + 1 \in 1..Len(queue)
<1>1. /\ stack \in Seq(Frames) /\ sock \in Socks /\ queue \in Seq(Slots)
      /\ runningIdx \in Nat /\ pendingIdx \in Int
  BY DEF TypeOK, Slots
<1>2. Pending \in Int /\ Running \in Int /\ Size \in Int
  BY <1>1, LenProperties DEF Pending, Running, Size
<1>3. /\ RunningHead \in Slots /\ PendingHead \in Slots
      /\ RunningHead # Null => runningIdx + 1 \in 1..Len(queue)
  BY <1>1, SlotType DEF RunningHead, PendingHead
<1>4. QED
  BY <1>1, <1>2, <1>3

LEMMA ResumeH1Type ==
  ASSUME NEW s \in Socks
  PROVE  ResumeH1(s) \subseteq Socks
<1>1. [s EXCEPT !.idle = 1] \in Socks
  BY DEF Socks
<1>2. Timer(s) \in {"none", "headers", "body", "keepAlive"}
  BY DEF Timer, Socks
<1>3. [s EXCEPT !.timer = Timer(s)] \in Socks
  BY <1>2 DEF Socks
<1>4. QED
  BY <1>1, <1>3, KillType DEF ResumeH1

LEMMA FlaggedType ==
  ASSUME NEW s \in Socks, NEW r \in Requests
  PROVE  Flagged(s, r) \in Socks
<1>1. \A c \in Nat : [s EXCEPT !.counter = c] \in Socks
  BY DEF Socks
<1>2. \A t \in Socks, b \in BOOLEAN : [t EXCEPT !.reset = b] \in Socks
  BY DEF Socks
<1>3. \A t \in Socks, b \in BOOLEAN : [t EXCEPT !.blocking = b] \in Socks
  BY DEF Socks
<1>4. \A t \in Socks, b \in BOOLEAN : [t EXCEPT !.writing = b] \in Socks
  BY DEF Socks
<1>5. \A c \in Nat, b1, b2, b3 \in BOOLEAN :
        [[[[s EXCEPT !.counter = c] EXCEPT !.reset = b1] EXCEPT !.blocking = b2]
            EXCEPT !.writing = b3] \in Socks
  BY <1>1, <1>2, <1>3, <1>4
<1>6. \A c \in Nat, b1, b2, b3 \in BOOLEAN :
        [s EXCEPT !.counter = c, !.reset = b1, !.blocking = b2, !.writing = b3]
          \in Socks
  BY <1>5 DEF Socks
<1>7. s.counter \in Nat /\ s.blocking \in BOOLEAN /\ s.writing \in BOOLEAN
  BY DEF Socks
<1>8. Opt[r].blocking \in BOOLEAN
  BY OptAssumption DEF Options
<1>9. /\ (IF MaxRequests = 0 THEN s.counter ELSE s.counter + 1) \in Nat
      /\ (s.blocking \/ Opt[r].blocking) \in BOOLEAN
      /\ (s.writing \/ Opt[r].body = "stream") \in BOOLEAN
  BY <1>7, <1>8
<1>10. PICK c \in Nat, b1, b2, b3 \in BOOLEAN :
         Flagged(s, r) = [s EXCEPT !.counter = c, !.reset = b1,
                                   !.blocking = b2, !.writing = b3]
  BY <1>9 DEF Flagged
<1>11. QED
  BY <1>6, <1>10

LEMMA LoopType == TypeOK /\ (\/ Resume \/ LoopDestroyed \/ LoopClosed \/ LoopContext
                             \/ LoopBusy \/ LoopDrain \/ PickNothing
                             \/ PickAborted \/ PickRename \/ PickConnect
                             \/ PickWrite \/ WriteHead \/ Advance \/ Splice
                             \/ Exit)
                   => TypeOK'
<1> SUFFICES ASSUME TypeOK,
                    \/ Resume \/ LoopDestroyed \/ LoopClosed \/ LoopContext
                    \/ LoopBusy \/ LoopDrain \/ PickNothing \/ PickAborted
                    \/ PickRename \/ PickConnect \/ PickWrite \/ WriteHead
                    \/ Advance \/ Splice \/ Exit
             PROVE  TypeOK'
  OBVIOUS
<1> USE DEF qVars, connVars, lifeVars, taskVars, reqVars, histVars
<1>a. /\ stack \in Seq(Frames) /\ sock \in Socks /\ queue \in Seq(Slots)
      /\ runningIdx \in Nat /\ pendingIdx \in Int /\ PendingHead \in Slots
  BY TypeParts
<1>b. /\ stack # <<>> => \A label \in PlainLabels : Goto(label) \in Seq(Frames)
      /\ stack # <<>> => Caller \in Seq(Frames)
      /\ stack # <<>> => Top \in Frames
  BY <1>a, GotoType, TopType
<1>1. CASE Resume
  <2>1. Become(<<>>) \in Seq(Frames) /\ Become(<<Loop(FALSE)>>) \in Seq(Frames)
    BY <1>1, <1>a, LoopTypes, FewFrames, PushType DEF Resume, At
  <2>2. QED
    BY <1>1, <2>1 DEF TypeOK, Resume
<1>2. CASE LoopDestroyed
  BY <1>2, <1>b, PlainLabelsAre, ZenonT(40) DEF TypeOK, LoopDestroyed, At
<1>3. CASE LoopClosed
  BY <1>3, <1>b, PlainLabelsAre, AppendProperties DEF TypeOK, LoopClosed, At, Tasks
<1>4. CASE LoopContext
  BY <1>4, <1>a, <1>b, PlainLabelsAre, ResumeH1Type DEF TypeOK, LoopContext, At
<1>5. CASE LoopBusy
  BY <1>5, <1>b, PlainLabelsAre DEF TypeOK, LoopBusy, At
<1>6. CASE LoopDrain
  <2>1. <<>> \in Seq(Frames) /\ <<Do("drain")>> \in Seq(Frames)
        /\ Goto("loop") \in Seq(Frames)
    BY <1>6, <1>b, FrameTypes, PlainLabelsAre, FewFrames DEF LoopDrain, At
  <2>2. stack' \in Seq(Frames)
    BY <1>6, <2>1, ConcatProperties DEF LoopDrain
  <2>3. micro' \in Seq(Tasks)
    BY <1>6, AppendProperties DEF TypeOK, LoopDrain, Tasks
  <2>4. needDrain' \in 0..2
    BY <1>6 DEF LoopDrain
  <2>5. QED
    BY <1>6, <2>2, <2>3, <2>4 DEF TypeOK, LoopDrain
<1>7. CASE PickNothing
  BY <1>7, <1>b, PlainLabelsAre DEF TypeOK, PickNothing, At
<1>8. CASE PickAborted
  BY <1>8, <1>a, <1>b, PlainLabelsAre, SpliceTypes, ZenonT(40)
     DEF TypeOK, PickAborted, At, Slots
<1>9. CASE PickRename
  <2>1. PendingHead \in Requests
    BY <1>9, <1>a DEF PickRename, HasCandidate, Slots
  <2>2. serverName' \in Names \cup {NoName}
    BY <1>9, <2>1, OptAssumption DEF PickRename, Options
  <2>3. [Kill(sock, "info") EXCEPT !.onClose = @ \cup {"rename"}] \in Socks
    <3>1. Kill(sock, "info") \in Socks
      BY <1>a, KillType
    <3>2. QED
      BY <3>1 DEF Socks
  <2>4. sock' \in Socks
    BY <1>9, <1>a, <2>3 DEF PickRename
  <2>5. QED
    BY <1>9, <2>2, <2>4 DEF TypeOK, PickRename
<1>10. CASE PickConnect
  <2>1. PendingHead \in Requests
    BY <1>10, <1>a DEF PickConnect, HasCandidate, Slots
  <2>2. Opt[PendingHead].name \in Names
    BY <2>1, OptAssumption DEF Options
  <2>3. [NoSock EXCEPT !.name = Opt[PendingHead].name] \in Socks
    <3>1. \A s \in Socks, n \in Names : [s EXCEPT !.name = n] \in Socks
      BY DEF Socks
    <3>2. QED
      BY <2>2, <3>1, NoSockType
  <2>4. stack' \in Seq(Frames)
    BY <1>10, <1>b, PlainLabelsAre DEF PickConnect, At
  <2>5. QED
    BY <1>10, <2>2, <2>3, <2>4 DEF TypeOK, PickConnect
<1>11. CASE PickWrite
  <2>1. PendingHead \in Requests /\ stack # <<>>
    BY <1>11, <1>a DEF PickWrite, HasCandidate, Slots, At
  <2>2. /\ Moved("write", <<PendingHead>>) \in Frames
        /\ Moved("splice", <<>>) \in Frames
    <3>1. Top.sync \in BOOLEAN
      BY <1>a, <2>1, TopType
    <3>2. <<PendingHead>> \in {<<r>> : r \in Requests} /\ <<>> \in Seq(Requests \cup {Null})
      BY <2>1
    <3>3. "splice" \in Labels \ RequestLabels
      BY PlainLabelsAre DEF PlainLabels
    <3>4. QED
      BY <3>1, <3>2, <3>3, RequestLabelsAre DEF Moved, Frames
  <2>3. /\ Frame("start", <<PendingHead>>) \in Frames
        /\ Frame("error", <<PendingHead>>) \in Frames
        /\ Do("abortSocket") \in Frames
    BY <2>1, FrameTypes, RequestLabelsAre, PlainLabelsAre
  <2>4. Fail(<<PendingHead>>) \o <<Moved("splice", <<>>)>> \in Seq(Frames)
    <3>1. <<PendingHead>> \in Seq(Slots)
      BY <1>a
    <3>2. QED
      BY <3>1, <2>2, FewFrames, FailType, ConcatProperties
  <2>5. /\ Become(Fail(<<PendingHead>>) \o <<Moved("splice", <<>>)>>) \in Seq(Frames)
        /\ Become(<<Frame("error", <<PendingHead>>), Do("abortSocket"),
                    Moved("splice", <<>>)>>) \in Seq(Frames)
        /\ Become(<<Frame("start", <<PendingHead>>),
                    Moved("write", <<PendingHead>>)>>) \in Seq(Frames)
    BY <1>a, <2>1, <2>2, <2>3, <2>4, FewFrames, PushType
  <2>6. [sock EXCEPT !.idle = 0] \in Socks
    BY <1>a DEF Socks
  <2>7. stack' \in Seq(Frames) /\ sock' \in Socks
    BY <1>11, <1>a, <2>5, <2>6 DEF PickWrite
  <2>8. aborted' \subseteq Requests /\ ends' \in [Requests -> Nat]
    <3>1. UNCHANGED <<aborted, ends>> \/ Aborts(PendingHead)
      BY <1>11 DEF PickWrite
    <3>2. aborted \subseteq Requests /\ ends \in [Requests -> Nat]
      BY DEF TypeOK
    <3>3. QED
      BY <2>1, <3>1, <3>2, CountType DEF Aborts
  <2>9. QED
    BY <1>11, <2>7, <2>8 DEF TypeOK, PickWrite
<1>12. CASE WriteHead
  <2>1. Top.reqs[1] \in Requests /\ stack # <<>>
    BY <1>12, <1>a, TopType, RequestLabelsAre DEF WriteHead, At
  <2>2. /\ Goto("splice") \in Seq(Frames) /\ Goto("advance") \in Seq(Frames)
        /\ <<Frame("sent", <<Top.reqs[1]>>)>> \in Seq(Frames)
    <3>1. <<Top.reqs[1]>> \in Seq(Slots)
      BY <2>1 DEF Slots
    <3>2. QED
      BY <1>b, <2>1, <3>1, FrameTypes, PlainLabelsAre, FewFrames
  <2>3. stack' \in Seq(Frames)
    <3>1. <<Frame("sent", <<Top.reqs[1]>>)>> \o Goto("advance") \in Seq(Frames)
      BY <2>2, ConcatProperties
    <3>2. QED
      BY <1>12, <2>2, <3>1 DEF WriteHead
  <2>4. sock' \in Socks /\ wire' \in Seq(Requests) /\ sent' \in [Requests -> Nat]
    <3>1. \/ UNCHANGED <<sock, wire, sent>>
          \/ /\ sock' = Flagged(sock, Top.reqs[1])
             /\ wire' = Append(wire, Top.reqs[1])
             /\ \/ sent' = [sent EXCEPT ![Top.reqs[1]] = @ + 1]
                \/ sent' = [sent EXCEPT ![Top.reqs[1]] = @]
      BY <1>12 DEF WriteHead
    <3>2. Flagged(sock, Top.reqs[1]) \in Socks
      BY <1>a, <2>1, FlaggedType
    <3>3. Append(wire, Top.reqs[1]) \in Seq(Requests)
      BY <2>1, AppendProperties DEF TypeOK
    <3>4. wire \in Seq(Requests) /\ sent \in [Requests -> Nat]
      BY DEF TypeOK
    <3>5. /\ [sent EXCEPT ![Top.reqs[1]] = @ + 1] \in [Requests -> Nat]
          /\ [sent EXCEPT ![Top.reqs[1]] = @] \in [Requests -> Nat]
      BY <2>1, <3>4, CountType
    <3>6. QED
      BY <1>a, <3>1, <3>2, <3>3, <3>4, <3>5
  <2>5. QED
    BY <1>12, <2>3, <2>4 DEF TypeOK, WriteHead
<1>13. CASE Advance
  BY <1>13, <1>b, PlainLabelsAre DEF TypeOK, Advance, At
<1>14. CASE Splice
  BY <1>14, <1>a, <1>b, PlainLabelsAre, SpliceTypes, ZenonT(40) DEF TypeOK, Splice, At, Slots
<1>15. CASE Exit
  <2>1. stack' \in Seq(Frames)
    BY <1>15, <1>b DEF Exit, At
  <2>2. /\ queue' \in Seq(Requests \cup {Null})
        /\ runningIdx' \in Nat /\ pendingIdx' \in Int
    <3>1. From(queue, runningIdx) \in Seq(Requests \cup {Null})
      BY <1>a, SpliceTypes DEF Slots
    <3>2. QED
      BY <1>15, <1>a, <3>1 DEF Exit, Compact, Slots
  <2>3. QED
    BY <1>15, <2>1, <2>2 DEF TypeOK, Exit
<1>16. QED
  BY <1>1, <1>2, <1>3, <1>4, <1>5, <1>6, <1>7, <1>8, <1>9, <1>10, <1>11,
     <1>12, <1>13, <1>14, <1>15

\* What the callback of destroy() leaves to the microtasks.
LEMMA SettleType ==
  ASSUME TypeOK, NEW tasks \in Seq(Tasks), SettleDestroy(tasks)
  PROVE  /\ closing' \in {"open", "waiting", "settled", "joined", "done"}
         /\ micro' \in Seq(Tasks)
<1>1. /\ <<>> \in Seq(Tasks) /\ <<"closed">> \in Seq(Tasks)
      /\ <<"destroyed">> \in Seq(Tasks)
  BY DEF Tasks
<1>2. (IF closing = "waiting" THEN <<"closed">> ELSE <<>>) \in Seq(Tasks)
  BY <1>1
<1>3. micro' \in Seq(Tasks)
  BY <1>1, <1>2, ConcatProperties DEF SettleDestroy
<1>4. QED
  BY <1>3 DEF TypeOK, SettleDestroy

\* Clearing a slot of the queue.
LEMMA ClearType ==
  ASSUME NEW q \in Seq(Slots), NEW i \in Int
  PROVE  [q EXCEPT ![i] = Null] \in Seq(Slots)
<1>1. q \in [1..Len(q) -> Slots] /\ Len(q) \in Nat
  BY LenProperties
<1>2. Null \in Slots
  BY DEF Slots
<1>3. [q EXCEPT ![i] = Null] \in [1..Len(q) -> Slots]
  BY <1>1, <1>2
<1>4. QED
  BY <1>1, <1>3, SeqDef

LEMMA QueueFrameType ==
  TypeOK /\ (\/ CallbackReturns \/ FailNext \/ CheckEmpty \/ DestroyEnd
             \/ DestroyCallback \/ FailAltname \/ CloseEnd)
    => TypeOK'
<1> SUFFICES ASSUME TypeOK,
                    \/ CallbackReturns \/ FailNext \/ CheckEmpty \/ DestroyEnd
                    \/ DestroyCallback \/ FailAltname \/ CloseEnd
             PROVE  TypeOK'
  OBVIOUS
<1> USE DEF qVars, connVars, lifeVars, taskVars, reqVars, histVars
<1>a. /\ stack \in Seq(Frames) /\ sock \in Socks /\ queue \in Seq(Slots)
      /\ runningIdx \in Nat /\ pendingIdx \in Int /\ PendingHead \in Slots
  BY TypeParts
<1>b. stack # <<>> => Caller \in Seq(Frames)
  BY <1>a, TopType
<1>1. CASE CallbackReturns
  BY <1>1, <1>b DEF TypeOK, CallbackReturns
<1>2. CASE FailNext
  <2> DEFINE r == Head(Top.reqs)
             rest == Fail(Tail(Top.reqs))
  <2>1. stack # <<>> /\ Top.reqs \in Seq(Slots) /\ Top.reqs # <<>>
    BY <1>2, <1>a, TopType DEF FailNext, At
  <2>2. r \in Slots /\ rest \in Seq(Frames)
    BY <2>1, HeadTailProperties, FailType
  <2>3. Become(rest) \in Seq(Frames)
    BY <1>a, <2>1, <2>2, PushType
  <2>4. CASE r = Null \/ r \in aborted
    BY <1>2, <2>3, <2>4 DEF TypeOK, FailNext, ErrorSkips
  <2>5. CASE ~(r = Null \/ r \in aborted)
    <3>1. r \in Requests
      BY <2>2, <2>5 DEF Slots
    <3>2. <<Frame("error", <<r>>)>> \o rest \in Seq(Frames)
      BY <2>2, <3>1, FrameTypes, RequestLabelsAre, FewFrames, ConcatProperties
    <3>3. Become(<<Frame("error", <<r>>)>> \o rest) \in Seq(Frames)
      BY <1>a, <2>1, <3>2, PushType
    <3>4. [ends EXCEPT ![r] = @ + 1] \in [Requests -> Nat]
      BY <3>1, CountType DEF TypeOK
    <3>5. QED
      BY <1>2, <2>5, <3>1, <3>3, <3>4, ZenonT(40)
        DEF TypeOK, FailNext, ErrorSkips, Aborts
  <2>6. QED
    BY <2>4, <2>5
<1>3. CASE CheckEmpty
  BY <1>3, <1>b, ZenonT(40) DEF TypeOK, CheckEmpty, At
<1>4. CASE DestroyEnd
  <2>1. Become(<<Do("resume")>>) \in Seq(Frames)
    BY <1>4, <1>a, FrameTypes, PlainLabelsAre, FewFrames, PushType
       DEF DestroyEnd, At
  <2>2. [Kill(sock, "other") EXCEPT !.onClose = @ \cup {"destroy"}] \in Socks
    <3>1. Kill(sock, "other") \in Socks
      BY <1>a, KillType
    <3>2. QED
      BY <3>1 DEF Socks
  <2>3. Append(micro, "destroyCallback") \in Seq(Tasks)
    BY AppendProperties DEF TypeOK, Tasks
  <2>4. QED
    BY <1>4, <2>1, <2>2, <2>3, ZenonT(40) DEF TypeOK, DestroyEnd
<1>5. CASE DestroyCallback
  BY <1>5, <1>b, SettleType DEF TypeOK, DestroyCallback, At
<1>6. CASE FailAltname
  <2>1. stack # <<>> /\ WithoutAt(queue, pendingIdx) \in Seq(Slots)
    BY <1>6, <1>a, SpliceTypes DEF FailAltname, At
  <2>2. <<PendingHead>> \in Seq(Slots)
    BY <1>a
  <2>3. Call(Fail(<<PendingHead>>)) \in Seq(Frames)
    BY <1>a, <2>2, FailType, PushType
  <2>4. QED
    BY <1>6, <1>b, <2>1, <2>3 DEF TypeOK, FailAltname, Slots
<1>7. CASE CloseEnd
  <2>1. Become(<<Do("disconnect"), Do("resume")>>) \in Seq(Frames)
    BY <1>7, <1>a, FrameTypes, PlainLabelsAre, FewFrames, PushType
       DEF CloseEnd, At
  <2>2. QED
    BY <1>7, <1>a, <2>1 DEF TypeOK, CloseEnd
<1>8. QED
  BY <1>1, <1>2, <1>3, <1>4, <1>5, <1>6, <1>7

LEMMA SocketFrameType ==
  TypeOK /\ (\/ AbortSocket \/ EndBody \/ WriterFail \/ AfterHeaders
             \/ Complete \/ AfterEnd \/ UpgradeCall \/ Upgraded)
    => TypeOK'
<1> SUFFICES ASSUME TypeOK,
                    \/ AbortSocket \/ EndBody \/ WriterFail \/ AfterHeaders
                    \/ Complete \/ AfterEnd \/ UpgradeCall \/ Upgraded
             PROVE  TypeOK'
  OBVIOUS
<1> USE DEF qVars, connVars, lifeVars, taskVars, reqVars, histVars
<1>a. /\ stack \in Seq(Frames) /\ sock \in Socks /\ queue \in Seq(Slots)
      /\ runningIdx \in Nat /\ pendingIdx \in Int /\ RunningHead \in Slots
  BY TypeParts
<1>b. stack # <<>> =>
        /\ Caller \in Seq(Frames)
        /\ \A fs \in Seq(Frames) : Become(fs) \in Seq(Frames)
        /\ Become(<<>>) \in Seq(Frames)
        /\ Become(<<Do("resume")>>) \in Seq(Frames)
  BY <1>a, TopType, FrameTypes, PlainLabelsAre, FewFrames, PushType
<1>c. \A b \in BOOLEAN :
        /\ [sock EXCEPT !.writing = b] \in Socks
        /\ [sock EXCEPT !.midBody = b] \in Socks
        /\ [sock EXCEPT !.used = b] \in Socks
        /\ [[sock EXCEPT !.blocking = FALSE] EXCEPT !.paused = b] \in Socks
  <2>1. [sock EXCEPT !.blocking = FALSE] \in Socks
    BY <1>a DEF Socks
  <2>2. QED
    BY <1>a, <2>1, ZenonT(40) DEF Socks
<1>1. CASE AbortSocket
  BY <1>1, <1>a, <1>b, KillType DEF TypeOK, AbortSocket, At
<1>2. CASE EndBody
  BY <1>2, <1>b, <1>c, ZenonT(40) DEF TypeOK, EndBody, At
<1>3. CASE WriterFail
  <2>1. stack # <<>> /\ [sock EXCEPT !.writing = FALSE] \in Socks
    BY <1>3, <1>c DEF WriterFail, At
  <2>2. CASE RunningHead = Null
    BY <1>3, <1>b, <2>1, <2>2, ZenonT(40) DEF TypeOK, WriterFail
  <2>3. CASE RunningHead # Null
    <3>1. RunningHead \in Requests
      BY <1>a, <2>3 DEF Slots
    <3>2. Become(AbortFrames(RunningHead)) \in Seq(Frames)
      BY <1>b, <2>1, <3>1, AbortFramesType
    <3>3. [ends EXCEPT ![RunningHead] = @ + 1] \in [Requests -> Nat]
      BY <3>1, CountType DEF TypeOK
    <3>4. QED
      BY <1>3, <1>b, <2>1, <3>1, <3>2, <3>3, ZenonT(40) DEF TypeOK, WriterFail, Aborts
  <2>4. QED
    BY <2>2, <2>3
<1>4. CASE AfterHeaders
  <2>1. stack # <<>> /\ Goto("complete") \in Seq(Frames)
    BY <1>4, <1>a, GotoType, PlainLabelsAre DEF AfterHeaders, At
  <2>2. stack' \in Seq(Frames)
    BY <1>4, <1>b, <2>1 DEF AfterHeaders
  <2>3. sock' \in Socks
    BY <1>4, <1>a, <1>c DEF AfterHeaders, Unblocked
  <2>4. QED
    BY <1>4, <2>2, <2>3 DEF TypeOK, AfterHeaders
<1>5. CASE Complete
  <2>1. stack # <<>>
    BY <1>5 DEF Complete, At
  <2>2. CASE UNCHANGED <<sock, completed, ends>> /\ stack' \in {Caller, stack}
    <3>1. stack' \in Seq(Frames)
      BY <1>a, <1>b, <2>1, <2>2
    <3>2. UNCHANGED <<qVars, resuming, needDrain, pipelining, connVars, lifeVars,
                      taskVars, dispatched, aborted, bodyErr, wire, sent, heads>>
      BY <1>5 DEF Complete
    <3>3. QED
      BY <2>2, <3>1, <3>2 DEF TypeOK
  <2>3. CASE /\ RunningHead # Null
             /\ completed' = completed \cup {RunningHead}
             /\ ends' = [ends EXCEPT ![RunningHead] = @ + 1]
             /\ sock' = [sock EXCEPT !.midBody = FALSE]
             /\ stack' = Become(<<Frame("end", <<RunningHead>>), Do("afterEnd")>>)
    <3>1. RunningHead \in Requests
      BY <1>a, <2>3 DEF Slots
    <3>2. <<Frame("end", <<RunningHead>>), Do("afterEnd")>> \in Seq(Frames)
      BY <3>1, FrameTypes, PlainLabelsAre, RequestLabelsAre, FewFrames
    <3>3. [ends EXCEPT ![RunningHead] = @ + 1] \in [Requests -> Nat]
      BY <3>1, CountType DEF TypeOK
    <3>4. QED
      BY <1>5, <1>b, <1>c, <2>1, <2>3, <3>1, <3>2, <3>3, ZenonT(40) DEF TypeOK, Complete
  <2>4. QED
    BY <1>5, <2>2, <2>3 DEF Complete
<1>6. CASE AfterEnd
  <2>1. [queue EXCEPT ![runningIdx + 1] = Null] \in Seq(Slots)
    BY <1>a, ClearType
  <2>2. From(wire, 1) \in Seq(Requests)
    BY SpliceTypes DEF TypeOK
  <2>3. [sock EXCEPT !.used = Pending = 0] \in Socks
    BY <1>c
  <2>4. sock' \in Socks
    BY <1>6, <2>3, KillType DEF AfterEnd
  <2>5. stack' \in Seq(Frames) /\ immediate' \in BOOLEAN
    BY <1>6, <1>b DEF TypeOK, AfterEnd, At
  <2>6. QED
    <3>1. /\ queue' = [queue EXCEPT ![runningIdx + 1] = Null]
          /\ runningIdx' = runningIdx + 1 /\ wire' = From(wire, 1)
      BY <1>6 DEF AfterEnd
    <3>2. UNCHANGED <<pendingIdx, resuming, needDrain, pipelining, connVars,
                      lifeVars, micro, dispatched, reqVars, sent, heads, ends>>
      BY <1>6 DEF AfterEnd
    <3>3. QED
      BY <1>a, <2>1, <2>2, <2>4, <2>5, <3>1, <3>2 DEF TypeOK, Slots
<1>7. CASE UpgradeCall
  <2>1. stack # <<>> /\ Top.reqs[1] \in Requests
    BY <1>7, <1>a, TopType, RequestLabelsAre DEF UpgradeCall, At
  <2>2. <<Frame("upgrade", <<Top.reqs[1]>>), Frame("upgraded", <<Top.reqs[1]>>)>>
          \in Seq(Frames)
    BY <2>1, FrameTypes, RequestLabelsAre, FewFrames
  <2>3. stack' \in Seq(Frames)
    BY <1>7, <1>b, <2>1, <2>2 DEF UpgradeCall
  <2>4. QED
    BY <1>7, <2>3 DEF TypeOK, UpgradeCall
<1>8. CASE Upgraded
  <2>1. stack # <<>> /\ Top.reqs[1] \in Requests
    BY <1>8, <1>a, TopType, RequestLabelsAre DEF Upgraded, At
  <2>2. completed' \subseteq Requests /\ ends' \in [Requests -> Nat]
    BY <1>8, <2>1 DEF TypeOK, Upgraded
  <2>3. QED
    BY <1>8, <1>b, <2>1, <2>2, SMTT(30) DEF TypeOK, Upgraded
<1>9. QED
  BY <1>1, <1>2, <1>3, <1>4, <1>5, <1>6, <1>7, <1>8

LEMMA TaskType == TypeOK /\ (TaskStep \/ ImmediateResume) => TypeOK'
<1> SUFFICES ASSUME TypeOK, TaskStep \/ ImmediateResume PROVE TypeOK'
  OBVIOUS
<1> USE DEF qVars, connVars, lifeVars, taskVars, reqVars, histVars
<1>a. stack \in Seq(Frames) /\ micro \in Seq(Tasks)
  BY DEF TypeOK
<1>b. /\ <<Loop(FALSE)>> \in Seq(Frames) /\ <<Do("drain")>> \in Seq(Frames)
      /\ Call(<<Do("resume")>>) \in Seq(Frames)
  BY <1>a, LoopTypes, FrameTypes, PlainLabelsAre, FewFrames, PushType
<1>c. micro # <<>> => Tail(micro) \in Seq(Tasks)
  BY <1>a, HeadTailProperties
<1>1. CASE TaskResume
  <2>1. stack' = <<Loop(FALSE)>> /\ micro' = Tail(micro) /\ resuming' = 2
        /\ micro # <<>>
    BY <1>1 DEF TaskResume, NextTask
  <2>2. QED
    <3>1. stack' \in Seq(Frames) /\ micro' \in Seq(Tasks)
      BY <1>b, <1>c, <2>1, Zenon
    <3>2. resuming' \in 0..2
      BY <2>1
    <3>3. UNCHANGED <<qVars, needDrain, pipelining, connVars, sock, lifeVars,
                      immediate, dispatched, reqVars, histVars>>
      BY <1>1 DEF TaskResume
    <3>4. QED
      BY <3>1, <3>2, <3>3 DEF TypeOK
<1>2. CASE TaskDrain
  BY <1>2, <1>b, <1>c, SMTT(30) DEF TypeOK, TaskDrain, NextTask
<1>3. CASE TaskClosed
  <2>1. micro' \in Seq(Tasks)
        /\ closing' \in {"open", "waiting", "settled", "joined", "done"}
    BY <1>3, <1>c DEF TaskClosed, NextTask
  <2>2. CASE destroyed
    BY <1>3, <2>1, <2>2 DEF TypeOK, TaskClosed
  <2>3. CASE ~destroyed
    <3>1. BeginDestroy
      BY <1>3, <2>3 DEF TaskClosed
    <3>2. QED
      BY <1>3, <2>1, <3>1, BeginDestroyType DEF TypeOK, TaskClosed
  <2>4. QED
    BY <2>2, <2>3 DEF TypeOK
<1>4. CASE TaskDestroyCallback
  <2>1. Tail(micro) \in Seq(Tasks) /\ SettleDestroy(Tail(micro))
    BY <1>4, <1>c DEF TaskDestroyCallback, NextTask
  <2>2. QED
    BY <1>4, <2>1, SettleType, ZenonT(40) DEF TypeOK, TaskDestroyCallback
<1>5. CASE TaskDestroyed
  BY <1>5, <1>c DEF TypeOK, TaskDestroyed, NextTask
<1>6. CASE ImmediateResume
  BY <1>6, <1>b, ZenonT(40) DEF TypeOK, ImmediateResume
<1>7. QED
  BY <1>1, <1>2, <1>3, <1>4, <1>5, <1>6 DEF TaskStep

\* What follows an error of the connection.
LEMMA ErrorTypes ==
  ASSUME TypeOK, NEW e
  PROVE  /\ QueueAfterError(e) \in Seq(Slots)
         /\ ErrorFrames(e) \in Seq(Frames)
<1>1. /\ queue \in Seq(Slots) /\ runningIdx \in Int
  BY TypeParts
<1>2. From(queue, runningIdx) \in Seq(Slots) /\ Upto(queue, runningIdx) \in Seq(Slots)
  BY <1>1, SpliceTypes
<1>3. Fail(From(queue, runningIdx)) \o <<Do("checkEmpty")>> \in Seq(Frames)
  BY <1>2, FailType, FrameTypes, PlainLabelsAre, FewFrames, ConcatProperties
<1>4. <<>> \in Seq(Frames)
  BY FewFrames
<1>5. QED
  BY <1>1, <1>2, <1>3, <1>4 DEF QueueAfterError, ErrorFrames

LEMMA SocketErrorsType ==
  ASSUME TypeOK, NEW s \in Socks, NEW e \in {"none", "info", "socket", "other"},
         SocketErrors(s, e)
  PROVE  sock' \in Socks /\ queue' \in Seq(Slots) /\ stack' \in Seq(Frames)
<1>1. QueueAfterError(e) \in Seq(Slots) /\ ErrorFrames(e) \in Seq(Frames)
  BY ErrorTypes
<1>2. (IF s.writing THEN <<Do("writerFail")>> ELSE <<>>) \in Seq(Frames)
  BY FrameTypes, PlainLabelsAre, FewFrames
<1>3. Call(ErrorFrames(e) \o (IF s.writing THEN <<Do("writerFail")>> ELSE <<>>))
        \in Seq(Frames)
  BY <1>1, <1>2, ConcatProperties, PushType, TypeParts
<1>4. [s EXCEPT !.st = "errored", !.err = e] \in Socks
  <2>1. [s EXCEPT !.st = "errored"] \in Socks
    BY DEF Socks
  <2>2. [[s EXCEPT !.st = "errored"] EXCEPT !.err = e] \in Socks
    BY <2>1, ZenonT(40) DEF Socks
  <2>3. QED
    BY <2>2 DEF Socks
<1>5. QED
  BY <1>1, <1>3, <1>4 DEF SocketErrors

LEMMA ConnectorType == TypeOK /\ Connector => TypeOK'
<1> SUFFICES ASSUME TypeOK, Connector PROVE TypeOK'
  OBVIOUS
<1> USE DEF qVars, connVars, lifeVars, taskVars, reqVars, histVars
<1>a. /\ stack \in Seq(Frames) /\ sock \in Socks /\ queue \in Seq(Slots)
      /\ runningIdx \in Int /\ pendingIdx \in Int /\ Running \in Int
  BY TypeParts
<1>b. /\ Do("resume") \in Frames /\ Do("connect") \in Frames
      /\ Do("connectionError") \in Frames /\ Do("failAltname") \in Frames
  BY FrameTypes, PlainLabelsAre
<1>1. CASE ConnectTooLate
  BY <1>1, <1>a, <1>b, FewFrames, PushType DEF TypeOK, ConnectTooLate
<1>2. CASE ConnectOK
  <2>1. Connected(sock) \in Socks
    <3>1. [NoSock EXCEPT !.st = "live"] \in Socks /\ sock.name \in Names \cup {NoName}
      BY <1>a, NoSockType DEF Socks
    <3>2. [[NoSock EXCEPT !.st = "live"] EXCEPT !.name = sock.name] \in Socks
      BY <3>1 DEF Socks
    <3>3. QED
      BY <3>2, NoSockType DEF Connected, Socks
  <2>2. Call(<<Do("connect"), Do("resume")>>) \in Seq(Frames)
    BY <1>a, <1>b, FewFrames, PushType
  <2>3. QED
    BY <1>2, <2>1, <2>2 DEF TypeOK, ConnectOK
<1>3. ASSUME NEW e, ConnectFail(e) PROVE TypeOK'
  <2> DEFINE tail == <<Do("connectionError"), Do("resume")>>
  <2>1. tail \in Seq(Frames) /\ <<Do("failAltname")>> \in Seq(Frames)
    BY <1>b, FewFrames
  <2>2. /\ QueueAfterError(e) \in Seq(Slots)
        /\ Call(ErrorFrames(e) \o tail) \in Seq(Frames)
    BY <1>a, <2>1, ErrorTypes, ConcatProperties, PushType
  <2>3. /\ Upto(queue, runningIdx) \o From(queue, pendingIdx) \in Seq(Slots)
        /\ RunningPart \in Seq(Slots)
    BY <1>a, SpliceTypes, ConcatProperties DEF RunningPart
  <2>4. Fail(RunningPart) \o <<Do("failAltname")>> \in Seq(Frames)
    BY <2>1, <2>3, FailType, ConcatProperties
  <2>5. Call(Fail(RunningPart) \o <<Do("failAltname")>> \o tail) \in Seq(Frames)
    BY <1>a, <2>1, <2>4, ConcatProperties, PushType
  <2>6. /\ queue' \in Seq(Slots) /\ stack' \in Seq(Frames)
        /\ pendingIdx' \in Int /\ connecting' \in {"no", "dialing", "left"}
    BY <1>3, <1>a, <2>2, <2>3, <2>5 DEF ConnectFail
  <2>7. QED
    BY <1>3, <2>6 DEF TypeOK, ConnectFail, Slots
<1>4. QED
  BY <1>1, <1>2, <1>3 DEF Connector

LEMMA AnswerType == TypeOK /\ (Answer \/ ResponseResumed) => TypeOK'
<1> SUFFICES ASSUME TypeOK, Answer \/ ResponseResumed PROVE TypeOK'
  OBVIOUS
<1> USE DEF qVars, connVars, lifeVars, taskVars, reqVars, histVars
<1>a. /\ stack \in Seq(Frames) /\ sock \in Socks /\ queue \in Seq(Slots)
      /\ runningIdx \in Nat /\ RunningHead \in Slots
  BY TypeParts
<1>1. ASSUME NEW keep \in BOOLEAN, NEW short \in BOOLEAN,
             ResponseHead(keep, short)
      PROVE  TypeOK'
  <2>1. RunningHead \in Requests
    BY <1>1, <1>a DEF ResponseHead, Slots
  <2>2. Call(<<Frame("headers", <<RunningHead>>),
               Frame("afterHeaders", <<RunningHead>>)>>) \in Seq(Frames)
    BY <1>a, <2>1, FrameTypes, RequestLabelsAre, FewFrames, PushType
  <2>3. [heads EXCEPT ![RunningHead] = @ + 1] \in [Requests -> Nat]
    BY <2>1, CountType DEF TypeOK
  <2>4. sock' \in Socks
    <3>1. [sock EXCEPT !.midBody = TRUE] \in Socks
      BY <1>a DEF Socks
    <3>2. [[sock EXCEPT !.midBody = TRUE] EXCEPT !.keep = keep] \in Socks
      BY <3>1 DEF Socks
    <3>3. [[[sock EXCEPT !.midBody = TRUE] EXCEPT !.keep = keep]
             EXCEPT !.timer = "body"] \in Socks
      BY <3>2 DEF Socks
    <3>4. \A b \in BOOLEAN :
            [[[[sock EXCEPT !.midBody = TRUE] EXCEPT !.keep = keep]
                EXCEPT !.timer = "body"] EXCEPT !.reset = b] \in Socks
      BY <3>3 DEF Socks
    <3>5. \A b \in BOOLEAN :
            [sock EXCEPT !.midBody = TRUE, !.keep = keep, !.timer = "body",
                         !.reset = b] \in Socks
      BY <1>a, <3>4 DEF Socks
    <3>6. PICK b \in BOOLEAN :
            sock' = [sock EXCEPT !.midBody = TRUE, !.keep = keep,
                                 !.timer = "body", !.reset = b]
      BY <1>1 DEF ResponseHead
    <3>7. QED
      BY <3>5, <3>6
  <2>5. QED
    <3>1. heads' \in [Requests -> Nat] /\ stack' \in Seq(Frames)
      BY <1>1, <2>2, <2>3 DEF ResponseHead
    <3>2. UNCHANGED <<qVars, resuming, needDrain, pipelining, connVars,
                      lifeVars, taskVars, dispatched, reqVars, wire, sent,
                      ends>>
      BY <1>1 DEF ResponseHead
    <3>3. QED
      BY <2>4, <3>1, <3>2, SMTT(30) DEF TypeOK
<1>2. CASE ResponseEnd
  <2>1. Call(<<Do("complete")>>) \in Seq(Frames)
    BY <1>a, FrameTypes, PlainLabelsAre, FewFrames, PushType
  <2>2. QED
    BY <1>2, <2>1, SMTT(30) DEF TypeOK, ResponseEnd
<1>3. CASE ResponseUpgrade
  <2>1. RunningHead \in Requests
    BY <1>3, <1>a DEF ResponseUpgrade, Slots
  <2>2. Call(<<Do("disconnect"), Frame("upgradeCall", <<RunningHead>>),
               Do("resume")>>) \in Seq(Frames)
    BY <1>a, <2>1, FrameTypes, RequestLabelsAre, PlainLabelsAre, FewFrames, PushType
  <2>3. [queue EXCEPT ![runningIdx + 1] = Null] \in Seq(Slots)
    BY <1>a, ClearType
  <2>4. /\ queue' = [queue EXCEPT ![runningIdx + 1] = Null]
        /\ runningIdx' = runningIdx + 1 /\ wire' = <<>>
        /\ sock' = NoSock /\ ctx' = FALSE
        /\ stack' = Call(<<Do("disconnect"), Frame("upgradeCall", <<RunningHead>>),
                          Do("resume")>>)
    BY <1>3 DEF ResponseUpgrade
  <2>5. /\ queue' \in Seq(Slots) /\ runningIdx' \in Nat /\ stack' \in Seq(Frames)
    BY <1>a, <2>2, <2>3, <2>4
  <2>6. wire' \in Seq(Requests) /\ sock' \in Socks /\ ctx' \in BOOLEAN
    <3>1. <<>> \in Seq(Requests) /\ FALSE \in BOOLEAN
      OBVIOUS
    <3>2. QED
      BY <2>4, <3>1, NoSockType, Zenon
  <2>7. QED
    BY <1>3, <2>5, <2>6, ZenonT(30) DEF TypeOK, ResponseUpgrade, Slots
<1>4. CASE HeadersTimeout
  BY <1>4, <1>a, KillType, ZenonT(40) DEF TypeOK, HeadersTimeout, Destroys
<1>5. CASE BodyTimeout
  BY <1>5, <1>a, KillType DEF TypeOK, BodyTimeout, Destroys
<1>6. CASE ResponseResumed
  <2>1. [sock EXCEPT !.paused = FALSE] \in Socks
    BY <1>a DEF Socks
  <2>2. QED
    BY <1>6, <2>1 DEF TypeOK, ResponseResumed
<1>7. QED
  BY <1>1, <1>2, <1>3, <1>4, <1>5, <1>6 DEF Answer

LEMMA DisturbanceType == TypeOK /\ Disturbance => TypeOK'
<1> SUFFICES ASSUME TypeOK, Disturbance PROVE TypeOK'
  OBVIOUS
<1> USE DEF qVars, connVars, lifeVars, taskVars, reqVars, histVars
<1>a. stack \in Seq(Frames) /\ sock \in Socks
  BY TypeParts
<1>b. /\ \A b \in BOOLEAN : [sock EXCEPT !.paused = b] \in Socks
      /\ Call(<<Do("complete")>>) \in Seq(Frames)
      /\ Call(<<Do("writerFail")>>) \in Seq(Frames)
  <2>1. \A b \in BOOLEAN : [sock EXCEPT !.paused = b] \in Socks
    BY <1>a DEF Socks
  <2>2. QED
    BY <1>a, <2>1, FrameTypes, PlainLabelsAre, FewFrames, PushType
<1>1. CASE ResponseData
  BY <1>1, <1>b, ZenonT(40) DEF TypeOK, ResponseData
<1>2. CASE KeepAliveTimeout
  BY <1>2, <1>a, KillType, ZenonT(40) DEF TypeOK, KeepAliveTimeout, Destroys
<1>3. CASE SocketEnd
  <2>1. /\ Kill([sock EXCEPT !.paused = FALSE], "other") \in Socks
        /\ Kill(sock, "socket") \in Socks
    BY <1>a, <1>b, KillType
  <2>2. sock' \in Socks /\ stack' \in Seq(Frames)
    BY <1>3, <1>a, <1>b, <2>1 DEF SocketEnd
  <2>3. QED
    BY <1>3, <2>2 DEF TypeOK, SocketEnd
<1>4. CASE SocketReset
  <2>1. [sock EXCEPT !.paused = FALSE] \in Socks
    BY <1>b
  <2>2. CASE SocketErrors([sock EXCEPT !.paused = FALSE], "other")
    <3>1. /\ sock' \in Socks /\ queue' \in Seq(Slots)
          /\ stack' \in Seq(Frames)
      <4>1. TypeOK /\ "other" \in {"none", "info", "socket", "other"}
        OBVIOUS
      <4>2. QED
        BY <2>1, <2>2, <4>1, SocketErrorsType
    <3>2. UNCHANGED <<runningIdx, pendingIdx, resuming, needDrain, pipelining,
                      connVars, lifeVars, taskVars, dispatched, reqVars,
                      histVars, broken>>
      BY <1>4 DEF SocketReset
    <3>3. QED
      BY <3>1, <3>2 DEF TypeOK, Slots
  <2>3. CASE ~SocketErrors([sock EXCEPT !.paused = FALSE], "other")
    <3>1. [sock EXCEPT !.st = "errored", !.paused = FALSE] \in Socks
      <4>1. [[sock EXCEPT !.paused = FALSE] EXCEPT !.st = "errored"] \in Socks
        BY <2>1 DEF Socks
      <4>2. QED
        BY <1>a, <4>1 DEF Socks
    <3>2. /\ Call(<<Do("complete")>> \o <<Do("writerFail")>>) \in Seq(Frames)
          /\ Call(<<Do("complete")>> \o <<>>) \in Seq(Frames)
      <4>1. /\ <<Do("complete")>> \o <<Do("writerFail")>> \in Seq(Frames)
            /\ <<Do("complete")>> \o <<>> \in Seq(Frames)
        BY FrameTypes, PlainLabelsAre, FewFrames, ConcatProperties
      <4>2. QED
        BY <1>a, <4>1, PushType
    <3>3. sock' \in Socks /\ stack' \in Seq(Frames) /\ queue' = queue
      BY <1>4, <2>3, <3>1, <3>2 DEF SocketReset
    <3>4. QED
      BY <1>4, <3>3 DEF TypeOK, SocketReset
  <2>4. QED
    BY <2>2, <2>3
<1>5. ASSUME NEW e \in {"socket", "other"}, BadBytes(e) PROVE TypeOK'
  BY <1>5, <1>a, KillType DEF TypeOK, BadBytes, Destroys
<1>6. CASE BodyError
  BY <1>6, <1>b DEF TypeOK, BodyError
<1>7. ASSUME NEW r \in Requests, QueuedBodyError(r) PROVE TypeOK'
  BY <1>7 DEF TypeOK, QueuedBodyError
<1>8. QED
  BY <1>1, <1>2, <1>3, <1>4, <1>5, <1>6, <1>7 DEF Disturbance

LEMMA EventType ==
  TypeOK /\ (BodyEnd \/ IdleValidated \/ SocketError \/ SocketClose) => TypeOK'
<1> SUFFICES ASSUME TypeOK,
                    BodyEnd \/ IdleValidated \/ SocketError \/ SocketClose
             PROVE  TypeOK'
  OBVIOUS
<1> USE DEF qVars, connVars, lifeVars, taskVars, reqVars, histVars
<1>a. /\ stack \in Seq(Frames) /\ sock \in Socks /\ queue \in Seq(Slots)
      /\ runningIdx \in Nat /\ RunningHead \in Slots
  BY TypeParts
<1>b. /\ Do("resume") \in Frames /\ Do("endBody") \in Frames
      /\ Do("closeEnd") \in Frames /\ Do("destroyCallback") \in Frames
      /\ Frame("sent", <<>>) \in Frames
  <2>1. <<>> \in Seq(Slots)
    OBVIOUS
  <2>2. QED
    BY <2>1, FrameTypes, PlainLabelsAre
<1>1. CASE BodyEnd
  BY <1>1, <1>a, <1>b, FewFrames, PushType, ZenonT(40) DEF TypeOK, BodyEnd
<1>2. CASE IdleValidated
  <2>1. [sock EXCEPT !.idle = 2] \in Socks
    <3>1. 2 \in 0..2
      OBVIOUS
    <3>2. \A k \in 0..2 : [sock EXCEPT !.idle = k] \in Socks
      BY <1>a DEF Socks
    <3>3. QED
      BY <3>1, <3>2
  <2>2. Call(<<Do("resume")>>) \in Seq(Frames)
    BY <1>a, <1>b, FewFrames, PushType
  <2>3. QED
    BY <1>2, <2>1, <2>2 DEF TypeOK, IdleValidated
<1>3. CASE SocketError
  <2>1. SocketErrors(sock, sock.err) /\ sock.err \in {"none", "info", "socket", "other"}
    BY <1>3, <1>a DEF SocketError, Socks
  <2>2. QED
    BY <1>3, <1>a, <2>1, SocketErrorsType, SMTT(30) DEF TypeOK, SocketError, Slots
<1>4. CASE SocketClose
  <2> DEFINE failed == IF destroyed THEN From(queue, runningIdx)
                       ELSE IF FailsHead THEN <<RunningHead>> ELSE <<>>
             renamed == IF "rename" \in sock.onClose THEN <<Do("resume")>> ELSE <<>>
             called == IF "destroy" \in sock.onClose
                       THEN <<Do("destroyCallback")>> ELSE <<>>
  <2>1. failed \in Seq(Slots)
    BY <1>a, SpliceTypes
  <2>2. /\ Fail(failed) \in Seq(Frames) /\ <<Do("closeEnd")>> \in Seq(Frames)
        /\ renamed \in Seq(Frames) /\ called \in Seq(Frames)
    BY <1>b, <2>1, FailType, FewFrames
  <2>3. Call(Fail(failed) \o <<Do("closeEnd")>> \o renamed \o called) \in Seq(Frames)
    <3> HIDE DEF failed, renamed, called
    <3>1. Fail(failed) \o <<Do("closeEnd")>> \in Seq(Frames)
      BY <2>2, ConcatProperties
    <3>2. Fail(failed) \o <<Do("closeEnd")>> \o renamed \in Seq(Frames)
      BY <2>2, <3>1, ConcatProperties
    <3>3. Fail(failed) \o <<Do("closeEnd")>> \o renamed \o called \in Seq(Frames)
      BY <2>2, <3>2, ConcatProperties
    <3>4. QED
      BY <1>a, <3>3, PushType
  <2>4. Upto(queue, runningIdx) \in Seq(Slots)
    BY <1>a, SpliceTypes
  <2>5. [queue EXCEPT ![runningIdx + 1] = Null] \in Seq(Slots)
    BY <1>a, ClearType
  <2>6. queue' \in Seq(Slots) /\ runningIdx' \in Nat
    <3>1. /\ \/ queue' = Upto(queue, runningIdx)
             \/ queue' = [queue EXCEPT ![runningIdx + 1] = Null]
             \/ queue' = queue
          /\ runningIdx' = runningIdx \/ runningIdx' = runningIdx + 1
      BY <1>4 DEF SocketClose
    <3>2. runningIdx' \in Nat
      <4>1. runningIdx + 1 \in Nat
        BY <1>a
      <4>2. QED
        BY <1>a, <3>1, <4>1, ZenonT(40)
    <3>3. queue' \in Seq(Slots)
      BY <1>a, <2>4, <2>5, <3>1, ZenonT(40)
    <3>4. QED
      BY <3>2, <3>3
  <2>7. stack' = Call(Fail(failed) \o <<Do("closeEnd")>> \o renamed \o called)
    BY <1>4 DEF SocketClose
  <2>8. wire' \in Seq(Requests) /\ sock' \in Socks /\ ctx' \in BOOLEAN
    <3>1. wire' = <<>> /\ sock' = NoSock /\ ctx' = FALSE
      BY <1>4 DEF SocketClose
    <3>2. <<>> \in Seq(Requests) /\ FALSE \in BOOLEAN
      OBVIOUS
    <3>3. QED
      BY <3>1, <3>2, NoSockType, Zenon
  <2>9. UNCHANGED <<pendingIdx, resuming, needDrain, pipelining, connecting,
                    serverName, lifeVars, taskVars, dispatched, reqVars, sent,
                    heads, ends>>
    BY <1>4 DEF SocketClose
  <2>10. QED
    BY <2>3, <2>6, <2>7, <2>8, <2>9 DEF TypeOK, Slots
<1>5. QED
  BY <1>1, <1>2, <1>3, <1>4

LEMMA TypeStep == TypeOK /\ [Next]_vars => TypeOK'
<1>1. TypeOK /\ UNCHANGED vars => TypeOK'
  BY DEF TypeOK, vars, qVars, connVars, lifeVars, taskVars, reqVars, histVars
<1>2. TypeOK /\ FrameStep => TypeOK'
  BY LoopType, QueueFrameType, SocketFrameType DEF FrameStep
<1>3. QED
  BY <1>1, <1>2, UserType, TaskType, ConnectorType, AnswerType,
     DisturbanceType, EventType DEF Next

\* Every variable of the client has its type in every reachable state,
\* the stack and the queue included.
THEOREM TypeCorrect == Spec => []TypeOK
BY InitType, TypeStep, PTL DEF Spec

----------------------------------------------------------------------------
(* resume() does not nest: ResumeNotNested is inductive.                    *)

NoLoop(s) == \A i \in DOMAIN s : s[i].at \notin LoopLabels

OneLoop(s) ==
  \E i \in DOMAIN s : /\ s[i].at \in LoopLabels
                      /\ \A j \in DOMAIN s : s[j].at \in LoopLabels => j = i

\* The same as ResumeNotNested, by the two cases of kResuming.
Nesting == IF resuming = 2 THEN OneLoop(stack) ELSE NoLoop(stack)

LEMMA NestingMeans == Nesting /\ resuming \in 0..2 => ResumeNotNested
BY DEF Nesting, NoLoop, OneLoop, ResumeNotNested

LEMMA EmptyNoLoop == NoLoop(<<>>)
BY DEF NoLoop

LEMMA FewNoLoop ==
  ASSUME NEW f \in Frames, f.at \notin LoopLabels,
         NEW g \in Frames, g.at \notin LoopLabels,
         NEW h \in Frames, h.at \notin LoopLabels
  PROVE  NoLoop(<<f>>) /\ NoLoop(<<f, g>>) /\ NoLoop(<<f, g, h>>)
BY DEF NoLoop

LEMMA CatLoop ==
  ASSUME NEW s \in Seq(Frames), NEW t \in Seq(Frames)
  PROVE  /\ NoLoop(s) /\ NoLoop(t) => NoLoop(s \o t)
         /\ NoLoop(s) /\ OneLoop(t) => OneLoop(s \o t)
         /\ OneLoop(s) /\ NoLoop(t) => OneLoop(s \o t)
<1>1. /\ DOMAIN s = 1..Len(s) /\ DOMAIN t = 1..Len(t)
      /\ Len(s) \in Nat /\ Len(t) \in Nat
      /\ DOMAIN (s \o t) = 1..(Len(s) + Len(t))
      /\ \A i \in 1..(Len(s) + Len(t)) :
           (s \o t)[i] = IF i <= Len(s) THEN s[i] ELSE t[i - Len(s)]
  BY LenProperties, ConcatProperties
<1>2. NoLoop(s) /\ NoLoop(t) => NoLoop(s \o t)
  BY <1>1 DEF NoLoop
<1>3. ASSUME NoLoop(s), OneLoop(t) PROVE OneLoop(s \o t)
  <2>1. PICK i \in 1..Len(t) :
          /\ t[i].at \in LoopLabels
          /\ \A j \in 1..Len(t) : t[j].at \in LoopLabels => j = i
    BY <1>1, <1>3 DEF OneLoop
  <2>2. i + Len(s) \in DOMAIN (s \o t) /\ (s \o t)[i + Len(s)].at \in LoopLabels
    BY <1>1, <2>1
  <2>3. ASSUME NEW j \in DOMAIN (s \o t), (s \o t)[j].at \in LoopLabels
        PROVE  j = i + Len(s)
    <3>1. j > Len(s)
      BY <1>1, <1>3, <2>3 DEF NoLoop
    <3>2. j - Len(s) \in 1..Len(t) /\ t[j - Len(s)].at \in LoopLabels
      BY <1>1, <2>3, <3>1
    <3>3. j - Len(s) = i
      BY <2>1, <3>2
    <3>4. j \in Int /\ Len(s) \in Int
      BY <1>1
    <3>5. QED
      BY <3>3, <3>4
  <2>4. QED
    BY <2>2, <2>3 DEF OneLoop
<1>4. ASSUME OneLoop(s), NoLoop(t) PROVE OneLoop(s \o t)
  <2>1. PICK i \in 1..Len(s) :
          /\ s[i].at \in LoopLabels
          /\ \A j \in 1..Len(s) : s[j].at \in LoopLabels => j = i
    BY <1>1, <1>4 DEF OneLoop
  <2>2. i \in DOMAIN (s \o t) /\ (s \o t)[i].at \in LoopLabels
    BY <1>1, <2>1
  <2>3. ASSUME NEW j \in DOMAIN (s \o t), (s \o t)[j].at \in LoopLabels
        PROVE  j = i
    <3>1. j <= Len(s)
      <4>1. SUFFICES ASSUME j > Len(s) PROVE FALSE
        BY <1>1
      <4>2. j - Len(s) \in 1..Len(t) /\ t[j - Len(s)].at \in LoopLabels
        BY <1>1, <2>3, <4>1
      <4>3. QED
        BY <1>1, <1>4, <4>2 DEF NoLoop
    <3>2. QED
      BY <1>1, <2>1, <2>3, <3>1
  <2>4. QED
    BY <2>2, <2>3 DEF OneLoop
<1>5. QED
  BY <1>2, <1>3, <1>4

LEMMA PopLoop ==
  ASSUME stack \in Seq(Frames), stack # <<>>
  PROVE  /\ NoLoop(stack) => NoLoop(Caller) /\ Top.at \notin LoopLabels
         /\ OneLoop(stack) /\ Top.at \in LoopLabels => NoLoop(Caller)
         /\ OneLoop(stack) /\ Top.at \notin LoopLabels => OneLoop(Caller)
<1>1. /\ DOMAIN stack = 1..Len(stack) /\ Len(stack) \in Nat \ {0}
      /\ Top = stack[1] /\ DOMAIN Caller = 1..(Len(stack) - 1)
      /\ \A i \in 1..(Len(stack) - 1) : Caller[i] = stack[i + 1]
  BY EmptySeq, LenProperties, HeadTailProperties DEF Top, Caller
<1>2. NoLoop(stack) => NoLoop(Caller) /\ Top.at \notin LoopLabels
  BY <1>1 DEF NoLoop
<1>3. OneLoop(stack) /\ Top.at \in LoopLabels => NoLoop(Caller)
  BY <1>1 DEF NoLoop, OneLoop
<1>4. ASSUME OneLoop(stack), Top.at \notin LoopLabels PROVE OneLoop(Caller)
  <2>1. PICK i \in 1..Len(stack) :
          /\ stack[i].at \in LoopLabels
          /\ \A j \in 1..Len(stack) : stack[j].at \in LoopLabels => j = i
    BY <1>1, <1>4 DEF OneLoop
  <2>2. i - 1 \in DOMAIN Caller /\ Caller[i - 1].at \in LoopLabels
    BY <1>1, <1>4, <2>1
  <2>3. \A j \in DOMAIN Caller : Caller[j].at \in LoopLabels => j = i - 1
    BY <1>1, <2>1
  <2>4. QED
    BY <2>2, <2>3 DEF OneLoop
<1>5. QED
  BY <1>2, <1>3, <1>4

\* The frames that are pushed by other functions than resume() hold no loop.
LEMMA NoLoopFrames ==
  /\ \A at \in PlainLabels \ LoopLabels : NoLoop(<<Do(at)>>)
  /\ \A rs \in Seq(Slots) : NoLoop(Fail(rs))
  /\ \A r \in Requests : NoLoop(AbortFrames(r))
<1>1. \A at \in PlainLabels \ LoopLabels : NoLoop(<<Do(at)>>)
  <2> SUFFICES ASSUME NEW at \in PlainLabels \ LoopLabels PROVE NoLoop(<<Do(at)>>)
    OBVIOUS
  <2>1. Do(at) \in Frames /\ Do(at).at = at
    BY FrameTypes DEF Do, Frame
  <2>2. QED
    BY <2>1, FewNoLoop
<1>2. \A rs \in Seq(Slots) : NoLoop(Fail(rs))
  <2> SUFFICES ASSUME NEW rs \in Seq(Slots) PROVE NoLoop(Fail(rs))
    OBVIOUS
  <2>1. Frame("fail", rs) \in Frames /\ Frame("fail", rs).at \notin LoopLabels
    BY FrameTypes, PlainLabelsAre DEF Frame, LoopLabels
  <2>2. QED
    BY <2>1, FewNoLoop, EmptyNoLoop DEF Fail
<1>3. \A r \in Requests : NoLoop(AbortFrames(r))
  <2> SUFFICES ASSUME NEW r \in Requests PROVE NoLoop(AbortFrames(r))
    OBVIOUS
  <2>1. Frame("error", <<r>>) \in Frames /\ Frame("error", <<r>>).at \notin LoopLabels
    BY FrameTypes, RequestLabelsAre DEF Frame, LoopLabels
  <2>2. NoLoop(<<Frame("error", <<r>>)>>) /\ <<Frame("error", <<r>>)>> \in Seq(Frames)
    BY <2>1, FewNoLoop, FewFrames
  <2>3. /\ <<Do("abortSocket")>> \in Seq(Frames) /\ <<>> \in Seq(Frames)
        /\ NoLoop(<<Do("abortSocket")>>) /\ NoLoop(<<>>)
    BY <1>1, FrameTypes, PlainLabelsAre, FewFrames, EmptyNoLoop DEF LoopLabels
  <2>4. QED
    BY <2>2, <2>3, CatLoop DEF AbortFrames
<1>4. QED
  BY <1>1, <1>2, <1>3

LEMMA DoNoLoop ==
  ASSUME NEW at1 \in PlainLabels \ LoopLabels, NEW at2 \in PlainLabels \ LoopLabels
  PROVE  /\ Do(at1) \in Frames /\ Do(at1).at \notin LoopLabels
         /\ <<Do(at1)>> \in Seq(Frames) /\ NoLoop(<<Do(at1)>>)
         /\ <<Do(at1), Do(at2)>> \in Seq(Frames) /\ NoLoop(<<Do(at1), Do(at2)>>)
<1>1. /\ Do(at1) \in Frames /\ Do(at1).at \notin LoopLabels
      /\ Do(at2) \in Frames /\ Do(at2).at \notin LoopLabels
  BY FrameTypes DEF Do, Frame
<1>2. QED
  BY <1>1, FewFrames, FewNoLoop

LEMMA RequestNoLoop ==
  ASSUME NEW r \in Requests, NEW at1 \in RequestLabels \ LoopLabels,
         NEW f \in Frames, f.at \notin LoopLabels
  PROVE  /\ Frame(at1, <<r>>) \in Frames /\ Frame(at1, <<r>>).at \notin LoopLabels
         /\ <<Frame(at1, <<r>>), f>> \in Seq(Frames)
         /\ NoLoop(<<Frame(at1, <<r>>), f>>)
<1>1. Frame(at1, <<r>>) \in Frames /\ Frame(at1, <<r>>).at \notin LoopLabels
  BY FrameTypes DEF Frame
<1>2. QED
  BY <1>1, FewFrames, FewNoLoop

----------------------------------------------------------------------------
(* The ways a step changes the stack.                                       *)

\* A call of functions other than resume().
LEMMA Calls ==
  ASSUME TypeOK, Nesting, NEW fs \in Seq(Frames), NoLoop(fs),
         stack' = Call(fs), resuming' = resuming
  PROVE  Nesting'
BY CatLoop DEF Nesting, Call, TypeOK

\* A function other than resume() goes on or returns.
LEMMA Continues ==
  ASSUME TypeOK, Nesting, stack # <<>>, Top.at \notin LoopLabels,
         NEW fs \in Seq(Frames), NoLoop(fs),
         stack' = Become(fs) \/ stack' = Caller, resuming' = resuming
  PROVE  Nesting'
<1>1. Caller \in Seq(Frames) /\ stack \in Seq(Frames)
  BY TopType DEF TypeOK
<1>2. (NoLoop(stack) => NoLoop(Caller)) /\ (OneLoop(stack) => OneLoop(Caller))
  BY <1>1, PopLoop
<1>3. QED
  BY <1>1, <1>2, CatLoop DEF Nesting, Become

\* resume() goes on.
LEMMA Loops ==
  ASSUME TypeOK, Nesting, stack # <<>>, Top.at \in LoopLabels,
         NEW fs \in Seq(Frames), OneLoop(fs),
         stack' = Become(fs), resuming' = resuming
  PROVE  Nesting'
<1>1. Caller \in Seq(Frames) /\ stack \in Seq(Frames)
  BY TopType DEF TypeOK
<1>2. resuming = 2 /\ NoLoop(Caller)
  BY <1>1, PopLoop DEF Nesting
<1>3. QED
  BY <1>1, <1>2, CatLoop DEF Nesting, Become

LEMMA MovedLoop ==
  ASSUME stack \in Seq(Frames), stack # <<>>, NEW label \in PlainLabels
  PROVE  /\ Moved(label, <<>>) \in Frames /\ <<Moved(label, <<>>)>> \in Seq(Frames)
         /\ label \in LoopLabels => OneLoop(<<Moved(label, <<>>)>>)
<1>1. Moved(label, <<>>) \in Frames /\ Moved(label, <<>>).at = label
  BY TopType DEF Moved, Frames, PlainLabels, Slots
<1>2. QED
  BY <1>1 DEF OneLoop

LEMMA Jumps ==
  ASSUME TypeOK, Nesting, stack # <<>>, Top.at \in LoopLabels,
         NEW label \in LoopLabels \ RequestLabels,
         stack' = Goto(label), resuming' = resuming
  PROVE  Nesting'
<1>1. label \in PlainLabels /\ label \in LoopLabels
  BY DEF PlainLabels, Labels
<1>2. <<Moved(label, <<>>)>> \in Seq(Frames) /\ OneLoop(<<Moved(label, <<>>)>>)
  BY <1>1, MovedLoop DEF TypeOK
<1>3. QED
  BY <1>2, Loops DEF Goto, Become

LEMMA LoopAlone ==
  ASSUME NEW sync \in BOOLEAN
  PROVE  <<Loop(sync)>> \in Seq(Frames) /\ OneLoop(<<Loop(sync)>>)
BY LoopTypes DEF OneLoop, Loop, LoopLabels

\* resume() starts.
LEMMA Starts ==
  ASSUME TypeOK, Nesting, resuming # 2, resuming' = 2, NEW sync \in BOOLEAN,
         \/ stack' = Call(<<Loop(sync)>>)
         \/ /\ stack # <<>> /\ Top.at \notin LoopLabels
            /\ stack' = Become(<<Loop(sync)>>)
  PROVE  Nesting'
<1>1. <<Loop(sync)>> \in Seq(Frames) /\ OneLoop(<<Loop(sync)>>)
  BY LoopAlone
<1>2. NoLoop(stack) /\ stack \in Seq(Frames)
  BY DEF Nesting, TypeOK
<1>3. stack # <<>> => NoLoop(Caller) /\ Caller \in Seq(Frames)
  BY <1>2, PopLoop, TopType
<1>4. QED
  BY <1>1, <1>2, <1>3, CatLoop DEF Nesting, Call, Become

----------------------------------------------------------------------------
(* The steps, by what they do to the stack.                                 *)

\* Steps that leave the stack alone.
LEMMA StackUnchanged ==
  ASSUME TypeOK, Nesting, stack' = stack,
         resuming' = resuming \/ (resuming # 2 /\ resuming' # 2)
  PROVE  Nesting'
BY DEF Nesting

LEMMA BeginDestroyNesting ==
  ASSUME TypeOK, Nesting, BeginDestroy, resuming' = resuming
  PROVE  Nesting'
<1>1. From(queue, pendingIdx) \in Seq(Slots)
  BY SpliceTypes, TypeParts
<1>2. /\ Fail(From(queue, pendingIdx)) \in Seq(Frames)
      /\ NoLoop(Fail(From(queue, pendingIdx)))
      /\ <<Do("destroyEnd")>> \in Seq(Frames) /\ NoLoop(<<Do("destroyEnd")>>)
  BY <1>1, FailType, NoLoopFrames, FrameTypes, PlainLabelsAre, FewFrames
     DEF LoopLabels
<1>3. /\ Fail(From(queue, pendingIdx)) \o <<Do("destroyEnd")>> \in Seq(Frames)
      /\ NoLoop(Fail(From(queue, pendingIdx)) \o <<Do("destroyEnd")>>)
  BY <1>2, CatLoop, ConcatProperties
<1>4. QED
  BY <1>3, Calls DEF BeginDestroy

LEMMA UserNesting == TypeOK /\ Nesting /\ UserStep => Nesting'
<1> SUFFICES ASSUME TypeOK, Nesting, UserStep PROVE Nesting'
  OBVIOUS
<1>a. queue \in Seq(Slots) /\ pendingIdx \in Int /\ stack \in Seq(Frames)
  BY TypeParts
<1>1. ASSUME NEW r \in Requests, Dispatch(r) PROVE Nesting'
  <2>1. CASE resuming = 0 /\ ~HasStream(r)
    <3>1. stack' = Call(<<Loop(TRUE)>>) /\ resuming' = 2
      BY <1>1, <2>1 DEF Dispatch
    <3>2. resuming # 2
      BY <2>1
    <3>3. QED
      BY <3>1, <3>2, Starts
  <2>2. CASE resuming = 0 /\ HasStream(r)
    <3>1. stack' = stack /\ resuming' = 1
      BY <1>1, <2>2 DEF Dispatch
    <3>2. QED
      BY <2>2, <3>1, StackUnchanged
  <2>3. CASE resuming # 0
    <3>1. stack' = stack /\ resuming' = resuming
      BY <1>1, <2>3 DEF Dispatch
    <3>2. QED
      BY <3>1, StackUnchanged
  <2>4. QED
    BY <2>1, <2>2, <2>3
<1>2. ASSUME NEW r \in Requests, DispatchRefused(r) PROVE Nesting'
  <2>1. Frame("error", <<r>>) \in Frames /\ Frame("error", <<r>>).at \notin LoopLabels
    BY FrameTypes, RequestLabelsAre DEF Frame, LoopLabels
  <2>2. NoLoop(<<Frame("error", <<r>>)>>) /\ <<Frame("error", <<r>>)>> \in Seq(Frames)
    BY <2>1, FewNoLoop, FewFrames
  <2>3. QED
    BY <1>2, <2>2, Calls DEF DispatchRefused
<1>3. ASSUME NEW r \in Requests, Abort(r) PROVE Nesting'
  BY <1>3, AbortFramesType, NoLoopFrames, Calls DEF Abort
<1>4. ASSUME NEW value \in Pipelinings, SetPipelining(value) PROVE Nesting'
  <2>1. CASE resuming = 2
    BY <1>4, <2>1, StackUnchanged DEF SetPipelining
  <2>2. CASE resuming # 2
    BY <1>4, <2>2, Starts DEF SetPipelining
  <2>3. QED
    BY <2>1, <2>2
<1>5. CASE Close
  BY <1>5, StackUnchanged DEF Close
<1>6. CASE Destroy
  <2>1. BeginDestroy /\ resuming' = resuming
    BY <1>6 DEF Destroy
  <2>2. QED
    BY <2>1, BeginDestroyNesting
<1>7. QED
  BY <1>1, <1>2, <1>3, <1>4, <1>5, <1>6 DEF UserStep

LEMMA LoopNesting ==
  TypeOK /\ Nesting
    /\ (\/ Resume \/ LoopDestroyed \/ LoopClosed \/ LoopContext
        \/ LoopBusy \/ LoopDrain \/ PickNothing
        \/ PickAborted \/ PickRename \/ PickConnect
        \/ PickWrite \/ WriteHead \/ Advance \/ Splice
        \/ Exit)
    => Nesting'
<1> SUFFICES ASSUME TypeOK, Nesting,
                    \/ Resume \/ LoopDestroyed \/ LoopClosed \/ LoopContext
                    \/ LoopBusy \/ LoopDrain \/ PickNothing \/ PickAborted
                    \/ PickRename \/ PickConnect \/ PickWrite \/ WriteHead
                    \/ Advance \/ Splice \/ Exit
             PROVE  Nesting'
  OBVIOUS
<1>a. stack \in Seq(Frames) /\ PendingHead \in Slots
  BY TypeParts
<1>b. {"loop", "busy", "pick", "advance", "splice", "exit"}
        \subseteq LoopLabels \ RequestLabels
  BY DEF LoopLabels, RequestLabels
<1>1. CASE Resume
  <2>1. stack # <<>> /\ Top.at \notin LoopLabels
    BY <1>1 DEF Resume, At, LoopLabels
  <2>2. CASE resuming = 2
    BY <1>1, <2>1, <2>2, Continues, EmptyNoLoop, FewFrames DEF Resume
  <2>3. CASE resuming # 2
    BY <1>1, <2>1, <2>3, Starts DEF Resume
  <2>4. QED
    BY <2>2, <2>3
<1>2. CASE LoopDestroyed
  BY <1>2, <1>b, Jumps DEF LoopDestroyed, At
<1>3. CASE LoopClosed
  BY <1>3, <1>b, Jumps DEF LoopClosed, At
<1>4. CASE LoopContext
  BY <1>4, <1>b, Jumps DEF LoopContext, At
<1>5. CASE LoopBusy
  BY <1>5, <1>b, Jumps DEF LoopBusy, At
<1>6. CASE LoopDrain
  <2> DEFINE drained == IF Top.sync THEN <<>> ELSE <<Do("drain")>>
             loop == <<Moved("loop", <<>>)>>
  <2>1. stack # <<>> /\ Top.at \in LoopLabels /\ resuming' = resuming
        /\ stack' = drained \o (loop \o Caller)
    BY <1>6, <1>b DEF LoopDrain, At, Goto
  <2>2. drained \in Seq(Frames) /\ NoLoop(drained)
    BY FrameTypes, PlainLabelsAre, FewFrames, NoLoopFrames, EmptyNoLoop
       DEF LoopLabels
  <2>3. loop \in Seq(Frames) /\ OneLoop(loop)
    BY <1>a, <2>1, MovedLoop, PlainLabelsAre DEF LoopLabels
  <2>4. drained \o loop \in Seq(Frames) /\ OneLoop(drained \o loop)
    BY <2>2, <2>3, CatLoop, ConcatProperties
  <2>5. Caller \in Seq(Frames)
    BY <1>a, <2>1, TopType
  <2>6. stack' = Become(drained \o loop)
    <3> HIDE DEF drained, loop
    <3>1. QED
      BY <2>1, <2>2, <2>3, <2>5, ConcatAssociative, SMTT(30) DEF Become
  <2>7. QED
    BY <2>1, <2>4, <2>6, Loops
<1>7. CASE PickNothing
  BY <1>7, <1>b, Jumps DEF PickNothing, At
<1>8. CASE PickAborted
  BY <1>8, <1>b, Jumps DEF PickAborted, At
<1>9. CASE PickRename
  BY <1>9, StackUnchanged DEF PickRename
<1>10. CASE PickConnect
  BY <1>10, <1>b, Jumps DEF PickConnect, At
<1>11. CASE PickWrite
  <2> DEFINE splice == Moved("splice", <<>>)
             write == Moved("write", <<PendingHead>>)
  <2>1. /\ PendingHead \in Requests /\ stack # <<>> /\ resuming' = resuming
        /\ Top.at \in LoopLabels
        /\ \/ stack' = Become(Fail(<<PendingHead>>) \o <<splice>>)
           \/ stack' = Become(<<Frame("error", <<PendingHead>>),
                                Do("abortSocket"), splice>>)
           \/ stack' = Become(<<Frame("start", <<PendingHead>>), write>>)
    BY <1>11, <1>a, <1>b DEF PickWrite, HasCandidate, Slots, At
  <2>2. /\ <<splice>> \in Seq(Frames) /\ OneLoop(<<splice>>) /\ splice \in Frames
        /\ splice.at = "splice"
    BY <1>a, <2>1, MovedLoop, PlainLabelsAre DEF LoopLabels, Moved
  <2>3. write \in Frames /\ write.at = "write"
    BY <1>a, <2>1, TopType, RequestLabelsAre DEF Moved, Frames
  <2>4. /\ Frame("error", <<PendingHead>>) \in Frames
        /\ Frame("error", <<PendingHead>>).at = "error"
        /\ Frame("start", <<PendingHead>>) \in Frames
        /\ Frame("start", <<PendingHead>>).at = "start"
        /\ Do("abortSocket") \in Frames /\ Do("abortSocket").at = "abortSocket"
    BY <2>1, FrameTypes, RequestLabelsAre, PlainLabelsAre DEF Frame, Do
  <2> HIDE DEF splice, write
  <2>5. /\ Fail(<<PendingHead>>) \o <<splice>> \in Seq(Frames)
        /\ OneLoop(Fail(<<PendingHead>>) \o <<splice>>)
    <3>1. <<PendingHead>> \in Seq(Slots)
      BY <1>a
    <3>2. QED
      BY <2>2, <3>1, FailType, NoLoopFrames, CatLoop, ConcatProperties
  <2>6. /\ <<Frame("error", <<PendingHead>>), Do("abortSocket"), splice>> \in Seq(Frames)
        /\ OneLoop(<<Frame("error", <<PendingHead>>), Do("abortSocket"), splice>>)
    BY <2>2, <2>4 DEF OneLoop, LoopLabels
  <2>7. /\ <<Frame("start", <<PendingHead>>), write>> \in Seq(Frames)
        /\ OneLoop(<<Frame("start", <<PendingHead>>), write>>)
    BY <2>3, <2>4 DEF OneLoop, LoopLabels
  <2>8. QED
    BY <2>1, <2>5, <2>6, <2>7, Loops
<1>12. CASE WriteHead
  <2> DEFINE sentFrame == <<Frame("sent", <<Top.reqs[1]>>)>>
             advance == <<Moved("advance", <<>>)>>
  <2>1. /\ stack # <<>> /\ Top.at = "write" /\ resuming' = resuming
        /\ \/ stack' = Goto("splice") \/ stack' = Goto("advance")
           \/ stack' = sentFrame \o (advance \o Caller)
    BY <1>12 DEF WriteHead, At, Goto
  <2>2. CASE stack' = Goto("splice") \/ stack' = Goto("advance")
    BY <1>b, <2>1, <2>2, Jumps DEF LoopLabels
  <2>3. CASE stack' = sentFrame \o (advance \o Caller)
    <3>1. <<Top.reqs[1]>> \in Seq(Slots)
      BY <1>a, <2>1, TopType, RequestLabelsAre DEF Slots
    <3>2. Frame("sent", <<Top.reqs[1]>>) \in Frames
          /\ Frame("sent", <<Top.reqs[1]>>).at \notin LoopLabels
      BY <3>1, FrameTypes, PlainLabelsAre DEF Frame, LoopLabels
    <3>3. sentFrame \in Seq(Frames) /\ NoLoop(sentFrame)
      BY <3>2, FewFrames, FewNoLoop
    <3>4. advance \in Seq(Frames) /\ OneLoop(advance)
      BY <1>a, <2>1, MovedLoop, PlainLabelsAre DEF LoopLabels
    <3>5. Caller \in Seq(Frames)
      BY <1>a, <2>1, TopType
    <3> HIDE DEF sentFrame, advance
    <3>6. sentFrame \o advance \in Seq(Frames) /\ OneLoop(sentFrame \o advance)
      BY <3>3, <3>4, CatLoop, ConcatProperties
    <3>7. stack' = Become(sentFrame \o advance)
      <4>1. (sentFrame \o advance) \o Caller = sentFrame \o (advance \o Caller)
        BY <3>3, <3>4, <3>5, ConcatAssociative, SMTT(30)
      <4>2. QED
        BY <2>3, <4>1 DEF Become
    <3>8. QED
      BY <2>1, <3>6, <3>7, Loops DEF LoopLabels
  <2>4. QED
    BY <2>1, <2>2, <2>3
<1>13. CASE Advance
  BY <1>13, <1>b, Jumps DEF Advance, At
<1>14. CASE Splice
  BY <1>14, <1>b, Jumps DEF Splice, At
<1>15. CASE Exit
  <2>1. stack # <<>> /\ Top.at \in LoopLabels /\ resuming' = 0 /\ stack' = Caller
    BY <1>15, <1>b DEF Exit, At
  <2>2. NoLoop(Caller)
    BY <1>a, <2>1, PopLoop DEF Nesting
  <2>3. QED
    BY <2>1, <2>2 DEF Nesting
<1>16. QED
  BY <1>1, <1>2, <1>3, <1>4, <1>5, <1>6, <1>7, <1>8, <1>9, <1>10, <1>11,
     <1>12, <1>13, <1>14, <1>15

LEMMA QueueFrameNesting ==
  TypeOK /\ Nesting
    /\ (\/ CallbackReturns \/ FailNext \/ CheckEmpty \/ DestroyEnd
        \/ DestroyCallback \/ FailAltname \/ CloseEnd)
    => Nesting'
<1> SUFFICES ASSUME TypeOK, Nesting,
                    \/ CallbackReturns \/ FailNext \/ CheckEmpty \/ DestroyEnd
                    \/ DestroyCallback \/ FailAltname \/ CloseEnd
             PROVE  Nesting'
  OBVIOUS
<1>a. stack \in Seq(Frames) /\ PendingHead \in Slots
  BY TypeParts
<1>b. <<>> \in Seq(Frames) /\ NoLoop(<<>>)
  BY FewFrames, EmptyNoLoop
<1>1. CASE CallbackReturns
  BY <1>1, <1>b, Continues DEF CallbackReturns, Callbacks, LoopLabels
<1>2. CASE FailNext
  <2> DEFINE r == Head(Top.reqs)
             rest == Fail(Tail(Top.reqs))
  <2>1. /\ stack # <<>> /\ Top.at = "fail" /\ Top.reqs # <<>> /\ resuming' = resuming
        /\ \/ stack' = Become(rest)
           \/ r # Null /\ stack' = Become(<<Frame("error", <<r>>)>> \o rest)
    BY <1>2 DEF FailNext, ErrorSkips, At
  <2>2. Top.reqs \in Seq(Slots)
    BY <1>a, <2>1, TopType
  <2>3. r \in Slots /\ rest \in Seq(Frames) /\ NoLoop(rest)
    BY <2>1, <2>2, HeadTailProperties, FailType, NoLoopFrames
  <2>4. CASE stack' = Become(rest)
    BY <2>1, <2>3, <2>4, Continues DEF LoopLabels
  <2>5. CASE r # Null /\ stack' = Become(<<Frame("error", <<r>>)>> \o rest)
    <3>1. Frame("error", <<r>>) \in Frames /\ Frame("error", <<r>>).at \notin LoopLabels
      BY <2>3, <2>5, FrameTypes, RequestLabelsAre DEF Frame, LoopLabels, Slots
    <3>2. <<Frame("error", <<r>>)>> \in Seq(Frames) /\ NoLoop(<<Frame("error", <<r>>)>>)
      BY <3>1, FewFrames, FewNoLoop
    <3>3. /\ <<Frame("error", <<r>>)>> \o rest \in Seq(Frames)
          /\ NoLoop(<<Frame("error", <<r>>)>> \o rest)
      BY <2>3, <3>2, CatLoop, ConcatProperties
    <3>4. QED
      BY <2>1, <2>5, <3>3, Continues DEF LoopLabels
  <2>6. QED
    BY <2>1, <2>4, <2>5
<1>3. CASE CheckEmpty
  BY <1>3, <1>b, Continues DEF CheckEmpty, At, LoopLabels
<1>4. CASE DestroyEnd
  <2>1. <<Do("resume")>> \in Seq(Frames) /\ NoLoop(<<Do("resume")>>)
    BY FrameTypes, PlainLabelsAre, FewFrames, NoLoopFrames DEF LoopLabels
  <2>2. QED
    BY <1>4, <2>1, Continues DEF DestroyEnd, At, LoopLabels
<1>5. CASE DestroyCallback
  BY <1>5, <1>b, Continues DEF DestroyCallback, At, LoopLabels
<1>6. CASE FailAltname
  <2>1. <<PendingHead>> \in Seq(Slots)
    BY <1>a
  <2>2. Fail(<<PendingHead>>) \in Seq(Frames) /\ NoLoop(Fail(<<PendingHead>>))
    BY <2>1, FailType, NoLoopFrames
  <2>3. /\ stack # <<>> /\ Top.at \notin LoopLabels /\ resuming' = resuming
        /\ stack' = Caller \/ stack' = Call(Fail(<<PendingHead>>))
    BY <1>6 DEF FailAltname, At, LoopLabels
  <2>4. QED
    BY <1>b, <2>2, <2>3, Continues, Calls
<1>7. CASE CloseEnd
  <2>1. /\ <<Do("disconnect"), Do("resume")>> \in Seq(Frames)
        /\ NoLoop(<<Do("disconnect"), Do("resume")>>)
    BY DoNoLoop, PlainLabelsAre DEF LoopLabels
  <2>2. QED
    BY <1>7, <2>1, Continues DEF CloseEnd, At, LoopLabels
<1>8. QED
  BY <1>1, <1>2, <1>3, <1>4, <1>5, <1>6, <1>7

LEMMA SocketFrameNesting ==
  TypeOK /\ Nesting
    /\ (\/ AbortSocket \/ EndBody \/ WriterFail \/ AfterHeaders
        \/ Complete \/ AfterEnd \/ UpgradeCall \/ Upgraded)
    => Nesting'
<1> SUFFICES ASSUME TypeOK, Nesting,
                    \/ AbortSocket \/ EndBody \/ WriterFail \/ AfterHeaders
                    \/ Complete \/ AfterEnd \/ UpgradeCall \/ Upgraded
             PROVE  Nesting'
  OBVIOUS
<1>a. stack \in Seq(Frames) /\ RunningHead \in Slots
  BY TypeParts
<1>b. /\ <<>> \in Seq(Frames) /\ NoLoop(<<>>)
      /\ <<Do("resume")>> \in Seq(Frames) /\ NoLoop(<<Do("resume")>>)
  BY EmptyNoLoop, FrameTypes, PlainLabelsAre, FewFrames, NoLoopFrames
     DEF LoopLabels
<1>1. CASE AbortSocket
  BY <1>1, <1>b, Continues DEF AbortSocket, At, LoopLabels
<1>2. CASE EndBody
  BY <1>2, <1>b, Continues DEF EndBody, At, LoopLabels
<1>3. CASE WriterFail
  <2>1. /\ stack # <<>> /\ Top.at \notin LoopLabels /\ resuming' = resuming
        /\ \/ stack' = Caller
           \/ RunningHead # Null /\ stack' = Become(AbortFrames(RunningHead))
    BY <1>3 DEF WriterFail, At, LoopLabels
  <2>2. CASE stack' = Caller
    BY <1>b, <2>1, <2>2, Continues
  <2>3. CASE RunningHead # Null /\ stack' = Become(AbortFrames(RunningHead))
    <3>1. RunningHead \in Requests
      BY <1>a, <2>3 DEF Slots
    <3>2. QED
      BY <2>1, <2>3, <3>1, AbortFramesType, NoLoopFrames, Continues
  <2>4. QED
    BY <2>1, <2>2, <2>3
<1>4. CASE AfterHeaders
  <2>1. <<Moved("complete", <<>>)>> \in Seq(Frames) /\ NoLoop(<<Moved("complete", <<>>)>>)
    <3>1. stack # <<>> /\ "complete" \in PlainLabels
      BY <1>4, PlainLabelsAre DEF AfterHeaders, At
    <3>2. Moved("complete", <<>>) \in Frames
          /\ Moved("complete", <<>>).at \notin LoopLabels
      BY <1>a, <3>1, MovedLoop DEF Moved, LoopLabels
    <3>3. QED
      BY <3>2, FewFrames, FewNoLoop
  <2>2. /\ stack # <<>> /\ Top.at \notin LoopLabels /\ resuming' = resuming
        /\ \/ stack' = Caller \/ stack' = Become(<<Moved("complete", <<>>)>>)
           \/ stack' = Become(<<>>) \/ stack' = Become(<<Do("resume")>>)
    BY <1>4 DEF AfterHeaders, At, LoopLabels, Goto, Become
  <2>3. QED
    BY <1>b, <2>1, <2>2, Continues
<1>5. CASE Complete
  <2>1. /\ stack # <<>> /\ Top.at \notin LoopLabels /\ resuming' = resuming
        /\ \/ stack' = Caller \/ stack' = stack
           \/ /\ RunningHead # Null
              /\ stack' = Become(<<Frame("end", <<RunningHead>>), Do("afterEnd")>>)
    BY <1>5 DEF Complete, At, LoopLabels
  <2>2. CASE stack' = Caller \/ stack' = stack
    BY <1>b, <2>1, <2>2, Continues, StackUnchanged
  <2>3. CASE /\ RunningHead # Null
             /\ stack' = Become(<<Frame("end", <<RunningHead>>), Do("afterEnd")>>)
    <3>1. RunningHead \in Requests
      BY <1>a, <2>3 DEF Slots
    <3>2. /\ <<Frame("end", <<RunningHead>>), Do("afterEnd")>> \in Seq(Frames)
          /\ NoLoop(<<Frame("end", <<RunningHead>>), Do("afterEnd")>>)
      <4>1. /\ "afterEnd" \in PlainLabels \ LoopLabels
            /\ "end" \in RequestLabels \ LoopLabels
        BY PlainLabelsAre, RequestLabelsAre DEF LoopLabels
      <4>2. Do("afterEnd") \in Frames /\ Do("afterEnd").at \notin LoopLabels
        BY <4>1, DoNoLoop
      <4>3. QED
        BY <3>1, <4>1, <4>2, RequestNoLoop
    <3>3. QED
      BY <2>1, <2>3, <3>2, Continues
  <2>4. QED
    BY <2>1, <2>2, <2>3
<1>6. CASE AfterEnd
  <2>1. /\ stack # <<>> /\ Top.at \notin LoopLabels /\ resuming' = resuming
        /\ stack' = Become(<<>>) \/ stack' = Become(<<Do("resume")>>)
    BY <1>6 DEF AfterEnd, At, LoopLabels
  <2>2. QED
    BY <1>b, <2>1, Continues
<1>7. CASE UpgradeCall
  <2> DEFINE r == Top.reqs[1]
  <2>1. /\ stack # <<>> /\ Top.at = "upgradeCall" /\ resuming' = resuming
        /\ \/ stack' = Caller
           \/ stack' = Become(<<Frame("upgrade", <<r>>), Frame("upgraded", <<r>>)>>)
    BY <1>7 DEF UpgradeCall, At
  <2>2. r \in Requests
    BY <1>a, <2>1, TopType, RequestLabelsAre
  <2>3. /\ <<Frame("upgrade", <<r>>), Frame("upgraded", <<r>>)>> \in Seq(Frames)
        /\ NoLoop(<<Frame("upgrade", <<r>>), Frame("upgraded", <<r>>)>>)
    <3>1. /\ "upgrade" \in RequestLabels \ LoopLabels
          /\ "upgraded" \in RequestLabels \ LoopLabels
      BY RequestLabelsAre DEF LoopLabels
    <3>2. Frame("upgraded", <<r>>) \in Frames
          /\ Frame("upgraded", <<r>>).at \notin LoopLabels
      BY <2>2, <3>1, FrameTypes DEF Frame
    <3>3. QED
      BY <2>2, <3>1, <3>2, RequestNoLoop
  <2>4. QED
    BY <1>b, <2>1, <2>3, Continues DEF LoopLabels
<1>8. CASE Upgraded
  BY <1>8, <1>b, Continues DEF Upgraded, At, LoopLabels
<1>9. QED
  BY <1>1, <1>2, <1>3, <1>4, <1>5, <1>6, <1>7, <1>8

LEMMA TaskNesting == TypeOK /\ Nesting /\ (TaskStep \/ ImmediateResume) => Nesting'
<1> SUFFICES ASSUME TypeOK, Nesting, TaskStep \/ ImmediateResume PROVE Nesting'
  OBVIOUS
<1>1. CASE TaskResume
  <2>1. <<Loop(FALSE)>> \in Seq(Frames) /\ OneLoop(<<Loop(FALSE)>>)
    BY LoopAlone
  <2>2. stack' = <<Loop(FALSE)>> /\ resuming' = 2
    BY <1>1 DEF TaskResume
  <2>3. QED
    BY <2>1, <2>2 DEF Nesting
<1>2. CASE TaskDrain
  <2>1. /\ <<Do("drain")>> \in Seq(Frames) /\ NoLoop(<<Do("drain")>>)
    BY DoNoLoop, PlainLabelsAre DEF LoopLabels
  <2>2. stack = <<>> /\ stack' = <<Do("drain")>> /\ resuming' = resuming
    BY <1>2 DEF TaskDrain, NextTask
  <2>3. ~OneLoop(stack)
    BY <2>2 DEF OneLoop
  <2>4. QED
    BY <2>1, <2>2, <2>3 DEF Nesting
<1>3. CASE TaskClosed
  <2>1. resuming' = resuming /\ (stack' = stack \/ BeginDestroy)
    BY <1>3 DEF TaskClosed
  <2>2. QED
    BY <2>1, StackUnchanged, BeginDestroyNesting
<1>4. CASE TaskDestroyCallback
  BY <1>4, StackUnchanged DEF TaskDestroyCallback
<1>5. CASE TaskDestroyed
  BY <1>5, StackUnchanged DEF TaskDestroyed
<1>6. CASE ImmediateResume
  <2>1. <<Do("resume")>> \in Seq(Frames) /\ NoLoop(<<Do("resume")>>)
    BY DoNoLoop, PlainLabelsAre DEF LoopLabels
  <2>2. stack' = Call(<<Do("resume")>>) /\ resuming' = resuming
    BY <1>6 DEF ImmediateResume
  <2>3. QED
    BY <2>1, <2>2, Calls
<1>7. QED
  BY <1>1, <1>2, <1>3, <1>4, <1>5, <1>6 DEF TaskStep

\* What follows an error of the connection holds no loop.
LEMMA ErrorNoLoop ==
  ASSUME TypeOK, NEW e
  PROVE  ErrorFrames(e) \in Seq(Frames) /\ NoLoop(ErrorFrames(e))
<1>1. Fail(From(queue, runningIdx)) \in Seq(Frames)
      /\ NoLoop(Fail(From(queue, runningIdx)))
  <2>1. From(queue, runningIdx) \in Seq(Slots)
    BY SpliceTypes, TypeParts
  <2>2. QED
    BY <2>1, FailType, NoLoopFrames
<1>2. <<Do("checkEmpty")>> \in Seq(Frames) /\ NoLoop(<<Do("checkEmpty")>>)
  BY DoNoLoop, PlainLabelsAre DEF LoopLabels
<1>3. NoLoop(Fail(From(queue, runningIdx)) \o <<Do("checkEmpty")>>)
  BY <1>1, <1>2, CatLoop
<1>4. QED
  BY <1>3, ErrorTypes, EmptyNoLoop DEF ErrorFrames

LEMMA SocketErrorsNesting ==
  ASSUME TypeOK, Nesting, NEW s, NEW e, SocketErrors(s, e), resuming' = resuming
  PROVE  Nesting'
<1> DEFINE writer == IF s.writing THEN <<Do("writerFail")>> ELSE <<>>
<1>1. writer \in Seq(Frames) /\ NoLoop(writer)
  BY DoNoLoop, PlainLabelsAre, FewFrames, EmptyNoLoop DEF LoopLabels
<1>2. stack' = Call(ErrorFrames(e) \o writer)
  BY DEF SocketErrors
<1> HIDE DEF writer
<1>3. ErrorFrames(e) \o writer \in Seq(Frames) /\ NoLoop(ErrorFrames(e) \o writer)
  BY <1>1, ErrorNoLoop, CatLoop, ConcatProperties
<1>4. QED
  BY <1>2, <1>3, Calls

LEMMA ConnectorNesting == TypeOK /\ Nesting /\ Connector => Nesting'
<1> SUFFICES ASSUME TypeOK, Nesting, Connector PROVE Nesting'
  OBVIOUS
<1>a. /\ "resume" \in PlainLabels \ LoopLabels /\ "connect" \in PlainLabels \ LoopLabels
      /\ "connectionError" \in PlainLabels \ LoopLabels
      /\ "failAltname" \in PlainLabels \ LoopLabels
  BY PlainLabelsAre DEF LoopLabels
<1>1. CASE ConnectTooLate
  <2>1. stack' = Call(<<Do("resume")>>) /\ resuming' = resuming
    BY <1>1 DEF ConnectTooLate
  <2>2. QED
    BY <1>a, <2>1, DoNoLoop, Calls
<1>2. CASE ConnectOK
  <2>1. stack' = Call(<<Do("connect"), Do("resume")>>) /\ resuming' = resuming
    BY <1>2 DEF ConnectOK
  <2>2. QED
    BY <1>a, <2>1, DoNoLoop, Calls
<1>3. ASSUME NEW e, ConnectFail(e) PROVE Nesting'
  <2> DEFINE tail == <<Do("connectionError"), Do("resume")>>
             altname == Fail(RunningPart) \o <<Do("failAltname")>>
  <2>1. tail \in Seq(Frames) /\ NoLoop(tail)
    BY <1>a, DoNoLoop
  <2>2. altname \in Seq(Frames) /\ NoLoop(altname)
    <3>1. RunningPart \in Seq(Slots)
      <4>1. queue \in Seq(Slots) /\ runningIdx \in Int /\ Running \in Int
        BY TypeParts
      <4>2. QED
        BY <4>1, SpliceTypes DEF RunningPart
    <3>2. <<Do("failAltname")>> \in Seq(Frames) /\ NoLoop(<<Do("failAltname")>>)
      BY <1>a, DoNoLoop
    <3>3. QED
      BY <3>1, <3>2, FailType, NoLoopFrames, CatLoop, ConcatProperties
  <2>3. /\ resuming' = resuming
        /\ stack' = Call(altname \o tail) \/ stack' = Call(ErrorFrames(e) \o tail)
    BY <1>3 DEF ConnectFail
  <2> HIDE DEF tail, altname
  <2>4. /\ altname \o tail \in Seq(Frames) /\ NoLoop(altname \o tail)
        /\ ErrorFrames(e) \o tail \in Seq(Frames) /\ NoLoop(ErrorFrames(e) \o tail)
    BY <2>1, <2>2, ErrorNoLoop, CatLoop, ConcatProperties
  <2>5. QED
    BY <2>3, <2>4, Calls
<1>4. QED
  BY <1>1, <1>2, <1>3 DEF Connector

LEMMA AnswerNesting ==
  TypeOK /\ Nesting /\ (Answer \/ ResponseResumed) => Nesting'
<1> SUFFICES ASSUME TypeOK, Nesting, Answer \/ ResponseResumed PROVE Nesting'
  OBVIOUS
<1>a. RunningHead \in Slots
  BY TypeParts
<1>b. /\ "headers" \in RequestLabels \ LoopLabels
      /\ "afterHeaders" \in RequestLabels \ LoopLabels
      /\ "upgradeCall" \in RequestLabels \ LoopLabels
      /\ "complete" \in PlainLabels \ LoopLabels
      /\ "disconnect" \in PlainLabels \ LoopLabels
      /\ "resume" \in PlainLabels \ LoopLabels
  BY RequestLabelsAre, PlainLabelsAre DEF LoopLabels
<1>1. ASSUME NEW keep \in BOOLEAN, NEW short \in BOOLEAN,
             ResponseHead(keep, short)
      PROVE  Nesting'
  <2>1. RunningHead \in Requests
    BY <1>1, <1>a DEF ResponseHead, Slots
  <2>2. Frame("afterHeaders", <<RunningHead>>) \in Frames
        /\ Frame("afterHeaders", <<RunningHead>>).at \notin LoopLabels
    BY <1>b, <2>1, FrameTypes DEF Frame
  <2>3. stack' = Call(<<Frame("headers", <<RunningHead>>),
                        Frame("afterHeaders", <<RunningHead>>)>>)
        /\ resuming' = resuming
    BY <1>1 DEF ResponseHead
  <2>4. QED
    BY <1>b, <2>1, <2>2, <2>3, RequestNoLoop, Calls
<1>2. CASE ResponseEnd
  <2>1. stack' = Call(<<Do("complete")>>) /\ resuming' = resuming
    BY <1>2 DEF ResponseEnd
  <2>2. QED
    BY <1>b, <2>1, DoNoLoop, Calls
<1>3. CASE ResponseUpgrade
  <2>1. RunningHead \in Requests
    BY <1>3, <1>a DEF ResponseUpgrade, Slots
  <2>2. /\ Frame("upgradeCall", <<RunningHead>>) \in Frames
        /\ Frame("upgradeCall", <<RunningHead>>).at \notin LoopLabels
        /\ Do("disconnect") \in Frames /\ Do("disconnect").at \notin LoopLabels
        /\ Do("resume") \in Frames /\ Do("resume").at \notin LoopLabels
    BY <1>b, <2>1, FrameTypes, DoNoLoop DEF Frame
  <2>3. stack' = Call(<<Do("disconnect"), Frame("upgradeCall", <<RunningHead>>),
                        Do("resume")>>)
        /\ resuming' = resuming
    BY <1>3 DEF ResponseUpgrade
  <2>4. QED
    BY <2>2, <2>3, FewFrames, FewNoLoop, Calls
<1>4. CASE HeadersTimeout \/ BodyTimeout
  BY <1>4, StackUnchanged DEF HeadersTimeout, BodyTimeout, Destroys
<1>5. CASE ResponseResumed
  BY <1>5, StackUnchanged DEF ResponseResumed
<1>6. QED
  BY <1>1, <1>2, <1>3, <1>4, <1>5 DEF Answer

LEMMA DisturbanceNesting == TypeOK /\ Nesting /\ Disturbance => Nesting'
<1> SUFFICES ASSUME TypeOK, Nesting, Disturbance PROVE Nesting'
  OBVIOUS
<1>a. /\ <<Do("complete")>> \in Seq(Frames) /\ NoLoop(<<Do("complete")>>)
      /\ <<Do("writerFail")>> \in Seq(Frames) /\ NoLoop(<<Do("writerFail")>>)
      /\ <<>> \in Seq(Frames) /\ NoLoop(<<>>)
  BY DoNoLoop, PlainLabelsAre, FewFrames, EmptyNoLoop DEF LoopLabels
<1>1. CASE ResponseData
  BY <1>1, StackUnchanged DEF ResponseData
<1>2. CASE KeepAliveTimeout
  BY <1>2, StackUnchanged DEF KeepAliveTimeout, Destroys
<1>3. CASE SocketEnd
  <2>1. resuming' = resuming /\ (stack' = stack \/ stack' = Call(<<Do("complete")>>))
    BY <1>3 DEF SocketEnd
  <2>2. QED
    BY <1>a, <2>1, StackUnchanged, Calls
<1>4. CASE SocketReset
  <2>1. resuming' = resuming
    BY <1>4 DEF SocketReset
  <2>2. CASE SocketErrors([sock EXCEPT !.paused = FALSE], "other")
    BY <2>1, <2>2, SocketErrorsNesting
  <2>3. CASE ~SocketErrors([sock EXCEPT !.paused = FALSE], "other")
    <3>1. \/ stack' = Call(<<Do("complete")>> \o <<Do("writerFail")>>)
          \/ stack' = Call(<<Do("complete")>> \o <<>>)
      BY <1>4, <2>3 DEF SocketReset
    <3>2. /\ <<Do("complete")>> \o <<Do("writerFail")>> \in Seq(Frames)
          /\ NoLoop(<<Do("complete")>> \o <<Do("writerFail")>>)
          /\ <<Do("complete")>> \o <<>> \in Seq(Frames)
          /\ NoLoop(<<Do("complete")>> \o <<>>)
      BY <1>a, CatLoop, ConcatProperties
    <3>3. QED
      BY <2>1, <3>1, <3>2, Calls
  <2>4. QED
    BY <2>2, <2>3
<1>5. ASSUME NEW e, BadBytes(e) PROVE Nesting'
  BY <1>5, StackUnchanged DEF BadBytes, Destroys
<1>6. CASE BodyError
  BY <1>6, <1>a, Calls DEF BodyError
<1>7. ASSUME NEW r \in Requests, QueuedBodyError(r) PROVE Nesting'
  BY <1>7, StackUnchanged DEF QueuedBodyError
<1>8. QED
  BY <1>1, <1>2, <1>3, <1>4, <1>5, <1>6, <1>7 DEF Disturbance

LEMMA EventNesting ==
  TypeOK /\ Nesting /\ (BodyEnd \/ IdleValidated \/ SocketError \/ SocketClose)
    => Nesting'
<1> SUFFICES ASSUME TypeOK, Nesting,
                    BodyEnd \/ IdleValidated \/ SocketError \/ SocketClose
             PROVE  Nesting'
  OBVIOUS
<1>a. /\ "resume" \in PlainLabels \ LoopLabels /\ "endBody" \in PlainLabels \ LoopLabels
      /\ "closeEnd" \in PlainLabels \ LoopLabels /\ "sent" \in PlainLabels \ LoopLabels
      /\ "destroyCallback" \in PlainLabels \ LoopLabels
  BY PlainLabelsAre DEF LoopLabels
<1>1. CASE BodyEnd
  <2>1. Frame("sent", <<>>) = Do("sent")
    BY DEF Do
  <2>2. stack' = Call(<<Do("sent"), Do("endBody")>>) /\ resuming' = resuming
    BY <1>1, <2>1 DEF BodyEnd
  <2>3. QED
    BY <1>a, <2>2, DoNoLoop, Calls
<1>2. CASE IdleValidated
  <2>1. stack' = Call(<<Do("resume")>>) /\ resuming' = resuming
    BY <1>2 DEF IdleValidated
  <2>2. QED
    BY <1>a, <2>1, DoNoLoop, Calls
<1>3. CASE SocketError
  <2>1. SocketErrors(sock, sock.err) /\ resuming' = resuming
    BY <1>3 DEF SocketError
  <2>2. QED
    BY <2>1, SocketErrorsNesting
<1>4. CASE SocketClose
  <2> DEFINE failed == IF destroyed THEN From(queue, runningIdx)
                       ELSE IF FailsHead THEN <<RunningHead>> ELSE <<>>
             renamed == IF "rename" \in sock.onClose THEN <<Do("resume")>> ELSE <<>>
             called == IF "destroy" \in sock.onClose
                       THEN <<Do("destroyCallback")>> ELSE <<>>
  <2>1. failed \in Seq(Slots)
    BY TypeParts, SpliceTypes
  <2>2. /\ Fail(failed) \in Seq(Frames) /\ NoLoop(Fail(failed))
        /\ <<Do("closeEnd")>> \in Seq(Frames) /\ NoLoop(<<Do("closeEnd")>>)
        /\ renamed \in Seq(Frames) /\ NoLoop(renamed)
        /\ called \in Seq(Frames) /\ NoLoop(called)
    BY <1>a, <2>1, FailType, NoLoopFrames, DoNoLoop, FewFrames, EmptyNoLoop
  <2>3. stack' = Call(Fail(failed) \o <<Do("closeEnd")>> \o renamed \o called)
        /\ resuming' = resuming
    BY <1>4 DEF SocketClose
  <2> HIDE DEF failed, renamed, called
  <2>4. /\ Fail(failed) \o <<Do("closeEnd")>> \in Seq(Frames)
        /\ NoLoop(Fail(failed) \o <<Do("closeEnd")>>)
    BY <2>2, CatLoop, ConcatProperties
  <2>5. /\ Fail(failed) \o <<Do("closeEnd")>> \o renamed \in Seq(Frames)
        /\ NoLoop(Fail(failed) \o <<Do("closeEnd")>> \o renamed)
    BY <2>2, <2>4, CatLoop, ConcatProperties
  <2>6. /\ Fail(failed) \o <<Do("closeEnd")>> \o renamed \o called \in Seq(Frames)
        /\ NoLoop(Fail(failed) \o <<Do("closeEnd")>> \o renamed \o called)
    BY <2>2, <2>5, CatLoop, ConcatProperties
  <2>7. QED
    BY <2>3, <2>6, Calls
<1>5. QED
  BY <1>1, <1>2, <1>3, <1>4

LEMMA InitNesting == Init => Nesting
BY EmptyNoLoop DEF Init, Nesting

LEMMA NestingStep == TypeOK /\ Nesting /\ [Next]_vars => Nesting'
<1>1. TypeOK /\ Nesting /\ UNCHANGED vars => Nesting'
  BY StackUnchanged DEF vars
<1>2. TypeOK /\ Nesting /\ FrameStep => Nesting'
  BY LoopNesting, QueueFrameNesting, SocketFrameNesting DEF FrameStep
<1>3. QED
  BY <1>1, <1>2, UserNesting, TaskNesting, ConnectorNesting, AnswerNesting,
     DisturbanceNesting, EventNesting DEF Next

\* resume() never runs within resume(), whatever the user calls from within
\* the callbacks: kResuming is 2 exactly while it runs.
THEOREM NoNesting == Spec => []ResumeNotNested
<1>1. TypeOK /\ Nesting => ResumeNotNested
  BY NestingMeans DEF TypeOK
<1>2. QED
  BY TypeCorrect, InitNesting, NestingStep, <1>1, PTL DEF Spec


\* The user makes none of the two calls the code's own assertions rule out:
\* destroy() from within onResponseError, which may be half way through the
\* queue, or from within onRequestSent, before the loop has counted the request.
CarefulUser == <<"error", "destroy">> \notin UserCalls /\ <<"sent", "destroy">> \notin UserCalls

----------------------------------------------------------------------------
(* Sets of frames and of labels.                                            *)

\* The labels of the frames of s.
On(s) == {s[i].at : i \in DOMAIN s}

\* Above a frame labelled in lower there are only frames labelled in upper.
Above(s, lower, upper) ==
  \A i \in DOMAIN s : s[i].at \in lower => \A j \in 1..(i - 1) : s[j].at \in upper

\* What may run while resume() is in the middle of its loop.
Inner == {"start", "sent", "drain", "error", "abortSocket", "fail", "destroyEnd",
          "resume"}

\* What takes a request out of the running part; only one is at work at a time.
Finishing == {"afterHeaders", "complete", "afterEnd", "closeEnd", "upgradeCall",
         "upgraded"}

Shape(s) ==
  /\ Above(s, LoopLabels, Inner)
  /\ Above(s, {"busy", "pick", "exit"}, {})
  /\ Above(s, {"advance"}, {"sent", "error", "abortSocket"})
  /\ Above(s, {"splice"}, {"fail", "error", "abortSocket"})
  /\ Above(s, Finishing, Labels \ Finishing)
  /\ Above(s, {"fail"}, Labels \ Finishing)

LEMMA CatElements ==
  ASSUME NEW s \in Seq(Frames), NEW t \in Seq(Frames)
  PROVE  /\ Len(s) \in Nat /\ Len(t) \in Nat /\ s \o t \in Seq(Frames)
         /\ DOMAIN s = 1..Len(s) /\ DOMAIN t = 1..Len(t)
         /\ DOMAIN (s \o t) = 1..(Len(s) + Len(t))
         /\ \A i \in 1..Len(s) : (s \o t)[i] = s[i]
         /\ \A i \in 1..Len(t) : (s \o t)[Len(s) + i] = t[i]
         /\ \A i \in 1..(Len(s) + Len(t)) :
              i > Len(s) => i - Len(s) \in 1..Len(t) /\ (s \o t)[i] = t[i - Len(s)]
BY LenProperties, ConcatProperties

LEMMA OnCat ==
  ASSUME NEW s \in Seq(Frames), NEW t \in Seq(Frames)
  PROVE  On(s \o t) = On(s) \cup On(t)
<1>1. ASSUME NEW i \in DOMAIN (s \o t) PROVE (s \o t)[i].at \in On(s) \cup On(t)
  <2>1. CASE i <= Len(s)
    BY <2>1, CatElements DEF On
  <2>2. CASE i > Len(s)
    BY <2>2, CatElements DEF On
  <2>3. QED
    BY <2>1, <2>2, CatElements
<1>2. ASSUME NEW i \in DOMAIN s PROVE s[i].at \in On(s \o t)
  BY CatElements DEF On
<1>3. ASSUME NEW i \in DOMAIN t PROVE t[i].at \in On(s \o t)
  <2>1. Len(s) + i \in DOMAIN (s \o t) /\ (s \o t)[Len(s) + i] = t[i]
    BY CatElements
  <2>2. QED
    BY <2>1 DEF On
<1>4. QED
  BY <1>1, <1>2, <1>3 DEF On

LEMMA OnFew ==
  /\ On(<<>>) = {}
  /\ \A f : On(<<f>>) = {f.at}
  /\ \A f, g : On(<<f, g>>) = {f.at, g.at}
  /\ \A f, g, h : On(<<f, g, h>>) = {f.at, g.at, h.at}
<1>1. On(<<>>) = {}
  BY DEF On
<1>2. ASSUME NEW f PROVE On(<<f>>) = {f.at}
  BY DEF On
<1>3. ASSUME NEW f, NEW g PROVE On(<<f, g>>) = {f.at, g.at}
  BY DEF On
<1>4. ASSUME NEW f, NEW g, NEW h PROVE On(<<f, g, h>>) = {f.at, g.at, h.at}
  BY DEF On
<1>5. QED
  BY <1>1, <1>2, <1>3, <1>4

LEMMA OnFail ==
  ASSUME NEW rs \in Seq(Slots)
  PROVE  Fail(rs) \in Seq(Frames) /\ On(Fail(rs)) \subseteq {"fail"}
BY FailType, OnFew DEF Fail, Frame

LEMMA OnTop ==
  ASSUME stack \in Seq(Frames), stack # <<>>
  PROVE  On(stack) = {Top.at} \cup On(Caller)
<1>1. stack = <<Top>> \o Caller /\ <<Top>> \in Seq(Frames) /\ Caller \in Seq(Frames)
  BY TopType, HeadTailProperties, FewFrames DEF Top, Caller
<1>2. QED
  BY <1>1, OnCat, OnFew, ZenonT(30)

LEMMA AboveCat ==
  ASSUME NEW s \in Seq(Frames), NEW t \in Seq(Frames), NEW lower, NEW upper,
         Above(s, lower, upper), Above(t, lower, upper),
         On(s) \subseteq upper \/ On(t) \cap lower = {}
  PROVE  Above(s \o t, lower, upper)
<1> SUFFICES ASSUME NEW i \in DOMAIN (s \o t), (s \o t)[i].at \in lower,
                    NEW j \in 1..(i - 1)
             PROVE  (s \o t)[j].at \in upper
  BY DEF Above
<1>1. i \in 1..(Len(s) + Len(t)) /\ j \in 1..(Len(s) + Len(t)) /\ j < i
  BY CatElements
<1>2. CASE i <= Len(s)
  BY <1>1, <1>2, CatElements DEF Above
<1>3. CASE i > Len(s)
  <2>1. i - Len(s) \in DOMAIN t /\ t[i - Len(s)].at \in lower
    BY <1>1, <1>3, CatElements
  <2>2. On(s) \subseteq upper
    BY <2>1 DEF On
  <2>3. CASE j <= Len(s)
    BY <1>1, <2>2, <2>3, CatElements DEF On
  <2>4. CASE j > Len(s)
    <3>1. j - Len(s) \in 1..(i - Len(s) - 1) /\ (s \o t)[j] = t[j - Len(s)]
      BY <1>1, <2>4, CatElements
    <3>2. QED
      BY <2>1, <3>1 DEF Above
  <2>5. QED
    BY <1>1, <2>3, <2>4, CatElements
<1>4. QED
  BY <1>1, <1>2, <1>3, CatElements

LEMMA AboveTop ==
  ASSUME stack \in Seq(Frames), stack # <<>>, NEW lower, NEW upper,
         Above(stack, lower, upper)
  PROVE  /\ Above(Caller, lower, upper)
         /\ Top.at \notin upper => On(Caller) \cap lower = {}
<1>1. /\ DOMAIN stack = 1..Len(stack) /\ Len(stack) \in Nat \ {0}
      /\ Top = stack[1] /\ DOMAIN Caller = 1..(Len(stack) - 1)
      /\ \A i \in 1..(Len(stack) - 1) : Caller[i] = stack[i + 1]
  BY EmptySeq, LenProperties, HeadTailProperties DEF Top, Caller
<1>2. Above(Caller, lower, upper)
  <2> SUFFICES ASSUME NEW i \in DOMAIN Caller, Caller[i].at \in lower,
                      NEW j \in 1..(i - 1)
               PROVE  Caller[j].at \in upper
    BY DEF Above
  <2>1. i + 1 \in DOMAIN stack /\ stack[i + 1].at \in lower
        /\ j + 1 \in 1..((i + 1) - 1)
    BY <1>1
  <2>2. stack[j + 1].at \in upper
    BY <2>1 DEF Above
  <2>3. j \in 1..(Len(stack) - 1)
    BY <1>1
  <2>4. Caller[j] = stack[j + 1]
    BY <1>1, <2>3
  <2>5. QED
    BY <2>2, <2>4
<1>3. ASSUME NEW i \in DOMAIN Caller, Caller[i].at \in lower PROVE Top.at \in upper
  <2>1. i + 1 \in DOMAIN stack /\ stack[i + 1].at \in lower /\ 1 \in 1..i
    BY <1>1, <1>3
  <2>2. QED
    BY <1>1, <2>1 DEF Above
<1>4. QED
  BY <1>2, <1>3 DEF On

----------------------------------------------------------------------------
(* What the steps do to the stack.                                          *)

\* fs are frames with the labels in S; those that fail requests may be missing.
Pile(fs, S) ==
  fs \in Seq(Frames) /\ Shape(fs) /\ On(fs) \subseteq S /\ S \subseteq On(fs) \cup {"fail"}

\* The step puts such frames on t.
Moves(S, t) == \E fs : stack' = fs \o t /\ Pile(fs, S)

LEMMA ShapePlain ==
  ASSUME NEW fs \in Seq(Frames), On(fs) \cap (LoopLabels \cup Finishing) = {}
  PROVE  Shape(fs)
<1>1. \A i \in DOMAIN fs : fs[i].at \notin LoopLabels \cup Finishing
  BY DEF On
<1>2. \A i \in DOMAIN fs : fs[i].at \in Labels
  BY ElementOfSeq, FrameFields, LenProperties
<1>3. \A i \in DOMAIN fs : \A j \in 1..(i - 1) : j \in DOMAIN fs
  BY LenProperties
<1>4. {"busy", "pick", "exit", "advance", "splice"} \subseteq LoopLabels
  BY DEF LoopLabels
<1>5. QED
  BY <1>1, <1>2, <1>3, <1>4 DEF Shape, Above

\* The shape of sequences of one, two and three frames.
LEMMA ShapeFew ==
  /\ Shape(<<>>)
  /\ \A f \in Frames : Shape(<<f>>)
  /\ \A f, g \in Frames :
       Shape(<<f, g>>) <=>
         /\ g.at \in LoopLabels => f.at \in Inner
         /\ g.at \notin {"busy", "pick", "exit"}
         /\ g.at = "advance" => f.at \in {"sent", "error", "abortSocket"}
         /\ g.at = "splice" => f.at \in {"fail", "error", "abortSocket"}
         /\ g.at \in Finishing \cup {"fail"} => f.at \notin Finishing
<1>1. Shape(<<>>)
  BY DEF Shape, Above
<1>2. ASSUME NEW f \in Frames PROVE Shape(<<f>>)
  BY DEF Shape, Above
<1>3. ASSUME NEW f \in Frames, NEW g \in Frames, NEW lower, NEW upper
      PROVE  Above(<<f, g>>, lower, upper) <=> (g.at \in lower => f.at \in upper)
  BY DEF Above
<1>4. ASSUME NEW f \in Frames, NEW g \in Frames
      PROVE  Shape(<<f, g>>) <=>
         /\ g.at \in LoopLabels => f.at \in Inner
         /\ g.at \notin {"busy", "pick", "exit"}
         /\ g.at = "advance" => f.at \in {"sent", "error", "abortSocket"}
         /\ g.at = "splice" => f.at \in {"fail", "error", "abortSocket"}
         /\ g.at \in Finishing \cup {"fail"} => f.at \notin Finishing
  <2>1. f.at \in Labels
    BY FrameFields
  <2>2. QED
    BY <1>3, <2>1 DEF Shape
<1>5. QED
  BY <1>1, <1>2, <1>4

\* Frames that may lie above any others of their own kind are put together.
LEMMA ShapeCat ==
  ASSUME NEW s \in Seq(Frames), NEW t \in Seq(Frames), Shape(s), Shape(t),
         On(s) \subseteq Inner \/ On(t) \cap LoopLabels = {},
         s = <<>> \/ On(t) \cap {"busy", "pick", "exit"} = {},
         On(s) \subseteq {"sent", "error", "abortSocket"} \/ "advance" \notin On(t),
         On(s) \subseteq {"fail", "error", "abortSocket"} \/ "splice" \notin On(t),
         On(s) \cap Finishing = {} \/ On(t) \cap (Finishing \cup {"fail"}) = {}
  PROVE  Shape(s \o t)
<1>1. On(s) \subseteq Labels
  BY ElementOfSeq, FrameFields, LenProperties DEF On
<1>2. Above(s \o t, LoopLabels, Inner)
  BY AboveCat DEF Shape
<1>3. Above(s \o t, {"busy", "pick", "exit"}, {})
  BY AboveCat, OnFew DEF Shape
<1>4. Above(s \o t, {"advance"}, {"sent", "error", "abortSocket"})
  BY AboveCat DEF Shape
<1>5. Above(s \o t, {"splice"}, {"fail", "error", "abortSocket"})
  BY AboveCat DEF Shape
<1>6. Above(s \o t, Finishing, Labels \ Finishing)
  BY <1>1, AboveCat DEF Shape
<1>7. Above(s \o t, {"fail"}, Labels \ Finishing)
  BY <1>1, AboveCat DEF Shape
<1>8. QED
  BY <1>2, <1>3, <1>4, <1>5, <1>6, <1>7 DEF Shape

\* What the innermost frame says about those below it.
LEMMA ShapeTop ==
  ASSUME TypeOK, Nesting, Shape(stack), stack # <<>>
  PROVE  /\ Caller \in Seq(Frames) /\ Shape(Caller)
         /\ On(stack) = {Top.at} \cup On(Caller)
         /\ Top.at \notin Inner => On(Caller) \cap LoopLabels = {}
         /\ On(Caller) \cap {"busy", "pick", "exit"} = {}
         /\ Top.at \notin {"sent", "error", "abortSocket"} => "advance" \notin On(Caller)
         /\ Top.at \notin {"fail", "error", "abortSocket"} => "splice" \notin On(Caller)
         /\ Top.at \in Finishing => On(Caller) \cap (Finishing \cup {"fail"}) = {}
<1>1. stack \in Seq(Frames) /\ Caller \in Seq(Frames)
  BY TypeParts, TopType
<1>2. /\ Above(Caller, LoopLabels, Inner)
      /\ Top.at \notin Inner => On(Caller) \cap LoopLabels = {}
  BY <1>1, AboveTop DEF Shape
<1>3. /\ Above(Caller, {"busy", "pick", "exit"}, {})
      /\ On(Caller) \cap {"busy", "pick", "exit"} = {}
  BY <1>1, AboveTop DEF Shape
<1>4. /\ Above(Caller, {"advance"}, {"sent", "error", "abortSocket"})
      /\ Top.at \notin {"sent", "error", "abortSocket"} => "advance" \notin On(Caller)
  BY <1>1, AboveTop DEF Shape
<1>5. /\ Above(Caller, {"splice"}, {"fail", "error", "abortSocket"})
      /\ Top.at \notin {"fail", "error", "abortSocket"} => "splice" \notin On(Caller)
  BY <1>1, AboveTop DEF Shape
<1>6. /\ Above(Caller, Finishing, Labels \ Finishing)
      /\ Top.at \in Finishing => On(Caller) \cap Finishing = {}
  BY <1>1, AboveTop DEF Shape
<1>7. /\ Above(Caller, {"fail"}, Labels \ Finishing)
      /\ Top.at \in Finishing => "fail" \notin On(Caller)
  BY <1>1, AboveTop DEF Shape
<1>8. QED
  BY <1>1, <1>2, <1>3, <1>4, <1>5, <1>6, <1>7, OnTop DEF Shape

LEMMA PileCat ==
  ASSUME NEW s, NEW S, Pile(s, S), NEW t, NEW T, Pile(t, T),
         S \subseteq Inner \/ T \cap LoopLabels = {},
         s = <<>> \/ T \cap {"busy", "pick", "exit"} = {},
         S \subseteq {"sent", "error", "abortSocket"} \/ "advance" \notin T,
         S \subseteq {"fail", "error", "abortSocket"} \/ "splice" \notin T,
         S \cap Finishing = {} \/ T \cap (Finishing \cup {"fail"}) = {}
  PROVE  Pile(s \o t, S \cup T)
<1>1. s \in Seq(Frames) /\ t \in Seq(Frames) /\ Shape(s) /\ Shape(t)
      /\ On(s) \subseteq S /\ On(t) \subseteq T
      /\ S \subseteq On(s) \cup {"fail"} /\ T \subseteq On(t) \cup {"fail"}
  BY DEF Pile
<1>2. On(s \o t) = On(s) \cup On(t) /\ s \o t \in Seq(Frames)
  BY <1>1, OnCat, CatElements
<1>3. /\ On(s) \subseteq Inner \/ On(t) \cap LoopLabels = {}
      /\ s = <<>> \/ On(t) \cap {"busy", "pick", "exit"} = {}
      /\ On(s) \subseteq {"sent", "error", "abortSocket"} \/ "advance" \notin On(t)
      /\ On(s) \subseteq {"fail", "error", "abortSocket"} \/ "splice" \notin On(t)
      /\ On(s) \cap Finishing = {} \/ On(t) \cap (Finishing \cup {"fail"}) = {}
  BY <1>1
<1>4. Shape(s \o t)
  BY <1>1, <1>3, ShapeCat
<1>5. QED
  BY <1>1, <1>2, <1>4 DEF Pile

LEMMA PileFew ==
  /\ Pile(<<>>, {})
  /\ \A f \in Frames : Pile(<<f>>, {f.at})
  /\ \A at \in PlainLabels : Pile(<<Do(at)>>, {at})
  /\ \A rs \in Seq(Slots) : Pile(Fail(rs), {"fail"})
<1>1. Pile(<<>>, {})
  BY ShapeFew, OnFew, FewFrames DEF Pile
<1>2. ASSUME NEW f \in Frames PROVE Pile(<<f>>, {f.at})
  BY ShapeFew, OnFew, FewFrames DEF Pile
<1>3. ASSUME NEW at \in PlainLabels PROVE Pile(<<Do(at)>>, {at})
  <2>1. Do(at) \in Frames /\ Do(at).at = at
    BY FrameTypes DEF Do, Frame
  <2>2. QED
    BY <1>2, <2>1
<1>4. ASSUME NEW rs \in Seq(Slots) PROVE Pile(Fail(rs), {"fail"})
  <2>1. Frame("fail", rs) \in Frames /\ Frame("fail", rs).at = "fail"
    BY FrameTypes, PlainLabelsAre DEF Frame
  <2>2. QED
    BY <2>1, OnFail, ShapeFew DEF Pile, Fail
<1>5. QED
  BY <1>1, <1>2, <1>3, <1>4

\* Two frames that no rule about what lies above what concerns.
LEMMA PileTwo ==
  ASSUME NEW f \in Frames, NEW g \in Frames,
         g.at \notin LoopLabels,
         f.at \notin Finishing \/ g.at \notin Finishing \cup {"fail"}
  PROVE  Pile(<<f, g>>, {f.at, g.at})
<1>1. {"busy", "pick", "exit", "advance", "splice"} \subseteq LoopLabels
  BY DEF LoopLabels
<1>2. QED
  BY <1>1, ShapeFew, OnFew, FewFrames DEF Pile

\* The stack after such a step.
LEMMA MovesOn ==
  ASSUME NEW S, NEW t \in Seq(Frames), Moves(S, t)
  PROVE  /\ On(stack') \subseteq S \cup On(t)
         /\ S \cup On(t) \subseteq On(stack') \cup {"fail"}
<1>1. PICK fs : stack' = fs \o t /\ Pile(fs, S)
  BY DEF Moves
<1>2. QED
  BY <1>1, OnCat DEF Pile

LEMMA MovesShape ==
  ASSUME NEW S, NEW t \in Seq(Frames), Moves(S, t), Shape(t),
         S \subseteq Inner \/ On(t) \cap LoopLabels = {},
         S = {} \/ On(t) \cap {"busy", "pick", "exit"} = {},
         S \subseteq {"sent", "error", "abortSocket"} \/ "advance" \notin On(t),
         S \subseteq {"fail", "error", "abortSocket"} \/ "splice" \notin On(t),
         S \cap Finishing = {} \/ On(t) \cap (Finishing \cup {"fail"}) = {}
  PROVE  Shape(stack)'
<1>1. PICK fs : stack' = fs \o t /\ Pile(fs, S)
  BY DEF Moves
<1>2. fs \in Seq(Frames) /\ Shape(fs) /\ On(fs) \subseteq S
  BY <1>1 DEF Pile
<1>3. S = {} => fs = <<>>
  <2>1. DOMAIN fs = 1..Len(fs) /\ Len(fs) \in Nat
    BY <1>2, LenProperties
  <2>2. ASSUME Len(fs) # 0 PROVE S # {}
    <3>1. 1 \in DOMAIN fs
      BY <2>1, <2>2
    <3>2. QED
      BY <1>2, <3>1 DEF On
  <2>3. QED
    BY <1>2, <2>1, <2>2, EmptySeq
<1>4. Shape(fs \o t)
  BY <1>2, <1>3, ShapeCat
<1>5. QED
  BY <1>1, <1>4

LEMMA NoLoopOn ==
  ASSUME NEW s \in Seq(Frames)
  PROVE  NoLoop(s) <=> On(s) \cap LoopLabels = {}
BY DEF NoLoop, On

----------------------------------------------------------------------------
(* The table: the frames each action pushes.                                *)

LEMMA Labelled ==
  /\ \A at \in PlainLabels : Do(at) \in Frames /\ Do(at).at = at
  /\ \A at \in RequestLabels, r \in Requests :
       Frame(at, <<r>>) \in Frames /\ Frame(at, <<r>>).at = at
  /\ \A sync \in BOOLEAN : Loop(sync) \in Frames /\ Loop(sync).at = "loop"
<1>1. \A at \in PlainLabels : Do(at) \in Frames /\ Do(at).at = at
  BY FrameTypes DEF Do, Frame
<1>2. ASSUME NEW at \in RequestLabels, NEW r \in Requests
      PROVE  Frame(at, <<r>>) \in Frames /\ Frame(at, <<r>>).at = at
  <2>1. Frame(at, <<r>>) \in Frames
    BY FrameTypes
  <2>2. Frame(at, <<r>>).at = at
    BY DEF Frame
  <2>3. QED
    BY <2>1, <2>2
<1>3. ASSUME NEW sync \in BOOLEAN PROVE Loop(sync) \in Frames /\ Loop(sync).at = "loop"
  BY LoopTypes DEF Loop
<1>4. QED
  BY <1>1, <1>2, <1>3

LEMMA CatFew ==
  ASSUME NEW f \in Frames, NEW g \in Frames, NEW h \in Frames
  PROVE  /\ <<f>> \o <<>> = <<f>>
         /\ <<f>> \o <<g>> = <<f, g>>
         /\ <<f, g>> \o <<h>> = <<f, g, h>>
<1>1. /\ <<f>> \in Seq(Frames) /\ <<g>> \in Seq(Frames) /\ <<h>> \in Seq(Frames)
      /\ <<f, g>> \in Seq(Frames) /\ <<f, g, h>> \in Seq(Frames)
  OBVIOUS
<1>2. <<f>> \o <<>> = <<f>>
  BY <1>1, ConcatEmptySeq
<1>3. <<f>> \o <<g>> = <<f, g>>
  <2> DEFINE s == <<f>> \o <<g>>
             t == <<f, g>>
  <2>1. /\ s \in Seq(Frames) /\ Len(s) = 2 /\ s[1] = f /\ s[2] = g
        /\ t \in Seq(Frames) /\ Len(t) = 2 /\ t[1] = f /\ t[2] = g
    BY <1>1, ConcatProperties
  <2> HIDE DEF s, t
  <2>2. s = t
    BY <2>1, SeqEqual
  <2>3. QED
    BY <2>2 DEF s, t
<1>4. <<f, g>> \o <<h>> = <<f, g, h>>
  <2> DEFINE s == <<f, g>> \o <<h>>
             t == <<f, g, h>>
  <2>1. /\ s \in Seq(Frames) /\ Len(s) = 3 /\ s[1] = f /\ s[2] = g /\ s[3] = h
        /\ t \in Seq(Frames) /\ Len(t) = 3 /\ t[1] = f /\ t[2] = g /\ t[3] = h
    BY <1>1, ConcatProperties
  <2> HIDE DEF s, t
  <2>2. s = t
    BY <2>1, SeqEqual
  <2>3. QED
    BY <2>2 DEF s, t
<1>5. QED
  BY <1>2, <1>3, <1>4

LEMMA NothingMoves ==
  ASSUME NEW t \in Seq(Frames), stack' = t
  PROVE  Moves({}, t)
<1>1. <<>> \o t = t
  BY ConcatEmptySeq
<1>2. QED
  BY <1>1, PileFew DEF Moves

LEMMA AbortMoves ==
  ASSUME NEW t, NEW r \in Requests, stack' = AbortFrames(r) \o t
  PROVE  Moves({"error"}, t) \/ Moves({"error", "abortSocket"}, t)
<1>1. /\ Frame("error", <<r>>) \in Frames /\ Frame("error", <<r>>).at = "error"
      /\ Do("abortSocket") \in Frames /\ Do("abortSocket").at = "abortSocket"
  BY Labelled, RequestLabelsAre, PlainLabelsAre
<1>2. <<Frame("error", <<r>>)>> \o <<>> = <<Frame("error", <<r>>)>>
      /\ <<Frame("error", <<r>>)>> \o <<Do("abortSocket")>>
           = <<Frame("error", <<r>>), Do("abortSocket")>>
  BY <1>1, CatFew
<1>3. AbortFrames(r) = <<Frame("error", <<r>>)>>
        \/ AbortFrames(r) = <<Frame("error", <<r>>), Do("abortSocket")>>
  BY <1>2 DEF AbortFrames
<1>4. Pile(<<Frame("error", <<r>>)>>, {"error"})
  BY <1>1, PileFew
<1>5. Pile(<<Frame("error", <<r>>), Do("abortSocket")>>, {"error", "abortSocket"})
  BY <1>1, PileTwo DEF LoopLabels, Finishing
<1>6. QED
  BY <1>3, <1>4, <1>5 DEF Moves

LEMMA LoopMoves ==
  ASSUME NEW t, NEW sync \in BOOLEAN, stack' = <<Loop(sync)>> \o t
  PROVE  Moves({"loop"}, t)
BY Labelled, PileFew DEF Moves

LEMMA DestroyMoves == TypeOK /\ BeginDestroy => Moves({"fail", "destroyEnd"}, stack)
<1> SUFFICES ASSUME TypeOK, BeginDestroy PROVE Moves({"fail", "destroyEnd"}, stack)
  OBVIOUS
<1>1. From(queue, pendingIdx) \in Seq(Slots)
  BY SpliceTypes, TypeParts
<1>2. Pile(Fail(From(queue, pendingIdx)), {"fail"}) /\ Pile(<<Do("destroyEnd")>>, {"destroyEnd"})
  BY <1>1, PileFew, PlainLabelsAre
<1>3. Pile(Fail(From(queue, pendingIdx)) \o <<Do("destroyEnd")>>, {"fail"} \cup {"destroyEnd"})
  BY <1>2, PileCat DEF Finishing, Inner
<1>4. {"fail"} \cup {"destroyEnd"} = {"fail", "destroyEnd"}
  OBVIOUS
<1>5. QED
  BY <1>3, <1>4 DEF Moves, BeginDestroy, Call

LEMMA UserMoves ==
  ASSUME TypeOK
  PROVE  /\ \A r \in Requests :
              /\ Dispatch(r) => \/ Moves({}, stack)
                                \/ resuming # 2 /\ Moves({"loop"}, stack)
              /\ DispatchRefused(r) => Moves({"error"}, stack)
              /\ Abort(r) => \/ Moves({"error"}, stack)
                             \/ Moves({"error", "abortSocket"}, stack)
         /\ \A value \in Pipelinings :
              SetPipelining(value) => \/ Moves({}, stack)
                                      \/ resuming # 2 /\ Moves({"loop"}, stack)
         /\ Close => Moves({}, stack)
         /\ Destroy => Moves({"fail", "destroyEnd"}, stack)
<1>a. stack \in Seq(Frames)
  BY TypeParts
<1>1. ASSUME NEW r \in Requests, Dispatch(r)
      PROVE  Moves({}, stack) \/ (resuming # 2 /\ Moves({"loop"}, stack))
  <2>1. stack' = stack \/ (resuming # 2 /\ stack' = <<Loop(TRUE)>> \o stack)
    BY <1>1 DEF Dispatch, Call
  <2>2. QED
    BY <1>a, <2>1, NothingMoves, LoopMoves
<1>2. ASSUME NEW r \in Requests, DispatchRefused(r) PROVE Moves({"error"}, stack)
  <2>1. stack' = <<Frame("error", <<r>>)>> \o stack
    BY <1>2 DEF DispatchRefused, Call
  <2>2. Pile(<<Frame("error", <<r>>)>>, {"error"})
    BY Labelled, RequestLabelsAre, PileFew
  <2>3. QED
    BY <2>1, <2>2 DEF Moves
<1>3. ASSUME NEW r \in Requests, Abort(r)
      PROVE  Moves({"error"}, stack) \/ Moves({"error", "abortSocket"}, stack)
  BY <1>3, AbortMoves DEF Abort, Call
<1>4. ASSUME NEW value \in Pipelinings, SetPipelining(value)
      PROVE  Moves({}, stack) \/ (resuming # 2 /\ Moves({"loop"}, stack))
  <2>1. stack' = stack \/ (resuming # 2 /\ stack' = <<Loop(TRUE)>> \o stack)
    BY <1>4 DEF SetPipelining, Call
  <2>2. QED
    BY <1>a, <2>1, NothingMoves, LoopMoves
<1>5. Close => Moves({}, stack)
  BY <1>a, NothingMoves DEF Close
<1>6. Destroy => Moves({"fail", "destroyEnd"}, stack)
  BY DestroyMoves DEF Destroy
<1>7. QED
  BY <1>1, <1>2, <1>3, <1>4, <1>5, <1>6

\* resume() and its loop.
LEMMA GotoMoves ==
  ASSUME TypeOK, stack # <<>>, NEW label \in PlainLabels, stack' = Goto(label)
  PROVE  Moves({label}, Caller)
<1>1. Moved(label, <<>>) \in Frames /\ Moved(label, <<>>).at = label
  BY TypeParts, MovedLoop DEF Moved
<1>2. QED
  BY <1>1, PileFew DEF Moves, Goto

LEMMA ResumeMoves ==
  ASSUME TypeOK, Resume
  PROVE  /\ At("resume") /\ resuming' = 2
         /\ \/ Moves({}, Caller)
            \/ resuming # 2 /\ Moves({"loop"}, Caller)
<1>1. At("resume") /\ resuming' = 2 /\ stack # <<>>
  BY DEF Resume, At
<1>2. Caller \in Seq(Frames)
  BY <1>1, TypeParts, TopType
<1>3. \/ stack' = <<>> \o Caller
      \/ resuming # 2 /\ stack' = <<Loop(FALSE)>> \o Caller
  BY DEF Resume, Become
<1>4. <<>> \o Caller = Caller
  BY <1>2, ConcatEmptySeq
<1>5. QED
  BY <1>1, <1>2, <1>3, <1>4, NothingMoves, LoopMoves

LEMMA DrainMoves ==
  ASSUME TypeOK, LoopDrain
  PROVE  Moves({"loop"}, Caller) \/ Moves({"drain", "loop"}, Caller)
<1>1. stack # <<>> /\ stack \in Seq(Frames) /\ Caller \in Seq(Frames)
  BY TypeParts, TopType DEF LoopDrain, At
<1> DEFINE loop == <<Moved("loop", <<>>)>>
<1>2. Moved("loop", <<>>) \in Frames /\ Moved("loop", <<>>).at = "loop"
  BY <1>1, PlainLabelsAre, MovedLoop DEF Moved
<1>3. Pile(loop, {"loop"}) /\ loop \in Seq(Frames)
  BY <1>2, PileFew, FewFrames
<1>4. Pile(<<Do("drain")>>, {"drain"}) /\ <<Do("drain")>> \in Seq(Frames)
  BY PileFew, PlainLabelsAre, Labelled, FewFrames
<1>5. stack' = <<>> \o (loop \o Caller) \/ stack' = <<Do("drain")>> \o (loop \o Caller)
  BY DEF LoopDrain, Goto
<1> HIDE DEF loop
<1>6. Pile(<<Do("drain")>> \o loop, {"drain"} \cup {"loop"})
  BY <1>3, <1>4, PileCat DEF Finishing, Inner
<1>7. loop \o Caller \in Seq(Frames)
  BY <1>1, <1>3, ConcatProperties
<1>8. \/ stack' = loop \o Caller
      \/ stack' = (<<Do("drain")>> \o loop) \o Caller
  <2>1. <<>> \o (loop \o Caller) = loop \o Caller
    BY <1>7, ConcatEmptySeq
  <2>2. (<<Do("drain")>> \o loop) \o Caller = <<Do("drain")>> \o (loop \o Caller)
    BY <1>1, <1>3, <1>4, ConcatAssociative
  <2>3. QED
    BY <1>5, <2>1, <2>2
<1>9. {"drain"} \cup {"loop"} = {"drain", "loop"}
  OBVIOUS
<1>10. QED
  BY <1>3, <1>6, <1>8, <1>9 DEF Moves

LEMMA PickWriteMoves ==
  ASSUME TypeOK, PickWrite
  PROVE  \/ Moves({"fail", "splice"}, Caller)
         \/ Moves({"error", "abortSocket", "splice"}, Caller)
         \/ Moves({"start", "write"}, Caller)
<1>1. stack # <<>> /\ stack \in Seq(Frames) /\ PendingHead \in Requests
  <2>1. stack # <<>> /\ PendingHead # Null
    BY DEF PickWrite, At, HasCandidate
  <2>2. stack \in Seq(Frames) /\ PendingHead \in Slots
    BY TypeParts
  <2>3. QED
    BY <2>1, <2>2 DEF Slots
<1> DEFINE r == PendingHead
           splice == Moved("splice", <<>>)
           write == Moved("write", <<r>>)
<1>2. splice \in Frames /\ splice.at = "splice"
  BY <1>1, PlainLabelsAre, MovedLoop DEF Moved
<1>3. write \in Frames /\ write.at = "write"
  BY <1>1, TopType, RequestLabelsAre DEF Moved, Frames
<1>4. /\ Frame("error", <<r>>) \in Frames /\ Frame("error", <<r>>).at = "error"
      /\ Frame("start", <<r>>) \in Frames /\ Frame("start", <<r>>).at = "start"
      /\ Do("abortSocket") \in Frames /\ Do("abortSocket").at = "abortSocket"
  BY <1>1, Labelled, RequestLabelsAre, PlainLabelsAre
<1>5. \/ stack' = (Fail(<<r>>) \o <<splice>>) \o Caller
      \/ stack' = <<Frame("error", <<r>>), Do("abortSocket"), splice>> \o Caller
      \/ stack' = <<Frame("start", <<r>>), write>> \o Caller
  BY DEF PickWrite, Become
<1>6. <<r>> \in Seq(Slots)
  BY <1>1 DEF Slots
<1> HIDE DEF splice, write, r
<1>7. Pile(<<splice>>, {"splice"})
  BY <1>2, PileFew
<1>8. Pile(Fail(<<r>>) \o <<splice>>, {"fail"} \cup {"splice"})
  BY <1>6, <1>7, PileFew, PileCat DEF Finishing, Inner
<1>9. Pile(<<Frame("error", <<r>>), Do("abortSocket")>>, {"error", "abortSocket"})
  BY <1>4, PileTwo DEF LoopLabels, Finishing
<1>10. Pile(<<Frame("error", <<r>>), Do("abortSocket")>> \o <<splice>>,
            {"error", "abortSocket"} \cup {"splice"})
  BY <1>7, <1>9, PileCat DEF Finishing, Inner
<1>11. <<Frame("error", <<r>>), Do("abortSocket")>> \o <<splice>>
        = <<Frame("error", <<r>>), Do("abortSocket"), splice>>
  BY <1>2, <1>4, CatFew
<1>12. Pile(<<Frame("start", <<r>>), write>>, {"start", "write"})
  <2>1. Shape(<<Frame("start", <<r>>), write>>)
    BY <1>3, <1>4, ShapeFew DEF Inner, Finishing
  <2>2. QED
    BY <1>3, <1>4, <2>1, OnFew, FewFrames DEF Pile
<1>13. {"error", "abortSocket"} \cup {"splice"} = {"error", "abortSocket", "splice"}
       /\ {"fail"} \cup {"splice"} = {"fail", "splice"}
  OBVIOUS
<1>14. QED
  BY <1>5, <1>8, <1>10, <1>11, <1>12, <1>13 DEF Moves

LEMMA WriteHeadMoves ==
  ASSUME TypeOK, WriteHead
  PROVE  \/ Moves({"splice"}, Caller) /\ Top.reqs[1] \in aborted
         \/ Moves({"advance"}, Caller)
         \/ Moves({"sent", "advance"}, Caller)
<1>1. stack # <<>> /\ stack \in Seq(Frames) /\ Caller \in Seq(Frames)
      /\ Top.reqs[1] \in Requests
  BY TypeParts, TopType, RequestLabelsAre DEF WriteHead, At
<1> DEFINE advance == <<Moved("advance", <<>>)>>
           sending == <<Frame("sent", <<Top.reqs[1]>>)>>
<1>2. \/ stack' = Goto("splice") /\ Top.reqs[1] \in aborted
      \/ stack' = Goto("advance")
      \/ stack' = sending \o (advance \o Caller)
  BY DEF WriteHead, Goto
<1>3. Moved("advance", <<>>) \in Frames /\ Moved("advance", <<>>).at = "advance"
  BY <1>1, PlainLabelsAre, MovedLoop DEF Moved
<1>4. Pile(advance, {"advance"}) /\ advance \in Seq(Frames)
  BY <1>3, PileFew, FewFrames
<1>5. Frame("sent", <<Top.reqs[1]>>) \in Frames
      /\ Frame("sent", <<Top.reqs[1]>>).at = "sent"
  <2>1. <<Top.reqs[1]>> \in Seq(Slots)
    BY <1>1 DEF Slots
  <2>2. QED
    BY <2>1, FrameTypes, PlainLabelsAre DEF Frame
<1>6. Pile(sending, {"sent"}) /\ sending \in Seq(Frames)
  BY <1>5, PileFew, FewFrames
<1> HIDE DEF advance, sending
<1>7. Pile(sending \o advance, {"sent"} \cup {"advance"})
  BY <1>4, <1>6, PileCat DEF Finishing, Inner
<1>8. sending \o (advance \o Caller) = (sending \o advance) \o Caller
  BY <1>1, <1>4, <1>6, ConcatAssociative, SMTT(30)
<1>9. {"sent"} \cup {"advance"} = {"sent", "advance"}
  OBVIOUS
<1>10. stack' = sending \o (advance \o Caller) => Moves({"sent", "advance"}, Caller)
  BY <1>7, <1>8, <1>9 DEF Moves
<1>11. QED
  BY <1>1, <1>2, <1>10, GotoMoves, PlainLabelsAre

LEMMA PushMoves ==
  ASSUME NEW t, NEW at \in PlainLabels, stack' = <<Do(at)>> \o t
  PROVE  Moves({at}, t)
BY PileFew DEF Moves

LEMMA PushTwoMoves ==
  ASSUME NEW t, NEW f \in Frames, NEW g \in Frames, stack' = <<f, g>> \o t,
         g.at \notin LoopLabels,
         f.at \notin Finishing \/ g.at \notin Finishing \cup {"fail"}
  PROVE  Moves({f.at, g.at}, t)
BY PileTwo DEF Moves

LEMMA PopMoves ==
  ASSUME NEW t \in Seq(Frames), stack' = <<>> \o t
  PROVE  Moves({}, t)
BY NothingMoves, ConcatEmptySeq

LEMMA LoopStepMoves ==
  ASSUME TypeOK
  PROVE  /\ LoopDestroyed \/ LoopClosed \/ PickNothing \/ PickConnect
              => Moves({"exit"}, Caller)
         /\ LoopContext => Moves({"busy"}, Caller)
         /\ LoopBusy => Moves({"pick"}, Caller)
         /\ PickAborted \/ Advance \/ Splice => Moves({"loop"}, Caller)
         /\ Exit => Moves({}, Caller)
         /\ PickRename => Moves({}, stack)
<1>a. {"exit", "busy", "pick", "loop"} \subseteq PlainLabels
  BY PlainLabelsAre
<1>1. LoopDestroyed \/ LoopClosed \/ PickNothing \/ PickConnect
        => Moves({"exit"}, Caller)
  <2>1. LoopDestroyed \/ LoopClosed \/ PickNothing \/ PickConnect
          => stack # <<>> /\ stack' = Goto("exit")
    BY DEF LoopDestroyed, LoopClosed, PickNothing, PickConnect, At
  <2>2. QED
    BY <1>a, <2>1, GotoMoves
<1>2. LoopContext => Moves({"busy"}, Caller)
  <2>1. LoopContext => stack # <<>> /\ stack' = Goto("busy")
    BY DEF LoopContext, At
  <2>2. QED
    BY <1>a, <2>1, GotoMoves
<1>3. LoopBusy => Moves({"pick"}, Caller)
  <2>1. LoopBusy => stack # <<>> /\ stack' = Goto("pick")
    BY DEF LoopBusy, At
  <2>2. QED
    BY <1>a, <2>1, GotoMoves
<1>4. PickAborted \/ Advance \/ Splice => Moves({"loop"}, Caller)
  <2>1. PickAborted \/ Advance \/ Splice => stack # <<>> /\ stack' = Goto("loop")
    BY DEF PickAborted, Advance, Splice, At
  <2>2. QED
    BY <1>a, <2>1, GotoMoves
<1>5. Exit => Moves({}, Caller)
  <2>1. Exit => stack # <<>> /\ stack' = Caller
    BY DEF Exit, At
  <2>2. QED
    BY <2>1, NothingMoves, TypeParts, TopType
<1>6. PickRename => Moves({}, stack)
  BY NothingMoves, TypeParts DEF PickRename
<1>7. QED
  BY <1>1, <1>2, <1>3, <1>4, <1>5, <1>6

LEMMA FailNextMoves ==
  ASSUME TypeOK, FailNext
  PROVE  Moves({"fail"}, Caller) \/ Moves({"error", "fail"}, Caller)
<1> DEFINE r == Head(Top.reqs)
           rest == Fail(Tail(Top.reqs))
<1>1. /\ Top.reqs # <<>> /\ stack # <<>>
      /\ \/ stack' = rest \o Caller
         \/ r # Null /\ stack' = (<<Frame("error", <<r>>)>> \o rest) \o Caller
  BY DEF FailNext, ErrorSkips, At, Become
<1>2. Top.reqs \in Seq(Slots)
  BY <1>1, TypeParts, TopType
<1>3. r \in Slots /\ Tail(Top.reqs) \in Seq(Slots)
  BY <1>1, <1>2, HeadTailProperties
<1>4. Pile(rest, {"fail"})
  BY <1>3, PileFew
<1>5. CASE stack' = rest \o Caller
  BY <1>4, <1>5 DEF Moves
<1>6. CASE r # Null /\ stack' = (<<Frame("error", <<r>>)>> \o rest) \o Caller
  <2>1. Frame("error", <<r>>) \in Frames /\ Frame("error", <<r>>).at = "error"
    BY <1>3, <1>6, Labelled, RequestLabelsAre DEF Slots
  <2>2. Pile(<<Frame("error", <<r>>)>>, {"error"})
    BY <2>1, PileFew
  <2> HIDE DEF rest, r
  <2>3. Pile(<<Frame("error", <<r>>)>> \o rest, {"error"} \cup {"fail"})
    BY <1>4, <2>2, PileCat DEF Inner, LoopLabels, Finishing
  <2>4. {"error"} \cup {"fail"} = {"error", "fail"}
    OBVIOUS
  <2>5. QED
    BY <1>6, <2>3, <2>4 DEF Moves
<1>7. QED
  BY <1>1, <1>5, <1>6

LEMMA QueueFrameMoves ==
  ASSUME TypeOK
  PROVE  /\ CallbackReturns \/ CheckEmpty \/ DestroyCallback => Moves({}, Caller)
         /\ DestroyEnd => Moves({"resume"}, Caller)
         /\ FailAltname => Moves({}, Caller) \/ Moves({"fail"}, stack)
         /\ CloseEnd => Moves({"disconnect", "resume"}, Caller)
<1>a. /\ "resume" \in PlainLabels /\ "disconnect" \in PlainLabels
  BY PlainLabelsAre
<1>1. CallbackReturns \/ CheckEmpty \/ DestroyCallback => Moves({}, Caller)
  <2>1. CallbackReturns \/ CheckEmpty \/ DestroyCallback
          => stack # <<>> /\ stack' = Caller
    BY DEF CallbackReturns, CheckEmpty, DestroyCallback, At
  <2>2. QED
    BY <2>1, NothingMoves, TypeParts, TopType
<1>2. DestroyEnd => Moves({"resume"}, Caller)
  BY <1>a, PushMoves DEF DestroyEnd, Become
<1>3. FailAltname => Moves({}, Caller) \/ Moves({"fail"}, stack)
  <2>1. FailAltname =>
          stack # <<>> /\ (stack' = Caller \/ stack' = Fail(<<PendingHead>>) \o stack)
    BY DEF FailAltname, At, Call
  <2>2. stack # <<>> /\ stack' = Caller => Moves({}, Caller)
    BY NothingMoves, TypeParts, TopType
  <2>3. Pile(Fail(<<PendingHead>>), {"fail"})
    <3>1. <<PendingHead>> \in Seq(Slots)
      BY TypeParts
    <3>2. QED
      BY <3>1, PileFew
  <2>4. stack' = Fail(<<PendingHead>>) \o stack => Moves({"fail"}, stack)
    BY <2>3 DEF Moves
  <2>5. QED
    BY <2>1, <2>2, <2>4
<1>4. CloseEnd => Moves({"disconnect", "resume"}, Caller)
  <2>1. CloseEnd => stack' = <<Do("disconnect"), Do("resume")>> \o Caller
    BY DEF CloseEnd, Become
  <2>2. /\ Do("disconnect") \in Frames /\ Do("disconnect").at = "disconnect"
        /\ Do("resume") \in Frames /\ Do("resume").at = "resume"
    BY <1>a, Labelled
  <2>3. Pile(<<Do("disconnect"), Do("resume")>>, {"disconnect", "resume"})
    BY <2>2, PileTwo DEF LoopLabels, Finishing
  <2>4. QED
    BY <2>1, <2>3 DEF Moves
<1>5. QED
  BY <1>1, <1>2, <1>3, <1>4

LEMMA WriterFailMoves ==
  ASSUME TypeOK, WriterFail
  PROVE  \/ Moves({}, Caller)
         \/ Moves({"error"}, Caller)
         \/ Moves({"error", "abortSocket"}, Caller)
<1>1. /\ stack # <<>>
      /\ \/ stack' = Caller
         \/ RunningHead # Null /\ stack' = AbortFrames(RunningHead) \o Caller
  BY DEF WriterFail, At, Become
<1>2. Caller \in Seq(Frames)
  BY <1>1, TypeParts, TopType
<1>3. CASE stack' = Caller
  BY <1>2, <1>3, NothingMoves
<1>4. CASE RunningHead # Null /\ stack' = AbortFrames(RunningHead) \o Caller
  <2>1. RunningHead \in Requests
    BY <1>4, TypeParts DEF Slots
  <2>2. QED
    BY <1>4, <2>1, AbortMoves
<1>5. QED
  BY <1>1, <1>3, <1>4

LEMMA CompleteMoves ==
  ASSUME TypeOK, Complete
  PROVE  \/ Moves({}, Caller)
         \/ Moves({}, stack) /\ broken' # "none"
         \/ Moves({"end", "afterEnd"}, Caller) /\ Running > 0
<1>1. /\ stack # <<>>
      /\ \/ stack' = Caller
         \/ stack' = stack /\ broken' # "none"
         \/ /\ RunningHead # Null /\ Running > 0
            /\ stack' = <<Frame("end", <<RunningHead>>), Do("afterEnd")>> \o Caller
  <2>1. /\ stack # <<>>
        /\ \/ stack' = Caller
           \/ stack' = stack /\ broken' # "none"
           \/ /\ RunningHead # Null /\ ~(Running <= 0)
              /\ stack' = <<Frame("end", <<RunningHead>>), Do("afterEnd")>> \o Caller
    BY DEF Complete, At, Become
  <2>2. ~(Running <= 0) => Running > 0
    BY TypeParts
  <2>3. QED
    BY <2>1, <2>2
<1>2. Caller \in Seq(Frames) /\ stack \in Seq(Frames)
  BY <1>1, TypeParts, TopType
<1>3. CASE stack' = Caller
  BY <1>2, <1>3, NothingMoves
<1>4. CASE stack' = stack /\ broken' # "none"
  BY <1>2, <1>4, NothingMoves
<1>5. CASE /\ RunningHead # Null /\ Running > 0
           /\ stack' = <<Frame("end", <<RunningHead>>), Do("afterEnd")>> \o Caller
  <2>1. RunningHead \in Requests
    BY <1>5, TypeParts DEF Slots
  <2>2. /\ Frame("end", <<RunningHead>>) \in Frames
        /\ Frame("end", <<RunningHead>>).at = "end"
        /\ Do("afterEnd") \in Frames /\ Do("afterEnd").at = "afterEnd"
    BY <2>1, Labelled, RequestLabelsAre, PlainLabelsAre
  <2>3. Pile(<<Frame("end", <<RunningHead>>), Do("afterEnd")>>, {"end", "afterEnd"})
    BY <2>2, PileTwo DEF LoopLabels, Finishing
  <2>4. QED
    BY <1>5, <2>3 DEF Moves
<1>6. QED
  BY <1>1, <1>3, <1>4, <1>5

LEMMA UpgradeMoves ==
  ASSUME TypeOK, UpgradeCall
  PROVE  Moves({}, Caller) \/ Moves({"upgrade", "upgraded"}, Caller)
<1> DEFINE r == Top.reqs[1]
<1>1. /\ stack # <<>> /\ Top.at = "upgradeCall"
      /\ \/ stack' = Caller
         \/ stack' = <<Frame("upgrade", <<r>>), Frame("upgraded", <<r>>)>> \o Caller
  BY DEF UpgradeCall, At, Become
<1>2. r \in Requests /\ Caller \in Seq(Frames)
  BY <1>1, TypeParts, TopType, RequestLabelsAre
<1> HIDE DEF r
<1>3. /\ Frame("upgrade", <<r>>) \in Frames /\ Frame("upgrade", <<r>>).at = "upgrade"
      /\ Frame("upgraded", <<r>>) \in Frames /\ Frame("upgraded", <<r>>).at = "upgraded"
  BY <1>2, Labelled, RequestLabelsAre
<1>4. Pile(<<Frame("upgrade", <<r>>), Frame("upgraded", <<r>>)>>, {"upgrade", "upgraded"})
  BY <1>3, PileTwo DEF LoopLabels, Finishing
<1>5. CASE stack' = Caller
  BY <1>2, <1>5, NothingMoves
<1>6. CASE stack' = <<Frame("upgrade", <<r>>), Frame("upgraded", <<r>>)>> \o Caller
  BY <1>4, <1>6 DEF Moves
<1>7. QED
  BY <1>1, <1>5, <1>6

LEMMA SocketFrameMoves ==
  ASSUME TypeOK
  PROVE  /\ AbortSocket \/ Upgraded => Moves({}, Caller)
         /\ EndBody \/ AfterEnd => Moves({}, Caller) \/ Moves({"resume"}, Caller)
         /\ AfterHeaders => \/ Moves({}, Caller)
                            \/ Moves({"complete"}, Caller)
                            \/ Moves({"resume"}, Caller)
<1>a. "resume" \in PlainLabels /\ "complete" \in PlainLabels
  BY PlainLabelsAre
<1>b. stack # <<>> => Caller \in Seq(Frames)
  BY TypeParts, TopType
<1>c. stack # <<>> /\ stack' = Caller => Moves({}, Caller)
  BY <1>b, NothingMoves
<1>d. stack # <<>> /\ stack' = <<>> \o Caller => Moves({}, Caller)
  BY <1>b, PopMoves
<1>e. stack' = <<Do("resume")>> \o Caller => Moves({"resume"}, Caller)
  BY <1>a, PushMoves
<1>1. AbortSocket \/ Upgraded => Moves({}, Caller)
  BY <1>c DEF AbortSocket, Upgraded, At
<1>2. EndBody \/ AfterEnd => Moves({}, Caller) \/ Moves({"resume"}, Caller)
  <2>1. EndBody \/ AfterEnd
          => stack # <<>> /\ \/ stack' = <<>> \o Caller
                             \/ stack' = <<Do("resume")>> \o Caller
    BY DEF EndBody, AfterEnd, At, Become
  <2>2. QED
    BY <1>d, <1>e, <2>1
<1>3. AfterHeaders => \/ Moves({}, Caller)
                      \/ Moves({"complete"}, Caller)
                      \/ Moves({"resume"}, Caller)
  <2>1. AfterHeaders
          => stack # <<>> /\ \/ stack' = Caller
                             \/ stack' = Goto("complete")
                             \/ stack' = <<>> \o Caller
                             \/ stack' = <<Do("resume")>> \o Caller
    BY DEF AfterHeaders, At, Become
  <2>2. stack # <<>> /\ stack' = Goto("complete") => Moves({"complete"}, Caller)
    BY <1>a, GotoMoves
  <2>3. QED
    BY <1>c, <1>d, <1>e, <2>1, <2>2
<1>4. QED
  BY <1>1, <1>2, <1>3

LEMMA TaskMoves ==
  ASSUME TypeOK
  PROVE  /\ TaskResume => Moves({"loop"}, stack)
         /\ TaskDrain => Moves({"drain"}, stack)
         /\ TaskClosed => Moves({}, stack) \/ Moves({"fail", "destroyEnd"}, stack)
         /\ TaskDestroyCallback \/ TaskDestroyed => Moves({}, stack)
         /\ ImmediateResume \/ IdleValidated \/ ConnectTooLate
              => Moves({"resume"}, stack)
<1>a. stack \in Seq(Frames)
  BY TypeParts
<1>1. TaskResume => Moves({"loop"}, stack)
  <2>1. TaskResume => stack = <<>> /\ stack' = <<Loop(FALSE)>>
    BY DEF TaskResume, NextTask
  <2>2. Loop(FALSE) \in Frames /\ <<Loop(FALSE)>> \o <<>> = <<Loop(FALSE)>>
    BY Labelled, CatFew
  <2>3. QED
    BY <2>1, <2>2, LoopMoves
<1>2. TaskDrain => Moves({"drain"}, stack)
  <2>1. TaskDrain => stack = <<>> /\ stack' = <<Do("drain")>>
    BY DEF TaskDrain, NextTask
  <2>2. Do("drain") \in Frames /\ <<Do("drain")>> \o <<>> = <<Do("drain")>>
    BY Labelled, PlainLabelsAre, CatFew
  <2>3. QED
    BY <2>1, <2>2, PushMoves, PlainLabelsAre
<1>3. TaskClosed => Moves({}, stack) \/ Moves({"fail", "destroyEnd"}, stack)
  <2>1. TaskClosed => stack' = stack \/ BeginDestroy
    BY DEF TaskClosed
  <2>2. QED
    BY <1>a, <2>1, NothingMoves, DestroyMoves
<1>4. TaskDestroyCallback \/ TaskDestroyed => Moves({}, stack)
  BY <1>a, NothingMoves DEF TaskDestroyCallback, TaskDestroyed
<1>5. ImmediateResume \/ IdleValidated \/ ConnectTooLate => Moves({"resume"}, stack)
  <2>1. ImmediateResume \/ IdleValidated \/ ConnectTooLate
          => stack' = <<Do("resume")>> \o stack
    BY DEF ImmediateResume, IdleValidated, ConnectTooLate, Call
  <2>2. QED
    BY <2>1, PushMoves, PlainLabelsAre
<1>6. QED
  BY <1>1, <1>2, <1>3, <1>4, <1>5

\* What an error of the connection starts.
LEMMA ErrorPile ==
  ASSUME TypeOK, NEW e
  PROVE  Pile(ErrorFrames(e), {}) \/ Pile(ErrorFrames(e), {"fail", "checkEmpty"})
<1>1. From(queue, runningIdx) \in Seq(Slots)
  BY SpliceTypes, TypeParts
<1>2. Pile(Fail(From(queue, runningIdx)), {"fail"}) /\ Pile(<<Do("checkEmpty")>>, {"checkEmpty"})
  BY <1>1, PileFew, PlainLabelsAre
<1>3. Pile(Fail(From(queue, runningIdx)) \o <<Do("checkEmpty")>>, {"fail"} \cup {"checkEmpty"})
  BY <1>2, PileCat DEF Finishing, Inner, LoopLabels
<1>4. {"fail"} \cup {"checkEmpty"} = {"fail", "checkEmpty"}
  OBVIOUS
<1>5. ErrorFrames(e) = <<>> \/ ErrorFrames(e) = Fail(From(queue, runningIdx)) \o <<Do("checkEmpty")>>
  BY DEF ErrorFrames
<1>6. QED
  BY <1>3, <1>4, <1>5, PileFew

\* Frames with labels in S put on frames with labels in T.
LEMMA PileWithin ==
  ASSUME NEW L, L \cap (LoopLabels \cup Finishing) = {},
         NEW s, NEW S \in SUBSET L, Pile(s, S), NEW t, NEW T, Pile(t, T),
         T \cap LoopLabels = {}
  PROVE  Pile(s \o t, S \cup T)
<1>1. S \cap Finishing = {} /\ T \cap {"busy", "pick", "exit", "advance", "splice"} = {}
  BY DEF LoopLabels
<1>2. QED
  BY <1>1, PileCat

LEMMA SocketErrorsMoves ==
  ASSUME TypeOK, NEW s, NEW e, SocketErrors(s, e)
  PROVE  \E S \in SUBSET {"fail", "checkEmpty", "writerFail"} : Moves(S, stack)
<1> DEFINE writer == IF s.writing THEN <<Do("writerFail")>> ELSE <<>>
<1>1. Pile(writer, {}) \/ Pile(writer, {"writerFail"})
  BY PileFew, PlainLabelsAre
<1>2. stack' = (ErrorFrames(e) \o writer) \o stack
  BY DEF SocketErrors, Call
<1> HIDE DEF writer
<1>3. PICK S \in SUBSET {"fail", "checkEmpty"} : Pile(ErrorFrames(e), S)
  BY ErrorPile
<1>4. PICK T \in SUBSET {"writerFail"} : Pile(writer, T)
  BY <1>1
<1>5. Pile(ErrorFrames(e) \o writer, S \cup T)
  BY <1>3, <1>4, PileWithin DEF LoopLabels, Finishing
<1>6. Moves(S \cup T, stack)
  BY <1>2, <1>5 DEF Moves
<1>7. S \cup T \in SUBSET {"fail", "checkEmpty", "writerFail"}
  OBVIOUS
<1>8. QED
  BY <1>6, <1>7

ConnectorLabels == {"fail", "failAltname", "checkEmpty", "connectionError", "resume"}

LEMMA ConnectMoves ==
  ASSUME TypeOK
  PROVE  /\ ConnectOK => Moves({"connect", "resume"}, stack)
         /\ \A e : ConnectFail(e) => \E S \in SUBSET ConnectorLabels : Moves(S, stack)
<1>a. /\ Do("resume") \in Frames /\ Do("resume").at = "resume"
      /\ Do("connect") \in Frames /\ Do("connect").at = "connect"
      /\ Do("connectionError") \in Frames
      /\ Do("connectionError").at = "connectionError"
  BY Labelled, PlainLabelsAre
<1>1. ConnectOK => Moves({"connect", "resume"}, stack)
  <2>1. ConnectOK => stack' = <<Do("connect"), Do("resume")>> \o stack
    BY DEF ConnectOK, Call
  <2>2. Pile(<<Do("connect"), Do("resume")>>, {"connect", "resume"})
    BY <1>a, PileTwo DEF LoopLabels, Finishing
  <2>3. QED
    BY <2>1, <2>2 DEF Moves
<1>2. ASSUME NEW e, ConnectFail(e)
      PROVE  \E S \in SUBSET ConnectorLabels : Moves(S, stack)
  <2> DEFINE tail == <<Do("connectionError"), Do("resume")>>
             altname == Fail(RunningPart) \o <<Do("failAltname")>>
  <2>1. stack' = (altname \o tail) \o stack \/ stack' = (ErrorFrames(e) \o tail) \o stack
    BY <1>2 DEF ConnectFail, Call
  <2>2. Pile(tail, {"connectionError", "resume"})
    BY <1>a, PileTwo DEF LoopLabels, Finishing
  <2>3. Pile(altname, {"fail"} \cup {"failAltname"})
    <3>1. RunningPart \in Seq(Slots)
      <4>1. queue \in Seq(Slots) /\ runningIdx \in Int /\ Running \in Int
        BY TypeParts
      <4>2. QED
        BY <4>1, SpliceTypes DEF RunningPart
    <3>2. Pile(Fail(RunningPart), {"fail"}) /\ Pile(<<Do("failAltname")>>, {"failAltname"})
      BY <3>1, PileFew, PlainLabelsAre
    <3>3. QED
      BY <3>2, PileCat DEF Finishing, Inner, LoopLabels
  <2> HIDE DEF tail, altname
  <2>4. PICK S \in SUBSET {"fail", "checkEmpty"} : Pile(ErrorFrames(e), S)
    BY ErrorPile
  <2>5. Pile(ErrorFrames(e) \o tail, S \cup {"connectionError", "resume"})
    BY <2>2, <2>4, PileWithin DEF LoopLabels, Finishing
  <2>6. Pile(altname \o tail, ({"fail"} \cup {"failAltname"}) \cup {"connectionError", "resume"})
    BY <2>2, <2>3, PileWithin DEF LoopLabels, Finishing
  <2>7. \/ Moves(S \cup {"connectionError", "resume"}, stack)
        \/ Moves(({"fail"} \cup {"failAltname"}) \cup {"connectionError", "resume"}, stack)
    BY <2>1, <2>5, <2>6 DEF Moves
  <2>8. /\ S \cup {"connectionError", "resume"} \in SUBSET ConnectorLabels
        /\ ({"fail"} \cup {"failAltname"}) \cup {"connectionError", "resume"}
             \in SUBSET ConnectorLabels
    BY DEF ConnectorLabels
  <2>9. QED
    BY <2>7, <2>8
<1>3. QED
  BY <1>1, <1>2

LEMMA AnswerMoves ==
  ASSUME TypeOK
  PROVE  /\ \A keep, short \in BOOLEAN :
              ResponseHead(keep, short) => Moves({"headers", "afterHeaders"}, stack)
         /\ ResponseEnd => Moves({"complete"}, stack)
         /\ ResponseUpgrade => Moves({"disconnect", "upgradeCall", "resume"}, stack)
         /\ HeadersTimeout \/ BodyTimeout \/ ResponseResumed => Moves({}, stack)
<1>a. stack \in Seq(Frames)
  BY TypeParts
<1>1. ASSUME NEW keep \in BOOLEAN, NEW short \in BOOLEAN, ResponseHead(keep, short)
      PROVE  Moves({"headers", "afterHeaders"}, stack)
  <2>1. /\ RunningHead # Null
        /\ stack' = <<Frame("headers", <<RunningHead>>),
                      Frame("afterHeaders", <<RunningHead>>)>> \o stack
    BY <1>1 DEF ResponseHead, Call
  <2>2. RunningHead \in Requests
    BY <2>1, TypeParts DEF Slots
  <2>3. /\ Frame("headers", <<RunningHead>>) \in Frames
        /\ Frame("headers", <<RunningHead>>).at = "headers"
        /\ Frame("afterHeaders", <<RunningHead>>) \in Frames
        /\ Frame("afterHeaders", <<RunningHead>>).at = "afterHeaders"
    BY <2>2, Labelled, RequestLabelsAre
  <2>4. Pile(<<Frame("headers", <<RunningHead>>), Frame("afterHeaders", <<RunningHead>>)>>,
             {"headers", "afterHeaders"})
    BY <2>3, PileTwo DEF LoopLabels, Finishing
  <2>5. QED
    BY <2>1, <2>4 DEF Moves
<1>2. ResponseEnd => Moves({"complete"}, stack)
  BY PushMoves, PlainLabelsAre DEF ResponseEnd, Call
<1>3. ASSUME ResponseUpgrade PROVE Moves({"disconnect", "upgradeCall", "resume"}, stack)
  <2>1. /\ RunningHead # Null
        /\ stack' = <<Do("disconnect"), Frame("upgradeCall", <<RunningHead>>),
                      Do("resume")>> \o stack
    BY <1>3 DEF ResponseUpgrade, Call
  <2>2. RunningHead \in Requests
    BY <2>1, TypeParts DEF Slots
  <2>3. /\ Do("disconnect") \in Frames /\ Do("disconnect").at = "disconnect"
        /\ Frame("upgradeCall", <<RunningHead>>) \in Frames
        /\ Frame("upgradeCall", <<RunningHead>>).at = "upgradeCall"
        /\ Do("resume") \in Frames /\ Do("resume").at = "resume"
    BY <2>2, Labelled, PlainLabelsAre, RequestLabelsAre
  <2>4. /\ Pile(<<Do("disconnect")>>, {"disconnect"})
        /\ Pile(<<Frame("upgradeCall", <<RunningHead>>), Do("resume")>>,
                {"upgradeCall", "resume"})
    BY <2>3, PileFew, PileTwo DEF LoopLabels, Finishing
  <2>5. /\ Do("disconnect") \in Frames
        /\ <<Do("disconnect"), Frame("upgradeCall", <<RunningHead>>)>> \o <<Do("resume")>>
             = <<Do("disconnect"), Frame("upgradeCall", <<RunningHead>>), Do("resume")>>
        /\ Pile(<<Do("disconnect"), Frame("upgradeCall", <<RunningHead>>)>>,
                {"disconnect", "upgradeCall"})
        /\ Pile(<<Do("resume")>>, {"resume"})
    BY <2>3, CatFew, PileFew, PileTwo DEF LoopLabels, Finishing
  <2>6. Pile(<<Do("disconnect"), Frame("upgradeCall", <<RunningHead>>)>> \o <<Do("resume")>>,
             {"disconnect", "upgradeCall"} \cup {"resume"})
    BY <2>5, PileCat DEF LoopLabels, Finishing
  <2>7. {"disconnect", "upgradeCall"} \cup {"resume"} = {"disconnect", "upgradeCall", "resume"}
    OBVIOUS
  <2>8. QED
    BY <2>1, <2>5, <2>6, <2>7 DEF Moves
<1>4. HeadersTimeout \/ BodyTimeout \/ ResponseResumed => Moves({}, stack)
  BY <1>a, NothingMoves DEF HeadersTimeout, BodyTimeout, ResponseResumed, Destroys
<1>5. QED
  BY <1>1, <1>2, <1>3, <1>4

LEMMA DisturbanceMoves ==
  ASSUME TypeOK
  PROVE  /\ ResponseData \/ KeepAliveTimeout => Moves({}, stack)
         /\ \A e : BadBytes(e) => Moves({}, stack)
         /\ \A r \in Requests : QueuedBodyError(r) => Moves({}, stack)
         /\ SocketEnd => Moves({}, stack) \/ Moves({"complete"}, stack)
         /\ BodyError => Moves({"writerFail"}, stack)
         /\ BodyEnd => Moves({"sent", "endBody"}, stack)
<1>a. stack \in Seq(Frames)
  BY TypeParts
<1>1. ResponseData \/ KeepAliveTimeout => Moves({}, stack)
  BY <1>a, NothingMoves DEF ResponseData, KeepAliveTimeout, Destroys
<1>2. \A e : BadBytes(e) => Moves({}, stack)
  BY <1>a, NothingMoves DEF BadBytes, Destroys
<1>3. \A r \in Requests : QueuedBodyError(r) => Moves({}, stack)
  BY <1>a, NothingMoves DEF QueuedBodyError
<1>4. SocketEnd => Moves({}, stack) \/ Moves({"complete"}, stack)
  <2>1. SocketEnd => stack' = stack \/ stack' = <<Do("complete")>> \o stack
    BY DEF SocketEnd, Call
  <2>2. QED
    BY <1>a, <2>1, NothingMoves, PushMoves, PlainLabelsAre
<1>5. BodyError => Moves({"writerFail"}, stack)
  BY PushMoves, PlainLabelsAre DEF BodyError, Call
<1>6. BodyEnd => Moves({"sent", "endBody"}, stack)
  <2>1. BodyEnd => stack' = <<Do("sent"), Do("endBody")>> \o stack
    BY DEF BodyEnd, Call, Do
  <2>2. /\ Do("sent") \in Frames /\ Do("sent").at = "sent"
        /\ Do("endBody") \in Frames /\ Do("endBody").at = "endBody"
    BY Labelled, PlainLabelsAre
  <2>3. Pile(<<Do("sent"), Do("endBody")>>, {"sent", "endBody"})
    BY <2>2, PileTwo DEF LoopLabels, Finishing
  <2>4. QED
    BY <2>1, <2>3 DEF Moves
<1>7. QED
  BY <1>1, <1>2, <1>3, <1>4, <1>5, <1>6

SocketLabels == {"complete", "fail", "checkEmpty", "writerFail"}
CloseLabels == {"fail", "closeEnd", "resume", "destroyCallback"}

LEMMA SocketMoves ==
  ASSUME TypeOK
  PROVE  /\ SocketReset =>
              \E S \in SUBSET SocketLabels : Moves(S, stack) /\ ("complete" \in S => sock.midBody)
         /\ SocketError => \E S \in SUBSET SocketLabels : Moves(S, stack) /\ "complete" \notin S
         /\ SocketClose => \E S \in SUBSET CloseLabels : Moves(S, stack) /\ "closeEnd" \in S
<1>a. /\ "complete" \in PlainLabels /\ "writerFail" \in PlainLabels
      /\ "closeEnd" \in PlainLabels /\ "resume" \in PlainLabels
      /\ "destroyCallback" \in PlainLabels
  BY PlainLabelsAre
<1>b. ASSUME NEW s, NEW e, SocketErrors(s, e)
      PROVE  \E S \in SUBSET SocketLabels : Moves(S, stack) /\ "complete" \notin S
  BY <1>b, SocketErrorsMoves DEF SocketLabels
<1>1. ASSUME SocketReset
      PROVE  \E S \in SUBSET SocketLabels : Moves(S, stack) /\ ("complete" \in S => sock.midBody)
  <2> DEFINE writer == IF sock.writing THEN <<Do("writerFail")>> ELSE <<>>
  <2>1. \/ SocketErrors([sock EXCEPT !.paused = FALSE], "other")
        \/ sock.midBody /\ stack' = (<<Do("complete")>> \o writer) \o stack
    BY <1>1 DEF SocketReset, Call
  <2>2. CASE SocketErrors([sock EXCEPT !.paused = FALSE], "other")
    BY <1>b, <2>2
  <2>3. CASE sock.midBody /\ stack' = (<<Do("complete")>> \o writer) \o stack
    <3>1. Pile(<<Do("complete")>>, {"complete"})
      BY <1>a, PileFew
    <3>2. Pile(writer, {}) \/ Pile(writer, {"writerFail"})
      BY <1>a, PileFew
    <3> HIDE DEF writer
    <3>3. PICK T \in SUBSET {"writerFail"} : Pile(writer, T)
      BY <3>2
    <3>4. Pile(<<Do("complete")>> \o writer, {"complete"} \cup T)
      BY <3>1, <3>3, PileCat DEF LoopLabels, Finishing
    <3>5. Moves({"complete"} \cup T, stack)
      BY <2>3, <3>4 DEF Moves
    <3>6. {"complete"} \cup T \in SUBSET SocketLabels
      BY DEF SocketLabels
    <3>7. QED
      BY <2>3, <3>5, <3>6
  <2>4. QED
    BY <2>1, <2>2, <2>3
<1>2. SocketError => \E S \in SUBSET SocketLabels : Moves(S, stack) /\ "complete" \notin S
  BY <1>b DEF SocketError
<1>3. ASSUME SocketClose
      PROVE  \E S \in SUBSET CloseLabels : Moves(S, stack) /\ "closeEnd" \in S
  <2> DEFINE failed == IF destroyed THEN From(queue, runningIdx)
                       ELSE IF FailsHead THEN <<RunningHead>> ELSE <<>>
             renamed == IF "rename" \in sock.onClose THEN <<Do("resume")>> ELSE <<>>
             called == IF "destroy" \in sock.onClose
                       THEN <<Do("destroyCallback")>> ELSE <<>>
  <2>1. failed \in Seq(Slots)
    BY TypeParts, SpliceTypes
  <2>2. /\ Pile(Fail(failed), {"fail"}) /\ Pile(<<Do("closeEnd")>>, {"closeEnd"})
        /\ Pile(renamed, {}) \/ Pile(renamed, {"resume"})
        /\ Pile(called, {}) \/ Pile(called, {"destroyCallback"})
    BY <1>a, <2>1, PileFew
  <2>3. stack' = (Fail(failed) \o <<Do("closeEnd")>> \o renamed \o called) \o stack
    BY <1>3 DEF SocketClose, Call
  <2> HIDE DEF failed, renamed, called
  <2>4. PICK S \in SUBSET {"resume"} : Pile(renamed, S)
    BY <2>2
  <2>5. PICK T \in SUBSET {"destroyCallback"} : Pile(called, T)
    BY <2>2
  <2>6. Pile(Fail(failed) \o <<Do("closeEnd")>>, {"fail"} \cup {"closeEnd"})
    BY <2>2, PileCat DEF LoopLabels, Finishing
  <2>7. Pile(Fail(failed) \o <<Do("closeEnd")>> \o renamed, {"fail"} \cup {"closeEnd"} \cup S)
    BY <2>4, <2>6, PileCat DEF LoopLabels, Finishing
  <2>8. Pile(Fail(failed) \o <<Do("closeEnd")>> \o renamed \o called,
             {"fail"} \cup {"closeEnd"} \cup S \cup T)
    BY <2>5, <2>7, PileCat DEF LoopLabels, Finishing
  <2>9. Moves({"fail"} \cup {"closeEnd"} \cup S \cup T, stack)
    BY <2>3, <2>8 DEF Moves
  <2>10. {"fail"} \cup {"closeEnd"} \cup S \cup T \in SUBSET CloseLabels
    BY DEF CloseLabels
  <2>11. QED
    BY <2>9, <2>10
<1>4. QED
  BY <1>1, <1>2, <1>3

----------------------------------------------------------------------------
(* The shape of the stack is kept.                                          *)

LEMMA ShapeCaller ==
  ASSUME TypeOK, Nesting, Shape(stack), stack # <<>>, NEW S, Moves(S, Caller),
         S \subseteq Inner \/ Top.at \notin Inner,
         S \subseteq {"sent", "error", "abortSocket"}
           \/ Top.at \notin {"sent", "error", "abortSocket"},
         S \subseteq {"fail", "error", "abortSocket"}
           \/ Top.at \notin {"fail", "error", "abortSocket"},
         S \cap Finishing = {} \/ Top.at \in Finishing
  PROVE  Shape(stack)'
BY ShapeTop, MovesShape

LEMMA ShapeEvent ==
  ASSUME stack = <<>>, NEW S, Moves(S, stack)
  PROVE  Shape(stack)'
<1>1. stack \in Seq(Frames) /\ On(stack) = {} /\ Shape(stack)
  BY FewFrames, OnFew, ShapeFew
<1>2. QED
  BY <1>1, MovesShape

\* The user calls from the top or from a callback.
LEMMA UserTop ==
  ASSUME TypeOK, Nesting, Shape(stack), NEW op, UserMay(op)
  PROVE  /\ On(stack) \cap {"busy", "pick", "exit"} = {}
         /\ stack # <<>> => Top.at \in Callbacks /\ <<Top.at, op>> \in UserCalls
         /\ stack = <<>> => On(stack) = {}
<1>1. stack = <<>> => On(stack) = {}
  BY OnFew
<1>2. stack # <<>> => Top.at \in Callbacks /\ <<Top.at, op>> \in UserCalls
  <2>1. stack # <<>> => <<Top.at, op>> \in UserCalls
    BY DEF UserMay
  <2>2. stack # <<>> => Top.at \in Callbacks \cup {"top"} /\ Top.at \in Labels
    BY <2>1, EnvironmentAssumption, TypeParts, TopType
  <2>3. "top" \notin Labels
    BY DEF Labels, Callbacks, LoopLabels
  <2>4. QED
    BY <2>1, <2>2, <2>3
<1>3. stack # <<>> => On(stack) \cap {"busy", "pick", "exit"} = {}
  BY <1>2, ShapeTop DEF Callbacks
<1>4. QED
  BY <1>1, <1>2, <1>3

LEMMA UserShape ==
  ASSUME CarefulUser, TypeOK, Nesting, Shape(stack), UserStep
  PROVE  Shape(stack)'
<1>a. stack \in Seq(Frames)
  BY TypeParts
<1>b. PICK op : UserMay(op) /\ (Destroy => op = "destroy")
              /\ (Destroy \/ ~Destroy)
  <2>1. ASSUME Destroy PROVE UserMay("destroy")
    BY <2>1 DEF Destroy
  <2>2. ASSUME ~Destroy PROVE \E op : UserMay(op)
    BY <2>2 DEF UserStep, Dispatch, DispatchRefused, Abort, SetPipelining, Close
  <2>3. QED
    BY <2>1, <2>2
<1>c. /\ On(stack) \cap {"busy", "pick", "exit"} = {}
      /\ stack # <<>> => Top.at \in Callbacks /\ <<Top.at, op>> \in UserCalls
      /\ stack = <<>> => On(stack) = {}
  BY <1>b, UserTop
<1>1. CASE Moves({}, stack)
  BY <1>a, <1>1, MovesShape
<1>2. CASE resuming # 2 /\ Moves({"loop"}, stack)
  <2>1. On(stack) \cap LoopLabels = {}
    BY <1>a, <1>2, NoLoopOn DEF Nesting
  <2>2. {"busy", "pick", "exit", "advance", "splice"} \subseteq LoopLabels
    BY DEF LoopLabels
  <2>3. QED
    BY <1>a, <1>2, <2>1, <2>2, MovesShape DEF Finishing
<1>3. CASE Moves({"error"}, stack)
  BY <1>a, <1>c, <1>3, MovesShape DEF Inner, Finishing
<1>4. CASE Moves({"error", "abortSocket"}, stack)
  BY <1>a, <1>c, <1>4, MovesShape DEF Inner, Finishing
<1>5. CASE Destroy /\ Moves({"fail", "destroyEnd"}, stack)
  <2>1. stack # <<>> => Top.at \in Callbacks \ {"sent", "error"}
    BY <1>b, <1>c, <1>5 DEF CarefulUser
  <2>2. stack # <<>> => "advance" \notin On(stack) /\ "splice" \notin On(stack)
    BY <2>1, ShapeTop DEF Callbacks
  <2>3. QED
    BY <1>a, <1>c, <1>5, <2>2, MovesShape DEF Inner, Finishing
<1>6. QED
  BY <1>1, <1>2, <1>3, <1>4, <1>5, UserMoves DEF UserStep

LEMMA LoopShape ==
  ASSUME TypeOK, Nesting, Shape(stack),
         \/ Resume \/ LoopDestroyed \/ LoopClosed \/ LoopContext
         \/ LoopBusy \/ LoopDrain \/ PickNothing \/ PickAborted
         \/ PickRename \/ PickConnect \/ PickWrite \/ WriteHead
         \/ Advance \/ Splice \/ Exit
  PROVE  Shape(stack)'
<1>a. stack \in Seq(Frames)
  BY TypeParts
<1>1. CASE Resume
  <2>1. CASE Moves({}, Caller)
    BY <1>1, <2>1, ShapeCaller DEF Resume, At
  <2>2. CASE resuming # 2 /\ Moves({"loop"}, Caller)
    <3>1. stack # <<>> /\ Caller \in Seq(Frames)
      BY <1>1, <1>a, TopType DEF Resume, At
    <3>2. On(stack) \cap LoopLabels = {}
      BY <1>a, <2>2, NoLoopOn DEF Nesting
    <3>3. On(Caller) \cap LoopLabels = {} /\ Shape(Caller)
      BY <3>1, <3>2, ShapeTop
    <3>4. {"busy", "pick", "exit", "advance", "splice"} \subseteq LoopLabels
      BY DEF LoopLabels
    <3>5. QED
      BY <2>2, <3>1, <3>3, <3>4, MovesShape DEF Finishing
  <2>3. QED
    BY <1>1, <2>1, <2>2, ResumeMoves
<1>2. CASE PickRename
  BY <1>2, <1>a, LoopStepMoves, MovesShape
<1>3. CASE ~Resume /\ ~PickRename
  <2>1. stack # <<>> /\ Top.at \in LoopLabels
    BY <1>3 DEF LoopDestroyed, LoopClosed, LoopContext, LoopBusy, LoopDrain,
       PickNothing, PickAborted, PickConnect, PickWrite, WriteHead, Advance,
       Splice, Exit, At, LoopLabels
  <2>2. Top.at \notin Inner /\ Top.at \notin {"sent", "error", "abortSocket", "fail"}
    BY <2>1 DEF LoopLabels, Inner
  <2>3. PICK S : Moves(S, Caller) /\ S \cap Finishing = {}
    <3>1. PICK S : Moves(S, Caller)
             /\ S \in {{}, {"exit"}, {"busy"}, {"pick"}, {"loop"}, {"drain", "loop"},
                       {"fail", "splice"}, {"error", "abortSocket", "splice"},
                       {"start", "write"}, {"splice"}, {"advance"}, {"sent", "advance"}}
      BY <1>3, LoopStepMoves, DrainMoves, PickWriteMoves, WriteHeadMoves
    <3>2. S \cap Finishing = {}
      BY <3>1 DEF Finishing
    <3>3. QED
      BY <3>1, <3>2
  <2>4. QED
    BY <2>1, <2>2, <2>3, ShapeCaller
<1>4. QED
  BY <1>1, <1>2, <1>3

LEMMA QueueFrameShape ==
  ASSUME TypeOK, Nesting, Shape(stack),
         \/ CallbackReturns \/ FailNext \/ CheckEmpty \/ DestroyEnd
         \/ DestroyCallback \/ FailAltname \/ CloseEnd
  PROVE  Shape(stack)'
<1>a. stack \in Seq(Frames)
  BY TypeParts
<1>b. stack # <<>>
  BY DEF CallbackReturns, FailNext, CheckEmpty, DestroyEnd, DestroyCallback,
     FailAltname, CloseEnd, At
<1>1. CASE Moves({}, Caller)
  BY <1>1, <1>b, ShapeCaller
<1>2. CASE FailNext
  <2>1. Top.at = "fail"
    BY <1>2 DEF FailNext, At
  <2>2. QED
    BY <1>2, <1>b, <2>1, FailNextMoves, ShapeCaller DEF Inner, Finishing
<1>3. CASE DestroyEnd
  <2>1. Top.at = "destroyEnd"
    BY <1>3 DEF DestroyEnd, At
  <2>2. QED
    BY <1>3, <1>b, <2>1, QueueFrameMoves, ShapeCaller DEF Inner, Finishing
<1>4. CASE FailAltname /\ Moves({"fail"}, stack)
  <2>1. Top.at = "failAltname"
    BY <1>4 DEF FailAltname, At
  <2>2. On(stack) \cap LoopLabels = {}
    BY <1>b, <2>1, ShapeTop DEF LoopLabels, Inner
  <2>3. {"busy", "pick", "exit", "advance", "splice"} \subseteq LoopLabels
    BY DEF LoopLabels
  <2>4. QED
    BY <1>a, <1>4, <2>2, <2>3, MovesShape DEF Finishing
<1>5. CASE CloseEnd
  <2>1. Top.at = "closeEnd"
    BY <1>5 DEF CloseEnd, At
  <2>2. QED
    BY <1>5, <1>b, <2>1, QueueFrameMoves, ShapeCaller DEF Inner, Finishing
<1>6. QED
  BY <1>1, <1>2, <1>3, <1>4, <1>5, QueueFrameMoves

LEMMA SocketFrameShape ==
  ASSUME TypeOK, Nesting, Shape(stack),
         \/ AbortSocket \/ EndBody \/ WriterFail \/ AfterHeaders
         \/ Complete \/ AfterEnd \/ UpgradeCall \/ Upgraded
  PROVE  Shape(stack)'
<1>a. stack \in Seq(Frames)
  BY TypeParts
<1>b. stack # <<>>
  BY DEF AbortSocket, EndBody, WriterFail, AfterHeaders, Complete, AfterEnd,
     UpgradeCall, Upgraded, At
<1>1. CASE Moves({}, Caller) \/ Moves({}, stack)
  BY <1>1, <1>a, <1>b, ShapeCaller, MovesShape
<1>2. CASE EndBody \/ WriterFail
  <2>1. Top.at = "endBody" \/ Top.at = "writerFail"
    BY <1>2 DEF EndBody, WriterFail, At
  <2>2. PICK S : Moves(S, Caller) /\ S \in {{}, {"resume"}, {"error"}, {"error", "abortSocket"}}
    BY <1>2, SocketFrameMoves, WriterFailMoves
  <2>3. S \cap Finishing = {}
    BY <2>2 DEF Finishing
  <2>4. QED
    BY <1>b, <2>1, <2>2, <2>3, ShapeCaller DEF Inner
<1>3. CASE AfterHeaders \/ Complete \/ AfterEnd \/ UpgradeCall
  <2>1. Top.at \in Finishing
    BY <1>3 DEF AfterHeaders, Complete, AfterEnd, UpgradeCall, At, Finishing
  <2>2. Moves({}, stack) \/ \E S : Moves(S, Caller)
    BY <1>3, SocketFrameMoves, CompleteMoves, UpgradeMoves
  <2>3. QED
    BY <1>1, <1>b, <2>1, <2>2, ShapeCaller DEF Inner, Finishing
<1>4. CASE AbortSocket \/ Upgraded
  BY <1>1, <1>4, SocketFrameMoves
<1>5. QED
  BY <1>2, <1>3, <1>4

LEMMA EventShape ==
  ASSUME TypeOK, TaskStep \/ ImmediateResume \/ Connector \/ Answer \/ Disturbance
                 \/ ResponseResumed \/ BodyEnd \/ IdleValidated \/ SocketError \/ SocketClose
  PROVE  stack = <<>> /\ Shape(stack)'
<1>1. stack = <<>>
  <2>1. TaskStep => stack = <<>>
    BY DEF TaskStep, NextTask, TaskResume, TaskDrain, TaskClosed,
       TaskDestroyCallback, TaskDestroyed
  <2>2. Connector \/ Answer \/ ResponseResumed => Quiet
    BY DEF Connector, ConnectTooLate, ConnectOK, ConnectFail, Answer, ResponseHead,
       ResponseEnd, ResponseUpgrade, HeadersTimeout, BodyTimeout, ResponseResumed
  <2>3. Disturbance => Quiet
    BY DEF Disturbance, ResponseData, KeepAliveTimeout, SocketEnd, SocketReset,
       BadBytes, BodyError, QueuedBodyError
  <2>4. ImmediateResume \/ BodyEnd \/ IdleValidated \/ SocketError \/ SocketClose => Quiet
    BY DEF ImmediateResume, BodyEnd, IdleValidated, SocketError, SocketClose
  <2>5. QED
    BY <2>1, <2>2, <2>3, <2>4 DEF Quiet
<1>2. \E S : Moves(S, stack)
  <2>1. TaskStep \/ ImmediateResume \/ IdleValidated => \E S : Moves(S, stack)
    BY TaskMoves DEF TaskStep
  <2>2. Connector => \E S : Moves(S, stack)
    BY TaskMoves, ConnectMoves DEF Connector
  <2>3. Answer \/ ResponseResumed => \E S : Moves(S, stack)
    BY AnswerMoves DEF Answer
  <2>4. Disturbance \/ BodyEnd \/ SocketError \/ SocketClose => \E S : Moves(S, stack)
    BY DisturbanceMoves, SocketMoves DEF Disturbance
  <2>5. QED
    BY <2>1, <2>2, <2>3, <2>4
<1>3. QED
  BY <1>1, <1>2, ShapeEvent

LEMMA ShapeStep ==
  ASSUME CarefulUser, TypeOK, Nesting, Shape(stack), Next
  PROVE  Shape(stack)'
<1>1. FrameStep => Shape(stack)'
  BY LoopShape, QueueFrameShape, SocketFrameShape DEF FrameStep
<1>2. QED
  BY <1>1, UserShape, EventShape DEF Next
=============================================================================

-------------------------- MODULE ClientEndProofs --------------------------
(***************************************************************************)
(* How the requests of Client end, for every value of its constants: none  *)
(* is lost, none ends twice, and close() and destroy() report only when    *)
(* every request has its outcome.                                          *)
(***************************************************************************)
EXTENDS ClientWireProofs

----------------------------------------------------------------------------
(* Where a request is that has not ended.                                   *)

\* Requests that got a terminal callback.
Ended == {r \in Requests : ends[r] > 0}

\* What is in the running and the pending part of the queue.
Queued == {queue[k] : k \in (runningIdx + 1)..Len(queue)}

\* Frames that hold requests which left the queue.
Holders == {"fail", "upgradeCall", "upgraded"}

Held(s) ==
  {r \in Slots : \E i \in DOMAIN s : s[i].at \in Holders /\ r \in Range(s[i].reqs)}

LEMMA HeldCat ==
  ASSUME NEW s \in Seq(Frames), NEW t \in Seq(Frames)
  PROVE  s \o t \in Seq(Frames) /\ Held(s \o t) = Held(s) \cup Held(t)
<1>1. /\ Len(s) \in Nat /\ Len(t) \in Nat
      /\ DOMAIN s = 1..Len(s) /\ DOMAIN t = 1..Len(t)
      /\ DOMAIN (s \o t) = 1..(Len(s) + Len(t))
      /\ \A i \in 1..Len(s) : (s \o t)[i] = s[i]
      /\ \A i \in 1..Len(t) : (s \o t)[Len(s) + i] = t[i]
  BY CatElements
<1>2. Held(s \o t) \subseteq Held(s) \cup Held(t)
  <2> SUFFICES ASSUME NEW r \in Slots, NEW i \in DOMAIN (s \o t),
                      (s \o t)[i].at \in Holders, r \in Range((s \o t)[i].reqs)
               PROVE  r \in Held(s) \cup Held(t)
    BY DEF Held
  <2>1. CASE i <= Len(s)
    BY <1>1, <2>1 DEF Held
  <2>2. CASE i > Len(s)
    <3>1. i - Len(s) \in DOMAIN t /\ (s \o t)[i] = t[i - Len(s)]
      BY <1>1, <2>2, CatElements
    <3>2. QED
      BY <3>1 DEF Held
  <2>3. QED
    BY <1>1, <2>1, <2>2
<1>3. ASSUME NEW r \in Held(s) PROVE r \in Held(s \o t)
  <2>1. PICK i \in DOMAIN s : s[i].at \in Holders /\ r \in Range(s[i].reqs)
    BY DEF Held
  <2>2. i \in DOMAIN (s \o t) /\ (s \o t)[i] = s[i]
    BY <1>1
  <2>3. QED
    BY <2>1, <2>2 DEF Held
<1>4. ASSUME NEW r \in Held(t) PROVE r \in Held(s \o t)
  <2>1. PICK i \in DOMAIN t : t[i].at \in Holders /\ r \in Range(t[i].reqs)
    BY DEF Held
  <2>2. Len(s) + i \in DOMAIN (s \o t) /\ (s \o t)[Len(s) + i] = t[i]
    BY <1>1
  <2>3. QED
    BY <2>1, <2>2 DEF Held
<1>5. s \o t \in Seq(Frames)
  BY ConcatProperties
<1>6. QED
  BY <1>2, <1>3, <1>4, <1>5

LEMMA HeldOne ==
  ASSUME NEW f \in Frames
  PROVE  /\ <<f>> \in Seq(Frames)
         /\ Held(<<f>>) = IF f.at \in Holders THEN Range(f.reqs) ELSE {}
<1>1. DOMAIN <<f>> = {1} /\ <<f>>[1] = f
  OBVIOUS
<1>2. Range(f.reqs) \subseteq Slots
  BY FrameFields, ElementOfSeq, LenProperties DEF Range
<1>3. QED
  BY <1>1, <1>2, FewFrames DEF Held

LEMMA HeldNone ==
  ASSUME NEW s \in Seq(Frames), On(s) \cap Holders = {}
  PROVE  Held(s) = {}
BY DEF Held, On

\* What the frame of errorRequest holds.
LEMMA HeldFail ==
  ASSUME NEW rs \in Seq(Slots)
  PROVE  Fail(rs) \in Seq(Frames) /\ Held(Fail(rs)) = Range(rs)
<1>1. CASE rs = <<>>
  <2>1. Fail(rs) = <<>> /\ <<>> \in Seq(Frames) /\ Held(<<>>) = {}
    BY <1>1, HeldNone, OnFew, FewFrames DEF Fail
  <2>2. Range(rs) = {}
    BY <1>1 DEF Range
  <2>3. QED
    BY <2>1, <2>2
<1>2. CASE rs # <<>>
  <2>1. /\ Fail(rs) = <<Frame("fail", rs)>> /\ Frame("fail", rs) \in Frames
        /\ Frame("fail", rs).at = "fail" /\ Frame("fail", rs).reqs = rs
    BY <1>2, PlainLabelsAre, FrameTypes DEF Fail, Frame
  <2>2. QED
    BY <2>1, HeldOne DEF Holders
<1>3. QED
  BY <1>1, <1>2

LEMMA HeldTop ==
  ASSUME stack \in Seq(Frames), stack # <<>>
  PROVE  Held(stack) = (IF Top.at \in Holders THEN Range(Top.reqs) ELSE {}) \cup Held(Caller)
<1>1. Top \in Frames /\ Caller \in Seq(Frames)
  BY TopType
<1>2. stack = <<Top>> \o Caller
  BY HeadTailProperties DEF Top, Caller
<1>3. <<Top>> \in Seq(Frames) /\ Held(<<Top>>) = IF Top.at \in Holders THEN Range(Top.reqs) ELSE {}
  BY <1>1, HeldOne
<1>4. Held(<<Top>> \o Caller) = Held(<<Top>>) \cup Held(Caller)
  BY <1>1, <1>3, HeldCat
<1>5. QED
  BY <1>2, <1>3, <1>4

\* What is put on the stack first.
LEMMA HeldFirst ==
  ASSUME NEW fs \in Seq(Frames), NEW gs \in Seq(Frames), NEW t \in Seq(Frames)
  PROVE  Held(fs) \subseteq Held((fs \o gs) \o t)
<1>1. fs \o gs \in Seq(Frames) /\ Held(fs \o gs) = Held(fs) \cup Held(gs)
  BY HeldCat
<1>2. QED
  BY <1>1, HeldCat

----------------------------------------------------------------------------
(* Cutting the queue.                                                       *)

LEMMA CutElements ==
  ASSUME NEW T, NEW q \in Seq(T), NEW i \in Nat, NEW k \in 1..Len(q)
  PROVE  /\ k <= i => k \in 1..Len(Upto(q, i)) /\ Upto(q, i)[k] = q[k]
         /\ k > i => q[k] \in Range(From(q, i))
<1>1. Len(q) \in Nat
  BY LenProperties
<1>2. ASSUME k <= i PROVE k \in 1..Len(Upto(q, i)) /\ Upto(q, i)[k] = q[k]
  <2>1. CASE i <= Len(q)
    BY <1>1, <1>2, <2>1, SpliceElements
  <2>2. CASE i > Len(q)
    BY <1>1, <2>2, SpliceElements, SMTT(30)
  <2>3. QED
    BY <1>1, <2>1, <2>2
<1>3. ASSUME k > i PROVE q[k] \in Range(From(q, i))
  <2>1. /\ Len(From(q, i)) = Len(q) - i
        /\ \A j \in 1..(Len(q) - i) : From(q, i)[j] = q[i + j]
    <3>1. i <= Len(q)
      BY <1>1, <1>3
    <3>2. QED
      BY <3>1, SpliceElements
  <2>2. k - i \in 1..Len(From(q, i)) /\ i + (k - i) = k
    BY <1>1, <1>3, <2>1
  <2>3. DOMAIN From(q, i) = 1..Len(From(q, i))
    <3>1. i \in Int
      OBVIOUS
    <3>2. From(q, i) \in Seq(T)
      BY <3>1, SpliceTypes
    <3>3. QED
      BY <3>2, LenProperties
  <2>4. From(q, i)[k - i] = q[k]
    BY <2>1, <2>2
  <2>5. QED
    BY <2>2, <2>3, <2>4 DEF Range
<1>4. QED
  BY <1>2, <1>3

\* The running and the pending part, as splice() would take them.
LEMMA QueuedIs ==
  ASSUME TypeOK
  PROVE  Queued = Range(From(queue, runningIdx)) /\ Queued \subseteq Slots
<1>1. /\ queue \in Seq(Slots) /\ Len(queue) \in Nat /\ runningIdx \in Nat
      /\ runningIdx \in Int /\ \A k \in 1..Len(queue) : queue[k] \in Slots
  BY TypeParts, LenProperties, ElementOfSeq
<1>2. Queued \subseteq Range(From(queue, runningIdx))
  <2> SUFFICES ASSUME NEW k \in (runningIdx + 1)..Len(queue)
               PROVE  queue[k] \in Range(From(queue, runningIdx))
    BY DEF Queued
  <2>1. k \in 1..Len(queue) /\ k > runningIdx
    BY <1>1
  <2>2. QED
    BY <1>1, <2>1, CutElements
<1>3. From(queue, runningIdx) \in Seq(Slots)
  BY <1>1, SpliceTypes
<1>4. Range(From(queue, runningIdx)) \subseteq Queued
  <2> SUFFICES ASSUME NEW k \in 1..Len(From(queue, runningIdx))
               PROVE  From(queue, runningIdx)[k] \in Queued
    BY <1>3, LenProperties DEF Range
  <2>1. runningIdx < Len(queue)
    <3>1. CASE runningIdx >= Len(queue)
      <4>1. From(queue, runningIdx) = <<>>
        BY <1>1, <3>1, SpliceElements
      <4>2. Len(From(queue, runningIdx)) = 0
        BY <4>1
      <4>3. QED
        BY <4>2
    <3>2. QED
      BY <1>1, <3>1
  <2>2. /\ Len(From(queue, runningIdx)) = Len(queue) - runningIdx
        /\ \A j \in 1..(Len(queue) - runningIdx) :
             From(queue, runningIdx)[j] = queue[runningIdx + j]
    <3>1. runningIdx <= Len(queue)
      BY <1>1, <2>1
    <3>2. QED
      BY <1>1, <3>1, SpliceElements, SMTT(30)
  <2>3. runningIdx + k \in (runningIdx + 1)..Len(queue)
    BY <1>1, <2>2
  <2>4. QED
    BY <2>2, <2>3 DEF Queued
<1>5. QED
  BY <1>1, <1>2, <1>4 DEF Queued

LEMMA SameLeft ==
  ASSUME queue' = queue, runningIdx' = runningIdx
  PROVE  Queued' = Queued
BY DEF Queued

LEMMA UptoLeft ==
  ASSUME TypeOK, NEW i \in Nat, queue' = Upto(queue, i), runningIdx' = runningIdx
  PROVE  Queued \subseteq Queued' \cup Range(From(queue, i))
<1> SUFFICES ASSUME NEW k \in (runningIdx + 1)..Len(queue)
             PROVE  queue[k] \in Queued' \cup Range(From(queue, i))
  BY DEF Queued
<1>1. /\ queue \in Seq(Slots) /\ Len(queue) \in Nat /\ runningIdx \in Nat
      /\ k \in 1..Len(queue)
  BY TypeParts, LenProperties
<1>2. CASE k <= i
  <2>1. k \in 1..Len(queue') /\ queue'[k] = queue[k]
    BY <1>1, <1>2, CutElements
  <2>2. k \in (runningIdx' + 1)..Len(queue')
    BY <2>1
  <2>3. QED
    BY <2>1, <2>2 DEF Queued
<1>3. CASE k > i
  BY <1>1, <1>3, CutElements
<1>4. QED
  BY <1>1, <1>2, <1>3

LEMMA WithoutLeft ==
  ASSUME TypeOK, runningIdx <= pendingIdx, queue' = WithoutAt(queue, pendingIdx),
         runningIdx' = runningIdx
  PROVE  Queued \subseteq Queued' \cup {PendingHead}
<1> SUFFICES ASSUME NEW k \in (runningIdx + 1)..Len(queue), queue[k] # PendingHead
             PROVE  queue[k] \in Queued'
  BY DEF Queued
<1>1. /\ queue \in Seq(Slots) /\ Len(queue) \in Nat /\ runningIdx \in Nat
      /\ k \in 1..Len(queue) /\ pendingIdx \in Nat /\ DOMAIN queue = 1..Len(queue)
  BY TypeParts, LenProperties
<1>2. /\ pendingIdx >= Len(queue) => queue' = queue
      /\ pendingIdx < Len(queue) => Len(queue') = Len(queue) - 1
      /\ k <= pendingIdx => k <= Len(queue') /\ queue'[k] = queue[k]
      /\ k > pendingIdx + 1 => queue'[k - 1] = queue[k]
  BY <1>1, WithoutElements
<1>3. k # pendingIdx + 1
  BY <1>1 DEF PendingHead, Slot
<1>4. CASE k <= pendingIdx
  <2>1. Len(queue') \in Nat
    <3>1. queue' \in Seq(Slots)
      <4>1. pendingIdx \in Int
        BY <1>1
      <4>2. QED
        BY <1>1, <4>1, SpliceTypes
    <3>2. QED
      BY <3>1, LenProperties
  <2>2. k \in (runningIdx' + 1)..Len(queue')
    <3>1. k <= Len(queue')
      BY <1>2, <1>4
    <3>2. k >= runningIdx' + 1
      OBVIOUS
    <3>3. QED
      BY <1>1, <2>1, <3>1, <3>2
  <2>3. queue'[k] = queue[k]
    BY <1>2, <1>4
  <2>4. QED
    BY <2>2, <2>3 DEF Queued
<1>5. CASE k > pendingIdx
  <2>1. k > pendingIdx + 1 /\ pendingIdx < Len(queue)
    BY <1>1, <1>3, <1>5
  <2>2. k - 1 \in (runningIdx' + 1)..Len(queue') /\ queue'[k - 1] = queue[k]
    BY <1>1, <1>2, <2>1
  <2>3. QED
    BY <2>2 DEF Queued
<1>6. QED
  BY <1>1, <1>4, <1>5

LEMMA HeadLeft ==
  ASSUME TypeOK, queue' = [queue EXCEPT ![runningIdx + 1] = Null],
         runningIdx' = runningIdx + 1
  PROVE  Queued \subseteq Queued' \cup {RunningHead}
<1> SUFFICES ASSUME NEW k \in (runningIdx + 1)..Len(queue), queue[k] # RunningHead
             PROVE  queue[k] \in Queued'
  BY DEF Queued
<1>1. /\ queue \in Seq(Slots) /\ Len(queue) \in Nat /\ runningIdx \in Nat
      /\ k \in 1..Len(queue) /\ DOMAIN queue = 1..Len(queue)
      /\ runningIdx + 1 \in 1..Len(queue)
  BY TypeParts, LenProperties
<1>2. Null \in Slots
  BY DEF Slots
<1>3. Len(queue') = Len(queue) /\ queue'[k] = IF k = runningIdx + 1 THEN Null ELSE queue[k]
  BY <1>1, <1>2, ExceptSeq
<1>4. k # runningIdx + 1
  BY <1>1 DEF RunningHead, Slot
<1>5. k \in (runningIdx' + 1)..Len(queue') /\ queue'[k] = queue[k]
  BY <1>1, <1>3, <1>4
<1>6. QED
  BY <1>5 DEF Queued

LEMMA AppendLeft ==
  ASSUME TypeOK, runningIdx <= Len(queue), NEW r \in Requests,
         queue' = Append(queue, r), runningIdx' = runningIdx
  PROVE  Queued \cup {r} = Queued'
<1>1. /\ queue \in Seq(Slots) /\ Len(queue) \in Nat /\ runningIdx \in Nat /\ r \in Slots
  BY TypeParts, LenProperties DEF Slots
<1>2. /\ Len(queue') = Len(queue) + 1
      /\ \A k \in 1..Len(queue) : queue'[k] = queue[k]
      /\ queue'[Len(queue) + 1] = r
  BY <1>1, AppendProperties
<1>3. ASSUME NEW k \in (runningIdx + 1)..Len(queue) PROVE queue[k] \in Queued'
  <2>1. k \in 1..Len(queue) /\ k \in (runningIdx' + 1)..Len(queue')
    BY <1>1, <1>2
  <2>2. QED
    BY <1>2, <2>1 DEF Queued
<1>4. r \in Queued'
  <2>1. Len(queue) + 1 \in (runningIdx' + 1)..Len(queue')
    BY <1>1, <1>2
  <2>2. QED
    BY <1>2, <2>1 DEF Queued
<1>5. ASSUME NEW k \in (runningIdx' + 1)..Len(queue') PROVE queue'[k] \in Queued \cup {r}
  <2>1. CASE k = Len(queue) + 1
    BY <1>2, <2>1
  <2>2. CASE k # Len(queue) + 1
    <3>1. k \in 1..Len(queue) /\ k \in (runningIdx + 1)..Len(queue)
      BY <1>1, <1>2, <2>2
    <3>2. QED
      BY <1>2, <3>1 DEF Queued
  <2>3. QED
    BY <2>1, <2>2
<1>6. QED
  BY <1>3, <1>4, <1>5 DEF Queued

LEMMA CompactLeft ==
  ASSUME TypeOK, Compact
  PROVE  Queued' = Queued
<1>1. queue' = From(queue, runningIdx) /\ runningIdx' = 0
  BY DEF Compact
<1>2. Queued = Range(queue')
  BY <1>1, QueuedIs
<1>3. queue' \in Seq(Slots)
  <2>1. queue \in Seq(Slots) /\ runningIdx \in Int
    BY TypeParts
  <2>2. QED
    BY <1>1, <2>1, SpliceTypes
<1>4. DOMAIN queue' = (runningIdx' + 1)..Len(queue')
  BY <1>1, <1>3, LenProperties
<1>5. QED
  BY <1>2, <1>4 DEF Queued, Range

----------------------------------------------------------------------------
(* Which steps give a request its outcome.                                  *)

\* r gets a terminal callback from this step.
Ends(r) ==
  \/ DispatchRefused(r)
  \/ /\ r \notin aborted /\ r \in aborted' \cup completed'
     /\ \/ Abort(r) /\ InFlight(r)
        \/ FailNext /\ r = Head(Top.reqs) /\ completed' = completed
        \/ PickWrite /\ r = PendingHead /\ completed' = completed
        \/ /\ WriterFail \/ Complete
           /\ r = RunningHead /\ Running > 0 /\ r \notin completed
        \/ Upgraded /\ r = Top.reqs[1]

\* The requests of rs, and no others, get one.
Outcome(rs) ==
  /\ \A q \in Requests : ends'[q] = ends[q] + (IF q \in rs THEN 1 ELSE 0)
  /\ aborted \subseteq aborted' /\ aborted' \subseteq aborted \cup rs
  /\ completed \subseteq completed' /\ completed' \subseteq completed \cup rs

LEMMA Unended == UNCHANGED <<aborted, completed, ends>> /\ TypeOK => Outcome({})
<1> SUFFICES ASSUME UNCHANGED <<aborted, completed, ends>>, TypeOK PROVE Outcome({})
  OBVIOUS
<1>1. ends \in [Requests -> Nat]
  BY DEF TypeOK
<1>2. \A q \in Requests : ends'[q] = ends[q] + 0
  BY <1>1
<1>3. QED
  BY <1>2 DEF Outcome

LEMMA AbortsOutcome ==
  ASSUME TypeOK, NEW r \in Requests, Aborts(r), completed' = completed
  PROVE  Outcome({r}) /\ r \in aborted'
<1>1. ends \in [Requests -> Nat]
  BY DEF TypeOK
<1>2. \A q \in Requests : ends'[q] = ends[q] + (IF q \in {r} THEN 1 ELSE 0)
  BY <1>1 DEF Aborts
<1>3. QED
  BY <1>2 DEF Outcome, Aborts

LEMMA UserOutcome ==
  ASSUME TypeOK, UserStep
  PROVE  Outcome({}) \/ \E r \in Requests : Outcome({r}) /\ Ends(r)
<1>1. ASSUME NEW r \in Requests, Dispatch(r) PROVE Outcome({})
  BY <1>1, Unended DEF Dispatch, reqVars, histVars
<1>2. ASSUME NEW r \in Requests, DispatchRefused(r) PROVE Outcome({r}) /\ Ends(r)
  <2>1. ends \in [Requests -> Nat]
    BY DEF TypeOK
  <2>2. ends' = [ends EXCEPT ![r] = @ + 1] /\ aborted' = aborted /\ completed' = completed
    BY <1>2 DEF DispatchRefused, reqVars
  <2>3. \A q \in Requests : ends'[q] = ends[q] + (IF q \in {r} THEN 1 ELSE 0)
    BY <2>1, <2>2
  <2>4. QED
    BY <1>2, <2>2, <2>3 DEF Outcome, Ends
<1>3. ASSUME NEW r \in Requests, Abort(r) PROVE Outcome({r}) /\ Ends(r)
  <2>1. Aborts(r) /\ completed' = completed /\ InFlight(r)
    BY <1>3 DEF Abort
  <2>2. Outcome({r}) /\ r \in aborted'
    BY <2>1, AbortsOutcome
  <2>3. QED
    BY <1>3, <2>1, <2>2 DEF Ends, InFlight
<1>4. (\E value \in Pipelinings : SetPipelining(value)) \/ Close \/ Destroy => Outcome({})
  BY Unended DEF SetPipelining, Close, Destroy, reqVars, histVars
<1>5. QED
  BY <1>1, <1>2, <1>3, <1>4 DEF UserStep

LEMMA FrameOutcome ==
  ASSUME TypeOK, FrameStep
  PROVE  Outcome({}) \/ \E r \in Requests : Outcome({r}) /\ Ends(r)
<1>1. CallbackReturns \/ CheckEmpty \/ DestroyEnd \/ DestroyCallback
      \/ Resume \/ LoopDestroyed \/ LoopClosed \/ LoopContext \/ LoopBusy
      \/ LoopDrain \/ PickNothing \/ PickAborted \/ PickRename \/ PickConnect
      => UNCHANGED <<aborted, completed, ends>>
  BY DEF CallbackReturns, CheckEmpty, DestroyEnd, DestroyCallback,
     Resume, LoopDestroyed, LoopClosed, LoopContext, LoopBusy, LoopDrain,
     PickNothing, PickAborted, PickRename, PickConnect, reqVars, histVars
<1>2. WriteHead \/ Advance \/ Splice \/ Exit \/ FailAltname \/ AbortSocket
      \/ EndBody \/ AfterHeaders \/ AfterEnd \/ UpgradeCall \/ CloseEnd
      => UNCHANGED <<aborted, completed, ends>>
  BY DEF WriteHead, Advance, Splice, Exit, FailAltname, AbortSocket, EndBody,
     AfterHeaders, AfterEnd, UpgradeCall, CloseEnd, reqVars, histVars
<1>3. ASSUME FailNext PROVE Outcome({}) \/ \E r \in Requests : Outcome({r}) /\ Ends(r)
  <2>1. stack # <<>> /\ Top.reqs # <<>> /\ completed' = completed
    BY <1>3 DEF FailNext, At
  <2>2. Head(Top.reqs) \in Slots
    BY <2>1, TypeParts, TopType
  <2>3. CASE ErrorSkips(Head(Top.reqs))
    <3>1. UNCHANGED <<aborted, completed, ends>>
      BY <1>3, <2>1, <2>3 DEF FailNext
    <3>2. QED
      BY <3>1, Unended
  <2>4. CASE ~ErrorSkips(Head(Top.reqs))
    <3>1. PICK r \in Requests : r = Head(Top.reqs) /\ r \notin aborted
      BY <2>2, <2>4 DEF ErrorSkips, Slots
    <3>2. Aborts(r)
      BY <1>3, <2>4, <3>1 DEF FailNext
    <3>3. Outcome({r}) /\ r \in aborted'
      BY <2>1, <3>2, AbortsOutcome
    <3>4. QED
      BY <1>3, <2>1, <3>1, <3>3 DEF Ends
  <2>5. QED
    BY <2>3, <2>4
<1>4. ASSUME PickWrite PROVE Outcome({}) \/ \E r \in Requests : Outcome({r}) /\ Ends(r)
  <2>1. completed' = completed /\ PendingHead # Null /\ PendingHead \notin aborted
    BY <1>4 DEF PickWrite, HasCandidate
  <2>2. PICK r \in Requests : r = PendingHead
    BY <2>1, TypeParts DEF Slots
  <2>3. UNCHANGED <<aborted, ends>> \/ Aborts(r)
    BY <1>4, <2>2 DEF PickWrite
  <2>4. CASE UNCHANGED <<aborted, ends>>
    BY <2>1, <2>4, Unended
  <2>5. CASE Aborts(r)
    <3>1. Outcome({r}) /\ r \in aborted'
      BY <2>1, <2>5, AbortsOutcome
    <3>2. QED
      BY <1>4, <2>1, <2>2, <3>1 DEF Ends
  <2>6. QED
    BY <2>3, <2>4, <2>5
<1>5. ASSUME WriterFail PROVE Outcome({}) \/ \E r \in Requests : Outcome({r}) /\ Ends(r)
  <2>1. completed' = completed
    BY <1>5 DEF WriterFail
  <2>2. \/ UNCHANGED <<aborted, ends>>
        \/ /\ Running > 0 /\ RunningHead # Null /\ InFlight(RunningHead)
           /\ Aborts(RunningHead)
    BY <1>5 DEF WriterFail
  <2>3. CASE UNCHANGED <<aborted, ends>>
    BY <2>1, <2>3, Unended
  <2>4. CASE /\ Running > 0 /\ RunningHead # Null /\ InFlight(RunningHead)
             /\ Aborts(RunningHead)
    <3>1. PICK r \in Requests : r = RunningHead
      BY <2>4, TypeParts DEF Slots
    <3>2. Outcome({r}) /\ r \in aborted'
      BY <2>1, <2>4, <3>1, AbortsOutcome
    <3>3. QED
      BY <1>5, <2>4, <3>1, <3>2 DEF Ends, InFlight
  <2>5. QED
    BY <2>2, <2>3, <2>4
<1>6. ASSUME Complete PROVE Outcome({}) \/ \E r \in Requests : Outcome({r}) /\ Ends(r)
  <2>1. aborted' = aborted
    BY <1>6 DEF Complete
  <2>2. \/ UNCHANGED <<completed, ends>>
        \/ /\ Running > 0 /\ RunningHead # Null /\ InFlight(RunningHead)
           /\ completed' = completed \cup {RunningHead}
           /\ ends' = [ends EXCEPT ![RunningHead] = @ + 1]
    <3>1. CASE ~Live /\ (~sock.midBody \/ sock.keep)
      BY <1>6, <3>1 DEF Complete
    <3>2. CASE /\ ~(~Live /\ (~sock.midBody \/ sock.keep))
               /\ Running <= 0 \/ RunningHead = Null \/ ~InFlight(RunningHead)
      BY <1>6, <3>2 DEF Complete
    <3>3. CASE /\ ~(~Live /\ (~sock.midBody \/ sock.keep))
               /\ ~(Running <= 0 \/ RunningHead = Null \/ ~InFlight(RunningHead))
      <4>1. /\ completed' = completed \cup {RunningHead}
            /\ ends' = [ends EXCEPT ![RunningHead] = @ + 1]
        BY <1>6, <3>3 DEF Complete
      <4>2. Running > 0
        BY <3>3, TypeParts
      <4>3. QED
        BY <3>3, <4>1, <4>2
    <3>4. QED
      BY <3>1, <3>2, <3>3
  <2>3. CASE UNCHANGED <<completed, ends>>
    BY <2>1, <2>3, Unended
  <2>4. CASE /\ Running > 0 /\ RunningHead # Null /\ InFlight(RunningHead)
             /\ completed' = completed \cup {RunningHead}
             /\ ends' = [ends EXCEPT ![RunningHead] = @ + 1]
    <3>1. PICK r \in Requests : r = RunningHead
      BY <2>4, TypeParts DEF Slots
    <3>2. ends \in [Requests -> Nat]
      BY DEF TypeOK
    <3>3. \A q \in Requests : ends'[q] = ends[q] + (IF q \in {r} THEN 1 ELSE 0)
      BY <2>4, <3>1, <3>2
    <3>4. QED
      BY <1>6, <2>1, <2>4, <3>1, <3>3 DEF Ends, InFlight, Outcome
  <2>5. QED
    BY <2>2, <2>3, <2>4
<1>7. ASSUME Upgraded PROVE Outcome({}) \/ \E r \in Requests : Outcome({r}) /\ Ends(r)
  <2>1. stack # <<>> /\ Top.at = "upgraded" /\ aborted' = aborted
    BY <1>7 DEF Upgraded, At
  <2>2. PICK r \in Requests : r = Top.reqs[1]
    BY <2>1, TypeParts, TopType, RequestLabelsAre
  <2>3. PICK done : /\ done = IF r \in aborted THEN {} ELSE {r}
                    /\ completed' = completed \cup done
                    /\ ends' = [q \in Requests |-> ends[q] + IF q \in done THEN 1 ELSE 0]
    BY <1>7, <2>2 DEF Upgraded
  <2>4. Outcome(done)
    BY <2>1, <2>3 DEF Outcome
  <2>5. CASE r \in aborted
    BY <2>3, <2>4, <2>5
  <2>6. CASE r \notin aborted
    BY <1>7, <2>2, <2>3, <2>4, <2>6 DEF Ends
  <2>7. QED
    BY <2>5, <2>6
<1>8. QED
  BY <1>1, <1>2, <1>3, <1>4, <1>5, <1>6, <1>7, Unended DEF FrameStep

LEMMA EventOutcome ==
  ASSUME TypeOK, Event
  PROVE  Outcome({}) /\ UNCHANGED <<dispatched, sent, aborted, completed, ends>>
<1>1. TaskStep \/ ImmediateResume => UNCHANGED <<dispatched, sent, aborted, completed, ends>>
  BY DEF TaskStep, TaskResume, TaskDrain, TaskClosed, TaskDestroyCallback, TaskDestroyed,
     ImmediateResume, reqVars, histVars
<1>2. Connector => UNCHANGED <<dispatched, sent, aborted, completed, ends>>
  BY DEF Connector, ConnectTooLate, ConnectOK, ConnectFail, reqVars, histVars
<1>3. Answer \/ ResponseResumed \/ BodyEnd \/ IdleValidated
        => UNCHANGED <<dispatched, sent, aborted, completed, ends>>
  BY DEF Answer, ResponseHead, ResponseEnd, ResponseUpgrade, HeadersTimeout, BodyTimeout,
     ResponseResumed, BodyEnd, IdleValidated, Destroys, reqVars, histVars
<1>4. Disturbance => UNCHANGED <<dispatched, sent, aborted, completed, ends>>
  BY DEF Disturbance, ResponseData, KeepAliveTimeout, SocketEnd, SocketReset, BadBytes,
     BodyError, QueuedBodyError, Destroys, reqVars, histVars
<1>5. SocketError \/ SocketClose => UNCHANGED <<dispatched, sent, aborted, completed, ends>>
  BY DEF SocketError, SocketClose, reqVars, histVars
<1>6. QED
  BY <1>1, <1>2, <1>3, <1>4, <1>5, Unended DEF Event

LEMMA NextOutcome ==
  ASSUME TypeOK, Next
  PROVE  Outcome({}) \/ \E r \in Requests : Outcome({r}) /\ Ends(r)
<1>1. UserStep \/ FrameStep \/ Event
  BY DEF Next, Event
<1>2. QED
  BY <1>1, UserOutcome, FrameOutcome, EventOutcome

\* An outcome is final, and an aborted request has one.
LEMMA EndedGrows ==
  ASSUME TypeOK, Next
  PROVE  /\ Ended \subseteq Ended'
         /\ aborted' \subseteq aborted \cup Ended'
         /\ completed' \subseteq completed \cup Ended'
<1>1. PICK rs : Outcome(rs)
  BY NextOutcome
<1>2. \A q \in Requests : ends[q] \in Nat
  BY DEF TypeOK
<1>3. \A q \in Requests : ends'[q] > 0 <=> ends[q] > 0 \/ q \in rs
  BY <1>1, <1>2 DEF Outcome
<1>4. TypeOK'
  BY TypeStep
<1>5. aborted' \subseteq Requests /\ completed' \subseteq Requests
  BY <1>4 DEF TypeOK
<1>6. QED
  BY <1>1, <1>3, <1>5 DEF Outcome, Ended

----------------------------------------------------------------------------
(* A frame gives up what it holds only with an outcome.                     *)

AbortedEnded == aborted \subseteq Ended

LEMMA AbortedEndedStep ==
  ASSUME TypeOK, AbortedEnded, Next
  PROVE  AbortedEnded'
BY EndedGrows DEF AbortedEnded

LEMMA HolderAlone ==
  ASSUME TypeOK, Next, stack # <<>>, Top.at \in Holders
  PROVE  FailNext \/ UpgradeCall \/ Upgraded
<1>1. ~UserStep
  <2>1. Top.at \notin Callbacks
    BY DEF Holders, Callbacks
  <2>2. \A op : ~UserMay(op)
    <3> TAKE op
    <3>1. UserMay(op) => <<Top.at, op>> \in (Callbacks \cup {"top"}) \X Operations
      BY EnvironmentAssumption DEF UserMay
    <3>2. Top.at # "top"
      BY DEF Holders
    <3>3. QED
      BY <2>1, <3>1, <3>2
  <2>3. QED
    BY <2>2 DEF UserStep, Dispatch, DispatchRefused, Abort, SetPipelining, Close, Destroy
<1>2. ~Event
  BY EventPushes
<1>3. FrameStep
  BY <1>1, <1>2 DEF Next, Event
<1>4. ~CallbackReturns
  BY DEF CallbackReturns, Callbacks, Holders
<1>5. ~(\/ CheckEmpty \/ DestroyEnd \/ DestroyCallback \/ Resume \/ LoopDestroyed
        \/ LoopClosed \/ LoopContext \/ LoopBusy \/ LoopDrain \/ PickNothing
        \/ PickAborted \/ PickRename \/ PickConnect \/ PickWrite \/ WriteHead)
  BY DEF CheckEmpty, DestroyEnd, DestroyCallback, Resume, LoopDestroyed, LoopClosed,
     LoopContext, LoopBusy, LoopDrain, PickNothing, PickAborted, PickRename,
     PickConnect, PickWrite, WriteHead, At, Holders
<1>6. ~(\/ Advance \/ Splice \/ Exit \/ FailAltname \/ AbortSocket \/ EndBody
        \/ WriterFail \/ AfterHeaders \/ Complete \/ AfterEnd \/ CloseEnd)
  BY DEF Advance, Splice, Exit, FailAltname, AbortSocket, EndBody, WriterFail,
     AfterHeaders, Complete, AfterEnd, CloseEnd, At, Holders
<1>7. QED
  BY <1>3, <1>4, <1>5, <1>6 DEF FrameStep

\* What the frame of errorRequest holds: the next request and the rest.
LEMMA RangeTail ==
  ASSUME NEW q \in Seq(Slots), q # <<>>
  PROVE  /\ Tail(q) \in Seq(Slots) /\ Head(q) \in Slots
         /\ Range(q) = {Head(q)} \cup Range(Tail(q))
<1>1. /\ Head(q) = q[1] /\ Tail(q) \in Seq(Slots)
      /\ DOMAIN q = 1..Len(q) /\ Len(q) \in Nat \ {0}
      /\ DOMAIN Tail(q) = 1..(Len(q) - 1)
      /\ \A k \in 1..(Len(q) - 1) : Tail(q)[k] = q[k + 1]
      /\ Head(q) \in Slots
  BY EmptySeq, LenProperties, HeadTailProperties, ElementOfSeq
<1>2. Range(q) \subseteq {Head(q)} \cup Range(Tail(q))
  <2> SUFFICES ASSUME NEW k \in 1..Len(q), k # 1 PROVE q[k] \in Range(Tail(q))
    BY <1>1 DEF Range
  <2>1. k - 1 \in 1..(Len(q) - 1) /\ (k - 1) + 1 = k
    BY <1>1
  <2>2. Tail(q)[k - 1] = q[k]
    BY <1>1, <2>1
  <2>3. QED
    BY <1>1, <2>1, <2>2 DEF Range
<1>3. Range(Tail(q)) \subseteq Range(q)
  <2>1. \A k \in 1..(Len(q) - 1) : k + 1 \in 1..Len(q)
    BY <1>1
  <2>2. QED
    BY <1>1, <2>1 DEF Range
<1>4. Head(q) \in Range(q)
  <2>1. 1 \in DOMAIN q
    BY <1>1
  <2>2. QED
    BY <1>1, <2>1 DEF Range
<1>5. QED
  BY <1>1, <1>2, <1>3, <1>4

\* The frames at "upgradeCall" and "upgraded" hold one request.
LEMMA RangeOne ==
  ASSUME NEW f \in Frames, f.at \in RequestLabels
  PROVE  Range(f.reqs) = {f.reqs[1]} /\ f.reqs[1] \in Requests /\ f.reqs = <<f.reqs[1]>>
<1>1. PICK r \in Requests : f.reqs = <<r>>
  BY DEF Frames
<1>2. DOMAIN <<r>> = {1} /\ <<r>>[1] = r
  OBVIOUS
<1>3. QED
  BY <1>1, <1>2 DEF Range

LEMMA FailNextHeld ==
  ASSUME TypeOK, FailNext
  PROVE  /\ stack # <<>> /\ Top.at = "fail" /\ Held(stack) = Range(Top.reqs) \cup Held(Caller)
         /\ Range(Top.reqs) = {Head(Top.reqs)} \cup Range(Tail(Top.reqs))
         /\ Held(stack') = Range(Tail(Top.reqs)) \cup Held(Caller)
<1> DEFINE rest == Fail(Tail(Top.reqs))
           err == <<Frame("error", <<Head(Top.reqs)>>)>>
<1>1. /\ stack \in Seq(Frames) /\ stack # <<>> /\ Top.at = "fail" /\ Caller \in Seq(Frames)
      /\ Top.reqs \in Seq(Slots) /\ Top.reqs # <<>>
  <2>1. stack # <<>> /\ Top.at = "fail" /\ Top.reqs # <<>>
    BY DEF FailNext, At
  <2>2. QED
    BY <2>1, TypeParts, TopType
<1>2. /\ Tail(Top.reqs) \in Seq(Slots) /\ Head(Top.reqs) \in Slots
      /\ Range(Top.reqs) = {Head(Top.reqs)} \cup Range(Tail(Top.reqs))
  BY <1>1, RangeTail
<1>3. Held(stack) = Range(Top.reqs) \cup Held(Caller)
  BY <1>1, HeldTop DEF Holders
<1>4. rest \in Seq(Frames) /\ Held(rest) = Range(Tail(Top.reqs))
  BY <1>2, HeldFail
<1>5. CASE ErrorSkips(Head(Top.reqs))
  <2>1. stack' = rest \o Caller
    BY <1>5 DEF FailNext, Become
  <2> HIDE DEF rest
  <2>2. QED
    BY <1>1, <1>2, <1>3, <1>4, <2>1, HeldCat
<1>6. CASE ~ErrorSkips(Head(Top.reqs))
  <2>1. stack' = (err \o rest) \o Caller
    BY <1>6 DEF FailNext, Become
  <2>2. Head(Top.reqs) \in Requests
    BY <1>2, <1>6 DEF ErrorSkips, Slots
  <2>3. Frame("error", <<Head(Top.reqs)>>) \in Frames
        /\ Frame("error", <<Head(Top.reqs)>>).at = "error"
    BY <2>2, Labelled, RequestLabelsAre
  <2>4. err \in Seq(Frames) /\ Held(err) = {}
    BY <2>3, HeldOne DEF Holders
  <2> HIDE DEF rest, err
  <2>5. err \o rest \in Seq(Frames) /\ Held(err \o rest) = Held(rest)
    <3>1. err \o rest \in Seq(Frames) /\ Held(err \o rest) = Held(err) \cup Held(rest)
      BY <1>4, <2>4, HeldCat
    <3>2. QED
      BY <2>4, <3>1
  <2>6. QED
    BY <1>1, <1>2, <1>3, <1>4, <2>1, <2>5, HeldCat
<1>7. QED
  BY <1>5, <1>6

LEMMA UpgradeCallHeld ==
  ASSUME TypeOK, UpgradeCall
  PROVE  /\ stack # <<>> /\ Top.at = "upgradeCall" /\ Top.reqs[1] \in Requests
         /\ Held(stack) = {Top.reqs[1]} \cup Held(Caller)
         /\ \/ Top.reqs[1] \in aborted /\ Held(stack') = Held(Caller)
            \/ Held(stack') = Held(stack)
<1>1. /\ stack \in Seq(Frames) /\ stack # <<>> /\ Top.at = "upgradeCall"
      /\ Caller \in Seq(Frames) /\ Top \in Frames
  <2>1. stack # <<>> /\ Top.at = "upgradeCall"
    BY DEF UpgradeCall, At
  <2>2. QED
    BY <2>1, TypeParts, TopType
<1>2. PICK r \in Requests : r = Top.reqs[1] /\ Range(Top.reqs) = {r}
  BY <1>1, RangeOne, RequestLabelsAre
<1>3. Held(stack) = {r} \cup Held(Caller)
  BY <1>1, <1>2, HeldTop DEF Holders
<1>4. CASE r \in aborted
  <2>1. stack' = Caller
    BY <1>2, <1>4 DEF UpgradeCall
  <2>2. QED
    BY <1>1, <1>2, <1>3, <1>4, <2>1
<1>5. CASE r \notin aborted
  <2> DEFINE f == Frame("upgrade", <<r>>)
             g == Frame("upgraded", <<r>>)
  <2>1. stack' = <<f, g>> \o Caller
    BY <1>2, <1>5 DEF UpgradeCall, Become
  <2>2. /\ f \in Frames /\ f.at = "upgrade"
        /\ g \in Frames /\ g.at = "upgraded" /\ g.reqs = <<r>>
    BY Labelled, RequestLabelsAre DEF Frame
  <2>3. Range(<<r>>) = {r}
    BY <2>2, RangeOne, RequestLabelsAre
  <2> HIDE DEF f, g
  <2>4. <<f, g>> = <<f>> \o <<g>>
    BY <2>2, CatFew
  <2>5. /\ <<f>> \in Seq(Frames) /\ Held(<<f>>) = {}
        /\ <<g>> \in Seq(Frames) /\ Held(<<g>>) = {r}
    BY <2>2, <2>3, HeldOne DEF Holders
  <2>6. <<f, g>> \in Seq(Frames) /\ Held(<<f, g>>) = {r}
    BY <2>4, <2>5, HeldCat
  <2>7. Held(stack') = {r} \cup Held(Caller)
    BY <1>1, <2>1, <2>6, HeldCat
  <2>8. QED
    BY <1>1, <1>2, <1>3, <2>7
<1>6. QED
  BY <1>4, <1>5

LEMMA UpgradedHeld ==
  ASSUME TypeOK, Upgraded
  PROVE  /\ stack # <<>> /\ Top.at = "upgraded" /\ Top.reqs[1] \in Requests
         /\ Held(stack) = {Top.reqs[1]} \cup Held(Caller) /\ Held(stack') = Held(Caller)
         /\ Top.reqs[1] \in aborted \/ ends'[Top.reqs[1]] = ends[Top.reqs[1]] + 1
<1>1. /\ stack \in Seq(Frames) /\ stack # <<>> /\ Top.at = "upgraded"
      /\ Caller \in Seq(Frames) /\ Top \in Frames
  <2>1. stack # <<>> /\ Top.at = "upgraded"
    BY DEF Upgraded, At
  <2>2. QED
    BY <2>1, TypeParts, TopType
<1>2. PICK r \in Requests : r = Top.reqs[1] /\ Range(Top.reqs) = {r}
  BY <1>1, RangeOne, RequestLabelsAre
<1>3. Held(stack) = {r} \cup Held(Caller)
  BY <1>1, <1>2, HeldTop DEF Holders
<1>4. stack' = Caller
  BY DEF Upgraded
<1>5. r \in aborted \/ ends'[r] = ends[r] + 1
  BY <1>2 DEF Upgraded
<1>6. QED
  BY <1>1, <1>2, <1>3, <1>4, <1>5

LEMMA HeldMoves ==
  ASSUME TypeOK, AbortedEnded, Next
  PROVE  Held(stack) \subseteq Held(stack') \cup Ended' \cup {Null}
<1>1. Ended \subseteq Ended' /\ aborted \subseteq Ended
  BY EndedGrows DEF AbortedEnded
<1>2. PICK S, t : Pushes(S, t)
  BY NextPushes
<1>3. PICK fs : stack' = fs \o t /\ Pile(fs, S)
  BY <1>2 DEF Pushes, Moves
<1>4. fs \in Seq(Frames) /\ t \in Seq(Frames)
  BY <1>2, <1>3, PushesOn DEF Pile
<1>5. Held(stack') = Held(fs) \cup Held(t)
  BY <1>3, <1>4, HeldCat
<1>6. stack \in Seq(Frames)
  BY TypeParts
<1>7. CASE t = stack
  BY <1>5, <1>7
<1>8. CASE t # stack /\ Top.at \notin Holders
  <2>1. stack # <<>> /\ t = Caller
    BY <1>2, <1>8, PushesOn
  <2>2. Held(stack) = Held(Caller)
    BY <1>6, <1>8, <2>1, HeldTop
  <2>3. QED
    BY <1>5, <2>1, <2>2
<1>9. CASE t # stack /\ Top.at \in Holders
  <2>1. stack # <<>>
    BY <1>2, <1>9, PushesOn
  <2>2. FailNext \/ UpgradeCall \/ Upgraded
    BY <1>9, <2>1, HolderAlone
  <2>3. CASE FailNext
    <3>1. /\ Held(stack) = {Head(Top.reqs)} \cup Range(Tail(Top.reqs)) \cup Held(Caller)
          /\ Held(stack') = Range(Tail(Top.reqs)) \cup Held(Caller)
      BY <2>3, FailNextHeld
    <3>2. Head(Top.reqs) \in Ended' \cup {Null}
      <4>1. CASE ErrorSkips(Head(Top.reqs))
        BY <1>1, <4>1 DEF ErrorSkips
      <4>2. CASE ~ErrorSkips(Head(Top.reqs))
        <5>1. Aborts(Head(Top.reqs))
          BY <2>3, <4>2 DEF FailNext
        <5>2. Head(Top.reqs) \in aborted' /\ Head(Top.reqs) \notin aborted
          BY <4>2, <5>1 DEF Aborts, ErrorSkips
        <5>3. aborted' \subseteq Ended'
          BY AbortedEndedStep DEF AbortedEnded
        <5>4. QED
          BY <5>2, <5>3
      <4>3. QED
        BY <4>1, <4>2
    <3>3. QED
      BY <3>1, <3>2
  <2>4. CASE UpgradeCall
    BY <1>1, <2>4, UpgradeCallHeld
  <2>5. CASE Upgraded
    <3>1. Top.reqs[1] \in Requests /\ ends[Top.reqs[1]] \in Nat
      BY <2>5, UpgradedHeld DEF TypeOK
    <3>2. Top.reqs[1] \in Ended'
      BY <1>1, <2>5, <3>1, UpgradedHeld DEF Ended
    <3>3. QED
      BY <2>5, <3>2, UpgradedHeld
  <2>6. QED
    BY <2>2, <2>3, <2>4, <2>5
<1>10. QED
  BY <1>7, <1>8, <1>9

----------------------------------------------------------------------------
(* What leaves the queue without an outcome is held by a frame.             *)

LEMMA FullLeft ==
  ASSUME TypeOK, runningIdx <= Len(queue),
         queue' = Upto(queue, runningIdx) \o From(queue, runningIdx),
         runningIdx' = runningIdx
  PROVE  queue' = queue
<1>1. /\ queue \in Seq(Slots) /\ Len(queue) \in Nat /\ runningIdx \in Nat
      /\ runningIdx \in Int
  BY TypeParts, LenProperties
<1> DEFINE u == Upto(queue, runningIdx)
           f == From(queue, runningIdx)
<1>2. u \in Seq(Slots) /\ f \in Seq(Slots)
  BY <1>1, SpliceTypes
<1>3. /\ Len(u) = runningIdx /\ \A k \in 1..runningIdx : u[k] = queue[k]
      /\ Len(f) = Len(queue) - runningIdx
      /\ \A k \in 1..(Len(queue) - runningIdx) : f[k] = queue[runningIdx + k]
  BY <1>1, SpliceElements
<1>4. queue' = u \o f
  OBVIOUS
<1> HIDE DEF u, f
<1>5. /\ u \o f \in Seq(Slots) /\ Len(u \o f) = Len(u) + Len(f)
      /\ \A k \in 1..(Len(u) + Len(f)) :
           (u \o f)[k] = IF k <= Len(u) THEN u[k] ELSE f[k - Len(u)]
  BY <1>2, ConcatProperties
<1>6. Len(queue') = Len(queue)
  BY <1>1, <1>3, <1>4, <1>5
<1>7. ASSUME NEW k \in 1..Len(queue) PROVE queue'[k] = queue[k]
  <2>1. CASE k <= runningIdx
    <3>1. k \in 1..(Len(u) + Len(f)) /\ k <= Len(u)
      BY <1>1, <1>3, <2>1
    <3>2. queue'[k] = u[k]
      BY <1>4, <1>5, <3>1
    <3>3. QED
      BY <1>1, <1>3, <2>1, <3>2
  <2>2. CASE k > runningIdx
    <3>1. k - runningIdx \in 1..(Len(queue) - runningIdx) /\ runningIdx + (k - runningIdx) = k
      BY <1>1, <2>2
    <3>2. f[k - runningIdx] = queue[k]
      BY <1>3, <3>1
    <3>3. queue'[k] = f[k - runningIdx]
      BY <1>1, <1>3, <1>4, <1>5, <2>2
    <3>4. QED
      BY <3>2, <3>3
  <2>3. k <= runningIdx \/ k > runningIdx
    BY <1>1
  <2>4. QED
    BY <2>1, <2>2, <2>3
<1>8. QED
  BY <1>1, <1>4, <1>5, <1>6, <1>7, SeqEqual

\* Everything that fails the queue first calls errorRequest for what it cuts.
LEMMA ErrorLeft ==
  ASSUME TypeOK, NEW e, NEW fs \in Seq(Frames), queue' = QueueAfterError(e),
         runningIdx' = runningIdx, stack' = Call(ErrorFrames(e) \o fs)
  PROVE  Queued \subseteq Queued' \cup Held(stack')
<1>1. CASE ~FailsQueue(e)
  BY <1>1, SameLeft DEF QueueAfterError
<1>2. CASE FailsQueue(e)
  <2> DEFINE cut == Fail(From(queue, runningIdx))
             tail == <<Do("checkEmpty")>>
  <2>1. /\ queue' = Upto(queue, runningIdx)
        /\ stack' = ((cut \o tail) \o fs) \o stack
    BY <1>2 DEF QueueAfterError, ErrorFrames, Call
  <2>2. stack \in Seq(Frames) /\ runningIdx \in Nat /\ runningIdx \in Int /\ queue \in Seq(Slots)
    BY TypeParts
  <2>3. Queued \subseteq Queued' \cup Range(From(queue, runningIdx))
    BY <2>1, <2>2, UptoLeft
  <2>4. cut \in Seq(Frames) /\ Held(cut) = Range(From(queue, runningIdx))
    BY <2>2, SpliceTypes, HeldFail
  <2>5. tail \in Seq(Frames)
    BY Labelled, PlainLabelsAre, FewFrames
  <2> HIDE DEF cut, tail
  <2>6. cut \o tail \in Seq(Frames) /\ Held(cut) \subseteq Held(cut \o tail)
    BY <2>4, <2>5, HeldCat
  <2>7. Held(cut \o tail) \subseteq Held(stack')
    BY <2>1, <2>2, <2>6, HeldFirst
  <2>8. QED
    BY <2>3, <2>4, <2>6, <2>7
<1>3. QED
  BY <1>1, <1>2

LEMMA SocketErrorsLeft ==
  ASSUME TypeOK, NEW s, NEW e, SocketErrors(s, e), runningIdx' = runningIdx
  PROVE  Queued \subseteq Queued' \cup Held(stack')
<1> DEFINE fs == IF s.writing THEN <<Do("writerFail")>> ELSE <<>>
<1>1. queue' = QueueAfterError(e) /\ stack' = Call(ErrorFrames(e) \o fs)
  BY DEF SocketErrors
<1>2. fs \in Seq(Frames)
  BY Labelled, PlainLabelsAre, FewFrames
<1> HIDE DEF fs
<1>3. QED
  BY <1>1, <1>2, ErrorLeft

LEMMA ConnectFailLeft ==
  ASSUME TypeOK, Core, broken = "none", NEW e, ConnectFail(e)
  PROVE  Queued \subseteq Queued' \cup Held(stack')
<1>1. stack = <<>> /\ connecting = "dialing" /\ ~destroyed /\ runningIdx' = runningIdx
  BY DEF ConnectFail, Quiet
<1>2. pendingIdx = runningIdx /\ runningIdx <= Len(queue)
  BY <1>1, DialingIsIdle DEF Core, Bounds
<1>3. CASE e = "altname"
  <2>1. queue' = Upto(queue, runningIdx) \o From(queue, runningIdx)
    BY <1>2, <1>3 DEF ConnectFail
  <2>2. QED
    BY <1>1, <1>2, <2>1, FullLeft, SameLeft
<1>4. CASE e # "altname"
  <2> DEFINE tail == <<Do("connectionError"), Do("resume")>>
  <2>1. queue' = QueueAfterError(e) /\ stack' = Call(ErrorFrames(e) \o tail)
    BY <1>4 DEF ConnectFail
  <2>2. tail \in Seq(Frames)
    BY Labelled, PlainLabelsAre, FewFrames
  <2> HIDE DEF tail
  <2>3. QED
    BY <1>1, <2>1, <2>2, ErrorLeft
<1>5. QED
  BY <1>3, <1>4

LEMMA SocketCloseLeft ==
  ASSUME TypeOK, SocketClose
  PROVE  Queued \subseteq Queued' \cup Held(stack')
<1> DEFINE failed == IF destroyed THEN From(queue, runningIdx)
                     ELSE IF FailsHead THEN <<RunningHead>> ELSE <<>>
           renames == IF "rename" \in sock.onClose THEN <<Do("resume")>> ELSE <<>>
           destroys == IF "destroy" \in sock.onClose THEN <<Do("destroyCallback")>> ELSE <<>>
           tail == (<<Do("closeEnd")>> \o renames) \o destroys
<1>0. /\ queue \in Seq(Slots) /\ runningIdx \in Nat /\ runningIdx \in Int
      /\ RunningHead \in Slots /\ stack \in Seq(Frames)
  BY TypeParts
<1>1. failed \in Seq(Slots)
  BY <1>0, SpliceTypes
<1>2. /\ <<Do("closeEnd")>> \in Seq(Frames) /\ renames \in Seq(Frames)
      /\ destroys \in Seq(Frames)
  BY Labelled, PlainLabelsAre, FewFrames
<1>3. stack' = ((((Fail(failed) \o <<Do("closeEnd")>>) \o renames) \o destroys)) \o stack
  BY DEF SocketClose, Call
<1>4. Fail(failed) \in Seq(Frames) /\ Held(Fail(failed)) = Range(failed)
  BY <1>1, HeldFail
<1> HIDE DEF renames, destroys
<1>5. Range(failed) \subseteq Held(stack')
  <2> HIDE DEF failed
  <2>1. /\ Fail(failed) \o <<Do("closeEnd")>> \in Seq(Frames)
        /\ Range(failed) \subseteq Held(Fail(failed) \o <<Do("closeEnd")>>)
    <3>1. /\ Fail(failed) \o <<Do("closeEnd")>> \in Seq(Frames)
          /\ Held(Fail(failed) \o <<Do("closeEnd")>>)
               = Held(Fail(failed)) \cup Held(<<Do("closeEnd")>>)
      BY <1>2, <1>4, HeldCat
    <3>2. QED
      BY <1>4, <3>1
  <2>2. /\ (Fail(failed) \o <<Do("closeEnd")>>) \o renames \in Seq(Frames)
        /\ Range(failed) \subseteq Held((Fail(failed) \o <<Do("closeEnd")>>) \o renames)
    BY <1>2, <2>1, HeldCat
  <2>3. QED
    BY <1>0, <1>2, <1>3, <2>2, HeldFirst
<1>6. CASE destroyed
  <2>1. queue' = Upto(queue, runningIdx) /\ runningIdx' = runningIdx
    BY <1>6 DEF SocketClose, FailsHead
  <2>2. Queued \subseteq Queued' \cup Range(failed)
    BY <1>0, <1>6, <2>1, UptoLeft
  <2>3. QED
    BY <1>5, <2>2
<1>7. CASE FailsHead
  <2>1. /\ ~destroyed /\ queue' = [queue EXCEPT ![runningIdx + 1] = Null]
        /\ runningIdx' = runningIdx + 1
    BY <1>7 DEF SocketClose, FailsHead
  <2>2. Queued \subseteq Queued' \cup {RunningHead}
    BY <2>1, HeadLeft
  <2>3. RunningHead \in Range(failed)
    <3>1. failed = <<RunningHead>> /\ 1 \in DOMAIN <<RunningHead>>
      BY <1>7, <2>1
    <3>2. QED
      BY <3>1 DEF Range
  <2>4. QED
    BY <1>5, <2>2, <2>3
<1>8. CASE ~destroyed /\ ~FailsHead
  BY <1>8, SameLeft DEF SocketClose
<1>9. QED
  BY <1>6, <1>7, <1>8

\* A response that is being ended has its request ended already.
Leaves == "afterEnd" \in On(stack) => RunningHead \in Ended \cup {Null}

\* The request write() is about is the first pending one, unless destroy() has
\* cut it off.
Writing ==
  \A i \in DOMAIN stack : stack[i].at = "write" =>
    PendingHead = stack[i].reqs[1] \/ (destroyed /\ PendingHead = Null)

\* A call of errorRequest for r comes before splice() goes on.
Doomed(s, r) ==
  \A i \in DOMAIN s : s[i].at = "splice" =>
    \E j \in 1..(i - 1) : s[j].at = "fail" /\ r \in Range(s[j].reqs)

\* So is the request splice() takes out, which has ended or is about to.
Splicing ==
  "splice" \in On(stack) =>
    \/ PendingHead = Null /\ destroyed
    \/ PendingHead \in Ended
    \/ PendingHead # Null /\ Doomed(stack, PendingHead)

LEMMA DestroyLeft ==
  ASSUME TypeOK, Core, BeginDestroy, runningIdx' = runningIdx
  PROVE  Queued \subseteq Queued' \cup Held(stack')
<1> DEFINE cut == Fail(From(queue, pendingIdx))
           tail == <<Do("destroyEnd")>>
<1>1. /\ stack \in Seq(Frames) /\ pendingIdx \in Nat /\ pendingIdx \in Int
      /\ queue \in Seq(Slots)
  BY TypeParts DEF Core, Bounds
<1>2. queue' = Upto(queue, pendingIdx) /\ stack' = (cut \o tail) \o stack
  BY DEF BeginDestroy, Call
<1>3. Queued \subseteq Queued' \cup Range(From(queue, pendingIdx))
  BY <1>1, <1>2, UptoLeft
<1>4. cut \in Seq(Frames) /\ Held(cut) = Range(From(queue, pendingIdx))
  BY <1>1, SpliceTypes, HeldFail
<1>5. tail \in Seq(Frames)
  BY Labelled, PlainLabelsAre, FewFrames
<1> HIDE DEF cut, tail
<1>6. Held(cut) \subseteq Held(stack')
  BY <1>1, <1>2, <1>4, <1>5, HeldFirst
<1>7. QED
  BY <1>3, <1>4, <1>6

LEMMA FailAltnameLeft ==
  ASSUME TypeOK, Core, FailAltname
  PROVE  Queued \subseteq Queued' \cup Held(stack')
<1>1. /\ runningIdx' = runningIdx /\ runningIdx <= pendingIdx /\ PendingHead \in Slots
      /\ stack \in Seq(Frames)
  BY TypeParts DEF FailAltname, Core, Bounds
<1>2. CASE Pending > 0 /\ Opt[PendingHead].name = serverName
  <2> DEFINE cut == Fail(<<PendingHead>>)
  <2>1. queue' = WithoutAt(queue, pendingIdx) /\ stack' = cut \o stack
    BY <1>2 DEF FailAltname, Call
  <2>2. Queued \subseteq Queued' \cup {PendingHead}
    BY <1>1, <2>1, WithoutLeft
  <2>3. cut \in Seq(Frames) /\ Held(cut) = Range(<<PendingHead>>)
    <3>1. <<PendingHead>> \in Seq(Slots)
      BY <1>1
    <3>2. QED
      BY <3>1, HeldFail
  <2>4. PendingHead \in Range(<<PendingHead>>)
    <3>1. 1 \in DOMAIN <<PendingHead>> /\ <<PendingHead>>[1] = PendingHead
      OBVIOUS
    <3>2. QED
      BY <3>1 DEF Range
  <2> HIDE DEF cut
  <2>5. Held(cut) \subseteq Held(stack')
    BY <1>1, <2>1, <2>3, HeldCat
  <2>6. QED
    BY <2>2, <2>3, <2>4, <2>5
<1>3. CASE ~(Pending > 0 /\ Opt[PendingHead].name = serverName)
  BY <1>1, <1>3, SameLeft DEF FailAltname
<1>4. QED
  BY <1>2, <1>3

LEMMA UpgradeLeft ==
  ASSUME TypeOK, ResponseUpgrade
  PROVE  Queued \subseteq Queued' \cup Held(stack')
<1>1. /\ queue' = [queue EXCEPT ![runningIdx + 1] = Null] /\ runningIdx' = runningIdx + 1
      /\ RunningHead # Null /\ stack \in Seq(Frames)
      /\ stack' = <<Do("disconnect"), Frame("upgradeCall", <<RunningHead>>),
                    Do("resume")>> \o stack
  BY TypeParts DEF ResponseUpgrade, Call
<1>2. PICK r \in Requests : r = RunningHead
  BY <1>1, TypeParts DEF Slots
<1> DEFINE f == Do("disconnect")
           g == Frame("upgradeCall", <<r>>)
           h == Do("resume")
<1>3. /\ f \in Frames /\ h \in Frames
      /\ g \in Frames /\ g.at = "upgradeCall" /\ g.reqs = <<r>>
  BY Labelled, PlainLabelsAre, RequestLabelsAre DEF Frame
<1>4. Range(<<r>>) = {r}
  BY <1>3, RangeOne, RequestLabelsAre
<1>5. stack' = <<f, g, h>> \o stack
  BY <1>1, <1>2
<1> HIDE DEF f, g, h
<1>6. <<f, g, h>> \in Seq(Frames) /\ r \in Held(<<f, g, h>>)
  <2>1. <<f, g, h>> \in Seq(Frames) /\ 2 \in DOMAIN <<f, g, h>> /\ <<f, g, h>>[2] = g
    BY <1>3, FewFrames
  <2>2. r \in Slots
    BY DEF Slots
  <2>3. QED
    BY <1>3, <1>4, <2>1, <2>2 DEF Held, Holders
<1>7. r \in Held(stack')
  BY <1>1, <1>5, <1>6, HeldCat
<1>8. Queued \subseteq Queued' \cup {RunningHead}
  BY <1>1, HeadLeft
<1>9. QED
  BY <1>2, <1>7, <1>8

\* The request splice() takes out of the queue has ended.
LEMMA SpliceTop ==
  ASSUME TypeOK, Splicing, Splice
  PROVE  PendingHead \in Ended \cup {Null}
<1>1. stack \in Seq(Frames) /\ stack # <<>> /\ Top.at = "splice"
  BY TypeParts DEF Splice, At
<1>2. 1 \in DOMAIN stack /\ stack[1] = Top
  BY <1>1, EmptySeq, LenProperties, HeadTailProperties DEF Top
<1>3. 1..(1 - 1) = {}
  OBVIOUS
<1>4. "splice" \in On(stack)
  BY <1>1, OnTop
<1>5. ~Doomed(stack, PendingHead)
  BY <1>1, <1>2, <1>3 DEF Doomed
<1>6. QED
  BY <1>4, <1>5 DEF Splicing

LEMMA QueueLeft ==
  ASSUME TypeOK, Core, AbortedEnded, Leaves, Splicing, Next
  PROVE  Queued \subseteq Queued' \cup Held(stack') \cup Ended \cup {Null}
<1>1. broken = "none" /\ runningIdx <= pendingIdx /\ runningIdx <= Len(queue)
  BY DEF Next, Core, Bounds
<1>2. CASE UNCHANGED qVars \/ Advance \/ CloseEnd
  <2>1. queue' = queue /\ runningIdx' = runningIdx
    BY <1>2 DEF qVars, Advance, CloseEnd
  <2>2. QED
    BY <2>1, SameLeft
<1>3. CASE BeginDestroy /\ runningIdx' = runningIdx /\ pendingIdx' = pendingIdx
  BY <1>3, DestroyLeft
<1>4. CASE \E r \in Requests : Dispatch(r)
  <2>1. PICK r \in Requests : queue' = Append(queue, r) /\ runningIdx' = runningIdx
    BY <1>4 DEF Dispatch
  <2>2. QED
    BY <1>1, <2>1, AppendLeft
<1>5. CASE PickAborted \/ Splice
  <2>1. /\ queue' = WithoutAt(queue, pendingIdx) /\ runningIdx' = runningIdx
        /\ PendingHead \in Ended \cup {Null}
    <3>1. CASE PickAborted
      BY <3>1 DEF PickAborted, AbortedEnded
    <3>2. CASE Splice
      BY <3>2, SpliceTop DEF Splice
    <3>3. QED
      BY <1>5, <3>1, <3>2
  <2>2. QED
    BY <1>1, <2>1, WithoutLeft
<1>6. CASE Exit
  <2>1. Compact \/ UNCHANGED qVars
    BY <1>6 DEF Exit
  <2>2. QED
    BY <2>1, CompactLeft, SameLeft DEF qVars
<1>7. CASE FailAltname
  BY <1>7, FailAltnameLeft
<1>8. CASE AfterEnd
  <2>1. /\ queue' = [queue EXCEPT ![runningIdx + 1] = Null] /\ runningIdx' = runningIdx + 1
        /\ stack # <<>> /\ Top.at = "afterEnd"
    BY <1>8 DEF AfterEnd, At
  <2>2. "afterEnd" \in On(stack)
    BY <2>1, TypeParts, OnTop
  <2>3. QED
    BY <2>1, <2>2, HeadLeft DEF Leaves
<1>9. CASE ResponseUpgrade
  BY <1>9, UpgradeLeft
<1>10. CASE SocketError
  <2>1. SocketErrors(sock, sock.err) /\ runningIdx' = runningIdx
    BY <1>10 DEF SocketError
  <2>2. QED
    BY <2>1, SocketErrorsLeft
<1>11. CASE SocketReset
  <2>1. /\ runningIdx' = runningIdx
        /\ SocketErrors([sock EXCEPT !.paused = FALSE], "other") \/ queue' = queue
    BY <1>11 DEF SocketReset
  <2>2. QED
    BY <2>1, SocketErrorsLeft, SameLeft
<1>12. CASE SocketClose
  BY <1>12, SocketCloseLeft
<1>13. CASE \E e : ConnectFail(e)
  BY <1>1, <1>13, ConnectFailLeft
<1>14. QED
  BY <1>2, <1>3, <1>4, <1>5, <1>6, <1>7, <1>8, <1>9, <1>10, <1>11, <1>12, <1>13, QueueChanges

----------------------------------------------------------------------------
(* The request the loop is about is the first pending one.                  *)

LEMMA DoomedCat ==
  ASSUME NEW fs \in Seq(Frames), "splice" \notin On(fs), NEW t \in Seq(Frames), NEW r,
         \/ Doomed(t, r)
         \/ \E k \in DOMAIN fs : fs[k].at = "fail" /\ r \in Range(fs[k].reqs)
  PROVE  Doomed(fs \o t, r)
<1> SUFFICES ASSUME NEW i \in DOMAIN (fs \o t), (fs \o t)[i].at = "splice"
             PROVE  \E j \in 1..(i - 1) :
                      (fs \o t)[j].at = "fail" /\ r \in Range((fs \o t)[j].reqs)
  BY DEF Doomed
<1>1. /\ Len(fs) \in Nat /\ Len(t) \in Nat
      /\ DOMAIN fs = 1..Len(fs) /\ DOMAIN t = 1..Len(t)
      /\ DOMAIN (fs \o t) = 1..(Len(fs) + Len(t))
      /\ \A k \in 1..Len(fs) : (fs \o t)[k] = fs[k]
      /\ \A k \in 1..Len(t) : (fs \o t)[Len(fs) + k] = t[k]
  BY CatElements
<1>2. i > Len(fs)
  <2>1. i \in DOMAIN fs => fs[i].at # "splice"
    BY DEF On
  <2>2. QED
    BY <1>1, <2>1
<1>3. PICK k \in 1..Len(t) : i = Len(fs) + k
  <2>1. i - Len(fs) \in 1..Len(t) /\ i = Len(fs) + (i - Len(fs))
    BY <1>1, <1>2
  <2>2. QED
    BY <2>1
<1>4. t[k].at = "splice"
  BY <1>1, <1>3
<1>5. CASE Doomed(t, r)
  <2>1. PICK j \in 1..(k - 1) : t[j].at = "fail" /\ r \in Range(t[j].reqs)
    BY <1>1, <1>4, <1>5 DEF Doomed
  <2>2. Len(fs) + j \in 1..(i - 1) /\ (fs \o t)[Len(fs) + j] = t[j]
    BY <1>1, <1>3
  <2>3. QED
    BY <2>1, <2>2
<1>6. CASE \E n \in DOMAIN fs : fs[n].at = "fail" /\ r \in Range(fs[n].reqs)
  <2>1. PICK n \in DOMAIN fs : fs[n].at = "fail" /\ r \in Range(fs[n].reqs)
    BY <1>6
  <2>2. n \in 1..(i - 1) /\ (fs \o t)[n] = fs[n]
    BY <1>1, <1>2
  <2>3. QED
    BY <2>1, <2>2
<1>7. QED
  BY <1>5, <1>6

LEMMA DoomedCaller ==
  ASSUME stack \in Seq(Frames), stack # <<>>, NEW r, Doomed(stack, r),
         Top.at # "fail" \/ r \notin Range(Top.reqs)
  PROVE  Doomed(Caller, r)
<1> SUFFICES ASSUME NEW i \in DOMAIN Caller, Caller[i].at = "splice"
             PROVE  \E j \in 1..(i - 1) :
                      Caller[j].at = "fail" /\ r \in Range(Caller[j].reqs)
  BY DEF Doomed
<1>1. /\ DOMAIN stack = 1..Len(stack) /\ Len(stack) \in Nat \ {0}
      /\ Top = stack[1] /\ DOMAIN Caller = 1..(Len(stack) - 1)
      /\ \A n \in 1..(Len(stack) - 1) : Caller[n] = stack[n + 1]
  BY EmptySeq, LenProperties, HeadTailProperties DEF Top, Caller
<1>2. i + 1 \in DOMAIN stack /\ stack[i + 1].at = "splice"
  BY <1>1
<1>3. PICK j \in 1..((i + 1) - 1) : stack[j].at = "fail" /\ r \in Range(stack[j].reqs)
  BY <1>2 DEF Doomed
<1>4. j # 1
  BY <1>1, <1>3
<1>5. j - 1 \in 1..(i - 1) /\ (j - 1) + 1 = j /\ j - 1 \in 1..(Len(stack) - 1)
  BY <1>1, <1>3, <1>4
<1>6. Caller[j - 1] = stack[j]
  BY <1>1, <1>5
<1>7. QED
  BY <1>3, <1>5, <1>6

\* While the loop is in splice(), only errorRequest and what it calls runs.
LEMMA SpliceStays ==
  ASSUME TypeOK, Nesting, Shape(stack), Next, "splice" \in On(stack'), ~PickWrite, ~WriteHead
  PROVE  /\ "splice" \in On(stack) /\ stack # <<>>
         /\ UserStep \/ CallbackReturns \/ FailNext \/ AbortSocket
<1>1. PICK S, t : Pushes(S, t)
  BY NextPushes
<1>2. "splice" \notin S
  BY <1>1 DEF Pushes, Listed
<1>3. "splice" \in On(t) /\ On(t) \subseteq On(stack)
  BY <1>1, <1>2, PushesOn
<1>4. stack # <<>>
  BY <1>3, OnFew
<1>5. ~Event
  BY <1>4, EventPushes
<1>6. UserStep \/ FrameStep
  BY <1>5 DEF Next, Event
<1>7. ASSUME ~UserStep, Top.at = "splice" PROVE FALSE
  <2>1. FrameStep
    BY <1>6, <1>7
  <2>2. Splice
    BY <1>7, <2>1 DEF FrameStep, CallbackReturns, FailNext, CheckEmpty, DestroyEnd,
       DestroyCallback, Resume, LoopDestroyed, LoopClosed, LoopContext, LoopBusy,
       LoopDrain, PickNothing, PickAborted, PickRename, PickConnect, PickWrite,
       WriteHead, Advance, Exit, FailAltname, AbortSocket, EndBody, WriterFail,
       AfterHeaders, Complete, AfterEnd, UpgradeCall, Upgraded, CloseEnd, At, Callbacks
  <2>3. Moves({"loop"}, Caller)
    BY <2>2, LoopStepMoves
  <2>4. On(Caller) \cap LoopLabels = {} /\ Caller \in Seq(Frames)
    BY <1>4, <1>7, LoopAtTop DEF LoopLabels
  <2>5. "splice" \notin {"loop"} \cup On(Caller)
    BY <2>4 DEF LoopLabels
  <2>6. QED
    BY <2>3, <2>4, <2>5, MovesOn
<1>8. ASSUME ~UserStep PROVE CallbackReturns \/ FailNext \/ AbortSocket
  <2>1. Top.at # "splice"
    BY <1>7, <1>8
  <2>2. "splice" \in On(Caller)
    BY <1>3, <1>4, <2>1, OnTop, TypeParts
  <2>3. Top.at \in {"fail", "error", "abortSocket"}
    BY <1>4, <2>2, ShapeTop
  <2>4. FrameStep
    BY <1>6, <1>8
  <2>5. QED
    BY <2>3, <2>4 DEF FrameStep, CheckEmpty, DestroyEnd, CallbackReturns,
       DestroyCallback, Resume, LoopDestroyed, LoopClosed, LoopContext, LoopBusy,
       LoopDrain, PickNothing, PickAborted, PickRename, PickConnect, PickWrite,
       WriteHead, Advance, Splice, Exit, FailAltname, EndBody, WriterFail,
       AfterHeaders, Complete, AfterEnd, UpgradeCall, Upgraded, CloseEnd, At, Callbacks
<1>9. QED
  BY <1>3, <1>4, <1>8

\* What user code and the ends of its calls do to the queue.
LEMMA InnerQueue ==
  ASSUME UserStep \/ CallbackReturns \/ FailNext \/ DestroyEnd \/ Resume \/ AbortSocket
  PROVE  \/ UNCHANGED qVars
         \/ BeginDestroy /\ runningIdx' = runningIdx /\ pendingIdx' = pendingIdx
         \/ \E r \in Requests : Dispatch(r)
<1>1. \A r \in Requests : DispatchRefused(r) \/ Abort(r) => UNCHANGED qVars
  BY DEF DispatchRefused, Abort
<1>2. (\E value \in Pipelinings : SetPipelining(value)) \/ Close => UNCHANGED qVars
  BY DEF SetPipelining, Close
<1>3. Destroy => BeginDestroy /\ runningIdx' = runningIdx /\ pendingIdx' = pendingIdx
  BY DEF Destroy
<1>4. CallbackReturns \/ FailNext \/ DestroyEnd \/ Resume \/ AbortSocket => UNCHANGED qVars
  BY DEF CallbackReturns, FailNext, DestroyEnd, Resume, AbortSocket
<1>5. QED
  BY <1>1, <1>2, <1>3, <1>4 DEF UserStep

LEMMA PendingStays ==
  ASSUME TypeOK, Core,
         \/ UNCHANGED qVars
         \/ BeginDestroy /\ runningIdx' = runningIdx /\ pendingIdx' = pendingIdx
         \/ \E r \in Requests : Dispatch(r)
  PROVE  \/ PendingHead' = PendingHead
         \/ PendingHead' = Null /\ destroyed'
         \/ PendingHead = Null /\ ~destroyed
<1>1. /\ queue \in Seq(Slots) /\ Len(queue) \in Nat /\ pendingIdx \in Nat
  BY TypeParts, LenProperties DEF Core, Bounds
<1>2. CASE UNCHANGED qVars
  BY <1>2 DEF qVars, PendingHead
<1>3. CASE BeginDestroy /\ pendingIdx' = pendingIdx
  <2>1. destroyed' /\ queue' = Upto(queue, pendingIdx)
    BY <1>3 DEF BeginDestroy
  <2>2. queue' \in Seq(Slots) /\ Len(queue') \in Nat /\ Len(queue') <= pendingIdx
    <3>1. Upto(queue, pendingIdx) \in Seq(Slots)
      <4>1. pendingIdx \in Int
        BY <1>1
      <4>2. QED
        BY <1>1, <4>1, SpliceTypes
    <3>2. CASE pendingIdx <= Len(queue)
      BY <1>1, <2>1, <3>1, <3>2, SpliceElements
    <3>3. CASE pendingIdx > Len(queue)
      <4>1. queue' = queue
        BY <1>1, <2>1, <3>3, SpliceElements
      <4>2. QED
        BY <1>1, <3>3, <4>1
    <3>4. QED
      BY <1>1, <3>2, <3>3
  <2>3. pendingIdx' + 1 \notin DOMAIN queue'
    <3>1. DOMAIN queue' = 1..Len(queue')
      BY <2>2, LenProperties
    <3>2. QED
      BY <1>1, <1>3, <2>2, <3>1
  <2>4. PendingHead' = Null
    BY <2>3 DEF PendingHead, Slot
  <2>5. QED
    BY <2>1, <2>4
<1>4. CASE \E r \in Requests : Dispatch(r)
  <2>1. ~destroyed
    BY <1>4 DEF Dispatch
  <2>2. CASE PendingHead # Null
    <3>1. Pending > 0
      <4>1. pendingIdx \in Int
        BY <1>1
      <4>2. pendingIdx + 1 \in 1..Len(queue)
        BY <1>1, <2>2, <4>1, SlotType DEF PendingHead
      <4>3. QED
        BY <1>1, <4>2 DEF Pending
    <3>2. QED
      BY <1>4, <2>2, <3>1, HeadStays
  <2>3. QED
    BY <2>1, <2>2
<1>5. QED
  BY <1>2, <1>3, <1>4

LEMMA WritingStep ==
  ASSUME TypeOK, Nesting, Shape(stack), Core, Writing, Next
  PROVE  Writing'
<1>1. destroyed => destroyed'
  BY NextEffects DEF Effects
<1>2. CASE PickWrite
  <2>1. PendingHead' = PendingHead
    BY <1>2 DEF PickWrite, qVars, PendingHead
  <2>2. QED
    BY <1>2, <2>1, PickWriteOn DEF Writing
<1>3. CASE "write" \notin On(stack')
  BY <1>3 DEF On, Writing
<1>4. CASE ~PickWrite /\ "write" \in On(stack')
  <2> SUFFICES ASSUME NEW i \in DOMAIN stack', stack'[i].at = "write"
               PROVE  PendingHead' = stack'[i].reqs[1] \/ (destroyed' /\ PendingHead' = Null)
    BY DEF Writing
  <2>1. /\ \E j \in DOMAIN stack : stack[j] = stack'[i]
        /\ UserStep \/ CallbackReturns \/ FailNext \/ DestroyEnd \/ Resume \/ AbortSocket
    BY <1>4, WriteStays
  <2>2. PICK j \in DOMAIN stack : stack[j] = stack'[i]
    BY <2>1
  <2>3. PendingHead = stack'[i].reqs[1] \/ (destroyed /\ PendingHead = Null)
    BY <2>2 DEF Writing
  <2>4. stack'[i].reqs[1] # Null
    <3>1. stack[j] \in Frames
      BY TypeParts, LenProperties, ElementOfSeq
    <3>2. stack'[i].reqs[1] \in Requests
      BY <2>2, <3>1, FrameFields, RequestLabelsAre
    <3>3. QED
      BY <3>2, NullAssumption
  <2>5. \/ PendingHead' = PendingHead
        \/ PendingHead' = Null /\ destroyed'
        \/ PendingHead = Null /\ ~destroyed
    BY <2>1, InnerQueue, PendingStays
  <2>6. QED
    BY <1>1, <2>3, <2>4, <2>5
<1>5. QED
  BY <1>2, <1>3, <1>4

\* The frame of errorRequest dooms what it holds.
LEMMA DoomedFail ==
  ASSUME NEW gs \in Seq(Frames), "splice" \notin On(gs),
         NEW rs \in Seq(Slots), NEW r \in Range(rs), NEW t \in Seq(Frames)
  PROVE  Doomed((gs \o Fail(rs)) \o t, r)
<1>1. rs # <<>>
  BY EmptySeq DEF Range
<1>2. /\ Fail(rs) = <<Frame("fail", rs)>> /\ Frame("fail", rs) \in Frames
      /\ Frame("fail", rs).at = "fail" /\ Frame("fail", rs).reqs = rs
  BY <1>1, PlainLabelsAre, FrameTypes DEF Fail, Frame
<1>3. PICK fs : fs = gs \o Fail(rs)
  OBVIOUS
<1>4. Fail(rs) \in Seq(Frames) /\ On(Fail(rs)) \subseteq {"fail"}
  BY OnFail
<1>5. fs \in Seq(Frames) /\ "splice" \notin On(fs)
  <2>1. fs \in Seq(Frames) /\ On(fs) = On(gs) \cup On(Fail(rs))
    BY <1>3, <1>4, OnCat, ConcatProperties
  <2>2. QED
    BY <1>4, <2>1
<1>6. \E k \in DOMAIN fs : fs[k].at = "fail" /\ r \in Range(fs[k].reqs)
  <2>1. Len(Fail(rs)) = 1 /\ Fail(rs)[1] = Frame("fail", rs)
    BY <1>2
  <2>2. /\ Len(gs) \in Nat
        /\ DOMAIN fs = 1..(Len(gs) + Len(Fail(rs)))
        /\ \A k \in 1..Len(Fail(rs)) : fs[Len(gs) + k] = Fail(rs)[k]
    BY <1>3, <1>4, CatElements
  <2>3. Len(gs) + 1 \in DOMAIN fs /\ fs[Len(gs) + 1] = Frame("fail", rs)
    BY <2>1, <2>2
  <2>4. QED
    BY <1>2, <2>3
<1>7. Doomed(fs \o t, r)
  BY <1>5, <1>6, DoomedCat
<1>8. QED
  BY <1>3, <1>7

\* A request that is doomed stays so until errorRequest has ended it.
LEMMA DoomedStays ==
  ASSUME TypeOK, Nesting, Shape(stack), AbortedEnded, Next, ~PickWrite, ~WriteHead,
         "splice" \in On(stack'), NEW r \in Requests, Doomed(stack, r)
  PROVE  Doomed(stack', r) \/ r \in Ended'
<1>1. stack \in Seq(Frames) /\ stack # <<>>
      /\ (UserStep \/ CallbackReturns \/ FailNext \/ AbortSocket)
  BY SpliceStays, TypeParts
<1>2. CASE Top.at = "fail" /\ r \in Range(Top.reqs)
  <2>1. FailNext
    BY <1>1, <1>2, HolderAlone DEF Holders, UpgradeCall, Upgraded, At
  <2>2. /\ Top.reqs \in Seq(Slots) /\ Caller \in Seq(Frames) /\ Top.reqs # <<>>
    BY <1>1, <2>1, TopType DEF FailNext
  <2>3. Tail(Top.reqs) \in Seq(Slots)
        /\ Range(Top.reqs) = {Head(Top.reqs)} \cup Range(Tail(Top.reqs))
    BY <2>2, RangeTail
  <2>4. CASE r = Head(Top.reqs)
    <3>1. CASE ErrorSkips(r)
      <4>1. r \in Ended
        BY <3>1, NullAssumption DEF ErrorSkips, AbortedEnded
      <4>2. QED
        BY <4>1, EndedGrows
    <3>2. CASE ~ErrorSkips(r)
      <4>1. Aborts(r) /\ completed' = completed
        BY <2>1, <2>4, <3>2 DEF FailNext
      <4>2. Outcome({r})
        BY <4>1, AbortsOutcome
      <4>3. ends'[r] = ends[r] + 1 /\ ends[r] \in Nat
        BY <4>2 DEF Outcome, TypeOK
      <4>4. QED
        BY <4>3 DEF Ended
    <3>3. QED
      BY <3>1, <3>2
  <2>5. CASE r \in Range(Tail(Top.reqs))
    <3> DEFINE gs == IF ErrorSkips(Head(Top.reqs)) THEN <<>>
                     ELSE <<Frame("error", <<Head(Top.reqs)>>)>>
    <3>1. gs \in Seq(Frames) /\ "splice" \notin On(gs)
      <4>1. CASE ErrorSkips(Head(Top.reqs))
        BY <4>1, FewFrames, OnFew
      <4>2. CASE ~ErrorSkips(Head(Top.reqs))
        <5>1. Head(Top.reqs) \in Requests
          BY <2>2, <4>2, RangeTail DEF ErrorSkips, Slots
        <5>2. /\ Frame("error", <<Head(Top.reqs)>>) \in Frames
              /\ Frame("error", <<Head(Top.reqs)>>).at = "error"
          BY <5>1, Labelled, RequestLabelsAre
        <5>3. QED
          BY <4>2, <5>2, FewFrames, OnFew
      <4>3. QED
        BY <4>1, <4>2
    <3>2. stack' = (gs \o Fail(Tail(Top.reqs))) \o Caller
      <4>1. Fail(Tail(Top.reqs)) \in Seq(Frames)
        BY <2>3, OnFail
      <4>2. <<>> \o Fail(Tail(Top.reqs)) = Fail(Tail(Top.reqs))
        BY <4>1, ConcatEmptySeq
      <4>3. QED
        BY <2>1, <4>2 DEF FailNext, Become
    <3> HIDE DEF gs
    <3>3. QED
      BY <2>2, <2>3, <2>5, <3>1, <3>2, DoomedFail
  <2>6. QED
    BY <1>2, <2>3, <2>4, <2>5
<1>3. CASE ~(Top.at = "fail" /\ r \in Range(Top.reqs))
  <2>1. PICK S, t : Pushes(S, t)
    BY NextPushes
  <2>2. PICK fs : stack' = fs \o t /\ Pile(fs, S)
    BY <2>1 DEF Pushes, Moves
  <2>3. fs \in Seq(Frames) /\ "splice" \notin On(fs)
    BY <2>1, <2>2 DEF Pushes, Listed, Pile
  <2>4. t \in Seq(Frames) /\ (t = stack \/ t = Caller)
    BY <2>1, PushesOn
  <2>5. Doomed(t, r)
    <3>1. Doomed(Caller, r)
      BY <1>1, <1>3, DoomedCaller
    <3>2. QED
      BY <2>4, <3>1
  <2>6. QED
    BY <2>2, <2>3, <2>4, <2>5, DoomedCat
<1>4. QED
  BY <1>2, <1>3

\* write() begins with an outcome for its request, or dooms it.
LEMMA PickSplicing ==
  ASSUME TypeOK, Nesting, Shape(stack), PickWrite
  PROVE  Splicing'
<1>1. stack # <<>> /\ Top.at \in LoopLabels
  BY DEF PickWrite, At, LoopLabels
<1>2. stack \in Seq(Frames) /\ Caller \in Seq(Frames) /\ "splice" \notin On(Caller)
  BY <1>1, LoopAtTop DEF LoopLabels
<1>3. PendingHead \in Requests /\ PendingHead' = PendingHead
  BY PickWriteOn DEF PickWrite, qVars, PendingHead
<1> DEFINE r == PendingHead
           splice == Moved("splice", <<>>)
<1>4. CASE Opt[r].body = "mismatch"
  <2>1. stack' = (Fail(<<r>>) \o <<splice>>) \o Caller
    BY <1>4 DEF PickWrite, Become
  <2>2. splice \in Frames /\ splice.at = "splice" /\ <<splice>> \in Seq(Frames)
    BY <1>1, <1>2, PlainLabelsAre, MovedLoop DEF Moved
  <2>3. <<r>> \in Seq(Slots) /\ Fail(<<r>>) \in Seq(Frames)
    <3>1. <<r>> \in Seq(Slots)
      BY <1>3 DEF Slots
    <3>2. QED
      BY <3>1, OnFail
  <2>4. r \in Range(<<r>>)
    BY DEF Range
  <2> HIDE DEF r, splice
  <2>5. <<splice>> \o Caller \in Seq(Frames)
    BY <1>2, <2>2, ConcatProperties
  <2>6. stack' = (<<>> \o Fail(<<r>>)) \o (<<splice>> \o Caller)
    <3>1. stack' = Fail(<<r>>) \o (<<splice>> \o Caller)
      BY <1>2, <2>1, <2>2, <2>3, ConcatAssociative
    <3>2. <<>> \o Fail(<<r>>) = Fail(<<r>>)
      BY <2>3, ConcatEmptySeq
    <3>3. QED
      BY <3>1, <3>2
  <2>7. <<>> \in Seq(Frames) /\ "splice" \notin On(<<>>)
    BY FewFrames, OnFew
  <2>8. Doomed(stack', r)
    <3>1. PICK rest : rest = <<splice>> \o Caller
      OBVIOUS
    <3>2. rest \in Seq(Frames)
      BY <2>5, <3>1
    <3>3. Doomed((<<>> \o Fail(<<r>>)) \o rest, r)
      BY <2>3, <2>4, <2>7, <3>2, DoomedFail
    <3>4. QED
      BY <2>6, <3>1, <3>3
  <2>9. PendingHead' = r /\ r # Null
    BY <1>3, NullAssumption DEF r
  <2>10. Doomed(stack', PendingHead')
    BY <2>8, <2>9
  <2>11. QED
    BY <2>9, <2>10 DEF Splicing
<1>5. CASE Opt[r].body # "mismatch" /\ r \in bodyErr
  <2>1. Aborts(r) /\ completed' = completed
    BY <1>5 DEF PickWrite
  <2>2. Outcome({r})
    BY <1>3, <2>1, AbortsOutcome
  <2>3. ends'[r] = ends[r] + 1 /\ ends[r] \in Nat
    BY <1>3, <2>2 DEF Outcome, TypeOK
  <2>4. PendingHead' \in Ended'
    BY <1>3, <2>3 DEF Ended
  <2>5. QED
    BY <2>4 DEF Splicing
<1>6. CASE Opt[r].body # "mismatch" /\ r \notin bodyErr
  <2>1. stack' = <<Frame("start", <<r>>), Moved("write", <<r>>)>> \o Caller
    BY <1>6 DEF PickWrite, Become
  <2>2. /\ Moved("write", <<r>>) \in Frames /\ Moved("write", <<r>>).at = "write"
        /\ Frame("start", <<r>>) \in Frames /\ Frame("start", <<r>>).at = "start"
    <3>1. Moved("write", <<r>>) \in Frames /\ Moved("write", <<r>>).at = "write"
      BY <1>1, <1>2, <1>3, TopType, RequestLabelsAre DEF Moved, Frames
    <3>2. QED
      BY <1>3, <3>1, Labelled, RequestLabelsAre
  <2>3. /\ <<Frame("start", <<r>>), Moved("write", <<r>>)>> \in Seq(Frames)
        /\ "splice" \notin On(<<Frame("start", <<r>>), Moved("write", <<r>>)>>)
    BY <2>2, FewFrames, OnFew
  <2>4. On(stack') = On(<<Frame("start", <<r>>), Moved("write", <<r>>)>>) \cup On(Caller)
    BY <1>2, <2>1, <2>3, OnCat
  <2>5. QED
    BY <1>2, <2>3, <2>4 DEF Splicing
<1>7. QED
  BY <1>4, <1>5, <1>6

LEMMA WriteSplicing ==
  ASSUME TypeOK, Nesting, Shape(stack), AbortedEnded, Writing, Next, WriteHead
  PROVE  Splicing'
<1>1. stack \in Seq(Frames) /\ stack # <<>> /\ Top.at = "write"
  BY TypeParts DEF WriteHead, At
<1>2. Caller \in Seq(Frames) /\ "splice" \notin On(Caller)
  BY <1>1, LoopAtTop DEF LoopLabels
<1>3. CASE Top.reqs[1] \in aborted
  <2>1. 1 \in DOMAIN stack /\ stack[1] = Top
    BY <1>1, EmptySeq, LenProperties, HeadTailProperties DEF Top
  <2>2. PendingHead = Top.reqs[1] \/ (destroyed /\ PendingHead = Null)
    BY <1>1, <2>1 DEF Writing
  <2>3. PendingHead' = PendingHead /\ destroyed' = destroyed
    BY DEF WriteHead, qVars, PendingHead, lifeVars
  <2>4. Top.reqs[1] \in Ended'
    BY <1>3, EndedGrows DEF AbortedEnded
  <2>5. QED
    BY <2>2, <2>3, <2>4 DEF Splicing
<1>4. CASE Top.reqs[1] \notin aborted
  <2>1. Moves({"advance"}, Caller) \/ Moves({"sent", "advance"}, Caller)
    BY <1>4, WriteHeadMoves
  <2>2. "splice" \notin On(stack')
    <3>1. CASE Moves({"advance"}, Caller)
      BY <1>2, <3>1, MovesOn
    <3>2. CASE Moves({"sent", "advance"}, Caller)
      BY <1>2, <3>2, MovesOn
    <3>3. QED
      BY <2>1, <3>1, <3>2
  <2>3. QED
    BY <2>2 DEF Splicing
<1>5. QED
  BY <1>3, <1>4

LEMMA SplicingStep ==
  ASSUME TypeOK, Nesting, Shape(stack), Core, AbortedEnded, Writing, Splicing, Next
  PROVE  Splicing'
<1>1. CASE PickWrite
  BY <1>1, PickSplicing
<1>2. CASE WriteHead
  BY <1>2, WriteSplicing
<1>3. CASE "splice" \notin On(stack')
  BY <1>3 DEF Splicing
<1>4. CASE ~PickWrite /\ ~WriteHead /\ "splice" \in On(stack')
  <2>1. /\ "splice" \in On(stack)
        /\ UserStep \/ CallbackReturns \/ FailNext \/ AbortSocket
    BY <1>4, SpliceStays
  <2>2. \/ PendingHead' = PendingHead
        \/ PendingHead' = Null /\ destroyed'
        \/ PendingHead = Null /\ ~destroyed
    BY <2>1, InnerQueue, PendingStays
  <2>3. destroyed => destroyed'
    BY NextEffects DEF Effects
  <2>4. CASE PendingHead' = Null /\ destroyed'
    BY <2>4 DEF Splicing
  <2>5. CASE PendingHead' = PendingHead
    <3>1. CASE PendingHead = Null /\ destroyed
      BY <2>3, <2>5, <3>1 DEF Splicing
    <3>2. CASE PendingHead \in Ended
      BY <2>5, <3>2, EndedGrows DEF Splicing
    <3>3. CASE PendingHead # Null /\ Doomed(stack, PendingHead)
      <4>1. PendingHead \in Requests
        BY <3>3, TypeParts DEF Slots
      <4>2. Doomed(stack', PendingHead) \/ PendingHead \in Ended'
        BY <1>4, <3>3, <4>1, DoomedStays
      <4>3. Doomed(stack', PendingHead') \/ PendingHead' \in Ended'
        BY <2>5, <4>2
      <4>4. QED
        BY <2>5, <3>3, <4>3 DEF Splicing
    <3>4. QED
      BY <2>1, <3>1, <3>2, <3>3 DEF Splicing
  <2>6. CASE PendingHead = Null /\ ~destroyed
    <3>1. PendingHead \notin Ended
      BY <2>6, NullAssumption DEF Ended
    <3>2. QED
      BY <2>1, <2>6, <3>1 DEF Splicing
  <2>7. QED
    BY <2>2, <2>4, <2>5, <2>6
<1>5. QED
  BY <1>1, <1>2, <1>3, <1>4

----------------------------------------------------------------------------
(* The request that leaves the queue is the first running one.              *)

LEMMA RunningIs ==
  ASSUME queue' \in Seq(Slots), runningIdx' \in Nat,
         runningIdx \in Nat, queue \in Seq(Slots), runningIdx + 1 \in 1..Len(queue),
         \/ runningIdx' + 1 \in 1..Len(queue') /\ queue'[runningIdx' + 1] = queue[runningIdx + 1]
         \/ runningIdx' + 1 > Len(queue')
  PROVE  RunningHead' \in {RunningHead, Null}
<1>1. DOMAIN queue = 1..Len(queue) /\ DOMAIN queue' = 1..Len(queue') /\ Len(queue') \in Nat
  BY LenProperties
<1>2. RunningHead = queue[runningIdx + 1]
  BY <1>1 DEF RunningHead, Slot
<1>3. CASE runningIdx' + 1 > Len(queue')
  <2>1. runningIdx' + 1 \notin 1..Len(queue')
    <3>1. \A i, n \in Nat : i + 1 > n => i + 1 \notin 1..n
      OBVIOUS
    <3>2. QED
      BY <1>1, <1>3, <3>1, Zenon
  <2>2. runningIdx' + 1 \notin DOMAIN queue'
    BY <1>1, <2>1, Zenon
  <2>3. QED
    BY <2>2 DEF RunningHead, Slot
<1>4. CASE runningIdx' + 1 \in 1..Len(queue') /\ queue'[runningIdx' + 1] = queue[runningIdx + 1]
  <2>1. runningIdx' + 1 \in DOMAIN queue'
    BY <1>1, <1>4
  <2>2. RunningHead' = queue'[runningIdx' + 1]
    BY <2>1 DEF RunningHead, Slot
  <2>3. QED
    BY <1>2, <1>4, <2>2
<1>5. QED
  BY <1>3, <1>4

LEMMA RunningStays ==
  ASSUME TypeOK, runningIdx < pendingIdx, pendingIdx <= Len(queue), Next,
         \/ UNCHANGED qVars
         \/ BeginDestroy /\ runningIdx' = runningIdx
         \/ (\E r \in Requests : Dispatch(r))
         \/ PickAborted \/ Splice \/ Advance \/ Exit \/ FailAltname \/ CloseEnd
  PROVE  RunningHead' \in {RunningHead, Null}
<1>1. /\ queue \in Seq(Slots) /\ Len(queue) \in Nat
      /\ pendingIdx \in Nat /\ runningIdx \in Nat
  BY TypeParts, LenProperties
<1>2. queue' \in Seq(Slots) /\ runningIdx' \in Nat /\ Len(queue') \in Nat
  <2>1. TypeOK'
    BY TypeStep
  <2>2. queue' \in Seq(Slots) /\ runningIdx' \in Nat
    BY <2>1 DEF TypeOK, Slots
  <2>3. QED
    BY <2>2, LenProperties
<1>3. runningIdx + 1 \in 1..Len(queue)
  BY <1>1
<1>4. CASE queue' = queue /\ runningIdx' = runningIdx
  BY <1>4 DEF RunningHead
<1>5. CASE UNCHANGED qVars \/ Advance \/ CloseEnd
  <2>1. queue' = queue /\ runningIdx' = runningIdx
    BY <1>5 DEF qVars, Advance, CloseEnd
  <2>2. QED
    BY <1>4, <2>1
<1>6. CASE queue' = Upto(queue, pendingIdx) /\ runningIdx' = runningIdx
  <2>1. Len(queue') = pendingIdx /\ \A k \in 1..pendingIdx : queue'[k] = queue[k]
    BY <1>1, <1>6, SpliceElements
  <2>2. runningIdx' + 1 \in 1..Len(queue') /\ queue'[runningIdx' + 1] = queue[runningIdx + 1]
    BY <1>1, <1>6, <2>1
  <2>3. QED
    BY <1>1, <1>2, <1>3, <2>2, RunningIs
<1>7. CASE BeginDestroy /\ runningIdx' = runningIdx
  BY <1>6, <1>7 DEF BeginDestroy
<1>8. CASE \E r \in Requests : Dispatch(r)
  <2>1. PICK r \in Requests : queue' = Append(queue, r) /\ runningIdx' = runningIdx
    BY <1>8 DEF Dispatch
  <2>2. r \in Slots
    BY DEF Slots
  <2>3. Len(queue') = Len(queue) + 1 /\ \A k \in 1..Len(queue) : queue'[k] = queue[k]
    BY <1>1, <2>1, <2>2, AppendProperties
  <2>4. runningIdx' + 1 \in 1..Len(queue') /\ queue'[runningIdx' + 1] = queue[runningIdx + 1]
    BY <1>1, <1>3, <2>1, <2>3
  <2>5. QED
    BY <1>1, <1>2, <1>3, <2>4, RunningIs
<1>9. CASE queue' = WithoutAt(queue, pendingIdx) /\ runningIdx' = runningIdx
  <2>1. runningIdx + 1 <= Len(queue') /\ queue'[runningIdx + 1] = queue[runningIdx + 1]
    <3>1. runningIdx + 1 <= pendingIdx
      BY <1>1
    <3>2. QED
      BY <1>1, <1>3, <1>9, <3>1, WithoutElements
  <2>2. runningIdx' + 1 \in 1..Len(queue') /\ queue'[runningIdx' + 1] = queue[runningIdx + 1]
    BY <1>1, <1>2, <1>9, <2>1
  <2>3. QED
    BY <1>1, <1>2, <1>3, <2>2, RunningIs
<1>10. CASE PickAborted \/ Splice \/ FailAltname
  <2>1. \/ queue' = WithoutAt(queue, pendingIdx) /\ runningIdx' = runningIdx
        \/ queue' = queue /\ runningIdx' = runningIdx
    BY <1>10 DEF PickAborted, Splice, FailAltname
  <2>2. QED
    BY <1>4, <1>9, <2>1
<1>11. CASE Exit
  <2>1. Compact \/ UNCHANGED qVars
    BY <1>11 DEF Exit
  <2>2. CASE Compact
    <3>1. queue' = From(queue, runningIdx) /\ runningIdx' = 0
      BY <2>2 DEF Compact
    <3>2. /\ Len(queue') = Len(queue) - runningIdx
          /\ \A k \in 1..(Len(queue) - runningIdx) : queue'[k] = queue[runningIdx + k]
      <4>1. runningIdx <= Len(queue)
        BY <1>1
      <4>2. QED
        BY <1>1, <3>1, <4>1, SpliceElements
    <3>3. 1 \in 1..(Len(queue) - runningIdx) /\ runningIdx' + 1 = 1
      BY <1>1, <1>3, <3>1
    <3>4. runningIdx' + 1 \in 1..Len(queue') /\ queue'[runningIdx' + 1] = queue[runningIdx + 1]
      BY <3>2, <3>3
    <3>5. QED
      BY <1>1, <1>2, <1>3, <3>4, RunningIs
  <2>3. QED
    BY <1>5, <2>1, <2>2
<1>12. QED
  BY <1>5, <1>7, <1>8, <1>10, <1>11

LEMMA CompleteLeaves ==
  ASSUME TypeOK, Nesting, Shape(stack), Next, Complete
  PROVE  "afterEnd" \in On(stack') =>
           RunningHead' = RunningHead /\ RunningHead \in Requests
           /\ ends'[RunningHead] > 0 /\ RunningHead \in completed'
<1>1. stack \in Seq(Frames) /\ stack # <<>> /\ Top.at = "complete"
  BY TypeParts DEF Complete, At
<1>2. "afterEnd" \notin On(Caller) /\ "afterEnd" \notin On(stack)
  BY <1>1, ShapeTop DEF Finishing
<1>3. CASE ~Live /\ (~sock.midBody \/ sock.keep)
  <2>1. stack' = Caller
    BY <1>3 DEF Complete
  <2>2. QED
    BY <1>2, <2>1
<1>4. CASE /\ ~(~Live /\ (~sock.midBody \/ sock.keep))
           /\ Running <= 0 \/ RunningHead = Null \/ ~InFlight(RunningHead)
  <2>1. stack' = stack
    BY <1>4 DEF Complete
  <2>2. QED
    BY <1>2, <2>1
<1>5. CASE /\ ~(~Live /\ (~sock.midBody \/ sock.keep))
           /\ ~(Running <= 0 \/ RunningHead = Null \/ ~InFlight(RunningHead))
  <2>1. /\ ends' = [ends EXCEPT ![RunningHead] = @ + 1]
        /\ completed' = completed \cup {RunningHead}
    BY <1>5 DEF Complete
  <2>2. RunningHead' = RunningHead
    BY DEF Complete, qVars, RunningHead
  <2>3. RunningHead \in Requests
    BY <1>5, TypeParts DEF Slots
  <2>4. ends'[RunningHead] = ends[RunningHead] + 1 /\ ends[RunningHead] \in Nat
    BY <2>1, <2>3 DEF TypeOK
  <2>5. QED
    BY <2>1, <2>2, <2>3, <2>4
<1>6. QED
  BY <1>3, <1>4, <1>5

LEMMA LeavesStep ==
  ASSUME TypeOK, Nesting, Shape(stack), Core, Leaves, Next
  PROVE  Leaves'
<1> SUFFICES ASSUME "afterEnd" \in On(stack') PROVE RunningHead' \in Ended' \cup {Null}
  BY DEF Leaves
<1>1. CASE Complete
  BY <1>1, CompleteLeaves DEF Ended
<1>2. CASE ~Complete
  <2>1. PICK S, t : Pushes(S, t)
    BY NextPushes
  <2>2. "afterEnd" \notin S
    BY <1>2, <2>1 DEF Pushes, Listed
  <2>3. "afterEnd" \in On(t) /\ On(t) \subseteq On(stack)
    BY <2>1, <2>2, PushesOn
  <2>4. stack # <<>> /\ "afterEnd" \in On(stack)
    BY <2>3, OnFew
  <2>5. RunningHead \in Ended \cup {Null}
    BY <2>4 DEF Leaves
  <2>6. runningIdx < pendingIdx /\ pendingIdx <= Len(queue)
    <3>1. sock.st # "none"
      BY <2>4 DEF Core, NoWire, OfSocket
    <3>2. pendingIdx <= Len(queue)
      BY <3>1 DEF Core, WireMatches, Bounds
    <3>3. Running > 0
      BY <2>4 DEF Core, EndRuns
    <3>4. QED
      BY <3>2, <3>3, TypeParts DEF Running
  <2>7. ~AfterEnd
    <3> SUFFICES ASSUME AfterEnd PROVE FALSE
      OBVIOUS
    <3>1. Top.at = "afterEnd"
      BY DEF AfterEnd, At
    <3>2. "afterEnd" \notin On(Caller) /\ Caller \in Seq(Frames)
      BY <2>4, <3>1, ShapeTop DEF Finishing
    <3>3. Moves({}, Caller) \/ Moves({"resume"}, Caller)
      BY SocketFrameMoves
    <3>4. "afterEnd" \notin On(stack')
      BY <3>2, <3>3, MovesOn
    <3>5. QED
      BY <3>4
  <2>8. ~(\/ ResponseUpgrade \/ SocketError \/ SocketReset \/ SocketClose
          \/ \E e : ConnectFail(e))
    BY <2>4 DEF ResponseUpgrade, SocketError, SocketReset, SocketClose, ConnectFail, Quiet
  <2>9. RunningHead' \in {RunningHead, Null}
    BY <2>6, <2>7, <2>8, QueueChanges, RunningStays
  <2>10. QED
    BY <2>5, <2>9, EndedGrows
<1>3. QED
  BY <1>1, <1>2

----------------------------------------------------------------------------
(* What is dispatched and what is sent.                                     *)

LEMMA NextHistory ==
  ASSUME TypeOK, Next
  PROVE  /\ \/ dispatched' = dispatched
            \/ \E r \in Requests : Dispatch(r) \/ DispatchRefused(r)
         /\ sent' = sent \/ WriteHead
<1>1. ASSUME UserStep
      PROVE  /\ \/ dispatched' = dispatched
                \/ \E r \in Requests : Dispatch(r) \/ DispatchRefused(r)
             /\ sent' = sent
  <2>1. ASSUME NEW r \in Requests, Dispatch(r) \/ DispatchRefused(r) \/ Abort(r)
        PROVE  /\ sent' = sent
               /\ dispatched' = dispatched \/ Dispatch(r) \/ DispatchRefused(r)
    BY <2>1 DEF Dispatch, DispatchRefused, Abort, histVars
  <2>2. (\E value \in Pipelinings : SetPipelining(value)) \/ Close \/ Destroy
          => UNCHANGED <<dispatched, sent>>
    BY DEF SetPipelining, Close, Destroy, histVars
  <2>3. QED
    BY <1>1, <2>1, <2>2 DEF UserStep
<1>2. FrameStep => dispatched' = dispatched /\ (sent' = sent \/ WriteHead)
  <2>1. CallbackReturns \/ FailNext \/ CheckEmpty \/ DestroyEnd \/ DestroyCallback
        \/ Resume \/ LoopDestroyed \/ LoopClosed \/ LoopContext \/ LoopBusy
          => UNCHANGED <<dispatched, sent>>
    BY DEF CallbackReturns, FailNext, CheckEmpty, DestroyEnd, DestroyCallback,
       Resume, LoopDestroyed, LoopClosed, LoopContext, LoopBusy, histVars
  <2>2. LoopDrain \/ PickNothing \/ PickAborted \/ PickRename \/ PickConnect
        \/ PickWrite \/ Advance \/ Splice \/ Exit \/ FailAltname
          => UNCHANGED <<dispatched, sent>>
    BY DEF LoopDrain, PickNothing, PickAborted, PickRename, PickConnect, PickWrite,
       Advance, Splice, Exit, FailAltname, histVars
  <2>3. AbortSocket \/ EndBody \/ WriterFail \/ AfterHeaders \/ Complete
        \/ AfterEnd \/ UpgradeCall \/ Upgraded \/ CloseEnd
          => UNCHANGED <<dispatched, sent>>
    BY DEF AbortSocket, EndBody, WriterFail, AfterHeaders, Complete, AfterEnd,
       UpgradeCall, Upgraded, CloseEnd, histVars
  <2>4. WriteHead => dispatched' = dispatched
    BY DEF WriteHead
  <2>5. QED
    BY <2>1, <2>2, <2>3, <2>4 DEF FrameStep
<1>3. Event => UNCHANGED <<dispatched, sent>>
  BY EventOutcome
<1>4. QED
  BY <1>1, <1>2, <1>3 DEF Next, Event

\* Every request is over, in the queue, or held by a frame that ends it.
Kept == \A r \in Range(dispatched) : r \in Ended \cup Queued \cup Held(stack)

LEMMA DispatchKept ==
  ASSUME TypeOK, Core, NEW r \in Requests, Dispatch(r) \/ DispatchRefused(r)
  PROVE  /\ Range(dispatched') = Range(dispatched) \cup {r} /\ r \notin Range(dispatched)
         /\ (Dispatch(r) /\ r \in Queued') \/ (DispatchRefused(r) /\ r \in Ended')
<1>1. dispatched \in Seq(Requests) /\ dispatched' = Append(dispatched, r)
      /\ r \notin Range(dispatched)
  BY DEF Dispatch, DispatchRefused, TypeOK
<1>2. Range(dispatched') = Range(dispatched) \cup {r}
  <2>1. /\ Len(dispatched) \in Nat /\ DOMAIN dispatched = 1..Len(dispatched)
        /\ dispatched' \in Seq(Requests) /\ Len(dispatched') = Len(dispatched) + 1
        /\ \A k \in 1..Len(dispatched) : dispatched'[k] = dispatched[k]
        /\ dispatched'[Len(dispatched) + 1] = r
    BY <1>1, AppendProperties, LenProperties
  <2>2. DOMAIN dispatched' = 1..(Len(dispatched) + 1)
    BY <2>1, LenProperties
  <2>3. Range(dispatched') \subseteq Range(dispatched) \cup {r}
    BY <2>1, <2>2 DEF Range
  <2>4. Range(dispatched) \subseteq Range(dispatched')
    BY <2>1, <2>2 DEF Range
  <2>5. r \in Range(dispatched')
    <3>1. Len(dispatched) + 1 \in DOMAIN dispatched'
      BY <2>1, <2>2
    <3>2. QED
      BY <2>1, <3>1 DEF Range
  <2>6. QED
    BY <2>3, <2>4, <2>5
<1>3. CASE Dispatch(r)
  <2>1. queue' = Append(queue, r) /\ runningIdx' = runningIdx
    BY <1>3 DEF Dispatch
  <2>2. Queued \cup {r} = Queued'
    BY <2>1, AppendLeft DEF Core, Bounds
  <2>3. QED
    BY <1>1, <1>2, <1>3, <2>2
<1>4. CASE DispatchRefused(r)
  <2>1. ends'[r] = ends[r] + 1 /\ ends[r] \in Nat
    BY <1>4 DEF DispatchRefused, TypeOK
  <2>2. QED
    BY <1>1, <1>2, <1>4, <2>1 DEF Ended
<1>5. QED
  BY <1>3, <1>4

LEMMA KeptStep ==
  ASSUME TypeOK, Core, AbortedEnded, Leaves, Splicing, Kept, Next
  PROVE  Kept'
<1>1. ASSUME NEW r \in Range(dispatched)
      PROVE  r \in Ended' \cup Queued' \cup Held(stack')
  <2>1. r \in Requests /\ r # Null
    <3>1. Range(dispatched) \subseteq Requests
      BY ElementOfSeq, LenProperties DEF TypeOK, Range
    <3>2. QED
      BY <3>1, NullAssumption
  <2>2. r \in Ended \cup Queued \cup Held(stack)
    BY DEF Kept
  <2>3. Ended \subseteq Ended'
    BY EndedGrows
  <2>4. Queued \subseteq Queued' \cup Held(stack') \cup Ended \cup {Null}
    BY QueueLeft
  <2>5. Held(stack) \subseteq Held(stack') \cup Ended' \cup {Null}
    BY HeldMoves
  <2>6. QED
    BY <2>1, <2>2, <2>3, <2>4, <2>5
<1>2. CASE dispatched' = dispatched
  BY <1>1, <1>2 DEF Kept
<1>3. CASE \E r \in Requests : Dispatch(r) \/ DispatchRefused(r)
  <2>1. PICK r \in Requests : Dispatch(r) \/ DispatchRefused(r)
    BY <1>3
  <2>2. Range(dispatched') = Range(dispatched) \cup {r} /\ r \in Queued' \cup Ended'
    BY <2>1, DispatchKept
  <2>3. QED
    BY <1>1, <2>2 DEF Kept
<1>4. QED
  BY <1>2, <1>3, NextHistory

----------------------------------------------------------------------------
(* The first theorem.                                                       *)

EndInv ==
  /\ ShareInv
  /\ Kept /\ AbortedEnded /\ Leaves /\ Writing /\ Splicing

LEMMA InitEnd == Init => EndInv
<1> SUFFICES ASSUME Init PROVE EndInv
  OBVIOUS
<1>1. ShareInv
  BY InitShare
<1>2. stack = <<>> /\ dispatched = <<>> /\ aborted = {}
  BY DEF Init
<1>3. On(stack) = {} /\ Range(dispatched) = {} /\ DOMAIN stack = {}
  BY <1>2, NothingOn DEF Range
<1>4. QED
  BY <1>1, <1>2, <1>3 DEF EndInv, Kept, AbortedEnded, Leaves, Writing, Splicing

LEMMA EndStep ==
  ASSUME CarefulUser, EndInv, [Next]_vars
  PROVE  EndInv'
<1>1. ShareInv /\ ShareInv'
  BY ShareStep DEF EndInv
<1>2. CASE Next
  <2>1. TypeOK /\ Nesting /\ Shape(stack) /\ Core
    BY DEF EndInv, ShareInv, WireInv
  <2>2. Kept' /\ AbortedEnded' /\ Leaves' /\ Writing' /\ Splicing'
    BY <1>2, <2>1, KeptStep, AbortedEndedStep, LeavesStep, WritingStep, SplicingStep
       DEF EndInv
  <2>3. QED
    BY <1>1, <2>2 DEF EndInv
<1>3. CASE UNCHANGED vars
  <2>1. UNCHANGED <<queue, runningIdx, pendingIdx, destroyed, stack, dispatched,
                    aborted, ends>>
    BY <1>3 DEF vars, qVars, lifeVars, reqVars, histVars
  <2>2. Ended' = Ended /\ Queued' = Queued
    BY <2>1 DEF Ended, Queued
  <2>3. PendingHead' = PendingHead /\ RunningHead' = RunningHead
    BY <2>1 DEF PendingHead, RunningHead
  <2>4. QED
    BY <1>1, <2>1, <2>2, <2>3 DEF EndInv, Kept, AbortedEnded, Leaves, Writing, Splicing
<1>4. QED
  BY <1>2, <1>3

LEMMA EndMeansKept ==
  ASSUME EndInv
  PROVE  NoRequestLost
<1> SUFFICES ASSUME stack = <<>>, NEW r \in Range(dispatched), ends[r] = 0
             PROVE  r \in Range(From(queue, runningIdx))
  BY DEF NoRequestLost, AtRest
<1>1. TypeOK
  BY DEF EndInv, ShareInv, WireInv
<1>2. r \notin Ended
  BY DEF Ended
<1>3. Held(stack) = {}
  BY FewFrames, OnFew, HeldNone
<1>4. r \in Queued
  BY <1>2, <1>3 DEF EndInv, Kept
<1>5. QED
  BY <1>1, <1>4, QueuedIs

(* No request is lost: between jobs every request that was dispatched and   *)
(* has no outcome is in the running or the pending part of the queue, where *)
(* the response, the connection's end or destroy() will find it; unless     *)
(* destroy() is called from within onResponseError or onRequestSent         *)
(* (CarefulUser), where a request can be left without an outcome.           *)
THEOREM NoneIsLost == CarefulUser /\ Spec => []NoRequestLost
<1> SUFFICES ASSUME CarefulUser PROVE Spec => []NoRequestLost
  OBVIOUS
<1>1. Init => EndInv
  BY InitEnd
<1>2. EndInv /\ [Next]_vars => EndInv'
  BY EndStep
<1>3. EndInv => NoRequestLost
  BY EndMeansKept
<1>4. QED
  BY <1>1, <1>2, <1>3, PTL DEF Spec

----------------------------------------------------------------------------
(* Where the slots of the queue come from.                                  *)

\* Every slot was there before, at a place at least as far from kRunningIdx.
Shifted(a, b, c) ==
  \A k \in (runningIdx' + 1)..Len(queue') :
    LET m == IF k <= a THEN k + b ELSE k + c
    IN /\ m \in (runningIdx + 1)..Len(queue) /\ queue'[k] \in {queue[m], Null}
       /\ m - runningIdx >= k - runningIdx'

Shifts == \E a \in Int, b, c \in Nat : b <= c /\ Shifted(a, b, c)

LEMMA ShiftBy ==
  ASSUME TypeOK, NEW d \in Nat,
         \A k \in (runningIdx' + 1)..Len(queue') :
           /\ k + d \in (runningIdx + 1)..Len(queue) /\ queue'[k] \in {queue[k + d], Null}
           /\ (k + d) - runningIdx >= k - runningIdx'
  PROVE  Shifts
<1>1. Shifted(0, d, d)
  BY DEF Shifted
<1>2. 0 \in Int /\ d <= d
  OBVIOUS
<1>3. QED
  BY <1>1, <1>2 DEF Shifts

LEMMA UptoShifts ==
  ASSUME TypeOK, NEW i \in Nat, queue' = Upto(queue, i), runningIdx' = runningIdx
  PROVE  Shifts
<1>1. queue \in Seq(Slots) /\ Len(queue) \in Nat /\ runningIdx \in Nat
  BY TypeParts, LenProperties
<1>2. /\ Len(queue') \in Nat /\ Len(queue') <= Len(queue)
      /\ \A k \in 1..Len(queue') : queue'[k] = queue[k]
  <2>1. CASE i <= Len(queue)
    BY <1>1, <2>1, SpliceElements
  <2>2. CASE i > Len(queue)
    BY <1>1, <2>2, SpliceElements
  <2>3. QED
    BY <1>1, <2>1, <2>2
<1>3. ASSUME NEW k \in (runningIdx' + 1)..Len(queue')
      PROVE  /\ k + 0 \in (runningIdx + 1)..Len(queue) /\ queue'[k] \in {queue[k + 0], Null}
             /\ (k + 0) - runningIdx >= k - runningIdx'
  <2>1. k \in 1..Len(queue') /\ k + 0 = k
    BY <1>1
  <2>2. queue'[k] = queue[k + 0]
    BY <1>2, <2>1
  <2>3. QED
    BY <1>1, <1>2, <2>1, <2>2
<1>4. QED
  BY <1>3, ShiftBy

LEMMA SameShifts ==
  ASSUME TypeOK, queue' = queue, runningIdx' = runningIdx
  PROVE  Shifts
<1>1. queue \in Seq(Slots) /\ Len(queue) \in Nat
  BY TypeParts, LenProperties
<1>2. Len(queue) >= Len(queue)
  BY <1>1
<1>3. Upto(queue, Len(queue)) = queue
  BY <1>1, <1>2, SpliceElements
<1>4. QED
  BY <1>1, <1>3, UptoShifts

LEMMA WithoutShifts ==
  ASSUME TypeOK, runningIdx <= pendingIdx, queue' = WithoutAt(queue, pendingIdx),
         runningIdx' = runningIdx
  PROVE  Shifts
<1>1. /\ queue \in Seq(Slots) /\ Len(queue) \in Nat /\ runningIdx \in Nat
      /\ pendingIdx \in Nat
  BY TypeParts, LenProperties
<1>2. CASE pendingIdx >= Len(queue)
  <2>1. queue' = queue
    BY <1>1, <1>2, WithoutElements
  <2>2. QED
    BY <2>1, SameShifts
<1>3. CASE pendingIdx < Len(queue)
  <2>1. Len(queue') = Len(queue) - 1
    BY <1>1, <1>3, WithoutElements
  <2>2. ASSUME NEW k \in (runningIdx' + 1)..Len(queue'), k <= pendingIdx
        PROVE  /\ k + 0 \in (runningIdx + 1)..Len(queue) /\ queue'[k] = queue[k + 0]
               /\ (k + 0) - runningIdx >= k - runningIdx'
    <3>1. k \in 1..Len(queue) /\ k + 0 = k
      BY <1>1, <2>1
    <3>2. queue'[k] = queue[k]
      BY <1>1, <2>2, <3>1, WithoutElements
    <3>3. QED
      BY <1>1, <2>1, <3>1, <3>2
  <2>3. ASSUME NEW k \in (runningIdx' + 1)..Len(queue'), k > pendingIdx
        PROVE  /\ k + 1 \in (runningIdx + 1)..Len(queue) /\ queue'[k] = queue[k + 1]
               /\ (k + 1) - runningIdx >= k - runningIdx'
    <3>1. k + 1 \in 1..Len(queue) /\ k + 1 > pendingIdx + 1 /\ (k + 1) - 1 = k
      BY <1>1, <2>1, <2>3
    <3>2. queue'[(k + 1) - 1] = queue[k + 1]
      BY <1>1, <3>1, WithoutElements
    <3>3. QED
      BY <1>1, <2>1, <3>1, <3>2
  <2>4. Shifted(pendingIdx, 0, 1)
    <3> SUFFICES ASSUME NEW k \in (runningIdx' + 1)..Len(queue')
                 PROVE  LET m == IF k <= pendingIdx THEN k + 0 ELSE k + 1
                        IN /\ m \in (runningIdx + 1)..Len(queue)
                           /\ queue'[k] \in {queue[m], Null}
                           /\ m - runningIdx >= k - runningIdx'
      BY DEF Shifted
    <3>1. CASE k <= pendingIdx
      BY <2>2, <3>1
    <3>2. CASE ~(k <= pendingIdx)
      <4>1. k > pendingIdx
        BY <1>1, <2>1, <3>2
      <4>2. QED
        BY <2>3, <3>2, <4>1
    <3>3. QED
      BY <3>1, <3>2
  <2>5. pendingIdx \in Int /\ 0 \in Nat /\ 1 \in Nat /\ 0 <= 1
    BY <1>1
  <2>6. QED
    BY <2>4, <2>5 DEF Shifts
<1>4. QED
  BY <1>1, <1>2, <1>3

LEMMA ClearShifts ==
  ASSUME TypeOK, queue' = [queue EXCEPT ![runningIdx + 1] = Null],
         runningIdx' = runningIdx + 1
  PROVE  Shifts
<1>1. queue \in Seq(Slots) /\ Len(queue) \in Nat /\ runningIdx \in Nat
      /\ DOMAIN queue = 1..Len(queue)
  BY TypeParts, LenProperties
<1>2. Null \in Slots
  BY DEF Slots
<1>3. queue' \in Seq(Slots) /\ Len(queue') = Len(queue)
      /\ \A k \in 1..Len(queue) : queue'[k] = IF k = runningIdx + 1 THEN Null ELSE queue[k]
  <2>1. CASE runningIdx + 1 \in 1..Len(queue)
    BY <1>1, <1>2, <2>1, ExceptSeq
  <2>2. CASE runningIdx + 1 \notin 1..Len(queue)
    <3>1. queue' = queue
      BY <1>1, <2>2, SeqEqual, LenProperties
    <3>2. QED
      BY <1>1, <2>2, <3>1
  <2>3. QED
    BY <2>1, <2>2
<1>4. ASSUME NEW k \in (runningIdx' + 1)..Len(queue')
      PROVE  /\ k + 0 \in (runningIdx + 1)..Len(queue) /\ queue'[k] \in {queue[k + 0], Null}
             /\ (k + 0) - runningIdx >= k - runningIdx'
  <2>1. k \in 1..Len(queue) /\ k # runningIdx + 1 /\ k + 0 = k
    BY <1>1, <1>3
  <2>2. queue'[k] = queue[k + 0]
    BY <1>3, <2>1
  <2>3. QED
    BY <1>1, <1>3, <2>1, <2>2
<1>5. QED
  BY <1>4, ShiftBy

LEMMA CompactShifts ==
  ASSUME TypeOK, runningIdx <= Len(queue), Compact
  PROVE  Shifts
<1>1. queue \in Seq(Slots) /\ Len(queue) \in Nat /\ runningIdx \in Nat
  BY TypeParts, LenProperties
<1>2. queue' = From(queue, runningIdx) /\ runningIdx' = 0
  BY DEF Compact
<1>3. /\ Len(queue') = Len(queue) - runningIdx
      /\ \A k \in 1..(Len(queue) - runningIdx) : queue'[k] = queue[runningIdx + k]
  BY <1>1, <1>2, SpliceElements
<1>4. ASSUME NEW k \in (runningIdx' + 1)..Len(queue')
      PROVE  /\ k + runningIdx \in (runningIdx + 1)..Len(queue)
             /\ queue'[k] \in {queue[k + runningIdx], Null}
             /\ (k + runningIdx) - runningIdx >= k - runningIdx'
  <2>1. k \in 1..(Len(queue) - runningIdx) /\ k + runningIdx = runningIdx + k
    BY <1>1, <1>2, <1>3
  <2>2. queue'[k] = queue[k + runningIdx]
    BY <1>3, <2>1
  <2>3. QED
    BY <1>1, <1>2, <1>3, <2>1, <2>2
<1>5. QED
  BY <1>1, <1>4, ShiftBy

LEMMA ErrorShifts ==
  ASSUME TypeOK, NEW e, queue' = QueueAfterError(e), runningIdx' = runningIdx
  PROVE  Shifts
<1>1. runningIdx \in Nat
  BY TypeParts
<1>2. QED
  BY <1>1, SameShifts, UptoShifts DEF QueueAfterError

\* A step adds at most one request to the queue, at its end.
LEMMA QueueComes ==
  ASSUME TypeOK, Core, Next
  PROVE  Shifts \/ \E r \in Requests : Dispatch(r)
<1>1. /\ broken = "none" /\ runningIdx <= pendingIdx /\ runningIdx <= Len(queue)
      /\ runningIdx \in Nat /\ pendingIdx \in Nat
  BY TypeParts DEF Next, Core, Bounds
<1>2. CASE UNCHANGED qVars \/ Advance \/ CloseEnd
  <2>1. queue' = queue /\ runningIdx' = runningIdx
    BY <1>2 DEF qVars, Advance, CloseEnd
  <2>2. QED
    BY <2>1, SameShifts
<1>3. CASE BeginDestroy /\ runningIdx' = runningIdx
  BY <1>1, <1>3, UptoShifts DEF BeginDestroy
<1>4. CASE PickAborted \/ Splice \/ FailAltname
  <2>1. /\ runningIdx' = runningIdx
        /\ queue' = WithoutAt(queue, pendingIdx) \/ queue' = queue
    BY <1>4 DEF PickAborted, Splice, FailAltname
  <2>2. QED
    BY <1>1, <2>1, WithoutShifts, SameShifts
<1>5. CASE Exit
  <2>1. Compact \/ (queue' = queue /\ runningIdx' = runningIdx)
    BY <1>5 DEF Exit, qVars
  <2>2. QED
    BY <1>1, <2>1, CompactShifts, SameShifts
<1>6. CASE AfterEnd \/ ResponseUpgrade
  <2>1. queue' = [queue EXCEPT ![runningIdx + 1] = Null] /\ runningIdx' = runningIdx + 1
    BY <1>6 DEF AfterEnd, ResponseUpgrade
  <2>2. QED
    BY <2>1, ClearShifts
<1>7. CASE SocketError \/ SocketReset
  <2>1. /\ runningIdx' = runningIdx
        /\ queue' = queue \/ \E e : queue' = QueueAfterError(e)
    BY <1>7 DEF SocketError, SocketReset, SocketErrors
  <2>2. QED
    BY <2>1, SameShifts, ErrorShifts
<1>8. CASE SocketClose
  <2>1. \/ queue' = Upto(queue, runningIdx) /\ runningIdx' = runningIdx
        \/ queue' = [queue EXCEPT ![runningIdx + 1] = Null] /\ runningIdx' = runningIdx + 1
        \/ queue' = queue /\ runningIdx' = runningIdx
    BY <1>8 DEF SocketClose, FailsHead
  <2>2. QED
    BY <1>1, <2>1, UptoShifts, ClearShifts, SameShifts
<1>9. CASE \E e : ConnectFail(e)
  <2>1. PICK e : ConnectFail(e)
    BY <1>9
  <2>2. /\ stack = <<>> /\ connecting = "dialing" /\ ~destroyed
        /\ runningIdx' = runningIdx
    BY <2>1 DEF ConnectFail, Quiet
  <2>3. pendingIdx = runningIdx
    BY <1>1, <2>2, DialingIsIdle
  <2>4. CASE e = "altname"
    <3>1. queue' = Upto(queue, runningIdx) \o From(queue, runningIdx)
      BY <2>1, <2>3, <2>4 DEF ConnectFail
    <3>2. QED
      BY <1>1, <2>2, <3>1, FullLeft, SameShifts
  <2>5. CASE e # "altname"
    <3>1. queue' = QueueAfterError(e)
      BY <2>1, <2>5 DEF ConnectFail
    <3>2. QED
      BY <2>2, <3>1, ErrorShifts
  <2>6. QED
    BY <2>4, <2>5
<1>10. QED
  BY <1>2, <1>3, <1>4, <1>5, <1>6, <1>7, <1>8, <1>9, QueueChanges

\* The same as a fact about what is queued.
LEMMA QueuedComes ==
  ASSUME TypeOK, Core, Next, NEW q \in Queued', q # Null, q \notin Queued
  PROVE  q \in Requests /\ Dispatch(q)
<1>1. PICK k \in (runningIdx' + 1)..Len(queue') : q = queue'[k]
  BY DEF Queued
<1>2. CASE Shifts
  <2>1. PICK a \in Int, b, c \in Nat : Shifted(a, b, c)
    BY <1>2 DEF Shifts
  <2>2. \E m \in (runningIdx + 1)..Len(queue) : queue'[k] \in {queue[m], Null}
    BY <2>1 DEF Shifted
  <2>3. QED
    BY <1>1, <2>2 DEF Queued
<1>3. CASE \E r \in Requests : Dispatch(r)
  <2>1. PICK r \in Requests : Dispatch(r)
    BY <1>3
  <2>2. queue' = Append(queue, r) /\ runningIdx' = runningIdx
    BY <2>1 DEF Dispatch
  <2>3. Queued' = Queued \cup {r}
    BY <2>2, AppendLeft DEF Core, Bounds
  <2>4. QED
    BY <2>1, <2>3
<1>4. QED
  BY <1>2, <1>3, QueueComes

\* No request is in the queue twice.
Distinct ==
  \A i, j \in (runningIdx + 1)..Len(queue) : queue[i] = queue[j] /\ queue[i] # Null => i = j

LEMMA ShiftDistinct ==
  ASSUME TypeOK, TypeOK', Distinct, Shifts
  PROVE  Distinct'
<1>1. PICK a \in Int, b, c \in Nat : b <= c /\ Shifted(a, b, c)
  BY DEF Shifts
<1> SUFFICES ASSUME NEW i \in (runningIdx' + 1)..Len(queue'),
                    NEW j \in (runningIdx' + 1)..Len(queue'),
                    queue'[i] = queue'[j], queue'[i] # Null
             PROVE  i = j
  BY DEF Distinct
<1> DEFINE at(k) == IF k <= a THEN k + b ELSE k + c
<1>2. /\ at(i) \in (runningIdx + 1)..Len(queue) /\ queue'[i] = queue[at(i)]
      /\ at(j) \in (runningIdx + 1)..Len(queue) /\ queue'[j] = queue[at(j)]
  BY <1>1 DEF Shifted
<1>3. at(i) = at(j)
  BY <1>2 DEF Distinct
<1>4. i \in Int /\ j \in Int
  OBVIOUS
<1>5. QED
  BY <1>1, <1>3, <1>4

LEMMA DispatchDistinct ==
  ASSUME TypeOK, runningIdx <= Len(queue), Distinct, NEW r \in Requests, Dispatch(r),
         r \notin Queued
  PROVE  Distinct'
<1>1. /\ queue \in Seq(Slots) /\ Len(queue) \in Nat /\ runningIdx \in Nat
      /\ queue' = Append(queue, r) /\ runningIdx' = runningIdx /\ r \in Slots
  BY TypeParts, LenProperties DEF Dispatch, Slots
<1>2. /\ Len(queue') = Len(queue) + 1 /\ queue'[Len(queue) + 1] = r
      /\ \A k \in 1..Len(queue) : queue'[k] = queue[k]
  BY <1>1, AppendProperties
<1>3. \A k \in (runningIdx + 1)..Len(queue) : queue'[k] = queue[k] /\ queue'[k] # r
  BY <1>1, <1>2 DEF Queued
<1> SUFFICES ASSUME NEW i \in (runningIdx' + 1)..Len(queue'),
                    NEW j \in (runningIdx' + 1)..Len(queue'),
                    queue'[i] = queue'[j], queue'[i] # Null
             PROVE  i = j
  BY DEF Distinct
<1>4. /\ i \in (runningIdx + 1)..Len(queue) \/ i = Len(queue) + 1
      /\ j \in (runningIdx + 1)..Len(queue) \/ j = Len(queue) + 1
  BY <1>1, <1>2
<1>5. CASE i \in (runningIdx + 1)..Len(queue) /\ j \in (runningIdx + 1)..Len(queue)
  BY <1>3, <1>5 DEF Distinct
<1>6. CASE i = Len(queue) + 1
  BY <1>2, <1>3, <1>4, <1>6
<1>7. CASE j = Len(queue) + 1
  BY <1>2, <1>3, <1>4, <1>7
<1>8. QED
  BY <1>4, <1>5, <1>6, <1>7

----------------------------------------------------------------------------
(* Where the requests come from that a frame holds.                         *)

\* What has no callback under way: what is pending, and all between jobs.
Takeable ==
  {queue[k] : k \in {n \in (runningIdx + 1)..Len(queue) : n > pendingIdx \/ stack = <<>>}}

LEMMA FromTaken ==
  ASSUME TypeOK, NEW i \in Nat, runningIdx <= i, i >= pendingIdx \/ stack = <<>>
  PROVE  Range(From(queue, i)) \subseteq Takeable
<1>1. queue \in Seq(Slots) /\ Len(queue) \in Nat /\ runningIdx \in Nat /\ pendingIdx \in Int
  BY TypeParts, LenProperties
<1>2. CASE i > Len(queue)
  <2>1. From(queue, i) = <<>>
    BY <1>1, <1>2, SpliceElements
  <2>2. QED
    BY <2>1 DEF Range
<1>3. CASE i <= Len(queue)
  <2>1. /\ Len(From(queue, i)) = Len(queue) - i
        /\ \A k \in 1..(Len(queue) - i) : From(queue, i)[k] = queue[i + k]
    BY <1>1, <1>3, SpliceElements
  <2>2. DOMAIN From(queue, i) = 1..(Len(queue) - i)
    <3>1. i \in Int
      OBVIOUS
    <3>2. From(queue, i) \in Seq(Slots)
      BY <1>1, <3>1, SpliceTypes
    <3>3. QED
      BY <2>1, <3>2, LenProperties
  <2> SUFFICES ASSUME NEW k \in 1..(Len(queue) - i)
               PROVE  From(queue, i)[k] \in Takeable
    BY <2>2 DEF Range
  <2>3. i + k \in (runningIdx + 1)..Len(queue) /\ (i + k > pendingIdx \/ stack = <<>>)
    BY <1>1
  <2>4. QED
    BY <2>1, <2>3 DEF Takeable
<1>4. QED
  BY <1>1, <1>2, <1>3

LEMMA HeadTaken ==
  ASSUME TypeOK, Core
  PROVE  /\ PendingHead \in Takeable \cup {Null}
         /\ stack = <<>> => RunningHead \in Takeable \cup {Null}
<1>1. /\ queue \in Seq(Slots) /\ Len(queue) \in Nat /\ runningIdx \in Nat
      /\ pendingIdx \in Nat /\ runningIdx <= pendingIdx /\ DOMAIN queue = 1..Len(queue)
  BY TypeParts, LenProperties DEF Core, Bounds
<1>2. PendingHead \in Takeable \cup {Null}
  <2>1. CASE pendingIdx + 1 \in 1..Len(queue)
    <3>1. PendingHead = queue[pendingIdx + 1]
      BY <1>1, <2>1 DEF PendingHead, Slot
    <3>2. pendingIdx + 1 \in (runningIdx + 1)..Len(queue) /\ pendingIdx + 1 > pendingIdx
      BY <1>1, <2>1
    <3>3. QED
      BY <3>1, <3>2 DEF Takeable
  <2>2. CASE pendingIdx + 1 \notin 1..Len(queue)
    BY <1>1, <2>2 DEF PendingHead, Slot
  <2>3. QED
    BY <2>1, <2>2
<1>3. ASSUME stack = <<>> PROVE RunningHead \in Takeable \cup {Null}
  <2>1. CASE runningIdx + 1 \in 1..Len(queue)
    <3>1. RunningHead = queue[runningIdx + 1]
      BY <1>1, <2>1 DEF RunningHead, Slot
    <3>2. runningIdx + 1 \in (runningIdx + 1)..Len(queue)
      BY <1>1, <2>1
    <3>3. QED
      BY <1>3, <3>1, <3>2 DEF Takeable
  <2>2. CASE runningIdx + 1 \notin 1..Len(queue)
    BY <1>1, <2>2 DEF RunningHead, Slot
  <2>3. QED
    BY <2>1, <2>2
<1>4. QED
  BY <1>2, <1>3

LEMMA HeldPush ==
  ASSUME NEW rs \in Seq(Slots), NEW gs \in Seq(Frames), On(gs) \cap Holders = {},
         NEW t \in Seq(Frames)
  PROVE  Held((Fail(rs) \o gs) \o t) = Range(rs) \cup Held(t)
<1>1. Fail(rs) \in Seq(Frames) /\ Held(Fail(rs)) = Range(rs)
  BY HeldFail
<1>2. Held(gs) = {}
  BY HeldNone
<1>3. Fail(rs) \o gs \in Seq(Frames) /\ Held(Fail(rs) \o gs) = Held(Fail(rs)) \cup Held(gs)
  BY <1>1, HeldCat
<1>4. Held((Fail(rs) \o gs) \o t) = Held(Fail(rs) \o gs) \cup Held(t)
  BY <1>3, HeldCat
<1>5. QED
  BY <1>1, <1>2, <1>3, <1>4

LEMMA FewHeldNone ==
  ASSUME NEW at1 \in PlainLabels \ Holders, NEW at2 \in PlainLabels \ Holders
  PROVE  /\ <<Do(at1)>> \in Seq(Frames) /\ On(<<Do(at1)>>) \cap Holders = {}
         /\ <<Do(at1), Do(at2)>> \in Seq(Frames) /\ On(<<Do(at1), Do(at2)>>) \cap Holders = {}
BY Labelled, FewFrames, OnFew

LEMMA DestroyTakes ==
  ASSUME TypeOK, Core, BeginDestroy
  PROVE  Held(stack') \subseteq Held(stack) \cup Takeable
<1>1. /\ stack \in Seq(Frames) /\ queue \in Seq(Slots) /\ pendingIdx \in Nat
      /\ pendingIdx \in Int /\ runningIdx <= pendingIdx
  BY TypeParts DEF Core, Bounds
<1>2. <<Do("destroyEnd")>> \in Seq(Frames) /\ On(<<Do("destroyEnd")>>) \cap Holders = {}
  <2>1. "destroyEnd" \in PlainLabels \ Holders
    BY PlainLabelsAre DEF Holders
  <2>2. QED
    BY <2>1, FewHeldNone
<1>3. From(queue, pendingIdx) \in Seq(Slots)
  BY <1>1, SpliceTypes
<1>4. stack' = (Fail(From(queue, pendingIdx)) \o <<Do("destroyEnd")>>) \o stack
  BY DEF BeginDestroy, Call
<1>5. Held(stack') = Range(From(queue, pendingIdx)) \cup Held(stack)
  <2>1. PICK gs : gs = <<Do("destroyEnd")>>
    OBVIOUS
  <2>2. Held((Fail(From(queue, pendingIdx)) \o gs) \o stack)
          = Range(From(queue, pendingIdx)) \cup Held(stack)
    BY <1>1, <1>2, <1>3, <2>1, HeldPush
  <2>3. QED
    BY <1>4, <2>1, <2>2
<1>6. Range(From(queue, pendingIdx)) \subseteq Takeable
  BY <1>1, FromTaken
<1>7. QED
  BY <1>5, <1>6

LEMMA FramesTake ==
  ASSUME TypeOK, NEW fs \in Seq(Frames), Held(fs) \subseteq Takeable \cup {Null},
         stack' = fs \o stack \/ (stack # <<>> /\ stack' = fs \o Caller)
  PROVE  Held(stack') \subseteq Held(stack) \cup Takeable \cup {Null}
<1>1. stack \in Seq(Frames)
  BY TypeParts
<1>2. CASE stack' = fs \o stack
  BY <1>1, <1>2, HeldCat
<1>3. CASE stack # <<>> /\ stack' = fs \o Caller
  <2>1. Caller \in Seq(Frames) /\ Held(Caller) \subseteq Held(stack)
    BY <1>1, <1>3, TopType, HeldTop
  <2>2. Held(stack') = Held(fs) \cup Held(Caller)
    BY <1>3, <2>1, HeldCat
  <2>3. QED
    BY <2>1, <2>2
<1>4. QED
  BY <1>2, <1>3

LEMMA PickTakes ==
  ASSUME TypeOK, Core, PickWrite
  PROVE  Held(stack') \subseteq Held(stack) \cup Takeable \cup {Null}
<1>1. stack \in Seq(Frames) /\ stack # <<>>
  BY TypeParts DEF PickWrite, At
<1>2. PendingHead \in Takeable \cup {Null} /\ PendingHead \in Requests
  BY HeadTaken, TypeParts DEF PickWrite, HasCandidate, Slots
<1> DEFINE r == PendingHead
           splice == Moved("splice", <<>>)
           write == Moved("write", <<r>>)
<1>3. splice \in Frames /\ splice.at = "splice"
  BY <1>1, PlainLabelsAre, MovedLoop DEF Moved
<1>4. write \in Frames /\ write.at = "write"
  BY <1>1, <1>2, TopType, RequestLabelsAre DEF Moved, Frames
<1>5. /\ Frame("error", <<r>>) \in Frames /\ Frame("error", <<r>>).at = "error"
      /\ Frame("start", <<r>>) \in Frames /\ Frame("start", <<r>>).at = "start"
      /\ Do("abortSocket") \in Frames /\ Do("abortSocket").at = "abortSocket"
  BY <1>2, Labelled, RequestLabelsAre, PlainLabelsAre
<1>6. \/ stack' = (Fail(<<r>>) \o <<splice>>) \o Caller
      \/ stack' = <<Frame("error", <<r>>), Do("abortSocket"), splice>> \o Caller
      \/ stack' = <<Frame("start", <<r>>), write>> \o Caller
  BY DEF PickWrite, Become
<1>7. <<r>> \in Seq(Slots) /\ Range(<<r>>) = {r}
  BY <1>2 DEF Slots, Range
<1> HIDE DEF splice, write, r
<1>8. PICK fs : /\ fs \in Seq(Frames) /\ stack' = fs \o Caller /\ Held(fs) \subseteq {r}
  <2>1. CASE stack' = (Fail(<<r>>) \o <<splice>>) \o Caller
    <3>1. <<splice>> \in Seq(Frames) /\ Held(<<splice>>) = {}
      BY <1>3, HeldOne DEF Holders
    <3>2. Fail(<<r>>) \in Seq(Frames) /\ Held(Fail(<<r>>)) = {r}
      BY <1>7, HeldFail
    <3>3. /\ Fail(<<r>>) \o <<splice>> \in Seq(Frames)
          /\ Held(Fail(<<r>>) \o <<splice>>) = Held(Fail(<<r>>)) \cup Held(<<splice>>)
      BY <3>1, <3>2, HeldCat
    <3>4. QED
      BY <2>1, <3>1, <3>2, <3>3
  <2>2. CASE stack' = <<Frame("error", <<r>>), Do("abortSocket"), splice>> \o Caller
    <3> DEFINE fs == <<Frame("error", <<r>>), Do("abortSocket"), splice>>
    <3>1. fs \in Seq(Frames) /\ On(fs) = {"error", "abortSocket", "splice"}
      BY <1>3, <1>5, FewFrames, OnFew
    <3>2. On(fs) \cap Holders = {}
      BY <3>1 DEF Holders
    <3>3. Held(fs) = {}
      BY <3>1, <3>2, HeldNone
    <3>4. QED
      BY <2>2, <3>1, <3>3
  <2>3. CASE stack' = <<Frame("start", <<r>>), write>> \o Caller
    <3> DEFINE fs == <<Frame("start", <<r>>), write>>
    <3>1. fs \in Seq(Frames) /\ On(fs) = {"start", "write"}
      BY <1>4, <1>5, FewFrames, OnFew
    <3>2. On(fs) \cap Holders = {}
      BY <3>1 DEF Holders
    <3>3. Held(fs) = {}
      BY <3>1, <3>2, HeldNone
    <3>4. QED
      BY <2>3, <3>1, <3>3
  <2>4. QED
    BY <1>6, <2>1, <2>2, <2>3
<1>9. QED
  BY <1>1, <1>2, <1>8, FramesTake DEF r

LEMMA ErrorTakes ==
  ASSUME TypeOK, Core, stack = <<>>, NEW e
  PROVE  ErrorFrames(e) \in Seq(Frames) /\ Held(ErrorFrames(e)) \subseteq Takeable
<1>1. runningIdx \in Nat /\ runningIdx <= runningIdx /\ runningIdx \in Int /\ queue \in Seq(Slots)
  BY TypeParts
<1>2. CASE ErrorFrames(e) = <<>>
  <2>1. On(<<>>) \cap Holders = {} /\ <<>> \in Seq(Frames)
    BY OnFew
  <2>2. QED
    BY <1>2, <2>1, HeldNone
<1>3. CASE ErrorFrames(e) = Fail(From(queue, runningIdx)) \o <<Do("checkEmpty")>>
  <2>1. "checkEmpty" \in PlainLabels \ Holders
    BY PlainLabelsAre DEF Holders
  <2>2. <<Do("checkEmpty")>> \in Seq(Frames) /\ On(<<Do("checkEmpty")>>) \cap Holders = {}
    BY <2>1, FewHeldNone
  <2>3. Held(<<Do("checkEmpty")>>) = {}
    BY <2>2, HeldNone
  <2>4. From(queue, runningIdx) \in Seq(Slots) /\ Range(From(queue, runningIdx)) \subseteq Takeable
    BY <1>1, SpliceTypes, FromTaken
  <2>5. /\ Fail(From(queue, runningIdx)) \in Seq(Frames)
        /\ Held(Fail(From(queue, runningIdx))) \subseteq Takeable
    BY <2>4, HeldFail
  <2>6. /\ Fail(From(queue, runningIdx)) \o <<Do("checkEmpty")>> \in Seq(Frames)
        /\ Held(Fail(From(queue, runningIdx)) \o <<Do("checkEmpty")>>)
             = Held(Fail(From(queue, runningIdx))) \cup Held(<<Do("checkEmpty")>>)
    BY <2>2, <2>5, HeldCat
  <2>7. QED
    BY <1>3, <2>3, <2>5, <2>6
<1>4. QED
  BY <1>2, <1>3 DEF ErrorFrames

LEMMA PlainHeld ==
  /\ <<>> \in Seq(Frames) /\ Held(<<>>) = {}
  /\ \A at1 \in PlainLabels \ Holders :
       <<Do(at1)>> \in Seq(Frames) /\ Held(<<Do(at1)>>) = {}
  /\ \A at1, at2 \in PlainLabels \ Holders :
       <<Do(at1), Do(at2)>> \in Seq(Frames) /\ Held(<<Do(at1), Do(at2)>>) = {}
<1>1. <<>> \in Seq(Frames) /\ On(<<>>) \cap Holders = {}
  BY OnFew
<1>2. Held(<<>>) = {}
  BY <1>1, HeldNone
<1>3. \A at1 \in PlainLabels \ Holders : Held(<<Do(at1)>>) = {}
  BY FewHeldNone, HeldNone
<1>4. \A at1, at2 \in PlainLabels \ Holders : Held(<<Do(at1), Do(at2)>>) = {}
  BY FewHeldNone, HeldNone
<1>5. QED
  BY <1>1, <1>2, <1>3, <1>4, FewHeldNone

LEMMA PlainNames ==
  {"splice", "resume", "failAltname", "connectionError", "checkEmpty", "writerFail",
   "complete", "closeEnd", "destroyCallback", "disconnect"} \subseteq PlainLabels \ Holders
BY PlainLabelsAre DEF Holders

LEMMA SocketErrorsTake ==
  ASSUME TypeOK, Core, stack = <<>>, NEW s, NEW e, SocketErrors(s, e)
  PROVE  Held(stack') \subseteq Held(stack) \cup Takeable \cup {Null}
<1> DEFINE fs == IF s.writing THEN <<Do("writerFail")>> ELSE <<>>
<1>1. stack' = (ErrorFrames(e) \o fs) \o stack
  BY DEF SocketErrors, Call
<1>2. fs \in Seq(Frames) /\ Held(fs) = {}
  BY PlainHeld, PlainNames
<1>3. ErrorFrames(e) \in Seq(Frames) /\ Held(ErrorFrames(e)) \subseteq Takeable
  BY ErrorTakes
<1> HIDE DEF fs
<1>4. /\ ErrorFrames(e) \o fs \in Seq(Frames)
      /\ Held(ErrorFrames(e) \o fs) = Held(ErrorFrames(e)) \cup Held(fs)
  BY <1>2, <1>3, HeldCat
<1>5. QED
  BY <1>1, <1>2, <1>3, <1>4, FramesTake

LEMMA ConnectTakes ==
  ASSUME TypeOK, Core, broken = "none", NEW e, ConnectFail(e)
  PROVE  Held(stack') \subseteq Held(stack) \cup Takeable \cup {Null}
<1>1. stack = <<>> /\ connecting = "dialing" /\ ~destroyed
  BY DEF ConnectFail, Quiet
<1>2. Running = 0
  BY <1>1, DialingIsIdle
<1> DEFINE tail == <<Do("connectionError"), Do("resume")>>
<1>3. tail \in Seq(Frames) /\ Held(tail) = {}
  BY PlainHeld, PlainNames
<1>4. CASE e = "altname"
  <2>1. stack' = ((Fail(RunningPart) \o <<Do("failAltname")>>) \o tail) \o stack
    BY <1>4 DEF ConnectFail, Call
  <2>2. RunningPart = <<>>
    <3>1. From(queue, runningIdx) \in Seq(Slots) /\ runningIdx \in Int
      BY TypeParts, SpliceTypes
    <3>2. /\ 0 \in Nat /\ Len(From(queue, runningIdx)) \in Nat
          /\ 0 <= Len(From(queue, runningIdx))
      BY <3>1, LenProperties
    <3>3. Len(Upto(From(queue, runningIdx), 0)) = 0
      BY <3>1, <3>2, SpliceElements
    <3>4. Upto(From(queue, runningIdx), 0) \in Seq(Slots)
      BY <3>1, SpliceTypes
    <3>5. QED
      BY <1>2, <3>3, <3>4, EmptySeq DEF RunningPart
  <2>3. Fail(RunningPart) = <<>>
    BY <2>2 DEF Fail
  <2>4. <<Do("failAltname")>> \in Seq(Frames) /\ Held(<<Do("failAltname")>>) = {}
    BY PlainHeld, PlainNames
  <2>5. Fail(RunningPart) \in Seq(Frames) /\ Held(Fail(RunningPart)) = {}
    BY <2>3, PlainHeld
  <2> HIDE DEF tail
  <2>6. /\ Fail(RunningPart) \o <<Do("failAltname")>> \in Seq(Frames)
        /\ Held(Fail(RunningPart) \o <<Do("failAltname")>>)
             = Held(Fail(RunningPart)) \cup Held(<<Do("failAltname")>>)
    BY <2>4, <2>5, HeldCat
  <2>7. /\ (Fail(RunningPart) \o <<Do("failAltname")>>) \o tail \in Seq(Frames)
        /\ Held((Fail(RunningPart) \o <<Do("failAltname")>>) \o tail)
             = Held(Fail(RunningPart) \o <<Do("failAltname")>>) \cup Held(tail)
    BY <1>3, <2>6, HeldCat
  <2>8. QED
    BY <1>3, <2>1, <2>4, <2>5, <2>6, <2>7, FramesTake
<1>5. CASE e # "altname"
  <2>1. stack' = (ErrorFrames(e) \o tail) \o stack
    BY <1>5 DEF ConnectFail, Call
  <2>2. ErrorFrames(e) \in Seq(Frames) /\ Held(ErrorFrames(e)) \subseteq Takeable
    BY <1>1, ErrorTakes
  <2> HIDE DEF tail
  <2>3. /\ ErrorFrames(e) \o tail \in Seq(Frames)
        /\ Held(ErrorFrames(e) \o tail) = Held(ErrorFrames(e)) \cup Held(tail)
    BY <1>3, <2>2, HeldCat
  <2>4. QED
    BY <1>3, <2>1, <2>2, <2>3, FramesTake
<1>6. QED
  BY <1>4, <1>5

LEMMA CloseTakes ==
  ASSUME TypeOK, Core, SocketClose
  PROVE  Held(stack') \subseteq Held(stack) \cup Takeable \cup {Null}
<1> DEFINE failed == IF destroyed THEN From(queue, runningIdx)
                     ELSE IF FailsHead THEN <<RunningHead>> ELSE <<>>
           end == <<Do("closeEnd")>>
           renames == IF "rename" \in sock.onClose THEN <<Do("resume")>> ELSE <<>>
           destroys == IF "destroy" \in sock.onClose THEN <<Do("destroyCallback")>> ELSE <<>>
<1>1. /\ queue \in Seq(Slots) /\ runningIdx \in Nat /\ runningIdx \in Int
      /\ RunningHead \in Slots /\ stack = <<>> /\ runningIdx <= runningIdx
  <2>1. stack = <<>>
    BY DEF SocketClose, Quiet
  <2>2. QED
    BY <2>1, TypeParts
<1>2. failed \in Seq(Slots) /\ Range(failed) \subseteq Takeable \cup {Null}
  <2>1. CASE destroyed
    BY <1>1, <2>1, SpliceTypes, FromTaken
  <2>2. CASE ~destroyed /\ FailsHead
    <3>1. failed = <<RunningHead>> /\ <<RunningHead>> \in Seq(Slots)
          /\ Range(<<RunningHead>>) = {RunningHead}
      BY <1>1, <2>2 DEF Range
    <3>2. QED
      BY <1>1, <3>1, HeadTaken
  <2>3. CASE ~destroyed /\ ~FailsHead
    <3>1. failed = <<>> /\ <<>> \in Seq(Slots) /\ Range(<<>>) = {}
      BY <2>3 DEF Range
    <3>2. QED
      BY <3>1
  <2>4. QED
    BY <2>1, <2>2, <2>3
<1>3. /\ end \in Seq(Frames) /\ Held(end) = {}
      /\ renames \in Seq(Frames) /\ Held(renames) = {}
      /\ destroys \in Seq(Frames) /\ Held(destroys) = {}
  BY PlainHeld, PlainNames
<1>4. stack' = (((Fail(failed) \o end) \o renames) \o destroys) \o stack
  BY DEF SocketClose, Call
<1> HIDE DEF failed, end, renames, destroys
<1>5. Fail(failed) \in Seq(Frames) /\ Held(Fail(failed)) = Range(failed)
  BY <1>2, HeldFail
<1>6. /\ Fail(failed) \o end \in Seq(Frames)
      /\ Held(Fail(failed) \o end) = Held(Fail(failed)) \cup Held(end)
  BY <1>3, <1>5, HeldCat
<1>7. /\ (Fail(failed) \o end) \o renames \in Seq(Frames)
      /\ Held((Fail(failed) \o end) \o renames) = Held(Fail(failed) \o end) \cup Held(renames)
  BY <1>3, <1>6, HeldCat
<1>8. /\ ((Fail(failed) \o end) \o renames) \o destroys \in Seq(Frames)
      /\ Held(((Fail(failed) \o end) \o renames) \o destroys)
           = Held((Fail(failed) \o end) \o renames) \cup Held(destroys)
  BY <1>3, <1>7, HeldCat
<1>9. QED
  BY <1>2, <1>3, <1>4, <1>5, <1>6, <1>7, <1>8, FramesTake

LEMMA OneFailTakes ==
  ASSUME TypeOK, Core, stack' = Call(Fail(<<PendingHead>>))
  PROVE  Held(stack') \subseteq Held(stack) \cup Takeable \cup {Null}
<1>1. PendingHead \in Slots /\ PendingHead \in Takeable \cup {Null}
  BY TypeParts, HeadTaken
<1>2. <<PendingHead>> \in Seq(Slots) /\ Range(<<PendingHead>>) = {PendingHead}
  BY <1>1 DEF Range
<1>3. Fail(<<PendingHead>>) \in Seq(Frames) /\ Held(Fail(<<PendingHead>>)) = {PendingHead}
  BY <1>2, HeldFail
<1>4. QED
  BY <1>1, <1>3, FramesTake DEF Call

LEMMA UpgradeTakes ==
  ASSUME TypeOK, Core, ResponseUpgrade
  PROVE  Held(stack') \subseteq Held(stack) \cup Takeable \cup {Null}
<1>1. stack = <<>> /\ RunningHead \in Requests /\ RunningHead \in Takeable \cup {Null}
  <2>1. stack = <<>> /\ RunningHead # Null
    BY DEF ResponseUpgrade, Quiet
  <2>2. QED
    BY <2>1, TypeParts, HeadTaken DEF Slots
<1> DEFINE f == Frame("upgradeCall", <<RunningHead>>)
<1>2. /\ f \in Frames /\ f.at = "upgradeCall" /\ f.reqs = <<RunningHead>>
      /\ Do("disconnect") \in Frames /\ Do("resume") \in Frames
  BY <1>1, Labelled, RequestLabelsAre, PlainLabelsAre DEF Frame
<1>3. stack' = <<Do("disconnect"), f, Do("resume")>> \o stack
  BY DEF ResponseUpgrade, Call
<1>4. Held(<<f>>) = {RunningHead}
  <2>1. Range(<<RunningHead>>) = {RunningHead} /\ "upgradeCall" \in Holders
    BY DEF Range, Holders
  <2>2. QED
    BY <1>2, <2>1, HeldOne
<1> HIDE DEF f
<1>5. /\ <<Do("disconnect")>> \in Seq(Frames) /\ <<f>> \in Seq(Frames)
      /\ <<Do("resume")>> \in Seq(Frames)
      /\ Held(<<Do("disconnect")>>) = {} /\ Held(<<Do("resume")>>) = {}
  BY <1>2, PlainHeld, PlainNames, FewFrames
<1>6. <<Do("disconnect"), f, Do("resume")>> = (<<Do("disconnect")>> \o <<f>>) \o <<Do("resume")>>
  BY <1>2, CatFew
<1>7. /\ <<Do("disconnect")>> \o <<f>> \in Seq(Frames)
      /\ Held(<<Do("disconnect")>> \o <<f>>) = {RunningHead}
  BY <1>4, <1>5, HeldCat
<1>8. /\ (<<Do("disconnect")>> \o <<f>>) \o <<Do("resume")>> \in Seq(Frames)
      /\ Held((<<Do("disconnect")>> \o <<f>>) \o <<Do("resume")>>) = {RunningHead}
  BY <1>5, <1>7, HeldCat
<1>9. QED
  BY <1>1, <1>3, <1>6, <1>8, FramesTake

\* What a frame holds comes from the queue, and no callback was under way for it.
LEMMA HeldComes ==
  ASSUME TypeOK, Core, Next
  PROVE  Held(stack') \subseteq Held(stack) \cup Takeable \cup {Null}
<1>1. PICK S, t : Pushes(S, t)
  BY NextPushes
<1>2. stack \in Seq(Frames) /\ broken = "none"
  BY TypeParts DEF Next
<1>3. CASE S \cap Holders = {}
  <2>1. PICK fs : stack' = fs \o t /\ Pile(fs, S)
    BY <1>1 DEF Pushes, Moves
  <2>2. fs \in Seq(Frames) /\ On(fs) \cap Holders = {}
    BY <1>3, <2>1 DEF Pile
  <2>3. Held(fs) = {}
    BY <2>2, HeldNone
  <2>4. t = stack \/ (stack # <<>> /\ t = Caller)
    BY <1>1 DEF Pushes
  <2>5. QED
    BY <2>1, <2>2, <2>3, <2>4, FramesTake
<1>4. CASE S \cap Holders # {}
  <2>1. \/ Destroy \/ TaskClosed \/ FailNext \/ PickWrite \/ FailAltname
        \/ (\E e : ConnectFail(e)) \/ SocketError \/ SocketReset \/ SocketClose
        \/ ResponseUpgrade \/ UpgradeCall
    BY <1>1, <1>4 DEF Pushes, Listed, Holders
  <2>2. CASE stack' = stack
    BY <2>2
  <2>3. CASE BeginDestroy
    BY <2>3, DestroyTakes
  <2>4. CASE FailNext
    BY <2>4, FailNextHeld
  <2>5. CASE UpgradeCall
    BY <2>5, UpgradeCallHeld
  <2>6. CASE stack' = Call(Fail(<<PendingHead>>))
    BY <2>6, OneFailTakes
  <2>7. CASE FailAltname
    <3>1. stack' = Call(Fail(<<PendingHead>>)) \/ (stack # <<>> /\ stack' = Caller)
      BY <2>7 DEF FailAltname, At
    <3>2. CASE stack # <<>> /\ stack' = Caller
      BY <1>2, <3>2, HeldTop
    <3>3. QED
      BY <2>6, <3>1, <3>2
  <2>8. CASE SocketError \/ SocketReset
    <3>1. stack = <<>>
      BY <2>8 DEF SocketError, SocketReset, Quiet
    <3>2. CASE \E s, e : SocketErrors(s, e)
      BY <3>1, <3>2, SocketErrorsTake
    <3>3. CASE ~\E s, e : SocketErrors(s, e)
      <4> DEFINE fs == IF sock.writing THEN <<Do("writerFail")>> ELSE <<>>
      <4>1. stack' = (<<Do("complete")>> \o fs) \o stack
        BY <2>8, <3>3 DEF SocketError, SocketReset, Call
      <4>2. /\ <<Do("complete")>> \in Seq(Frames) /\ Held(<<Do("complete")>>) = {}
            /\ fs \in Seq(Frames) /\ Held(fs) = {}
        BY PlainHeld, PlainNames
      <4> HIDE DEF fs
      <4>3. /\ <<Do("complete")>> \o fs \in Seq(Frames)
            /\ Held(<<Do("complete")>> \o fs) = Held(<<Do("complete")>>) \cup Held(fs)
        BY <4>2, HeldCat
      <4>4. QED
        BY <4>1, <4>2, <4>3, FramesTake
    <3>4. QED
      BY <3>2, <3>3
  <2>9. QED
    <3>1. Destroy \/ TaskClosed => BeginDestroy \/ stack' = stack
      BY DEF Destroy, TaskClosed
    <3>2. QED
      BY <1>2, <2>1, <2>2, <2>3, <2>4, <2>5, <2>7, <2>8, <3>1, PickTakes,
         ConnectTakes, CloseTakes, UpgradeTakes
<1>5. QED
  BY <1>3, <1>4

----------------------------------------------------------------------------
(* Which action runs a frame, and which frames stay.                        *)

LEMMA TopRuns ==
  ASSUME TypeOK, Next, stack # <<>>
  PROVE  /\ Top.at = "afterEnd" => AfterEnd
         /\ Top.at = "destroyEnd" => DestroyEnd
         /\ Top.at = "closeEnd" => CloseEnd
         /\ Top.at = "destroyCallback" => DestroyCallback
<1> DEFINE some == {"afterEnd", "destroyEnd", "closeEnd", "destroyCallback"}
<1> SUFFICES ASSUME Top.at \in some
             PROVE  /\ Top.at = "afterEnd" => AfterEnd
                    /\ Top.at = "destroyEnd" => DestroyEnd
                    /\ Top.at = "closeEnd" => CloseEnd
                    /\ Top.at = "destroyCallback" => DestroyCallback
  OBVIOUS
<1>1. ~UserStep
  <2>1. Top.at \notin Callbacks
    BY DEF Callbacks
  <2>2. \A op : ~UserMay(op)
    <3> TAKE op
    <3>1. UserMay(op) => <<Top.at, op>> \in (Callbacks \cup {"top"}) \X Operations
      BY EnvironmentAssumption DEF UserMay
    <3>2. Top.at # "top"
      OBVIOUS
    <3>3. QED
      BY <2>1, <3>1, <3>2
  <2>3. QED
    BY <2>2 DEF UserStep, Dispatch, DispatchRefused, Abort, SetPipelining, Close, Destroy
<1>2. ~Event
  BY EventPushes
<1>3. FrameStep
  BY <1>1, <1>2 DEF Next, Event
<1>4. ~CallbackReturns
  BY DEF CallbackReturns, Callbacks
<1>5. ~(\/ CheckEmpty \/ FailNext \/ Resume \/ LoopDestroyed
        \/ LoopClosed \/ LoopContext \/ LoopBusy \/ LoopDrain \/ PickNothing
        \/ PickAborted \/ PickRename \/ PickConnect \/ PickWrite \/ WriteHead)
  BY DEF CheckEmpty, FailNext, Resume, LoopDestroyed, LoopClosed,
     LoopContext, LoopBusy, LoopDrain, PickNothing, PickAborted, PickRename,
     PickConnect, PickWrite, WriteHead, At
<1>6. ~(\/ Advance \/ Splice \/ Exit \/ FailAltname \/ AbortSocket \/ EndBody
        \/ WriterFail \/ AfterHeaders \/ Complete \/ UpgradeCall \/ Upgraded)
  BY DEF Advance, Splice, Exit, FailAltname, AbortSocket, EndBody, WriterFail,
     AfterHeaders, Complete, UpgradeCall, Upgraded, At
<1>7. AfterEnd \/ DestroyEnd \/ CloseEnd \/ DestroyCallback
  BY <1>3, <1>4, <1>5, <1>6 DEF FrameStep
<1>8. QED
  BY <1>7 DEF AfterEnd, DestroyEnd, CloseEnd, DestroyCallback, At

LEMMA FramesKept ==
  ASSUME TypeOK, NEW fs \in Seq(Frames), NEW t \in Seq(Frames), stack' = fs \o t,
         t = stack \/ (stack # <<>> /\ t = Caller)
  PROVE  \A i \in DOMAIN stack' :
           stack'[i].at \in On(fs) \/ \E j \in DOMAIN stack : stack[j] = stack'[i]
<1> SUFFICES ASSUME NEW i \in DOMAIN stack', stack'[i].at \notin On(fs)
             PROVE  \E j \in DOMAIN stack : stack[j] = stack'[i]
  OBVIOUS
<1>0. stack \in Seq(Frames)
  BY TypeParts
<1>1. /\ Len(fs) \in Nat /\ Len(t) \in Nat /\ i \in 1..(Len(fs) + Len(t))
      /\ i <= Len(fs) => i \in DOMAIN fs /\ stack'[i] = fs[i]
      /\ i > Len(fs) => i - Len(fs) \in DOMAIN t /\ stack'[i] = t[i - Len(fs)]
  BY CatElements
<1>2. i > Len(fs)
  BY <1>1 DEF On
<1>3. PICK k \in DOMAIN t : stack'[i] = t[k]
  BY <1>1, <1>2
<1>4. CASE t = stack
  BY <1>3, <1>4
<1>5. CASE stack # <<>> /\ t = Caller
  <2>1. /\ DOMAIN stack = 1..Len(stack) /\ Len(stack) \in Nat \ {0}
        /\ DOMAIN Caller = 1..(Len(stack) - 1)
        /\ \A j \in 1..(Len(stack) - 1) : Caller[j] = stack[j + 1]
    BY <1>0, <1>5, EmptySeq, LenProperties, HeadTailProperties DEF Caller
  <2>2. k + 1 \in DOMAIN stack /\ stack[k + 1] = t[k]
    BY <1>3, <1>5, <2>1
  <2>3. QED
    BY <1>3, <2>2
<1>6. QED
  BY <1>4, <1>5

\* A label stays on the stack unless its own action runs.
LEMMA LabelStays ==
  ASSUME TypeOK, Next, NEW label \in On(stack), label # "fail",
         stack # <<>> /\ Top.at = label => label \in On(stack')
  PROVE  label \in On(stack')
<1>1. PICK S, t : Pushes(S, t)
  BY NextPushes
<1>2. /\ S \cup On(t) \subseteq On(stack') \cup {"fail"}
      /\ stack # <<>> => On(stack) = {Top.at} \cup On(Caller)
      /\ t # stack => stack # <<>> /\ t = Caller
  BY <1>1, PushesOn
<1>3. QED
  BY <1>2

----------------------------------------------------------------------------
(* A request has one outcome.                                               *)

Written == {r \in Requests : \E i \in DOMAIN stack :
                               stack[i].at = "write" /\ stack[i].reqs = <<r>>}
Upgrading == {r \in Requests : \E i \in DOMAIN stack :
                /\ stack[i].at \in {"upgradeCall", "upgraded"} /\ stack[i].reqs = <<r>>}
Begun == Queued \cup Held(stack) \cup Written \cup {r \in Requests : sent[r] > 0}
Over == aborted \cup completed

\* What the client deals with was dispatched, and if it has an outcome, then
\* its flags say so; only a refused request has an outcome without flags.
Known ==
  /\ \A r \in Begun \ {Null} : r \in Range(dispatched) /\ (r \in Ended => r \in Over)
  /\ Ended \subseteq Range(dispatched) /\ Over \subseteq Ended

\* A completed request is in no frame that will fail it, and in the queue only
\* until onMessageComplete has taken it out.
NotDone ==
  /\ Held(stack) \cap completed = {}
  /\ \A k \in (runningIdx + 1)..Len(queue) :
       queue[k] \in completed => k = runningIdx + 1 /\ "afterEnd" \in On(stack)

LeavesOnce == Queued \cap Upgrading = {}
Once == \A r \in Requests : ends[r] <= 1

LEMMA WrittenComes ==
  ASSUME TypeOK, Nesting, Shape(stack), Next
  PROVE  Written' \subseteq Written \cup {PendingHead}
<1> SUFFICES ASSUME NEW r \in Written' PROVE r \in Written \cup {PendingHead}
  OBVIOUS
<1>1. PICK i \in DOMAIN stack' : stack'[i].at = "write" /\ stack'[i].reqs = <<r>>
  BY DEF Written
<1>2. CASE PickWrite
  <2>1. stack'[i].reqs[1] = PendingHead
    BY <1>1, <1>2, PickWriteOn
  <2>2. QED
    BY <1>1, <2>1
<1>3. CASE ~PickWrite
  <2>1. "write" \in On(stack')
    BY <1>1 DEF On
  <2>2. \E j \in DOMAIN stack : stack[j] = stack'[i]
    BY <1>1, <1>3, <2>1, WriteStays
  <2>3. QED
    BY <1>1, <2>2 DEF Written
<1>4. QED
  BY <1>2, <1>3

LEMMA UpgradingComes ==
  ASSUME TypeOK, Next
  PROVE  /\ Upgrading' \subseteq Upgrading \cup {RunningHead}
         /\ ~ResponseUpgrade => Upgrading' \subseteq Upgrading
<1>1. PICK S, t : Pushes(S, t)
  BY NextPushes
<1>2. PICK fs : stack' = fs \o t /\ fs \in Seq(Frames) /\ On(fs) \subseteq S
  BY <1>1 DEF Pushes, Moves, Pile
<1>3. /\ t \in Seq(Frames) /\ (t = stack \/ (stack # <<>> /\ t = Caller))
      /\ stack \in Seq(Frames)
  BY <1>1, PushesOn, TypeParts
<1>4. CASE S \cap {"upgradeCall", "upgraded"} = {}
  <2>1. \A i \in DOMAIN stack' : stack'[i].at \in {"upgradeCall", "upgraded"} =>
          \E j \in DOMAIN stack : stack[j] = stack'[i]
    BY <1>2, <1>3, <1>4, FramesKept
  <2>2. QED
    BY <2>1 DEF Upgrading
<1>5. CASE ResponseUpgrade
  <2> DEFINE f == Frame("upgradeCall", <<RunningHead>>)
  <2>1. stack' = <<Do("disconnect"), f, Do("resume")>> \o stack /\ stack = <<>>
    BY <1>5 DEF ResponseUpgrade, Call, Quiet
  <2>2. RunningHead \in Requests
    <3>1. RunningHead # Null
      BY <1>5 DEF ResponseUpgrade
    <3>2. QED
      BY <3>1, TypeParts DEF Slots
  <2>3. f \in Frames /\ Do("disconnect") \in Frames /\ Do("resume") \in Frames
        /\ Do("disconnect").at = "disconnect" /\ Do("resume").at = "resume"
    BY <2>2, Labelled, RequestLabelsAre, PlainLabelsAre
  <2>4. stack' = <<Do("disconnect"), f, Do("resume")>>
    <3> HIDE DEF f
    <3>1. <<Do("disconnect"), f, Do("resume")>> \in Seq(Frames)
      BY <2>3, FewFrames
    <3>2. QED
      BY <2>1, <3>1, ConcatEmptySeq
  <2>5. \A i \in DOMAIN stack' : stack'[i].at \in {"upgradeCall", "upgraded"} =>
          stack'[i].reqs = <<RunningHead>>
    BY <2>3, <2>4 DEF Frame
  <2>6. QED
    BY <1>5, <2>5 DEF Upgrading
<1>6. CASE UpgradeCall
  <2> DEFINE r == Top.reqs[1]
  <2>1. /\ stack # <<>> /\ Top.at = "upgradeCall" /\ Top \in Frames /\ Caller \in Seq(Frames)
        /\ Top = stack[1] /\ 1 \in DOMAIN stack /\ r \in Requests /\ Top.reqs = <<r>>
    <3>1. stack # <<>> /\ Top.at = "upgradeCall"
      BY <1>6 DEF UpgradeCall, At
    <3>2. Top = stack[1] /\ 1 \in DOMAIN stack
      BY <1>3, <3>1, EmptySeq, LenProperties, HeadTailProperties DEF Top
    <3>3. QED
      BY <1>3, <3>1, <3>2, TopType, RangeOne, RequestLabelsAre
  <2>2. CASE stack' = Caller
    <3>1. \A i \in DOMAIN stack' : \E j \in DOMAIN stack : stack[j] = stack'[i]
      BY <1>3, <2>1, <2>2, HeadTailProperties, EmptySeq, LenProperties DEF Caller
    <3>2. QED
      BY <3>1 DEF Upgrading
  <2>3. CASE stack' = <<Frame("upgrade", <<r>>), Frame("upgraded", <<r>>)>> \o Caller
    <3> DEFINE gs == <<Frame("upgrade", <<r>>), Frame("upgraded", <<r>>)>>
    <3>1. gs \in Seq(Frames) /\ \A i \in DOMAIN gs : gs[i].reqs = <<r>>
      <4>1. Frame("upgrade", <<r>>) \in Frames /\ Frame("upgraded", <<r>>) \in Frames
        BY <2>1, Labelled, RequestLabelsAre
      <4>2. gs \in Seq(Frames)
        BY <4>1, FewFrames
      <4>3. QED
        BY <4>2 DEF Frame
    <3> HIDE DEF gs
    <3>2. \A i \in DOMAIN stack' : stack'[i].reqs = <<r>> \/ \E j \in DOMAIN stack : stack[j] = stack'[i]
      <4> SUFFICES ASSUME NEW i \in DOMAIN stack', stack'[i].reqs # <<r>>
                   PROVE  \E j \in DOMAIN stack : stack[j] = stack'[i]
        OBVIOUS
      <4>1. /\ Len(gs) \in Nat /\ Len(Caller) \in Nat /\ i \in 1..(Len(gs) + Len(Caller))
            /\ i <= Len(gs) => i \in DOMAIN gs /\ stack'[i] = gs[i]
            /\ i > Len(gs) => i - Len(gs) \in DOMAIN Caller /\ stack'[i] = Caller[i - Len(gs)]
        BY <2>1, <2>3, <3>1, CatElements DEF gs
      <4>2. PICK k \in DOMAIN Caller : stack'[i] = Caller[k]
        BY <3>1, <4>1
      <4>3. k + 1 \in DOMAIN stack /\ stack[k + 1] = Caller[k]
        BY <1>3, <2>1, HeadTailProperties, EmptySeq, LenProperties DEF Caller
      <4>4. QED
        BY <4>2, <4>3
    <3>3. r \in Upgrading
      BY <2>1 DEF Upgrading
    <3>4. QED
      <4>1. \A q \in Requests : <<q>> = <<r>> => q = r
        OBVIOUS
      <4>2. QED
        BY <3>2, <3>3, <4>1 DEF Upgrading
  <2>4. QED
    BY <1>6, <2>2, <2>3 DEF UpgradeCall, Become
<1>7. QED
  BY <1>1, <1>4, <1>5, <1>6 DEF Pushes, Listed

\* Only these complete a request.
LEMMA CompletedComes ==
  ASSUME TypeOK, Next
  PROVE  \/ completed' = completed
         \/ Complete /\ completed' = completed \cup {RunningHead} /\ RunningHead \in Requests
         \/ Upgraded /\ completed' = completed \cup {Top.reqs[1]}
<1>1. CASE Outcome({})
  BY <1>1 DEF Outcome
<1>2. CASE \E r \in Requests : Outcome({r}) /\ Ends(r)
  <2>1. PICK r \in Requests : Outcome({r}) /\ Ends(r)
    BY <1>2
  <2>2. completed' = completed \/ completed' = completed \cup {r}
    BY <2>1 DEF Outcome
  <2>3. \/ DispatchRefused(r) \/ Abort(r) \/ WriterFail \/ completed' = completed
        \/ Complete /\ r = RunningHead
        \/ Upgraded /\ r = Top.reqs[1]
    BY <2>1 DEF Ends
  <2>4. DispatchRefused(r) \/ Abort(r) \/ WriterFail => completed' = completed
    BY DEF DispatchRefused, Abort, WriterFail, reqVars
  <2>5. QED
    BY <2>2, <2>3, <2>4
<1>3. QED
  BY <1>1, <1>2, NextOutcome

\* Beyond what begun there is only what is dispatched in this step.
LEMMA BegunComes ==
  ASSUME TypeOK, Nesting, Shape(stack), Core, Next, NEW q \in Begun', q # Null, q \notin Begun
  PROVE  q \in Requests /\ Dispatch(q)
<1>1. CASE q \in Queued'
  BY <1>1, QueuedComes DEF Begun
<1>2. Takeable \subseteq Queued
  BY DEF Takeable, Queued
<1>3. CASE q \in Held(stack)'
  BY <1>2, <1>3, HeldComes DEF Begun
<1>4. CASE q \in Written'
  <2>1. PendingHead \in Takeable \cup {Null}
    BY HeadTaken
  <2>2. QED
    BY <1>2, <1>4, <2>1, WrittenComes DEF Begun
<1>5. CASE q \in {r \in Requests : sent'[r] > 0}
  <2>1. sent[q] = 0
    BY <1>5 DEF Begun, TypeOK
  <2>2. sent' # sent /\ WriteHead
    BY <1>5, <2>1, NextHistory
  <2>3. /\ stack # <<>> /\ Top.at = "write" /\ stack \in Seq(Frames)
        /\ sent' = [sent EXCEPT ![Top.reqs[1]] = IF Live THEN @ + 1 ELSE @]
    <3>1. stack # <<>> /\ Top.at = "write" /\ stack \in Seq(Frames)
      BY <2>2, TypeParts DEF WriteHead, At
    <3>2. QED
      BY <2>2, <3>1 DEF WriteHead
  <2>4. /\ Top = stack[1] /\ 1 \in DOMAIN stack
        /\ Top \in Frames /\ Top.reqs = <<Top.reqs[1]>>
    BY <2>3, EmptySeq, LenProperties, HeadTailProperties, TopType, RangeOne, RequestLabelsAre DEF Top
  <2>5. Top.reqs[1] = q
    BY <1>5, <2>1, <2>3 DEF TypeOK
  <2>6. q \in Written
    BY <1>5, <2>3, <2>4, <2>5 DEF Written
  <2>7. QED
    BY <2>6 DEF Begun
<1>6. QED
  BY <1>1, <1>3, <1>4, <1>5 DEF Begun

LEMMA WireBegun ==
  ASSUME TypeOK, Core, broken = "none"
  PROVE  Range(wire) \subseteq Queued
<1>1. /\ DOMAIN wire = 1..Len(wire) /\ Len(wire) \in Nat /\ runningIdx \in Nat
      /\ Len(queue) \in Nat
  BY LenProperties, TypeParts DEF TypeOK
<1>2. CASE sock.st = "none"
  BY <1>2 DEF Core, NoWire, Range
<1>3. CASE sock.st # "none"
  <2>1. /\ runningIdx + Len(wire) <= Len(queue)
        /\ \A k \in 1..Len(wire) : queue[runningIdx + k] = wire[k]
    BY <1>3 DEF Core, WireMatches
  <2> SUFFICES ASSUME NEW k \in 1..Len(wire) PROVE wire[k] \in Queued
    BY <1>1 DEF Range
  <2>2. runningIdx + k \in (runningIdx + 1)..Len(queue) /\ wire[k] = queue[runningIdx + k]
    BY <1>1, <2>1
  <2>3. QED
    BY <2>2 DEF Queued
<1>4. QED
  BY <1>2, <1>3

\* What is pending is not completed, nor is anything between jobs.
LEMMA TakeableNotDone ==
  ASSUME TypeOK, Core, NotDone
  PROVE  Takeable \cap completed = {}
<1>1. runningIdx \in Nat /\ pendingIdx \in Nat /\ stack \in Seq(Frames)
  BY TypeParts DEF Core, Bounds
<1> SUFFICES ASSUME NEW n \in (runningIdx + 1)..Len(queue), n > pendingIdx \/ stack = <<>>,
                    queue[n] \in completed
             PROVE  FALSE
  BY DEF Takeable
<1>2. n = runningIdx + 1 /\ "afterEnd" \in On(stack)
  BY DEF NotDone
<1>3. stack # <<>> /\ Running > 0
  BY <1>2, OnFew DEF Core, EndRuns
<1>4. QED
  BY <1>1, <1>2, <1>3 DEF Running

\* A request that is given an outcome had none.
LEMMA EndsFirst ==
  ASSUME TypeOK, Core, Known, NotDone, Next, NEW r \in Requests, Ends(r)
  PROVE  /\ r \notin Ended
         /\ DispatchRefused(r) \/ (r \in Begun /\ r \in aborted' \cup completed')
<1>0. broken = "none" /\ stack \in Seq(Frames)
  BY TypeParts DEF Next
<1>1. CASE DispatchRefused(r)
  BY <1>1 DEF DispatchRefused, Known
<1> DEFINE Stage == r \in Begun /\ r \notin Over
<1>2. r # Null
  BY NullAssumption
<1>3. Stage /\ r \in aborted' \cup completed' => r \notin Ended /\ r \in Begun
  BY <1>2 DEF Known
<1>4. CASE Abort(r) /\ InFlight(r)
  <2>1. sent[r] > 0 \/ OnSocket(r)
    BY <1>4 DEF Abort
  <2>2. Range(wire) \subseteq Begun
    BY <1>0, WireBegun DEF Begun
  <2>3. r \in Begun
    BY <2>1, <2>2 DEF OnSocket, Begun, Written
  <2>4. QED
    <3>1. Stage
      BY <1>4, <2>3 DEF InFlight, Over
    <3>2. r \in aborted'
      <4>1. Aborts(r) /\ completed' = completed
        BY <1>4 DEF Abort
      <4>2. QED
        BY <4>1, AbortsOutcome
    <3>3. QED
      BY <1>3, <3>1, <3>2
<1>5. CASE FailNext /\ r = Head(Top.reqs) /\ r \notin aborted /\ r \in aborted' \cup completed'
  <2>1. r \in Held(stack)
    BY <1>5, FailNextHeld
  <2>2. Stage
    BY <1>5, <2>1 DEF NotDone, Over, Begun
  <2>3. QED
    BY <1>3, <1>5, <2>2
<1>6. CASE PickWrite /\ r = PendingHead /\ r \notin aborted /\ r \in aborted' \cup completed'
  <2>1. r \in Takeable
    BY <1>2, <1>6, HeadTaken
  <2>2. r \notin completed /\ r \in Queued
    BY <2>1, TakeableNotDone DEF Takeable, Queued
  <2>3. Stage
    BY <1>6, <2>2 DEF Over, Begun
  <2>4. QED
    BY <1>3, <1>6, <2>3
<1>7. CASE r = RunningHead /\ r \notin completed /\ r \notin aborted /\ r \in aborted' \cup completed'
  <2>1. runningIdx + 1 \in 1..Len(queue) /\ runningIdx \in Nat /\ queue \in Seq(Slots)
    BY <1>2, <1>7, TypeParts
  <2>2. r = queue[runningIdx + 1] /\ runningIdx + 1 \in (runningIdx + 1)..Len(queue)
    BY <1>7, <2>1, LenProperties DEF RunningHead, Slot
  <2>3. r \in Begun
    BY <2>2 DEF Begun, Queued
  <2>4. QED
    BY <1>3, <1>7, <2>3 DEF Over
<1>8. CASE Upgraded /\ r = Top.reqs[1] /\ r \notin aborted /\ r \in aborted' \cup completed'
  <2>1. r \in Held(stack)
    BY <1>8, UpgradedHeld
  <2>2. Stage
    BY <1>8, <2>1 DEF NotDone, Over, Begun
  <2>3. QED
    BY <1>3, <1>8, <2>2
<1>9. QED
  BY <1>1, <1>4, <1>5, <1>6, <1>7, <1>8 DEF Ends

LEMMA DispatchKnown ==
  ASSUME TypeOK, Known, NEW r \in Requests, Dispatch(r)
  PROVE  /\ r \notin Begun /\ r \notin Ended' /\ Ended' = Ended /\ Over' = Over
         /\ r \in Range(dispatched') /\ runningIdx' = runningIdx
<1>1. /\ r \notin Range(dispatched) /\ ends' = ends /\ aborted' = aborted
      /\ completed' = completed /\ runningIdx' = runningIdx
      /\ dispatched' = Append(dispatched, r)
  BY DEF Dispatch, reqVars, histVars
<1>2. dispatched \in Seq(Requests)
  BY DEF TypeOK
<1>3. r \in Range(dispatched')
  <2>1. /\ Len(dispatched) + 1 \in DOMAIN dispatched'
        /\ dispatched'[Len(dispatched) + 1] = r
    BY <1>1, <1>2, AppendProperties, LenProperties
  <2>2. QED
    BY <2>1 DEF Range
<1>4. r # Null
  BY NullAssumption
<1>5. QED
  BY <1>1, <1>3, <1>4 DEF Known, Ended, Over

LEMMA DispatchedGrows ==
  ASSUME TypeOK, Next
  PROVE  /\ Range(dispatched) \subseteq Range(dispatched')
         /\ \A r \in Requests : DispatchRefused(r) => r \in Range(dispatched')
<1>1. dispatched \in Seq(Requests)
  BY DEF TypeOK
<1>2. ASSUME NEW r \in Requests, dispatched' = Append(dispatched, r)
      PROVE  Range(dispatched) \subseteq Range(dispatched') /\ r \in Range(dispatched')
  <2>1. /\ DOMAIN dispatched = 1..Len(dispatched) /\ DOMAIN dispatched' = 1..(Len(dispatched) + 1)
        /\ Len(dispatched) \in Nat /\ dispatched'[Len(dispatched) + 1] = r
        /\ \A k \in 1..Len(dispatched) : dispatched'[k] = dispatched[k]
    BY <1>1, <1>2, AppendProperties, LenProperties
  <2>2. QED
    BY <2>1 DEF Range
<1>3. \A r \in Requests : Dispatch(r) \/ DispatchRefused(r) => dispatched' = Append(dispatched, r)
  BY DEF Dispatch, DispatchRefused
<1>4. QED
  BY <1>2, <1>3, NextHistory

LEMMA KnownStep ==
  ASSUME TypeOK, Nesting, Shape(stack), Core, Known, NotDone, Once, Next
  PROVE  Known' /\ Once'
<1>1. PICK rs : /\ Outcome(rs)
                /\ rs = {} \/ \E r \in Requests : rs = {r} /\ Ends(r)
  BY NextOutcome
<1>2. rs \subseteq Requests /\ rs \cap Ended = {} /\ rs \subseteq Range(dispatched')
      /\ \A r \in rs : DispatchRefused(r) \/ r \in Over'
  <2>1. CASE rs = {}
    BY <2>1
  <2>2. CASE \E r \in Requests : rs = {r} /\ Ends(r)
    <3>1. PICK r \in Requests : rs = {r} /\ Ends(r)
      BY <2>2
    <3>2. r \notin Ended /\ (DispatchRefused(r) \/ (r \in Begun /\ r \in Over'))
      BY <3>1, EndsFirst DEF Over
    <3>3. r # Null
      BY NullAssumption
    <3>4. r \in Range(dispatched')
      BY <3>2, <3>3, DispatchedGrows DEF Known
    <3>5. QED
      BY <3>1, <3>2, <3>4
  <2>3. QED
    BY <1>1, <2>1, <2>2
<1>3. /\ Ended' = Ended \cup rs /\ \A r \in Requests : ends'[r] <= 1
  <2>1. \A r \in Requests : ends[r] \in Nat /\ ends[r] <= 1
    BY DEF TypeOK, Once
  <2>2. \A r \in Requests : r \in rs => ends[r] = 0
    BY <1>2, <2>1 DEF Ended
  <2>3. \A r \in Requests : ends'[r] = ends[r] + (IF r \in rs THEN 1 ELSE 0)
    BY <1>1 DEF Outcome
  <2>4. \A r \in Requests : ends'[r] <= 1 /\ (ends'[r] > 0 <=> ends[r] > 0 \/ r \in rs)
    BY <2>1, <2>2, <2>3
  <2>5. QED
    BY <1>2, <2>4 DEF Ended
<1>4. Over \subseteq Over' /\ Over' \subseteq Over \cup rs
  BY <1>1 DEF Outcome, Over
<1>5. Ended' \subseteq Range(dispatched') /\ Over' \subseteq Ended'
  BY <1>2, <1>3, <1>4, DispatchedGrows DEF Known
<1>6. ASSUME NEW r \in Begun', r # Null
      PROVE  r \in Range(dispatched') /\ (r \in Ended' => r \in Over')
  <2>1. CASE r \in Begun
    <3>1. r \in Range(dispatched) /\ (r \in Ended => r \in Over)
      BY <1>6, <2>1 DEF Known
    <3>2. ~DispatchRefused(r)
      BY <3>1 DEF DispatchRefused
    <3>3. QED
      BY <1>2, <1>3, <1>4, <3>1, <3>2, DispatchedGrows
  <2>2. CASE r \notin Begun
    <3>1. r \in Requests /\ Dispatch(r)
      BY <1>6, <2>2, BegunComes
    <3>2. QED
      BY <3>1, DispatchKnown
  <2>3. QED
    BY <2>1, <2>2
<1>7. QED
  BY <1>3, <1>5, <1>6 DEF Known, Once

LEMMA DistinctStep ==
  ASSUME TypeOK, TypeOK', Core, Known, Distinct, Next
  PROVE  Distinct'
<1>1. runningIdx <= Len(queue)
  BY DEF Core, Bounds
<1>2. ASSUME NEW r \in Requests, Dispatch(r) PROVE Distinct'
  <2>1. r \notin Queued
    BY <1>2, DispatchKnown DEF Begun
  <2>2. QED
    BY <1>1, <1>2, <2>1, DispatchDistinct
<1>3. QED
  BY <1>2, QueueComes, ShiftDistinct

LEMMA LeavesOnceStep ==
  ASSUME TypeOK, TypeOK', Core, Known, Distinct, LeavesOnce, Next
  PROVE  LeavesOnce'
<1> SUFFICES ASSUME NEW r \in Requests, r \in Queued', r \in Upgrading' PROVE FALSE
  BY DEF LeavesOnce, Upgrading
<1>1. r # Null /\ stack \in Seq(Frames) /\ queue \in Seq(Slots) /\ runningIdx \in Nat
      /\ Len(queue) \in Nat
  BY NullAssumption, TypeParts, LenProperties
<1>2. r \in Queued
  <2>1. CASE r \in Queued
    BY <2>1
  <2>2. CASE r \notin Queued
    <3>1. Dispatch(r)
      BY <1>1, <2>2, QueuedComes
    <3>2. Upgrading \subseteq Begun
      <4>1. ASSUME NEW q \in Upgrading PROVE q \in Held(stack)
        <5>1. PICK i \in DOMAIN stack : /\ stack[i].at \in {"upgradeCall", "upgraded"}
                                        /\ stack[i].reqs = <<q>>
          BY DEF Upgrading
        <5>2. q \in Range(<<q>>) /\ q \in Slots
          BY DEF Range, Upgrading, Slots
        <5>3. QED
          BY <5>1, <5>2 DEF Held, Holders
      <4>2. QED
        BY <4>1 DEF Begun
    <3>3. r \notin Begun
      BY <3>1, DispatchKnown
    <3>4. ~ResponseUpgrade
      <4>1. dispatched' # dispatched
        <5>1. dispatched \in Seq(Requests) /\ dispatched' = Append(dispatched, r)
          BY <3>1 DEF Dispatch, TypeOK
        <5>2. Len(dispatched') = Len(dispatched) + 1 /\ Len(dispatched) \in Nat
          BY <5>1, AppendProperties, LenProperties
        <5>3. QED
          BY <5>2
      <4>2. QED
        BY <4>1 DEF ResponseUpgrade
    <3>5. QED
      BY <3>2, <3>3, <3>4, UpgradingComes
  <2>3. QED
    BY <2>1, <2>2
<1>3. ResponseUpgrade /\ r = RunningHead
  BY <1>2, UpgradingComes DEF LeavesOnce
<1>4. queue' = [queue EXCEPT ![runningIdx + 1] = Null] /\ runningIdx' = runningIdx + 1
  BY <1>3 DEF ResponseUpgrade
<1>5. runningIdx + 1 \in 1..Len(queue) /\ DOMAIN queue = 1..Len(queue)
  BY <1>1, <1>3, TypeParts, LenProperties
<1>6. RunningHead = queue[runningIdx + 1]
  BY <1>5 DEF RunningHead, Slot
<1>7. PICK k \in (runningIdx' + 1)..Len(queue') : r = queue'[k]
  BY DEF Queued
<1>8. Null \in Slots
  BY DEF Slots
<1>9. Len(queue') = Len(queue) /\ \A n \in 1..Len(queue) : n # runningIdx + 1 => queue'[n] = queue[n]
  BY <1>1, <1>4, <1>5, <1>8, ExceptSeq
<1>10. /\ k \in (runningIdx + 1)..Len(queue) /\ k # runningIdx + 1
       /\ runningIdx + 1 \in (runningIdx + 1)..Len(queue) /\ k \in 1..Len(queue)
  BY <1>1, <1>4, <1>5, <1>7, <1>9
<1>11. queue[k] = r
  BY <1>7, <1>9, <1>10
<1>12. QED
  BY <1>1, <1>3, <1>6, <1>10, <1>11 DEF Distinct

\* While afterEnd is on the stack its request is the first of those left.
LEMMA EndKept ==
  ASSUME TypeOK, TypeOK', Core, Known, NotDone, Next, completed' = completed
  PROVE  \A k \in (runningIdx' + 1)..Len(queue') :
           queue'[k] \in completed => k = runningIdx' + 1 /\ "afterEnd" \in On(stack')
<1> SUFFICES ASSUME NEW k \in (runningIdx' + 1)..Len(queue'), queue'[k] \in completed
             PROVE  k = runningIdx' + 1 /\ "afterEnd" \in On(stack')
  OBVIOUS
<1>1. /\ queue \in Seq(Slots) /\ Len(queue) \in Nat /\ runningIdx \in Nat
      /\ runningIdx' \in Nat /\ stack \in Seq(Frames) /\ Null \notin completed
      /\ completed \subseteq Requests /\ DOMAIN queue = 1..Len(queue)
  <2>1. completed \subseteq Requests /\ runningIdx' \in Nat
    BY DEF TypeOK
  <2>2. QED
    BY <2>1, TypeParts, LenProperties, NullAssumption
<1>2. CASE AfterEnd
  <2>1. queue' = [queue EXCEPT ![runningIdx + 1] = Null] /\ runningIdx' = runningIdx + 1
    BY <1>2 DEF AfterEnd
  <2>2. Null \in Slots
    BY DEF Slots
  <2>3. CASE runningIdx + 1 \in 1..Len(queue)
    <3>1. /\ Len(queue') = Len(queue)
          /\ \A n \in 1..Len(queue) : n # runningIdx + 1 => queue'[n] = queue[n]
      BY <1>1, <2>1, <2>2, <2>3, ExceptSeq
    <3>2. /\ k \in (runningIdx + 1)..Len(queue) /\ k # runningIdx + 1 /\ k \in 1..Len(queue)
      BY <1>1, <2>1, <3>1
    <3>3. queue[k] \in completed
      BY <3>1, <3>2
    <3>4. QED
      BY <3>2, <3>3 DEF NotDone
  <2>4. CASE runningIdx + 1 \notin 1..Len(queue)
    <3>1. queue' = queue
      BY <1>1, <2>1, <2>4, SeqEqual, LenProperties
    <3>2. QED
      BY <1>1, <2>1, <2>4, <3>1
  <2>5. QED
    BY <2>3, <2>4
<1>3. CASE ~AfterEnd
  <2>1. "afterEnd" \in On(stack) => "afterEnd" \in On(stack')
    BY <1>3, TopRuns, LabelStays
  <2>2. CASE Shifts
    <3>1. PICK a \in Int, b, c \in Nat : Shifted(a, b, c)
      BY <2>2 DEF Shifts
    <3> DEFINE m == IF k <= a THEN k + b ELSE k + c
    <3>2. /\ m \in (runningIdx + 1)..Len(queue) /\ queue'[k] \in {queue[m], Null}
          /\ m - runningIdx >= k - runningIdx'
      BY <3>1 DEF Shifted
    <3> HIDE DEF m
    <3>3. queue[m] \in completed
      BY <1>1, <3>2
    <3>4. m = runningIdx + 1 /\ "afterEnd" \in On(stack)
      BY <3>2, <3>3 DEF NotDone
    <3>5. k = runningIdx' + 1
      <4>1. k \in Int /\ k >= runningIdx' + 1
        <5>1. queue' \in Seq(Slots)
          BY DEF TypeOK, Slots
        <5>2. Len(queue') \in Nat
          BY <5>1, LenProperties
        <5>3. \A i, n \in Nat : \A j \in (i + 1)..n : j \in Int /\ j >= i + 1
          OBVIOUS
        <5>4. QED
          BY <1>1, <5>2, <5>3, Zenon
      <4>2. (runningIdx + 1) - runningIdx >= k - runningIdx'
        BY <3>2, <3>4, Zenon
      <4>3. \A i, n \in Nat, j \in Int :
              j >= n + 1 /\ (i + 1) - i >= j - n => j = n + 1
        OBVIOUS
      <4>4. QED
        BY <1>1, <4>1, <4>2, <4>3, Zenon
    <3>6. QED
      BY <2>1, <3>4, <3>5
  <2>3. CASE \E r \in Requests : Dispatch(r)
    <3>1. PICK r \in Requests : Dispatch(r)
      BY <2>3
    <3>2. queue' = Append(queue, r) /\ runningIdx' = runningIdx
      BY <3>1 DEF Dispatch
    <3>3. r \in Slots
      BY DEF Slots
    <3>4. /\ Len(queue') = Len(queue) + 1 /\ queue'[Len(queue) + 1] = r
          /\ \A n \in 1..Len(queue) : queue'[n] = queue[n]
      BY <1>1, <3>2, <3>3, AppendProperties
    <3>5. r \notin completed
      <4>1. r \notin Ended /\ Ended' = Ended
        BY <3>1, DispatchKnown
      <4>2. QED
        BY <4>1 DEF Known, Over
    <3>6. k \in (runningIdx + 1)..Len(queue) /\ k \in 1..Len(queue)
      BY <1>1, <3>2, <3>4, <3>5
    <3>7. k = runningIdx + 1 /\ "afterEnd" \in On(stack)
      BY <3>4, <3>6 DEF NotDone
    <3>8. QED
      BY <2>1, <3>2, <3>7
  <2>4. QED
    BY <2>2, <2>3, QueueComes
<1>4. QED
  BY <1>2, <1>3

LEMMA FinishingHoldsNone ==
  ASSUME TypeOK, Nesting, Shape(stack), stack # <<>>, Top.at \in Finishing
  PROVE  Caller \in Seq(Frames) /\ Held(Caller) = {}
<1>1. Caller \in Seq(Frames) /\ On(Caller) \cap (Finishing \cup {"fail"}) = {}
  BY ShapeTop
<1>2. On(Caller) \cap Holders = {}
  BY <1>1 DEF Holders, Finishing
<1>3. QED
  BY <1>1, <1>2, HeldNone

LEMMA NotDoneStep ==
  ASSUME TypeOK, TypeOK', Nesting, Shape(stack), Core, Known, Distinct, LeavesOnce, NotDone, Next
  PROVE  NotDone'
<1>1. CASE completed' = completed
  <2>1. Held(stack') \cap completed = {}
    <3>1. Null \notin completed
      BY NullAssumption DEF TypeOK
    <3>2. QED
      BY <3>1, HeldComes, TakeableNotDone DEF NotDone
  <2>2. QED
    BY <1>1, <2>1, EndKept DEF NotDone
<1>2. CASE Complete /\ completed' = completed \cup {RunningHead} /\ RunningHead \in Requests
           /\ completed' # completed
  <2>1. stack # <<>> /\ Top.at = "complete" /\ stack' = Become(<<Frame("end", <<RunningHead>>), Do("afterEnd")>>)
        /\ queue' = queue /\ runningIdx' = runningIdx
    <3>1. stack # <<>> /\ Top.at = "complete" /\ queue' = queue /\ runningIdx' = runningIdx
      BY <1>2 DEF Complete, At, qVars
    <3>2. stack' = Become(<<Frame("end", <<RunningHead>>), Do("afterEnd")>>)
      BY <1>2 DEF Complete
    <3>3. QED
      BY <3>1, <3>2
  <2>2. Caller \in Seq(Frames) /\ Held(Caller) = {}
    BY <2>1, FinishingHoldsNone DEF Finishing
  <2> DEFINE fs == <<Frame("end", <<RunningHead>>), Do("afterEnd")>>
  <2>3. fs \in Seq(Frames) /\ On(fs) = {"end", "afterEnd"}
    <3>1. /\ Frame("end", <<RunningHead>>) \in Frames /\ Frame("end", <<RunningHead>>).at = "end"
          /\ Do("afterEnd") \in Frames /\ Do("afterEnd").at = "afterEnd"
      BY <1>2, Labelled, RequestLabelsAre, PlainLabelsAre
    <3>2. QED
      BY <3>1, FewFrames, OnFew
  <2>4. On(fs) \cap Holders = {}
    BY <2>3 DEF Holders
  <2>5. stack' = fs \o Caller
    BY <2>1 DEF Become
  <2> HIDE DEF fs
  <2>6. Held(fs) = {} /\ Held(fs \o Caller) = Held(fs) \cup Held(Caller)
    BY <2>2, <2>3, <2>4, HeldNone, HeldCat
  <2>7. Held(stack') = {}
    BY <2>2, <2>5, <2>6
  <2>8. "afterEnd" \in On(stack')
    <3>1. On(fs \o Caller) = On(fs) \cup On(Caller)
      BY <2>2, <2>3, OnCat
    <3>2. QED
      BY <2>3, <2>5, <3>1
  <2>9. ASSUME NEW k \in (runningIdx + 1)..Len(queue), queue[k] \in completed'
        PROVE  k = runningIdx + 1
    <3>1. CASE queue[k] \in completed
      BY <3>1 DEF NotDone
    <3>2. CASE queue[k] = RunningHead
      <4>1. RunningHead # Null
        BY <1>2, NullAssumption
      <4>2. runningIdx + 1 \in 1..Len(queue) /\ runningIdx \in Nat /\ DOMAIN queue = 1..Len(queue)
            /\ Len(queue) \in Nat
        BY <4>1, TypeParts, LenProperties
      <4>3. RunningHead = queue[runningIdx + 1] /\ runningIdx + 1 \in (runningIdx + 1)..Len(queue)
        BY <4>2 DEF RunningHead, Slot
      <4>4. QED
        BY <3>2, <4>1, <4>3 DEF Distinct
    <3>3. QED
      BY <1>2, <2>9, <3>1, <3>2
  <2>10. QED
    BY <2>1, <2>7, <2>8, <2>9 DEF NotDone
<1>3. CASE Upgraded /\ completed' = completed \cup {Top.reqs[1]} /\ completed' # completed
  <2> DEFINE r == Top.reqs[1]
  <2>1. /\ stack # <<>> /\ Top.at = "upgraded" /\ r \in Requests
        /\ Held(stack') = Held(Caller) /\ Held(Caller) = {}
    <3>1. /\ stack # <<>> /\ Top.at = "upgraded" /\ r \in Requests
          /\ Held(stack') = Held(Caller)
      BY <1>3, UpgradedHeld
    <3>2. QED
      BY <3>1, FinishingHoldsNone DEF Finishing
  <2>2. queue' = queue /\ runningIdx' = runningIdx
    BY <1>3 DEF Upgraded, qVars
  <2>3. r \notin Queued
    <3>1. /\ Top = stack[1] /\ 1 \in DOMAIN stack /\ Top.reqs = <<r>>
      <4>1. stack \in Seq(Frames)
        BY TypeParts
      <4>2. Top = stack[1] /\ 1 \in DOMAIN stack
        BY <2>1, <4>1, EmptySeq, LenProperties, HeadTailProperties DEF Top
      <4>3. QED
        BY <2>1, <4>1, <4>2, TopType, RangeOne, RequestLabelsAre
    <3>2. r \in Upgrading
      BY <2>1, <3>1 DEF Upgrading
    <3>3. QED
      BY <3>2 DEF LeavesOnce
  <2>4. "afterEnd" \in On(stack) => "afterEnd" \in On(stack')
    <3>1. Top.at # "afterEnd"
      BY <2>1
    <3>2. QED
      BY <3>1, LabelStays
  <2>5. \A k \in (runningIdx + 1)..Len(queue) : queue[k] \in completed' => queue[k] \in completed
    BY <1>3, <2>3 DEF Queued
  <2>6. QED
    BY <2>1, <2>2, <2>4, <2>5 DEF NotDone
<1>4. QED
  BY <1>1, <1>2, <1>3, CompletedComes

----------------------------------------------------------------------------
(* close() and destroy() report when everything is over.                    *)

\* The queue of a client that takes no request any more stays empty.
LEMMA SizeStays ==
  ASSUME TypeOK, TypeOK', Core, Core', Next, Size = 0, closed \/ destroyed
  PROVE  Size' = 0
<1>1. \A r \in Requests : ~Dispatch(r)
  BY DEF Dispatch
<1>2. PICK a \in Int, b, c \in Nat : b <= c /\ Shifted(a, b, c)
  BY <1>1, QueueComes DEF Shifts
<1>3. /\ runningIdx \in Nat /\ Len(queue) \in Nat /\ Len(queue) = runningIdx
  BY TypeParts, LenProperties DEF Size
<1>4. runningIdx' \in Nat /\ Len(queue') \in Nat
  BY LenProperties DEF TypeOK
<1>5. (runningIdx + 1)..Len(queue) = {}
  BY <1>3
<1>6. \A k : k \notin (runningIdx' + 1)..Len(queue')
  BY <1>2, <1>5 DEF Shifted
<1>7. ~(Len(queue') > runningIdx')
  <2>1. Len(queue') \notin (runningIdx' + 1)..Len(queue')
    BY <1>6
  <2>2. QED
    BY <1>4, <2>1
<1>8. runningIdx' <= Len(queue')
  BY DEF Core, Bounds
<1>9. QED
  BY <1>4, <1>7, <1>8 DEF Size

LEMMA TaskRange ==
  ASSUME NEW q \in Seq(Tasks)
  PROVE  /\ \A x \in Tasks : Append(q, x) \in Seq(Tasks) /\ Range(Append(q, x)) = Range(q) \cup {x}
         /\ q # <<>> => /\ Tail(q) \in Seq(Tasks) /\ Head(q) \in Range(q)
                        /\ Range(Tail(q)) \subseteq Range(q)
<1>1. ASSUME NEW x \in Tasks
      PROVE  Append(q, x) \in Seq(Tasks) /\ Range(Append(q, x)) = Range(q) \cup {x}
  <2>1. /\ Append(q, x) \in Seq(Tasks) /\ Len(Append(q, x)) = Len(q) + 1 /\ Len(q) \in Nat
        /\ \A i \in 1..Len(q) : Append(q, x)[i] = q[i]
        /\ Append(q, x)[Len(q) + 1] = x
    BY AppendProperties, LenProperties
  <2>2. DOMAIN Append(q, x) = 1..(Len(q) + 1) /\ DOMAIN q = 1..Len(q)
    BY <2>1, LenProperties
  <2>3. QED
    BY <2>1, <2>2 DEF Range
<1>2. ASSUME q # <<>>
      PROVE  /\ Tail(q) \in Seq(Tasks) /\ Head(q) \in Range(q)
             /\ Range(Tail(q)) \subseteq Range(q)
  <2>1. /\ Tail(q) \in Seq(Tasks) /\ Len(Tail(q)) = Len(q) - 1 /\ Len(q) \in Nat
        /\ Len(q) > 0 /\ Head(q) = q[1]
        /\ \A i \in 1..Len(Tail(q)) : Tail(q)[i] = q[i + 1]
    BY <1>2, HeadTailProperties, LenProperties, EmptySeq
  <2>2. DOMAIN Tail(q) = 1..(Len(q) - 1) /\ DOMAIN q = 1..Len(q)
    BY <2>1, LenProperties
  <2>3. QED
    BY <2>1, <2>2 DEF Range
<1>3. QED
  BY <1>1, <1>2

\* The steps that are not about close() and destroy().
Calm ==
  /\ UNCHANGED lifeVars
  /\ \/ UNCHANGED micro
     \/ micro # <<>> /\ micro' = Tail(micro)
     \/ micro' = Append(micro, "resume")
     \/ micro' = Append(micro, "drain")

LEMMA LifeMoves ==
  ASSUME TypeOK, Next
  PROVE  Calm \/ Close \/ Destroy \/ DestroyEnd \/ DestroyCallback \/ LoopClosed
         \/ TaskClosed \/ TaskDestroyCallback \/ TaskDestroyed
<1>1. UserStep => Calm \/ Close \/ Destroy
  <2>1. \A r \in Requests : Dispatch(r) \/ DispatchRefused(r) \/ Abort(r) => Calm
    BY DEF Dispatch, DispatchRefused, Abort, Calm, taskVars
  <2>2. \A value \in Pipelinings : SetPipelining(value) => Calm
    BY DEF SetPipelining, Calm, taskVars
  <2>3. QED
    BY <2>1, <2>2 DEF UserStep
<1>2. FrameStep => Calm \/ DestroyEnd \/ DestroyCallback \/ LoopClosed
  <2>1. CallbackReturns \/ FailNext \/ CheckEmpty \/ Resume \/ LoopDestroyed
        \/ LoopContext \/ LoopBusy \/ PickNothing \/ PickAborted \/ PickRename => Calm
    BY DEF CallbackReturns, FailNext, CheckEmpty, Resume, LoopDestroyed,
       LoopContext, LoopBusy, PickNothing, PickAborted, PickRename, Calm, taskVars
  <2>2. LoopDrain => Calm
    BY DEF LoopDrain, Calm
  <2>3. PickConnect \/ PickWrite \/ WriteHead \/ Advance \/ Splice \/ Exit
        \/ FailAltname \/ AbortSocket \/ EndBody \/ WriterFail \/ AfterHeaders => Calm
    BY DEF PickConnect, PickWrite, WriteHead, Advance, Splice, Exit, FailAltname,
       AbortSocket, EndBody, WriterFail, AfterHeaders, Calm, taskVars
  <2>4. Complete \/ AfterEnd \/ UpgradeCall \/ Upgraded \/ CloseEnd => Calm
    BY DEF Complete, AfterEnd, UpgradeCall, Upgraded, CloseEnd, Calm, taskVars
  <2>5. QED
    BY <2>1, <2>2, <2>3, <2>4 DEF FrameStep
<1>3. TaskStep => Calm \/ TaskClosed \/ TaskDestroyCallback \/ TaskDestroyed
  BY DEF TaskStep, TaskResume, TaskDrain, NextTask, Calm
<1>4. Connector \/ ImmediateResume \/ BodyEnd \/ IdleValidated \/ SocketError
      \/ SocketClose => Calm
  BY DEF Connector, ConnectTooLate, ConnectOK, ConnectFail, ImmediateResume, BodyEnd,
     IdleValidated, SocketError, SocketClose, Calm, taskVars
<1>5. Answer \/ ResponseResumed => Calm
  BY DEF Answer, ResponseHead, ResponseEnd, ResponseUpgrade, HeadersTimeout,
     BodyTimeout, ResponseResumed, Destroys, Calm, taskVars
<1>6. Disturbance => Calm
  BY DEF Disturbance, ResponseData, KeepAliveTimeout, SocketEnd, SocketReset, BadBytes,
     BodyError, QueuedBodyError, Destroys, Calm, taskVars
<1>7. QED
  BY <1>1, <1>2, <1>3, <1>4, <1>5, <1>6 DEF Next

\* Only destroy() registers its callback with the socket.
LEMMA ListensComes ==
  ASSUME TypeOK, Next, "destroy" \in sock'.onClose
  PROVE  "destroy" \in sock.onClose \/ DestroyEnd
<1>a. sock \in Socks
  BY TypeParts
<1> DEFINE Same(t) == "destroy" \in t.onClose => "destroy" \in sock.onClose
<1>b. NoSock.onClose = {} /\ \A n : [NoSock EXCEPT !.name = n].onClose = {}
  BY DEF NoSock
<1>c. \A s, n : [NoSock EXCEPT !.st = s, !.name = n].onClose = {}
  BY DEF NoSock
<1>d. \A s \in Socks : \A e : Kill(s, e).onClose = s.onClose
  BY DEF Kill, Socks
<1>e. \A v : /\ [sock EXCEPT !.idle = v].onClose = sock.onClose
             /\ [sock EXCEPT !.writing = v].onClose = sock.onClose
             /\ [sock EXCEPT !.paused = v].onClose = sock.onClose
             /\ [sock EXCEPT !.midBody = v].onClose = sock.onClose
             /\ [sock EXCEPT !.timer = v].onClose = sock.onClose
  BY <1>a DEF Socks
<1>1. UserStep => sock' = sock
  BY DEF UserStep, Dispatch, DispatchRefused, Abort, SetPipelining, Close, Destroy
<1>2. CallbackReturns \/ FailNext \/ CheckEmpty \/ DestroyCallback \/ FailAltname
      \/ UpgradeCall \/ Upgraded \/ CloseEnd => sock' = sock
  BY DEF CallbackReturns, FailNext, CheckEmpty, DestroyCallback, FailAltname,
     UpgradeCall, Upgraded, CloseEnd
<1>3. Resume \/ LoopDestroyed \/ LoopClosed \/ LoopBusy \/ LoopDrain \/ PickNothing
      \/ PickAborted \/ Advance \/ Splice \/ Exit => sock' = sock
  BY DEF Resume, LoopDestroyed, LoopClosed, LoopBusy, LoopDrain, PickNothing,
     PickAborted, Advance, Splice, Exit
<1>4. AbortSocket => Same(sock')
  BY <1>a, <1>d DEF AbortSocket
<1>5. ASSUME PickRename PROVE Same(sock')
  <2>1. PICK k : k = Kill(sock, "info")
    OBVIOUS
  <2>2. k.onClose = sock.onClose /\ k \in [DOMAIN sock -> {k[x] : x \in DOMAIN k}]
    BY <1>a, <2>1, <1>d DEF Kill, Socks
  <2>3. sock' = sock \/ sock' = [k EXCEPT !.onClose = @ \cup {"rename"}]
    BY <1>5, <2>1 DEF PickRename
  <2>4. [k EXCEPT !.onClose = @ \cup {"rename"}].onClose = k.onClose \cup {"rename"}
    BY <1>a, <2>1 DEF Kill, Socks
  <2>5. QED
    BY <2>2, <2>3, <2>4
<1>6. PickConnect \/ ConnectOK \/ SocketClose \/ ResponseUpgrade => Same(sock')
  <2>1. PickConnect => \E n : sock' = [NoSock EXCEPT !.name = n]
    BY DEF PickConnect
  <2>2. ConnectOK => \E n : sock' = [NoSock EXCEPT !.st = "live", !.name = n]
    BY DEF ConnectOK, Connected
  <2>3. SocketClose \/ ResponseUpgrade => sock' = NoSock
    BY DEF SocketClose, ResponseUpgrade
  <2>4. QED
    BY <1>b, <1>c, <2>1, <2>2, <2>3
<1>7. EndBody \/ WriterFail \/ PickWrite \/ Complete => Same(sock')
  <2>1. EndBody \/ WriterFail => sock' = [sock EXCEPT !.writing = FALSE]
    BY DEF EndBody, WriterFail
  <2>2. PickWrite => sock' = sock \/ sock' = [sock EXCEPT !.idle = 0]
    BY DEF PickWrite
  <2>3. Complete => sock' = sock \/ sock' = [sock EXCEPT !.midBody = FALSE]
    BY DEF Complete
  <2>4. QED
    BY <1>e, <2>1, <2>2, <2>3
<1>8. WriteHead => Same(sock')
  <2>1. \A r : Flagged(sock, r).onClose = sock.onClose
    BY <1>a DEF Flagged, Socks
  <2>2. WriteHead => sock' = sock \/ \E r : sock' = Flagged(sock, r)
    BY DEF WriteHead
  <2>3. QED
    BY <2>1, <2>2
<1>9. LoopContext => Same(sock')
  <2> DEFINE checked == IF NeedsValidation(sock) THEN [sock EXCEPT !.idle = 1] ELSE sock
  <2>1. checked \in Socks /\ checked.onClose = sock.onClose
    BY <1>a DEF Socks
  <2>2. LoopContext =>
          \/ sock' = sock \/ sock' = checked
          \/ sock' = [sock EXCEPT !.timer = Timer(sock)]
          \/ \E e : sock' = Kill(checked, e)
    BY DEF LoopContext, ResumeH1
  <2> HIDE DEF checked
  <2>3. \A e : Kill(checked, e).onClose = sock.onClose
    BY <1>d, <2>1
  <2>4. QED
    BY <1>e, <2>1, <2>2, <2>3
<1>10. AfterHeaders => Same(sock')
  <2>1. \A pause : [Unblocked EXCEPT !.paused = pause].onClose = sock.onClose
    BY <1>a DEF Unblocked, Socks
  <2>2. AfterHeaders => sock' = sock \/ \E pause : sock' = [Unblocked EXCEPT !.paused = pause]
    BY DEF AfterHeaders
  <2>3. QED
    BY <2>1, <2>2
<1>11. AfterEnd => Same(sock')
  <2> DEFINE used == [sock EXCEPT !.used = Pending = 0]
  <2>1. used \in Socks /\ used.onClose = sock.onClose
    BY <1>a DEF Socks
  <2>2. AfterEnd => sock' = used \/ sock' = Kill(used, "info")
    BY DEF AfterEnd
  <2> HIDE DEF used
  <2>3. QED
    BY <1>d, <2>1, <2>2
<1>12. TaskStep \/ ImmediateResume \/ ConnectTooLate \/ (\E e : ConnectFail(e))
        \/ ResponseEnd \/ BodyEnd => sock' = sock
  BY DEF TaskStep, TaskResume, TaskDrain, TaskClosed, TaskDestroyCallback,
     TaskDestroyed, ImmediateResume, ConnectTooLate, ConnectFail, ResponseEnd, BodyEnd
<1>13. (\E keep, short \in BOOLEAN : ResponseHead(keep, short)) => Same(sock')
  <2>1. ASSUME NEW keep \in BOOLEAN, NEW short \in BOOLEAN, ResponseHead(keep, short)
        PROVE  Same(sock')
    <3>1. PICK v : sock' = [sock EXCEPT !.midBody = TRUE, !.keep = keep,
                                        !.timer = "body", !.reset = v]
      BY <2>1 DEF ResponseHead
    <3>2. sock'.onClose = sock.onClose
      BY <1>a, <3>1 DEF Socks
    <3>3. QED
      BY <3>2
  <2>2. QED
    BY <2>1
<1>14. HeadersTimeout \/ BodyTimeout \/ KeepAliveTimeout \/ (\E e : BadBytes(e)) => Same(sock')
  BY <1>a, <1>d DEF HeadersTimeout, BodyTimeout, KeepAliveTimeout, BadBytes, Destroys
<1>15. ResponseResumed \/ ResponseData \/ IdleValidated => Same(sock')
  BY <1>e, ZenonT(30) DEF ResponseResumed, ResponseData, IdleValidated
<1>16. BodyError \/ (\E r \in Requests : QueuedBodyError(r)) => sock' = sock
  BY DEF BodyError, QueuedBodyError
<1>f. /\ [sock EXCEPT !.paused = FALSE] \in Socks
      /\ [sock EXCEPT !.paused = FALSE].onClose = sock.onClose
  BY <1>a DEF Socks
<1>17. SocketEnd => Same(sock')
  <2>1. SocketEnd => \/ sock' = [sock EXCEPT !.paused = FALSE]
                     \/ sock' = Kill([sock EXCEPT !.paused = FALSE], "other")
                     \/ sock' = Kill(sock, "socket")
    BY DEF SocketEnd
  <2>2. Kill([sock EXCEPT !.paused = FALSE], "other").onClose = sock.onClose
    BY <1>d, <1>f
  <2>3. Kill(sock, "socket").onClose = sock.onClose
    BY <1>a, <1>d
  <2>4. QED
    BY <1>f, <2>1, <2>2, <2>3
<1>18. SocketError \/ SocketReset => Same(sock')
  <2>1. \A s \in Socks : \A e : [s EXCEPT !.st = "errored", !.err = e].onClose = s.onClose
    BY DEF Socks
  <2>2. [sock EXCEPT !.st = "errored", !.paused = FALSE].onClose = sock.onClose
    BY <1>a DEF Socks
  <2>3. SocketError => \E e : sock' = [sock EXCEPT !.st = "errored", !.err = e]
    BY DEF SocketError, SocketErrors
  <2>4. SocketReset =>
          \/ sock' = [[sock EXCEPT !.paused = FALSE] EXCEPT !.st = "errored", !.err = "other"]
          \/ sock' = [sock EXCEPT !.st = "errored", !.paused = FALSE]
    BY DEF SocketReset, SocketErrors
  <2>5. [[sock EXCEPT !.paused = FALSE] EXCEPT !.st = "errored", !.err = "other"].onClose
          = sock.onClose
    BY <1>f, <2>1
  <2>6. QED
    BY <1>a, <2>1, <2>2, <2>3, <2>4, <2>5
<1>19. FrameStep => Same(sock') \/ DestroyEnd
  BY <1>2, <1>3, <1>4, <1>5, <1>6, <1>7, <1>8, <1>9, <1>10, <1>11 DEF FrameStep
<1>20. Answer \/ Disturbance \/ Connector => Same(sock')
  BY <1>6, <1>12, <1>13, <1>14, <1>15, <1>16, <1>17, <1>18
     DEF Answer, Disturbance, Connector
<1>21. QED
  BY <1>1, <1>6, <1>12, <1>15, <1>18, <1>19, <1>20 DEF Next

\* The context goes away only with the socket or in destroy().
LEMMA ContextStays ==
  ASSUME TypeOK, Next, ctx, ~ctx'
  PROVE  DestroyEnd \/ sock' = NoSock
<1>1. ~UserStep
  <2>1. \A r \in Requests : ~(Dispatch(r) \/ DispatchRefused(r) \/ Abort(r))
    BY DEF Dispatch, DispatchRefused, Abort, connVars
  <2>2. ~((\E value \in Pipelinings : SetPipelining(value)) \/ Close \/ Destroy)
    BY DEF SetPipelining, Close, Destroy, connVars
  <2>3. QED
    BY <2>1, <2>2 DEF UserStep
<1>2. FrameStep => DestroyEnd
  <2>1. ~(CallbackReturns \/ FailNext \/ CheckEmpty \/ DestroyCallback
          \/ Resume \/ LoopDestroyed \/ LoopClosed \/ LoopContext \/ LoopBusy
          \/ LoopDrain \/ PickNothing \/ PickAborted)
    BY DEF CallbackReturns, FailNext, CheckEmpty, DestroyCallback, connVars,
       Resume, LoopDestroyed, LoopClosed, LoopContext, LoopBusy, LoopDrain,
       PickNothing, PickAborted
  <2>2. ~(PickRename \/ PickConnect \/ PickWrite \/ WriteHead \/ Advance \/ Splice
          \/ Exit \/ FailAltname \/ AbortSocket \/ EndBody \/ WriterFail)
    BY DEF PickRename, PickConnect, PickWrite, WriteHead, Advance, Splice, Exit,
       FailAltname, AbortSocket, EndBody, WriterFail, connVars
  <2>3. ~(AfterHeaders \/ Complete \/ AfterEnd \/ UpgradeCall \/ Upgraded \/ CloseEnd)
    BY DEF AfterHeaders, Complete, AfterEnd, UpgradeCall, Upgraded, CloseEnd, connVars
  <2>4. QED
    BY <2>1, <2>2, <2>3 DEF FrameStep
<1>3. ~(TaskStep \/ ImmediateResume \/ Connector \/ BodyEnd \/ IdleValidated
        \/ SocketError \/ ResponseResumed)
  <2>1. ~(TaskStep \/ ImmediateResume)
    BY DEF TaskStep, TaskResume, TaskDrain, TaskClosed, TaskDestroyCallback,
       TaskDestroyed, ImmediateResume, connVars
  <2>2. ~(Connector \/ BodyEnd \/ IdleValidated \/ SocketError \/ ResponseResumed)
    BY DEF Connector, ConnectTooLate, ConnectOK, ConnectFail, BodyEnd, IdleValidated,
       SocketError, ResponseResumed, connVars
  <2>3. QED
    BY <2>1, <2>2
<1>4. Answer => ResponseUpgrade
  BY DEF Answer, ResponseHead, ResponseEnd, HeadersTimeout, BodyTimeout, Destroys, connVars
<1>5. ~Disturbance
  BY DEF Disturbance, ResponseData, KeepAliveTimeout, SocketEnd, SocketReset, BadBytes,
     BodyError, QueuedBodyError, Destroys, connVars
<1>6. SocketClose \/ ResponseUpgrade => sock' = NoSock
  BY DEF SocketClose, ResponseUpgrade
<1>7. QED
  BY <1>1, <1>2, <1>3, <1>4, <1>5, <1>6 DEF Next

\* destroy() runs once, ...
OneEnd == Above(stack, {"destroyEnd"}, Labels \ {"destroyEnd"})

\* ... so that the connection it is about to give up is still the client's.
EndCtx == "destroyEnd" \in On(stack) => ctx \/ sock.st = "none"

\* The frame of destroy() comes from a client that was not destroyed.
LEMMA EndPushed ==
  ASSUME TypeOK, Core, Destroy \/ TaskClosed, "destroyEnd" \in On(stack') \ On(stack)
  PROVE  /\ ~destroyed /\ BeginDestroy /\ "destroyEnd" \notin On(stack)
         /\ ctx' = ctx /\ sock' = sock
<1>1. TaskClosed /\ destroyed => stack' = stack
  BY DEF TaskClosed
<1>2. ~destroyed /\ BeginDestroy
  BY <1>1 DEF TaskClosed, Destroy
<1>3. ctx' = ctx /\ sock' = sock
  BY DEF TaskClosed, Destroy, connVars
<1>4. QED
  BY <1>2, <1>3

LEMMA OneEndStep ==
  ASSUME TypeOK, Core, OneEnd, Next
  PROVE  OneEnd'
<1> DEFINE upper == Labels \ {"destroyEnd"}
<1>1. PICK S, t : Pushes(S, t)
  BY NextPushes
<1>2. /\ stack \in Seq(Frames) /\ t \in Seq(Frames) /\ On(t) \subseteq On(stack)
      /\ t # stack => stack # <<>> /\ t = Caller
  BY <1>1, PushesOn, TypeParts
<1>3. PICK fs : stack' = fs \o t /\ Pile(fs, S)
  BY <1>1 DEF Pushes, Moves
<1>4. fs \in Seq(Frames) /\ On(fs) \subseteq S /\ On(fs) \subseteq Labels
  <2>1. fs \in Seq(Frames) /\ On(fs) \subseteq S
    BY <1>3 DEF Pile
  <2>2. \A i \in DOMAIN fs : fs[i] \in Frames
    BY <2>1, ElementOfSeq, LenProperties
  <2>3. QED
    BY <2>1, <2>2, FrameFields DEF On
<1>5. Above(t, {"destroyEnd"}, upper)
  BY <1>2, AboveTop DEF OneEnd
<1>6. CASE "destroyEnd" \notin On(fs)
  <2>1. Above(fs, {"destroyEnd"}, upper) /\ On(fs) \subseteq upper
    BY <1>4, <1>6, AboveNone
  <2>2. Above(fs \o t, {"destroyEnd"}, upper)
    BY <1>2, <1>4, <1>5, <2>1, AboveCat
  <2>3. QED
    BY <1>3, <2>2 DEF OneEnd
<1>7. CASE "destroyEnd" \in On(fs)
  <2>1. Destroy \/ TaskClosed
    BY <1>1, <1>4, <1>7 DEF Pushes, Listed
  <2>2. CASE stack' = stack
    BY <2>2 DEF OneEnd
  <2>3. CASE stack' # stack
    <3>1. ~destroyed /\ BeginDestroy
      BY <2>1, <2>3 DEF TaskClosed, Destroy
    <3>2. "destroyEnd" \notin On(stack)
      BY <3>1 DEF Core, Life
    <3>3. PICK gs : gs = Fail(From(queue, pendingIdx))
      OBVIOUS
    <3>4. gs \in Seq(Frames) /\ On(gs) \subseteq {"fail"}
      BY <3>3, OnFail, SpliceTypes, TypeParts
    <3>5. /\ Do("destroyEnd") \in Frames /\ <<Do("destroyEnd")>> \in Seq(Frames)
          /\ Above(<<Do("destroyEnd")>>, {"destroyEnd"}, upper)
      BY Labelled, FewFrames, PlainLabelsAre, AboveOne
    <3>6. Above(gs, {"destroyEnd"}, upper)
      BY <3>4, AboveNone
    <3>7. On(gs) \subseteq upper
      BY <3>4 DEF Labels
    <3>8. /\ gs \o <<Do("destroyEnd")>> \in Seq(Frames)
          /\ Above(gs \o <<Do("destroyEnd")>>, {"destroyEnd"}, upper)
      BY <3>4, <3>5, <3>6, <3>7, AboveCat, CatElements
    <3>9. Above(stack, {"destroyEnd"}, upper) /\ On(stack) \cap {"destroyEnd"} = {}
      BY <3>2 DEF OneEnd
    <3>10. Above((gs \o <<Do("destroyEnd")>>) \o stack, {"destroyEnd"}, upper)
      BY <1>2, <3>8, <3>9, AboveCat
    <3>11. stack' = (gs \o <<Do("destroyEnd")>>) \o stack
      BY <3>1, <3>3 DEF BeginDestroy, Call
    <3>12. QED
      BY <3>10, <3>11 DEF OneEnd
  <2>4. QED
    BY <2>2, <2>3
<1>8. QED
  BY <1>6, <1>7

LEMMA EndCtxStep ==
  ASSUME TypeOK, Core, OneEnd, EndCtx, Next
  PROVE  EndCtx'
<1> SUFFICES ASSUME "destroyEnd" \in On(stack'), ~ctx'
             PROVE  sock'.st = "none"
  BY DEF EndCtx
<1>1. PICK S, t : Pushes(S, t)
  BY NextPushes
<1>2. On(t) \subseteq On(stack) /\ On(stack') \subseteq S \cup On(t) /\ stack \in Seq(Frames)
  BY <1>1, PushesOn, TypeParts
<1>3. CASE "destroyEnd" \notin On(stack)
  <2>1. Destroy \/ TaskClosed
    BY <1>1, <1>2, <1>3 DEF Pushes, Listed
  <2>2. ~destroyed /\ ctx' = ctx /\ sock' = sock
    BY <1>3, <2>1, EndPushed
  <2>3. QED
    BY <2>2 DEF Core, Life
<1>4. CASE "destroyEnd" \in On(stack) /\ ctx
  <2>1. ~DestroyEnd
    <3>1. SUFFICES ASSUME DestroyEnd PROVE FALSE
      OBVIOUS
    <3>2. stack # <<>> /\ Top.at = "destroyEnd" /\ Moves({"resume"}, Caller)
      BY <3>1, QueueFrameMoves DEF DestroyEnd, At
    <3>3. On(Caller) \cap {"destroyEnd"} = {}
      BY <1>2, <3>2, AboveTop DEF OneEnd
    <3>4. On(stack') \subseteq {"resume"} \cup On(Caller)
      BY <1>2, <3>2, MovesOn, TopType
    <3>5. QED
      BY <3>3, <3>4
  <2>2. sock' = NoSock
    BY <1>4, <2>1, ContextStays
  <2>3. QED
    BY <2>2 DEF NoSock
<1>5. CASE "destroyEnd" \in On(stack) /\ ~ctx
  <2>1. sock.st = "none"
    BY <1>5 DEF EndCtx
  <2>2. ~WriteHead
    <3>1. "write" \notin On(stack)
      BY <2>1 DEF Core, NoWire, OfSocket
    <3>2. QED
      BY <1>2, <3>1, OnTop DEF WriteHead, At
  <2>3. ~ConnectOK
    BY DEF ConnectOK
  <2>4. PickConnect \/ Disconnects => sock'.st = "none"
    BY DEF PickConnect, Disconnects, NoSock
  <2>5. Remains(sock, sock') => sock'.st = "none"
    BY <2>1 DEF Remains
  <2>6. QED
    BY <2>2, <2>3, <2>4, <2>5, NextEffects DEF Effects
<1>6. QED
  BY <1>3, <1>4, <1>5

\* Between the 'close' event of the socket and the rest of its handler only
\* the requests it fails run, and resume() within a call of their users.
Mild(f) ==
  /\ f.at \in {"fail", "error", "abortSocket", "loop", "busy", "pick", "exit"}
  /\ f.at \in LoopLabels => f.sync
AllMild(s) == \A i \in DOMAIN s : Mild(s[i])
Closing ==
  \A i \in DOMAIN stack : stack[i].at = "closeEnd" => \A j \in 1..(i - 1) : Mild(stack[j])

LEMMA MildPush ==
  ASSUME TypeOK, Closing, NEW fs \in Seq(Frames), AllMild(fs), NEW t,
         stack' = fs \o t, t = stack \/ (stack # <<>> /\ t = Caller)
  PROVE  Closing'
<1>0. stack \in Seq(Frames) /\ t \in Seq(Frames)
  BY TypeParts, TopType
<1>1. \A i \in DOMAIN t : t[i].at = "closeEnd" => \A j \in 1..(i - 1) : Mild(t[j])
  <2>1. CASE t = stack
    BY <2>1 DEF Closing
  <2>2. CASE stack # <<>> /\ t = Caller
    <3>1. /\ DOMAIN stack = 1..Len(stack) /\ Len(stack) \in Nat \ {0}
          /\ DOMAIN Caller = 1..(Len(stack) - 1)
          /\ \A j \in 1..(Len(stack) - 1) : Caller[j] = stack[j + 1]
      BY <1>0, <2>2, EmptySeq, LenProperties, HeadTailProperties DEF Caller
    <3> SUFFICES ASSUME NEW i \in DOMAIN t, t[i].at = "closeEnd", NEW j \in 1..(i - 1)
                 PROVE  Mild(t[j])
      OBVIOUS
    <3>2. i \in 1..(Len(stack) - 1) /\ i + 1 \in DOMAIN stack /\ stack[i + 1].at = "closeEnd"
      BY <2>2, <3>1
    <3>3. /\ j \in 1..(Len(stack) - 1) /\ j + 1 \in 1..((i + 1) - 1)
      BY <3>1, <3>2
    <3>4. Mild(stack[j + 1])
      BY <3>2, <3>3 DEF Closing
    <3>5. QED
      BY <2>2, <3>1, <3>3, <3>4
  <2>3. QED
    BY <2>1, <2>2
<1> SUFFICES ASSUME NEW i \in DOMAIN stack', stack'[i].at = "closeEnd", NEW j \in 1..(i - 1)
             PROVE  Mild(stack'[j])
  BY DEF Closing, Mild
<1>2. /\ Len(fs) \in Nat /\ Len(t) \in Nat /\ DOMAIN stack' = 1..(Len(fs) + Len(t))
      /\ DOMAIN fs = 1..Len(fs) /\ DOMAIN t = 1..Len(t)
      /\ \A k \in 1..Len(fs) : stack'[k] = fs[k]
      /\ \A k \in 1..(Len(fs) + Len(t)) :
           k > Len(fs) => k - Len(fs) \in 1..Len(t) /\ stack'[k] = t[k - Len(fs)]
  BY <1>0, CatElements
<1>3. \A k \in DOMAIN fs : fs[k].at # "closeEnd"
  BY DEF AllMild, Mild
<1>4. i > Len(fs) /\ i \in 1..(Len(fs) + Len(t))
  BY <1>2, <1>3
<1>5. i - Len(fs) \in DOMAIN t /\ t[i - Len(fs)].at = "closeEnd"
  BY <1>2, <1>4
<1>6. CASE j <= Len(fs)
  <2>1. j \in DOMAIN fs /\ stack'[j] = fs[j]
    BY <1>2, <1>4, <1>6
  <2>2. QED
    BY <2>1 DEF AllMild
<1>7. CASE j > Len(fs)
  <2>1. j \in 1..(Len(fs) + Len(t)) /\ j - Len(fs) \in 1..((i - Len(fs)) - 1)
    BY <1>2, <1>4, <1>7
  <2>2. stack'[j] = t[j - Len(fs)]
    BY <1>2, <1>7, <2>1
  <2>3. QED
    BY <1>1, <1>5, <2>1, <2>2
<1>8. QED
  BY <1>2, <1>4, <1>6, <1>7

LEMMA MildFew ==
  /\ AllMild(<<>>)
  /\ \A f : Mild(f) => AllMild(<<f>>)
  /\ \A f, g : Mild(f) /\ Mild(g) => AllMild(<<f, g>>)
<1>1. DOMAIN <<>> = {}
  OBVIOUS
<1>2. \A f : DOMAIN <<f>> = {1} /\ <<f>>[1] = f
  OBVIOUS
<1>3. \A f, g : DOMAIN <<f, g>> = {1, 2} /\ <<f, g>>[1] = f /\ <<f, g>>[2] = g
  OBVIOUS
<1>4. AllMild(<<>>)
  BY <1>1 DEF AllMild
<1>5. ASSUME NEW f, Mild(f) PROVE AllMild(<<f>>)
  BY <1>2, <1>5 DEF AllMild
<1>6. ASSUME NEW f, NEW g, Mild(f), Mild(g) PROVE AllMild(<<f, g>>)
  <2>1. \A i \in DOMAIN <<f, g>> : i = 1 \/ i = 2
    BY <1>3
  <2>2. Mild(<<f, g>>[1]) /\ Mild(<<f, g>>[2])
    BY <1>3, <1>6
  <2>3. QED
    BY <2>1, <2>2 DEF AllMild
<1>7. QED
  BY <1>4, <1>5, <1>6

\* The frames such a step may push.
LEMMA MildFrames ==
  /\ \A r \in Requests : Frame("error", <<r>>) \in Frames /\ Mild(Frame("error", <<r>>))
  /\ Do("abortSocket") \in Frames /\ Mild(Do("abortSocket"))
  /\ Loop(TRUE) \in Frames /\ Mild(Loop(TRUE))
  /\ \A rs \in Seq(Slots) : /\ Fail(rs) \in Seq(Frames)
                            /\ Fail(rs) = <<>> \/ \E f \in Frames : Fail(rs) = <<f>> /\ Mild(f)
<1>1. \A r \in Requests : Frame("error", <<r>>) \in Frames /\ Mild(Frame("error", <<r>>))
  BY Labelled, RequestLabelsAre, ZenonT(30) DEF Mild, LoopLabels
<1>2. Do("abortSocket") \in Frames /\ Mild(Do("abortSocket"))
  BY Labelled, PlainLabelsAre DEF Mild, LoopLabels
<1>3. Loop(TRUE) \in Frames /\ Mild(Loop(TRUE))
  BY Labelled DEF Mild, LoopLabels, Loop
<1>4. ASSUME NEW rs \in Seq(Slots)
      PROVE  /\ Fail(rs) \in Seq(Frames)
             /\ Fail(rs) = <<>> \/ \E f \in Frames : Fail(rs) = <<f>> /\ Mild(f)
  <2>1. Frame("fail", rs) \in Frames
    BY FrameTypes, PlainLabelsAre
  <2>2. Mild(Frame("fail", rs))
    BY DEF Mild, Frame, LoopLabels
  <2>3. QED
    BY <2>1, <2>2, OnFail DEF Fail
<1>5. QED
  BY <1>1, <1>2, <1>3, <1>4

Quietly ==
  \E fs \in Seq(Frames) : /\ AllMild(fs)
                          /\ stack' = fs \o stack \/ stack' = fs \o Caller

LEMMA MildUser ==
  ASSUME CarefulUser, TypeOK, Nesting, Shape(stack), UserStep, stack # <<>>, Mild(Top)
  PROVE  Quietly /\ ~Destroy
<1>0. stack \in Seq(Frames) /\ <<>> \in Seq(Frames) /\ <<>> \o stack = stack
  BY TypeParts, ConcatEmptySeq, FewFrames
<1>1. \A op : UserMay(op) => Top.at = "error"
  <2>1. Top.at \in Callbacks => Top.at = "error"
    BY DEF Mild, Callbacks
  <2>2. QED
    BY <2>1, UserTop
<1>2. ~Destroy
  BY <1>1 DEF Destroy, CarefulUser, UserMay
<1>3. ASSUME stack' = stack PROVE Quietly
  BY <1>0, <1>3, MildFew DEF Quietly
<1>4. ASSUME stack' = <<Loop(TRUE)>> \o stack PROVE Quietly
  BY <1>4, MildFew, MildFrames, FewFrames DEF Quietly
<1>5. ASSUME NEW r \in Requests,
             stack' = <<Frame("error", <<r>>)>> \o stack \/ stack' = AbortFrames(r) \o stack
      PROVE  Quietly
  <2>1. PICK f : f = Frame("error", <<r>>)
    OBVIOUS
  <2>2. f \in Frames /\ Mild(f) /\ Do("abortSocket") \in Frames /\ Mild(Do("abortSocket"))
    BY <2>1, MildFrames
  <2>3. AbortFrames(r) = <<f>> \/ AbortFrames(r) = <<f, Do("abortSocket")>>
    BY <2>1, <2>2, CatFew DEF AbortFrames
  <2>4. /\ <<f>> \in Seq(Frames) /\ AllMild(<<f>>)
        /\ <<f, Do("abortSocket")>> \in Seq(Frames) /\ AllMild(<<f, Do("abortSocket")>>)
    BY <2>2, MildFew, FewFrames
  <2>5. QED
    BY <1>5, <2>1, <2>3, <2>4 DEF Quietly
<1>6. \A r \in Requests : Dispatch(r) => stack' = stack \/ stack' = <<Loop(TRUE)>> \o stack
  BY DEF Dispatch, Call
<1>7. \A r \in Requests :
        /\ DispatchRefused(r) => stack' = <<Frame("error", <<r>>)>> \o stack
        /\ Abort(r) => stack' = AbortFrames(r) \o stack
  BY DEF DispatchRefused, Abort, Call
<1>8. \A value \in Pipelinings :
        SetPipelining(value) => stack' = stack \/ stack' = <<Loop(TRUE)>> \o stack
  BY DEF SetPipelining, Call
<1>9. Close => stack' = stack
  BY DEF Close
<1>10. QED
  BY <1>2, <1>3, <1>4, <1>5, <1>6, <1>7, <1>8, <1>9 DEF UserStep

LEMMA MildFrameStep ==
  ASSUME TypeOK, FrameStep, ~ctx, Mild(Top)
  PROVE  Quietly
<1>0. /\ stack # <<>> /\ stack \in Seq(Frames) /\ Caller \in Seq(Frames)
      /\ <<>> \in Seq(Frames) /\ <<>> \o stack = stack /\ <<>> \o Caller = Caller
      /\ Top.reqs \in Seq(Slots)
  BY FramePushes, TypeParts, TopType, ConcatEmptySeq, FewFrames
<1>1. ~(\/ CheckEmpty \/ DestroyEnd \/ DestroyCallback \/ Resume \/ PickWrite \/ WriteHead
        \/ Advance \/ Splice \/ FailAltname \/ EndBody)
  BY DEF CheckEmpty, DestroyEnd, DestroyCallback, Resume, PickWrite, WriteHead, Advance,
     Splice, FailAltname, EndBody, At, Mild
<1>2. ~(\/ WriterFail \/ AfterHeaders \/ Complete \/ AfterEnd \/ UpgradeCall \/ Upgraded
        \/ CloseEnd)
  BY DEF WriterFail, AfterHeaders, Complete, AfterEnd, UpgradeCall, Upgraded, CloseEnd,
     At, Mild
<1>3. CASE stack' = stack \/ stack' = Caller
  BY <1>0, <1>3, MildFew DEF Quietly
<1>4. CallbackReturns \/ Exit \/ AbortSocket => stack' = Caller
  BY DEF CallbackReturns, Exit, AbortSocket
<1>5. PickRename => stack' = stack
  BY DEF PickRename
<1>6. ASSUME NEW label \in {"loop", "busy", "pick", "exit"}, Top.at \in LoopLabels,
             stack' = Goto(label)
      PROVE  Quietly
  <2>1. Moved(label, <<>>) \in Frames
    BY <1>0, <1>6, MovedLoop, PlainLabelsAre
  <2>2. Mild(Moved(label, <<>>))
    BY <1>6 DEF Mild, Moved, LoopLabels
  <2>3. <<Moved(label, <<>>)>> \in Seq(Frames) /\ AllMild(<<Moved(label, <<>>)>>)
    BY <2>1, <2>2, MildFew, FewFrames
  <2>4. QED
    BY <1>6, <2>3 DEF Quietly, Goto
<1>7. LoopDestroyed \/ LoopClosed \/ LoopContext
        => Top.at \in LoopLabels /\ \E label \in {"busy", "exit"} : stack' = Goto(label)
  BY DEF LoopDestroyed, LoopClosed, LoopContext, At, LoopLabels
<1>8. LoopBusy \/ PickNothing \/ PickAborted \/ PickConnect
        => Top.at \in LoopLabels /\ \E label \in {"loop", "pick", "exit"} : stack' = Goto(label)
  BY DEF LoopBusy, PickNothing, PickAborted, PickConnect, At, LoopLabels
<1>9. ASSUME LoopDrain PROVE Top.at \in LoopLabels /\ stack' = Goto("loop")
  <2>1. Top.at = "busy" /\ Top.sync
    BY <1>9 DEF LoopDrain, At, Mild, LoopLabels
  <2>2. stack' = <<>> \o Goto("loop")
    BY <1>9, <2>1 DEF LoopDrain
  <2>3. Goto("loop") \in Seq(Frames)
    BY <1>0, PlainLabelsAre, GotoType
  <2>4. QED
    BY <2>1, <2>2, <2>3, ConcatEmptySeq DEF LoopLabels
<1>10. ASSUME FailNext PROVE Quietly
  <2>1. \/ Top.reqs # <<>> /\ stack' = Become(Fail(Tail(Top.reqs)))
        \/ /\ Top.reqs # <<>> /\ ~ErrorSkips(Head(Top.reqs))
           /\ stack' = Become(<<Frame("error", <<Head(Top.reqs)>>)>> \o Fail(Tail(Top.reqs)))
    BY <1>10 DEF FailNext
  <2>2. Tail(Top.reqs) \in Seq(Slots) /\ Head(Top.reqs) \in Slots
    BY <1>0, <2>1, RangeTail
  <2>3. PICK gs : gs = Fail(Tail(Top.reqs))
    OBVIOUS
  <2>4. gs = <<>> \/ \E f \in Frames : gs = <<f>> /\ Mild(f)
    BY <2>2, <2>3, MildFrames
  <2>5. CASE stack' = gs \o Caller
    <3>1. gs \in Seq(Frames) /\ AllMild(gs)
      BY <2>4, MildFew, FewFrames
    <3>2. QED
      BY <2>5, <3>1 DEF Quietly
  <2>6. CASE /\ ~ErrorSkips(Head(Top.reqs))
             /\ stack' = (<<Frame("error", <<Head(Top.reqs)>>)>> \o gs) \o Caller
    <3>1. Head(Top.reqs) \in Requests
      BY <2>2, <2>6 DEF ErrorSkips, Slots
    <3>2. PICK f : f = Frame("error", <<Head(Top.reqs)>>)
      OBVIOUS
    <3>3. f \in Frames /\ Mild(f)
      BY <3>1, <3>2, MildFrames
    <3>4. <<f>> \o gs = <<f>> \/ \E g \in Frames : <<f>> \o gs = <<f, g>> /\ Mild(g)
      BY <2>4, <3>3, CatFew
    <3>5. <<f>> \o gs \in Seq(Frames) /\ AllMild(<<f>> \o gs)
      BY <3>3, <3>4, MildFew, FewFrames
    <3>6. QED
      BY <2>6, <3>2, <3>5 DEF Quietly
  <2>7. QED
    BY <2>1, <2>3, <2>5, <2>6 DEF Become
<1>11. LoopDestroyed \/ LoopClosed \/ LoopContext \/ LoopBusy \/ PickNothing
       \/ PickAborted \/ PickConnect \/ LoopDrain => Quietly
  BY <1>6, <1>7, <1>8, <1>9
<1>12. QED
  BY <1>1, <1>2, <1>3, <1>4, <1>5, <1>10, <1>11 DEF FrameStep

LEMMA MildTop ==
  ASSUME TypeOK, Closing, "closeEnd" \in On(stack), Top.at # "closeEnd"
  PROVE  stack # <<>> /\ Mild(Top)
<1>0. stack \in Seq(Frames) /\ stack # <<>>
  BY TypeParts, NothingOn
<1>1. PICK i \in DOMAIN stack : stack[i].at = "closeEnd"
  BY DEF On
<1>2. Top = stack[1] /\ DOMAIN stack = 1..Len(stack) /\ Len(stack) \in Nat
  BY <1>0, HeadTailProperties, LenProperties DEF Top
<1>3. i # 1
  BY <1>1, <1>2
<1>4. 1 \in 1..(i - 1)
  BY <1>2, <1>3
<1>5. QED
  BY <1>0, <1>1, <1>2, <1>4 DEF Closing

LEMMA ClosingStep ==
  ASSUME CarefulUser, TypeOK, Nesting, Shape(stack), Core, Closing, Next
  PROVE  Closing' /\ ("closeEnd" \in On(stack) => ~Destroy)
<1>0. stack \in Seq(Frames)
  BY TypeParts
<1>1. CASE SocketClose
  <2>1. stack = <<>> /\ Above(stack', Lost, {"fail"})
    BY <1>1, SocketCloseAbove DEF SocketClose, Quiet
  <2>2. \A i \in DOMAIN stack' : stack'[i].at = "closeEnd" =>
          \A j \in 1..(i - 1) : stack'[j].at = "fail"
    BY <2>1 DEF Above, Lost
  <2>3. \A f : f.at = "fail" => Mild(f)
    BY DEF Mild, LoopLabels
  <2>4. Closing'
    BY <2>2, <2>3 DEF Closing, Mild
  <2>5. QED
    BY <2>1, <2>4, NothingOn
<1>2. CASE ~SocketClose /\ "closeEnd" \notin On(stack)
  <2>1. PICK S, t : Pushes(S, t)
    BY NextPushes
  <2>2. On(t) \subseteq On(stack) /\ On(stack') \subseteq S \cup On(t) /\ "closeEnd" \notin S
    BY <1>2, <2>1, PushesOn DEF Pushes, Listed
  <2>3. "closeEnd" \notin On(stack')
    BY <1>2, <2>2
  <2>4. QED
    BY <1>2, <2>3 DEF On, Closing
<1>3. CASE "closeEnd" \in On(stack) /\ Top.at = "closeEnd"
  <2>1. stack # <<>>
    BY <1>3, NothingOn
  <2>2. CloseEnd
    BY <1>3, <2>1, TopRuns
  <2>3. Moves({"disconnect", "resume"}, Caller) /\ Caller \in Seq(Frames)
    BY <1>0, <2>1, <2>2, QueueFrameMoves, TopType
  <2>4. "closeEnd" \notin On(Caller)
    BY <1>3, <2>1, ShapeTop DEF Finishing
  <2>5. "closeEnd" \notin On(stack')
    BY <2>3, <2>4, MovesOn
  <2>6. ~Destroy
    <3>1. Top.at \notin Callbacks
      BY <1>3 DEF Callbacks
    <3>2. QED
      BY <2>1, <3>1, UserTop DEF Destroy
  <2>7. QED
    BY <2>5, <2>6 DEF On, Closing
<1>4. CASE "closeEnd" \in On(stack) /\ Top.at # "closeEnd"
  <2>1. stack # <<>>
    BY <1>4, NothingOn
  <2>2. Mild(Top)
    BY <1>4, MildTop
  <2>3. ~ctx
    <3>1. sock.st = "none"
      BY <1>4 DEF Core, WireMatches
    <3>2. QED
      BY <3>1 DEF Core, Life
  <2>4. UserStep \/ FrameStep
    <3>1. ~Event
      BY <2>1, EventPushes
    <3>2. QED
      BY <3>1 DEF Next, Event
  <2>5. Quietly
    BY <2>1, <2>2, <2>3, <2>4, MildUser, MildFrameStep
  <2>6. Closing'
    <3>1. PICK fs \in Seq(Frames) : AllMild(fs) /\ (stack' = fs \o stack \/ stack' = fs \o Caller)
      BY <2>5 DEF Quietly
    <3>2. QED
      BY <2>1, <3>1, MildPush
  <2>7. Destroy => UserStep
    BY DEF UserStep
  <2>8. QED
    BY <2>1, <2>2, <2>6, <2>7, MildUser
<1>5. QED
  BY <1>1, <1>2, <1>3, <1>4

----------------------------------------------------------------------------
(* What is left of the queue.                                               *)

\* A destroyed client has nothing pending, ...
Cut == destroyed => Pending <= 0

\* ... and nothing at all while it waits for the rest of a 'close' handler.
CloseCut == "closeEnd" \in On(stack) /\ destroyed => Size = 0

LEMMA ClearLength ==
  ASSUME TypeOK
  PROVE  Len([queue EXCEPT ![runningIdx + 1] = Null]) = Len(queue)
<1>1. queue \in Seq(Slots) /\ Len(queue) \in Nat /\ DOMAIN queue = 1..Len(queue)
  BY TypeParts, LenProperties
<1>2. Null \in Slots
  BY DEF Slots
<1>3. CASE runningIdx + 1 \in 1..Len(queue)
  BY <1>1, <1>2, <1>3, ExceptSeq
<1>4. CASE runningIdx + 1 \notin 1..Len(queue)
  <2>1. [queue EXCEPT ![runningIdx + 1] = Null] = queue
    <3>1. PICK q : q = [queue EXCEPT ![runningIdx + 1] = Null]
      OBVIOUS
    <3>2. q = queue
      BY <1>1, <1>4, <3>1, SeqEqual, LenProperties
    <3>3. QED
      BY <3>1, <3>2
  <2>2. QED
    BY <2>1
<1>5. QED
  BY <1>3, <1>4

LEMMA CutLengths ==
  ASSUME TypeOK, NEW i \in Nat
  PROVE  /\ Len(Upto(queue, i)) \in Nat /\ Len(Upto(queue, i)) <= Len(queue)
         /\ Len(Upto(queue, i)) <= i
         /\ Len(WithoutAt(queue, i)) \in Nat /\ Len(WithoutAt(queue, i)) <= Len(queue)
         /\ Len([queue EXCEPT ![runningIdx + 1] = Null]) = Len(queue)
<1>1. queue \in Seq(Slots) /\ Len(queue) \in Nat /\ DOMAIN queue = 1..Len(queue)
  BY TypeParts, LenProperties
<1>2. CASE i >= Len(queue)
  <2>1. Upto(queue, i) = queue /\ WithoutAt(queue, i) = queue
    BY <1>1, <1>2, SpliceElements, WithoutElements
  <2>2. QED
    BY <1>1, <1>2, <2>1, ClearLength
<1>3. CASE i < Len(queue)
  <2>0. i <= Len(queue)
    BY <1>1, <1>3
  <2>1. Len(Upto(queue, i)) = i /\ Len(WithoutAt(queue, i)) = Len(queue) - 1
    <3>1. Len(Upto(queue, i)) = i
      BY <1>1, <2>0, SpliceElements
    <3>2. Len(WithoutAt(queue, i)) = Len(queue) - 1
      BY <1>1, <1>3, WithoutElements
    <3>3. QED
      BY <3>1, <3>2
  <2>2. QED
    BY <1>1, <1>3, <2>1, ClearLength
<1>4. QED
  BY <1>1, <1>2, <1>3

LEMMA SocketCloseSize ==
  ASSUME TypeOK, Core, SocketClose, destroyed
  PROVE  Size' = 0
<1>1. runningIdx \in Nat /\ queue \in Seq(Slots) /\ runningIdx <= Len(queue)
  BY TypeParts DEF Core, Bounds
<1>2. queue' = Upto(queue, runningIdx) /\ runningIdx' = runningIdx
  BY DEF SocketClose, FailsHead
<1>3. Len(queue') = runningIdx
  BY <1>1, <1>2, SpliceElements
<1>4. QED
  BY <1>1, <1>2, <1>3 DEF Size

LEMMA DestroysOnly ==
  ASSUME TypeOK, Next, ~destroyed, destroyed'
  PROVE  /\ BeginDestroy /\ (Destroy \/ TaskClosed)
         /\ runningIdx' = runningIdx /\ pendingIdx' = pendingIdx
<1>1. Destroy \/ TaskClosed
  <2>1. Calm \/ Close \/ DestroyEnd \/ DestroyCallback \/ LoopClosed
        \/ TaskDestroyCallback \/ TaskDestroyed => destroyed' = destroyed
    BY DEF Calm, Close, DestroyEnd, DestroyCallback, LoopClosed, TaskDestroyCallback,
       TaskDestroyed, lifeVars
  <2>2. QED
    BY <2>1, LifeMoves
<1>2. QED
  BY <1>1 DEF Destroy, TaskClosed

LEMMA CloseCutStep ==
  ASSUME CarefulUser, TypeOK, TypeOK', Nesting, Shape(stack), Core, Core', Closing,
         CloseCut, Next
  PROVE  CloseCut'
<1> SUFFICES ASSUME "closeEnd" \in On(stack'), destroyed' PROVE Size' = 0
  BY DEF CloseCut
<1>1. CASE SocketClose
  <2>1. destroyed' = destroyed
    BY <1>1 DEF SocketClose, lifeVars
  <2>2. QED
    BY <1>1, <2>1, SocketCloseSize
<1>2. CASE ~SocketClose
  <2>1. PICK S, t : Pushes(S, t)
    BY NextPushes
  <2>2. On(t) \subseteq On(stack) /\ On(stack') \subseteq S \cup On(t) /\ "closeEnd" \notin S
    BY <1>2, <2>1, PushesOn DEF Pushes, Listed
  <2>3. "closeEnd" \in On(stack) /\ stack # <<>>
    BY <2>2, NothingOn
  <2>4. ~TaskClosed /\ ~Destroy
    BY <2>3, ClosingStep DEF TaskClosed, NextTask
  <2>5. destroyed
    BY <2>4, DestroysOnly
  <2>6. Size = 0
    BY <2>3, <2>5 DEF CloseCut
  <2>7. QED
    BY <2>5, <2>6, SizeStays
<1>3. QED
  BY <1>1, <1>2

LEMMA CutStep ==
  ASSUME TypeOK, TypeOK', Core, Core', CloseCut, Cut, Next
  PROVE  Cut'
<1> SUFFICES ASSUME destroyed' PROVE Pending' <= 0
  BY DEF Cut
<1>1. /\ runningIdx \in Nat /\ pendingIdx \in Nat /\ Len(queue) \in Nat
      /\ queue \in Seq(Slots) /\ runningIdx <= Len(queue) /\ runningIdx <= pendingIdx
  BY TypeParts, LenProperties DEF Core, Bounds
<1>2. Len(queue') \in Nat /\ pendingIdx' \in Int
  BY LenProperties DEF TypeOK
<1>3. CASE BeginDestroy /\ runningIdx' = runningIdx /\ pendingIdx' = pendingIdx
  <2>1. Len(queue') <= pendingIdx
    BY <1>1, <1>3, CutLengths DEF BeginDestroy
  <2>2. QED
    BY <1>1, <1>2, <1>3, <2>1 DEF Pending
<1>4. CASE ~destroyed
  BY <1>3, <1>4, DestroysOnly
<1>5. CASE destroyed
  <2>1. Len(queue) <= pendingIdx
    BY <1>1, <1>5 DEF Cut, Pending
  <2>2. ASSUME Len(queue') <= Len(queue), pendingIdx' = pendingIdx PROVE Pending' <= 0
    BY <1>1, <1>2, <2>1, <2>2 DEF Pending
  <2>3. CASE UNCHANGED qVars
    BY <1>1, <2>2, <2>3 DEF qVars
  <2>4. CASE PickAborted \/ Splice \/ FailAltname
    <3>1. /\ queue' = WithoutAt(queue, pendingIdx) \/ queue' = queue
          /\ pendingIdx' = pendingIdx
      BY <2>4 DEF PickAborted, Splice, FailAltname
    <3>2. Len(WithoutAt(queue, pendingIdx)) <= Len(queue) /\ Len(queue) <= Len(queue)
      BY <1>1, CutLengths
    <3>3. Len(queue') <= Len(queue)
      BY <3>1, <3>2
    <3>4. QED
      BY <2>2, <3>1, <3>3
  <2>5. CASE Advance
    <3>1. queue' = queue /\ pendingIdx' = pendingIdx + 1
      BY <2>5 DEF Advance
    <3>2. QED
      BY <1>1, <2>1, <3>1 DEF Pending
  <2>6. CASE Exit
    <3>1. UNCHANGED qVars \/ Compact
      BY <2>6 DEF Exit
    <3>2. CASE Compact
      <4>1. queue' = From(queue, runningIdx) /\ pendingIdx' = pendingIdx - runningIdx
        BY <3>2 DEF Compact
      <4>2. Len(queue') = Len(queue) - runningIdx
        BY <1>1, <4>1, SpliceElements
      <4>3. QED
        BY <1>1, <2>1, <4>1, <4>2 DEF Pending
    <3>3. QED
      BY <2>3, <3>1, <3>2
  <2>7. CASE CloseEnd
    <3>1. "closeEnd" \in On(stack)
      BY <2>7, TypeParts, OnTop DEF CloseEnd, At
    <3>2. Size = 0
      BY <1>5, <3>1 DEF CloseCut
    <3>3. queue' = queue /\ pendingIdx' = runningIdx
      BY <2>7 DEF CloseEnd
    <3>4. QED
      BY <1>1, <3>2, <3>3 DEF Size, Pending
  <2>8. CASE AfterEnd \/ ResponseUpgrade
    <3>1. /\ queue' = [queue EXCEPT ![runningIdx + 1] = Null]
          /\ pendingIdx' = pendingIdx
      BY <2>8 DEF AfterEnd, ResponseUpgrade
    <3>2. QED
      BY <1>1, <2>2, <3>1, CutLengths
  <2>9. CASE SocketError \/ SocketReset
    <3>1. /\ queue' = queue \/ queue' = Upto(queue, runningIdx)
          /\ pendingIdx' = pendingIdx
      BY <2>9 DEF SocketError, SocketReset, SocketErrors, QueueAfterError
    <3>2. Len(Upto(queue, runningIdx)) <= Len(queue) /\ Len(queue) <= Len(queue)
      BY <1>1, CutLengths
    <3>3. Len(queue') <= Len(queue)
      BY <3>1, <3>2
    <3>4. QED
      BY <2>2, <3>1, <3>3
  <2>10. CASE SocketClose
    <3>1. queue' = Upto(queue, runningIdx) /\ pendingIdx' = pendingIdx
      BY <1>5, <2>10 DEF SocketClose
    <3>2. QED
      BY <1>1, <2>2, <3>1, CutLengths
  <2>11. ~(\E r \in Requests : Dispatch(r)) /\ ~(\E e : ConnectFail(e))
    BY <1>5 DEF Dispatch, ConnectFail
  <2>12. QED
    BY <1>3, <2>3, <2>4, <2>5, <2>6, <2>7, <2>8, <2>9, <2>10, <2>11, QueueChanges
<1>6. QED
  BY <1>4, <1>5

----------------------------------------------------------------------------
(* What the ends of close() and destroy() mean.                             *)

\* The callback of destroy() waits for the socket of a destroyed client only.
ListensMeans == "destroy" \in sock.onClose => destroyed

\* From the callback of destroy() on nothing is left in the queue.
Past == \/ destroying = "done"
        \/ Range(micro) \cap {"destroyCallback", "destroyed"} # {}
        \/ "destroyCallback" \in On(stack)
PastMeans == Past => destroyed /\ Size = 0

\* close() goes on to destroy() when nothing is left, and ends after it.
ClosedMeans ==
  /\ closing \in {"waiting", "settled"} => closed
  /\ closing = "settled" /\ ~destroyed => Size = 0
  /\ closing = "done" => destroying = "done"

\* destroy() ends when every request has its outcome.
AllEnded == destroying = "done" => Range(dispatched) \subseteq Ended

LEMMA ListensStep ==
  ASSUME TypeOK, Core, ListensMeans, Next
  PROVE  ListensMeans'
<1> SUFFICES ASSUME "destroy" \in sock'.onClose PROVE destroyed'
  BY DEF ListensMeans
<1>1. CASE DestroyEnd
  <2>1. "destroyEnd" \in On(stack) /\ destroyed' = destroyed
    <3>1. stack # <<>> /\ Top.at = "destroyEnd"
      BY <1>1 DEF DestroyEnd, At
    <3>2. "destroyEnd" \in On(stack)
      BY <3>1, OnTop, TypeParts
    <3>3. destroyed' = destroyed
      BY <1>1 DEF DestroyEnd, lifeVars
    <3>4. QED
      BY <3>2, <3>3
  <2>2. QED
    BY <2>1 DEF Core, Life
<1>2. CASE ~DestroyEnd
  <2>1. destroyed
    BY <1>2, ListensComes DEF ListensMeans
  <2>2. QED
    BY <2>1, NextEffects DEF Effects
<1>3. QED
  BY <1>1, <1>2

LEMMA CallbackPushed ==
  ASSUME TypeOK, SocketClose, "destroyCallback" \in On(stack')
  PROVE  "destroy" \in sock.onClose
<1> SUFFICES ASSUME "destroy" \notin sock.onClose PROVE FALSE
  OBVIOUS
<1> DEFINE failed == IF destroyed THEN From(queue, runningIdx)
                     ELSE IF FailsHead THEN <<RunningHead>> ELSE <<>>
           again == IF "rename" \in sock.onClose THEN <<Do("resume")>> ELSE <<>>
<1>1. stack = <<>> /\ stack' = Call(Fail(failed) \o <<Do("closeEnd")>> \o again \o <<>>)
  BY DEF SocketClose, Quiet
<1>2. failed \in Seq(Slots)
  <2>1. From(queue, runningIdx) \in Seq(Slots) /\ RunningHead \in Slots
    BY SpliceTypes, TypeParts
  <2>2. <<RunningHead>> \in Seq(Slots)
    BY <2>1
  <2>3. QED
    BY <2>1, <2>2
<1>3. Fail(failed) \in Seq(Frames) /\ On(Fail(failed)) \subseteq {"fail"}
  BY <1>2, OnFail
<1>4. again \in Seq(Frames) /\ On(again) \subseteq {"resume"}
  <2>1. <<Do("resume")>> \in Seq(Frames) /\ On(<<Do("resume")>>) = {"resume"}
    BY Labelled, PlainLabelsAre, FewFrames, OnFew
  <2>2. QED
    BY <2>1, FewFrames, OnFew
<1>5. <<Do("closeEnd")>> \in Seq(Frames) /\ On(<<Do("closeEnd")>>) = {"closeEnd"}
  BY Labelled, PlainLabelsAre, FewFrames, OnFew
<1> HIDE DEF failed, again
<1>6. PICK a : a = Fail(failed) \o <<Do("closeEnd")>>
  OBVIOUS
<1>7. a \in Seq(Frames) /\ On(a) \subseteq {"fail", "closeEnd"}
  BY <1>3, <1>5, <1>6, OnCat, CatElements, ZenonT(30)
<1>8. PICK b : b = a \o again
  OBVIOUS
<1>9. b \in Seq(Frames) /\ On(b) \subseteq {"fail", "closeEnd", "resume"}
  BY <1>4, <1>7, <1>8, OnCat, CatElements
<1>10. stack' = b
  <2>1. b \o <<>> = b
    BY <1>9, ConcatEmptySeq
  <2>2. QED
    BY <1>1, <1>6, <1>8, <2>1 DEF Call
<1>11. QED
  BY <1>9, <1>10

\* What makes destroy() report: nothing was left when its callback was due.
LEMMA EndOfDestroy ==
  ASSUME TypeOK, Core, broken = "none", Closing, Cut, EndCtx, DestroyEnd, ~ctx
  PROVE  destroyed /\ Size = 0
<1>1. stack # <<>> /\ Top.at = "destroyEnd"
  BY DEF DestroyEnd, At
<1>2. "destroyEnd" \in On(stack)
  BY <1>1, OnTop, TypeParts
<1>3. "closeEnd" \notin On(stack)
  <2>1. ~Mild(Top)
    BY <1>1 DEF Mild
  <2>2. QED
    BY <1>1, <2>1, MildTop
<1>4. destroyed
  BY <1>2 DEF Core, Life
<1>5. Running = 0
  BY <1>2, <1>3 DEF EndCtx, Core, NoWire
<1>6. Pending <= 0
  BY <1>4 DEF Cut
<1>7. /\ Len(queue) \in Nat /\ runningIdx \in Nat /\ pendingIdx \in Int
      /\ runningIdx <= Len(queue)
  BY TypeParts, LenProperties DEF Core, Bounds
<1>8. Size = 0
  BY <1>5, <1>6, <1>7 DEF Running, Pending, Size
<1>9. QED
  BY <1>4, <1>8

LEMMA PastComes ==
  ASSUME TypeOK, Core, Next, Past', ~Past
  PROVE  \/ SocketClose /\ "destroy" \in sock.onClose
         \/ DestroyEnd /\ ~ctx
<1>1. /\ micro \in Seq(Tasks)
      /\ "closed" \in Tasks /\ "resume" \in Tasks /\ "drain" \in Tasks
  BY DEF TypeOK, Tasks
<1>r. /\ Range(Append(micro, "closed")) = Range(micro) \cup {"closed"}
      /\ Range(Append(micro, "resume")) = Range(micro) \cup {"resume"}
      /\ Range(Append(micro, "drain")) = Range(micro) \cup {"drain"}
      /\ micro # <<>> => Range(Tail(micro)) \subseteq Range(micro)
  BY <1>1, TaskRange
<1>2. /\ ~DestroyCallback /\ ~TaskDestroyCallback /\ ~TaskDestroyed
  <2>1. ~DestroyCallback
    BY TypeParts, OnTop DEF DestroyCallback, At, Past
  <2>2. ~NextTask("destroyCallback") /\ ~NextTask("destroyed")
    BY <1>1, TaskRange DEF NextTask, Past
  <2>3. QED
    BY <2>1, <2>2 DEF TaskDestroyCallback, TaskDestroyed
<1>3. CASE Calm
  <2>1. destroying' = destroying
    BY <1>3 DEF Calm, lifeVars
  <2>2. Range(micro') \subseteq Range(micro) \cup {"resume", "drain"}
    <3>1. \/ micro' = micro \/ micro' = Append(micro, "resume")
          \/ micro' = Append(micro, "drain")
          \/ micro # <<>> /\ micro' = Tail(micro)
      BY <1>3 DEF Calm
    <3>2. QED
      BY <1>r, <3>1
  <2>3. "destroyCallback" \in On(stack') \ On(stack)
    BY <2>1, <2>2 DEF Past
  <2>4. PICK S, t : Pushes(S, t)
    BY NextPushes
  <2>5. SocketClose
    BY <2>3, <2>4, PushesOn DEF Pushes, Listed
  <2>6. QED
    BY <2>3, <2>5, CallbackPushed
<1>4. CASE Close \/ Destroy \/ LoopClosed \/ TaskClosed
  <2>1. destroying' = destroying \/ destroying' = "waiting"
    BY <1>4 DEF Close, Destroy, LoopClosed, TaskClosed, BeginDestroy
  <2>2. Range(micro') \subseteq Range(micro) \cup {"closed"}
    <3>1. \/ micro' = micro \/ micro' = Append(micro, "closed")
          \/ micro # <<>> /\ micro' = Tail(micro)
      BY <1>4 DEF Close, Destroy, LoopClosed, TaskClosed, taskVars, NextTask
    <3>2. QED
      BY <1>r, <3>1
  <2>3. "destroyCallback" \in On(stack') \ On(stack)
    BY <2>1, <2>2 DEF Past
  <2>4. PICK S, t : Pushes(S, t)
    BY NextPushes
  <2>5. SocketClose
    BY <2>3, <2>4, PushesOn DEF Pushes, Listed
  <2>6. QED
    BY <2>3, <2>5, CallbackPushed
<1>5. CASE DestroyEnd
  <2>1. destroying' = destroying
    BY <1>5 DEF DestroyEnd, lifeVars
  <2>2. "destroyCallback" \notin On(stack')
    <3>1. stack # <<>> /\ Moves({"resume"}, Caller) /\ Caller \in Seq(Frames)
      BY <1>5, QueueFrameMoves, TypeParts, TopType DEF DestroyEnd, At
    <3>2. "destroyCallback" \notin On(Caller)
      BY <3>1, OnTop, TypeParts DEF Past
    <3>3. QED
      BY <3>1, <3>2, MovesOn
  <2>3. ctx => micro' = micro
    BY <1>5 DEF DestroyEnd
  <2>4. QED
    BY <1>5, <2>1, <2>2, <2>3 DEF Past
<1>6. QED
  BY <1>2, <1>3, <1>4, <1>5, LifeMoves

LEMMA PastStep ==
  ASSUME TypeOK, TypeOK', Core, Core', Closing, Cut, EndCtx, ListensMeans, PastMeans, Next
  PROVE  PastMeans'
<1> SUFFICES ASSUME Past' PROVE destroyed' /\ Size' = 0
  BY DEF PastMeans
<1>0. destroyed => destroyed'
  BY NextEffects DEF Effects
<1>1. CASE Past
  BY <1>0, <1>1, SizeStays DEF PastMeans
<1>2. CASE ~Past /\ SocketClose /\ "destroy" \in sock.onClose
  BY <1>0, <1>2, SocketCloseSize DEF ListensMeans
<1>3. CASE ~Past /\ DestroyEnd /\ ~ctx
  <2>1. destroyed /\ Size = 0
    BY <1>3, EndOfDestroy DEF Next
  <2>2. QED
    BY <1>0, <2>1, SizeStays
<1>4. QED
  BY <1>1, <1>2, <1>3, PastComes

LEMMA ClosedStep ==
  ASSUME TypeOK, TypeOK', Core, Core', PastMeans, ClosedMeans, Next
  PROVE  ClosedMeans'
<1>1. CASE UNCHANGED lifeVars
  <2>1. UNCHANGED <<closed, destroyed, closing, destroying>>
    BY <1>1 DEF lifeVars
  <2>2. closing' = "settled" /\ ~destroyed' => Size' = 0
    BY <2>1, SizeStays DEF ClosedMeans
  <2>3. QED
    BY <2>1, <2>2 DEF ClosedMeans
<1>2. CASE Close
  <2>1. /\ closed' /\ closing' \in {"waiting", "settled"}
        /\ closing' = "settled" => Size = 0
    BY <1>2 DEF Close, Waits
  <2>2. Size' = Size
    BY <1>2 DEF Close, qVars, Size
  <2>3. QED
    BY <2>1, <2>2 DEF ClosedMeans
<1>3. CASE Destroy
  <2>1. /\ ~destroyed /\ destroyed' /\ closing' = closing /\ closed' = closed
        /\ destroying # "done"
    BY <1>3 DEF Destroy, BeginDestroy, PastMeans, Past
  <2>2. QED
    BY <2>1 DEF ClosedMeans
<1>4. CASE DestroyCallback \/ TaskDestroyCallback
  <2>1. /\ closing' = IF closing = "waiting" THEN "settled" ELSE closing
        /\ UNCHANGED <<closed, destroyed, destroying>>
    BY <1>4 DEF DestroyCallback, TaskDestroyCallback, SettleDestroy
  <2>2. destroyed
    <3>1. DestroyCallback => "destroyCallback" \in On(stack)
      BY OnTop, TypeParts DEF DestroyCallback, At
    <3>2. micro \in Seq(Tasks)
      BY DEF TypeOK
    <3>3. TaskDestroyCallback => "destroyCallback" \in Range(micro)
      BY <3>2, TaskRange DEF TaskDestroyCallback, NextTask
    <3>4. QED
      BY <1>4, <3>1, <3>3 DEF PastMeans, Past
  <2>3. QED
    BY <2>1, <2>2 DEF ClosedMeans
<1>5. CASE LoopClosed
  <2>1. /\ closing = "waiting" /\ closing' = "settled" /\ Size = 0
        /\ UNCHANGED <<closed, destroyed, destroying>>
    BY <1>5 DEF LoopClosed
  <2>2. Size' = Size
    BY <1>5 DEF LoopClosed, qVars, Size
  <2>3. QED
    BY <2>1, <2>2 DEF ClosedMeans
<1>6. CASE TaskClosed
  <2>1. /\ closing' = IF destroying = "done" THEN "done" ELSE "joined"
        /\ destroyed => destroying' = destroying
    BY <1>6 DEF TaskClosed
  <2>2. destroying = "done" => destroyed
    BY DEF PastMeans, Past
  <2>3. QED
    BY <2>1, <2>2 DEF ClosedMeans
<1>7. CASE TaskDestroyed
  <2>1. /\ destroying' = "done" /\ closing' \in {"done", closing}
        /\ UNCHANGED <<closed, destroyed>>
    BY <1>7 DEF TaskDestroyed
  <2>2. destroyed
    <3>1. micro \in Seq(Tasks)
      BY DEF TypeOK
    <3>2. "destroyed" \in Range(micro)
      BY <1>7, <3>1, TaskRange DEF TaskDestroyed, NextTask
    <3>3. QED
      BY <3>2 DEF PastMeans, Past
  <2>3. QED
    BY <2>1, <2>2 DEF ClosedMeans
<1>8. QED
  <2>1. Calm \/ DestroyEnd => UNCHANGED lifeVars
    BY DEF Calm, DestroyEnd
  <2>2. QED
    BY <1>1, <1>2, <1>3, <1>4, <1>5, <1>6, <1>7, <2>1, LifeMoves

\* Between jobs an empty queue leaves no request without an outcome.
LEMMA NothingLeft ==
  ASSUME TypeOK, Kept, stack = <<>>, Size = 0
  PROVE  Range(dispatched) \subseteq Ended
<1>1. runningIdx \in Nat /\ Len(queue) \in Nat
  BY TypeParts, LenProperties
<1>2. (runningIdx + 1)..Len(queue) = {}
  BY <1>1 DEF Size
<1>3. Queued = {} /\ Held(stack) = {}
  BY <1>2, PlainHeld DEF Queued
<1>4. QED
  BY <1>3 DEF Kept

LEMMA AllEndedStep ==
  ASSUME TypeOK, Core, Kept, PastMeans, AllEnded, Next
  PROVE  AllEnded'
<1> SUFFICES ASSUME destroying' = "done" PROVE Range(dispatched') \subseteq Ended'
  BY DEF AllEnded
<1>1. /\ destroyed /\ Range(dispatched) \subseteq Ended
  <2>1. CASE destroying = "done"
    BY <2>1 DEF AllEnded, PastMeans, Past
  <2>2. CASE destroying # "done"
    <3>1. TaskDestroyed
      <4>1. Calm \/ Close \/ Destroy \/ DestroyEnd \/ DestroyCallback \/ LoopClosed
            \/ TaskClosed \/ TaskDestroyCallback => destroying' # "done"
        BY <2>2 DEF Calm, Close, Destroy, DestroyEnd, DestroyCallback, LoopClosed,
           TaskClosed, TaskDestroyCallback, BeginDestroy, lifeVars
      <4>2. QED
        BY <4>1, LifeMoves
    <3>2. stack = <<>> /\ micro # <<>> /\ Head(micro) = "destroyed"
      BY <3>1 DEF TaskDestroyed, NextTask
    <3>3. micro \in Seq(Tasks)
      BY DEF TypeOK
    <3>4. destroyed /\ Size = 0
      BY <3>2, <3>3, TaskRange DEF PastMeans, Past
    <3>5. QED
      BY <3>2, <3>4, NothingLeft
  <2>3. QED
    BY <2>1, <2>2
<1>2. Ended \subseteq Ended'
  BY EndedGrows
<1>3. CASE dispatched' = dispatched
  BY <1>1, <1>2, <1>3
<1>4. CASE \E r \in Requests : Dispatch(r) \/ DispatchRefused(r)
  <2>1. PICK r \in Requests : Dispatch(r) \/ DispatchRefused(r)
    BY <1>4
  <2>2. ~Dispatch(r)
    BY <1>1 DEF Dispatch
  <2>3. Range(dispatched') = Range(dispatched) \cup {r} /\ r \in Ended'
    BY <2>1, <2>2, DispatchKept
  <2>4. QED
    BY <1>1, <1>2, <2>3
<1>5. QED
  BY <1>3, <1>4, NextHistory

----------------------------------------------------------------------------
(* The theorem.                                                             *)

\* The inductive invariant: what is known of every request, and what is left
\* at each stage of close() and destroy().
OverInv ==
  /\ EndInv
  /\ Known /\ Once /\ Distinct /\ LeavesOnce /\ NotDone
  /\ OneEnd /\ EndCtx /\ Closing /\ CloseCut /\ Cut
  /\ ListensMeans /\ PastMeans /\ ClosedMeans /\ AllEnded

LEMMA InitOver == Init => OverInv
<1> SUFFICES ASSUME Init PROVE OverInv
  OBVIOUS
<1>1. EndInv
  BY InitEnd
<1>2. /\ queue = <<>> /\ runningIdx = 0 /\ stack = <<>> /\ dispatched = <<>>
      /\ micro = <<>> /\ aborted = {} /\ completed = {} /\ sock = NoSock
      /\ ~destroyed /\ closing = "open" /\ destroying = "no"
      /\ \A r \in Requests : sent[r] = 0 /\ ends[r] = 0
  BY DEF Init
<1>3. On(stack) = {} /\ DOMAIN stack = {} /\ Held(stack) = {}
  BY <1>2, NothingOn, PlainHeld
<1>4. (runningIdx + 1)..Len(queue) = {} /\ Queued = {} /\ Ended = {} /\ Range(micro) = {}
  BY <1>2 DEF Queued, Ended, Range
<1>5. Written = {} /\ Upgrading = {}
  BY <1>3 DEF Written, Upgrading
<1>6. Begun = {} /\ Over = {}
  BY <1>2, <1>3, <1>4, <1>5 DEF Begun, Over
<1>7. Known /\ Once /\ Distinct /\ LeavesOnce /\ NotDone
  BY <1>2, <1>3, <1>4, <1>5, <1>6 DEF Known, Once, Distinct, LeavesOnce, NotDone
<1>8. OneEnd /\ EndCtx /\ Closing /\ CloseCut /\ Cut
  BY <1>2, <1>3 DEF OneEnd, Above, EndCtx, Closing, CloseCut, Cut
<1>9. "destroy" \notin sock.onClose
  BY <1>2 DEF NoSock
<1>10. ListensMeans /\ PastMeans /\ ClosedMeans /\ AllEnded
  BY <1>2, <1>3, <1>4, <1>9 DEF ListensMeans, PastMeans, Past, ClosedMeans, AllEnded
<1>11. QED
  BY <1>1, <1>7, <1>8, <1>10 DEF OverInv

LEMMA OverStep ==
  ASSUME CarefulUser, OverInv, [Next]_vars
  PROVE  OverInv'
<1>1. EndInv'
  BY EndStep DEF OverInv
<1>2. /\ TypeOK /\ Nesting /\ Shape(stack) /\ Core /\ Kept
      /\ TypeOK' /\ Core'
  BY <1>1 DEF OverInv, EndInv, ShareInv, WireInv
<1>3. CASE Next
  <2>1. Known' /\ Once' /\ Distinct' /\ LeavesOnce' /\ NotDone'
    BY <1>2, <1>3, KnownStep, DistinctStep, LeavesOnceStep, NotDoneStep DEF OverInv
  <2>2. OneEnd' /\ EndCtx' /\ Closing' /\ CloseCut' /\ Cut'
    BY <1>2, <1>3, OneEndStep, EndCtxStep, ClosingStep, CloseCutStep, CutStep DEF OverInv
  <2>3. ListensMeans' /\ PastMeans' /\ ClosedMeans' /\ AllEnded'
    BY <1>2, <1>3, ListensStep, PastStep, ClosedStep, AllEndedStep DEF OverInv
  <2>4. QED
    BY <1>1, <2>1, <2>2, <2>3 DEF OverInv
<1>4. CASE UNCHANGED vars
  <2>1. /\ UNCHANGED <<queue, runningIdx, pendingIdx, stack, dispatched, micro, sock, ctx>>
        /\ UNCHANGED <<closed, destroyed, closing, destroying, aborted, completed, sent, ends>>
    BY <1>4 DEF vars, qVars, connVars, lifeVars, taskVars, reqVars, histVars
  <2>2. Queued' = Queued /\ Ended' = Ended /\ Written' = Written /\ Upgrading' = Upgrading
    BY <2>1 DEF Queued, Ended, Written, Upgrading
  <2>3. Begun' = Begun /\ Over' = Over
    BY <2>1, <2>2 DEF Begun, Over
  <2>4. Known' /\ Once' /\ Distinct' /\ LeavesOnce' /\ NotDone'
    BY <2>1, <2>2, <2>3 DEF OverInv, Known, Once, Distinct, LeavesOnce, NotDone
  <2>5. Size' = Size /\ Pending' = Pending
    BY <2>1 DEF Size, Pending
  <2>6. OneEnd' /\ EndCtx' /\ Closing' /\ CloseCut' /\ Cut'
    BY <2>1, <2>5 DEF OverInv, OneEnd, EndCtx, Closing, CloseCut, Cut, Mild
  <2>7. ListensMeans' /\ PastMeans' /\ ClosedMeans' /\ AllEnded'
    BY <2>1, <2>2, <2>5 DEF OverInv, ListensMeans, PastMeans, Past, ClosedMeans, AllEnded
  <2>8. QED
    BY <1>1, <2>4, <2>6, <2>7 DEF OverInv
<1>5. QED
  BY <1>3, <1>4

LEMMA OverMeans ==
  ASSUME OverInv
  PROVE  EndsAreOver
<1>1. TypeOK /\ Kept /\ Once /\ ClosedMeans /\ AllEnded
  BY DEF OverInv, EndInv, ShareInv, WireInv
<1>2. ends \in [Requests -> Nat] /\ dispatched \in Seq(Requests)
  BY <1>1 DEF TypeOK
<1>3. Range(dispatched) \subseteq Ended => \A r \in Range(dispatched) : ends[r] = 1
  <2> SUFFICES ASSUME Range(dispatched) \subseteq Ended, NEW r \in Range(dispatched)
               PROVE  ends[r] = 1
    OBVIOUS
  <2>1. r \in Requests /\ ends[r] > 0
    BY DEF Ended
  <2>2. ends[r] \in Nat /\ ends[r] <= 1
    BY <1>1, <1>2, <2>1 DEF Once
  <2>3. QED
    BY <2>1, <2>2
<1>4. destroying = "done" \/ closing = "done" => Range(dispatched) \subseteq Ended
  BY <1>1 DEF ClosedMeans, AllEnded
<1>5. AtRest /\ closing = "settled" /\ ~destroyed => Range(dispatched) \subseteq Ended
  BY <1>1, NothingLeft DEF ClosedMeans, AtRest
<1>6. QED
  BY <1>1, <1>3, <1>4, <1>5 DEF EndsAreOver, Once

\* Every request has at most one outcome: the flags aborted and completed of
\* request.js keep onResponseError, onResponseEnd and onRequestUpgrade from
\* being called after one of them.  destroy() calls back, and close() after it,
\* only when every dispatched request has had its outcome, and close() goes on
\* to destroy() when nothing is left (dispatcher-base.js, [kDestroy] and
\* [kClose] of client.js).
THEOREM OneOutcomeEach == CarefulUser /\ Spec => []EndsAreOver
<1> SUFFICES ASSUME CarefulUser PROVE Spec => []EndsAreOver
  OBVIOUS
<1>1. Init => OverInv
  BY InitOver
<1>2. OverInv /\ [Next]_vars => OverInv'
  BY OverStep
<1>3. OverInv => EndsAreOver
  BY OverMeans
<1>4. QED
  BY <1>1, <1>2, <1>3, PTL DEF Spec

=============================================================================

---------------------------- MODULE FetchProofs ----------------------------
(***************************************************************************)
(* What a user of fetch() may rely on, for any options, statuses, bodies   *)
(* and redirect limits: the body that ends is the body that was sent, and  *)
(* one exchange at a time is under way, none once the user has aborted.    *)
(***************************************************************************)
EXTENDS Fetch, BlobFetch, SequenceTheorems, TLAPS

----------------------------------------------------------------------------
(* The types of the state.                                                  *)

Places == {"start", "await", "check", "main", "verify", "answer", "done"}

HopSet ==
  [st : {"queued", "running", "ended", "failed"}, promise : {"pending", "head", "error"},
   status : Statuses \cup {"none"}, again : BOOLEAN, aborted : BOOLEAN, sent : Nat,
   body : {"none", "open", "eof", "failed"}, chunks : Nat, paused : BOOLEAN,
   stream : {"none", "readable", "closed", "errored"}]

Controllers ==
  [state : {"ongoing", "aborted", "terminated"}, hop : Nat, destroyed : BOOLEAN,
   armed : BOOLEAN, onAborted : Nat, stream : Nat, dump : BOOLEAN, ended : BOOLEAN,
   encoded : BOOLEAN]

UserStates ==
  [promise : {"pending", "resolved", "rejected"}, aborted : BOOLEAN, cancelled : BOOLEAN,
   reading : BOOLEAN, got : Nat]

TypeOK ==
  /\ at \in Places /\ ctl \in Controllers /\ hops \in Seq(HopSet)
  /\ response \in [type : {"none", "error", "default"}, hop : Nat]
  /\ user \in UserStates

\* The hop that is under way, or was the last.
Last == hops[ctl.hop]

\* From here on the chain dispatches nothing more.
Late == at \in {"verify", "answer", "done"}

\* Nothing happens between the job that brings a head and its microtasks.
NothingBetween == ~ErrorWithHead /\ ~AbortWithHead

----------------------------------------------------------------------------
(* The inductive invariant.                                                 *)

\* ctl.hop is the last hop, and the streams are those of hops.
Indices ==
  /\ ctl.hop = Len(hops)
  /\ at = "start" <=> hops = <<>>
  /\ ctl.stream \in 0..Len(hops) /\ ctl.onAborted \in 0..ctl.stream
  /\ ctl.stream # 0 => ctl.onAborted # 0

\* The response is that of the last hop, for which the last stream was made.
Answered ==
  /\ response.hop # 0 => response.hop = ctl.hop /\ ctl.stream = ctl.hop
  /\ at = "await" => response = NoResponse
  /\ at \in {"check", "verify"} => response.hop # 0
  /\ at = "start" => response.hop = 0
  /\ at = "main" /\ response.type = "default" => response.hop # 0
  /\ response.type # "default" => response.hop = 0

\* Hops but the last are over and hold nothing.
Over == \A h \in 1..(Len(hops) - 1) : hops[h].st = "ended" /\ hops[h].body = "none"

\* How far the last hop is, and whether abort() of its controller would act.
Progress ==
  at # "start" =>
    /\ Last.st = "queued" => Last.status = "none"
    /\ Last.st \in {"queued", "running"} /\ Last.status = "none" => at = "await"
    /\ Last.promise = "head" => Last.status # "none"
    /\ at \in {"check"} => Last.promise = "head"
    /\ Last.promise = "error" => Last.st = "failed" \/ Last.status # "none"
    /\ Last.st = "running" => ctl.armed
    /\ ctl.destroyed => Last.st # "running"
    /\ Last.aborted => Last.st \in {"ended", "failed"}
    /\ Last.status = "none" => Last.body = "none" /\ Last.sent = 0 /\ Last.chunks = 0
    /\ Last.st = "running" /\ Last.status # "none" => Last.body # "none"

\* A fetch that has given up sends nothing more, and no head comes after that.
GivesUp ==
  /\ at \in {"start", "check"} => ~IsCancelled
  /\ IsCancelled => GivenUp(Last)
  /\ IsCancelled /\ at = "await" => Last.promise # "head"
  /\ user.aborted => IsCancelled
  /\ ctl.destroyed /\ ~IsCancelled => at \notin {"start", "await", "check"}

Core == TypeOK /\ Indices /\ Answered /\ Over /\ Progress /\ GivesUp

\* Nobody reads before the response is there.
Reads == user.reading \/ user.got # 0 => Late

\* What was sent was taken or waits for the reader.
Counts ==
  hops # <<>> /\ Last.body \in {"open", "eof"} /\ (Late => response.hop # 0) =>
    user.got + Last.chunks = Last.sent

\* The listener of 'terminated' finds the first stream readable, so it errors
\* the last one.
Listens ==
  /\ ~IsCancelled /\ ctl.onAborted # 0 =>
       \/ hops[ctl.onAborted].stream = "readable"
       \/ ctl.onAborted = ctl.stream /\ Late
  /\ IsCancelled => Stream # "readable"

\* How the last hop's body ends.  One that failed on its own has told the
\* controller; a redirect without Location is given up, and is the first hop.
BodyEnds ==
  /\ hops = <<>> => ~ctl.ended
  /\ hops # <<>> =>
      /\ Last.body = "eof" => Last.st = "ended"
      /\ Last.body = "failed" => IsCancelled \/ Last.st = "failed"
      /\ Last.st = "failed" /\ ~IsCancelled =>
           at \notin {"await", "check"} /\ (response.hop # 0 => ctl.hop = 1 \/ LateBare)
      /\ Last.status = "bare" => ctl.hop = 1 \/ LateBare
      /\ ctl.ended /\ ctl.hop = 1 => Last.st = "ended"

\* The first part of BodyIsHonest.
Closes == Stream = "closed" /\ ~user.cancelled /\ ~LateBare =>
  Last.st = "ended" /\ user.got = Last.sent

IInv == Core /\ Reads /\ Counts /\ Listens /\ BodyEnds /\ Closes

----------------------------------------------------------------------------
(* The operators on hops.                                                   *)

\* hs with hop h replaced.
Put(hs, h, hop) == [hs EXCEPT ![h] = hop]

LEMMA PutHop ==
  ASSUME NEW hs \in Seq(HopSet), NEW h \in 1..Len(hs), NEW hop \in HopSet
  PROVE  /\ Put(hs, h, hop) \in Seq(HopSet)
         /\ Len(Put(hs, h, hop)) = Len(hs)
         /\ Put(hs, h, hop)[h] = hop
         /\ \A i \in 1..Len(hs) : i # h => Put(hs, h, hop)[i] = hs[i]
BY ExceptSeq, LenProperties DEF Put

LEMMA HopAt ==
  ASSUME NEW hs \in Seq(HopSet), NEW h \in 1..Len(hs)
  PROVE  hs[h] \in HopSet
BY ElementOfSeq

LEMMA FailedHop ==
  ASSUME NEW h \in HopSet
  PROVE  /\ Failed(h) \in HopSet /\ Failed(h).st = "failed" /\ Failed(h).chunks = 0
         /\ Failed(h).promise # "pending" /\ Failed(h).body \in {"none", "failed"}
         /\ Failed(h).body = "none" <=> h.body = "none"
         /\ h.promise # "pending" => Failed(h).promise = h.promise
         /\ h.promise = "pending" => Failed(h).promise = "error"
         /\ Failed(h).status = h.status /\ Failed(h).stream = h.stream
         /\ Failed(h).sent = h.sent /\ Failed(h).aborted = h.aborted
BY DEF Failed, Destroyed, Rejected, HopSet

\* What abort() of a controller leaves of its hop.
LEMMA AbortHop ==
  ASSUME NEW h \in HopSet
  PROVE  /\ Abort(h) \in HopSet /\ Abort(h).aborted /\ Abort(h).stream = h.stream
         /\ h.st \in {"ended", "failed"} => Abort(h) = [h EXCEPT !.aborted = TRUE]
         /\ h.st \in {"queued", "running"} => Abort(h) = [Failed(h) EXCEPT !.aborted = TRUE]
<1>1. Failed(h) \in HopSet /\ Failed(h).stream = h.stream
  BY FailedHop
<1>2. CASE h.st \in {"ended", "failed"}
  <2>1. Abort(h) = [h EXCEPT !.aborted = TRUE]
    BY <1>2 DEF Abort
  <2>2. QED
    BY <1>2, <2>1 DEF HopSet
<1>3. CASE h.st \in {"queued", "running"}
  <2>1. Abort(h) = [Failed(h) EXCEPT !.aborted = TRUE]
    BY <1>3 DEF Abort
  <2> HIDE DEF Failed
  <2>2. QED
    BY <1>1, <1>3, <2>1 DEF HopSet
<1>4. QED
  BY <1>2, <1>3 DEF HopSet

\* connection.destroy() concerns the last hop, and not its stream.
LEMMA DestroyHops ==
  ASSUME NEW hs \in Seq(HopSet), ctl.hop \in 1..Len(hs)
  PROVE  /\ Destroy(hs) \in Seq(HopSet) /\ Len(Destroy(hs)) = Len(hs)
         /\ \A i \in 1..Len(hs) : i # ctl.hop => Destroy(hs)[i] = hs[i]
         /\ Destroy(hs)[ctl.hop] =
              IF ctl.armed /\ ~ctl.destroyed /\ ~hs[ctl.hop].aborted
              THEN Abort(hs[ctl.hop]) ELSE hs[ctl.hop]
<1>1. hs[ctl.hop] \in HopSet
  BY HopAt
<1>2. Abort(hs[ctl.hop]) \in HopSet
  BY <1>1, AbortHop
<1>3. Destroy(hs) = IF ctl.armed /\ ~ctl.destroyed /\ ~hs[ctl.hop].aborted
                   THEN Put(hs, ctl.hop, Abort(hs[ctl.hop])) ELSE hs
  BY DEF Destroy, Put
<1> DEFINE gone == Abort(hs[ctl.hop])
<1> HIDE DEF gone
<1> DEFINE put == Put(hs, ctl.hop, gone)
<1>4. /\ put \in Seq(HopSet) /\ Len(put) = Len(hs) /\ put[ctl.hop] = gone
      /\ \A i \in 1..Len(hs) : i # ctl.hop => put[i] = hs[i]
  <2>1. gone \in HopSet
    BY <1>2 DEF gone
  <2>2. QED
    BY <2>1, PutHop
<1> HIDE DEF put
<1>5. CASE ctl.armed /\ ~ctl.destroyed /\ ~hs[ctl.hop].aborted
  BY <1>3, <1>4, <1>5 DEF put, gone
<1>6. CASE ~(ctl.armed /\ ~ctl.destroyed /\ ~hs[ctl.hop].aborted)
  BY <1>3, <1>6
<1>7. QED
  BY <1>5, <1>6

\* A hop with another stream.
WithStream(h, stream) == [h EXCEPT !.stream = stream]
Streams(hs, h, stream) == Put(hs, h, WithStream(hs[h], stream))

LEMMA StreamHop ==
  ASSUME NEW hs \in Seq(HopSet), NEW h \in 1..Len(hs),
         NEW stream \in {"none", "readable", "closed", "errored"}
  PROVE  /\ Streams(hs, h, stream) \in Seq(HopSet)
         /\ Len(Streams(hs, h, stream)) = Len(hs)
         /\ Streams(hs, h, stream)[h] = WithStream(hs[h], stream)
         /\ \A i \in 1..Len(hs) : i # h => Streams(hs, h, stream)[i] = hs[i]
<1>1. hs[h] \in HopSet
  BY HopAt
<1>2. WithStream(hs[h], stream) \in HopSet
  BY <1>1 DEF HopSet, WithStream
<1>3. QED
  BY <1>2, PutHop DEF Streams

\* The listener of 'terminated' concerns the last stream.
LEMMA ErrorHops ==
  ASSUME NEW hs \in Seq(HopSet), ctl.stream \in 0..Len(hs), ctl.onAborted \in 0..ctl.stream
  PROVE  /\ OnAborted(hs) \in Seq(HopSet) /\ Len(OnAborted(hs)) = Len(hs)
         /\ \A i \in 1..Len(hs) : i # ctl.stream => OnAborted(hs)[i] = hs[i]
         /\ ctl.onAborted # 0 =>
              OnAborted(hs)[ctl.stream] =
                IF hs[ctl.onAborted].stream = "readable" /\ hs[ctl.stream].stream = "readable"
                THEN WithStream(hs[ctl.stream], "errored") ELSE hs[ctl.stream]
<1>1. CASE ctl.onAborted = 0
  BY <1>1 DEF OnAborted
<1>2. CASE ctl.onAborted # 0
  <2>1. ctl.stream \in 1..Len(hs)
    BY <1>2, LenProperties
  <2> DEFINE tells == hs[ctl.onAborted].stream = "readable" /\ hs[ctl.stream].stream = "readable"
  <2>3. CASE tells
    <3>1. OnAborted(hs) = Streams(hs, ctl.stream, "errored")
      BY <1>2, <2>3 DEF OnAborted, Streams, Put, WithStream
    <3>2. /\ OnAborted(hs) \in Seq(HopSet) /\ Len(OnAborted(hs)) = Len(hs)
          /\ OnAborted(hs)[ctl.stream] = WithStream(hs[ctl.stream], "errored")
          /\ \A i \in 1..Len(hs) : i # ctl.stream => OnAborted(hs)[i] = hs[i]
      <4> DEFINE ss == Streams(hs, ctl.stream, "errored")
      <4>1. /\ ss \in Seq(HopSet) /\ Len(ss) = Len(hs)
            /\ ss[ctl.stream] = WithStream(hs[ctl.stream], "errored")
            /\ \A i \in 1..Len(hs) : i # ctl.stream => ss[i] = hs[i]
        BY <2>1, StreamHop
      <4>2. QED
        BY <3>1, <4>1
    <3>3. QED
      BY <2>3, <3>2
  <2>4. CASE ~tells
    <3>1. OnAborted(hs) = hs
      BY <1>2, <2>4 DEF OnAborted
    <3>2. QED
      BY <2>4, <3>1
  <2>5. QED
    BY <2>3, <2>4
<1>3. QED
  BY <1>1, <1>2
\* What is left of a hop when the next one is dispatched.
LEMMA PastHop ==
  ASSUME NEW h \in HopSet
  PROVE  /\ Past(h) \in HopSet /\ Past(h).stream = h.stream
         /\ h.st \in {"ended", "failed"} => Past(h).st = "ended" /\ Past(h).body = "none"
<1>1. CASE h.st \in {"ended", "failed"}
  <2>1. Hop(FALSE) \in HopSet
    BY DEF Hop, HopSet
  <2>2. Past(h) = [Hop(FALSE) EXCEPT !.st = "ended", !.stream = h.stream]
    BY <1>1 DEF Past
  <2>3. Hop(FALSE).body = "none"
    BY DEF Hop
  <2> HIDE DEF Hop
  <2>4. QED
    BY <2>1, <2>2, <2>3 DEF HopSet
<1>2. CASE h.st \notin {"ended", "failed"}
  BY <1>2 DEF Past
<1>3. QED
  BY <1>1, <1>2

LEMMA NewHop ==
  ASSUME NEW again \in BOOLEAN
  PROVE  /\ Hop(again) \in HopSet /\ Hop(again).st = "queued" /\ Hop(again).status = "none"
         /\ Hop(again).promise = "pending" /\ ~Hop(again).aborted
         /\ Hop(again).body = "none" /\ Hop(again).stream = "none"
         /\ Hop(again).sent = 0 /\ Hop(again).chunks = 0
BY DEF Hop, HopSet

DispatchedCtl(c, n) == [c EXCEPT !.hop = n, !.destroyed = FALSE, !.armed = FALSE]

LEMMA Dispatched ==
  ASSUME NEW c \in Controllers, NEW n \in Nat
  PROVE  /\ DispatchedCtl(c, n) \in Controllers
         /\ DispatchedCtl(c, n).hop = n /\ ~DispatchedCtl(c, n).destroyed
         /\ DispatchedCtl(c, n).state = c.state /\ DispatchedCtl(c, n).stream = c.stream
         /\ DispatchedCtl(c, n).onAborted = c.onAborted
         /\ DispatchedCtl(c, n).ended = c.ended
BY DEF Controllers, DispatchedCtl

LEMMA DispatchEffect ==
  ASSUME NEW hs \in Seq(HopSet), NEW again \in BOOLEAN, ctl \in Controllers,
         Dispatch(hs, again)
  PROVE  /\ hops' \in Seq(HopSet) /\ Len(hops') = Len(hs) + 1 /\ Len(hs) \in Nat
         /\ \A i \in 1..Len(hs) : hops'[i] = Past(hs[i])
         /\ hops'[Len(hs) + 1] = Hop(again)
         /\ ctl' \in Controllers /\ ctl'.hop = Len(hs) + 1 /\ ~ctl'.destroyed
         /\ ctl'.state = ctl.state /\ ctl'.stream = ctl.stream
         /\ ctl'.onAborted = ctl.onAborted /\ ctl'.ended = ctl.ended
         /\ at' = "await" /\ response' = NoResponse
<1> DEFINE past == [i \in DOMAIN hs |-> Past(hs[i])]
<1>1. Len(hs) \in Nat /\ DOMAIN hs = 1..Len(hs)
  BY LenProperties
<1>2. \A i \in 1..Len(hs) : Past(hs[i]) \in HopSet
  BY HopAt, PastHop
<1>3. past \in Seq(HopSet) /\ Len(past) = Len(hs)
  <2>1. past = [i \in 1..Len(hs) |-> Past(hs[i])]
    BY <1>1
  <2>2. past \in [1..Len(hs) -> HopSet]
    BY <1>2, <2>1
  <2> HIDE DEF past
  <2>3. past \in Seq(HopSet)
    BY <1>1, <2>2, SeqDef
  <2>4. DOMAIN past = 1..Len(hs) /\ DOMAIN past = 1..Len(past) /\ Len(past) \in Nat
    BY <2>2, <2>3, LenProperties
  <2>5. QED
    BY <1>1, <2>3, <2>4
<1>4. \A i \in 1..Len(hs) : past[i] = Past(hs[i])
  BY <1>1
<1> HIDE DEF past
<1>5. Hop(again) \in HopSet
  BY NewHop
<1>6. hops' = Append(past, Hop(again))
  BY DEF Dispatch, past
<1>7. /\ hops' \in Seq(HopSet) /\ Len(hops') = Len(past) + 1
      /\ hops'[Len(past) + 1] = Hop(again)
      /\ \A i \in 1..Len(past) : hops'[i] = past[i]
  BY <1>3, <1>5, <1>6, AppendProperties
<1>8. ctl' = DispatchedCtl(ctl, Len(hs) + 1) /\ Len(hs) + 1 \in Nat
  BY <1>1 DEF Dispatch, DispatchedCtl
<1>9. at' = "await" /\ response' = NoResponse
  BY DEF Dispatch
<1>10. /\ ctl' \in Controllers /\ ctl'.hop = Len(hs) + 1 /\ ~ctl'.destroyed
       /\ ctl'.state = ctl.state /\ ctl'.stream = ctl.stream
       /\ ctl'.onAborted = ctl.onAborted /\ ctl'.ended = ctl.ended
  BY <1>1, <1>8, Dispatched
<1>11. \A i \in 1..Len(hs) : hops'[i] = Past(hs[i])
  BY <1>3, <1>4, <1>7
<1>12. hops' \in Seq(HopSet) /\ Len(hops') = Len(hs) + 1 /\ hops'[Len(hs) + 1] = Hop(again)
  BY <1>3, <1>7
<1>13. QED
  BY <1>1, <1>9, <1>10, <1>11, <1>12

LEMMA StreamsOf ==
  ASSUME NEW h \in HopSet
  PROVE  /\ WithStream(h, h.stream) = h
         /\ WithStream(h, "errored").stream = "errored"
BY DEF HopSet, WithStream

\* abort() and terminate() of the controller.
LEMMA StopEffect ==
  ASSUME NEW hs \in Seq(HopSet), ctl \in Controllers, ctl.hop \in 1..Len(hs),
         ctl.stream \in 0..Len(hs), ctl.onAborted \in 0..ctl.stream,
         NEW state \in {"aborted", "terminated"}, Stop(state, hs), ~IsCancelled
  PROVE  /\ ctl' \in Controllers /\ IsCancelled' /\ ctl'.hop = ctl.hop /\ ctl'.destroyed
         /\ ctl'.stream = ctl.stream /\ ctl'.onAborted = ctl.onAborted
         /\ ctl'.armed = ctl.armed /\ ctl'.ended = ctl.ended
         /\ hops' \in Seq(HopSet) /\ Len(hops') = Len(hs)
         /\ \A i \in 1..Len(hs) :
              /\ hops'[i] = WithStream(Destroy(hs)[i], hops'[i].stream)
              /\ hops'[i].stream = hs[i].stream
                   \/ (i = ctl.stream /\ hs[i].stream = "readable" /\ hops'[i].stream = "errored")
         /\ ctl.onAborted # 0 /\ hs[ctl.onAborted].stream = "readable" =>
              hops'[ctl.stream].stream # "readable"
<1>1. /\ ctl' = [ctl EXCEPT !.state = state, !.destroyed = TRUE]
      /\ hops' = OnAborted(Destroy(hs))
  BY DEF Stop
<1>2. /\ ctl' \in Controllers /\ IsCancelled' /\ ctl'.hop = ctl.hop /\ ctl'.destroyed
      /\ ctl'.stream = ctl.stream /\ ctl'.onAborted = ctl.onAborted
      /\ ctl'.armed = ctl.armed /\ ctl'.ended = ctl.ended
  BY <1>1 DEF Controllers, IsCancelled
<1> DEFINE g == Destroy(hs)
<1>3. /\ g \in Seq(HopSet) /\ Len(g) = Len(hs)
      /\ \A i \in 1..Len(hs) : i # ctl.hop => g[i] = hs[i]
      /\ g[ctl.hop] = hs[ctl.hop] \/ g[ctl.hop] = Abort(hs[ctl.hop])
  BY DestroyHops
<1>4. \A i \in 1..Len(hs) : g[i].stream = hs[i].stream
  BY <1>3, HopAt, AbortHop
<1> HIDE DEF g
<1>5. /\ OnAborted(g) \in Seq(HopSet) /\ Len(OnAborted(g)) = Len(g)
      /\ \A i \in 1..Len(g) : i # ctl.stream => OnAborted(g)[i] = g[i]
      /\ ctl.onAborted # 0 =>
           OnAborted(g)[ctl.stream] =
             IF g[ctl.onAborted].stream = "readable" /\ g[ctl.stream].stream = "readable"
             THEN WithStream(g[ctl.stream], "errored") ELSE g[ctl.stream]
  BY <1>3, ErrorHops
<1>6. hops' = OnAborted(g)
  BY <1>1 DEF g
<1>7. \A i \in 1..Len(hs) : g[i] \in HopSet /\ WithStream(g[i], g[i].stream) = g[i]
                              /\ WithStream(g[i], "errored").stream = "errored"
  BY <1>3, HopAt, StreamsOf
<1>8. ASSUME NEW i \in 1..Len(hs)
      PROVE  /\ hops'[i] = WithStream(g[i], hops'[i].stream)
             /\ hops'[i].stream = hs[i].stream
                  \/ (i = ctl.stream /\ hs[i].stream = "readable" /\ hops'[i].stream = "errored")
  <2>1. CASE hops'[i] = g[i]
    BY <1>4, <1>7, <2>1
  <2>2. CASE hops'[i] # g[i]
    <3>1. i = ctl.stream /\ ctl.onAborted # 0
      <4>1. ctl.onAborted = 0 => OnAborted(g) = g
        BY DEF OnAborted
      <4>2. QED
        BY <1>3, <1>5, <1>6, <2>2, <4>1
    <3>2. g[i].stream = "readable" /\ hops'[i] = WithStream(g[i], "errored")
      BY <1>5, <1>6, <2>2, <3>1
    <3>3. QED
      BY <1>4, <1>7, <3>1, <3>2
  <2>3. QED
    BY <2>1, <2>2
<1>9. ctl.onAborted # 0 /\ hs[ctl.onAborted].stream = "readable" =>
        hops'[ctl.stream].stream # "readable"
  <2> SUFFICES ASSUME ctl.onAborted # 0, hs[ctl.onAborted].stream = "readable"
               PROVE  hops'[ctl.stream].stream # "readable"
    OBVIOUS
  <2>1. ctl.stream \in 1..Len(hs) /\ ctl.onAborted \in 1..Len(hs)
    BY LenProperties
  <2>2. g[ctl.onAborted].stream = "readable"
    BY <1>4, <2>1
  <2>3. QED
    BY <1>5, <1>6, <1>7, <2>1, <2>2
<1>10. QED
  BY <1>2, <1>3, <1>5, <1>6, <1>8, <1>9 DEF g

LEMMA Started ==
  ASSUME TypeOK, Indices, at # "start"
  PROVE  /\ ctl.hop \in 1..Len(hops) /\ Len(hops) \in Nat /\ Len(hops) # 0 /\ hops # <<>>
         /\ Last \in HopSet /\ at # "start"
         /\ ctl.stream \in 0..Len(hops) /\ ctl.onAborted \in 0..ctl.stream
<1>1. Len(hops) \in Nat /\ (hops # <<>> => Len(hops) # 0)
  BY EmptySeq, LenProperties DEF TypeOK
<1>2. hops # <<>>
  BY DEF Indices
<1>3. ctl.hop \in 1..Len(hops)
  BY <1>1, <1>2 DEF Indices
<1>4. Last \in HopSet
  BY <1>3, HopAt DEF TypeOK, Last
<1>5. QED
  BY <1>1, <1>2, <1>3, <1>4 DEF Indices

----------------------------------------------------------------------------
(* The steps that leave the hops and the controller alone.                  *)

Quiet ==
  \/ NetworkFetchFails \/ ProxyAuthentication \/ Proceed \/ Verify \/ ProcessResponse
  \/ Read

LEMMA QuietStep ==
  ASSUME IInv, Quiet
  PROVE  IInv'
<1>0. at # "start"
  BY DEF Quiet, NetworkFetchFails, ProxyAuthentication, Proceed, Verify, ProcessResponse,
         Read, HasBody
<1>1. /\ ctl.hop \in 1..Len(hops) /\ Len(hops) \in Nat /\ Len(hops) # 0 /\ hops # <<>>
      /\ Last \in HopSet
  BY <1>0, Started DEF IInv, Core
<1>2. UNCHANGED <<ctl, hops>> /\ UNCHANGED Last /\ UNCHANGED IsCancelled
  BY DEF Quiet, NetworkFetchFails, ProxyAuthentication, Proceed, Verify, ProcessResponse,
         Read, Last, IsCancelled
<1>3. CASE NetworkFetchFails \/ ProxyAuthentication \/ Proceed
  <2>1. at' = "main" /\ UNCHANGED user /\ at \in {"await", "check"}
    BY <1>3 DEF NetworkFetchFails, ProxyAuthentication, Proceed, Return
  <2>2. response' = NetworkError \/ (response' = response /\ at = "check")
    BY <1>3 DEF NetworkFetchFails, ProxyAuthentication, Proceed, Return
  <2>a. TypeOK'
    BY <1>2, <2>1, <2>2 DEF IInv, Core, TypeOK, Places, NetworkError
  <2>b. Indices' /\ Over'
    BY <1>0, <1>2, <2>1 DEF IInv, Core, Indices, Over
  <2>c. Answered'
    BY <1>0, <1>2, <2>1, <2>2 DEF IInv, Core, Answered, NetworkError, TypeOK
  <2>d. Progress'
    BY <1>0, <1>1, <1>2, <1>3, <2>1 DEF IInv, Core, Progress, TypeOK, HopSet,
       NetworkFetchFails, ProxyAuthentication, Proceed, Last
  <2>e. GivesUp'
    BY <1>0, <1>2, <2>1 DEF IInv, Core, GivesUp, GivenUp
  <2>f. Reads' /\ Counts'
    BY <1>0, <1>2, <2>1 DEF IInv, Reads, Counts, Late
  <2>g. Listens'
    BY <1>0, <1>2, <2>1, <2>2 DEF IInv, Listens, Late, Stream, NetworkError
  <2>h. BodyEnds'
    BY <1>0, <1>1, <1>2, <2>1, <2>2 DEF IInv, BodyEnds, NetworkError
  <2>i. Closes'
    BY <1>0, <1>2, <2>1, <2>2 DEF IInv, Closes, Stream, NetworkError
  <2>j. QED
    BY <2>a, <2>b, <2>c, <2>d, <2>e, <2>f, <2>g, <2>h, <2>i DEF IInv, Core
<1>4. CASE Verify \/ ProcessResponse \/ Read
  <2>1. /\ at \in {"verify", "answer", "done"} /\ at' \in {"verify", "answer", "done"}
        /\ UNCHANGED <<user.aborted, user.cancelled, user.got>>
        /\ at' # at => at' \in {"answer", "done"}
    BY <1>4 DEF Verify, ProcessResponse, Read, HasBody, IInv, Core, TypeOK, UserStates
  <2>2. \/ response' = NetworkError \/ response' = [type |-> "default", hop |-> 0]
        \/ UNCHANGED response
    BY <1>4 DEF Verify, ProcessResponse, Read
  <2>3. user' \in UserStates
    BY <1>4 DEF Verify, ProcessResponse, Read, IInv, Core, TypeOK, UserStates
  <2>4. at' = "verify" => UNCHANGED response
    BY <1>4 DEF Verify, ProcessResponse, Read, HasBody
  <2>a. TypeOK'
    BY <1>2, <2>1, <2>2, <2>3 DEF IInv, Core, TypeOK, Places, NetworkError
  <2>b. Indices' /\ Over'
    BY <1>0, <1>2, <2>1 DEF IInv, Core, Indices, Over
  <2>c. Answered'
    BY <1>0, <1>2, <2>1, <2>2, <2>4 DEF IInv, Core, Answered, NetworkError, TypeOK
  <2>d. Progress'
    BY <1>0, <1>1, <1>2, <2>1 DEF IInv, Core, Progress
  <2>e. GivesUp'
    BY <1>0, <1>2, <2>1 DEF IInv, Core, GivesUp, GivenUp
  <2>f. Reads' /\ Counts'
    BY <1>0, <1>2, <2>1, <2>2 DEF IInv, Reads, Counts, Late, NetworkError
  <2>g. Listens'
    BY <1>0, <1>2, <2>1, <2>2 DEF IInv, Listens, Late, Stream, NetworkError
  <2>h. BodyEnds'
    BY <1>0, <1>1, <1>2, <2>1, <2>2 DEF IInv, BodyEnds, NetworkError
  <2>i. Closes'
    BY <1>0, <1>2, <2>1, <2>2 DEF IInv, Closes, Stream, NetworkError
  <2>j. QED
    BY <2>a, <2>b, <2>c, <2>d, <2>e, <2>f, <2>g, <2>h, <2>i DEF IInv, Core
<1>5. QED
  BY <1>3, <1>4 DEF Quiet

LEMMA MainFetchStep ==
  ASSUME IInv, MainFetch
  PROVE  IInv'
<1>0. at = "main" /\ at' \in {"verify", "answer"} /\ UNCHANGED <<hops, user>>
  BY DEF MainFetch
<1>1. /\ ctl.hop \in 1..Len(hops) /\ Len(hops) \in Nat /\ Len(hops) # 0 /\ hops # <<>>
      /\ Last \in HopSet
  BY <1>0, Started DEF IInv, Core
<1>2. /\ ctl' \in Controllers
      /\ UNCHANGED <<ctl.state, ctl.hop, ctl.destroyed, ctl.armed, ctl.onAborted, ctl.stream,
                     ctl.ended>>
  BY DEF MainFetch, IInv, Core, TypeOK, Controllers
<1>3. UNCHANGED Last /\ UNCHANGED IsCancelled
  BY <1>0, <1>2 DEF Last, IsCancelled
<1>4. /\ \/ response' = NetworkError \/ response' = [type |-> "default", hop |-> 0]
         \/ UNCHANGED response
      /\ at' = "verify" => UNCHANGED response /\ response.type = "default"
  BY DEF MainFetch
<1>a. TypeOK'
  BY <1>0, <1>2, <1>4 DEF IInv, Core, TypeOK, Places, NetworkError
<1>b. Indices' /\ Over'
  BY <1>0, <1>2 DEF IInv, Core, Indices, Over
<1>c. Answered'
  BY <1>0, <1>2, <1>4 DEF IInv, Core, Answered, NetworkError, TypeOK
<1>d. Progress'
  BY <1>0, <1>1, <1>2, <1>3 DEF IInv, Core, Progress
<1>e. GivesUp'
  BY <1>0, <1>2, <1>3 DEF IInv, Core, GivesUp, GivenUp
<1>f. Reads' /\ Counts'
  BY <1>0, <1>3, <1>4 DEF IInv, Reads, Counts, Late, NetworkError
<1>g. Listens'
  BY <1>0, <1>2, <1>3, <1>4 DEF IInv, Listens, Late, Stream, NetworkError
<1>h. BodyEnds'
  BY <1>0, <1>1, <1>2, <1>3, <1>4 DEF IInv, BodyEnds, NetworkError
<1>i. Closes'
  BY <1>0, <1>3, <1>4 DEF IInv, Closes, Stream, NetworkError
<1>j. QED
  BY <1>a, <1>b, <1>c, <1>d, <1>e, <1>f, <1>g, <1>h, <1>i DEF IInv, Core

----------------------------------------------------------------------------
(* The steps that dispatch the next hop.                                    *)

LEMMA DispatchStep ==
  ASSUME IInv, at \in {"start", "check"}, NEW hs \in Seq(HopSet), NEW again \in BOOLEAN,
         Dispatch(hs, again), UNCHANGED user, Len(hs) = Len(hops),
         \A i \in 1..Len(hs) : hs[i].st \in {"ended", "failed"},
         \A i \in 1..Len(hs) : hs[i].stream = hops[i].stream
  PROVE  IInv'
<1>1. /\ hops' \in Seq(HopSet) /\ Len(hops') = Len(hs) + 1 /\ Len(hs) \in Nat
      /\ \A i \in 1..Len(hs) : hops'[i] = Past(hs[i])
      /\ hops'[Len(hs) + 1] = Hop(again)
      /\ ctl' \in Controllers /\ ctl'.hop = Len(hs) + 1 /\ ~ctl'.destroyed
      /\ ctl'.state = ctl.state /\ ctl'.stream = ctl.stream
      /\ ctl'.onAborted = ctl.onAborted /\ ctl'.ended = ctl.ended
      /\ at' = "await" /\ response' = NoResponse
  BY DispatchEffect DEF IInv, Core, TypeOK
<1>2. \A i \in 1..Len(hs) : /\ hops'[i].st = "ended" /\ hops'[i].body = "none"
                             /\ hops'[i].stream = hops[i].stream
  BY <1>1, HopAt, PastHop
<1>3. /\ Last' \in HopSet /\ Last'.st = "queued" /\ Last'.status = "none"
      /\ Last'.promise = "pending" /\ ~Last'.aborted
      /\ Last'.body = "none" /\ Last'.stream = "none"
      /\ Last'.sent = 0 /\ Last'.chunks = 0
  <2>1. Last' = Hop(again)
    BY <1>1 DEF Last
  <2> HIDE DEF Last
  <2>2. QED
    BY <2>1, NewHop
<1>4. hops' # <<>> /\ ~IsCancelled /\ ~IsCancelled'
  <2>1. Len(hops') # 0
    BY <1>1
  <2>2. QED
    BY <1>1, <2>1, EmptySeq DEF IInv, Core, GivesUp, IsCancelled
<1>5. Len(hops) = 0 <=> hops = <<>>
  BY EmptySeq DEF IInv, Core, TypeOK
<1>a. TypeOK'
  BY <1>1 DEF IInv, Core, TypeOK, Places, NoResponse
<1>b. Indices'
  BY <1>1, <1>4 DEF IInv, Core, Indices, TypeOK, Controllers
<1>c. Answered'
  BY <1>1 DEF Answered, NoResponse
<1>d. Over'
  BY <1>1, <1>2 DEF Over
<1>e. Progress'
  BY <1>1, <1>3 DEF Progress
<1>f. GivesUp'
  BY <1>1, <1>4 DEF IInv, Core, GivesUp
<1>g. Reads' /\ Counts'
  BY <1>1, <1>3 DEF IInv, Reads, Counts, Late
<1>h. Listens'
  <2>1. ctl.onAborted # 0 => ctl.onAborted \in 1..Len(hs)
    BY <1>1 DEF IInv, Core, Indices
  <2>2. ctl.onAborted # 0 => hops[ctl.onAborted].stream = "readable"
    BY <1>4 DEF IInv, Listens, Late
  <2>3. QED
    BY <1>1, <1>2, <1>4, <2>1, <2>2 DEF Listens
<1>i. BodyEnds'
  <2>1. ctl'.ended => ctl'.hop # 1
    BY <1>1, <1>5 DEF IInv, Core, Indices, BodyEnds, TypeOK
  <2>2. "none" # "bare"
    OBVIOUS
  <2>3. QED
    BY <1>3, <1>4, <2>1 DEF BodyEnds
<1>j. Closes'
  BY <1>1 DEF Closes, Stream, NoResponse
<1>k. QED
  BY <1>a, <1>b, <1>c, <1>d, <1>e, <1>f, <1>g, <1>h, <1>i, <1>j DEF IInv, Core

\* Where the chain gives up the connection of a hop, the hop ends with it.
LEMMA DestroyAtCheck ==
  ASSUME IInv, at = "check"
  PROVE  /\ Destroy(hops) \in Seq(HopSet) /\ Len(Destroy(hops)) = Len(hops)
         /\ \A i \in 1..Len(hops) : Destroy(hops)[i].st \in {"ended", "failed"}
         /\ \A i \in 1..Len(hops) : Destroy(hops)[i].stream = hops[i].stream
         /\ \A i \in 1..(Len(hops) - 1) : Destroy(hops)[i] = hops[i]
         /\ Destroy(hops)[ctl.hop].status = Last.status
         /\ Destroy(hops)[ctl.hop].promise = "head"
         /\ Destroy(hops)[ctl.hop].sent = Last.sent
         /\ \/ /\ Destroy(hops)[ctl.hop].st = Last.st
               /\ Destroy(hops)[ctl.hop].body = Last.body
               /\ Destroy(hops)[ctl.hop].chunks = Last.chunks
            \/ /\ Last.st = "running" /\ Destroy(hops)[ctl.hop].st = "failed"
               /\ Destroy(hops)[ctl.hop].body \in {"none", "failed"}
<1> DEFINE g == Destroy(hops)
<1>1. /\ ctl.hop \in 1..Len(hops) /\ Len(hops) \in Nat /\ Last \in HopSet /\ ctl.hop = Len(hops)
  BY Started DEF IInv, Core, Indices
<1>2. /\ Last.st \in {"running", "ended", "failed"} /\ Last.promise = "head"
      /\ Last.st = "running" => ctl.armed /\ ~ctl.destroyed /\ ~Last.aborted
  BY <1>1 DEF IInv, Core, Progress, HopSet
<1>3. /\ g \in Seq(HopSet) /\ Len(g) = Len(hops)
      /\ \A i \in 1..Len(hops) : i # ctl.hop => g[i] = hops[i]
      /\ g[ctl.hop] = IF ctl.armed /\ ~ctl.destroyed /\ ~Last.aborted THEN Abort(Last) ELSE Last
  BY <1>1, DestroyHops DEF IInv, Core, TypeOK, Last
<1> HIDE DEF g
<1>4. \A i \in 1..(Len(hops) - 1) : g[i] = hops[i] /\ g[i].st = "ended"
  BY <1>1, <1>3 DEF IInv, Core, Over
<1>5. CASE Last.st = "running"
  <2>1. g[ctl.hop] = [Failed(Last) EXCEPT !.aborted = TRUE]
    BY <1>1, <1>2, <1>3, <1>5, AbortHop
  <2>2. /\ Failed(Last) \in HopSet /\ Failed(Last).st = "failed"
        /\ Failed(Last).promise = "head" /\ Failed(Last).body \in {"none", "failed"}
        /\ Failed(Last).status = Last.status /\ Failed(Last).stream = Last.stream
        /\ Failed(Last).sent = Last.sent
    BY <1>1, <1>2, FailedHop
  <2> HIDE DEF Failed, Last
  <2>3. /\ g[ctl.hop].st = "failed" /\ g[ctl.hop].promise = "head"
        /\ g[ctl.hop].body \in {"none", "failed"} /\ g[ctl.hop].status = Last.status
        /\ g[ctl.hop].stream = Last.stream /\ g[ctl.hop].sent = Last.sent
    BY <2>1, <2>2 DEF HopSet
  <2>4. \A i \in 1..Len(hops) : /\ g[i].st \in {"ended", "failed"}
                                /\ g[i].stream = hops[i].stream
    BY <1>1, <1>4, <2>3 DEF Last
  <2>5. QED
    BY <1>3, <1>4, <1>5, <2>3, <2>4 DEF g
<1>6. CASE Last.st # "running"
  <2>1. g[ctl.hop] = Last \/ g[ctl.hop] = [Last EXCEPT !.aborted = TRUE]
    BY <1>1, <1>2, <1>3, <1>6, AbortHop
  <2> HIDE DEF Last
  <2>2. /\ g[ctl.hop].st = Last.st /\ g[ctl.hop].promise = "head"
        /\ g[ctl.hop].body = Last.body /\ g[ctl.hop].status = Last.status
        /\ g[ctl.hop].stream = Last.stream /\ g[ctl.hop].sent = Last.sent
        /\ g[ctl.hop].chunks = Last.chunks
    BY <1>1, <1>2, <2>1 DEF HopSet
  <2>3. \A i \in 1..Len(hops) : /\ g[i].st \in {"ended", "failed"}
                                /\ g[i].stream = hops[i].stream
    BY <1>1, <1>2, <1>4, <1>6, <2>2 DEF Last
  <2>4. QED
    BY <1>3, <1>4, <2>2, <2>3 DEF g
<1>7. QED
  BY <1>5, <1>6

\* The chain gives up the connection and returns.
LEMMA GivesUpStep ==
  ASSUME IInv, at = "check", NEW r, r = NetworkError \/ (r = response /\ Last.status = "bare"),
         Return(r), hops' = Destroy(hops), ctl' = [ctl EXCEPT !.destroyed = TRUE],
         UNCHANGED user
  PROVE  IInv'
<1> DEFINE g == Destroy(hops)
<1>1. /\ ctl.hop \in 1..Len(hops) /\ Len(hops) \in Nat /\ Len(hops) # 0 /\ hops # <<>>
      /\ Last \in HopSet /\ ctl.hop = Len(hops)
      /\ ctl.stream \in 0..Len(hops) /\ ctl.onAborted \in 0..ctl.stream
  BY Started DEF IInv, Core, Indices
<1>2. /\ g \in Seq(HopSet) /\ Len(g) = Len(hops)
      /\ \A i \in 1..Len(hops) : g[i].st \in {"ended", "failed"}
      /\ \A i \in 1..Len(hops) : g[i].stream = hops[i].stream
      /\ \A i \in 1..(Len(hops) - 1) : g[i] = hops[i]
      /\ g[ctl.hop].status = Last.status /\ g[ctl.hop].promise = "head"
      /\ g[ctl.hop].sent = Last.sent
      /\ \/ /\ g[ctl.hop].st = Last.st /\ g[ctl.hop].body = Last.body
            /\ g[ctl.hop].chunks = Last.chunks
         \/ /\ Last.st = "running" /\ g[ctl.hop].st = "failed"
            /\ g[ctl.hop].body \in {"none", "failed"}
  BY DestroyAtCheck
<1> HIDE DEF g
<1>3. /\ ctl' \in Controllers /\ ctl'.destroyed
      /\ UNCHANGED <<ctl.state, ctl.hop, ctl.onAborted, ctl.stream, ctl.ended>>
  BY DEF IInv, Core, TypeOK, Controllers
<1>4. hops' = g /\ Len(g) # 0 /\ g # <<>>
  BY <1>1, <1>2, EmptySeq DEF g
<1>5. Last' = g[ctl.hop] /\ Last' \in HopSet /\ Last'.stream = Last.stream
  BY <1>1, <1>2, <1>3, <1>4, HopAt DEF Last
<1>6. at' = "main" /\ response' = r
  BY DEF Return
<1>7. ~IsCancelled /\ ~IsCancelled'
  BY <1>3 DEF IInv, Core, GivesUp, IsCancelled
<1>8. response'.hop # 0 => Last.status = "bare" /\ response' = response
  BY <1>6 DEF NetworkError
<1>a. TypeOK'
  BY <1>2, <1>3, <1>4, <1>6 DEF IInv, Core, TypeOK, Places, NetworkError
<1>b. Indices' /\ Over'
  BY <1>1, <1>2, <1>3, <1>4, <1>6 DEF IInv, Core, Indices, Over
<1>c. Answered'
  BY <1>1, <1>3, <1>6 DEF IInv, Core, Answered, NetworkError, TypeOK
<1>d. Progress'
  <2>1. Last.status # "none" /\ Last'.st \in {"ended", "failed"}
    BY <1>1, <1>2, <1>5 DEF IInv, Core, Progress
  <2>2. QED
    BY <1>2, <1>3, <1>5, <1>6, <2>1 DEF Progress
<1>e. GivesUp'
  BY <1>3, <1>6, <1>7 DEF IInv, Core, GivesUp
<1>f. Reads'
  BY <1>6 DEF IInv, Reads, Late
<1>g. Counts'
  BY <1>1, <1>2, <1>5, <1>6 DEF IInv, Counts, Late
<1>h. Listens'
  BY <1>1, <1>2, <1>3, <1>4, <1>6, <1>7 DEF IInv, Listens, Late
<1>i. BodyEnds'
  <2>1. response'.hop # 0 => ctl'.hop = 1 \/ LateBare
    BY <1>1, <1>3, <1>8 DEF IInv, BodyEnds
  <2>2. Last.body = "failed" => Last.st = "failed"
    BY <1>1, <1>7 DEF IInv, BodyEnds
  <2>3. /\ Last'.body = "eof" => Last'.st = "ended"
        /\ Last'.body = "failed" => Last'.st = "failed"
        /\ Last'.status = "bare" => ctl'.hop = 1 \/ LateBare
        /\ ctl'.ended /\ ctl'.hop = 1 => Last'.st = "ended"
    BY <1>1, <1>2, <1>3, <1>5, <2>2 DEF IInv, BodyEnds
  <2>4. QED
    BY <1>4, <1>6, <2>1, <2>3 DEF BodyEnds
<1>j. Closes'
  <2>1. Stream' = "closed" => Stream = "closed" /\ response' = response
    BY <1>3, <1>5, <1>6, <1>8 DEF Stream, NetworkError, IInv, Core, Answered, Last
  <2>2. QED
    BY <1>1, <1>2, <1>5, <2>1 DEF IInv, Closes
<1>k. QED
  BY <1>a, <1>b, <1>c, <1>d, <1>e, <1>f, <1>g, <1>h, <1>i, <1>j DEF IInv, Core

LEMMA StartStep ==
  ASSUME IInv, Start
  PROVE  IInv'
<1>1. hops = <<>>
  BY DEF IInv, Core, Indices, Start
<1>2. <<>> \in Seq(HopSet) /\ Len(<<>>) = 0 /\ FALSE \in BOOLEAN
  BY EmptySeq
<1>3. Dispatch(hops, FALSE) /\ UNCHANGED user /\ at \in {"start", "check"}
  BY <1>1 DEF Start
<1>4. hops \in Seq(HopSet) /\ \A i \in 1..Len(hops) : FALSE
  BY <1>1, <1>2
<1>5. QED
  BY <1>3, <1>4, DispatchStep

LEMMA RepeatStep ==
  ASSUME IInv, Repeat
  PROVE  IInv'
<1>1. /\ at = "check" /\ UNCHANGED user /\ Dispatch(Destroy(hops), TRUE)
  BY DEF Repeat, IInv, Core, GivesUp
<1>2. QED
  BY <1>1, DestroyAtCheck, DispatchStep

LEMMA RedirectStep ==
  ASSUME IInv, Redirect
  PROVE  IInv'
<1>1. at = "check" /\ UNCHANGED user /\ ~IsCancelled
  BY DEF Redirect, IInv, Core, GivesUp
<1>2. CASE Dispatch(Destroy(hops), FALSE)
  BY <1>1, <1>2, DestroyAtCheck, DispatchStep
<1>3. CASE /\ \/ Return(NetworkError)
              \/ Return(response) /\ Last.status = "bare"
           /\ hops' = Destroy(hops) /\ ctl' = [ctl EXCEPT !.destroyed = TRUE]
  BY <1>1, <1>3, GivesUpStep
<1>4. QED
  BY <1>1, <1>2, <1>3 DEF Redirect, Last

----------------------------------------------------------------------------
(* The steps that change the last hop.                                      *)

\* The part of the invariant that is about the last hop x and the user u.
Steady(x, u) ==
  /\ x.st = "queued" => x.status = "none"
  /\ x.st \in {"queued", "running"} /\ x.status = "none" => at = "await"
  /\ x.promise = "head" => x.status # "none"
  /\ x.promise = "error" => x.st = "failed" \/ x.status # "none"
  /\ x.aborted => x.st \in {"ended", "failed"}
  /\ x.status = "none" => x.body = "none" /\ x.sent = 0 /\ x.chunks = 0
  /\ x.st = "running" /\ x.status # "none" => x.body # "none"
  /\ x.body \in {"open", "eof"} /\ (Late => response.hop # 0) => u.got + x.chunks = x.sent
  /\ x.body = "eof" => x.st = "ended"
  /\ x.status = "bare" => ctl.hop = 1 \/ LateBare
  /\ response.hop # 0 /\ x.stream = "closed" /\ ~u.cancelled /\ ~LateBare =>
       x.st = "ended" /\ u.got = x.sent

\* The part that relates it to the controller c.
Governed(x, c) ==
  /\ at = "check" => x.promise = "head"
  /\ x.st = "running" => c.armed
  /\ c.destroyed => x.st # "running"
  /\ c.state # "ongoing" =>
       /\ x.st \in {"ended", "failed"} \/ (x.st = "queued" /\ c.destroyed)
       /\ at = "await" => x.promise # "head"
  /\ x.body = "failed" => c.state # "ongoing" \/ x.st = "failed"
  /\ x.st = "failed" /\ c.state = "ongoing" =>
       at \notin {"await", "check"} /\ (response.hop # 0 => ctl.hop = 1 \/ LateBare)
  /\ c.ended /\ ctl.hop = 1 => x.st = "ended"

LEMMA LastIsSound ==
  ASSUME IInv, at # "start"
  PROVE  Steady(Last, user) /\ Governed(Last, ctl)
<1>1. hops # <<>> /\ Last \in HopSet
  BY Started DEF IInv, Core
<1>2. Stream = "closed" <=> response.hop # 0 /\ Last.stream = "closed"
  BY DEF IInv, Core, Answered, Stream, Last
<1>3. Steady(Last, user)
  BY <1>1, <1>2 DEF IInv, Core, Progress, Counts, BodyEnds, Closes, Steady
<1>4. Governed(Last, ctl)
  BY <1>1 DEF IInv, Core, Progress, GivesUp, GivenUp, IsCancelled, BodyEnds, Governed
<1>5. QED
  BY <1>3, <1>4

LEMMA ChangeStep ==
  ASSUME IInv, at # "start", NEW x \in HopSet, hops' = Put(hops, ctl.hop, x),
         UNCHANGED <<at, response>>, ctl' \in Controllers,
         UNCHANGED <<ctl.state, ctl.hop, ctl.destroyed, ctl.onAborted, ctl.stream>>,
         user' \in UserStates, user'.reading \/ user'.got # 0 => Late,
         user'.aborted => IsCancelled,
         x.stream = Last.stream \/ (Late /\ ctl.stream = ctl.hop /\ x.stream # "readable"),
         Steady(x, user'), Governed(x, ctl')
  PROVE  IInv'
<1>1. /\ ctl.hop \in 1..Len(hops) /\ Len(hops) \in Nat /\ Len(hops) # 0 /\ hops # <<>>
      /\ Last \in HopSet /\ ctl.hop = Len(hops) /\ hops \in Seq(HopSet)
      /\ ctl.stream \in 0..Len(hops) /\ ctl.onAborted \in 0..ctl.stream
  BY Started DEF IInv, Core, Indices, TypeOK
<1>2. /\ hops' \in Seq(HopSet) /\ Len(hops') = Len(hops) /\ hops'[ctl.hop] = x
      /\ \A i \in 1..Len(hops) : i # ctl.hop => hops'[i] = hops[i]
  <2> DEFINE put == Put(hops, ctl.hop, x)
  <2>1. /\ put \in Seq(HopSet) /\ Len(put) = Len(hops) /\ put[ctl.hop] = x
        /\ \A i \in 1..Len(hops) : i # ctl.hop => put[i] = hops[i]
    BY <1>1, PutHop
  <2> HIDE DEF put
  <2>2. hops' = put
    BY DEF put
  <2>3. QED
    BY <2>1, <2>2
<1>3. Last' = x /\ hops' # <<>> /\ IsCancelled' = IsCancelled
  BY <1>1, <1>2, EmptySeq DEF Last, IsCancelled
<1>4. Late' = Late
  BY DEF Late
<1>a. TypeOK'
  BY <1>2 DEF IInv, Core, TypeOK
<1>b. Indices' /\ Over'
  BY <1>1, <1>2, <1>3 DEF IInv, Core, Indices, Over
<1>c. Answered'
  BY DEF IInv, Core, Answered, NoResponse
<1>d. Progress'
  BY <1>3 DEF Progress, Steady, Governed
<1>e. GivesUp'
  BY <1>3 DEF IInv, Core, GivesUp, GivenUp, IsCancelled, Governed
<1>f. Reads'
  BY <1>4 DEF Reads
<1>g. Counts'
  BY <1>3, <1>4 DEF Counts, Steady
<1>h. Listens'
  <2>1. Stream' = "readable" => Stream = "readable"
    BY <1>2, <1>3 DEF Stream, Last, IInv, Core, Answered
  <2>2. ctl.onAborted # 0 => ctl.onAborted \in 1..Len(hops)
    BY <1>1
  <2>3. ASSUME ~IsCancelled', ctl.onAborted # 0
        PROVE  \/ hops'[ctl.onAborted].stream = "readable"
               \/ ctl.onAborted = ctl.stream /\ Late
    <3>1. \/ hops[ctl.onAborted].stream = "readable"
          \/ ctl.onAborted = ctl.stream /\ Late
      BY <1>3, <2>3 DEF IInv, Listens
    <3>2. CASE ctl.onAborted # ctl.hop
      BY <1>2, <2>2, <2>3, <3>1, <3>2
    <3>3. CASE ctl.onAborted = ctl.hop
      <4>1. ctl.onAborted = ctl.stream
        BY <1>1, <3>3
      <4>2. QED
        BY <1>2, <3>1, <3>3, <4>1 DEF Last
    <3>4. QED
      BY <3>2, <3>3
  <2>4. QED
    BY <1>3, <1>4, <2>1, <2>3 DEF IInv, Listens
<1>i. BodyEnds'
  BY <1>3 DEF BodyEnds, Steady, Governed, IsCancelled
<1>j. Closes'
  <2>1. Stream' = "closed" => response.hop # 0 /\ x.stream = "closed"
    BY <1>2 DEF Stream, IInv, Core, Answered
  <2>2. QED
    BY <1>3, <2>1 DEF Closes, Steady
<1>k. QED
  BY <1>a, <1>b, <1>c, <1>d, <1>e, <1>f, <1>g, <1>h, <1>i, <1>j DEF IInv, Core

LEMMA StopStep ==
  ASSUME IInv, at \notin {"start", "check"}, ~IsCancelled, NEW x \in HopSet,
         NEW state \in {"aborted", "terminated"}, Stop(state, Put(hops, ctl.hop, x)),
         UNCHANGED <<at, response>>,
         user' \in UserStates, user'.reading \/ user'.got # 0 => Late,
         x.stream = Last.stream \/ (ctl.stream = ctl.hop /\ x.stream # "readable"),
         Steady(x, user'), at = "await" => x.promise # "head",
         x.st = "running" => ctl.armed /\ ~ctl.destroyed,
         ctl.ended /\ ctl.hop = 1 => x.st = "ended"
  PROVE  IInv'
<1> DEFINE put == Put(hops, ctl.hop, x)
<1>1. /\ ctl.hop \in 1..Len(hops) /\ Len(hops) \in Nat /\ Len(hops) # 0 /\ hops # <<>>
      /\ Last \in HopSet /\ ctl.hop = Len(hops) /\ hops \in Seq(HopSet) /\ ctl \in Controllers
      /\ ctl.stream \in 0..Len(hops) /\ ctl.onAborted \in 0..ctl.stream
  BY Started DEF IInv, Core, Indices, TypeOK
<1>2. /\ put \in Seq(HopSet) /\ Len(put) = Len(hops) /\ put[ctl.hop] = x
      /\ \A i \in 1..Len(hops) : i # ctl.hop => put[i] = hops[i]
  <2>1. hops \in Seq(HopSet) /\ ctl.hop \in 1..Len(hops) /\ x \in HopSet
    BY <1>1
  <2>2. QED
    BY ONLY <2>1, PutHop
<1>3. Stop(state, put)
  OBVIOUS
<1> HIDE DEF put
<1> DEFINE g == Destroy(put)
<1>4. /\ ctl' \in Controllers /\ IsCancelled' /\ ctl'.hop = ctl.hop /\ ctl'.destroyed
      /\ ctl'.stream = ctl.stream /\ ctl'.onAborted = ctl.onAborted
      /\ ctl'.armed = ctl.armed /\ ctl'.ended = ctl.ended
      /\ hops' \in Seq(HopSet) /\ Len(hops') = Len(put)
      /\ \A i \in 1..Len(put) :
           /\ hops'[i] = WithStream(g[i], hops'[i].stream)
           /\ hops'[i].stream = put[i].stream
                \/ (i = ctl.stream /\ put[i].stream = "readable" /\ hops'[i].stream = "errored")
      /\ ctl.onAborted # 0 /\ put[ctl.onAborted].stream = "readable" =>
           hops'[ctl.stream].stream # "readable"
  BY <1>1, <1>2, <1>3, StopEffect
<1>5. /\ \A i \in 1..Len(put) : i # ctl.hop => g[i] = put[i]
      /\ g[ctl.hop] = IF ctl.armed /\ ~ctl.destroyed /\ ~x.aborted THEN Abort(x) ELSE x
      /\ g \in Seq(HopSet) /\ Len(g) = Len(put)
  BY <1>1, <1>2, DestroyHops
<1> HIDE DEF g
<1>6. hops' # <<>> /\ Last' = hops'[ctl.hop]
  BY <1>1, <1>2, <1>4, EmptySeq DEF Last
\* The last hop, once its controller is told.
<1>7. /\ g[ctl.hop] \in HopSet /\ g[ctl.hop].st # "running"
      /\ g[ctl.hop].stream = x.stream /\ g[ctl.hop].status = x.status
      /\ g[ctl.hop].sent = x.sent
      /\ x.promise = "head" <=> g[ctl.hop].promise = "head"
      /\ g[ctl.hop].promise = "error" => x.promise = "error" \/ g[ctl.hop].st = "failed"
      /\ g[ctl.hop].aborted => g[ctl.hop].st \in {"ended", "failed"}
      /\ \/ /\ g[ctl.hop].st = x.st /\ g[ctl.hop].body = x.body
            /\ g[ctl.hop].chunks = x.chunks
         \/ /\ x.st \in {"queued", "running"} /\ g[ctl.hop].st = "failed"
            /\ g[ctl.hop].chunks = 0
            /\ g[ctl.hop].body \in {"none", "failed"} /\ (x.body = "none" <=> g[ctl.hop].body = "none")
  <2>1. CASE g[ctl.hop] = x
    <3>1. x.st = "running" => g[ctl.hop] = Abort(x) /\ ~x.aborted
      BY <1>5 DEF Steady
    <3>2. x.st # "running"
      BY <2>1, <3>1, AbortHop
    <3>3. x.aborted => x.st \in {"ended", "failed"}
      BY DEF Steady
    <3>4. QED
      BY <2>1, <3>2, <3>3
  <2>2. CASE g[ctl.hop] # x
    <3>1. g[ctl.hop] = Abort(x)
      BY <1>5, <2>2
    <3>2. CASE x.st \in {"ended", "failed"}
      <4>1. g[ctl.hop] = [x EXCEPT !.aborted = TRUE]
        BY <3>1, <3>2, AbortHop
      <4>2. QED
        BY <3>2, <4>1 DEF HopSet
    <3>3. CASE x.st \in {"queued", "running"}
      <4>1. g[ctl.hop] = [Failed(x) EXCEPT !.aborted = TRUE]
        BY <3>1, <3>3, AbortHop
      <4>2. /\ Failed(x) \in HopSet /\ Failed(x).st = "failed"
            /\ x.promise = "head" <=> Failed(x).promise = "head"
            /\ Failed(x).body \in {"none", "failed"}
            /\ Failed(x).body = "none" <=> x.body = "none"
            /\ Failed(x).chunks = 0
            /\ Failed(x).status = x.status /\ Failed(x).stream = x.stream
            /\ Failed(x).sent = x.sent
        BY FailedHop
      <4> DEFINE f == Failed(x)
      <4> HIDE DEF f
      <4>3. /\ g[ctl.hop] = [f EXCEPT !.aborted = TRUE] /\ f \in HopSet
            /\ f.st = "failed" /\ f.chunks = 0 /\ f.stream = x.stream /\ f.status = x.status
            /\ f.sent = x.sent /\ f.body \in {"none", "failed"}
            /\ f.body = "none" <=> x.body = "none"
            /\ f.promise = "head" <=> x.promise = "head"
        BY <4>1, <4>2 DEF f
      <4>4. /\ g[ctl.hop] \in HopSet /\ g[ctl.hop].st = "failed"
            /\ g[ctl.hop].stream = f.stream /\ g[ctl.hop].status = f.status
            /\ g[ctl.hop].sent = f.sent /\ g[ctl.hop].body = f.body
            /\ g[ctl.hop].promise = f.promise /\ g[ctl.hop].chunks = f.chunks
        BY ONLY <4>3 DEF HopSet
      <4>5. QED
        BY <3>3, <4>3, <4>4
    <3>4. QED
      BY <3>2, <3>3 DEF HopSet
  <2>3. QED
    BY <2>1, <2>2
<1>8. /\ Last'.st = g[ctl.hop].st /\ Last'.status = g[ctl.hop].status
      /\ Last'.promise = g[ctl.hop].promise /\ Last'.aborted = g[ctl.hop].aborted
      /\ Last'.body = g[ctl.hop].body /\ Last'.chunks = g[ctl.hop].chunks
      /\ Last'.sent = g[ctl.hop].sent /\ Last' \in HopSet
      /\ Last'.stream = x.stream \/ (x.stream = "readable" /\ Last'.stream = "errored")
  <2>1. Last' = WithStream(g[ctl.hop], Last'.stream) /\ Last' \in HopSet
    BY <1>1, <1>2, <1>4, <1>6, HopAt
  <2>2. Last'.stream = x.stream \/ (x.stream = "readable" /\ Last'.stream = "errored")
    BY <1>1, <1>2, <1>4, <1>6
  <2> HIDE DEF Last
  <2>3. QED
    BY <1>7, <2>1, <2>2 DEF WithStream, HopSet
<1>a. TypeOK'
  BY <1>4 DEF IInv, Core, TypeOK
<1>b. Indices'
  BY <1>2, <1>4, <1>6 DEF IInv, Core, Indices
<1>c. Over'
  <2>1. ASSUME NEW h \in 1..(Len(hops) - 1)
        PROVE  hops'[h].st = "ended" /\ hops'[h].body = "none"
    <3>1. h \in 1..Len(put) /\ h # ctl.hop /\ hops[h].st = "ended" /\ hops[h].body = "none"
      BY <1>1, <1>2 DEF IInv, Core, Over
    <3>2. g[h] = hops[h] /\ g[h] \in HopSet
      BY <1>2, <1>5, <3>1, HopAt
    <3>3. hops'[h] = WithStream(g[h], hops'[h].stream)
      BY <1>4, <3>1
    <3>4. QED
      BY <3>1, <3>2, <3>3 DEF WithStream, HopSet
  <2>2. QED
    BY <1>2, <1>4, <2>1 DEF Over
<1>d. Answered'
  BY <1>4 DEF IInv, Core, Answered, NoResponse
<1>e. Progress'
  BY <1>4, <1>6, <1>7, <1>8 DEF Progress, Steady
<1>f. GivesUp'
  BY <1>4, <1>6, <1>7, <1>8 DEF GivesUp, GivenUp, HopSet
<1>g. Reads' /\ Late' = Late
  BY DEF Reads, Late
<1>h. Counts'
  BY <1>g, <1>7, <1>8 DEF Counts, Steady
<1>i. Listens'
  <2>1. ASSUME response.hop # 0
        PROVE  Stream' # "readable"
    <3>1. response.hop = ctl.hop /\ ctl.stream = ctl.hop /\ ctl.onAborted # 0
      BY <1>1, <2>1 DEF IInv, Core, Answered, Indices
    <3>2. Stream' = Last'.stream
      BY <1>6, <2>1, <3>1 DEF Stream
    <3>3. CASE x.stream # "readable"
      BY <1>8, <3>2, <3>3
    <3>4. CASE x.stream = "readable"
      <4>1. Last.stream = "readable"
        BY <3>4
      <4>2. hops[ctl.onAborted].stream = "readable"
        BY <3>1, <4>1 DEF IInv, Listens, Last
      <4>3. put[ctl.onAborted].stream = "readable"
        BY <1>1, <1>2, <3>1, <3>4, <4>2
      <4>4. QED
        BY <1>4, <1>6, <3>1, <3>2, <4>3
    <3>5. QED
      BY <3>3, <3>4
  <2>2. response.hop = 0 => Stream' # "readable"
    BY DEF Stream
  <2>3. QED
    BY <1>4, <2>1, <2>2 DEF Listens
<1>j. BodyEnds'
  BY <1>4, <1>6, <1>7, <1>8 DEF BodyEnds, Steady
<1>k. Closes'
  <2>1. Stream' = "closed" => response.hop # 0 /\ x.stream = "closed"
    BY <1>6, <1>8 DEF Stream, IInv, Core, Answered
  <2>2. QED
    BY <1>7, <1>8, <2>1 DEF Closes, Steady
<1>l. QED
  BY <1>a, <1>b, <1>c, <1>d, <1>e, <1>f, <1>g, <1>h, <1>i, <1>j, <1>k DEF IInv, Core

\* What is under way, or holds a body, is the last hop.
LEMMA OnlyLast ==
  ASSUME IInv, NEW h \in DOMAIN hops,
         hops[h].st \in {"queued", "running", "failed"} \/ hops[h].body # "none"
  PROVE  /\ h = ctl.hop /\ at # "start" /\ hops[h] = Last /\ Last \in HopSet
         /\ Steady(Last, user) /\ Governed(Last, ctl)
         /\ user \in UserStates /\ ctl \in Controllers
         /\ user.reading \/ user.got # 0 => Late
         /\ user.aborted => IsCancelled
<1>1. DOMAIN hops = 1..Len(hops) /\ Len(hops) \in Nat
  BY LenProperties DEF IInv, Core, TypeOK
<1>2. hops # <<>>
  BY <1>1, EmptySeq
<1>3. at # "start"
  BY <1>2 DEF IInv, Core, Indices
<1>4. h = Len(hops)
  BY <1>1 DEF IInv, Core, Over
<1>5. h = ctl.hop /\ hops[h] = Last
  BY <1>4 DEF IInv, Core, Indices, Last
<1>6. Last \in HopSet /\ Steady(Last, user) /\ Governed(Last, ctl)
  BY <1>3, Started, LastIsSound DEF IInv, Core
<1>7. QED
  BY <1>3, <1>5, <1>6 DEF IInv, Core, TypeOK, Reads, GivesUp

\* A reader pulls from the last hop.
LEMMA PullsLast ==
  ASSUME IInv, Pulls
  PROVE  /\ at # "start" /\ Late /\ response.hop # 0 /\ ctl.stream = ctl.hop
         /\ ctl.hop \in DOMAIN hops /\ hops[ctl.stream] = Last /\ Last \in HopSet
         /\ Last.stream = "readable" /\ ~IsCancelled
         /\ Steady(Last, user) /\ Governed(Last, ctl)
         /\ user \in UserStates /\ ctl \in Controllers /\ ~user.aborted
<1>1. response.hop # 0 /\ Stream = "readable" /\ user.reading
  BY DEF Pulls, Stream
<1>2. Late /\ at # "start"
  BY <1>1 DEF IInv, Reads, Late
<1>3. response.hop = ctl.hop /\ ctl.stream = ctl.hop
  BY <1>1 DEF IInv, Core, Answered
<1>4. ctl.hop \in 1..Len(hops) /\ Last \in HopSet /\ Steady(Last, user) /\ Governed(Last, ctl)
  BY <1>2, Started, LastIsSound DEF IInv, Core
<1>5. DOMAIN hops = 1..Len(hops)
  BY LenProperties DEF IInv, Core, TypeOK
<1>6. hops[ctl.stream] = Last /\ Last.stream = "readable"
  BY <1>1, <1>3 DEF Last, Stream
<1>7. ~IsCancelled /\ ~user.aborted
  BY <1>1 DEF IInv, Listens, Core, GivesUp
<1>8. QED
  BY <1>1, <1>2, <1>3, <1>4, <1>5, <1>6, <1>7 DEF IInv, Core, TypeOK

Taken(h, paused) == [h EXCEPT !.chunks = h.chunks - 1, !.paused = paused]

LEMMA TakeChunk ==
  ASSUME NEW h \in HopSet, NEW paused \in BOOLEAN, h.chunks > 0
  PROVE  /\ Taken(h, paused) \in HopSet /\ Taken(h, paused).chunks = h.chunks - 1
         /\ Taken(h, paused).sent = h.sent /\ Taken(h, paused).st = h.st
         /\ Taken(h, paused).status = h.status /\ Taken(h, paused).promise = h.promise
         /\ Taken(h, paused).aborted = h.aborted /\ Taken(h, paused).body = h.body
         /\ Taken(h, paused).stream = h.stream
<1>1. h.chunks - 1 \in Nat
  BY DEF HopSet
<1>2. QED
  BY <1>1 DEF HopSet, Taken

\* The user has taken a chunk.
Got(u) == [u EXCEPT !.got = u.got + 1, !.reading = FALSE]

LEMMA GetChunk ==
  ASSUME NEW u \in UserStates
  PROVE  /\ Got(u) \in UserStates /\ Got(u).got = u.got + 1
         /\ Got(u).cancelled = u.cancelled /\ Got(u).aborted = u.aborted
<1>1. u.got + 1 \in Nat
  BY DEF UserStates
<1>2. QED
  BY <1>1 DEF UserStates, Got

LEMMA PullChunkStep ==
  ASSUME IInv, PullChunk
  PROVE  IInv'
<1>1. /\ at # "start" /\ Late /\ response.hop # 0 /\ ctl.stream = ctl.hop
      /\ ctl.hop \in DOMAIN hops /\ hops[ctl.stream] = Last /\ Last \in HopSet
      /\ Last.stream = "readable" /\ ~IsCancelled
      /\ Steady(Last, user) /\ Governed(Last, ctl)
      /\ user \in UserStates /\ ctl \in Controllers /\ ~user.aborted
  BY PullsLast DEF PullChunk
<1>2. Last.chunks > 0
  BY <1>1 DEF PullChunk
<1>3. PICK paused \in BOOLEAN :
        hops' = [hops EXCEPT ![ctl.hop].chunks = Last.chunks - 1, ![ctl.hop].paused = paused]
  <2>1. Last.paused \in BOOLEAN
    BY <1>1 DEF HopSet
  <2>2. QED
    BY <1>1, <2>1 DEF PullChunk
<1> DEFINE x == Taken(Last, paused)
<1>4. hops' = Put(hops, ctl.hop, x)
  BY <1>1, <1>3 DEF Put, Last, Taken
<1>5. user' = Got(user) /\ UNCHANGED <<at, response, ctl>>
  BY DEF PullChunk, Got
<1>6. /\ user' \in UserStates /\ user'.got = user.got + 1 /\ UNCHANGED <<user.cancelled, user.aborted>>
  BY <1>1, <1>5, GetChunk
<1> HIDE DEF Last
<1>7. /\ x \in HopSet /\ x.chunks = Last.chunks - 1 /\ x.sent = Last.sent
      /\ x.st = Last.st /\ x.status = Last.status /\ x.promise = Last.promise
      /\ x.aborted = Last.aborted /\ x.body = Last.body /\ x.stream = Last.stream
  BY <1>1, <1>2, TakeChunk
<1> HIDE DEF x
<1>8. Steady(x, user')
  BY <1>1, <1>2, <1>6, <1>7 DEF Steady, HopSet, UserStates
<1>9. Governed(x, ctl')
  BY <1>1, <1>5, <1>7 DEF Governed
<1>10. QED
  BY <1>1, <1>4, <1>5, <1>6, <1>7, <1>8, <1>9, ChangeStep

\* The stream is closed, by the reader's last pull or by cancel().
Closed(h) == WithStream(h, "closed")

LEMMA CloseHop ==
  ASSUME NEW h \in HopSet
  PROVE  /\ Closed(h) \in HopSet /\ Closed(h).stream = "closed"
         /\ Closed(h).st = h.st /\ Closed(h).promise = h.promise /\ Closed(h).status = h.status
         /\ Closed(h).aborted = h.aborted /\ Closed(h).body = h.body
         /\ Closed(h).chunks = h.chunks /\ Closed(h).sent = h.sent
BY DEF HopSet, Closed, WithStream

LEMMA PullEndStep ==
  ASSUME IInv, PullEnd \/ (PullFails /\ CountsAsEnd)
  PROVE  IInv'
<1>1. /\ at # "start" /\ Late /\ response.hop # 0 /\ ctl.stream = ctl.hop
      /\ ctl.hop \in DOMAIN hops /\ hops[ctl.stream] = Last /\ Last \in HopSet
      /\ Last.stream = "readable" /\ ~IsCancelled
      /\ Steady(Last, user) /\ Governed(Last, ctl)
      /\ user \in UserStates /\ ctl \in Controllers /\ ~user.aborted
  BY PullsLast DEF PullEnd, PullFails
<1>2. hops' = Put(hops, ctl.hop, Closed(Last)) /\ UNCHANGED <<at, response, ctl, user>>
  BY <1>1 DEF PullEnd, PullFails, Close, Put, Closed, WithStream, Last
<1>3. \/ Last.chunks = 0 /\ Last.body = "eof"
      \/ Last.body = "failed" /\ ctl.ended
  BY <1>1 DEF PullEnd, PullFails, CountsAsEnd
<1> DEFINE x == Closed(Last)
<1>4. /\ x \in HopSet /\ x.stream = "closed"
      /\ x.st = Last.st /\ x.promise = Last.promise /\ x.status = Last.status
      /\ x.aborted = Last.aborted /\ x.body = Last.body
      /\ x.chunks = Last.chunks /\ x.sent = Last.sent
  BY <1>1, CloseHop
<1>5. hops' = Put(hops, ctl.hop, x)
  BY <1>2
<1> HIDE DEF x, Last
<1>6. LateBare \/ (Last.st = "ended" /\ user.got = Last.sent)
  <2>1. CASE Last.chunks = 0 /\ Last.body = "eof"
    BY <1>1, <2>1 DEF Steady, HopSet, UserStates
  <2>2. CASE Last.body = "failed" /\ ctl.ended
    <3>1. Last.st = "failed"
      BY <1>1, <2>2 DEF Governed, IsCancelled
    <3>2. QED
      BY <1>1, <2>2, <3>1 DEF Governed, IsCancelled
  <2>3. QED
    BY <1>3, <2>1, <2>2
<1>7. Steady(x, user')
  BY <1>1, <1>2, <1>4, <1>6 DEF Steady
<1>8. Governed(x, ctl')
  BY <1>1, <1>2, <1>4 DEF Governed
<1>9. QED
  BY <1>1, <1>2, <1>4, <1>5, <1>7, <1>8, ChangeStep DEF UserStates

LEMMA PutLast ==
  ASSUME NEW h \in DOMAIN hops, hops \in Seq(HopSet)
  PROVE  Put(hops, h, hops[h]) = hops
BY DEF Put

LEMMA PullFailsStep ==
  ASSUME IInv, PullFails, ~CountsAsEnd
  PROVE  IInv'
<1>1. /\ at # "start" /\ Late /\ response.hop # 0 /\ ctl.stream = ctl.hop
      /\ ctl.hop \in DOMAIN hops /\ hops[ctl.stream] = Last /\ Last \in HopSet
      /\ Last.stream = "readable" /\ ~IsCancelled
      /\ Steady(Last, user) /\ Governed(Last, ctl)
      /\ user \in UserStates /\ ctl \in Controllers /\ ~user.aborted
  BY PullsLast DEF PullFails
<1>2. Put(hops, ctl.hop, Last) = hops
  BY <1>1, PutLast DEF Last, IInv, Core, TypeOK
<1>3. Stop("terminated", Put(hops, ctl.hop, Last)) /\ UNCHANGED <<at, response, user>>
  BY <1>2 DEF PullFails
<1>4. Last.st # "running" /\ at \notin {"start", "check", "await"}
  BY <1>1 DEF Governed, PullFails, Late, IsCancelled
<1>5. ctl.ended /\ ctl.hop = 1 => Last.st = "ended"
  BY <1>1 DEF Governed
<1>6. QED
  BY <1>1, <1>3, <1>4, <1>5, StopStep

LEMMA CancelStep ==
  ASSUME IInv, Cancel
  PROVE  IInv'
<1>1. /\ at = "done" /\ Stream = "readable" /\ response.hop # 0
      /\ user' = [user EXCEPT !.cancelled = TRUE] /\ Stop("aborted", Close(hops))
      /\ UNCHANGED <<at, response>>
  BY DEF Cancel, HasBody, Stream
<1>2. response.hop = ctl.hop /\ ctl.stream = ctl.hop /\ ~IsCancelled
  BY <1>1 DEF IInv, Core, Answered, Listens
<1>3. /\ ctl.hop \in 1..Len(hops) /\ Last \in HopSet /\ Steady(Last, user)
      /\ Governed(Last, ctl) /\ user \in UserStates /\ Late
      /\ user.reading \/ user.got # 0 => Late
  BY <1>1, Started, LastIsSound DEF IInv, Core, TypeOK, Reads, Late
<1>4. Close(hops) = Put(hops, ctl.hop, Closed(Last))
  BY <1>2 DEF Close, Put, Closed, WithStream, Last
<1> DEFINE x == Closed(Last)
<1>5. /\ x \in HopSet /\ x.stream = "closed"
      /\ x.st = Last.st /\ x.promise = Last.promise /\ x.status = Last.status
      /\ x.aborted = Last.aborted /\ x.body = Last.body
      /\ x.chunks = Last.chunks /\ x.sent = Last.sent
  BY <1>3, CloseHop
<1>6. Stop("aborted", Put(hops, ctl.hop, x))
  BY <1>1, <1>4
<1> HIDE DEF x, Last
<1>7. user' \in UserStates /\ user'.cancelled /\ user'.got = user.got
  BY <1>1, <1>3 DEF UserStates
<1>8. Steady(x, user')
  BY <1>3, <1>5, <1>7 DEF Steady
<1>9. /\ x.st = "running" => ctl.armed /\ ~ctl.destroyed
      /\ ctl.ended /\ ctl.hop = 1 => x.st = "ended"
  BY <1>3, <1>5 DEF Governed
<1>10. QED
  BY <1>1, <1>2, <1>3, <1>5, <1>6, <1>7, <1>8, <1>9, StopStep

LEMMA SignalAbortsStep ==
  ASSUME IInv, NothingBetween, SignalAborts
  PROVE  IInv'
<1>1. /\ at # "start" /\ UNCHANGED <<at, response>>
      /\ user' = [user EXCEPT !.aborted = TRUE, !.promise =
                     IF @ = "pending" THEN "rejected" ELSE @]
      /\ Microtasks => at = "answer"
  BY DEF SignalAborts, NothingBetween
<1>2. /\ ctl.hop \in 1..Len(hops) /\ Last \in HopSet /\ Steady(Last, user)
      /\ Governed(Last, ctl) /\ user \in UserStates /\ ctl \in Controllers
      /\ user.reading \/ user.got # 0 => Late
      /\ hops \in Seq(HopSet) /\ DOMAIN hops = 1..Len(hops)
  BY <1>1, Started, LastIsSound, LenProperties DEF IInv, Core, TypeOK, Reads
<1>3. user' \in UserStates /\ UNCHANGED <<user.cancelled, user.got, user.reading>>
  BY <1>1, <1>2 DEF UserStates
<1>4. Put(hops, ctl.hop, Last) = hops
  BY <1>2, PutLast DEF Last
<1>5. Steady(Last, user')
  BY <1>2, <1>3 DEF Steady
<1>6. CASE IsCancelled
  <2>1. ~HasBody
    BY <1>6 DEF IInv, Listens, HasBody
  <2>2. hops' = Put(hops, ctl.hop, Last) /\ UNCHANGED ctl
    BY <1>4, <1>6, <2>1 DEF SignalAborts, AbortFetch
  <2>3. QED
    BY <1>1, <1>2, <1>3, <1>5, <1>6, <2>2, ChangeStep
<1>7. CASE ~IsCancelled
  <2>1. Stop("aborted", Put(hops, ctl.hop, Last))
    BY <1>4, <1>7 DEF SignalAborts
  <2>2. at # "check" /\ (at = "await" => Last.promise # "head")
    BY <1>1 DEF Microtasks, Last
  <2>3. /\ Last.st = "running" => ctl.armed /\ ~ctl.destroyed
        /\ ctl.ended /\ ctl.hop = 1 => Last.st = "ended"
    BY <1>2 DEF Governed
  <2>4. QED
    BY <1>1, <1>2, <1>3, <1>5, <1>7, <2>1, <2>2, <2>3, StopStep
<1>8. QED
  BY <1>6, <1>7

----------------------------------------------------------------------------
(* The calls of the dispatcher.                                             *)

LEMMA NetworkFetchStep ==
  ASSUME IInv, NetworkFetch
  PROVE  IInv'
<1> DEFINE x == WithStream(Last, "readable")
<1>1. /\ at = "await" /\ Last.promise = "head" /\ at' = "check" /\ UNCHANGED user
      /\ ctl' = [ctl EXCEPT !.stream = ctl.hop,
                            !.onAborted = IF ctl.onAborted = 0 THEN ctl.hop ELSE ctl.onAborted]
      /\ response' = [type |-> "default", hop |-> ctl.hop]
  BY DEF NetworkFetch, Last
<1>2. /\ ctl.hop \in 1..Len(hops) /\ Len(hops) \in Nat /\ Last \in HopSet
      /\ Steady(Last, user) /\ Governed(Last, ctl) /\ ctl \in Controllers
      /\ hops \in Seq(HopSet) /\ ctl.hop = Len(hops)
      /\ ctl.stream \in 0..Len(hops) /\ ctl.onAborted \in 0..ctl.stream
  BY <1>1, Started, LastIsSound DEF IInv, Core, TypeOK, Indices
<1>3. /\ x \in HopSet /\ x.stream = "readable"
      /\ x.st = Last.st /\ x.promise = Last.promise /\ x.status = Last.status
      /\ x.aborted = Last.aborted /\ x.body = Last.body
      /\ x.chunks = Last.chunks /\ x.sent = Last.sent
  <2> HIDE DEF Last
  <2>1. QED
    BY <1>2 DEF HopSet, WithStream
<1>4. hops' = Put(hops, ctl.hop, x)
  BY DEF NetworkFetch, Put, WithStream, Last
<1> HIDE DEF x
<1> DEFINE put == Put(hops, ctl.hop, x)
<1>5. /\ put \in Seq(HopSet) /\ Len(put) = Len(hops) /\ put[ctl.hop] = x
      /\ \A i \in 1..Len(hops) : i # ctl.hop => put[i] = hops[i]
  BY <1>2, <1>3, PutHop
<1>6. hops' = put
  BY <1>4
<1> HIDE DEF put
<1>7. /\ ctl' \in Controllers /\ ctl'.stream = ctl.hop
      /\ ctl'.onAborted = (IF ctl.onAborted = 0 THEN ctl.hop ELSE ctl.onAborted)
      /\ UNCHANGED <<ctl.state, ctl.hop, ctl.destroyed, ctl.armed, ctl.ended>>
  BY <1>1, <1>2 DEF Controllers
<1>8. hops' # <<>> /\ Last' = x /\ Len(hops') = Len(hops)
  BY <1>2, <1>5, <1>6, <1>7, EmptySeq DEF Last
<1>9. ~IsCancelled /\ ~IsCancelled'
  BY <1>1, <1>7 DEF IInv, Core, GivesUp, IsCancelled
<1>a. TypeOK'
  BY <1>1, <1>2, <1>5, <1>6, <1>7 DEF IInv, Core, TypeOK, Places, Controllers
<1>b. Indices'
  BY <1>1, <1>2, <1>7, <1>8 DEF IInv, Core, Indices
<1>c. Answered'
  BY <1>1, <1>2, <1>7 DEF Answered
<1>d. Over'
  BY <1>2, <1>5, <1>6, <1>8 DEF IInv, Core, Over
<1>e. Progress'
  BY <1>1, <1>2, <1>3, <1>7, <1>8 DEF Progress, Steady, Governed
<1>f. GivesUp'
  BY <1>1, <1>7, <1>9 DEF IInv, Core, GivesUp, IsCancelled
<1>g. Reads' /\ Counts'
  BY <1>1, <1>2, <1>3, <1>8 DEF IInv, Reads, Counts, Steady, Late
<1>h. Listens'
  <2>1. CASE ctl.onAborted = 0
    BY <1>3, <1>5, <1>6, <1>7, <1>9, <2>1 DEF Listens
  <2>2. CASE ctl.onAborted # 0
    <3>1. hops[ctl.onAborted].stream = "readable" /\ ctl.onAborted \in 1..Len(hops)
      BY <1>1, <1>2, <1>9, <2>2 DEF IInv, Listens, Late
    <3>2. hops'[ctl.onAborted].stream = "readable"
      BY <1>3, <1>5, <1>6, <3>1
    <3>3. QED
      BY <1>7, <1>9, <2>2, <3>2 DEF Listens
  <2>3. QED
    BY <2>1, <2>2
<1>i. BodyEnds'
  BY <1>1, <1>2, <1>3, <1>7, <1>8, <1>9 DEF BodyEnds, Steady, Governed, IsCancelled
<1>j. Closes'
  <2>1. Stream' = "readable"
    BY <1>1, <1>2, <1>3, <1>5, <1>6 DEF Stream
  <2>2. QED
    BY <2>1 DEF Closes
<1>k. QED
  BY <1>a, <1>b, <1>c, <1>d, <1>e, <1>f, <1>g, <1>h, <1>i, <1>j DEF IInv, Core

Arm(c) == [c EXCEPT !.armed = TRUE]

LEMMA Armed ==
  ASSUME NEW c \in Controllers
  PROVE  /\ Arm(c) \in Controllers /\ Arm(c).armed
         /\ Arm(c).state = c.state /\ Arm(c).hop = c.hop /\ Arm(c).destroyed = c.destroyed
         /\ Arm(c).onAborted = c.onAborted /\ Arm(c).stream = c.stream
         /\ Arm(c).ended = c.ended
BY DEF Controllers, Arm

WithSt(h, st) == [h EXCEPT !.st = st]

LEMMA StHop ==
  ASSUME NEW h \in HopSet, NEW st \in {"queued", "running", "ended", "failed"}
  PROVE  /\ WithSt(h, st) \in HopSet /\ WithSt(h, st).st = st
         /\ WithSt(h, st).promise = h.promise /\ WithSt(h, st).status = h.status
         /\ WithSt(h, st).aborted = h.aborted /\ WithSt(h, st).body = h.body
         /\ WithSt(h, st).chunks = h.chunks /\ WithSt(h, st).sent = h.sent
         /\ WithSt(h, st).stream = h.stream
BY DEF HopSet, WithSt

LEMMA OnRequestStartStep ==
  ASSUME IInv, NEW h \in DOMAIN hops, OnRequestStart(h)
  PROVE  IInv'
<1>1. hops[h].st = "queued" /\ ~Microtasks /\ UNCHANGED <<at, response, user>>
  BY DEF OnRequestStart
<1>2. /\ h = ctl.hop /\ at # "start" /\ hops[h] = Last /\ Last \in HopSet
      /\ Steady(Last, user) /\ Governed(Last, ctl)
      /\ user \in UserStates /\ ctl \in Controllers
      /\ user.reading \/ user.got # 0 => Late
      /\ user.aborted => IsCancelled
  BY <1>1, OnlyLast
<1>3. at = "await" /\ Last.status = "none" /\ Last.promise = "pending"
  <2>1. Last.st = "queued"
    BY <1>1, <1>2
  <2>2. at = "await" /\ Last.status = "none"
    BY <1>2, <2>1 DEF Steady
  <2>3. Last.promise = "pending"
    BY <1>1, <2>2 DEF Microtasks, Last
  <2>4. QED
    BY <2>2, <2>3
<1>4. CASE ctl.destroyed
  <2>1. hops' = Put(hops, ctl.hop, Abort(Last)) /\ UNCHANGED ctl
    BY <1>2, <1>4 DEF OnRequestStart, Change, Put
  <2>2. IsCancelled
    BY <1>3, <1>4 DEF IInv, Core, GivesUp
  <2> DEFINE f == Failed(Last)
  <2> DEFINE x == Abort(Last)
  <2>3. x \in HopSet /\ x = [f EXCEPT !.aborted = TRUE] /\ x.stream = Last.stream
    BY <1>1, <1>2, AbortHop
  <2>4. /\ f \in HopSet /\ f.st = "failed" /\ f.chunks = 0 /\ f.promise = "error"
        /\ f.body = "none" <=> Last.body = "none"
        /\ f.status = Last.status /\ f.sent = Last.sent
    BY <1>2, <1>3, FailedHop
  <2>5. hops' = Put(hops, ctl.hop, x)
    BY <2>1
  <2> HIDE DEF x, f
  <2>6. /\ x.st = "failed" /\ x.chunks = f.chunks /\ x.promise = "error"
        /\ x.body = f.body /\ x.status = f.status /\ x.sent = f.sent
    BY <2>3, <2>4 DEF HopSet
  <2>7. x.body = "none" /\ x.chunks = 0 /\ x.sent = 0 /\ x.status = "none"
    BY <1>2, <1>3, <2>4, <2>6 DEF Steady
  <2>8. Steady(x, user') /\ response.hop = 0
    BY <1>3, <2>6, <2>7 DEF Steady, IInv, Core, Answered, NoResponse
  <2>9. Governed(x, ctl')
    BY <1>1, <1>2, <1>3, <2>1, <2>2, <2>6, <2>7 DEF Governed, IsCancelled
  <2>10. QED
    BY <1>1, <1>2, <2>1, <2>3, <2>5, <2>8, <2>9, ChangeStep
<1>5. CASE ~ctl.destroyed
  <2> DEFINE x == WithSt(Last, "running")
  <2>1. hops' = Put(hops, ctl.hop, x) /\ ctl' = Arm(ctl)
    BY <1>2, <1>5 DEF OnRequestStart, Change, Put, WithSt, Arm
  <2>2. /\ x \in HopSet /\ x.st = "running" /\ x.promise = Last.promise
        /\ x.status = Last.status /\ x.aborted = Last.aborted /\ x.body = Last.body
        /\ x.chunks = Last.chunks /\ x.sent = Last.sent /\ x.stream = Last.stream
    BY <1>2, StHop
  <2> HIDE DEF x
  <2>3. /\ ctl' \in Controllers /\ ctl'.armed
        /\ UNCHANGED <<ctl.state, ctl.hop, ctl.destroyed, ctl.onAborted, ctl.stream, ctl.ended>>
    BY <1>2, <2>1, Armed
  <2>4. Steady(x, user')
    BY <1>1, <1>2, <1>3, <2>2 DEF Steady
  <2>5. Governed(x, ctl')
    BY <1>1, <1>2, <1>3, <1>5, <2>2, <2>3 DEF Governed
  <2>6. QED
    BY <1>1, <1>2, <2>1, <2>2, <2>3, <2>4, <2>5, ChangeStep
<1>6. QED
  BY <1>4, <1>5

LEMMA RequeueStep ==
  ASSUME IInv, NEW h \in DOMAIN hops, Requeue(h)
  PROVE  IInv'
<1>1. /\ hops[h].st = "running" /\ hops[h].status = "none" /\ ~Microtasks
      /\ UNCHANGED <<at, response, user, ctl>>
  BY DEF Requeue
<1>2. /\ h = ctl.hop /\ at # "start" /\ hops[h] = Last /\ Last \in HopSet
      /\ Steady(Last, user) /\ Governed(Last, ctl)
      /\ user \in UserStates /\ ctl \in Controllers
      /\ user.reading \/ user.got # 0 => Late
      /\ user.aborted => IsCancelled
  BY <1>1, OnlyLast
<1> DEFINE x == WithSt(Last, "queued")
<1>3. hops' = Put(hops, ctl.hop, x)
  BY <1>2 DEF Requeue, Change, Put, WithSt
<1>4. /\ x \in HopSet /\ x.st = "queued" /\ x.promise = Last.promise
      /\ x.status = Last.status /\ x.aborted = Last.aborted /\ x.body = Last.body
      /\ x.chunks = Last.chunks /\ x.sent = Last.sent /\ x.stream = Last.stream
  BY <1>2, StHop
<1> HIDE DEF x
<1>5. Steady(x, user')
  BY <1>1, <1>2, <1>4 DEF Steady
<1>6. Governed(x, ctl')
  BY <1>1, <1>2, <1>4 DEF Governed
<1>7. QED
  BY <1>1, <1>2, <1>3, <1>4, <1>5, <1>6, ChangeStep

\* The head of a response, and a chunk of its body.
Headed(h, status) ==
  [h EXCEPT !.status = status, !.body = "open",
            !.promise = IF status = "encoded" THEN "error" ELSE "head"]
More(h, full) ==
  [h EXCEPT !.sent = h.sent + 1, !.chunks = h.chunks + 1, !.paused = full]
Ended(h) == [h EXCEPT !.st = "ended", !.body = "eof"]
Undecoded(h) == [h EXCEPT !.body = "failed", !.chunks = 0]

LEMMA HeadedHop ==
  ASSUME NEW h \in HopSet, NEW status \in Statuses
  PROVE  /\ Headed(h, status) \in HopSet /\ Headed(h, status).status = status
         /\ Headed(h, status).body = "open" /\ Headed(h, status).promise \in {"head", "error"}
         /\ Headed(h, status).st = h.st /\ Headed(h, status).aborted = h.aborted
         /\ Headed(h, status).chunks = h.chunks /\ Headed(h, status).sent = h.sent
         /\ Headed(h, status).stream = h.stream
BY DEF HopSet, Headed

LEMMA MoreHop ==
  ASSUME NEW h \in HopSet, NEW full \in BOOLEAN
  PROVE  /\ More(h, full) \in HopSet /\ More(h, full).sent = h.sent + 1
         /\ More(h, full).chunks = h.chunks + 1
         /\ More(h, full).st = h.st /\ More(h, full).promise = h.promise
         /\ More(h, full).status = h.status /\ More(h, full).aborted = h.aborted
         /\ More(h, full).body = h.body /\ More(h, full).stream = h.stream
<1>1. h.sent + 1 \in Nat /\ h.chunks + 1 \in Nat
  BY DEF HopSet
<1>2. QED
  BY <1>1 DEF HopSet, More

LEMMA EndedHop ==
  ASSUME NEW h \in HopSet
  PROVE  /\ Ended(h) \in HopSet /\ Ended(h).st = "ended" /\ Ended(h).body = "eof"
         /\ Ended(h).promise = h.promise /\ Ended(h).status = h.status
         /\ Ended(h).aborted = h.aborted /\ Ended(h).chunks = h.chunks
         /\ Ended(h).sent = h.sent /\ Ended(h).stream = h.stream
BY DEF HopSet, Ended

LEMMA UndecodedHop ==
  ASSUME NEW h \in HopSet
  PROVE  /\ Undecoded(h) \in HopSet /\ Undecoded(h).body = "failed"
         /\ Undecoded(h).chunks = 0 /\ Undecoded(h).st = h.st
         /\ Undecoded(h).promise = h.promise /\ Undecoded(h).status = h.status
         /\ Undecoded(h).aborted = h.aborted /\ Undecoded(h).sent = h.sent
         /\ Undecoded(h).stream = h.stream
BY DEF HopSet, Undecoded

LEMMA OnResponseStartStep ==
  ASSUME IInv, NEW h \in DOMAIN hops, NEW status \in Statuses, OnResponseStart(h, status)
  PROVE  IInv'
<1>1. /\ hops[h].st = "running" /\ hops[h].status = "none"
      /\ UNCHANGED <<at, response, user, ctl>>
      /\ status = "bare" => h = 1 \/ LateBare
  BY DEF OnResponseStart
<1>2. /\ h = ctl.hop /\ at # "start" /\ hops[h] = Last /\ Last \in HopSet
      /\ Steady(Last, user) /\ Governed(Last, ctl)
      /\ user \in UserStates /\ ctl \in Controllers
      /\ user.reading \/ user.got # 0 => Late
      /\ user.aborted => IsCancelled
  BY <1>1, OnlyLast
<1>3. at = "await" /\ ~Late /\ user.got = 0
  <2>1. at = "await"
    BY <1>1, <1>2 DEF Steady
  <2>2. QED
    BY <1>2, <2>1 DEF Late
<1>4. Last.chunks = 0 /\ Last.sent = 0 /\ ~Last.aborted /\ ctl.state = "ongoing"
  BY <1>1, <1>2 DEF Steady, Governed
<1> DEFINE x == Headed(Last, status)
<1>5. hops' = Put(hops, ctl.hop, x)
  BY <1>2 DEF OnResponseStart, Change, Put, Headed
<1>6. /\ x \in HopSet /\ x.status = status /\ x.body = "open"
      /\ x.promise \in {"head", "error"} /\ x.st = Last.st /\ x.aborted = Last.aborted
      /\ x.chunks = Last.chunks /\ x.sent = Last.sent /\ x.stream = Last.stream
  BY <1>2, HeadedHop
<1> HIDE DEF x
<1>7. status # "none"
  BY StatusAssumption
<1>8. response.hop = 0
  BY <1>3 DEF IInv, Core, Answered, NoResponse
<1>9. Steady(x, user')
  BY <1>1, <1>2, <1>3, <1>4, <1>6, <1>7, <1>8 DEF Steady
<1>10. Governed(x, ctl')
  BY <1>1, <1>2, <1>3, <1>4, <1>6 DEF Governed
<1>11. QED
  BY <1>1, <1>2, <1>5, <1>6, <1>9, <1>10, ChangeStep

\* The controller after data or the end of a body.
LEMMA OnResponseDataStep ==
  ASSUME IInv, NEW h \in DOMAIN hops, OnResponseData(h)
  PROVE  IInv'
<1>1. /\ hops[h].st = "running" /\ hops[h].status # "none"
      /\ UNCHANGED <<at, response, user>> /\ ctl' = [ctl EXCEPT !.encoded = TRUE]
  BY DEF OnResponseData, Receives
<1>2. /\ h = ctl.hop /\ at # "start" /\ hops[h] = Last /\ Last \in HopSet
      /\ Steady(Last, user) /\ Governed(Last, ctl)
      /\ user \in UserStates /\ ctl \in Controllers
      /\ user.reading \/ user.got # 0 => Late
      /\ user.aborted => IsCancelled
  BY <1>1, OnlyLast
<1>3. PICK full \in BOOLEAN : hops' = Put(hops, ctl.hop, More(Last, full))
  BY <1>2 DEF OnResponseData, Change, Put, More
<1> DEFINE x == More(Last, full)
<1>4. /\ x \in HopSet /\ x.sent = Last.sent + 1 /\ x.chunks = Last.chunks + 1
      /\ x.st = Last.st /\ x.promise = Last.promise /\ x.status = Last.status
      /\ x.aborted = Last.aborted /\ x.body = Last.body /\ x.stream = Last.stream
  BY <1>2, MoreHop
<1>5. hops' = Put(hops, ctl.hop, x)
  BY <1>3
<1> HIDE DEF x
<1>6. /\ ctl' \in Controllers
      /\ UNCHANGED <<ctl.state, ctl.hop, ctl.destroyed, ctl.armed, ctl.onAborted,
                     ctl.stream, ctl.ended>>
  BY <1>1, <1>2 DEF Controllers
<1>7. user.got \in Nat /\ Last.sent \in Nat /\ Last.chunks \in Nat
  BY <1>2 DEF HopSet, UserStates
<1>8. Steady(x, user')
  BY <1>1, <1>2, <1>4, <1>7 DEF Steady
<1>9. Governed(x, ctl')
  BY <1>1, <1>2, <1>4, <1>6 DEF Governed
<1>10. QED
  BY <1>1, <1>2, <1>4, <1>5, <1>6, <1>8, <1>9, ChangeStep

LEMMA OnResponseEndStep ==
  ASSUME IInv, NEW h \in DOMAIN hops, OnResponseEnd(h)
  PROVE  IInv'
<1>1. /\ hops[h].st = "running" /\ hops[h].status # "none"
      /\ UNCHANGED <<at, response, user>> /\ ctl' = [ctl EXCEPT !.ended = TRUE]
  BY DEF OnResponseEnd, Receives
<1>2. /\ h = ctl.hop /\ at # "start" /\ hops[h] = Last /\ Last \in HopSet
      /\ Steady(Last, user) /\ Governed(Last, ctl)
      /\ user \in UserStates /\ ctl \in Controllers
      /\ user.reading \/ user.got # 0 => Late
      /\ user.aborted => IsCancelled
  BY <1>1, OnlyLast
<1> DEFINE x == Ended(Last)
<1>3. hops' = Put(hops, ctl.hop, x)
  BY <1>2 DEF OnResponseEnd, Change, Put, Ended
<1>4. /\ x \in HopSet /\ x.st = "ended" /\ x.body = "eof"
      /\ x.promise = Last.promise /\ x.status = Last.status
      /\ x.aborted = Last.aborted /\ x.chunks = Last.chunks
      /\ x.sent = Last.sent /\ x.stream = Last.stream
  BY <1>2, EndedHop
<1> HIDE DEF x
<1>5. /\ ctl' \in Controllers
      /\ UNCHANGED <<ctl.state, ctl.hop, ctl.destroyed, ctl.armed, ctl.onAborted, ctl.stream>>
  BY <1>1, <1>2 DEF Controllers
\* A response under way has a body, and nothing has failed it.
<1>6. Last.body = "open" /\ ctl.state = "ongoing"
  <2>1. ctl.state = "ongoing"
    BY <1>1, <1>2 DEF Governed
  <2>2. QED
    BY <1>1, <1>2, <2>1 DEF Steady, Governed, HopSet
<1>7. Steady(x, user')
  BY <1>1, <1>2, <1>4, <1>6 DEF Steady
<1>8. Governed(x, ctl')
  BY <1>1, <1>2, <1>4, <1>5, <1>6 DEF Governed
<1>9. QED
  BY <1>1, <1>2, <1>3, <1>4, <1>5, <1>7, <1>8, ChangeStep

LEMMA OnResponseErrorStep ==
  ASSUME IInv, NothingBetween, NEW h \in DOMAIN hops, OnResponseError(h)
  PROVE  IInv'
<1>1. /\ hops[h].st \in {"queued", "running"} /\ ~Microtasks
      /\ UNCHANGED <<at, response, user>>
  BY DEF OnResponseError, NothingBetween
<1>2. /\ h = ctl.hop /\ at # "start" /\ hops[h] = Last /\ Last \in HopSet
      /\ Steady(Last, user) /\ Governed(Last, ctl)
      /\ user \in UserStates /\ ctl \in Controllers
      /\ user.reading \/ user.got # 0 => Late
      /\ user.aborted => IsCancelled
  BY <1>1, OnlyLast
<1> DEFINE x == Failed(Last)
<1>3. [hops EXCEPT ![h] = Failed(@)] = Put(hops, ctl.hop, x)
  BY <1>2 DEF Put
<1>4. /\ x \in HopSet /\ x.st = "failed" /\ x.chunks = 0
      /\ x.promise # "pending" /\ x.body \in {"none", "failed"}
      /\ x.body = "none" <=> Last.body = "none"
      /\ Last.promise # "pending" => x.promise = Last.promise
      /\ Last.promise = "pending" => x.promise = "error"
      /\ x.status = Last.status /\ x.stream = Last.stream
      /\ x.sent = Last.sent /\ x.aborted = Last.aborted
  BY <1>2, FailedHop
<1>5. Stop("terminated", Put(hops, ctl.hop, x))
  BY <1>3 DEF OnResponseError
<1> HIDE DEF x
<1>6. at # "check" /\ (at = "await" => x.promise # "head")
  BY <1>1, <1>4 DEF Microtasks, Last
<1>7. Steady(x, user')
  BY <1>1, <1>2, <1>4 DEF Steady
<1>8. CASE IsCancelled
  <2>1. hops' = Put(hops, ctl.hop, x) /\ UNCHANGED ctl
    BY <1>5, <1>8 DEF Stop
  <2>2. Governed(x, ctl')
    BY <1>1, <1>2, <1>4, <1>6, <1>8, <2>1 DEF Governed, IsCancelled
  <2>3. QED
    BY <1>1, <1>2, <1>4, <1>7, <2>1, <2>2, ChangeStep
<1>9. CASE ~IsCancelled
  <2>1. ctl.ended /\ ctl.hop = 1 => x.st = "ended"
    BY <1>1, <1>2 DEF Governed
  <2>2. QED
    BY <1>1, <1>2, <1>4, <1>5, <1>6, <1>7, <1>9, <2>1, StopStep
<1>10. QED
  BY <1>8, <1>9

LEMMA DecodeFailsStep ==
  ASSUME IInv, NEW h \in DOMAIN hops, DecodeFails(h)
  PROVE  IInv'
<1>1. /\ hops[h].body \in {"open", "eof"} /\ ~Microtasks
      /\ UNCHANGED <<at, response, user>>
  BY DEF DecodeFails
<1>2. /\ h = ctl.hop /\ at # "start" /\ hops[h] = Last /\ Last \in HopSet
      /\ Steady(Last, user) /\ Governed(Last, ctl)
      /\ user \in UserStates /\ ctl \in Controllers
      /\ user.reading \/ user.got # 0 => Late
      /\ user.aborted => IsCancelled
  BY <1>1, OnlyLast
<1> DEFINE x == Undecoded(Last)
<1>3. [hops EXCEPT ![h].body = "failed", ![h].chunks = 0] = Put(hops, ctl.hop, x)
  BY <1>2 DEF Put, Undecoded, Last
<1>4. /\ x \in HopSet /\ x.body = "failed" /\ x.chunks = 0 /\ x.st = Last.st
      /\ x.promise = Last.promise /\ x.status = Last.status
      /\ x.aborted = Last.aborted /\ x.sent = Last.sent /\ x.stream = Last.stream
  BY <1>2, UndecodedHop
<1>5. Stop("terminated", Put(hops, ctl.hop, x))
  BY <1>3 DEF DecodeFails
<1> HIDE DEF x
<1>6. at # "check" /\ (at = "await" => x.promise # "head")
  BY <1>1, <1>4 DEF Microtasks, Last
<1>7. Steady(x, user')
  BY <1>1, <1>2, <1>4 DEF Steady
<1>8. CASE IsCancelled
  <2>1. hops' = Put(hops, ctl.hop, x) /\ UNCHANGED ctl
    BY <1>5, <1>8 DEF Stop
  <2>2. Governed(x, ctl')
    BY <1>2, <1>4, <1>6, <1>8, <2>1 DEF Governed, IsCancelled
  <2>3. QED
    BY <1>1, <1>2, <1>4, <1>7, <2>1, <2>2, ChangeStep
<1>9. CASE ~IsCancelled
  <2>1. /\ x.st = "running" => ctl.armed /\ ~ctl.destroyed
        /\ ctl.ended /\ ctl.hop = 1 => x.st = "ended"
    BY <1>2, <1>4 DEF Governed
  <2>2. QED
    BY <1>1, <1>2, <1>4, <1>5, <1>6, <1>7, <1>9, <2>1, StopStep
<1>10. QED
  BY <1>8, <1>9

LEMMA RequestBodyFailsStep ==
  ASSUME IInv, NEW h \in DOMAIN hops, RequestBodyFails(h)
  PROVE  IInv'
<1>1. /\ hops[h].st = "running" /\ ~Microtasks /\ ~IsCancelled
      /\ UNCHANGED <<at, response, user>>
  BY DEF RequestBodyFails
<1>2. /\ h = ctl.hop /\ at # "start" /\ hops[h] = Last /\ Last \in HopSet
      /\ Steady(Last, user) /\ Governed(Last, ctl)
      /\ user \in UserStates /\ ctl \in Controllers
      /\ user.reading \/ user.got # 0 => Late
      /\ user.aborted => IsCancelled
  BY <1>1, OnlyLast
<1>3. Put(hops, ctl.hop, Last) = hops
  BY <1>2, PutLast DEF IInv, Core, TypeOK
<1>4. PICK state \in {"aborted", "terminated"} : Stop(state, Put(hops, ctl.hop, Last))
  BY <1>3 DEF RequestBodyFails
<1>5. at # "check" /\ (at = "await" => Last.promise # "head")
  BY <1>1 DEF Microtasks, Last
<1>6. /\ Last.st = "running" => ctl.armed /\ ~ctl.destroyed
      /\ ctl.ended /\ ctl.hop = 1 => Last.st = "ended"
  BY <1>2 DEF Governed
<1>7. Steady(Last, user')
  BY <1>1, <1>2
<1>8. QED
  BY <1>1, <1>2, <1>4, <1>5, <1>6, <1>7, StopStep

----------------------------------------------------------------------------
(* The theorems.                                                            *)

LEMMA InitHolds == Init => IInv
<1> SUFFICES ASSUME Init PROVE IInv
  OBVIOUS
<1>1. /\ at = "start" /\ hops = <<>> /\ response = NoResponse
      /\ ctl.hop = 0 /\ ctl.state = "ongoing" /\ ~ctl.destroyed /\ ~ctl.ended
      /\ ctl.stream = 0 /\ ctl.onAborted = 0
      /\ ~user.reading /\ user.got = 0 /\ ~user.aborted
      /\ ctl \in Controllers /\ user \in UserStates
  BY DEF Init, Controllers, UserStates
<1>2. hops \in Seq(HopSet) /\ Len(hops) = 0
  BY <1>1, EmptySeq
<1>3. TypeOK /\ Indices /\ Answered
  BY <1>1, <1>2 DEF TypeOK, Indices, Answered, Places, NoResponse
<1>4. Over /\ Progress /\ GivesUp /\ Reads /\ Counts
  BY <1>1, <1>2 DEF Over, Progress, GivesUp, IsCancelled, Reads, Counts
<1>5. Listens /\ BodyEnds /\ Closes
  BY <1>1 DEF Listens, BodyEnds, Closes, Stream, NoResponse, IsCancelled
<1>6. QED
  BY <1>3, <1>4, <1>5 DEF IInv, Core

LEMMA StepHolds ==
  ASSUME IInv, NothingBetween, [Next]_vars
  PROVE  IInv'
<1>1. CASE Quiet
  BY <1>1, QuietStep
<1>2. CASE Start
  BY <1>2, StartStep
<1>3. CASE NetworkFetch
  BY <1>3, NetworkFetchStep
<1>4. CASE Repeat
  BY <1>4, RepeatStep
<1>5. CASE Redirect
  BY <1>5, RedirectStep
<1>6. CASE MainFetch
  BY <1>6, MainFetchStep
<1>7. CASE PullChunk
  BY <1>7, PullChunkStep
<1>8. CASE PullEnd
  BY <1>8, PullEndStep
<1>9. CASE PullFails
  BY <1>9, PullEndStep, PullFailsStep
<1>10. CASE Cancel
  BY <1>10, CancelStep
<1>11. CASE SignalAborts
  BY <1>11, SignalAbortsStep
<1>12. ASSUME NEW h \in DOMAIN hops,
              OnRequestStart(h) \/ Requeue(h) \/ OnResponseData(h) \/ OnResponseEnd(h)
       PROVE  IInv'
  BY <1>12, OnRequestStartStep, RequeueStep, OnResponseDataStep, OnResponseEndStep
<1>13. ASSUME NEW h \in DOMAIN hops,
              OnResponseError(h) \/ DecodeFails(h) \/ RequestBodyFails(h)
       PROVE  IInv'
  BY <1>13, OnResponseErrorStep, DecodeFailsStep, RequestBodyFailsStep
<1>14. ASSUME NEW h \in DOMAIN hops, NEW status \in Statuses, OnResponseStart(h, status)
       PROVE  IInv'
  BY <1>14, OnResponseStartStep
<1>15. CASE UNCHANGED vars
  <2>1. /\ UNCHANGED <<at, ctl, hops, response, user>> /\ UNCHANGED Last
        /\ UNCHANGED IsCancelled /\ UNCHANGED Stream /\ UNCHANGED Late
    BY <1>15 DEF vars, Last, IsCancelled, Stream, Late
  <2>2. TypeOK' /\ Indices' /\ Answered' /\ Over'
    BY <2>1 DEF IInv, Core, TypeOK, Indices, Answered, Over
  <2>3. Progress' /\ GivesUp'
    BY <2>1 DEF IInv, Core, Progress, GivesUp, GivenUp
  <2>4. Reads' /\ Counts' /\ Listens' /\ BodyEnds' /\ Closes'
    BY <2>1 DEF IInv, Reads, Counts, Listens, BodyEnds, Closes
  <2>5. QED
    BY <2>2, <2>3, <2>4 DEF IInv, Core
<1>16. QED
  BY <1>1, <1>2, <1>3, <1>4, <1>5, <1>6, <1>7, <1>8, <1>9, <1>10, <1>11, <1>12, <1>13,
     <1>14, <1>15 DEF Next, Chain, Pull, Quiet

LEMMA Inductive == NothingBetween /\ Spec => []IInv
<1>1. NothingBetween /\ IInv /\ [Next]_vars => IInv'
  BY StepHolds
<1>2. NothingBetween => []NothingBetween
  <2>1. NothingBetween /\ [TRUE]_vars => NothingBetween'
    BY DEF NothingBetween
  <2>2. QED
    BY <2>1, PTL
<1>3. QED
  BY <1>1, <1>2, InitHolds, PTL DEF Spec

LEMMA HonestHere ==
  ASSUME IInv, ~LateBare
  PROVE  BodyIsHonest
<1>1. Stream # "none" => response.hop = ctl.hop /\ hops[response.hop] = Last
  BY DEF Stream, IInv, Core, Answered, Last
<1>2. Stream = "closed" /\ ~user.cancelled =>
        hops[response.hop].st = "ended" /\ user.got = hops[response.hop].sent
  BY <1>1 DEF IInv, Closes
<1>3. IsCancelled => Stream # "readable"
  BY DEF IInv, Listens
<1>4. QED
  BY <1>2, <1>3 DEF BodyIsHonest

\* A body that the reader sees end is the whole body of the last response,
\* whatever the redirects, pauses, failures and aborts before, and a fetch that
\* is given up leaves no reader waiting (fetchFinale, onAborted and the pull of
\* httpNetworkFetch): where nothing happens between the job of a head and its
\* microtasks, and no redirect leads to one without a Location.
THEOREM BodyIsWhole == NothingBetween /\ ~LateBare /\ Spec => []BodyIsHonest
<1>1. ~LateBare /\ IInv => BodyIsHonest
  BY HonestHere
<1>2. ~LateBare => []~LateBare
  <2>1. ~LateBare /\ [TRUE]_vars => (~LateBare)'
    OBVIOUS
  <2>2. QED
    BY <2>1, PTL
<1>3. QED
  BY <1>1, <1>2, Inductive, PTL

LEMMA OneAtATime ==
  ASSUME IInv
  PROVE  \A h \in DOMAIN hops : h < Len(hops) => hops[h].st \in {"ended", "failed"}
<1>1. DOMAIN hops = 1..Len(hops) /\ Len(hops) \in Nat
  BY LenProperties DEF IInv, Core, TypeOK
<1>2. QED
  BY <1>1 DEF IInv, Core, Over

LEMMA GivenUpAll ==
  ASSUME IInv, user.aborted
  PROVE  \A h \in DOMAIN hops : GivenUp(hops[h])
<1>1. DOMAIN hops = 1..Len(hops) /\ Len(hops) \in Nat /\ ctl.hop = Len(hops)
  BY LenProperties DEF IInv, Core, TypeOK, Indices
<1>2. GivenUp(hops[ctl.hop])
  BY DEF IInv, Core, GivesUp, Last
<1>3. QED
  BY <1>1, <1>2 DEF IInv, Core, Over, GivenUp

LEMMA NothingNew ==
  ASSUME IInv, NothingBetween, user.aborted, [Next]_vars
  PROVE  Len(hops') = Len(hops)
<1>1. at \notin {"start", "check"} /\ ctl \in Controllers
  BY DEF IInv, Core, GivesUp, TypeOK
<1>2. IInv'
  BY StepHolds
<1>3. ctl'.hop = ctl.hop
  <2>1. ASSUME NEW state, NEW hs, Stop(state, hs)
        PROVE  ctl'.hop = ctl.hop
    BY <1>1, <2>1 DEF Stop, Controllers
  <2>2. CASE Chain
    BY <1>1, <2>2 DEF Chain, Start, NetworkFetch, NetworkFetchFails, Repeat,
       ProxyAuthentication, Proceed, Redirect, MainFetch, Verify, ProcessResponse,
       Controllers
  <2>3. CASE Pull \/ Read \/ Cancel \/ SignalAborts
    BY <2>1, <2>3 DEF Pull, PullChunk, PullEnd, PullFails, Read, Cancel, SignalAborts
  <2>4. ASSUME NEW h \in DOMAIN hops,
               OnRequestStart(h) \/ Requeue(h) \/ OnResponseData(h) \/ OnResponseEnd(h)
        PROVE  ctl'.hop = ctl.hop
    BY <1>1, <2>4 DEF OnRequestStart, Requeue, OnResponseData, OnResponseEnd, Controllers
  <2>5. ASSUME NEW h \in DOMAIN hops,
               OnResponseError(h) \/ DecodeFails(h) \/ RequestBodyFails(h)
        PROVE  ctl'.hop = ctl.hop
    BY <2>1, <2>5 DEF OnResponseError, DecodeFails, RequestBodyFails
  <2>6. ASSUME NEW h \in DOMAIN hops, NEW status \in Statuses, OnResponseStart(h, status)
        PROVE  ctl'.hop = ctl.hop
    BY <2>6 DEF OnResponseStart
  <2>7. CASE UNCHANGED vars
    BY <2>7 DEF vars
  <2>8. QED
    BY <2>2, <2>3, <2>4, <2>5, <2>6, <2>7 DEF Next
<1>4. QED
  BY <1>2, <1>3 DEF IInv, Core, Indices

\* At most one exchange of a fetch is under way, the one before has ended or
\* was given up (the assertion of httpNetworkFetch and connection.destroy()),
\* and once the user has aborted nothing is sent that was not, also behind
\* redirects and repeats after a 421: where nothing happens between the job of
\* a head and its microtasks.
THEOREM OneExchange == NothingBetween /\ Spec => ExchangesGivenUp
<1> DEFINE Before == \A h \in DOMAIN hops : h < Len(hops) => hops[h].st \in {"ended", "failed"}
<1> DEFINE After == user.aborted => \A h \in DOMAIN hops : GivenUp(hops[h])
<1> DEFINE Silent == user.aborted => Len(hops') = Len(hops)
<1>1. IInv => Before
  BY OneAtATime
<1>2. IInv => After
  BY GivenUpAll
<1>3. NothingBetween /\ IInv /\ [Next]_vars => [Silent]_vars
  BY NothingNew
<1>4. NothingBetween => []NothingBetween
  <2>1. NothingBetween /\ [TRUE]_vars => NothingBetween'
    BY DEF NothingBetween
  <2>2. QED
    BY <2>1, PTL
<1>5. NothingBetween /\ Spec => []Before /\ []After /\ [][Silent]_vars
  <2> HIDE DEF Before, After, Silent
  <2>1. QED
    BY <1>1, <1>2, <1>3, <1>4, Inductive, PTL DEF Spec
<1>6. QED
  BY <1>5 DEF ExchangesGivenUp

----------------------------------------------------------------------------
(* What a fetch of a blob: URL is answered.                                 *)

LEMMA Interval ==
  ASSUME NEW a \in Nat, NEW n \in Nat
  PROVE  /\ {p \in Nat : a <= p /\ p < n} = a .. (n - 1)
         /\ {p \in Nat : a <= p /\ p < n} = {p \in 0 .. n - 1 : p >= a}
OBVIOUS

\* Whatever ranges a fetch of a blob: URL asks for, the response has the bytes
\* that were asked for and names them, unless a suffix is longer than the blob;
\* and a range is refused only if it names no byte (schemeFetch).
THEOREM RangeIsServed ==
  ASSUME NEW url \in Urls, NEW range \in Ranges,
         url.scheme = "blob", url.get, ~url.query, url.size # Null, IsRange(range),
         NEW r, r = SchemeFetch(url, {range})
  PROVE  /\ r.status = 0 => Asked(url.size, range) = {}
         /\ r.status # 0 => Served(r) \subseteq 0 .. url.size - 1
         /\ r.status # 0 /\ (range.start = Null => range.end <= url.size) =>
              Served(r) = Asked(url.size, range) /\ Served(r) = Named(r)
<1> DEFINE size == url.size
<1>1. size \in Nat /\ range.start \in Number /\ range.end \in Number
  BY DEF Urls, Ranges, Number, Null
<1>2. r = RangeResponse(size, range)
  <2>1. (CHOOSE x \in {range} : TRUE) = range
    OBVIOUS
  <2> QED BY <2>1 DEF SchemeFetch, BlobResponse
<1>. SUFFICES /\ r.status = 0 => Asked(size, range) = {}
              /\ r.status # 0 => Served(r) \subseteq 0 .. size - 1
              /\ r.status # 0 /\ (range.start = Null => range.end <= size) =>
                   Served(r) = Asked(size, range) /\ Served(r) = Named(r)
  OBVIOUS
<1> HIDE DEF size
<1>3. CASE range.start >= size
  <2>1. r.status = 0
    BY <1>2, <1>3 DEF RangeResponse, ErrorResponse
  <2>2. range.start # Null
    BY <1>1, <1>3 DEF Null
  <2>3. Asked(size, range) = {}
    BY <1>1, <1>3, <2>2 DEF Asked, Number, Null
  <2> QED BY <2>1, <2>3
<1>4. CASE ~(range.start >= size)
  <2>1. r = PartialResponse(size, range)
    BY <1>2, <1>4 DEF RangeResponse
  <2>2. CASE range.start = Null
    <3>1. /\ r.status = 206 /\ r.first = size - range.end /\ r.last = size - 1
          /\ r.from = Position(size - range.end, size) /\ r.beyond = Position(size, size)
      <4>1. size - range.end + range.end - 1 = size - 1 /\ (size - 1) + 1 = size
        BY <1>1 DEF Number, Null
      <4> QED BY <2>1, <2>2, <4>1 DEF PartialResponse, Response
    <3>2. r.beyond = size /\ r.from \in Nat
      BY <1>1, <3>1 DEF Position, Number, Null
    <3>3. range.end \in Nat /\ (range.end <= size => r.from = size - range.end)
      <4>1. range.end \in Nat
        BY <1>1, <2>2 DEF IsRange, Number, Null
      <4> QED BY <1>1, <3>1, <4>1 DEF Position
    <3>4. Served(r) \subseteq 0 .. size - 1
      BY <1>1, <3>2 DEF Served
    <3>5. range.end <= size => Served(r) = Asked(size, range) /\ Served(r) = Named(r)
      <4> SUFFICES ASSUME range.end <= size
                   PROVE  Served(r) = Asked(size, range) /\ Served(r) = Named(r)
        OBVIOUS
      <4>1. r.from = size - range.end /\ r.beyond = size
        BY <3>2, <3>3
      <4>3. Served(r) = {p \in Nat : size - range.end <= p /\ p < size}
        BY <4>1 DEF Served
      <4>4. Asked(size, range) = {p \in 0 .. size - 1 : p >= size - range.end}
        BY <2>2 DEF Asked
      <4>5. Named(r) = (size - range.end) .. (size - 1)
        BY <3>1 DEF Named
      <4>6. size - range.end \in Nat
        BY <1>1, <3>3
      <4>7. /\ {p \in Nat : size - range.end <= p /\ p < size} =
                 (size - range.end) .. (size - 1)
            /\ {p \in Nat : size - range.end <= p /\ p < size} =
                 {p \in 0 .. size - 1 : p >= size - range.end}
        BY <1>1, <4>6, Interval
      <4> QED BY <4>3, <4>4, <4>5, <4>7, Zenon
    <3> QED BY <2>2, <3>1, <3>4, <3>5
  <2>3. CASE range.start # Null
    <3> DEFINE last == IF range.end = Null \/ range.end >= size THEN size - 1 ELSE range.end
    <3>1. range.start \in Nat /\ range.start < size /\ last \in Int
      BY <1>1, <1>4, <2>3 DEF Number, Null
    <3>2. range.start <= last /\ last < size
      BY <1>1, <3>1, <2>3 DEF Number, Null, IsRange
    <3>3. r = Response(206, size, range.start, last)
      BY <2>1, <2>3 DEF PartialResponse
    <3>4. range.end # Null => (\A p \in 0 .. size - 1 : p <= range.end <=> p <= last)
      BY <1>1 DEF Number, Null
    <3>5. range.end = Null => last = size - 1
      OBVIOUS
    <3> HIDE DEF last
    <3>6. /\ r.status = 206 /\ r.first = range.start /\ r.last = last
          /\ r.from = Position(range.start, size) /\ r.beyond = Position(last + 1, size)
      BY <3>3 DEF Response
    <3>7. r.from = range.start /\ r.beyond = last + 1
      BY <1>1, <3>1, <3>2, <3>6 DEF Position
    <3>8. Served(r) = range.start .. last
      BY <1>1, <3>1, <3>2, <3>7 DEF Served
    <3>9. Named(r) = range.start .. last
      BY <3>6 DEF Named
    <3>10. Asked(size, range) = {p \in 0 .. size - 1 : p >= range.start /\ p <= last}
      BY <1>1, <2>3, <3>1, <3>4, <3>5 DEF Asked
    <3>11. Asked(size, range) = range.start .. last
      BY <1>1, <3>1, <3>2, <3>10
    <3>12. Served(r) \subseteq 0 .. size - 1
      BY <1>1, <3>1, <3>2, <3>8
    <3>13. r.status # 0
      BY <3>6
    <3> QED BY <2>3, <3>8, <3>9, <3>11, <3>12, <3>13, Zenon
  <2> QED BY <2>2, <2>3
<1> QED BY <1>3, <1>4

\* A suffix longer than the blob, but shorter than two of them, is the exception:
\* its start is negative and Blob.slice() counts it from the end, so the first
\* byte, which was asked for, is not served (schemeFetch).
THEOREM LongSuffixIsCut ==
  ASSUME NEW url \in Urls, NEW range \in Ranges,
         url.scheme = "blob", url.get, ~url.query, url.size # Null,
         range.start = Null, url.size < range.end, range.end < 2 * url.size,
         NEW r, r = SchemeFetch(url, {range})
  PROVE  /\ r.status = 206 /\ r.first < 0
         /\ 0 \in Asked(url.size, range) \ Served(r)
<1> DEFINE size == url.size
<1>1. size \in Nat /\ range.start \in Number /\ range.end \in Nat
  BY DEF Urls, Ranges, Number, Null
<1>2. r = RangeResponse(size, range)
  <2>1. (CHOOSE x \in {range} : TRUE) = range
    OBVIOUS
  <2> QED BY <2>1 DEF SchemeFetch, BlobResponse
<1> HIDE DEF size
<1>3. IsRange(range) /\ ~(range.start >= size)
  BY <1>1 DEF IsRange, Null
<1>4. r = PartialResponse(size, range)
  BY <1>2, <1>3 DEF RangeResponse
<1>5. /\ r.status = 206 /\ r.first = size - range.end
      /\ r.from = Position(size - range.end, size)
  BY <1>4 DEF PartialResponse, Response
<1>6. size < range.end /\ range.end < 2 * size
  BY DEF size
<1>7. r.first < 0 /\ r.from = 2 * size - range.end /\ r.from > 0
  BY <1>1, <1>5, <1>6 DEF Position
<1>8. 0 \in Asked(size, range)
  BY <1>1, <1>6 DEF Asked
<1>9. 0 \notin Served(r)
  BY <1>1, <1>7 DEF Served
<1> QED BY <1>5, <1>7, <1>8, <1>9 DEF size
=============================================================================

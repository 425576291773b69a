--------------------------- MODULE TimersProofs ---------------------------
(***************************************************************************)
(* As long as no callback adds a timer, no timer is lost, and Timers       *)
(* implements Alarms, for any timers and delays.                           *)
(***************************************************************************)
EXTENDS Timers, SequenceTheorems, TLAPS

\* The length of the array without its stale tail.
Length == IF idx = 0 THEN Len(fastTimers) ELSE len

\* Where onTick is in the array.
Walk ==
  /\ idx = 0 => len = 0 /\ firing = NoTimer
  /\ idx > 0 => idx <= len + 1 /\ len <= Len(fastTimers)
  /\ firing # NoTimer =>
       /\ idx \in 1..len /\ fastTimers[idx] = firing
       /\ state[firing] \in {TO_BE_CLEARED, PENDING}
       /\ state[firing] = PENDING => waited[firing] = 0

\* Each timer is in the array at most once, and knows that it is.
NoDuplicates ==
  /\ \A i, j \in 1..Length : fastTimers[i] = fastTimers[j] => i = j
  /\ \A i \in 1..Length : state[fastTimers[i]] # NOT_IN_LIST

AllListed == \A t \in Timers : Armed(t) => \E i \in 1..Length : fastTimers[i] = t

WillRun == idx = 0 /\ fastTimers # <<>> => scheduled

\* elapsed may be a tick ahead: a timer that is set during a tick, in front of
\* onTick, is counted in that tick.
Counts ==
  \A t \in Timers :
    /\ state[t] = ACTIVE => elapsed[t] \in {waited[t], waited[t] + 1}
    /\ state[t] = PENDING => waited[t] <= 1

\* What onTick has passed in this tick is not due.
OnTime ==
  \A i \in 1..Length : (idx = 0 \/ i < idx) =>
    /\ state[fastTimers[i]] = ACTIVE =>
         elapsed[fastTimers[i]] < A!Latest(fastTimers[i])
    /\ state[fastTimers[i]] = PENDING => waited[fastTimers[i]] = 0

IInv ==
  /\ TypeOK /\ Walk /\ NoDuplicates /\ AllListed /\ WillRun /\ Counts /\ OnTime

\* Callbacks add no timer.
NoAdd == "add" \notin CallbackOps

----------------------------------------------------------------------------

LEMMA InitIInv == Init => IInv
<1> SUFFICES ASSUME Init PROVE IInv
  OBVIOUS
<1> USE TimerAssumption DEF Init, NOT_IN_LIST, TO_BE_CLEARED, PENDING, ACTIVE
<1>1. TypeOK
  <2>1. <<>> \in Seq(Timers)
    OBVIOUS
  <2>2. state \in [Timers -> {NOT_IN_LIST, TO_BE_CLEARED, PENDING, ACTIVE}]
    OBVIOUS
  <2>3. elapsed \in [Timers -> Nat] /\ waited \in [Timers -> Nat]
    OBVIOUS
  <2>4. QED
    BY <2>1, <2>2, <2>3 DEF TypeOK
<1>2. Length = 0
  BY DEF Length
<1>3. Walk
  BY DEF Walk
<1>4. WillRun /\ Counts /\ AllListed
  BY DEF WillRun, Counts, AllListed, Armed
<1>5. NoDuplicates /\ OnTime
  BY <1>2 DEF NoDuplicates, OnTime
<1>6. QED
  BY <1>1, <1>3, <1>4, <1>5 DEF IInv

LEMMA ArrayFacts ==
  ASSUME TypeOK, Walk
  PROVE  /\ Length \in Nat /\ Length <= Len(fastTimers)
         /\ \A i \in 1..Length : fastTimers[i] \in Timers
<1>1. Len(fastTimers) \in Nat /\ DOMAIN fastTimers = 1..Len(fastTimers)
      /\ \A i \in 1..Len(fastTimers) : fastTimers[i] \in Timers
  BY DEF TypeOK
<1>2. Length \in Nat /\ Length <= Len(fastTimers)
  BY <1>1 DEF Length, TypeOK, Walk
<1>3. QED
  BY <1>1, <1>2

\* setFastTimeout and refresh().
LEMMA RefreshIInv ==
  ASSUME NoAdd, IInv, NEW t \in Timers, Refresh(t)
  PROVE  IInv'
<1> USE TimerAssumption DEF NOT_IN_LIST, TO_BE_CLEARED, PENDING, ACTIVE
<1>a. TypeOK /\ Walk /\ NoDuplicates /\ AllListed /\ WillRun /\ Counts /\ OnTime
  BY DEF IInv
<1>b. /\ state' = [state EXCEPT ![t] = PENDING]
      /\ elapsed' = [elapsed EXCEPT ![t] = 0]
      /\ waited' = [waited EXCEPT ![t] = 0]
      /\ idx' = idx /\ len' = len /\ firing' = firing
      /\ scheduled' = (scheduled \/ Len(fastTimers') = 1)
  BY DEF Refresh
<1>c. /\ Length \in Nat /\ Length <= Len(fastTimers)
      /\ \A i \in 1..Length : fastTimers[i] \in Timers
  BY <1>a, ArrayFacts
<1>1. CASE state[t] = NOT_IN_LIST
  <2>1. idx = 0 /\ fastTimers' = Append(fastTimers, t) /\ Length = Len(fastTimers)
    BY <1>1 DEF Refresh, May, NoAdd, Length
  <2>2. /\ Length' = Length + 1 /\ fastTimers' \in Seq(Timers)
        /\ \A i \in 1..Length : fastTimers'[i] = fastTimers[i]
        /\ fastTimers'[Length + 1] = t
    BY <1>a, <1>b, <2>1 DEF TypeOK, Length
  <2>3. \A i \in 1..Length : fastTimers[i] \in Timers /\ fastTimers[i] # t
    BY <1>1, <1>a, <1>c DEF NoDuplicates
  <2>4. TypeOK' /\ Walk'
    BY <1>a, <1>b, <2>1, <2>2 DEF TypeOK, Walk
  <2>5. NoDuplicates'
    <3>1. \A i, j \in 1..(Length + 1) :
            fastTimers'[i] = fastTimers'[j] => i = j
      <4>1. TAKE i, j \in 1..(Length + 1)
      <4>2. i \in 1..Length \/ i = Length + 1
        BY <1>c
      <4>3. j \in 1..Length \/ j = Length + 1
        BY <1>c
      <4>4. QED
        BY <1>a, <2>2, <2>3, <4>2, <4>3 DEF NoDuplicates
    <3>2. \A i \in 1..(Length + 1) : state'[fastTimers'[i]] # NOT_IN_LIST
      <4>1. TAKE i \in 1..(Length + 1)
      <4>2. CASE i \in 1..Length
        BY <1>a, <1>b, <2>2, <2>3, <4>2 DEF NoDuplicates, TypeOK
      <4>3. CASE i = Length + 1
        BY <1>a, <1>b, <2>2, <4>3 DEF TypeOK
      <4>4. QED
        BY <1>c, <4>2, <4>3
    <3>3. QED
      BY <2>2, <3>1, <3>2 DEF NoDuplicates
  <2>6. AllListed'
    <3>1. ASSUME NEW u \in Timers, Armed(u)
          PROVE  \E i \in 1..(Length + 1) : fastTimers'[i] = u
      <4>1. PICK i \in 1..Length : fastTimers[i] = u
        BY <1>a, <3>1, Zenon DEF AllListed
      <4>2. i \in 1..(Length + 1)
        BY <1>c, <4>1
      <4>3. fastTimers'[i] = u
        BY <2>2, <4>1, Zenon
      <4>4. QED
        BY <4>2, <4>3, Zenon
    <3>2. Length + 1 \in 1..(Length + 1) /\ fastTimers'[Length + 1] = t
      BY <1>c, <2>2
    <3>3. \A u \in Timers : Armed(u)' => Armed(u) \/ u = t
      BY <1>a, <1>b DEF Armed, TypeOK
    <3>4. QED
      BY <2>2, <3>1, <3>2, <3>3 DEF AllListed
  <2>7. WillRun'
    <3>1. Len(fastTimers') = 1 => scheduled'
      BY <1>b, Zenon
    <3>2. scheduled => scheduled'
      BY <1>b, Zenon
    <3>3. Len(fastTimers') = 1 \/ fastTimers # <<>>
      BY <1>a, <2>1 DEF TypeOK
    <3>4. fastTimers # <<>> => scheduled
      BY <1>a, <2>1, Zenon DEF WillRun
    <3>5. QED
      BY <3>1, <3>2, <3>3, <3>4, Zenon DEF WillRun
  <2>8. Counts'
    BY <1>a, <1>b DEF Counts, TypeOK
  <2>9. OnTime'
    <3>1. ASSUME NEW i \in 1..(Length + 1)
          PROVE  /\ state'[fastTimers'[i]] = ACTIVE =>
                      elapsed'[fastTimers'[i]] < A!Latest(fastTimers'[i])
                 /\ state'[fastTimers'[i]] = PENDING =>
                      waited'[fastTimers'[i]] = 0
      <4>1. CASE i \in 1..Length
        BY <1>a, <1>b, <2>1, <2>2, <2>3, <4>1 DEF OnTime, TypeOK
      <4>2. CASE i = Length + 1
        BY <1>a, <1>b, <2>2, <4>2 DEF TypeOK
      <4>3. QED
        BY <1>c, <4>1, <4>2
    <3>2. QED
      BY <2>2, <3>1 DEF OnTime, A!Latest
  <2>10. QED
    BY <2>4, <2>5, <2>6, <2>7, <2>8, <2>9 DEF IInv
<1>2. CASE state[t] # NOT_IN_LIST
  <2>1. fastTimers' = fastTimers /\ Length' = Length
    BY <1>2, <1>b DEF Refresh, Length
  <2>2. \E i \in 1..Length : fastTimers[i] = t
    <3>1. CASE Armed(t)
      BY <1>a, <3>1 DEF AllListed
    <3>2. CASE ~Armed(t)
      <4>1. Listed(t)
        BY <1>2, <1>a, <3>2 DEF Refresh, Armed, TypeOK
      <4>2. QED
        BY <1>a, <4>1 DEF Listed, Length, TypeOK, Walk
    <3>3. QED
      BY <3>1, <3>2
  <2>3. \A i \in 1..Length : fastTimers[i] \in Timers
    BY <1>a, <1>c DEF TypeOK
  <2>4. TypeOK' /\ Walk'
    BY <1>a, <1>b, <2>1 DEF TypeOK, Walk
  <2>5. NoDuplicates'
    BY <1>a, <1>b, <2>1, <2>3 DEF NoDuplicates, TypeOK
  <2>6. AllListed'
    BY <1>a, <1>b, <2>1, <2>2 DEF AllListed, Armed, TypeOK
  <2>7. WillRun' /\ Counts'
    BY <1>a, <1>b, <2>1 DEF WillRun, Counts, TypeOK
  <2>8. OnTime'
    BY <1>a, <1>b, <2>1, <2>3 DEF OnTime, TypeOK, A!Latest
  <2>9. QED
    BY <2>4, <2>5, <2>6, <2>7, <2>8 DEF IInv
<1>3. QED
  BY <1>1, <1>2

\* clearTimeout.
LEMMA ClearIInv ==
  ASSUME IInv, NEW t \in Timers, Clear(t)
  PROVE  IInv'
<1> USE TimerAssumption DEF NOT_IN_LIST, TO_BE_CLEARED, PENDING, ACTIVE
<1>a. TypeOK /\ Walk /\ NoDuplicates /\ AllListed /\ WillRun /\ Counts /\ OnTime
  BY DEF IInv
<1>b. /\ state' = [state EXCEPT ![t] = TO_BE_CLEARED]
      /\ elapsed' = [elapsed EXCEPT ![t] = 0]
      /\ waited' = [waited EXCEPT ![t] = 0]
      /\ idx' = idx /\ len' = len /\ firing' = firing
      /\ fastTimers' = fastTimers /\ scheduled' = scheduled
      /\ Length' = Length
  BY DEF Clear, Length
<1>c. \A i \in 1..Length : fastTimers[i] \in Timers
  BY <1>a, ArrayFacts
<1>1. TypeOK' /\ Walk'
  BY <1>a, <1>b DEF TypeOK, Walk
<1>2. NoDuplicates' /\ AllListed'
  BY <1>a, <1>b, <1>c DEF NoDuplicates, AllListed, Armed, TypeOK
<1>3. WillRun' /\ Counts'
  BY <1>a, <1>b DEF WillRun, Counts, TypeOK
<1>4. OnTime'
  BY <1>a, <1>b, <1>c DEF OnTime, TypeOK, A!Latest
<1>5. QED
  BY <1>1, <1>2, <1>3, <1>4 DEF IInv

LEMMA CollectIInv ==
  ASSUME IInv, NEW t \in Timers, Collect(t)
  PROVE  IInv'
<1> USE TimerAssumption DEF NOT_IN_LIST, TO_BE_CLEARED, PENDING, ACTIVE
<1>a. TypeOK /\ Walk /\ NoDuplicates /\ AllListed /\ WillRun /\ Counts /\ OnTime
  BY DEF IInv
<1>b. /\ idx = 0 /\ state' = [state EXCEPT ![t] = NOT_IN_LIST] /\ ~Listed(t)
      /\ UNCHANGED <<fastTimers, elapsed, scheduled, idx, len, firing, waited>>
      /\ state[t] = TO_BE_CLEARED
  BY DEF Collect
<1>c. /\ Length' = Length /\ Length = Len(fastTimers)
      /\ \A i \in 1..Length : fastTimers[i] \in Timers /\ fastTimers[i] # t
  <2>1. Length' = Length /\ Length = Len(fastTimers) /\ DOMAIN fastTimers = 1..Length
    BY <1>a, <1>b DEF TypeOK, Length
  <2>2. \A i \in 1..Length : fastTimers[i] # t
    BY <1>b, <2>1 DEF Listed
  <2>3. QED
    BY <1>a, <2>1, <2>2, ArrayFacts
<1>1. TypeOK' /\ Walk'
  BY <1>a, <1>b DEF TypeOK, Walk
<1>2. NoDuplicates' /\ AllListed'
  BY <1>a, <1>b, <1>c DEF NoDuplicates, AllListed, Armed, TypeOK
<1>3. WillRun' /\ Counts'
  BY <1>a, <1>b DEF WillRun, Counts, TypeOK
<1>4. OnTime'
  BY <1>a, <1>b, <1>c DEF OnTime, TypeOK, A!Latest
<1>5. QED
  BY <1>1, <1>2, <1>3, <1>4 DEF IInv

----------------------------------------------------------------------------
(* The steps of onTick.                                                     *)

LEMMA StartTickIInv ==
  ASSUME IInv, StartTick
  PROVE  IInv'
<1> USE TimerAssumption DEF NOT_IN_LIST, TO_BE_CLEARED, PENDING, ACTIVE
<1>a. TypeOK /\ Walk /\ NoDuplicates /\ AllListed /\ WillRun /\ Counts /\ OnTime
  BY DEF IInv
<1>b. /\ idx = 0 /\ idx' = 1 /\ len' = Len(fastTimers) /\ scheduled' = FALSE
      /\ elapsed' = [t \in Timers |-> elapsed[t] + IF state[t] = ACTIVE THEN 1 ELSE 0]
      /\ waited' = [t \in Timers |-> waited[t] + IF Armed(t) THEN 1 ELSE 0]
      /\ UNCHANGED <<fastTimers, state, firing>>
  BY DEF StartTick
<1>c. Length' = Length /\ Length = Len(fastTimers) /\ Len(fastTimers) \in Nat
  BY <1>a, <1>b DEF TypeOK, Length
<1>1. TypeOK'
  <2>1. \A t \in Timers :
          /\ elapsed[t] + (IF state[t] = ACTIVE THEN 1 ELSE 0) \in Nat
          /\ waited[t] + (IF Armed(t) THEN 1 ELSE 0) \in Nat
    BY <1>a DEF TypeOK
  <2>2. elapsed' \in [Timers -> Nat] /\ waited' \in [Timers -> Nat]
    BY <1>b, <2>1
  <2>3. QED
    BY <1>a, <1>b, <1>c, <2>2 DEF TypeOK
<1>2. Walk'
  BY <1>a, <1>b, <1>c DEF TypeOK, Walk
<1>3. NoDuplicates' /\ AllListed' /\ WillRun'
  BY <1>a, <1>b, <1>c DEF NoDuplicates, AllListed, WillRun, Armed
<1>4. Counts'
  <2> SUFFICES ASSUME NEW t \in Timers
               PROVE  /\ state'[t] = ACTIVE => elapsed'[t] \in {waited'[t], waited'[t] + 1}
                      /\ state'[t] = PENDING => waited'[t] <= 1
    BY DEF Counts
  <2>1. CASE state[t] = ACTIVE
    <3>1. Armed(t) /\ state' = state
      BY <1>b, <2>1 DEF Armed
    <3>2. elapsed'[t] = elapsed[t] + 1 /\ waited'[t] = waited[t] + 1
      BY <1>b, <2>1, <3>1
    <3>3. elapsed[t] \in {waited[t], waited[t] + 1} /\ waited[t] \in Nat
      BY <1>a, <2>1 DEF Counts, TypeOK
    <3>4. QED
      BY <2>1, <3>1, <3>2, <3>3
  <2>2. CASE state[t] = PENDING
    <3>1. \E i \in 1..Length : fastTimers[i] = t
      BY <1>a, <2>2 DEF AllListed, Armed
    <3>2. waited[t] = 0
      BY <1>a, <1>b, <2>2, <3>1 DEF OnTime
    <3>3. QED
      BY <1>b, <2>2, <3>2
  <2>3. QED
    BY <1>b, <2>1, <2>2
<1>5. OnTime'
  BY <1>b, <1>c DEF OnTime
<1>6. QED
  BY <1>1, <1>2, <1>3, <1>4, <1>5 DEF IInv

\* onTick passes a timer it has just started.
LEMMA VisitPendingIInv ==
  ASSUME IInv, NEW t \in Timers, VisitPending(t)
  PROVE  IInv'
<1> USE TimerAssumption DEF NOT_IN_LIST, TO_BE_CLEARED, PENDING, ACTIVE
<1>a. TypeOK /\ Walk /\ NoDuplicates /\ AllListed /\ WillRun /\ Counts /\ OnTime
  BY DEF IInv
<1>b. /\ idx > 0 /\ idx <= len /\ firing = NoTimer /\ fastTimers[idx] = t
      /\ state[t] = PENDING /\ idx' = idx + 1
      /\ state' = [state EXCEPT ![t] = ACTIVE]
      /\ elapsed' = [elapsed EXCEPT ![t] = 1]
      /\ UNCHANGED <<fastTimers, scheduled, len, firing, waited>>
  BY DEF VisitPending, Visiting
<1>c. /\ Length' = Length /\ Length = len /\ len \in Nat /\ idx \in Nat
      /\ len <= Len(fastTimers)
      /\ \A i \in 1..Length : fastTimers[i] \in Timers
  <2>1. Length' = Length /\ Length = len /\ len \in Nat /\ idx \in Nat
    BY <1>a, <1>b DEF TypeOK, Length
  <2>2. QED
    BY <1>a, <2>1, ArrayFacts
<1>d. waited[t] \in {0, 1}
  BY <1>a, <1>b DEF Counts, TypeOK
<1>e. /\ \A u \in Timers \ {t} : /\ state'[u] = state[u] /\ elapsed'[u] = elapsed[u]
                                  /\ waited'[u] = waited[u]
      /\ state'[t] = ACTIVE /\ elapsed'[t] = 1 /\ waited'[t] = waited[t]
  BY <1>a, <1>b DEF TypeOK
<1>1. TypeOK'
  <2>1. state' \in [Timers -> {NOT_IN_LIST, TO_BE_CLEARED, PENDING, ACTIVE}]
    BY <1>a, <1>b DEF TypeOK
  <2>2. elapsed' \in [Timers -> Nat] /\ idx' \in Nat
    BY <1>a, <1>b, <1>c DEF TypeOK
  <2>3. QED
    BY <1>a, <1>b, <2>1, <2>2, Zenon DEF TypeOK
<1>2. Walk' /\ WillRun'
  <2>1. Walk'
    BY <1>a, <1>b, <1>c, <1>e DEF Walk
  <2>2. WillRun'
    BY <1>b, <1>c DEF WillRun
  <2>3. QED
    BY <2>1, <2>2
<1>3. NoDuplicates'
  BY <1>a, <1>b, <1>c, <1>e DEF NoDuplicates
<1>4. AllListed'
  <2>1. idx \in 1..Length /\ fastTimers[idx] = t
    BY <1>b, <1>c
  <2>2. \A u \in Timers \ {t} : Armed(u)' => Armed(u)
    BY <1>e DEF Armed
  <2>3. QED
    BY <1>a, <1>b, <1>c, <2>1, <2>2 DEF AllListed
<1>5. Counts'
  BY <1>a, <1>d, <1>e DEF Counts
<1>6. OnTime'
  <2> SUFFICES ASSUME NEW i \in 1..Length, i < idx'
               PROVE  /\ state'[fastTimers[i]] = ACTIVE =>
                           elapsed'[fastTimers[i]] < A!Latest(fastTimers[i])
                      /\ state'[fastTimers[i]] = PENDING =>
                           waited'[fastTimers[i]] = 0
    BY <1>b, <1>c DEF OnTime, A!Latest
  <2>1. CASE i = idx
    BY <1>a, <1>b, <1>e, <2>1 DEF A!Latest, TypeOK
  <2>2. CASE i < idx
    <3>1. fastTimers[i] \in Timers \ {t}
      BY <1>a, <1>b, <1>c, <2>2 DEF NoDuplicates
    <3>2. QED
      BY <1>a, <1>b, <1>e, <2>2, <3>1 DEF OnTime
  <2>3. QED
    BY <1>b, <1>c, <2>1, <2>2
<1>7. QED
  BY <1>1, <1>2, <1>3, <1>4, <1>5, <1>6 DEF IInv

\* onTick calls back: the timer stays where it is.
LEMMA VisitExpiredIInv ==
  ASSUME IInv, NEW t \in Timers, VisitExpired(t)
  PROVE  IInv'
<1> USE TimerAssumption DEF NOT_IN_LIST, TO_BE_CLEARED, PENDING, ACTIVE
<1>a. TypeOK /\ Walk /\ NoDuplicates /\ AllListed /\ WillRun /\ Counts /\ OnTime
  BY DEF IInv
<1>b. /\ idx > 0 /\ idx <= len /\ firing = NoTimer /\ fastTimers[idx] = t
      /\ state[t] = ACTIVE /\ firing' = t
      /\ state' = [state EXCEPT ![t] = TO_BE_CLEARED]
      /\ elapsed' = [elapsed EXCEPT ![t] = 0]
      /\ waited' = [waited EXCEPT ![t] = 0]
      /\ UNCHANGED <<fastTimers, scheduled, idx, len>>
  BY DEF VisitExpired, Visiting, Expired
<1>c. /\ Length' = Length /\ Length = len /\ len \in Nat /\ idx \in Nat
      /\ len <= Len(fastTimers)
      /\ \A i \in 1..Length : fastTimers[i] \in Timers
  <2>1. Length' = Length /\ Length = len /\ len \in Nat /\ idx \in Nat
    BY <1>a, <1>b DEF TypeOK, Length
  <2>2. QED
    BY <1>a, <2>1, ArrayFacts
<1>e. /\ \A u \in Timers \ {t} : /\ state'[u] = state[u] /\ elapsed'[u] = elapsed[u]
                                  /\ waited'[u] = waited[u]
      /\ state'[t] = TO_BE_CLEARED /\ elapsed'[t] = 0 /\ waited'[t] = 0
  BY <1>a, <1>b DEF TypeOK
<1>1. TypeOK'
  BY <1>a, <1>b, <1>c DEF TypeOK
<1>2. Walk' /\ WillRun'
  <2>1. Walk'
    BY <1>a, <1>b, <1>c, <1>e DEF Walk
  <2>2. WillRun'
    BY <1>b, <1>c DEF WillRun
  <2>3. QED
    BY <2>1, <2>2
<1>3. NoDuplicates'
  BY <1>a, <1>b, <1>c, <1>e DEF NoDuplicates
<1>4. AllListed'
  <2>1. idx \in 1..Length /\ fastTimers[idx] = t
    BY <1>b, <1>c
  <2>2. \A u \in Timers \ {t} : Armed(u)' => Armed(u)
    BY <1>e DEF Armed
  <2>3. QED
    BY <1>a, <1>b, <1>c, <2>1, <2>2 DEF AllListed
<1>5. Counts'
  BY <1>a, <1>e DEF Counts
<1>6. OnTime'
  <2> SUFFICES ASSUME NEW i \in 1..Length, i < idx'
               PROVE  /\ state'[fastTimers[i]] = ACTIVE =>
                           elapsed'[fastTimers[i]] < A!Latest(fastTimers[i])
                      /\ state'[fastTimers[i]] = PENDING =>
                           waited'[fastTimers[i]] = 0
    BY <1>b, <1>c DEF OnTime, A!Latest
  <2>1. CASE i = idx
    BY <1>a, <1>b, <1>e, <2>1 DEF A!Latest, TypeOK
  <2>2. CASE i < idx
    <3>1. fastTimers[i] \in Timers \ {t}
      BY <1>a, <1>b, <1>c, <2>2 DEF NoDuplicates
    <3>2. QED
      BY <1>a, <1>b, <1>e, <2>2, <3>1 DEF OnTime
  <2>3. QED
    BY <1>b, <1>c, <2>1, <2>2
<1>7. QED
  BY <1>1, <1>2, <1>3, <1>4, <1>5, <1>6 DEF IInv

\* onTick removes a timer, or passes one that stays.
LEMMA LeaveIInv ==
  ASSUME IInv, NEW t \in Timers, idx \in 1..len, fastTimers[idx] = t, Leave(t),
         state[t] # TO_BE_CLEARED =>
           /\ state[t] = ACTIVE => elapsed[t] < A!Latest(t)
           /\ state[t] = PENDING => waited[t] = 0,
         firing' = NoTimer, UNCHANGED <<elapsed, scheduled, waited>>
  PROVE  IInv'
<1> USE TimerAssumption DEF NOT_IN_LIST, TO_BE_CLEARED, PENDING, ACTIVE
<1>a. TypeOK /\ Walk /\ NoDuplicates /\ AllListed /\ WillRun /\ Counts /\ OnTime
  BY DEF IInv
<1>b. /\ idx > 0 /\ Length = len /\ len \in Nat /\ idx \in Nat
      /\ len <= Len(fastTimers)
      /\ \A i \in 1..len : fastTimers[i] \in Timers
  <2>1. idx > 0 /\ Length = len /\ len \in Nat /\ idx \in Nat
    BY <1>a DEF TypeOK, Length
  <2>2. QED
    BY <1>a, <2>1, ArrayFacts
<1>1. CASE state[t] = TO_BE_CLEARED
  <2>1. /\ state' = [state EXCEPT ![t] = NOT_IN_LIST]
        /\ len' = len - 1 /\ idx' = idx
        /\ fastTimers' = IF len = 1 THEN fastTimers
                          ELSE [fastTimers EXCEPT ![idx] = fastTimers[len]]
    BY <1>1 DEF Leave, Remove
  <2>2. /\ fastTimers' \in Seq(Timers) /\ Len(fastTimers') = Len(fastTimers)
        /\ \A i \in 1..(len - 1) :
             fastTimers'[i] = IF i = idx THEN fastTimers[len] ELSE fastTimers[i]
    <3>1. CASE len = 1
      BY <1>a, <2>1, <3>1 DEF TypeOK
    <3>2. CASE len # 1
      <4>1. /\ idx \in 1..Len(fastTimers) /\ fastTimers[len] \in Timers
            /\ fastTimers \in Seq(Timers)
            /\ fastTimers' = [fastTimers EXCEPT ![idx] = fastTimers[len]]
        <5>1. len \in 1..len
          BY <1>b
        <5>2. fastTimers \in Seq(Timers) /\ Len(fastTimers) \in Nat
          BY <1>a DEF TypeOK
        <5>3. QED
          BY <1>b, <2>1, <3>2, <5>1, <5>2
      <4>2. /\ fastTimers' \in Seq(Timers) /\ Len(fastTimers') = Len(fastTimers)
            /\ \A i \in 1..Len(fastTimers) :
                 fastTimers'[i] = IF i = idx THEN fastTimers[len]
                                             ELSE fastTimers[i]
        BY <4>1
      <4>3. QED
        BY <1>b, <4>2
    <3>3. QED
      BY <3>1, <3>2
  <2>3. /\ Length' = len - 1
        /\ \A i \in 1..(len - 1) : fastTimers'[i] \in Timers \ {t}
    BY <1>a, <1>b, <2>1, <2>2 DEF Length, NoDuplicates
  <2>4. \A u \in Timers \ {t} : state'[u] = state[u]
    BY <1>a, <2>1 DEF TypeOK
  <2>5. TypeOK'
    <3>1. state' \in [Timers -> {NOT_IN_LIST, TO_BE_CLEARED, PENDING, ACTIVE}]
      BY <1>a, <2>1 DEF TypeOK
    <3>2. len' \in Nat /\ idx' \in Nat
      BY <1>b, <2>1
    <3>3. QED
      BY <1>a, <2>2, <3>1, <3>2 DEF TypeOK
  <2>12. Walk'
    <3>1. idx > 0 /\ idx <= len' + 1 /\ len' <= Len(fastTimers')
      BY <1>b, <2>1, <2>2
    <3>2. QED
      BY <1>b, <2>1, <3>1 DEF Walk
  <2>6. NoDuplicates'
    <3>1. \A i, j \in 1..(len - 1) : fastTimers'[i] = fastTimers'[j] => i = j
      <4>1. TAKE i, j \in 1..(len - 1)
      <4>2. \A m, n \in 1..len : fastTimers[m] = fastTimers[n] => m = n
        BY <1>a, <1>b DEF NoDuplicates
      <4>3. i \in 1..len /\ j \in 1..len /\ i # len /\ j # len /\ len \in 1..len
        BY <1>b
      <4>4. /\ i = idx => fastTimers'[i] = fastTimers[len]
            /\ i # idx => fastTimers'[i] = fastTimers[i]
            /\ j = idx => fastTimers'[j] = fastTimers[len]
            /\ j # idx => fastTimers'[j] = fastTimers[j]
        BY <2>2, <4>1
      <4>5. CASE i = idx
        BY <4>2, <4>3, <4>4, <4>5, Zenon
      <4>6. CASE i # idx
        BY <4>2, <4>3, <4>4, <4>6, Zenon
      <4>7. QED
        BY <4>5, <4>6
    <3>2. \A i \in 1..(len - 1) : state'[fastTimers'[i]] # NOT_IN_LIST
      <4>1. TAKE i \in 1..(len - 1)
      <4>2. \A m \in 1..len : state[fastTimers[m]] # NOT_IN_LIST
        BY <1>a, <1>b DEF NoDuplicates
      <4>3. PICK m \in 1..len : fastTimers'[i] = fastTimers[m]
        <5>1. i \in 1..len /\ len \in 1..len
          BY <1>b
        <5>2. QED
          BY <2>2, <5>1
      <4>4. QED
        BY <2>3, <2>4, <4>2, <4>3
    <3>3. QED
      BY <2>3, <3>1, <3>2 DEF NoDuplicates
  <2>7. AllListed'
    <3> SUFFICES ASSUME NEW u \in Timers, Armed(u)'
                 PROVE  \E i \in 1..(len - 1) : fastTimers'[i] = u
      BY <2>3 DEF AllListed
    <3>1. u # t /\ Armed(u)
      BY <1>a, <2>1, <2>4 DEF Armed, TypeOK
    <3>2. PICK i \in 1..len : fastTimers[i] = u
      BY <1>a, <1>b, <3>1 DEF AllListed
    <3>3. CASE i # len
      <4>1. i \in 1..(len - 1) /\ i # idx
        BY <1>b, <3>1, <3>2, <3>3
      <4>2. fastTimers'[i] = u
        BY <2>2, <3>2, <4>1, Zenon
      <4>3. QED
        BY <4>1, <4>2, Zenon
    <3>4. CASE i = len
      <4>1. idx \in 1..(len - 1)
        BY <1>b, <3>1, <3>2, <3>4
      <4>2. fastTimers'[idx] = u
        BY <2>2, <3>2, <3>4, <4>1, Zenon
      <4>3. QED
        BY <4>1, <4>2, Zenon
    <3>5. QED
      BY <3>3, <3>4
  <2>8. WillRun'
    BY <1>b, <2>1 DEF WillRun
  <2>9. Counts'
    BY <1>a, <2>1 DEF Counts, TypeOK
  <2>10. OnTime'
    <3>1. \A i \in 1..len : i < idx =>
            /\ state[fastTimers[i]] = ACTIVE =>
                 elapsed[fastTimers[i]] < A!Latest(fastTimers[i])
            /\ state[fastTimers[i]] = PENDING => waited[fastTimers[i]] = 0
      BY <1>a, <1>b, Zenon DEF OnTime
    <3>2. ASSUME NEW i \in 1..(len - 1), i < idx
          PROVE  /\ state'[fastTimers'[i]] = ACTIVE =>
                      elapsed'[fastTimers'[i]] < A!Latest(fastTimers'[i])
                 /\ state'[fastTimers'[i]] = PENDING =>
                      waited'[fastTimers'[i]] = 0
      <4>1. i \in 1..len /\ i # idx
        BY <1>b, <3>2
      <4>2. fastTimers'[i] = fastTimers[i] /\ fastTimers'[i] \in Timers \ {t}
        BY <2>2, <2>3, <4>1, Zenon
      <4>3. state'[fastTimers'[i]] = state[fastTimers[i]]
        BY <2>4, <4>2, Zenon
      <4>4. QED
        BY <3>1, <3>2, <4>1, <4>2, <4>3, Zenon
    <3>3. idx' = idx /\ idx # 0
      BY <1>b, <2>1
    <3>4. QED
      BY <2>3, <3>2, <3>3 DEF OnTime, A!Latest
  <2>11. QED
    BY <2>12, <2>5, <2>6, <2>7, <2>8, <2>9, <2>10 DEF IInv
<1>2. CASE state[t] # TO_BE_CLEARED
  <2>1. idx' = idx + 1 /\ UNCHANGED <<state, len, fastTimers>>
    BY <1>2 DEF Leave
  <2>2. Length' = Length
    BY <1>b, <2>1 DEF Length
  <2>3. TypeOK' /\ Walk'
    <3>1. TypeOK'
      <4>1. firing' \in Timers \cup {NoTimer} /\ idx' \in Nat
        BY <1>b, <2>1
      <4>2. QED
        BY <1>a, <2>1, <4>1, Zenon DEF TypeOK
    <3>2. Walk'
      BY <1>b, <2>1 DEF Walk
    <3>3. QED
      BY <3>1, <3>2
  <2>4. NoDuplicates' /\ AllListed' /\ WillRun' /\ Counts'
    BY <1>a, <1>b, <2>1, <2>2 DEF NoDuplicates, AllListed, WillRun, Counts, Armed
  <2>5. OnTime'
    BY <1>a, <1>b, <1>2, <2>1, <2>2 DEF OnTime, A!Latest
  <2>6. QED
    BY <2>3, <2>4, <2>5 DEF IInv
<1>3. QED
  BY <1>1, <1>2

LEMMA EndTickIInv ==
  ASSUME IInv, EndTick
  PROVE  IInv'
<1> USE TimerAssumption DEF NOT_IN_LIST, TO_BE_CLEARED, PENDING, ACTIVE
<1>a. TypeOK /\ Walk /\ NoDuplicates /\ AllListed /\ WillRun /\ Counts /\ OnTime
  BY DEF IInv
<1>b. /\ idx > len /\ idx > 0 /\ fastTimers' = SubSeq(fastTimers, 1, len)
      /\ scheduled' = (scheduled \/ len # 0) /\ idx' = 0 /\ len' = 0
      /\ UNCHANGED <<state, elapsed, firing, waited>>
  BY DEF EndTick
<1>c. /\ len \in Nat /\ len <= Len(fastTimers) /\ Length = len
      /\ firing = NoTimer
  BY <1>a, <1>b DEF TypeOK, Walk, Length
<1>1. /\ fastTimers' \in Seq(Timers) /\ Len(fastTimers') = len
      /\ \A i \in 1..len : fastTimers'[i] = fastTimers[i]
  BY <1>a, <1>b, <1>c DEF TypeOK
<1>2. Length' = len
  BY <1>b, <1>1 DEF Length
<1>3. TypeOK' /\ Walk'
  <2>1. scheduled' \in BOOLEAN
    BY <1>b, Zenon
  <2>2. QED
    BY <1>a, <1>b, <1>c, <1>1, <2>1 DEF TypeOK, Walk
<1>4. NoDuplicates' /\ AllListed'
  BY <1>a, <1>b, <1>c, <1>1, <1>2 DEF NoDuplicates, AllListed, Armed
<1>5. WillRun'
  <2>1. len # 0 => scheduled'
    BY <1>b, Zenon
  <2>2. fastTimers' # <<>> => len # 0
    BY <1>1
  <2>3. QED
    BY <2>1, <2>2, Zenon DEF WillRun
<1>6. Counts'
  BY <1>a, <1>b DEF Counts
<1>7. OnTime'
  <2>1. \A i \in 1..len : i < idx /\ idx # 0
    BY <1>a, <1>b, <1>c DEF TypeOK
  <2>2. QED
    BY <1>a, <1>b, <1>c, <1>1, <1>2, <2>1 DEF OnTime, A!Latest
<1>8. QED
  BY <1>3, <1>4, <1>5, <1>6, <1>7 DEF IInv

----------------------------------------------------------------------------

LEMMA NextIInv ==
  ASSUME NoAdd, IInv, [Next]_vars
  PROVE  IInv'
<1>1. CASE UNCHANGED vars
  BY <1>1 DEF vars, IInv, TypeOK, Walk, NoDuplicates, AllListed, WillRun, Counts,
              OnTime, Length, Armed, A!Latest
<1>2. CASE StartTick
  BY <1>2, StartTickIInv
<1>3. CASE EndTick
  BY <1>3, EndTickIInv
<1>4. ASSUME NEW t \in Timers, VisitPending(t) PROVE IInv'
  BY <1>4, VisitPendingIInv
<1>5. ASSUME NEW t \in Timers, VisitExpired(t) PROVE IInv'
  BY <1>5, VisitExpiredIInv
<1>6. ASSUME NEW t \in Timers, VisitOther(t) PROVE IInv'
  <2>1. /\ idx \in 1..len /\ fastTimers[idx] = t /\ Leave(t)
        /\ firing' = NoTimer /\ UNCHANGED <<elapsed, scheduled, waited>>
    BY <1>6 DEF VisitOther, Visiting, IInv, TypeOK
  <2>2. /\ state[t] = ACTIVE => elapsed[t] < A!Latest(t)
        /\ state[t] = PENDING => waited[t] = 0
    BY <1>6, TimerAssumption DEF VisitOther, Expired, A!Latest, IInv, TypeOK
  <2>3. QED
    BY <2>1, <2>2, LeaveIInv
<1>7. CASE CallbackReturns
  <2>1. /\ firing \in Timers /\ idx \in 1..len /\ fastTimers[idx] = firing
        /\ Leave(firing) /\ firing' = NoTimer
        /\ UNCHANGED <<elapsed, scheduled, waited>>
    BY <1>7 DEF CallbackReturns, IInv, TypeOK, Walk
  <2>2. state[firing] # TO_BE_CLEARED => state[firing] = PENDING /\ waited[firing] = 0
    BY <1>7 DEF CallbackReturns, IInv, Walk
  <2>3. QED
    BY <2>1, <2>2, LeaveIInv DEF PENDING, ACTIVE
<1>8. ASSUME NEW t \in Timers, Refresh(t) PROVE IInv'
  BY <1>8, RefreshIInv
<1>9. ASSUME NEW t \in Timers, Clear(t) PROVE IInv'
  BY <1>9, ClearIInv
<1>10. ASSUME NEW t \in Timers, Collect(t) PROVE IInv'
  BY <1>10, CollectIInv
<1>11. QED
  BY <1>1, <1>2, <1>3, <1>4, <1>5, <1>6, <1>7, <1>8, <1>9, <1>10
     DEF Next, TickStep, Exported

LEMMA Invariance == ASSUME NoAdd PROVE Spec => []IInv
<1>1. Init => IInv
  BY InitIInv
<1>2. IInv /\ [Next]_vars => IInv'
  BY NextIInv
<1>3. QED
  BY <1>1, <1>2, PTL DEF Spec

\* No timer drops out of the array, whatever timers there are and whichever
\* order they are set, refreshed, cleared and expire in: onTick exchanges
\* elements and cuts the array, but loses none.
THEOREM NothingLost == ASSUME NoAdd PROVE Spec => []NoTimerLost
<1>1. IInv => NoTimerLost
  <2> SUFFICES ASSUME IInv, idx = 0, NEW t \in Timers, Armed(t)
               PROVE  Listed(t) /\ scheduled
    BY DEF NoTimerLost
  <2>1. PICK i \in 1..Len(fastTimers) : fastTimers[i] = t
    BY DEF IInv, AllListed, Length
  <2>2. Listed(t)
    BY <2>1 DEF Listed, IInv, TypeOK
  <2>3. fastTimers # <<>>
    BY <2>1
  <2>4. QED
    BY <2>2, <2>3 DEF IInv, WillRun
<1>2. QED
  BY <1>1, Invariance, PTL

\* The timers are alarm clocks: never more than one tick early, never late.
THEOREM TimersAreAlarms == ASSUME NoAdd PROVE Spec => AlarmsKept
<1> USE DEF NOT_IN_LIST, TO_BE_CLEARED, PENDING, ACTIVE
<1>1. Init => A!Init
  BY DEF Init, A!Init, Armed
<1>2. ASSUME IInv, [Next]_vars PROVE [A!Next]_(A!vars)
  <2>a. TypeOK /\ Walk /\ AllListed /\ Counts /\ OnTime
    BY <1>2 DEF IInv
  <2>1. CASE UNCHANGED vars
    BY <2>1 DEF vars, A!vars, Armed
  <2>2. CASE StartTick
    <3>1. \A t \in Timers : Armed(t) => waited[t] < A!Latest(t)
      <4> SUFFICES ASSUME NEW t \in Timers, Armed(t) PROVE waited[t] < A!Latest(t)
        OBVIOUS
      <4>1. PICK i \in 1..Length : fastTimers[i] = t
        BY <2>a DEF AllListed
      <4>2. /\ state[t] = ACTIVE => elapsed[t] < A!Latest(t)
            /\ state[t] = PENDING => waited[t] = 0
        BY <2>a, <2>2, <4>1 DEF OnTime, StartTick
      <4>3. A!Latest(t) \in Nat /\ A!Latest(t) >= 2
        BY TimerAssumption DEF A!Latest
      <4>4. CASE state[t] = PENDING
        BY <4>2, <4>3, <4>4
      <4>5. CASE state[t] = ACTIVE
        <5>1. elapsed[t] \in {waited[t], waited[t] + 1} /\ waited[t] \in Nat
          BY <2>a, <4>5 DEF Counts, TypeOK
        <5>2. elapsed[t] < A!Latest(t)
          BY <4>2, <4>5
        <5>3. QED
          BY <4>3, <5>1, <5>2
      <4>6. QED
        BY <4>4, <4>5 DEF Armed
    <3>2. waited' = [t \in Timers |->
                      IF t \in {u \in Timers : Armed(u)} THEN waited[t] + 1
                                                          ELSE waited[t]]
      BY <2>a, <2>2 DEF StartTick, TypeOK
    <3>3. /\ {t \in Timers : Armed(t)}' = {t \in Timers : Armed(t)}
          /\ firing = NoTimer /\ firing' = firing
      BY <2>a, <2>2 DEF StartTick, Armed, Walk
    <3>4. A!Tick
      BY <3>1, <3>2, <3>3 DEF A!Tick, A!Latest
    <3>5. QED
      BY <3>4 DEF A!Next
  <2>3. CASE EndTick
    BY <2>3 DEF EndTick, A!vars, Armed
  <2>4. ASSUME NEW t \in Timers, VisitPending(t) PROVE UNCHANGED A!vars
    BY <2>a, <2>4 DEF VisitPending, A!vars, Armed, TypeOK
  <2>5. ASSUME NEW t \in Timers, VisitExpired(t) PROVE A!Ring(t)
    <3>1. Delay[t] <= waited[t] + 1 /\ Armed(t) /\ firing = NoTimer /\ firing' = t
      <4>1. /\ state[t] = ACTIVE /\ Delay[t] <= elapsed[t]
            /\ firing = NoTimer /\ firing' = t
        BY <2>5 DEF VisitExpired, Visiting, Expired
      <4>2. /\ elapsed[t] \in {waited[t], waited[t] + 1} /\ waited[t] \in Nat
            /\ Delay[t] \in Nat
        BY <2>a, <4>1, TimerAssumption DEF Counts, TypeOK
      <4>3. QED
        BY <4>1, <4>2 DEF Armed
    <3>2. {u \in Timers : Armed(u)}' = {u \in Timers : Armed(u)} \ {t}
      BY <2>a, <2>5 DEF VisitExpired, Armed, TypeOK
    <3>3. QED
      BY <2>5, <3>1, <3>2 DEF A!Ring, VisitExpired
  <2>6. ASSUME NEW t \in Timers, Leave(t), ~Armed(t) \/ state[t] # TO_BE_CLEARED
        PROVE  {u \in Timers : Armed(u)}' = {u \in Timers : Armed(u)}
    BY <2>a, <2>6 DEF Leave, Remove, Armed, TypeOK
  <2>7. ASSUME NEW t \in Timers, VisitOther(t) PROVE UNCHANGED A!vars
    BY <2>6, <2>7 DEF VisitOther, A!vars, Armed
  <2>8. CASE CallbackReturns
    <3>1. firing \in Timers /\ Leave(firing) /\ firing' = NoTimer /\ waited' = waited
      BY <2>a, <2>8 DEF CallbackReturns, TypeOK
    <3>2. {u \in Timers : Armed(u)}' = {u \in Timers : Armed(u)}
      BY <2>6, <3>1 DEF Armed
    <3>3. A!Stop
      BY <3>1, <3>2 DEF A!Stop
    <3>4. QED
      BY <3>3 DEF A!Next
  <2>9. ASSUME NEW t \in Timers, Refresh(t) PROVE A!Set(t)
    <3>1. {u \in Timers : Armed(u)}' = {u \in Timers : Armed(u)} \cup {t}
      BY <2>a, <2>9 DEF Refresh, Armed, TypeOK
    <3>2. QED
      BY <2>9, <3>1 DEF Refresh, A!Set
  <2>10. ASSUME NEW t \in Timers, Clear(t) PROVE A!Clear(t)
    <3>1. {u \in Timers : Armed(u)}' = {u \in Timers : Armed(u)} \ {t}
      BY <2>a, <2>10 DEF Clear, Armed, TypeOK
    <3>2. QED
      BY <2>10, <3>1 DEF Clear, A!Clear
  <2>11. ASSUME NEW t \in Timers, Collect(t) PROVE UNCHANGED A!vars
    BY <2>a, <2>11 DEF Collect, A!vars, Armed, TypeOK
  <2>12. QED
    BY <1>2, <2>1, <2>2, <2>3, <2>4, <2>5, <2>7, <2>8, <2>9, <2>10, <2>11
       DEF Next, TickStep, Exported, A!Next
<1>3. QED
  BY <1>1, <1>2, Invariance, PTL DEF Spec, AlarmsKept, A!Spec
=============================================================================

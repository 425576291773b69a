------------------------------ MODULE Timers ------------------------------
(***************************************************************************)
(* util/timers.js: timers of low resolution.  All of them are in one array *)
(* that onTick walks over; a callback that onTick makes may change timers  *)
(* while the walk is under way.                                            *)
(*                                                                         *)
(* Time is counted in ticks: fastNow only ever enters the code as the      *)
(* difference to a timer's _idleStart, which is elapsed here (0 unless the *)
(* timer is ACTIVE), and a delay expires after delay / TICK_MS, rounded up.*)
(***************************************************************************)
EXTENDS Integers, Sequences

CONSTANTS
  Timers,
  Delay,        \* in ticks
  NoTimer,
  CallbackOps   \* what callbacks do: "clear", "refresh" listed timers, or "add"

ASSUME TimerAssumption == Delay \in [Timers -> Nat] /\ NoTimer \notin Timers
ASSUME CallbackAssumption == CallbackOps \subseteq {"clear", "refresh", "add"}

VARIABLES
  fastTimers,   \* the array; while onTick runs, a tail of it may be stale
  state,        \* _state of each timer
  elapsed,      \* fastNow - _idleStart
  scheduled,    \* fastNowTimeout will call onTick
  idx, len,     \* onTick's variables, counted from 1; 0 when it does not run
  firing,       \* the timer whose callback runs
  waited        \* history: ticks that began since the last refresh()

vars == <<fastTimers, state, elapsed, scheduled, idx, len, firing, waited>>

NOT_IN_LIST == -2
TO_BE_CLEARED == -1
PENDING == 0
ACTIVE == 1

Armed(t) == state[t] \in {PENDING, ACTIVE}

\* The part of the array that is not stale.
Listed(t) ==
  \E i \in DOMAIN fastTimers : fastTimers[i] = t /\ (idx > 0 => i <= len)

Init ==
  /\ fastTimers = <<>> /\ scheduled = FALSE
  /\ state = [t \in Timers |-> NOT_IN_LIST]
  /\ elapsed = [t \in Timers |-> 0] /\ waited = [t \in Timers |-> 0]
  /\ idx = 0 /\ len = 0 /\ firing = NoTimer

----------------------------------------------------------------------------
(* The interface, called in a job of its own or by a callback of onTick.    *)

May(op) == idx = 0 \/ (firing # NoTimer /\ op \in CallbackOps)

\* Mutant of Refresh: the state of the timer is not set.
RefreshKeepsState(t) ==
  /\ May(IF state[t] = NOT_IN_LIST THEN "add" ELSE "refresh")
  /\ state[t] = TO_BE_CLEARED => Listed(t)
  /\ fastTimers' = IF state[t] = NOT_IN_LIST THEN Append(fastTimers, t)
                                             ELSE fastTimers
  /\ scheduled' = (scheduled \/ Len(fastTimers') = 1)
  /\ state' = [state EXCEPT ![t] = IF @ = ACTIVE THEN @ ELSE PENDING]
  /\ waited' = [waited EXCEPT ![t] = 0]
  /\ UNCHANGED <<elapsed, idx, len, firing>>

\* setFastTimeout and FastTimer.refresh: the constructor refreshes.  Callers
\* do not keep a timer they clear, so that one which has left the array and was
\* cleared is not refreshed.
Refresh(t) ==
  /\ May(IF state[t] = NOT_IN_LIST THEN "add" ELSE "refresh")
  /\ state[t] = TO_BE_CLEARED => Listed(t)
  /\ fastTimers' = IF state[t] = NOT_IN_LIST THEN Append(fastTimers, t)
                                             ELSE fastTimers
  /\ scheduled' = (scheduled \/ Len(fastTimers') = 1)
  /\ state' = [state EXCEPT ![t] = PENDING]
  /\ elapsed' = [elapsed EXCEPT ![t] = 0]
  /\ waited' = [waited EXCEPT ![t] = 0]
  /\ UNCHANGED <<idx, len, firing>>

\* clearTimeout, FastTimer.clear.
Clear(t) ==
  /\ May("clear")
  /\ state' = [state EXCEPT ![t] = TO_BE_CLEARED]
  /\ elapsed' = [elapsed EXCEPT ![t] = 0]
  /\ waited' = [waited EXCEPT ![t] = 0]
  /\ UNCHANGED <<fastTimers, scheduled, idx, len, firing>>

\* A timer that was cleared and is in no array is garbage; its identity is used
\* for the next object.
Collect(t) ==
  /\ idx = 0 /\ state[t] = TO_BE_CLEARED /\ ~Listed(t)
  /\ state' = [state EXCEPT ![t] = NOT_IN_LIST]
  /\ UNCHANGED <<fastTimers, elapsed, scheduled, idx, len, firing, waited>>

----------------------------------------------------------------------------
(* onTick, split where it calls back.                                       *)

\* fastNow += TICK_MS
StartTick ==
  /\ idx = 0 /\ scheduled
  /\ scheduled' = FALSE
  /\ idx' = 1 /\ len' = Len(fastTimers)
  /\ elapsed' = [t \in Timers |-> elapsed[t] + IF state[t] = ACTIVE THEN 1 ELSE 0]
  /\ waited' = [t \in Timers |-> waited[t] + IF Armed(t) THEN 1 ELSE 0]
  /\ UNCHANGED <<fastTimers, state, firing>>

Visiting(t) == idx > 0 /\ idx <= len /\ firing = NoTimer /\ fastTimers[idx] = t
Expired(t) == state[t] = ACTIVE /\ elapsed[t] >= Delay[t]

VisitPending(t) ==
  /\ Visiting(t) /\ state[t] = PENDING
  /\ state' = [state EXCEPT ![t] = ACTIVE]
  /\ elapsed' = [elapsed EXCEPT ![t] = 1]
  /\ idx' = idx + 1
  /\ UNCHANGED <<fastTimers, scheduled, len, firing, waited>>

VisitExpired(t) ==
  /\ Visiting(t) /\ Expired(t)
  /\ state' = [state EXCEPT ![t] = TO_BE_CLEARED]
  /\ elapsed' = [elapsed EXCEPT ![t] = 0]
  /\ waited' = [waited EXCEPT ![t] = 0]
  /\ firing' = t
  /\ UNCHANGED <<fastTimers, scheduled, idx, len>>

\* Mutant of Remove: the last timer is cut off instead of moved.
RemoveCuts(t) ==
  /\ state' = [state EXCEPT ![t] = NOT_IN_LIST]
  /\ len' = len - 1
  /\ UNCHANGED <<fastTimers, idx>>

\* The last timer takes the place of the one that leaves; idx stays.
Remove(t) ==
  /\ state' = [state EXCEPT ![t] = NOT_IN_LIST]
  /\ len' = len - 1
  /\ fastTimers' = IF len = 1 THEN fastTimers
                              ELSE [fastTimers EXCEPT ![idx] = fastTimers[len]]
  /\ UNCHANGED idx

Leave(t) ==
  IF state[t] = TO_BE_CLEARED
  THEN Remove(t)
  ELSE idx' = idx + 1 /\ UNCHANGED <<state, len, fastTimers>>

CallbackReturns ==
  /\ firing # NoTimer
  /\ firing' = NoTimer
  /\ Leave(firing)
  /\ UNCHANGED <<elapsed, scheduled, waited>>

VisitOther(t) ==
  /\ Visiting(t) /\ state[t] # PENDING /\ ~Expired(t)
  /\ Leave(t)
  /\ UNCHANGED <<elapsed, scheduled, firing, waited>>

\* Mutant of EndTick: fastNowTimeout is not refreshed.
EndTickIdle ==
  /\ idx > len /\ idx > 0
  /\ fastTimers' = SubSeq(fastTimers, 1, len)
  /\ idx' = 0 /\ len' = 0
  /\ UNCHANGED <<state, elapsed, scheduled, firing, waited>>

EndTick ==
  /\ idx > len /\ idx > 0
  /\ fastTimers' = SubSeq(fastTimers, 1, len)
  /\ scheduled' = (scheduled \/ len # 0)
  /\ idx' = 0 /\ len' = 0
  /\ UNCHANGED <<state, elapsed, firing, waited>>

TickStep ==
  \/ StartTick \/ EndTick
  \/ \E t \in Timers : VisitPending(t) \/ VisitExpired(t) \/ VisitOther(t)

\* What the module exports: setTimeout and setFastTimeout make a timer, the two
\* clear functions clear it.
Exported(t) == Refresh(t) \/ Clear(t)

Next ==
  \/ TickStep \/ CallbackReturns
  \/ \E t \in Timers : Exported(t) \/ Collect(t)

Spec == Init /\ [][Next]_vars

\* fastNowTimeout fires, and callbacks return.
FairSpec == Spec /\ WF_vars(TickStep) /\ WF_vars(CallbackReturns)

----------------------------------------------------------------------------
(* Properties.                                                              *)

TypeOK ==
  /\ fastTimers \in Seq(Timers)
  /\ state \in [Timers -> {NOT_IN_LIST, TO_BE_CLEARED, PENDING, ACTIVE}]
  /\ elapsed \in [Timers -> Nat] /\ waited \in [Timers -> Nat]
  /\ scheduled \in BOOLEAN
  /\ idx \in Nat /\ len \in Nat /\ firing \in Timers \cup {NoTimer}

\* Between ticks a timer that was set, and has neither fired nor been cleared,
\* is in the array onTick walks over, and onTick will run: whatever callbacks
\* and the walk itself do to the array, no timer drops out of it (onTick cuts
\* the array to the length it counted down itself).
NoTimerLost ==
  idx = 0 => \A t \in Timers : Armed(t) => Listed(t) /\ scheduled

\* Timers keep what an alarm clock promises, although onTick exchanges the
\* elements of the array, refresh() only marks a timer, and the next tick
\* starts the count: a timer fires at most a tick before its delay, and in the
\* tick in which the delay is over.
A == INSTANCE Alarms WITH
       on <- {t \in Timers : Armed(t)},
       age <- waited,
       rings <- firing

AlarmsKept == A!Spec

\* A timer that is set fires or is cleared, unless it is set again for ever:
\* the array never waits for a tick that nobody scheduled.
EveryTimerEnds ==
  \A t \in Timers : []<>(~Armed(t)) \/ []<><<Refresh(t)>>_vars
=============================================================================

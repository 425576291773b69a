------------------------------ MODULE Alarms ------------------------------
(***************************************************************************)
(* What util/timers.js promises of setFastTimeout, refresh and             *)
(* clearTimeout, in ticks of its clock (TICK_MS): an alarm that is set     *)
(* rings once, unless it is cleared or set again first; not more than a    *)
(* tick too early, and not later than its delay rounded up, or two ticks   *)
(* ("with an accuracy target of within 500ms").                            *)
(***************************************************************************)
EXTENDS Naturals

CONSTANTS
  Timers,
  NoTimer,
  Delay   \* the delay of each timer in ticks, rounded up

VARIABLES
  on,   \* the alarms that are set
  age,  \* ticks that began since the alarm was set
  rings \* the alarm that rings: its callback runs

vars == <<on, age, rings>>

Latest(t) == IF Delay[t] < 2 THEN 2 ELSE Delay[t]

Init == on = {} /\ age = [t \in Timers |-> 0] /\ rings = NoTimer

Set(t) ==
  /\ on' = on \cup {t}
  /\ age' = [age EXCEPT ![t] = 0]
  /\ UNCHANGED rings

Clear(t) ==
  /\ on' = on \ {t}
  /\ age' = [age EXCEPT ![t] = 0]
  /\ UNCHANGED rings

Ring(t) ==
  /\ rings = NoTimer
  /\ t \in on /\ Delay[t] <= age[t] + 1
  /\ on' = on \ {t}
  /\ age' = [age EXCEPT ![t] = 0]
  /\ rings' = t

Stop == rings' = NoTimer /\ UNCHANGED <<on, age>>

\* The clock waits for an alarm that is due.
Tick ==
  /\ \A t \in on : age[t] < Latest(t)
  /\ age' = [t \in Timers |-> IF t \in on THEN age[t] + 1 ELSE age[t]]
  /\ rings = NoTimer
  /\ UNCHANGED <<on, rings>>

Next == Tick \/ Stop \/ \E t \in Timers : Set(t) \/ Clear(t) \/ Ring(t)

Spec == Init /\ [][Next]_vars
=============================================================================

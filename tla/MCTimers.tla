----------------------------- MODULE MCTimers -----------------------------
(***************************************************************************)
(* Timers with one delay that expires in the first tick, one that takes    *)
(* two ticks, and one that takes three.                                    *)
(***************************************************************************)
EXTENDS Timers, TLC

CONSTANTS t1, t2, t3

Delays == t1 :> 1 @@ t2 :> 2 @@ t3 :> 3
=============================================================================

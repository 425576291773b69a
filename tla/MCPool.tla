------------------------------- MODULE MCPool -------------------------------
(* Small instances of Pool. *)
EXTENDS Pool

MCIds == 1..4
MCRequests == 1..3
\* One connection and two faults with two requests, one fault with three.
MCPoolOf(n, f, r) ==
  [class |-> "pool", connections |-> n, faults |-> f,
   requests |-> r]

MCKinds == {MCPoolOf(1, 1, 3), MCPoolOf(1, 2, 2), MCPoolOf(2, 1, 3),
            [MCPoolOf(2, 1, 3) EXCEPT !.class = "roundRobin"],
            [MCPoolOf(2, 1, 2) EXCEPT !.class = "balanced"]}
=============================================================================

------------------------------ MODULE Balanced ------------------------------
(***************************************************************************)
(* How BalancedPool chooses among its upstreams (lib/dispatcher/           *)
(* balanced-pool.js): a weighted round robin.  The current weight sinks by *)
(* the greatest common divisor of the weights each time the round begins   *)
(* again, and an upstream whose weight reaches it is taken.                *)
(***************************************************************************)
EXTENDS Integers, Sequences, SequencesExt

CONSTANTS
  MaxWeight,  \* kMaxWeightPerServer
  Penalty     \* kErrorPenalty

ASSUME WeightAssumption == MaxWeight \in Nat \ {0} /\ Penalty \in Nat \ {0}

Heavier(w) == IF w + Penalty > MaxWeight THEN MaxWeight ELSE w + Penalty
Lighter(w) == IF w - Penalty < 1 THEN 1 ELSE w - Penalty

\* getGreatestCommonDivisor, of all weights: _updateBalancedPoolStats
Divides(d, n) == n % d = 0
GcdOf(weights) ==
  IF weights = {} THEN 0
  ELSE CHOOSE d \in 1..MaxWeight :
         /\ \A w \in weights : Divides(d, w)
         /\ \A e \in d+1..MaxWeight : \E w \in weights : ~Divides(e, w)

\* One turn of the loop of kGetDispatcher, at the upstream after s.index.
Turn(s, weight, available, gcd) ==
  LET n == Len(weight)
      i == (s.index + 1) % n
      low == s.current - gcd
      current == CASE i # 0 -> s.current
                   [] i = 0 /\ low > 0 -> low
                   [] OTHER -> MaxWeight
      best == IF ~available[i+1] THEN s.best
              ELSE IF s.best = -1 \/ weight[i+1] > weight[s.best+1] THEN i
              ELSE s.best
  IN [index |-> i, current |-> current, best |-> best,
      found |-> available[i+1] /\ weight[i+1] >= current]

\* kGetDispatcher: the index of the upstream, counted from 0, or -1; and what
\* kIndex and kCurrentWeight are then.
Select(weight, available, index, current, gcd) ==
  LET start == [index |-> index, current |-> current, best |-> -1, found |-> FALSE]
      round == FoldLeft(LAMBDA s, k : IF s.found THEN s
                                      ELSE Turn(s, weight, available, gcd),
                        start, [k \in 1..Len(weight) |-> k])
  IN IF round.found \/ round.best = -1
     THEN [chosen |-> IF round.found THEN round.index ELSE -1,
           index |-> round.index, current |-> round.current]
     ELSE [chosen |-> round.best, index |-> round.best,
           current |-> weight[round.best+1]]
=============================================================================

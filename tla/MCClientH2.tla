----------------------------- MODULE MCClientH2 -----------------------------
(* A few small instances of ClientH2. *)
EXTENDS ClientH2

MCKind(of, n, chunks) == [of |-> of, faults |-> n, chunks |-> chunks]
MCKinds ==
  {MCKind(<<"plain", "plain", "plain">>, 1, 0), MCKind(<<"plain">>, 3, 0),
   MCKind(<<"plain">>, 2, 2), MCKind(<<"stream">>, 2, 1),
   MCKind(<<"plain", "stream">>, 2, 0),
   MCKind(<<"upgrade", "plain">>, 1, 0), MCKind(<<"upgrade">>, 2, 0)}
=============================================================================

---------------------------- MODULE MCResponses ----------------------------
(***************************************************************************)
(* Responses for TLC: one user with every option, two users with retries   *)
(* outside the deduplication, where they join and are joined, and inside.  *)
(***************************************************************************)
EXTENDS Responses

K(inside, throws, custom, etag, length, does) ==
  [inside |-> inside, throws |-> throws, custom |-> custom, etag |-> etag,
   length |-> length, does |-> does]

One ==
  {K(inside, throws, custom, etag, length, <<does>>) :
     inside \in BOOLEAN, throws \in BOOLEAN, custom \in BOOLEAN,
     etag \in BOOLEAN, length \in BOOLEAN, does \in {"pauses", "aborts"}}

\* Each may pause or abort while the other, dispatched before or after, reads
\* or pauses.
Outside ==
  {K(FALSE, FALSE, FALSE, FALSE, TRUE, does) :
     does \in {<<"pauses", "aborts">>, <<"aborts", "pauses">>}}
    \cup {K(FALSE, TRUE, FALSE, TRUE, TRUE, <<"reads", "pauses">>),
          K(FALSE, TRUE, TRUE, FALSE, FALSE, <<"reads", "pauses">>)}

Inside ==
  {K(TRUE, FALSE, FALSE, TRUE, TRUE, <<"pauses", "pauses">>),
   K(TRUE, FALSE, FALSE, FALSE, TRUE, <<"pauses", "aborts">>),
   K(TRUE, TRUE, TRUE, FALSE, FALSE, <<"aborts", "pauses">>)}

MCKinds == One \cup Outside \cup Inside
=============================================================================

------------------------------ MODULE MCFetch ------------------------------
(* Fetch for TLC: the options of fetch(), and what a server may answer. *)
EXTENDS Fetch

MCKinds ==
  [redirect : {"follow"}, body : {"none", "source", "stream"}, integrity : {FALSE}]
    \cup [redirect : {"follow"}, body : {"none"}, integrity : {TRUE}]
    \cup [redirect : {"manual", "error"}, body : {"none"}, integrity : {FALSE}]

MCStatuses ==
  {"ok", "empty", "found", "see other", "temporary", "bare", "misdirected",
   "proxy", "encoded"}
=============================================================================

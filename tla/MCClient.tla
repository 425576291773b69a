----------------------------- MODULE MCClient -----------------------------
(***************************************************************************)
(* Instances of Client for TLC: the requests of each run and the calls its *)
(* user makes.                                                             *)
(***************************************************************************)
EXTENDS Client, TLC

CONSTANTS r1, r2, r3, r4, nameA, nameB

\* Requests, with the defaults of the constructor unless the name says more.
Get == [method |-> "GET", idempotent |-> TRUE, blocking |-> TRUE,
        reset |-> "unset", body |-> "none", name |-> nameA]
Pipelinable == [Get EXCEPT !.blocking = FALSE]
HeadWithBody == [Pipelinable EXCEPT !.method = "HEAD", !.body = "buffer"]
Post == [Get EXCEPT !.method = "POST", !.idempotent = FALSE, !.body = "buffer"]
Upload == [Post EXCEPT !.body = "stream"]
Misdeclared == [Post EXCEPT !.body = "mismatch"]
Upgrade == [Get EXCEPT !.method = "UPGRADE"]

Named(o, n) == [o EXCEPT !.name = n]

OptPipelined ==
  r1 :> Pipelinable @@ r2 :> Pipelinable @@ r3 :> Post
    @@ r4 :> Named(Upgrade, nameB)
OptNested == r1 :> Pipelinable @@ r2 :> HeadWithBody @@ r3 :> Misdeclared
OptFair == r1 :> Pipelinable @@ r2 :> Upload

\* Calls from jobs of the user's own, and from within callbacks.
FromTop(ops) == {"top"} \X ops
TopCalls == FromTop({"dispatch", "abort", "close", "destroy"})

\* A request may be aborted while the loop is about to write it, too; destroy()
\* and close() are called in the other runs.
PipelinedCalls == FromTop({"dispatch", "abort"}) \cup {<<"start", "abort">>}

\* What ends a connection in the same way once is enough, and nothing streams.
PipelinedFaults ==
  AllFaults \ {"bodyError", "shortKeepAlive", "connectSocket", "bodyTimeout"}

\* r1 and r2 ask for the same.
Alike == Permutations({r1, r2})

\* Everything from everywhere, but what an assertion of the code rules out:
\* onResponseError calls the client back while onError or onHttpSocketClose
\* are half done, onRequestSent before the loop has counted the request.
NestedCalls ==
  (Callbacks \cup {"top"}) \X Operations
    \ {<<"error", "dispatch">>, <<"error", "destroy">>, <<"sent", "destroy">>,
       <<"error", "pipelining">>}

\* Nothing that may prevent progress for ever.
FairFaults == AllFaults \ {"bytes", "altname", "connectSocket", "shortKeepAlive"}
=============================================================================

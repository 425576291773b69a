----------------------------- MODULE MCExchange -----------------------------
(* Exchange for TLC: the calls of a user. *)
EXTENDS Exchange

Kind(api, promise, read, upload, iterable, strict, signal) ==
  [api |-> api, promise |-> promise, read |-> read, upload |-> upload,
   iterable |-> iterable, strict |-> strict, signal |-> signal]

Lengths == {"chunked", "right", "short", "long"}

\* Each way to read a response, each body for it, and each other method.
MCKinds ==
  {Kind("request", p, r, "none", FALSE, TRUE, "live") :
     p \in BOOLEAN, r \in {"none", "mixin", "data", "dump"}}
    \cup {Kind("request", TRUE, "mixin", u, i, t, "live") :
            u \in Lengths, i \in BOOLEAN, t \in BOOLEAN}
    \cup {Kind("stream", FALSE, "none", u, FALSE, TRUE, "live") :
            u \in {"none", "right", "short"}}
    \cup {Kind("pipeline", FALSE, "none", "chunked", FALSE, TRUE, "live")}
    \cup {Kind(a, FALSE, "none", "none", FALSE, TRUE, "live") : a \in {"upgrade", "connect"}}
    \cup {Kind(a, FALSE, "none", "none", FALSE, TRUE, "aborted") :
            a \in {"request", "stream", "upgrade"}}
=============================================================================

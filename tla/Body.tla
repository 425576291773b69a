-------------------------------- MODULE Body --------------------------------
(***************************************************************************)
(* The body of a response that request() resolves with: BodyReadable and   *)
(* its mixins (lib/api/readable.js), over a Readable of node:stream.  Pure *)
(* operators on a record; what a step owes to the event loop is in its     *)
(* field "owes", which Exchange moves to the queues.                       *)
(***************************************************************************)
EXTENDS Integers, Sequences, SequencesExt

CONSTANTS
  HighWater, \* chunks that fill the buffer
  DumpLimit  \* chunks dump() reads before it destroys the body

ASSUME BodyAssumption == HighWater \in Nat \ {0} /\ DumpLimit \in Nat

\* closing: destroy() was called, its callback waits for the check phase
\* ("immediate") or has run ("tick"), 'close' was emitted ("closed").
\* mixin: a call of text(), json(), ...; kConsume is set from "reading" on.
NewBody ==
  [buffer |-> <<>>, ended |-> FALSE, endEmitted |-> FALSE, err |-> FALSE,
   closing |-> "no", flowing |-> FALSE, used |-> FALSE, emitted |-> FALSE,
   bytesRead |-> 0, got |-> <<>>, mixin |-> "none", body |-> <<>>,
   dump |-> "none", gives |-> "none", owes |-> <<>>]

Destroyed(b) == b.closing # "no"
Errored(b) == b.err /\ b.closing \in {"tick", "closed"}

\* util.isDisturbed(), and isUnusable() while no mixin was called before.
Disturbed(b) == b.emitted \/ (Destroyed(b) /\ ~b.endEmitted)

\* Mutant of Destroy: only an error of the user's gives the request up.
DestroyKept(b, failing) ==
  IF Destroyed(b) THEN b
  ELSE [b EXCEPT !.err = failing \/ ~b.endEmitted,
                 !.gives = IF failing THEN "abort" ELSE @,
                 !.closing = IF b.used THEN "tick" ELSE "immediate",
                 !.owes = IF b.used THEN Append(@, "close") ELSE @]

\* _destroy: whoever destroys a body that has not ended gives its request up;
\* the callback waits a turn for a user who has not listened yet.
Destroy(b, failing) ==
  IF Destroyed(b) THEN b
  ELSE LET err == failing \/ ~b.endEmitted
       IN  [b EXCEPT !.err = err, !.gives = IF err THEN "abort" ELSE @,
                     !.closing = IF b.used THEN "tick" ELSE "immediate",
                     !.owes = IF b.used THEN Append(@, "close") ELSE @]

\* A chunk is given to the listeners of 'data'; dump() counts it.
Emit(b, chunks) ==
  IF chunks = <<>> \/ Errored(b) THEN b
  ELSE LET c == [b EXCEPT !.emitted = TRUE,
                          !.got = IF b.used THEN @ \o chunks ELSE @]
       IN  IF b.dump = "pending" /\ b.bytesRead > DumpLimit
           THEN Destroy(c, FALSE) ELSE c

\* read() until it returns null: the buffer is emptied, the request resumed,
\* and a body that has ended says so in the next tick.
ReadAll(b) ==
  LET c == Emit([b EXCEPT !.buffer = <<>>], b.buffer)
  IN  [c EXCEPT !.owes = IF c.ended /\ ~c.endEmitted THEN Append(@, "end") ELSE @,
                !.gives = IF ~c.ended /\ ~Destroyed(b) /\ @ = "none"
                          THEN "resume" ELSE @]

\* resume_ and emitReadable_ of node:stream.
Flow(b) == IF b.flowing THEN ReadAll(b) ELSE b

\* push() of a chunk: kConsume takes it, or else the stream.
Push(b, chunk) ==
  LET c == [b EXCEPT !.bytesRead = @ + 1]
  IN  IF b.mixin = "reading" THEN [c EXCEPT !.body = Append(@, chunk)]
      ELSE IF b.flowing /\ b.buffer = <<>> THEN Emit(c, <<chunk>>)
      ELSE [c EXCEPT !.buffer = Append(@, chunk)]

\* push() returned false.
Full(b) == b.mixin # "reading" /\ Len(b.buffer) >= HighWater

\* push(null).
PushEnd(b) == Flow([b EXCEPT !.ended = TRUE])

\* consumeFinish with an error; consume.body is null afterwards.
Reject(b) == IF b.mixin \in {"reading", "refused"} THEN [b EXCEPT !.mixin = "rejected"] ELSE b
Resolve(b) == IF b.mixin = "reading" THEN [b EXCEPT !.mixin = "resolved"] ELSE b

\* endReadableNT: 'end', and autoDestroy.
End(b) ==
  IF Errored(b) \/ b.closing = "closed" \/ b.endEmitted \/ b.buffer # <<>> THEN b
  ELSE Destroy(Resolve([b EXCEPT !.endEmitted = TRUE]), FALSE)

\* The callback of _destroy in the check phase.
Immediate(b) == [b EXCEPT !.closing = "tick", !.owes = Append(@, "close")]

\* 'error' and 'close'.
Closed(b) ==
  [Reject(b) EXCEPT !.closing = "closed",
                    !.dump = IF @ = "pending" THEN "done" ELSE @]

(***************************************************************************)
(* What the user calls.                                                    *)
(***************************************************************************)
\* Mutant of Mixin: it waits for the 'close' of a body that is closed already.
MixinWaits(b) ==
  IF Disturbed(b) THEN [b EXCEPT !.mixin = "refused"]
  ELSE [b EXCEPT !.mixin = "asked", !.owes = Append(@, "consume")]

\* text(), json(), blob(), bytes() and arrayBuffer(): consume().
Mixin(b) ==
  IF Disturbed(b)
  THEN [b EXCEPT !.mixin = IF Destroyed(b) /\ b.closing # "closed"
                           THEN "refused" ELSE "rejected"]
  ELSE [b EXCEPT !.mixin = "asked", !.owes = Append(@, "consume")]

\* Mutant of ConsumeStart: what was buffered before is not part of the body.
ConsumeStartEmpty(b) ==
  LET c == [b EXCEPT !.mixin = "reading"]
  IN  IF b.endEmitted THEN Resolve(c)
      ELSE ReadAll([c EXCEPT !.flowing = TRUE, !.owes = Append(@, "flow")])

\* The microtask of consume() and consumeStart: 'error' and 'close' of a body
\* that is destroyed are still to come.
ConsumeStart(b) ==
  LET c == [b EXCEPT !.mixin = "reading", !.body = b.buffer]
  IN  IF b.endEmitted THEN Resolve(c)
      ELSE ReadAll([c EXCEPT !.flowing = TRUE, !.owes = Append(@, "flow")])

\* on('data').
Listen(b) == [b EXCEPT !.used = TRUE, !.flowing = TRUE, !.owes = Append(@, "flow")]

\* dump() without a signal.
Dump(b) ==
  IF b.closing = "closed" THEN [b EXCEPT !.dump = "done"]
  ELSE LET c == [b EXCEPT !.dump = "pending"]
       IN  Listen(IF b.bytesRead > DumpLimit THEN Destroy(c, TRUE) ELSE c)
=============================================================================

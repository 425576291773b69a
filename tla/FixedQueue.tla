----------------------------- MODULE FixedQueue -----------------------------
(***************************************************************************)
(* The queue of undici's pools (lib/dispatcher/fixed-queue.js): a linked   *)
(* list of ring buffers of kSize slots.  A queue is the sequence of its    *)
(* buffers from "tail", where items are taken, to "head", where they are   *)
(* put; "next" links each buffer to the one after it.                      *)
(***************************************************************************)
EXTENDS Integers, Sequences, SequencesExt

CONSTANTS
  kSize,      \* slots of a buffer, a power of two; one of them stays empty
  Requests,   \* what is queued
  Undefined   \* an empty slot, and what shift() returns of an empty queue

ASSUME SizeAssumption == kSize \in Nat /\ kSize >= 2
ASSUME EmptyAssumption == Undefined \notin Requests

Buffers == [list: [0..kSize-1 -> Requests \cup {Undefined}],
            bottom: 0..kSize-1, top: 0..kSize-1]

Queues == Seq(Buffers) \ {<<>>}

----------------------------------------------------------------------------
(* FixedCircularBuffer                                                      *)

EmptyBuffer ==
  [list |-> [i \in 0..kSize-1 |-> Undefined], bottom |-> 0, top |-> 0]

\* (i + 1) & kMask
NextSlot(i) == IF i = kSize - 1 THEN 0 ELSE i + 1

BufferIsEmpty(b) == b.top = b.bottom

\* Mutant of BufferIsFull: the slot that tells full from empty is used too.
BufferIsFullLate(b) == b.list[b.top] # Undefined
BufferIsFull(b) == NextSlot(b.top) = b.bottom

BufferPush(b, x) ==
  [b EXCEPT !.list[b.top] = x, !.top = NextSlot(@)]

\* shift() of a buffer returns its first item and keeps the rest.
BufferFirst(b) == b.list[b.bottom]
BufferRest(b) ==
  IF BufferFirst(b) = Undefined THEN b
  ELSE [b EXCEPT !.list[b.bottom] = Undefined, !.bottom = NextSlot(@)]

----------------------------------------------------------------------------
(* FixedQueue                                                               *)

EmptyQueue == <<EmptyBuffer>>

IsEmpty(q) == BufferIsEmpty(Last(q))

Push(q, x) ==
  IF BufferIsFull(Last(q)) THEN Append(q, BufferPush(EmptyBuffer, x))
  ELSE [q EXCEPT ![Len(q)] = BufferPush(@, x)]

\* shift() returns First(q) and leaves Rest(q).
First(q) == BufferFirst(q[1])
Rest(q) ==
  LET tail == BufferRest(q[1])
  IN IF BufferIsEmpty(tail) /\ Len(q) > 1 THEN Tail(q)
     ELSE <<tail>> \o Tail(q)

\* What shift() leaves once it has returned every item: the newest buffer.
Drained(q) ==
  << [EmptyBuffer EXCEPT !.bottom = Last(q).top, !.top = Last(q).top] >>

\* The items in a queue.
Items(q) ==
  (UNION {{q[k].list[i] : i \in 0..kSize-1} : k \in DOMAIN q}) \ {Undefined}
=============================================================================

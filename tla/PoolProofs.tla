----------------------------- MODULE PoolProofs -----------------------------
(***************************************************************************)
(* The queue of a pool is a FIFO queue, for any size of its buffers and    *)
(* any number of them, and a pool that ends leaves no request behind,      *)
(* whatever clients, users and networks do.                                *)
(***************************************************************************)
EXTENDS Pool, FiniteSetTheorems, SequenceTheorems, WellFoundedInduction, TLAPS

\* Where slot bottom + n of a ring is.
Wrap(i) == IF i < kSize THEN i ELSE i - kSize

\* Buffer b holds the items from + 1 .. to of w, and nothing else.
Holds(b, w, from, to) ==
  /\ from <= to /\ to - from < kSize
  /\ b.top = Wrap(b.bottom + (to - from))
  /\ \A i \in 0..kSize-1 :
       b.list[Wrap(b.bottom + i)] = IF i < to - from THEN w[from + i + 1] ELSE Undefined

\* The buffers of q hold w one after the other, buffer k from s[k] + 1 on; of
\* several none is empty.
Layout(q, w, s) ==
  /\ s[1] = 0 /\ s[Len(q) + 1] = Len(w)
  /\ \A j, k \in 1..Len(q)+1 : j <= k => s[j] <= s[k]
  /\ \A k \in 1..Len(q) : Holds(q[k], w, s[k], s[k + 1])
  /\ Len(q) > 1 => \A k \in 1..Len(q) : s[k] < s[k + 1]

HoldsInOrder(q, w) == \E s \in [1..Len(q)+1 -> Nat] : Layout(q, w, s)

----------------------------------------------------------------------------
(* A buffer.                                                                *)

LEMMA WrapIsSlot ==
  ASSUME NEW b \in 0..kSize-1
  PROVE  /\ \A i \in 0..kSize-1 : Wrap(b + i) \in 0..kSize-1
         /\ \A i, j \in 0..kSize-1 : Wrap(b + i) = Wrap(b + j) => i = j
         /\ \A k \in 0..kSize-1 : \E i \in 0..kSize-1 : k = Wrap(b + i)
         /\ \A i \in 0..kSize-2 : NextSlot(Wrap(b + i)) = Wrap(b + (i + 1))
         /\ NextSlot(Wrap(b + (kSize - 1))) = b
         /\ NextSlot(b) \in 0..kSize-1 /\ NextSlot(b) = Wrap(b + 1)
         /\ \A i \in 0..kSize-2 : Wrap(NextSlot(b) + i) = Wrap(b + (i + 1))
         /\ Wrap(NextSlot(b) + (kSize - 1)) = b
<1> USE SizeAssumption DEF Wrap, NextSlot
<1>1. \A k \in 0..kSize-1 : \E i \in 0..kSize-1 : k = Wrap(b + i)
  <2>1. TAKE k \in 0..kSize-1
  <2>2. CASE k >= b
    <3>1. k - b \in 0..kSize-1 /\ k = Wrap(b + (k - b))
      BY <2>2
    <3>2. QED
      BY <3>1
  <2>3. CASE k < b
    <3>1. k - b + kSize \in 0..kSize-1 /\ k = Wrap(b + (k - b + kSize))
      BY <2>3
    <3>2. QED
      BY <3>1
  <2>4. QED
    BY <2>2, <2>3
<1>2. QED
  BY <1>1

LEMMA WrapInjective ==
  ASSUME NEW b \in 0..kSize-1, NEW i \in 0..kSize-1, NEW j \in 0..kSize-1
  PROVE  Wrap(b + i) \in 0..kSize-1 /\ (Wrap(b + i) = Wrap(b + j) <=> i = j)
BY SizeAssumption DEF Wrap

LEMMA WrapNext ==
  ASSUME NEW b \in 0..kSize-1, NEW i \in 0..kSize-2
  PROVE  Wrap(NextSlot(b) + i) = Wrap(b + (i + 1)) /\ i + 1 \in 0..kSize-1
BY SizeAssumption DEF Wrap, NextSlot

LEMMA EmptyHolds ==
  ASSUME NEW w \in Seq(Requests)
  PROVE  /\ EmptyBuffer \in Buffers
         /\ Holds(EmptyBuffer, w, Len(w), Len(w))
BY SizeAssumption, LenProperties DEF EmptyBuffer, Buffers, Holds, Wrap

LEMMA IsEmptyMeans ==
  ASSUME NEW b \in Buffers, NEW w \in Seq(Requests), NEW from \in Nat, NEW to \in Nat,
         Holds(b, w, from, to)
  PROVE  /\ BufferIsEmpty(b) <=> from = to
         /\ BufferIsFull(b) => to - from = kSize - 1
         /\ from < to => BufferFirst(b) = w[from + 1]
         /\ from = to => BufferFirst(b) = Undefined
<1> USE SizeAssumption
<1>1. b.bottom \in 0..kSize-1 /\ b.top \in 0..kSize-1
  BY DEF Buffers
<1>2. to - from \in 0..kSize-1 /\ b.top = Wrap(b.bottom + (to - from))
  BY DEF Holds
<1>3. b.bottom = Wrap(b.bottom + 0) /\ 0 \in 0..kSize-1
  BY <1>1 DEF Wrap
<1>4. BufferIsEmpty(b) <=> from = to
  BY <1>1, <1>2 DEF BufferIsEmpty, Wrap
<1>5. BufferIsFull(b) => to - from = kSize - 1
  BY <1>1, <1>2 DEF BufferIsFull, NextSlot, Wrap
<1>6. b.list[Wrap(b.bottom + 0)] = IF 0 < to - from THEN w[from + 0 + 1] ELSE Undefined
  BY <1>3 DEF Holds
<1>7. QED
  BY <1>3, <1>4, <1>5, <1>6 DEF BufferFirst

\* push() to a buffer that is not full, and what it leaves of the others.
LEMMA PushHolds ==
  ASSUME NEW b \in Buffers, NEW w \in Seq(Requests), NEW x \in Requests,
         NEW from \in Nat, Holds(b, w, from, Len(w)), ~BufferIsFull(b)
  PROVE  /\ BufferPush(b, x) \in Buffers
         /\ Holds(BufferPush(b, x), Append(w, x), from, Len(w) + 1)
<1> USE SizeAssumption
<1> DEFINE n == Len(w) - from
           v == Append(w, x)
           c == BufferPush(b, x)
<1>0. Len(w) \in Nat /\ n \in 0..kSize-1 /\ v[Len(w) + 1] = x
      /\ \A i \in 1..Len(w) : v[i] = w[i]
  BY LenProperties, AppendProperties DEF Holds
<1>1. b.bottom \in 0..kSize-1 /\ b.top \in 0..kSize-1 /\ b.top = Wrap(b.bottom + n)
  BY DEF Buffers, Holds
<1>2. n # kSize - 1
  <2>1. n = kSize - 1 => NextSlot(b.top) = b.bottom
    BY <1>1, WrapIsSlot, ZenonT(30)
  <2>2. QED
    BY <2>1 DEF BufferIsFull
<1>3. n \in 0..kSize-2 /\ n + 1 = (Len(w) + 1) - from
  BY <1>0, <1>2
<1>4. /\ c \in Buffers
      /\ c.bottom = b.bottom /\ c.top = NextSlot(b.top)
      /\ c.list = [b.list EXCEPT ![b.top] = x]
      /\ b.list \in [0..kSize-1 -> Requests \cup {Undefined}]
  <2>1. NextSlot(b.top) \in 0..kSize-1
    BY <1>1, WrapIsSlot
  <2>2. QED
    BY <1>1, <2>1 DEF BufferPush, Buffers
<1>5. c.top = Wrap(c.bottom + (n + 1))
  BY <1>1, <1>3, <1>4, SMTT(30) DEF Wrap, NextSlot
<1>6. ASSUME NEW i \in 0..kSize-1
      PROVE  c.list[Wrap(c.bottom + i)] = IF i < n + 1 THEN v[from + i + 1] ELSE Undefined
  <2>1. /\ Wrap(b.bottom + i) \in 0..kSize-1
        /\ Wrap(b.bottom + i) = b.top <=> i = n
    <3> HIDE DEF n
    <3>1. QED
      BY <1>0, <1>1, WrapInjective
  <2>2. c.list[Wrap(b.bottom + i)] =
          IF i = n THEN x ELSE b.list[Wrap(b.bottom + i)]
    BY <1>4, <2>1
  <2>3. b.list[Wrap(b.bottom + i)] = IF i < n THEN w[from + i + 1] ELSE Undefined
    BY DEF Holds
  <2>4. CASE i = n
    BY <1>0, <1>4, <2>2, <2>4
  <2>5. CASE i < n
    <3>1. from + i + 1 \in 1..Len(w)
      BY <1>0, <2>5
    <3>2. QED
      BY <1>0, <1>4, <2>2, <2>3, <2>5, <3>1
  <2>6. CASE i > n
    BY <1>0, <1>4, <2>2, <2>3, <2>6
  <2>7. QED
    BY <1>0, <2>4, <2>5, <2>6
<1>7. QED
  BY <1>0, <1>3, <1>4, <1>5, <1>6 DEF Holds

\* The rest of a sequence, and a longer one.
LEMMA HoldsLess ==
  ASSUME NEW b \in Buffers, NEW w \in Seq(Requests), NEW v \in Seq(Requests),
         NEW from \in Nat, NEW to \in Nat, Holds(b, w, from + 1, to + 1),
         \A i \in from+1..to : v[i] = w[i + 1]
  PROVE  Holds(b, v, from, to)
<1>1. ASSUME NEW i \in 0..kSize-1
      PROVE  b.list[Wrap(b.bottom + i)] =
               IF i < to - from THEN v[from + i + 1] ELSE Undefined
  <2>1. b.list[Wrap(b.bottom + i)] =
          IF i < (to + 1) - (from + 1) THEN w[(from + 1) + i + 1] ELSE Undefined
    BY DEF Holds
  <2>2. i < to - from => from + i + 1 \in from+1..to
    OBVIOUS
  <2>3. i < to - from => v[from + i + 1] = w[(from + i + 1) + 1]
    BY <2>2
  <2>4. (from + i + 1) + 1 = (from + 1) + i + 1 /\ (to + 1) - (from + 1) = to - from
    OBVIOUS
  <2>5. QED
    BY <2>1, <2>3, <2>4
<1>2. (to + 1) - (from + 1) = to - from
  OBVIOUS
<1>3. QED
  BY <1>1, <1>2 DEF Holds

LEMMA HoldsMore ==
  ASSUME NEW b \in Buffers, NEW w \in Seq(Requests), NEW v \in Seq(Requests),
         NEW from \in Nat, NEW to \in Nat, Holds(b, w, from, to),
         \A i \in from+1..to : v[i] = w[i]
  PROVE  Holds(b, v, from, to)
<1>1. ASSUME NEW i \in 0..kSize-1
      PROVE  i < to - from => v[from + i + 1] = w[from + i + 1]
  <2>1. i < to - from => from + i + 1 \in from+1..to
    OBVIOUS
  <2>2. QED
    BY <2>1
<1>2. QED
  BY <1>1 DEF Holds

\* shift() of a buffer that is not empty.
LEMMA RestHolds ==
  ASSUME NEW b \in Buffers, NEW w \in Seq(Requests), NEW to \in 1..Len(w),
         Holds(b, w, 0, to)
  PROVE  /\ BufferRest(b) \in Buffers
         /\ Holds(BufferRest(b), Tail(w), 0, to - 1)
<1> USE SizeAssumption
<1> DEFINE c == BufferRest(b)
           v == Tail(w)
<1>0. /\ Len(w) \in Nat /\ w # <<>> /\ v \in Seq(Requests)
      /\ \A i \in 1..Len(w)-1 : v[i] = w[i + 1]
      /\ to \in 1..kSize-1 /\ w[1] \in Requests
  BY LenProperties, HeadTailProperties, ElementOfSeq DEF Holds
<1>1. /\ b.bottom \in 0..kSize-1 /\ b.top = Wrap(b.bottom + to)
      /\ b.list \in [0..kSize-1 -> Requests \cup {Undefined}]
  BY <1>0 DEF Buffers, Holds
<1>2. BufferFirst(b) = w[1] /\ w[1] # Undefined
  BY <1>0, IsEmptyMeans, EmptyAssumption
<1>3. /\ c \in Buffers
      /\ c.bottom = NextSlot(b.bottom) /\ c.top = b.top
      /\ c.list = [b.list EXCEPT ![b.bottom] = Undefined]
  <2>1. NextSlot(b.bottom) \in 0..kSize-1
    BY <1>1, WrapIsSlot
  <2>2. c = [b EXCEPT !.list[b.bottom] = Undefined, !.bottom = NextSlot(@)]
    BY <1>2 DEF BufferRest
  <2>3. QED
    BY <1>1, <2>1, <2>2 DEF Buffers
<1>4. c.top = Wrap(c.bottom + (to - 1))
  <2>1. to - 1 \in 0..kSize-2 /\ (to - 1) + 1 = to
    BY <1>0
  <2>2. Wrap(NextSlot(b.bottom) + (to - 1)) = Wrap(b.bottom + ((to - 1) + 1))
    BY <1>1, <2>1, WrapIsSlot
  <2>3. QED
    BY <1>1, <1>3, <2>1, <2>2
<1>5. ASSUME NEW i \in 0..kSize-1
      PROVE  c.list[Wrap(c.bottom + i)] = IF i < to - 1 THEN v[0 + i + 1] ELSE Undefined
  <2>1. CASE i = kSize - 1
    <3>1. Wrap(c.bottom + i) = b.bottom
      BY <1>1, <1>3, <2>1, WrapIsSlot
    <3>2. QED
      BY <1>0, <1>1, <1>3, <2>1, <3>1
  <2>2. CASE i \in 0..kSize-2
    <3>1. Wrap(c.bottom + i) = Wrap(b.bottom + (i + 1)) /\ i + 1 \in 0..kSize-1
      <4>1. b.bottom \in 0..kSize-1 /\ c.bottom = NextSlot(b.bottom)
        BY <1>1, <1>3
      <4>2. Wrap(NextSlot(b.bottom) + i) = Wrap(b.bottom + (i + 1)) /\ i + 1 \in 0..kSize-1
        BY ONLY <2>2, <4>1, WrapNext
      <4>3. QED
        BY ONLY <4>1, <4>2
    <3>2. Wrap(b.bottom + (i + 1)) \in 0..kSize-1 /\ Wrap(b.bottom + (i + 1)) # b.bottom
      BY <1>1, <3>1 DEF Wrap
    <3>3. b.list[Wrap(b.bottom + (i + 1))] =
            IF i + 1 < to - 0 THEN w[0 + (i + 1) + 1] ELSE Undefined
      BY <3>1 DEF Holds
    <3>4. i < to - 1 => v[i + 1] = w[(i + 1) + 1]
      BY <1>0
    <3>5. QED
      BY <1>0, <1>3, <3>1, <3>2, <3>3, <3>4
  <2>3. QED
    BY <2>1, <2>2
<1>6. QED
  BY <1>0, <1>3, <1>4, <1>5 DEF Holds

----------------------------------------------------------------------------
(* The chain of buffers.                                                    *)

LEMMA OneOrMore ==
  ASSUME NEW n \in Nat, n >= 1
  PROVE  n = 1 \/ n > 1
OBVIOUS

LEMMA QueueMeans ==
  ASSUME NEW q \in Queues
  PROVE  /\ q \in Seq(Buffers) /\ Len(q) \in Nat /\ Len(q) >= 1 /\ DOMAIN q = 1..Len(q)
         /\ \A k \in 1..Len(q) : q[k] \in Buffers
         /\ Last(q) = q[Len(q)]
BY LenProperties, ElementOfSeq, EmptySeq DEF Queues, Last

\* What shift() returns, and isEmpty().
LEMMA FirstIsOldest ==
  ASSUME NEW q \in Queues, NEW w \in Seq(Requests), HoldsInOrder(q, w)
  PROVE  /\ First(q) = (IF w = <<>> THEN Undefined ELSE Head(w))
         /\ IsEmpty(q) <=> w = <<>>
<1>1. PICK s \in [1..Len(q)+1 -> Nat] : Layout(q, w, s)
  BY DEF HoldsInOrder
<1>2. Len(w) \in Nat /\ (w = <<>> <=> Len(w) = 0)
  BY LenProperties, EmptySeq
<1>3. /\ q \in Seq(Buffers) /\ Len(q) \in Nat /\ Len(q) >= 1
      /\ q[1] \in Buffers /\ Last(q) = q[Len(q)] /\ Last(q) \in Buffers
  BY QueueMeans
<1>4. /\ s[1] = 0 /\ s[2] \in Nat /\ Holds(q[1], w, 0, s[2])
      /\ Len(q) = 1 => s[2] = Len(w)
      /\ s[Len(q)] \in Nat /\ s[Len(q) + 1] = Len(w)
      /\ Holds(Last(q), w, s[Len(q)], Len(w))
      /\ Len(q) > 1 => s[Len(q)] < Len(w) /\ 0 < s[2] /\ s[2] <= Len(w)
  BY <1>1, <1>3 DEF Layout
<1>5. /\ 0 < s[2] => First(q) = w[0 + 1]
      /\ 0 = s[2] => First(q) = Undefined
  BY <1>3, <1>4, IsEmptyMeans DEF First
<1>6. BufferIsEmpty(Last(q)) <=> s[Len(q)] = Len(w)
  BY <1>2, <1>3, <1>4, IsEmptyMeans
<1>7. IsEmpty(q) <=> w = <<>>
  <2>1. CASE Len(q) = 1
    BY <1>2, <1>4, <1>6, <2>1 DEF IsEmpty
  <2>2. CASE Len(q) > 1
    BY <1>2, <1>4, <1>6, <2>2 DEF IsEmpty
  <2>3. Len(q) = 1 \/ Len(q) > 1
    BY <1>3, OneOrMore, Zenon
  <2>4. QED
    BY <2>1, <2>2, <2>3
<1>8. First(q) = IF w = <<>> THEN Undefined ELSE Head(w)
  <2>1. w # <<>> => Head(w) = w[1]
    BY HeadTailProperties
  <2>2. s[2] = 0 <=> w = <<>>
    BY <1>2, <1>3, <1>4
  <2>3. QED
    BY <1>4, <1>5, <2>1, <2>2
<1>9. QED
  BY <1>7, <1>8

LEMMA PushInOrder ==
  ASSUME NEW q \in Queues, NEW w \in Seq(Requests), NEW x \in Requests, HoldsInOrder(q, w)
  PROVE  Push(q, x) \in Queues /\ HoldsInOrder(Push(q, x), Append(w, x))
<1> DEFINE n == Len(q)
           v == Append(w, x)
<1>1. PICK s \in [1..n+1 -> Nat] : Layout(q, w, s)
  BY DEF HoldsInOrder
<1>2. /\ Len(w) \in Nat /\ v \in Seq(Requests) /\ Len(v) = Len(w) + 1
      /\ \A i \in 1..Len(w) : v[i] = w[i]
      /\ v # <<>>
  BY LenProperties, AppendProperties
<1>3. /\ n \in Nat /\ n >= 1 /\ Last(q) = q[n] /\ q \in Seq(Buffers)
      /\ \A k \in 1..n : q[k] \in Buffers
  BY QueueMeans
<1>4. /\ s[1] = 0 /\ s[n + 1] = Len(w)
      /\ \A k \in 1..n : /\ Holds(q[k], w, s[k], s[k + 1])
                         /\ s[k] \in Nat /\ s[k + 1] \in Nat /\ s[k + 1] <= Len(w)
      /\ \A j, k \in 1..n+1 : j <= k => s[j] <= s[k]
      /\ n > 1 => \A k \in 1..n : s[k] < s[k + 1]
  BY <1>1, <1>3 DEF Layout
<1>5. \A k \in 1..n : Holds(q[k], v, s[k], s[k + 1])
  <2>1. TAKE k \in 1..n
  <2>2. /\ q[k] \in Buffers /\ s[k] \in Nat /\ s[k + 1] \in Nat
        /\ Holds(q[k], w, s[k], s[k + 1])
        /\ \A i \in s[k]+1..s[k+1] : v[i] = w[i]
    BY <1>2, <1>3, <1>4
  <2>3. QED
    BY <1>2, <2>2, HoldsMore
<1>6. CASE ~BufferIsFull(Last(q))
  <2> DEFINE b == BufferPush(q[n], x)
             t == [s EXCEPT ![n + 1] = Len(v)]
  <2>1. b \in Buffers /\ Holds(b, v, s[n], Len(v))
    <3>1. Holds(q[n], w, s[n], Len(w)) /\ ~BufferIsFull(q[n]) /\ q[n] \in Buffers /\ s[n] \in Nat
      BY <1>3, <1>4, <1>6
    <3>2. QED
      BY <1>2, <3>1, PushHolds
  <2>2. Push(q, x) = [q EXCEPT ![n] = b]
    BY <1>3, <1>6 DEF Push
  <2>3. /\ Push(q, x) \in Seq(Buffers) /\ Len(Push(q, x)) = n /\ Push(q, x) # <<>>
        /\ \A k \in 1..n : Push(q, x)[k] = IF k = n THEN b ELSE q[k]
    <3> HIDE DEF b
    <3>1. QED
      BY <1>3, <2>1, <2>2, ExceptSeq, EmptySeq
  <2>4. /\ t \in [1..n+1 -> Nat]
        /\ \A k \in 1..n : t[k] = s[k] /\ t[k + 1] = IF k = n THEN Len(v) ELSE s[k + 1]
        /\ t[1] = 0 /\ t[n + 1] = Len(v)
    BY <1>2, <1>3, <1>4
  <2>5. \A k \in 1..n : Holds(Push(q, x)[k], v, t[k], t[k + 1])
    <3> HIDE DEF b, t, v
    <3>1. QED
      BY <1>5, <2>1, <2>3, <2>4
  <2>6. \A j, k \in 1..n+1 : j <= k => t[j] <= t[k]
    BY <1>1, <1>2, <1>3, <1>4, SMTT(30)
  <2>7. n > 1 => \A k \in 1..n : t[k] < t[k + 1]
    <3> HIDE DEF t, v
    <3>1. QED
      BY <1>2, <1>3, <1>4, <2>4
  <2>8. Layout(Push(q, x), v, t)
    <3> HIDE DEF t, v
    <3>1. QED
      BY <2>3, <2>4, <2>5, <2>6, <2>7 DEF Layout
  <2>9. QED
    BY <2>3, <2>4, <2>8 DEF HoldsInOrder, Queues
<1>7. CASE BufferIsFull(Last(q))
  <2> DEFINE b == BufferPush(EmptyBuffer, x)
             t == [k \in 1..n+2 |-> IF k = n + 2 THEN Len(v) ELSE s[k]]
  <2>1. b \in Buffers /\ Holds(b, v, Len(w), Len(v))
    <3>1. ~BufferIsFull(EmptyBuffer)
      BY SizeAssumption DEF EmptyBuffer, BufferIsFull, NextSlot
    <3>2. QED
      BY <1>2, <3>1, EmptyHolds, PushHolds
  <2>2. Push(q, x) = Append(q, b)
    BY <1>7 DEF Push
  <2>3. /\ Push(q, x) \in Seq(Buffers) /\ Len(Push(q, x)) = n + 1 /\ Push(q, x) # <<>>
        /\ \A k \in 1..n : Push(q, x)[k] = q[k]
        /\ Push(q, x)[n + 1] = b
    <3> HIDE DEF b
    <3>1. QED
      BY <1>3, <2>1, <2>2, AppendProperties, EmptySeq
  <2>4. /\ t \in [1..(n+1)+1 -> Nat]
        /\ \A k \in 1..n : t[k] = s[k] /\ t[k + 1] = s[k + 1]
        /\ t[1] = 0 /\ t[n + 1] = Len(w) /\ t[(n + 1) + 1] = Len(v)
    BY <1>1, <1>2, <1>3, <1>4
  <2>5. s[n] < s[n + 1]
    <3>1. /\ q[n] \in Buffers /\ s[n] \in Nat /\ s[n + 1] \in Nat
          /\ Holds(q[n], w, s[n], s[n + 1]) /\ BufferIsFull(q[n])
      BY <1>3, <1>4, <1>7
    <3>2. s[n + 1] - s[n] = kSize - 1
      BY <3>1, IsEmptyMeans
    <3>3. QED
      BY <3>1, <3>2, SizeAssumption
  <2>6. \A k \in 1..n+1 : Holds(Push(q, x)[k], v, t[k], t[k + 1])
    <3> HIDE DEF b, t, v
    <3>1. TAKE k \in 1..n+1
    <3>2. CASE k = n + 1
      BY <1>3, <2>1, <2>3, <2>4, <3>2
    <3>3. CASE k # n + 1
      <4>1. k \in 1..n
        BY <1>3, <3>3
      <4>2. QED
        BY <1>5, <2>3, <2>4, <4>1
    <3>4. QED
      BY <3>2, <3>3
  <2>7. \A j, k \in 1..(n+1)+1 : j <= k => t[j] <= t[k]
    <3>1. TAKE j, k \in 1..(n+1)+1
    <3>2. CASE k = n + 2 /\ j # n + 2
      <4>1. s[j] <= Len(w) /\ s[j] \in Nat
        BY <1>1, <1>3, <1>4, <3>2
      <4>2. t[j] = s[j] /\ t[k] = Len(w) + 1
        BY <1>2, <1>3, <3>2
      <4>3. QED
        BY <1>2, <4>1, <4>2
    <3>3. CASE k = n + 2 /\ j = n + 2
      BY <1>2, <1>3, <3>3
    <3>4. CASE k # n + 2
      BY <1>1, <1>3, <1>4, <3>4
    <3>5. QED
      BY <3>2, <3>3, <3>4
  <2>8. \A k \in 1..n+1 : t[k] < t[k + 1]
    <3> HIDE DEF t, v
    <3>1. \A k \in 1..n : s[k] < s[k + 1]
      BY <1>3, <1>4, <2>5
    <3>2. QED
      BY <1>2, <1>3, <2>4, <3>1, SMTT(30)
  <2>9. Layout(Push(q, x), v, t)
    <3> HIDE DEF t, v
    <3>1. QED
      BY <1>3, <2>3, <2>4, <2>6, <2>7, <2>8 DEF Layout
  <2>10. QED
    BY <2>3, <2>4, <2>9 DEF HoldsInOrder, Queues
<1>8. QED
  BY <1>6, <1>7

\* shift() of a queue that holds something.
LEMMA RestInOrder ==
  ASSUME NEW q \in Queues, NEW w \in Seq(Requests), HoldsInOrder(q, w), w # <<>>
  PROVE  Rest(q) \in Queues /\ HoldsInOrder(Rest(q), Tail(w))
<1> DEFINE n == Len(q)
           v == Tail(w)
           b == BufferRest(q[1])
<1>1. PICK s \in [1..n+1 -> Nat] : Layout(q, w, s)
  BY DEF HoldsInOrder
<1>2. /\ Len(w) \in Nat /\ Len(w) >= 1 /\ v \in Seq(Requests) /\ Len(v) = Len(w) - 1
      /\ \A i \in 1..Len(w)-1 : v[i] = w[i + 1]
  BY LenProperties, EmptySeq, HeadTailProperties
<1>3. /\ n \in Nat /\ n >= 1 /\ q \in Seq(Buffers) /\ q # <<>>
      /\ \A k \in 1..n : q[k] \in Buffers
  BY QueueMeans, EmptySeq
<1>4. /\ s[1] = 0 /\ s[n + 1] = Len(w)
      /\ \A k \in 1..n : /\ Holds(q[k], w, s[k], s[k + 1])
                         /\ s[k] \in Nat /\ s[k + 1] \in Nat /\ s[k + 1] <= Len(w)
      /\ \A j, k \in 1..n+1 : j <= k => s[j] <= s[k]
      /\ n > 1 => \A k \in 1..n : s[k] < s[k + 1]
  BY <1>1, <1>3 DEF Layout
<1>a. n \in Nat /\ n >= 1
  BY <1>3
<1>b. \A j, k \in 1..n+1 : j <= k => s[j] <= s[k]
  BY <1>4
<1>c. \A k \in 1..n+1 : s[k] \in Nat
  BY <1>1
<1>5. /\ s[2] \in 1..Len(w)
      /\ \A k \in 2..n+1 : s[k] \in Nat /\ s[k] >= s[2]
  <2>1. n = 1 => s[2] = Len(w)
    BY <1>4
  <2>2. n > 1 => 0 < s[2] /\ s[2] <= Len(w)
    BY <1>3, <1>4
  <2>3. \A k \in 2..n+1 : s[k] \in Nat /\ s[2] <= s[k]
    BY <1>1, <1>3, <1>4
  <2>4. QED
    <3>1. 2 \in 1..n+1 /\ s[2] \in Nat
      BY <1>a, <1>c
    <3>2. CASE n = 1
      BY <1>2, <2>1, <2>3, <3>1, <3>2
    <3>3. CASE n > 1
      BY <1>2, <2>2, <2>3, <3>1, <3>3
    <3>4. QED
      BY <1>a, <3>2, <3>3, OneOrMore, Zenon
<1>6. /\ b \in Buffers /\ Holds(b, v, 0, s[2] - 1)
      /\ BufferIsEmpty(b) <=> s[2] = 1
  <2>1. q[1] \in Buffers /\ Holds(q[1], w, 0, s[2])
    BY <1>3, <1>4
  <2>2. b \in Buffers /\ Holds(b, v, 0, s[2] - 1)
    BY <1>2, <1>5, <2>1, RestHolds
  <2>3. BufferIsEmpty(b) <=> 0 = s[2] - 1
    <3> HIDE DEF b
    <3>1. PICK to \in Nat : to = s[2] - 1
      BY <1>5
    <3>2. Holds(b, v, 0, to)
      BY <2>2, <3>1
    <3>3. BufferIsEmpty(b) <=> 0 = to
      BY <1>2, <2>2, <3>2, IsEmptyMeans
    <3>4. QED
      BY <3>1, <3>3
  <2>4. QED
    BY <1>5, <2>2, <2>3 DEF BufferIsEmpty
<1>7. \A k \in 2..n : Holds(q[k], v, s[k] - 1, s[k + 1] - 1)
  <2>1. TAKE k \in 2..n
  <2>2. /\ q[k] \in Buffers /\ s[k] \in Nat /\ s[k] >= 1 /\ s[k + 1] \in Nat
        /\ s[k + 1] <= Len(w) /\ Holds(q[k], w, s[k], s[k + 1])
    BY <1>3, <1>4, <1>5
  <2>3. s[k + 1] >= 1
    BY <1>1, <1>3, <1>4, <2>2
  <2>4. PICK from \in Nat, to \in Nat : s[k] = from + 1 /\ s[k + 1] = to + 1
    <3>1. s[k] - 1 \in Nat /\ s[k + 1] - 1 \in Nat
      BY <2>2, <2>3
    <3>2. s[k] = (s[k] - 1) + 1 /\ s[k + 1] = (s[k + 1] - 1) + 1
      BY <2>2
    <3> USE <3>1
    <3>3. WITNESS s[k] - 1 \in Nat, s[k + 1] - 1 \in Nat
    <3>4. QED
      BY <3>2
  <2>5. \A i \in from+1..to : v[i] = w[i + 1]
    <3>1. to <= Len(w) - 1
      BY <1>2, <2>2, <2>4
    <3>2. QED
      BY <1>2, <3>1
  <2>6. Holds(q[k], v, from, to)
    <3> HIDE DEF v
    <3>1. QED
      BY <1>2, <2>2, <2>4, <2>5, HoldsLess
  <2>7. from = s[k] - 1 /\ to = s[k + 1] - 1
    BY <2>4
  <2>8. QED
    BY <2>6, <2>7
<1>8. CASE BufferIsEmpty(b) /\ n > 1
  <2> DEFINE t == [k \in 1..n |-> s[k + 1] - 1]
  <2>1. Rest(q) = Tail(q)
    BY <1>8 DEF Rest
  <2>2. /\ Rest(q) \in Seq(Buffers) /\ Len(Rest(q)) = n - 1 /\ Rest(q) # <<>>
        /\ \A k \in 1..n-1 : Rest(q)[k] = q[k + 1]
    <3>1. n > 1
      BY <1>8
    <3> HIDE DEF b
    <3>2. QED
      BY <1>3, <2>1, <3>1, HeadTailProperties, EmptySeq, SMTT(30)
  <2>3. /\ t \in [1..(n-1)+1 -> Nat]
        /\ t[1] = 0 /\ t[(n - 1) + 1] = Len(v)
        /\ \A k \in 1..n-1 : t[k] = s[k + 1] - 1 /\ t[k + 1] = s[(k + 1) + 1] - 1
    <3>1. n > 1 /\ s[2] = 1
      BY <1>6, <1>8
    <3>2. \A k \in 1..n : s[k + 1] - 1 \in Nat
      <4>1. TAKE k \in 1..n
      <4>2. k + 1 \in 2..n+1
        BY <1>a
      <4>3. s[k + 1] \in Nat /\ s[k + 1] >= s[2] /\ s[2] \in Nat /\ s[2] >= 1
        BY <1>5, <4>2
      <4>4. QED
        BY <4>3
    <3> HIDE DEF b, v
    <3>3. QED
      BY <1>2, <1>3, <1>4, <3>1, <3>2, SMTT(30)
  <2>4. \A k \in 1..n-1 : Holds(Rest(q)[k], v, t[k], t[k + 1])
    <3> HIDE DEF t, v
    <3>1. TAKE k \in 1..n-1
    <3>2. k + 1 \in 2..n
      BY <1>3
    <3>3. Holds(q[k + 1], v, s[k + 1] - 1, s[(k + 1) + 1] - 1)
      BY <1>7, <3>2
    <3>4. QED
      BY <2>2, <2>3, <3>3
  <2>5. \A j, k \in 1..(n-1)+1 : j <= k => t[j] <= t[k]
    <3>1. TAKE j, k \in 1..(n-1)+1
    <3>2. j + 1 \in 1..n+1 /\ k + 1 \in 1..n+1 /\ t[j] = s[j + 1] - 1 /\ t[k] = s[k + 1] - 1
      BY <1>3
    <3>3. j <= k => s[j + 1] <= s[k + 1]
      BY <1>b, <3>2
    <3>4. s[j + 1] \in Nat /\ s[k + 1] \in Nat
      BY <1>1, <3>2
    <3>5. QED
      BY <3>2, <3>3, <3>4
  <2>6. \A k \in 1..n-1 : t[k] < t[k + 1]
    <3>1. TAKE k \in 1..n-1
    <3>2. k + 1 \in 1..n /\ n > 1 /\ (k + 1) + 1 \in 1..n+1
      BY <1>3
    <3>3. s[k + 1] < s[(k + 1) + 1] /\ s[k + 1] \in Nat /\ s[(k + 1) + 1] \in Nat
      BY <1>1, <1>4, <3>2
    <3> HIDE DEF t
    <3>4. QED
      BY <2>3, <3>3
  <2>7. Layout(Rest(q), v, t)
    <3> HIDE DEF t, v
    <3>1. QED
      BY <1>3, <2>2, <2>3, <2>4, <2>5, <2>6 DEF Layout
  <2>8. QED
    BY <2>2, <2>3, <2>7 DEF HoldsInOrder, Queues
<1>9. CASE ~(BufferIsEmpty(b) /\ n > 1)
  <2> DEFINE t == [k \in 1..n+1 |-> IF k = 1 THEN 0 ELSE s[k] - 1]
  <2>1. Rest(q) = <<b>> \o Tail(q)
    BY <1>9 DEF Rest
  <2>2. /\ Rest(q) \in Seq(Buffers) /\ Len(Rest(q)) = n /\ Rest(q) # <<>>
        /\ Rest(q)[1] = b
        /\ \A k \in 2..n : Rest(q)[k] = q[k]
    <3> HIDE DEF b
    <3>1. /\ Tail(q) \in Seq(Buffers) /\ Len(Tail(q)) = n - 1
          /\ \A k \in 1..n-1 : Tail(q)[k] = q[k + 1]
      BY <1>3, HeadTailProperties
    <3>2. <<b>> \in Seq(Buffers) /\ Len(<<b>>) = 1 /\ <<b>>[1] = b
      BY <1>6
    <3>3. /\ Rest(q) \in Seq(Buffers) /\ Len(Rest(q)) = n
          /\ \A k \in 1..n : Rest(q)[k] = IF k <= 1 THEN <<b>>[k] ELSE Tail(q)[k - 1]
      BY <1>3, <2>1, <3>1, <3>2, ConcatProperties
    <3>4. ASSUME NEW k \in 2..n PROVE Rest(q)[k] = q[k]
      <4>1. k - 1 \in 1..n-1 /\ (k - 1) + 1 = k
        BY <1>3
      <4>2. QED
        BY <3>1, <3>3, <4>1
    <3>5. QED
      BY <1>3, <3>2, <3>3, <3>4, EmptySeq
  <2>3. /\ t \in [1..n+1 -> Nat]
        /\ t[1] = 0 /\ t[n + 1] = Len(v) /\ t[2] = s[2] - 1
        /\ \A k \in 2..n : t[k] = s[k] - 1 /\ t[k + 1] = s[k + 1] - 1
    BY <1>2, <1>3, <1>4, <1>5
  <2>4. \A k \in 1..n : Holds(Rest(q)[k], v, t[k], t[k + 1])
    <3> HIDE DEF t, v, b
    <3>1. TAKE k \in 1..n
    <3>2. CASE k = 1
      BY <1>6, <2>2, <2>3, <3>2
    <3>3. CASE k # 1
      <4>1. k \in 2..n
        BY <1>3, <3>3
      <4>2. QED
        BY <1>7, <2>2, <2>3, <4>1
    <3>4. QED
      BY <3>2, <3>3
  <2>5. \A j, k \in 1..n+1 : j <= k => t[j] <= t[k]
    <3>1. TAKE j, k \in 1..n+1
    <3>2. CASE j = 1
      BY <1>3, <1>5, <3>2
    <3>3. CASE j # 1
      <4>1. s[j] \in Nat /\ s[k] \in Nat /\ (j <= k => s[j] <= s[k])
        BY <1>b, <1>c
      <4>2. j <= k => t[j] = s[j] - 1 /\ t[k] = s[k] - 1
        BY <1>a, <3>3
      <4> HIDE DEF t
      <4>3. QED
        BY <4>1, <4>2
    <3>4. QED
      BY <3>2, <3>3
  <2>6. n > 1 => \A k \in 1..n : t[k] < t[k + 1]
    <3>1. SUFFICES ASSUME n > 1, NEW k \in 1..n PROVE t[k] < t[k + 1]
      OBVIOUS
    <3>2. CASE k = 1
      BY <1>3, <1>5, <1>6, <1>9, <2>3, <3>1, <3>2
    <3>3. CASE k # 1
      <4>1. k \in 2..n
        BY <1>3, <3>3
      <4>2. s[k] < s[k + 1] /\ s[k] \in Nat /\ s[k + 1] \in Nat
        BY <1>4, <3>1
      <4> HIDE DEF t
      <4>3. QED
        BY <2>3, <4>1, <4>2
    <3>4. QED
      BY <3>2, <3>3
  <2>7. Layout(Rest(q), v, t)
    <3> HIDE DEF t, v
    <3>1. QED
      BY <2>2, <2>3, <2>4, <2>5, <2>6 DEF Layout
  <2>8. QED
    BY <2>2, <2>3, <2>7 DEF HoldsInOrder, Queues
<1>10. QED
  BY <1>8, <1>9

\* A queue that was shifted until it is empty, and a new one.
LEMMA EmptyInOrder ==
  ASSUME NEW b \in Buffers, b.top = b.bottom, \A i \in 0..kSize-1 : b.list[i] = Undefined
  PROVE  <<b>> \in Queues /\ HoldsInOrder(<<b>>, <<>>)
<1>1. <<b>> \in Seq(Buffers) /\ Len(<<b>>) = 1 /\ <<b>>[1] = b /\ <<b>> # <<>>
  OBVIOUS
<1>2. b.bottom \in 0..kSize-1
  BY DEF Buffers
<1>3. Holds(b, <<>>, 0, 0)
  <2>1. \A i \in 0..kSize-1 : Wrap(b.bottom + i) \in 0..kSize-1
    BY <1>2, WrapInjective
  <2>2. b.top = Wrap(b.bottom + (0 - 0))
    BY <1>2, SizeAssumption DEF Wrap
  <2>3. QED
    BY <2>1, <2>2, SizeAssumption, SMTT(30) DEF Holds
<1> DEFINE s == [k \in 1..2 |-> 0]
<1>4. s \in [1..1+1 -> Nat] /\ s[1] = 0 /\ s[1 + 1] = 0 /\ Len(<<>>) = 0
  OBVIOUS
<1>5. Layout(<<b>>, <<>>, s)
  <2>1. \A j, k \in 1..1+1 : j <= k => s[j] <= s[k]
    OBVIOUS
  <2>2. \A k \in 1..1 : Holds(<<b>>[k], <<>>, s[k], s[k + 1])
    <3> HIDE DEF s
    <3>1. QED
      BY <1>1, <1>3, <1>4
  <2> HIDE DEF s
  <2>3. QED
    BY <1>1, <1>4, <2>1, <2>2 DEF Layout
<1>6. QED
  BY <1>1, <1>4, <1>5 DEF HoldsInOrder, Queues

LEMMA DrainedInOrder ==
  ASSUME NEW q \in Queues
  PROVE  Drained(q) \in Queues /\ HoldsInOrder(Drained(q), <<>>)
<1>1. Last(q) \in Buffers
  BY QueueMeans
<1>2. ASSUME NEW b \in Buffers
      PROVE  LET c == [EmptyBuffer EXCEPT !.bottom = b.top, !.top = b.top]
             IN c \in Buffers /\ c.top = c.bottom /\ \A i \in 0..kSize-1 : c.list[i] = Undefined
  BY SizeAssumption DEF Buffers, EmptyBuffer
<1>3. QED
  BY <1>1, <1>2, EmptyInOrder DEF Drained

LEMMA NewInOrder == EmptyQueue \in Queues /\ HoldsInOrder(EmptyQueue, <<>>)
<1>1. /\ EmptyBuffer \in Buffers /\ EmptyBuffer.top = EmptyBuffer.bottom
      /\ \A i \in 0..kSize-1 : EmptyBuffer.list[i] = Undefined
  BY SizeAssumption DEF Buffers, EmptyBuffer
<1>2. QED
  BY <1>1, EmptyInOrder DEF EmptyQueue

----------------------------------------------------------------------------
(* The pool.                                                                *)

IInv ==
  /\ kind \in Kinds /\ dispatched \in Nat /\ queued \in Int
  /\ waiting \in Seq(Requests) /\ queue \in Queues
  /\ HoldsInOrder(queue, waiting)
  /\ destroyed \/ queued = Len(waiting)

\* What a step may do to the queue: nothing, push() of the request that was
\* dispatched, shift() of one item, or of all when the pool is destroyed.
Keeps == UNCHANGED <<queueVars, destroyed>>

Pushes ==
  /\ dispatched < kind.requests /\ Enqueue(dispatched + 1)
  /\ destroyed' = destroyed

Shifts ==
  /\ First(queue) # Undefined \/ ~IsEmpty(queue)
  /\ queue' = Rest(queue) /\ queued' = queued - 1 /\ waiting' = Tail(waiting)
  /\ destroyed' = destroyed

Drains ==
  queue' = Drained(queue) /\ waiting' = <<>> /\ queued' = queued /\ destroyed' = TRUE

QueueStep ==
  /\ kind' = kind
  /\ dispatched' = dispatched \/ dispatched' = dispatched + 1
  /\ Keeps \/ Pushes \/ Shifts \/ Drains

LEMMA StepsOfUsers ==
  ASSUME Dispatch \/ Close \/ Destroy \/ AddUpstream \/ RemoveUpstream
  PROVE  QueueStep
<1> USE DEF QueueStep, Keeps, queueVars, lifeVars
<1>1. ASSUME Dispatch PROVE QueueStep
  BY <1>1 DEF Dispatch, Pushes
<1>2. ASSUME Close PROVE QueueStep
  BY <1>2 DEF Close
<1>3. ASSUME Destroy PROVE QueueStep
  BY <1>3 DEF Destroy, DestroyAll, Drains
<1>4. ASSUME AddUpstream \/ RemoveUpstream PROVE QueueStep
  BY <1>4 DEF AddUpstream, RemoveUpstream
<1>5. QED
  BY <1>1, <1>2, <1>3, <1>4

LEMMA StepsOfStack == ASSUME StackStep PROVE QueueStep
<1> USE DEF QueueStep, Keeps, queueVars, lifeVars
<1>1. ASSUME DispatchFree \/ DispatchBusy \/ OnDrainFree \/ OnDrainBusy
             \/ DrainQueueFree \/ DrainQueueBusy
      PROVE  QueueStep
  BY <1>1 DEF DispatchFree, DispatchBusy, OnDrainFree, OnDrainBusy,
              DrainQueueFree, DrainQueueBusy
<1>2. ASSUME DrainLoop PROVE QueueStep
  BY <1>2 DEF DrainLoop, HandOver, Shifts
<1>3. ASSUME QueueLoop PROVE QueueStep
  BY <1>3 DEF QueueLoop, HandOver, Shifts
<1>4. ASSUME CheckClosed PROVE QueueStep
  BY <1>4 DEF CheckClosed
<1>5. QED
  BY <1>1, <1>2, <1>3, <1>4 DEF StackStep

LEMMA StepsOfClients ==
  ASSUME NEW c \in Ids, ClientStep(c) \/ ClientFault(c)
  PROVE  QueueStep
<1> USE DEF QueueStep, Keeps, queueVars, lifeVars
<1>1. ASSUME ClientDrains(c) \/ Connects(c) \/ Redials(c) \/ ClientEnds(c) \/ ClientGone(c)
      PROVE  QueueStep
  BY <1>1 DEF ClientDrains, Connects, Redials, ClientEnds, ClientGone
<1>2. ASSUME NEW r \in Requests, Completes(c, r) PROVE QueueStep
  BY <1>2 DEF Completes
<1>3. ASSUME ClientFault(c) PROVE QueueStep
  BY <1>3 DEF ClientFault, ConnectFails, Disconnects, Expires
<1>4. QED
  BY <1>1, <1>2, <1>3 DEF ClientStep

LEMMA NextIsQueueStep == ASSUME [Next]_vars PROVE QueueStep
<1>1. ASSUME Microtask PROVE QueueStep
  BY <1>1 DEF Microtask, QueueStep, Keeps, queueVars, lifeVars
<1>2. ASSUME ClientsClosed PROVE QueueStep
  BY <1>2 DEF ClientsClosed, DestroyAll, QueueStep, Keeps, Drains, queueVars, lifeVars
<1>3. ASSUME UNCHANGED vars PROVE QueueStep
  BY <1>3 DEF vars, QueueStep, Keeps, queueVars, lifeVars
<1>4. QED
  BY <1>1, <1>2, <1>3, StepsOfUsers, StepsOfStack, StepsOfClients DEF Next, Progress

LEMMA RequestNumbers ==
  ASSUME kind \in Kinds, dispatched \in Nat, dispatched < kind.requests
  PROVE  dispatched + 1 \in Requests
<1>1. PICK n \in Nat : Requests = 1..n
  BY RequestAssumption, FS_CardinalityType
<1>2. kind.requests \in Requests \cup {0}
  BY KindAssumption
<1>3. QED
  BY <1>1, <1>2

LEMMA InitIInv == Init => IInv
<1> SUFFICES ASSUME Init PROVE IInv
  OBVIOUS
<1>1. EmptyQueue \in Queues /\ HoldsInOrder(EmptyQueue, <<>>)
  BY NewInOrder
<1>2. <<>> \in Seq(Requests) /\ Len(<<>>) = 0
  OBVIOUS
<1>3. QED
  BY <1>1, <1>2 DEF Init, IInv

LEMMA NextIInv == ASSUME IInv, [Next]_vars PROVE IInv'
<1>0. QueueStep
  BY NextIsQueueStep
<1>1. kind' \in Kinds /\ dispatched' \in Nat
  BY <1>0 DEF IInv, QueueStep
<1>2. CASE Keeps
  BY <1>1, <1>2 DEF IInv, Keeps, queueVars
<1>3. CASE Pushes
  <2>1. dispatched + 1 \in Requests
    BY <1>3, RequestNumbers DEF IInv, Pushes
  <2>2. /\ queue' = Push(queue, dispatched + 1) /\ queued' = queued + 1
        /\ waiting' = Append(waiting, dispatched + 1) /\ destroyed' = destroyed
    BY <1>3 DEF Pushes, Enqueue
  <2>3. queue' \in Queues /\ HoldsInOrder(queue', waiting')
    BY <2>1, <2>2, PushInOrder DEF IInv
  <2>4. waiting' \in Seq(Requests) /\ Len(waiting') = Len(waiting) + 1
    BY <2>1, <2>2, AppendProperties DEF IInv
  <2>5. QED
    BY <1>1, <2>2, <2>3, <2>4 DEF IInv
<1>4. CASE Shifts
  <2>1. waiting # <<>>
    BY <1>4, FirstIsOldest DEF IInv, Shifts
  <2>2. /\ queue' = Rest(queue) /\ queued' = queued - 1 /\ waiting' = Tail(waiting)
        /\ destroyed' = destroyed
    BY <1>4 DEF Shifts
  <2>3. queue' \in Queues /\ HoldsInOrder(queue', waiting')
    BY <2>1, <2>2, RestInOrder DEF IInv
  <2>4. waiting' \in Seq(Requests) /\ Len(waiting') = Len(waiting) - 1
    BY <2>1, <2>2, HeadTailProperties DEF IInv
  <2>5. queued' \in Int /\ (destroyed' \/ queued' = Len(waiting'))
    <3>1. Len(waiting) \in Nat /\ queued \in Int /\ (destroyed \/ queued = Len(waiting))
      BY LenProperties DEF IInv
    <3>2. queued' = queued - 1
      BY <2>2
    <3>3. queued' \in Int /\ (queued = Len(waiting) => queued' = Len(waiting'))
      BY <2>4, <3>1, <3>2
    <3>4. QED
      BY <2>2, <3>1, <3>3, Zenon
  <2>6. QED
    BY <1>1, <2>3, <2>4, <2>5 DEF IInv
<1>5. CASE Drains
  <2>1. queue' \in Queues /\ HoldsInOrder(queue', waiting')
    BY <1>5, DrainedInOrder DEF IInv, Drains
  <2>2. <<>> \in Seq(Requests)
    OBVIOUS
  <2>3. QED
    BY <1>1, <1>5, <2>1, <2>2 DEF IInv, Drains
<1>6. QED
  BY <1>0, <1>2, <1>3, <1>4, <1>5 DEF QueueStep

\* kQueue is a FIFO queue of what was pushed and not shifted, for every size of
\* its ring buffers: shift() returns the oldest item, isEmpty() says whether
\* there is one, and kQueued counts them until the pool is destroyed.
THEOREM PoolQueueIsFifo == Spec => []QueueIsFifo
<1>1. Init => IInv
  BY InitIInv
<1>2. IInv /\ [Next]_vars => IInv'
  BY NextIInv
<1>3. IInv => QueueIsFifo
  BY FirstIsOldest DEF IInv, QueueIsFifo
<1>4. QED
  BY <1>1, <1>2, <1>3, PTL DEF Spec

----------------------------------------------------------------------------
(* What sequences and numbers have to do with it.                           *)

LEMMA LeastExists ==
  ASSUME NEW S \in SUBSET Nat, S # {}
  PROVE  \E x \in S : \A y \in S : x <= y
<1>1. PICK x \in S : \A y \in S : ~(<<y, x>> \in OpToRel(<, Nat))
  BY NatLessThanWellFounded, WFMin
<1>2. ASSUME NEW y \in S PROVE x <= y
  <2>1. x \in Nat /\ y \in Nat
    OBVIOUS
  <2>2. ~(y < x)
    BY <1>1, <2>1, Zenon DEF OpToRel
  <2>3. QED
    BY <2>1, <2>2
<1>3. QED
  BY <1>2

LEMMA MinIsLeast ==
  ASSUME NEW S \in SUBSET Nat, S # {}
  PROVE  Min(S) \in S /\ \A y \in S : Min(S) <= y
BY LeastExists DEF Min

\* The recursive function that Without is.
Keeping(s, S, f, m) ==
  f = [n \in 0..m |-> IF n = 0 THEN <<>>
                      ELSE IF s[n] \in S THEN f[n-1] ELSE Append(f[n-1], s[n])]

LEMMA KeepingExists ==
  ASSUME NEW s, NEW S, NEW m \in Nat
  PROVE  \E f : Keeping(s, S, f, m)
<1> DEFINE bad == {k \in Nat : ~ \E f : Keeping(s, S, f, k)}
<1>1. SUFFICES ASSUME bad # {} PROVE FALSE
  OBVIOUS
<1>2. PICK k \in bad : \A y \in bad : k <= y
  BY <1>1, LeastExists
<1>3. k \in Nat /\ ~ \E f : Keeping(s, S, f, k)
  BY <1>2
<1>4. CASE k = 0
  <2> DEFINE f == [n \in 0..0 |-> <<>>]
  <2>1. Keeping(s, S, f, 0)
    BY DEF Keeping
  <2>2. QED
    BY <1>3, <1>4, <2>1
<1>5. CASE k # 0
  <2>1. k - 1 \in Nat /\ k - 1 \notin bad
    BY <1>2, <1>3, <1>5
  <2>2. PICK f : Keeping(s, S, f, k - 1)
    BY <2>1
  <2> DEFINE g == [n \in 0..k |-> IF n < k THEN f[n]
                      ELSE IF s[n] \in S THEN f[n-1] ELSE Append(f[n-1], s[n])]
  <2>3. \A n \in 0..k : g[n] = IF n = 0 THEN <<>>
                      ELSE IF s[n] \in S THEN g[n-1] ELSE Append(g[n-1], s[n])
    <3>1. TAKE n \in 0..k
    <3>2. CASE n = k
      BY <1>3, <1>5, <3>2
    <3>3. CASE n < k
      <4>1. n \in 0..k-1 /\ g[n] = f[n]
        BY <1>3, <3>3
      <4>2. f[n] = IF n = 0 THEN <<>>
                   ELSE IF s[n] \in S THEN f[n-1] ELSE Append(f[n-1], s[n])
        BY <2>2, <4>1 DEF Keeping
      <4>3. n # 0 => n - 1 \in 0..k /\ n - 1 < k
        BY <1>3, <4>1
      <4>4. n # 0 => g[n-1] = f[n-1]
        BY <4>3
      <4> HIDE DEF g
      <4>5. QED
        BY <4>1, <4>2, <4>4
    <3>4. QED
      BY <1>3, <3>2, <3>3
  <2>4. g = [n \in 0..k |-> g[n]]
    OBVIOUS
  <2>5. Keeping(s, S, g, k)
    <3> HIDE DEF g
    <3>1. QED
      BY <2>3, <2>4 DEF Keeping
  <2>6. QED
    BY <1>3, <2>5
<1>6. QED
  BY <1>4, <1>5

LEMMA WithoutMeans ==
  ASSUME NEW T, NEW s \in Seq(T), NEW S
  PROVE  /\ Without(s, S) \in Seq(T)
         /\ \A c : c \in Range(Without(s, S)) <=> c \in Range(s) /\ c \notin S
<1> DEFINE f == CHOOSE f : Keeping(s, S, f, Len(s))
           Fits(n) == /\ f[n] \in Seq(T)
                      /\ \A c : (\E j \in 1..Len(f[n]) : f[n][j] = c)
                                 <=> (c \notin S /\ \E j \in 1..n : s[j] = c)
           bad == {n \in 0..Len(s) : ~Fits(n)}
<1>1. Len(s) \in Nat /\ DOMAIN s = 1..Len(s) /\ \A j \in 1..Len(s) : s[j] \in T
  BY LenProperties, ElementOfSeq
<1>2. Keeping(s, S, f, Len(s))
  BY <1>1, KeepingExists
<1>3. Without(s, S) = f[Len(s)]
  BY DEF Without, Keeping
<1>4. \A n \in 0..Len(s) : f[n] = IF n = 0 THEN <<>>
           ELSE IF s[n] \in S THEN f[n-1] ELSE Append(f[n-1], s[n])
  BY <1>2 DEF Keeping
<1> HIDE DEF f
<1>5. bad = {}
  <2>1. SUFFICES ASSUME bad # {} PROVE FALSE
    OBVIOUS
  <2>2. bad \in SUBSET Nat
    BY <1>1
  <2>3. PICK n \in bad : \A y \in bad : n <= y
    BY <2>1, <2>2, LeastExists
  <2>4. n \in 0..Len(s) /\ ~Fits(n)
    BY <2>3
  <2>5. n # 0
    <3>1. f[0] = <<>>
      BY <1>1, <1>4
    <3>2. Fits(0)
      BY <3>1
    <3> HIDE DEF Fits
    <3>3. QED
      BY <2>4, <3>2
  <2>6. n - 1 \in 0..Len(s) /\ n - 1 < n
    BY <1>1, <2>4, <2>5
  <2>7. Fits(n - 1)
    <3> HIDE DEF Fits
    <3>1. n - 1 \notin bad
      <4>1. ~(n <= n - 1)
        BY <2>4
      <4>2. QED
        BY ONLY <2>3, <4>1
    <3>2. QED
      BY <2>6, <3>1
  <2>8. s[n] \in T
    BY <1>1, <2>4, <2>5
  <2>9. \A c : (\E j \in 1..n : s[j] = c) <=> (c = s[n] \/ \E j \in 1..n-1 : s[j] = c)
    BY <1>1, <2>4, <2>5
  <2>10. CASE s[n] \in S
    <3>1. f[n] = f[n-1]
      BY <1>4, <2>4, <2>5, <2>10
    <3>2. Fits(n)
      BY <2>7, <2>9, <2>10, <3>1
    <3>3. QED
      BY <2>4, <3>2
  <2>11. CASE s[n] \notin S
    <3>1. f[n] = Append(f[n-1], s[n])
      BY <1>4, <2>4, <2>5, <2>11
    <3>2. PICK g : g = f[n-1]
      OBVIOUS
    <3>3. g \in Seq(T) /\ Len(g) \in Nat
      BY <2>7, <3>2, LenProperties
    <3>4. /\ f[n] \in Seq(T) /\ Len(f[n]) = Len(g) + 1
          /\ \A j \in 1..Len(g) : f[n][j] = g[j]
          /\ f[n][Len(g) + 1] = s[n]
      BY <2>8, <3>1, <3>2, <3>3, AppendProperties
    <3>5. \A c : (\E j \in 1..Len(f[n]) : f[n][j] = c)
                  <=> (c = s[n] \/ \E j \in 1..Len(g) : g[j] = c)
      <4> DEFINE m == Len(g)
      <4>1. m \in Nat /\ Len(f[n]) = m + 1 /\ f[n][m + 1] = s[n]
            /\ \A j \in 1..m : f[n][j] = g[j]
        BY <3>3, <3>4
      <4> HIDE DEF m
      <4>2. \A j \in 1..m+1 : j = m + 1 \/ j \in 1..m
        BY <4>1
      <4>3. m + 1 \in 1..m+1 /\ \A j \in 1..m : j \in 1..m+1
        BY <4>1
      <4>4. \A c : (\E j \in 1..m+1 : f[n][j] = c)
                    <=> (c = s[n] \/ \E j \in 1..m : g[j] = c)
        BY ONLY <4>1, <4>2, <4>3
      <4>5. QED
        BY <4>1, <4>4 DEF m
    <3>6. Fits(n)
      BY <2>7, <2>9, <2>11, <3>2, <3>4, <3>5
    <3>7. QED
      BY <2>4, <3>6
  <2>12. QED
    BY <2>10, <2>11
<1>6. Fits(Len(s))
  <2>1. Len(s) \in 0..Len(s)
    BY <1>1
  <2> HIDE DEF Fits
  <2>2. QED
    BY <1>5, <2>1
<1>7. QED
  <2>1. Len(f[Len(s)]) \in Nat /\ DOMAIN f[Len(s)] = 1..Len(f[Len(s)])
    BY <1>6, LenProperties
  <2>2. QED
    BY <1>1, <1>3, <1>6, <2>1 DEF Range
LEMMA RangeOfAppend ==
  ASSUME NEW T, NEW w \in Seq(T), NEW x \in T
  PROVE  Range(Append(w, x)) = Range(w) \cup {x}
<1>1. PICK n \in Nat : n = Len(w)
  BY LenProperties
<1>2. /\ DOMAIN w = 1..n /\ DOMAIN Append(w, x) = 1..n+1
      /\ \A i \in 1..n : Append(w, x)[i] = w[i]
      /\ Append(w, x)[n + 1] = x
  BY <1>1, LenProperties, AppendProperties
<1>3. 1..n+1 = 1..n \cup {n + 1}
  BY <1>1
<1>4. QED
  BY ONLY <1>2, <1>3 DEF Range

LEMMA RangeOfTail ==
  ASSUME NEW T, NEW w \in Seq(T), w # <<>>
  PROVE  Head(w) \in T /\ Range(w) = Range(Tail(w)) \cup {Head(w)}
<1>1. PICK n \in Nat : n = Len(Tail(w))
  BY LenProperties, HeadTailProperties
<1>2. /\ DOMAIN Tail(w) = 1..n /\ DOMAIN w = 1..n+1 /\ Head(w) = w[1] /\ Head(w) \in T
      /\ \A i \in 1..n : Tail(w)[i] = w[i + 1]
  BY <1>1, LenProperties, HeadTailProperties
<1>3. \A j \in 1..n+1 : j = 1 \/ \E i \in 1..n : j = i + 1
  <2>1. TAKE j \in 1..n+1
  <2>2. j # 1 => j - 1 \in 1..n /\ j = (j - 1) + 1
    BY <1>1
  <2>3. QED
    BY <2>2
<1>4. 1 \in 1..n+1 /\ \A i \in 1..n : i + 1 \in 1..n+1
  BY <1>1
<1>5. Range(w) \subseteq Range(Tail(w)) \cup {Head(w)}
  <2>1. ASSUME NEW j \in 1..n+1 PROVE w[j] \in Range(Tail(w)) \cup {Head(w)}
    <3>1. CASE j = 1
      BY <1>2, <3>1
    <3>2. ASSUME NEW i \in 1..n, j = i + 1 PROVE w[j] \in Range(Tail(w))
      <4>1. w[j] = Tail(w)[i] /\ i \in DOMAIN Tail(w)
        BY <1>2, <3>2
      <4>2. QED
        BY <4>1 DEF Range
    <3>3. QED
      BY <1>3, <3>1, <3>2
  <2>2. QED
    BY ONLY <1>2, <2>1 DEF Range
<1>6. Range(Tail(w)) \cup {Head(w)} \subseteq Range(w)
  BY ONLY <1>2, <1>4 DEF Range
<1>7. QED
  BY <1>2, <1>5, <1>6

\* Every item that waits is in a slot of the queue.
LEMMA ItemsInOrder ==
  ASSUME NEW q \in Queues, NEW w \in Seq(Requests), HoldsInOrder(q, w)
  PROVE  Range(w) \subseteq Items(q)
<1>1. PICK s \in [1..Len(q)+1 -> Nat] : Layout(q, w, s)
  BY DEF HoldsInOrder
<1>2. Len(q) \in Nat /\ Len(q) >= 1 /\ DOMAIN q = 1..Len(q)
  BY QueueMeans
<1>3. /\ Len(w) \in Nat /\ DOMAIN w = 1..Len(w)
      /\ \A i \in 1..Len(w) : w[i] \in Requests
  BY LenProperties, ElementOfSeq
<1>4. ASSUME NEW i \in 1..Len(w) PROVE w[i] \in Items(q)
  <2> DEFINE later == {k \in 1..Len(q)+1 : i <= s[k]}
  <2>1. Len(q) + 1 \in later /\ later \in SUBSET Nat
    BY <1>1, <1>2, <1>3 DEF Layout
  <2>2. PICK m \in later : \A k \in later : m <= k
    BY <2>1, LeastExists
  <2>3. m # 1
    BY <1>1, <2>2 DEF Layout
  <2>4. m - 1 \in 1..Len(q) /\ m - 1 \notin later
    <3>1. m \in 1..Len(q)+1
      BY <2>2
    <3>2. m - 1 \in 1..Len(q) /\ m - 1 < m
      BY <1>2, <2>3, <3>1
    <3>3. ~(m <= m - 1)
      BY <3>1
    <3>4. QED
      BY <2>2, <3>2, <3>3
  <2>5. PICK k \in 1..Len(q) : k = m - 1
    BY <2>4
  <2>6. k + 1 = m /\ s[k] < i /\ i <= s[k + 1] /\ s[k] \in Nat /\ s[k + 1] \in Nat
    BY <1>1, <1>2, <2>2, <2>4, <2>5
  <2>7. Holds(q[k], w, s[k], s[k + 1])
    BY <1>1 DEF Layout
  <2>8. PICK j \in Nat : j = i - s[k] - 1
    BY <2>6
  <2>9. j \in 0..kSize-1 /\ j < s[k + 1] - s[k] /\ s[k] + j + 1 = i
    <3>1. s[k + 1] - s[k] < kSize
      BY <2>7 DEF Holds
    <3>2. PICK x \in Nat, y \in Nat : x = s[k] /\ y = s[k + 1]
      BY <2>6
    <3>3. /\ x < i /\ i <= y /\ y - x < kSize /\ j = i - x - 1
          /\ x \in Nat /\ y \in Nat /\ i \in Nat /\ j \in Nat
      BY <2>6, <2>8, <3>1, <3>2
    <3>4. j \in 0..kSize-1 /\ j < y - x /\ x + j + 1 = i
      BY ONLY <3>3, SizeAssumption
    <3>5. QED
      BY ONLY <3>2, <3>4
  <2>10. q[k].list[Wrap(q[k].bottom + j)] = w[i]
    BY <2>7, <2>9 DEF Holds
  <2>11. Wrap(q[k].bottom + j) \in 0..kSize-1
    <3>1. q[k].bottom \in 0..kSize-1
      BY QueueMeans DEF Buffers
    <3>2. QED
      BY <2>9, <3>1, WrapInjective
  <2>12. w[i] # Undefined
    BY <1>3, EmptyAssumption
  <2>13. QED
    <3>1. w[i] \in {q[k].list[n] : n \in 0..kSize-1}
      BY ONLY <2>10, <2>11
    <3>2. k \in DOMAIN q
      BY <1>2
    <3>3. QED
      BY <2>12, <3>1, <3>2, Zenon DEF Items
<1>5. QED
  BY <1>3, <1>4 DEF Range

----------------------------------------------------------------------------
(* The clients.                                                             *)

\* The fields of a pool; what the upstreams of a BalancedPool weigh is left
\* open.
IsPool(p) ==
  p \in [clients: Seq(Ids), retiring: SUBSET Ids, needDrain: BOOLEAN,
         probe: Ids \cup {None}, protocol: {"none", "h1", "h2"},
         index: {p.index}, adds: Seq(Ids), current: {p.current}, gcd: {p.gcd},
         at: [Ids -> Clients]]

\* A client that may be given requests, or may still have some, is in rotation
\* or retiring, and one that is gone holds none.
Tracked(p) ==
  \A c \in Ids :
    /\ p.at[c].life \in {"open", "closed"} => c \in Range(p.clients) \cup p.retiring
    /\ p.at[c].life = "none" => p.at[c].held = {}

Sound(p) == IsPool(p) /\ Tracked(p) /\ (Class = "balanced" \/ p.index \in Int)

\* What the pool does to its clients short of handing requests over: none of
\* them gets or loses one, and none is destroyed.
Alters(p, q) ==
  /\ Sound(q)
  /\ \A c \in Ids : /\ q.at[c].held = p.at[c].held
                    /\ q.at[c].life = "destroyed" <=> p.at[c].life = "destroyed"

LEMMA AltersIsTransitive ==
  ASSUME NEW p, NEW q, NEW r, Alters(p, q), Alters(q, r)
  PROVE  Alters(p, r)
BY DEF Alters

LEMMA AltersIsReflexive ==
  ASSUME NEW p, Sound(p)
  PROVE  Alters(p, p)
BY DEF Alters

\* A change that leaves the clients where they are.
LEMMA Stays ==
  ASSUME NEW p, NEW q, Sound(p), IsPool(q), q.clients = p.clients,
         q.retiring = p.retiring, q.index = p.index \/ q.index \in Int,
         \A c \in Ids : q.at[c].held = p.at[c].held /\ q.at[c].life = p.at[c].life
  PROVE  Alters(p, q)
BY DEF Sound, Tracked, Alters

LEMMA PoolMeans ==
  ASSUME NEW p, IsPool(p)
  PROVE  /\ p.clients \in Seq(Ids) /\ p.adds \in Seq(Ids) /\ p.retiring \subseteq Ids
         /\ p.at \in [Ids -> Clients] /\ \A c \in Ids : p.at[c] \in Clients
         /\ Range(p.clients) \subseteq Ids
         /\ Len(p.clients) \in Nat /\ DOMAIN p.clients = 1..Len(p.clients)
<1>1. p.clients \in Seq(Ids) /\ p.adds \in Seq(Ids) /\ p.retiring \subseteq Ids
      /\ p.at \in [Ids -> Clients]
  BY DEF IsPool
<1>2. /\ Len(p.clients) \in Nat /\ DOMAIN p.clients = 1..Len(p.clients)
      /\ \A i \in 1..Len(p.clients) : p.clients[i] \in Ids
  BY <1>1, LenProperties, ElementOfSeq
<1>3. QED
  BY <1>1, <1>2 DEF Range

\* needDrain, kIndex and adds say nothing of where clients and requests are.
LEMMA FlagAlters ==
  ASSUME NEW p, Sound(p), NEW b \in BOOLEAN, NEW q, q = [p EXCEPT !.needDrain = b]
  PROVE  Alters(p, q)
<1>1. IsPool(q) /\ q.clients = p.clients /\ q.retiring = p.retiring /\ q.index = p.index
      /\ q.at = p.at
  BY DEF Sound, IsPool
<1>2. QED
  BY <1>1, Stays

LEMMA IndexAlters ==
  ASSUME NEW p, Sound(p), NEW n \in Int, NEW q, q = [p EXCEPT !.index = n]
  PROVE  Alters(p, q)
<1>1. IsPool(q) /\ q.clients = p.clients /\ q.retiring = p.retiring /\ q.index = n
      /\ q.at = p.at
  BY DEF Sound, IsPool
<1>2. QED
  BY <1>1, Stays

LEMMA TurnAlters ==
  ASSUME NEW p, Sound(p), Class = "balanced", NEW n, NEW m,
         NEW q, q = [p EXCEPT !.index = n, !.current = m]
  PROVE  Alters(p, q)
<1>1. IsPool(q) /\ q.clients = p.clients /\ q.retiring = p.retiring /\ q.at = p.at
  BY DEF Sound, IsPool
<1>2. QED
  BY <1>1 DEF Sound, Tracked, Alters

LEMMA TaskAlters ==
  ASSUME NEW p, Sound(p), p.adds # <<>>, NEW q, q = [p EXCEPT !.adds = Tail(@)]
  PROVE  Alters(p, q)
<1>1. Tail(p.adds) \in Seq(Ids)
  BY PoolMeans, HeadTailProperties DEF Sound
<1>2. IsPool(q) /\ q.clients = p.clients /\ q.retiring = p.retiring /\ q.index = p.index
      /\ q.at = p.at
  BY <1>1 DEF Sound, IsPool
<1>3. QED
  BY <1>2, Stays

LEMMA ProbeAlters ==
  ASSUME NEW p, Sound(p), NEW c \in Ids \cup {None}, NEW q, q = [p EXCEPT !.probe = c]
  PROVE  Alters(p, q)
<1>1. IsPool(q) /\ q.clients = p.clients /\ q.retiring = p.retiring /\ q.index = p.index
      /\ q.at = p.at
  BY DEF Sound, IsPool
<1>2. QED
  BY <1>1, Stays

LEMMA PutMeans ==
  ASSUME NEW p, IsPool(p), NEW c \in Ids, NEW a \in Clients, NEW q,
         q = [p EXCEPT !.at[c] = a]
  PROVE  /\ IsPool(q) /\ q.clients = p.clients /\ q.retiring = p.retiring
         /\ q.index = p.index /\ q.needDrain = p.needDrain
         /\ \A d \in Ids : q.at[d] = IF d = c THEN a ELSE p.at[d]
<1>1. /\ IsPool(q) /\ q.clients = p.clients /\ q.retiring = p.retiring
      /\ q.index = p.index /\ q.needDrain = p.needDrain
      /\ q.at = [p.at EXCEPT ![c] = a] /\ p.at \in [Ids -> Clients]
  BY DEF IsPool
<1>2. QED
  BY <1>1

\* A client of which something else changes than its life and what it holds.
LEMMA ClientAlters ==
  ASSUME NEW p, Sound(p), NEW c \in Ids, NEW a \in Clients,
         a.held = p.at[c].held, a.life = p.at[c].life, NEW q, q = [p EXCEPT !.at[c] = a]
  PROVE  Alters(p, q)
<1>1. /\ IsPool(q) /\ q.clients = p.clients /\ q.retiring = p.retiring /\ q.index = p.index
      /\ q.at = [p.at EXCEPT ![c] = a] /\ p.at \in [Ids -> Clients]
  BY DEF Sound, IsPool
<1>2. \A d \in Ids : q.at[d].held = p.at[d].held /\ q.at[d].life = p.at[d].life
  BY <1>1
<1>3. QED
  BY <1>1, <1>2, Stays

\* kOnClientBusy
LEMMA BusyAlters ==
  ASSUME NEW p, Sound(p), NEW c \in Ids
  PROVE  Alters(p, Busy(p, c))
<1> DEFINE a == [p.at[c] EXCEPT !.need = TRUE]
           probe == IF p.probe = None /\ p.at[c].conn = "connecting" /\ MayProbe(p)
                    THEN c ELSE p.probe
<1>1. p.at[c] \in Clients /\ p.probe \in Ids \cup {None}
  BY DEF Sound, IsPool
<1>2. a \in Clients /\ a.held = p.at[c].held /\ a.life = p.at[c].life
  BY <1>1 DEF Clients
<1>3. PICK q : q = [p EXCEPT !.at[c] = a]
  OBVIOUS
<1>4. Alters(p, q) /\ Sound(q)
  <2> HIDE DEF a
  <2>1. Alters(p, q)
    BY <1>2, <1>3, ClientAlters
  <2>2. QED
    BY <2>1 DEF Alters
<1>5. probe \in Ids \cup {None}
  BY <1>1
<1>6. Busy(p, c) = [q EXCEPT !.probe = probe]
  BY <1>3 DEF Busy, Sound, IsPool
<1>7. Alters(q, Busy(p, c))
  BY <1>4, <1>5, <1>6, ProbeAlters
<1>8. QED
  BY <1>4, <1>7, AltersIsTransitive

LEMMA OwingAlters ==
  ASSUME NEW p, Sound(p), NEW c \in Ids
  PROVE  Alters(p, Owing(p, c))
<1> DEFINE a == [p.at[c] EXCEPT !.owes = (p.at[c].life = "open")]
<1>1. p.at[c] \in Clients
  BY DEF Sound, IsPool
<1>2. a \in Clients /\ a.held = p.at[c].held /\ a.life = p.at[c].life
  BY <1>1 DEF Clients
<1>3. Owing(p, c) = [p EXCEPT !.at[c] = a]
  BY DEF Owing
<1>4. QED
  BY <1>2, <1>3, ClientAlters

----------------------------------------------------------------------------
(* Clients that are created and retired.                                    *)

LEMMA IdsAreNumbers == Ids \in SUBSET Nat
BY IdAssumption, FS_CardinalityType

LEMMA NoClientIsClient ==
  NoClient \in Clients /\ NoClient.held = {} /\ NoClient.life = "none"
<1>1. 0 \in 0..MaxWeight
  BY WeightAssumption
<1>2. QED
  BY <1>1 DEF Clients, NoClient

\* createClient
LEMMA CreatedAlters ==
  ASSUME NEW p, Sound(p), Spares(p) # {}
  PROVE  /\ Alters(p, Created(p).pool)
         /\ Created(p).client \in Ids
<1> DEFINE c == Min(Spares(p))
           a == [NoClient EXCEPT !.life = "open"]
           q == Created(p).pool
<1>1. Spares(p) \in SUBSET Ids /\ \A d \in Spares(p) : p.at[d].life = "none"
  BY DEF Spares
<1>2. c \in Ids /\ p.at[c].life = "none"
  BY <1>1, IdsAreNumbers, MinIsLeast
<1>3. a \in Clients /\ a.life = "open" /\ a.held = {}
  <2>1. NoClient \in Clients /\ NoClient.held = {}
    BY NoClientIsClient
  <2>2. QED
    BY <2>1 DEF Clients
<1>4. /\ IsPool(p) /\ p.clients \in Seq(Ids) /\ p.adds \in Seq(Ids)
      /\ p.at \in [Ids -> Clients]
  BY PoolMeans DEF Sound
<1>5. Append(p.clients, c) \in Seq(Ids) /\ Append(p.adds, c) \in Seq(Ids)
      /\ Range(Append(p.clients, c)) = Range(p.clients) \cup {c}
  <2> HIDE DEF c
  <2>1. QED
    BY <1>2, <1>4, AppendProperties, RangeOfAppend
<1>6. /\ q = [p EXCEPT !.clients = Append(p.clients, c),
                       !.probe = IF MayProbe(p) THEN c ELSE p.probe,
                       !.adds = IF p.needDrain THEN Append(p.adds, c) ELSE p.adds,
                       !.at[c] = a]
      /\ Created(p).client = c
  BY DEF Created
<1> HIDE DEF q, a, c
<1>7. /\ IsPool(q) /\ q.clients = Append(p.clients, c) /\ q.retiring = p.retiring
      /\ q.index = p.index /\ q.at = [p.at EXCEPT ![c] = a]
  BY <1>2, <1>3, <1>4, <1>5, <1>6 DEF IsPool
<1>8. \A d \in Ids : q.at[d] = IF d = c THEN a ELSE p.at[d]
  BY <1>4, <1>7
<1>9. p.at[c].held = {}
  BY <1>2 DEF Sound, Tracked
<1>10. Tracked(q)
  BY <1>3, <1>5, <1>7, <1>8 DEF Tracked, Sound
<1>11. QED
  BY <1>2, <1>3, <1>6, <1>7, <1>8, <1>9, <1>10 DEF Alters, Sound, q

\* client.close()
LEMMA ClosedMeans ==
  ASSUME NEW p, Sound(p), NEW S, NEW q, q = Closed(p, S)
  PROVE  /\ IsPool(q) /\ q.clients = p.clients /\ q.retiring = p.retiring
         /\ q.index = p.index /\ q.needDrain = p.needDrain
         /\ \A c \in Ids : /\ q.at[c] \in Clients /\ q.at[c].held = p.at[c].held
                           /\ q.at[c].life = IF c \in S /\ p.at[c].life = "open"
                                             THEN "closed" ELSE p.at[c].life
<1> DEFINE at == [c \in Ids |->
              IF c \in S /\ p.at[c].life = "open" THEN [p.at[c] EXCEPT !.life = "closed"]
              ELSE p.at[c]]
<1>1. IsPool(p) /\ p.at \in [Ids -> Clients]
  BY PoolMeans DEF Sound
<1>2. /\ at \in [Ids -> Clients]
      /\ \A c \in Ids : /\ at[c] \in Clients /\ at[c].held = p.at[c].held
                        /\ at[c].life = IF c \in S /\ p.at[c].life = "open"
                                        THEN "closed" ELSE p.at[c].life
  BY <1>1 DEF Clients
<1>3. q = [p EXCEPT !.at = at]
  BY DEF Closed
<1> HIDE DEF at
<1>4. /\ IsPool(q) /\ q.clients = p.clients /\ q.retiring = p.retiring
      /\ q.index = p.index /\ q.needDrain = p.needDrain /\ q.at = at
  BY <1>1, <1>2, <1>3 DEF IsPool
<1>5. QED
  BY <1>2, <1>4

LEMMA ClosedAlters ==
  ASSUME NEW p, Sound(p), NEW S
  PROVE  Alters(p, Closed(p, S))
<1>1. PICK q : q = Closed(p, S)
  OBVIOUS
<1>2. /\ IsPool(q) /\ q.clients = p.clients /\ q.retiring = p.retiring
      /\ q.index = p.index
      /\ \A c \in Ids : /\ q.at[c].held = p.at[c].held
                        /\ q.at[c].life = IF c \in S /\ p.at[c].life = "open"
                                          THEN "closed" ELSE p.at[c].life
  BY <1>1, ClosedMeans
<1>3. QED
  BY <1>1, <1>2 DEF Alters, Sound, Tracked

\* kRetireClient
LEMMA RetiredAlters ==
  ASSUME NEW p, Sound(p), NEW S \in SUBSET Ids
  PROVE  Alters(p, Retired(p, S))
<1> DEFINE more == {c \in S : p.at[c].life \notin {"none", "destroyed"}}
           kept == Without(p.clients, S)
<1>0. PICK r : r = Closed(p, S)
  OBVIOUS
<1>1. PICK q : q = Retired(p, S)
  OBVIOUS
<1>2. /\ IsPool(r) /\ r.clients = p.clients /\ r.retiring = p.retiring
      /\ r.index = p.index
      /\ \A c \in Ids : /\ r.at[c].held = p.at[c].held
                        /\ r.at[c].life = IF c \in S /\ p.at[c].life = "open"
                                          THEN "closed" ELSE p.at[c].life
  BY <1>0, ClosedMeans
<1>3. kept \in Seq(Ids) /\ \A c : c \in Range(kept) <=> c \in Range(p.clients) /\ c \notin S
  BY PoolMeans, WithoutMeans DEF Sound
<1>4. more \in SUBSET Ids
  OBVIOUS
<1>5. q = [r EXCEPT !.clients = kept, !.retiring = p.retiring \cup more]
  BY <1>0, <1>1, <1>2 DEF Retired
<1>6. \A c \in Ids : c \in more <=> c \in S /\ p.at[c].life \notin {"none", "destroyed"}
  OBVIOUS
<1> HIDE DEF more, kept
<1>7. p.retiring \subseteq Ids
  BY PoolMeans DEF Sound
<1>8. /\ IsPool(q) /\ q.clients = kept /\ q.retiring = p.retiring \cup more
      /\ q.index = p.index /\ q.at = r.at
  BY <1>2, <1>3, <1>4, <1>5, <1>7 DEF IsPool
<1>9. Tracked(q)
  BY <1>2, <1>3, <1>6, <1>8 DEF Sound, Tracked
<1>10. QED
  BY <1>1, <1>2, <1>8, <1>9 DEF Sound, Alters

\* kRemoveClient
LEMMA RemovedAlters ==
  ASSUME NEW p, Sound(p), NEW S \in SUBSET Ids
  PROVE  Alters(p, Removed(p, S))
<1>1. CASE S = {}
  BY <1>1, AltersIsReflexive DEF Removed
<1>2. CASE S # {}
  <2>1. PICK q : q = Retired(p, S)
    OBVIOUS
  <2>2. Alters(p, q) /\ Sound(q)
    BY <2>1, RetiredAlters DEF Alters
  <2>3. Removed(p, S) = [q EXCEPT !.needDrain = ~AnyFree(q)]
    BY <1>2, <2>1 DEF Removed
  <2>4. PICK b \in BOOLEAN : b = ~AnyFree(q)
    BY DEF AnyFree
  <2>5. Alters(q, Removed(p, S))
    BY <2>2, <2>3, <2>4, FlagAlters
  <2>6. QED
    BY <2>2, <2>5, AltersIsTransitive
<1>3. QED
  BY <1>1, <1>2

----------------------------------------------------------------------------
(* Which client is next.                                                    *)

\* Sequences of clients, in which the stale and the first usable one are.
LEMMA OrderMeans ==
  ASSUME NEW p, NEW order \in Seq(Ids)
  PROVE  /\ Stale(p, order) \in SUBSET Ids
         /\ FirstUsable(p, order) \in 1..Len(order)+1
         /\ FirstUsable(p, order) <= Len(order) => order[FirstUsable(p, order)] \in Ids
<1> DEFINE found == {i \in DOMAIN order : Usable(p, order[i])}
           first == FirstUsable(p, order)
<1>1. /\ Len(order) \in Nat /\ DOMAIN order = 1..Len(order)
      /\ \A i \in 1..Len(order) : order[i] \in Ids
  BY LenProperties, ElementOfSeq
<1>2. first \in 1..Len(order)+1
  <2>1. CASE found = {}
    BY <1>1, <2>1 DEF FirstUsable
  <2>2. CASE found # {}
    <3>1. found \in SUBSET Nat /\ found \subseteq 1..Len(order)
      BY <1>1
    <3>2. Min(found) \in found
      BY <2>2, <3>1, MinIsLeast
    <3>3. first = Min(found)
      BY <2>2 DEF FirstUsable
    <3>4. QED
      BY <1>1, <3>1, <3>2, <3>3
  <2>3. QED
    BY <2>1, <2>2
<1> HIDE DEF first, found
<1>3. first <= Len(order) => first \in 1..Len(order)
  BY <1>1, <1>2
<1>4. \A j \in 1..first-1 : order[j] \in Ids
  BY <1>1, <1>2
<1>5. Stale(p, order) \in SUBSET Ids
  BY <1>4 DEF Stale, first
<1>6. QED
  BY <1>1, <1>2, <1>3, <1>5 DEF first

LEMMA AmongIsNumber ==
  ASSUME NEW p, IsPool(p), NEW n, NEW S
  PROVE  Among(p, n, S) \in Int
<1> DEFINE T == {i \in DOMAIN p.clients : i <= n /\ p.clients[i] \in S}
<1>1. IsFiniteSet(1..Len(p.clients))
  BY PoolMeans, FS_Interval
<1>2. T \subseteq 1..Len(p.clients)
  BY PoolMeans
<1>3. IsFiniteSet(T)
  BY <1>1, <1>2, FS_Subset
<1>4. QED
  BY <1>3, FS_CardinalityType DEF Among

LEMMA IndexIsNumber ==
  ASSUME NEW p, IsPool(p), NEW c, NEW S
  PROVE  IndexAt(p, c, S) \in Int
<1> DEFINE I == {i \in 1..Len(p.clients) : p.clients[i] = c}
           at == SelectInSeq(p.clients, LAMBDA d : d = c)
<1>1. at = IF I # {} THEN Min(I) ELSE 0
  BY DEF SelectInSeq
<1>2. I # {} => Min(I) \in I
  <2>1. I \in SUBSET Nat
    OBVIOUS
  <2>2. QED
    BY <2>1, MinIsLeast
<1>3. at \in Int
  BY <1>1, <1>2
<1>4. IndexAt(p, c, S) = at - Among(p, at, S) - 1
  BY DEF IndexAt
<1> HIDE DEF at
<1>5. QED
  BY <1>3, <1>4, AmongIsNumber

\* kGetDispatcher of BalancedPool
LEMMA UpstreamAlters ==
  ASSUME NEW p, Sound(p), Class = "balanced"
  PROVE  /\ Alters(p, GetUpstream(p).pool)
         /\ GetUpstream(p).client # None => GetUpstream(p).client \in Ids
<1>1. \E s : /\ GetUpstream(p).pool = [p EXCEPT !.index = s.index, !.current = s.current]
             /\ GetUpstream(p).client = IF s.chosen + 1 \in DOMAIN p.clients
                                        THEN p.clients[s.chosen + 1] ELSE None
  BY DEF GetUpstream
<1>2. Range(p.clients) \subseteq Ids
  BY PoolMeans DEF Sound
<1>3. QED
  BY <1>1, <1>2, TurnAlters DEF Range

LEMMA AroundIsOrder ==
  ASSUME NEW p, Sound(p), Class # "balanced"
  PROVE  Around(p) \in Seq(Ids)
<1> DEFINE n == Len(p.clients)
<1>1. n \in Nat /\ \A i \in 1..n : p.clients[i] \in Ids
  BY PoolMeans, ElementOfSeq DEF Sound
<1>2. p.index \in Int
  BY DEF Sound
<1> HIDE DEF n
<1>3. \A i \in 1..n : ((p.index + i) % n) + 1 \in 1..n
  <2>1. TAKE i \in 1..n
  <2>2. PICK x \in Int : x = p.index + i
    BY <1>2
  <2>3. n > 0 /\ x % n \in 0..n-1
    BY <1>1, <2>1
  <2>4. QED
    BY <1>1, <2>2, <2>3
<1>4. Around(p) = [i \in 1..n |-> p.clients[((p.index + i) % n) + 1]]
  BY DEF Around, n
<1>5. Around(p) \in [1..n -> Ids]
  BY <1>1, <1>3, <1>4
<1>6. QED
  BY <1>1, <1>5, IsASeq

\* kGetDispatcher of Pool and RoundRobinPool
LEMMA GetClientAlters ==
  ASSUME NEW p, Sound(p), Class # "balanced"
  PROVE  /\ Alters(p, GetClient(p).pool)
         /\ GetClient(p).client # None => GetClient(p).client \in Ids
<1>1. PICK order : order = IF Class = "pool" THEN p.clients ELSE Around(p)
  OBVIOUS
<1>2. PICK first : first = FirstUsable(p, order)
  OBVIOUS
<1>3. PICK stale : stale = Stale(p, order)
  OBVIOUS
<1>4. PICK n : n = IF Class = "pool" \/ order = <<>> THEN Removed(p, stale).index
                   ELSE IndexAt(p, order[Min({first, Len(order)})], stale)
  OBVIOUS
<1>5. PICK q : q = [Removed(p, stale) EXCEPT !.index = n]
  OBVIOUS
<1>6. GetClient(p) = CASE first <= Len(order) -> [client |-> order[first], pool |-> q]
                       [] first > Len(order) /\ MayCreate(q) -> Created(q)
                       [] OTHER -> [client |-> None, pool |-> q]
  BY <1>1, <1>2, <1>3, <1>4, <1>5 DEF GetClient
<1>7. order \in Seq(Ids)
  BY <1>1, PoolMeans, AroundIsOrder DEF Sound
<1>8. /\ stale \in SUBSET Ids /\ first \in 1..Len(order)+1
      /\ first <= Len(order) => order[first] \in Ids
  BY <1>2, <1>3, <1>7, OrderMeans
<1>9. Alters(p, Removed(p, stale)) /\ Sound(Removed(p, stale))
  BY <1>8, RemovedAlters DEF Alters
<1>10. n \in Int
  <2>1. Removed(p, stale).index \in Int
    BY <1>9 DEF Sound
  <2>2. IndexAt(p, order[Min({first, Len(order)})], stale) \in Int
    BY IndexIsNumber DEF Sound
  <2>3. QED
    BY <1>4, <2>1, <2>2
<1>11. Alters(p, q) /\ Sound(q)
  BY <1>5, <1>9, <1>10, IndexAlters, AltersIsTransitive DEF Alters
<1>12. MayCreate(q) => Alters(p, Created(q).pool) /\ Created(q).client \in Ids
  BY <1>11, CreatedAlters, AltersIsTransitive DEF MayCreate
<1>13. Len(order) \in Nat
  BY <1>7, LenProperties
<1>14. CASE first <= Len(order)
  BY <1>6, <1>8, <1>11, <1>14
<1>15. CASE first > Len(order) /\ MayCreate(q)
  <2>1. ~(first <= Len(order))
    BY <1>8, <1>13, <1>15
  <2>2. GetClient(p) = Created(q)
    BY <1>6, <1>15, <2>1
  <2>3. QED
    BY <1>12, <1>15, <2>2
<1>16. CASE ~(first <= Len(order)) /\ ~MayCreate(q)
  <2>1. GetClient(p) = [client |-> None, pool |-> q]
    BY <1>6, <1>16
  <2>2. QED
    BY <1>11, <2>1
<1>17. QED
  BY <1>8, <1>13, <1>14, <1>15, <1>16

LEMMA GetAlters ==
  ASSUME NEW p, Sound(p), NEW get, get = GetDispatcher(p)
  PROVE  Alters(p, get.pool) /\ (get.client # None => get.client \in Ids)
BY GetClientAlters, UpstreamAlters DEF GetDispatcher

\* kHasDispatcher
LEMMA HasAlters ==
  ASSUME NEW p, Sound(p), NEW has, has = HasDispatcher(p)
  PROVE  Alters(p, has.pool)
<1>1. CASE Class = "balanced"
  BY <1>1, AltersIsReflexive DEF HasDispatcher
<1>2. CASE Class # "balanced"
  <2>1. PICK stale : stale = Stale(p, p.clients)
    OBVIOUS
  <2>2. PICK r : r = Removed(p, stale)
    OBVIOUS
  <2>3. PICK n : n = IF Class = "pool" THEN r.index
                     ELSE r.index - Among(p, p.index + 1, stale)
    OBVIOUS
  <2>4. PICK q : q = [r EXCEPT !.index = n]
    OBVIOUS
  <2>5. Alters(p, r) /\ Sound(r)
    BY <2>1, <2>2, PoolMeans, OrderMeans, RemovedAlters DEF Sound, Alters
  <2>6. n \in Int
    BY <1>2, <2>3, <2>5, AmongIsNumber DEF Sound
  <2>7. Alters(p, q) /\ Sound(q)
    BY <2>4, <2>5, <2>6, IndexAlters, AltersIsTransitive DEF Alters
  <2>8. MayCreate(q) => Alters(p, Created(q).pool)
    BY <2>7, CreatedAlters, AltersIsTransitive DEF MayCreate
  <2>9. has.pool = q \/ (MayCreate(q) /\ has.pool = Created(q).pool)
    BY <1>2, <2>1, <2>2, <2>3, <2>4 DEF HasDispatcher, HasClient
  <2>10. QED
    BY <2>7, <2>8, <2>9
<1>3. QED
  BY <1>1, <1>2

\* addUpstream() and errors of upstreams change weights.
LEMMA ReweighedAlters ==
  ASSUME NEW p, Sound(p), NEW S, NEW w \in 0..MaxWeight
  PROVE  Alters(p, Reweighed(p, S, w))
<1> DEFINE at == [c \in Ids |-> IF c \in S THEN [p.at[c] EXCEPT !.weight = w] ELSE p.at[c]]
<1>1. IsPool(p) /\ p.at \in [Ids -> Clients]
  BY PoolMeans DEF Sound
<1>2. /\ at \in [Ids -> Clients]
      /\ \A c \in Ids : at[c].held = p.at[c].held /\ at[c].life = p.at[c].life
  BY <1>1 DEF Clients
<1>3. PICK q : q = [p EXCEPT !.at = at]
  OBVIOUS
<1>4. PICK g : Reweighed(p, S, w) = [q EXCEPT !.gcd = g]
  BY <1>3 DEF Reweighed
<1> HIDE DEF at
<1>5. /\ IsPool(q) /\ q.clients = p.clients /\ q.retiring = p.retiring
      /\ q.index = p.index /\ q.at = at
  BY <1>1, <1>2, <1>3 DEF IsPool
<1>6. PICK r : r = [q EXCEPT !.gcd = g]
  OBVIOUS
<1>7. /\ IsPool(r) /\ r.clients = p.clients /\ r.retiring = p.retiring
      /\ r.index = p.index /\ r.at = at
  BY <1>5, <1>6 DEF IsPool
<1>8. Alters(p, r)
  BY <1>2, <1>7, Stays
<1>9. QED
  BY <1>4, <1>6, <1>8

LEMMA PenalisedAlters ==
  ASSUME NEW p, Sound(p), NEW c \in Ids
  PROVE  Alters(p, Penalised(p, c))
<1>1. p.at[c].weight \in 0..MaxWeight
  BY PoolMeans DEF Sound, Clients
<1>2. Lighter(p.at[c].weight) \in 0..MaxWeight
  BY <1>1, WeightAssumption DEF Lighter
<1>3. QED
  BY <1>2, ReweighedAlters, AltersIsReflexive DEF Penalised

----------------------------------------------------------------------------
(* Where requests are, and the ends of the pool.                            *)

SomeHolds(p, r) == \E c \in Ids : r \in p.at[c].held

\* Each request that was dispatched has had its outcome, waits, or is held.
Accounted ==
  \A r \in 1..dispatched : r \in done \cup Range(waiting) \/ SomeHolds(pool, r)

\* Before the pool is destroyed no client that holds a request is; after it
\* each of them is, and nothing waits.
NoneDestroyed(p) == \A c \in Ids : p.at[c].life = "destroyed" => p.at[c].held = {}
AllDestroyed(p) == \A c \in Ids : p.at[c].held # {} => p.at[c].life = "destroyed"

\* closeClients() waits for each client that holds a request.
Awaited(p, S) == \A c \in Ids : p.at[c].held # {} => c \in S

EInv ==
  /\ IInv /\ Sound(pool) /\ stack \in Seq(Frames) /\ Accounted
  /\ closing # "no" => closed
  /\ ~destroyed => NoneDestroyed(pool)
  /\ destroyed => waiting = <<>> /\ AllDestroyed(pool)
  /\ destroyed /\ ~userDestroy => 1..dispatched \subseteq done
  /\ closing = "clients" /\ ~destroyed => waiting = <<>> /\ Awaited(pool, awaits)

\* Steps in which clients at most let go of requests, which have their outcome
\* then; what waits is the same.
Lets(p, q) ==
  /\ Sound(q)
  /\ \A c \in Ids :
       /\ q.at[c].held \subseteq p.at[c].held
       /\ q.at[c].held # {} =>
            (q.at[c].life = "destroyed" <=> p.at[c].life = "destroyed")

LetsGo ==
  /\ Lets(pool, pool')
  /\ done \subseteq done' /\ \A c \in Ids : pool.at[c].held \ pool'.at[c].held \subseteq done'
  /\ stack' \in Seq(Frames) /\ UNCHANGED <<kind, queueVars, lifeVars, dispatched>>

LEMMA LetsGoEInv == ASSUME EInv, IInv', LetsGo PROVE EInv'
<1>1. /\ Sound(pool)' /\ stack' \in Seq(Frames) /\ waiting' = waiting /\ dispatched' = dispatched
      /\ closed' = closed /\ closing' = closing /\ destroyed' = destroyed
      /\ userDestroy' = userDestroy /\ awaits' = awaits /\ done \subseteq done'
  BY DEF LetsGo, Lets, queueVars, lifeVars, Sound, Tracked, IsPool, Class
<1>2. \A c \in Ids :
        /\ pool'.at[c].held \subseteq pool.at[c].held
        /\ pool.at[c].held \ pool'.at[c].held \subseteq done'
        /\ pool'.at[c].held # {} =>
             (pool'.at[c].life = "destroyed" <=> pool.at[c].life = "destroyed")
  BY DEF LetsGo, Lets
<1>3. Accounted'
  BY <1>1, <1>2 DEF EInv, Accounted, SomeHolds
<1>4. (~destroyed => NoneDestroyed(pool))'
  BY <1>1, <1>2 DEF EInv, NoneDestroyed
<1>5. (destroyed => waiting = <<>> /\ AllDestroyed(pool))'
  BY <1>1, <1>2 DEF EInv, AllDestroyed
<1>6. (closing = "clients" /\ ~destroyed => waiting = <<>> /\ Awaited(pool, awaits))'
  BY <1>1, <1>2 DEF EInv, Awaited
<1>7. (closing # "no" => closed)' /\ (destroyed /\ ~userDestroy => 1..dispatched \subseteq done)'
  BY <1>1 DEF EInv
<1>8. QED
  BY <1>1, <1>3, <1>4, <1>5, <1>6, <1>7 DEF EInv

\* Client c takes request r, if it is open.
Takes(p, q, c, r) ==
  \A d \in Ids :
    /\ q.at[d].life = p.at[d].life
    /\ q.at[d].held = IF d = c /\ p.at[c].life = "open"
                      THEN p.at[d].held \cup {r} ELSE p.at[d].held

\* The call of client.dispatch().
LEMMA GivenMeans ==
  ASSUME NEW p, Sound(p), NEW c \in Ids, NEW r \in Requests, NEW q, q = Given(p, c, r)
  PROVE  Sound(q) /\ Takes(p, q, c, r)
<1> DEFINE held == IF p.at[c].life = "open" THEN p.at[c].held \cup {r} ELSE p.at[c].held
           conn == IF p.at[c].conn = "none" /\ p.at[c].life = "open" THEN "connecting"
                   ELSE p.at[c].conn
           a == [p.at[c] EXCEPT !.held = held, !.conn = conn]
<1>1. IsPool(p) /\ p.at \in [Ids -> Clients] /\ p.at[c] \in Clients
  BY PoolMeans DEF Sound
<1>2. a \in Clients /\ a.held = held /\ a.life = p.at[c].life
  BY <1>1 DEF Clients
<1>3. q = [p EXCEPT !.at[c] = a]
  BY <1>1 DEF Given, IsPool, Clients
<1> HIDE DEF a, held, conn
<1>4. /\ IsPool(q) /\ q.clients = p.clients /\ q.retiring = p.retiring /\ q.index = p.index
      /\ \A d \in Ids : q.at[d] = IF d = c THEN a ELSE p.at[d]
  BY <1>1, <1>2, <1>3, PutMeans
<1>5. held = IF p.at[c].life = "open" THEN p.at[c].held \cup {r} ELSE p.at[c].held
  BY DEF held
<1>6. Takes(p, q, c, r)
  BY <1>2, <1>4, <1>5 DEF Takes
<1>7. Tracked(q)
  BY <1>4, <1>6 DEF Sound, Tracked, Takes
<1>8. QED
  BY <1>4, <1>6, <1>7 DEF Sound

\* A request is handed to a client, or has its outcome if that is closed.
LEMMA GivesEInv ==
  ASSUME EInv, IInv', NEW p, Alters(pool, p), NEW c \in Ids, NEW r \in Requests,
         pool' = Given(p, c, r), Outcome(p, c, r), ~destroyed, closing # "clients",
         UNCHANGED <<kind, lifeVars>>, stack' \in Seq(Frames),
         Range(waiting) \subseteq Range(waiting') \cup {r},
         1..dispatched' \subseteq 1..dispatched \cup {r}
  PROVE  EInv'
<1>1. /\ closed' = closed /\ closing' = closing /\ destroyed' = destroyed
      /\ userDestroy' = userDestroy /\ awaits' = awaits /\ done \subseteq done'
      /\ p.at[c].life = "open" \/ r \in done'
  BY DEF lifeVars, Outcome
<1>2. /\ Sound(p)
      /\ \A d \in Ids : /\ p.at[d].held = pool.at[d].held
                        /\ p.at[d].life = "destroyed" <=> pool.at[d].life = "destroyed"
  BY DEF Alters
<1>3. Sound(pool') /\ Takes(p, pool', c, r)
  BY <1>2, GivenMeans
<1>4. Sound(pool)'
  BY <1>3 DEF Sound, Tracked, IsPool, Class
<1>5. Accounted'
  <2>1. r \in done' \/ SomeHolds(pool', r)
    BY <1>1, <1>3 DEF SomeHolds, Takes
  <2>2. \A s : SomeHolds(pool, s) => SomeHolds(pool', s)
    BY <1>2, <1>3 DEF SomeHolds, Takes
  <2>3. QED
    BY <1>1, <2>1, <2>2 DEF EInv, Accounted, SomeHolds
<1>6. (~destroyed => NoneDestroyed(pool))'
  <2>1. \A d \in Ids : pool'.at[d].life = "destroyed" => pool'.at[d].held = {}
    BY <1>2, <1>3 DEF EInv, NoneDestroyed, Takes
  <2>2. QED
    BY <2>1 DEF NoneDestroyed
<1>7. QED
  BY <1>1, <1>4, <1>5, <1>6 DEF EInv

\* dispatch() queues the request.
LEMMA QueuesEInv ==
  ASSUME EInv, IInv', Alters(pool, pool'), Enqueue(dispatched + 1),
         dispatched' = dispatched + 1, dispatched + 1 \in Requests, ~closed, ~destroyed,
         UNCHANGED <<kind, lifeVars, stack, done>>
  PROVE  EInv'
<1>1. /\ closed' = closed /\ closing' = closing /\ destroyed' = destroyed
      /\ closing = "no"
  BY DEF lifeVars, EInv
<1>2. Sound(pool)'
  BY DEF Alters, Sound, Tracked, IsPool, Class
<1>3. Range(waiting') = Range(waiting) \cup {dispatched + 1}
  BY RangeOfAppend DEF EInv, IInv, Enqueue
<1>4. 1..dispatched' = 1..dispatched \cup {dispatched + 1}
  BY DEF EInv, IInv
<1>5. \A s : SomeHolds(pool, s) => SomeHolds(pool', s)
  BY DEF Alters, SomeHolds
<1>6. Accounted'
  BY <1>3, <1>4, <1>5 DEF EInv, Accounted, SomeHolds
<1>7. (~destroyed => NoneDestroyed(pool))'
  BY <1>1 DEF EInv, NoneDestroyed, Alters
<1>8. QED
  BY <1>1, <1>2, <1>6, <1>7 DEF EInv

\* dispatch() refuses it.
LEMMA RefusesEInv ==
  ASSUME EInv, IInv', dispatched' = dispatched + 1, done' = done \cup {dispatched + 1},
         UNCHANGED <<kind, pool, queueVars, lifeVars, stack>>
  PROVE  EInv'
<1>1. /\ closed' = closed /\ closing' = closing /\ destroyed' = destroyed
      /\ userDestroy' = userDestroy /\ awaits' = awaits /\ waiting' = waiting
  BY DEF lifeVars, queueVars
<1>2. 1..dispatched' = 1..dispatched \cup {dispatched + 1}
  BY DEF EInv, IInv
<1>3. Sound(pool)'
  BY DEF EInv, Sound, Tracked, IsPool, Class
<1>4. Accounted'
  BY <1>1, <1>2 DEF EInv, Accounted, SomeHolds
<1>5. QED
  BY <1>1, <1>2, <1>3, <1>4 DEF EInv, NoneDestroyed, AllDestroyed, Awaited

\* What close() and destroy() do.
LEMMA CloseClientsEInv ==
  ASSUME EInv, IInv', CloseClients(pool), IsEmpty(queue), closed', stack' \in Seq(Frames),
         UNCHANGED <<kind, queueVars, destroyed, userDestroy, dispatched, done>>
  PROVE  EInv'
<1> DEFINE live == {c \in Range(pool.clients) : pool.at[c].life \notin {"none", "destroyed"}}
<1>1. /\ waiting' = waiting /\ waiting = <<>> /\ destroyed' = destroyed
      /\ userDestroy' = userDestroy /\ dispatched' = dispatched /\ done' = done
  BY FirstIsOldest DEF EInv, IInv, queueVars
<1>2. PICK p : p = Closed(pool, live)
  OBVIOUS
<1>3. pool' = p /\ awaits' = live \cup pool.retiring /\ closing' = "clients"
  BY <1>2 DEF CloseClients
<1>4. Alters(pool, p)
  BY <1>2, ClosedAlters DEF EInv
<1>5. Sound(pool)'
  BY <1>3, <1>4 DEF Alters, Sound, Tracked, IsPool, Class
<1>6. \A c \in Ids : /\ pool'.at[c].held = pool.at[c].held
                     /\ pool'.at[c].life = "destroyed" <=> pool.at[c].life = "destroyed"
  BY <1>3, <1>4 DEF Alters
<1>7. Accounted'
  BY <1>1, <1>6 DEF EInv, Accounted, SomeHolds
<1>8. (~destroyed => NoneDestroyed(pool))' /\ (destroyed => waiting = <<>> /\ AllDestroyed(pool))'
  BY <1>1, <1>6 DEF EInv, NoneDestroyed, AllDestroyed
<1>9. ASSUME ~destroyed, NEW c \in Ids, pool'.at[c].held # {} PROVE c \in awaits'
  <2>1. pool.at[c].held # {} /\ pool.at[c].life # "destroyed" /\ pool.at[c].life # "none"
    BY <1>6, <1>9 DEF EInv, NoneDestroyed, Sound, Tracked
  <2>2. pool.at[c].life \in {"open", "closed"}
    BY <2>1, PoolMeans DEF EInv, Sound, Clients
  <2>3. c \in Range(pool.clients) \cup pool.retiring
    BY <2>2 DEF EInv, Sound, Tracked
  <2>4. QED
    BY <1>3, <2>1, <2>3
<1>10. (closing = "clients" /\ ~destroyed => waiting = <<>> /\ Awaited(pool, awaits))'
  BY <1>1, <1>9 DEF Awaited
<1>11. QED
  BY <1>1, <1>5, <1>7, <1>8, <1>10 DEF EInv

LEMMA DestroyAllMeans ==
  ASSUME Sound(pool), DestroyAll, kind' = kind
  PROVE  /\ Sound(pool)' /\ AllDestroyed(pool')
         /\ \A c \in Ids : pool'.at[c].held = pool.at[c].held
<1> DEFINE reach == Range(pool.clients) \cup pool.retiring
           at == [c \in Ids |->
                    IF c \in reach /\ pool.at[c].life \in {"open", "closed"}
                    THEN [pool.at[c] EXCEPT !.life = "destroyed"] ELSE pool.at[c]]
<1>1. IsPool(pool) /\ pool.at \in [Ids -> Clients] /\ \A c \in Ids : pool.at[c] \in Clients
  BY PoolMeans DEF Sound
<1>2. ASSUME NEW c \in Ids
      PROVE  /\ at[c] \in Clients /\ at[c].held = pool.at[c].held
             /\ at[c].life = "destroyed" \/ (at[c].life = "none" /\ pool.at[c].life = "none")
  <2>1. CASE c \in reach /\ pool.at[c].life \in {"open", "closed"}
    BY <1>1, <2>1 DEF Clients
  <2>2. CASE ~(c \in reach /\ pool.at[c].life \in {"open", "closed"})
    <3>1. at[c] = pool.at[c] /\ pool.at[c].life \notin {"open", "closed"}
      BY <2>2 DEF Sound, Tracked
    <3> HIDE DEF at
    <3>2. QED
      BY <1>1, <3>1 DEF Clients
  <2>3. QED
    BY <2>1, <2>2
<1>3. pool' = [pool EXCEPT !.at = at]
  BY DEF DestroyAll
<1>4. at \in [Ids -> Clients]
  BY <1>1, <1>2
<1> HIDE DEF at
<1>5. /\ IsPool(pool') /\ pool'.index = pool.index /\ pool'.at = at
      /\ pool'.clients = pool.clients /\ pool'.retiring = pool.retiring
  BY <1>1, <1>3, <1>4 DEF IsPool
<1>6. Tracked(pool')
  BY <1>2, <1>5 DEF Sound, Tracked
<1>7. AllDestroyed(pool')
  BY <1>2, <1>5 DEF AllDestroyed, Sound, Tracked
<1>8. Sound(pool)'
  BY <1>5, <1>6 DEF Sound, IsPool, Tracked, Class
<1>9. QED
  BY <1>2, <1>5, <1>7, <1>8

LEMMA DestroyAllEInv ==
  ASSUME EInv, IInv', DestroyAll, closing' # "no" => closed',
         ~userDestroy' => \A c \in Ids : pool.at[c].held = {},
         UNCHANGED <<kind, stack, dispatched>>
  PROVE  EInv'
<1>1. /\ destroyed' = TRUE /\ waiting' = <<>> /\ done' = done \cup Items(queue)
      /\ dispatched' = dispatched /\ stack' = stack
  BY DEF DestroyAll
<1>2. /\ Sound(pool)' /\ AllDestroyed(pool')
      /\ \A c \in Ids : pool'.at[c].held = pool.at[c].held
  BY DestroyAllMeans DEF EInv
<1>3. Range(waiting) \subseteq done'
  BY <1>1, ItemsInOrder DEF EInv, IInv
<1>4. Accounted'
  BY <1>1, <1>2, <1>3 DEF EInv, Accounted, SomeHolds
<1>5. ~userDestroy' => 1..dispatched' \subseteq done'
  BY <1>1, <1>3 DEF EInv, Accounted, SomeHolds
<1>6. (destroyed => AllDestroyed(pool))'
  BY <1>2 DEF AllDestroyed
<1>7. QED
  BY <1>1, <1>2, <1>4, <1>5, <1>6 DEF EInv

----------------------------------------------------------------------------
(* The steps.                                                               *)

\* The pool rearranges its clients.
LEMMA AltersEInv ==
  ASSUME EInv, IInv', Alters(pool, pool'), stack' \in Seq(Frames),
         UNCHANGED <<kind, queueVars, lifeVars, dispatched, done>>
  PROVE  EInv'
<1>1. LetsGo
  BY DEF LetsGo, Lets, Alters
<1>2. QED
  BY <1>1, LetsGoEInv

LEMMA FramesOfClients ==
  ASSUME NEW c \in Ids
  PROVE  /\ Frame("dispatch", c) \in Frames /\ Frame("onDrain", c) \in Frames
         /\ Frame("drainQueue", c) \in Frames /\ Frame("drainLoop", c) \in Frames
BY DEF Frame, Frames

LEMMA FramesOfNone ==
  /\ Frame("queueLoop", None) \in Frames /\ Frame("emitted", None) \in Frames
  /\ Frame("check", None) \in Frames
BY DEF Frame, Frames

LEMMA StackMeans ==
  ASSUME stack \in Seq(Frames), stack # <<>>
  PROVE  /\ Caller \in Seq(Frames)
         /\ \A f \in Frames : Goto(f) \in Seq(Frames)
         /\ Top.at \in {"dispatch", "onDrain", "drainQueue", "drainLoop"} => Top.c \in Ids
<1>1. Tail(stack) \in Seq(Frames) /\ Head(stack) \in Frames
  BY HeadTailProperties
<1>2. \A f \in Frames : <<f>> \in Seq(Frames)
  OBVIOUS
<1>3. \A f \in Frames : <<f>> \o Tail(stack) \in Seq(Frames)
  BY <1>1, <1>2, ConcatProperties
<1>4. Top.at \in {"dispatch", "onDrain", "drainQueue", "drainLoop"} => Top.c \in Ids
  BY <1>1 DEF Top, Frames
<1>5. QED
  BY <1>1, <1>3, <1>4 DEF Caller, Goto

LEMMA NewStacks ==
  ASSUME NEW f \in Frames, stack \in Seq(Frames)
  PROVE  <<f>> \in Seq(Frames) /\ <<f>> \o stack \in Seq(Frames) /\ <<>> \in Seq(Frames)
<1>1. <<f>> \in Seq(Frames) /\ <<>> \in Seq(Frames)
  OBVIOUS
<1>2. QED
  BY <1>1, ConcatProperties

LEMMA DispatchEInv == ASSUME EInv, IInv', Dispatch PROVE EInv'
<1>0. PICK get : get = GetDispatcher(pool)
  OBVIOUS
<1>1. /\ dispatched < kind.requests /\ dispatched' = dispatched + 1
      /\ UNCHANGED <<kind, lifeVars>>
  BY DEF Dispatch
<1>2. dispatched + 1 \in Requests
  BY <1>1, RequestNumbers DEF EInv, IInv
<1>3. Alters(pool, get.pool) /\ Sound(get.pool) /\ (get.client # None => get.client \in Ids)
  BY <1>0, GetAlters DEF EInv, Alters
<1>4. CASE /\ closed \/ destroyed \/ NoUpstream
           /\ done' = done \cup {dispatched + 1}
           /\ UNCHANGED <<pool, queueVars, stack>>
  BY <1>1, <1>4, RefusesEInv
<1>5. CASE /\ ~closed /\ ~destroyed /\ get.client = None
           /\ pool' = [get.pool EXCEPT !.needDrain = TRUE]
           /\ Enqueue(dispatched + 1)
           /\ UNCHANGED <<done, stack>>
  <2>1. Alters(get.pool, pool')
    <3>1. PICK q : q = [get.pool EXCEPT !.needDrain = TRUE]
      OBVIOUS
    <3>2. Alters(get.pool, q)
      BY <1>3, <3>1, FlagAlters
    <3>3. QED
      BY <1>5, <3>1, <3>2
  <2>2. Alters(pool, pool')
    BY <1>3, <2>1, AltersIsTransitive
  <2>3. QED
    BY <1>1, <1>2, <1>5, <2>2, QueuesEInv
<1>6. CASE /\ ~closed /\ ~destroyed /\ get.client # None
           /\ pool' = Given(get.pool, get.client, dispatched + 1)
           /\ Outcome(get.pool, get.client, dispatched + 1)
           /\ stack' = <<Frame("dispatch", get.client)>> \o stack
           /\ UNCHANGED queueVars
  <2>0. PICK p : p = get.pool
    OBVIOUS
  <2>1. PICK c \in Ids, r \in Requests : c = get.client /\ r = dispatched + 1
    BY <1>2, <1>3, <1>6
  <2>2. stack' \in Seq(Frames)
    BY <1>6, <2>1, FramesOfClients, NewStacks DEF EInv
  <2>3. closing # "clients" /\ ~destroyed
    BY <1>6 DEF EInv
  <2>4. 1..dispatched' \subseteq 1..dispatched \cup {r}
    BY <1>1, <2>1 DEF EInv, IInv
  <2>5. Range(waiting) \subseteq Range(waiting') \cup {r}
    BY <1>6 DEF queueVars
  <2>6. Alters(pool, p) /\ pool' = Given(p, c, r) /\ Outcome(p, c, r)
    BY <1>3, <1>6, <2>0, <2>1
  <2>7. QED
    BY <1>1, <2>2, <2>3, <2>4, <2>5, <2>6, GivesEInv
<1>7. QED
  BY <1>0, <1>4, <1>5, <1>6 DEF Dispatch

LEMMA AddUpstreamEInv == ASSUME EInv, IInv', AddUpstream PROVE EInv'
<1>1. PICK p : p = Created(pool).pool
  OBVIOUS
<1>2. pool' = Reweighed(p, Range(p.clients), MaxWeight) /\ Spares(pool) # {}
  BY <1>1 DEF AddUpstream
<1>3. Alters(pool, p) /\ Sound(p)
  BY <1>1, <1>2, CreatedAlters DEF EInv, Alters
<1>4. MaxWeight \in 0..MaxWeight
  BY WeightAssumption
<1>5. Alters(p, pool')
  BY <1>2, <1>3, <1>4, ReweighedAlters
<1>6. Alters(pool, pool')
  BY <1>3, <1>5, AltersIsTransitive
<1>7. QED
  BY <1>6, AltersEInv DEF AddUpstream, EInv

LEMMA RemoveUpstreamEInv == ASSUME EInv, IInv', RemoveUpstream PROVE EInv'
<1>1. PICK c \in Range(pool.clients) : pool' = Removed(pool, {c})
  BY DEF RemoveUpstream
<1>2. {c} \in SUBSET Ids
  BY PoolMeans DEF EInv, Sound
<1>3. Alters(pool, pool')
  BY <1>1, <1>2, RemovedAlters DEF EInv
<1>4. QED
  BY <1>3, AltersEInv DEF RemoveUpstream, EInv

LEMMA CloseEInv == ASSUME EInv, IInv', Close PROVE EInv'
<1>1. /\ closed' = TRUE /\ ~closed
      /\ UNCHANGED <<kind, queueVars, destroyed, userDestroy, stack, dispatched, done>>
  BY DEF Close
<1>2. CASE IsEmpty(queue) /\ CloseClients(pool)
  BY <1>1, <1>2, CloseClientsEInv DEF EInv
<1>3. CASE closing' = "queue" /\ UNCHANGED <<pool, awaits>>
  <2>1. Sound(pool)'
    BY <1>1, <1>3 DEF EInv, Sound, Tracked, IsPool, Class
  <2>2. Accounted'
    BY <1>1, <1>3 DEF EInv, Accounted, SomeHolds, queueVars
  <2>3. QED
    BY <1>1, <1>3, <2>1, <2>2 DEF EInv, queueVars
<1>4. QED
  BY <1>2, <1>3 DEF Close

LEMMA DestroyEInv == ASSUME EInv, IInv', Destroy PROVE EInv'
BY DestroyAllEInv DEF Destroy, EInv

LEMMA ClientsClosedEInv == ASSUME EInv, IInv', ClientsClosed PROVE EInv'
<1>1. /\ closing = "clients" /\ closing' = "done" /\ closed' = closed
      /\ userDestroy' = userDestroy /\ UNCHANGED <<kind, stack, dispatched>>
      /\ \A c \in awaits : pool.at[c].life = "none"
  BY DEF ClientsClosed
<1>2. CASE ~destroyed /\ DestroyAll
  <2>1. \A c \in Ids : pool.at[c].held = {}
    BY <1>1, <1>2 DEF EInv, Awaited, Sound, Tracked
  <2>2. QED
    BY <1>1, <1>2, <2>1, DestroyAllEInv DEF EInv
<1>3. CASE destroyed /\ UNCHANGED <<pool, queueVars, destroyed, done>>
  <2>1. Sound(pool)'
    BY <1>1, <1>3 DEF EInv, Sound, Tracked, IsPool, Class
  <2>2. Accounted'
    BY <1>1, <1>3 DEF EInv, Accounted, SomeHolds, queueVars
  <2>3. QED
    BY <1>1, <1>3, <2>1, <2>2 DEF EInv, queueVars, AllDestroyed
<1>4. QED
  BY <1>2, <1>3 DEF ClientsClosed

\* The pool hands what it shifts to client c, after the changes to p.
LEMMA HandOverEInv ==
  ASSUME EInv, IInv', NEW p, Alters(pool, p), NEW c \in Ids, HandOver(p, c),
         First(queue) # Undefined \/ ~IsEmpty(queue), stack' \in Seq(Frames),
         UNCHANGED <<kind, lifeVars, dispatched>>
  PROVE  EInv'
<1>1. waiting \in Seq(Requests) /\ waiting # <<>> /\ First(queue) = Head(waiting)
  BY FirstIsOldest DEF EInv, IInv
<1>2. PICK r \in Requests : r = First(queue)
  BY <1>1, RangeOfTail
<1>3. /\ pool' = Given(p, c, r) /\ Outcome(p, c, r) /\ waiting' = Tail(waiting)
  BY <1>2 DEF HandOver
<1>4. Range(waiting) \subseteq Range(waiting') \cup {r}
  BY <1>1, <1>2, <1>3, RangeOfTail
<1>5. ~destroyed /\ closing # "clients"
  BY <1>1 DEF EInv
<1>6. 1..dispatched' \subseteq 1..dispatched \cup {r}
  OBVIOUS
<1>7. QED
  BY <1>3, <1>4, <1>5, <1>6, GivesEInv

\* emit('drain') if it is owed.
LEMMA EmitEInv ==
  ASSUME EInv, IInv', NEW p, Alters(pool, p), Emit(p), stack # <<>>,
         UNCHANGED <<kind, queueVars, lifeVars, dispatched, done>>
  PROVE  EInv'
<1>1. stack' \in Seq(Frames)
  BY FramesOfNone, StackMeans DEF EInv, Emit
<1>2. CASE pool' = [p EXCEPT !.needDrain = FALSE]
  <2>1. PICK q : q = [p EXCEPT !.needDrain = FALSE]
    OBVIOUS
  <2>2. Alters(p, q)
    <3>1. Sound(p)
      BY DEF Alters
    <3>2. QED
      BY <2>1, <3>1, FlagAlters
  <2>3. Alters(pool, pool')
    BY <1>2, <2>1, <2>2, AltersIsTransitive
  <2>4. QED
    BY <1>1, <2>3, AltersEInv
<1>3. CASE pool' = p
  BY <1>1, <1>3, AltersEInv
<1>4. QED
  BY <1>2, <1>3 DEF Emit

LEMMA BusyOwingAlters ==
  ASSUME NEW p, Sound(p), NEW c \in Ids
  PROVE  Alters(p, Busy(Owing(p, c), c))
<1>1. PICK q : q = Owing(p, c)
  OBVIOUS
<1>2. Alters(p, q)
  BY <1>1, OwingAlters
<1>3. Sound(q)
  BY <1>2 DEF Alters
<1>4. Alters(q, Busy(q, c))
  BY <1>3, BusyAlters
<1>5. QED
  BY <1>1, <1>2, <1>4, AltersIsTransitive

LEMMA DispatchReturns ==
  ASSUME EInv, IInv', DispatchFree \/ DispatchBusy
  PROVE  EInv'
<1>1. stack # <<>> /\ stack \in Seq(Frames) /\ Top.at = "dispatch"
  BY DEF EInv, DispatchFree, DispatchBusy, Returned, At
<1>2. stack' \in Seq(Frames) /\ Top.c \in Ids
  BY <1>1, StackMeans DEF DispatchFree, DispatchBusy
<1>3. CASE DispatchFree
  BY <1>2, <1>3, AltersIsReflexive, AltersEInv DEF DispatchFree, EInv
<1>4. CASE DispatchBusy
  <2>1. PICK p : p = Busy(Owing(pool, Top.c), Top.c)
    OBVIOUS
  <2>2. PICK has : has = HasDispatcher(p)
    OBVIOUS
  <2>3. PICK b \in BOOLEAN : b = ~has.has
    OBVIOUS
  <2>4. Alters(pool, p) /\ Sound(p)
    BY <1>2, <2>1, BusyOwingAlters DEF EInv, Alters
  <2>5. Alters(p, has.pool) /\ Sound(has.pool)
    BY <2>2, <2>4, HasAlters DEF Alters
  <2>6. Alters(has.pool, pool')
    BY <1>4, <2>1, <2>2, <2>3, <2>5, FlagAlters DEF DispatchBusy
  <2>7. Alters(pool, pool')
    BY <2>4, <2>5, <2>6, AltersIsTransitive
  <2>8. QED
    BY <1>2, <1>4, <2>7, AltersEInv DEF DispatchBusy
<1>5. QED
  BY <1>3, <1>4

LEMMA DrainLoopEInv == ASSUME EInv, IInv', DrainLoop PROVE EInv'
<1>1. /\ stack # <<>> /\ stack \in Seq(Frames) /\ Top.at = "drainLoop"
      /\ UNCHANGED <<kind, lifeVars, dispatched>>
  BY DEF EInv, DrainLoop, At
<1>2. PICK c \in Ids : c = Top.c
  BY <1>1, StackMeans
<1>3. CASE First(queue) # Undefined /\ HandOver(pool, Top.c) /\ stack' = Goto(Frame("onDrain", Top.c))
  <2>1. stack' \in Seq(Frames)
    BY <1>1, <1>2, <1>3, StackMeans, FramesOfClients
  <2>2. Alters(pool, pool)
    BY AltersIsReflexive DEF EInv
  <2>3. QED
    BY <1>1, <1>2, <1>3, <2>1, <2>2, HandOverEInv
<1>4. CASE Emit([pool EXCEPT !.at[Top.c].need = FALSE]) /\ UNCHANGED <<queueVars, done>>
  <2> DEFINE a == [pool.at[c] EXCEPT !.need = FALSE]
  <2>1. PICK p : p = [pool EXCEPT !.at[c] = a]
    OBVIOUS
  <2>2. pool.at[c] \in Clients
    BY PoolMeans DEF EInv, Sound
  <2>3. a \in Clients /\ a.held = pool.at[c].held /\ a.life = pool.at[c].life
    BY <2>2 DEF Clients
  <2>4. Emit(p)
    BY <1>2, <1>4, <2>1
  <2> HIDE DEF a
  <2>5. Alters(pool, p)
    BY <2>1, <2>3, ClientAlters DEF EInv
  <2>6. QED
    BY <1>1, <1>4, <2>4, <2>5, EmitEInv
<1>5. QED
  BY <1>3, <1>4 DEF DrainLoop

LEMMA OnDrainReturns ==
  ASSUME EInv, IInv', OnDrainFree \/ OnDrainBusy
  PROVE  EInv'
<1>1. stack # <<>> /\ stack \in Seq(Frames) /\ Top.at = "onDrain"
  BY DEF EInv, OnDrainFree, OnDrainBusy, Returned, At
<1>2. Top.c \in Ids
  BY <1>1, StackMeans
<1>3. stack' \in Seq(Frames)
  BY <1>1, <1>2, StackMeans, FramesOfClients, FramesOfNone DEF OnDrainFree, OnDrainBusy
<1>4. CASE OnDrainFree
  BY <1>3, <1>4, AltersIsReflexive, AltersEInv DEF OnDrainFree, EInv
<1>5. CASE OnDrainBusy
  BY <1>2, <1>3, <1>5, BusyOwingAlters, AltersEInv DEF OnDrainBusy, EInv
<1>6. QED
  BY <1>4, <1>5

LEMMA QueueLoopEInv == ASSUME EInv, IInv', QueueLoop PROVE EInv'
<1>0. PICK get : get = GetDispatcher(pool)
  OBVIOUS
<1>1. /\ stack # <<>> /\ stack \in Seq(Frames)
      /\ UNCHANGED <<kind, lifeVars, dispatched>>
  BY DEF EInv, QueueLoop, At
<1>2. Alters(pool, get.pool) /\ (get.client # None => get.client \in Ids)
  BY <1>0, GetAlters DEF EInv
<1>3. CASE Emit(pool) /\ UNCHANGED <<queueVars, done>>
  BY <1>1, <1>3, AltersIsReflexive, EmitEInv DEF EInv
<1>4. CASE /\ pool' = get.pool /\ stack' = Goto(Frame("check", None))
           /\ UNCHANGED <<queueVars, done>>
  <2>1. stack' \in Seq(Frames)
    BY <1>1, <1>4, StackMeans, FramesOfNone
  <2>2. QED
    BY <1>1, <1>2, <1>4, <2>1, AltersEInv
<1>5. CASE /\ ~IsEmpty(queue) /\ get.client # None /\ HandOver(get.pool, get.client)
           /\ stack' = Goto(Frame("drainQueue", get.client))
  <2>1. stack' \in Seq(Frames)
    BY <1>1, <1>2, <1>5, StackMeans, FramesOfClients
  <2>2. PICK p : p = get.pool
    OBVIOUS
  <2>3. PICK c \in Ids : c = get.client
    BY <1>2, <1>5
  <2>4. HandOver(p, c) /\ Alters(pool, p)
    BY <1>2, <1>5, <2>2, <2>3
  <2>5. QED
    BY <1>1, <1>5, <2>1, <2>4, HandOverEInv
<1>6. QED
  BY <1>0, <1>3, <1>4, <1>5 DEF QueueLoop

LEMMA DrainQueueReturns ==
  ASSUME EInv, IInv', DrainQueueFree \/ DrainQueueBusy
  PROVE  EInv'
<1>1. stack # <<>> /\ stack \in Seq(Frames) /\ Top.at = "drainQueue"
  BY DEF EInv, DrainQueueFree, DrainQueueBusy, Returned, At
<1>2. Top.c \in Ids
  BY <1>1, StackMeans
<1>3. stack' \in Seq(Frames)
  BY <1>1, StackMeans, FramesOfNone DEF DrainQueueFree, DrainQueueBusy
<1>4. CASE DrainQueueFree
  BY <1>3, <1>4, AltersIsReflexive, AltersEInv DEF DrainQueueFree, EInv
<1>5. CASE DrainQueueBusy
  <2>1. PICK p : p = Busy(Owing(pool, Top.c), Top.c)
    OBVIOUS
  <2>2. PICK has : has = HasDispatcher(p)
    OBVIOUS
  <2>3. Alters(pool, p) /\ Sound(p)
    BY <1>2, <2>1, BusyOwingAlters DEF EInv, Alters
  <2>4. Alters(p, has.pool)
    BY <2>2, <2>3, HasAlters
  <2>5. Alters(pool, has.pool) /\ pool' = has.pool
    BY <1>5, <2>1, <2>2, <2>3, <2>4, AltersIsTransitive DEF DrainQueueBusy
  <2>6. QED
    BY <1>3, <1>5, <2>5, AltersEInv DEF DrainQueueBusy
<1>6. QED
  BY <1>4, <1>5

LEMMA CheckClosedEInv == ASSUME EInv, IInv', CheckClosed PROVE EInv'
<1>1. /\ stack # <<>> /\ stack \in Seq(Frames) /\ stack' = Caller
      /\ UNCHANGED <<kind, queueVars, closed, destroyed, userDestroy, dispatched, done>>
  BY DEF EInv, CheckClosed, At
<1>2. stack' \in Seq(Frames)
  BY <1>1, StackMeans
<1>3. CASE closing = "queue" /\ IsEmpty(queue) /\ CloseClients(pool)
  <2>1. closed'
    BY <1>1, <1>3 DEF EInv
  <2>2. QED
    BY <1>1, <1>2, <1>3, <2>1, CloseClientsEInv
<1>4. CASE UNCHANGED <<pool, awaits, closing>>
  <2>1. UNCHANGED lifeVars
    BY <1>1, <1>4 DEF lifeVars
  <2>2. Alters(pool, pool')
    BY <1>4, AltersIsReflexive DEF EInv
  <2>3. QED
    BY <1>1, <1>2, <2>1, <2>2, AltersEInv
<1>5. QED
  BY <1>3, <1>4 DEF CheckClosed

LEMMA FramesAlone == <<>> \in Seq(Frames) /\ \A f \in Frames : <<f>> \in Seq(Frames)
OBVIOUS

\* kOnDrain begins.
LEMMA OnDrainAlters ==
  ASSUME NEW p, Sound(p), NEW c \in Ids, OnDrain(p, c)
  PROVE  Alters(p, pool') /\ stack' \in Seq(Frames)
<1>1. stack' \in Seq(Frames)
  <2>1. stack' = <<Frame("drainLoop", c)>> \/ stack' = <<>>
    BY DEF OnDrain
  <2>2. Frame("drainLoop", c) \in Frames
    BY FramesOfClients
  <2>3. QED
    BY <2>1, <2>2, FramesAlone
<1>2. CASE pool' = [p EXCEPT !.probe = IF p.probe = c THEN None ELSE p.probe]
  <2>1. PICK x \in Ids \cup {None} : x = IF p.probe = c THEN None ELSE p.probe
    BY DEF Sound, IsPool
  <2>2. PICK q : q = [p EXCEPT !.probe = x]
    OBVIOUS
  <2>3. Alters(p, q)
    BY <2>2, ProbeAlters
  <2>4. pool' = q
    BY <1>2, <2>1, <2>2
  <2>5. QED
    BY <1>1, <2>3, <2>4
<1>3. CASE pool' = p
  BY <1>1, <1>3, AltersIsReflexive
<1>4. QED
  BY <1>2, <1>3 DEF OnDrain

LEMMA DrainQueueIfStack ==
  ASSUME NEW b, DrainQueueIf(b)
  PROVE  stack' \in Seq(Frames)
BY FramesOfNone, FramesAlone DEF DrainQueueIf

LEMMA ClientDrainsEInv ==
  ASSUME EInv, IInv', NEW c \in Ids, ClientDrains(c)
  PROVE  EInv'
<1> DEFINE a == [pool.at[c] EXCEPT !.owes = FALSE]
<1>1. PICK p : p = [pool EXCEPT !.at[c] = a]
  OBVIOUS
<1>2. pool.at[c] \in Clients
  BY PoolMeans DEF EInv, Sound
<1>3. a \in Clients /\ a.held = pool.at[c].held /\ a.life = pool.at[c].life
  BY <1>2 DEF Clients
<1>4. OnDrain(p, c)
  BY <1>1 DEF ClientDrains
<1> HIDE DEF a
<1>5. Alters(pool, p)
  BY <1>1, <1>3, ClientAlters DEF EInv
<1>6. Sound(p)
  BY <1>5 DEF Alters
<1>7. Alters(p, pool') /\ stack' \in Seq(Frames)
  BY <1>4, <1>6, OnDrainAlters
<1>8. Alters(pool, pool')
  BY <1>5, <1>7, AltersIsTransitive
<1>9. QED
  BY <1>7, <1>8, AltersEInv DEF ClientDrains

LEMMA MicrotaskEInv == ASSUME EInv, IInv', Microtask PROVE EInv'
<1>1. PICK p : p = [pool EXCEPT !.adds = Tail(@)]
  OBVIOUS
<1>2. pool.adds # <<>> /\ pool.adds \in Seq(Ids)
  BY PoolMeans DEF EInv, Sound, Microtask
<1>3. PICK c \in Ids : c = Head(pool.adds)
  BY <1>2, RangeOfTail
<1>4. Alters(pool, p)
  BY <1>1, <1>2, TaskAlters DEF EInv
<1>5. Sound(p)
  BY <1>4 DEF Alters
<1>6. CASE OnDrain(p, c)
  <2>1. Alters(p, pool') /\ stack' \in Seq(Frames)
    BY <1>5, <1>6, OnDrainAlters
  <2>2. Alters(pool, pool')
    BY <1>4, <2>1, AltersIsTransitive
  <2>3. QED
    BY <2>1, <2>2, AltersEInv DEF Microtask
<1>7. CASE pool' = p /\ UNCHANGED stack
  BY <1>4, <1>7, AltersEInv DEF Microtask, EInv
<1>8. QED
  BY <1>1, <1>3, <1>6, <1>7 DEF Microtask

LEMMA ConnectsEInv ==
  ASSUME EInv, IInv', NEW c \in Ids, Connects(c)
  PROVE  EInv'
<1>1. PICK proto \in Protocols :
        LET opens == pool.probe = c /\ proto # "h2"
            weight == IF Class = "balanced" THEN Heavier(pool.at[c].weight)
                      ELSE pool.at[c].weight
        IN /\ pool' = [pool EXCEPT
                         !.at[c] = [@ EXCEPT !.conn = proto, !.old = FALSE, !.weight = weight],
                         !.protocol = IF Class = "pool" THEN proto ELSE @,
                         !.probe = IF opens THEN None ELSE @]
           /\ DrainQueueIf(opens)
  BY DEF Connects
<1>2. proto \in {"h1", "h2"}
  BY DEF Protocols
<1>3. pool.at[c] \in Clients /\ pool.probe \in Ids \cup {None} /\ IsPool(pool)
  BY PoolMeans DEF EInv, Sound, IsPool
<1>4. PICK w : w = IF Class = "balanced" THEN Heavier(pool.at[c].weight) ELSE pool.at[c].weight
  OBVIOUS
<1>5. w \in 0..MaxWeight
  <2>1. pool.at[c].weight \in 0..MaxWeight
    BY <1>3 DEF Clients
  <2>2. Heavier(pool.at[c].weight) \in 0..MaxWeight
    BY <2>1, WeightAssumption DEF Heavier
  <2>3. QED
    BY <1>4, <2>1, <2>2
<1> DEFINE a == [pool.at[c] EXCEPT !.conn = proto, !.old = FALSE, !.weight = w]
<1>6. a \in Clients /\ a.held = pool.at[c].held /\ a.life = pool.at[c].life
  BY <1>2, <1>3, <1>5 DEF Clients
<1>7. PICK q : q = [pool EXCEPT !.at[c] = a]
  OBVIOUS
<1>8. PICK x : x = IF pool.probe = c /\ proto # "h2" THEN None ELSE pool.probe
  OBVIOUS
<1>9. PICK y : y = IF Class = "pool" THEN proto ELSE pool.protocol
  OBVIOUS
<1>10. pool' = [q EXCEPT !.protocol = y, !.probe = x]
  <2>1. pool' = [pool EXCEPT !.at[c] = a, !.protocol = y, !.probe = x]
    BY <1>1, <1>4, <1>8, <1>9
  <2> HIDE DEF a
  <2>2. QED
    BY <1>7, <2>1
<1> HIDE DEF a
<1>11. Alters(pool, q) /\ IsPool(q) /\ Sound(q)
  BY <1>6, <1>7, ClientAlters DEF EInv, Alters, Sound
<1>12. x \in Ids \cup {None} /\ y \in {"none", "h1", "h2"}
  BY <1>2, <1>3, <1>8, <1>9 DEF IsPool
<1>13. PICK r : r = [q EXCEPT !.protocol = y, !.probe = x]
  OBVIOUS
<1>14. /\ IsPool(r) /\ r.clients = q.clients /\ r.retiring = q.retiring
       /\ r.index = q.index /\ r.at = q.at
  BY <1>11, <1>12, <1>13 DEF IsPool
<1>15. Alters(q, r)
  BY <1>11, <1>14, Stays
<1>16. Alters(pool, pool')
  BY <1>10, <1>11, <1>13, <1>15, AltersIsTransitive
<1>17. stack' \in Seq(Frames)
  BY <1>1, DrainQueueIfStack
<1>18. QED
  BY <1>16, <1>17, AltersEInv DEF Connects

LEMMA SmallStepsEInv ==
  ASSUME EInv, IInv', NEW c \in Ids, Redials(c) \/ Expires(c)
  PROVE  EInv'
<1>1. pool.at[c] \in Clients
  BY PoolMeans DEF EInv, Sound
<1>2. CASE Redials(c)
  <2> DEFINE a == [pool.at[c] EXCEPT !.conn = "connecting"]
  <2>1. a \in Clients /\ a.held = pool.at[c].held /\ a.life = pool.at[c].life
    BY <1>1 DEF Clients
  <2>2. pool' = [pool EXCEPT !.at[c] = a]
    BY <1>2 DEF Redials
  <2> HIDE DEF a
  <2>3. Alters(pool, pool')
    BY <2>1, <2>2, ClientAlters DEF EInv
  <2>4. QED
    BY <1>2, <2>3, AltersEInv DEF Redials, EInv
<1>3. CASE Expires(c)
  <2> DEFINE a == [pool.at[c] EXCEPT !.old = TRUE]
  <2>1. a \in Clients /\ a.held = pool.at[c].held /\ a.life = pool.at[c].life
    BY <1>1 DEF Clients
  <2>2. pool' = [pool EXCEPT !.at[c] = a]
    BY <1>3 DEF Expires
  <2> HIDE DEF a
  <2>3. Alters(pool, pool')
    BY <2>1, <2>2, ClientAlters DEF EInv
  <2>4. QED
    BY <1>3, <2>3, AltersEInv DEF Expires, EInv
<1>4. QED
  BY <1>2, <1>3

\* A client loses its connection.
LEMMA LostMeans ==
  ASSUME Sound(pool), NEW c \in Ids, NEW failed, NEW p, p = Lost(c, failed)
  PROVE  /\ Sound(p) /\ p.clients = pool.clients /\ Lets(pool, p)
         /\ \A d \in Ids : pool.at[d].held \ p.at[d].held \subseteq failed
<1> DEFINE a == [pool.at[c] EXCEPT !.conn = "none", !.held = pool.at[c].held \ failed]
<1>1. pool.at[c] \in Clients /\ IsPool(pool) /\ pool.probe \in Ids \cup {None}
  BY PoolMeans DEF Sound, IsPool
<1>2. a \in Clients /\ a.held = pool.at[c].held \ failed /\ a.life = pool.at[c].life
  BY <1>1 DEF Clients
<1>3. PICK x : x = IF pool.probe = c THEN None ELSE pool.probe
  OBVIOUS
<1>4. PICK q : q = [pool EXCEPT !.at[c] = a]
  OBVIOUS
<1>5. p = [q EXCEPT !.probe = x]
  <2>1. p = [pool EXCEPT !.at[c] = a, !.probe = x]
    BY <1>3 DEF Lost
  <2> HIDE DEF a
  <2>2. QED
    BY <1>4, <2>1
<1> HIDE DEF a
<1>6. /\ IsPool(q) /\ q.clients = pool.clients /\ q.retiring = pool.retiring
      /\ q.index = pool.index
      /\ \A d \in Ids : q.at[d] = IF d = c THEN a ELSE pool.at[d]
  BY <1>1, <1>2, <1>4, PutMeans
<1>7. /\ IsPool(p) /\ p.clients = pool.clients /\ p.retiring = pool.retiring
      /\ p.index = pool.index /\ p.at = q.at
  <2>1. x \in Ids \cup {None}
    BY <1>1, <1>3
  <2>2. QED
    BY <1>5, <1>6, <2>1 DEF IsPool
<1>8. \A d \in Ids :
        /\ p.at[d].life = pool.at[d].life
        /\ p.at[d].held \subseteq pool.at[d].held
        /\ pool.at[d].held \ p.at[d].held \subseteq failed
  BY <1>2, <1>6, <1>7
<1>9. Tracked(p)
  BY <1>7, <1>8 DEF Sound, Tracked
<1>10. QED
  BY <1>7, <1>8, <1>9 DEF Sound, Lets

LEMMA LetsAlters ==
  ASSUME NEW p, NEW q, NEW r, Lets(p, q), Alters(q, r)
  PROVE  Lets(p, r)
BY DEF Lets, Alters

\* What the pool does then.
LEMMA LosesEInv ==
  ASSUME EInv, IInv', NEW c \in Ids, NEW failed, NEW p, p = Lost(c, failed),
         Alters(p, pool'), done' = done \cup failed, stack' \in Seq(Frames),
         UNCHANGED <<kind, queueVars, lifeVars, dispatched>>
  PROVE  EInv'
<1>1. /\ Lets(pool, p)
      /\ \A d \in Ids : pool.at[d].held \ p.at[d].held \subseteq failed
  BY LostMeans DEF EInv
<1>2. Lets(pool, pool')
  BY <1>1, LetsAlters
<1>3. \A d \in Ids : pool.at[d].held \ pool'.at[d].held \subseteq done'
  BY <1>1 DEF Alters
<1>4. LetsGo
  BY <1>2, <1>3 DEF LetsGo
<1>5. QED
  BY <1>4, LetsGoEInv

LEMMA FaultsEInv ==
  ASSUME EInv, IInv', NEW c \in Ids, ConnectFails(c) \/ Disconnects(c)
  PROVE  EInv'
<1>1. CASE ConnectFails(c)
  <2>1. PICK failed \in {{}, pool.at[c].held} :
          /\ LET p == Lost(c, failed)
             IN pool' = IF c \in Range(p.clients) /\ Class # "balanced"
                        THEN Retired(p, {c}) ELSE Penalised(p, c)
          /\ done' = done \cup failed
          /\ DrainQueueIf(MustHandOver(c))
          /\ UNCHANGED <<kind, queueVars, lifeVars, dispatched>>
    BY <1>1 DEF ConnectFails
  <2>2. PICK p : p = Lost(c, failed)
    OBVIOUS
  <2>3. Sound(p)
    BY <2>2, LostMeans DEF EInv
  <2>4. Alters(p, Retired(p, {c})) /\ Alters(p, Penalised(p, c))
    BY <2>3, RetiredAlters, PenalisedAlters
  <2>5. Alters(p, pool')
    BY <2>1, <2>2, <2>4
  <2>6. stack' \in Seq(Frames)
    BY <2>1, DrainQueueIfStack
  <2>7. QED
    BY <2>1, <2>2, <2>5, <2>6, LosesEInv
<1>2. CASE Disconnects(c)
  <2>1. PICK failed \in {{}, pool.at[c].held}, bySocket \in BOOLEAN :
          /\ LET p == Lost(c, failed)
             IN pool' = IF bySocket THEN Penalised(p, c) ELSE p
          /\ done' = done \cup failed
          /\ DrainQueueIf(pool.probe = c)
          /\ UNCHANGED <<kind, queueVars, lifeVars, dispatched>>
    BY <1>2 DEF Disconnects
  <2>2. PICK p : p = Lost(c, failed)
    OBVIOUS
  <2>3. Sound(p)
    BY <2>2, LostMeans DEF EInv
  <2>4. Alters(p, p) /\ Alters(p, Penalised(p, c))
    BY <2>3, AltersIsReflexive, PenalisedAlters
  <2>5. Alters(p, pool')
    BY <2>1, <2>2, <2>4
  <2>6. stack' \in Seq(Frames)
    BY <2>1, DrainQueueIfStack
  <2>7. QED
    BY <2>1, <2>2, <2>5, <2>6, LosesEInv
<1>3. QED
  BY <1>1, <1>2

LEMMA CompletesEInv ==
  ASSUME EInv, IInv', NEW c \in Ids, NEW r \in Requests, Completes(c, r)
  PROVE  EInv'
<1> DEFINE a == [pool.at[c] EXCEPT !.held = pool.at[c].held \ {r}]
<1>1. pool.at[c] \in Clients /\ IsPool(pool)
  BY PoolMeans DEF EInv, Sound
<1>2. a \in Clients /\ a.held = pool.at[c].held \ {r} /\ a.life = pool.at[c].life
  BY <1>1 DEF Clients
<1>3. PICK p : p = [pool EXCEPT !.at[c] = a]
  OBVIOUS
<1>4. /\ pool' = p /\ done' = done \cup {r}
      /\ UNCHANGED <<kind, queueVars, lifeVars, stack, dispatched>>
  BY <1>3 DEF Completes
<1> HIDE DEF a
<1>5. /\ IsPool(p) /\ p.clients = pool.clients /\ p.retiring = pool.retiring
      /\ p.index = pool.index
      /\ \A d \in Ids : p.at[d] = IF d = c THEN a ELSE pool.at[d]
  BY <1>1, <1>2, <1>3, PutMeans
<1>6. \A d \in Ids :
        /\ p.at[d].life = pool.at[d].life
        /\ p.at[d].held \subseteq pool.at[d].held
        /\ pool.at[d].held \ p.at[d].held \subseteq {r}
  BY <1>2, <1>5
<1>7. Sound(p)
  BY <1>5, <1>6 DEF EInv, Sound, Tracked
<1>8. Lets(pool, p)
  BY <1>6, <1>7 DEF Lets
<1>9. LetsGo
  BY <1>4, <1>6, <1>8 DEF LetsGo, EInv
<1>10. QED
  BY <1>9, LetsGoEInv

LEMMA ClientEndsEInv ==
  ASSUME EInv, IInv', NEW c \in Ids, ClientEnds(c)
  PROVE  EInv'
<1> DEFINE a == [pool.at[c] EXCEPT !.life = "destroyed"]
<1>1. pool.at[c] \in Clients /\ IsPool(pool) /\ pool.at[c].held = {}
  BY PoolMeans DEF EInv, Sound, ClientEnds
<1>2. a \in Clients /\ a.held = {} /\ a.life = "destroyed"
  BY <1>1 DEF Clients
<1>3. PICK p : p = [pool EXCEPT !.at[c] = a]
  OBVIOUS
<1>4. pool' = p /\ UNCHANGED <<kind, queueVars, lifeVars, stack, dispatched, done>>
  BY <1>3 DEF ClientEnds
<1> HIDE DEF a
<1>5. /\ IsPool(p) /\ p.clients = pool.clients /\ p.retiring = pool.retiring
      /\ p.index = pool.index
      /\ \A d \in Ids : p.at[d] = IF d = c THEN a ELSE pool.at[d]
  BY <1>1, <1>2, <1>3, PutMeans
<1>6. Sound(p)
  BY <1>2, <1>5 DEF EInv, Sound, Tracked
<1>7. Lets(pool, p) /\ \A d \in Ids : pool.at[d].held \ p.at[d].held \subseteq done'
  BY <1>1, <1>2, <1>5, <1>6 DEF Lets
<1>8. LetsGo
  BY <1>4, <1>7 DEF LetsGo, EInv
<1>9. QED
  BY <1>8, LetsGoEInv

LEMMA ClientGoneEInv ==
  ASSUME EInv, IInv', NEW c \in Ids, ClientGone(c)
  PROVE  EInv'
<1>1. PICK x : x = IF pool.probe = c /\ Connected(c) THEN None ELSE pool.probe
  OBVIOUS
<1>2. PICK p : p = [pool EXCEPT !.at[c] = NoClient]
  OBVIOUS
<1>3. /\ pool' = [p EXCEPT !.retiring = pool.retiring \ {c}, !.probe = x]
      /\ DrainQueueIf(pool.probe = c /\ Connected(c))
      /\ done' = done \cup pool.at[c].held
      /\ UNCHANGED <<kind, queueVars, lifeVars, dispatched>>
  BY <1>1, <1>2 DEF ClientGone
<1>4. IsPool(pool) /\ x \in Ids \cup {None} /\ pool.retiring \ {c} \subseteq Ids
  BY <1>1, PoolMeans DEF EInv, Sound, IsPool
<1>5. /\ IsPool(p) /\ p.clients = pool.clients /\ p.retiring = pool.retiring
      /\ p.index = pool.index
      /\ \A d \in Ids : p.at[d] = IF d = c THEN NoClient ELSE pool.at[d]
  <2>1. PICK a \in Clients : a = NoClient
    BY NoClientIsClient
  <2>2. IsPool(pool) /\ p = [pool EXCEPT !.at[c] = a]
    BY <1>2, <1>4, <2>1
  <2>3. /\ IsPool(p) /\ p.clients = pool.clients /\ p.retiring = pool.retiring
        /\ p.index = pool.index
        /\ p.at = [pool.at EXCEPT ![c] = a] /\ pool.at \in [Ids -> Clients]
    BY <2>2 DEF IsPool
  <2>4. QED
    BY <2>1, <2>3
<1>6. PICK q : q = [p EXCEPT !.retiring = pool.retiring \ {c}, !.probe = x]
  OBVIOUS
<1>7. /\ IsPool(q) /\ q.clients = pool.clients /\ q.retiring = pool.retiring \ {c}
      /\ q.index = pool.index /\ q.at = p.at
  BY <1>4, <1>5, <1>6 DEF IsPool
<1>8. \A d \in Ids : IF d = c THEN q.at[d].held = {} /\ q.at[d].life = "none"
                     ELSE q.at[d] = pool.at[d]
  BY <1>5, <1>7, NoClientIsClient
<1>9. Sound(q)
  BY <1>7, <1>8 DEF EInv, Sound, Tracked
<1>10. Lets(pool, q) /\ \A d \in Ids : pool.at[d].held \ q.at[d].held \subseteq done'
  BY <1>3, <1>8, <1>9 DEF Lets
<1>11. stack' \in Seq(Frames)
  BY <1>3, DrainQueueIfStack
<1>12. LetsGo
  BY <1>3, <1>6, <1>10, <1>11 DEF LetsGo
<1>13. QED
  BY <1>12, LetsGoEInv

LEMMA InitEInv == Init => EInv
<1> SUFFICES ASSUME Init PROVE EInv
  OBVIOUS
<1>1. IInv
  BY InitIInv
<1>2. pool.at = [c \in Ids |-> NoClient] /\ NoClient \in Clients
  BY NoClientIsClient DEF Init
<1>3. IsPool(pool)
  BY <1>2 DEF Init, IsPool
<1>4. \A c \in Ids : pool.at[c].held = {} /\ pool.at[c].life = "none"
  BY <1>2, NoClientIsClient
<1>5. pool.index = -1
  BY DEF Init
<1>6. Sound(pool)
  BY <1>3, <1>4, <1>5 DEF Sound, Tracked
<1>7. Accounted
  BY DEF Init, Accounted
<1>8. NoneDestroyed(pool) /\ stack \in Seq(Frames)
  BY <1>4 DEF Init, NoneDestroyed
<1>9. QED
  BY <1>1, <1>6, <1>7, <1>8 DEF Init, EInv

LEMMA NextEInv == ASSUME EInv, [Next]_vars PROVE EInv'
<1>1. IInv'
  BY NextIInv DEF EInv
<1>2. ASSUME UNCHANGED vars PROVE EInv'
  <2>1. UNCHANGED <<kind, pool, queueVars, lifeVars, stack, dispatched, done>>
    BY <1>2 DEF vars
  <2>2. Alters(pool, pool')
    BY <2>1, AltersIsReflexive DEF EInv
  <2>3. QED
    BY <1>1, <2>1, <2>2, AltersEInv DEF EInv
<1>3. ASSUME StackStep PROVE EInv'
  BY <1>1, <1>3, DispatchReturns, DrainLoopEInv, OnDrainReturns, QueueLoopEInv,
     DrainQueueReturns, CheckClosedEInv DEF StackStep
<1>4. ASSUME NEW c \in Ids, ClientStep(c) PROVE EInv'
  BY <1>1, <1>4, ClientDrainsEInv, ConnectsEInv, SmallStepsEInv, ClientEndsEInv,
     ClientGoneEInv, CompletesEInv DEF ClientStep
<1>5. ASSUME NEW c \in Ids, ClientFault(c) PROVE EInv'
  BY <1>1, <1>5, FaultsEInv, SmallStepsEInv DEF ClientFault
<1>6. QED
  BY <1>1, <1>2, <1>3, <1>4, <1>5, DispatchEInv, CloseEInv, DestroyEInv,
     AddUpstreamEInv, RemoveUpstreamEInv, MicrotaskEInv, ClientsClosedEInv
     DEF Next, Progress

\* However a pool ends, no request outlives it: once it is destroyed each client
\* that holds a request is, also one that was retired, and nothing waits; and if
\* close() destroyed it, every request had its outcome.  For any number of
\* clients, requests and upstreams, any calls of the user and any faults.
THEOREM PoolEndsAreOver == Spec => []EndsAreOver
<1>1. Init => EInv
  BY InitEInv
<1>2. EInv /\ [Next]_vars => EInv'
  BY NextEInv
<1>3. EInv => EndsAreOver
  BY FirstIsOldest DEF EInv, IInv, EndsAreOver, AllDestroyed
<1>4. QED
  BY <1>1, <1>2, <1>3, PTL DEF Spec
=============================================================================

-------------------------- MODULE WebSocketProofs --------------------------
(***************************************************************************)
(* The messages of a WebSocket are those of its server, whatever frames    *)
(* the server sends and however they are cut into chunks.                  *)
(***************************************************************************)
EXTENDS WebSocket, SequenceTheorems, WellFoundedInduction, TLAPS

----------------------------------------------------------------------------
(* Numbers and sequences.                                                   *)

LEMMA LeastExists ==
  ASSUME NEW S \in SUBSET Nat, S # {}
  PROVE  \E x \in S : \A y \in S : x <= y
<1>1. PICK x \in S : \A y \in S : ~(<<y, x>> \in OpToRel(<, Nat))
  BY NatLessThanWellFounded, WFMin
<1>2. ASSUME NEW y \in S PROVE x <= y
  <2>1. x \in Nat /\ y \in Nat
    OBVIOUS
  <2>2. ~(y < x)
    BY <1>1, <2>1, Zenon DEF OpToRel
  <2>3. QED
    BY <2>1, <2>2
<1>3. QED
  BY <1>2

\* A function of 0..m whose value at n is made by G from that at n - 1.
Grows(f, b, G, m) == f = [n \in 0..m |-> IF n = 0 THEN b ELSE G[n][f[n-1]]]

LEMMA GrowsExists ==
  ASSUME NEW T, NEW b \in T, NEW N \in Nat, NEW G \in [1..N -> [T -> T]], NEW m \in 0..N
  PROVE  \E f \in [0..m -> T] : Grows(f, b, G, m)
<1> DEFINE bad == {k \in 0..N : ~ \E f \in [0..k -> T] : Grows(f, b, G, k)}
<1>1. SUFFICES ASSUME bad # {} PROVE FALSE
  OBVIOUS
<1>2. PICK k \in bad : \A y \in bad : k <= y
  <2>1. bad \in SUBSET Nat
    OBVIOUS
  <2>2. QED
    BY <1>1, <2>1, LeastExists
<1>3. k \in 0..N /\ k \in Nat /\ ~ \E f \in [0..k -> T] : Grows(f, b, G, k)
  BY <1>2
<1>4. CASE k = 0
  <2> DEFINE f == [n \in 0..0 |-> b]
  <2>1. Grows(f, b, G, 0) /\ f \in [0..0 -> T]
    BY DEF Grows
  <2>2. QED
    BY <1>3, <1>4, <2>1
<1>5. CASE k # 0
  <2>1. k - 1 \in 0..N /\ k - 1 \notin bad
    BY <1>2, <1>3, <1>5
  <2>2. PICK f \in [0..k-1 -> T] : Grows(f, b, G, k - 1)
    BY <2>1
  <2> DEFINE g == [n \in 0..k |-> IF n < k THEN f[n] ELSE G[k][f[k-1]]]
  <2>3. G[k][f[k-1]] \in T
    BY <1>3, <1>5
  <2>4. g \in [0..k -> T]
    BY <1>3, <2>3
  <2>5. \A n \in 0..k : g[n] = IF n = 0 THEN b ELSE G[n][g[n-1]]
    <3>1. TAKE n \in 0..k
    <3>2. CASE n = k
      BY <1>3, <1>5, <3>2
    <3>3. CASE n < k
      <4>1. n \in 0..k-1 /\ g[n] = f[n]
        BY <1>3, <3>3
      <4>2. f[n] = IF n = 0 THEN b ELSE G[n][f[n-1]]
        BY <2>2, <4>1 DEF Grows
      <4>3. n # 0 => n - 1 \in 0..k /\ n - 1 < k
        BY <1>3, <4>1
      <4>4. n # 0 => g[n-1] = f[n-1]
        BY <4>3
      <4> HIDE DEF g
      <4>5. QED
        BY <4>1, <4>2, <4>4
    <3>4. QED
      BY <1>3, <3>2, <3>3
  <2>6. g = [n \in 0..k |-> g[n]]
    OBVIOUS
  <2>7. Grows(g, b, G, k)
    <3> HIDE DEF g
    <3>1. QED
      BY <2>5, <2>6 DEF Grows
  <2>8. QED
    BY <1>3, <2>4, <2>7
<1>6. QED
  BY <1>4, <1>5

----------------------------------------------------------------------------
(* What is on the wire.                                                     *)

WireParts == [id : Nat, frame : Frames, part : {"head", "payload"}]

LEMMA PartsMeans ==
  ASSUME NEW id \in Nat, NEW f \in Frames
  PROVE  /\ Parts(id, f) \in Seq(WireParts)
         /\ Len(Parts(id, f)) = IF f.wrong = "opcode" THEN 1 ELSE 2
         /\ Parts(id, f)[1] = [id |-> id, frame |-> f, part |-> "head"]
         /\ f.wrong # "opcode" =>
              Parts(id, f)[2] = [id |-> id, frame |-> f, part |-> "payload"]
<1> DEFINE h == [id |-> id, frame |-> f, part |-> "head"]
           b == [id |-> id, frame |-> f, part |-> "payload"]
<1>1. h \in WireParts /\ b \in WireParts
  BY DEF WireParts
<1>2. Parts(id, f) = IF f.wrong = "opcode" THEN <<h>> ELSE <<h, b>>
  BY DEF Parts
<1> HIDE DEF h, b
<1>3. QED
  BY <1>1, <1>2 DEF h, b

\* The last part of a frame.
IsLast(x) == x.part = "payload" \/ x.frame.wrong = "opcode"

\* w is the first n frames of fs on the wire.
Wired(w, fs, n) ==
  /\ w \in Seq(WireParts)
  /\ \A p \in 1..Len(w) : w[p].id \in 1..n /\ w[p].frame = fs[w[p].id]
  /\ Len(w) > 0 => w[1].id = 1 /\ w[1].part = "head"
  /\ \A p \in 1..Len(w)-1 :
       IF IsLast(w[p]) THEN w[p+1].id = w[p].id + 1 /\ w[p+1].part = "head"
       ELSE w[p+1].id = w[p].id /\ w[p+1].part = "payload"
  /\ IF n = 0 THEN w = <<>>
     ELSE Len(w) > 0 /\ w[Len(w)].id = n /\ IsLast(w[Len(w)])

LEMMA WiredMore ==
  ASSUME NEW fs \in Seq(Frames), NEW n \in Nat, n < Len(fs), NEW w, Wired(w, fs, n)
  PROVE  Wired(w \o Parts(n + 1, fs[n + 1]), fs, n + 1)
<1> DEFINE f == fs[n + 1]
           v == w \o Parts(n + 1, f)
<1>1. f \in Frames /\ n + 1 \in Nat
  BY LenProperties, ElementOfSeq
<1> HIDE DEF f
<1>2. PICK u : u = Parts(n + 1, f)
  OBVIOUS
<1>3. /\ u \in Seq(WireParts) /\ Len(u) = (IF f.wrong = "opcode" THEN 1 ELSE 2)
      /\ u[1] = [id |-> n + 1, frame |-> f, part |-> "head"]
      /\ f.wrong # "opcode" => u[2] = [id |-> n + 1, frame |-> f, part |-> "payload"]
  BY <1>1, <1>2, PartsMeans
<1>4. /\ v \in Seq(WireParts) /\ Len(v) = Len(w) + Len(u) /\ Len(w) \in Nat
      /\ \A p \in 1..Len(w) : v[p] = w[p]
      /\ \A p \in 1..Len(u) : v[Len(w) + p] = u[p]
  BY <1>2, <1>3 DEF Wired
<1>5. \A p \in 1..Len(v) : p \in 1..Len(w) \/ p = Len(w) + 1
        \/ (p = Len(w) + 2 /\ f.wrong # "opcode")
  BY <1>3, <1>4
<1>6. /\ v[Len(w) + 1] = [id |-> n + 1, frame |-> f, part |-> "head"]
      /\ f.wrong # "opcode" =>
           v[Len(w) + 2] = [id |-> n + 1, frame |-> f, part |-> "payload"]
      /\ f.wrong = "opcode" => Len(v) = Len(w) + 1
      /\ f.wrong # "opcode" => Len(v) = Len(w) + 2
  BY <1>3, <1>4, SMTT(30)
<1> HIDE DEF v
<1>7. \A p \in 1..Len(v) : v[p].id \in 1..n+1 /\ v[p].frame = fs[v[p].id]
  <2>1. TAKE p \in 1..Len(v)
  <2>2. CASE p \in 1..Len(w)
    BY <1>4, <2>2 DEF Wired
  <2>3. CASE p = Len(w) + 1
    BY <1>6, <2>3 DEF f
  <2>4. CASE p = Len(w) + 2 /\ f.wrong # "opcode"
    BY <1>6, <2>4 DEF f
  <2>5. QED
    BY <1>5, <2>2, <2>3, <2>4
<1>8. v[1].id = 1 /\ v[1].part = "head"
  BY <1>4, <1>6 DEF Wired
<1>9. ASSUME NEW p \in 1..Len(v)-1
      PROVE  IF IsLast(v[p]) THEN v[p+1].id = v[p].id + 1 /\ v[p+1].part = "head"
             ELSE v[p+1].id = v[p].id /\ v[p+1].part = "payload"
  <2>1. CASE p < Len(w)
    <3>1. p \in 1..Len(w)-1 /\ p \in 1..Len(w) /\ p + 1 \in 1..Len(w)
      BY <1>4, <2>1
    <3>2. QED
      BY <1>4, <3>1, SMTT(30) DEF Wired
  <2>2. CASE p = Len(w)
    <3>1. n # 0 /\ w[p].id = n /\ IsLast(w[p]) /\ p \in 1..Len(w)
      BY <1>4, <2>2 DEF Wired
    <3>2. QED
      BY <1>4, <1>6, <2>2, <3>1
  <2>3. CASE p = Len(w) + 1
    BY <1>4, <1>6, <2>3 DEF IsLast
  <2>4. QED
    BY <1>4, <1>6, <2>1, <2>2, <2>3
<1>10. Len(v) > 0 /\ v[Len(v)].id = n + 1 /\ IsLast(v[Len(v)])
  BY <1>4, <1>6 DEF IsLast
<1>11. Wired(v, fs, n + 1)
  BY <1>4, <1>7, <1>8, <1>9, <1>10 DEF Wired
<1>12. QED
  BY <1>11 DEF v, f

LEMMA WireIsWired ==
  ASSUME NEW fs \in Seq(Frames)
  PROVE  Wired(Wire(fs), fs, Len(fs))
<1> DEFINE G == [n \in 1..Len(fs) |-> [w \in Seq(WireParts) |-> w \o Parts(n, fs[n])]]
           IsWire(f) == f = [n \in 0..Len(fs) |-> IF n = 0 THEN <<>>
                                                  ELSE f[n-1] \o Parts(n, fs[n])]
           wire == CHOOSE f : IsWire(f)
<1>1. Len(fs) \in Nat /\ \A n \in 1..Len(fs) : fs[n] \in Frames
  BY LenProperties, ElementOfSeq
<1>2. G \in [1..Len(fs) -> [Seq(WireParts) -> Seq(WireParts)]]
  <2>1. ASSUME NEW n \in 1..Len(fs), NEW w \in Seq(WireParts)
        PROVE  w \o Parts(n, fs[n]) \in Seq(WireParts)
    <3>1. n \in Nat /\ fs[n] \in Frames
      BY <1>1
    <3>2. Parts(n, fs[n]) \in Seq(WireParts)
      BY <3>1, PartsMeans
    <3>3. QED
      BY <3>2
  <2>2. QED
    BY <2>1
<1>3. PICK f \in [0..Len(fs) -> Seq(WireParts)] : Grows(f, <<>>, G, Len(fs))
  <2>1. <<>> \in Seq(WireParts) /\ Len(fs) \in 0..Len(fs)
    BY <1>1
  <2> HIDE DEF G
  <2>2. QED
    BY <1>1, <1>2, <2>1, GrowsExists
<1>4. IsWire(f)
  <2>1. \A n \in 0..Len(fs) : f[n] = IF n = 0 THEN <<>> ELSE G[n][f[n-1]]
    BY <1>3 DEF Grows
  <2>2. ASSUME NEW n \in 0..Len(fs), n # 0 PROVE G[n][f[n-1]] = f[n-1] \o Parts(n, fs[n])
    <3>1. n \in 1..Len(fs) /\ n - 1 \in 0..Len(fs)
      BY <1>1, <2>2
    <3>2. f[n-1] \in Seq(WireParts)
      BY <3>1
    <3>3. QED
      BY <3>1, <3>2
  <2>3. \A n \in 0..Len(fs) : f[n] = IF n = 0 THEN <<>> ELSE f[n-1] \o Parts(n, fs[n])
    BY <2>1, <2>2
  <2>4. QED
    BY <2>3
<1>5. IsWire(wire)
  BY <1>4
<1>6. Wire(fs) = wire[Len(fs)]
  BY DEF Wire
<1>7. \A n \in 0..Len(fs) : wire[n] = IF n = 0 THEN <<>> ELSE wire[n-1] \o Parts(n, fs[n])
  BY <1>5
<1> HIDE DEF wire
<1> DEFINE bad == {n \in 0..Len(fs) : ~Wired(wire[n], fs, n)}
<1>8. bad = {}
  <2>1. SUFFICES ASSUME bad # {} PROVE FALSE
    OBVIOUS
  <2>2. bad \in SUBSET Nat
    OBVIOUS
  <2>3. PICK n \in bad : \A y \in bad : n <= y
    BY <2>1, <2>2, LeastExists
  <2>4. n \in 0..Len(fs) /\ ~Wired(wire[n], fs, n)
    BY <2>3
  <2>5. CASE n = 0
    <3>1. wire[n] = <<>>
      BY <1>7, <2>4, <2>5
    <3>2. Wired(<<>>, fs, 0)
      BY DEF Wired
    <3>3. QED
      BY <2>4, <2>5, <3>1, <3>2
  <2>6. CASE n # 0
    <3>1. n - 1 \in 0..Len(fs) /\ n - 1 \notin bad /\ n - 1 \in Nat /\ n - 1 < Len(fs)
          /\ (n - 1) + 1 = n
      BY <1>1, <2>3, <2>4, <2>6
    <3>2. Wired(wire[n-1], fs, n - 1)
      BY <3>1
    <3>3. Wired(wire[n-1] \o Parts((n-1) + 1, fs[(n-1) + 1]), fs, (n-1) + 1)
      BY <3>1, <3>2, WiredMore
    <3>4. QED
      BY <1>7, <2>4, <2>6, <3>1, <3>3
  <2>7. QED
    BY <2>5, <2>6
<1>9. QED
  BY <1>1, <1>6, <1>8

----------------------------------------------------------------------------
(* What the frames say.                                                     *)

Hearings == [ok : BOOLEAN, open : Seq(Nat), said : Seq(Seq(Nat))]

LEMMA HearType ==
  ASSUME NEW k, NEW f, NEW acc \in Hearings, NEW i \in Nat
  PROVE  Hear(k, f, acc, i) \in Hearings
<1>1. PICK m : m = Append(acc.open, i)
  OBVIOUS
<1>2. m \in Seq(Nat) /\ Append(acc.said, m) \in Seq(Seq(Nat))
  BY <1>1 DEF Hearings
<1>3. PICK said : said = Append(acc.said, m)
  OBVIOUS
<1>4. [acc EXCEPT !.ok = FALSE] \in Hearings
  BY DEF Hearings
<1>5. [acc EXCEPT !.said = said, !.open = <<>>] \in Hearings
  <2>1. said \in Seq(Seq(Nat)) /\ <<>> \in Seq(Nat) /\ acc \in Hearings
    BY <1>2, <1>3
  <2>2. QED
    BY <2>1 DEF Hearings
<1>6. [acc EXCEPT !.open = m] \in Hearings
  BY <1>2 DEF Hearings
<1>7. QED
  BY <1>1, <1>3, <1>4, <1>5, <1>6 DEF Hear

\* What a frame adds.
LEMMA HearMeans ==
  ASSUME NEW k, NEW f, NEW acc \in Hearings, NEW i \in Nat, NEW h, h = Hear(k, f, acc, i)
  PROVE  /\ ~acc.ok => h = acc
         /\ f.op = "close" => h.said = acc.said /\ ~h.ok
         /\ f.op = "ping" /\ f.wrong = "" => h = acc
         /\ h.said = acc.said \/ h.said = Append(acc.said, Append(acc.open, i))
BY DEF Hear, Hearings, Wrong

IsHeard(h, k, fs) ==
  h = [n \in 0..Len(fs) |-> IF n = 0 THEN Silence ELSE Hear(k, fs[n], h[n-1], n)]

LEMMA HeardMeans ==
  ASSUME NEW k, NEW fs \in Seq(Frames)
  PROVE  /\ Heard(k, fs) \in [0..Len(fs) -> Hearings]
         /\ Heard(k, fs)[0] = Silence
         /\ \A n \in 1..Len(fs) : Heard(k, fs)[n] = Hear(k, fs[n], Heard(k, fs)[n-1], n)
<1> DEFINE G == [n \in 1..Len(fs) |-> [acc \in Hearings |-> Hear(k, fs[n], acc, n)]]
           heard == CHOOSE h : IsHeard(h, k, fs)
<1>1. Len(fs) \in Nat /\ \A n \in 1..Len(fs) : n \in Nat
  BY LenProperties
<1>2. G \in [1..Len(fs) -> [Hearings -> Hearings]]
  BY <1>1, HearType
<1>3. Silence \in Hearings
  BY DEF Silence, Hearings
<1>4. PICK h \in [0..Len(fs) -> Hearings] : Grows(h, Silence, G, Len(fs))
  <2>1. Len(fs) \in 0..Len(fs)
    BY <1>1
  <2> HIDE DEF G
  <2>2. QED
    BY <1>1, <1>2, <1>3, <2>1, GrowsExists
<1>5. IsHeard(h, k, fs)
  <2>1. \A n \in 0..Len(fs) : h[n] = IF n = 0 THEN Silence ELSE G[n][h[n-1]]
    BY <1>4 DEF Grows
  <2>2. ASSUME NEW n \in 0..Len(fs), n # 0 PROVE G[n][h[n-1]] = Hear(k, fs[n], h[n-1], n)
    <3>1. n \in 1..Len(fs) /\ n - 1 \in 0..Len(fs)
      BY <1>1, <2>2
    <3>2. h[n-1] \in Hearings
      BY <3>1
    <3>3. QED
      BY <3>1, <3>2
  <2>3. \A n \in 0..Len(fs) : h[n] = IF n = 0 THEN Silence ELSE Hear(k, fs[n], h[n-1], n)
    BY <2>1, <2>2
  <2>4. h = [n \in 0..Len(fs) |-> h[n]]
    OBVIOUS
  <2>5. QED
    BY <2>3, <2>4 DEF IsHeard
<1>6. IsHeard(heard, k, fs)
  BY <1>5
<1>7. Heard(k, fs) = heard
  BY DEF Heard, IsHeard
<1>8. \A n \in 0..Len(fs) :
        heard[n] = IF n = 0 THEN Silence ELSE Hear(k, fs[n], heard[n-1], n)
  BY <1>6 DEF IsHeard
<1>9. DOMAIN heard = 0..Len(fs)
  BY <1>6 DEF IsHeard
<1>10. heard = [n \in 0..Len(fs) |-> heard[n]]
  BY <1>6 DEF IsHeard
<1> HIDE DEF heard
<1> DEFINE bad == {n \in 0..Len(fs) : heard[n] \notin Hearings}
<1>11. bad = {}
  <2>1. SUFFICES ASSUME bad # {} PROVE FALSE
    OBVIOUS
  <2>2. bad \in SUBSET Nat
    OBVIOUS
  <2>3. PICK n \in bad : \A y \in bad : n <= y
    BY <2>1, <2>2, LeastExists
  <2>4. n \in 0..Len(fs) /\ n \in Nat /\ heard[n] \notin Hearings
    BY <2>3
  <2>5. n # 0
    BY <1>3, <1>8, <2>4
  <2>6. n - 1 \in 0..Len(fs) /\ n - 1 \notin bad
    BY <1>1, <2>3, <2>4, <2>5
  <2>7. heard[n] = Hear(k, fs[n], heard[n-1], n) /\ heard[n-1] \in Hearings
    BY <1>8, <2>4, <2>5, <2>6
  <2>8. QED
    BY <2>4, <2>7, HearType
<1>12. QED
  BY <1>1, <1>7, <1>8, <1>10, <1>11

\* Nothing that was said is taken back, and after a fault no more is said.
IsStart(s, t) == Len(s) <= Len(t) /\ \A x \in 1..Len(s) : s[x] = t[x]

LEMMA SaidStays ==
  ASSUME NEW k, NEW fs \in Seq(Frames), NEW n \in 0..Len(fs)
  PROVE  \A j \in n..Len(fs) :
           /\ IsStart(Heard(k, fs)[n].said, Heard(k, fs)[j].said)
           /\ ~Heard(k, fs)[n].ok => /\ Heard(k, fs)[j].said = Heard(k, fs)[n].said
                                     /\ ~Heard(k, fs)[j].ok
<1> DEFINE h == Heard(k, fs)
           Fits(j) == /\ IsStart(h[n].said, h[j].said)
                      /\ ~h[n].ok => h[j].said = h[n].said /\ ~h[j].ok
           bad == {j \in n..Len(fs) : ~Fits(j)}
<1>1. /\ Len(fs) \in Nat /\ h \in [0..Len(fs) -> Hearings]
      /\ \A j \in 1..Len(fs) : h[j] = Hear(k, fs[j], h[j-1], j)
  BY HeardMeans, LenProperties
<1> HIDE DEF h
<1>2. bad = {}
  <2>1. SUFFICES ASSUME bad # {} PROVE FALSE
    OBVIOUS
  <2>2. bad \in SUBSET Nat
    OBVIOUS
  <2>3. PICK j \in bad : \A y \in bad : j <= y
    BY <2>1, <2>2, LeastExists
  <2>4. j \in n..Len(fs) /\ j \in Nat /\ ~Fits(j)
    BY <2>3
  <2>5. CASE j = n
    <3>1. Len(h[n].said) \in Nat
      BY <1>1 DEF Hearings
    <3>2. QED
      BY <2>4, <2>5, <3>1 DEF IsStart
  <2>6. CASE j # n
    <3>1. j - 1 \in n..Len(fs) /\ j - 1 \notin bad /\ j \in 1..Len(fs) /\ j - 1 \in 0..Len(fs)
      BY <1>1, <2>3, <2>4, <2>6
    <3>2. Fits(j - 1)
      BY <3>1
    <3>3. PICK acc \in Hearings : acc = h[j-1]
      BY <1>1, <3>1
    <3>4. PICK v \in Hearings : v = h[j]
      BY <1>1, <3>1
    <3>5. v = Hear(k, fs[j], acc, j)
      BY <1>1, <3>1, <3>3, <3>4
    <3>6. /\ ~acc.ok => v = acc
          /\ v.said = acc.said \/ v.said = Append(acc.said, Append(acc.open, j))
      <4>1. j \in Nat
        BY <2>4
      <4>2. QED
        BY <3>5, <4>1 DEF Hear, Hearings
    <3>7. PICK m : m = Append(acc.open, j)
      OBVIOUS
    <3>8. /\ m \in Seq(Nat) /\ acc.said \in Seq(Seq(Nat))
      BY <2>4, <3>7 DEF Hearings
    <3>9. IsStart(acc.said, v.said)
      <4>1. CASE v.said = acc.said
        BY <3>8, <4>1 DEF IsStart
      <4>2. CASE v.said = Append(acc.said, m)
        BY <3>8, <4>2 DEF IsStart
      <4>3. QED
        BY <3>6, <3>7, <4>1, <4>2
    <3>10. n \in 0..Len(fs) /\ h[n].said \in Seq(Seq(Nat)) /\ v.said \in Seq(Seq(Nat))
      BY <1>1 DEF Hearings
    <3>11. IsStart(h[n].said, v.said)
      <4>1. IsStart(h[n].said, acc.said)
        BY <3>2, <3>3
      <4>2. PICK r \in Seq(Seq(Nat)) : r = h[n].said
        BY <3>10
      <4>3. PICK t \in Seq(Seq(Nat)) : t = acc.said
        BY <3>8
      <4>4. PICK u \in Seq(Seq(Nat)) : u = v.said
        BY <3>10
      <4>5. IsStart(r, t) /\ IsStart(t, u) => IsStart(r, u)
        BY DEF IsStart
      <4>6. QED
        BY <3>9, <4>1, <4>2, <4>3, <4>4, <4>5
    <3>12. ~h[n].ok => v.said = h[n].said /\ ~v.ok
      BY <3>2, <3>3, <3>6
    <3>13. QED
      BY <2>4, <3>4, <3>11, <3>12
  <2>7. QED
    BY <2>5, <2>6
<1>3. QED
  BY <1>2 DEF h

\* What was heard does not depend on what comes.
LEMMA HeardStays ==
  ASSUME NEW k, NEW fs \in Seq(Frames), NEW x \in Frames
  PROVE  \A n \in 0..Len(fs) : Heard(k, Append(fs, x))[n] = Heard(k, fs)[n]
<1> DEFINE gs == Append(fs, x)
           g == Heard(k, gs)
           h == Heard(k, fs)
           bad == {n \in 0..Len(fs) : g[n] # h[n]}
<1>1. /\ gs \in Seq(Frames) /\ Len(gs) = Len(fs) + 1 /\ Len(fs) \in Nat
      /\ \A n \in 1..Len(fs) : gs[n] = fs[n]
  OBVIOUS
<1>2. h[0] = Silence /\ \A n \in 1..Len(fs) : h[n] = Hear(k, fs[n], h[n-1], n)
  BY HeardMeans
<1>3. g[0] = Silence /\ \A n \in 1..Len(gs) : g[n] = Hear(k, gs[n], g[n-1], n)
  BY <1>1, HeardMeans
<1> HIDE DEF g, h, gs
<1>4. bad = {}
  <2>1. SUFFICES ASSUME bad # {} PROVE FALSE
    OBVIOUS
  <2>2. bad \in SUBSET Nat
    OBVIOUS
  <2>3. PICK n \in bad : \A y \in bad : n <= y
    BY <2>1, <2>2, LeastExists
  <2>4. n \in 0..Len(fs) /\ n \in Nat /\ g[n] # h[n] /\ n # 0
    BY <1>2, <1>3, <2>3
  <2>5. n - 1 \in 0..Len(fs) /\ n - 1 \notin bad /\ n \in 1..Len(fs) /\ n \in 1..Len(gs)
    BY <1>1, <2>3, <2>4
  <2>6. g[n-1] = h[n-1] /\ gs[n] = fs[n]
    BY <1>1, <2>5
  <2>7. QED
    BY <1>2, <1>3, <2>4, <2>5, <2>6
<1>5. QED
  BY <1>4 DEF g, h, gs

----------------------------------------------------------------------------
(* Pieces of the wire.                                                      *)

\* s is what w has behind its first a elements, up to the b-th.
Piece(s, w, a, b) ==
  /\ a \in Nat /\ b \in Nat /\ a <= b /\ b <= Len(w)
  /\ s \in Seq(WireParts) /\ Len(s) = b - a
  /\ \A i \in 1..b-a : s[i] = w[a + i]

LEMMA PieceJoins ==
  ASSUME NEW w \in Seq(WireParts), NEW a, NEW b, NEW c, NEW s, NEW t,
         Piece(s, w, a, b), Piece(t, w, b, c)
  PROVE  Piece(s \o t, w, a, c)
<1>1. PICK u : u = s \o t
  OBVIOUS
<1>2. /\ u \in Seq(WireParts) /\ Len(u) = c - a /\ a <= c
      /\ \A i \in 1..c-a : u[i] = IF i <= b - a THEN s[i] ELSE t[i - (b - a)]
  BY <1>1 DEF Piece
<1>3. ASSUME NEW i \in 1..c-a PROVE u[i] = w[a + i]
  <2>1. CASE i <= b - a
    BY <1>2, <2>1 DEF Piece
  <2>2. CASE i > b - a
    <3>1. i - (b - a) \in 1..c-b /\ b + (i - (b - a)) = a + i
      BY <2>2 DEF Piece
    <3>2. t[i - (b - a)] = w[b + (i - (b - a))]
      BY <3>1 DEF Piece
    <3>3. u[i] = t[i - (b - a)]
      BY <1>2, <2>2 DEF Piece
    <3>4. QED
      BY <3>1, <3>2, <3>3
  <2>3. QED
    BY <2>1, <2>2 DEF Piece
<1>4. QED
  BY <1>1, <1>2, <1>3 DEF Piece

LEMMA PieceCuts ==
  ASSUME NEW w \in Seq(WireParts), NEW a, NEW b, NEW s, Piece(s, w, a, b),
         NEW n \in 0..Len(s)
  PROVE  /\ Piece(SubSeq(s, 1, n), w, a, a + n)
         /\ Piece(SubSeq(s, n + 1, Len(s)), w, a + n, b)
<1>1. PICK t : t = SubSeq(s, 1, n)
  OBVIOUS
<1>2. PICK u : u = SubSeq(s, n + 1, Len(s))
  OBVIOUS
<1>3. /\ s \in Seq(WireParts) /\ Len(s) = b - a /\ n \in Nat /\ n <= b - a
      /\ a \in Nat /\ b \in Nat /\ b <= Len(w) /\ \A i \in 1..b-a : s[i] = w[a + i]
  BY DEF Piece
<1>4. /\ t \in Seq(WireParts) /\ Len(t) = n /\ \A i \in 1..n : t[i] = s[i]
  BY <1>1, <1>3
<1>5. /\ u \in Seq(WireParts) /\ Len(u) = b - (a + n)
      /\ \A i \in 1..b-(a+n) : u[i] = s[n + i]
  <2>1. n + 1 \in 1..Len(s)+1 /\ Len(s) \in 0..Len(s) /\ Len(s) \in Nat
    BY <1>3
  <2>2. /\ u \in Seq(WireParts)
        /\ Len(u) = IF n + 1 <= Len(s) THEN Len(s) - (n + 1) + 1 ELSE 0
        /\ \A i \in 1..(Len(s) - (n + 1) + 1) : u[i] = s[(n + 1) + i - 1]
    BY <1>2, <1>3, <2>1, SubSeqProperties
  <2>3. Len(u) = b - (a + n) /\ Len(s) - (n + 1) + 1 = b - (a + n)
    BY <1>3, <2>2
  <2>4. \A i \in 1..b-(a+n) : (n + 1) + i - 1 = n + i
    BY <1>3
  <2>5. QED
    BY <2>2, <2>3, <2>4
<1>6. Piece(t, w, a, a + n)
  BY <1>3, <1>4 DEF Piece
<1>7. ASSUME NEW i \in 1..b-(a+n) PROVE u[i] = w[(a + n) + i]
  <2>1. n + i \in 1..b-a /\ (a + n) + i = a + (n + i)
    BY <1>3
  <2>2. QED
    BY <1>3, <1>5, <2>1
<1>8. Piece(u, w, a + n, b)
  BY <1>3, <1>5, <1>7 DEF Piece
<1>9. QED
  BY <1>1, <1>2, <1>6, <1>8

LEMMA PieceBegins ==
  ASSUME NEW w \in Seq(WireParts), NEW a, NEW b, NEW s, Piece(s, w, a, b), s # <<>>
  PROVE  /\ a < b /\ a + 1 \in 1..Len(w) /\ Head(s) = w[a + 1] /\ Head(s) \in WireParts
         /\ Piece(Tail(s), w, a + 1, b)
<1>1. PICK t : t = Tail(s)
  OBVIOUS
<1>2. /\ s \in Seq(WireParts) /\ Len(s) = b - a /\ a \in Nat /\ b \in Nat /\ b <= Len(w)
      /\ \A i \in 1..b-a : s[i] = w[a + i]
  BY DEF Piece
<1>3. Len(s) > 0 /\ a < b
  BY <1>2
<1>4. /\ t \in Seq(WireParts) /\ Len(t) = b - (a + 1)
      /\ \A i \in 1..b-(a+1) : t[i] = s[i + 1]
  BY <1>1, <1>2, <1>3
<1>5. ASSUME NEW i \in 1..b-(a+1) PROVE t[i] = w[(a + 1) + i]
  <2>1. i + 1 \in 1..b-a /\ (a + 1) + i = a + (i + 1)
    BY <1>2
  <2>2. QED
    BY <1>2, <1>4, <2>1
<1>6. Piece(t, w, a + 1, b)
  BY <1>2, <1>3, <1>4, <1>5 DEF Piece
<1>7. Head(s) = w[a + 1] /\ Head(s) \in WireParts /\ a + 1 \in 1..Len(w)
  BY <1>2, <1>3
<1>8. QED
  BY <1>1, <1>3, <1>6, <1>7

\* More is put on the wire.
LEMMA PieceStays ==
  ASSUME NEW w \in Seq(WireParts), NEW u \in Seq(WireParts), NEW a, NEW b, NEW s,
         Piece(s, w, a, b)
  PROVE  Piece(s, w \o u, a, b)
<1>1. /\ s \in Seq(WireParts) /\ Len(s) = b - a /\ a \in Nat /\ b \in Nat /\ b <= Len(w)
      /\ a <= b /\ \A i \in 1..b-a : s[i] = w[a + i]
  BY DEF Piece
<1>2. PICK v : v = w \o u
  OBVIOUS
<1>3. Len(v) = Len(w) + Len(u) /\ Len(w) \in Nat /\ Len(u) \in Nat
      /\ \A i \in 1..Len(w) : v[i] = w[i]
  BY <1>2
<1>4. \A i \in 1..b-a : a + i \in 1..Len(w)
  BY <1>1, <1>3
<1>5. QED
  BY <1>1, <1>2, <1>3, <1>4 DEF Piece

LEMMA PieceEnds ==
  ASSUME NEW w \in Seq(WireParts), NEW u \in Seq(WireParts)
  PROVE  Piece(u, w \o u, Len(w), Len(w \o u))
BY DEF Piece

\* The parser holds, and the socket has still to deliver, what is on the wire
\* behind the first p parts of it.
Cut(w, p, c, q, inbox) ==
  /\ c \in [1..Len(q.chunks)+1 -> Nat]
  /\ Piece(q.buffers, w, p, c[1])
  /\ \A j \in 1..Len(q.chunks) : Piece(q.chunks[j], w, c[j], c[j+1])
  /\ Piece(inbox, w, c[Len(q.chunks)+1], Len(w))

Laid(w, p, q, inbox) == \E c : Cut(w, p, c, q, inbox)

Infos == [op : {"", "text", "continuation", "ping", "close"}, fin : BOOLEAN,
          fragmented : BOOLEAN, compressed : BOOLEAN]

Fragments == [id : Nat, frame : Frames, inflated : BOOLEAN]

Parsers ==
  [state : {"INFO", "READ_DATA"}, buffers : Seq(WireParts), chunks : Seq(Seq(WireParts)),
   busy : {"idle", "parsing", "inflating", "stuck"}, full : BOOLEAN,
   needDrain : BOOLEAN, info : Infos, body : WireParts \cup {NoPart},
   fragments : Seq(Fragments)]

\* The parser takes a part.
LEMMA LaidTakes ==
  ASSUME NEW w \in Seq(WireParts), NEW p, NEW q, NEW inbox, Laid(w, p, q, inbox),
         q.buffers # <<>>, NEW r, r.buffers = Tail(q.buffers), r.chunks = q.chunks
  PROVE  /\ p \in Nat /\ p + 1 \in 1..Len(w) /\ Head(q.buffers) = w[p + 1]
         /\ Head(q.buffers) \in WireParts /\ Laid(w, p + 1, r, inbox)
<1>1. PICK c : Cut(w, p, c, q, inbox)
  BY DEF Laid
<1>2. Piece(q.buffers, w, p, c[1])
  BY <1>1 DEF Cut
<1>3. /\ p + 1 \in 1..Len(w) /\ Head(q.buffers) = w[p + 1] /\ Head(q.buffers) \in WireParts
      /\ Piece(Tail(q.buffers), w, p + 1, c[1])
  BY <1>2, PieceBegins
<1>4. Cut(w, p + 1, c, r, inbox)
  BY <1>1, <1>3 DEF Cut
<1>5. QED
  BY <1>2, <1>3, <1>4 DEF Laid, Piece

\* It takes the next chunk.
LEMMA LaidGoesOn ==
  ASSUME NEW w \in Seq(WireParts), NEW p, NEW q, NEW inbox, Laid(w, p, q, inbox),
         q.chunks \in Seq(Seq(WireParts)), q.chunks # <<>>,
         NEW r, r.buffers = q.buffers \o Head(q.chunks), r.chunks = Tail(q.chunks)
  PROVE  Laid(w, p, r, inbox)
<1>1. PICK c : Cut(w, p, c, q, inbox)
  BY DEF Laid
<1>2. PICK n \in Nat : n = Len(q.chunks)
  OBVIOUS
<1>3. /\ n > 0 /\ Len(r.chunks) = n - 1 /\ Head(q.chunks) = q.chunks[1]
      /\ \A j \in 1..n-1 : r.chunks[j] = q.chunks[j+1]
  BY <1>2
<1> DEFINE d == [j \in 1..n |-> c[j+1]]
<1>4. /\ c \in [1..n+1 -> Nat] /\ Piece(q.buffers, w, p, c[1])
      /\ \A j \in 1..n : Piece(q.chunks[j], w, c[j], c[j+1])
      /\ Piece(inbox, w, c[n+1], Len(w))
  BY <1>1, <1>2 DEF Cut
<1>5. /\ d \in [1..n -> Nat] /\ (n - 1) + 1 = n /\ \A j \in 1..n : d[j] = c[j+1]
  BY <1>4
<1> HIDE DEF d
<1>6. Piece(q.chunks[1], w, c[1], c[2])
  BY <1>3, <1>4
<1>7. Piece(r.buffers, w, p, d[1])
  <2>1. Piece(q.buffers \o q.chunks[1], w, p, c[2])
    BY <1>4, <1>6, PieceJoins
  <2>2. d[1] = c[2]
    BY <1>3, <1>5
  <2>3. QED
    BY <1>3, <2>1, <2>2
<1>8. ASSUME NEW j \in 1..n-1 PROVE Piece(r.chunks[j], w, d[j], d[j+1])
  <2>1. j + 1 \in 1..n /\ j \in 1..n
    BY <1>3
  <2>2. Piece(q.chunks[j+1], w, c[j+1], c[(j+1)+1])
    BY <1>4, <2>1
  <2>3. QED
    BY <1>3, <1>5, <2>1, <2>2
<1>9. Piece(inbox, w, d[n], Len(w))
  BY <1>3, <1>4, <1>5
<1>10. Cut(w, p, d, r, inbox)
  <2>1. Len(r.chunks) + 1 = n
    BY <1>3
  <2>2. QED
    BY <1>3, <1>5, <1>7, <1>8, <1>9, <2>1 DEF Cut
<1>11. QED
  BY <1>10 DEF Laid

\* The socket delivers n parts, to a parser that waits for them or that is busy.
LEMMA LaidData ==
  ASSUME NEW w \in Seq(WireParts), NEW p, NEW q, NEW inbox, Laid(w, p, q, inbox),
         q.chunks = <<>>, NEW n \in 1..Len(inbox),
         NEW r, r.buffers = q.buffers \o SubSeq(inbox, 1, n), r.chunks = <<>>
  PROVE  Laid(w, p, r, SubSeq(inbox, n + 1, Len(inbox)))
<1>1. PICK c : Cut(w, p, c, q, inbox)
  BY DEF Laid
<1>2. /\ c \in [1..1 -> Nat] /\ Piece(q.buffers, w, p, c[1])
      /\ Piece(inbox, w, c[1], Len(w))
  BY <1>1 DEF Cut
<1>3. n \in 0..Len(inbox) /\ c[1] + n \in Nat
  BY <1>2 DEF Piece
<1>4. /\ Piece(SubSeq(inbox, 1, n), w, c[1], c[1] + n)
      /\ Piece(SubSeq(inbox, n + 1, Len(inbox)), w, c[1] + n, Len(w))
  BY <1>2, <1>3, PieceCuts
<1>5. Piece(r.buffers, w, p, c[1] + n)
  BY <1>2, <1>4, PieceJoins
<1> DEFINE d == [j \in 1..1 |-> c[1] + n]
<1>6. Cut(w, p, d, r, SubSeq(inbox, n + 1, Len(inbox)))
  <2>1. d \in [1..1 -> Nat] /\ d[1] = c[1] + n
    BY <1>3
  <2> HIDE DEF d
  <2>2. Len(r.chunks) + 1 = 1
    OBVIOUS
  <2>3. QED
    BY <1>4, <1>5, <2>1, <2>2 DEF Cut
<1>7. QED
  BY <1>6 DEF Laid

LEMMA LaidChunk ==
  ASSUME NEW w \in Seq(WireParts), NEW p, NEW q, NEW inbox, Laid(w, p, q, inbox),
         q.chunks \in Seq(Seq(WireParts)), NEW n \in 1..Len(inbox),
         NEW r, r.buffers = q.buffers,
         r.chunks = Append(q.chunks, SubSeq(inbox, 1, n))
  PROVE  Laid(w, p, r, SubSeq(inbox, n + 1, Len(inbox)))
<1>1. PICK c : Cut(w, p, c, q, inbox)
  BY DEF Laid
<1>2. PICK m \in Nat : m = Len(q.chunks)
  OBVIOUS
<1>3. /\ c \in [1..m+1 -> Nat] /\ Piece(q.buffers, w, p, c[1])
      /\ \A j \in 1..m : Piece(q.chunks[j], w, c[j], c[j+1])
      /\ Piece(inbox, w, c[m+1], Len(w))
  BY <1>1, <1>2 DEF Cut
<1>4. n \in 0..Len(inbox) /\ c[m+1] + n \in Nat
  BY <1>3 DEF Piece
<1>5. PICK s : s = SubSeq(inbox, 1, n)
  OBVIOUS
<1>6. PICK t : t = SubSeq(inbox, n + 1, Len(inbox))
  OBVIOUS
<1>7. Piece(s, w, c[m+1], c[m+1] + n) /\ Piece(t, w, c[m+1] + n, Len(w))
  BY <1>3, <1>4, <1>5, <1>6, PieceCuts
<1>8. /\ Len(r.chunks) = m + 1 /\ r.chunks[m+1] = s
      /\ \A j \in 1..m : r.chunks[j] = q.chunks[j]
  <2>1. s \in Seq(WireParts)
    BY <1>7 DEF Piece
  <2>2. r.chunks = Append(q.chunks, s)
    BY <1>5
  <2>3. QED
    BY <1>2, <2>1, <2>2
<1> DEFINE d == [j \in 1..m+2 |-> IF j <= m + 1 THEN c[j] ELSE c[m+1] + n]
<1>9. /\ d \in [1..m+2 -> Nat] /\ d[m+2] = c[m+1] + n
      /\ \A j \in 1..m+1 : d[j] = c[j]
  BY <1>3, <1>4
<1> HIDE DEF d
<1>10. ASSUME NEW j \in 1..m+1 PROVE Piece(r.chunks[j], w, d[j], d[j+1])
  <2>1. CASE j = m + 1
    <3>1. d[j] = c[m+1] /\ d[j+1] = c[m+1] + n
      BY <1>9, <2>1
    <3>2. QED
      BY <1>7, <1>8, <2>1, <3>1
  <2>2. CASE j # m + 1
    <3>1. j \in 1..m /\ j + 1 \in 1..m+1
      BY <2>2
    <3>2. QED
      BY <1>3, <1>8, <1>9, <3>1
  <2>3. QED
    BY <2>1, <2>2
<1>11. d[1] = c[1] /\ (m + 1) + 1 = m + 2
  BY <1>9
<1>12. Cut(w, p, d, r, t)
  BY <1>3, <1>7, <1>8, <1>9, <1>10, <1>11 DEF Cut
<1>13. QED
  BY <1>6, <1>12 DEF Laid

\* The server sends more.
LEMMA LaidMore ==
  ASSUME NEW w \in Seq(WireParts), NEW u \in Seq(WireParts), NEW p, NEW q, NEW inbox,
         Laid(w, p, q, inbox)
  PROVE  Laid(w \o u, p, q, inbox \o u)
<1>1. PICK c : Cut(w, p, c, q, inbox)
  BY DEF Laid
<1>2. PICK v \in Seq(WireParts) : v = w \o u
  <2>1. w \o u \in Seq(WireParts)
    OBVIOUS
  <2>2. QED
    BY <2>1
<1>3. PICK l : l = c[Len(q.chunks) + 1]
  OBVIOUS
<1>4. Piece(q.buffers, v, p, c[1])
  BY <1>1, <1>2, PieceStays DEF Cut
<1>5. \A j \in 1..Len(q.chunks) : Piece(q.chunks[j], v, c[j], c[j+1])
  BY <1>1, <1>2, PieceStays DEF Cut
<1>6. Piece(inbox, v, l, Len(w)) /\ Piece(u, v, Len(w), Len(v))
  BY <1>1, <1>2, <1>3, PieceStays, PieceEnds DEF Cut
<1>7. Piece(inbox \o u, v, l, Len(v))
  BY <1>6, PieceJoins
<1>8. Cut(v, p, c, q, inbox \o u)
  BY <1>1, <1>3, <1>4, <1>5, <1>7 DEF Cut
<1>9. QED
  BY <1>2, <1>8 DEF Laid

----------------------------------------------------------------------------
(* The handler.                                                             *)

Outs == [op : {"close", "pong", "message"}, id : Nat]

Settled == {"pending", "resolved", "rejected"}

Handlers ==
  [readyState : {"CONNECTING", "OPEN", "CLOSING", "CLOSED"},
   closeState : SUBSET {"SENT", "RECEIVED"},
   socket : {"none", "open", "ended", "destroyed", "closed"},
   paused : BOOLEAN, aborted : BOOLEAN, task : BOOLEAN, out : Seq(Outs),
   got : Seq(Seq(Nat)), events : Seq({"open", "message", "error", "clean", "unclean"}),
   failed : BOOLEAN, closedBy : {"", "us", "peer"}, opened : Settled, closed : Settled,
   readable : {"none", "readable", "closed", "errored", "cancelled"},
   unread : Nat, reading : BOOLEAN, handshakeAborted : BOOLEAN]

\* What neither writing nor pausing changes.
Alike(v, w) ==
  /\ w \in Handlers
  /\ w.readyState = v.readyState /\ w.closeState = v.closeState /\ w.task = v.task
  /\ w.got = v.got /\ w.closedBy = v.closedBy /\ w.events = v.events
  /\ w.failed = v.failed /\ w.closed = v.closed

LEMMA WriteMeans ==
  ASSUME NEW v \in Handlers, NEW x \in Outs, NEW w, w = Write(v, x)
  PROVE  /\ Alike(v, w)
         /\ w.out = IF v.socket = "open" THEN Append(v.out, x) ELSE v.out
         /\ w.socket = IF v.socket = "ended" THEN "destroyed" ELSE v.socket
<1>1. CASE v.socket = "open"
  <2>1. PICK out \in Seq(Outs) : out = Append(v.out, x)
    <3>1. v.out \in Seq(Outs)
      BY DEF Handlers
    <3>2. Append(v.out, x) \in Seq(Outs)
      BY <3>1
    <3>3. QED
      BY <3>2
  <2>2. w = [v EXCEPT !.out = out]
    BY <1>1, <2>1 DEF Write
  <2>3. w \in Handlers /\ w.out = out
    BY <2>2 DEF Handlers
  <2>4. QED
    BY <1>1, <2>1, <2>2, <2>3 DEF Handlers, Alike
<1>2. CASE v.socket # "open"
  <2>1. CASE v.socket = "ended"
    <3>1. w = [v EXCEPT !.socket = "destroyed"]
      BY <1>2, <2>1 DEF Write
    <3>2. QED
      BY <2>1, <3>1 DEF Handlers, Alike
  <2>2. CASE v.socket # "ended"
    <3>1. w = v
      BY <1>2, <2>2 DEF Write
    <3>2. QED
      BY <1>2, <2>2, <3>1 DEF Alike
  <2>3. QED
    BY <2>1, <2>2
<1>3. QED
  BY <1>1, <1>2

LEMMA ControlIsOut == Control("close") \in Outs /\ Control("pong") \in Outs
BY DEF Control, Outs

LEMMA StartClosingMeans ==
  ASSUME NEW v \in Handlers, NEW who \in {"us", "peer"}, NEW w, w = StartClosing(v, who)
  PROVE  /\ w \in Handlers /\ w.readyState = "CLOSING"
         /\ w.task = v.task /\ w.got = v.got /\ w.events = v.events
         /\ w.failed = v.failed /\ w.closed = v.closed
         /\ IF v.closeState = {}
            THEN /\ w.closeState = {"SENT"} /\ w.closedBy = who
                 /\ w.out = IF v.socket = "open" THEN Append(v.out, Control("close"))
                            ELSE v.out
                 /\ w.socket = IF v.socket = "ended" THEN "destroyed" ELSE v.socket
            ELSE /\ w.closeState = v.closeState /\ w.closedBy = v.closedBy
                 /\ w.out = v.out /\ w.socket = v.socket
<1>1. CASE v.closeState = {}
  <2>1. PICK u : u = Write(v, Control("close"))
    OBVIOUS
  <2>2. /\ Alike(v, u)
        /\ u.out = IF v.socket = "open" THEN Append(v.out, Control("close")) ELSE v.out
        /\ u.socket = IF v.socket = "ended" THEN "destroyed" ELSE v.socket
    BY <2>1, ControlIsOut, WriteMeans
  <2>3. w = [[u EXCEPT !.closeState = {"SENT"}, !.closedBy = who] EXCEPT
               !.readyState = "CLOSING"]
    BY <1>1, <2>1 DEF StartClosing
  <2>4. PICK t : t = [u EXCEPT !.closeState = {"SENT"}, !.closedBy = who]
    OBVIOUS
  <2>5. /\ t \in Handlers /\ t.closeState = {"SENT"} /\ t.closedBy = who
        /\ t.task = u.task /\ t.got = u.got /\ t.events = u.events
        /\ t.failed = u.failed /\ t.closed = u.closed /\ t.out = u.out
        /\ t.socket = u.socket
    BY <2>2, <2>4 DEF Handlers, Alike
  <2>6. w = [t EXCEPT !.readyState = "CLOSING"]
    BY <2>3, <2>4
  <2>7. /\ w \in Handlers /\ w.readyState = "CLOSING"
        /\ w.closeState = t.closeState /\ w.closedBy = t.closedBy
        /\ w.task = t.task /\ w.got = t.got /\ w.events = t.events
        /\ w.failed = t.failed /\ w.closed = t.closed /\ w.out = t.out
        /\ w.socket = t.socket
    BY <2>5, <2>6, ZenonT(30) DEF Handlers
  <2>8. QED
    BY <1>1, <2>2, <2>5, <2>7 DEF Alike
<1>2. CASE v.closeState # {}
  <2>1. w = [v EXCEPT !.readyState = "CLOSING"]
    BY <1>2 DEF StartClosing
  <2>2. QED
    BY <1>2, <2>1 DEF Handlers
<1>3. QED
  BY <1>1, <1>2

LEMMA OnSocketCloseMeans ==
  ASSUME NEW v \in Handlers, NEW w, w = OnSocketClose(v)
  PROVE  /\ w \in Handlers /\ w.readyState = "CLOSED"
         /\ w.closeState = v.closeState /\ w.task = v.task /\ w.got = v.got
         /\ w.closedBy = v.closedBy /\ w.failed = v.failed /\ w.closed = v.closed
         /\ w.out = v.out /\ w.socket = v.socket
<1>1. PICK events : events = v.events
           \o (IF "RECEIVED" \in v.closeState THEN <<>> ELSE <<"error">>)
           \o <<IF v.closeState = {"SENT", "RECEIVED"} THEN "clean" ELSE "unclean">>
  OBVIOUS
<1>2. events \in Seq({"open", "message", "error", "clean", "unclean"})
  <2> DEFINE E == {"open", "message", "error", "clean", "unclean"}
  <2>1. PICK a : a = IF "RECEIVED" \in v.closeState THEN <<>> ELSE <<"error">>
    OBVIOUS
  <2>2. PICK b : b = IF v.closeState = {"SENT", "RECEIVED"} THEN "clean" ELSE "unclean"
    OBVIOUS
  <2>3. a \in Seq(E) /\ <<b>> \in Seq(E) /\ v.events \in Seq(E)
    <3>1. v.events \in Seq(E)
      BY DEF Handlers
    <3>2. "error" \in E /\ b \in E
      BY <2>2
    <3> HIDE DEF E
    <3>3. <<>> \in Seq(E) /\ <<"error">> \in Seq(E) /\ <<b>> \in Seq(E)
      BY <3>2
    <3>4. QED
      BY <2>1, <3>1, <3>3
  <2>4. events = v.events \o a \o <<b>>
    BY <1>1, <2>1, <2>2
  <2> HIDE DEF E
  <2>5. events \in Seq(E)
    BY <2>3, <2>4
  <2>6. QED
    BY <2>5 DEF E
<1>3. w = [v EXCEPT !.readyState = "CLOSED", !.events = events]
  BY <1>1 DEF OnSocketClose
<1>4. QED
  BY <1>2, <1>3, ZenonT(30) DEF Handlers

LEMMA ClosedMeans ==
  ASSUME NEW v \in Handlers, NEW w, w = Closed(v)
  PROVE  /\ w \in Handlers
         /\ w.readyState = IF kind.stream THEN v.readyState ELSE "CLOSED"
         /\ w.task => v.task \/ kind.stream
         /\ w.closeState = v.closeState /\ w.got = v.got
         /\ w.closedBy = v.closedBy /\ w.failed = v.failed /\ w.closed = v.closed
         /\ w.out = v.out /\ w.socket = v.socket
<1>1. CASE kind.stream
  BY <1>1 DEF Closed, Handlers
<1>2. CASE ~kind.stream
  <2>1. w = OnSocketClose(v)
    BY <1>2 DEF Closed
  <2>2. QED
    BY <1>2, <2>1, OnSocketCloseMeans, ZenonT(60) DEF Handlers
<1>3. QED
  BY <1>1, <1>2

\* How a handler is between two jobs: it is open as long as neither a Close frame
\* was sent nor its socket has ended.
Good(w) ==
  /\ w \in Handlers
  /\ w.readyState = "OPEN" => w.closeState = {}
  /\ w.readyState = "CONNECTING" => w.socket = "none"
  /\ w.task => w.socket # "open"
  /\ w.socket = "open" /\ w.closeState = {} => w.readyState = "OPEN"
  /\ w.closedBy = "peer" => w.closeState # {}

\* What was written: a Close frame only once, a Pong any time.
Writes(v, w) ==
  \/ w.out = v.out
  \/ w.out = Append(v.out, Control("pong"))
  \/ w.out = Append(v.out, Control("close")) /\ v.closeState = {} /\ w.closeState # {}

\* What is done to a handler short of opening it and giving it messages.
Turns(v, w) ==
  /\ Good(w) /\ w.got = v.got /\ Writes(v, w)
  /\ w.readyState = "OPEN" => v.readyState = "OPEN"
  /\ w.socket = "open" => v.socket = "open"
  /\ v.socket = "none" <=> w.socket = "none"
  /\ w.closeState = {} => v.closeState = {}
  /\ w.closedBy = "peer" => v.closedBy = "peer"

LEMMA FailMeans ==
  ASSUME NEW v, Good(v), NEW w, w = FailWebsocketConnection(v)
  PROVE  /\ Turns(v, w) /\ w.readyState # "OPEN" /\ w.failed /\ w.socket # "open"
         /\ v.readyState = "OPEN" => w.closeState = {"SENT"}
         /\ v.readyState # "OPEN" => w.closeState = v.closeState
         /\ w.task => v.task \/ v.readyState = "CONNECTING"
<1> DEFINE t == IF v.readyState = "OPEN" THEN StartClosing(v, "us") ELSE v
           u == [t EXCEPT !.aborted = TRUE, !.failed = TRUE]
<1>1. v \in Handlers
  BY DEF Good
<1>2. /\ t \in Handlers /\ t.task = v.task /\ t.got = v.got
      /\ IF v.readyState = "OPEN"
         THEN /\ t.readyState = "CLOSING" /\ t.closeState = {"SENT"} /\ t.closedBy = "us"
              /\ t.out = IF v.socket = "open" THEN Append(v.out, Control("close"))
                         ELSE v.out
              /\ t.socket = IF v.socket = "ended" THEN "destroyed" ELSE v.socket
         ELSE t = v
  BY <1>1, StartClosingMeans DEF Good
<1> HIDE DEF t
<1>3. /\ u \in Handlers /\ u.task = t.task /\ u.got = t.got /\ u.readyState = t.readyState
      /\ u.closeState = t.closeState /\ u.closedBy = t.closedBy /\ u.out = t.out
      /\ u.socket = t.socket /\ u.failed
  BY <1>2 DEF Handlers
<1>4. w = IF u.readyState = "CONNECTING" THEN Closed(u)
          ELSE IF u.socket \in {"open", "ended"} THEN [u EXCEPT !.socket = "destroyed"]
          ELSE u
  BY DEF FailWebsocketConnection, t
<1> HIDE DEF u
<1>5. CASE u.readyState = "CONNECTING"
  <2>1. w = Closed(u)
    BY <1>4, <1>5
  <2>2. /\ w \in Handlers /\ w.readyState \in {"CONNECTING", "CLOSED"}
        /\ w.closeState = u.closeState /\ w.got = u.got
        /\ w.closedBy = u.closedBy /\ w.failed
        /\ w.out = u.out /\ w.socket = u.socket
    BY <1>3, <1>5, <2>1, ClosedMeans
  <2>3. t = v /\ v.readyState = "CONNECTING"
    BY <1>2, <1>3, <1>5
  <2>4. QED
    BY <1>1, <1>3, <2>2, <2>3 DEF Turns, Good, Writes
<1>6. CASE u.readyState # "CONNECTING"
  <2>1. /\ w \in Handlers /\ w.task = u.task /\ w.got = u.got /\ w.readyState = u.readyState
        /\ w.closeState = u.closeState /\ w.closedBy = u.closedBy /\ w.out = u.out
        /\ w.socket = IF u.socket \in {"open", "ended"} THEN "destroyed" ELSE u.socket
        /\ w.failed
    <3>1. CASE u.socket \in {"open", "ended"}
      <4>1. w = [u EXCEPT !.socket = "destroyed"]
        BY <1>4, <1>6, <3>1
      <4>2. QED
        BY <1>3, <3>1, <4>1, ZenonT(30) DEF Handlers
    <3>2. CASE u.socket \notin {"open", "ended"}
      BY <1>3, <1>4, <1>6, <3>2
    <3>3. QED
      BY <3>1, <3>2
  <2>2. CASE v.readyState = "OPEN"
    <3>1. /\ w.readyState = "CLOSING" /\ w.closeState = {"SENT"} /\ w.closedBy = "us"
          /\ w.socket # "open" /\ (w.socket = "none" <=> v.socket = "none")
          /\ w.out = v.out \/ w.out = Append(v.out, Control("close"))
          /\ w.got = v.got /\ w.task = v.task /\ v.closeState = {}
      BY <1>2, <1>3, <2>1, <2>2 DEF Good
    <3>2. QED
      BY <2>1, <2>2, <3>1 DEF Turns, Good, Writes
  <2>3. CASE v.readyState # "OPEN"
    <3>1. /\ w.readyState = v.readyState /\ w.closeState = v.closeState
          /\ w.closedBy = v.closedBy
          /\ w.socket # "open" /\ (w.socket = "none" <=> v.socket = "none")
          /\ w.out = v.out /\ w.got = v.got /\ w.task = v.task
      BY <1>2, <1>3, <2>1, <2>3
    <3>2. QED
      BY <2>1, <2>3, <3>1 DEF Turns, Good, Writes
  <2>4. QED
    BY <2>2, <2>3
<1>7. QED
  BY <1>5, <1>6

LEMMA AlikeTurns ==
  ASSUME NEW v, Good(v), NEW w, Alike(v, w), w.out = v.out, w.socket = v.socket
  PROVE  Turns(v, w)
BY DEF Alike, Good, Turns, Writes

\* Pausing and resuming.
LEMMA PauseTurns ==
  ASSUME NEW v, Good(v), NEW paused \in BOOLEAN, NEW w, w = [v EXCEPT !.paused = paused]
  PROVE  Turns(v, w) /\ w.readyState = v.readyState /\ w.closeState = v.closeState
         /\ w.socket = v.socket /\ w.task = v.task
<1>1. Alike(v, w) /\ w.out = v.out /\ w.socket = v.socket
  BY DEF Good, Handlers, Alike
<1>2. QED
  BY <1>1, AlikeTurns DEF Alike

LEMMA TurnsOn ==
  ASSUME NEW u, NEW v, Turns(u, v), NEW w, Turns(v, w), w.out = v.out
  PROVE  Turns(u, w)
BY DEF Turns, Writes

LEMMA PongTurns ==
  ASSUME NEW v, Good(v), NEW w, w = Pong(v)
  PROVE  Turns(v, w) /\ w.readyState = v.readyState /\ w.closeState = v.closeState
         /\ w.task = v.task
<1>1. v \in Handlers
  BY DEF Good
<1>2. CASE "RECEIVED" \in v.closeState
  <2>1. w = v
    BY <1>2 DEF Pong
  <2>2. QED
    BY <1>1, <2>1, AlikeTurns DEF Alike
<1>3. CASE "RECEIVED" \notin v.closeState
  <2>1. w = Write(v, Control("pong"))
    BY <1>3 DEF Pong
  <2>2. /\ Alike(v, w)
        /\ w.out = IF v.socket = "open" THEN Append(v.out, Control("pong")) ELSE v.out
        /\ w.socket = IF v.socket = "ended" THEN "destroyed" ELSE v.socket
    BY <1>1, <2>1, ControlIsOut, WriteMeans
  <2>3. QED
    BY <1>1, <2>2 DEF Alike, Good, Turns, Writes
<1>4. QED
  BY <1>2, <1>3

LEMMA StartClosingTurns ==
  ASSUME NEW v, Good(v), v.readyState = "OPEN", NEW w, w = StartClosing(v, "us")
  PROVE  Turns(v, w) /\ w.closeState = {"SENT"} /\ w.task = v.task
<1>1. v \in Handlers /\ v.closeState = {}
  BY DEF Good
<1>2. /\ w \in Handlers /\ w.readyState = "CLOSING" /\ w.task = v.task /\ w.got = v.got
      /\ w.closeState = {"SENT"} /\ w.closedBy = "us"
      /\ w.out = IF v.socket = "open" THEN Append(v.out, Control("close")) ELSE v.out
      /\ w.socket = IF v.socket = "ended" THEN "destroyed" ELSE v.socket
  BY <1>1, StartClosingMeans
<1>3. QED
  BY <1>1, <1>2 DEF Turns, Good, Writes

LEMMA CloseTurns ==
  ASSUME NEW v, Good(v), NEW w, w = CloseWebSocketConnection(v)
  PROVE  /\ Turns(v, w) /\ w.readyState # "OPEN"
         /\ v.closeState # {} \/ v.readyState # "OPEN" \/ w.closeState # {}
         /\ v.readyState # "OPEN" => w.closeState = v.closeState
         /\ w.task => v.task \/ v.readyState = "CONNECTING"
<1>1. CASE v.readyState = "CONNECTING"
  <2>1. PICK u : u = FailWebsocketConnection(v)
    OBVIOUS
  <2>2. /\ Turns(v, u) /\ u.socket # "open" /\ u.closeState = v.closeState
        /\ u.task => v.task \/ v.readyState = "CONNECTING"
    BY <1>1, <2>1, FailMeans
  <2>3. w = [u EXCEPT !.readyState = "CLOSING"]
    BY <1>1, <2>1 DEF CloseWebSocketConnection
  <2>4. /\ w \in Handlers /\ w.readyState = "CLOSING" /\ w.closeState = u.closeState
        /\ w.task = u.task /\ w.got = u.got /\ w.out = u.out /\ w.socket = u.socket
        /\ w.closedBy = u.closedBy
    BY <2>2, <2>3, ZenonT(30) DEF Turns, Good, Handlers
  <2>5. QED
    BY <1>1, <2>2, <2>4 DEF Turns, Good, Writes
<1>2. CASE v.readyState = "OPEN"
  <2>1. w = StartClosing(v, "us")
    BY <1>2 DEF CloseWebSocketConnection
  <2>2. w.readyState = "CLOSING"
    BY <2>1, StartClosingMeans DEF Good
  <2>3. QED
    BY <1>2, <2>1, <2>2, StartClosingTurns
<1>3. CASE v.readyState \notin {"CONNECTING", "OPEN"}
  <2>1. w = v
    BY <1>3 DEF CloseWebSocketConnection
  <2>2. Turns(v, w)
    BY <2>1, AlikeTurns DEF Alike, Good
  <2>3. QED
    BY <1>3, <2>1, <2>2
<1>4. QED
  BY <1>1, <1>2, <1>3

----------------------------------------------------------------------------
(* The invariant.                                                           *)

\* The parser has taken k frames, and p parts of w in all.
At(w, p, k, q, fs, kd) ==
  /\ k \in 0..Len(fs)
  /\ q.busy = "inflating" => q.state = "READ_DATA"
  /\ q.state = "INFO" => IF p = 0 THEN k = 0 ELSE w[p].id = k /\ IsLast(w[p])
  /\ q.state = "READ_DATA" =>
       /\ k < Len(fs) /\ p \in 1..Len(w) /\ w[p].id = k + 1
       /\ q.info.op = fs[k+1].op /\ q.info.fin = fs[k+1].fin
       /\ fs[k+1].wrong \notin {"opcode", "reserved"} /\ (fs[k+1].rsv1 => kd.deflate)
       /\ IF q.busy = "inflating"
          THEN /\ q.body = w[p] /\ w[p].part = "payload" /\ q.info.compressed
               /\ fs[k+1].op \in {"text", "continuation"}
          ELSE w[p].part = "head"

\* The fragments it holds are those of the message that h leaves open, all of
\* them deflated or none, with nothing wrong as far as one can tell so far.
Gathers(h, fs, k, q) ==
  /\ Len(q.fragments) <= MaxFragments
  /\ \A i \in 1..Len(q.fragments) :
       /\ q.fragments[i].id \in 1..k /\ q.fragments[i].frame = fs[q.fragments[i].id]
       /\ q.fragments[i].inflated <=> q.fragments[1].frame.rsv1
  /\ h.ok => /\ Len(h.open) = Len(q.fragments)
             /\ \A i \in 1..Len(q.fragments) :
                  h.open[i] = q.fragments[i].id /\ q.fragments[i].frame.wrong = ""
  /\ ~h.ok => \E i \in 1..Len(q.fragments) : q.fragments[i].frame.wrong = "utf8"
  /\ q.fragments # <<>> =>
       /\ q.fragments[1].frame.op = "text"
       /\ \A m \in q.fragments[1].id+1..k : fs[m].op # "text"

\* It knows whether the message is deflated.
Knows(q) == q.info.compressed <=> q.fragments # <<>> /\ q.fragments[1].frame.rsv1

Follows(h, fs, k, q) ==
  /\ Gathers(h, fs, k, q)
  /\ q.state = "INFO" => Knows(q)
  /\ q.state = "READ_DATA" =>
       IF fs[k+1].op = "text"
       THEN q.fragments = <<>> /\ (q.info.compressed <=> fs[k+1].rsv1)
       ELSE Knows(q) /\ (fs[k+1].op = "continuation" => q.fragments # <<>>)

Listening == ws.readyState = "OPEN" \/ peer.handshake = "pending"

InStep(w, p, k) ==
  LET h == Heard(kind, peer.frames)[k]
  IN  /\ Wired(w, peer.frames, Len(peer.frames))
      /\ Laid(w, p, parser, peer.inbox)
      /\ At(w, p, k, parser, peer.frames, kind)
      /\ Listening => ws.got = h.said /\ Follows(h, peer.frames, k, parser)

\* What the user got was said.
GotSaid ==
  /\ \E n \in 0..Len(peer.frames) : ws.got = Heard(kind, peer.frames)[n].said
  /\ ws.closedBy = "peer" =>
       ws.got = Heard(kind, peer.frames)[Len(peer.frames)].said

Busy == parser.busy \in {"parsing", "inflating"}

Talk == GotSaid /\ (parser.busy # "stuck" => \E w, p, k : InStep(w, p, k))

Peers ==
  [inbox : Seq(WireParts), frames : Seq(Frames), reset : BOOLEAN,
   handshake : {"pending", "over"}]

Shape ==
  /\ kind \in Kinds /\ Good(ws) /\ parser \in Parsers
  /\ peer \in Peers /\ IsScript(peer.frames)
  /\ peer.handshake = "pending" =>
       /\ ws.closeState = {} /\ ws.socket = "none" /\ parser.busy = "idle"
       /\ ws.readyState # "OPEN" /\ ws.closedBy # "peer"
  /\ Busy /\ ws.closeState = {} => ws.readyState = "OPEN"
  /\ Busy => ~ws.task /\ ws.socket # "none"
  /\ parser.busy = "idle" => parser.chunks = <<>>

\* The messages leave in order, behind a Close frame none of a stream.
Leave ==
  /\ queue \in Seq([message : Nat, ready : BOOLEAN]) /\ sends \in Nat
  /\ kind.stream => queue = <<>>
  /\ \A i, j \in DOMAIN queue : i < j => queue[i].message < queue[j].message
  /\ \A i \in DOMAIN queue : queue[i].message <= sends
  /\ \A i \in DOMAIN ws.out :
       /\ ws.out[i].op = "close" => ws.closeState # {}
       /\ ws.out[i].op = "message" =>
            ws.out[i].id <= sends /\ \A j \in DOMAIN queue : ws.out[i].id < queue[j].message
  /\ \A i, j \in DOMAIN ws.out :
       i < j => /\ ws.out[i].op = "message" /\ ws.out[j].op = "message"
                     => ws.out[i].id < ws.out[j].id
                /\ ws.out[i].op = "close" => ws.out[j].op # "close"
                /\ ws.out[i].op = "close" /\ kind.stream => ws.out[j].op # "message"

IInv == Shape /\ Talk /\ Leave

LEMMA SameGathered ==
  ASSUME NEW h, NEW fs, NEW k, NEW q, NEW r, Gathers(h, fs, k, q), r.fragments = q.fragments
  PROVE  Gathers(h, fs, k, r)
<1>1. PICK g : g = q.fragments
  OBVIOUS
<1>2. q.fragments = g /\ r.fragments = g
  BY <1>1
<1>3. QED
  BY <1>2, ZenonT(30) DEF Gathers

\* The parser goes on where it was.
Resumes(q, r) ==
  /\ r.state = q.state /\ r.info = q.info /\ r.body = q.body /\ r.fragments = q.fragments
  /\ r.busy = "stuck" \/ (r.busy = "inflating" <=> q.busy = "inflating")
  /\ q.busy = "stuck" => r.busy = "stuck"

LEMMA FollowsOn ==
  ASSUME NEW h, NEW fs, NEW k, NEW q, NEW r, Follows(h, fs, k, q),
         r.state = q.state, r.info = q.info, r.fragments = q.fragments
  PROVE  Follows(h, fs, k, r)
<1>1. Gathers(h, fs, k, r)
  BY SameGathered DEF Follows
<1>2. Knows(q) => Knows(r)
  BY DEF Knows
<1>3. QED
  BY <1>1, <1>2 DEF Follows

LEMMA TalkKeeps ==
  ASSUME Talk, kind' = kind, peer'.frames = peer.frames, ws'.got = ws.got,
         Listening' => Listening, ws'.closedBy = "peer" => ws.closedBy = "peer",
         Resumes(parser, parser'),
         ASSUME NEW w, NEW p, Wired(w, peer.frames, Len(peer.frames)),
                Laid(w, p, parser, peer.inbox), parser'.busy # "stuck"
         PROVE  Laid(w, p, parser', peer'.inbox)
  PROVE  Talk'
<1>1. GotSaid'
  BY DEF Talk, GotSaid
<1>2. ASSUME parser'.busy # "stuck" PROVE (\E w, p, k : InStep(w, p, k))'
  <2>1. parser.busy # "stuck"
    BY <1>2 DEF Resumes
  <2>2. PICK w, p, k : InStep(w, p, k)
    BY <2>1 DEF Talk
  <2>3. Laid(w, p, parser', peer'.inbox)
    BY <1>2, <2>2 DEF InStep
  <2>4. At(w, p, k, parser', peer.frames, kind)
    BY <1>2, <2>2 DEF InStep, At, Resumes
  <2>5. Follows(Heard(kind, peer.frames)[k], peer.frames, k, parser)
          => Follows(Heard(kind, peer.frames)[k], peer.frames, k, parser')
    BY FollowsOn DEF Resumes
  <2>6. InStep(w, p, k)'
    BY <2>2, <2>3, <2>4, <2>5 DEF InStep
  <2>7. QED
    BY <2>6
<1>3. QED
  BY <1>1, <1>2 DEF Talk

LEMMA LeaveKeeps ==
  ASSUME Leave, ws \in Handlers, UNCHANGED <<queue, sends, kind>>, Writes(ws, ws'),
         ws'.closeState = {} => ws.closeState = {}
  PROVE  Leave'
<1>1. ws.out \in Seq(Outs) /\ Len(ws.out) \in Nat /\ DOMAIN ws.out = 1..Len(ws.out)
  <2>1. ws.out \in Seq(Outs)
    BY DEF Handlers
  <2>2. QED
    BY <2>1
<1>2. CASE ws'.out = ws.out
  BY <1>2 DEF Leave
<1>3. ASSUME NEW x \in Outs, ws'.out = Append(ws.out, x), x.op # "message",
             x.op = "close" => ws.closeState = {} /\ ws'.closeState # {}
      PROVE  Leave'
  <2>1. /\ DOMAIN ws'.out = 1..Len(ws.out)+1
        /\ \A i \in 1..Len(ws.out) : ws'.out[i] = ws.out[i]
        /\ ws'.out[Len(ws.out)+1] = x
    BY <1>1, <1>3
  <2>2. \A i \in DOMAIN ws'.out : i \in DOMAIN ws.out \/ i = Len(ws.out) + 1
    BY <1>1, <2>1
  <2>3. \A i \in DOMAIN ws'.out :
       /\ ws'.out[i].op = "close" => ws'.closeState # {}
       /\ ws'.out[i].op = "message" =>
            ws'.out[i].id <= sends /\ \A j \in DOMAIN queue : ws'.out[i].id < queue[j].message
    BY <1>1, <1>3, <2>1, <2>2 DEF Leave
  <2>4. ASSUME NEW i \in DOMAIN ws'.out, NEW j \in DOMAIN ws'.out, i < j
        PROVE  /\ ws'.out[i].op = "message" /\ ws'.out[j].op = "message"
                     => ws'.out[i].id < ws'.out[j].id
               /\ ws'.out[i].op = "close" => ws'.out[j].op # "close"
               /\ ws'.out[i].op = "close" /\ kind.stream => ws'.out[j].op # "message"
    <3>1. i \in DOMAIN ws.out
      BY <1>1, <2>1, <2>4
    <3>2. CASE j \in DOMAIN ws.out
      BY <1>1, <2>1, <2>4, <3>1, <3>2 DEF Leave
    <3>3. CASE j = Len(ws.out) + 1
      BY <1>1, <1>3, <2>1, <3>1, <3>3 DEF Leave
    <3>4. QED
      BY <2>2, <3>2, <3>3
  <2>5. QED
    BY <2>3, <2>4 DEF Leave
<1>4. QED
  BY <1>2, <1>3, ControlIsOut DEF Writes, Control

\* Something is done to the handler while the parser waits, or a listener runs.
LEMMA TurnsInv ==
  ASSUME IInv, UNCHANGED <<kind, parser, queue, sends>>, Turns(ws, ws'),
         peer' \in Peers, peer'.frames = peer.frames, peer'.inbox = peer.inbox,
         peer'.handshake = peer.handshake
           \/ (peer'.handshake = "over" /\ ws'.readyState # "OPEN"),
         Busy => (ws'.closeState = {} => ws'.readyState = "OPEN") /\ ~ws'.task,
         peer'.handshake = "pending" => ws'.closeState = {}
  PROVE  IInv'
<1>1. Listening' => Listening
  BY DEF Listening, Turns
<1>2. Talk'
  BY <1>1, TalkKeeps DEF IInv, Turns, Resumes
<1>3. Leave'
  BY LeaveKeeps DEF IInv, Shape, Good, Turns
<1>4. Shape'
  BY DEF IInv, Shape, Busy, Turns
<1>5. QED
  BY <1>2, <1>3, <1>4 DEF IInv

----------------------------------------------------------------------------
(* What leaves the parser alone.                                            *)

LEMMA EstablishInv == ASSUME IInv, Establish PROVE IInv'
<1>1. PICK v : v = [ws EXCEPT !.socket = "open"]
  OBVIOUS
<1>2. /\ Good(ws) /\ peer.handshake = "pending" /\ ~ws.task /\ ws.closeState = {}
      /\ ws.closedBy # "peer" /\ parser.busy = "idle"
  BY DEF IInv, Shape, Establish, Quiet
<1>3. Alike(ws, v) /\ v.out = ws.out /\ v.socket = "open"
  BY <1>1, <1>2 DEF Good, Handlers, Alike
<1>4. /\ ws' \in Handlers /\ ws'.readyState = "OPEN" /\ ws'.closeState = v.closeState
      /\ ws'.task = v.task /\ ws'.got = v.got /\ ws'.closedBy = v.closedBy
      /\ ws'.out = v.out /\ ws'.socket = v.socket
  <2>1. CASE kind.stream
    <3>1. ws' = [v EXCEPT !.readyState = "OPEN", !.opened = "resolved",
                          !.readable = "readable"]
      BY <1>1, <2>1 DEF Establish, StreamOpened
    <3>2. QED
      BY <1>3, <3>1 DEF Alike, Handlers, Settled
  <2>2. CASE ~kind.stream
    <3>1. PICK events : events = Append(v.events, "open")
      OBVIOUS
    <3>2. ws' = [v EXCEPT !.readyState = "OPEN", !.events = events]
      BY <1>1, <2>2, <3>1 DEF Establish, Opened
    <3>3. events \in Seq({"open", "message", "error", "clean", "unclean"})
      <4>1. v.events \in Seq({"open", "message", "error", "clean", "unclean"})
        BY <1>3 DEF Alike, Handlers
      <4>2. QED
        BY <3>1, <4>1
    <3>4. QED
      BY <1>3, <3>2, <3>3 DEF Alike, Handlers
  <2>3. QED
    BY <2>1, <2>2
<1>5. Good(ws')
  BY <1>2, <1>3, <1>4 DEF Good, Alike
<1>6. /\ kind' = kind /\ parser' = parser /\ peer'.frames = peer.frames
      /\ peer'.inbox = peer.inbox /\ peer'.handshake = "over" /\ Listening
      /\ UNCHANGED <<queue, sends>> /\ peer' \in Peers
  <2>1. /\ kind' = kind /\ parser' = parser /\ UNCHANGED <<queue, sends>>
        /\ peer' = [peer EXCEPT !.handshake = "over"]
    BY DEF Establish
  <2>2. peer \in Peers
    BY DEF IInv, Shape
  <2>3. QED
    BY <1>2, <2>1, <2>2 DEF Listening, Peers
<1>7. Talk'
  <2>1. ws'.got = ws.got /\ (ws'.closedBy = "peer" => ws.closedBy = "peer")
    BY <1>3, <1>4 DEF Alike
  <2>2. QED
    BY <1>6, <2>1, TalkKeeps DEF IInv, Resumes
<1>8. Leave'
  <2>1. Writes(ws, ws')
    BY <1>3, <1>4 DEF Writes
  <2>2. QED
    BY <1>2, <1>6, <2>1, LeaveKeeps DEF IInv, Good
<1>9. Shape'
  BY <1>2, <1>4, <1>5, <1>6 DEF IInv, Shape, Busy
<1>10. QED
  BY <1>7, <1>8, <1>9 DEF IInv

\* The end of the handshake.
LEMMA PeerOver ==
  ASSUME peer \in Peers, peer' = [peer EXCEPT !.handshake = "over"]
  PROVE  /\ peer' \in Peers /\ peer'.frames = peer.frames /\ peer'.inbox = peer.inbox
         /\ peer'.handshake = "over"
BY DEF Peers

LEMMA FailHandshakeInv == ASSUME IInv, FailHandshake PROVE IInv'
<1>1. /\ Good(ws) /\ peer \in Peers /\ parser.busy = "idle"
      /\ peer' = [peer EXCEPT !.handshake = "over"] /\ ws' = FailWebsocketConnection(ws)
      /\ UNCHANGED <<kind, parser, queue, sends>>
  BY DEF IInv, Shape, FailHandshake
<1>2. Turns(ws, ws') /\ ws'.readyState # "OPEN"
  BY <1>1, FailMeans
<1>3. QED
  BY <1>1, <1>2, PeerOver, TurnsInv DEF Busy

LEMMA ListenerReturnsInv == ASSUME IInv, ListenerReturns PROVE IInv'
<1>1. /\ UNCHANGED <<kind, ws, parser, queue, sends, peer>>
      /\ Good(ws) /\ peer \in Peers
      /\ Busy => (ws.closeState = {} => ws.readyState = "OPEN") /\ ~ws.task
      /\ peer.handshake = "pending" => ws.closeState = {}
  BY DEF IInv, Shape, ListenerReturns
<1>2. Turns(ws, ws')
  BY <1>1, AlikeTurns DEF Alike, Good
<1>3. QED
  BY <1>1, <1>2, TurnsInv

LEMMA SocketEndInv == ASSUME ~SlowInflate, IInv, SocketEnd PROVE IInv'
<1>1. /\ UNCHANGED <<kind, parser, queue, sends, peer>> /\ ~Busy
      /\ Good(ws) /\ peer \in Peers /\ ws.socket = "open"
      /\ ws' = [ws EXCEPT !.socket = "ended"] /\ peer.handshake # "pending"
  BY DEF IInv, Shape, SocketEnd, Quiet, InflaterLate, Busy
<1>2. Alike(ws, ws') /\ ws'.out = ws.out /\ ws'.socket = "ended"
  BY <1>1 DEF Alike, Good, Handlers
<1>3. Turns(ws, ws')
  BY <1>1, <1>2 DEF Alike, Good, Turns, Writes
<1>4. QED
  BY <1>1, <1>3, TurnsInv

LEMMA SocketCloseInv == ASSUME ~SlowInflate, IInv, SocketClose PROVE IInv'
<1>1. PICK v : v = [ws EXCEPT !.socket = "closed"]
  OBVIOUS
<1>2. /\ UNCHANGED <<kind, parser, queue, sends, peer>> /\ ~Busy
      /\ Good(ws) /\ peer \in Peers /\ ws.socket \in {"ended", "destroyed"}
      /\ ws' = Closed(v) /\ peer.handshake # "pending"
  BY <1>1 DEF IInv, Shape, SocketClose, Quiet, InflaterLate, Busy
<1>3. Alike(ws, v) /\ v.out = ws.out /\ v.socket = "closed"
  BY <1>1, <1>2 DEF Alike, Good, Handlers
<1>4. /\ ws' \in Handlers
      /\ ws'.readyState = IF kind.stream THEN v.readyState ELSE "CLOSED"
      /\ ws'.closeState = v.closeState /\ ws'.got = v.got
      /\ ws'.closedBy = v.closedBy /\ ws'.out = v.out /\ ws'.socket = v.socket
  BY <1>2, <1>3, ClosedMeans DEF Alike
<1>5. Turns(ws, ws')
  BY <1>2, <1>3, <1>4 DEF Alike, Good, Turns, Writes
<1>6. QED
  BY <1>2, <1>5, TurnsInv

LEMMA SocketErrorInv == ASSUME ~SlowInflate, IInv, SocketError PROVE IInv'
<1>1. PICK v : v = [ws EXCEPT !.socket = "closed", !.readyState = "CLOSING"]
  OBVIOUS
<1>2. /\ UNCHANGED <<kind, parser, queue, sends>> /\ ~Busy
      /\ Good(ws) /\ peer \in Peers /\ ws.socket = "open"
      /\ peer' = [peer EXCEPT !.reset = TRUE]
      /\ ws' = Closed(v) /\ peer.handshake # "pending"
  BY <1>1 DEF IInv, Shape, SocketError, Quiet, InflaterLate, Busy
<1>3. /\ v \in Handlers /\ v.out = ws.out /\ v.socket = "closed" /\ v.got = ws.got
      /\ v.readyState = "CLOSING" /\ v.closeState = ws.closeState /\ v.closedBy = ws.closedBy
  BY <1>1, <1>2 DEF Good, Handlers
<1>4. /\ ws' \in Handlers
      /\ ws'.readyState = IF kind.stream THEN v.readyState ELSE "CLOSED"
      /\ ws'.closeState = v.closeState /\ ws'.got = v.got
      /\ ws'.closedBy = v.closedBy /\ ws'.out = v.out /\ ws'.socket = v.socket
  BY <1>2, <1>3, ClosedMeans
<1>5. Turns(ws, ws')
  BY <1>2, <1>3, <1>4 DEF Good, Turns, Writes
<1>6. /\ peer' \in Peers /\ peer'.frames = peer.frames /\ peer'.inbox = peer.inbox
      /\ peer'.handshake = peer.handshake
  BY <1>2 DEF Peers
<1>7. QED
  BY <1>2, <1>5, <1>6, TurnsInv

LEMMA CloseTaskInv == ASSUME IInv, CloseTask PROVE IInv'
<1>1. /\ UNCHANGED <<kind, parser, queue, sends, peer>> /\ ~Busy
      /\ Good(ws) /\ peer \in Peers /\ ws.task
      /\ peer.handshake = "pending" => ws.closeState = {}
  BY DEF IInv, Shape, CloseTask
<1>2. PICK v : v = [ws EXCEPT !.task = FALSE, !.readyState = "CLOSED"]
  OBVIOUS
<1>3. /\ v \in Handlers /\ v.out = ws.out /\ v.socket = ws.socket /\ v.got = ws.got
      /\ v.readyState = "CLOSED" /\ v.closeState = ws.closeState
      /\ v.closedBy = ws.closedBy /\ ~v.task
  BY <1>1, <1>2 DEF Good, Handlers
<1>4. /\ ws' \in Handlers /\ ws'.out = v.out /\ ws'.socket = v.socket /\ ws'.got = v.got
      /\ ws'.readyState = v.readyState /\ ws'.closeState = v.closeState
      /\ ws'.closedBy = v.closedBy /\ ws'.task = v.task
  <2>1. CASE ws.handshakeAborted
    <3>1. ws' = v
      BY <1>2, <2>1 DEF CloseTask
    <3>2. QED
      BY <1>3, <3>1
  <2>2. CASE ~ws.handshakeAborted
    <3>1. PICK clean : clean = (ws.closeState = {"SENT", "RECEIVED"})
      OBVIOUS
    <3>2. PICK opened \in Settled :
            opened = IF v.opened = "pending" THEN "rejected" ELSE v.opened
      BY <1>3 DEF Handlers, Settled
    <3>3. PICK closed \in Settled :
            closed = IF v.closed # "pending" THEN v.closed
                     ELSE IF clean THEN "resolved" ELSE "rejected"
      BY <1>3 DEF Handlers, Settled
    <3>4. PICK readable \in {"none", "readable", "closed", "errored", "cancelled"} :
            readable = IF v.readable # "readable" THEN v.readable
                       ELSE IF clean THEN "closed" ELSE "errored"
      BY <1>3 DEF Handlers
    <3>5. PICK unread \in Nat : unread = IF clean THEN v.unread ELSE 0
      BY <1>3 DEF Handlers
    <3>6. ws' = [v EXCEPT !.opened = opened, !.closed = closed, !.readable = readable,
                          !.unread = unread, !.reading = FALSE]
      BY <1>2, <1>3, <2>2, <3>1, <3>2, <3>3, <3>4, <3>5 DEF CloseTask, Handlers
    <3>7. PICK t : t = [v EXCEPT !.opened = opened, !.closed = closed]
      OBVIOUS
    <3>8. ws' = [t EXCEPT !.readable = readable, !.unread = unread, !.reading = FALSE]
      BY <3>6, <3>7
    <3>9. /\ t \in Handlers /\ t.out = v.out /\ t.socket = v.socket /\ t.got = v.got
          /\ t.readyState = v.readyState /\ t.closeState = v.closeState
          /\ t.closedBy = v.closedBy /\ t.task = v.task
      BY <1>3, <3>7 DEF Handlers
    <3>10. Alike(t, ws') /\ ws'.out = t.out /\ ws'.socket = t.socket
      BY <3>8, <3>9 DEF Handlers, Alike
    <3>11. QED
      BY <3>9, <3>10 DEF Alike
  <2>3. QED
    BY <2>1, <2>2
<1>5. Turns(ws, ws')
  BY <1>1, <1>3, <1>4 DEF Good, Turns, Writes
<1>6. QED
  BY <1>1, <1>3, <1>4, <1>5, TurnsInv

\* The user closes while the parser waits, or is at work.
LEMMA CloseKeeps ==
  ASSUME IInv, NEW w, w = CloseWebSocketConnection(ws)
  PROVE  /\ Turns(ws, w)
         /\ Busy => (w.closeState = {} => w.readyState = "OPEN") /\ ~w.task
         /\ peer.handshake = "pending" => w.closeState = {}
<1>1. /\ Good(ws)
      /\ Busy => /\ ws.closeState = {} => ws.readyState = "OPEN"
                 /\ ~ws.task /\ ws.socket # "none"
      /\ peer.handshake = "pending" => ws.closeState = {} /\ ws.readyState # "OPEN"
  BY DEF IInv, Shape
<1>2. /\ Turns(ws, w) /\ w.readyState # "OPEN"
      /\ ws.closeState # {} \/ ws.readyState # "OPEN" \/ w.closeState # {}
      /\ ws.readyState # "OPEN" => w.closeState = ws.closeState
      /\ w.task => ws.task \/ ws.readyState = "CONNECTING"
  BY <1>1, CloseTurns
<1>3. QED
  BY <1>1, <1>2 DEF Turns, Good

LEMMA UserClosesInv == ASSUME IInv, UserCloses PROVE IInv'
<1>1. /\ UNCHANGED <<kind, parser, queue, sends, peer>> /\ peer \in Peers
      /\ ws' = CloseWebSocketConnection(ws)
  BY DEF IInv, Shape, UserCloses
<1>2. QED
  BY <1>1, CloseKeeps, TurnsInv

LEMMA UserReadsInv == ASSUME IInv, UserReads PROVE IInv'
<1>1. /\ UNCHANGED <<kind, parser, queue, sends, peer>>
      /\ Good(ws) /\ peer \in Peers
      /\ Busy => (ws.closeState = {} => ws.readyState = "OPEN") /\ ~ws.task
      /\ peer.handshake = "pending" => ws.closeState = {}
  BY DEF IInv, Shape, UserReads
<1>2. PICK unread : unread = IF ws.unread > 0 THEN ws.unread - 1 ELSE 0
  OBVIOUS
<1>3. PICK reading \in BOOLEAN : reading = (ws.unread = 0)
  OBVIOUS
<1>4. PICK paused : paused = (ws.paused /\ ws.unread > 1)
  OBVIOUS
<1>5. ws' = [ws EXCEPT !.unread = unread, !.reading = reading, !.paused = paused]
  BY <1>1, <1>2, <1>3, <1>4 DEF UserReads, Good, Handlers
<1>6. unread \in Nat /\ paused \in BOOLEAN
  <2>1. ws.unread \in Nat /\ ws.paused \in BOOLEAN
    BY <1>1 DEF Good, Handlers
  <2>2. QED
    BY <1>2, <1>4, <2>1
<1>7. Alike(ws, ws') /\ ws'.out = ws.out /\ ws'.socket = ws.socket
  BY <1>1, <1>3, <1>5, <1>6, ZenonT(30) DEF Alike, Good, Handlers
<1>8. Turns(ws, ws')
  BY <1>1, <1>7, AlikeTurns
<1>9. QED
  BY <1>1, <1>7, <1>8, TurnsInv DEF Alike

LEMMA UserCancelsInv == ASSUME IInv, UserCancels PROVE IInv'
<1>1. PICK v : v = CloseWebSocketConnection(ws)
  OBVIOUS
<1>2. /\ UNCHANGED <<kind, parser, queue, sends, peer>> /\ peer \in Peers
      /\ ws' = [v EXCEPT !.readable = "cancelled", !.unread = 0, !.reading = FALSE]
  BY <1>1 DEF IInv, Shape, UserCancels
<1>3. /\ Turns(ws, v)
      /\ Busy => (v.closeState = {} => v.readyState = "OPEN") /\ ~v.task
      /\ peer.handshake = "pending" => v.closeState = {}
  BY <1>1, CloseKeeps
<1>4. Alike(v, ws') /\ ws'.out = v.out /\ ws'.socket = v.socket
  BY <1>2, <1>3 DEF Alike, Turns, Good, Handlers
<1>5. Turns(v, ws')
  BY <1>3, <1>4, AlikeTurns DEF Turns
<1>6. Turns(ws, ws')
  BY <1>3, <1>4, <1>5, TurnsOn
<1>7. QED
  BY <1>2, <1>3, <1>4, <1>6, TurnsInv DEF Alike

LEMMA SignalAbortsInv == ASSUME IInv, SignalAborts PROVE IInv'
<1>1. PICK v : v = FailWebsocketConnection(ws)
  OBVIOUS
<1>2. /\ UNCHANGED <<kind, parser, queue, sends, peer>> /\ peer \in Peers
      /\ Good(ws) /\ ws.readyState # "OPEN"
      /\ Busy => ws.closeState # {} /\ ~ws.task /\ ws.socket # "none"
      /\ peer.handshake = "pending" => ws.closeState = {}
  BY DEF IInv, Shape, SignalAborts
<1>3. /\ Turns(ws, v) /\ v.readyState # "OPEN" /\ v.socket # "open"
      /\ v.closeState = ws.closeState
      /\ v.task => ws.task \/ ws.readyState = "CONNECTING"
  BY <1>1, <1>2, FailMeans
<1>4. v \in Handlers
  BY <1>3 DEF Turns, Good
<1>5. PICK opened \in Settled :
        opened = IF v.opened = "pending" THEN "rejected" ELSE v.opened
  BY <1>4 DEF Handlers, Settled
<1>6. PICK closed \in Settled :
        closed = IF v.closed = "pending" THEN "rejected" ELSE v.closed
  BY <1>4 DEF Handlers, Settled
<1>7. ws' = [v EXCEPT !.readyState = "CLOSING", !.handshakeAborted = TRUE,
                      !.opened = opened, !.closed = closed]
  BY <1>1, <1>4, <1>5, <1>6 DEF SignalAborts, Handlers
<1>8. /\ ws' \in Handlers /\ ws'.out = v.out /\ ws'.socket = v.socket /\ ws'.got = v.got
      /\ ws'.readyState = "CLOSING" /\ ws'.closeState = v.closeState
      /\ ws'.closedBy = v.closedBy /\ ws'.task = v.task
  <2>1. PICK t : t = [v EXCEPT !.readyState = "CLOSING", !.handshakeAborted = TRUE]
    OBVIOUS
  <2>2. /\ t \in Handlers /\ t.out = v.out /\ t.socket = v.socket /\ t.got = v.got
        /\ t.readyState = "CLOSING" /\ t.closeState = v.closeState
        /\ t.closedBy = v.closedBy /\ t.task = v.task
    BY <1>4, <2>1 DEF Handlers
  <2>3. ws' = [t EXCEPT !.opened = opened, !.closed = closed]
    BY <1>7, <2>1
  <2>4. QED
    BY <2>2, <2>3 DEF Handlers
<1>9. Turns(ws, ws')
  BY <1>2, <1>3, <1>8 DEF Good, Turns, Writes
<1>10. QED
  BY <1>2, <1>3, <1>8, <1>9, TurnsInv DEF Good

----------------------------------------------------------------------------
(* Sending.                                                                 *)

Nodes == [message : Nat, ready : BOOLEAN]

LEMMA Shifts ==
  ASSUME NEW l \in Nat, NEW n \in Nat, NEW i \in Int, NEW j \in Int,
         i - l \in 1..n, j \in 1..l+n, i < j
  PROVE  j - l \in 1..n /\ i - l < j - l
OBVIOUS

\* n messages leave, of the numbers c.
Grown(n, c) ==
  /\ n \in Nat /\ c \in [1..n -> Nat]
  /\ \A k \in 1..n : \A m \in 1..n : k < m => c[k] < c[m]
  /\ ws'.out \in Seq(Outs) /\ Len(ws'.out) = Len(ws.out) + n
  /\ \A i \in 1..Len(ws.out) : ws'.out[i] = ws.out[i]
  /\ \A k \in 1..n : ws'.out[Len(ws.out) + k] = Message(c[k])
  /\ \A i \in 1..Len(ws.out) : ws.out[i].op = "message" =>
        \A k \in 1..n : ws.out[i].id < c[k]
  /\ \A k \in 1..n : c[k] <= sends'
  /\ \A k \in 1..n : \A j \in 1..Len(queue') : c[k] < queue'[j].message
  /\ kind.stream => n = 0 \/ ws.closeState = {}

\* What waits goes behind what has left.
Waits ==
  /\ queue' \in Seq(Nodes) /\ sends' \in Nat /\ sends <= sends'
  /\ kind.stream => queue' = <<>>
  /\ \A i \in 1..Len(queue') : \A j \in 1..Len(queue') :
        i < j => queue'[i].message < queue'[j].message
  /\ \A j \in 1..Len(queue') : queue'[j].message <= sends'
  /\ \A i \in 1..Len(ws.out) : ws.out[i].op = "message" =>
        \A j \in 1..Len(queue') : ws.out[i].id < queue'[j].message

LEMMA LeaveGrows ==
  ASSUME Leave, ws.out \in Seq(Outs), kind' = kind, ws'.closeState = ws.closeState,
         NEW n, NEW c, Grown(n, c), Waits
  PROVE  Leave'
<1>1. n \in Nat /\ Len(ws.out) \in Nat
  BY DEF Grown
<1>0. PICK l \in Nat : l = Len(ws.out)
  BY <1>1
<1>2. /\ DOMAIN ws.out = 1..l /\ DOMAIN ws'.out = 1..l+n /\ DOMAIN queue' = 1..Len(queue')
      /\ \A i \in 1..l : ws'.out[i] = ws.out[i] /\ i \in 1..l+n
  BY <1>0, <1>1 DEF Grown, Waits
<1>3. \A i \in 1..l+n : i \in 1..l \/ (i - l \in 1..n /\ i = l + (i - l))
  BY <1>1
<1>4. ASSUME NEW i \in 1..l+n, i - l \in 1..n
      PROVE  /\ ws'.out[i].op = "message" /\ ws'.out[i].id = c[i - l]
  <2>1. ws'.out[i] = Message(c[i-l])
    <3>1. i = Len(ws.out) + (i - l)
      BY <1>0, <1>1
    <3>2. QED
      BY <1>4, <3>1 DEF Grown
  <2>2. QED
    BY <2>1 DEF Message
<1>5. ASSUME NEW i \in DOMAIN ws'.out
      PROVE  /\ ws'.out[i].op = "close" => ws'.closeState # {}
             /\ ws'.out[i].op = "message" =>
                  ws'.out[i].id <= sends' /\ \A j \in DOMAIN queue' : ws'.out[i].id < queue'[j].message
  <2>1. i \in 1..l+n
    BY <1>2, <1>5
  <2>2. CASE i \in 1..l
    <3>1. /\ ws.out[i].op = "close" => ws.closeState # {}
          /\ ws.out[i].op = "message" => ws.out[i].id <= sends
      BY <1>2, <2>2 DEF Leave
    <3>2. ws.out[i].id \in Nat /\ sends \in Nat /\ sends' \in Nat /\ sends <= sends'
      <4>1. ws.out[i] \in Outs
        BY <1>0, <2>2
      <4>2. QED
        BY <4>1 DEF Outs, Leave, Waits
    <3>3. ws'.out[i] = ws.out[i]
      BY <1>2, <2>2
    <3>4. ws.out[i].op = "message" =>
            \A j \in DOMAIN queue' : ws.out[i].id < queue'[j].message
      BY <1>0, <1>2, <2>2 DEF Waits
    <3>5. QED
      BY <3>1, <3>2, <3>3, <3>4
  <2>3. CASE i - l \in 1..n
    BY <1>2, <1>4, <2>1, <2>3 DEF Grown
  <2>4. QED
    BY <1>3, <2>1, <2>2, <2>3
<1>6. ASSUME NEW i \in DOMAIN ws'.out, NEW j \in DOMAIN ws'.out, i < j
      PROVE  /\ ws'.out[i].op = "message" /\ ws'.out[j].op = "message"
                  => ws'.out[i].id < ws'.out[j].id
             /\ ws'.out[i].op = "close" => ws'.out[j].op # "close"
             /\ ws'.out[i].op = "close" /\ kind.stream => ws'.out[j].op # "message"
  <2>1. i \in 1..l+n /\ j \in 1..l+n
    BY <1>2, <1>6
  <2>2. CASE i \in 1..l /\ j \in 1..l
    <3>1. ws'.out[i] = ws.out[i] /\ ws'.out[j] = ws.out[j]
      BY <1>2, <2>2
    <3>2. QED
      BY <1>2, <1>6, <2>2, <3>1 DEF Leave
  <2>3. CASE i \in 1..l /\ j - l \in 1..n
    <3>1. ws'.out[i] = ws.out[i]
      BY <1>2, <2>3
    <3>2. ws'.out[j].op = "message" /\ ws'.out[j].id = c[j - l]
      BY <1>4, <2>1, <2>3
    <3>3. ws.out[i].op = "message" => ws.out[i].id < c[j - l]
      BY <1>0, <2>3 DEF Grown
    <3>4. ws.out[i].op = "close" => ws.closeState # {}
      BY <1>2, <2>3 DEF Leave
    <3>5. kind.stream => ws.closeState = {}
      BY <2>3 DEF Grown
    <3>6. QED
      BY <3>1, <3>2, <3>3, <3>4, <3>5
  <2>4. CASE i - l \in 1..n
    <3>1. i \in Int /\ j \in Int
      BY <2>1
    <3>2. j - l \in 1..n /\ i - l < j - l
      BY <1>1, <1>6, <2>1, <2>4, <3>1, Shifts
    <3>3. c[i - l] < c[j - l]
      BY <2>4, <3>2 DEF Grown
    <3>4. QED
      BY <1>4, <2>1, <2>4, <3>2, <3>3
  <2>5. QED
    BY <1>3, <2>1, <2>2, <2>3, <2>4
<1>7. /\ kind.stream => queue' = <<>>
      /\ queue' \in Seq([message : Nat, ready : BOOLEAN]) /\ sends' \in Nat
      /\ \A i, j \in DOMAIN queue' : i < j => queue'[i].message < queue'[j].message
      /\ \A i \in DOMAIN queue' : queue'[i].message <= sends'
  BY <1>2 DEF Waits, Nodes
<1>8. QED
  BY <1>5, <1>6, <1>7 DEF Leave

\* Writing a message.
LEMMA MessageMeans ==
  ASSUME NEW v, Good(v), NEW m \in Nat, NEW w, w = Write(v, Message(m))
  PROVE  /\ Alike(v, w) /\ Good(w) /\ (w.socket = "none" => v.socket = "none")
         /\ v.socket = "none" => w.socket = "none"
         /\ w.out = v.out \/ w.out = Append(v.out, Message(m))
<1>1. Message(m) \in Outs
  BY DEF Message, Outs
<1>2. /\ Alike(v, w)
      /\ w.out = IF v.socket = "open" THEN Append(v.out, Message(m)) ELSE v.out
      /\ w.socket = IF v.socket = "ended" THEN "destroyed" ELSE v.socket
  BY <1>1, WriteMeans DEF Good
<1>3. QED
  BY <1>2 DEF Alike, Good

\* What leaves changes nothing for what arrives.
LEMMA AlikeInv ==
  ASSUME Shape, Talk, UNCHANGED <<kind, parser, peer>>, Alike(ws, ws'), Good(ws'),
         ws'.socket = "none" <=> ws.socket = "none"
  PROVE  Shape' /\ Talk'
<1>1. Talk'
  BY TalkKeeps DEF Alike, Listening, Resumes
<1>2. Shape'
  BY DEF Shape, Alike, Busy
<1>3. QED
  BY <1>1, <1>2

LEMMA UserSendsInv == ASSUME IInv, UserSends PROVE IInv'
<1>1. /\ Shape /\ Talk /\ Leave /\ Good(ws) /\ UNCHANGED <<kind, parser, peer>>
      /\ sends \in Nat /\ sends' = sends + 1 /\ ws.out \in Seq(Outs)
  <2>1. /\ Shape /\ Talk /\ Leave /\ Good(ws) /\ UNCHANGED <<kind, parser, peer>>
        /\ sends \in Nat /\ sends' = sends + 1
    BY DEF IInv, Shape, Leave, UserSends
  <2>2. ws.out \in Seq(Outs)
    BY <2>1 DEF Good, Handlers
  <2>3. QED
    BY <2>1, <2>2
<1>2. PICK m \in Nat : m = sends + 1
  BY <1>1
<1>3. PICK w : w = Write(ws, Message(m))
  OBVIOUS
<1>4. /\ Alike(ws, w) /\ Good(w) /\ (w.socket = "none" <=> ws.socket = "none")
      /\ w.out = ws.out \/ w.out = Append(ws.out, Message(m))
  BY <1>1, <1>3, MessageMeans
<1>5. /\ DOMAIN ws.out = 1..Len(ws.out) /\ DOMAIN queue = 1..Len(queue)
      /\ queue \in Seq(Nodes) /\ Len(ws.out) \in Nat /\ Len(queue) \in Nat
      /\ \A i \in 1..Len(queue) : queue[i].message \in Nat /\ queue[i].message < m
      /\ \A i \in 1..Len(ws.out) : ws.out[i].op = "message" => ws.out[i].id < m
  <2>1. queue \in Seq(Nodes)
    BY <1>1 DEF Leave, Nodes
  <2>2. DOMAIN ws.out = 1..Len(ws.out) /\ DOMAIN queue = 1..Len(queue)
        /\ Len(ws.out) \in Nat /\ Len(queue) \in Nat
    BY <1>1, <2>1
  <2>3. ASSUME NEW i \in 1..Len(queue)
        PROVE  queue[i].message \in Nat /\ queue[i].message < m
    <3>1. queue[i] \in Nodes
      BY <2>1
    <3>2. queue[i].message <= sends
      BY <1>1, <2>2 DEF Leave
    <3>3. QED
      BY <1>1, <1>2, <3>1, <3>2 DEF Nodes
  <2>4. ASSUME NEW i \in 1..Len(ws.out), ws.out[i].op = "message"
        PROVE  ws.out[i].id < m
    <3>1. ws.out[i] \in Outs
      BY <1>1
    <3>2. ws.out[i].id <= sends
      BY <1>1, <2>2, <2>4 DEF Leave
    <3>3. QED
      BY <1>1, <1>2, <3>1, <3>2 DEF Outs
  <2>5. QED
    BY <2>1, <2>2, <2>3, <2>4
<1>6. ASSUME ws' = w, queue' = queue, queue = <<>>,
             kind.stream => ws.closeState = {}
      PROVE  IInv'
  <2>1. Shape' /\ Talk'
    BY <1>1, <1>4, <1>6, AlikeInv
  <2>2. Waits /\ ws'.closeState = ws.closeState
    BY <1>1, <1>2, <1>4, <1>5, <1>6 DEF Waits, Alike
  <2>3. CASE w.out = ws.out
    <3>1. PICK c : c \in [1..0 -> Nat]
      <4>1. [k \in 1..0 |-> m] \in [1..0 -> Nat]
        OBVIOUS
      <4>2. QED
        BY <4>1
    <3>2. Grown(0, c)
      BY <1>1, <1>6, <2>3, <3>1 DEF Grown
    <3>3. QED
      BY <1>1, <2>1, <2>2, <3>2, LeaveGrows DEF IInv
  <2>4. CASE w.out = Append(ws.out, Message(m))
    <3>1. PICK c : c \in [1..1 -> Nat] /\ c[1] = m
      <4>1. [k \in 1..1 |-> m] \in [1..1 -> Nat] /\ [k \in 1..1 |-> m][1] = m
        OBVIOUS
      <4>2. QED
        BY <4>1
    <3>2. /\ ws'.out \in Seq(Outs) /\ Len(ws'.out) = Len(ws.out) + 1
          /\ \A i \in 1..Len(ws.out) : ws'.out[i] = ws.out[i]
          /\ \A k \in 1..1 : ws'.out[Len(ws.out) + k] = Message(c[k])
      <4>1. Message(m) \in Outs
        BY DEF Message, Outs
      <4>2. QED
        BY <1>1, <1>6, <2>4, <3>1, <4>1
    <3>3. Grown(1, c)
      BY <1>1, <1>2, <1>5, <1>6, <3>1, <3>2 DEF Grown
    <3>4. QED
      BY <1>1, <2>1, <2>2, <3>3, LeaveGrows DEF IInv
  <2>5. QED
    BY <1>4, <2>3, <2>4
<1>7. ASSUME ws' = ws, Waits PROVE IInv'
  <2>1. Shape' /\ Talk'
    BY <1>1, <1>7, AlikeInv DEF Alike, Good
  <2>2. PICK c : c \in [1..0 -> Nat]
    <3>1. [k \in 1..0 |-> m] \in [1..0 -> Nat]
      OBVIOUS
    <3>2. QED
      BY <3>1
  <2>3. Grown(0, c)
    BY <1>1, <1>7, <2>2 DEF Grown
  <2>4. QED
    BY <1>1, <1>7, <2>1, <2>3, LeaveGrows DEF IInv
<1>8. CASE kind.stream
  <2>1. queue = <<>> /\ queue' = queue
    BY <1>1, <1>8 DEF Leave, UserSends, StreamWrite
  <2>2. CASE ws.closeState = {}
    <3>1. ws' = w
      BY <1>1, <1>2, <1>3, <1>8, <2>2 DEF UserSends, StreamWrite
    <3>2. QED
      BY <1>6, <2>1, <2>2, <3>1
  <2>3. CASE ws.closeState # {}
    <3>1. ws' = ws
      BY <1>8, <2>3 DEF UserSends, StreamWrite
    <3>2. Waits
      BY <1>1, <2>1 DEF Waits
    <3>3. QED
      BY <1>7, <3>1, <3>2
  <2>4. QED
    BY <2>2, <2>3
<1>9. CASE ~kind.stream
  <2>1. PICK blob \in BOOLEAN : SendQueueAdd(m, blob)
    BY <1>1, <1>2, <1>9 DEF UserSends, Send
  <2>2. ASSUME NEW ready \in BOOLEAN, queue' = Append(queue, Node(m, ready)), ws' = ws
        PROVE  IInv'
    <3>1. PICK x \in Nodes : x = Node(m, ready)
      BY DEF Node, Nodes
    <3>2. x.message = m
      BY <3>1 DEF Node
    <3>3. /\ queue' \in Seq(Nodes) /\ Len(queue') = Len(queue) + 1
          /\ \A i \in 1..Len(queue) : queue'[i] = queue[i]
          /\ queue'[Len(queue)+1] = x
      BY <1>5, <2>2, <3>1
    <3>4. \A i \in 1..Len(queue') : i \in 1..Len(queue) \/ i = Len(queue) + 1
      BY <1>5, <3>3
    <3>5. ASSUME NEW i \in 1..Len(queue'), NEW j \in 1..Len(queue'), i < j
          PROVE  queue'[i].message < queue'[j].message
      <4>1. i \in 1..Len(queue)
        BY <1>5, <3>3, <3>5
      <4>2. CASE j \in 1..Len(queue)
        <5>1. queue[i].message < queue[j].message
          BY <1>1, <1>5, <3>5, <4>1, <4>2 DEF Leave
        <5>2. QED
          BY <3>3, <4>1, <4>2, <5>1
      <4>3. CASE j = Len(queue) + 1
        BY <1>5, <3>2, <3>3, <4>1, <4>3
      <4>4. QED
        BY <3>4, <4>2, <4>3
    <3>6. ASSUME NEW j \in 1..Len(queue') PROVE queue'[j].message <= m
      <4>1. CASE j \in 1..Len(queue)
        BY <1>5, <3>3, <4>1
      <4>2. CASE j = Len(queue) + 1
        BY <3>2, <3>3, <4>2
      <4>3. QED
        BY <3>4, <4>1, <4>2
    <3>7. ASSUME NEW i \in 1..Len(ws.out), ws.out[i].op = "message",
                 NEW j \in 1..Len(queue')
          PROVE  ws.out[i].id < queue'[j].message
      <4>1. CASE j \in 1..Len(queue)
        <5>1. ws.out[i].id < queue[j].message
          BY <1>1, <1>5, <3>7, <4>1 DEF Leave
        <5>2. QED
          BY <3>3, <4>1, <5>1
      <4>2. CASE j = Len(queue) + 1
        BY <1>5, <3>2, <3>3, <3>7, <4>2
      <4>3. QED
        BY <3>4, <4>1, <4>2
    <3>8. Waits
      <4>1. sends' = m /\ sends' \in Nat /\ sends <= sends'
        BY <1>1, <1>2
      <4>2. QED
        BY <1>9, <3>3, <3>5, <3>6, <3>7, <4>1 DEF Waits
    <3>9. QED
      BY <1>7, <2>2, <3>8
  <2>3. CASE blob
    BY <2>1, <2>2, <2>3 DEF SendQueueAdd
  <2>4. CASE ~blob /\ queue # <<>>
    BY <2>1, <2>2, <2>4 DEF SendQueueAdd
  <2>5. CASE ~blob /\ queue = <<>>
    BY <1>3, <1>6, <1>9, <2>1, <2>5 DEF SendQueueAdd
  <2>6. QED
    BY <2>3, <2>4, <2>5
<1>10. QED
  BY <1>8, <1>9

Joins(z, s, t) ==
  /\ Len(z) = Len(s) + Len(t) /\ \A i \in 1..Len(s) : z[i] = s[i]
  /\ \A i \in 1..Len(t) : z[Len(s) + i] = t[i]

LEMMA Joined ==
  ASSUME NEW s \in Seq(Outs), NEW t \in Seq(Outs) PROVE Joins(s \o t, s, t)
<1>1. PICK z : z = s \o t
  OBVIOUS
<1>2. Joins(z, s, t)
  BY <1>1 DEF Joins
<1>3. QED
  BY <1>1, <1>2

Written(q, n) == \A k \in 1..n : q[k].message \in Nat

Batch(q, n) == [k \in 1..n |-> Message(q[k].message)]

LEMMA WriteAllMeans ==
  ASSUME NEW v, Good(v), NEW n \in Nat, NEW q, Written(q, n),
         NEW w, w = WriteAll(v, q, n)
  PROVE  /\ Alike(v, w) /\ Good(w) /\ (w.socket = "none" <=> v.socket = "none")
         /\ \/ w.out = v.out
            \/ w.out = v.out \o Batch(q, n)
<1>1. v \in Handlers /\ v.out \in Seq(Outs)
  <2>1. v \in Handlers
    BY DEF Good
  <2>2. QED
    BY <2>1 DEF Handlers
<1>2. CASE v.socket = "open"
  <2>1. PICK t : t = Batch(q, n)
    OBVIOUS
  <2>2. t \in Seq(Outs)
    <3>1. ASSUME NEW k \in 1..n PROVE Message(q[k].message) \in Outs
      BY DEF Message, Outs, Written
    <3>2. t \in [1..n -> Outs]
      BY <2>1, <3>1 DEF Batch
    <3>3. QED
      BY <3>2, SeqDef
  <2>3. PICK out \in Seq(Outs) : out = v.out \o t
    <3>1. PICK o \in Seq(Outs) : o = v.out
      BY <1>1
    <3>2. o \o t \in Seq(Outs)
      BY <2>2
    <3>3. QED
      BY <3>1, <3>2
  <2>4. w = [v EXCEPT !.out = out]
    BY <1>2, <2>1, <2>3 DEF WriteAll, Batch
  <2>5. Alike(v, w) /\ w.out = out /\ w.socket = v.socket
    BY <1>1, <2>4 DEF Alike, Handlers
  <2>6. QED
    BY <2>1, <2>3, <2>5 DEF Alike, Good
<1>3. CASE v.socket = "ended" /\ n > 0
  <2>1. w = [v EXCEPT !.socket = "destroyed"]
    BY <1>3 DEF WriteAll
  <2>2. Alike(v, w) /\ w.out = v.out /\ w.socket = "destroyed"
    BY <1>1, <2>1 DEF Alike, Handlers
  <2>3. QED
    BY <1>3, <2>2 DEF Alike, Good
<1>4. CASE v.socket # "open" /\ ~(v.socket = "ended" /\ n > 0)
  <2>1. w = v
    BY <1>4 DEF WriteAll
  <2>2. QED
    BY <1>1, <2>1 DEF Alike
<1>5. QED
  BY <1>2, <1>3, <1>4

LEMMA BlobArrivesInv == ASSUME IInv, BlobArrives PROVE IInv'
<1>1. /\ Shape /\ Talk /\ Leave /\ Good(ws) /\ UNCHANGED <<kind, parser, peer, sends>>
      /\ sends \in Nat /\ ws.out \in Seq(Outs) /\ queue \in Seq(Nodes)
  <2>1. /\ Shape /\ Talk /\ Leave /\ Good(ws) /\ UNCHANGED <<kind, parser, peer, sends>>
        /\ sends \in Nat
    BY DEF IInv, Shape, Leave, BlobArrives, BlobRead
  <2>2. ws.out \in Seq(Outs)
    BY <2>1 DEF Good, Handlers
  <2>3. queue \in Seq(Nodes)
    BY <2>1 DEF Leave, Nodes
  <2>4. QED
    BY <2>1, <2>2, <2>3
<1>2. PICK i \in DOMAIN queue : BlobRead(i)
  BY DEF BlobArrives
<1>3. PICK read : read = [queue EXCEPT ![i] = Node(queue[i].message, TRUE)]
  OBVIOUS
<1>4. PICK l \in Nat : l = Len(queue)
  BY <1>1
<1>5. /\ DOMAIN queue = 1..l /\ DOMAIN ws.out = 1..Len(ws.out) /\ Len(ws.out) \in Nat
      /\ \A j \in 1..l : queue[j] \in Nodes /\ queue[j].message \in Nat
  <2>1. /\ DOMAIN queue = 1..l /\ DOMAIN ws.out = 1..Len(ws.out) /\ Len(ws.out) \in Nat
        /\ \A j \in 1..l : queue[j] \in Nodes
    BY <1>1, <1>4
  <2>2. QED
    BY <2>1 DEF Nodes
<1>6. /\ read \in Seq(Nodes) /\ Len(read) = l
      /\ \A j \in 1..l : read[j].message = queue[j].message
  <2>1. PICK x \in Nodes : x = Node(queue[i].message, TRUE)
    BY <1>2, <1>5 DEF Node, Nodes
  <2>2. x.message = queue[i].message
    BY <2>1 DEF Node
  <2>3. read = [queue EXCEPT ![i] = x]
    BY <1>3, <2>1
  <2>4. read \in Seq(Nodes) /\ Len(read) = l
    BY <1>1, <1>2, <1>4, <2>3
  <2>5. \A j \in 1..l : read[j] = IF j = i THEN x ELSE queue[j]
    BY <1>5, <2>3
  <2>6. QED
    BY <2>2, <2>4, <2>5
<1>7. ~kind.stream
  <2>1. queue # <<>>
    BY <1>2, <1>4, <1>5
  <2>2. QED
    BY <1>1, <2>1 DEF Leave
<1>8. PICK n \in 0..l : /\ ws' = WriteAll(ws, read, n)
                         /\ queue' = SubSeq(read, n + 1, Len(read))
  BY <1>2, <1>3, <1>6 DEF BlobRead
<1>9. n \in Nat /\ Written(read, n) /\ \A k \in 1..n : k \in 1..l
  BY <1>5, <1>6 DEF Written
<1>10. /\ Alike(ws, ws') /\ Good(ws') /\ (ws'.socket = "none" <=> ws.socket = "none")
       /\ \/ ws'.out = ws.out
          \/ ws'.out = ws.out \o Batch(read, n)
  BY <1>1, <1>8, <1>9, WriteAllMeans, SMTT(30)
<1>11. Shape' /\ Talk'
  BY <1>1, <1>10, AlikeInv
<1>12. /\ queue' \in Seq(Nodes) /\ Len(queue') = l - n
       /\ \A j \in 1..l-n : queue'[j].message = queue[n+j].message /\ n + j \in 1..l
  <2>1. n + 1 \in 1..Len(read)+1 /\ Len(read) \in 0..Len(read)
    BY <1>6
  <2>2. /\ queue' \in Seq(Nodes)
        /\ Len(queue') = IF n + 1 <= Len(read) THEN Len(read) - (n + 1) + 1 ELSE 0
        /\ \A j \in 1..(Len(read) - (n + 1) + 1) : queue'[j] = read[(n + 1) + j - 1]
    BY <1>6, <1>8, <2>1, SubSeqProperties
  <2>3. Len(queue') = l - n /\ Len(read) - (n + 1) + 1 = l - n
    BY <1>6, <2>2
  <2>4. \A j \in 1..l-n : (n + 1) + j - 1 = n + j /\ n + j \in 1..l
    BY <1>4
  <2>5. QED
    BY <1>6, <2>2, <2>3, <2>4
<1>13. /\ \A j \in 1..l : queue[j].message <= sends
       /\ \A j \in 1..l : \A k \in 1..l : j < k => queue[j].message < queue[k].message
       /\ \A o \in 1..Len(ws.out) : ws.out[o].op = "message" =>
            \A j \in 1..l : ws.out[o].id < queue[j].message
  BY <1>1, <1>5 DEF Leave
<1>14. Waits
  <2>1. ASSUME NEW j \in 1..l-n, NEW k \in 1..l-n, j < k
        PROVE  queue'[j].message < queue'[k].message
    BY <1>12, <1>13, <2>1
  <2>2. \A j \in 1..l-n : queue'[j].message <= sends
    BY <1>12, <1>13
  <2>3. \A o \in 1..Len(ws.out) : ws.out[o].op = "message" =>
          \A j \in 1..l-n : ws.out[o].id < queue'[j].message
    BY <1>12, <1>13
  <2>4. sends' = sends /\ sends <= sends'
    BY <1>1
  <2>5. QED
    BY <1>1, <1>7, <1>12, <2>1, <2>2, <2>3, <2>4 DEF Waits
<1>15. ws'.closeState = ws.closeState /\ ws'.out \in Seq(Outs)
  <2>1. ws' \in Handlers
    BY <1>10 DEF Alike
  <2>2. ws'.out \in Seq(Outs)
    BY <2>1 DEF Handlers
  <2>3. QED
    BY <1>10, <2>2 DEF Alike
<1>16. CASE ws'.out = ws.out
  <2>1. PICK c : c \in [1..0 -> Nat]
    <3>1. [k \in 1..0 |-> 0] \in [1..0 -> Nat]
      OBVIOUS
    <3>2. QED
      BY <3>1
  <2>2. Grown(0, c)
    BY <1>1, <1>16, <2>1 DEF Grown
  <2>3. QED
    BY <1>1, <1>11, <1>14, <1>15, <2>2, LeaveGrows DEF IInv
<1>17. CASE ws'.out = ws.out \o Batch(read, n)
  <2>1. PICK c \in [1..n -> Nat] : c = [k \in 1..n |-> queue[k].message]
    BY <1>5, <1>9
  <2>2. PICK t : t = Batch(read, n)
    OBVIOUS
  <2>3. t \in Seq(Outs) /\ Len(t) = n /\ \A k \in 1..n : t[k] = Message(c[k])
    <3>1. ASSUME NEW k \in 1..n PROVE t[k] \in Outs /\ t[k] = Message(c[k])
      BY <1>6, <1>9, <2>1, <2>2 DEF Batch, Message, Outs
    <3>2. t \in [1..n -> Outs]
      BY <2>2, <3>1 DEF Batch
    <3>3. t \in Seq(Outs) /\ Len(t) = n
      BY <1>9, <3>2, SeqDef
    <3>4. QED
      BY <3>1, <3>3
  <2>4. /\ Len(ws'.out) = Len(ws.out) + n
        /\ \A o \in 1..Len(ws.out) : ws'.out[o] = ws.out[o]
        /\ \A k \in 1..n : ws'.out[Len(ws.out) + k] = Message(c[k])
    <3>1. ws'.out = ws.out \o t
      BY <1>17, <2>2
    <3>2. PICK a \in Seq(Outs) : a = ws.out
      BY <1>1
    <3>3. /\ t \in Seq(Outs) /\ Len(t) = n
          /\ \A k \in 1..n : t[k] = Message(c[k])
      BY <2>3
    <3>4. PICK z : z = a \o t
      OBVIOUS
    <3>5. /\ Len(z) = Len(a) + n /\ \A o \in 1..Len(a) : z[o] = a[o]
          /\ \A k \in 1..n : z[Len(a) + k] = t[k]
      <4>1. /\ Len(z) = Len(a) + Len(t) /\ \A o \in 1..Len(a) : z[o] = a[o]
            /\ \A k \in 1..Len(t) : z[Len(a) + k] = t[k]
        <5>1. a \in Seq(Outs) /\ t \in Seq(Outs)
          BY <3>3
        <5>2. QED
          BY <3>4, <5>1, Joined DEF Joins
      <4>2. Len(t) = n
        BY <3>3
      <4>3. QED
        BY <4>1, <4>2, Zenon
    <3>6. ws'.out = z /\ ws.out = a
      BY <3>1, <3>2, <3>4
    <3>7. \A k \in 1..n : t[k] = Message(c[k])
      BY <3>3
    <3>8. QED
      BY <3>5, <3>6, <3>7, Zenon
  <2>5. \A k \in 1..n : c[k] = queue[k].message /\ k \in 1..l
    BY <1>9, <2>1
  <2>6. /\ \A k \in 1..n : \A m \in 1..n : k < m => c[k] < c[m]
        /\ \A k \in 1..n : c[k] <= sends'
        /\ \A o \in 1..Len(ws.out) : ws.out[o].op = "message" =>
             \A k \in 1..n : ws.out[o].id < c[k]
    BY <1>1, <1>13, <2>5
  <2>7. ASSUME NEW k \in 1..n, NEW j \in 1..Len(queue') PROVE c[k] < queue'[j].message
    <3>1. j \in 1..l-n /\ k < n + j
      BY <1>9, <1>12
    <3>2. QED
      BY <1>12, <1>13, <2>5, <3>1
  <2>8. Grown(n, c)
    BY <1>7, <1>9, <1>15, <2>1, <2>4, <2>6, <2>7 DEF Grown
  <2>9. QED
    BY <1>1, <1>11, <1>14, <1>15, <2>8, LeaveGrows DEF IInv
<1>18. QED
  BY <1>10, <1>16, <1>17

----------------------------------------------------------------------------
(* The server sends more.                                                   *)

LEMMA LaidIn ==
  ASSUME NEW w, NEW p, NEW q, NEW inbox, Laid(w, p, q, inbox)
  PROVE  p \in Nat /\ p <= Len(w)
<1>1. PICK c : Cut(w, p, c, q, inbox)
  BY DEF Laid
<1>2. Piece(q.buffers, w, p, c[1])
  BY <1>1 DEF Cut
<1>3. QED
  BY <1>2 DEF Piece

LEMMA AtStays ==
  ASSUME NEW w \in Seq(WireParts), NEW u \in Seq(WireParts), NEW fs \in Seq(Frames),
         NEW x \in Frames, NEW p \in 0..Len(w), NEW k, NEW q, NEW kd, At(w, p, k, q, fs, kd)
  PROVE  At(w \o u, p, k, q, Append(fs, x), kd)
<1>1. PICK v : v = w \o u
  OBVIOUS
<1>2. PICK gs : gs = Append(fs, x)
  OBVIOUS
<1>3. /\ Len(v) = Len(w) + Len(u) /\ Len(w) \in Nat /\ Len(u) \in Nat
      /\ \A i \in 1..Len(w) : v[i] = w[i]
  BY <1>1
<1>4. Len(gs) = Len(fs) + 1 /\ Len(fs) \in Nat /\ \A i \in 1..Len(fs) : gs[i] = fs[i]
  BY <1>2
<1>5. p # 0 => v[p] = w[p] /\ p \in 1..Len(w) /\ p \in 1..Len(v)
  BY <1>3
<1>6. k \in 0..Len(fs) /\ k \in 0..Len(gs)
  BY <1>4 DEF At
<1>7. k < Len(fs) => k + 1 \in 1..Len(fs) /\ gs[k+1] = fs[k+1] /\ k < Len(gs)
  BY <1>4, <1>6
<1>8. q.busy = "inflating" => q.state = "READ_DATA"
  BY DEF At
<1>9. q.state = "INFO" => IF p = 0 THEN k = 0 ELSE v[p].id = k /\ IsLast(v[p])
  BY <1>5 DEF At
<1>10. ASSUME q.state = "READ_DATA"
       PROVE  /\ k < Len(gs) /\ p \in 1..Len(v) /\ v[p].id = k + 1
              /\ q.info.op = gs[k+1].op /\ q.info.fin = gs[k+1].fin
              /\ gs[k+1].wrong \notin {"opcode", "reserved"} /\ (gs[k+1].rsv1 => kd.deflate)
              /\ IF q.busy = "inflating"
                 THEN /\ q.body = v[p] /\ v[p].part = "payload" /\ q.info.compressed
                      /\ gs[k+1].op \in {"text", "continuation"}
                 ELSE v[p].part = "head"
  <2>1. k < Len(fs) /\ p # 0
    BY <1>10 DEF At
  <2>2. gs[k+1] = fs[k+1] /\ v[p] = w[p] /\ k < Len(gs) /\ p \in 1..Len(v)
    BY <1>5, <1>7, <2>1
  <2>3. QED
    BY <1>10, <2>2 DEF At
<1>11. At(v, p, k, q, gs, kd)
  BY <1>6, <1>8, <1>9, <1>10 DEF At
<1>12. QED
  BY <1>1, <1>2, <1>11

LEMMA FollowsStays ==
  ASSUME NEW fs \in Seq(Frames), NEW x \in Frames, NEW k \in 0..Len(fs), NEW q, NEW h,
         q.fragments \in Seq(Fragments), q.state = "READ_DATA" => k < Len(fs),
         Follows(h, fs, k, q)
  PROVE  Follows(h, Append(fs, x), k, q)
<1>1. PICK gs : gs = Append(fs, x)
  OBVIOUS
<1>2. Len(fs) \in Nat /\ \A i \in 1..Len(fs) : gs[i] = fs[i]
  BY <1>1
<1>3. \A i \in 1..Len(q.fragments) : q.fragments[i].id \in 1..k =>
        gs[q.fragments[i].id] = fs[q.fragments[i].id]
  BY <1>2
<1>4. ASSUME q.fragments # <<>>, NEW m \in q.fragments[1].id+1..k PROVE gs[m] = fs[m]
  <2>1. q.fragments[1].id \in Nat
    <3>1. q.fragments[1] \in Fragments
      BY <1>4
    <3>2. QED
      BY <3>1 DEF Fragments
  <2>2. m \in 1..Len(fs)
    BY <1>2, <1>4, <2>1
  <2>3. QED
    BY <1>2, <2>2
<1>5. Gathers(h, gs, k, q)
  <2>1. Gathers(h, fs, k, q)
    BY DEF Follows
  <2>2. q.fragments # <<>> =>
          /\ q.fragments[1].frame.op = "text"
          /\ \A m \in q.fragments[1].id+1..k : gs[m].op # "text"
    BY <1>4, <2>1 DEF Gathers
  <2>3. \A i \in 1..Len(q.fragments) :
       /\ q.fragments[i].id \in 1..k /\ q.fragments[i].frame = gs[q.fragments[i].id]
       /\ q.fragments[i].inflated <=> q.fragments[1].frame.rsv1
    BY <1>3, <2>1 DEF Gathers
  <2>4. /\ Len(q.fragments) <= MaxFragments
        /\ h.ok => /\ Len(h.open) = Len(q.fragments)
                   /\ \A i \in 1..Len(q.fragments) :
                        h.open[i] = q.fragments[i].id /\ q.fragments[i].frame.wrong = ""
        /\ ~h.ok => \E i \in 1..Len(q.fragments) : q.fragments[i].frame.wrong = "utf8"
    BY <2>1 DEF Gathers
  <2>5. QED
    BY <2>2, <2>3, <2>4 DEF Gathers
<1>6. q.state = "READ_DATA" => gs[k+1] = fs[k+1]
  BY <1>2
<1>7. Follows(h, gs, k, q)
  BY <1>5, <1>6 DEF Follows
<1>8. QED
  BY <1>1, <1>7

IsClose(f) == f.op = "close" /\ f.wrong = ""

LEMMA ScriptGrows ==
  ASSUME NEW fs \in Seq(Frames), IsScript(fs), NEW x \in Frames, IsClose(x)
  PROVE  IsScript(Append(fs, x))
<1>1. PICK l \in Nat : l = Len(fs)
  OBVIOUS
<1>2. PICK gs : gs = Append(fs, x)
  OBVIOUS
<1>3. /\ gs \in Seq(Frames) /\ DOMAIN gs = 1..l+1 /\ DOMAIN fs = 1..l
      /\ \A i \in 1..l : gs[i] = fs[i]
      /\ gs[l+1] = x
  BY <1>1, <1>2
<1>4. ASSUME NEW i \in 1..l+1, gs[i].wrong # "" PROVE i \in 1..l /\ gs[i] = fs[i]
  <2>1. i # l + 1
    BY <1>3, <1>4 DEF IsClose
  <2>2. i \in 1..l
    BY <2>1
  <2>3. QED
    BY <1>3, <2>2
<1>5. ASSUME NEW i \in 1..l+1, gs[i].wrong = "deflate"
      PROVE  \E j \in 1..i : /\ gs[j].op = "text" /\ gs[j].rsv1
                             /\ \A m \in j+1..i : gs[m].op # "text"
  <2>1. i \in 1..l /\ gs[i] = fs[i]
    BY <1>4, <1>5
  <2>2. \A n \in 1..l : fs[n].wrong = "deflate" =>
          \E j \in 1..n : /\ fs[j].op = "text" /\ fs[j].rsv1
                         /\ \A m \in j+1..n : fs[m].op # "text"
    BY <1>3 DEF IsScript
  <2>3. PICK j \in 1..i : /\ fs[j].op = "text" /\ fs[j].rsv1
                          /\ \A m \in j+1..i : fs[m].op # "text"
    BY <1>5, <2>1, <2>2
  <2>4. j \in 1..l /\ \A m \in j+1..i : m \in 1..l
    BY <2>1
  <2>5. gs[j] = fs[j] /\ \A m \in j+1..i : gs[m] = fs[m]
    BY <1>3, <2>4
  <2>6. QED
    BY <2>3, <2>5
<1>6. \A i \in 1..l+1 :
        /\ gs[i].wrong = "body" => gs[i].op = "close"
        /\ gs[i].wrong \in {"utf8", "deflate"} => gs[i].op \in {"text", "continuation"}
  <2>1. \A i \in 1..l :
          /\ fs[i].wrong = "body" => fs[i].op = "close"
          /\ fs[i].wrong \in {"utf8", "deflate"} => fs[i].op \in {"text", "continuation"}
    BY <1>3 DEF IsScript
  <2>2. QED
    BY <1>4, <2>1
<1>7. IsScript(gs)
  BY <1>3, <1>5, <1>6 DEF IsScript
<1>8. QED
  BY <1>2, <1>7

LEMMA HearsClose ==
  ASSUME NEW k, NEW f, IsClose(f), NEW acc \in Hearings, NEW i
  PROVE  Hear(k, f, acc, i).said = acc.said
BY DEF IsClose, Hear, Wrong, Hearings

LEMMA PeerAnswersInv == ASSUME IInv, PeerAnswers PROVE IInv'
<1>0. PICK x \in Frames : x = Frame("close", TRUE, FALSE, "") /\ IsClose(x)
  <2>1. Frame("close", TRUE, FALSE, "") \in Frames /\ IsClose(Frame("close", TRUE, FALSE, ""))
    BY DEF Frame, Frames, IsClose
  <2>2. QED
    BY <2>1
<1>1. IsClose(x)
  BY <1>0
<1>2. /\ Shape /\ Talk /\ Leave /\ UNCHANGED <<kind, ws, parser, queue, sends>>
      /\ peer \in Peers
      /\ peer' = [peer EXCEPT !.frames = Append(@, x),
                              !.inbox = @ \o Parts(Len(peer.frames) + 1, x)]
  BY <1>0 DEF IInv, Shape, PeerAnswers
<1>3. PICK fs \in Seq(Frames) : fs = peer.frames
  BY <1>2 DEF Peers
<1>4. PICK l \in Nat : l = Len(fs)
  OBVIOUS
<1>5. PICK u \in Seq(WireParts) : u = Parts(l + 1, x)
  <2>1. \A id \in Nat : Parts(id, x) \in Seq(WireParts)
    BY PartsMeans
  <2>2. QED
    BY <2>1
<1>6. PICK gs \in Seq(Frames) : gs = Append(fs, x)
  <2>1. Append(fs, x) \in Seq(Frames)
    OBVIOUS
  <2>2. QED
    BY <2>1
<1>7. PICK inbox \in Seq(WireParts) : inbox = peer.inbox \o u
  <2>1. PICK i \in Seq(WireParts) : i = peer.inbox
    BY <1>2 DEF Peers
  <2>2. i \o u \in Seq(WireParts)
    OBVIOUS
  <2>3. QED
    BY <2>1, <2>2
<1>8. /\ Len(gs) = l + 1 /\ gs[l+1] = x /\ \A i \in 1..l : gs[i] = fs[i]
  BY <1>4, <1>6
<1>9. /\ peer'.frames = gs /\ peer'.inbox = inbox /\ peer'.handshake = peer.handshake
      /\ peer' \in Peers
  <2>1. peer' = [peer EXCEPT !.frames = gs, !.inbox = inbox]
    BY <1>2, <1>3, <1>4, <1>5, <1>6, <1>7
  <2>2. QED
    BY <1>2, <2>1 DEF Peers
<1>10. Shape'
  <2>1. IsScript(gs)
    BY <1>1, <1>2, <1>3, <1>6, ScriptGrows DEF Shape
  <2>2. QED
    BY <1>2, <1>9, <2>1 DEF Shape, Busy
<1>11. Leave'
  <2>1. /\ Leave /\ UNCHANGED <<queue, sends, kind>> /\ ws' = ws /\ ws \in Handlers
    BY <1>2 DEF Shape, Good
  <2>2. Writes(ws, ws') /\ (ws'.closeState = {} => ws.closeState = {})
    BY <2>1 DEF Writes
  <2>3. QED
    BY <2>1, <2>2, LeaveKeeps
<1>12. \A n \in 0..l : Heard(kind, gs)[n] = Heard(kind, fs)[n]
  BY <1>4, <1>6, HeardStays
<1>13. Heard(kind, gs)[l+1].said = Heard(kind, gs)[l].said
  <2>1. PICK h : h = Heard(kind, gs)
    OBVIOUS
  <2>2. h \in [0..l+1 -> Hearings] /\ h[l+1] = Hear(kind, x, h[(l+1)-1], l + 1)
    <3>1. l + 1 \in 1..Len(gs)
      BY <1>8
    <3>2. QED
      BY <1>8, <2>1, <3>1, HeardMeans
  <2>3. PICK acc \in Hearings : acc = h[l]
    BY <2>2
  <2>4. h[l+1] = Hear(kind, x, acc, l + 1)
    BY <2>2, <2>3
  <2>5. h[l+1].said = acc.said
    BY <1>1, <2>3, <2>4, HearsClose
  <2>6. QED
    BY <2>1, <2>3, <2>5
<1>14. GotSaid'
  <2>1. PICK n \in 0..l : ws.got = Heard(kind, fs)[n].said
    BY <1>2, <1>3, <1>4 DEF Talk, GotSaid
  <2>2. ws'.got = Heard(kind, gs)[n].said /\ n \in 0..Len(gs)
    BY <1>2, <1>8, <1>12, <2>1
  <2>3. ws'.closedBy = "peer" => ws'.got = Heard(kind, gs)[Len(gs)].said
    <3>1. ws.closedBy = "peer" => ws.got = Heard(kind, fs)[l].said
      BY <1>2, <1>3, <1>4 DEF Talk, GotSaid
    <3>2. Heard(kind, gs)[Len(gs)].said = Heard(kind, fs)[l].said
      BY <1>4, <1>8, <1>12, <1>13
    <3>3. QED
      BY <1>2, <3>1, <3>2
  <2>4. QED
    BY <1>2, <1>9, <2>2, <2>3 DEF GotSaid
<1>15. ASSUME parser'.busy # "stuck" PROVE (\E w, p, k : InStep(w, p, k))'
  <2>1. parser.busy # "stuck"
    BY <1>2, <1>15
  <2>2. PICK w, p, k : InStep(w, p, k)
    BY <2>1, <1>2 DEF Talk
  <2>3. /\ Wired(w, fs, l) /\ Laid(w, p, parser, peer.inbox)
        /\ At(w, p, k, parser, fs, kind)
        /\ Listening => ws.got = Heard(kind, fs)[k].said
                          /\ Follows(Heard(kind, fs)[k], fs, k, parser)
    BY <1>3, <1>4, <2>2 DEF InStep
  <2>4. w \in Seq(WireParts)
    BY <2>3 DEF Wired
  <2>5. Wired(w \o u, gs, l + 1)
    <3>1. gs \in Seq(Frames) /\ l < Len(gs) /\ Wired(w, gs, l)
      <4>1. \A i \in 1..Len(w) : w[i].id \in 1..l /\ w[i].frame = gs[w[i].id]
        BY <1>8, <2>3 DEF Wired
      <4>2. QED
        BY <1>8, <2>3, <4>1 DEF Wired
    <3>2. QED
      BY <1>5, <1>8, <3>1, WiredMore
  <2>6. Laid(w \o u, p, parser, inbox)
    BY <1>7, <2>3, <2>4, LaidMore
  <2>7. At(w \o u, p, k, parser, gs, kind)
    <3>1. p \in 0..Len(w)
      BY <2>3, <2>4, LaidIn
    <3>2. QED
      BY <1>6, <2>3, <2>4, <3>1, AtStays
  <2>8. k \in 0..l /\ (parser.state = "READ_DATA" => k < l)
    BY <1>4, <2>3 DEF At
  <2>9. Listening => Follows(Heard(kind, fs)[k], gs, k, parser)
    <3>1. parser.fragments \in Seq(Fragments)
      BY <1>2 DEF Shape, Parsers
    <3>2. QED
      BY <1>4, <1>6, <2>3, <2>8, <3>1, FollowsStays
  <2>10. Listening' => Listening
    BY <1>2, <1>9 DEF Listening
  <2>11. InStep(w \o u, p, k)'
    <3>1. Heard(kind, gs)[k] = Heard(kind, fs)[k]
      BY <1>12, <2>8
    <3>2. Listening' => ws.got = Heard(kind, gs)[k].said
                          /\ Follows(Heard(kind, gs)[k], gs, k, parser)
      BY <2>3, <2>9, <2>10, <3>1
    <3>3. QED
      BY <1>2, <1>8, <1>9, <2>5, <2>6, <2>7, <3>2 DEF InStep
  <2>12. QED
    BY <2>11
<1>16. QED
  BY <1>10, <1>11, <1>14, <1>15 DEF IInv, Talk

----------------------------------------------------------------------------
(* What arrives, and how the parser goes on.                                *)

LEMMA SubIsSeq ==
  ASSUME NEW S, NEW s \in Seq(S), NEW n \in 1..Len(s)
  PROVE  SubSeq(s, 1, n) \in Seq(S) /\ SubSeq(s, n + 1, Len(s)) \in Seq(S)
OBVIOUS

LEMMA DataArrivesInv == ASSUME IInv, DataArrives PROVE IInv'
<1>1. PICK n \in 1..Len(peer.inbox), full \in BOOLEAN : SocketData(n, full)
  BY DEF DataArrives
<1>2. /\ Shape /\ Talk /\ Leave /\ Good(ws) /\ parser \in Parsers /\ peer \in Peers
      /\ UNCHANGED <<kind, queue, sends>> /\ ws.socket = "open"
      /\ parser.busy # "parsing" /\ ~ws.task
      /\ peer.handshake # "pending"
      /\ parser.busy = "idle" => parser.chunks = <<>>
  BY <1>1 DEF IInv, Shape, SocketData, Quiet
<1>3. PICK inbox \in Seq(WireParts) : inbox = peer.inbox
  BY <1>2 DEF Peers
<1>4. PICK chunk \in Seq(WireParts) : chunk = SubSeq(inbox, 1, n)
  BY <1>3, SubIsSeq
<1>5. PICK rest \in Seq(WireParts) : rest = SubSeq(inbox, n + 1, Len(inbox))
  BY <1>3, SubIsSeq
<1>6. /\ peer' \in Peers /\ peer'.inbox = rest /\ peer'.frames = peer.frames
      /\ peer'.handshake = peer.handshake
  <2>1. peer' = [peer EXCEPT !.inbox = rest]
    BY <1>1, <1>3, <1>5 DEF SocketData
  <2>2. QED
    BY <1>2, <2>1 DEF Peers
<1>7. Listening' => Listening \/ ws'.readyState = "OPEN"
  BY <1>6 DEF Listening
<1>8. CASE parser.busy = "idle"
  <2>1. PICK buffers \in Seq(WireParts) : buffers = parser.buffers \o chunk
    <3>1. PICK b \in Seq(WireParts) : b = parser.buffers
      BY <1>2 DEF Parsers
    <3>2. b \o chunk \in Seq(WireParts)
      OBVIOUS
    <3>3. QED
      BY <3>1, <3>2
  <2>2. /\ ws' = ws
        /\ parser' = [parser EXCEPT !.buffers = buffers, !.full = full,
                                    !.busy = "parsing", !.needDrain = full]
    BY <1>1, <1>3, <1>4, <1>8, <2>1 DEF SocketData
  <2>3. /\ parser' \in Parsers /\ parser'.buffers = buffers /\ parser'.busy = "parsing"
        /\ parser'.chunks = parser.chunks /\ parser'.state = parser.state
        /\ parser'.info = parser.info /\ parser'.body = parser.body
        /\ parser'.fragments = parser.fragments
    BY <1>2, <2>2 DEF Parsers
  <2>4. Resumes(parser, parser')
    BY <1>8, <2>3 DEF Resumes
  <2>5. ASSUME NEW w, NEW p, Wired(w, peer.frames, Len(peer.frames)),
               Laid(w, p, parser, peer.inbox)
        PROVE  Laid(w, p, parser', peer'.inbox)
    <3>1. w \in Seq(WireParts)
      BY <2>5 DEF Wired
    <3>2. parser.chunks = <<>> /\ parser'.chunks = <<>>
      BY <1>2, <1>8, <2>3
    <3>3. parser'.buffers = parser.buffers \o SubSeq(inbox, 1, n)
      BY <1>4, <2>1, <2>3
    <3>4. n \in 1..Len(inbox) /\ Laid(w, p, parser, inbox)
      BY <1>3, <2>5
    <3>5. QED
      BY <1>5, <1>6, <3>1, <3>2, <3>3, <3>4, LaidData
  <2>6. Talk'
    <3>1. Listening' => Listening
      BY <1>7, <2>2 DEF Listening
    <3>2. QED
      BY <1>2, <1>6, <2>2, <2>4, <2>5, <3>1, TalkKeeps
  <2>7. Shape'
    BY <1>2, <1>6, <2>2, <2>3 DEF Shape, Good, Busy
  <2>8. Leave'
    BY <1>2, <2>2, LeaveKeeps DEF Writes, Good
  <2>9. QED
    BY <2>6, <2>7, <2>8 DEF IInv
<1>9. CASE parser.busy # "idle"
  <2>1. PICK chunks \in Seq(Seq(WireParts)) : chunks = Append(parser.chunks, chunk)
    <3>1. PICK b \in Seq(Seq(WireParts)) : b = parser.chunks
      BY <1>2 DEF Parsers
    <3>2. Append(b, chunk) \in Seq(Seq(WireParts))
      OBVIOUS
    <3>3. QED
      BY <3>1, <3>2
  <2>2. PICK drain \in BOOLEAN : drain = (parser.needDrain \/ full)
    OBVIOUS
  <2>3. /\ ws' = [ws EXCEPT !.paused = full]
        /\ parser' = [parser EXCEPT !.chunks = chunks, !.needDrain = drain]
    BY <1>1, <1>3, <1>4, <1>9, <2>1, <2>2 DEF SocketData
  <2>4. /\ parser' \in Parsers /\ parser'.buffers = parser.buffers
        /\ parser'.busy = parser.busy
        /\ parser'.chunks = chunks /\ parser'.state = parser.state
        /\ parser'.info = parser.info /\ parser'.body = parser.body
        /\ parser'.fragments = parser.fragments
    BY <1>2, <2>3 DEF Parsers
  <2>5. Resumes(parser, parser')
    BY <2>4 DEF Resumes
  <2>6. ASSUME NEW w, NEW p, Wired(w, peer.frames, Len(peer.frames)),
               Laid(w, p, parser, peer.inbox)
        PROVE  Laid(w, p, parser', peer'.inbox)
    <3>1. w \in Seq(WireParts)
      BY <2>6 DEF Wired
    <3>2. parser.chunks \in Seq(Seq(WireParts))
      BY <1>2 DEF Parsers
    <3>3. parser'.chunks = Append(parser.chunks, SubSeq(inbox, 1, n))
      BY <1>4, <2>1, <2>4
    <3>4. n \in 1..Len(inbox) /\ Laid(w, p, parser, inbox)
      BY <1>3, <2>6
    <3>5. QED
      BY <1>5, <1>6, <2>4, <3>1, <3>2, <3>3, <3>4, LaidChunk
  <2>7. /\ Turns(ws, ws') /\ ws'.readyState = ws.readyState
        /\ ws'.closeState = ws.closeState /\ ws'.socket = ws.socket /\ ws'.task = ws.task
    BY <1>2, <2>3, PauseTurns
  <2>8. Talk'
    <3>1. Listening' => Listening
      BY <1>7, <2>7 DEF Listening
    <3>2. QED
      BY <1>2, <1>6, <2>5, <2>6, <2>7, <3>1, TalkKeeps DEF Turns
  <2>9. Shape'
    BY <1>2, <1>6, <1>9, <2>4, <2>7 DEF Shape, Turns, Busy
  <2>10. Leave'
    BY <1>2, <2>7, LeaveKeeps DEF Turns, Good
  <2>11. QED
    BY <2>8, <2>9, <2>10 DEF IInv
<1>10. QED
  BY <1>8, <1>9

\* What run() returns with, having gone on with p and w.
LEMMA ReturnsMeans ==
  ASSUME NEW q \in Parsers, NEW v, Good(v), RunReturns(q, v)
  PROVE  /\ parser' \in Parsers /\ parser'.busy \in {"parsing", "idle"}
         /\ parser'.busy = "idle" => parser'.chunks = <<>>
         /\ parser'.state = q.state /\ parser'.info = q.info /\ parser'.body = q.body
         /\ parser'.fragments = q.fragments
         /\ Turns(v, ws') /\ Alike(v, ws') /\ ws'.socket = v.socket
<1>1. ws' = v \/ ws' = [v EXCEPT !.paused = FALSE]
  BY DEF RunReturns
<1>2. Turns(v, ws') /\ Alike(v, ws') /\ ws'.socket = v.socket
  <2>1. CASE ws' = v
    BY <2>1, AlikeTurns DEF Alike, Good
  <2>2. CASE ws' = [v EXCEPT !.paused = FALSE]
    <3>1. Alike(v, ws') /\ ws'.out = v.out /\ ws'.socket = v.socket
      BY <2>2 DEF Alike, Good, Handlers
    <3>2. QED
      BY <3>1, AlikeTurns
  <2>3. QED
    BY <1>1, <2>1, <2>2
<1>3. CASE q.chunks # <<>>
  <2>1. PICK c \in Seq(Seq(WireParts)) : c = q.chunks
    BY DEF Parsers
  <2>2. c # <<>> /\ Tail(c) \in Seq(Seq(WireParts)) /\ Head(c) \in Seq(WireParts)
    BY <1>3, <2>1
  <2>3. PICK tail \in Seq(Seq(WireParts)) : tail = Tail(q.chunks)
    BY <2>1, <2>2
  <2>4. PICK buffers \in Seq(WireParts) : buffers = q.buffers \o Head(q.chunks)
    <3>1. PICK b \in Seq(WireParts) : b = q.buffers
      BY DEF Parsers
    <3>2. PICK h \in Seq(WireParts) : h = Head(q.chunks)
      BY <2>1, <2>2
    <3>3. b \o h \in Seq(WireParts)
      OBVIOUS
    <3>4. QED
      BY <3>1, <3>2, <3>3
  <2>5. parser' = [q EXCEPT !.busy = "parsing", !.chunks = tail, !.buffers = buffers]
    BY <1>3, <2>3, <2>4 DEF RunReturns
  <2>6. /\ parser' \in Parsers /\ parser'.busy = "parsing"
        /\ parser'.state = q.state /\ parser'.info = q.info /\ parser'.body = q.body
        /\ parser'.fragments = q.fragments
    BY <2>5 DEF Parsers
  <2>7. QED
    BY <1>2, <2>6
<1>4. CASE q.chunks = <<>>
  <2>1. parser' = [q EXCEPT !.busy = "idle", !.full = FALSE, !.needDrain = FALSE]
    BY <1>4 DEF RunReturns
  <2>2. /\ parser' \in Parsers /\ parser'.busy = "idle" /\ parser'.chunks = q.chunks
        /\ parser'.state = q.state /\ parser'.info = q.info /\ parser'.body = q.body
        /\ parser'.fragments = q.fragments
    BY <2>1 DEF Parsers
  <2>3. QED
    BY <1>2, <1>4, <2>2
<1>5. QED
  BY <1>3, <1>4

LEMMA ReturnsLaid ==
  ASSUME NEW q \in Parsers, NEW v, RunReturns(q, v), NEW w \in Seq(WireParts), NEW p,
         NEW inbox, Laid(w, p, q, inbox)
  PROVE  Laid(w, p, parser', inbox)
<1>1. CASE q.chunks # <<>>
  <2>1. parser' = [q EXCEPT !.busy = "parsing", !.chunks = Tail(q.chunks),
                            !.buffers = q.buffers \o Head(q.chunks)]
    BY <1>1 DEF RunReturns
  <2>2. /\ parser'.buffers = q.buffers \o Head(q.chunks)
        /\ parser'.chunks = Tail(q.chunks)
    BY <2>1 DEF Parsers
  <2>3. q.chunks \in Seq(Seq(WireParts))
    BY DEF Parsers
  <2>4. QED
    BY <1>1, <2>2, <2>3, LaidGoesOn
<1>2. CASE q.chunks = <<>>
  <2>1. parser' = [q EXCEPT !.busy = "idle", !.full = FALSE, !.needDrain = FALSE]
    BY <1>2 DEF RunReturns
  <2>2. parser'.buffers = q.buffers /\ parser'.chunks = q.chunks
    BY <2>1 DEF Parsers
  <2>3. QED
    BY <2>2 DEF Laid, Cut
<1>3. QED
  BY <1>1, <1>2

\* Or stops with.
LEMMA StopsMeans ==
  ASSUME NEW q \in Parsers, NEW v, Good(v), NEW busy \in {"inflating", "stuck"},
         RunStops(q, v, busy)
  PROVE  /\ parser' \in Parsers /\ parser'.busy = busy
         /\ parser'.buffers = q.buffers /\ parser'.chunks = q.chunks
         /\ parser'.state = q.state /\ parser'.info = q.info /\ parser'.body = q.body
         /\ parser'.fragments = q.fragments
         /\ Turns(v, ws') /\ Alike(v, ws') /\ ws'.socket = v.socket /\ ws'.out = v.out
<1>1. ws' = v \/ ws' = [v EXCEPT !.paused = TRUE]
  BY DEF RunStops
<1>2. Turns(v, ws') /\ Alike(v, ws') /\ ws'.socket = v.socket /\ ws'.out = v.out
  <2>1. CASE ws' = v
    BY <2>1, AlikeTurns DEF Alike, Good
  <2>2. CASE ws' = [v EXCEPT !.paused = TRUE]
    <3>1. Alike(v, ws') /\ ws'.out = v.out /\ ws'.socket = v.socket
      BY <2>2 DEF Alike, Good, Handlers
    <3>2. QED
      BY <3>1, AlikeTurns
  <2>3. QED
    BY <1>1, <2>1, <2>2
<1>3. parser' = [q EXCEPT !.busy = busy, !.full = FALSE]
  BY DEF RunStops
<1>4. /\ parser' \in Parsers /\ parser'.busy = busy
      /\ parser'.buffers = q.buffers /\ parser'.chunks = q.chunks
      /\ parser'.state = q.state /\ parser'.info = q.info /\ parser'.body = q.body
      /\ parser'.fragments = q.fragments
  BY <1>3 DEF Parsers
<1>5. QED
  BY <1>2, <1>4

LEMMA NotEnoughBytesInv == ASSUME IInv, NotEnoughBytes PROVE IInv'
<1>1. /\ Shape /\ Talk /\ Leave /\ Good(ws) /\ parser \in Parsers /\ peer' = peer
      /\ UNCHANGED <<kind, queue, sends, peer>> /\ parser.busy = "parsing"
      /\ RunReturns(parser, ws)
  BY DEF IInv, Shape, NotEnoughBytes, Parsing, NothingElse
<1>2. /\ parser' \in Parsers /\ parser'.busy \in {"parsing", "idle"}
      /\ parser'.busy = "idle" => parser'.chunks = <<>>
      /\ parser'.state = parser.state /\ parser'.info = parser.info
      /\ parser'.body = parser.body /\ parser'.fragments = parser.fragments
      /\ Turns(ws, ws') /\ Alike(ws, ws') /\ ws'.socket = ws.socket
  BY <1>1, ReturnsMeans
<1>3. Talk'
  <2>1. ASSUME NEW w, NEW p, Wired(w, peer.frames, Len(peer.frames)),
               Laid(w, p, parser, peer.inbox)
        PROVE  Laid(w, p, parser', peer'.inbox)
    <3>1. w \in Seq(WireParts)
      BY <2>1 DEF Wired
    <3>2. QED
      BY <1>1, <2>1, <3>1, ReturnsLaid
  <2>2. Resumes(parser, parser')
    BY <1>1, <1>2 DEF Resumes
  <2>3. Listening' => Listening
    BY <1>1, <1>2 DEF Listening, Alike
  <2>4. QED
    BY <1>1, <1>2, <2>1, <2>2, <2>3, TalkKeeps DEF Alike
<1>4. Shape'
  BY <1>1, <1>2 DEF Shape, Turns, Alike, Busy
<1>5. Leave'
  BY <1>1, <1>2, LeaveKeeps DEF Turns, Good
<1>6. QED
  BY <1>3, <1>4, <1>5 DEF IInv

\* Nothing more is parsed.
LEMMA StopsInv ==
  ASSUME IInv, UNCHANGED <<kind, queue, sends, peer>>, Busy, Good(ws'), Writes(ws, ws'),
         ws'.got = ws.got, ws'.closeState = {} => ws.closeState = {},
         parser' \in Parsers, parser'.busy = "stuck",
         ws'.closedBy = "peer" =>
           \/ ws.closedBy = "peer"
           \/ ws.got = Heard(kind, peer.frames)[Len(peer.frames)].said
  PROVE  IInv'
<1>1. /\ Shape /\ Talk /\ Leave /\ Good(ws) /\ peer' = peer /\ kind' = kind
      /\ peer.handshake # "pending"
  BY DEF IInv, Shape
<1>2. Talk'
  BY <1>1 DEF Talk, GotSaid
<1>3. Shape'
  BY <1>1 DEF Shape, Busy
<1>4. Leave'
  BY <1>1, LeaveKeeps DEF Good
<1>5. QED
  BY <1>2, <1>3, <1>4 DEF IInv

\* A frame is refused.
LEMMA RefusedInv ==
  ASSUME IInv, UNCHANGED <<kind, queue, sends, peer>>, Busy, NEW q \in Parsers,
         RunStops(q, FailWebsocketConnection(ws), "stuck")
  PROVE  IInv'
<1>1. PICK v : v = FailWebsocketConnection(ws)
  OBVIOUS
<1>2. Turns(ws, v)
  BY <1>1, FailMeans DEF IInv, Shape
<1>3. Good(v)
  BY <1>2 DEF Turns
<1>4. /\ parser' \in Parsers /\ parser'.busy = "stuck"
      /\ Turns(v, ws') /\ Alike(v, ws') /\ ws'.socket = v.socket /\ ws'.out = v.out
  BY <1>1, <1>3, StopsMeans
<1>5. Turns(ws, ws')
  BY <1>2, <1>4, TurnsOn
<1>6. QED
  BY <1>4, <1>5, StopsInv DEF Turns

\* The frame behind the k-th.
Behind(w, p, k) == IF p = 0 THEN k = 0 ELSE w[p].id = k /\ IsLast(w[p])

LEMMA NextHead ==
  ASSUME NEW fs \in Seq(Frames), NEW w, Wired(w, fs, Len(fs)), NEW p \in Nat,
         p + 1 \in 1..Len(w), NEW k \in 0..Len(fs), Behind(w, p, k)
  PROVE  /\ w[p+1].id = k + 1 /\ w[p+1].part = "head" /\ w[p+1].frame = fs[k+1]
         /\ k + 1 \in 1..Len(fs) /\ k < Len(fs)
<1>1. Len(fs) \in Nat /\ Len(w) \in Nat
  <2>1. w \in Seq(WireParts)
    BY DEF Wired
  <2>2. QED
    BY <2>1, LenProperties
<1>2. w[p+1].id = k + 1 /\ w[p+1].part = "head"
  <2>1. CASE p = 0
    BY <1>1, <2>1 DEF Behind, Wired
  <2>2. CASE p # 0
    <3>1. p \in 1..Len(w)-1
      BY <1>1, <2>2
    <3>2. QED
      BY <2>2, <3>1 DEF Behind, Wired
  <2>3. QED
    BY <2>1, <2>2
<1>3. w[p+1].id \in 1..Len(fs) /\ w[p+1].frame = fs[w[p+1].id]
  BY DEF Wired
<1>4. QED
  BY <1>1, <1>2, <1>3

LEMMA NextPayload ==
  ASSUME NEW fs, NEW w, Wired(w, fs, Len(fs)), NEW p \in Nat, p # 0,
         p + 1 \in 1..Len(w), ~IsLast(w[p])
  PROVE  /\ w[p+1].id = w[p].id /\ w[p+1].part = "payload"
         /\ w[p+1].frame = fs[w[p].id] /\ w[p].frame = fs[w[p].id]
<1>1. Len(w) \in Nat
  <2>1. w \in Seq(WireParts)
    BY DEF Wired
  <2>2. QED
    BY <2>1, LenProperties
<1>2. p \in 1..Len(w)-1 /\ p \in 1..Len(w)
  BY <1>1
<1>3. w[p+1].id = w[p].id /\ w[p+1].part = "payload"
  BY <1>2 DEF Wired
<1>4. QED
  BY <1>2, <1>3 DEF Wired

LEMMA TakesMeans ==
  ASSUME NEW q \in Parsers, q.buffers # <<>>, NEW r, r = [q EXCEPT !.buffers = Tail(@)]
  PROVE  /\ r \in Parsers /\ r.buffers = Tail(q.buffers) /\ r.chunks = q.chunks
         /\ r.state = q.state /\ r.busy = q.busy /\ r.info = q.info /\ r.body = q.body
         /\ r.fragments = q.fragments
<1>1. PICK b \in Seq(WireParts) : b = q.buffers
  BY DEF Parsers
<1>2. PICK t \in Seq(WireParts) : t = Tail(q.buffers)
  <2>1. b # <<>> => Tail(b) \in Seq(WireParts)
    OBVIOUS
  <2>2. QED
    BY <1>1, <2>1
<1>3. r = [q EXCEPT !.buffers = t]
  BY <1>2
<1>4. QED
  BY <1>2, <1>3 DEF Parsers

\* A failed handler is not listened to.
LEMMA FailedDeaf ==
  ASSUME peer.handshake # "pending", peer' = peer, ws'.readyState # "OPEN"
  PROVE  ~Listening'
BY DEF Listening

LEMMA ParseHeadInv == ASSUME IInv, ParseHead PROVE IInv'
<1>1. /\ Shape /\ Talk /\ Leave /\ Good(ws) /\ parser \in Parsers /\ peer \in Peers
      /\ UNCHANGED <<kind, queue, sends, peer>> /\ peer' = peer /\ kind' = kind
      /\ parser.busy = "parsing" /\ parser.state = "INFO" /\ parser.buffers # <<>>
      /\ Busy /\ peer.handshake # "pending" /\ ws.socket # "none" /\ ~ws.task
      /\ ws.closeState = {} => ws.readyState = "OPEN"
  BY DEF IInv, Shape, ParseHead, Parsing, NothingElse, Busy
<1>2. PICK w, p, k : InStep(w, p, k)
  BY <1>1 DEF Talk
<1>3. PICK fs \in Seq(Frames) : fs = peer.frames
  BY <1>1 DEF Peers
<1>4. /\ Wired(w, fs, Len(fs)) /\ Laid(w, p, parser, peer.inbox)
      /\ At(w, p, k, parser, fs, kind)
      /\ Listening => ws.got = Heard(kind, fs)[k].said
                        /\ Follows(Heard(kind, fs)[k], fs, k, parser)
  BY <1>2, <1>3 DEF InStep
<1>5. PICK r : r = [parser EXCEPT !.buffers = Tail(@)]
  OBVIOUS
<1>6. /\ r \in Parsers /\ r.buffers = Tail(parser.buffers) /\ r.chunks = parser.chunks
      /\ r.state = "INFO" /\ r.busy = "parsing" /\ r.info = parser.info
      /\ r.fragments = parser.fragments
  BY <1>1, <1>5, TakesMeans
<1>7. w \in Seq(WireParts)
  BY <1>4 DEF Wired
<1>8. /\ p \in Nat /\ p + 1 \in 1..Len(w) /\ Head(parser.buffers) = w[p+1]
      /\ Laid(w, p + 1, r, peer.inbox)
  BY <1>1, <1>4, <1>6, <1>7, LaidTakes
<1>9. k \in 0..Len(fs) /\ Behind(w, p, k)
  BY <1>1, <1>4 DEF At, Behind
<1>10. /\ w[p+1].id = k + 1 /\ w[p+1].part = "head" /\ w[p+1].frame = fs[k+1]
       /\ k + 1 \in 1..Len(fs) /\ k < Len(fs)
  BY <1>3, <1>4, <1>8, <1>9, NextHead
<1>11. PICK f : f = fs[k+1]
  OBVIOUS
<1>12. Head(parser.buffers).frame = f /\ f \in Frames
  BY <1>8, <1>10, <1>11
<1>13. PICK v : v = FailWebsocketConnection(ws)
  OBVIOUS
<1>14. /\ Turns(ws, v) /\ v.readyState # "OPEN"
       /\ ws.readyState = "OPEN" => v.closeState = {"SENT"}
       /\ ws.readyState # "OPEN" => v.closeState = ws.closeState
       /\ v.task => ws.task \/ ws.readyState = "CONNECTING"
  BY <1>1, <1>13, FailMeans
<1>15. CASE f.wrong = "opcode"
  <2>1. RunReturns(r, v)
    BY <1>5, <1>12, <1>13, <1>15 DEF ParseHead
  <2>2. Good(v)
    BY <1>14 DEF Turns
  <2>3. /\ parser' \in Parsers /\ parser'.busy \in {"parsing", "idle"}
        /\ parser'.busy = "idle" => parser'.chunks = <<>>
        /\ parser'.state = "INFO"
        /\ Turns(v, ws') /\ Alike(v, ws') /\ ws'.socket = v.socket
    BY <1>6, <2>1, <2>2, ReturnsMeans
  <2>4. Laid(w, p + 1, parser', peer.inbox)
    BY <1>6, <1>7, <1>8, <2>1, ReturnsLaid
  <2>5. At(w, p + 1, k + 1, parser', fs, kind)
    <3>1. IsLast(w[p+1]) /\ p + 1 # 0 /\ k + 1 \in 0..Len(fs)
      BY <1>8, <1>10, <1>11, <1>15 DEF IsLast
    <3>2. QED
      BY <1>10, <2>3, <3>1 DEF At
  <2>6. /\ ws'.readyState # "OPEN" /\ ws'.closeState = v.closeState /\ ws'.task = v.task
        /\ ws'.got = v.got /\ ws'.closedBy = v.closedBy
    BY <1>14, <2>3 DEF Alike
  <2>7. InStep(w, p + 1, k + 1)'
    <3>1. ~Listening'
      BY <1>1, <2>6, FailedDeaf
    <3>2. QED
      BY <1>1, <1>3, <1>4, <2>4, <2>5, <3>1 DEF InStep
  <2>8. Talk'
    <3>1. GotSaid'
      <4>1. ws'.got = ws.got /\ (ws'.closedBy = "peer" => ws.closedBy = "peer")
        BY <1>14, <2>6 DEF Turns
      <4>2. QED
        BY <1>1, <4>1 DEF Talk, GotSaid
    <3>2. QED
      BY <2>7, <3>1 DEF Talk
  <2>9. ws'.out = v.out
    <3>1. ws' = v \/ ws' = [v EXCEPT !.paused = FALSE]
      BY <2>1 DEF RunReturns
    <3>2. QED
      BY <2>2, <3>1 DEF Good, Handlers
  <2>10. Turns(ws, ws')
    BY <1>14, <2>3, <2>9, TurnsOn
  <2>11. Leave'
    BY <1>1, <2>10, LeaveKeeps DEF Turns, Good
  <2>12. Shape'
    <3>1. ws'.closeState = {} => FALSE
      BY <1>1, <1>14, <2>6
    <3>2. ~ws'.task /\ ws'.socket # "none"
      BY <1>1, <1>14, <2>6, <2>10 DEF Turns, Good
    <3>3. QED
      BY <1>1, <2>3, <2>10, <3>1, <3>2 DEF Shape, Turns
  <2>13. QED
    BY <2>8, <2>11, <2>12 DEF IInv
<1>16. CASE f.wrong # "opcode" /\ (f.wrong = "reserved" \/ Unexpected(f))
  <2>1. RunStops(r, FailWebsocketConnection(ws), "stuck")
    BY <1>5, <1>12, <1>16 DEF ParseHead
  <2>2. QED
    BY <1>1, <1>6, <2>1, RefusedInv
<1>17. CASE f.wrong \notin {"opcode", "reserved"} /\ ~Unexpected(f)
  <2>1. PICK compressed : compressed = IF f.op = "text" THEN f.rsv1
                                       ELSE parser.info.compressed
    OBVIOUS
  <2>2. PICK info : info = [op |-> f.op, fin |-> f.fin, fragmented |-> Fragmented(f),
                            compressed |-> compressed]
    OBVIOUS
  <2>3. /\ parser' = [r EXCEPT !.state = "READ_DATA", !.info = info] /\ ws' = ws
    BY <1>5, <1>6, <1>12, <1>17, <2>1, <2>2 DEF ParseHead
  <2>4. info \in Infos
    <3>1. compressed \in BOOLEAN /\ Fragmented(f) \in BOOLEAN
      BY <1>1, <1>12, <2>1 DEF Parsers, Infos, Frames, Fragmented
    <3>2. QED
      BY <1>12, <2>2, <3>1 DEF Infos, Frames
  <2>5. /\ parser' \in Parsers /\ parser'.buffers = r.buffers /\ parser'.chunks = r.chunks
        /\ parser'.state = "READ_DATA" /\ parser'.busy = "parsing" /\ parser'.info = info
        /\ parser'.fragments = parser.fragments
    BY <1>6, <2>3, <2>4 DEF Parsers
  <2>6. Laid(w, p + 1, parser', peer.inbox)
    BY <1>8, <2>5 DEF Laid, Cut
  <2>7. /\ f.rsv1 => kind.deflate
        /\ f.op = "text" => parser.fragments = <<>>
        /\ f.op = "continuation" => parser.fragments # <<>> \/ parser.info.compressed
    BY <1>17 DEF Unexpected
  <2>8. At(w, p + 1, k, parser', fs, kind)
    BY <1>8, <1>9, <1>10, <1>11, <1>17, <2>2, <2>5, <2>7 DEF At
  <2>9. ASSUME Listening PROVE Follows(Heard(kind, fs)[k], fs, k, parser')
    <3>1. Gathers(Heard(kind, fs)[k], fs, k, parser) /\ Knows(parser)
      BY <1>1, <1>4, <2>9 DEF Follows
    <3>2. Gathers(Heard(kind, fs)[k], fs, k, parser')
      BY <2>5, <3>1, SameGathered
    <3>3. f.op = "text" => (parser'.info.compressed <=> f.rsv1)
      BY <2>1, <2>2, <2>5
    <3>4. f.op # "text" => Knows(parser')
      BY <2>1, <2>2, <2>5, <3>1 DEF Knows
    <3>5. f.op = "continuation" => parser.fragments # <<>>
      BY <2>7, <3>1 DEF Knows
    <3>6. QED
      BY <1>11, <2>5, <2>7, <3>2, <3>3, <3>4, <3>5 DEF Follows
  <2>10. InStep(w, p + 1, k)'
    <3>1. Listening' => Listening
      BY <1>1, <2>3 DEF Listening
    <3>2. QED
      BY <1>1, <1>3, <1>4, <2>3, <2>6, <2>8, <2>9, <3>1 DEF InStep
  <2>11. GotSaid'
    BY <1>1, <2>3 DEF Talk, GotSaid
  <2>12. Talk'
    BY <2>10, <2>11 DEF Talk
  <2>13. Shape'
    BY <1>1, <2>3, <2>5 DEF Shape, Busy
  <2>14. Leave'
    BY <1>1, <2>3, LeaveKeeps DEF Writes, Good
  <2>15. QED
    BY <2>12, <2>13, <2>14 DEF IInv
<1>18. QED
  BY <1>15, <1>16, <1>17

----------------------------------------------------------------------------
(* A fragment is added to the message.                                      *)

Held(g, fs, k) ==
  /\ Len(g) <= MaxFragments
  /\ \A i \in 1..Len(g) :
       /\ g[i].id \in 1..k /\ g[i].frame = fs[g[i].id]
       /\ g[i].inflated <=> g[1].frame.rsv1
  /\ g # <<>> => /\ g[1].frame.op = "text"
                 /\ \A m \in g[1].id+1..k : fs[m].op # "text"

Sound(g) == \A i \in 1..Len(g) : g[i].frame.wrong = ""
Spoiled(g) == \E i \in 1..Len(g) : g[i].frame.wrong = "utf8"

\* The numbers of the fragments g.
Numbers(m, g) == Len(m) = Len(g) /\ \A i \in 1..Len(g) : m[i] = g[i].id

Matches(h, g) == IF h.ok THEN Numbers(h.open, g) /\ Sound(g) ELSE Spoiled(g)

LEMMA GathersMeans ==
  ASSUME NEW h \in Hearings, NEW fs, NEW k, NEW q
  PROVE  Gathers(h, fs, k, q) <=> Held(q.fragments, fs, k) /\ Matches(h, q.fragments)
<1>1. h.ok \in BOOLEAN
  BY DEF Hearings
<1>2. QED
  BY <1>1 DEF Gathers, Held, Matches, Numbers, Sound, Spoiled

\* A fragment that goes behind g, deflated if b.
Fits(f, g, b) ==
  /\ f.op \in {"text", "continuation"}
  /\ IF f.op = "text" THEN g = <<>> /\ (b <=> f.rsv1)
     ELSE g # <<>> /\ (b <=> g[1].frame.rsv1)

Fragment(i, f, b) == [id |-> i, frame |-> f, inflated |-> b]

LEMMA HeldGrows ==
  ASSUME NEW fs \in Seq(Frames), NEW k \in Nat, k < Len(fs), NEW f, f = fs[k+1],
         NEW g \in Seq(Fragments), Held(g, fs, k), Len(g) # MaxFragments,
         NEW b \in BOOLEAN, Fits(f, g, b), NEW u, u = Append(g, Fragment(k + 1, f, b))
  PROVE  /\ u \in Seq(Fragments) /\ u # <<>> /\ Held(u, fs, k + 1)
         /\ b <=> u[1].frame.rsv1
<1>1. f \in Frames
  BY LenProperties, ElementOfSeq
<1>2. PICK x \in Fragments : x = Fragment(k + 1, f, b)
  BY <1>1 DEF Fragment, Fragments
<1>3. x.id = k + 1 /\ x.frame = f /\ x.inflated = b
  BY <1>2 DEF Fragment
<1>4. PICK l \in Nat : l = Len(g)
  BY LenProperties
<1>5. /\ u \in Seq(Fragments) /\ Len(u) = l + 1 /\ u[l+1] = x
      /\ \A i \in 1..l : u[i] = g[i]
  BY <1>2, <1>4
<1>6. \A i \in 1..l+1 : i \in 1..l \/ i = l + 1
  OBVIOUS
<1>7. u # <<>>
  BY <1>5
<1>8. Len(u) <= MaxFragments
  BY <1>4, <1>5, WebSocketAssumption DEF Held
<1>9. u[1].frame.op = "text" /\ (b <=> u[1].frame.rsv1)
      /\ \A m \in u[1].id+1..k+1 : fs[m].op # "text"
  <2>1. CASE f.op = "text"
    <3>1. l = 0
      BY <1>4, <2>1 DEF Fits
    <3>2. u[1] = x
      BY <1>5, <3>1
    <3>3. \A m \in (k+1)+1..k+1 : FALSE
      OBVIOUS
    <3>4. u[1].id = k + 1 /\ u[1].frame = f /\ (b <=> f.rsv1)
      BY <1>3, <2>1, <3>2 DEF Fits
    <3>5. QED
      BY <2>1, <3>3, <3>4
  <2>2. CASE f.op = "continuation"
    <3>1. g # <<>> /\ (b <=> g[1].frame.rsv1)
      BY <2>2 DEF Fits
    <3>2. l # 0 /\ u[1] = g[1] /\ 1 \in 1..l
      BY <1>4, <1>5, <3>1
    <3>3. g[1].frame.op = "text" /\ \A m \in g[1].id+1..k : fs[m].op # "text"
      BY <3>1 DEF Held
    <3>4. \A i \in 1..l : g[i].id \in 1..k
      BY <1>4 DEF Held
    <3>5. PICK j \in 1..k : j = g[1].id
      BY <3>2, <3>4
    <3>6. \A m \in j+1..k+1 : m = k + 1 \/ m \in j+1..k
      OBVIOUS
    <3>7. fs[k+1].op # "text"
      BY <2>2
    <3>8. \A m \in j+1..k+1 : fs[m].op # "text"
      BY <3>3, <3>5, <3>6, <3>7
    <3>9. QED
      BY <3>1, <3>2, <3>3, <3>5, <3>8
  <2>3. QED
    BY <2>1, <2>2 DEF Fits
<1>10. ASSUME NEW i \in 1..l+1
       PROVE  /\ u[i].id \in 1..k+1 /\ u[i].frame = fs[u[i].id]
              /\ u[i].inflated <=> u[1].frame.rsv1
  <2>1. CASE i \in 1..l
    <3>1. u[i] = g[i] /\ u[1] = g[1]
      BY <1>5, <2>1
    <3>2. g[i].id \in 1..k /\ g[i].frame = fs[g[i].id]
      BY <1>4, <2>1 DEF Held
    <3>3. g[i].inflated <=> g[1].frame.rsv1
      BY <1>4, <2>1 DEF Held
    <3>4. g[i].id \in 1..k+1
      BY <3>2
    <3>5. QED
      BY <3>1, <3>2, <3>3, <3>4, Zenon
  <2>2. CASE i = l + 1
    <3>1. u[i].id = k + 1 /\ u[i].frame = fs[k+1] /\ u[i].inflated = b
      BY <1>3, <1>5, <2>2
    <3>2. b <=> u[1].frame.rsv1
      BY <1>9, Zenon
    <3>3. k + 1 \in 1..k+1
      OBVIOUS
    <3>4. QED
      BY <3>1, <3>2, <3>3, Zenon
  <2>3. QED
    BY <1>6, <2>1, <2>2
<1>11. Held(u, fs, k + 1)
  BY <1>5, <1>8, <1>9, <1>10 DEF Held
<1>12. u \in Seq(Fragments) /\ (b <=> u[1].frame.rsv1)
  BY <1>5, <1>9
<1>13. QED
  BY <1>7, <1>11, <1>12, Zenon

\* What a frame that has come so far can still be wrong about.
Passable(f, kd) == f.wrong \in {"", "utf8"} /\ (f.rsv1 => kd.deflate)

\* What the frame f adds to h, with the fragments u that make m.
Adds(h, e, f, m, u) ==
  IF h.ok /\ f.wrong = ""
  THEN /\ Sound(u) /\ Numbers(m, u) /\ e.ok
       /\ IF f.fin THEN e.said = Append(h.said, m) /\ e.open = <<>>
          ELSE e.said = h.said /\ e.open = m
  ELSE Spoiled(u) /\ ~e.ok /\ e.said = h.said

LEMMA MatchesGrows ==
  ASSUME NEW kd, NEW k \in Nat, NEW f \in Frames, Passable(f, kd), NEW b \in BOOLEAN,
         NEW g \in Seq(Fragments), Len(g) < MaxFragments, Fits(f, g, b),
         NEW h \in Hearings, Matches(h, g), NEW u, u = Append(g, Fragment(k + 1, f, b)),
         NEW e, e = Hear(kd, f, h, k + 1), NEW m, m = Append(h.open, k + 1)
  PROVE  Adds(h, e, f, m, u)
<1>1. PICK x \in Fragments : x = Fragment(k + 1, f, b)
  BY DEF Fragment, Fragments
<1>2. x.id = k + 1 /\ x.frame = f
  BY <1>1 DEF Fragment
<1>3. PICK l \in Nat : l = Len(g)
  BY LenProperties
<1>4. /\ u \in Seq(Fragments) /\ Len(u) = l + 1 /\ u[l+1] = x
      /\ \A i \in 1..l : u[i] = g[i]
  BY <1>1, <1>3
<1>5. \A i \in 1..l+1 : i \in 1..l \/ i = l + 1
  OBVIOUS
<1>6. h.open \in Seq(Nat) /\ h.said \in Seq(Seq(Nat)) /\ h.ok \in BOOLEAN
  BY DEF Hearings
<1>7. f.op # "ping" /\ f.op # "close"
  BY DEF Fits
<1>8. CASE h.ok /\ f.wrong = ""
  <2>1. Numbers(h.open, g) /\ Sound(g)
    BY <1>8 DEF Matches
  <2>2. PICK o \in Seq(Nat) : o = h.open
    BY <1>6
  <2>3. /\ Len(m) = l + 1 /\ m[l+1] = k + 1 /\ \A i \in 1..l : m[i] = o[i]
        /\ Len(o) = l
    <3>0. Numbers(o, g)
      BY <2>1, <2>2
    <3>1. Len(o) = l
      BY <1>3, <3>0 DEF Numbers
    <3>2. PICK n \in Nat : n = k + 1
      OBVIOUS
    <3>3. PICK v : v = Append(o, n)
      OBVIOUS
    <3>4. m = v
      BY <2>2, <3>2, <3>3
    <3>5. Len(v) = Len(o) + 1 /\ v[Len(o)+1] = n /\ \A i \in 1..Len(o) : v[i] = o[i]
      BY <3>3
    <3>6. QED
      BY <3>1, <3>2, <3>4, <3>5
  <2>4. Numbers(m, u)
    <3>1. Numbers(o, g)
      BY <2>1, <2>2
    <3>2. \A i \in 1..l : o[i] = g[i].id
      BY <1>3, <3>1 DEF Numbers
    <3>3. ASSUME NEW i \in 1..l+1 PROVE m[i] = u[i].id
      <4>1. CASE i \in 1..l
        BY <1>4, <2>3, <3>2, <4>1
      <4>2. CASE i = l + 1
        BY <1>2, <1>4, <2>3, <4>2
      <4>3. QED
        BY <1>5, <4>1, <4>2
    <3>4. Len(m) = Len(u) /\ Len(u) = l + 1
      BY <1>4, <2>3
    <3>5. \A i \in 1..Len(u) : m[i] = u[i].id
      BY <3>3, <3>4
    <3>6. QED
      BY <3>4, <3>5 DEF Numbers
  <2>5. Sound(u)
    <3>1. Sound(g)
      BY <2>1
    <3>2. \A i \in 1..l : g[i].frame.wrong = ""
      BY <1>3, <3>1 DEF Sound
    <3>3. ASSUME NEW i \in 1..l+1 PROVE u[i].frame.wrong = ""
      <4>1. CASE i \in 1..l
        BY <1>4, <3>2, <4>1
      <4>2. CASE i = l + 1
        BY <1>2, <1>4, <1>8, <4>2
      <4>3. QED
        BY <1>5, <4>1, <4>2
    <3>4. \A i \in 1..Len(u) : u[i].frame.wrong = ""
      BY <1>4, <3>3
    <3>5. QED
      BY <3>4, Zenon DEF Sound
  <2>6. ~Wrong(kd, f, m)
    <3>1. (f.op = "text") <=> l = 0
      BY <1>3 DEF Fits
    <3>2. Len(m) > 1 <=> l # 0
      BY <2>3
    <3>3. ~(Len(m) > MaxFragments)
      BY <1>3, <2>3, WebSocketAssumption
    <3>4. ~((f.op = "text") = (Len(m) > 1))
      BY <3>1, <3>2
    <3>5. QED
      BY <1>7, <1>8, <3>3, <3>4 DEF Wrong, Passable
  <2>7. e = IF f.fin THEN [h EXCEPT !.said = Append(h.said, m), !.open = <<>>]
            ELSE [h EXCEPT !.open = m]
    BY <1>7, <1>8, <2>6 DEF Hear
  <2>8. /\ e.ok
        /\ IF f.fin THEN e.said = Append(h.said, m) /\ e.open = <<>>
           ELSE e.said = h.said /\ e.open = m
    BY <1>8, <2>7 DEF Hearings
  <2>9. QED
    BY <1>8, <2>4, <2>5, <2>8 DEF Adds
<1>9. CASE ~h.ok
  <2>1. Spoiled(g) /\ e = h
    BY <1>9 DEF Matches, Hear
  <2>2. PICK i \in 1..l : g[i].frame.wrong = "utf8"
    BY <1>3, <2>1 DEF Spoiled
  <2>3. i \in 1..Len(u) /\ u[i] = g[i]
    BY <1>4, <2>2
  <2>4. Spoiled(u)
    BY <2>2, <2>3 DEF Spoiled
  <2>5. QED
    BY <1>9, <2>1, <2>4 DEF Adds
<1>10. CASE h.ok /\ f.wrong = "utf8"
  <2>1. l + 1 \in 1..Len(u) /\ u[l+1].frame = f
    BY <1>2, <1>4
  <2>2. Spoiled(u)
    BY <1>10, <2>1 DEF Spoiled
  <2>3. Wrong(kd, f, m)
    BY <1>10 DEF Wrong
  <2>4. e = [h EXCEPT !.ok = FALSE]
    BY <1>7, <1>10, <2>3 DEF Hear
  <2>5. ~e.ok /\ e.said = h.said
    BY <2>4 DEF Hearings
  <2>6. QED
    BY <1>10, <2>2, <2>5 DEF Adds
<1>11. QED
  BY <1>6, <1>8, <1>9, <1>10 DEF Passable

----------------------------------------------------------------------------
(* A message is given to the user.                                          *)

LEMMA SameBoolean == ASSUME NEW x \in BOOLEAN, NEW y \in BOOLEAN, x <=> y PROVE x = y
OBVIOUS

LEMMA IdsMeans ==
  ASSUME NEW g \in Seq(Fragments), NEW fs, NEW k, Held(g, fs, k),
         NEW m \in Seq(Nat), Numbers(m, g)
  PROVE  Ids(g) = m
<1>1. PICK l \in Nat : l = Len(g)
  OBVIOUS
<1>2. DOMAIN g = 1..l
  BY <1>1
<1>3. Len(m) = l /\ \A i \in 1..l : m[i] = g[i].id
  BY <1>1 DEF Numbers
<1>4. ASSUME NEW i \in 1..l PROVE g[i].inflated = g[1].frame.rsv1
  <2>1. g[i] \in Fragments /\ g[1] \in Fragments
    BY <1>1
  <2>2. g[i].inflated \in BOOLEAN /\ g[1].frame \in Frames
    BY <2>1 DEF Fragments
  <2>3. g[1].frame.rsv1 \in BOOLEAN
    BY <2>2 DEF Frames
  <2>4. g[i].inflated <=> g[1].frame.rsv1
    BY <1>1 DEF Held
  <2>5. QED
    BY <2>2, <2>3, <2>4, SameBoolean
<1>5. \A i \in 1..l :
        (IF g[i].inflated = g[1].frame.rsv1 THEN g[i].id ELSE 0) = m[i]
  BY <1>3, <1>4
<1>6. Ids(g) = [i \in 1..l |-> m[i]]
  BY <1>2, <1>5 DEF Ids
<1>7. m = [i \in 1..l |-> m[i]]
  BY <1>3
<1>8. QED
  BY <1>6, <1>7

LEMMA Undecoded ==
  ASSUME NEW g \in Seq(Fragments)
  PROVE  /\ Undecodable(g) <=> Spoiled(g)
         /\ Sound(g) => ~Undecodable(g)
<1>1. DOMAIN g = 1..Len(g)
  OBVIOUS
<1>2. Undecodable(g) <=> Spoiled(g)
  BY <1>1 DEF Undecodable, Spoiled
<1>3. Sound(g) => ~Spoiled(g)
  BY DEF Sound, Spoiled
<1>4. QED
  BY <1>2, <1>3

Told(v, w, m) ==
  /\ w \in Handlers /\ w.got = Append(v.got, m) /\ w.out = v.out /\ w.socket = v.socket
  /\ w.readyState = v.readyState /\ w.closeState = v.closeState /\ w.task = v.task
  /\ w.closedBy = v.closedBy

LEMMA TellMeans ==
  ASSUME NEW v \in Handlers, NEW m \in Seq(Nat), NEW g, Ids(g) = m,
         v.readyState = "OPEN", ~Undecodable(g)
  PROVE  Told(v, OnMessage(v, g), m)
<1>1. PICK w : w = OnMessage(v, g)
  OBVIOUS
<1>2. PICK got \in Seq(Seq(Nat)) : got = Append(v.got, m)
  <2>1. PICK o \in Seq(Seq(Nat)) : o = v.got
    BY DEF Handlers
  <2>2. Append(o, m) \in Seq(Seq(Nat))
    OBVIOUS
  <2>3. QED
    BY <2>1, <2>2
<1>3. PICK u : u = [v EXCEPT !.got = got]
  OBVIOUS
<1>4. /\ u \in Handlers /\ u.got = got /\ u.out = v.out /\ u.socket = v.socket
      /\ u.readyState = v.readyState /\ u.closeState = v.closeState /\ u.task = v.task
      /\ u.closedBy = v.closedBy
  BY <1>3 DEF Handlers
<1>5. w = IF kind.stream THEN Enqueue(u) ELSE [u EXCEPT !.events = Append(@, "message")]
  BY <1>1, <1>2, <1>3 DEF OnMessage
<1>6. CASE kind.stream
  <2>1. CASE u.reading
    <3>1. w = [u EXCEPT !.reading = FALSE, !.paused = FALSE]
      BY <1>5, <1>6, <2>1 DEF Enqueue
    <3>2. /\ w \in Handlers /\ w.got = u.got /\ w.out = u.out /\ w.socket = u.socket
          /\ w.readyState = u.readyState /\ w.closeState = u.closeState
          /\ w.task = u.task /\ w.closedBy = u.closedBy
      BY <1>4, <3>1 DEF Handlers
    <3>3. Told(v, w, m)
      BY <1>2, <1>4, <3>2 DEF Told
    <3>4. QED
      BY <1>1, <3>3
  <2>2. CASE ~u.reading
    <3>1. PICK unread \in Nat : unread = u.unread + 1
      <4>1. u.unread \in Nat
        BY <1>4 DEF Handlers
      <4>2. u.unread + 1 \in Nat
        BY <4>1
      <4>3. QED
        BY <4>2
    <3>2. w = [u EXCEPT !.unread = unread, !.paused = TRUE]
      BY <1>5, <1>6, <2>2, <3>1 DEF Enqueue
    <3>3. /\ w \in Handlers /\ w.got = u.got /\ w.out = u.out /\ w.socket = u.socket
          /\ w.readyState = u.readyState /\ w.closeState = u.closeState
          /\ w.task = u.task /\ w.closedBy = u.closedBy
      BY <1>4, <3>2 DEF Handlers
    <3>4. QED
      BY <1>1, <1>2, <1>4, <3>3 DEF Told
  <2>3. QED
    BY <2>1, <2>2
<1>7. CASE ~kind.stream
  <2>1. PICK events \in Seq({"open", "message", "error", "clean", "unclean"}) :
          events = Append(u.events, "message")
    <3>1. u.events \in Seq({"open", "message", "error", "clean", "unclean"})
      BY <1>4 DEF Handlers
    <3>2. Append(u.events, "message") \in Seq({"open", "message", "error", "clean", "unclean"})
      BY <3>1
    <3>3. QED
      BY <3>2
  <2>2. w = [u EXCEPT !.events = events]
    BY <1>5, <1>7, <2>1
  <2>3. /\ w \in Handlers /\ w.got = u.got /\ w.out = u.out /\ w.socket = u.socket
        /\ w.readyState = u.readyState /\ w.closeState = u.closeState
        /\ w.task = u.task /\ w.closedBy = u.closedBy
    BY <1>4, <2>2 DEF Handlers
  <2>4. QED
    BY <1>1, <1>2, <1>4, <2>3 DEF Told
<1>8. QED
  BY <1>6, <1>7

\* The data of the frame behind the k-th has come, p parts in all; q is the parser,
\* and b says whether it was inflated.
Ends(w, p, k, q, fs, b) ==
  /\ q \in Parsers /\ q.busy = "parsing"
  /\ k \in Nat /\ k < Len(fs) /\ Wired(w, fs, Len(fs)) /\ Laid(w, p, q, peer.inbox)
  /\ p # 0 /\ w[p].id = k + 1 /\ w[p].part = "payload"
  /\ q.info.fin = fs[k+1].fin /\ (q.info.compressed <=> b)

\* It is of the message that h leaves open.
Belongs(h, k, q, fs, b) ==
  /\ ws.got = h.said /\ Held(q.fragments, fs, k) /\ Matches(h, q.fragments)
  /\ Passable(fs[k+1], kind) /\ Fits(fs[k+1], q.fragments, b)

Added(q, u) == [q EXCEPT !.fragments = u]

LEMMA AppendsMeans ==
  ASSUME NEW g \in Seq(Fragments), NEW f \in Frames, NEW i \in Nat, NEW b \in BOOLEAN
  PROVE  Append(g, Fragment(i, f, b)) \in Seq(Fragments)
<1>1. PICK x \in Fragments : x = Fragment(i, f, b)
  BY DEF Fragment, Fragments
<1>2. Append(g, x) \in Seq(Fragments)
  OBVIOUS
<1>3. QED
  BY <1>1, <1>2

LEMMA AddedMeans ==
  ASSUME NEW q \in Parsers, NEW u \in Seq(Fragments), NEW r, r = Added(q, u)
  PROVE  /\ r \in Parsers /\ r.fragments = u
         /\ r.buffers = q.buffers /\ r.chunks = q.chunks /\ r.busy = q.busy
         /\ r.info = q.info
BY DEF Added, Parsers

\* The message is over, or not.
LEMMA OverMeans ==
  ASSUME NEW r \in Parsers, NEW q,
         q = [r EXCEPT !.state = "INFO", !.fragments = <<>>, !.info.compressed = FALSE]
  PROVE  /\ q \in Parsers /\ q.state = "INFO" /\ q.fragments = <<>>
         /\ ~q.info.compressed
         /\ q.buffers = r.buffers /\ q.chunks = r.chunks /\ q.busy = r.busy
<1>1. PICK info : info = [r.info EXCEPT !.compressed = FALSE]
  OBVIOUS
<1>2. r.info \in Infos
  BY DEF Parsers
<1>3. info \in Infos /\ ~info.compressed
  BY <1>1, <1>2 DEF Infos
<1>4. PICK g \in Seq(Fragments) : g = <<>>
  <2>1. <<>> \in Seq(Fragments)
    OBVIOUS
  <2>2. QED
    BY <2>1
<1>5. q = [r EXCEPT !.state = "INFO", !.fragments = g, !.info = info]
  <2>1. q = [r EXCEPT !.state = "INFO", !.fragments = g, !.info.compressed = FALSE]
    BY <1>4
  <2>2. QED
    BY <1>1, <2>1, Zenon
<1>6. /\ q \in Parsers /\ q.state = "INFO" /\ q.fragments = g /\ q.info = info
      /\ q.buffers = r.buffers /\ q.chunks = r.chunks /\ q.busy = r.busy
  BY <1>3, <1>5 DEF Parsers
<1>7. QED
  BY <1>3, <1>4, <1>6

LEMMA OnwardMeans ==
  ASSUME NEW r \in Parsers, NEW q, q = [r EXCEPT !.state = "INFO"]
  PROVE  /\ q \in Parsers /\ q.state = "INFO" /\ q.fragments = r.fragments
         /\ q.info = r.info
         /\ q.buffers = r.buffers /\ q.chunks = r.chunks /\ q.busy = r.busy
BY DEF Parsers

LEMMA EmptyHeld ==
  ASSUME NEW fs, NEW k, NEW h, h.ok, h.open = <<>>
  PROVE  Held(<<>>, fs, k) /\ Matches(h, <<>>)
BY WebSocketAssumption DEF Held, Matches, Numbers, Sound

\* The parser goes on behind a frame, with or without something for the user.
LEMMA GoesOnInv ==
  ASSUME IInv, UNCHANGED <<kind, queue, sends, peer>>, Busy,
         parser' \in Parsers, parser'.busy # "idle",
         Good(ws'), Writes(ws, ws'), ws'.closeState = {} => ws.closeState = {},
         ws'.closeState = {} => ws'.readyState = "OPEN", ~ws'.task, ws'.socket # "none",
         GotSaid', \E w, p, k : InStep(w, p, k)'
  PROVE  IInv'
<1>1. /\ Shape /\ Leave /\ Good(ws) /\ peer' = peer /\ kind' = kind
      /\ peer.handshake # "pending"
  BY DEF IInv, Shape
<1>2. Talk'
  BY DEF Talk
<1>3. Shape'
  BY <1>1 DEF Shape
<1>4. Leave'
  BY <1>1, LeaveKeeps DEF Good
<1>5. QED
  BY <1>2, <1>3, <1>4 DEF IInv

LEMMA AddFragmentInv ==
  ASSUME IInv, UNCHANGED <<kind, queue, sends, peer>>, Busy,
         NEW w, NEW p, NEW k, NEW q, NEW b \in BOOLEAN, Ends(w, p, k, q, peer.frames, b),
         Listening => Belongs(Heard(kind, peer.frames)[k], k, q, peer.frames, b),
         NEW x, x = w[p], AddFragment(q, x, b)
  PROVE  IInv'
<1>1. /\ Shape /\ Talk /\ Leave /\ Good(ws) /\ ws \in Handlers /\ peer \in Peers
      /\ peer' = peer /\ kind' = kind
      /\ peer.handshake # "pending" /\ ws.socket # "none" /\ ~ws.task
      /\ ws.closeState = {} => ws.readyState = "OPEN"
  BY DEF IInv, Shape, Good
<1>2. PICK fs \in Seq(Frames) : fs = peer.frames
  BY <1>1 DEF Peers
<1>3. /\ q \in Parsers /\ q.busy = "parsing"
      /\ k \in Nat /\ k < Len(fs) /\ Wired(w, fs, Len(fs)) /\ Laid(w, p, q, peer.inbox)
      /\ p # 0 /\ w[p].id = k + 1 /\ w[p].part = "payload"
      /\ q.info.fin = fs[k+1].fin /\ (q.info.compressed <=> b)
  BY <1>2 DEF Ends
<1>4. p \in 1..Len(w) /\ k + 1 \in 1..Len(fs) /\ k + 1 \in Nat /\ k \in 0..Len(fs)
      /\ k + 1 \in 0..Len(fs) /\ (k + 1) - 1 = k
  <2>1. p \in Nat /\ p <= Len(w)
    BY <1>3, LaidIn
  <2>2. Len(fs) \in Nat /\ Len(w) \in Nat
    <3>1. w \in Seq(WireParts)
      BY <1>3 DEF Wired
    <3>2. QED
      BY <3>1, LenProperties
  <2>3. QED
    BY <1>3, <2>1, <2>2
<1>5. PICK f \in Frames : f = fs[k+1]
  BY <1>4, ElementOfSeq
<1>6. x.id = k + 1 /\ x.frame = f
  <2>1. w[p].frame = fs[w[p].id]
    BY <1>3, <1>4 DEF Wired
  <2>2. QED
    BY <1>3, <1>5, <2>1
<1>7. CASE Len(q.fragments) = MaxFragments
  <2>1. RunStops(q, FailWebsocketConnection(ws), "stuck")
    BY <1>7 DEF AddFragment
  <2>2. QED
    BY <1>3, <2>1, RefusedInv
<1>8. CASE Len(q.fragments) # MaxFragments
  <2>1. PICK u : u = Append(q.fragments, Fragment(k + 1, f, b))
    OBVIOUS
  <2>2. PICK r : r = Added(q, u)
    OBVIOUS
  <2>3. FrameReceived(r)
    <3>1. u = Append(q.fragments, [id |-> x.id, frame |-> x.frame, inflated |-> b])
      BY <1>6, <2>1 DEF Fragment
    <3>2. r = [q EXCEPT !.fragments =
                 Append(q.fragments, [id |-> x.id, frame |-> x.frame, inflated |-> b])]
      BY <2>2, <3>1 DEF Added
    <3>3. FrameReceived([q EXCEPT !.fragments =
            Append(q.fragments, [id |-> x.id, frame |-> x.frame, inflated |-> b])])
      BY <1>8, Zenon DEF AddFragment
    <3>4. QED
      BY <3>2, <3>3, Zenon
  <2>4. /\ u \in Seq(Fragments) /\ r \in Parsers /\ r.fragments = u
        /\ r.buffers = q.buffers /\ r.chunks = q.chunks /\ r.busy = q.busy
        /\ r.info = q.info
    <3>1. q \in Parsers /\ k + 1 \in Nat
      BY <1>3, <1>4
    <3>2. q.fragments \in Seq(Fragments)
      BY <3>1 DEF Parsers
    <3>3. u \in Seq(Fragments)
      BY <2>1, <3>1, <3>2, AppendsMeans
    <3>4. QED
      BY <2>2, <3>1, <3>3, AddedMeans
  <2>5. PICK h \in Hearings : h = Heard(kind, fs)[k]
    BY <1>4, HeardMeans
  <2>6. PICK e \in Hearings : e = Heard(kind, fs)[k+1]
    BY <1>4, HeardMeans
  <2>7. e = Hear(kind, f, h, k + 1)
    <3>1. Heard(kind, fs)[k+1] = Hear(kind, fs[k+1], Heard(kind, fs)[(k+1)-1], k + 1)
      BY <1>4, HeardMeans
    <3>2. QED
      BY <1>4, <1>5, <2>5, <2>6, <3>1
  <2>8. PICK m \in Seq(Nat) : m = Append(h.open, k + 1)
    <3>1. PICK o \in Seq(Nat) : o = h.open
      BY DEF Hearings
    <3>2. Append(o, k + 1) \in Seq(Nat)
      BY <1>4
    <3>3. QED
      BY <3>1, <3>2
  <2>9. ASSUME Listening
        PROVE  /\ ws.got = h.said /\ ws.readyState = "OPEN"
               /\ u # <<>> /\ Held(u, fs, k + 1) /\ (b <=> u[1].frame.rsv1)
               /\ Adds(h, e, f, m, u)
    <3>1. Belongs(h, k, q, fs, b)
      BY <1>2, <2>5, <2>9
    <3>2. PICK g \in Seq(Fragments) : g = q.fragments
      BY <1>3 DEF Parsers
    <3>3. /\ ws.got = h.said /\ Held(g, fs, k) /\ Matches(h, g)
          /\ Passable(f, kind) /\ Fits(f, g, b)
      BY <1>5, <3>1, <3>2 DEF Belongs
    <3>4. u = Append(g, Fragment(k + 1, f, b)) /\ Len(g) # MaxFragments
      BY <1>8, <2>1, <3>2
    <3>5. u # <<>> /\ Held(u, fs, k + 1) /\ (b <=> u[1].frame.rsv1)
      BY <1>3, <1>5, <3>3, <3>4, HeldGrows, ZenonT(30)
    <3>6. Len(g) < MaxFragments
      <4>1. Len(g) <= MaxFragments /\ Len(g) \in Nat
        BY <3>3 DEF Held
      <4>2. QED
        BY <3>4, <4>1, WebSocketAssumption
    <3>7. Adds(h, e, f, m, u)
      BY <1>3, <2>7, <2>8, <3>3, <3>4, <3>6, MatchesGrows
    <3>8. ws.readyState = "OPEN"
      BY <1>1, <2>9 DEF Listening
    <3>9. QED
      BY <3>3, <3>5, <3>7, <3>8
  <2>10. ASSUME parser'.state = "INFO", parser'.buffers = q.buffers,
                parser'.chunks = q.chunks, parser'.busy = "parsing"
         PROVE  Laid(w, p, parser', peer.inbox) /\ At(w, p, k + 1, parser', fs, kind)
    <3>1. Laid(w, p, parser', peer.inbox)
      BY <1>3, <2>10 DEF Laid, Cut
    <3>2. IsLast(w[p])
      BY <1>3 DEF IsLast
    <3>3. At(w, p, k + 1, parser', fs, kind)
      BY <1>3, <1>4, <2>10, <3>2 DEF At
    <3>4. QED
      BY <3>1, <3>3
  <2>11. CASE q.info.fin
    <3>1. /\ parser' = [r EXCEPT !.state = "INFO", !.fragments = <<>>,
                                 !.info.compressed = FALSE]
          /\ ws' = OnMessage(ws, u)
      BY <2>3, <2>4, <2>11 DEF FrameReceived
    <3>2. /\ parser' \in Parsers /\ parser'.state = "INFO" /\ parser'.fragments = <<>>
          /\ ~parser'.info.compressed /\ parser'.buffers = q.buffers
          /\ parser'.chunks = q.chunks /\ parser'.busy = "parsing"
      <4>1. /\ parser' \in Parsers /\ parser'.state = "INFO" /\ parser'.fragments = <<>>
            /\ ~parser'.info.compressed
            /\ parser'.buffers = r.buffers /\ parser'.chunks = r.chunks
            /\ parser'.busy = r.busy
        BY <2>4, <3>1, OverMeans
      <4>2. QED
        BY <1>3, <2>4, <4>1
    <3>3. Laid(w, p, parser', peer.inbox) /\ At(w, p, k + 1, parser', fs, kind)
      BY <2>10, <3>2
    <3>4. ASSUME ~Listening', GotSaid', Turns(ws, ws'), ~ws'.task,
                 ws'.closeState = {} => ws'.readyState = "OPEN"
          PROVE  IInv'
      <4>1. InStep(w, p, k + 1)'
        BY <1>1, <1>2, <1>3, <3>3, <3>4 DEF InStep
      <4>2. ws'.socket # "none"
        BY <1>1, <3>4 DEF Turns
      <4>3. QED
        BY <3>2, <3>4, <4>1, <4>2, GoesOnInv DEF Turns
    <3>5. CASE ws.readyState # "OPEN"
      <4>1. ws' = ws
        BY <3>1, <3>5 DEF OnMessage
      <4>2. ~Listening' /\ GotSaid'
        BY <1>1, <3>5, <4>1 DEF Listening, Talk, GotSaid
      <4>3. Turns(ws, ws')
        BY <1>1, <4>1, AlikeTurns DEF Alike
      <4>4. QED
        BY <1>1, <3>4, <4>1, <4>2, <4>3
    <3>6. CASE ws.readyState = "OPEN"
      <4>1. /\ ws.got = h.said /\ Held(u, fs, k + 1) /\ Adds(h, e, f, m, u)
        BY <2>9, <3>6 DEF Listening
      <4>2. f.fin
        BY <1>3, <1>5, <2>11
      <4>3. CASE h.ok /\ f.wrong = ""
        <5>1. /\ Sound(u) /\ Numbers(m, u) /\ e.ok /\ e.said = Append(h.said, m)
              /\ e.open = <<>>
          BY <4>1, <4>2, <4>3 DEF Adds
        <5>2. Ids(u) = m /\ ~Undecodable(u)
          BY <2>4, <4>1, <5>1, IdsMeans, Undecoded
        <5>3. Told(ws, ws', m)
          BY <1>1, <3>1, <3>6, <5>2, TellMeans
        <5>4. ws'.got = e.said
          BY <4>1, <5>1, <5>3 DEF Told
        <5>5. Good(ws')
          BY <1>1, <5>3 DEF Told, Good
        <5>6. Follows(e, fs, k + 1, parser')
          <6>1. Held(<<>>, fs, k + 1) /\ Matches(e, <<>>)
            BY <5>1, EmptyHeld
          <6>2. Gathers(e, fs, k + 1, parser')
            BY <3>2, <6>1, GathersMeans
          <6>3. Knows(parser')
            BY <3>2 DEF Knows
          <6>4. QED
            BY <3>2, <6>2, <6>3 DEF Follows
        <5>7. InStep(w, p, k + 1)'
          BY <1>1, <1>2, <1>3, <2>6, <3>3, <5>4, <5>6 DEF InStep
        <5>8. GotSaid'
          <6>1. ws'.closedBy # "peer"
            BY <1>1, <3>6, <5>3 DEF Told, Good
          <6>2. ws'.got = Heard(kind, peer.frames)[k+1].said
                /\ k + 1 \in 0..Len(peer.frames)
            BY <1>2, <1>4, <2>6, <5>4
          <6>3. QED
            BY <1>1, <6>1, <6>2 DEF GotSaid
        <5>9. Writes(ws, ws') /\ ws'.closeState = ws.closeState /\ ~ws'.task
              /\ ws'.readyState = "OPEN" /\ ws'.socket # "none"
          BY <1>1, <3>6, <5>3 DEF Told, Writes
        <5>10. QED
          BY <3>2, <5>5, <5>7, <5>8, <5>9, GoesOnInv
      <4>4. CASE ~(h.ok /\ f.wrong = "")
        <5>1. Spoiled(u)
          BY <4>1, <4>4 DEF Adds
        <5>2. Undecodable(u)
          BY <2>4, <5>1, Undecoded
        <5>3. ws' = FailWebsocketConnection(ws)
          BY <3>1, <3>6, <5>2 DEF OnMessage
        <5>4. /\ Turns(ws, ws') /\ ws'.readyState # "OPEN" /\ ws'.closeState = {"SENT"}
              /\ ~ws'.task
          BY <1>1, <3>6, <5>3, FailMeans
        <5>5. ~Listening'
          BY <1>1, <5>4, FailedDeaf
        <5>6. GotSaid'
          BY <1>1, <5>4 DEF Turns, Talk, GotSaid
        <5>7. QED
          BY <3>4, <5>4, <5>5, <5>6
      <4>5. QED
        BY <4>3, <4>4
    <3>7. QED
      BY <3>5, <3>6
  <2>12. CASE ~q.info.fin
    <3>1. parser' = [r EXCEPT !.state = "INFO"] /\ ws' = ws
      BY <2>3, <2>4, <2>12 DEF FrameReceived
    <3>2. /\ parser' \in Parsers /\ parser'.state = "INFO" /\ parser'.fragments = u
          /\ parser'.info = q.info /\ parser'.buffers = q.buffers
          /\ parser'.chunks = q.chunks /\ parser'.busy = "parsing"
      <4>1. /\ parser' \in Parsers /\ parser'.state = "INFO"
            /\ parser'.fragments = r.fragments /\ parser'.info = r.info
            /\ parser'.buffers = r.buffers /\ parser'.chunks = r.chunks
            /\ parser'.busy = r.busy
        BY <2>4, <3>1, OnwardMeans
      <4>2. QED
        BY <1>3, <2>4, <4>1
    <3>3. Laid(w, p, parser', peer.inbox) /\ At(w, p, k + 1, parser', fs, kind)
      BY <2>10, <3>2
    <3>4. ASSUME Listening PROVE ws'.got = e.said /\ Follows(e, fs, k + 1, parser')
      <4>1. /\ ws.got = h.said /\ u # <<>> /\ Held(u, fs, k + 1)
            /\ b <=> u[1].frame.rsv1
            /\ Adds(h, e, f, m, u)
        BY <2>9, <3>4
      <4>2. ~f.fin
        BY <1>3, <1>5, <2>12
      <4>3. e.said = h.said /\ Matches(e, u)
        BY <4>1, <4>2 DEF Adds, Matches
      <4>4. Gathers(e, fs, k + 1, parser')
        BY <3>2, <4>1, <4>3, GathersMeans
      <4>5. parser'.info.compressed <=> b
        BY <1>3, <3>2
      <4>6. Knows(parser')
        BY <3>2, <4>1, <4>5 DEF Knows
      <4>7. Follows(e, fs, k + 1, parser')
        BY <3>2, <4>4, <4>6 DEF Follows
      <4>8. QED
        BY <3>1, <4>1, <4>3, <4>7
    <3>5. InStep(w, p, k + 1)'
      <4>1. Listening' => Listening
        BY <1>1, <3>1 DEF Listening
      <4>2. QED
        BY <1>1, <1>2, <1>3, <2>6, <3>3, <3>4, <4>1 DEF InStep
    <3>6. GotSaid'
      BY <1>1, <3>1 DEF Talk, GotSaid
    <3>7. Writes(ws, ws')
      BY <3>1 DEF Writes
    <3>8. QED
      BY <1>1, <3>1, <3>2, <3>5, <3>6, <3>7, GoesOnInv
  <2>13. QED
    BY <2>11, <2>12
<1>9. QED
  BY <1>7, <1>8

----------------------------------------------------------------------------
(* The payload of a frame.                                                  *)

\* What is known of a frame with data once its head was parsed.
IsData(f, kd) ==
  /\ f.op \in {"text", "continuation"} /\ f.wrong \notin {"opcode", "reserved"}
  /\ f.rsv1 => kd.deflate

Broken(f) == f.wrong = "deflate"

\* Data is broken only in a message that is deflated.
LEMMA BrokenMeans ==
  ASSUME NEW fs \in Seq(Frames), IsScript(fs), NEW k \in Nat, k < Len(fs),
         NEW g \in Seq(Fragments), Held(g, fs, k), NEW b \in BOOLEAN,
         Fits(fs[k+1], g, b), Broken(fs[k+1])
  PROVE  b
<1>1. k + 1 \in 1..Len(fs) /\ DOMAIN fs = 1..Len(fs)
  BY LenProperties
<1>2. PICK j \in 1..k+1 : /\ fs[j].op = "text" /\ fs[j].rsv1
                          /\ \A m \in j+1..k+1 : fs[m].op # "text"
  <2>1. fs[k+1].wrong = "deflate"
    BY DEF Broken
  <2>2. \A i \in 1..Len(fs) : fs[i].wrong = "deflate" =>
          \E j \in 1..i : /\ fs[j].op = "text" /\ fs[j].rsv1
                         /\ \A m \in j+1..i : fs[m].op # "text"
    BY <1>1 DEF IsScript
  <2>3. QED
    BY <1>1, <2>1, <2>2
<1>3. CASE fs[k+1].op = "text"
  <2>1. j = k + 1
    <3>1. SUFFICES ASSUME j # k + 1 PROVE FALSE
      OBVIOUS
    <3>2. k + 1 \in j+1..k+1
      BY <3>1
    <3>3. QED
      BY <1>2, <1>3, <3>2
  <2>2. b <=> fs[k+1].rsv1
    BY <1>3 DEF Fits
  <2>3. QED
    BY <1>2, <2>1, <2>2
<1>4. CASE fs[k+1].op # "text"
  <2>1. g # <<>> /\ (b <=> g[1].frame.rsv1)
    BY <1>4 DEF Fits
  <2>2. 1 \in 1..Len(g)
    BY <2>1
  <2>3. g[1].id \in 1..k /\ g[1].frame = fs[g[1].id]
    BY <2>2 DEF Held
  <2>4. PICK i \in 1..k : i = g[1].id
    BY <2>3
  <2>5. fs[i].op = "text" /\ (\A m \in i+1..k : fs[m].op # "text") /\ (b <=> fs[i].rsv1)
    BY <2>1, <2>3, <2>4 DEF Held
  <2>6. j # k + 1
    BY <1>2, <1>4
  <2>7. ~(i < j)
    <3>1. i < j => j \in i+1..k
      BY <2>6
    <3>2. QED
      BY <1>2, <2>5, <3>1
  <2>8. ~(j < i)
    <3>1. j < i => i \in j+1..k+1
      OBVIOUS
    <3>2. QED
      BY <1>2, <2>5, <3>1
  <2>9. i = j
    BY <2>7, <2>8
  <2>10. QED
    BY <1>2, <2>5, <2>9
<1>5. QED
  BY <1>3, <1>4

LEMMA BelongsMeans ==
  ASSUME NEW fs \in Seq(Frames), IsScript(fs), NEW k \in Nat, k < Len(fs),
         NEW h \in Hearings, NEW q \in Parsers, Follows(h, fs, k, q),
         q.state = "READ_DATA", NEW b \in BOOLEAN, q.info.compressed <=> b,
         IsData(fs[k+1], kind), b => ~Broken(fs[k+1]), ws.got = h.said,
         NEW r, r.fragments = q.fragments
  PROVE  Belongs(h, k, r, fs, b)
<1>1. PICK f \in Frames : f = fs[k+1]
  <2>1. k + 1 \in 1..Len(fs)
    BY LenProperties
  <2>2. QED
    BY <2>1, ElementOfSeq
<1>2. PICK g \in Seq(Fragments) : g = q.fragments
  BY DEF Parsers
<1>3. Held(g, fs, k) /\ Matches(h, g)
  <2>1. Gathers(h, fs, k, q)
    BY DEF Follows
  <2>2. QED
    BY <1>2, <2>1, GathersMeans
<1>4. f.op \in {"text", "continuation"}
  BY <1>1 DEF IsData
<1>5. Fits(f, g, b)
  <2>1. IF f.op = "text" THEN g = <<>> /\ (q.info.compressed <=> f.rsv1)
        ELSE Knows(q) /\ g # <<>>
    BY <1>1, <1>2, <1>4 DEF Follows
  <2>2. CASE f.op = "text"
    BY <1>4, <2>1, <2>2 DEF Fits
  <2>3. CASE f.op # "text"
    <3>1. g # <<>> /\ (q.info.compressed <=> g[1].frame.rsv1)
      BY <1>2, <2>1, <2>3 DEF Knows
    <3>2. b <=> g[1].frame.rsv1
      BY <3>1
    <3>3. QED
      BY <1>4, <2>3, <3>1, <3>2 DEF Fits
  <2>4. QED
    BY <2>2, <2>3
<1>6. ~Broken(f)
  BY <1>1, <1>3, <1>5, BrokenMeans
<1>7. Passable(f, kind)
  <2>1. f.wrong \notin {"opcode", "reserved"} /\ (f.rsv1 => kind.deflate)
    BY <1>1 DEF IsData
  <2>2. f.wrong # "body"
    <3>1. k + 1 \in DOMAIN fs
      BY LenProperties
    <3>2. f.wrong = "body" => f.op = "close"
      BY <1>1, <3>1 DEF IsScript
    <3>3. QED
      BY <1>4, <3>2
  <2>3. f.wrong \in {"", "opcode", "reserved", "body", "utf8", "deflate"}
    BY DEF Frames
  <2>4. f.wrong \in {"", "utf8"}
    BY <1>6, <2>1, <2>2, <2>3 DEF Broken
  <2>5. QED
    BY <2>1, <2>4 DEF Passable
<1>8. QED
  BY <1>1, <1>2, <1>3, <1>5, <1>7 DEF Belongs

\* The server's Close frame.
LEMMA CloseReceivedInv ==
  ASSUME IInv, UNCHANGED <<kind, queue, sends, peer>>, Busy, NEW q \in Parsers,
         NEW f, f.wrong = "",
         CloseReceived(q, f),
         ws.readyState = "OPEN" => ws.got = Heard(kind, peer.frames)[Len(peer.frames)].said
  PROVE  IInv'
<1>1. Shape /\ Good(ws) /\ ws \in Handlers /\ (ws.closeState = {} => ws.readyState = "OPEN")
      /\ ws.socket # "none" /\ ~ws.task
  BY DEF IInv, Shape, Good
<1>2. PICK u : u = StartClosing(ws, "peer")
  OBVIOUS
<1>3. /\ u \in Handlers /\ u.readyState = "CLOSING"
      /\ u.task = ws.task /\ u.got = ws.got
      /\ IF ws.closeState = {}
         THEN /\ u.closeState = {"SENT"} /\ u.closedBy = "peer"
              /\ u.out = IF ws.socket = "open" THEN Append(ws.out, Control("close"))
                         ELSE ws.out
              /\ u.socket = IF ws.socket = "ended" THEN "destroyed" ELSE ws.socket
         ELSE /\ u.closeState = ws.closeState /\ u.closedBy = ws.closedBy
              /\ u.out = ws.out /\ u.socket = ws.socket
  BY <1>1, <1>2, StartClosingMeans, ZenonT(30)
<1>4. PICK v : v = [u EXCEPT !.closeState = {"SENT", "RECEIVED"}]
  OBVIOUS
<1>5. /\ v \in Handlers /\ v.readyState = "CLOSING" /\ v.closeState = {"SENT", "RECEIVED"}
      /\ v.task = u.task /\ v.got = u.got /\ v.closedBy = u.closedBy /\ v.out = u.out
      /\ v.socket = u.socket
  BY <1>3, <1>4 DEF Handlers
<1>6. Good(v)
  BY <1>1, <1>3, <1>5 DEF Good
<1>7. RunStops(q, v, "stuck")
  BY <1>2, <1>4 DEF CloseReceived
<1>8. /\ parser' \in Parsers /\ parser'.busy = "stuck"
      /\ Turns(v, ws') /\ Alike(v, ws') /\ ws'.out = v.out
  BY <1>6, <1>7, StopsMeans
<1>9. Good(ws') /\ ws'.closeState # {}
  BY <1>5, <1>8 DEF Turns, Alike
<1>10. Writes(ws, ws') /\ ws'.got = ws.got
  BY <1>3, <1>5, <1>8, <1>9 DEF Writes, Alike
<1>11. ws'.closedBy = "peer" =>
         \/ ws.closedBy = "peer"
         \/ ws.got = Heard(kind, peer.frames)[Len(peer.frames)].said
  <2>1. ws.closeState # {} => ws'.closedBy = ws.closedBy
    BY <1>3, <1>5, <1>8 DEF Alike
  <2>2. QED
    BY <1>1, <2>1
<1>12. QED
  BY <1>8, <1>9, <1>10, <1>11, StopsInv

LEMMA ParsePayloadInv == ASSUME IInv, ParsePayload PROVE IInv'
<1>1. /\ Shape /\ Talk /\ Leave /\ Good(ws) /\ parser \in Parsers /\ peer \in Peers
      /\ UNCHANGED <<kind, queue, sends, peer>> /\ peer' = peer /\ kind' = kind
      /\ parser.busy = "parsing" /\ parser.state = "READ_DATA" /\ parser.buffers # <<>>
      /\ Busy /\ peer.handshake # "pending" /\ ws.socket # "none" /\ ~ws.task
      /\ ws.closeState = {} => ws.readyState = "OPEN"
  BY DEF IInv, Shape, ParsePayload, Parsing, NothingElse, Busy
<1>2. PICK w, p, k : InStep(w, p, k)
  BY <1>1 DEF Talk
<1>3. PICK fs \in Seq(Frames) : fs = peer.frames
  BY <1>1 DEF Peers
<1>4. /\ Wired(w, fs, Len(fs)) /\ Laid(w, p, parser, peer.inbox)
      /\ At(w, p, k, parser, fs, kind) /\ IsScript(fs)
      /\ Listening => ws.got = Heard(kind, fs)[k].said
                        /\ Follows(Heard(kind, fs)[k], fs, k, parser)
  BY <1>1, <1>2, <1>3 DEF InStep, Shape
<1>5. PICK r : r = [parser EXCEPT !.buffers = Tail(@)]
  OBVIOUS
<1>6. /\ r \in Parsers /\ r.buffers = Tail(parser.buffers) /\ r.chunks = parser.chunks
      /\ r.state = "READ_DATA" /\ r.busy = "parsing" /\ r.info = parser.info
      /\ r.fragments = parser.fragments
  BY <1>1, <1>5, TakesMeans
<1>7. w \in Seq(WireParts)
  BY <1>4 DEF Wired
<1>8. /\ p \in Nat /\ p + 1 \in 1..Len(w) /\ Head(parser.buffers) = w[p+1]
      /\ Laid(w, p + 1, r, peer.inbox)
  BY <1>1, <1>4, <1>6, <1>7, LaidTakes
<1>9. /\ k \in 0..Len(fs) /\ k < Len(fs) /\ p \in 1..Len(w) /\ w[p].id = k + 1
      /\ parser.info.op = fs[k+1].op /\ parser.info.fin = fs[k+1].fin
      /\ fs[k+1].wrong \notin {"opcode", "reserved"} /\ (fs[k+1].rsv1 => kind.deflate)
      /\ w[p].part = "head"
  BY <1>1, <1>4 DEF At
<1>10. k \in Nat /\ k + 1 \in Nat /\ k + 1 \in 1..Len(fs) /\ k + 1 \in 0..Len(fs)
       /\ (k + 1) - 1 = k /\ p # 0 /\ p + 1 # 0
  BY <1>8, <1>9, LenProperties
<1>11. PICK f \in Frames : f = fs[k+1]
  BY <1>10, ElementOfSeq
<1>12. w[p].frame = f
  BY <1>4, <1>9, <1>11 DEF Wired
<1>13. ~IsLast(w[p])
  BY <1>9, <1>11, <1>12 DEF IsLast
<1>14. PICK x : x = w[p+1]
  OBVIOUS
<1>15. x = Head(parser.buffers) /\ x.id = k + 1 /\ x.part = "payload" /\ x.frame = f
  BY <1>4, <1>8, <1>9, <1>10, <1>11, <1>13, <1>14, NextPayload
<1>16. PICK h \in Hearings : h = Heard(kind, fs)[k]
  BY <1>9, HeardMeans
<1>17. PICK e \in Hearings : e = Heard(kind, fs)[k+1]
  BY <1>10, HeardMeans
<1>18. e = Hear(kind, f, h, k + 1)
  <2>1. Heard(kind, fs)[k+1] = Hear(kind, fs[k+1], Heard(kind, fs)[(k+1)-1], k + 1)
    BY <1>10, HeardMeans
  <2>2. QED
    BY <1>10, <1>11, <1>16, <1>17, <2>1
<1>19. PICK d : d = [r EXCEPT !.state = "INFO"]
  OBVIOUS
<1>20. /\ d \in Parsers /\ d.state = "INFO" /\ d.fragments = parser.fragments
       /\ d.info = parser.info /\ d.buffers = r.buffers /\ d.chunks = r.chunks
       /\ d.busy = "parsing"
  BY <1>6, <1>19, OnwardMeans
<1>21. CASE f.op = "close"
  <2>1. CloseReceived(d, f)
    BY <1>5, <1>15, <1>19, <1>21 DEF ParsePayload
  <2>2. CASE f.wrong # ""
    <3>1. RunStops(d, FailWebsocketConnection(ws), "stuck")
      BY <2>1, <2>2 DEF CloseReceived
    <3>2. QED
      BY <1>1, <1>20, <3>1, RefusedInv
  <2>3. CASE f.wrong = ""
    <3>1. ASSUME ws.readyState = "OPEN"
          PROVE  ws.got = Heard(kind, fs)[Len(fs)].said
      <4>1. ws.got = h.said
        BY <1>4, <1>16, <3>1 DEF Listening
      <4>2. e.said = h.said /\ ~e.ok
        BY <1>18, <1>21 DEF Hear, Wrong, Hearings
      <4>3. Len(fs) \in k+1..Len(fs)
        BY <1>10, LenProperties
      <4>4. Heard(kind, fs)[Len(fs)].said = Heard(kind, fs)[k+1].said
        BY <1>10, <1>17, <4>2, <4>3, SaidStays
      <4>5. QED
        BY <1>17, <4>1, <4>2, <4>4
    <3>2. QED
      BY <1>1, <1>3, <1>20, <2>1, <2>3, <3>1, CloseReceivedInv
  <2>4. QED
    BY <2>2, <2>3
<1>22. CASE f.op = "ping"
  <2>1. parser' = d /\ ws' = Pong(ws)
    BY <1>5, <1>15, <1>19, <1>22 DEF ParsePayload
  <2>2. Turns(ws, ws') /\ ws'.readyState = ws.readyState /\ ws'.closeState = ws.closeState
        /\ ws'.task = ws.task
    BY <1>1, <2>1, PongTurns
  <2>3. f.wrong = ""
    <3>1. k + 1 \in DOMAIN fs
      BY <1>10
    <3>2. f.wrong = "body" => f.op = "close"
      BY <1>4, <1>11, <3>1 DEF IsScript
    <3>3. f.wrong \in {"utf8", "deflate"} => f.op \in {"text", "continuation"}
      BY <1>4, <1>11, <3>1 DEF IsScript
    <3>4. f.wrong \in {"", "opcode", "reserved", "body", "utf8", "deflate"}
      BY <1>11 DEF Frames
    <3>5. QED
      BY <1>9, <1>11, <1>22, <3>2, <3>3, <3>4
  <2>4. e = h
    BY <1>18, <1>22, <2>3 DEF Hear
  <2>5. Laid(w, p + 1, parser', peer.inbox)
    BY <1>8, <1>20, <2>1 DEF Laid, Cut
  <2>6. At(w, p + 1, k + 1, parser', fs, kind)
    <3>1. IsLast(w[p+1])
      BY <1>14, <1>15 DEF IsLast
    <3>2. QED
      BY <1>10, <1>14, <1>15, <1>20, <2>1, <3>1 DEF At
  <2>7. ASSUME Listening PROVE ws'.got = e.said /\ Follows(e, fs, k + 1, parser')
    <3>1. ws.got = h.said /\ Gathers(h, fs, k, parser) /\ Knows(parser)
      BY <1>1, <1>4, <1>11, <1>16, <1>22, <2>7 DEF Follows
    <3>2. Held(parser.fragments, fs, k) /\ Matches(h, parser.fragments)
      BY <3>1, GathersMeans
    <3>3. Held(parser.fragments, fs, k + 1)
      <4>1. \A m \in 1..k : m \in 1..k+1
        BY <1>10
      <4>2. ASSUME parser.fragments # <<>>
            PROVE  \A m \in parser.fragments[1].id+1..k+1 : fs[m].op # "text"
        <5>1. PICK g \in Seq(Fragments) : g = parser.fragments
          BY <1>1 DEF Parsers
        <5>2. g # <<>> /\ 1 \in 1..Len(g)
          BY <4>2, <5>1
        <5>3. g[1].id \in 1..k /\ \A m \in g[1].id+1..k : fs[m].op # "text"
          BY <3>2, <5>1, <5>2 DEF Held
        <5>4. PICK i \in 1..k : i = g[1].id
          BY <5>3
        <5>5. \A m \in i+1..k+1 : m \in i+1..k \/ m = k + 1
          BY <1>10
        <5>6. fs[k+1].op # "text"
          BY <1>11, <1>22
        <5>7. QED
          BY <5>1, <5>3, <5>4, <5>5, <5>6
      <4>3. QED
        BY <3>2, <4>1, <4>2 DEF Held
    <3>4. Gathers(e, fs, k + 1, parser')
      BY <1>20, <2>1, <2>4, <3>2, <3>3, GathersMeans
    <3>5. Knows(parser')
      BY <1>20, <2>1, <3>1 DEF Knows
    <3>6. QED
      BY <1>20, <2>1, <2>2, <2>4, <3>1, <3>4, <3>5 DEF Follows, Turns
  <2>8. InStep(w, p + 1, k + 1)'
    <3>1. Listening' => Listening
      BY <1>1, <2>2 DEF Listening
    <3>2. QED
      BY <1>1, <1>3, <1>4, <1>17, <2>5, <2>6, <2>7, <3>1 DEF InStep
  <2>9. GotSaid'
    BY <1>1, <2>2 DEF Turns, Talk, GotSaid
  <2>10. ws'.socket # "none"
    BY <1>1, <2>2 DEF Turns
  <2>11. QED
    BY <1>1, <1>20, <2>1, <2>2, <2>8, <2>9, <2>10, GoesOnInv DEF Turns
<1>23. CASE f.op \notin {"close", "ping"} /\ parser.info.compressed
  <2>1. PICK q : q = [r EXCEPT !.body = x]
    OBVIOUS
  <2>2. RunStops(q, ws, "inflating")
    BY <1>5, <1>15, <1>23, <2>1 DEF ParsePayload
  <2>3. /\ q \in Parsers /\ q.body = x /\ q.state = "READ_DATA" /\ q.info = parser.info
        /\ q.buffers = r.buffers /\ q.chunks = r.chunks
        /\ q.fragments = parser.fragments
    <3>1. x \in WireParts
      BY <1>7, <1>8, <1>14, ElementOfSeq
    <3>2. QED
      BY <1>6, <2>1, <3>1 DEF Parsers
  <2>4. /\ parser' \in Parsers /\ parser'.busy = "inflating"
        /\ parser'.buffers = r.buffers /\ parser'.chunks = r.chunks
        /\ parser'.state = "READ_DATA" /\ parser'.info = parser.info /\ parser'.body = x
        /\ parser'.fragments = parser.fragments
        /\ Turns(ws, ws') /\ Alike(ws, ws') /\ ws'.socket = ws.socket
    <3>1. /\ parser' \in Parsers /\ parser'.busy = "inflating"
          /\ parser'.buffers = q.buffers /\ parser'.chunks = q.chunks
          /\ parser'.state = q.state /\ parser'.info = q.info /\ parser'.body = q.body
          /\ parser'.fragments = q.fragments
          /\ Turns(ws, ws') /\ Alike(ws, ws') /\ ws'.socket = ws.socket
      BY <1>1, <2>2, <2>3, StopsMeans
    <3>2. QED
      BY <2>3, <3>1
  <2>5. Laid(w, p + 1, parser', peer.inbox)
    BY <1>8, <2>4 DEF Laid, Cut
  <2>6. At(w, p + 1, k, parser', fs, kind)
    <3>1. f.op \in {"text", "continuation"}
      BY <1>11, <1>23 DEF Frames
    <3>2. QED
      BY <1>8, <1>9, <1>11, <1>14, <1>15, <1>23, <2>4, <3>1 DEF At
  <2>7. ASSUME Listening
        PROVE  ws'.got = h.said /\ Follows(h, fs, k, parser')
    <3>1. ws.got = h.said /\ Follows(h, fs, k, parser)
      BY <1>4, <1>16, <2>7
    <3>2. Follows(h, fs, k, parser')
      BY <1>1, <2>4, <3>1, FollowsOn
    <3>3. QED
      BY <2>4, <3>1, <3>2 DEF Turns
  <2>8. InStep(w, p + 1, k)'
    <3>1. Listening' => Listening
      BY <1>1, <2>4 DEF Listening, Alike
    <3>2. QED
      BY <1>1, <1>3, <1>4, <1>16, <2>5, <2>6, <2>7, <3>1 DEF InStep
  <2>9. GotSaid'
    BY <1>1, <2>4 DEF Alike, Talk, GotSaid
  <2>10. /\ Good(ws') /\ Writes(ws, ws') /\ (ws'.closeState = {} => ws.closeState = {})
         /\ (ws'.closeState = {} => ws'.readyState = "OPEN") /\ ~ws'.task
         /\ ws'.socket # "none"
    BY <1>1, <2>4 DEF Turns, Alike
  <2>11. QED
    BY <1>1, <2>4, <2>8, <2>9, <2>10, GoesOnInv
<1>24. CASE f.op \notin {"close", "ping"} /\ ~parser.info.compressed
  <2>1. AddFragment(r, x, FALSE)
    BY <1>5, <1>15, <1>24 DEF ParsePayload
  <2>2. Ends(w, p + 1, k, r, fs, FALSE)
    BY <1>4, <1>6, <1>8, <1>9, <1>10, <1>14, <1>15, <1>24 DEF Ends
  <2>3. ASSUME Listening PROVE Belongs(h, k, r, fs, FALSE)
    <3>1. ws.got = h.said /\ Follows(h, fs, k, parser)
      BY <1>4, <1>16, <2>3
    <3>2. IsData(fs[k+1], kind)
      <4>1. f.op \in {"text", "continuation"}
        BY <1>11, <1>24 DEF Frames
      <4>2. QED
        BY <1>9, <1>11, <4>1 DEF IsData
    <3>3. parser.info.compressed <=> FALSE
      BY <1>24
    <3>4. QED
      BY <1>1, <1>4, <1>6, <1>9, <1>10, <3>1, <3>2, <3>3, BelongsMeans
  <2>4. QED
    BY <1>1, <1>3, <1>14, <1>16, <2>1, <2>2, <2>3, AddFragmentInv
<1>25. QED
  BY <1>21, <1>22, <1>23, <1>24

LEMMA InflatedInv == ASSUME IInv, Inflated PROVE IInv'
<1>1. /\ Shape /\ Talk /\ Good(ws) /\ parser \in Parsers /\ peer \in Peers
      /\ UNCHANGED <<kind, queue, sends, peer>> /\ parser.busy = "inflating" /\ Busy
  BY DEF IInv, Shape, Inflated, NothingElse, Busy
<1>2. PICK w, p, k : InStep(w, p, k)
  BY <1>1 DEF Talk
<1>3. PICK fs \in Seq(Frames) : fs = peer.frames
  BY <1>1 DEF Peers
<1>4. /\ Wired(w, fs, Len(fs)) /\ Laid(w, p, parser, peer.inbox)
      /\ At(w, p, k, parser, fs, kind) /\ IsScript(fs)
      /\ Listening => ws.got = Heard(kind, fs)[k].said
                        /\ Follows(Heard(kind, fs)[k], fs, k, parser)
  BY <1>1, <1>2, <1>3 DEF InStep, Shape
<1>5. parser.state = "READ_DATA"
  BY <1>1, <1>4 DEF At
<1>6. /\ k \in 0..Len(fs) /\ k < Len(fs) /\ p \in 1..Len(w) /\ w[p].id = k + 1
      /\ parser.info.op = fs[k+1].op /\ parser.info.fin = fs[k+1].fin
      /\ fs[k+1].wrong \notin {"opcode", "reserved"} /\ (fs[k+1].rsv1 => kind.deflate)
      /\ parser.body = w[p] /\ w[p].part = "payload" /\ parser.info.compressed
      /\ fs[k+1].op \in {"text", "continuation"}
  BY <1>1, <1>4, <1>5 DEF At
<1>7. k \in Nat /\ p # 0
  BY <1>6
<1>8. PICK f : f = fs[k+1]
  OBVIOUS
<1>9. w[p].frame = f
  BY <1>4, <1>6, <1>8 DEF Wired
<1>10. PICK h \in Hearings : h = Heard(kind, fs)[k]
  BY <1>6, HeardMeans
<1>11. CASE Broken(f)
  <2>1. RunStops(parser, FailWebsocketConnection(ws), "stuck")
    BY <1>6, <1>9, <1>11 DEF Inflated, Broken
  <2>2. QED
    BY <1>1, <2>1, RefusedInv
<1>12. CASE ~Broken(f)
  <2>1. PICK q : q = [parser EXCEPT !.busy = "parsing"]
    OBVIOUS
  <2>2. AddFragment(q, parser.body, TRUE)
    BY <1>6, <1>9, <1>12, <2>1 DEF Inflated, Broken
  <2>3. /\ q \in Parsers /\ q.busy = "parsing" /\ q.buffers = parser.buffers
        /\ q.chunks = parser.chunks /\ q.info = parser.info
        /\ q.fragments = parser.fragments
    BY <1>1, <2>1 DEF Parsers
  <2>4. Laid(w, p, q, peer.inbox)
    BY <1>4, <2>3 DEF Laid, Cut
  <2>5. Ends(w, p, k, q, fs, TRUE)
    BY <1>4, <1>6, <1>7, <2>3, <2>4 DEF Ends
  <2>6. ASSUME Listening PROVE Belongs(h, k, q, fs, TRUE)
    <3>1. ws.got = h.said /\ Follows(h, fs, k, parser)
      BY <1>4, <1>10, <2>6
    <3>2. IsData(fs[k+1], kind)
      BY <1>6 DEF IsData
    <3>3. parser.info.compressed <=> TRUE
      BY <1>6
    <3>4. ~Broken(fs[k+1])
      BY <1>8, <1>12
    <3>5. QED
      BY <1>1, <1>4, <1>5, <1>6, <1>7, <2>3, <3>1, <3>2, <3>3, <3>4, BelongsMeans
  <2>7. QED
    BY <1>1, <1>3, <1>6, <1>10, <2>2, <2>5, <2>6, AddFragmentInv
<1>13. QED
  BY <1>11, <1>12

----------------------------------------------------------------------------
(* The theorem.                                                             *)

LEMMA InitInv == Init => IInv
<1> SUFFICES ASSUME Init PROVE IInv
  OBVIOUS
<1>1. /\ kind \in Kinds /\ queue = <<>> /\ sends = 0
      /\ ws = [readyState |-> "CONNECTING", closeState |-> {}, socket |-> "none",
           paused |-> FALSE, aborted |-> FALSE, task |-> FALSE, out |-> <<>>,
           got |-> <<>>, events |-> <<>>, failed |-> FALSE, closedBy |-> "",
           opened |-> "pending", closed |-> "pending", readable |-> "none",
           unread |-> 0, reading |-> FALSE, handshakeAborted |-> FALSE]
  BY DEF Init
<1>2. /\ parser = [state |-> "INFO", buffers |-> <<>>, chunks |-> <<>>,
               busy |-> "idle", full |-> FALSE, needDrain |-> FALSE,
               info |-> NoInfo, body |-> NoPart, fragments |-> <<>>]
      /\ peer = [inbox |-> Wire(kind.script), frames |-> kind.script,
             reset |-> FALSE, handshake |-> "pending"]
  BY DEF Init
<1>3. IsScript(kind.script)
  BY <1>1, KindAssumption
<1>4. PICK fs \in Seq(Frames) : fs = kind.script
  BY <1>3 DEF IsScript
<1>5. PICK w : w = Wire(fs)
  OBVIOUS
<1>6. Wired(w, fs, Len(fs)) /\ w \in Seq(WireParts)
  BY <1>5, WireIsWired DEF Wired
<1>7. peer.frames = fs /\ peer.inbox = w /\ peer.handshake = "pending"
  BY <1>2, <1>4, <1>5
<1>8. Good(ws)
  <2>1. ws.out = <<>> /\ ws.got = <<>> /\ ws.events = <<>>
    BY <1>1
  <2>2. /\ <<>> \in Seq(Outs) /\ <<>> \in Seq(Seq(Nat))
        /\ <<>> \in Seq({"open", "message", "error", "clean", "unclean"})
    OBVIOUS
  <2>3. ws \in Handlers
    BY <1>1, <2>2 DEF Handlers, Settled
  <2>4. QED
    BY <1>1, <2>3 DEF Good
<1>9. parser \in Parsers
  <2>1. /\ <<>> \in Seq(WireParts) /\ <<>> \in Seq(Seq(WireParts))
        /\ <<>> \in Seq(Fragments)
    OBVIOUS
  <2>2. NoInfo \in Infos
    BY DEF NoInfo, Infos
  <2>3. QED
    BY <1>2, <2>1, <2>2 DEF Parsers
<1>10. peer \in Peers
  BY <1>2, <1>4, <1>5, <1>6 DEF Peers
<1>11. Shape
  BY <1>1, <1>2, <1>3, <1>4, <1>7, <1>8, <1>9, <1>10 DEF Shape, Busy
<1>12. Laid(w, 0, parser, w)
  <2> DEFINE c == [j \in 1..1 |-> 0]
  <2>1. c \in [1..1 -> Nat] /\ c[1] = 0
    OBVIOUS
  <2> HIDE DEF c
  <2>2. Piece(<<>>, w, 0, 0) /\ Piece(w, w, 0, Len(w))
    BY <1>6 DEF Piece
  <2>3. parser.buffers = <<>> /\ parser.chunks = <<>> /\ Len(parser.chunks) + 1 = 1
    BY <1>2
  <2>4. Cut(w, 0, c, parser, w)
    BY <2>1, <2>2, <2>3 DEF Cut
  <2>5. QED
    BY <2>4 DEF Laid
<1>13. At(w, 0, 0, parser, fs, kind)
  BY <1>2, LenProperties DEF At
<1>14. Heard(kind, fs)[0] = Silence /\ 0 \in 0..Len(fs)
  BY HeardMeans, LenProperties
<1>15. ws.got = Silence.said /\ Follows(Silence, fs, 0, parser)
  <2>1. Silence \in Hearings /\ Silence.ok /\ Silence.open = <<>>
    BY DEF Silence, Hearings
  <2>2. Held(<<>>, fs, 0) /\ Matches(Silence, <<>>)
    BY <2>1, EmptyHeld
  <2>3. Gathers(Silence, fs, 0, parser)
    BY <1>2, <2>1, <2>2, GathersMeans
  <2>4. Knows(parser) /\ parser.state = "INFO"
    BY <1>2 DEF Knows, NoInfo
  <2>5. QED
    BY <1>1, <2>3, <2>4 DEF Follows, Silence
<1>16. InStep(w, 0, 0)
  BY <1>6, <1>7, <1>12, <1>13, <1>14, <1>15 DEF InStep
<1>17. GotSaid
  BY <1>1, <1>7, <1>14, <1>15 DEF GotSaid
<1>18. Talk
  BY <1>16, <1>17 DEF Talk
<1>19. Leave
  <2>1. queue = <<>> /\ ws.out = <<>> /\ sends \in Nat
    BY <1>1
  <2>2. <<>> \in Seq([message : Nat, ready : BOOLEAN]) /\ DOMAIN <<>> = {}
    OBVIOUS
  <2>3. DOMAIN queue = {} /\ DOMAIN ws.out = {}
    BY <2>1, <2>2
  <2>4. QED
    BY <2>1, <2>2, <2>3 DEF Leave
<1>20. QED
  BY <1>11, <1>18, <1>19 DEF IInv

LEMMA NextInv == ASSUME ~SlowInflate, IInv, [Next]_vars PROVE IInv'
<1>1. CASE UNCHANGED vars
  <2>1. UNCHANGED <<kind, ws, parser, queue, sends, calling, peer>>
    BY <1>1 DEF vars
  <2>2. Shape'
    BY <2>1 DEF IInv, Shape, Good, Busy
  <2>3. Talk'
    <3>1. Listening' <=> Listening
      BY <2>1 DEF Listening
    <3>2. QED
      BY <2>1, <3>1, TalkKeeps DEF IInv, Resumes
  <2>4. Leave'
    BY <2>1 DEF IInv, Leave
  <2>5. QED
    BY <2>2, <2>3, <2>4 DEF IInv
<1>2. CASE Establish \/ FailHandshake
  BY <1>2, EstablishInv, FailHandshakeInv
<1>3. CASE DataArrives
  BY <1>3, DataArrivesInv
<1>4. CASE ParserRuns
  BY <1>4, NotEnoughBytesInv, ParseHeadInv, ParsePayloadInv DEF ParserRuns
<1>5. CASE Inflated \/ ListenerReturns
  BY <1>5, InflatedInv, ListenerReturnsInv
<1>6. CASE SocketEnd \/ SocketClose \/ SocketError \/ CloseTask
  BY <1>6, SocketEndInv, SocketCloseInv, SocketErrorInv, CloseTaskInv
<1>7. CASE UserCloses \/ UserSends \/ BlobArrives
  BY <1>7, UserClosesInv, UserSendsInv, BlobArrivesInv
<1>8. CASE UserReads \/ UserCancels \/ SignalAborts
  BY <1>8, UserReadsInv, UserCancelsInv, SignalAbortsInv
<1>9. CASE PeerAnswers
  BY <1>9, PeerAnswersInv
<1>10. QED
  BY <1>1, <1>2, <1>3, <1>4, <1>5, <1>6, <1>7, <1>8, <1>9 DEF Next

LEMMA IInvMeans == IInv => MessagesIntact
<1> SUFFICES ASSUME IInv PROVE MessagesIntact
  OBVIOUS
<1>1. Shape /\ Talk /\ Leave
  BY DEF IInv
<1>2. PICK fs \in Seq(Frames) : fs = peer.frames
  <2>1. peer \in Peers
    BY <1>1 DEF Shape
  <2>2. QED
    BY <2>1 DEF Peers
<1>3. PICK n \in 0..Len(fs) : ws.got = Heard(kind, fs)[n].said
  BY <1>1, <1>2 DEF Talk, GotSaid
<1>4. Len(fs) \in n..Len(fs) /\ Len(fs) \in 0..Len(fs)
  BY LenProperties
<1>5. PICK s \in Seq(Seq(Nat)) : s = ws.got
  <2>1. ws \in Handlers
    BY <1>1 DEF Shape, Good
  <2>2. QED
    BY <2>1 DEF Handlers
<1>6. PICK t \in Seq(Seq(Nat)) : t = Heard(kind, fs)[Len(fs)].said
  <2>1. Heard(kind, fs)[Len(fs)] \in Hearings
    BY <1>4, HeardMeans
  <2>2. QED
    BY <2>1 DEF Hearings
<1>7. Said = t
  BY <1>2, <1>6 DEF Said
<1>8. IsStart(s, t)
  <2>1. IsStart(Heard(kind, fs)[n].said, Heard(kind, fs)[Len(fs)].said)
    BY <1>4, SaidStays
  <2>2. QED
    BY <1>3, <1>5, <1>6, <2>1
<1>9. IsPrefix(s, t)
  <2>1. Len(s) \in Nat /\ Len(t) \in Nat /\ Len(s) <= Len(t)
        /\ \A x \in 1..Len(s) : s[x] = t[x]
    BY <1>8 DEF IsStart
  <2>2. PICK a : a = SubSeq(s, 1, Len(s))
    OBVIOUS
  <2>3. PICK b : b = SubSeq(t, 1, Len(s))
    OBVIOUS
  <2>4. a \in Seq(Seq(Nat)) /\ Len(a) = Len(s) /\ \A x \in 1..Len(s) : a[x] = s[x]
    BY <2>1, <2>2
  <2>5. b \in Seq(Seq(Nat)) /\ Len(b) = Len(s) /\ \A x \in 1..Len(s) : b[x] = t[x]
    BY <2>1, <2>3
  <2>6. a = b
    BY <2>1, <2>4, <2>5, SeqEqual
  <2>7. QED
    BY <2>1, <2>2, <2>3, <2>6 DEF IsPrefix
<1>10. ws.closedBy = "peer" => ws.got = Said
  BY <1>1, <1>2, <1>6, <1>7 DEF Talk, GotSaid
<1>11. \A i, j \in DOMAIN ws.out :
         i < j => /\ ws.out[i].op = "message" /\ ws.out[j].op = "message"
                       => ws.out[i].id < ws.out[j].id
                  /\ ws.out[i].op = "close" => ws.out[j].op # "close"
                  /\ ws.out[i].op = "close" /\ kind.stream => ws.out[j].op # "message"
  BY <1>1 DEF Leave
<1>12. IsPrefix(ws.got, Said)
  BY <1>5, <1>7, <1>9
<1>13. QED
  BY <1>10, <1>11, <1>12 DEF MessagesIntact

\* Whatever the server sends, however it is cut into chunks, and whatever the user
\* and the signal do meanwhile: the user gets the messages of the server, whole and
\* in order, and all of them when the server closed; his own leave in the order of
\* send(), around one Close frame at most (receiver.js, sender.js, websocket.js).
\* The sockets are those that do not close while zlib works.
THEOREM MessagesAreWhole == ~SlowInflate /\ Spec => []MessagesIntact
<1>1. ~SlowInflate /\ IInv /\ [Next]_vars => IInv'
  BY NextInv
<1>2. SUFFICES ASSUME ~SlowInflate PROVE Spec => []MessagesIntact
  OBVIOUS
<1>3. IInv /\ [Next]_vars => IInv'
  BY <1>1, <1>2
<1>4. QED
  BY <1>3, InitInv, IInvMeans, PTL DEF Spec
=============================================================================

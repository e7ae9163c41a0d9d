---------------------------- MODULE FramingProofs ----------------------------
(***************************************************************************)
(* UartFraming implements PduFifo, for PDUs, bytes and a line of every     *)
(* size and any number of PDUs and of kills.  The invariant is that, as    *)
(* long as no process stopped inside a PDU, what is on its way is cut into *)
(* frames (Framed); the parser finds those cuts (ParseFramed).             *)
(***************************************************************************)
EXTENDS UartFraming, SequenceTheorems, TLAPS

Numbers == INSTANCE PacketListProofs

Bytes == 0 .. Base - 1

(* The frame of p lies in the stream after its first n bytes.              *)
FrameAt(bytes, n, p) ==
  /\ n + Prefix + Len(p) <= Len(bytes)
  /\ bytes[n + 1] = Len(p) % Base /\ bytes[n + 2] = Len(p) \div Base
  /\ \A j \in 1 .. Len(p) : bytes[n + Prefix + j] = p[j]

(* The stream is the frames of q one after the other; e[i] is where the    *)
(* i-th of them ends.                                                      *)
Cuts(bytes, q, e) ==
  /\ q \in Seq(Pdus)
  /\ e \in [0 .. Len(q) -> Nat]
  /\ e[0] = 0 /\ e[Len(q)] = Len(bytes)
  /\ \A i \in 1 .. Len(q) :
       e[i] = e[i - 1] + Prefix + Len(q[i]) /\ FrameAt(bytes, e[i - 1], q[i])

Framed(bytes) == \E q, e : Cuts(bytes, q, e)

-----------------------------------------------------------------------------
(* Lengths and their two digits.                                           *)

LEMMA DigitsOf ==
  ASSUME NEW n \in Nat
  PROVE  /\ n % Base \in Bytes /\ n \div Base \in Nat
         /\ n = (n % Base) + Base * (n \div Base)
BY BaseAssumption DEF Bytes

LEMMA DigitsTo ==
  ASSUME NEW a \in Bytes, NEW b \in Nat
  PROVE  /\ a + Base * b \in Nat
         /\ (a + Base * b) % Base = a
         /\ (a + Base * b) \div Base = b
BY BaseAssumption DEF Bytes

LEMMA PduFacts ==
  ASSUME NEW p \in Pdus
  PROVE  /\ p \in Seq(Bytes)
         /\ Len(p) \in Nat \ {0}
         /\ Len(p) % Base \in Bytes
         /\ Len(p) \div Base \in Bytes
<1>1. p \in Seq(Bytes) /\ p # <<>> /\ Len(p) < Base * Base
  BY PdusAssumption DEF Bytes
<1>2. Len(p) \in Nat \ {0}
  BY <1>1, EmptySeq
<1>3. Len(p) \div Base < Base
  BY <1>1, <1>2, BaseAssumption
<1>4. Len(p) % Base \in Bytes /\ Len(p) \div Base \in Nat
  BY <1>2, DigitsOf
<1>5. Len(p) \div Base \in Bytes
  BY <1>3, <1>4, BaseAssumption DEF Bytes
<1>6. QED
  BY <1>1, <1>2, <1>4, <1>5

LEMMA FrameFacts ==
  ASSUME NEW p \in Pdus
  PROVE  /\ Frame(p) \in Seq(Bytes)
         /\ Len(Frame(p)) = Prefix + Len(p)
         /\ FrameAt(Frame(p), 0, p)
<1> DEFINE d == <<Len(p) % Base, Len(p) \div Base>>
<1>1. d \in Seq(Bytes) /\ Len(d) = 2 /\ d[1] = Len(p) % Base /\ d[2] = Len(p) \div Base
  BY PduFacts
<1>2. p \in Seq(Bytes) /\ Len(p) \in Nat
  BY PduFacts
<1>3. Frame(p) = d \o p
  BY DEF Frame, Length
<1> HIDE DEF d
<1>4. /\ d \o p \in Seq(Bytes)
      /\ Len(d \o p) = 2 + Len(p)
      /\ \A i \in 1 .. 2 + Len(p) : (d \o p)[i] = IF i <= 2 THEN d[i] ELSE p[i - 2]
  <2>1. /\ d \o p \in Seq(Bytes)
        /\ Len(d \o p) = Len(d) + Len(p)
        /\ \A i \in 1 .. Len(d) + Len(p) : (d \o p)[i] = IF i <= Len(d) THEN d[i] ELSE p[i - Len(d)]
    BY <1>1, <1>2, ConcatProperties, Zenon
  <2>2. Len(d) = 2
    BY <1>1
  <2>3. QED
    BY <2>1, <2>2
<1>5. \A j \in 1 .. Len(p) : 2 + j \in 1 .. 2 + Len(p) /\ ~(2 + j <= 2) /\ (2 + j) - 2 = j
  BY <1>2
<1>6. \A j \in 1 .. Len(p) : (d \o p)[2 + j] = p[j]
  BY <1>4, <1>5
<1>7. (d \o p)[1] = Len(p) % Base /\ (d \o p)[2] = Len(p) \div Base
  BY <1>1, <1>2, <1>4
<1>8. QED
  BY <1>2, <1>3, <1>4, <1>6, <1>7 DEF FrameAt, Prefix

(* The cuts go up.                                                         *)
LEMMA CutsGrow ==
  ASSUME NEW bytes, NEW q, NEW e, Cuts(bytes, q, e), NEW i \in 0 .. Len(q)
  PROVE  e[i] >= i /\ (i >= 1 => e[i] >= e[1])
<1> DEFINE Grown(k) == e[k] >= k /\ (k >= 1 => e[k] >= e[1])
           Wrong == {k \in 0 .. Len(q) : ~Grown(k)}
<1>1. SUFFICES ASSUME Wrong # {} PROVE FALSE
  OBVIOUS
<1>2. Len(q) \in Nat /\ q \in Seq(Pdus)
  BY DEF Cuts
<1>3. PICK k \in Wrong : \A j \in Wrong : k <= j
  <2> HIDE DEF Wrong
  <2>1. Wrong \in SUBSET Nat
    BY DEF Wrong
  <2>2. QED
    BY <1>1, <2>1, Numbers!SmallestOf
<1>4. k \in 0 .. Len(q) /\ ~Grown(k)
  OBVIOUS
<1>5. k # 0
  BY <1>4 DEF Cuts
<1>6. k \in 1 .. Len(q) /\ k - 1 \in 0 .. Len(q)
  BY <1>2, <1>4, <1>5
<1>7. Grown(k - 1)
  BY <1>3, <1>6
<1>8. e[k] = e[k - 1] + Prefix + Len(q[k]) /\ Len(q[k]) \in Nat /\ e[k - 1] \in Nat
  BY <1>2, <1>6, PduFacts, ElementOfSeq DEF Cuts
<1>9. k = 1 => Grown(k)
  BY <1>7, <1>8 DEF Prefix
<1>10. k # 1 => Grown(k)
  <2>1. e[1] \in Nat /\ e[k] \in Nat
    BY <1>2, <1>6 DEF Cuts
  <2>2. k # 1 => k - 1 >= 1 /\ e[k - 1] >= e[1] /\ e[k - 1] >= k - 1
    BY <1>6, <1>7
  <2>3. e[k] >= e[k - 1] + 2
    BY <1>8 DEF Prefix
  <2>4. QED
    BY <1>6, <1>8, <2>1, <2>2, <2>3
<1>11. QED
  BY <1>4, <1>9, <1>10

-----------------------------------------------------------------------------
(* The parser finds the cuts.                                              *)

Start == [from |-> 0, pdus |-> <<>>]

(* What the parser has after each of n steps.                              *)
IsLoop(bytes, n, taken) ==
  /\ taken[0] = Start
  /\ \A k \in 1 .. n : taken[k] = TakePdu(bytes, taken[k - 1])

(* One step more can always be made.                                       *)
LEMMA LoopExists ==
  ASSUME NEW bytes, NEW n \in Nat
  PROVE  \E taken : taken = [k \in 0 .. n |-> taken[k]] /\ IsLoop(bytes, n, taken)
<1> DEFINE Runs(m) == \E taken : taken = [k \in 0 .. m |-> taken[k]] /\ IsLoop(bytes, m, taken)
           Stuck == {m \in Nat : ~Runs(m)}
<1>1. SUFFICES ASSUME Stuck # {} PROVE FALSE
  OBVIOUS
<1>2. PICK m \in Stuck : \A k \in Stuck : m <= k
  <2> HIDE DEF Stuck
  <2>1. Stuck \in SUBSET Nat
    BY DEF Stuck
  <2>2. QED
    BY <1>1, <2>1, Numbers!SmallestOf
<1>3. m \in Nat /\ ~Runs(m)
  OBVIOUS
<1>4. CASE m = 0
  <2> DEFINE taken == [k \in 0 .. 0 |-> Start]
  <2>1. taken = [k \in 0 .. 0 |-> taken[k]] /\ IsLoop(bytes, 0, taken)
    BY DEF IsLoop
  <2>2. QED
    BY <1>3, <1>4, <2>1
<1>5. CASE m # 0
  <2>1. m - 1 \in Nat /\ m - 1 \notin Stuck
    BY <1>2, <1>3, <1>5
  <2>2. PICK f : f = [k \in 0 .. m - 1 |-> f[k]] /\ IsLoop(bytes, m - 1, f)
    BY <2>1
  <2> DEFINE taken == [k \in 0 .. m |-> IF k = m THEN TakePdu(bytes, f[m - 1]) ELSE f[k]]
  <2>3. taken = [k \in 0 .. m |-> taken[k]]
    OBVIOUS
  <2>4. taken[m] = TakePdu(bytes, f[m - 1]) /\ \A k \in 0 .. m - 1 : taken[k] = f[k]
    BY <1>3
  <2> HIDE DEF taken
  <2>5. taken[0] = Start
    BY <1>3, <1>5, <2>2, <2>4, 0 \in 0 .. m - 1 DEF IsLoop
  <2>6. ASSUME NEW k \in 1 .. m PROVE taken[k] = TakePdu(bytes, taken[k - 1])
    <3>1. k - 1 \in 0 .. m - 1 /\ taken[k - 1] = f[k - 1]
      BY <1>3, <2>4
    <3>2. CASE k = m
      BY <2>4, <3>1, <3>2
    <3>3. CASE k # m
      <4>1. k \in 1 .. m - 1
        BY <1>3, <3>3
      <4>2. f[k] = TakePdu(bytes, f[k - 1])
        BY <2>2, <4>1 DEF IsLoop
      <4>3. taken[k] = f[k]
        BY <2>4, <4>1
      <4>4. QED
        BY <3>1, <4>2, <4>3
    <3>4. QED
      BY <3>2, <3>3
  <2>7. QED
    BY <1>3, <2>3, <2>5, <2>6 DEF IsLoop
<1>6. QED
  BY <1>4, <1>5

LEMMA TakenIsLoop ==
  ASSUME NEW bytes, NEW n \in Nat
  PROVE  \E taken : IsLoop(bytes, n, taken) /\ Taken(bytes, n) = taken[n]
<1> DEFINE Solves(f) == f = [k \in 0 .. n |-> IF k = 0 THEN [from |-> 0, pdus |-> <<>>]
                                              ELSE TakePdu(bytes, f[k - 1])]
           taken == CHOOSE f : Solves(f)
<1>1. PICK f : f = [k \in 0 .. n |-> f[k]] /\ IsLoop(bytes, n, f)
  BY LoopExists
<1>2. Solves(f)
  <2>1. ASSUME NEW k \in 0 .. n
        PROVE  f[k] = IF k = 0 THEN [from |-> 0, pdus |-> <<>>] ELSE TakePdu(bytes, f[k - 1])
    <3>1. CASE k = 0
      BY <1>1, <3>1 DEF IsLoop, Start
    <3>2. CASE k # 0
      <4>1. k \in 1 .. n
        BY <3>2
      <4>2. QED
        BY <1>1, <3>2, <4>1 DEF IsLoop
    <3>3. QED
      BY <3>1, <3>2
  <2>2. QED
    BY <1>1, <2>1
<1>3. Solves(taken)
  BY <1>2
<1>4. Taken(bytes, n) = taken[n]
  BY DEF Taken
<1> HIDE DEF taken
<1>5. IsLoop(bytes, n, taken)
  BY <1>3 DEF IsLoop, Start
<1>6. QED
  BY <1>4, <1>5

(* One step takes one PDU, until there is none.                            *)
LEMMA TakesOne ==
  ASSUME NEW bytes \in Seq(Bytes), NEW q, NEW e, Cuts(bytes, q, e), NEW i \in 1 .. Len(q)
  PROVE  TakePdu(bytes, [from |-> e[i - 1], pdus |-> SubSeq(q, 1, i - 1)])
           = [from |-> e[i], pdus |-> SubSeq(q, 1, i)]
<1> DEFINE n == e[i - 1]
           p == q[i]
<1>1. /\ q \in Seq(Pdus) /\ Len(q) \in Nat /\ p \in Pdus
      /\ n \in Nat /\ e[i] = n + Prefix + Len(p) /\ FrameAt(bytes, n, p)
  <2>1. q \in Seq(Pdus) /\ Len(q) \in Nat /\ i - 1 \in 0 .. Len(q)
    BY DEF Cuts
  <2>2. QED
    BY <2>1, ElementOfSeq DEF Cuts
<1>2. p \in Seq(Bytes) /\ Len(p) \in Nat
  BY <1>1, PduFacts
<1>3. LengthAt(bytes, n) = Len(p)
  BY <1>1, <1>2, DigitsOf DEF LengthAt, Decoded, FrameAt
<1>4. WholeAt(bytes, n)
  BY <1>1, <1>2, <1>3 DEF WholeAt, FrameAt, Prefix
<1> HIDE DEF n, p
<1>5. SubSeq(bytes, n + Prefix + 1, n + Prefix + Len(p)) = p
  <2> DEFINE t == SubSeq(bytes, n + Prefix + 1, n + Prefix + Len(p))
             a == n + Prefix + 1
             b == n + Prefix + Len(p)
  <2>1. a \in Int /\ b \in Int /\ b - a + 1 = Len(p)
    BY <1>1, <1>2 DEF Prefix
  <2>2. \A k \in a .. b : bytes[k] \in Bytes
    <3>1. \A k \in a .. b : k \in 1 .. Len(bytes)
      BY <1>1, <1>2 DEF FrameAt, Prefix
    <3>2. QED
      BY <3>1, ElementOfSeq
  <2> HIDE DEF a, b
  <2>3. /\ SubSeq(bytes, a, b) \in Seq(Bytes)
        /\ Len(SubSeq(bytes, a, b)) = IF a <= b THEN b - a + 1 ELSE 0
        /\ \A k \in 1 .. b - a + 1 : SubSeq(bytes, a, b)[k] = bytes[a + k - 1]
    BY <2>1, <2>2, SubSeqProperties
  <2>4. Len(SubSeq(bytes, a, b)) = Len(p)
    BY <1>2, <2>1, <2>3
  <2>5. ASSUME NEW k \in 1 .. Len(p)
        PROVE  SubSeq(bytes, a, b)[k] = p[k]
    <3>1. a + k - 1 = n + Prefix + k
      BY <1>1, <1>2 DEF a, Prefix
    <3>2. bytes[n + Prefix + k] = p[k]
      BY <1>1 DEF FrameAt
    <3>3. SubSeq(bytes, a, b)[k] = bytes[a + k - 1]
      BY <2>1, <2>3
    <3>4. QED
      BY <3>1, <3>2, <3>3
  <2>6. SubSeq(bytes, a, b) = p
    BY <1>2, <2>3, <2>4, <2>5, SeqEqual
  <2>7. QED
    BY <2>6 DEF a, b
<1>6. Append(SubSeq(q, 1, i - 1), p) = SubSeq(q, 1, i)
  BY <1>1 DEF p
<1>7. QED
  BY <1>1, <1>3, <1>4, <1>5, <1>6 DEF TakePdu, n, p

LEMMA TakesNoMore ==
  ASSUME NEW bytes \in Seq(Bytes), NEW q
  PROVE  TakePdu(bytes, [from |-> Len(bytes), pdus |-> q]) = [from |-> Len(bytes), pdus |-> q]
<1>1. ~WholeAt(bytes, Len(bytes))
  BY DEF WholeAt, Prefix
<1>2. QED
  BY <1>1 DEF TakePdu

(* A stream of frames is parsed into the PDUs they are of.                 *)
LEMMA ParseFramed ==
  ASSUME NEW bytes \in Seq(Bytes), NEW q, NEW e, Cuts(bytes, q, e)
  PROVE  Parse(bytes) = q
<1>1. q \in Seq(Pdus) /\ Len(q) \in Nat /\ Len(bytes) \in Nat /\ e[Len(q)] = Len(bytes)
  BY DEF Cuts
<1>2. Len(q) <= Len(bytes)
  <2>1. Len(q) \in 0 .. Len(q)
    BY <1>1
  <2>2. QED
    BY <1>1, <2>1, CutsGrow
<1>3. PICK taken : IsLoop(bytes, Len(bytes), taken) /\ Taken(bytes, Len(bytes)) = taken[Len(bytes)]
  BY <1>1, TakenIsLoop
<1> DEFINE Done(k) == IF k <= Len(q) THEN k ELSE Len(q)
           Right(k) == taken[k] = [from |-> e[Done(k)], pdus |-> SubSeq(q, 1, Done(k))]
           Wrong == {k \in 0 .. Len(bytes) : ~Right(k)}
<1>4. Wrong = {}
  <2>1. SUFFICES ASSUME Wrong # {} PROVE FALSE
    OBVIOUS
  <2>2. PICK k \in Wrong : \A j \in Wrong : k <= j
    <3> HIDE DEF Wrong
    <3>1. Wrong \in SUBSET Nat
      BY DEF Wrong
    <3>2. QED
      BY <2>1, <3>1, Numbers!SmallestOf
  <2>3. k \in 0 .. Len(bytes) /\ ~Right(k)
    OBVIOUS
  <2>4. k # 0
    <3>1. SubSeq(q, 1, 0) = <<>>
      BY SubSeqEmpty
    <3>2. Right(0)
      BY <1>1, <1>3, <3>1 DEF IsLoop, Start, Cuts
    <3>3. QED
      BY <2>3, <3>2
  <2>5. k \in 1 .. Len(bytes) /\ k - 1 \in 0 .. Len(bytes)
    BY <1>1, <2>3, <2>4
  <2>6. Right(k - 1)
    <3> HIDE DEF Right
    <3>1. k - 1 \notin Wrong
      <4> HIDE DEF Wrong
      <4>1. ~(k <= k - 1)
        BY <2>5
      <4>2. QED
        BY <2>2, <4>1
    <3>2. QED
      BY <2>5, <3>1
  <2>7. taken[k] = TakePdu(bytes, taken[k - 1])
    BY <1>3, <2>5 DEF IsLoop
  <2>8. CASE k <= Len(q)
    <3>1. k \in 1 .. Len(q) /\ Done(k) = k /\ Done(k - 1) = k - 1
      BY <1>1, <2>5, <2>8
    <3>2. TakePdu(bytes, [from |-> e[k - 1], pdus |-> SubSeq(q, 1, k - 1)])
            = [from |-> e[k], pdus |-> SubSeq(q, 1, k)]
      BY <3>1, TakesOne
    <3> HIDE DEF Done
    <3>3. QED
      BY <2>3, <2>6, <2>7, <3>1, <3>2
  <2>9. CASE ~(k <= Len(q))
    <3>1. Done(k) = Len(q) /\ Done(k - 1) = Len(q)
      BY <1>1, <2>5, <2>9
    <3>2. TakePdu(bytes, [from |-> Len(bytes), pdus |-> SubSeq(q, 1, Len(q))])
            = [from |-> Len(bytes), pdus |-> SubSeq(q, 1, Len(q))]
      BY TakesNoMore
    <3> HIDE DEF Done
    <3>3. QED
      BY <1>1, <2>3, <2>6, <2>7, <3>1, <3>2
  <2>10. QED
    BY <2>8, <2>9
<1>5. Right(Len(bytes)) /\ Done(Len(bytes)) = Len(q)
  <2>1. Done(Len(bytes)) = Len(q)
    BY <1>1, <1>2
  <2> HIDE DEF Right
  <2>2. Len(bytes) \in 0 .. Len(bytes) /\ Len(bytes) \notin Wrong
    <3>1. Len(bytes) \notin Wrong
      BY <1>4, Zenon
    <3>2. QED
      BY <1>1, <3>1
  <2>3. QED
    BY <2>1, <2>2
<1>6. SubSeq(q, 1, Len(q)) = q
  BY <1>1, SubSeqFull
<1> HIDE DEF Done
<1>7. taken[Len(bytes)].pdus = q
  BY <1>5, <1>6
<1>8. QED
  BY <1>3, <1>7 DEF Parse
-----------------------------------------------------------------------------
(* Frames in streams that are put together.                                *)

LEMMA Together ==
  ASSUME NEW s \in Seq(Bytes), NEW t \in Seq(Bytes)
  PROVE  /\ s \o t \in Seq(Bytes)
         /\ Len(s \o t) = Len(s) + Len(t)
         /\ \A i \in 1 .. Len(s) : (s \o t)[i] = s[i]
         /\ \A i \in 1 .. Len(t) : (s \o t)[Len(s) + i] = t[i]
<1>1. /\ s \o t \in Seq(Bytes)
      /\ Len(s \o t) = Len(s) + Len(t)
      /\ \A i \in 1 .. Len(s) + Len(t) :
           (s \o t)[i] = IF i <= Len(s) THEN s[i] ELSE t[i - Len(s)]
  BY ConcatProperties, Zenon
<1>2. Len(s) \in Nat /\ Len(t) \in Nat
  OBVIOUS
<1>3. ASSUME NEW i \in 1 .. Len(s)
      PROVE  (s \o t)[i] = s[i]
  <2>1. i \in 1 .. Len(s) + Len(t) /\ i <= Len(s)
    BY <1>2
  <2>2. QED
    BY <1>1, <2>1, Zenon
<1>4. ASSUME NEW i \in 1 .. Len(t)
      PROVE  (s \o t)[Len(s) + i] = t[i]
  <2>1. Len(s) + i \in 1 .. Len(s) + Len(t) /\ ~(Len(s) + i <= Len(s)) /\ (Len(s) + i) - Len(s) = i
    BY <1>2
  <2>2. (s \o t)[Len(s) + i] = t[(Len(s) + i) - Len(s)]
    BY <1>1, <2>1, Zenon
  <2>3. QED
    BY <2>1, <2>2, Zenon
<1>5. QED
  BY <1>1, <1>3, <1>4, Zenon

LEMMA Associative ==
  ASSUME NEW s \in Seq(Bytes), NEW t \in Seq(Bytes), NEW u \in Seq(Bytes)
  PROVE  (s \o t) \o u = s \o (t \o u)
BY ConcatAssociative

LEMMA FrameOnLeft ==
  ASSUME NEW s \in Seq(Bytes), NEW t \in Seq(Bytes), NEW p \in Pdus, NEW n \in Nat,
         FrameAt(s, n, p)
  PROVE  FrameAt(s \o t, n, p)
<1>1. Len(p) \in Nat /\ Len(s) \in Nat /\ Len(t) \in Nat
  BY PduFacts
<1>2. /\ Len(s \o t) = Len(s) + Len(t)
      /\ \A i \in 1 .. Len(s) : (s \o t)[i] = s[i]
  BY Together
<1>3. /\ n + 1 \in 1 .. Len(s) /\ n + 2 \in 1 .. Len(s)
      /\ \A j \in 1 .. Len(p) : n + Prefix + j \in 1 .. Len(s)
  BY <1>1 DEF FrameAt, Prefix
<1>4. QED
  BY <1>1, <1>2, <1>3 DEF FrameAt, Prefix

LEMMA FrameOnRight ==
  ASSUME NEW s \in Seq(Bytes), NEW t \in Seq(Bytes), NEW p \in Pdus, NEW n \in Nat
  PROVE  FrameAt(s \o t, Len(s) + n, p) <=> FrameAt(t, n, p)
<1>1. Len(p) \in Nat /\ Len(s) \in Nat /\ Len(t) \in Nat
  BY PduFacts
<1>2. Len(s \o t) = Len(s) + Len(t)
  BY Together
<1>3. ASSUME NEW i \in 1 .. Len(t)
      PROVE  (s \o t)[Len(s) + i] = t[i]
  BY Together
<1>4. n + Prefix + Len(p) <= Len(t) <=> (Len(s) + n) + Prefix + Len(p) <= Len(s \o t)
  BY <1>1, <1>2 DEF Prefix
<1>5. ASSUME n + Prefix + Len(p) <= Len(t)
      PROVE  /\ (s \o t)[(Len(s) + n) + 1] = t[n + 1]
             /\ (s \o t)[(Len(s) + n) + 2] = t[n + 2]
             /\ \A j \in 1 .. Len(p) : (s \o t)[(Len(s) + n) + Prefix + j] = t[n + Prefix + j]
  <2>1. /\ n + 1 \in 1 .. Len(t) /\ n + 2 \in 1 .. Len(t)
        /\ (Len(s) + n) + 1 = Len(s) + (n + 1) /\ (Len(s) + n) + 2 = Len(s) + (n + 2)
        /\ \A j \in 1 .. Len(p) :
             /\ n + Prefix + j \in 1 .. Len(t)
             /\ (Len(s) + n) + Prefix + j = Len(s) + (n + Prefix + j)
    BY <1>1, <1>5 DEF Prefix
  <2>2. (s \o t)[Len(s) + (n + 1)] = t[n + 1] /\ (s \o t)[Len(s) + (n + 2)] = t[n + 2]
    BY <1>3, <2>1, Zenon
  <2>3. ASSUME NEW j \in 1 .. Len(p)
        PROVE  (s \o t)[(Len(s) + n) + Prefix + j] = t[n + Prefix + j]
    <3>1. (s \o t)[Len(s) + (n + Prefix + j)] = t[n + Prefix + j]
      BY <1>3, <2>1, Zenon
    <3>2. QED
      BY <2>1, <3>1, Zenon
  <2>4. QED
    BY <2>1, <2>2, <2>3, Zenon
<1>6. QED
  BY <1>4, <1>5 DEF FrameAt

LEMMA NoFrames == Cuts(<<>>, <<>>, [i \in 0 .. 0 |-> 0])
BY DEF Cuts

LEMMA OneFrameMore ==
  ASSUME NEW bytes \in Seq(Bytes), NEW q, NEW e, Cuts(bytes, q, e), NEW p \in Pdus
  PROVE  \E d : Cuts(bytes \o Frame(p), Append(q, p), d)
<1> DEFINE new == bytes \o Frame(p)
           m == Len(q)
           end == Len(bytes) + (Prefix + Len(p))
           d == [i \in 0 .. m + 1 |-> IF i <= m THEN e[i] ELSE end]
<1>1. /\ q \in Seq(Pdus) /\ m \in Nat /\ Len(bytes) \in Nat /\ e[0] = 0 /\ e[m] = Len(bytes)
      /\ \A i \in 0 .. m : e[i] \in Nat
  <2>1. q \in Seq(Pdus) /\ e[0] = 0 /\ e[Len(q)] = Len(bytes) /\ e \in [0 .. Len(q) -> Nat]
    BY DEF Cuts
  <2>2. Len(q) \in Nat /\ Len(bytes) \in Nat
    BY <2>1
  <2>3. QED
    BY <2>1, <2>2
<1>2. Frame(p) \in Seq(Bytes) /\ Len(Frame(p)) = Prefix + Len(p) /\ Len(p) \in Nat
  BY FrameFacts, PduFacts
<1>3. Len(new) = end /\ end \in Nat
  <2>1. Len(new) = Len(bytes) + Len(Frame(p))
    BY <1>2, Together
  <2> HIDE DEF new
  <2>2. QED
    BY <1>1, <1>2, <2>1 DEF Prefix
<1>4. FrameAt(new, Len(bytes), p)
  <2>1. FrameAt(new, Len(bytes) + 0, p)
    BY <1>2, FrameFacts, FrameOnRight
  <2>2. QED
    BY <1>1, <2>1
<1> HIDE DEF new
<1>5. /\ Append(q, p) \in Seq(Pdus) /\ Len(Append(q, p)) = m + 1
      /\ Append(q, p)[m + 1] = p
      /\ \A i \in 1 .. m : Append(q, p)[i] = q[i]
  BY <1>1
<1>6. /\ d \in [0 .. m + 1 -> Nat] /\ d[m + 1] = end
      /\ \A i \in 0 .. m : d[i] = e[i]
  <2> HIDE DEF end
  <2>1. QED
    BY <1>1, <1>3
<1> HIDE DEF d
<1>7. ASSUME NEW i \in 1 .. m + 1
      PROVE  /\ d[i] = d[i - 1] + Prefix + Len(Append(q, p)[i])
             /\ FrameAt(new, d[i - 1], Append(q, p)[i])
  <2>1. CASE i = m + 1
    <3>1. i - 1 = m /\ m \in 0 .. m
      BY <1>1, <2>1
    <3>2. d[i - 1] = Len(bytes) /\ Append(q, p)[i] = p /\ d[i] = end
      BY <1>1, <1>5, <1>6, <2>1, <3>1
    <3>3. QED
      BY <1>1, <1>2, <1>4, <3>2 DEF Prefix
  <2>2. CASE i # m + 1
    <3>1. i \in 1 .. m /\ i \in 0 .. m /\ i - 1 \in 0 .. m
      BY <1>1, <2>2
    <3>2. /\ e[i] = e[i - 1] + Prefix + Len(q[i]) /\ FrameAt(bytes, e[i - 1], q[i])
          /\ q[i] \in Pdus
      BY <1>1, <3>1, ElementOfSeq DEF Cuts
    <3>3. FrameAt(new, e[i - 1], q[i])
      BY <1>1, <1>2, <3>1, <3>2, FrameOnLeft DEF new
    <3>4. QED
      BY <1>5, <1>6, <3>1, <3>2, <3>3
  <2>3. QED
    BY <2>1, <2>2
<1>8. d[0] = 0
  BY <1>1, <1>6
<1>9. Cuts(new, Append(q, p), d)
  <2> HIDE DEF end
  <2>1. QED
    BY <1>3, <1>5, <1>6, <1>7, <1>8 DEF Cuts
<1>10. QED
  BY <1>9 DEF new

(* The two digits of a length and the bytes that follow are the first PDU. *)
LEMMA OneFrameLess ==
  ASSUME NEW b \in Seq(Bytes), Len(b) \div Base \in Bytes, NEW s \in Seq(Bytes), NEW q, NEW e,
         Cuts((<<Len(b) % Base, Len(b) \div Base>> \o b) \o s, q, e)
  PROVE  /\ q # <<>> /\ Head(q) = b
         /\ \E d : Cuts(s, Tail(q), d)
<1> DEFINE digits == <<Len(b) % Base, Len(b) \div Base>>
           head == digits \o b
           bytes == head \o s
           p == q[1]
<1>1. Len(b) \in Nat /\ Len(s) \in Nat
  OBVIOUS
<1>2. /\ digits \in Seq(Bytes) /\ Len(digits) = 2
      /\ digits[1] = Len(b) % Base /\ digits[2] = Len(b) \div Base
  BY <1>1, DigitsOf
<1> HIDE DEF digits
<1>3. /\ head \in Seq(Bytes) /\ Len(head) = 2 + Len(b)
      /\ head[1] = Len(b) % Base /\ head[2] = Len(b) \div Base
      /\ \A j \in 1 .. Len(b) : head[2 + j] = b[j]
  <2>1. /\ head \in Seq(Bytes) /\ Len(head) = Len(digits) + Len(b)
        /\ \A i \in 1 .. Len(digits) + Len(b) :
             head[i] = IF i <= Len(digits) THEN digits[i] ELSE b[i - Len(digits)]
    BY <1>2, ConcatProperties, Zenon
  <2>2. \A j \in 1 .. Len(b) :
          2 + j \in 1 .. 2 + Len(b) /\ ~(2 + j <= 2) /\ (2 + j) - 2 = j
    BY <1>1
  <2> HIDE DEF head
  <2>3. QED
    BY <1>1, <1>2, <2>1, <2>2
<1> HIDE DEF head
<1>4. /\ bytes \in Seq(Bytes) /\ Len(bytes) = 2 + Len(b) + Len(s)
      /\ \A i \in 1 .. 2 + Len(b) : bytes[i] = head[i]
  <2>1. /\ head \o s \in Seq(Bytes) /\ Len(head \o s) = Len(head) + Len(s)
        /\ \A i \in 1 .. Len(head) : (head \o s)[i] = head[i]
    BY <1>3, Together
  <2>2. bytes = head \o s
    OBVIOUS
  <2> HIDE DEF bytes
  <2>3. QED
    BY <1>1, <1>3, <2>1, <2>2
<1>5. Cuts(bytes, q, e)
  BY DEF head, digits
<1>6. bytes = head \o s
  OBVIOUS
<1> HIDE DEF bytes
<1>7. /\ q \in Seq(Pdus) /\ Len(q) \in Nat /\ e[0] = 0 /\ e[Len(q)] = Len(bytes)
      /\ \A i \in 0 .. Len(q) : e[i] \in Nat
  <2>1. q \in Seq(Pdus) /\ e[0] = 0 /\ e[Len(q)] = Len(bytes) /\ e \in [0 .. Len(q) -> Nat]
    BY <1>5 DEF Cuts
  <2>2. Len(q) \in Nat
    BY <2>1
  <2>3. QED
    BY <2>1, <2>2
<1>8. Len(q) # 0
  BY <1>1, <1>4, <1>7
<1>9. /\ 1 \in 1 .. Len(q) /\ p \in Pdus /\ p \in Seq(Bytes) /\ Len(p) \in Nat
      /\ e[1] = Prefix + Len(p) /\ FrameAt(bytes, 0, p)
  <2>1. 1 \in 1 .. Len(q)
    BY <1>7, <1>8
  <2>2. p \in Pdus
    BY <1>7, <2>1, ElementOfSeq
  <2>3. e[1] = e[1 - 1] + Prefix + Len(p) /\ FrameAt(bytes, e[1 - 1], p)
    BY <1>5, <2>1 DEF Cuts
  <2> HIDE DEF p
  <2>4. p \in Seq(Bytes) /\ Len(p) \in Nat
    BY <2>2, PduFacts
  <2>5. QED
    BY <1>7, <2>1, <2>2, <2>3, <2>4 DEF Prefix
<1> HIDE DEF p
<1>10. Len(p) = Len(b)
  <2>1. Len(p) % Base = Len(b) % Base /\ Len(p) \div Base = Len(b) \div Base
    BY <1>1, <1>3, <1>4, <1>9 DEF FrameAt
  <2>2. /\ Len(p) = (Len(p) % Base) + Base * (Len(p) \div Base)
        /\ Len(b) = (Len(b) % Base) + Base * (Len(b) \div Base)
    BY <1>1, <1>9, DigitsOf
  <2>3. QED
    BY <2>1, <2>2
<1>11. p = b
  <2>1. ASSUME NEW j \in 1 .. Len(p)
        PROVE  p[j] = b[j]
    <3>1. bytes[0 + Prefix + j] = p[j]
      BY <1>9 DEF FrameAt
    <3>2. 0 + Prefix + j = 2 + j /\ 2 + j \in 1 .. 2 + Len(b)
      BY <1>1, <1>10 DEF Prefix
    <3>3. QED
      BY <1>3, <1>4, <1>10, <3>1, <3>2
  <2>2. QED
    BY <1>9, <1>10, <2>1, SeqEqual
<1>12. q # <<>> /\ Head(q) = b
  BY <1>7, <1>8, <1>11 DEF p
<1>13. e[1] = Len(head)
  BY <1>3, <1>9, <1>10 DEF Prefix
<1> DEFINE r == Tail(q)
           m == Len(q) - 1
           d == [i \in 0 .. m |-> e[i + 1] - e[1]]
<1>14. /\ m \in Nat /\ r \in Seq(Pdus) /\ Len(r) = m
       /\ \A i \in 1 .. m : r[i] = q[i + 1]
  BY <1>7, <1>8, <1>12, HeadTailProperties
<1>15. \A i \in 0 .. m : d[i] = e[i + 1] - e[1] /\ d[i] \in Nat
  <2>1. ASSUME NEW i \in 0 .. m
        PROVE  e[i + 1] - e[1] \in Nat
    <3>1. i + 1 \in 0 .. Len(q) /\ i + 1 >= 1 /\ 1 \in 0 .. Len(q)
      BY <1>7, <1>8
    <3>2. e[i + 1] >= e[1]
      BY <1>5, <3>1, CutsGrow
    <3>3. QED
      BY <1>7, <3>1, <3>2
  <2>2. QED
    BY <2>1
<1>16. d \in [0 .. m -> Nat]
  BY <1>15
<1> HIDE DEF d, r, m
<1>17. d[0] = 0 /\ d[m] = Len(s)
  <2>1. e[1] \in Nat /\ e[m + 1] = Len(bytes) /\ 0 \in 0 .. m /\ m \in 0 .. m
    BY <1>7, <1>9, <1>14 DEF m
  <2>2. d[0] = e[0 + 1] - e[1] /\ d[m] = e[m + 1] - e[1]
    BY <1>15, <2>1
  <2>3. Len(bytes) = e[1] + Len(s)
    BY <1>1, <1>3, <1>4, <1>13
  <2>4. QED
    BY <1>1, <2>1, <2>2, <2>3
<1>18. ASSUME NEW i \in 1 .. m
       PROVE  d[i] = d[i - 1] + Prefix + Len(r[i]) /\ FrameAt(s, d[i - 1], r[i])
  <2>1. /\ i + 1 \in 1 .. Len(q) /\ i \in 0 .. m /\ i - 1 \in 0 .. m
        /\ (i + 1) - 1 = i /\ (i - 1) + 1 = i /\ i \in 0 .. Len(q) /\ 1 \in 0 .. Len(q)
        /\ i + 1 \in 0 .. Len(q)
    BY <1>7, <1>14 DEF m
  <2>2. /\ e[i + 1] = e[i] + Prefix + Len(q[i + 1]) /\ FrameAt(bytes, e[i], q[i + 1])
    BY <1>5, <2>1 DEF Cuts
  <2>3. r[i] = q[i + 1] /\ r[i] \in Pdus /\ Len(r[i]) \in Nat
    BY <1>14, ElementOfSeq, PduFacts
  <2>4. d[i] = e[i + 1] - e[1] /\ d[i - 1] = e[i] - e[1] /\ d[i - 1] \in Nat
    BY <1>15, <2>1
  <2>5. e[i] \in Nat /\ e[1] \in Nat /\ e[i + 1] \in Nat
    BY <1>7, <2>1
  <2>6. e[i] = Len(head) + d[i - 1]
    BY <1>13, <2>4, <2>5
  <2>7. FrameAt(s, d[i - 1], r[i])
    BY <1>3, <1>6, <2>2, <2>3, <2>4, <2>6, FrameOnRight
  <2>8. e[i + 1] = e[i] + Prefix + Len(r[i])
    BY <2>2, <2>3
  <2>9. e[i + 1] - e[1] = (e[i] - e[1]) + Prefix + Len(r[i])
    <3>1. \A x, y, z \in Nat : (y + 2 + z) - x = (y - x) + 2 + z
      OBVIOUS
    <3>2. (e[i] + 2 + Len(r[i])) - e[1] = (e[i] - e[1]) + 2 + Len(r[i])
      BY <2>3, <2>5, <3>1
    <3>3. QED
      BY <2>8, <3>2, Zenon DEF Prefix
  <2>10. QED
    BY <2>4, <2>7, <2>9
<1>19. Cuts(s, r, d)
  BY <1>14, <1>16, <1>17, <1>18 DEF Cuts
<1>20. QED
  BY <1>12, <1>19 DEF r

-----------------------------------------------------------------------------
(* The state of the line.                                                  *)

FramingInv ==
  /\ out \in Seq(Bytes) /\ line \in Seq(Bytes) /\ buf \in Seq(Bytes)
  /\ inPdu \in BOOLEAN /\ cut \in BOOLEAN /\ need \in Nat
  /\ ~inPdu => need = Prefix
  /\ inPdu => need \div Base \in Bytes
  /\ ~cut => Framed(Stream)

(* The length that has been read, if one has.                              *)
Digits == IF inPdu THEN <<need % Base, need \div Base>> ELSE <<>>

LEMMA DigitsType ==
  ASSUME FramingInv
  PROVE  Digits \in Seq(Bytes) /\ Digits \o buf \in Seq(Bytes) /\ Stream \in Seq(Bytes)
<1>1. Digits \in Seq(Bytes)
  <2>1. CASE inPdu
    <3>1. need % Base \in Bytes /\ need \div Base \in Bytes
      BY <2>1, DigitsOf DEF FramingInv
    <3>2. QED
      BY <2>1, <3>1 DEF Digits
  <2>2. CASE ~inPdu
    BY <2>2 DEF Digits
  <2>3. QED
    BY <2>1, <2>2
<1>2. Digits \o buf \in Seq(Bytes)
  BY <1>1, Together DEF FramingInv
<1>3. (Digits \o buf) \o line \in Seq(Bytes)
  BY <1>2, Together DEF FramingInv
<1>4. ((Digits \o buf) \o line) \o out \in Seq(Bytes)
  BY <1>3, Together DEF FramingInv
<1>5. Stream = ((Digits \o buf) \o line) \o out
  BY DEF Stream, Digits
<1>6. QED
  BY <1>1, <1>2, <1>4, <1>5

(* Bytes that move from the front of one sequence to the end of the one    *)
(* before it.                                                              *)
LEMMA Halves ==
  ASSUME NEW b \in Seq(Bytes), NEW k \in 0 .. Len(b)
  PROVE  \E s, t \in Seq(Bytes) :
           s = SubSeq(b, 1, k) /\ t = SubSeq(b, k + 1, Len(b)) /\ s \o t = b
<1> DEFINE s == SubSeq(b, 1, k)
           t == SubSeq(b, k + 1, Len(b))
<1>1. Len(b) \in Nat /\ \A i \in 1 .. Len(b) : b[i] \in Bytes
  BY ElementOfSeq
<1>2. /\ s \in Seq(Bytes) /\ Len(s) = k
      /\ \A i \in 1 .. k : s[i] = b[i]
  BY <1>1
<1>3. /\ t \in Seq(Bytes) /\ Len(t) = Len(b) - k
      /\ \A i \in 1 .. Len(b) - k : t[i] = b[k + i]
  BY <1>1
<1> HIDE DEF s, t
<1>4. s \o t \in Seq(Bytes) /\ Len(s \o t) = Len(b)
  <2>1. s \o t \in Seq(Bytes) /\ Len(s \o t) = Len(s) + Len(t)
    BY <1>2, <1>3, Together
  <2>2. QED
    BY <1>1, <1>2, <1>3, <2>1
<1>5. ASSUME NEW i \in 1 .. Len(b)
      PROVE  (s \o t)[i] = b[i]
  <2>1. CASE i <= k
    BY <1>1, <1>2, <1>3, <2>1, Together
  <2>2. CASE ~(i <= k)
    <3>1. i - k \in 1 .. Len(b) - k /\ i = k + (i - k)
      BY <1>1, <2>2
    <3>2. (s \o t)[k + (i - k)] = t[i - k]
      BY <1>2, <1>3, <3>1, Together
    <3>3. QED
      BY <1>3, <3>1, <3>2
  <2>3. QED
    BY <2>1, <2>2
<1>6. s \o t = b
  BY <1>4, <1>5, SeqEqual
<1>7. QED
  BY <1>2, <1>3, <1>6 DEF s, t

Joined(x, l, r) == (x \o l) \o r

LEMMA Moved ==
  ASSUME NEW x \in Seq(Bytes), NEW l \in Seq(Bytes), NEW s \in Seq(Bytes), NEW t \in Seq(Bytes)
  PROVE  Joined(x, l \o s, t) = Joined(x, l, s \o t)
<1>1. l \o s \in Seq(Bytes) /\ x \o l \in Seq(Bytes)
  BY Together
<1>2. x \o (l \o s) = (x \o l) \o s
  BY Associative
<1>3. ((x \o l) \o s) \o t = (x \o l) \o (s \o t)
  BY <1>1, Associative
<1>4. QED
  BY <1>2, <1>3 DEF Joined

(* A reader at the start of a PDU.                                         *)
LEMMA BetweenPdus ==
  ASSUME out' \in Seq(Bytes), line' \in Seq(Bytes), buf' = <<>>, inPdu' = FALSE, need' = Prefix,
         cut' \in BOOLEAN, ~cut' => Framed(Stream)'
  PROVE  FramingInv'
<1>1. <<>> \in Seq(Bytes) /\ Prefix \in Nat
  BY DEF Prefix
<1>2. QED
  BY <1>1, Zenon DEF FramingInv

(* What a FIFO without its PDUs is told apart by.                          *)
LEMMA QueueIs ==
  ASSUME FramingInv, ~cut
  PROVE  \E e : Cuts(Stream, Queue, e)
<1>1. PICK q, e : Cuts(Stream, q, e)
  BY DEF FramingInv, Framed
<1>2. Parse(Stream) = q
  BY <1>1, DigitsType, ParseFramed
<1>3. QED
  BY <1>1, <1>2 DEF Queue

(* Nothing is seen of a step that leaves the stream as it is.              *)
LEMMA SameStream ==
  ASSUME FramingInv, Stream' = Stream, UNCHANGED <<got, cut>>
  PROVE  UNCHANGED Fifo!vars /\ (~cut' => Framed(Stream)')
<1>1. Queue' = Queue
  BY DEF Queue
<1>2. ~cut' => Framed(Stream')
  BY DEF FramingInv
<1>3. Framed(Stream)' <=> Framed(Stream')
  OBVIOUS
<1>4. QED
  BY <1>1, <1>2, <1>3 DEF Fifo!vars

-----------------------------------------------------------------------------
(* Steps inside a send() or a recv().                                      *)

LEMMA InitStep ==
  ASSUME Init
  PROVE  FramingInv /\ Fifo!Init
<1>1. Stream = <<>>
  BY DEF Init, Stream
<1>2. Cuts(Stream, <<>>, [i \in 0 .. 0 |-> 0])
  BY <1>1, NoFrames
<1>3. FramingInv
  BY <1>2 DEF Init, FramingInv, Framed, Prefix
<1>4. Parse(Stream) = <<>>
  BY <1>2, <1>3, DigitsType, ParseFramed
<1>5. QED
  BY <1>3, <1>4 DEF Init, Queue, Fifo!Init

LEMMA SendRestStep ==
  ASSUME FramingInv, SendRest
  PROVE  FramingInv' /\ UNCHANGED Fifo!vars
<1>1. PICK k \in 1 .. Len(out) :
        line' = line \o SubSeq(out, 1, k) /\ out' = SubSeq(out, k + 1, Len(out))
  BY DEF SendRest, Write
<1>2. UNCHANGED <<need, buf, inPdu, got, cut>>
  BY DEF SendRest, reader
<1>3. k \in 0 .. Len(out)
  BY <1>1 DEF FramingInv
<1>4. /\ line' \in Seq(Bytes) /\ out' \in Seq(Bytes)
      /\ Joined(Digits \o buf, line', out') = Joined(Digits \o buf, line, out)
  <2>1. line \in Seq(Bytes) /\ out \in Seq(Bytes) /\ Digits \o buf \in Seq(Bytes)
    BY DigitsType DEF FramingInv
  <2>2. PICK s, t \in Seq(Bytes) : line' = line \o s /\ out' = t /\ s \o t = out
    BY <1>1, <1>3, <2>1, Halves
  <2>3. line \o s \in Seq(Bytes)
    BY <2>1, Together
  <2>4. Joined(Digits \o buf, line \o s, t) = Joined(Digits \o buf, line, s \o t)
    <3> DEFINE x == Digits \o buf
    <3>1. x \in Seq(Bytes) /\ line \in Seq(Bytes)
      BY <2>1
    <3> HIDE DEF x
    <3>2. Joined(x, line \o s, t) = Joined(x, line, s \o t)
      BY <3>1, Moved
    <3>3. QED
      BY <3>2 DEF x
  <2>5. QED
    BY <2>2, <2>3, <2>4
<1>5. Stream' = Stream
  BY <1>2, <1>4 DEF Stream, Digits, Joined
<1>6. QED
  BY <1>2, <1>4, <1>5, SameStream DEF FramingInv

LEMMA ReadSomeStep ==
  ASSUME FramingInv, ReadSome
  PROVE  FramingInv' /\ UNCHANGED Fifo!vars
<1>1. PICK k \in 1 .. Len(line) :
        buf' = buf \o SubSeq(line, 1, k) /\ line' = SubSeq(line, k + 1, Len(line))
  BY DEF ReadSome
<1>2. UNCHANGED <<out, need, inPdu, got, cut>>
  BY DEF ReadSome
<1>3. k \in 0 .. Len(line)
  BY <1>1 DEF FramingInv
<1>4. /\ buf' \in Seq(Bytes) /\ line' \in Seq(Bytes)
      /\ Joined(Digits, buf', line') = Joined(Digits, buf, line)
  <2>1. line \in Seq(Bytes) /\ buf \in Seq(Bytes) /\ Digits \in Seq(Bytes)
    BY DigitsType DEF FramingInv
  <2>2. PICK s, t \in Seq(Bytes) : buf' = buf \o s /\ line' = t /\ s \o t = line
    BY <1>1, <1>3, <2>1, Halves
  <2>3. buf \o s \in Seq(Bytes)
    BY <2>1, Together
  <2>4. Joined(Digits, buf \o s, t) = Joined(Digits, buf, s \o t)
    BY <2>1, Moved
  <2>5. QED
    BY <2>2, <2>3, <2>4
<1>5. Stream' = Stream
  BY <1>2, <1>4 DEF Stream, Digits, Joined
<1>6. QED
  BY <1>2, <1>4, <1>5, SameStream DEF FramingInv

(* The two digits of a length that has been read are the bytes read.       *)
LEMMA ReadLengthStep ==
  ASSUME FramingInv, ReadLength
  PROVE  FramingInv' /\ UNCHANGED Fifo!vars
<1>1. /\ ~inPdu /\ Len(buf) = 2 /\ buf \in Seq(Bytes)
      /\ inPdu' = TRUE /\ need' = buf[1] + Base * buf[2] /\ buf' = <<>>
      /\ UNCHANGED <<out, line, got, cut>>
  BY DEF FramingInv, ReadLength, Enough, Decoded, Prefix
<1>2. buf[1] \in Bytes /\ buf[2] \in Bytes /\ buf[2] \in Nat
  <2>1. buf[1] \in Bytes /\ buf[2] \in Bytes
    BY <1>1
  <2>2. QED
    BY <2>1 DEF Bytes
<1>3. need' \in Nat /\ need' % Base = buf[1] /\ need' \div Base = buf[2]
  BY <1>1, <1>2, DigitsTo
<1>4. <<buf[1], buf[2]>> = buf
  BY <1>1, <1>2
<1>5. Digits' \o buf' = Digits \o buf
  <2>1. Digits' = buf
    BY <1>1, <1>3, <1>4 DEF Digits
  <2>2. Digits = <<>>
    BY <1>1 DEF Digits
  <2>3. buf \o <<>> = buf /\ <<>> \o buf = buf
    BY <1>1, ConcatEmptySeq
  <2>4. QED
    BY <1>1, <2>1, <2>2, <2>3
<1>6. Stream' = Stream
  BY <1>1, <1>5 DEF Stream, Digits
<1>7. QED
  BY <1>1, <1>2, <1>3, <1>6, SameStream DEF FramingInv

-----------------------------------------------------------------------------
(* Steps that are seen.                                                    *)

LEMMA SendStep ==
  ASSUME FramingInv, Send
  PROVE  FramingInv' /\ [Fifo!Next]_(Fifo!vars)
<1>1. PICK p \in Pdus : \E k \in 1 .. Len(Frame(p)) : Write(Frame(p), k)
  BY DEF Send
<1>2. PICK k \in 1 .. Len(Frame(p)) :
        line' = line \o SubSeq(Frame(p), 1, k) /\ out' = SubSeq(Frame(p), k + 1, Len(Frame(p)))
  BY <1>1 DEF Write
<1>3. out = <<>> /\ UNCHANGED <<need, buf, inPdu, got, cut>>
  BY DEF Send, reader
<1>4. Frame(p) \in Seq(Bytes) /\ k \in 0 .. Len(Frame(p))
  BY <1>2, FrameFacts
<1>5. /\ line' \in Seq(Bytes) /\ out' \in Seq(Bytes)
      /\ Joined(Digits \o buf, line', out') = Joined(Digits \o buf, line, Frame(p))
  <2>1. line \in Seq(Bytes) /\ Digits \o buf \in Seq(Bytes)
    BY DigitsType DEF FramingInv
  <2>2. PICK s, t \in Seq(Bytes) : line' = line \o s /\ out' = t /\ s \o t = Frame(p)
    BY <1>2, <1>4, Halves
  <2>3. line \o s \in Seq(Bytes)
    BY <2>1, Together
  <2>4. Joined(Digits \o buf, line \o s, t) = Joined(Digits \o buf, line, s \o t)
    <3> DEFINE x == Digits \o buf
    <3>1. x \in Seq(Bytes) /\ line \in Seq(Bytes)
      BY <2>1
    <3> HIDE DEF x
    <3>2. Joined(x, line \o s, t) = Joined(x, line, s \o t)
      BY <3>1, Moved
    <3>3. QED
      BY <3>2 DEF x
  <2>5. QED
    BY <2>2, <2>3, <2>4
<1>6. Stream' = Stream \o Frame(p)
  <2>1. (Digits \o buf) \o line \in Seq(Bytes)
    BY DigitsType, Together DEF FramingInv
  <2>2. ((Digits \o buf) \o line) \o <<>> = (Digits \o buf) \o line
    BY <2>1, ConcatEmptySeq
  <2>3. Stream = (Digits \o buf) \o line
    BY <1>3, <2>2 DEF Stream, Digits
  <2>4. QED
    BY <1>3, <1>5, <2>3 DEF Stream, Digits, Joined
<1>7. CASE cut
  BY <1>3, <1>5, <1>7 DEF FramingInv, Queue, Fifo!Next, Fifo!Garbled
<1>8. CASE ~cut
  <2>1. PICK e : Cuts(Stream, Queue, e)
    BY <1>8, QueueIs
  <2>2. Stream \in Seq(Bytes)
    BY DigitsType
  <2>3. PICK d : Cuts(Stream \o Frame(p), Append(Queue, p), d)
    BY <2>1, <2>2, OneFrameMore
  <2>4. Cuts(Stream', Append(Queue, p), d)
    BY <1>6, <2>3
  <2>5. FramingInv'
    <3>1. Framed(Stream)'
      BY <2>4 DEF Framed
    <3>2. QED
      BY <1>3, <1>5, <3>1 DEF FramingInv
  <2>6. Parse(Stream') = Append(Queue, p)
    <3>1. Stream' \in Seq(Bytes)
      BY <1>4, <1>6, <2>2, Together
    <3>2. QED
      BY <2>4, <3>1, ParseFramed
  <2>7. Queue' = Append(Queue, p)
    BY <1>3, <1>8, <2>6 DEF Queue
  <2>8. Fifo!Send
    BY <1>3, <1>8, <2>7 DEF Fifo!Send
  <2>9. QED
    BY <2>5, <2>8 DEF Fifo!Next
<1>9. QED
  BY <1>7, <1>8

LEMMA RecvStep ==
  ASSUME FramingInv, Recv
  PROVE  FramingInv' /\ [Fifo!Next]_(Fifo!vars)
<1>1. /\ inPdu /\ Len(buf) = need /\ buf \in Seq(Bytes)
      /\ got' = buf /\ ~inPdu' /\ need' = Prefix /\ buf' = <<>>
      /\ UNCHANGED <<out, line, cut>>
      /\ need \div Base \in Bytes
  BY DEF FramingInv, Recv, Enough
<1>2. line \in Seq(Bytes) /\ out \in Seq(Bytes) /\ line \o out \in Seq(Bytes)
  BY Together DEF FramingInv
<1>3. Stream' = line \o out
  <2>1. <<>> \o <<>> = <<>> /\ <<>> \o line = line
    BY <1>2, ConcatEmptySeq
  <2>2. QED
    BY <1>1, <2>1 DEF Stream
<1>4. inPdu' = FALSE
  BY DEF Recv
<1>5. CASE cut
  <2>1. FramingInv'
    BY <1>1, <1>2, <1>4, <1>5, BetweenPdus
  <2>2. Fifo!Garbled
    BY <1>1, <1>5 DEF Queue, Fifo!Garbled
  <2>3. QED
    BY <2>1, <2>2 DEF Fifo!Next
<1>6. CASE ~cut
  <2>1. PICK e : Cuts(Stream, Queue, e)
    BY <1>6, QueueIs
  <2>2. Stream = (<<Len(buf) % Base, Len(buf) \div Base>> \o buf) \o (line \o out)
    <3>1. Digits = <<Len(buf) % Base, Len(buf) \div Base>>
      BY <1>1 DEF Digits
    <3>2. Stream = ((Digits \o buf) \o line) \o out
      BY DEF Stream, Digits
    <3>3. ((Digits \o buf) \o line) \o out = (Digits \o buf) \o (line \o out)
      BY <1>2, DigitsType, Associative
    <3>4. QED
      BY <3>1, <3>2, <3>3
  <2>3. Cuts((<<Len(buf) % Base, Len(buf) \div Base>> \o buf) \o (line \o out), Queue, e)
    BY <2>1, <2>2
  <2>4. Len(buf) \div Base \in Bytes
    BY <1>1
  <2>5. Queue # <<>> /\ Head(Queue) = buf /\ \E d : Cuts(line \o out, Tail(Queue), d)
    BY <1>1, <1>2, <2>3, <2>4, OneFrameLess
  <2>6. PICK d : Cuts(Stream', Tail(Queue), d)
    BY <1>3, <2>5
  <2>7. FramingInv'
    <3>1. Framed(Stream)'
      BY <2>6 DEF Framed
    <3>2. cut' \in BOOLEAN
      BY <1>1 DEF FramingInv
    <3>3. out' \in Seq(Bytes) /\ line' \in Seq(Bytes)
      BY <1>1, <1>2
    <3>4. QED
      BY <1>1, <1>4, <3>1, <3>2, <3>3, BetweenPdus
  <2>8. Parse(Stream') = Tail(Queue)
    BY <1>2, <1>3, <2>6, ParseFramed
  <2>9. Queue' = Tail(Queue)
    BY <1>1, <1>6, <2>8 DEF Queue
  <2>10. Fifo!Recv
    BY <1>1, <1>6, <2>5, <2>9 DEF Fifo!Recv
  <2>11. QED
    BY <2>7, <2>10 DEF Fifo!Next
<1>7. QED
  BY <1>5, <1>6

(* A process that is stopped breaks the FIFO if it was inside a PDU, and   *)
(* only then.                                                              *)
LEMMA Stopped ==
  ASSUME FramingInv, cut' = TRUE, got' = got
  PROVE  [Fifo!Next]_(Fifo!vars)
<1>1. Queue' = <<>>
  BY DEF Queue
<1>2. CASE cut
  BY <1>1, <1>2 DEF Queue, Fifo!Next, Fifo!Garbled
<1>3. CASE ~cut
  BY <1>1, <1>3 DEF Fifo!Next, Fifo!Break
<1>4. QED
  BY <1>2, <1>3

LEMMA KillWriterStep ==
  ASSUME FramingInv, KillWriter
  PROVE  FramingInv' /\ [Fifo!Next]_(Fifo!vars)
<1>1. /\ out' = <<>> /\ UNCHANGED <<line, need, buf, inPdu, got>>
      /\ cut' = (cut \/ out # <<>>)
  BY DEF KillWriter, reader
<1>2. CASE cut \/ out # <<>>
  <2>1. cut' = TRUE
    BY <1>1, <1>2
  <2>2. FramingInv'
    <3>1. <<>> \in Seq(Bytes)
      OBVIOUS
    <3>2. QED
      BY <1>1, <2>1, <3>1 DEF FramingInv
  <2>3. QED
    BY <1>1, <2>1, <2>2, Stopped
<1>3. CASE ~cut /\ out = <<>>
  <2>1. Stream' = Stream /\ UNCHANGED <<out, got, cut>>
    BY <1>1, <1>3 DEF Stream, FramingInv
  <2>2. QED
    BY <1>1, <2>1, SameStream DEF FramingInv
<1>4. QED
  BY <1>2, <1>3

LEMMA KillReaderStep ==
  ASSUME FramingInv, KillReader
  PROVE  FramingInv' /\ [Fifo!Next]_(Fifo!vars)
<1>1. /\ need' = Prefix /\ buf' = <<>> /\ inPdu' = FALSE
      /\ UNCHANGED <<out, line, got>>
      /\ cut' = (cut \/ ~(~inPdu /\ buf = <<>>))
  BY DEF KillReader, Fresh, AtStart
<1>2. CASE cut \/ ~(~inPdu /\ buf = <<>>)
  <2>1. cut' = TRUE
    BY <1>1, <1>2
  <2>2. QED
    <3>1. out' \in Seq(Bytes) /\ line' \in Seq(Bytes)
      BY <1>1 DEF FramingInv
    <3>2. QED
      BY <1>1, <2>1, <3>1, Stopped, BetweenPdus
<1>3. CASE ~cut /\ ~inPdu /\ buf = <<>>
  <2>1. UNCHANGED <<out, line, need, buf, inPdu, got, cut>>
    BY <1>1, <1>3 DEF FramingInv
  <2>2. Stream' = Stream
    BY <2>1 DEF Stream
  <2>3. QED
    BY <2>1, <2>2, SameStream DEF FramingInv
<1>4. QED
  BY <1>2, <1>3

LEMMA SetUpStep ==
  ASSUME FramingInv, SetUp
  PROVE  FramingInv' /\ [Fifo!Next]_(Fifo!vars)
<1>1. /\ out' = <<>> /\ line' = <<>> /\ need' = Prefix /\ buf' = <<>> /\ inPdu' = FALSE
      /\ cut' = FALSE /\ got' = got
  BY DEF SetUp, Fresh
<1>2. Stream' = <<>>
  BY <1>1 DEF Stream
<1>3. Cuts(Stream', <<>>, [i \in 0 .. 0 |-> 0])
  BY <1>2, NoFrames
<1>4. FramingInv'
  <2>1. Framed(Stream)'
    BY <1>3 DEF Framed
  <2>2. QED
    BY <1>1, <2>1, BetweenPdus, <<>> \in Seq(Bytes)
<1>5. Parse(Stream') = <<>>
  BY <1>2, <1>3, ParseFramed
<1>6. Queue' = <<>>
  BY <1>1, <1>5 DEF Queue
<1>7. QED
  BY <1>1, <1>4, <1>6 DEF Fifo!Next, Fifo!SetUp

LEMMA Unseen ==
  ASSUME FramingInv, UNCHANGED vars
  PROVE  FramingInv' /\ [Fifo!Next]_(Fifo!vars)
<1>1. UNCHANGED <<out, line, need, buf, inPdu, got, cut>>
  BY DEF vars, reader
<1>2. Stream' = Stream
  BY <1>1 DEF Stream
<1>3. QED
  BY <1>1, <1>2, SameStream DEF FramingInv

(* However the kernel cuts up what is written and what is read, recv() of  *)
(* UartTransport.cpp and of sender.py returns the PDUs that send() was     *)
(* given, whole and in order, until a process is stopped in the middle of  *)
(* one.                                                                    *)
THEOREM FramingImplementsFifo == Spec => ImplementsFifo
<1>1. Init => FramingInv /\ Fifo!Init
  BY InitStep
<1>2. FramingInv /\ [Next]_vars => FramingInv' /\ [Fifo!Next]_(Fifo!vars)
  <2>1. SUFFICES ASSUME FramingInv, [Next]_vars
                 PROVE  FramingInv' /\ [Fifo!Next]_(Fifo!vars)
    OBVIOUS
  <2>2. CASE Send
    BY <2>1, <2>2, SendStep
  <2>3. CASE SendRest
    BY <2>1, <2>3, SendRestStep
  <2>4. CASE ReadSome
    BY <2>1, <2>4, ReadSomeStep
  <2>5. CASE ReadLength
    BY <2>1, <2>5, ReadLengthStep
  <2>6. CASE Recv
    BY <2>1, <2>6, RecvStep
  <2>7. CASE KillWriter
    BY <2>1, <2>7, KillWriterStep
  <2>8. CASE KillReader
    BY <2>1, <2>8, KillReaderStep
  <2>9. CASE SetUp
    BY <2>1, <2>9, SetUpStep
  <2>10. CASE UNCHANGED vars
    BY <2>1, <2>10, Unseen
  <2>11. QED
    BY <2>1, <2>2, <2>3, <2>4, <2>5, <2>6, <2>7, <2>8, <2>9, <2>10 DEF Next
<1>3. QED
  BY <1>1, <1>2, PTL DEF Spec, ImplementsFifo, Fifo!Spec
=============================================================================

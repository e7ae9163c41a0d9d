----------------------------- MODULE ScanProofs -----------------------------
(***************************************************************************)
(* Theorems about RangeScan, for lists of every length and every payload:  *)
(* the counter of a PacketList is exact, is_complete() means what it says, *)
(* and the range loops of CfdpReceiver.cpp return the maximal runs.        *)
(*                                                                         *)
(* Whether something holds after every iteration of a loop is shown by a   *)
(* first counterexample: SmallestOf gives the least number of iterations   *)
(* after which it does not, and one more iteration of the loop before that *)
(* is a contradiction.                                                     *)
(***************************************************************************)
EXTENDS RangeScan, PacketListProofs

-----------------------------------------------------------------------------
(* The list.                                                               *)

(* What arrived last in a slot is what the slot holds.                     *)
Latest ==
  /\ DOMAIN arrived \subseteq 0 .. list.total - 1
  /\ \A i \in 0 .. list.total - 1 : list.node[i].received <=> i \in DOMAIN arrived
  /\ \A i \in DOMAIN arrived : arrived[i] = <<list.node[i].data, list.node[i].valid>>

ListInv ==
  /\ IsList(list, Payload)
  /\ list.total <= MaxTotal
  /\ Counted(list)
  /\ Latest

(* An insert replaces what the slot held, and what arrived last in it.     *)
LEMMA ArriveKeepsLatest ==
  ASSUME ListInv,
         NEW i \in Nat, NEW data \in Payload, NEW ok \in BOOLEAN, Arrive(i, data, ok)
  PROVE  Latest' /\ list'.total = list.total
<1>1. CASE i >= list.total
  <2>1. list' = list /\ arrived' = arrived
    <3>1. ~(i < list.total)
      BY <1>1 DEF ListInv, IsList
    <3>2. QED
      BY <1>1, <3>1 DEF Arrive, Insert
  <2>2. QED
    BY <2>1 DEF ListInv, Latest
<1>2. CASE i < list.total
  <2> DEFINE slot == [received |-> TRUE, valid |-> ok, data |-> data]
  <2>1. /\ list.total \in Nat
        /\ DOMAIN list.node = 0 .. list.total - 1
        /\ i \in 0 .. list.total - 1
    BY <1>2 DEF ListInv, IsList
  <2>2. /\ list'.total = list.total
        /\ list'.node = [list.node EXCEPT ![i] = slot]
    <3>1. ~(i >= list.total)
      BY <1>2, <2>1
    <3>2. QED
      BY <3>1 DEF Arrive, Insert
  <2>3. arrived' = [k \in DOMAIN arrived \cup {i} |->
                      IF k = i THEN <<data, ok>> ELSE arrived[k]]
    BY <1>2 DEF Arrive
  <2>4. list'.node[i] = slot /\ \A k \in 0 .. list.total - 1 : k # i => list'.node[k] = list.node[k]
    BY <2>1, <2>2
  <2>5. \A k \in 0 .. list.total - 1 : list'.node[k].received <=> k \in DOMAIN arrived'
    <3>1. list'.node[i].received = TRUE /\ DOMAIN arrived' = DOMAIN arrived \cup {i}
      BY <2>3, <2>4
    <3>2. QED
      BY <2>1, <2>4, <3>1 DEF ListInv, Latest
  <2>6. \A k \in DOMAIN arrived' : arrived'[k] = <<list'.node[k].data, list'.node[k].valid>>
    <3>1. list'.node[i].data = data /\ list'.node[i].valid = ok /\ arrived'[i] = <<data, ok>>
      BY <2>3, <2>4
    <3>2. ASSUME NEW k \in DOMAIN arrived, k # i
          PROVE  arrived'[k] = arrived[k] /\ list'.node[k] = list.node[k]
      BY <2>1, <2>3, <2>4, <3>2 DEF ListInv, Latest
    <3>3. QED
      BY <2>3, <3>1, <3>2 DEF ListInv, Latest
  <2>7. DOMAIN arrived' \subseteq 0 .. list.total - 1
    BY <2>1, <2>3 DEF ListInv, Latest
  <2>8. QED
    BY <2>2, <2>5, <2>6, <2>7 DEF Latest
<1>3. QED
  BY <1>1, <1>2 DEF ListInv, IsList

(* ListInv is inductive.                                                   *)
LEMMA ListInvariance == Spec => []ListInv
<1>1. Init => ListInv
  <2> SUFFICES ASSUME NEW n \in 0 .. MaxTotal, list = InitList(n), arrived = <<>>
               PROVE  ListInv
    BY DEF Init
  <2>1. n \in Nat /\ n <= MaxTotal
    BY MaxTotalAssumption
  <2>2. IsList(list, Payload) /\ list.total = n /\ Counted(list)
    BY <2>1, InitListFacts
  <2>3. \A i \in 0 .. n - 1 : ~list.node[i].received
    BY DEF InitList, EmptyNode
  <2>4. DOMAIN arrived = {}
    OBVIOUS
  <2>5. QED
    BY <2>1, <2>2, <2>3, <2>4 DEF ListInv, Latest
<1>2. ListInv /\ [Next]_vars => ListInv'
  <2>1. ASSUME ListInv, UNCHANGED vars
        PROVE  ListInv'
    BY <2>1 DEF ListInv, Latest, vars
  <2>2. ASSUME ListInv,
               NEW i \in 0 .. MaxTotal, NEW data \in Payload, NEW ok \in BOOLEAN,
               Arrive(i, data, ok)
        PROVE  ListInv'
    <3>1. i \in Nat
      BY MaxTotalAssumption
    <3>2. Latest' /\ list'.total = list.total
      BY <2>2, <3>1, ArriveKeepsLatest
    <3>3. IsList(list, Payload) /\ Counted(list) /\ list' = Insert(list, i, data, ok)
      BY <2>2 DEF ListInv, Arrive
    <3>4. Counted(list')
      BY <3>1, <3>3, InsertCounts
    <3>5. IsList(list', Payload)
      <4>1. list.total \in Nat
        BY <3>3 DEF IsList
      <4>2. CASE i >= list.total
        BY <3>3, <4>2 DEF Insert
      <4>3. CASE i < list.total
        BY <3>1, <3>3, <4>3, InsertFacts
      <4>4. QED
        BY <3>1, <4>1, <4>2, <4>3
    <3>6. QED
      BY <2>2, <3>2, <3>4, <3>5 DEF ListInv
  <2>3. QED
    BY <2>1, <2>2 DEF Next
<1>3. QED
  BY <1>1, <1>2, PTL DEF Spec

(* The list keeps its type: valid_count_ never leaves 0 .. total_packets_  *)
(* (PacketList.cpp:60-72).                                                 *)
THEOREM TypeCorrect == Spec => []TypeOK
<1>1. ListInv => TypeOK
  <2> SUFFICES ASSUME ListInv PROVE list.valid \in 0 .. list.total
    BY DEF ListInv, Latest, TypeOK
  <2>1. list.total \in Nat /\ list.valid = Cardinality(ValidSlots(list))
    BY DEF ListInv, IsList, Counted
  <2>2. /\ IsFiniteSet(0 .. list.total - 1)
        /\ Cardinality(0 .. list.total - 1) = list.total
        /\ ValidSlots(list) \subseteq 0 .. list.total - 1
        /\ IsFiniteSet(ValidSlots(list))
    BY <2>1, ValidSlotsFinite
  <2>3. Cardinality(ValidSlots(list)) <= list.total /\ Cardinality(ValidSlots(list)) \in Nat
    BY <2>2, FS_Subset, FS_CardinalityType
  <2>4. QED
    BY <2>1, <2>3
<1>2. QED
  BY <1>1, ListInvariance, PTL

(* valid_count_ is exact after every sequence of inserts, with duplicates, *)
(* corrupt duplicates and indices out of range among them.                 *)
THEOREM CounterExact == Spec => []CountAccurate
<1>1. ListInv => CountAccurate
  BY DEF ListInv, CountAccurate
<1>2. QED
  BY <1>1, ListInvariance, PTL

(* is_complete() holds exactly when the last packet to arrive in every     *)
(* slot was intact, and assemble() then returns those packets.             *)
THEOREM CompletionExact == Spec => []CompleteIsLatest
<1>1. ListInv => CompleteIsLatest
  <2> SUFFICES ASSUME ListInv PROVE CompleteIsLatest
    OBVIOUS
  <2>1. list.total \in Nat
    BY DEF ListInv, IsList
  <2>2. IsComplete(list) <=> list.total > 0 /\ ValidSlots(list) = 0 .. list.total - 1
    BY <2>1, CompleteMeansAllValid DEF ListInv
  <2>3. \A i \in 0 .. list.total - 1 :
          i \in ValidSlots(list) <=> i \in DOMAIN arrived /\ list.node[i].valid
    BY DEF ListInv, Latest, ValidSlots
  <2>4. \A i \in DOMAIN arrived :
          /\ i \in 0 .. list.total - 1
          /\ Assemble(list)[i] = list.node[i].data
          /\ arrived[i] = <<Assemble(list)[i], list.node[i].valid>>
    BY DEF ListInv, Latest, Assemble
  <2>5. \A i \in DOMAIN arrived : list.node[i].valid \in BOOLEAN
    BY <2>4 DEF ListInv, IsList
  <2>6. \A i \in DOMAIN arrived :
          arrived[i] = <<Assemble(list)[i], TRUE>> <=> list.node[i].valid
    <3>1. \A d, v : <<d, v>> = <<d, TRUE>> <=> v = TRUE
      OBVIOUS
    <3>2. \A i \in DOMAIN arrived :
            arrived[i] = <<Assemble(list)[i], TRUE>> <=> list.node[i].valid = TRUE
      BY <2>4, <3>1
    <3>3. QED
      BY <2>5, <3>2, Zenon
  <2>7. ValidSlots(list) = 0 .. list.total - 1 <=>
          /\ DOMAIN arrived = 0 .. list.total - 1
          /\ \A i \in DOMAIN arrived : list.node[i].valid
    BY <2>3, <2>4 DEF ValidSlots
  <2> QED
    BY <2>2, <2>6, <2>7 DEF CompleteIsLatest
<1>2. QED
  BY <1>1, ListInvariance, PTL

-----------------------------------------------------------------------------
(* The scan.                                                               *)

Start == [ranges |-> <<>>, start |-> -1]

(* What the loop has after each of n iterations.                           *)
IsLoop(M, n, acc) ==
  /\ acc[0] = Start
  /\ \A k \in 1 .. n : acc[k] = ScanStep(M, acc[k - 1], k - 1)

(* The loop runs: one iteration more can always be made.                   *)
LEMMA LoopExists ==
  ASSUME NEW M, NEW n \in Nat
  PROVE  \E acc : acc = [k \in 0 .. n |-> acc[k]] /\ IsLoop(M, n, acc)
<1> DEFINE Runs(m) == \E acc : acc = [k \in 0 .. m |-> acc[k]] /\ IsLoop(M, m, acc)
           Stuck == {m \in Nat : ~Runs(m)}
<1>1. SUFFICES ASSUME Stuck # {} PROVE FALSE
  OBVIOUS
<1>2. PICK m \in Stuck : \A k \in Stuck : m <= k
  <2> HIDE DEF Stuck
  <2>1. Stuck \in SUBSET Nat
    BY DEF Stuck
  <2>2. QED
    BY <1>1, <2>1, SmallestOf
<1>3. m \in Nat /\ ~Runs(m)
  OBVIOUS
<1>4. CASE m = 0
  <2> DEFINE acc == [k \in 0 .. 0 |-> Start]
  <2>1. acc = [k \in 0 .. 0 |-> acc[k]] /\ IsLoop(M, 0, acc)
    BY DEF IsLoop
  <2>2. QED
    BY <1>3, <1>4, <2>1
<1>5. CASE m # 0
  <2>1. m - 1 \in Nat /\ m - 1 \notin Stuck
    BY <1>2, <1>3, <1>5
  <2>2. PICK f : f = [k \in 0 .. m - 1 |-> f[k]] /\ IsLoop(M, m - 1, f)
    BY <2>1
  <2> DEFINE acc == [k \in 0 .. m |-> IF k = m THEN ScanStep(M, f[m - 1], m - 1) ELSE f[k]]
  <2>3. acc = [k \in 0 .. m |-> acc[k]]
    OBVIOUS
  <2>4. acc[m] = ScanStep(M, f[m - 1], m - 1) /\ \A k \in 0 .. m - 1 : acc[k] = f[k]
    BY <1>3
  <2> HIDE DEF acc
  <2>5. acc[0] = Start
    BY <1>3, <1>5, <2>2, <2>4, 0 \in 0 .. m - 1 DEF IsLoop
  <2>6. ASSUME NEW k \in 1 .. m PROVE acc[k] = ScanStep(M, acc[k - 1], k - 1)
    <3>1. k - 1 \in 0 .. m - 1 /\ acc[k - 1] = f[k - 1]
      BY <1>3, <2>4
    <3>2. CASE k = m
      BY <2>4, <3>1, <3>2
    <3>3. CASE k # m
      <4>1. k \in 1 .. m - 1
        BY <1>3, <3>3
      <4>2. f[k] = ScanStep(M, f[k - 1], k - 1)
        BY <2>2, <4>1 DEF IsLoop
      <4>3. acc[k] = f[k]
        BY <2>4, <4>1
      <4>4. QED
        BY <3>1, <4>2, <4>3
    <3>4. QED
      BY <3>2, <3>3
  <2>7. QED
    BY <1>3, <2>3, <2>5, <2>6 DEF IsLoop
<1>6. QED
  BY <1>4, <1>5

(* So what Scanned returns is what some such loop has.                     *)
LEMMA ScannedIsLoop ==
  ASSUME NEW M, NEW n \in Nat
  PROVE  \E acc : IsLoop(M, n, acc) /\ Scanned(M, n) = acc[n]
<1> DEFINE Solves(f) == f = [k \in 0 .. n |-> IF k = 0 THEN [ranges |-> <<>>, start |-> -1]
                                              ELSE ScanStep(M, f[k - 1], k - 1)]
           acc == CHOOSE f : Solves(f)
<1>1. PICK f : f = [k \in 0 .. n |-> f[k]] /\ IsLoop(M, n, f)
  BY LoopExists
<1>2. Solves(f)
  <2>1. \A k \in 0 .. n :
          f[k] = IF k = 0 THEN [ranges |-> <<>>, start |-> -1]
                 ELSE ScanStep(M, f[k - 1], k - 1)
    BY <1>1 DEF IsLoop, Start
  <2>2. QED
    BY <1>1, <2>1
<1>3. Solves(acc)
  BY <1>2
<1>4. Scanned(M, n) = acc[n]
  BY DEF Scanned
<1> HIDE DEF acc
<1>5. IsLoop(M, n, acc)
  BY <1>3 DEF IsLoop, Start
<1>6. QED
  BY <1>4, <1>5

(* What holds after k iterations: the ranges are the runs that have ended, *)
(* and the open range is the beginning of one.                             *)
RunsBefore(M, k, acc) ==
  /\ acc = [ranges |-> acc.ranges, start |-> acc.start]
  /\ acc.start \in -1 .. k - 1
  /\ acc.start = -1 => k - 1 \notin M
  /\ acc.start # -1 => acc.start .. k - 1 \subseteq M /\ acc.start - 1 \notin M
  /\ acc.ranges \in Seq(MaximalRanges(M))
  /\ \A r \in MaximalRanges(M) :
       r.last + 1 < k <=> \E j \in 1 .. Len(acc.ranges) : acc.ranges[j] = r
  /\ \A j \in 1 .. Len(acc.ranges) - 1 : acc.ranges[j].last + 1 < acc.ranges[j + 1].first

(* The members of a set of runs.                                           *)
LEMMA RunFacts ==
  ASSUME NEW M \in SUBSET Nat, NEW r \in MaximalRanges(M)
  PROVE  /\ r.first \in M /\ r.last \in M /\ r.first <= r.last
         /\ r.first .. r.last \subseteq M
         /\ r.first - 1 \notin M /\ r.last + 1 \notin M
         /\ r = [first |-> r.first, last |-> r.last]
BY DEF MaximalRanges

(* One iteration.                                                          *)
LEMMA ScanStepRuns ==
  ASSUME NEW M \in SUBSET Nat, NEW k \in Nat, NEW acc, RunsBefore(M, k, acc)
  PROVE  RunsBefore(M, k + 1, ScanStep(M, acc, k))
<1> DEFINE new == ScanStep(M, acc, k)
           Runs == MaximalRanges(M)
<1>1. acc.start \in Int
  BY DEF RunsBefore
<1>2. \A r \in Runs : r.first \in Nat /\ r.last \in Nat
  BY RunFacts
<1>3. CASE k \in M /\ acc.start = -1
  <2>1. new = [ranges |-> acc.ranges, start |-> k]
    <3>1. new = [acc EXCEPT !.start = k]
      BY <1>3 DEF ScanStep
    <3> HIDE DEF new
    <3>2. QED
      BY <3>1 DEF RunsBefore
  <2>2. k - 1 \notin M
    BY <1>3 DEF RunsBefore
  <2>3. \A r \in Runs : r.last + 1 < k <=> r.last + 1 < k + 1
    <3>1. \A r \in Runs : r.last + 1 # k
      BY <1>3, RunFacts
    <3>2. QED
      BY <1>2, <3>1
  <2>4. k .. k \subseteq M
    BY <1>3
  <2> HIDE DEF new
  <2>5. QED
    BY <2>1, <2>2, <2>3, <2>4 DEF RunsBefore, new
<1>4. CASE k \notin M /\ acc.start # -1
  <2> DEFINE run == [first |-> acc.start, last |-> k - 1]
  <2>1. new = [ranges |-> Append(acc.ranges, run), start |-> -1]
    BY <1>4 DEF ScanStep
  <2>2. /\ acc.start \in 0 .. k - 1 /\ acc.start .. k - 1 \subseteq M /\ acc.start - 1 \notin M
        /\ acc.ranges \in Seq(Runs)
    BY <1>4 DEF RunsBefore
  <2>3. run \in Runs /\ run.first = acc.start /\ run.last = k - 1
    <3>1. acc.start \in M /\ k - 1 \in M /\ (k - 1) + 1 = k
      BY <2>2
    <3>2. QED
      BY <1>4, <2>2, <3>1 DEF MaximalRanges
  <2> HIDE DEF run
  <2>4. /\ new = [ranges |-> new.ranges, start |-> -1]
        /\ new.ranges \in Seq(Runs) /\ Len(new.ranges) = Len(acc.ranges) + 1
        /\ new.ranges[Len(acc.ranges) + 1] = run
        /\ \A j \in 1 .. Len(acc.ranges) : new.ranges[j] = acc.ranges[j]
        /\ Len(acc.ranges) \in Nat
    <3> HIDE DEF new, Runs
    <3>1. QED
      BY <2>1, <2>2, <2>3
  <2>5. ASSUME NEW r \in Runs, r.last + 1 = k
        PROVE  r = run
    <3>1. r.last = k - 1 /\ r.first \in Nat
      BY <1>2, <2>5
    <3>2. ~(r.first < acc.start)
      <4>1. SUFFICES ASSUME r.first < acc.start PROVE FALSE
        OBVIOUS
      <4>2. acc.start - 1 \in r.first .. r.last
        BY <2>2, <3>1, <4>1
      <4>3. QED
        BY <2>2, <4>2, RunFacts
    <3>3. ~(acc.start < r.first)
      <4>1. SUFFICES ASSUME acc.start < r.first PROVE FALSE
        OBVIOUS
      <4>2. r.first <= r.last
        BY RunFacts
      <4>3. r.first - 1 \in acc.start .. k - 1
        BY <2>2, <3>1, <4>1, <4>2
      <4>4. QED
        BY <2>2, <4>3, RunFacts
    <3>4. r.first = acc.start
      BY <2>2, <3>1, <3>2, <3>3
    <3>5. QED
      BY <3>1, <3>4, RunFacts DEF run
  <2>6. ASSUME NEW r \in Runs
        PROVE  r.last + 1 < k + 1 <=> \E j \in 1 .. Len(new.ranges) : new.ranges[j] = r
    <3>1. r.last + 1 < k + 1 <=> r.last + 1 < k \/ r = run
      BY <1>2, <2>3, <2>5
    <3>2. r.last + 1 < k <=> \E j \in 1 .. Len(acc.ranges) : acc.ranges[j] = r
      BY DEF RunsBefore
    <3>3. (\E j \in 1 .. Len(new.ranges) : new.ranges[j] = r) <=>
            (\E j \in 1 .. Len(acc.ranges) : acc.ranges[j] = r) \/ r = run
      BY <2>4
    <3>4. QED
      BY <3>1, <3>2, <3>3
  <2>7. ASSUME NEW j \in 1 .. Len(new.ranges) - 1
        PROVE  new.ranges[j].last + 1 < new.ranges[j + 1].first
    <3>1. CASE j < Len(acc.ranges)
      <4>1. j \in 1 .. Len(acc.ranges) - 1 /\ j + 1 \in 1 .. Len(acc.ranges)
        BY <2>4, <3>1
      <4>2. acc.ranges[j].last + 1 < acc.ranges[j + 1].first
        BY <4>1 DEF RunsBefore
      <4>3. new.ranges[j] = acc.ranges[j] /\ new.ranges[j + 1] = acc.ranges[j + 1]
        BY <2>4, <4>1
      <4>4. QED
        BY <4>2, <4>3
    <3>2. CASE j = Len(acc.ranges)
      <4>1. acc.ranges[j] \in Runs
        BY <2>2, <2>4, <3>2
      <4>2. acc.ranges[j].last + 1 < k
        <5>1. \A r \in Runs : (\E l \in 1 .. Len(acc.ranges) : acc.ranges[l] = r) => r.last + 1 < k
          BY DEF RunsBefore
        <5>2. QED
          BY <2>4, <3>2, <4>1, <5>1
      <4>3. \A r \in Runs : r.last + 1 < k => r.last + 1 < acc.start
        <5>1. ASSUME NEW r \in Runs, r.last + 1 < k
              PROVE  r.last + 1 < acc.start
          <6>1. r.last + 1 \in Nat /\ r.last + 1 \notin M
            BY <1>2, RunFacts
          <6>2. r.last + 1 \notin acc.start .. k - 1
            BY <2>2, <6>1
          <6>3. QED
            BY <2>2, <5>1, <6>1, <6>2
        <5>2. QED
          BY <5>1
      <4>4. QED
        BY <2>3, <2>4, <3>2, <4>1, <4>2, <4>3
    <3>3. QED
      BY <2>4, <3>1, <3>2
  <2>8. (k + 1) - 1 \notin M
    BY <1>4
  <2> HIDE DEF new
  <2>9. QED
    BY <2>4, <2>6, <2>7, <2>8 DEF RunsBefore, new
<1>5. CASE (k \in M /\ acc.start # -1) \/ (k \notin M /\ acc.start = -1)
  <2>1. new = acc
    BY <1>5 DEF ScanStep
  <2>2. \A r \in Runs : r.last + 1 # k
    <3>1. CASE k \in M
      BY <3>1, RunFacts
    <3>2. CASE k \notin M
      <4>1. k - 1 \notin M
        BY <1>5, <3>2 DEF RunsBefore
      <4>2. \A r \in Runs : r.last \in M /\ r.last \in Nat
        BY <1>2, RunFacts
      <4>3. QED
        BY <4>1, <4>2
    <3>3. QED
      BY <3>1, <3>2
  <2>3. \A r \in Runs : r.last + 1 < k <=> r.last + 1 < k + 1
    BY <1>2, <2>2
  <2>4. acc.start # -1 => acc.start .. (k + 1) - 1 \subseteq M
    <3>1. SUFFICES ASSUME acc.start # -1, NEW i \in acc.start .. (k + 1) - 1 PROVE i \in M
      OBVIOUS
    <3>2. k \in M /\ acc.start .. k - 1 \subseteq M
      BY <1>5, <3>1 DEF RunsBefore
    <3>3. QED
      BY <1>1, <3>2
  <2>5. acc.start = -1 => (k + 1) - 1 \notin M
    BY <1>5
  <2>6. RunsBefore(M, k + 1, acc)
    BY <2>3, <2>4, <2>5 DEF RunsBefore
  <2>7. QED
    BY <2>1, <2>6
<1>6. QED
  BY <1>3, <1>4, <1>5

(* Any number of iterations.                                               *)
LEMMA ScannedRuns ==
  ASSUME NEW M \in SUBSET Nat, NEW n \in Nat
  PROVE  RunsBefore(M, n, Scanned(M, n))
<1>1. PICK acc : IsLoop(M, n, acc) /\ Scanned(M, n) = acc[n]
  BY ScannedIsLoop
<1> DEFINE Wrong == {k \in 0 .. n : ~RunsBefore(M, k, acc[k])}
<1>2. SUFFICES ASSUME Wrong # {} PROVE FALSE
  BY <1>1
<1>3. PICK k \in Wrong : \A j \in Wrong : k <= j
  <2> HIDE DEF Wrong
  <2>1. Wrong \in SUBSET Nat
    BY DEF Wrong
  <2>2. QED
    BY <1>2, <2>1, SmallestOf
<1>4. k \in 0 .. n /\ ~RunsBefore(M, k, acc[k])
  OBVIOUS
<1>5. CASE k = 0
  <2>1. acc[0] = [ranges |-> <<>>, start |-> -1]
    BY <1>1 DEF IsLoop, Start
  <2>2. \A r \in MaximalRanges(M) : r.last + 1 \in Nat
    BY RunFacts
  <2>3. RunsBefore(M, 0, acc[0])
    BY <2>1, <2>2 DEF RunsBefore
  <2>4. QED
    BY <1>4, <1>5, <2>3
<1>6. CASE k # 0
  <2>1. k - 1 \in Nat /\ k - 1 \in 0 .. n /\ k \in 1 .. n /\ (k - 1) + 1 = k
    BY <1>4, <1>6
  <2>2. RunsBefore(M, k - 1, acc[k - 1])
    BY <1>3, <2>1
  <2>3. acc[k] = ScanStep(M, acc[k - 1], k - 1)
    BY <1>1, <2>1 DEF IsLoop
  <2>4. QED
    BY <1>4, <2>1, <2>2, <2>3, ScanStepRuns
<1>7. QED
  BY <1>5, <1>6

(* compute_nak_ranges and compute_missing_chunks: for every set of missing *)
(* indices of a list of any length, the loop returns its maximal runs, in  *)
(* ascending order (PacketList.cpp:81-105, Journal.cpp:44-63).             *)
THEOREM ScanCorrect ==
  ASSUME NEW total \in Nat, NEW M \in SUBSET (0 .. total - 1)
  PROVE  LET scan == ScanRanges(M, total)
         IN  /\ scan \in Seq(MaximalRanges(M))
             /\ ToSet(scan) = MaximalRanges(M)
             /\ \A k \in 1 .. Len(scan) - 1 : scan[k].last + 1 < scan[k + 1].first
<1> DEFINE end == Scanned(M, total)
           run == [first |-> end.start, last |-> total - 1]
           scan == ScanRanges(M, total)
           Runs == MaximalRanges(M)
<1>1. M \in SUBSET Nat /\ total \notin M
  OBVIOUS
<1>2. RunsBefore(M, total, end)
  BY <1>1, ScannedRuns
<1>3. RunsBefore(M, total + 1, ScanStep(M, end, total))
  BY <1>1, <1>2, ScanStepRuns
<1>4. scan = ScanStep(M, end, total).ranges
  <2>1. CASE end.start = -1
    BY <1>1, <2>1 DEF ScanRanges, ScanStep
  <2>2. CASE end.start # -1
    BY <1>1, <2>2 DEF ScanRanges, ScanStep
  <2>3. QED
    BY <2>1, <2>2
<1>5. \A r \in Runs : r.last + 1 < total + 1
  BY <1>1, RunFacts
<1> HIDE DEF scan, end, Runs
<1>6. /\ scan \in Seq(Runs)
      /\ \A r \in Runs : \E j \in 1 .. Len(scan) : scan[j] = r
      /\ \A j \in 1 .. Len(scan) - 1 : scan[j].last + 1 < scan[j + 1].first
  BY <1>3, <1>4, <1>5 DEF RunsBefore, Runs
<1>7. ToSet(scan) = Runs
  <2>1. DOMAIN scan = 1 .. Len(scan) /\ \A j \in 1 .. Len(scan) : scan[j] \in Runs
    BY <1>6
  <2>2. QED
    BY <1>6, <2>1 DEF ToSet
<1>8. QED
  BY <1>6, <1>7 DEF scan, Runs

(* In every state, the scan of the slots to retransmit returns what the    *)
(* receiver's NAK is modelled with.                                        *)
THEOREM ScanFaithful == Spec => []ScanFindsMaximalRanges
<1>1. ListInv => ScanFindsMaximalRanges
  <2> SUFFICES ASSUME ListInv PROVE ScanFindsMaximalRanges
    OBVIOUS
  <2>1. list.total \in Nat
    BY DEF ListInv, IsList
  <2>2. NeedsRetransmit(list) \in SUBSET (0 .. list.total - 1)
    BY DEF NeedsRetransmit
  <2>3. QED
    BY <2>1, <2>2, ScanCorrect DEF ScanFindsMaximalRanges, NakRanges
<1>2. QED
  BY <1>1, ListInvariance, PTL
=============================================================================

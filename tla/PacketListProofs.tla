-------------------------- MODULE PacketListProofs --------------------------
(***************************************************************************)
(* What PacketList's operators preserve, for lists of any length and any   *)
(* payloads: the facts the proofs about the receiver cite.                 *)
(***************************************************************************)
EXTENDS PacketList, FiniteSetTheorems, WellFoundedInduction, TLAPS

(* A set of numbers that is not empty has a least one: what the proofs by  *)
(* a first counterexample rest on.                                         *)
(* The intervals that start at 0 are ordered by inclusion as their ends    *)
(* are.                                                                    *)
LEMMA SmallestOf ==
  ASSUME NEW S \in SUBSET Nat, S # {}
  PROVE  \E m \in S : \A k \in S : m <= k
<1> DEFINE T == {0 .. k : k \in S}
<1>1. \A k \in S : 0 .. k \in SUBSET Nat /\ IsFiniteSet(0 .. k)
  BY FS_Interval
<1>2. T \subseteq FiniteSubsetsOf(Nat) /\ T # {}
  BY <1>1 DEF FiniteSubsetsOf
<1>3. IsWellFoundedOn(StrictSubsetOrdering(Nat), FiniteSubsetsOf(Nat))
  BY FS_StrictSubsetOrderingWellFounded
<1> HIDE DEF T
<1>4. PICK x \in T : \A y \in T : <<y, x>> \notin StrictSubsetOrdering(Nat)
  BY <1>2, <1>3, WFMin
<1>5. PICK m \in S : x = 0 .. m
  BY <1>4 DEF T
<1>6. ASSUME NEW k \in S, k < m
      PROVE  FALSE
  <2>1. 0 .. k \in T /\ 0 .. k \in SUBSET Nat /\ x \in SUBSET Nat
    BY <1>5 DEF T
  <2>2. 0 .. k \subseteq x /\ m \in x /\ m \notin 0 .. k
    BY <1>5, <1>6
  <2>3. <<0 .. k, x>> \in StrictSubsetOrdering(Nat)
    BY <2>1, <2>2 DEF StrictSubsetOrdering
  <2>4. QED
    BY <1>4, <2>1, <2>3
<1>7. QED
  BY <1>6

(* There are finitely many valid slots, at most one per packet.            *)
LEMMA ValidSlotsFinite ==
  ASSUME NEW pl, pl.total \in Nat
  PROVE  /\ IsFiniteSet(0 .. pl.total - 1)
         /\ Cardinality(0 .. pl.total - 1) = pl.total
         /\ ValidSlots(pl) \subseteq 0 .. pl.total - 1
         /\ IsFiniteSet(ValidSlots(pl))
  <1>1. /\ IsFiniteSet(0 .. pl.total - 1)
        /\ Cardinality(0 .. pl.total - 1) = pl.total
    <2> DEFINE last == pl.total - 1
    <2>1. last \in Int OBVIOUS
    <2>2. (IF 0 > last THEN 0 ELSE last - 0 + 1) = pl.total OBVIOUS
    <2> HIDE DEF last
    <2>3. /\ IsFiniteSet(0 .. last)
          /\ Cardinality(0 .. last) = IF 0 > last THEN 0 ELSE last - 0 + 1
      BY <2>1, FS_Interval
    <2>4. IsFiniteSet(0 .. last) /\ Cardinality(0 .. last) = pl.total
      BY <2>2, <2>3
    <2> QED BY <2>4 DEF last
  <1>2. ValidSlots(pl) \subseteq 0 .. pl.total - 1 BY DEF ValidSlots
  <1> QED BY <1>1, <1>2, FS_Subset

(* init() makes a list of empty slots, none of them valid.                 *)
LEMMA InitListFacts ==
  ASSUME NEW P, NEW total \in Nat
  PROVE  /\ IsList(InitList(total), P)
         /\ InitList(total).total = total
         /\ ValidSlots(InitList(total)) = {}
         /\ Counted(InitList(total))
  <1> DEFINE pl == InitList(total)
  <1>1. IsList(pl, P) /\ pl.total = total BY DEF InitList, EmptyNode, IsList
  <1>2. ValidSlots(pl) = {} BY DEF InitList, EmptyNode, ValidSlots
  <1>3. pl.valid = 0 BY DEF InitList
  <1> QED BY <1>1, <1>2, <1>3, FS_EmptySet DEF Counted

(* insert() changes one slot: it counts as delivered exactly when the      *)
(* packet that came last was good, and its payload is that packet's.       *)
LEMMA InsertFacts ==
  ASSUME NEW P, NEW pl, IsList(pl, P),
         NEW i \in Nat, NEW data \in P, NEW ok \in BOOLEAN,
         i < pl.total
  PROVE  LET new == Insert(pl, i, data, ok)
         IN  /\ IsList(new, P)
             /\ new.total = pl.total
             /\ ok => ValidSlots(new) = ValidSlots(pl) \cup {i}
             /\ ~ok => ValidSlots(new) = ValidSlots(pl) \ {i}
             /\ new.node[i].data = data
             /\ \A k \in (0 .. pl.total - 1) \ {i} : new.node[k] = pl.node[k]
             /\ new.valid = pl.valid + CountDelta(pl, i, ok)
  <1> DEFINE new == Insert(pl, i, data, ok)
             slot == [received |-> TRUE, valid |-> ok, data |-> data]
             node == [pl.node EXCEPT ![i] = slot]
  <1>1. /\ pl.total \in Nat /\ pl.valid \in Int
        /\ pl.node \in [0 .. pl.total - 1 -> [received : BOOLEAN, valid : BOOLEAN,
                                              data : P \cup {<<>>}]]
        /\ pl = [total |-> pl.total, valid |-> pl.valid, node |-> pl.node]
    BY DEF IsList
  <1>2. CountDelta(pl, i, ok) \in Int BY DEF CountDelta
  <1>3. new = [total |-> pl.total, valid |-> pl.valid + CountDelta(pl, i, ok), node |-> node]
    BY <1>1 DEF Insert
  <1> HIDE DEF new
  <1>4. i \in 0 .. pl.total - 1 BY <1>1
  <1>5. /\ slot \in [received : BOOLEAN, valid : BOOLEAN, data : P \cup {<<>>}]
        /\ slot.received = TRUE /\ slot.valid = ok /\ slot.data = data
    OBVIOUS
  <1> HIDE DEF slot
  <1>6. /\ node \in [0 .. pl.total - 1 -> [received : BOOLEAN, valid : BOOLEAN,
                                           data : P \cup {<<>>}]]
        /\ node[i] = slot
        /\ \A k \in (0 .. pl.total - 1) \ {i} : node[k] = pl.node[k]
    BY <1>1, <1>4, <1>5
  <1> HIDE DEF node
  <1>7. IsList(new, P) /\ new.total = pl.total BY <1>1, <1>2, <1>3, <1>6 DEF IsList
  <1>8. /\ ok => ValidSlots(new) = ValidSlots(pl) \cup {i}
        /\ ~ok => ValidSlots(new) = ValidSlots(pl) \ {i}
    BY <1>1, <1>3, <1>4, <1>5, <1>6 DEF ValidSlots
  <1> QED BY <1>3, <1>5, <1>6, <1>7, <1>8 DEF new

(* So the counter stays exact: a duplicate is not counted twice, and a     *)
(* corrupt duplicate takes back what a good packet counted.                *)
LEMMA InsertCounts ==
  ASSUME NEW P, NEW pl, IsList(pl, P), Counted(pl),
         NEW i \in Nat, NEW data \in P, NEW ok \in BOOLEAN
  PROVE  Counted(Insert(pl, i, data, ok))
  <1> DEFINE new == Insert(pl, i, data, ok)
             V == ValidSlots(pl)
  <1>1. pl.total \in Nat BY DEF IsList
  <1>2. IsFiniteSet(V) BY <1>1, ValidSlotsFinite
  <1>3. Cardinality(V) \in Nat BY <1>2, FS_CardinalityType
  <1>4. CASE i >= pl.total BY <1>4 DEF Insert
  <1>5. CASE i < pl.total
    <2>1. /\ ok => ValidSlots(new) = V \cup {i}
          /\ ~ok => ValidSlots(new) = V \ {i}
          /\ new.valid = pl.valid + CountDelta(pl, i, ok)
      BY <1>5, InsertFacts
    <2>2. Cardinality(V \cup {i}) = IF i \in V THEN Cardinality(V) ELSE Cardinality(V) + 1
      BY <1>2, FS_AddElement
    <2>3. Cardinality(V \ {i}) = IF i \in V THEN Cardinality(V) - 1 ELSE Cardinality(V)
      BY <1>2, FS_RemoveElement
    <2>4. pl.valid = Cardinality(V) BY DEF Counted
    <2> HIDE DEF new, V
    <2>5. ASSUME ok PROVE new.valid = Cardinality(ValidSlots(new))
      <3>1. ValidSlots(new) = V \cup {i} BY <2>1, <2>5
      <3>2. CountDelta(pl, i, ok) = IF i \in V THEN 0 ELSE 1
        BY <2>5 DEF CountDelta, V
      <3> QED BY <1>3, <2>1, <2>2, <2>4, <3>1, <3>2
    <2>6. ASSUME ~ok PROVE new.valid = Cardinality(ValidSlots(new))
      <3>1. ValidSlots(new) = V \ {i} BY <2>1, <2>6
      <3>2. CountDelta(pl, i, ok) = IF i \in V THEN -1 ELSE 0
        BY <2>6 DEF CountDelta, V
      <3> QED BY <1>3, <2>1, <2>3, <2>4, <3>1, <3>2
    <2> QED BY <2>5, <2>6 DEF Counted, new
  <1> QED BY <1>1, <1>4, <1>5

(* is_complete() then says what it should: every slot is valid.            *)
LEMMA CompleteMeansAllValid ==
  ASSUME NEW pl, pl.total \in Nat, Counted(pl)
  PROVE  IsComplete(pl) <=> pl.total > 0 /\ ValidSlots(pl) = 0 .. pl.total - 1
  <1>1. /\ IsFiniteSet(0 .. pl.total - 1)
        /\ Cardinality(0 .. pl.total - 1) = pl.total
        /\ ValidSlots(pl) \subseteq 0 .. pl.total - 1
    BY ValidSlotsFinite
  <1>2. Cardinality(ValidSlots(pl)) = pl.total => ValidSlots(pl) = 0 .. pl.total - 1
    BY <1>1, FS_Subset
  <1> QED BY <1>1, <1>2 DEF IsComplete, Counted
=============================================================================

----------------------------- MODULE PacketList -----------------------------
(***************************************************************************)
(* The packet slots of the chunk being received (receiver/PacketList.h,    *)
(* receiver/PacketList.cpp) and the ranges of missing packets computed     *)
(* from them.                                                              *)
(*                                                                         *)
(* A list is a record: total is total_packets_, valid is valid_count_, and *)
(* node is the index_ array.  The prev/next pointers are not kept: they    *)
(* are set once by init(), in index order, and assemble() only follows     *)
(* them from head_.                                                        *)
(***************************************************************************)
EXTENDS Integers, FiniteSets

(* A slot before anything arrived in it: its data vector is empty.         *)
EmptyNode == [received |-> FALSE, valid |-> FALSE, data |-> <<>>]

(* PacketList::init: one empty slot per packet; clear() is init with none. *)
InitList(total) ==
  [total |-> total, valid |-> 0, node |-> [i \in 0 .. total - 1 |-> EmptyNode]]

EmptyList == InitList(0)

(* The lists whose packets carry the given payloads.                       *)
IsList(pl, payload) ==
  /\ pl.total \in Nat
  /\ pl \in [total : {pl.total}, valid : Int,
             node : [0 .. pl.total - 1 -> [received : BOOLEAN, valid : BOOLEAN,
                                           data : payload \cup {<<>>}]]]

(* The slots that count as delivered.                                      *)
ValidSlots(pl) ==
  {i \in 0 .. pl.total - 1 : pl.node[i].received /\ pl.node[i].valid}

(* valid_count_ is the number of the former.                               *)
Counted(pl) == pl.valid = Cardinality(ValidSlots(pl))

(* The slots a NAK has to name.                                            *)
NeverReceived(pl) == {i \in 0 .. pl.total - 1 : ~pl.node[i].received}
NeedsRetransmit(pl) == (0 .. pl.total - 1) \ ValidSlots(pl)

(* What insert() does to valid_count_: it is compared with the state the   *)
(* slot had before, so that a duplicate counts once and a corrupt          *)
(* duplicate of a good packet takes the slot back.                         *)
CountAlways(pl, i, ok) == IF ok THEN 1 ELSE 0
CountDelta(pl, i, ok) ==
  LET wasValid == i \in ValidSlots(pl)
  IN  IF ok /\ ~wasValid THEN 1
      ELSE IF ~ok /\ wasValid THEN -1
      ELSE 0

(* PacketList::insert.  An index out of range leaves the list alone.       *)
KeepGoodSlot(pl, i, data, ok) ==
  IF i >= pl.total THEN pl
  ELSE [total |-> pl.total,
        valid |-> pl.valid + CountDelta(pl, i, TRUE),
        node |-> [pl.node EXCEPT ![i] = [received |-> TRUE, valid |-> TRUE, data |-> data]]]
InsertPastEnd(pl, i, data, ok) ==
  IF i > pl.total THEN pl
  ELSE [total |-> pl.total,
        valid |-> pl.valid + CountDelta(pl, i, ok),
        node |-> [pl.node EXCEPT ![i] = [received |-> TRUE, valid |-> ok, data |-> data]]]
Insert(pl, i, data, ok) ==
  IF i >= pl.total THEN pl
  ELSE [total |-> pl.total,
        valid |-> pl.valid + CountDelta(pl, i, ok),
        node |-> [pl.node EXCEPT ![i] = [received |-> TRUE, valid |-> ok, data |-> data]]]

IsComplete(pl) == pl.total > 0 /\ pl.valid = pl.total

(* PacketList::assemble, in index order.                                   *)
Assemble(pl) == [i \in 0 .. pl.total - 1 |-> pl.node[i].data]

(* The contiguous ranges compute_nak_ranges (packets) and                  *)
(* compute_missing_chunks (chunks) return for a set of missing indices:    *)
(* its maximal runs.  RangeScan shows that the loops compute this.         *)
MaximalRanges(S) ==
  {r \in [first : S, last : S] :
     /\ r.first .. r.last \subseteq S
     /\ r.first <= r.last
     /\ r.first - 1 \notin S
     /\ r.last + 1 \notin S}

NakRanges(pl) == MaximalRanges(NeedsRetransmit(pl))
=============================================================================

------------------------------ MODULE RangeScan ------------------------------
(***************************************************************************)
(* One PacketList under every sequence of inserts, with the two range      *)
(* loops of the receiver written as the code writes them: a left-to-right  *)
(* scan that remembers where the open range started (-1: none).            *)
(* compute_nak_ranges runs it over the packet slots of a list,             *)
(* compute_missing_chunks over the chunk_done bits of a journal.           *)
(***************************************************************************)
EXTENDS PacketList, Sequences, SequencesExt

CONSTANTS Payload,  \* what the data[] of a packet can hold
          MaxTotal  \* bound: the largest total_packets of a list

ASSUME MaxTotalAssumption == MaxTotal \in Nat

VARIABLES list,    \* the list under test
          arrived  \* history: slot -> what arrived last, as <<data, ok>>

vars == <<list, arrived>>

(* One iteration: open a range, close it, or go on.                        *)
ScanStepLate(missing, acc, i) ==
  CASE i \in missing /\ acc.start = -1 -> [acc EXCEPT !.start = i]
    [] i \notin missing /\ acc.start # -1 ->
         [ranges |-> Append(acc.ranges, [first |-> acc.start, last |-> i]), start |-> -1]
    [] OTHER -> acc
ScanStep(missing, acc, i) ==
  CASE i \in missing /\ acc.start = -1 -> [acc EXCEPT !.start = i]
    [] i \notin missing /\ acc.start # -1 ->
         [ranges |-> Append(acc.ranges, [first |-> acc.start, last |-> i - 1]), start |-> -1]
    [] OTHER -> acc

(* The first n iterations of the loop.                                     *)
Scanned(missing, n) ==
  LET acc[k \in 0 .. n] == IF k = 0 THEN [ranges |-> <<>>, start |-> -1]
                           ELSE ScanStep(missing, acc[k - 1], k - 1)
  IN  acc[n]

(* The loop, and the range still open when it ends.                        *)
ScanRanges(missing, total) ==
  LET end == Scanned(missing, total)
  IN  IF end.start = -1 THEN end.ranges
      ELSE Append(end.ranges, [first |-> end.start, last |-> total - 1])

-----------------------------------------------------------------------------

Init ==
  /\ \E n \in 0 .. MaxTotal : list = InitList(n)
  /\ arrived = <<>>

Arrive(i, data, ok) ==
  /\ list' = Insert(list, i, data, ok)
  /\ arrived' = IF i < list.total
                  THEN [k \in DOMAIN arrived \cup {i} |->
                          IF k = i THEN <<data, ok>> ELSE arrived[k]]
                  ELSE arrived

(* An index can lie one past the end: insert refuses it.                   *)
Next == \E i \in 0 .. MaxTotal, data \in Payload, ok \in BOOLEAN : Arrive(i, data, ok)

Spec == Init /\ [][Next]_vars

-----------------------------------------------------------------------------

TypeOK ==
  /\ IsList(list, Payload)
  /\ list.total <= MaxTotal
  /\ list.valid \in 0 .. list.total
  /\ DOMAIN arrived \subseteq 0 .. list.total - 1

(* valid_count_, which insert only adjusts, is always the number of slots  *)
(* that are received and valid, whatever duplicates, corrupt duplicates    *)
(* and out-of-range indices arrive (PacketList.cpp:60-72).                 *)
CountAccurate == Counted(list)

(* is_complete() holds exactly when the last thing to arrive in every slot *)
(* passed its CRC-8, and the assembled chunk is then those payloads.       *)
CompleteIsLatest ==
  IsComplete(list) <=>
    /\ list.total > 0
    /\ DOMAIN arrived = 0 .. list.total - 1
    /\ \A i \in DOMAIN arrived : arrived[i] = <<Assemble(list)[i], TRUE>>

(* The scan names every missing slot once and no other, in ascending       *)
(* ranges that cannot be merged: it returns the maximal runs.              *)
ScanFindsMaximalRanges ==
  LET scan == ScanRanges(NeedsRetransmit(list), list.total)
  IN  /\ ToSet(scan) = NakRanges(list)
      /\ \A k \in 1 .. Len(scan) - 1 : scan[k].last + 1 < scan[k + 1].first
=============================================================================

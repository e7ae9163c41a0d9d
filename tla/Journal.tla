------------------------------- MODULE Journal -------------------------------
(***************************************************************************)
(* The transfer state that survives a reboot (receiver/Journal.h,          *)
(* receiver/Journal.cpp).                                                  *)
(*                                                                         *)
(* The file state.bin is the value of one variable of the receiver: a      *)
(* JournalState, NoJournal when the file does not exist, CorruptJournal    *)
(* when read_from_disk fails on it.  The chunk_done bits are the set done. *)
(***************************************************************************)
EXTENDS Types, PacketList

CONSTANTS NoJournal, CorruptJournal

JournalState ==
  [tid : Tids, size : Nat, sum : Files, name : Names, eof : BOOLEAN, done : SUBSET Nat]

ASSUME JournalSentinels ==
  /\ NoJournal \notin JournalState
  /\ CorruptJournal \notin JournalState
  /\ NoJournal # CorruptJournal

(* load() succeeds.                                                        *)
Readable(j) == j \notin {NoJournal, CorruptJournal}

(* The journal's operations.  mark_chunk_done and mark_eof_received read   *)
(* the file, change one field and write the whole file back; they do       *)
(* nothing (and return false) when there is no readable file.              *)

MissingChunks(s) == Chunks(s.size) \ s.done

MissingRanges(s) == MaximalRanges(MissingChunks(s))

MarkedDoneShort(j, c) ==
  IF ~Readable(j) \/ c + 1 \notin Chunks(j.size) THEN j
  ELSE [j EXCEPT !.done = @ \cup {c}]
MarkedDone(j, c) ==
  IF ~Readable(j) \/ c \notin Chunks(j.size) THEN j
  ELSE [j EXCEPT !.done = @ \cup {c}]

MarkedNothing(j) == j
MarkedEof(j) ==
  IF ~Readable(j) THEN j ELSE [j EXCEPT !.eof = TRUE]
=============================================================================

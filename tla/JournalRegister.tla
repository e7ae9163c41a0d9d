-------------------------- MODULE JournalRegister --------------------------
(***************************************************************************)
(* What receiver/Journal.h promises of state.bin: a register holding a     *)
(* whole JournalState or nothing.  It is created, marked and removed, each *)
(* at once, whatever dies in the middle of it.  Only a power cut may put   *)
(* back something it held before, or leave it unreadable.                  *)
(***************************************************************************)
EXTENDS Journal

CONSTANT NewStates  \* what create() is called with

VARIABLES value,     \* what load() finds
          survivors  \* what it may find after a power cut

vars == <<value, survivors>>

Init == value = NoJournal /\ survivors = {NoJournal}

(* Nothing is synced: what was there before may come back, and the new     *)
(* contents may be missing.                                                *)
Record(j) == value' = j /\ survivors' = survivors \cup {j, CorruptJournal}

Create == \E s \in NewStates : Record(s)

MarkDone == Readable(value) /\ \E c \in Chunks(value.size) : Record(MarkedDone(value, c))

MarkEof == Readable(value) /\ Record(MarkedEof(value))

Remove == value' = NoJournal /\ survivors' = survivors \cup {NoJournal}

(* The kernel writes everything back.                                      *)
Settle == survivors' = {value} /\ UNCHANGED value

PowerCut == value' \in survivors /\ survivors' = {value'}

Next == Create \/ MarkDone \/ MarkEof \/ Remove \/ Settle \/ PowerCut

Spec == Init /\ [][Next]_vars
=============================================================================

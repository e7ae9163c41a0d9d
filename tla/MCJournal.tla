------------------------------ MODULE MCJournal ------------------------------
(* Values for model checking JournalStore: two files of two chunks, sent to *)
(* one destination under one transaction id.                                *)
EXTENDS JournalStore, TLC

CONSTANTS f, g, name

MCFiles == {f, g}
MCFileLen == [x \in MCFiles |-> 4]

MCNewStates ==
  {[tid |-> 1, size |-> FileLen[x], sum |-> x, name |-> name, eof |-> FALSE, done |-> {}] :
     x \in MCFiles}
===============================================================================

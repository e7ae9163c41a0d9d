---------------------------- MODULE FileTransfer ----------------------------
(***************************************************************************)
(* What the program promises as a whole, with nothing of how: files are    *)
(* sent one after the other, each to its destination; the sender reports a *)
(* success only of a file that is there, and a file that is there stays,   *)
(* however often the same job is run again.                                *)
(***************************************************************************)
EXTENDS Naturals

VARIABLES job,        \* which file is being sent
          delivered,  \* its destination holds it, byte for byte
          reported    \* the sender has said so

vars == <<job, delivered, reported>>

Init == job = 1 /\ delivered = FALSE /\ reported = FALSE

Deliver == ~delivered /\ delivered' = TRUE /\ UNCHANGED <<job, reported>>

Report == delivered /\ ~reported /\ reported' = TRUE /\ UNCHANGED <<job, delivered>>

(* The same command line again, whether it had succeeded or not.           *)
RunAgain == reported /\ reported' = FALSE /\ UNCHANGED <<job, delivered>>

(* Another one, which may find the same file in place.                     *)
NextJob ==
  /\ job' \in Nat /\ job' > job
  /\ delivered' \in BOOLEAN
  /\ reported' = FALSE

Next == Deliver \/ Report \/ RunAgain \/ NextJob

Spec == Init /\ [][Next]_vars
=============================================================================

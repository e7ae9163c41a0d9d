------------------------------- MODULE PduFifo -------------------------------
(***************************************************************************)
(* What Transport promises (receiver/Transport.h): recv() returns the PDUs *)
(* that send() was given, whole and in order.  It is all that Line assumes *)
(* of one direction.  Nothing is promised any more once a process has      *)
(* stopped in the middle of a PDU, until the line is set up anew.          *)
(***************************************************************************)
EXTENDS Sequences

CONSTANT Pdus

VARIABLES queue,  \* sent and not yet received
          got,    \* what recv() returned last
          broken

vars == <<queue, got, broken>>

Init == queue = <<>> /\ got = <<>> /\ broken = FALSE

Send == ~broken /\ (\E p \in Pdus : queue' = Append(queue, p)) /\ UNCHANGED <<got, broken>>

Recv ==
  /\ ~broken /\ queue # <<>>
  /\ got' = Head(queue)
  /\ queue' = Tail(queue)
  /\ UNCHANGED broken

Break == ~broken /\ broken' = TRUE /\ queue' = <<>> /\ UNCHANGED got

(* Whatever recv() returns now, it need not be a PDU.                      *)
Garbled == broken /\ UNCHANGED <<queue, broken>>

SetUp == queue' = <<>> /\ broken' = FALSE /\ UNCHANGED got

Next == Send \/ Recv \/ Break \/ Garbled \/ SetUp

Spec == Init /\ [][Next]_vars
=============================================================================

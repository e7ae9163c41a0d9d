-------------------------------- MODULE Line --------------------------------
(***************************************************************************)
(* The serial line: one FIFO of framed PDUs in each direction              *)
(* (receiver/UartTransport.cpp, class Transport of sender/sender.py).      *)
(* Each is what PduFifo promises and UartFraming implements byte by byte,  *)
(* so a queue holds whole PDUs.  A write() blocks while the queue is full. *)
(***************************************************************************)
EXTENDS Types

CONSTANTS MaxToSender,    \* bound: PDUs in flight to the sender
          MaxToReceiver   \* bound: PDUs in flight to the receiver

ASSUME LineAssumption == MaxToSender \in Nat \ {0} /\ MaxToReceiver \in Nat \ {0}

VARIABLES toReceiver,  \* in flight to the receiver
          toSender     \* in flight to the sender

line == <<toReceiver, toSender>>

LineInit == toReceiver = <<>> /\ toSender = <<>>

(* UartTransport::send                                                     *)
Reply(pdu) == Len(toSender) < MaxToSender /\ toSender' = Append(toSender, pdu)

(* The os.write of Transport.send, once the PDU is neither lost nor        *)
(* altered.                                                                *)
Transmit(pdu) == Len(toReceiver) < MaxToReceiver /\ toReceiver' = Append(toReceiver, pdu)
=============================================================================

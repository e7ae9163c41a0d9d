-------------------------------- MODULE Crc8 --------------------------------
(***************************************************************************)
(* CRC-8 over the data[] of a packet (Crc.cpp and crc8 in sender.py, which *)
(* are the same loop): computed by the sender over the bytes it read, and  *)
(* by the receiver over those that came, one of which may be damaged.  An  *)
(* eight-bit register is the set of its bits that are 1.                   *)
(***************************************************************************)
EXTENDS Integers

CONSTANTS Bytes  \* the bytes of a payload

Bits == 0 .. 7

ASSUME BytesAssumption == Bytes \subseteq SUBSET Bits

VARIABLES sentCrc,  \* over the bytes as they were sent
          seenCrc,  \* over the bytes as they were received
          damaged   \* one of them was damaged

crcVars == <<sentCrc, seenCrc, damaged>>

Xor(a, b) == (a \ b) \cup (b \ a)

Polynomial == {0, 1, 2}

ShiftOnly(crc) == {i + 1 : i \in crc \ {7}}
ShiftLeft(crc) ==
  LET shifted == {i + 1 : i \in crc \ {7}}
  IN  IF 7 \in crc THEN Xor(shifted, Polynomial) ELSE shifted

(* One byte of the outer loop, eight turns of the inner one.               *)
ShiftTwice(crc) == ShiftLeft(ShiftLeft(crc))
ShiftFour(crc) == ShiftTwice(ShiftTwice(crc))
Feed(crc, byte) == ShiftFour(ShiftFour(Xor(crc, byte)))

CrcInit == sentCrc = {} /\ seenCrc = {} /\ damaged = FALSE

Unharmed ==
  /\ \E b \in Bytes : sentCrc' = Feed(sentCrc, b) /\ seenCrc' = Feed(seenCrc, b)
  /\ UNCHANGED damaged

Harmed ==
  /\ ~damaged /\ damaged' = TRUE
  /\ \E b \in Bytes, d \in SUBSET Bits :
       /\ d # b
       /\ sentCrc' = Feed(sentCrc, b) /\ seenCrc' = Feed(seenCrc, d)

CrcNext == Unharmed \/ Harmed

CrcSpec == CrcInit /\ [][CrcNext]_crcVars

-----------------------------------------------------------------------------

(* One damaged byte of the data is always detected, wherever it is and     *)
(* however many bytes follow it: no later byte brings the two registers    *)
(* together again (CfdpReceiver.cpp:248-249).                              *)
OneByteDetected == damaged => seenCrc # sentCrc
=============================================================================

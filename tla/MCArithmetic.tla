---------------------------- MODULE MCArithmetic ----------------------------
(* The two pieces of arithmetic of the protocol, model checked side by side: *)
(* a behaviour cuts a file up and rebuilds it, or computes a CRC-8.          *)
EXTENDS ChunkArithmetic, Crc8

VARIABLE part

MCFiles ==
  [file_size : 0 .. 21, chunk_size : {2, 4, 6}, packet_size : 1 .. 3]

MCBytes == {{}, {0}, {7}, {0, 3, 4, 6}}

MCInit ==
  /\ part \in {"chunks", "crc8"}
  /\ Init /\ CrcInit
  /\ part = "crc8" => file = [file_size |-> 0, chunk_size |-> 2, packet_size |-> 1]

MCNext ==
  \/ part = "chunks" /\ Next /\ UNCHANGED <<part, crcVars>>
  \/ part = "crc8" /\ CrcNext /\ UNCHANGED <<part, vars>>

MCSpec == MCInit /\ [][MCNext]_<<part, vars, crcVars>>
===============================================================================

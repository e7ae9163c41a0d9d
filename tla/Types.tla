-------------------------------- MODULE Types --------------------------------
(***************************************************************************)
(* What the two sides of the protocol share: the units of a transfer       *)
(* (receiver/Types.h, the constants of sender/sender.py) and the PDUs.     *)
(*                                                                         *)
(* Sizes are counted in packets: a file is FileLen[f] packets long and a   *)
(* chunk is ChunkSize of them, so chunk_size / packet_size is ChunkSize    *)
(* and a last, shorter packet is still one packet (ChunkArithmetic has the *)
(* bytes).  The payload of packet i of file f is <<f, i>>.  A checksum is  *)
(* the file it was computed from: CRC-32 is taken as collision free.  The  *)
(* CRC-8 of a packet is the flag ok, whether it matches the payload (Crc8  *)
(* has the bits).  A PDU is a record, type its first byte; "Noise" stands  *)
(* for one that is empty, too short or of no known type.                   *)
(***************************************************************************)
EXTENDS Integers, Sequences, FiniteSets

CONSTANTS Files,      \* the contents a sender may have to send
          FileLen,    \* their lengths, in packets
          ChunkSize,  \* packets per chunk
          Payload,    \* what the data[] of a packet can hold
          Names,      \* destination file names
          Tids,       \* transaction ids
          UINT32_MAX  \* "no chunk in progress", "the whole transfer"

ASSUME FileLenAssumption == FileLen \in [Files -> Nat]
ASSUME ChunkSizeAssumption == ChunkSize \in Nat \ {0}
(* last_acked_id_ is 0 until a transfer ends, so 0 is no transaction id.   *)
ASSUME TidsAssumption == Tids \subseteq Nat \ {0}
ASSUME Uint32MaxAssumption == UINT32_MAX \notin Nat

-----------------------------------------------------------------------------
(* Chunks of a file of the given size.                                     *)

ChunkOffset(c) == c * ChunkSize

TotalChunks(size) == (size + ChunkSize - 1) \div ChunkSize

Chunks(size) == 0 .. TotalChunks(size) - 1

(* min(file_size - offset, chunk_size), in packets.                        *)
PacketsIn(size, c) ==
  IF size - ChunkOffset(c) < ChunkSize THEN size - ChunkOffset(c) ELSE ChunkSize

-----------------------------------------------------------------------------
(* PDUs, sender to receiver and receiver to sender.                        *)

MetadataPdu == [type : {"Metadata"}, tid : Tids, size : Nat, sum : Files, name : Names]
DataPdu == [type : {"Data"}, tid : Tids, chunk : Nat, pkt : Nat, total : Nat,
            data : Payload, ok : BOOLEAN]
EofPdu == [type : {"Eof"}, tid : Tids]
ResumeQueryPdu == [type : {"ResumeQuery"}, tid : Tids]
NoisePdu == [type : {"Noise"}]

PacketNakRange == [chunk : Nat, first : Nat, last : Nat]
NakPdu == [type : {"Nak"}, tid : Tids, missing : SUBSET PacketNakRange]
AckPdu == [type : {"Ack"}, tid : Tids, chunk : Nat \cup {UINT32_MAX}]
ResumeInfoPdu == [type : {"ResumeInfo"}, tid : Tids, first : Nat \cup {UINT32_MAX}]

SenderPdu == MetadataPdu \cup DataPdu \cup EofPdu \cup ResumeQueryPdu \cup NoisePdu
ReceiverPdu == NakPdu \cup AckPdu \cup ResumeInfoPdu

Metadata(tid, f, name) ==
  [type |-> "Metadata", tid |-> tid, size |-> FileLen[f], sum |-> f, name |-> name]
Data(tid, f, c, p) ==
  [type |-> "Data", tid |-> tid, chunk |-> c, pkt |-> p, total |-> PacketsIn(FileLen[f], c),
   data |-> <<f, ChunkOffset(c) + p>>, ok |-> TRUE]
Eof(tid) == [type |-> "Eof", tid |-> tid]
ResumeQuery(tid) == [type |-> "ResumeQuery", tid |-> tid]
Ack(tid, c) == [type |-> "Ack", tid |-> tid, chunk |-> c]
ResumeInfo(tid, c) == [type |-> "ResumeInfo", tid |-> tid, first |-> c]
Nak(tid, missing) == [type |-> "Nak", tid |-> tid, missing |-> missing]
=============================================================================

-------------------------- MODULE ChunkArithmetic --------------------------
(***************************************************************************)
(* The sizes and offsets of a transfer in bytes, which the other modules   *)
(* count in packets: how class CfdpSender cuts a file up, with integers of *)
(* any size, and CfdpReceiver.cpp puts it together again, with 32- and     *)
(* 64-bit ones.  A damaged Metadata has another value in one of its fields *)
(* (Transport.send inverts one byte), and nothing detects it.              *)
(*                                                                         *)
(* One chunk after the other is sent and assembled; one all of whose       *)
(* packets are lost is asked for by check_completion.                      *)
(***************************************************************************)
EXTENDS Integers, Sequences

CONSTANTS U32,                  \* 2^32: the values of a uint32_t
          DEFAULT_PACKET_SIZE,
          MaxTotalChunks,       \* 1u << 20, in handle_metadata
          SenderFiles           \* the sizes of a file, of its chunks and packets

(* The values of a uint64_t.                                               *)
U64 == U32 * U32

ASSUME U32Assumption == U32 \in Nat \ {0, 1}
ASSUME LimitsAssumption == DEFAULT_PACKET_SIZE \in Nat /\ MaxTotalChunks \in 0 .. U32 - 1
(* struct.pack raises when the sender's values do not fit their fields; a  *)
(* chunk and a packet together fit one, by far (sender.py:25-26).          *)
ASSUME SenderFilesAssumption ==
  \A f \in SenderFiles :
    /\ f \in [file_size : 0 .. U64 - 1, chunk_size : Nat \ {0}, packet_size : Nat \ {0}]
    /\ f.packet_size <= DEFAULT_PACKET_SIZE
    /\ f.chunk_size + f.packet_size < U32
    /\ f.file_size + f.chunk_size <= f.chunk_size * U32

VARIABLES at,    \* what happens next
          file,  \* the sender's file
          meta,  \* the Metadata as it was received, state_ once accepted
          chunk, \* the chunk the sender is at
          nak,   \* last_packet of the NAK, first_packet being 0
          out    \* the output file: which byte of the sender's each one is

vars == <<at, file, meta, chunk, nak, out>>

-----------------------------------------------------------------------------
(* The sender.                                                             *)

Lesser(m, n) == IF m <= n THEN m ELSE n

SenderTotalChunks(f) == (f.file_size + f.chunk_size - 1) \div f.chunk_size

ChunkSz(f, c) == Lesser(f.file_size - c * f.chunk_size, f.chunk_size)

SenderTotalPkts(f, c) == (ChunkSz(f, c) + f.packet_size - 1) \div f.packet_size

PktOff(f, c, p) == c * f.chunk_size + p * f.packet_size

DataLen(f, c, p) == Lesser(ChunkSz(f, c) - p * f.packet_size, f.packet_size)

(* data[] of packet p; byte b of the file is b.                            *)
DataOf(f, c, p) == [i \in 1 .. DataLen(f, c, p) |-> PktOff(f, c, p) + i - 1]

MetadataOf(f) ==
  [file_size |-> f.file_size, chunk_size |-> f.chunk_size, packet_size |-> f.packet_size,
   total_chunks |-> SenderTotalChunks(f)]

-----------------------------------------------------------------------------
(* The receiver.                                                           *)

Uint32(n) == n % U32
Uint64(n) == n % U64

RejectedSizes(m) ==
  \/ m.total_chunks = 0 \/ m.total_chunks > MaxTotalChunks
  \/ m.packet_size = 0 \/ m.packet_size > DEFAULT_PACKET_SIZE
  \/ m.chunk_size = 0

ChunkFileOffset32(m, c) == Uint32(c * m.chunk_size)
ChunkFileOffset(m, c) == Uint64(c * m.chunk_size)

ExpectedPkts(m, c) ==
  Uint32(Lesser(Uint64(m.file_size - ChunkFileOffset(m, c)), m.chunk_size) + m.packet_size - 1)
    \div m.packet_size

LastPacketInclusive(m, c) == ExpectedPkts(m, c)
LastPacket(m, c) == Uint32(ExpectedPkts(m, c) - 1)

(* The packets of a chunk one after the other, as assemble() joins them.   *)
Assembled(f, c, n) ==
  LET join[p \in 0 .. n] == IF p = 0 THEN <<>> ELSE join[p - 1] \o DataOf(f, c, p - 1)
  IN  join[n]

(* flush_chunk writes them at the chunk's offset.                          *)
Flushed(data) ==
  LET off == ChunkFileOffset(meta, chunk)
  IN  [b \in DOMAIN out \cup off .. off + Len(data) - 1 |->
         IF b \in off .. off + Len(data) - 1 THEN data[b - off + 1] ELSE out[b]]

-----------------------------------------------------------------------------

(* The Metadata with one of its fields misread.                            *)
Damaged(m) ==
  {[m EXCEPT !.file_size = n] : n \in 0 .. U64 - 1} \cup
  UNION {{[m EXCEPT ![field] = n] : n \in 0 .. U32 - 1} :
           field \in {"chunk_size", "packet_size", "total_chunks"}}

Announce ==
  /\ at = "announce"
  /\ meta' \in {MetadataOf(file)} \cup Damaged(MetadataOf(file))
  /\ at' = IF RejectedSizes(meta') THEN "rejected" ELSE "send"
  /\ UNCHANGED <<file, chunk, nak, out>>

Sending == at = "send" /\ chunk < SenderTotalChunks(file)

(* handle_data takes the packets of the chunk, and the list is complete.   *)
Fits ==
  /\ chunk < meta.total_chunks
  /\ SenderTotalPkts(file, chunk) = ExpectedPkts(meta, chunk)
  /\ \A p \in 0 .. SenderTotalPkts(file, chunk) - 1 :
       DataLen(file, chunk, p) \in 1 .. DEFAULT_PACKET_SIZE

(* Sent for the first time, or because a NAK asks for all of it.  Packets  *)
(* that do not fit are dropped however often they come.                    *)
ChunkArrives ==
  /\ Sending \/ (at = "asked" /\ nak = SenderTotalPkts(file, chunk) - 1)
  /\ Fits
  /\ out' = Flushed(Assembled(file, chunk, SenderTotalPkts(file, chunk)))
  /\ at' = "send" /\ chunk' = chunk + 1
  /\ UNCHANGED <<file, meta, nak>>

(* Its packets were lost or dropped, and max_chunk_seen_ is this chunk or  *)
(* a later one, if only because a chunk_index was misread.                 *)
AskForChunk ==
  /\ Sending
  /\ chunk < meta.total_chunks
  /\ at' = "asked"
  /\ nak' = LastPacket(meta, chunk)
  /\ UNCHANGED <<file, meta, chunk, out>>

(* _on_nak is asked for packets the chunk does not have: struct.pack       *)
(* raises on a negative data_len, once the others have been sent.          *)
SenderRaises ==
  /\ at = "asked"
  /\ DataLen(file, chunk, nak) < 0
  /\ at' = "raised"
  /\ UNCHANGED <<file, meta, chunk, nak, out>>

Init ==
  /\ at = "announce"
  /\ file \in SenderFiles
  /\ meta = MetadataOf(file)
  /\ chunk = 0 /\ nak = 0
  /\ out = <<>>

Next == Announce \/ ChunkArrives \/ AskForChunk \/ SenderRaises

Spec == Init /\ [][Next]_vars

-----------------------------------------------------------------------------

Intact == meta = MetadataOf(file)

(* With the Metadata the sender sent, the sizes of no file are refused but *)
(* of an empty one and one of too many chunks, no chunk is dropped, and    *)
(* each byte is written in its own place: when the last chunk has been     *)
(* flushed, the output is the file (sender.py:241-262 and                  *)
(* CfdpReceiver.cpp:134-148, 197-217, 286, 311-314).                       *)
FileRebuilt ==
  Intact =>
    /\ at = "rejected" => SenderTotalChunks(file) \notin 1 .. MaxTotalChunks
    /\ Sending => Fits
    /\ DOMAIN out = 0 .. Lesser(chunk * file.chunk_size, file.file_size) - 1
    /\ \A b \in DOMAIN out : out[b] = b

(* The NAK of a whole chunk ends with the chunk's last packet.  Under a    *)
(* damaged Metadata it may end elsewhere, but total_pkts - 1 wraps only if *)
(* the chunk starts where the file is said to end, or the chunk_size is at *)
(* its limit (CfdpReceiver.cpp:367-376).                                   *)
NakEndsInChunk ==
  at = "asked" =>
    /\ Intact => nak = SenderTotalPkts(file, chunk) - 1
    /\ nak * meta.packet_size >= meta.chunk_size =>
         \/ ChunkFileOffset(meta, chunk) = meta.file_size
         \/ meta.chunk_size + meta.packet_size > U32
=============================================================================

-------------------------- MODULE ArithmeticProofs --------------------------
(***************************************************************************)
(* What the receiver computes of a chunk from the Metadata of a file is    *)
(* what the sender computed, whatever the sizes: the 32- and 64-bit        *)
(* integers of CfdpReceiver.cpp do not show, and the chunks put together   *)
(* are the file.  Under any Metadata, the one way for the last packet of a *)
(* NAK to wrap is a chunk that is empty.                                   *)
(*                                                                         *)
(* Each turn of the loops of crc8 can be undone, so registers that differ  *)
(* go on differing over the same bytes: the flag ok of a packet is FALSE   *)
(* whenever one byte of its data was damaged.                              *)
(***************************************************************************)
EXTENDS ChunkArithmetic, Crc8, TLAPS

Numbers == INSTANCE PacketListProofs

-----------------------------------------------------------------------------
(* Division and remainder.                                                 *)

(* A number below the modulus is not reduced.                              *)
LEMMA SmallMod == ASSUME NEW w \in Nat \ {0}, NEW n \in 0 .. w - 1 PROVE n % w = n
  OBVIOUS

(* The quotient is the largest number whose product fits.                 *)
LEMMA DivBound ==
  ASSUME NEW n \in Nat, NEW k \in Nat \ {0}
  PROVE  /\ n \div k \in Nat
         /\ k * (n \div k) <= n
         /\ n < k * (n \div k) + k
  OBVIOUS

(* Products grow with their factors.                                       *)
LEMMA MulMono ==
  ASSUME NEW k \in Nat, NEW m \in Int, NEW n \in Int, m <= n
  PROVE  m * k \in Int /\ m * k <= n * k
  OBVIOUS

(* The algebra the provers do not apply to variables by themselves.        *)
LEMMA MulFacts ==
  ASSUME NEW m \in Nat, NEW k \in Nat
  PROVE  m * k \in Nat /\ m * k = k * m /\ (m + 1) * k = m * k + k
  OBVIOUS

(* A product is no less than its factor.                                   *)
LEMMA FactorBound == ASSUME NEW k \in Nat \ {0}, NEW n \in Nat PROVE n <= k * n
<1>1. 1 * n <= k * n
  BY MulMono
<1> QED
  BY <1>1

(* A difference of two numbers in range is 0 after reduction only if they  *)
(* are equal.                                                              *)
LEMMA DifferenceMod ==
  ASSUME NEW w \in Nat \ {0}, NEW m \in 0 .. w - 1, NEW n \in 0 .. w - 1
  PROVE  /\ (m - n) % w \in 0 .. w - 1
         /\ m >= n => (m - n) % w = m - n
         /\ (m - n) % w = 0 => m = n
<1>1. (m - n) % w \in 0 .. w - 1
  OBVIOUS
<1>2. CASE m >= n
  BY <1>1, <1>2, SmallMod, m - n \in 0 .. w - 1
<1>3. CASE m < n
  <2>1. m - n + w \in 1 .. w - 1
    BY <1>3
  <2>2. (m - n) % w = m - n + w
    BY <2>1
  <2> QED
    BY <1>1, <1>3, <2>1, <2>2
<1> QED
  BY <1>2, <1>3

-----------------------------------------------------------------------------
(* The sender's chunks.                                                    *)

(* A uint64_t holds what a uint32_t does.                                  *)
LEMMA U64Type == U64 \in Nat \ {0} /\ U32 <= U64
<1>1. U32 * 1 <= U32 * U32 /\ U32 * U32 \in Nat
  BY U32Assumption
<1> QED
  BY <1>1, U32Assumption DEF U64

(* Each chunk starts inside the file.                                      *)
LEMMA ChunkInFile ==
  ASSUME NEW f \in SenderFiles, NEW c \in Nat, c < SenderTotalChunks(f)
  PROVE  c * f.chunk_size \in Nat /\ c * f.chunk_size < f.file_size
<1> DEFINE k == f.chunk_size
           q == (f.file_size + k - 1) \div k
<1>1. f.file_size \in Nat /\ k \in Nat \ {0}
  BY SenderFilesAssumption, U64Type
<1>2. q \in Nat /\ k * q <= f.file_size + k - 1
  BY <1>1, DivBound, f.file_size + k - 1 \in Nat
<1>3. c + 1 <= q
  BY <1>2 DEF SenderTotalChunks
<1>4. (c + 1) * k <= q * k
  BY <1>1, <1>2, <1>3, MulMono
<1>5. (c + 1) * k = c * k + k /\ q * k = k * q /\ c * k \in Nat
  <2> HIDE DEF k, q
  <2> QED
    BY <1>1, <1>2, MulFacts
<1> QED
  BY <1>1, <1>2, <1>4, <1>5

(* The Metadata fits its fields.                                           *)
MetadataType ==
  [file_size : 0 .. U64 - 1, chunk_size : 0 .. U32 - 1, packet_size : 0 .. U32 - 1,
   total_chunks : 0 .. U32 - 1]

(* What the sender packs is in range (sender.py:233-239).                  *)
LEMMA MetadataFits ==
  ASSUME NEW f \in SenderFiles PROVE MetadataOf(f) \in MetadataType
<1> DEFINE k == f.chunk_size
           q == SenderTotalChunks(f)
<1>1. /\ f.file_size \in 0 .. U64 - 1 /\ k \in Nat \ {0} /\ f.packet_size \in Nat \ {0}
      /\ k + f.packet_size < U32 /\ f.file_size + k <= k * U32
      /\ U32 \in Nat
  BY SenderFilesAssumption, U32Assumption
<1>2. q \in Nat /\ k * q <= f.file_size + k - 1
  BY <1>1, DivBound, U64Type, f.file_size + k - 1 \in Nat DEF SenderTotalChunks
<1>3. q < U32
  <2> SUFFICES ASSUME U32 <= q PROVE FALSE
    BY <1>1, <1>2
  <2>1. U32 * k <= q * k /\ U32 * k = k * U32 /\ q * k = k * q
    BY <1>1, <1>2, MulMono
  <2> QED
    BY <1>1, <1>2, <2>1, U64Type
<1> QED
  BY <1>1, <1>2, <1>3 DEF MetadataType, MetadataOf
-----------------------------------------------------------------------------
(* The two sides agree about a file's chunks.                              *)

(* For the Metadata of a file, the receiver puts a chunk where the sender  *)
(* takes it from, expects as many packets as the sender makes of it, and   *)
(* asks for the last of them (CfdpReceiver.cpp:208-212, 367-376, 496-499   *)
(* and sender.py:241-252).                                                 *)
THEOREM CountsAgree ==
  ASSUME NEW f \in SenderFiles, NEW c \in Nat, c < SenderTotalChunks(f)
  PROVE  /\ ChunkFileOffset(MetadataOf(f), c) = PktOff(f, c, 0)
         /\ ExpectedPkts(MetadataOf(f), c) = SenderTotalPkts(f, c)
         /\ LastPacket(MetadataOf(f), c) = SenderTotalPkts(f, c) - 1
<1> DEFINE off == c * f.chunk_size
           sz == ChunkSz(f, c)
           n == SenderTotalPkts(f, c)
<1>1. /\ f.file_size \in 0 .. U64 - 1 /\ f.chunk_size \in Nat \ {0}
      /\ f.packet_size \in Nat \ {0} /\ f.chunk_size + f.packet_size < U32
      /\ U32 \in Nat \ {0} /\ U64 \in Nat \ {0}
  BY SenderFilesAssumption, U32Assumption, U64Type
<1>2. off \in Nat /\ off < f.file_size
  BY ChunkInFile
<1>3. ChunkFileOffset(MetadataOf(f), c) = off
  <2>1. off \in 0 .. U64 - 1
    BY <1>1, <1>2
  <2> QED
    BY <1>1, <2>1, SmallMod DEF ChunkFileOffset, MetadataOf, Uint64
<1>4. sz \in 1 .. f.chunk_size /\ sz = Lesser(f.file_size - off, f.chunk_size)
  BY <1>1, <1>2 DEF ChunkSz, Lesser
<1>5. Uint64(f.file_size - off) = f.file_size - off
  <2>1. f.file_size - off \in 0 .. U64 - 1
    BY <1>1, <1>2
  <2> QED
    BY <1>1, <2>1, SmallMod DEF Uint64
<1>6. Uint32(sz + f.packet_size - 1) = sz + f.packet_size - 1
  <2>1. sz + f.packet_size - 1 \in 0 .. U32 - 1
    BY <1>1, <1>4
  <2> QED
    BY <1>1, <2>1, SmallMod DEF Uint32
<1>7. ExpectedPkts(MetadataOf(f), c) = n
  BY <1>3, <1>4, <1>5, <1>6 DEF ExpectedPkts, MetadataOf, SenderTotalPkts
<1>8. n \in 1 .. U32 - 1
  <2>1. /\ n \in Nat /\ f.packet_size * n <= sz + f.packet_size - 1
        /\ sz + f.packet_size - 1 < f.packet_size * n + f.packet_size
    BY <1>1, <1>4, DivBound, sz + f.packet_size - 1 \in Nat DEF SenderTotalPkts
  <2>2. n # 0
    BY <1>1, <1>4, <2>1
  <2>3. n <= f.packet_size * n
    <3> HIDE DEF n
    <3> QED
      BY <1>1, <2>1, FactorBound
  <2> QED
    BY <1>1, <1>4, <2>1, <2>2, <2>3
<1>9. LastPacket(MetadataOf(f), c) = n - 1
  <2>1. n - 1 \in 0 .. U32 - 1
    BY <1>1, <1>8
  <2> QED
    BY <1>1, <1>7, <2>1, SmallMod DEF LastPacket, Uint32
<1> QED
  BY <1>1, <1>2, <1>3, <1>7, <1>9 DEF PktOff

-----------------------------------------------------------------------------
(* The NAK of a chunk, under any Metadata that was accepted.               *)

(* total_pkts - 1 reaches past the chunk only if total_pkts is 0, and that *)
(* is so only for an empty chunk (CfdpReceiver.cpp:368-376).               *)
LEMMA NakWraps ==
  ASSUME NEW m \in MetadataType, ~RejectedSizes(m), NEW c \in Nat,
         m.chunk_size + m.packet_size <= U32,
         LastPacket(m, c) * m.packet_size >= m.chunk_size
  PROVE  ChunkFileOffset(m, c) = m.file_size
<1> DEFINE k == m.chunk_size
           s == m.packet_size
           off == ChunkFileOffset(m, c)
           rest == Uint64(m.file_size - off)
           sz == Lesser(rest, k)
           n == ExpectedPkts(m, c)
<1>1. /\ k \in 1 .. U32 - 1 /\ s \in 1 .. U32 - 1 /\ m.file_size \in 0 .. U64 - 1
      /\ U32 \in Nat \ {0} /\ U64 \in Nat \ {0} /\ k + s <= U32
  BY U32Assumption, U64Type DEF MetadataType, RejectedSizes
<1>2. off \in 0 .. U64 - 1
  <2>1. c * k \in Nat
    BY <1>1
  <2> QED
    BY <1>1, <2>1 DEF ChunkFileOffset, Uint64
<1>3. rest \in Nat /\ (rest = 0 => off = m.file_size)
  BY <1>1, <1>2, DifferenceMod DEF Uint64
<1>4. sz \in 0 .. k /\ (sz = 0 => rest = 0)
  BY <1>1, <1>3 DEF Lesser
<1>5. n = (sz + s - 1) \div s
  <2>1. sz + s - 1 \in 0 .. U32 - 1
    BY <1>1, <1>4
  <2> QED
    BY <1>1, <2>1, SmallMod DEF ExpectedPkts, Uint32
<1>6. n \in Nat /\ s * n <= sz + s - 1
  BY <1>1, <1>4, <1>5, DivBound, sz + s - 1 \in Nat
<1>7. SUFFICES ASSUME sz > 0 PROVE FALSE
  BY <1>3, <1>4
<1>8. n > 0
  BY <1>1, <1>4, <1>5, <1>6, <1>7, DivBound, sz + s - 1 \in Nat
<1>9. n <= s * n
  <2> HIDE DEF n, s
  <2>1. s \in Nat \ {0}
    BY <1>1
  <2> QED
    BY <1>6, <2>1, FactorBound
<1>10. LastPacket(m, c) = n - 1
  <2>1. n - 1 \in 0 .. U32 - 1
    BY <1>1, <1>4, <1>6, <1>8, <1>9
  <2> QED
    BY <1>1, <2>1, SmallMod DEF LastPacket, Uint32
<1>11. (n - 1) * s = s * n - s
  <2> HIDE DEF n, s
  <2>1. n - 1 \in Nat /\ s \in Nat
    BY <1>1, <1>6, <1>8
  <2>2. ((n - 1) + 1) * s = (n - 1) * s + s /\ n * s = s * n
    BY <1>6, <2>1, MulFacts
  <2>3. (n - 1) + 1 = n /\ (n - 1) * s \in Nat
    BY <1>6, <2>1, MulFacts
  <2> QED
    BY <2>1, <2>2, <2>3
<1> QED
  BY <1>1, <1>4, <1>6, <1>10, <1>11

-----------------------------------------------------------------------------

(* What a step needs to know of the state: the Metadata fits its fields    *)
(* and has been accepted, and the NAK is the one its handler computes.     *)
ArithInv ==
  /\ file \in SenderFiles
  /\ meta \in MetadataType
  /\ chunk \in Nat
  /\ at \in {"send", "asked", "raised"} => ~RejectedSizes(meta)
  /\ at = "asked" => chunk < SenderTotalChunks(file) /\ nak = LastPacket(meta, chunk)

(* A misread field still has its width.                                    *)
LEMMA DamagedType ==
  ASSUME NEW m \in MetadataType, NEW d \in Damaged(m) PROVE d \in MetadataType
<1>1. CASE d \in {[m EXCEPT !.file_size = v] : v \in 0 .. U64 - 1}
  BY <1>1 DEF MetadataType
<1>2. CASE \E field \in {"chunk_size", "packet_size", "total_chunks"} :
             d \in {[m EXCEPT ![field] = v] : v \in 0 .. U32 - 1}
  BY <1>2 DEF MetadataType
<1> QED
  BY <1>1, <1>2 DEF Damaged

(* ArithInv is inductive.                                                  *)
LEMMA ArithInvariance == Spec => []ArithInv
<1>1. Init => ArithInv
  BY MetadataFits DEF Init, ArithInv
<1>2. ArithInv /\ [Next]_vars => ArithInv'
  <2> SUFFICES ASSUME ArithInv, [Next]_vars PROVE ArithInv'
    OBVIOUS
  <2> USE DEF ArithInv
  <2>1. CASE Announce
    <3>1. meta' \in MetadataType
      BY <2>1, MetadataFits, DamagedType DEF Announce
    <3> QED
      BY <2>1, <3>1 DEF Announce
  <2>2. CASE ChunkArrives
    BY <2>2 DEF ChunkArrives, Sending
  <2>3. CASE AskForChunk
    BY <2>3 DEF AskForChunk, Sending
  <2>4. CASE SenderRaises
    BY <2>4 DEF SenderRaises
  <2>5. CASE UNCHANGED vars
    BY <2>5 DEF vars
  <2> QED
    BY <2>1, <2>2, <2>3, <2>4, <2>5 DEF Next
<1> QED
  BY <1>1, <1>2, PTL DEF Spec

(* Whatever the Metadata, the NAK of a whole chunk wraps for an empty one  *)
(* only, and under the sender's own it ends with the chunk's last packet.  *)
THEOREM NakCorrect == Spec => []NakEndsInChunk
<1>1. ArithInv => NakEndsInChunk
  <2> SUFFICES ASSUME ArithInv, at = "asked"
               PROVE  /\ Intact => nak = SenderTotalPkts(file, chunk) - 1
                      /\ nak * meta.packet_size >= meta.chunk_size =>
                           \/ ChunkFileOffset(meta, chunk) = meta.file_size
                           \/ meta.chunk_size + meta.packet_size > U32
    BY DEF NakEndsInChunk
  <2>1. Intact => nak = SenderTotalPkts(file, chunk) - 1
    BY CountsAgree DEF ArithInv, Intact
  <2>2. ASSUME nak * meta.packet_size >= meta.chunk_size,
               ~(meta.chunk_size + meta.packet_size > U32)
        PROVE  ChunkFileOffset(meta, chunk) = meta.file_size
    <3>1. meta.chunk_size \in Nat /\ meta.packet_size \in Nat /\ U32 \in Nat
      BY U32Assumption DEF ArithInv, MetadataType
    <3>2. meta.chunk_size + meta.packet_size <= U32
      BY <2>2, <3>1
    <3> QED
      BY <2>2, <3>2, NakWraps DEF ArithInv
  <2> QED
    BY <2>1, <2>2
<1> QED
  BY <1>1, ArithInvariance, PTL

-----------------------------------------------------------------------------
(* The file put together again.                                            *)

(* The sizes of a file's chunks and packets.                               *)
LEMMA FileSizes ==
  ASSUME NEW f \in SenderFiles
  PROVE  /\ f.file_size \in Nat
         /\ f.chunk_size \in Nat \ {0}
         /\ f.packet_size \in Nat \ {0}
         /\ f.packet_size <= DEFAULT_PACKET_SIZE
BY SenderFilesAssumption, U64Type

(* The packets of a chunk cover it, and each but the last is full.         *)
LEMMA PacketsCover ==
  ASSUME NEW f \in SenderFiles, NEW c \in Nat, c < SenderTotalChunks(f)
  PROVE  /\ ChunkSz(f, c) \in 1 .. f.chunk_size
         /\ SenderTotalPkts(f, c) \in Nat
         /\ ChunkSz(f, c) <= SenderTotalPkts(f, c) * f.packet_size
         /\ \A p \in 0 .. SenderTotalPkts(f, c) - 1 :
              p * f.packet_size \in Nat /\ p * f.packet_size < ChunkSz(f, c)
<1> DEFINE sz == ChunkSz(f, c)
           s == f.packet_size
           n == SenderTotalPkts(f, c)
<1>1. s \in Nat \ {0} /\ f.chunk_size \in Nat \ {0} /\ f.file_size \in Nat
  BY FileSizes
<1>2. sz \in 1 .. f.chunk_size
  <2>1. c * f.chunk_size \in Nat /\ c * f.chunk_size < f.file_size
    BY ChunkInFile
  <2> QED
    BY <1>1, <2>1 DEF ChunkSz, Lesser
<1>3. n \in Nat /\ s * n <= sz + s - 1 /\ sz + s - 1 < s * n + s
  BY <1>1, <1>2, DivBound, sz + s - 1 \in Nat DEF SenderTotalPkts
<1> HIDE DEF sz, s, n
<1>4. n * s = s * n /\ n * s \in Nat
  BY <1>1, <1>3, MulFacts
<1>5. sz <= n * s
  BY <1>1, <1>2, <1>3, <1>4
<1>6. ASSUME NEW p \in 0 .. n - 1
      PROVE  p * s \in Nat /\ p * s < sz
  <2>1. p \in Nat /\ p + 1 <= n /\ p + 1 \in Int /\ n \in Int
    BY <1>3
  <2>2. (p + 1) * s <= n * s /\ (p + 1) * s = p * s + s /\ p * s \in Nat
    BY <1>1, <1>3, <2>1, MulMono, MulFacts
  <2> QED
    BY <1>1, <1>2, <1>3, <1>4, <2>2
<1> QED
  BY <1>2, <1>3, <1>5, <1>6 DEF sz, s, n

(* The bytes of the first n packets of a chunk, one after the other.       *)
Beginning(f, c, n) ==
  [i \in 1 .. Lesser(n * f.packet_size, ChunkSz(f, c)) |-> c * f.chunk_size + i - 1]

(* The next packet continues them.                                         *)
LEMMA NextPacket ==
  ASSUME NEW f \in SenderFiles, NEW c \in Nat, c < SenderTotalChunks(f),
         NEW p \in 0 .. SenderTotalPkts(f, c) - 1
  PROVE  /\ DataLen(f, c, p) \in 1 .. f.packet_size
         /\ Beginning(f, c, p) \o DataOf(f, c, p) = Beginning(f, c, p + 1)
<1> DEFINE sz == ChunkSz(f, c)
           s == f.packet_size
           off == c * f.chunk_size
           len == DataLen(f, c, p)
           done == p * s
<1>1. /\ s \in Nat \ {0} /\ sz \in Nat /\ done \in Nat /\ done < sz /\ off \in Nat
      /\ (p + 1) * s = done + s
  <2>1. p \in Nat /\ s \in Nat
    BY PacketsCover, FileSizes
  <2>2. (p + 1) * s = p * s + s
    BY <2>1, MulFacts
  <2> QED
    BY <2>2, PacketsCover, FileSizes, ChunkInFile
<1>2. len = Lesser(sz - done, s)
  BY DEF DataLen
<1>3. len \in 1 .. s
  <2> HIDE DEF sz, s, done, len
  <2> QED
    BY <1>1, <1>2 DEF Lesser
<1>4. Beginning(f, c, p) = [i \in 1 .. done |-> off + i - 1]
  <2>1. Lesser(done, sz) = done
    <3> HIDE DEF sz, done
    <3> QED
      BY <1>1 DEF Lesser
  <2> QED
    BY <2>1 DEF Beginning
<1>5. DataOf(f, c, p) = [i \in 1 .. len |-> off + done + i - 1]
  BY DEF DataOf, PktOff
<1>6. Beginning(f, c, p + 1) = [i \in 1 .. done + len |-> off + i - 1]
  <2>1. Lesser(done + s, sz) = done + len
    <3> HIDE DEF sz, s, done, len
    <3> QED
      BY <1>1, <1>2 DEF Lesser
  <2> QED
    BY <1>1, <2>1 DEF Beginning
<1>7. [i \in 1 .. done |-> off + i - 1] \o [i \in 1 .. len |-> off + done + i - 1]
        = [i \in 1 .. done + len |-> off + i - 1]
  <2> HIDE DEF off, done, len, s
  <2> QED
    BY <1>1, <1>3
<1> QED
  BY <1>3, <1>4, <1>5, <1>6, <1>7

(* assemble() joins the packets of a chunk to the bytes of the chunk       *)
(* (PacketList.cpp:107-118).                                               *)
THEOREM AssemblesChunk ==
  ASSUME NEW f \in SenderFiles, NEW c \in Nat, c < SenderTotalChunks(f)
  PROVE  Assembled(f, c, SenderTotalPkts(f, c))
           = [i \in 1 .. ChunkSz(f, c) |-> c * f.chunk_size + i - 1]
<1> DEFINE n == SenderTotalPkts(f, c)
           Joins(g) == g = [p \in 0 .. n |-> IF p = 0 THEN <<>>
                                            ELSE g[p - 1] \o DataOf(f, c, p - 1)]
           join == CHOOSE g : Joins(g)
           begin == [p \in 0 .. n |-> Beginning(f, c, p)]
<1>1. n \in Nat /\ ChunkSz(f, c) \in Nat /\ ChunkSz(f, c) <= n * f.packet_size
  BY PacketsCover
<1>2. begin[0] = <<>>
  <2>1. 0 * f.packet_size = 0
    BY FileSizes
  <2>2. Lesser(0 * f.packet_size, ChunkSz(f, c)) = 0
    BY <1>1, <2>1 DEF Lesser
  <2>3. Beginning(f, c, 0) = <<>>
    BY <2>2 DEF Beginning
  <2> QED
    BY <1>1, <2>3
<1>3. \A p \in 1 .. n : begin[p] = begin[p - 1] \o DataOf(f, c, p - 1)
  <2> SUFFICES ASSUME NEW p \in 1 .. n
               PROVE  begin[p] = begin[p - 1] \o DataOf(f, c, p - 1)
    OBVIOUS
  <2>1. p - 1 \in 0 .. n - 1 /\ p - 1 \in 0 .. n /\ p \in 0 .. n /\ (p - 1) + 1 = p
    BY <1>1
  <2>2. Beginning(f, c, p - 1) \o DataOf(f, c, p - 1) = Beginning(f, c, p)
    BY <2>1, NextPacket
  <2> QED
    BY <2>1, <2>2
<1> HIDE DEF n
<1>4. Joins(join)
  <2>1. Joins(begin)
    <3>1. begin = [p \in 0 .. n |-> begin[p]]
      OBVIOUS
    <3> HIDE DEF begin
    <3>2. ASSUME NEW p \in 0 .. n
          PROVE  begin[p] = IF p = 0 THEN <<>> ELSE begin[p - 1] \o DataOf(f, c, p - 1)
      <4>1. CASE p = 0
        BY <1>2, <4>1
      <4>2. CASE p # 0
        BY <1>1, <1>3, <4>2, p \in 1 .. n
      <4> QED
        BY <4>1, <4>2
    <3> QED
      BY <3>1, <3>2
  <2> QED
    BY <2>1
<1>5. Assembled(f, c, n) = join[n]
  BY DEF Assembled
<1> HIDE DEF join, begin
<1>6. join[0] = <<>> /\ \A p \in 1 .. n : join[p] = join[p - 1] \o DataOf(f, c, p - 1)
  BY <1>1, <1>4
<1>7. join[n] = begin[n]
  <2> DEFINE Apart == {p \in 0 .. n : join[p] # begin[p]}
  <2> SUFFICES ASSUME Apart # {} PROVE FALSE
    BY <1>1
  <2>1. PICK p \in Apart : \A q \in Apart : p <= q
    <3> HIDE DEF Apart
    <3>1. Apart \in SUBSET Nat
      BY <1>1 DEF Apart
    <3> QED
      BY <3>1, Numbers!SmallestOf
  <2>2. p \in 0 .. n /\ join[p] # begin[p]
    OBVIOUS
  <2>3. p # 0
    BY <1>2, <1>6, <2>2
  <2>4. p \in 1 .. n /\ p - 1 \in 0 .. n /\ p - 1 \notin Apart
    BY <1>1, <2>1, <2>2, <2>3
  <2>5. join[p - 1] = begin[p - 1]
    BY <2>4
  <2> QED
    BY <1>3, <1>6, <2>2, <2>4, <2>5
<1>8. begin[n] = [i \in 1 .. ChunkSz(f, c) |-> c * f.chunk_size + i - 1]
  <2>1. Lesser(n * f.packet_size, ChunkSz(f, c)) = ChunkSz(f, c)
    <3>1. n * f.packet_size \in Nat
      BY <1>1, FileSizes, MulFacts
    <3> QED
      BY <1>1, <3>1 DEF Lesser
  <2> QED
    BY <1>1, <2>1 DEF begin, Beginning
<1> QED
  BY <1>5, <1>7, <1>8 DEF n

(* What has been written so far is the beginning of the file.              *)
Rebuilt ==
  /\ DOMAIN out = 0 .. Lesser(chunk * file.chunk_size, file.file_size) - 1
  /\ \A b \in DOMAIN out : out[b] = b

RebuildInv ==
  /\ ArithInv
  /\ at = "announce" => chunk = 0 /\ out = <<>>
  /\ at = "rejected" => RejectedSizes(meta)
  /\ Intact => Rebuilt

(* One chunk more.                                                         *)
LEMMA FlushRebuilds ==
  ASSUME RebuildInv, Intact, chunk < SenderTotalChunks(file),
         out' = Flushed(Assembled(file, chunk, SenderTotalPkts(file, chunk))),
         chunk' = chunk + 1, file' = file
  PROVE  Rebuilt'
<1> DEFINE f == file
           off == chunk * f.chunk_size
           sz == ChunkSz(f, chunk)
           data == [i \in 1 .. sz |-> off + i - 1]
<1>1. f \in SenderFiles /\ chunk \in Nat
  BY DEF RebuildInv, ArithInv
<1>2. off \in Nat /\ off < f.file_size
  BY <1>1, ChunkInFile
<1>3. /\ f.file_size \in Nat /\ f.chunk_size \in Nat \ {0}
      /\ sz \in Nat /\ sz = Lesser(f.file_size - off, f.chunk_size)
  BY <1>1, FileSizes, PacketsCover DEF ChunkSz
<1>4. ChunkFileOffset(meta, chunk) = off
  <2>1. 0 * f.packet_size = 0
    BY <1>1, FileSizes
  <2>2. PktOff(f, chunk, 0) = off
    BY <1>2, <2>1 DEF PktOff
  <2>3. ChunkFileOffset(MetadataOf(f), chunk) = PktOff(f, chunk, 0)
    BY <1>1, CountsAgree
  <2> QED
    BY <2>2, <2>3 DEF Intact
<1>5. out' = Flushed(data)
  BY <1>1, AssemblesChunk
<1>6. Len(data) = sz
  <2> HIDE DEF sz, off
  <2> QED
    BY <1>3
<1>7. out' = [b \in DOMAIN out \cup off .. off + sz - 1 |->
                IF b \in off .. off + sz - 1 THEN data[b - off + 1] ELSE out[b]]
  <2> HIDE DEF data, sz, off
  <2> QED
    BY <1>4, <1>5, <1>6 DEF Flushed
<1> DEFINE end == Lesser(chunk' * file'.chunk_size, file'.file_size)
<1>8. Lesser(off, f.file_size) = off /\ end = off + sz
  <2> DEFINE next == chunk' * file'.chunk_size
  <2>1. next = off + f.chunk_size
    BY <1>1, <1>3, MulFacts
  <2>2. file'.file_size = f.file_size
    OBVIOUS
  <2> HIDE DEF sz, off, f, next
  <2>3. Lesser(off, f.file_size) = off
    BY <1>2, <1>3 DEF Lesser
  <2>4. Lesser(next, f.file_size) = off + sz
    BY <1>2, <1>3, <2>1 DEF Lesser
  <2> QED
    BY <2>2, <2>3, <2>4 DEF next
<1>9. DOMAIN out = 0 .. off - 1 /\ \A b \in DOMAIN out : out[b] = b
  BY <1>8 DEF RebuildInv, Rebuilt
<1>10. DOMAIN out' = 0 .. off + sz - 1 /\ \A b \in DOMAIN out' : out'[b] = b
  <2>1. \A b \in off .. off + sz - 1 : data[b - off + 1] = b
    <3> HIDE DEF sz, off
    <3> QED
      BY <1>2, <1>3
  <2> HIDE DEF data, sz, off
  <2>2. DOMAIN out' = 0 .. off + sz - 1
    BY <1>2, <1>3, <1>7, <1>9
  <2> QED
    BY <1>2, <1>3, <1>7, <1>9, <2>1, <2>2
<1> HIDE DEF sz, off, f, data, end
<1>11. DOMAIN out' = 0 .. end - 1
  BY <1>2, <1>3, <1>8, <1>10
<1> QED
  BY <1>10, <1>11, Zenon DEF Rebuilt, end

(* RebuildInv is inductive.                                                *)
LEMMA RebuildInvariance == Spec => []RebuildInv
<1>1. Init => RebuildInv
  <2> SUFFICES ASSUME Init PROVE RebuildInv
    OBVIOUS
  <2>1. ArithInv
    BY MetadataFits DEF Init, ArithInv
  <2>2. file.file_size \in Nat /\ file.chunk_size \in Nat
    BY FileSizes DEF Init
  <2>3. Rebuilt
    BY <2>2 DEF Init, Rebuilt, Lesser
  <2> QED
    BY <2>1, <2>3 DEF Init, RebuildInv
<1>2. RebuildInv /\ ArithInv' /\ [Next]_vars => RebuildInv'
  <2> SUFFICES ASSUME RebuildInv, ArithInv', [Next]_vars PROVE RebuildInv'
    OBVIOUS
  <2>1. CASE Announce
    <3>1. file.file_size \in Nat /\ file.chunk_size \in Nat
      BY FileSizes DEF RebuildInv, ArithInv
    <3>2. chunk = 0 /\ out = <<>> /\ file' = file /\ chunk' = chunk /\ out' = out
      BY <2>1 DEF Announce, RebuildInv
    <3>3. Rebuilt'
      BY <3>1, <3>2 DEF Rebuilt, Lesser
    <3> QED
      BY <2>1, <3>3 DEF Announce, RebuildInv
  <2>2. CASE ChunkArrives
    <3>1. chunk < SenderTotalChunks(file)
      BY <2>2 DEF ChunkArrives, Sending, RebuildInv, ArithInv
    <3>2. Intact' => Intact
      BY <2>2 DEF ChunkArrives, Intact
    <3>3. Intact => Rebuilt'
      BY <2>2, <3>1, FlushRebuilds DEF ChunkArrives
    <3> QED
      BY <2>2, <3>2, <3>3 DEF ChunkArrives, RebuildInv
  <2>3. CASE AskForChunk \/ SenderRaises \/ UNCHANGED vars
    <3>1. /\ Intact' <=> Intact
          /\ Rebuilt' <=> Rebuilt
      BY <2>3 DEF AskForChunk, SenderRaises, vars, Intact, Rebuilt
    <3> QED
      BY <2>3, <3>1 DEF AskForChunk, SenderRaises, vars, RebuildInv
  <2> QED
    BY <2>1, <2>2, <2>3 DEF Next
<1> QED
  BY <1>1, <1>2, ArithInvariance, PTL DEF Spec

(* Whatever the sizes of a file, of its chunks and of its packets, and     *)
(* whatever the width of the integers: if the Metadata comes as it was     *)
(* sent, nothing of the file is refused or dropped that should not be, and *)
(* every byte is written in its own place.                                 *)
THEOREM RebuildsFile == Spec => []FileRebuilt
<1>1. RebuildInv => FileRebuilt
  <2> SUFFICES ASSUME RebuildInv, Intact
               PROVE  /\ at = "rejected" => SenderTotalChunks(file) \notin 1 .. MaxTotalChunks
                      /\ Sending => Fits
                      /\ Rebuilt
    BY DEF FileRebuilt, Rebuilt
  <2>1. file \in SenderFiles /\ chunk \in Nat /\ meta = MetadataOf(file)
    BY DEF RebuildInv, ArithInv, Intact
  <2>2. at = "rejected" => SenderTotalChunks(file) \notin 1 .. MaxTotalChunks
    <3>1. ASSUME RejectedSizes(meta) PROVE SenderTotalChunks(file) \notin 1 .. MaxTotalChunks
      <4>1. MaxTotalChunks \in Int /\ DEFAULT_PACKET_SIZE \in Nat
        BY LimitsAssumption, U32Assumption
      <4>2. /\ meta.packet_size = file.packet_size /\ meta.chunk_size = file.chunk_size
            /\ meta.total_chunks = SenderTotalChunks(file)
        BY <2>1 DEF MetadataOf
      <4> QED
        BY <2>1, <3>1, <4>1, <4>2, FileSizes DEF RejectedSizes
    <3> QED
      BY <3>1 DEF RebuildInv
  <2>3. ASSUME Sending PROVE Fits
    <3>1. chunk < SenderTotalChunks(file) /\ meta.total_chunks = SenderTotalChunks(file)
      BY <2>1, <2>3 DEF Sending, MetadataOf
    <3>2. SenderTotalPkts(file, chunk) = ExpectedPkts(meta, chunk)
      BY <2>1, <3>1, CountsAgree
    <3>3. ASSUME NEW p \in 0 .. SenderTotalPkts(file, chunk) - 1
          PROVE  DataLen(file, chunk, p) \in 1 .. DEFAULT_PACKET_SIZE
      <4>1. DataLen(file, chunk, p) \in 1 .. file.packet_size
        BY <2>1, <3>1, NextPacket
      <4> QED
        BY <2>1, <4>1, FileSizes, LimitsAssumption
    <3> QED
      BY <3>1, <3>2, <3>3 DEF Fits
  <2> QED
    BY <2>2, <2>3 DEF RebuildInv
<1> QED
  BY <1>1, RebuildInvariance, PTL

-----------------------------------------------------------------------------
(* CRC-8.                                                                  *)

(* The same bits flipped twice.                                            *)
LEMMA XorCancels ==
  ASSUME NEW a, NEW b, NEW c, Xor(a, c) = Xor(b, c) PROVE a = b
<1>1. \A x : x \in Xor(a, c) <=> x \in Xor(b, c)
  OBVIOUS
<1>2. \A x : x \in a <=> x \in b
  BY <1>1 DEF Xor
<1> QED
  BY <1>2

(* Bits that differ do so either way.                                      *)
LEMMA XorCommutes == \A a, b : Xor(a, b) = Xor(b, a)
  BY DEF Xor

(* A register stays a register.                                            *)
LEMMA XorType == ASSUME NEW a \in SUBSET Bits, NEW b \in SUBSET Bits PROVE Xor(a, b) \in SUBSET Bits
  BY DEF Xor

Shifted(crc) == {i + 1 : i \in crc \ {7}}

(* crc << 1: each bit but the last goes one up, and bit 0 is clear.        *)
LEMMA ShiftedFacts ==
  ASSUME NEW a \in SUBSET Bits
  PROVE  /\ Shifted(a) \in SUBSET (1 .. 7)
         /\ \A i \in 0 .. 6 : i \in a <=> i + 1 \in Shifted(a)
  BY DEF Shifted, Bits

(* The polynomial is added when bit 7 was set, and bit 0 tells so.         *)
LEMMA ShiftFacts ==
  ASSUME NEW a \in SUBSET Bits
  PROVE  /\ ShiftLeft(a) \in SUBSET Bits
         /\ ShiftLeft(a) = IF 7 \in a THEN Xor(Shifted(a), Polynomial) ELSE Shifted(a)
         /\ 0 \in ShiftLeft(a) <=> 7 \in a
<1>1. ShiftLeft(a) = IF 7 \in a THEN Xor(Shifted(a), Polynomial) ELSE Shifted(a)
  BY DEF ShiftLeft, Shifted
<1>2. Shifted(a) \in SUBSET Bits /\ 0 \notin Shifted(a)
  BY ShiftedFacts DEF Bits
<1>3. Polynomial \in SUBSET Bits /\ 0 \in Polynomial
  BY DEF Polynomial, Bits
<1>4. 0 \in Xor(Shifted(a), Polynomial)
  BY <1>2, <1>3 DEF Xor
<1> QED
  BY <1>1, <1>2, <1>3, <1>4, XorType

(* A turn of the inner loop can be undone (Crc.cpp:14-17).                 *)
LEMMA ShiftInjective ==
  ASSUME NEW a \in SUBSET Bits, NEW b \in SUBSET Bits, ShiftLeft(a) = ShiftLeft(b)
  PROVE  a = b
<1>1. 7 \in a <=> 7 \in b
  BY ShiftFacts
<1>2. Shifted(a) = Shifted(b)
  BY <1>1, ShiftFacts, XorCancels
<1>3. \A i \in 0 .. 6 : i \in a <=> i \in b
  BY <1>2, ShiftedFacts
<1>4. \A i \in Bits : i \in a <=> i \in b
  BY <1>1, <1>3 DEF Bits
<1> QED
  BY <1>4

(* So can two ...                                                          *)
LEMMA ShiftTwiceInjective ==
  ASSUME NEW a \in SUBSET Bits, NEW b \in SUBSET Bits
  PROVE  ShiftTwice(a) \in SUBSET Bits /\ (ShiftTwice(a) = ShiftTwice(b) => a = b)
<1>1. ShiftLeft(a) \in SUBSET Bits /\ ShiftLeft(b) \in SUBSET Bits
  BY ShiftFacts
<1> QED
  BY <1>1, ShiftFacts, ShiftInjective DEF ShiftTwice

(* ... and four.                                                           *)
LEMMA ShiftFourInjective ==
  ASSUME NEW a \in SUBSET Bits, NEW b \in SUBSET Bits
  PROVE  ShiftFour(a) \in SUBSET Bits /\ (ShiftFour(a) = ShiftFour(b) => a = b)
<1>1. ShiftTwice(a) \in SUBSET Bits /\ ShiftTwice(b) \in SUBSET Bits
  BY ShiftTwiceInjective
<1> QED
  BY <1>1, ShiftTwiceInjective DEF ShiftFour

(* The eight turns for a byte: only equal registers come out equal.        *)
LEMMA FeedInjective ==
  ASSUME NEW r \in SUBSET Bits, NEW s \in SUBSET Bits,
         NEW b \in SUBSET Bits, NEW d \in SUBSET Bits
  PROVE  /\ Feed(r, b) \in SUBSET Bits
         /\ Feed(r, b) = Feed(s, d) => Xor(r, b) = Xor(s, d)
<1>1. Xor(r, b) \in SUBSET Bits /\ Xor(s, d) \in SUBSET Bits
  BY XorType
<1>2. ShiftFour(Xor(r, b)) \in SUBSET Bits /\ ShiftFour(Xor(s, d)) \in SUBSET Bits
  BY <1>1, ShiftFourInjective
<1>3. ShiftFour(ShiftFour(Xor(r, b))) \in SUBSET Bits
  BY <1>2, ShiftFourInjective
<1>4. ASSUME ShiftFour(ShiftFour(Xor(r, b))) = ShiftFour(ShiftFour(Xor(s, d)))
      PROVE  Xor(r, b) = Xor(s, d)
  <2>1. ShiftFour(Xor(r, b)) = ShiftFour(Xor(s, d))
    BY <1>2, <1>4, ShiftFourInjective
  <2> QED
    BY <1>1, <2>1, ShiftFourInjective
<1> QED
  BY <1>3, <1>4 DEF Feed

(* Two registers that differ still do after the same byte.                 *)
LEMMA FeedKeepsApart ==
  ASSUME NEW r \in SUBSET Bits, NEW s \in SUBSET Bits, NEW b \in SUBSET Bits,
         Feed(r, b) = Feed(s, b)
  PROVE  r = s
<1>1. Xor(r, b) = Xor(s, b)
  BY FeedInjective
<1> QED
  BY <1>1, XorCancels

(* Two bytes that differ make one register two.                            *)
LEMMA FeedTellsApart ==
  ASSUME NEW r \in SUBSET Bits, NEW b \in SUBSET Bits, NEW d \in SUBSET Bits,
         Feed(r, b) = Feed(r, d)
  PROVE  b = d
<1>1. Xor(r, b) = Xor(r, d)
  BY FeedInjective
<1>2. Xor(b, r) = Xor(d, r)
  BY <1>1, XorCommutes
<1> QED
  BY <1>2, XorCancels

-----------------------------------------------------------------------------

(* Until a byte is damaged the two registers are equal.                    *)
RegistersInv ==
  /\ sentCrc \in SUBSET Bits /\ seenCrc \in SUBSET Bits
  /\ damaged \in BOOLEAN
  /\ damaged <=> seenCrc # sentCrc

(* CRC-8 detects one damaged byte in data of any length, whatever it was   *)
(* and became (Crc.cpp:9-21).                                              *)
THEOREM DetectsOneByte == CrcSpec => []OneByteDetected
<1>1. CrcInit => RegistersInv
  BY DEF CrcInit, RegistersInv
<1>2. RegistersInv /\ [CrcNext]_crcVars => RegistersInv'
  <2> SUFFICES ASSUME RegistersInv, [CrcNext]_crcVars PROVE RegistersInv'
    OBVIOUS
  <2> USE DEF RegistersInv
  <2>1. CASE Unharmed
    <3>1. PICK b \in Bytes : sentCrc' = Feed(sentCrc, b) /\ seenCrc' = Feed(seenCrc, b)
      BY <2>1 DEF Unharmed
    <3>2. b \in SUBSET Bits
      BY BytesAssumption
    <3>3. sentCrc' \in SUBSET Bits /\ seenCrc' \in SUBSET Bits
      BY <3>1, <3>2, FeedInjective
    <3>4. seenCrc' = sentCrc' => seenCrc = sentCrc
      <4>1. Feed(seenCrc, b) = Feed(sentCrc, b) => seenCrc = sentCrc
        BY <3>2, FeedKeepsApart
      <4> QED
        BY <3>1, <4>1
    <3>5. seenCrc = sentCrc => seenCrc' = sentCrc'
      BY <3>1
    <3> QED
      BY <2>1, <3>3, <3>4, <3>5 DEF Unharmed
  <2>2. CASE Harmed
    <3>1. PICK b \in Bytes, d \in SUBSET Bits :
            /\ d # b
            /\ sentCrc' = Feed(sentCrc, b) /\ seenCrc' = Feed(seenCrc, d)
      BY <2>2 DEF Harmed
    <3>2. b \in SUBSET Bits
      BY BytesAssumption
    <3>3. sentCrc' \in SUBSET Bits /\ seenCrc' \in SUBSET Bits
      BY <3>1, <3>2, FeedInjective
    <3>4. seenCrc = sentCrc
      BY <2>2 DEF Harmed
    <3>5. seenCrc' # sentCrc'
      <4>1. Feed(sentCrc, b) = Feed(sentCrc, d) => b = d
        BY <3>2, FeedTellsApart
      <4> QED
        BY <3>1, <3>4, <4>1
    <3> QED
      BY <2>2, <3>3, <3>5 DEF Harmed
  <2>3. CASE UNCHANGED crcVars
    BY <2>3 DEF crcVars
  <2> QED
    BY <2>1, <2>2, <2>3 DEF CrcNext
<1>3. RegistersInv => OneByteDetected
  BY DEF RegistersInv, OneByteDetected
<1> QED
  BY <1>1, <1>2, <1>3, PTL DEF CrcSpec
=============================================================================

--------------------------- MODULE ReceiverProofs ---------------------------
(***************************************************************************)
(* Theorems about ReceiverOpen, for every set of senders, file size, chunk *)
(* size and set of transactions, failed writes and power cuts included:    *)
(* TypeOK is an invariant whatever arrives, because ShapeInv is one;       *)
(* SlotsBelongToChunk and DoneIsOnDisk are when the senders are honest,    *)
(* because IndInv is one.                                                  *)
(***************************************************************************)
EXTENDS ReceiverOpen, PacketListProofs

-----------------------------------------------------------------------------
(* Chunk arithmetic.                                                       *)

LEMMA DivMul ==
  ASSUME NEW a \in Nat, NEW b \in Nat \ {0}
  PROVE  /\ a \div b \in Nat
         /\ b * (a \div b) <= a
  OBVIOUS

(* Every chunk of a file has at least one packet and lies inside the file. *)
LEMMA ChunkBound ==
  ASSUME NEW size \in Nat, NEW c \in Chunks(size)
  PROVE  /\ c \in Nat
         /\ ChunkOffset(c) \in Nat
         /\ PacketsIn(size, c) \in Nat \ {0}
         /\ ChunkOffset(c) + PacketsIn(size, c) <= size
  <1> DEFINE t == TotalChunks(size)
  <1>1. ChunkSize \in Nat \ {0} BY ChunkSizeAssumption
  <1>2. t \in Nat /\ ChunkSize * t <= size + ChunkSize - 1
    BY <1>1, DivMul DEF TotalChunks
  <1>3. c \in Nat /\ c <= t - 1 BY <1>2 DEF Chunks
  <1>4. ChunkSize * c <= ChunkSize * (t - 1) BY <1>1, <1>2, <1>3
  <1>5. ChunkSize * (t - 1) = ChunkSize * t - ChunkSize BY <1>1, <1>2
  <1>6. ChunkOffset(c) \in Nat /\ ChunkOffset(c) < size
    BY <1>1, <1>2, <1>3, <1>4, <1>5 DEF ChunkOffset
  <1> QED BY <1>1, <1>3, <1>6 DEF PacketsIn

-----------------------------------------------------------------------------
(* PDUs.                                                                   *)

(* The type of a PDU on the wire tells its fields.                         *)
LEMMA WireTypes ==
  ASSUME TypeOK, NEW p \in Wire
  PROVE  /\ p.type = "Metadata" => p \in MetadataPdu
         /\ p.type = "Data" => p \in DataPdu
         /\ p.type = "Eof" => p \in EofPdu
         /\ p.type = "ResumeQuery" => p \in ResumeQueryPdu
  <1>1. p \in SenderPdu BY SaysAssumption DEF TypeOK, Wire
  <1> QED BY <1>1
       DEF SenderPdu, MetadataPdu, DataPdu, EofPdu, ResumeQueryPdu, NoisePdu

(* A step of the same sender leaves the wire as it is.                     *)
LEMMA SameWire ==
  ASSUME UNCHANGED sending
  PROVE  Wire' = Wire
  BY DEF Wire

(* Receiving takes a PDU of the wire off the line.                         *)
LEMMA ReceiveTakes ==
  ASSUME TypeOK, NEW t, Receive(t)
  PROVE  /\ at = "recv"
         /\ Head(toReceiver) \in Wire
         /\ Head(toReceiver).type = t
         /\ toReceiver' \in Seq(Wire)
  BY DEF TypeOK, Receive

LEMMA ReplyKeepsType ==
  ASSUME TypeOK, NEW p \in ReceiverPdu, Reply(p)
  PROVE  toSender' \in Seq(ReceiverPdu)
  BY DEF TypeOK, Reply

LEMMA AckTypes ==
  ASSUME NEW tid \in Tids, NEW c \in Nat \cup {UINT32_MAX}
  PROVE  Ack(tid, c) \in ReceiverPdu /\ ResumeInfo(tid, c) \in ReceiverPdu
  BY DEF Ack, ResumeInfo, ReceiverPdu, AckPdu, ResumeInfoPdu

LEMMA NakTypes ==
  ASSUME NEW tid \in Tids, NEW missing \in SUBSET PacketNakRange
  PROVE  Nak(tid, missing) \in ReceiverPdu
  BY DEF Nak, ReceiverPdu, NakPdu

(* send_nak_packets names slots of the list.                               *)
LEMMA NakPacketsType ==
  ASSUME TypeOK, state # NoTransfer, NEW c \in Nat
  PROVE  NakPackets(c) \in ReceiverPdu
  <1>1. state.tid \in Tids BY DEF TypeOK, JournalState
  <1>2. NeedsRetransmit(packetList) \subseteq Nat
    BY DEF TypeOK, IsList, NeedsRetransmit
  <1>3. \A r \in NakRanges(packetList) : r.first \in Nat /\ r.last \in Nat
    BY <1>2 DEF NakRanges, MaximalRanges
  <1>4. {[chunk |-> c, first |-> r.first, last |-> r.last] : r \in NakRanges(packetList)}
          \in SUBSET PacketNakRange
    BY <1>3 DEF PacketNakRange
  <1> QED BY <1>1, <1>4, NakTypes DEF NakPackets

-----------------------------------------------------------------------------
(* What an honest wire announces.                                          *)

LEMMA AnnouncedFacts ==
  ASSUME HonestWire, NEW s, FromMetadata(s)
  PROVE  /\ s.size = FileLen[s.sum]
         /\ s.sum \in Files /\ s.size \in Nat /\ s.name \in Names /\ s.tid \in Tids
         /\ \A t : FromMetadata(t) /\ t.tid = s.tid =>
                 t.sum = s.sum /\ t.name = s.name /\ t.size = s.size
         /\ \A d \in Wire \cap DataPdu :
              d.tid = s.tid /\ d.ok => d.data = <<s.sum, ChunkOffset(d.chunk) + d.pkt>>
  <1>1. PICK m \in Wire \cap MetadataPdu :
          m.tid = s.tid /\ m.size = s.size /\ m.sum = s.sum /\ m.name = s.name
    BY DEF FromMetadata
  <1>2. /\ m.size = FileLen[m.sum]
        /\ \A n \in Wire \cap MetadataPdu :
             n.tid = m.tid => n.sum = m.sum /\ n.name = m.name
        /\ \A d \in Wire \cap DataPdu :
             d.tid = m.tid /\ d.ok => d.data = <<m.sum, ChunkOffset(d.chunk) + d.pkt>>
    BY DEF HonestWire, Honest
  <1>3. m.sum \in Files /\ m.size \in Nat /\ m.name \in Names /\ m.tid \in Tids
    BY DEF MetadataPdu
  <1>4. ASSUME NEW t, FromMetadata(t), t.tid = s.tid
        PROVE  t.sum = s.sum /\ t.name = s.name /\ t.size = s.size
    <2>1. PICK n \in Wire \cap MetadataPdu :
            n.tid = t.tid /\ n.size = t.size /\ n.sum = t.sum /\ n.name = t.name
      BY <1>4 DEF FromMetadata
    <2>2. n.size = FileLen[n.sum] BY DEF HonestWire, Honest
    <2> QED BY <1>1, <1>2, <1>4, <2>1, <2>2
  <1> QED BY <1>1, <1>2, <1>3, <1>4

-----------------------------------------------------------------------------
(* Output files.                                                           *)

FileOK(file) ==
  /\ file \in [len : {file.len},
               pkts : [0 .. file.len - 1 -> Payload \cup {<<>>, Blank}]]
  /\ file.len \in Nat

(* flush_chunk changes the chunk's positions and no other, and never       *)
(* shortens the file.                                                      *)
LEMMA OverwriteFacts ==
  ASSUME NEW file, FileOK(file), NEW size \in Nat, NEW off \in Nat, NEW n \in Nat,
         NEW data, \A i \in 0 .. n - 1 : data[i] \in Payload \cup {<<>>}
  PROVE  LET new == Overwrite(file, size, off, data, n)
         IN  /\ FileOK(new)
             /\ new.len >= off + n /\ new.len >= file.len
             /\ \A i \in 0 .. new.len - 1 :
                  new.pkts[i] = IF off <= i /\ i < off + n THEN data[i - off]
                                ELSE IF i < file.len THEN file.pkts[i] ELSE Blank
  <1> DEFINE new == Overwrite(file, size, off, data, n)
             base == IF file.len = 0 THEN size ELSE file.len
             len == IF off + n > base THEN off + n ELSE base
             pkts == [i \in 0 .. len - 1 |->
                        IF off <= i /\ i < off + n THEN data[i - off]
                        ELSE IF i < file.len THEN file.pkts[i] ELSE Blank]
  <1>1. /\ file.len \in Nat
        /\ file.pkts \in [0 .. file.len - 1 -> Payload \cup {<<>>, Blank}]
    BY DEF FileOK
  <1>2. len \in Nat /\ len >= off + n /\ len >= file.len BY <1>1
  <1>3. new = [len |-> len, pkts |-> pkts] BY DEF Overwrite
  <1> HIDE DEF len, new
  <1>4. ASSUME NEW i \in 0 .. len - 1 PROVE pkts[i] \in Payload \cup {<<>>, Blank}
    <2>1. CASE off <= i /\ i < off + n
      <3>1. i - off \in 0 .. n - 1 BY <1>2, <2>1
      <3> QED BY <2>1, <3>1
    <2>2. CASE ~(off <= i /\ i < off + n) BY <1>1, <1>2, <2>2
    <2> QED BY <2>1, <2>2
  <1>5. pkts \in [0 .. len - 1 -> Payload \cup {<<>>, Blank}] BY <1>4
  <1>6. \A i \in 0 .. len - 1 :
          pkts[i] = IF off <= i /\ i < off + n THEN data[i - off]
                    ELSE IF i < file.len THEN file.pkts[i] ELSE Blank
    OBVIOUS
  <1> HIDE DEF pkts
  <1>7. new.len = len /\ new.pkts = pkts BY <1>3
  <1>8. FileOK(new) BY <1>2, <1>3, <1>5, <1>7 DEF FileOK
  <1> QED BY <1>2, <1>6, <1>7, <1>8 DEF new

DiskOK == DOMAIN disk = Names /\ \A n \in Names : FileOK(disk[n])

(* A flush, finished or torn, writes the list's packets at the chunk's     *)
(* place.                                                                  *)
LEMMA FlushFacts ==
  ASSUME ShapeInv, at = "write", NEW n \in 0 .. packetList.total
  PROVE  LET off == ChunkOffset(currentChunk)
             new == FlushedFile(n)
             file == disk[state.name]
         IN  /\ off \in Nat /\ n \in Nat
             /\ FileOK(new) /\ FileOK(file)
             /\ new.len >= off + n /\ new.len >= file.len
             /\ \A i \in 0 .. new.len - 1 :
                  new.pkts[i] = IF off <= i /\ i < off + n THEN Assemble(packetList)[i - off]
                                ELSE IF i < file.len THEN file.pkts[i] ELSE Blank
  <1> DEFINE file == disk[state.name]
             off == ChunkOffset(currentChunk)
             new == FlushedFile(n)
             data == Assemble(packetList)
  <1>1. state # NoTransfer /\ currentChunk \in Chunks(state.size)
    BY DEF ShapeInv, ChunkKnown
  <1>2. state.size \in Nat /\ state.name \in Names
    BY <1>1 DEF ShapeInv, TypeOK, JournalState
  <1>3. off \in Nat BY <1>1, <1>2, ChunkBound
  <1>4. packetList.total \in Nat BY DEF ShapeInv, TypeOK, IsList
  <1>5. \A i \in 0 .. packetList.total - 1 : data[i] \in Payload \cup {<<>>}
    BY DEF Assemble, ShapeInv, TypeOK, IsList
  <1>6. FileOK(file) BY <1>2 DEF ShapeInv, TypeOK, FileOK
  <1>7. n \in Nat /\ n <= packetList.total BY <1>4
  <1>8. new = Overwrite(file, state.size, off, data, n) BY DEF FlushedFile
  <1> HIDE DEF data, off, file, new
  <1>9. \A i \in 0 .. n - 1 : data[i] \in Payload \cup {<<>>} BY <1>4, <1>5, <1>7
  <1> DEFINE over == Overwrite(file, state.size, off, data, n)
  <1>10. /\ FileOK(over)
         /\ over.len >= off + n /\ over.len >= file.len
         /\ \A i \in 0 .. over.len - 1 :
              over.pkts[i] = IF off <= i /\ i < off + n THEN data[i - off]
                             ELSE IF i < file.len THEN file.pkts[i] ELSE Blank
    BY <1>2, <1>3, <1>6, <1>7, <1>9, OverwriteFacts
  <1>11. new = over BY <1>8
  <1> HIDE DEF over
  <1> QED BY <1>3, <1>6, <1>7, <1>10, <1>11 DEF off, new, file, data

(* Flushing, in whole or in part, leaves files on disk.                    *)
LEMMA FlushKeepsDisk ==
  ASSUME ShapeInv, at = "write", NEW n \in 0 .. packetList.total,
         disk' = [disk EXCEPT ![state.name] = FlushedFile(n)]
  PROVE  /\ DiskOK'
         /\ state # NoTransfer /\ state.name \in Names
         /\ disk'[state.name] = FlushedFile(n)
         /\ \A m \in Names : m # state.name => disk'[m] = disk[m]
  <1>1. state # NoTransfer BY DEF ShapeInv, ChunkKnown
  <1>2. state.name \in Names BY <1>1 DEF ShapeInv, TypeOK, JournalState
  <1>3. FileOK(FlushedFile(n)) BY FlushFacts
  <1>4. DOMAIN disk = Names /\ \A m \in Names : FileOK(disk[m])
    BY DEF ShapeInv, TypeOK, FileOK
  <1>5. /\ DOMAIN disk' = Names
        /\ disk'[state.name] = FlushedFile(n)
        /\ \A m \in Names : m # state.name => disk'[m] = disk[m]
    BY <1>2, <1>4
  <1>6. DiskOK' BY <1>3, <1>4, <1>5 DEF DiskOK
  <1> QED BY <1>1, <1>2, <1>5, <1>6

-----------------------------------------------------------------------------
(* Steps that touch neither the transfer nor stable storage.               *)

LEMMA ReturnsTypes ==
  ASSUME TypeOK, transferActive' \in BOOLEAN, Returns
  PROVE  at' = "recv" /\ wasActive' \in BOOLEAN /\ lingering' \in BOOLEAN
  <1>1. wasActive \in BOOLEAN /\ lingering \in BOOLEAN BY DEF TypeOK
  <1> QED BY <1>1 DEF Returns

LEMMA Quiet ==
  ASSUME ShapeInv,
         UNCHANGED <<sending, transferActive, state, lastAckedId, currentChunk, packetList,
                     stable>>,
         at' = at \/ (at \in {"recv", "check"} /\ at' = "recv"),
         maxChunkSeen' \in Nat, wasActive' \in BOOLEAN, lingering' \in BOOLEAN,
         toReceiver' \in Seq(Wire), toSender' \in Seq(ReceiverPdu)
  PROVE  ShapeInv'
  <1> USE DEF ShapeInv, stable
  <1>1. at' \in Steps BY DEF TypeOK, Steps
  <1>2. Wire' = Wire BY SameWire
  <1>3. TypeOK' BY <1>1, <1>2 DEF TypeOK
  <1>4. (Announced /\ Coupled)'
    BY <1>2 DEF Announced, Coupled, FromMetadata, HasJournal
  <1>5. Counted(packetList)' OBVIOUS
  <1>6. ListOfChunk' BY DEF ListOfChunk
  <1>7. ChunkKnown' BY DEF ChunkKnown
  <1> QED BY <1>3, <1>4, <1>5, <1>6, <1>7

(* The handlers that drop a PDU, answer it or wait for another.            *)
LEMMA QuietSteps ==
  ASSUME ShapeInv, UNCHANGED sending,
         \/ DropNoise \/ IgnoreMetadata \/ ReackTransfer \/ DropData \/ ReackData
         \/ DropEof \/ NakCurrentChunk \/ NakMissingChunk \/ AwaitMoreChunks
         \/ AnswerResumeQuery
  PROVE  ShapeInv'
  <1> USE DEF memory, stable, line
  <1>1. TypeOK BY DEF ShapeInv
  <1>2. /\ maxChunkSeen \in Nat /\ transferActive \in BOOLEAN
        /\ toReceiver \in Seq(Wire) /\ toSender \in Seq(ReceiverPdu)
    BY <1>1 DEF TypeOK
  <1>3. transferActive \/ lastAckedId # 0 => state # NoTransfer /\ state.tid \in Tids
    BY <1>1 DEF ShapeInv, Coupled, TypeOK, JournalState
  <1>4. CASE DropNoise
    BY <1>1, <1>2, <1>4, ReceiveTakes, ReturnsTypes, Quiet DEF DropNoise
  <1>5. CASE IgnoreMetadata
    BY <1>1, <1>2, <1>5, ReceiveTakes, ReturnsTypes, Quiet DEF IgnoreMetadata
  <1>6. CASE ReackTransfer
    <2>1. Receive("Metadata") /\ Finished(Head(toReceiver)) BY <1>6 DEF ReackTransfer
    <2>2. Head(toReceiver).tid \in Tids
      BY <1>1, <2>1, ReceiveTakes, WireTypes DEF MetadataPdu
    <2>3. lastAckedId # 0 BY <2>1, <2>2, TidsAssumption DEF Finished
    <2>4. Ack(state.tid, UINT32_MAX) \in ReceiverPdu BY <1>3, <2>3, AckTypes
    <2>5. toSender' \in Seq(ReceiverPdu)
      BY <1>1, <1>6, <2>4, ReplyKeepsType DEF ReackTransfer
    <2> QED BY <1>1, <1>2, <1>6, <2>1, <2>5, ReceiveTakes, ReturnsTypes, Quiet
         DEF ReackTransfer
  <1>7. CASE DropData
    BY <1>1, <1>2, <1>7, ReceiveTakes, ReturnsTypes, Quiet DEF DropData
  <1>8. CASE ReackData
    <2> DEFINE d == Head(toReceiver)
    <2>1. Receive("Data") /\ transferActive /\ SeeChunk(d.chunk)
      BY <1>8 DEF ReackData, Acceptable
    <2>2. d.chunk \in Nat
      BY <1>1, <2>1, ReceiveTakes, WireTypes DEF DataPdu
    <2>3. maxChunkSeen' \in Nat BY <1>2, <2>1, <2>2 DEF SeeChunk
    <2>4. Ack(state.tid, d.chunk) \in ReceiverPdu BY <1>3, <2>1, <2>2, AckTypes
    <2>5. toSender' \in Seq(ReceiverPdu)
      BY <1>1, <1>2, <1>8, <2>4, ReplyKeepsType DEF ReackData
    <2> QED BY <1>1, <1>2, <1>8, <2>1, <2>3, <2>5, ReceiveTakes, ReturnsTypes, Quiet
         DEF ReackData
  <1>9. CASE DropEof
    BY <1>1, <1>2, <1>9, ReceiveTakes, ReturnsTypes, Quiet DEF DropEof
  <1>10. CASE NakCurrentChunk
    <2>1. at = "check" /\ state # NoTransfer /\ currentChunk \in Nat
      BY <1>1, <1>3, <1>10 DEF NakCurrentChunk, InProgress, ShapeInv, Coupled, TypeOK
    <2>2. NakPackets(currentChunk) \in ReceiverPdu BY <1>1, <2>1, NakPacketsType
    <2>3. toSender' \in Seq(ReceiverPdu)
      BY <1>1, <1>10, <2>2, ReplyKeepsType DEF NakCurrentChunk
    <2> QED BY <1>1, <1>2, <1>10, <2>1, <2>3, ReturnsTypes, Quiet DEF NakCurrentChunk
  <1>11. CASE NakMissingChunk
    <2>1. PICK c \in Nakable : Reply(NakChunk(c)) BY <1>11 DEF NakMissingChunk
    <2>2. /\ at = "check" /\ state # NoTransfer
          /\ state.tid \in Tids /\ state.size \in Nat
      BY <1>1, <1>11 DEF NakMissingChunk, ShapeInv, Coupled, TypeOK, JournalState
    <2>3. c \in Chunks(state.size)
      BY <2>1 DEF Nakable, MissingRanges, MaximalRanges, MissingChunks
    <2>4. c \in Nat /\ PacketsIn(state.size, c) \in Nat \ {0}
      BY <2>2, <2>3, ChunkBound
    <2>5. {[chunk |-> c, first |-> 0, last |-> PacketsIn(state.size, c) - 1]}
            \in SUBSET PacketNakRange
      BY <2>4 DEF PacketNakRange
    <2>6. NakChunk(c) \in ReceiverPdu BY <2>2, <2>5, NakTypes DEF NakChunk
    <2>7. toSender' \in Seq(ReceiverPdu) BY <1>1, <2>1, <2>6, ReplyKeepsType
    <2> QED BY <1>1, <1>2, <1>11, <2>2, <2>7, ReturnsTypes, Quiet DEF NakMissingChunk
  <1>12. CASE AwaitMoreChunks
    BY <1>1, <1>2, <1>12, ReturnsTypes, Quiet DEF AwaitMoreChunks
  <1>13. CASE AnswerResumeQuery
    <2> DEFINE q == Head(toReceiver)
    <2>1. Receive("ResumeQuery") BY <1>13 DEF AnswerResumeQuery
    <2>2. q.tid \in Tids
      BY <1>1, <2>1, ReceiveTakes, WireTypes DEF ResumeQueryPdu
    <2>3. PICK c \in ResumePoint(q) : Reply(ResumeInfo(q.tid, c))
      BY <1>13 DEF AnswerResumeQuery
    <2>4. transferActive => state.size \in Nat
      BY <1>1, <1>3 DEF TypeOK, JournalState
    <2>5. transferActive => \A e \in MissingChunks(state) : e \in Nat
      BY <2>4, ChunkBound DEF MissingChunks
    <2>6. c \in Nat \cup {UINT32_MAX}
      BY <2>3, <2>5 DEF ResumePoint, FirstMissing
    <2>7. toSender' \in Seq(ReceiverPdu)
      BY <1>1, <2>2, <2>3, <2>6, AckTypes, ReplyKeepsType
    <2> QED BY <1>1, <1>2, <1>13, <2>1, <2>7, ReceiveTakes, ReturnsTypes, Quiet
         DEF AnswerResumeQuery
  <1> QED BY <1>4, <1>5, <1>6, <1>7, <1>8, <1>9, <1>10, <1>11, <1>12, <1>13

(* The line delivers, loses or hands over PDUs.                            *)
LEMMA LineSteps ==
  ASSUME ShapeInv, UNCHANGED sending, LineDelivers \/ LineDrains
  PROVE  ShapeInv'
  <1> USE DEF memory, mainLoop, stable, line
  <1>1. TypeOK BY DEF ShapeInv
  <1>2. /\ maxChunkSeen \in Nat /\ wasActive \in BOOLEAN /\ lingering \in BOOLEAN
        /\ toReceiver \in Seq(Wire) /\ toSender \in Seq(ReceiverPdu)
    BY <1>1 DEF TypeOK
  <1>3. CASE LineDelivers
    <2>1. toReceiver' \in Seq(Wire) BY <1>2, <1>3 DEF LineDelivers, Transmit
    <2> QED BY <1>2, <1>3, <2>1, Quiet DEF LineDelivers
  <1>4. CASE LineDrains
    <2>1. toSender' \in Seq(ReceiverPdu)
      <3>1. CASE toSender' = <<>> BY <3>1
      <3>2. CASE \E i \in DOMAIN toSender :
                   toSender' = SubSeq(toSender, 1, i - 1) \o SubSeq(toSender, i + 1, Len(toSender))
        BY <1>2, <3>2
      <3> QED BY <1>4, <3>1, <3>2 DEF LineDrains
    <2> QED BY <1>2, <1>4, <2>1, Quiet DEF LineDrains
  <1> QED BY <1>3, <1>4

-----------------------------------------------------------------------------
(* Steps that start, forget or end a transfer.                             *)

LEMMA Forgets ==
  ASSUME ForgetChunk, at' \notin {"write", "mark", "ack"}
  PROVE  /\ IsList(packetList', Payload) /\ currentChunk' = UINT32_MAX
         /\ Counted(packetList)' /\ ListOfChunk' /\ ChunkKnown'
  <1>1. packetList' = InitList(0) /\ currentChunk' = UINT32_MAX
    BY DEF ForgetChunk, EmptyList
  <1>2. IsList(InitList(0), Payload) /\ InitList(0).total = 0 /\ Counted(InitList(0))
    BY InitListFacts
  <1> QED BY <1>1, <1>2 DEF ListOfChunk, ChunkKnown

LEMMA BootSteps ==
  ASSUME ShapeInv, UNCHANGED sending, BootFresh \/ BootResume
  PROVE  ShapeInv'
  <1> USE DEF memory, mainLoop, stable, line
  <1>0. Wire' = Wire BY SameWire
  <1>1. TypeOK /\ Announced /\ Coupled /\ ListOfChunk /\ ChunkKnown
        /\ Counted(packetList)
    BY DEF ShapeInv
  <1>2. CASE BootFresh
    <2> USE <1>2 DEF BootFresh, Continue
    <2>1. TypeOK' BY <1>0, <1>1 DEF TypeOK, Steps
    <2>2. Announced' BY <1>0, <1>1 DEF Announced, HasJournal, Readable, FromMetadata
    <2>3. Coupled' BY <1>1 DEF Coupled, HasJournal, Readable
    <2>4. Counted(packetList)' BY <1>1
    <2>5. ListOfChunk' BY <1>1 DEF ListOfChunk
    <2>6. ChunkKnown' BY <1>1 DEF ChunkKnown
    <2> QED BY <2>1, <2>2, <2>3, <2>4, <2>5, <2>6 DEF ShapeInv
  <1>3. CASE BootResume
    <2> USE <1>3 DEF BootResume, Continue
    <2>1. journal \in JournalState /\ journal # NoTransfer /\ state' = journal
      BY <1>1, NoTransferAssumption DEF TypeOK, Readable
    <2>2. at' \in {"check", "recv"} OBVIOUS
    <2>3. /\ IsList(packetList', Payload) /\ currentChunk' = UINT32_MAX
          /\ Counted(packetList)' /\ ListOfChunk' /\ ChunkKnown'
      BY <2>2, Forgets
    <2>4. TypeOK' BY <1>0, <1>1, <2>1, <2>2, <2>3 DEF TypeOK, Steps
    <2>5. Announced' BY <1>0, <1>1, <2>1 DEF Announced, HasJournal, FromMetadata
    <2>6. Coupled' BY <2>1, <2>2 DEF Coupled, HasJournal
    <2> QED BY <2>3, <2>4, <2>5, <2>6 DEF ShapeInv
  <1> QED BY <1>2, <1>3

LEMMA MetadataSteps ==
  ASSUME ShapeInv, UNCHANGED sending, AcceptMetadata \/ CreateJournal
  PROVE  ShapeInv'
  <1> USE DEF memory, mainLoop, stable, line
  <1>0. Wire' = Wire BY SameWire
  <1>1. TypeOK /\ Announced /\ Coupled /\ ListOfChunk /\ ChunkKnown
        /\ Counted(packetList)
    BY DEF ShapeInv
  <1>2. CASE AcceptMetadata
    <2> DEFINE m == Head(toReceiver)
    <2>1. m \in Wire /\ m \in MetadataPdu /\ at = "recv" /\ toReceiver' \in Seq(Wire)
      BY <1>1, <1>2, ReceiveTakes, WireTypes DEF AcceptMetadata
    <2>2. state' = NewState(m) BY <1>2 DEF AcceptMetadata
    <2> DEFINE s == NewState(m)
    <2> HIDE DEF m
    <2>11. /\ m.tid \in Tids /\ m.size \in Nat /\ m.sum \in Files /\ m.name \in Names
      BY <2>1 DEF MetadataPdu
    <2>12. /\ s \in JournalState /\ s.done = {}
          /\ s.tid = m.tid /\ s.size = m.size /\ s.sum = m.sum /\ s.name = m.name
      BY <2>11 DEF NewState, JournalState
    <2> HIDE DEF s
    <2>3. /\ state' \in JournalState /\ state' # NoTransfer /\ state'.done = {}
          /\ m.tid = state'.tid /\ m.size = state'.size
          /\ m.sum = state'.sum /\ m.name = state'.name
      BY <2>2, <2>12, NoTransferAssumption DEF s
    <2> USE <1>2 DEF AcceptMetadata, Continue
    <2>4. TypeOK' BY <1>0, <1>1, <2>1, <2>3 DEF TypeOK, Steps
    <2>5. Announced' BY <1>0, <2>1, <2>3 DEF Announced, HasJournal, Readable, FromMetadata
    <2>6. Coupled' BY <2>3 DEF Coupled, HasJournal, Readable
    <2>7. Counted(packetList)' BY <1>1
    <2>8. ListOfChunk' BY <1>1 DEF ListOfChunk
    <2>9. ChunkKnown' BY DEF ChunkKnown
    <2> QED BY <2>4, <2>5, <2>6, <2>7, <2>8, <2>9 DEF ShapeInv
  <1>3. CASE CreateJournal
    <2> USE <1>3 DEF CreateJournal
    <2>1. /\ state \in JournalState /\ state # NoTransfer /\ state.done = {}
          /\ journal = NoJournal
      BY <1>1 DEF Coupled, TypeOK
    <2>2. journal' = state \/ journal' = NoJournal BY <2>1 DEF WriteJournal
    <2>3. at' = "recv" /\ wasActive' \in BOOLEAN /\ lingering' \in BOOLEAN
      BY <1>1, ReturnsTypes
    <2>4. /\ IsList(packetList', Payload) /\ currentChunk' = UINT32_MAX
          /\ Counted(packetList)' /\ ListOfChunk' /\ ChunkKnown'
      BY <2>3, Forgets
    <2>5. TypeOK' BY <1>0, <1>1, <2>1, <2>2, <2>3, <2>4 DEF TypeOK, Steps
    <2>6. Announced' BY <1>0, <1>1, <2>1, <2>2 DEF Announced, HasJournal, Readable, FromMetadata
    <2>7. Coupled' BY <2>1, <2>2, <2>3 DEF Coupled, HasJournal, Readable
    <2> QED BY <2>4, <2>5, <2>6, <2>7 DEF ShapeInv
  <1> QED BY <1>2, <1>3

(* The transfer is over: its journal is removed.                           *)
LEMMA EndSteps ==
  ASSUME ShapeInv, UNCHANGED sending, RejectFile \/ AcceptFile \/ CloseTransfer
  PROVE  ShapeInv'
  <1> USE DEF memory, mainLoop, stable, line
  <1>0. Wire' = Wire BY SameWire
  <1>1. TypeOK /\ Announced /\ Coupled /\ ListOfChunk /\ ChunkKnown
        /\ Counted(packetList)
    BY DEF ShapeInv
  <1>2. CASE RejectFile \/ CloseTransfer
    <2> USE <1>2 DEF RejectFile, CloseTransfer, AllReceived
    <2>1. at' = "recv" /\ wasActive' \in BOOLEAN /\ lingering' \in BOOLEAN
      BY <1>1, ReturnsTypes
    <2>2. at \in {"check", "close"} /\ transferActive' = FALSE /\ journal' = NoJournal
      OBVIOUS
    <2>3. TypeOK' BY <1>0, <1>1, <2>1 DEF TypeOK, Steps
    <2>4. Announced' BY <1>0, <1>1 DEF Announced, HasJournal, Readable, FromMetadata
    <2>5. Coupled' BY <1>1, <2>1 DEF Coupled, HasJournal, Readable
    <2>6. Counted(packetList)' BY <1>1
    <2>7. ListOfChunk' BY <1>1, <2>1, <2>2 DEF ListOfChunk
    <2>8. ChunkKnown' BY <1>1, <2>1, <2>2 DEF ChunkKnown
    <2> QED BY <2>3, <2>4, <2>5, <2>6, <2>7, <2>8 DEF ShapeInv
  <1>3. CASE AcceptFile
    <2> USE <1>3 DEF AcceptFile, AllReceived, Continue
    <2>1. state \in JournalState /\ state # NoTransfer /\ state.tid \in Tids
      BY <1>1 DEF Coupled, TypeOK, JournalState
    <2>2. toSender' \in Seq(ReceiverPdu) BY <1>1, <2>1, AckTypes, ReplyKeepsType
    <2>3. TypeOK' BY <1>0, <1>1, <2>1, <2>2 DEF TypeOK, Steps
    <2>4. Announced' BY <1>0, <1>1 DEF Announced, HasJournal, FromMetadata
    <2>5. Coupled' BY <1>1, <2>1 DEF Coupled, HasJournal
    <2>6. Counted(packetList)' BY <1>1
    <2>7. ListOfChunk' BY <1>1 DEF ListOfChunk
    <2>8. ChunkKnown' BY <1>1 DEF ChunkKnown
    <2> QED BY <2>3, <2>4, <2>5, <2>6, <2>7, <2>8 DEF ShapeInv
  <1> QED BY <1>2, <1>3

LEMMA EofStep ==
  ASSUME ShapeInv, UNCHANGED sending, AcceptEof
  PROVE  ShapeInv'
  <1> USE DEF memory, mainLoop, stable, line
  <1>0. Wire' = Wire BY SameWire
  <1> USE DEF AcceptEof, Continue
  <1>1. TypeOK /\ Announced /\ Coupled /\ ListOfChunk /\ ChunkKnown
        /\ Counted(packetList)
    BY DEF ShapeInv
  <1>2. at = "recv" /\ toReceiver' \in Seq(Wire) BY <1>1, ReceiveTakes
  <1>3. state \in JournalState /\ state # NoTransfer
    BY <1>1 DEF Coupled, TypeOK
  <1>4. /\ state' \in JournalState /\ state' # NoTransfer
        /\ state'.tid = state.tid /\ state'.size = state.size /\ state'.sum = state.sum
        /\ state'.name = state.name /\ state'.done = state.done
    BY <1>3, NoTransferAssumption DEF JournalState
  <1>5. journal' = journal \/ (HasJournal /\ journal' = [journal EXCEPT !.eof = TRUE])
    BY DEF WriteJournal, MarkedEof, HasJournal
  <1>6. /\ journal' \in JournalState \cup {NoJournal, CorruptJournal}
        /\ HasJournal' =>
             /\ HasJournal
             /\ journal'.tid = journal.tid /\ journal'.size = journal.size
             /\ journal'.sum = journal.sum /\ journal'.name = journal.name
             /\ journal'.done = journal.done
    BY <1>1, <1>5 DEF TypeOK, HasJournal, Readable, JournalState
  <1>7. TypeOK' BY <1>0, <1>1, <1>2, <1>4, <1>6 DEF TypeOK, Steps
  <1>8. Announced' BY <1>0, <1>1, <1>3, <1>4, <1>6 DEF Announced, FromMetadata
  <1>9. Coupled' BY <1>1, <1>4, <1>6 DEF Coupled
  <1>10. Counted(packetList)' BY <1>1
  <1>11. ListOfChunk' BY <1>1, <1>2, <1>4 DEF ListOfChunk
  <1>12. ChunkKnown' BY <1>1, <1>2, <1>4 DEF ChunkKnown
  <1> QED BY <1>7, <1>8, <1>9, <1>10, <1>11, <1>12 DEF ShapeInv

-----------------------------------------------------------------------------
(* A packet arrives.                                                       *)

(* handle_data puts an accepted packet into a list of its own chunk.       *)
LEMMA StoreFacts ==
  ASSUME ShapeInv, StoreData
  PROVE  LET d == Head(toReceiver)
             old == ListFor(d)
         IN  /\ at = "recv" /\ d \in Wire /\ d \in DataPdu /\ d.tid = state.tid
             /\ state # NoTransfer /\ transferActive
             /\ d.chunk \in Nat /\ d.chunk \in Chunks(state.size) /\ d.chunk \notin state.done
             /\ currentChunk' = d.chunk
             /\ packetList' = Insert(old, d.pkt, d.data, d.ok)
             /\ IsList(old, Payload) /\ Counted(old) /\ old.total = d.total
             /\ old = InitList(d.total) \/ (d.chunk = currentChunk /\ old = packetList)
             /\ IsList(packetList', Payload) /\ Counted(packetList')
             /\ packetList'.total = PacketsIn(state.size, d.chunk)
             /\ d.total = PacketsIn(state.size, d.chunk) /\ d.total \in Nat /\ d.total > 0
  <1> DEFINE d == Head(toReceiver)
             old == ListFor(d)
             new == Insert(old, d.pkt, d.data, d.ok)
  <1>1. TypeOK /\ Announced /\ Coupled /\ ListOfChunk /\ Counted(packetList)
    BY DEF ShapeInv
  <1>2. at = "recv" /\ d \in Wire /\ d \in DataPdu
    BY <1>1, ReceiveTakes, WireTypes DEF StoreData
  <1>3. /\ transferActive /\ d.tid = state.tid
        /\ d.chunk \in Chunks(state.size) /\ d.total = PacketsIn(state.size, d.chunk)
        /\ d.chunk \notin state.done
        /\ packetList' = new /\ currentChunk' = d.chunk
    BY DEF StoreData, Acceptable
  <1>4. state # NoTransfer /\ state.size \in Nat
    BY <1>1, <1>3 DEF Coupled, TypeOK, JournalState
  <1>5. d.chunk \in Nat /\ d.total \in Nat /\ d.total > 0 /\ d.chunk # UINT32_MAX
    BY <1>3, <1>4, ChunkBound, Uint32MaxAssumption
  <1> HIDE DEF d, old, new
  <1>6. /\ IsList(old, Payload) /\ Counted(old) /\ old.total = d.total
        /\ old = InitList(d.total) \/ (d.chunk = currentChunk /\ old = packetList)
    <2>1. CASE d.chunk # currentChunk
      <3>1. old = InitList(d.total) BY <2>1 DEF old, ListFor
      <3> QED BY <1>5, <3>1, InitListFacts
    <2>2. CASE d.chunk = currentChunk
      <3>1. old = packetList BY <2>2 DEF old, ListFor
      <3> QED BY <1>1, <1>2, <1>3, <1>5, <2>2, <3>1 DEF TypeOK, ListOfChunk
    <2> QED BY <2>1, <2>2
  <1>7. d.pkt \in Nat /\ d.data \in Payload /\ d.ok \in BOOLEAN BY <1>2 DEF DataPdu
  <1>8. IsList(new, Payload) /\ Counted(new) /\ new.total = d.total
    <2>1. Counted(new) BY <1>6, <1>7, InsertCounts DEF new
    <2>2. CASE d.pkt < old.total
      <3> DEFINE made == Insert(old, d.pkt, d.data, d.ok)
      <3>1. IsList(made, Payload) BY <1>6, <1>7, <2>2, InsertFacts
      <3>2. made.total = old.total BY <1>6, <1>7, <2>2, InsertFacts
      <3> QED BY <1>6, <2>1, <3>1, <3>2 DEF new
    <2>3. CASE ~(d.pkt < old.total)
      <3>1. new = old BY <1>5, <1>6, <1>7, <2>3 DEF new, Insert
      <3> QED BY <1>6, <3>1
    <2> QED BY <2>2, <2>3
  <1> QED BY <1>2, <1>3, <1>4, <1>5, <1>6, <1>8 DEF d, old, new

LEMMA DataStep ==
  ASSUME ShapeInv, UNCHANGED sending, StoreData
  PROVE  ShapeInv'
  <1> USE DEF memory, mainLoop, stable, line
  <1>0. Wire' = Wire BY SameWire
  <1> DEFINE d == Head(toReceiver)
  <1>1. TypeOK /\ Announced /\ Coupled /\ ListOfChunk
    BY DEF ShapeInv
  <1>2. /\ state # NoTransfer /\ transferActive
        /\ d.chunk \in Nat /\ d.chunk \in Chunks(state.size) /\ d.chunk \notin state.done
        /\ currentChunk' = d.chunk
        /\ IsList(packetList', Payload) /\ Counted(packetList')
        /\ packetList'.total = PacketsIn(state.size, d.chunk)
        /\ packetList'.total > 0
    BY StoreFacts
  <1>3. /\ at = "recv" /\ toReceiver' \in Seq(Wire) /\ SeeChunk(d.chunk)
        /\ UNCHANGED <<transferActive, state, lastAckedId, stable>>
    BY <1>1, ReceiveTakes DEF StoreData
  <1>4. toSender' \in Seq(ReceiverPdu)
    <2>1. CASE Abandons(d)
      <3>1. currentChunk \in Nat BY <1>1, <2>1 DEF Abandons, TypeOK
      <3>2. NakPackets(currentChunk) \in ReceiverPdu BY <1>1, <1>2, <3>1, NakPacketsType
      <3> QED BY <1>1, <2>1, <3>2, ReplyKeepsType DEF StoreData
    <2>2. CASE ~Abandons(d) BY <1>1, <2>2 DEF StoreData, TypeOK
    <2> QED BY <2>1, <2>2
  <1>5. /\ (at' = "write" /\ IsComplete(packetList')) \/ at' = "recv"
        /\ wasActive' \in BOOLEAN /\ lingering' \in BOOLEAN
    <2>1. CASE IsComplete(packetList')
      BY <1>1, <2>1 DEF StoreData, Continue, TypeOK
    <2>2. CASE ~IsComplete(packetList')
      BY <1>1, <1>3, <2>2, ReturnsTypes DEF StoreData, TypeOK
    <2> QED BY <2>1, <2>2
  <1>6. maxChunkSeen' \in Nat BY <1>1, <1>2, <1>3 DEF SeeChunk, TypeOK
  <1> HIDE DEF d
  <1>7. TypeOK' BY <1>0, <1>1, <1>2, <1>3, <1>4, <1>5, <1>6 DEF TypeOK, Steps
  <1>8. Announced' BY <1>0, <1>1, <1>3 DEF Announced, HasJournal, FromMetadata
  <1>9. Coupled' BY <1>1, <1>2, <1>3, <1>5 DEF Coupled, HasJournal
  <1>10. Counted(packetList)' BY <1>2
  <1>11. ListOfChunk'
    BY <1>2, <1>3, <1>5, Uint32MaxAssumption DEF ListOfChunk
  <1>12. ChunkKnown' BY <1>2, <1>3, <1>5, Uint32MaxAssumption DEF ChunkKnown
  <1> QED BY <1>7, <1>8, <1>9, <1>10, <1>11, <1>12 DEF ShapeInv

-----------------------------------------------------------------------------
(* The chunk is written, marked and acknowledged.                          *)

LEMMA WriteStep ==
  ASSUME ShapeInv, UNCHANGED sending, WriteChunk
  PROVE  ShapeInv'
  <1> USE DEF memory, mainLoop, stable, line
  <1>0. Wire' = Wire BY SameWire
  <1>1. TypeOK /\ Announced /\ Coupled /\ ListOfChunk /\ ChunkKnown
        /\ Counted(packetList)
    BY DEF ShapeInv
  <1>2. /\ at = "write" /\ at' = "mark"
        /\ disk' = [disk EXCEPT ![state.name] = FlushedFile(packetList.total)]
        /\ UNCHANGED <<memory, journal, line, mainLoop>>
    BY DEF WriteChunk, Continue
  <1>3. packetList.total \in 0 .. packetList.total BY <1>1 DEF TypeOK, IsList
  <1>4. DiskOK' BY <1>2, <1>3, FlushKeepsDisk
  <1>5. TypeOK' BY <1>0, <1>1, <1>2, <1>4 DEF TypeOK, Steps, DiskOK, FileOK
  <1>6. Announced' BY <1>0, <1>1, <1>2 DEF Announced, HasJournal, FromMetadata
  <1>7. Coupled' BY <1>1, <1>2 DEF Coupled, HasJournal
  <1>8. Counted(packetList)' BY <1>1, <1>2
  <1>9. ListOfChunk' BY <1>1, <1>2 DEF ListOfChunk
  <1>10. ChunkKnown' BY <1>1, <1>2 DEF ChunkKnown
  <1> QED BY <1>5, <1>6, <1>7, <1>8, <1>9, <1>10 DEF ShapeInv

(* mark_chunk_done, in memory and in the journal, if it is written.        *)
LEMMA MarkFacts ==
  ASSUME ShapeInv, MarkChunk
  PROVE  /\ at = "mark" /\ at' = "ack" /\ transferActive
         /\ currentChunk # UINT32_MAX /\ currentChunk \in Nat
         /\ UNCHANGED <<transferActive, lastAckedId, currentChunk, maxChunkSeen, packetList,
                        disk, line, mainLoop>>
         /\ state \in JournalState /\ state # NoTransfer
         /\ state' \in JournalState /\ state' # NoTransfer
         /\ state'.tid = state.tid /\ state'.size = state.size /\ state'.sum = state.sum
         /\ state'.name = state.name /\ state'.done = state.done \cup {currentChunk}
         /\ journal' \in JournalState \cup {NoJournal, CorruptJournal}
         /\ HasJournal' =>
              /\ HasJournal
              /\ journal'.tid = journal.tid /\ journal'.size = journal.size
              /\ journal'.sum = journal.sum /\ journal'.name = journal.name
              /\ journal'.done \subseteq journal.done \cup {currentChunk}
  <1> USE DEF memory, mainLoop, stable, line
  <1>1. TypeOK /\ Coupled /\ ChunkKnown BY DEF ShapeInv
  <1>2. /\ at = "mark" /\ at' = "ack"
        /\ state' = [state EXCEPT !.done = @ \cup {currentChunk}]
        /\ journal' = MarkedDone(journal, currentChunk) \/ journal' = journal
        /\ UNCHANGED <<transferActive, lastAckedId, currentChunk, maxChunkSeen, packetList,
                       disk, line, mainLoop>>
    BY DEF MarkChunk, Continue, WriteJournal
  <1>3. /\ state \in JournalState /\ state # NoTransfer /\ transferActive
        /\ currentChunk # UINT32_MAX /\ currentChunk \in Nat
    BY <1>1, <1>2 DEF Coupled, TypeOK, ChunkKnown
  <1>4. /\ state' \in JournalState /\ state' # NoTransfer
        /\ state'.tid = state.tid /\ state'.size = state.size /\ state'.sum = state.sum
        /\ state'.name = state.name /\ state'.done = state.done \cup {currentChunk}
    BY <1>2, <1>3, NoTransferAssumption DEF JournalState
  <1>5. journal' = journal
        \/ (HasJournal /\ journal' = [journal EXCEPT !.done = @ \cup {currentChunk}])
    BY <1>2 DEF MarkedDone, HasJournal
  <1>6. journal \in JournalState \cup {NoJournal, CorruptJournal}
    BY <1>1 DEF TypeOK
  <1>7. CASE journal' = journal BY <1>2, <1>3, <1>4, <1>6, <1>7 DEF HasJournal, Readable
  <1>8. CASE HasJournal /\ journal' = [journal EXCEPT !.done = @ \cup {currentChunk}]
    <2>1. HasJournal /\ journal \in JournalState BY <1>6, <1>8 DEF HasJournal, Readable
    <2>2. /\ journal' \in JournalState
          /\ journal'.tid = journal.tid /\ journal'.size = journal.size
          /\ journal'.sum = journal.sum /\ journal'.name = journal.name
          /\ journal'.done = journal.done \cup {currentChunk}
      BY <1>3, <1>8, <2>1 DEF JournalState
    <2> QED BY <1>2, <1>3, <1>4, <2>1, <2>2
  <1> QED BY <1>5, <1>7, <1>8

LEMMA MarkStep ==
  ASSUME ShapeInv, UNCHANGED sending, MarkChunk
  PROVE  ShapeInv'
  <1> USE DEF mainLoop, line
  <1>0. Wire' = Wire BY SameWire
  <1>1. TypeOK /\ Announced /\ Coupled /\ ListOfChunk /\ ChunkKnown
        /\ Counted(packetList)
    BY DEF ShapeInv
  <1>2. /\ at = "mark" /\ at' = "ack" /\ transferActive
        /\ currentChunk # UINT32_MAX
        /\ UNCHANGED <<transferActive, lastAckedId, currentChunk, maxChunkSeen, packetList,
                       disk, line, mainLoop>>
    BY MarkFacts
  <1>3. /\ state # NoTransfer /\ state' \in JournalState /\ state' # NoTransfer
        /\ state'.tid = state.tid /\ state'.size = state.size /\ state'.sum = state.sum
        /\ state'.name = state.name
    BY MarkFacts
  <1>4. /\ journal' \in JournalState \cup {NoJournal, CorruptJournal}
        /\ HasJournal' =>
             /\ HasJournal
             /\ journal'.tid = journal.tid /\ journal'.size = journal.size
             /\ journal'.sum = journal.sum /\ journal'.name = journal.name
    BY MarkFacts
  <1>5. TypeOK' BY <1>0, <1>1, <1>2, <1>3, <1>4 DEF TypeOK, Steps
  <1>6. Announced' BY <1>0, <1>1, <1>3, <1>4 DEF Announced, FromMetadata
  <1>7. Coupled' BY <1>1, <1>2, <1>3, <1>4 DEF Coupled
  <1>8. Counted(packetList)' BY <1>1, <1>2
  <1>9. ListOfChunk' BY <1>1, <1>2, <1>3 DEF ListOfChunk
  <1>10. ChunkKnown' BY <1>1, <1>2, <1>3 DEF ChunkKnown
  <1> QED BY <1>5, <1>6, <1>7, <1>8, <1>9, <1>10 DEF ShapeInv

LEMMA AckStep ==
  ASSUME ShapeInv, UNCHANGED sending, AckChunk
  PROVE  ShapeInv'
  <1> USE DEF memory, mainLoop, stable, line
  <1>0. Wire' = Wire BY SameWire
  <1>1. TypeOK /\ Announced /\ Coupled /\ ChunkKnown
    BY DEF ShapeInv
  <1>2. /\ at = "ack" /\ Reply(Ack(state.tid, currentChunk)) /\ ForgetChunk
        /\ UNCHANGED <<transferActive, state, lastAckedId, maxChunkSeen, stable, toReceiver>>
    BY DEF AckChunk
  <1>3. state.tid \in Tids /\ state # NoTransfer
    BY <1>1, <1>2 DEF Coupled, TypeOK, JournalState
  <1>4. Ack(state.tid, currentChunk) \in ReceiverPdu BY <1>1, <1>3, AckTypes DEF TypeOK
  <1>5. toSender' \in Seq(ReceiverPdu) BY <1>1, <1>2, <1>4, ReplyKeepsType
  <1>6. at' \in {"check", "recv"} /\ wasActive' \in BOOLEAN /\ lingering' \in BOOLEAN
    <2>1. CASE state.eof BY <1>1, <2>1 DEF AckChunk, Continue, TypeOK
    <2>2. CASE ~state.eof BY <1>1, <1>2, <2>2, ReturnsTypes DEF AckChunk, TypeOK
    <2> QED BY <2>1, <2>2
  <1>7. /\ IsList(packetList', Payload) /\ currentChunk' = UINT32_MAX
        /\ Counted(packetList)' /\ ListOfChunk' /\ ChunkKnown'
    BY <1>2, <1>6, Forgets
  <1>8. TypeOK' BY <1>0, <1>1, <1>2, <1>5, <1>6, <1>7 DEF TypeOK, Steps
  <1>9. Announced' BY <1>0, <1>1, <1>2 DEF Announced, HasJournal, FromMetadata
  <1>10. Coupled' BY <1>1, <1>2, <1>6 DEF Coupled, HasJournal
  <1> QED BY <1>7, <1>8, <1>9, <1>10 DEF ShapeInv

-----------------------------------------------------------------------------
(* The process dies, with or without the contents of state.bin.            *)

(* What is left of the journal.                                            *)
LEMMA JournalLeft ==
  ASSUME TypeOK, journal' = journal \/ JournalSetBack
  PROVE  /\ journal' \in JournalState \cup {NoJournal, CorruptJournal}
         /\ HasJournal' =>
              /\ HasJournal
              /\ journal'.tid = journal.tid /\ journal'.size = journal.size
              /\ journal'.sum = journal.sum /\ journal'.name = journal.name
              /\ journal'.done \subseteq journal.done
  <1>1. journal \in JournalState \cup {NoJournal, CorruptJournal} BY DEF TypeOK
  <1>2. CASE journal' = journal BY <1>1, <1>2 DEF HasJournal, Readable
  <1>3. CASE journal' \in {NoJournal, CorruptJournal} BY <1>3 DEF HasJournal, Readable
  <1>4. CASE /\ Readable(journal)
             /\ \E d \in SUBSET journal.done, e \in {FALSE, journal.eof} :
                  journal' = [journal EXCEPT !.done = d, !.eof = e]
    <2>1. PICK d \in SUBSET journal.done, e \in {FALSE, journal.eof} :
            journal' = [journal EXCEPT !.done = d, !.eof = e]
      BY <1>4
    <2>2. journal \in JournalState /\ HasJournal BY <1>1, <1>4 DEF HasJournal, Readable
    <2>3. /\ journal' \in JournalState
          /\ journal'.tid = journal.tid /\ journal'.size = journal.size
          /\ journal'.sum = journal.sum /\ journal'.name = journal.name
          /\ journal'.done \subseteq journal.done
      BY <2>1, <2>2 DEF JournalState
    <2> QED BY <2>2, <2>3
  <1> QED BY <1>2, <1>3, <1>4 DEF JournalSetBack

LEMMA TornKeepsDisk ==
  ASSUME ShapeInv, MaybeTorn
  PROVE  DiskOK'
  <1>1. CASE disk' = disk BY <1>1 DEF ShapeInv, TypeOK, DiskOK, FileOK
  <1>2. CASE disk' # disk
    <2>1. at = "write" /\ \E n \in 0 .. packetList.total :
              disk' = [disk EXCEPT ![state.name] = FlushedFile(n)]
      BY <1>2 DEF MaybeTorn
    <2> QED BY <2>1, FlushKeepsDisk
  <1> QED BY <1>1, <1>2

(* Another sender only comes when there is no journal of the last one.     *)
LEMMA DeathSteps ==
  ASSUME ShapeInv,
         \/ UNCHANGED sending /\ (StopLingering \/ FlushThrows \/ Crash)
         \/ NewSender
  PROVE  ShapeInv'
  <1> USE DEF stable, line
  <1>1. TypeOK /\ Announced BY DEF ShapeInv
  <1>2. /\ MemoryLost /\ at' \in {"exited", "boot"}
        /\ disk' = disk \/ MaybeTorn
        /\ journal' = journal \/ JournalSetBack
    BY DEF StopLingering, FlushThrows, Crash, NewSender, StartAnew
  <1>3. sending' \in Senders
    BY <1>1 DEF TypeOK, NewSender
  <1>4. \/ UNCHANGED line /\ Wire' = Wire
        \/ toReceiver' = <<>> /\ toSender' = <<>>
    BY SameWire DEF StopLingering, FlushThrows, Crash, NewSender, StartAnew
  <1>5. HasJournal' => Wire' = Wire
    <2>1. CASE UNCHANGED sending BY <2>1, SameWire
    <2>2. CASE ~UNCHANGED sending
      BY <2>2 DEF NewSender, StartAnew, HasJournal, Readable
    <2> QED BY <2>1, <2>2
  <1>6. DiskOK'
    <2>1. disk' = disk => MaybeTorn BY DEF MaybeTorn
    <2> QED BY <1>2, <2>1, TornKeepsDisk
  <1>7. /\ journal' \in JournalState \cup {NoJournal, CorruptJournal}
        /\ HasJournal' =>
             /\ HasJournal
             /\ journal'.tid = journal.tid /\ journal'.size = journal.size
             /\ journal'.sum = journal.sum /\ journal'.name = journal.name
    BY <1>1, <1>2, JournalLeft
  <1>8. /\ IsList(packetList', Payload) /\ currentChunk' = UINT32_MAX
        /\ Counted(packetList)' /\ ListOfChunk' /\ ChunkKnown'
    BY <1>2, Forgets DEF MemoryLost
  <1>9. TypeOK'
    <2>1. (toReceiver \in Seq(Wire))' /\ toSender' \in Seq(ReceiverPdu)
      <3>1. toReceiver \in Seq(Wire) /\ toSender \in Seq(ReceiverPdu) BY <1>1 DEF TypeOK
      <3>2. CASE UNCHANGED line /\ Wire' = Wire BY <3>1, <3>2
      <3>3. CASE toReceiver' = <<>> /\ toSender' = <<>> BY <3>3
      <3> QED BY <1>4, <3>2, <3>3
    <2>2. /\ at' \in Steps /\ transferActive' \in BOOLEAN /\ state' = NoTransfer
          /\ lastAckedId' = 0 /\ maxChunkSeen' \in Nat
          /\ wasActive' \in BOOLEAN /\ lingering' \in BOOLEAN
      BY <1>2 DEF MemoryLost, Steps
    <2> QED BY <1>3, <1>6, <1>7, <1>8, <2>1, <2>2 DEF TypeOK, DiskOK, FileOK
  <1>10. Announced'
    <2>1. state' = NoTransfer BY <1>2 DEF MemoryLost
    <2> QED BY <1>1, <1>5, <1>7, <2>1 DEF Announced, FromMetadata
  <1>11. Coupled' BY <1>2 DEF Coupled, MemoryLost
  <1> QED BY <1>8, <1>9, <1>10, <1>11 DEF ShapeInv

LEMMA RelaunchStep ==
  ASSUME ShapeInv, UNCHANGED sending, Relaunch
  PROVE  ShapeInv'
  <1> USE DEF memory, mainLoop, stable, line
  <1>0. Wire' = Wire BY SameWire
  <1>1. TypeOK /\ Announced /\ Coupled /\ ListOfChunk /\ ChunkKnown
        /\ Counted(packetList)
    BY DEF ShapeInv
  <1> USE DEF Relaunch
  <1>2. TypeOK' BY <1>0, <1>1 DEF TypeOK, Steps
  <1>3. Announced' BY <1>0, <1>1 DEF Announced, HasJournal, FromMetadata
  <1>4. Coupled' BY <1>1 DEF Coupled, HasJournal
  <1>5. Counted(packetList)' BY <1>1
  <1>6. ListOfChunk' BY <1>1 DEF ListOfChunk
  <1>7. ChunkKnown' BY <1>1 DEF ChunkKnown
  <1> QED BY <1>2, <1>3, <1>4, <1>5, <1>6, <1>7 DEF ShapeInv

-----------------------------------------------------------------------------
(* The shape of the state, whoever sends.                                  *)

LEMMA InitShape ==
  ASSUME Init
  PROVE  ShapeInv
  <1> USE DEF Init, ReceiverInit, LineInit
  <1>1. /\ IsList(packetList, Payload) /\ packetList.total = 0 /\ Counted(packetList)
    <2>1. packetList = InitList(0) BY DEF EmptyList
    <2> QED BY <2>1, InitListFacts
  <1>2. \A n \in Names : FileOK(disk[n])
    <2>1. FileOK(NoFile) BY DEF NoFile, FileOK
    <2> QED BY <2>1
  <1>3. TypeOK
    <2>1. toReceiver \in Seq(Wire) /\ toSender \in Seq(ReceiverPdu) OBVIOUS
    <2>2. DOMAIN disk = Names OBVIOUS
    <2>3. \A n \in Names :
            /\ disk[n] \in [len : {disk[n].len},
                            pkts : [0 .. disk[n].len - 1 -> Payload \cup {<<>>, Blank}]]
            /\ disk[n].len \in Nat
      BY <1>2 DEF FileOK
    <2>4. at \in Steps BY DEF Steps
    <2>5. state = NoTransfer /\ journal = NoJournal OBVIOUS
    <2> QED BY <1>1, <2>1, <2>2, <2>3, <2>4, <2>5 DEF TypeOK
  <1>4. Announced /\ Coupled /\ ListOfChunk /\ ChunkKnown
    BY <1>1 DEF Announced, Coupled, ListOfChunk, ChunkKnown, HasJournal, Readable
  <1> QED BY <1>1, <1>3, <1>4 DEF ShapeInv

LEMMA NextKeepsShape ==
  ASSUME ShapeInv, [Next]_vars
  PROVE  ShapeInv'
  <1>1. CASE UNCHANGED vars
    <2>1. TypeOK BY DEF ShapeInv
    <2> QED BY <1>1, <2>1, Quiet DEF vars, receiverVars, memory, mainLoop, stable, line, TypeOK
  <1>2. CASE NewSender BY <1>2, DeathSteps
  <1>3. ASSUME UNCHANGED sending, SameSender
        PROVE  ShapeInv'
    <2> USE <1>3
    <2>1. CASE \/ DropNoise \/ IgnoreMetadata \/ ReackTransfer \/ DropData \/ ReackData
               \/ DropEof \/ NakCurrentChunk \/ NakMissingChunk \/ AwaitMoreChunks
               \/ AnswerResumeQuery
      BY <2>1, QuietSteps
    <2>2. CASE LineDelivers \/ LineDrains BY <2>2, LineSteps
    <2>3. CASE BootFresh \/ BootResume BY <2>3, BootSteps
    <2>4. CASE AcceptMetadata \/ CreateJournal BY <2>4, MetadataSteps
    <2>5. CASE StoreData BY <2>5, DataStep
    <2>6. CASE WriteChunk BY <2>6, WriteStep
    <2>7. CASE MarkChunk BY <2>7, MarkStep
    <2>8. CASE AckChunk BY <2>8, AckStep
    <2>9. CASE AcceptEof BY <2>9, EofStep
    <2>10. CASE RejectFile \/ AcceptFile \/ CloseTransfer BY <2>10, EndSteps
    <2>11. CASE StopLingering \/ FlushThrows \/ Crash BY <2>11, DeathSteps
    <2>12. CASE Relaunch BY <2>12, RelaunchStep
    <2> QED BY <2>1, <2>2, <2>3, <2>4, <2>5, <2>6, <2>7, <2>8, <2>9, <2>10, <2>11, <2>12
         DEF SameSender, ReceiverStep
  <1> QED BY <1>1, <1>2, <1>3 DEF Next

(* Whatever arrives, from whoever sends, and whenever the process dies or  *)
(* a write fails, the receiver's own state stays coupled.                  *)
THEOREM ShapeInvariance == Spec => []ShapeInv
  <1>1. Init => ShapeInv BY InitShape
  <1>2. ShapeInv /\ [Next]_vars => ShapeInv' BY NextKeepsShape
  <1> QED BY <1>1, <1>2, PTL DEF Spec

(* Whatever arrives, every variable of the receiver stays in its type, and *)
(* every reply is a PDU (Types.h:20-83).                                  *)
THEOREM TypeCorrect == Spec => []TypeOK
  <1>1. ShapeInv => TypeOK BY DEF ShapeInv
  <1> QED BY <1>1, ShapeInvariance, PTL

-----------------------------------------------------------------------------
(* The contents, when the senders are honest.                              *)

LEMMA HonestWireFact ==
  ASSUME HonestSenders, TypeOK
  PROVE  HonestWire
  BY DEF HonestSenders, HonestWire, Wire, TypeOK

(* The chunk in progress is one of a file its Metadata describes.          *)
LEMMA ChunkFacts ==
  ASSUME HonestWire, ShapeInv, currentChunk # UINT32_MAX, at # "create"
  PROVE  /\ state.size = FileLen[state.sum] /\ state.size \in Nat
         /\ state.sum \in Files /\ state.name \in Names
         /\ currentChunk \in Nat /\ currentChunk \in Chunks(state.size)
         /\ ChunkOffset(currentChunk) \in Nat
         /\ packetList.total = PacketsIn(state.size, currentChunk)
         /\ packetList.total \in Nat
  <1>1. state # NoTransfer /\ currentChunk \in Chunks(state.size) /\ FromMetadata(state)
    BY DEF ShapeInv, ChunkKnown, Announced
  <1>2. /\ state.size = FileLen[state.sum] /\ state.size \in Nat
        /\ state.sum \in Files /\ state.name \in Names
    BY <1>1, AnnouncedFacts
  <1>3. currentChunk \in Nat /\ ChunkOffset(currentChunk) \in Nat BY <1>1, <1>2, ChunkBound
  <1>4. packetList.total = PacketsIn(state.size, currentChunk) /\ packetList.total \in Nat
    BY DEF ShapeInv, ListOfChunk, TypeOK, IsList
  <1> QED BY <1>1, <1>2, <1>3, <1>4

(* A flush, finished or torn, keeps every chunk of the file that is on     *)
(* disk; a finished one puts its own chunk there.                          *)
LEMMA FlushKeeps ==
  ASSUME HonestWire, ShapeInv, SlotsHold, at = "write", NEW n \in 0 .. packetList.total
  PROVE  /\ \A c \in Nat : ChunkOnDisk(disk[state.name], state.sum, c)
                          => ChunkOnDisk(FlushedFile(n), state.sum, c)
         /\ n = packetList.total => ChunkOnDisk(FlushedFile(n), state.sum, currentChunk)
  <1> DEFINE file == disk[state.name]
             off == ChunkOffset(currentChunk)
             new == FlushedFile(n)
             data == Assemble(packetList)
             total == packetList.total
  <1>1. currentChunk # UINT32_MAX /\ IsComplete(packetList) BY DEF ShapeInv, ChunkKnown
  <1>2. /\ state.size = FileLen[state.sum] /\ state.size \in Nat
        /\ total = PacketsIn(state.size, currentChunk) /\ total \in Nat
    BY <1>1, ChunkFacts
  <1>3. ValidSlots(packetList) = 0 .. total - 1
    BY <1>1, <1>2, CompleteMeansAllValid DEF ShapeInv
  <1>4. \A i \in 0 .. total - 1 : data[i] = <<state.sum, off + i>>
    BY <1>1, <1>3 DEF Assemble, SlotsHold
  <1>5. /\ off \in Nat /\ n \in Nat
        /\ FileOK(new) /\ FileOK(file)
        /\ new.len >= off + n /\ new.len >= file.len
        /\ \A i \in 0 .. new.len - 1 :
             new.pkts[i] = IF off <= i /\ i < off + n THEN data[i - off]
                           ELSE IF i < file.len THEN file.pkts[i] ELSE Blank
    BY FlushFacts
  <1>6. new.len \in Nat /\ file.len \in Nat BY <1>5 DEF FileOK
  <1>7. n <= total BY <1>2, <1>5
  <1> HIDE DEF data, off, file, new, total
  <1>8. ASSUME NEW i \in 0 .. new.len - 1, off <= i, i < off + n
        PROVE  new.pkts[i] = <<state.sum, i>>
    <2>1. i - off \in 0 .. total - 1 /\ off + (i - off) = i
      BY <1>2, <1>5, <1>6, <1>7, <1>8
    <2> QED BY <1>4, <1>5, <1>8, <2>1
  <1>9. ASSUME NEW c \in Nat, ChunkOnDisk(file, state.sum, c)
        PROVE  ChunkOnDisk(new, state.sum, c)
    <2>1. ChunkOffset(c) \in Nat BY ChunkSizeAssumption DEF ChunkOffset
    <2>2. SUFFICES ASSUME NEW i \in 0 .. PacketsIn(FileLen[state.sum], c) - 1
                   PROVE  /\ ChunkOffset(c) + i < new.len
                          /\ new.pkts[ChunkOffset(c) + i] = <<state.sum, ChunkOffset(c) + i>>
      BY DEF ChunkOnDisk
    <2>3. /\ ChunkOffset(c) + i < file.len
          /\ file.pkts[ChunkOffset(c) + i] = <<state.sum, ChunkOffset(c) + i>>
      BY <1>9 DEF ChunkOnDisk
    <2>4. i \in Nat BY <1>2, <2>1, ChunkSizeAssumption DEF PacketsIn
    <2> DEFINE k == ChunkOffset(c) + i
    <2>5. k \in 0 .. new.len - 1 /\ k < file.len BY <1>5, <1>6, <2>1, <2>3, <2>4
    <2> HIDE DEF k
    <2>6. CASE off <= k /\ k < off + n BY <1>6, <1>8, <2>5, <2>6 DEF k
    <2>7. CASE ~(off <= k /\ k < off + n) BY <1>5, <1>6, <2>3, <2>5, <2>7 DEF k
    <2> QED BY <2>6, <2>7
  <1>10. ASSUME n = total
         PROVE  ChunkOnDisk(new, state.sum, currentChunk)
    <2>1. ASSUME NEW i \in 0 .. PacketsIn(FileLen[state.sum], currentChunk) - 1
          PROVE  off + i < new.len /\ new.pkts[off + i] = <<state.sum, off + i>>
      <3>1. i \in Nat /\ i < n BY <1>2, <1>10
      <3>2. off + i \in 0 .. new.len - 1 /\ off <= off + i /\ off + i < off + n
        BY <1>5, <1>6, <3>1
      <3> QED BY <1>6, <1>8, <3>2
    <2> QED BY <2>1 DEF ChunkOnDisk, off
  <1> QED BY <1>9, <1>10 DEF new, file, total

(* The journal of an active transfer is of the same file.                  *)
LEMMA JournalOfTransfer ==
  ASSUME HonestWire, ShapeInv, transferActive, HasJournal
  PROVE  /\ state # NoTransfer
         /\ journal.tid = state.tid /\ journal.name = state.name
         /\ journal.sum = state.sum /\ journal.size = state.size
  BY AnnouncedFacts DEF ShapeInv, Announced, Coupled

(* Writing the chunk in progress, in whole or in part, leaves the chunks   *)
(* of the journal on disk.                                                 *)
LEMMA FlushKeepsDone ==
  ASSUME HonestWire, IndInv, at = "write", NEW n \in 0 .. packetList.total,
         disk' = [disk EXCEPT ![state.name] = FlushedFile(n)],
         HasJournal, NEW c \in journal.done
  PROVE  ChunkOnDisk(disk'[journal.name], journal.sum, c)
  <1>1. ShapeInv /\ SlotsHold BY DEF IndInv, ContentInv
  <1>2. transferActive BY <1>1 DEF ShapeInv, Coupled
  <1>3. journal.name = state.name /\ journal.sum = state.sum
    BY <1>1, <1>2, JournalOfTransfer
  <1>4. c \in Nat BY <1>1 DEF ShapeInv, TypeOK, HasJournal, Readable, JournalState
  <1>5. ChunkOnDisk(disk[state.name], state.sum, c)
    BY <1>3 DEF IndInv, ContentInv, DoneIsOnDisk
  <1> QED BY <1>1, <1>3, <1>4, <1>5, FlushKeeps, FlushKeepsDisk

(* Steps that put nothing into the list, on disk or into the journal.      *)
LEMMA ContentStays ==
  ASSUME ContentInv, disk' = disk,
         at' # "mark" \/ UNCHANGED <<at, state, currentChunk>>,
         \/ currentChunk' = UINT32_MAX
         \/ at' = "create"
         \/ at # "create" /\ UNCHANGED <<currentChunk, packetList>> /\ state'.sum = state.sum,
         HasJournal' =>
           \A c \in journal'.done :
             /\ HasJournal /\ c \in journal.done
             /\ journal'.name = journal.name /\ journal'.sum = journal.sum
  PROVE  ContentInv'
  <1>1. SlotsHold' BY DEF ContentInv, SlotsHold
  <1>2. ChunkFlushed' BY DEF ContentInv, ChunkFlushed
  <1>3. DoneIsOnDisk' BY DEF ContentInv, DoneIsOnDisk
  <1> QED BY <1>1, <1>2, <1>3 DEF ContentInv

LEMMA StoreHolds ==
  ASSUME HonestWire, IndInv, StoreData
  PROVE  ContentInv'
  <1> DEFINE d == Head(toReceiver)
             old == ListFor(d)
             Slot(i) == <<state.sum, ChunkOffset(d.chunk) + i>>
  <1>1. ShapeInv /\ SlotsHold /\ DoneIsOnDisk BY DEF IndInv, ContentInv
  <1>2. /\ at = "recv" /\ d \in Wire /\ d \in DataPdu /\ d.tid = state.tid
        /\ state # NoTransfer
        /\ d.chunk \in Nat /\ currentChunk' = d.chunk
        /\ packetList' = Insert(old, d.pkt, d.data, d.ok)
        /\ IsList(old, Payload) /\ Counted(old) /\ old.total \in Nat
        /\ old = InitList(d.total) \/ (d.chunk = currentChunk /\ old = packetList)
        /\ d.total \in Nat
    BY <1>1, StoreFacts
  <1>3. d.pkt \in Nat /\ d.data \in Payload /\ d.ok \in BOOLEAN BY <1>2 DEF DataPdu
  <1>4. d.ok => d.data = Slot(d.pkt)
    BY <1>1, <1>2, AnnouncedFacts DEF ShapeInv, Announced
  <1>5. UNCHANGED <<state, stable>> /\ at' # "mark" BY DEF StoreData, Continue, Returns
  <1>6. d.chunk # UINT32_MAX BY <1>2, Uint32MaxAssumption
  <1>7. \A i \in ValidSlots(old) : old.node[i].data = Slot(i)
    <2>1. CASE old = InitList(d.total)
      <3>1. ValidSlots(InitList(d.total)) = {} BY <1>2, InitListFacts
      <3> QED BY <2>1, <3>1
    <2>2. CASE d.chunk = currentChunk /\ old = packetList
      BY <1>1, <1>2, <1>6, <2>2 DEF SlotsHold
    <2> QED BY <1>2, <2>1, <2>2
  <1> HIDE DEF d, old, Slot
  <1>8. ASSUME NEW i \in ValidSlots(packetList')
        PROVE  packetList'.node[i].data = Slot(i)
    <2> DEFINE new == Insert(old, d.pkt, d.data, d.ok)
    <2>1. CASE d.pkt < old.total
      <3>1. /\ d.ok => ValidSlots(new) = ValidSlots(old) \cup {d.pkt}
            /\ ~d.ok => ValidSlots(new) = ValidSlots(old) \ {d.pkt}
        BY <1>2, <1>3, <2>1, InsertFacts
      <3>2. new.node[d.pkt].data = d.data BY <1>2, <1>3, <2>1, InsertFacts
      <3>3. \A k \in (0 .. old.total - 1) \ {d.pkt} : new.node[k] = old.node[k]
        BY <1>2, <1>3, <2>1, InsertFacts
      <3> HIDE DEF new
      <3>4. packetList' = new BY <1>2 DEF new
      <3>5. CASE i = d.pkt BY <1>4, <1>8, <3>1, <3>2, <3>4, <3>5
      <3>6. CASE i # d.pkt
        <4>1. i \in ValidSlots(old) BY <1>8, <3>1, <3>4, <3>6
        <4>2. i \in (0 .. old.total - 1) \ {d.pkt} BY <4>1, <3>6 DEF ValidSlots
        <4> QED BY <1>7, <3>3, <3>4, <4>1, <4>2
      <3> QED BY <3>5, <3>6
    <2>2. CASE ~(d.pkt < old.total)
      <3>1. packetList' = old BY <1>2, <1>3, <2>2 DEF Insert
      <3> QED BY <1>7, <1>8, <3>1
    <2> QED BY <2>1, <2>2
  <1>9. SlotsHold' BY <1>2, <1>5, <1>8 DEF SlotsHold, Slot
  <1>10. ChunkFlushed' BY <1>5 DEF ChunkFlushed
  <1>11. DoneIsOnDisk' BY <1>1, <1>5 DEF DoneIsOnDisk, HasJournal, stable
  <1> QED BY <1>9, <1>10, <1>11 DEF ContentInv

LEMMA WriteHolds ==
  ASSUME HonestWire, IndInv, WriteChunk
  PROVE  ContentInv'
  <1>1. ShapeInv /\ SlotsHold BY DEF IndInv, ContentInv
  <1>2. /\ at = "write" /\ at' = "mark"
        /\ disk' = [disk EXCEPT ![state.name] = FlushedFile(packetList.total)]
        /\ UNCHANGED <<state, currentChunk, packetList, journal>>
    BY DEF WriteChunk, Continue, memory
  <1>3. packetList.total \in 0 .. packetList.total BY <1>1 DEF ShapeInv, TypeOK, IsList
  <1>4. HasJournal =>
          \A c \in journal.done : ChunkOnDisk(disk'[journal.name], journal.sum, c)
    BY <1>2, <1>3, FlushKeepsDone
  <1>5. ChunkOnDisk(disk'[state.name], state.sum, currentChunk)
    BY <1>1, <1>2, <1>3, FlushKeeps, FlushKeepsDisk
  <1>6. SlotsHold' BY <1>1, <1>2 DEF SlotsHold
  <1>7. ChunkFlushed' BY <1>2, <1>5 DEF ChunkFlushed
  <1>8. DoneIsOnDisk' BY <1>2, <1>4 DEF DoneIsOnDisk, HasJournal
  <1> QED BY <1>6, <1>7, <1>8 DEF ContentInv

LEMMA MarkHolds ==
  ASSUME HonestWire, IndInv, MarkChunk
  PROVE  ContentInv'
  <1>1. ShapeInv /\ SlotsHold /\ ChunkFlushed /\ DoneIsOnDisk BY DEF IndInv, ContentInv
  <1>2. /\ at = "mark" /\ at' = "ack" /\ transferActive
        /\ UNCHANGED <<currentChunk, packetList, disk>> /\ state'.sum = state.sum
        /\ HasJournal' =>
              /\ HasJournal
              /\ journal'.sum = journal.sum /\ journal'.name = journal.name
              /\ journal'.done \subseteq journal.done \cup {currentChunk}
    BY <1>1, MarkFacts
  <1>3. ASSUME HasJournal', NEW c \in journal'.done
        PROVE  ChunkOnDisk(disk'[journal'.name], journal'.sum, c)
    <2>1. /\ journal'.name = state.name /\ journal'.sum = state.sum
          /\ journal.name = state.name /\ journal.sum = state.sum
      BY <1>1, <1>2, <1>3, JournalOfTransfer
    <2>2. CASE c = currentChunk BY <1>1, <1>2, <2>1, <2>2 DEF ChunkFlushed
    <2>3. CASE c # currentChunk
      <3>1. HasJournal /\ c \in journal.done BY <1>2, <1>3, <2>3
      <3> QED BY <1>1, <1>2, <2>1, <3>1 DEF DoneIsOnDisk
    <2> QED BY <2>2, <2>3
  <1>4. SlotsHold' BY <1>1, <1>2 DEF SlotsHold
  <1>5. ChunkFlushed' BY <1>2 DEF ChunkFlushed
  <1>6. DoneIsOnDisk' BY <1>3 DEF DoneIsOnDisk
  <1> QED BY <1>4, <1>5, <1>6 DEF ContentInv

LEMMA DeathHolds ==
  ASSUME HonestWire, IndInv, StopLingering \/ FlushThrows \/ Crash \/ NewSender
  PROVE  ContentInv'
  <1>1. ShapeInv /\ DoneIsOnDisk BY DEF IndInv, ContentInv
  <1>2. /\ MemoryLost /\ at' \in {"exited", "boot"}
        /\ disk' = disk \/ MaybeTorn
        /\ journal' = journal \/ JournalSetBack
    BY DEF StopLingering, FlushThrows, Crash, NewSender, StartAnew, stable
  <1>3. HasJournal =>
          \A c \in journal.done : ChunkOnDisk(disk'[journal.name], journal.sum, c)
    <2>1. CASE disk' = disk BY <1>1, <2>1 DEF DoneIsOnDisk
    <2>2. CASE disk' # disk
      <3>1. at = "write" /\ \E n \in 0 .. packetList.total :
                disk' = [disk EXCEPT ![state.name] = FlushedFile(n)]
        BY <1>2, <2>2 DEF MaybeTorn
      <3> QED BY <3>1, FlushKeepsDone
    <2> QED BY <2>1, <2>2
  <1>4. HasJournal' =>
          /\ HasJournal
          /\ journal'.sum = journal.sum /\ journal'.name = journal.name
          /\ journal'.done \subseteq journal.done
    BY <1>1, <1>2, JournalLeft DEF ShapeInv
  <1>5. SlotsHold' BY <1>2 DEF SlotsHold, MemoryLost, ForgetChunk
  <1>6. ChunkFlushed' BY <1>2 DEF ChunkFlushed
  <1>7. DoneIsOnDisk' BY <1>3, <1>4 DEF DoneIsOnDisk
  <1> QED BY <1>5, <1>6, <1>7 DEF ContentInv

LEMMA NextKeepsContent ==
  ASSUME HonestWire, IndInv, [Next]_vars
  PROVE  ContentInv'
  <1> USE DEF memory, stable, Continue, Returns
  <1>1. ShapeInv /\ ContentInv BY DEF IndInv
  <1>2. CASE \/ DropNoise \/ IgnoreMetadata \/ ReackTransfer \/ DropData \/ ReackData
             \/ DropEof \/ NakCurrentChunk \/ NakMissingChunk \/ AwaitMoreChunks
             \/ AnswerResumeQuery
    <2>1. /\ UNCHANGED <<state, currentChunk, packetList, stable>>
          /\ at \in {"recv", "check"} /\ at' = "recv"
      BY <1>2
         DEF DropNoise, IgnoreMetadata, ReackTransfer, DropData, ReackData, DropEof,
             NakCurrentChunk, NakMissingChunk, AwaitMoreChunks, AnswerResumeQuery, Receive
    <2> QED BY <1>1, <2>1, ContentStays DEF HasJournal
  <1>3. CASE LineDelivers \/ LineDrains \/ Relaunch \/ UNCHANGED vars
    <2>1. /\ UNCHANGED <<state, currentChunk, packetList, stable>>
          /\ at' = at \/ (at = "exited" /\ at' = "boot")
      BY <1>3 DEF LineDelivers, LineDrains, Relaunch, vars, receiverVars
    <2>2. CASE at = "create"
      <3>1. at' = "create" BY <2>1, <2>2
      <3> QED BY <1>1, <2>1, <2>2, <3>1, ContentStays DEF HasJournal
    <2>3. CASE at # "create"
      BY <1>1, <2>1, <2>3, ContentStays DEF HasJournal
    <2> QED BY <2>2, <2>3
  <1>4. CASE BootFresh \/ BootResume \/ AcceptMetadata
    <2>1. CASE BootFresh
      BY <1>1, <2>1, ContentStays DEF BootFresh, HasJournal, Readable
    <2>2. CASE BootResume
      BY <1>1, <2>2, ContentStays DEF BootResume, HasJournal, ForgetChunk
    <2>3. CASE AcceptMetadata
      BY <1>1, <2>3, ContentStays DEF AcceptMetadata, HasJournal, Readable
    <2> QED BY <1>4, <2>1, <2>2, <2>3
  <1>5. CASE CreateJournal
    <2>1. journal = NoJournal /\ state.done = {}
      BY <1>1, <1>5 DEF CreateJournal, ShapeInv, Coupled
    <2>2. HasJournal' => journal'.done = {}
      BY <1>5, <2>1 DEF CreateJournal, WriteJournal, HasJournal, Readable
    <2>3. at' = "recv" /\ disk' = disk /\ currentChunk' = UINT32_MAX
      BY <1>5 DEF CreateJournal, ForgetChunk
    <2> QED BY <1>1, <2>2, <2>3, ContentStays
  <1>6. CASE AckChunk
    <2>1. /\ at' \in {"check", "recv"} /\ currentChunk' = UINT32_MAX
          /\ UNCHANGED stable
      BY <1>6 DEF AckChunk, ForgetChunk
    <2> QED BY <1>1, <2>1, ContentStays DEF HasJournal
  <1>7. CASE AcceptEof
    <2>1. state \in JournalState BY <1>1, <1>7 DEF AcceptEof, ShapeInv, Coupled, TypeOK
    <2>2. state'.sum = state.sum BY <1>7, <2>1 DEF AcceptEof, JournalState
    <2>3. journal' = journal
          \/ (HasJournal /\ journal' = [journal EXCEPT !.eof = TRUE])
      BY <1>7 DEF AcceptEof, WriteJournal, MarkedEof, HasJournal
    <2>4. HasJournal' =>
            /\ HasJournal /\ journal'.done = journal.done
            /\ journal'.name = journal.name /\ journal'.sum = journal.sum
      BY <1>1, <2>3 DEF ShapeInv, TypeOK, HasJournal, Readable, JournalState
    <2>5. /\ at = "recv" /\ at' = "check"
          /\ UNCHANGED <<disk, currentChunk, packetList>>
      BY <1>7 DEF AcceptEof, Receive
    <2> QED BY <1>1, <2>2, <2>4, <2>5, ContentStays
  <1>8. CASE RejectFile \/ AcceptFile \/ CloseTransfer
    <2>1. /\ UNCHANGED <<state, currentChunk, packetList, disk>>
          /\ at \in {"check", "close"} /\ at' \in {"recv", "close"}
          /\ journal' \in {NoJournal, journal}
      BY <1>8 DEF RejectFile, AcceptFile, CloseTransfer, AllReceived
    <2> QED BY <1>1, <2>1, ContentStays DEF HasJournal, Readable
  <1>9. QED
    BY <1>2, <1>3, <1>4, <1>5, <1>6, <1>7, <1>8, StoreHolds, WriteHolds, MarkHolds, DeathHolds
       DEF Next, SameSender, ReceiverStep

LEMMA InitHolds ==
  ASSUME Init
  PROVE  IndInv
  <1>1. ShapeInv BY InitShape
  <1>2. ContentInv
    BY DEF Init, ReceiverInit, ContentInv, SlotsHold, ChunkFlushed, DoneIsOnDisk,
           HasJournal, Readable
  <1> QED BY <1>1, <1>2 DEF IndInv

(* When the senders are honest, whatever is lost, repeated, reordered or   *)
(* corrupted, and whenever the process dies or a write fails, the receiver *)
(* keeps the invariant.                                                    *)
THEOREM Invariance == ASSUME HonestSenders PROVE Spec => []IndInv
  <1>1. Init => IndInv BY InitHolds
  <1>2. IndInv /\ [Next]_vars => IndInv'
    <2> SUFFICES ASSUME IndInv, [Next]_vars PROVE IndInv' OBVIOUS
    <2>1. ShapeInv /\ HonestWire BY HonestWireFact DEF IndInv, ShapeInv
    <2> QED BY <2>1, NextKeepsShape, NextKeepsContent DEF IndInv
  <1> QED BY <1>1, <1>2, PTL DEF Spec

(* The slots of the packet list are those of the chunk in progress, and    *)
(* the valid ones hold its packets (CfdpReceiver.cpp:235-250).             *)
THEOREM SlotsCorrect == ASSUME HonestSenders PROVE Spec => []SlotsBelongToChunk
  <1>1. IndInv => SlotsBelongToChunk
    BY DEF IndInv, ShapeInv, ContentInv, SlotsBelongToChunk
  <1> QED BY <1>1, Invariance, PTL

(* A chunk the journal calls done is on disk, every packet at its place    *)
(* (CfdpReceiver.cpp:313-334).                                             *)
THEOREM DoneCorrect == ASSUME HonestSenders PROVE Spec => []DoneIsOnDisk
  <1>1. IndInv => DoneIsOnDisk BY DEF IndInv, ContentInv
  <1> QED BY <1>1, Invariance, PTL
=============================================================================

---------------------------- MODULE ReceiverOpen ----------------------------
(***************************************************************************)
(* The receiver on an open line: the PDUs of a sender arrive in any order, *)
(* any number of times or never, and replies are taken off the line at any *)
(* pace.  What is established here holds for every sender, and every line, *)
(* that delivers no PDU the sender cannot have sent.                       *)
(***************************************************************************)
EXTENDS CfdpReceiver

CONSTANTS Senders,  \* who may be at the other end, one after the other
          Says      \* the PDUs that may arrive from each of them

ASSUME SaysAssumption == Says \in [Senders -> SUBSET SenderPdu]

VARIABLE sending  \* who it is; a sender may be run any number of times

vars == <<receiverVars, sending>>

(* The PDUs that may arrive.                                               *)
Wire == Says[sending]

(* Every Metadata describes the file its checksum stands for, one file per *)
(* transaction id, and a packet whose CRC-8 matches is a packet of it, at  *)
(* the place its header says.                                              *)
Honest(pdus) ==
  \A m \in pdus \cap MetadataPdu :
    /\ m.size = FileLen[m.sum]
    /\ \A n \in pdus \cap MetadataPdu :
         n.tid = m.tid => n.sum = m.sum /\ n.name = m.name
    /\ \A d \in pdus \cap DataPdu :
         d.tid = m.tid /\ d.ok => d.data = <<m.sum, ChunkOffset(d.chunk) + d.pkt>>

HonestWire == Honest(Wire)
HonestSenders == \A who \in Senders : Honest(Says[who])

-----------------------------------------------------------------------------

LineDelivers ==
  /\ \E p \in Wire : Transmit(p)
  /\ UNCHANGED <<at, memory, mainLoop, stable, toSender>>

(* A reply is read, or lost, or all of them are.                           *)
LineDrains ==
  /\ toSender # <<>>
  /\ \/ toSender' = <<>>
     \/ \E i \in DOMAIN toSender :
          toSender' = SubSeq(toSender, 1, i - 1) \o SubSeq(toSender, i + 1, Len(toSender))
  /\ UNCHANGED <<at, memory, mainLoop, stable, toReceiver>>

(* cfdp_send.sh is run, for another file only when it finds no state.bin.  *)
NewSender ==
  /\ StartAnew
  /\ sending' \in IF journal = NoJournal THEN Senders ELSE {sending}

Init == ReceiverInit /\ sending \in Senders

SameSender ==
  \/ ReceiverStep
  \/ StopLingering \/ FlushThrows \/ Crash \/ Relaunch
  \/ LineDelivers \/ LineDrains

Next == NewSender \/ (SameSender /\ UNCHANGED sending)

Spec == Init /\ [][Next]_vars

-----------------------------------------------------------------------------
(* Types and the coupling of the receiver's own state.                     *)

Steps == {"boot", "recv", "create", "write", "mark", "ack", "check", "close", "exited"}

TypeOK ==
  /\ sending \in Senders
  /\ at \in Steps
  /\ transferActive \in BOOLEAN
  /\ state \in JournalState \cup {NoTransfer}
  /\ lastAckedId \in Tids \cup {0}
  /\ currentChunk \in Nat \cup {UINT32_MAX}
  /\ maxChunkSeen \in Nat
  /\ IsList(packetList, Payload)
  /\ wasActive \in BOOLEAN
  /\ lingering \in BOOLEAN
  /\ journal \in JournalState \cup {NoJournal, CorruptJournal}
  /\ DOMAIN disk = Names
  /\ \A n \in Names :
       /\ disk[n] \in [len : {disk[n].len},
                       pkts : [0 .. disk[n].len - 1 -> Payload \cup {<<>>, Blank}]]
       /\ disk[n].len \in Nat
  /\ toReceiver \in Seq(Wire)
  /\ toSender \in Seq(ReceiverPdu)

HasJournal == Readable(journal)

(* Between PDUs the file state.bin is exactly the transfer in memory: a    *)
(* crash at that point loses the chunk in progress and nothing else        *)
(* (CfdpReceiver.h:15-17).                                                 *)
JournalMirrorsMemory == at = "recv" /\ transferActive => journal = state

(* A chunk the journal calls done has every one of its packets on disk, at *)
(* its place, whatever duplicates, corruption, chunk switches and crashes  *)
(* came before (Journal.h:20-21).                                          *)
DoneIsOnDisk ==
  HasJournal =>
    \A c \in journal.done : ChunkOnDisk(disk[journal.name], journal.sum, c)

(* The slots of the list belong to the chunk in progress: a chunk switch   *)
(* leaves no packet of the chunk before it behind, and the chunk in        *)
(* progress is not already done (CfdpReceiver.cpp:235-245).                *)
ListOfChunk ==
  /\ currentChunk = UINT32_MAX <=> packetList.total = 0
  /\ currentChunk # UINT32_MAX /\ at # "create" =>
       /\ packetList.total = PacketsIn(state.size, currentChunk)
       /\ at # "ack" => currentChunk \notin state.done

SlotsHold ==
  currentChunk # UINT32_MAX /\ at # "create" =>
    \A i \in ValidSlots(packetList) :
      packetList.node[i].data = <<state.sum, ChunkOffset(currentChunk) + i>>

SlotsBelongToChunk == ListOfChunk /\ SlotsHold

-----------------------------------------------------------------------------
(* The inductive invariants: ShapeInv, behind TypeOK, whatever arrives;    *)
(* IndInv, behind SlotsBelongToChunk and DoneIsOnDisk, on an honest line.  *)

(* The transfer in memory and the one in the journal were announced by a   *)
(* Metadata.                                                               *)
FromMetadata(s) ==
  \E m \in Wire \cap MetadataPdu :
    m.tid = s.tid /\ m.size = s.size /\ m.sum = s.sum /\ m.name = s.name

Announced ==
  /\ state # NoTransfer => FromMetadata(state)
  /\ HasJournal => FromMetadata(journal)

(* An active transfer is the one of the journal, if there is a journal.    *)
Coupled ==
  /\ at \in {"write", "mark", "ack", "check", "close"} => transferActive
  /\ transferActive \/ lastAckedId # 0 \/ at = "create" => state # NoTransfer
  /\ at = "create" => journal = NoJournal /\ state.done = {}
  /\ transferActive /\ HasJournal => journal.tid = state.tid

ChunkKnown ==
  /\ currentChunk # UINT32_MAX /\ at # "create" =>
       state # NoTransfer /\ currentChunk \in Chunks(state.size)
  /\ at \in {"write", "mark", "ack"} => currentChunk # UINT32_MAX
  /\ at \in {"write", "mark"} => IsComplete(packetList)

(* A list is counted, coupled to its chunk and flushed only when every     *)
(* slot is filled.                                                         *)
ShapeInv ==
  /\ TypeOK
  /\ Announced
  /\ Coupled
  /\ Counted(packetList)
  /\ ListOfChunk
  /\ ChunkKnown

ChunkFlushed == at = "mark" => ChunkOnDisk(disk[state.name], state.sum, currentChunk)

(* The slots hold what they stand for; so does the file, where the chunk   *)
(* has been flushed and where the journal calls it done.                   *)
ContentInv == SlotsHold /\ ChunkFlushed /\ DoneIsOnDisk

IndInv == ShapeInv /\ ContentInv

-----------------------------------------------------------------------------
(* What a reply promises when it is sent.                                  *)

NewReplies ==
  IF Len(toSender') > Len(toSender) THEN {toSender'[Len(toSender')]} ELSE {}

NewAcks == {p \in NewReplies : p.type = "Ack" /\ p.chunk # UINT32_MAX}
NewFinalAcks == {p \in NewReplies : p.type = "Ack" /\ p.chunk = UINT32_MAX}
NewNaks == {p \in NewReplies : p.type = "Nak"}

(* A chunk ACK leaves only when a crash right after it would still find    *)
(* the chunk in the journal and its bytes on disk, whether it is the first *)
(* ACK of the chunk or the repeated one (CfdpReceiver.cpp:322-336).        *)
AckOnlyDurable ==
  [][\A p \in NewAcks :
       /\ HasJournal
       /\ journal.tid = p.tid
       /\ p.chunk \in journal.done
       /\ ChunkOnDisk(disk[journal.name], journal.sum, p.chunk)]_vars

(* The final ACK leaves only while the file on disk is, as a whole, the    *)
(* one announced for the transaction it names: when it is first sent, and  *)
(* when it is sent again on a later Metadata (CfdpReceiver.cpp:126-131).   *)
FinalAckOnlyVerified ==
  [][\A p \in NewFinalAcks, m \in Wire \cap MetadataPdu :
       m.tid = p.tid => Matches(disk[m.name], m.sum)]_vars

(* A NAK asks for packets of an unfinished chunk of the file, and for none *)
(* the receiver already holds intact (CfdpReceiver.h:11-13).               *)
NakOnlyMissing ==
  [][\A p \in NewNaks :
       /\ p.missing # {}
       /\ \A r \in p.missing :
            /\ r.chunk \in MissingChunks(state)
            /\ r.first <= r.last
            /\ r.last < PacketsIn(state.size, r.chunk)
            /\ r.chunk = currentChunk =>
                 r.first .. r.last \subseteq NeedsRetransmit(packetList)]_vars

(* No step takes recorded progress away: the journal is replaced only when *)
(* the transfer it describes is over or another one is announced, never by *)
(* a crash, a reboot or the end of the process.                            *)
ProgressSurvives ==
  [][HasJournal =>
       \/ /\ HasJournal'
          /\ journal'.tid = journal.tid
          /\ journal.done \subseteq journal'.done
          /\ journal.eof => journal'.eof
       \/ at \in {"check", "close"} /\ MissingChunks(journal) = {} /\ journal.eof
       \/ /\ at = "recv" /\ toReceiver # <<>>
          /\ Head(toReceiver).type = "Metadata"
          /\ Head(toReceiver).tid # journal.tid]_vars

(* A transfer is only given up as corrupt when a byte of some chunk on     *)
(* disk is wrong: sending the file again can then help                     *)
(* (CfdpReceiver.cpp:386-393).                                             *)
RejectsOnlyDamaged ==
  [][at = "check" /\ at' = "recv" /\ ~transferActive' =>
       \E c \in Chunks(state.size) : ~ChunkOnDisk(disk[state.name], state.sum, c)]_vars
=============================================================================

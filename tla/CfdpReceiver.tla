---------------------------- MODULE CfdpReceiver ----------------------------
(***************************************************************************)
(* The receiver process: the protocol state machine of                     *)
(* receiver/CfdpReceiver.cpp with its packet list and its journal, driven  *)
(* by the loop of receiver/receiver_main.cpp.                              *)
(*                                                                         *)
(* The process is sequential.  A handler that touches stable storage or    *)
(* calls another handler is cut into the steps between which the process   *)
(* can die; the steps follow one another through `at` and nothing else is  *)
(* handled in between.  The two directions of the serial line are FIFO     *)
(* sequences of PDUs; write() blocks while the outgoing one is full.       *)
(***************************************************************************)
EXTENDS Journal, Line

CONSTANTS NoTransfer,   \* state_ before the first Metadata
          UnsafeNames,  \* the names handle_metadata refuses ('/' or "..")
          Blank,        \* a packet of the output file nobody wrote
          IoErrors,     \* whether writes to stable storage may fail
          PowerCuts     \* whether a crash may lose unsynced file contents

ASSUME NoTransferAssumption == NoTransfer \notin JournalState
ASSUME FaultSwitches == IoErrors \in BOOLEAN /\ PowerCuts \in BOOLEAN

VARIABLES at,              \* where the process is
          transferActive,  \* transfer_active_
          state,           \* state_
          lastAckedId,     \* last_acked_id_
          currentChunk,    \* current_chunk_index_
          maxChunkSeen,    \* max_chunk_seen_
          packetList,      \* packet_list_
          wasActive,       \* was_active, in main
          lingering,       \* main is in its second loop
          journal,         \* stable storage: state.bin
          disk             \* stable storage: the received files

memory == <<transferActive, state, lastAckedId, currentChunk, maxChunkSeen, packetList>>
mainLoop == <<wasActive, lingering>>
stable == <<journal, disk>>
receiverVars == <<at, memory, mainLoop, stable, line>>

-----------------------------------------------------------------------------
(* Output files, packet by packet; a file nobody created is empty.         *)

NoFile == [len |-> 0, pkts |-> [i \in 0 .. -1 |-> Blank]]

(* flush_chunk: create the file at its full size if it is not there, then  *)
(* overwrite n packets at offset off.  An existing file is not truncated.  *)
OverwriteTruncating(file, size, off, data, n) ==
  [len  |-> off + n,
   pkts |-> [i \in 0 .. off + n - 1 |-> IF off <= i THEN data[i - off] ELSE Blank]]
Overwrite(file, size, off, data, n) ==
  LET base == IF file.len = 0 THEN size ELSE file.len
      len  == IF off + n > base THEN off + n ELSE base
  IN  [len  |-> len,
       pkts |-> [i \in 0 .. len - 1 |->
                   IF off <= i /\ i < off + n THEN data[i - off]
                   ELSE IF i < file.len THEN file.pkts[i]
                   ELSE Blank]]

(* The whole file has the checksum of f.                                   *)
Matches(file, f) ==
  /\ file.len = FileLen[f]
  /\ \A i \in 0 .. file.len - 1 : file.pkts[i] = <<f, i>>

(* What the chunk's bytes on disk should be.                               *)
ChunkOnDisk(file, f, c) ==
  \A i \in 0 .. PacketsIn(FileLen[f], c) - 1 :
    /\ ChunkOffset(c) + i < file.len
    /\ file.pkts[ChunkOffset(c) + i] = <<f, ChunkOffset(c) + i>>

-----------------------------------------------------------------------------
(* The process.                                                            *)

(* uart.recv() returns the next PDU, of the given type.                    *)
Receive(type) ==
  /\ at = "recv"
  /\ toReceiver # <<>>
  /\ Head(toReceiver).type = type
  /\ toReceiver' = Tail(toReceiver)

(* on_pdu_received returns to main, which lingers once a transfer it has   *)
(* seen active is over.                                                    *)
ReturnsUnwatched == at' = "recv" /\ UNCHANGED mainLoop
Returns ==
  /\ at' = "recv"
  /\ wasActive' = (wasActive \/ transferActive')
  /\ lingering' = (lingering \/ (wasActive /\ ~transferActive'))

Continue(step) == at' = step /\ UNCHANGED mainLoop

(* A rewrite of state.bin.  Its result is ignored by every caller.         *)
WriteJournal(j) == journal' = j \/ (IoErrors /\ journal' = journal)

ForgetChunk == currentChunk' = UINT32_MAX /\ packetList' = EmptyList

-----------------------------------------------------------------------------
(* on_boot                                                                 *)

BootFresh ==
  /\ at = "boot"
  /\ ~Readable(journal)
  /\ journal' = NoJournal
  /\ Continue("recv")
  /\ UNCHANGED <<memory, disk, line>>

BootResume ==
  /\ at = "boot"
  /\ Readable(journal)
  /\ state' = journal
  /\ transferActive' = TRUE
  /\ maxChunkSeen' = 0
  /\ ForgetChunk
  /\ Continue(IF MissingChunks(journal) = {} /\ journal.eof THEN "check" ELSE "recv")
  /\ UNCHANGED <<lastAckedId, stable, line>>

-----------------------------------------------------------------------------
(* on_pdu_received, for a PDU that reaches no handler.                     *)

DropNoise ==
  /\ Receive("Noise")
  /\ UNCHANGED <<memory, stable, toSender>>
  /\ Returns

-----------------------------------------------------------------------------
(* handle_metadata                                                         *)

DuplicateBeforeProgress(m) == transferActive /\ state.tid = m.tid /\ state.done = {}
Duplicate(m) == transferActive /\ state.tid = m.tid
Finished(m) == ~transferActive /\ lastAckedId = m.tid
Rejected(m) == TotalChunks(m.size) = 0 \/ m.name \in UnsafeNames

IgnoreMetadata ==
  /\ Receive("Metadata")
  /\ LET m == Head(toReceiver)
     IN  Duplicate(m) \/ (~Finished(m) /\ Rejected(m))
  /\ UNCHANGED <<memory, stable, toSender>>
  /\ Returns

ReackTransfer ==
  /\ Receive("Metadata")
  /\ Finished(Head(toReceiver))
  /\ Reply(Ack(state.tid, UINT32_MAX))
  /\ UNCHANGED <<memory, stable>>
  /\ Returns

NewState(m) ==
  [tid |-> m.tid, size |-> m.size, sum |-> m.sum, name |-> m.name,
   eof |-> FALSE, done |-> {}]

AcceptMetadata ==
  /\ Receive("Metadata")
  /\ LET m == Head(toReceiver)
     IN  /\ ~Duplicate(m) /\ ~Finished(m) /\ ~Rejected(m)
         /\ state' = NewState(m)
  /\ journal' = NoJournal
  /\ Continue("create")
  /\ UNCHANGED <<transferActive, lastAckedId, currentChunk, maxChunkSeen, packetList,
                 disk, toSender>>

CreateJournal ==
  /\ at = "create"
  /\ WriteJournal(state)
  /\ transferActive' = TRUE
  /\ maxChunkSeen' = 0
  /\ ForgetChunk
  /\ UNCHANGED <<state, lastAckedId, disk, line>>
  /\ Returns

-----------------------------------------------------------------------------
(* handle_data                                                             *)

AcceptAnyTid(d) ==
  transferActive /\ d.chunk \in Chunks(state.size) /\ d.total = PacketsIn(state.size, d.chunk)
Acceptable(d) ==
  /\ transferActive
  /\ d.tid = state.tid
  /\ d.chunk \in Chunks(state.size)
  /\ d.total = PacketsIn(state.size, d.chunk)

DropData ==
  /\ Receive("Data")
  /\ ~Acceptable(Head(toReceiver))
  /\ UNCHANGED <<memory, stable, toSender>>
  /\ Returns

SeeChunk(c) == maxChunkSeen' = IF c > maxChunkSeen THEN c ELSE maxChunkSeen

ReackData ==
  /\ Receive("Data")
  /\ LET d == Head(toReceiver)
     IN  /\ Acceptable(d)
         /\ d.chunk \in state.done
         /\ SeeChunk(d.chunk)
         /\ IF d.pkt = 0 THEN Reply(Ack(state.tid, d.chunk)) ELSE UNCHANGED toSender
  /\ UNCHANGED <<transferActive, state, lastAckedId, currentChunk, packetList, stable>>
  /\ Returns

(* The list the packet goes into: a fresh one when its chunk is not the    *)
(* one in progress.                                                        *)
KeepList(d) == IF currentChunk = UINT32_MAX THEN InitList(d.total) ELSE packetList
ListFor(d) == IF d.chunk # currentChunk THEN InitList(d.total) ELSE packetList

(* A chunk switch abandons the chunk in progress.                          *)
InterruptsChunk(d) == currentChunk # UINT32_MAX /\ ~IsComplete(packetList)
Abandons(d) ==
  d.chunk # currentChunk /\ currentChunk # UINT32_MAX /\ ~IsComplete(packetList)

(* send_nak_packets *)
NakPackets(c) ==
  Nak(state.tid, {[chunk |-> c, first |-> r.first, last |-> r.last] : r \in NakRanges(packetList)})

StoreData ==
  /\ Receive("Data")
  /\ LET d == Head(toReceiver)
     IN  /\ Acceptable(d)
         /\ d.chunk \notin state.done
         /\ SeeChunk(d.chunk)
         /\ IF Abandons(d)
              THEN Reply(NakPackets(currentChunk))
              ELSE UNCHANGED toSender
         /\ packetList' = Insert(ListFor(d), d.pkt, d.data, d.ok)
         /\ currentChunk' = d.chunk
  /\ UNCHANGED <<transferActive, state, lastAckedId, stable>>
  /\ IF IsComplete(packetList') THEN Continue("write") ELSE Returns

-----------------------------------------------------------------------------
(* flush_chunk: the data, then memory and journal, then the ACK.           *)

FlushedFilePastEnd(n) ==
  Overwrite(disk[state.name], state.size + 1, ChunkOffset(currentChunk), Assemble(packetList), n)
FlushedFile(n) ==
  Overwrite(disk[state.name], state.size, ChunkOffset(currentChunk), Assemble(packetList), n)

WriteChunk ==
  /\ at = "write"
  /\ disk' = [disk EXCEPT ![state.name] = FlushedFile(packetList.total)]
  /\ Continue("mark")
  /\ UNCHANGED <<memory, journal, line>>

MarkChunk ==
  /\ at = "mark"
  /\ state' = [state EXCEPT !.done = @ \cup {currentChunk}]
  /\ WriteJournal(MarkedDone(journal, currentChunk))
  /\ Continue("ack")
  /\ UNCHANGED <<transferActive, lastAckedId, currentChunk, maxChunkSeen, packetList,
                 disk, line>>

AckChunk ==
  /\ at = "ack"
  /\ Reply(Ack(state.tid, currentChunk))
  /\ ForgetChunk
  /\ UNCHANGED <<transferActive, state, lastAckedId, maxChunkSeen, stable, toReceiver>>
  /\ IF state.eof THEN Continue("check") ELSE Returns

-----------------------------------------------------------------------------
(* handle_eof                                                              *)

DropEof ==
  /\ Receive("Eof")
  /\ ~(transferActive /\ Head(toReceiver).tid = state.tid)
  /\ UNCHANGED <<memory, stable, toSender>>
  /\ Returns

AcceptEof ==
  /\ Receive("Eof")
  /\ transferActive
  /\ Head(toReceiver).tid = state.tid
  /\ IF state.eof THEN UNCHANGED journal ELSE WriteJournal(MarkedEof(journal))
  /\ state' = [state EXCEPT !.eof = TRUE]
  /\ Continue("check")
  /\ UNCHANGED <<transferActive, lastAckedId, currentChunk, maxChunkSeen, packetList,
                 disk, toSender>>

-----------------------------------------------------------------------------
(* check_completion, always entered with eof_received set.                 *)

InProgress == currentChunk # UINT32_MAX /\ ~IsComplete(packetList)

NakCurrentChunk ==
  /\ at = "check"
  /\ InProgress
  /\ Reply(NakPackets(currentChunk))
  /\ UNCHANGED <<memory, stable, toReceiver>>
  /\ Returns

(* The missing ranges whose first chunk the sender is known to have sent;  *)
(* the NAK is for the first chunk of the first of them.                    *)
Nakable == {r.first : r \in {q \in MissingRanges(state) : q.first <= maxChunkSeen}}

NakChunkFloor(c) ==
  Nak(state.tid, {[chunk |-> c, first |-> 0,
                   last |-> PacketsIn(state.size, c) - (IF c + 1 \in Chunks(state.size) THEN 1 ELSE 2)]})
NakChunkInclusive(c) ==
  Nak(state.tid, {[chunk |-> c, first |-> 0, last |-> PacketsIn(state.size, c)]})
NakChunk(c) ==
  Nak(state.tid, {[chunk |-> c, first |-> 0, last |-> PacketsIn(state.size, c) - 1]})

NakMissingChunk ==
  /\ at = "check"
  /\ ~InProgress
  /\ \E c \in Nakable :
       /\ \A e \in Nakable : c <= e
       /\ Reply(NakChunk(c))
  /\ UNCHANGED <<memory, stable, toReceiver>>
  /\ Returns

AwaitMoreChunks ==
  /\ at = "check"
  /\ ~InProgress
  /\ Nakable = {}
  /\ MissingChunks(state) # {}
  /\ UNCHANGED <<memory, stable, line>>
  /\ Returns

VerifyLengthOnly == disk[state.name].len = state.size
VerifyFileChecksum == Matches(disk[state.name], state.sum)

AllReceived == at = "check" /\ ~InProgress /\ MissingChunks(state) = {}

RejectFile ==
  /\ AllReceived
  /\ ~VerifyFileChecksum
  /\ transferActive' = FALSE
  /\ journal' = NoJournal
  /\ UNCHANGED <<state, lastAckedId, currentChunk, maxChunkSeen, packetList, disk, line>>
  /\ Returns

AcceptFile ==
  /\ AllReceived
  /\ VerifyFileChecksum
  /\ lastAckedId' = state.tid
  /\ Reply(Ack(state.tid, UINT32_MAX))
  /\ Continue("close")
  /\ UNCHANGED <<transferActive, state, currentChunk, maxChunkSeen, packetList,
                 stable, toReceiver>>

CloseTransfer ==
  /\ at = "close"
  /\ transferActive' = FALSE
  /\ journal' = NoJournal
  /\ UNCHANGED <<state, lastAckedId, currentChunk, maxChunkSeen, packetList, disk, line>>
  /\ Returns

-----------------------------------------------------------------------------
(* handle_resume_query                                                     *)

(* missing[0].first_chunk                                                  *)
FirstMissing == {c \in MissingChunks(state) : \A e \in MissingChunks(state) : c <= e}

LastMissing == {c \in MissingChunks(state) : \A e \in MissingChunks(state) : c >= e}
ResumePointLast(q) ==
  IF ~transferActive \/ state.tid # q.tid THEN {0}
  ELSE IF MissingChunks(state) = {} THEN {UINT32_MAX}
  ELSE LastMissing
ResumePoint(q) ==
  IF ~transferActive \/ state.tid # q.tid THEN {0}
  ELSE IF MissingChunks(state) = {} THEN {UINT32_MAX}
  ELSE FirstMissing

AnswerResumeQuery ==
  /\ Receive("ResumeQuery")
  /\ LET q == Head(toReceiver)
     IN  \E c \in ResumePoint(q) : Reply(ResumeInfo(q.tid, c))
  /\ UNCHANGED <<memory, stable>>
  /\ Returns

-----------------------------------------------------------------------------
(* The life of the process.                                                *)

MemoryLost ==
  /\ transferActive' = FALSE
  /\ state' = NoTransfer
  /\ lastAckedId' = 0
  /\ maxChunkSeen' = 0
  /\ ForgetChunk
  /\ wasActive' = FALSE
  /\ lingering' = FALSE

(* A write that did not finish leaves some of the chunk's packets on disk, *)
(* none when only the file was created.                                    *)
MaybeTorn ==
  \/ disk' = disk
  \/ /\ at = "write"
     /\ \E n \in 0 .. packetList.total :
          disk' = [disk EXCEPT ![state.name] = FlushedFile(n)]

(* poll() saw 1.5 s of silence in the second loop of main.                 *)
StopLingering ==
  /\ at = "recv"
  /\ lingering
  /\ toReceiver = <<>>
  /\ at' = "exited"
  /\ MemoryLost
  /\ UNCHANGED <<stable, line>>

(* A flush that fails throws; main catches it and the process ends.        *)
FlushThrows ==
  /\ at = "write"
  /\ IoErrors
  /\ at' = "exited"
  /\ MemoryLost
  /\ MaybeTorn
  /\ UNCHANGED <<journal, line>>

(* What a power cut may leave of the journal, which is renamed into place  *)
(* but never synced: an earlier version, none yet, or one without its      *)
(* contents (see JournalStore).                                            *)
JournalSetBack ==
  /\ Readable(journal)
  /\ \/ journal' \in {NoJournal, CorruptJournal}
     \/ \E d \in SUBSET journal.done, e \in {FALSE, journal.eof} :
          journal' = [journal EXCEPT !.done = d, !.eof = e]

(* The process is killed or the board reboots.                             *)
Crash ==
  /\ at \notin {"boot", "exited"}
  /\ at' = "boot"
  /\ MemoryLost
  /\ MaybeTorn
  /\ \/ journal' = journal
     \/ PowerCuts /\ JournalSetBack
  /\ UNCHANGED line

(* receiver_proc is started again.                                         *)
Relaunch ==
  /\ at = "exited"
  /\ at' = "boot"
  /\ UNCHANGED <<memory, mainLoop, stable, line>>

(* cfdp_send.sh is run: a new pair of PTYs and a new process, in place of  *)
(* the ones its trap stopped.                                              *)
StartAnew ==
  /\ at' = "boot"
  /\ MemoryLost
  /\ MaybeTorn
  /\ UNCHANGED journal
  /\ toReceiver' = <<>> /\ toSender' = <<>>

-----------------------------------------------------------------------------

ReceiverInit ==
  /\ at = "boot"
  /\ transferActive = FALSE
  /\ state = NoTransfer
  /\ lastAckedId = 0
  /\ currentChunk = UINT32_MAX
  /\ maxChunkSeen = 0
  /\ packetList = EmptyList
  /\ wasActive = FALSE
  /\ lingering = FALSE
  /\ journal = NoJournal
  /\ disk = [n \in Names |-> NoFile]
  /\ LineInit

(* What the program does by itself, in the order of its code.              *)
ReceiverStep ==
  \/ BootFresh \/ BootResume \/ DropNoise
  \/ IgnoreMetadata \/ ReackTransfer \/ AcceptMetadata \/ CreateJournal
  \/ DropData \/ ReackData \/ StoreData
  \/ WriteChunk \/ MarkChunk \/ AckChunk
  \/ DropEof \/ AcceptEof
  \/ NakCurrentChunk \/ NakMissingChunk \/ AwaitMoreChunks
  \/ RejectFile \/ AcceptFile \/ CloseTransfer
  \/ AnswerResumeQuery
=============================================================================

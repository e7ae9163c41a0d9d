---------------------------- MODULE PromiseProofs ----------------------------
(***************************************************************************)
(* Theorems about what ReceiverOpen promises.  Whatever arrives, a NAK     *)
(* asks for something, and for nothing the receiver has (NakOnlyMissing),  *)
(* and the journal claims nothing that memory does not (JournalTrails).    *)
(* When writes to stable storage do not fail, the journal is the transfer  *)
(* in memory (JournalMirrorsMemory) and recorded progress is not taken     *)
(* away (ProgressSurvives); when the senders are honest as well, an ACK is *)
(* a durable promise (AckOnlyDurable); from the invariant InStep.          *)
(* Whatever fails, the final ACK is only given to a verified file          *)
(* (FinalAckOnlyVerified): when the senders are honest and no two files    *)
(* rival for a destination, from the invariant Kept, what every reply on   *)
(* the line goes on meaning; whatever arrives when there is one            *)
(* transaction, from the invariant Guarded.                                *)
(***************************************************************************)
EXTENDS ReceiverProofs

-----------------------------------------------------------------------------
(* Maximal runs.                                                           *)

(* Whatever is missing, there is a run of it to ask for.                   *)
LEMMA RangesExist ==
  ASSUME NEW n \in Nat, NEW S \in SUBSET (0 .. n), S # {}
  PROVE  MaximalRanges(S) # {}
<1>1. PICK first \in S : \A k \in S : first <= k
  BY SmallestOf
<1> DEFINE Ends == {k \in Nat : first <= k /\ k + 1 \notin S}
<1>2. n \in Ends
  OBVIOUS
<1>3. PICK last \in Ends : \A k \in Ends : last <= k
  <2> HIDE DEF Ends
  <2>1. Ends \in SUBSET Nat /\ Ends # {}
    BY <1>2 DEF Ends
  <2>2. QED
    BY <2>1, SmallestOf
<1>4. ASSUME NEW i \in first .. last
      PROVE  i \in S
  <2>1. CASE i = first
    BY <2>1
  <2>2. CASE i # first
    <3>1. i - 1 \in Nat /\ first <= i - 1 /\ i - 1 < last
      BY <2>2
    <3>2. i - 1 \notin Ends
      BY <1>3, <3>1
    <3>3. QED
      BY <3>1, <3>2
  <2>3. QED
    BY <2>1, <2>2
<1>5. last \in S /\ first - 1 \notin S /\ last + 1 \notin S /\ first <= last
  BY <1>1, <1>4
<1>6. [first |-> first, last |-> last] \in MaximalRanges(S)
  BY <1>4, <1>5 DEF MaximalRanges
<1>7. QED
  BY <1>6

-----------------------------------------------------------------------------
(* A complete list is flushed before anything else happens.                *)

NoFullList == at \notin {"write", "mark", "ack"} => ~IsComplete(packetList)

LEMMA EmptyNotFull == ~IsComplete(EmptyList)
BY DEF IsComplete, EmptyList, InitList

LEMMA NextKeepsNoFullList ==
  ASSUME NoFullList, [Next]_vars
  PROVE  NoFullList'
<1> USE DEF NoFullList, Continue, Returns
<1>1. CASE UNCHANGED packetList /\ at \notin {"write", "mark", "ack"}
  BY <1>1 DEF IsComplete
<1>2. CASE packetList' = EmptyList
  BY <1>2, EmptyNotFull DEF IsComplete
<1>3. CASE StoreData
  BY <1>3 DEF StoreData
<1>4. CASE WriteChunk \/ MarkChunk
  BY <1>4 DEF WriteChunk, MarkChunk
<1>5. CASE LineDelivers \/ LineDrains \/ UNCHANGED vars
  BY <1>5 DEF LineDelivers, LineDrains, vars, receiverVars, memory
<1>6. CASE \/ BootFresh \/ BootResume \/ DropNoise
           \/ IgnoreMetadata \/ ReackTransfer \/ AcceptMetadata \/ CreateJournal
           \/ DropData \/ ReackData \/ AckChunk \/ DropEof \/ AcceptEof
  BY <1>1, <1>2, <1>6
     DEF BootFresh, BootResume, DropNoise, IgnoreMetadata, ReackTransfer, AcceptMetadata,
         CreateJournal, DropData, ReackData, AckChunk, DropEof, AcceptEof,
         ForgetChunk, Receive, memory
<1>7. CASE \/ NakCurrentChunk \/ NakMissingChunk \/ AwaitMoreChunks
           \/ RejectFile \/ AcceptFile \/ CloseTransfer \/ AnswerResumeQuery
  BY <1>1, <1>7
     DEF NakCurrentChunk, NakMissingChunk, AwaitMoreChunks, RejectFile, AcceptFile,
         AllReceived, CloseTransfer, AnswerResumeQuery, Receive, memory
<1>8. CASE StopLingering \/ FlushThrows \/ Crash \/ Relaunch \/ StartAnew
  BY <1>1, <1>2, <1>8
     DEF StopLingering, FlushThrows, Crash, Relaunch, StartAnew, MemoryLost, ForgetChunk,
         memory
<1>9. QED
  BY <1>3, <1>4, <1>5, <1>6, <1>7, <1>8 DEF Next, NewSender, SameSender, ReceiverStep

-----------------------------------------------------------------------------
(* What a NAK says.                                                        *)

OneChunk(p) == \E c : \A r \in p.missing : r.chunk = c

AsksForMissing(p) ==
  /\ p.missing # {}
  /\ OneChunk(p)
  /\ \A r \in p.missing :
       /\ r.chunk \in MissingChunks(state)
       /\ r.first <= r.last
       /\ r.last < PacketsIn(state.size, r.chunk)
       /\ r.chunk = currentChunk =>
            r.first .. r.last \subseteq NeedsRetransmit(packetList)

(* send_nak_packets, for a chunk that is not complete.                     *)
LEMMA NakPacketsSound ==
  ASSUME ShapeInv, at \in {"recv", "check"},
         currentChunk # UINT32_MAX, ~IsComplete(packetList)
  PROVE  AsksForMissing(NakPackets(currentChunk))
<1> DEFINE total == packetList.total
           N == NeedsRetransmit(packetList)
<1>1. /\ state # NoTransfer /\ currentChunk \in Chunks(state.size)
      /\ total = PacketsIn(state.size, currentChunk)
      /\ currentChunk \notin state.done
  BY DEF ShapeInv, ChunkKnown, ListOfChunk
<1>2. currentChunk \in MissingChunks(state)
  BY <1>1 DEF MissingChunks
<1>3. state.size \in Nat
  BY <1>1 DEF ShapeInv, TypeOK, JournalState
<1>4. total \in Nat \ {0}
  BY <1>1, <1>3, ChunkBound
<1>5. N \in SUBSET (0 .. total - 1)
  BY DEF NeedsRetransmit
<1>6. N # {}
  BY <1>4, CompleteMeansAllValid DEF ShapeInv, NeedsRetransmit, ValidSlots
<1>7. MaximalRanges(N) # {}
  <2> HIDE DEF N, total
  <2>1. total - 1 \in Nat
    BY <1>4
  <2>2. QED
    BY <1>5, <1>6, <2>1, RangesExist
<1> DEFINE R == {[chunk |-> currentChunk, first |-> q.first, last |-> q.last] : q \in NakRanges(packetList)}
<1>8. NakPackets(currentChunk).missing = R
  BY DEF NakPackets, Nak
<1>9. R # {}
  BY <1>7 DEF NakRanges
<1>10. ASSUME NEW r \in R
       PROVE  /\ r.chunk = currentChunk
              /\ r.first <= r.last /\ r.last < total
              /\ r.first .. r.last \subseteq N
  <2>1. PICK q \in MaximalRanges(N) :
          r = [chunk |-> currentChunk, first |-> q.first, last |-> q.last]
    BY DEF NakRanges
  <2>2. q.last \in N /\ q.first <= q.last /\ q.first .. q.last \subseteq N
    BY DEF MaximalRanges
  <2>3. QED
    BY <1>4, <1>5, <2>1, <2>2
<1> HIDE DEF R
<1>11. QED
  BY <1>1, <1>2, <1>8, <1>9, <1>10 DEF AsksForMissing, OneChunk

(* check_completion, for a chunk nothing of which is in the list.          *)
LEMMA NakChunkSound ==
  ASSUME ShapeInv, NoFullList, at = "check", ~InProgress, NEW c \in Nakable
  PROVE  AsksForMissing(NakChunk(c))
<1>1. state # NoTransfer /\ state.size \in Nat
  BY DEF ShapeInv, Coupled, TypeOK, JournalState
<1>2. c \in MissingChunks(state)
  BY DEF Nakable, MissingRanges, MaximalRanges
<1>3. c \in Chunks(state.size) /\ c \in Nat
  BY <1>2 DEF MissingChunks, Chunks
<1>4. PacketsIn(state.size, c) \in Nat \ {0}
  BY <1>1, <1>3, ChunkBound
<1>5. currentChunk = UINT32_MAX
  BY DEF NoFullList, InProgress
<1>6. c # currentChunk
  BY <1>3, <1>5, Uint32MaxAssumption
<1>7. NakChunk(c).missing
        = {[chunk |-> c, first |-> 0, last |-> PacketsIn(state.size, c) - 1]}
  BY DEF NakChunk, Nak
<1>8. QED
  BY <1>2, <1>4, <1>6, <1>7 DEF AsksForMissing, OneChunk

-----------------------------------------------------------------------------
(* Which steps reply, and what.                                            *)

LEMMA ReplyIsNew ==
  ASSUME TypeOK, NEW p, Reply(p)
  PROVE  NewReplies = {p}
BY DEF TypeOK, Reply, NewReplies

LEMMA OtherReplies ==
  ASSUME TypeOK, NEW tid, NEW c, Reply(Ack(tid, c)) \/ Reply(ResumeInfo(tid, c))
  PROVE  NewNaks = {}
BY ReplyIsNew DEF NewNaks, Ack, ResumeInfo

LEMMA NoReply ==
  ASSUME TypeOK, toSender' = toSender \/ Len(toSender') <= Len(toSender)
  PROVE  NewNaks = {}
BY DEF TypeOK, NewReplies, NewNaks

(* One reply fewer, or none left.                                          *)
LEMMA DrainShortens ==
  ASSUME TypeOK, LineDrains
  PROVE  Len(toSender') <= Len(toSender)
<1>1. toSender \in Seq(ReceiverPdu)
  BY DEF TypeOK
<1>2. CASE toSender' = <<>>
  BY <1>1, <1>2
<1>3. ASSUME NEW i \in DOMAIN toSender,
             toSender' = SubSeq(toSender, 1, i - 1) \o SubSeq(toSender, i + 1, Len(toSender))
      PROVE  Len(toSender') <= Len(toSender)
  <2>1. i \in 1 .. Len(toSender)
    BY <1>1
  <2>2. /\ SubSeq(toSender, 1, i - 1) \in Seq(ReceiverPdu)
        /\ Len(SubSeq(toSender, 1, i - 1)) = i - 1
    BY <1>1, <2>1
  <2>3. /\ SubSeq(toSender, i + 1, Len(toSender)) \in Seq(ReceiverPdu)
        /\ Len(SubSeq(toSender, i + 1, Len(toSender))) = Len(toSender) - i
    BY <1>1, <2>1
  <2>4. QED
    BY <1>1, <1>3, <2>1, <2>2, <2>3
<1>4. QED
  BY <1>2, <1>3 DEF LineDrains

LEMMA NaksSound ==
  ASSUME ShapeInv, NoFullList, [Next]_vars
  PROVE  \A p \in NewNaks : AsksForMissing(p)
<1> SUFFICES ASSUME NEW p \in NewNaks PROVE AsksForMissing(p)
  OBVIOUS
<1>1. TypeOK
  BY DEF ShapeInv
<1>2. CASE \/ ReackTransfer \/ AckChunk \/ AcceptFile \/ AnswerResumeQuery
  BY <1>1, <1>2, OtherReplies DEF ReackTransfer, AckChunk, AcceptFile, AnswerResumeQuery
<1>3. CASE ReackData
  BY <1>1, <1>3, OtherReplies, NoReply DEF ReackData
<1>4. CASE StoreData
  <2>1. CASE Abandons(Head(toReceiver))
    <3>1. at = "recv" /\ currentChunk # UINT32_MAX /\ ~IsComplete(packetList)
      BY <1>4, <2>1 DEF StoreData, Receive, Abandons
    <3>2. NewReplies = {NakPackets(currentChunk)}
      BY <1>1, <1>4, <2>1, ReplyIsNew DEF StoreData
    <3>3. QED
      BY <3>1, <3>2, NakPacketsSound DEF NewNaks
  <2>2. CASE ~Abandons(Head(toReceiver))
    BY <1>1, <1>4, <2>2, NoReply DEF StoreData
  <2>3. QED
    BY <2>1, <2>2
<1>5. CASE NakCurrentChunk
  <2>1. NewReplies = {NakPackets(currentChunk)}
    BY <1>1, <1>5, ReplyIsNew DEF NakCurrentChunk
  <2>2. QED
    BY <1>5, <2>1, NakPacketsSound DEF NakCurrentChunk, InProgress, NewNaks
<1>6. CASE NakMissingChunk
  <2>1. PICK c \in Nakable : Reply(NakChunk(c))
    BY <1>6 DEF NakMissingChunk
  <2>2. NewReplies = {NakChunk(c)}
    BY <1>1, <2>1, ReplyIsNew
  <2>3. QED
    BY <1>6, <2>2, NakChunkSound DEF NakMissingChunk, NewNaks
<1>7. CASE LineDrains
  BY <1>1, <1>7, DrainShortens, NoReply
<1>8. CASE StartAnew
  BY <1>1, <1>8, NoReply DEF StartAnew, TypeOK
<1>9. CASE \/ BootFresh \/ BootResume \/ DropNoise
           \/ IgnoreMetadata \/ AcceptMetadata \/ CreateJournal
           \/ DropData \/ WriteChunk \/ MarkChunk \/ DropEof \/ AcceptEof
           \/ AwaitMoreChunks \/ RejectFile \/ CloseTransfer
           \/ StopLingering \/ FlushThrows \/ Crash \/ Relaunch
           \/ LineDelivers \/ UNCHANGED vars
  <2>1. toSender' = toSender
    BY <1>9
       DEF BootFresh, BootResume, DropNoise, IgnoreMetadata, AcceptMetadata, CreateJournal,
           DropData, WriteChunk, MarkChunk, DropEof, AcceptEof, AwaitMoreChunks, RejectFile,
           CloseTransfer, StopLingering, FlushThrows, Crash, Relaunch, LineDelivers,
           vars, receiverVars, line
  <2>2. QED
    BY <1>1, <2>1, NoReply
<1>10. QED
  BY <1>2, <1>3, <1>4, <1>5, <1>6, <1>7, <1>8, <1>9 DEF Next, NewSender, SameSender, ReceiverStep

(* A NAK always asks for something, for packets of an unfinished chunk of  *)
(* the file, and for none that is held intact: for files and chunks of     *)
(* every size, whatever arrives (CfdpReceiver.cpp:256, 355-385).           *)
THEOREM NaksCorrect == Spec => NakOnlyMissing
<1>1. Init => NoFullList
  BY EmptyNotFull DEF Init, ReceiverInit, NoFullList
<1>2. NoFullList /\ [Next]_vars => NoFullList'
  BY NextKeepsNoFullList
<1>3. ShapeInv /\ NoFullList /\ [Next]_vars
        => [\A p \in NewNaks :
              /\ p.missing # {}
              /\ \A r \in p.missing :
                   /\ r.chunk \in MissingChunks(state)
                   /\ r.first <= r.last
                   /\ r.last < PacketsIn(state.size, r.chunk)
                   /\ r.chunk = currentChunk =>
                        r.first .. r.last \subseteq NeedsRetransmit(packetList)]_vars
  BY NaksSound DEF AsksForMissing
<1>4. QED
  BY <1>1, <1>2, <1>3, ShapeInvariance, PTL DEF Spec, NakOnlyMissing

-----------------------------------------------------------------------------
(* Memory and journal go together at every step of every handler.          *)

InStep ==
  /\ transferActive /\ at # "create" => journal = state
  /\ ~transferActive /\ at \in {"recv", "create"} => ~HasJournal
  /\ at \in {"boot", "exited"} => ~transferActive
  /\ at = "ack" => currentChunk \in state.done
  /\ at \in {"check", "close"} => state.eof
  /\ at = "close" => MissingChunks(state) = {}

LEMMA WriteSucceeds ==
  ASSUME ~IoErrors, NEW j, WriteJournal(j)
  PROVE  journal' = j
BY DEF WriteJournal

LEMMA ActiveHasJournal ==
  ASSUME ShapeInv, InStep, transferActive, at # "create"
  PROVE  state \in JournalState /\ journal = state /\ HasJournal
BY JournalSentinels, NoTransferAssumption
   DEF ShapeInv, TypeOK, Coupled, InStep, HasJournal, Readable

(* What the handlers that touch the journal do to it.                      *)
LEMMA BootInStep ==
  ASSUME ShapeInv, InStep, BootFresh \/ BootResume
  PROVE  InStep'
<1> USE DEF InStep, Continue, HasJournal, Readable
<1>1. CASE BootFresh
  BY <1>1 DEF BootFresh, memory
<1>2. CASE BootResume
  BY <1>2 DEF BootResume, stable, MissingChunks
<1>3. QED
  BY <1>1, <1>2

LEMMA MetadataInStep ==
  ASSUME ~IoErrors, ShapeInv, InStep, AcceptMetadata \/ CreateJournal
  PROVE  InStep'
<1> USE DEF InStep, Continue, Returns, HasJournal, Readable
<1>1. CASE AcceptMetadata
  BY <1>1 DEF AcceptMetadata
<1>2. CASE CreateJournal
  <2>1. journal' = state
    BY <1>2, WriteSucceeds DEF CreateJournal
  <2>2. QED
    BY <1>2, <2>1 DEF CreateJournal
<1>3. QED
  BY <1>1, <1>2

LEMMA MarkInStep ==
  ASSUME ~IoErrors, ShapeInv, InStep, MarkChunk
  PROVE  InStep'
<1>1. at = "mark" /\ transferActive /\ currentChunk \in Chunks(state.size)
  BY DEF MarkChunk, ShapeInv, Coupled, ChunkKnown
<1>2. state \in JournalState /\ journal = state /\ HasJournal
  BY <1>1, ActiveHasJournal
<1>3. journal' = [journal EXCEPT !.done = @ \cup {currentChunk}]
  BY <1>1, <1>2, WriteSucceeds DEF MarkChunk, MarkedDone, HasJournal
<1>4. state' = journal' /\ currentChunk' \in state'.done
  BY <1>2, <1>3 DEF MarkChunk, JournalState
<1>5. at' = "ack" /\ transferActive'
  BY <1>1 DEF MarkChunk, Continue
<1>6. QED
  BY <1>4, <1>5 DEF InStep

LEMMA EofInStep ==
  ASSUME ~IoErrors, ShapeInv, InStep, AcceptEof
  PROVE  InStep'
<1>1. at = "recv" /\ transferActive
  BY DEF AcceptEof, Receive
<1>2. state \in JournalState /\ journal = state /\ HasJournal
  BY <1>1, ActiveHasJournal
<1>3. state' = [state EXCEPT !.eof = TRUE] /\ state'.eof
  BY <1>2 DEF AcceptEof, JournalState
<1>4. CASE state.eof
  <2>1. state' = state
    BY <1>2, <1>3, <1>4 DEF JournalState
  <2>2. journal' = journal
    BY <1>4 DEF AcceptEof
  <2>3. QED
    BY <1>1, <1>2, <1>3, <2>1, <2>2 DEF AcceptEof, Continue, InStep
<1>5. CASE ~state.eof
  <2>1. journal' = MarkedEof(journal)
    BY <1>5, WriteSucceeds DEF AcceptEof
  <2>2. journal' = state'
    BY <1>2, <1>3, <2>1 DEF MarkedEof, HasJournal
  <2>3. QED
    BY <1>1, <1>3, <2>2 DEF AcceptEof, Continue, InStep
<1>6. QED
  BY <1>4, <1>5

LEMMA EndInStep ==
  ASSUME ShapeInv, InStep, RejectFile \/ AcceptFile \/ CloseTransfer
  PROVE  InStep'
<1>1. CASE RejectFile \/ CloseTransfer
  BY <1>1 DEF RejectFile, CloseTransfer, AllReceived, Returns, InStep, HasJournal, Readable
<1>2. CASE AcceptFile
  BY <1>2 DEF AcceptFile, AllReceived, Continue, InStep, MissingChunks, ShapeInv, Coupled, stable
<1>3. QED
  BY <1>1, <1>2

LEMMA NextKeepsInStep ==
  ASSUME ~IoErrors, ShapeInv, InStep, [Next]_vars
  PROVE  InStep'
<1> USE DEF stable
<1>1. CASE \/ DropNoise \/ IgnoreMetadata \/ ReackTransfer \/ DropData \/ ReackData
           \/ DropEof \/ NakCurrentChunk \/ NakMissingChunk \/ AwaitMoreChunks
           \/ AnswerResumeQuery
  <2>1. /\ UNCHANGED <<transferActive, state, stable>>
        /\ at \in {"recv", "check"} /\ at' = "recv"
    BY <1>1
       DEF DropNoise, IgnoreMetadata, ReackTransfer, DropData, ReackData, DropEof,
           NakCurrentChunk, NakMissingChunk, AwaitMoreChunks, AnswerResumeQuery,
           Receive, Returns, memory
  <2>2. at = "check" => transferActive
    BY DEF ShapeInv, Coupled
  <2>3. QED
    BY <2>1, <2>2 DEF InStep, HasJournal
<1>2. CASE StoreData \/ WriteChunk \/ AckChunk
  <2>1. /\ UNCHANGED <<transferActive, state, journal>>
        /\ transferActive /\ at # "create"
        /\ at' \in {"recv", "write", "mark", "check"}
        /\ at' = "check" => state.eof
    BY <1>2 DEF StoreData, Acceptable, WriteChunk, AckChunk, Receive, Continue, Returns,
                memory, ShapeInv, Coupled
  <2>2. QED
    BY <2>1 DEF InStep
<1>3. CASE BootFresh \/ BootResume
  BY <1>3, BootInStep
<1>4. CASE AcceptMetadata \/ CreateJournal
  BY <1>4, MetadataInStep
<1>5. CASE MarkChunk
  BY <1>5, MarkInStep
<1>6. CASE AcceptEof
  BY <1>6, EofInStep
<1>7. CASE RejectFile \/ AcceptFile \/ CloseTransfer
  BY <1>7, EndInStep
<1>8. CASE StopLingering \/ FlushThrows \/ Crash \/ Relaunch \/ StartAnew
  <2>1. at' \in {"boot", "exited"} /\ ~transferActive'
    BY <1>8 DEF StopLingering, FlushThrows, Crash, Relaunch, StartAnew, MemoryLost, memory,
                InStep
  <2>2. QED
    BY <2>1 DEF InStep
<1>9. CASE LineDelivers \/ LineDrains \/ UNCHANGED vars
  BY <1>9 DEF LineDelivers, LineDrains, vars, receiverVars, memory, InStep, HasJournal,
              MissingChunks
<1>10. QED
  BY <1>1, <1>2, <1>3, <1>4, <1>5, <1>6, <1>7, <1>8, <1>9 DEF Next, NewSender, SameSender, ReceiverStep

LEMMA AlwaysInStep == ASSUME ~IoErrors PROVE Spec => []InStep
<1>1. Init => InStep
  BY DEF Init, ReceiverInit, InStep
<1>2. ShapeInv /\ InStep /\ [Next]_vars => InStep'
  BY NextKeepsInStep
<1>3. QED
  BY <1>1, <1>2, ShapeInvariance, PTL DEF Spec

(* Between two PDUs state.bin is the transfer in memory, whatever arrives  *)
(* and wherever crashes and power cuts fall (CfdpReceiver.h:15-17).        *)
THEOREM JournalCorrect == ASSUME ~IoErrors PROVE Spec => []JournalMirrorsMemory
<1>1. InStep => JournalMirrorsMemory
  BY DEF InStep, JournalMirrorsMemory
<1>2. QED
  BY <1>1, AlwaysInStep, PTL

-----------------------------------------------------------------------------
(* Which steps acknowledge a chunk.                                        *)

Durable(p) ==
  /\ HasJournal
  /\ journal.tid = p.tid
  /\ p.chunk \in journal.done
  /\ ChunkOnDisk(disk[journal.name], journal.sum, p.chunk)

LEMMA DoneIsDurable ==
  ASSUME IndInv, InStep, transferActive, at # "create", NEW c \in state.done
  PROVE  Durable(Ack(state.tid, c))
<1>1. journal = state /\ HasJournal
  BY ActiveHasJournal DEF IndInv
<1>2. ChunkOnDisk(disk[journal.name], journal.sum, c)
  BY <1>1 DEF IndInv, ContentInv, DoneIsOnDisk
<1>3. QED
  BY <1>1, <1>2 DEF Durable, Ack

LEMMA OtherThanAck ==
  ASSUME TypeOK, NEW p, Reply(p), p.type = "Ack" => p.chunk = UINT32_MAX
  PROVE  NewAcks = {}
BY ReplyIsNew DEF NewAcks

LEMMA NoReplyNoAck ==
  ASSUME TypeOK, toSender' = toSender \/ Len(toSender') <= Len(toSender)
  PROVE  NewAcks = {}
BY DEF TypeOK, NewReplies, NewAcks

LEMMA AcksDurable ==
  ASSUME IndInv, InStep, [Next]_vars
  PROVE  \A p \in NewAcks : Durable(p)
<1>1. TypeOK
  BY DEF IndInv, ShapeInv
<1>2. CASE AckChunk
  <2>1. NewReplies = {Ack(state.tid, currentChunk)}
    BY <1>1, <1>2, ReplyIsNew DEF AckChunk
  <2>2. at # "create" /\ transferActive /\ currentChunk \in state.done
    BY <1>2 DEF AckChunk, InStep, IndInv, ShapeInv, Coupled
  <2>3. QED
    BY <2>1, <2>2, DoneIsDurable DEF NewAcks
<1>3. CASE ReackData
  <2>1. PICK d : /\ d = Head(toReceiver)
                 /\ at = "recv" /\ transferActive /\ d.chunk \in state.done
                 /\ IF d.pkt = 0 THEN Reply(Ack(state.tid, d.chunk)) ELSE UNCHANGED toSender
    BY <1>3 DEF ReackData, Receive, Acceptable
  <2>2. CASE d.pkt = 0
    <3>1. NewReplies = {Ack(state.tid, d.chunk)}
      BY <1>1, <2>1, <2>2, ReplyIsNew
    <3>2. QED
      BY <2>1, <3>1, DoneIsDurable DEF NewAcks
  <2>3. CASE d.pkt # 0
    BY <1>1, <2>1, <2>3, NoReplyNoAck
  <2>4. QED
    BY <2>2, <2>3
<1>4. CASE \/ ReackTransfer \/ AcceptFile \/ AnswerResumeQuery \/ NakCurrentChunk
           \/ NakMissingChunk
  BY <1>1, <1>4, OtherThanAck
     DEF ReackTransfer, AcceptFile, AnswerResumeQuery, NakCurrentChunk, NakMissingChunk,
         Ack, ResumeInfo, NakPackets, NakChunk, Nak
<1>5. CASE StoreData
  BY <1>1, <1>5, OtherThanAck, NoReplyNoAck DEF StoreData, NakPackets, Nak
<1>6. CASE LineDrains
  BY <1>1, <1>6, DrainShortens, NoReplyNoAck
<1>7. CASE StartAnew
  BY <1>1, <1>7, NoReplyNoAck DEF StartAnew, TypeOK
<1>8. CASE \/ BootFresh \/ BootResume \/ DropNoise
           \/ IgnoreMetadata \/ AcceptMetadata \/ CreateJournal
           \/ DropData \/ WriteChunk \/ MarkChunk \/ DropEof \/ AcceptEof
           \/ AwaitMoreChunks \/ RejectFile \/ CloseTransfer
           \/ StopLingering \/ FlushThrows \/ Crash \/ Relaunch
           \/ LineDelivers \/ UNCHANGED vars
  <2>1. toSender' = toSender
    BY <1>8
       DEF BootFresh, BootResume, DropNoise, IgnoreMetadata, AcceptMetadata, CreateJournal,
           DropData, WriteChunk, MarkChunk, DropEof, AcceptEof, AwaitMoreChunks, RejectFile,
           CloseTransfer, StopLingering, FlushThrows, Crash, Relaunch, LineDelivers,
           vars, receiverVars, line
  <2>2. QED
    BY <1>1, <2>1, NoReplyNoAck
<1>9. QED
  BY <1>2, <1>3, <1>4, <1>5, <1>6, <1>7, <1>8 DEF Next, NewSender, SameSender, ReceiverStep

(* A chunk is acknowledged, the first time and again, only once it is in   *)
(* the journal and on disk (CfdpReceiver.cpp:322-336).                     *)
THEOREM AcksCorrect == ASSUME HonestSenders, ~IoErrors PROVE Spec => AckOnlyDurable
<1>1. IndInv /\ InStep /\ [Next]_vars => [\A p \in NewAcks : Durable(p)]_vars
  BY AcksDurable
<1>2. QED
  BY <1>1, Invariance, AlwaysInStep, PTL DEF Spec, AckOnlyDurable, Durable

-----------------------------------------------------------------------------
(* What becomes of the journal.                                            *)

Survives ==
  /\ HasJournal'
  /\ journal'.tid = journal.tid
  /\ journal.done \subseteq journal'.done
  /\ journal.eof => journal'.eof

GivenUp ==
  \/ at \in {"check", "close"} /\ MissingChunks(journal) = {} /\ journal.eof
  \/ /\ at = "recv" /\ toReceiver # <<>>
     /\ Head(toReceiver).type = "Metadata"
     /\ Head(toReceiver).tid # journal.tid

LEMMA MarksSurvive ==
  ASSUME TypeOK, HasJournal, NEW c,
         journal' \in {journal, MarkedDone(journal, c), MarkedEof(journal)}
  PROVE  Survives
<1>1. journal \in JournalState
  BY DEF TypeOK, HasJournal, Readable
<1>2. CASE journal' = journal
  BY <1>2 DEF Survives, HasJournal
<1>3. CASE journal' = [journal EXCEPT !.done = @ \cup {c}] /\ c \in Chunks(journal.size)
  <2>1. c \in Nat
    BY <1>1, <1>3, ChunkBound DEF JournalState
  <2>2. /\ journal' \in JournalState
        /\ journal'.tid = journal.tid /\ journal'.eof = journal.eof
        /\ journal.done \subseteq journal'.done
    BY <1>1, <1>3, <2>1 DEF JournalState
  <2>3. QED
    BY <2>2, JournalSentinels DEF Survives, HasJournal, Readable
<1>4. CASE journal' = [journal EXCEPT !.eof = TRUE]
  <2>1. /\ journal' \in JournalState
        /\ journal'.tid = journal.tid /\ journal'.eof
        /\ journal.done = journal'.done
    BY <1>1, <1>4 DEF JournalState
  <2>2. QED
    BY <2>1, JournalSentinels DEF Survives, HasJournal, Readable
<1>5. QED
  BY <1>2, <1>3, <1>4 DEF MarkedDone, MarkedEof

LEMMA StepsSurvive ==
  ASSUME ~IoErrors, ~PowerCuts, ShapeInv, InStep, [Next]_vars, HasJournal
  PROVE  Survives \/ GivenUp
<1>1. TypeOK
  BY DEF ShapeInv
<1>2. CASE AcceptMetadata
  <2>1. CASE transferActive
    <3>1. journal = state
      BY <1>2, <2>1, ActiveHasJournal DEF AcceptMetadata, Receive
    <3>2. QED
      BY <1>2, <2>1, <3>1 DEF AcceptMetadata, Receive, Duplicate, GivenUp
  <2>2. CASE ~transferActive
    BY <1>2, <2>2 DEF AcceptMetadata, Receive, InStep
  <2>3. QED
    BY <2>1, <2>2
<1>3. CASE BootFresh \/ CreateJournal
  BY <1>3 DEF BootFresh, CreateJournal, ShapeInv, Coupled, HasJournal, Readable
<1>4. CASE MarkChunk \/ AcceptEof
  <2>1. journal' \in {journal, MarkedDone(journal, currentChunk), MarkedEof(journal)}
    BY <1>4 DEF MarkChunk, AcceptEof, WriteJournal
  <2>2. QED
    BY <1>1, <2>1, MarksSurvive
<1>5. CASE RejectFile \/ CloseTransfer
  <2>1. /\ at \in {"check", "close"} /\ transferActive
        /\ MissingChunks(state) = {} /\ state.eof
    BY <1>5 DEF RejectFile, CloseTransfer, AllReceived, ShapeInv, Coupled, InStep
  <2>2. journal = state
    BY <2>1, ActiveHasJournal
  <2>3. QED
    BY <2>1, <2>2 DEF GivenUp
<1>6. CASE \/ BootResume \/ DropNoise \/ IgnoreMetadata \/ ReackTransfer
           \/ DropData \/ ReackData \/ StoreData \/ WriteChunk \/ AckChunk \/ DropEof
           \/ NakCurrentChunk \/ NakMissingChunk \/ AwaitMoreChunks
           \/ AcceptFile \/ AnswerResumeQuery
           \/ StopLingering \/ FlushThrows \/ Crash \/ Relaunch \/ StartAnew
           \/ LineDelivers \/ LineDrains \/ UNCHANGED vars
  <2>1. journal' = journal
    BY <1>6
       DEF BootResume, DropNoise, IgnoreMetadata, ReackTransfer, DropData, ReackData,
           StoreData, WriteChunk, AckChunk, DropEof, NakCurrentChunk, NakMissingChunk,
           AwaitMoreChunks, AcceptFile, AnswerResumeQuery, StopLingering, FlushThrows, Crash,
           Relaunch, StartAnew, LineDelivers, LineDrains, vars, receiverVars, stable
  <2>2. QED
    BY <1>1, <2>1, MarksSurvive
<1>7. QED
  BY <1>2, <1>3, <1>4, <1>5, <1>6 DEF Next, NewSender, SameSender, ReceiverStep

(* Whatever arrives, no crash, reboot or handler takes recorded progress   *)
(* away before the transfer is over or another one is announced            *)
(* (CfdpReceiver.cpp:117-163, 387-400).                                    *)
THEOREM ProgressCorrect ==
  ASSUME ~IoErrors, ~PowerCuts PROVE Spec => ProgressSurvives
<1>1. ShapeInv /\ InStep /\ [Next]_vars => [HasJournal => Survives \/ GivenUp]_vars
  BY StepsSurvive
<1>2. QED
  BY <1>1, ShapeInvariance, AlwaysInStep, PTL DEF Spec, ProgressSurvives, Survives, GivenUp

-----------------------------------------------------------------------------
(* What a reply goes on meaning while it is on the line; writes may fail   *)
(* from here on.                                                           *)

Announces(who) == Says[who] \cap MetadataPdu
Announcements == Announces(sending)
AllAnnouncements == UNION {Announces(who) : who \in Senders}

(* A destination is that of one file, whoever sends it; or a sender has    *)
(* one transaction only, and the next may send another file there.         *)
OnePerName == \A m, n \in AllAnnouncements : m.name = n.name => m.sum = n.sum
OneAtATime == \A who \in Senders : \A m, n \in Announces(who) : m.tid = n.tid
NoRivals == OnePerName \/ OneAtATime

OneFileEach == \A m, n \in Announcements : m.name = n.name => m.sum = n.sum

Verified(tid) == \E m \in Announcements : m.tid = tid /\ Matches(disk[m.name], m.sum)

Holds(p) ==
  /\ p.type = "Ack" =>
       IF p.chunk = UINT32_MAX THEN Verified(p.tid)
       ELSE \E m \in Announcements :
              m.tid = p.tid /\ ChunkOnDisk(disk[m.name], m.sum, p.chunk)
  /\ p.type = "ResumeInfo" /\ p.first # 0 =>
       \E m \in Announcements :
         /\ m.tid = p.tid
         /\ \A c \in IF p.first = UINT32_MAX THEN Chunks(m.size) ELSE 0 .. p.first - 1 :
              ChunkOnDisk(disk[m.name], m.sum, c)

FullLength ==
  \A n \in Names :
    disk[n].len = 0 \/ \E m \in AllAnnouncements : m.name = n /\ m.size = disk[n].len

Kept ==
  /\ OnePerName => FullLength
  /\ state # NoTransfer => \A c \in state.done : ChunkOnDisk(disk[state.name], state.sum, c)
  /\ at = "ack" => currentChunk \in state.done
  /\ at = "close" => lastAckedId = state.tid
  /\ ~transferActive /\ at # "create" /\ lastAckedId # 0 => lastAckedId = state.tid
  /\ lastAckedId # 0 => Verified(lastAckedId)
  /\ \A i \in DOMAIN toSender : Holds(toSender[i])

LEMMA DivMod ==
  ASSUME NEW a \in Nat, NEW b \in Nat \ {0}
  PROVE  /\ a \div b \in Nat
         /\ a % b \in 0 .. b - 1
         /\ a = b * (a \div b) + (a % b)
OBVIOUS

(* Position k of a file is in one of its chunks.                           *)
LEMMA PositionFacts ==
  ASSUME NEW size \in Nat, NEW k \in 0 .. size - 1
  PROVE  /\ k \div ChunkSize \in Chunks(size)
         /\ k % ChunkSize \in 0 .. PacketsIn(size, k \div ChunkSize) - 1
         /\ ChunkOffset(k \div ChunkSize) + (k % ChunkSize) = k
<1> DEFINE c == k \div ChunkSize
           r == k % ChunkSize
           a == size + ChunkSize - 1
           t == a \div ChunkSize
           start == ChunkSize * c
           end == ChunkSize * t
<1>1. /\ ChunkSize \in Nat \ {0} /\ k \in Nat /\ k < size
      /\ a \in Nat /\ a % ChunkSize \in Nat
  BY ChunkSizeAssumption
<1>2. c \in Nat /\ r \in 0 .. ChunkSize - 1 /\ k = start + r
  BY <1>1, DivMod
<1>3. t \in Nat /\ a % ChunkSize < ChunkSize /\ a = end + (a % ChunkSize)
  <2> HIDE DEF a
  <2>1. a \div ChunkSize \in Nat /\ a % ChunkSize \in 0 .. ChunkSize - 1
        /\ a = ChunkSize * (a \div ChunkSize) + (a % ChunkSize)
    BY <1>1, DivMod
  <2>2. QED
    BY <1>1, <2>1
<1>4. ChunkOffset(c) = start /\ Chunks(size) = 0 .. t - 1
  BY <1>1, <1>2 DEF ChunkOffset, Chunks, TotalChunks
<1> HIDE DEF c, t, r
<1>5. start \in Nat /\ end \in Nat
  BY <1>1, <1>2, <1>3
<1>6. start < end
  <2> HIDE DEF start, end
  <2>1. QED
    BY <1>1, <1>2, <1>3, <1>5
<1>7. c < t
  BY <1>1, <1>2, <1>3, <1>6
<1>8. r \in 0 .. PacketsIn(size, c) - 1
  <2> HIDE DEF start
  <2>1. QED
    BY <1>1, <1>2, <1>4, <1>5 DEF PacketsIn
<1>9. QED
  <2> HIDE DEF start
  <2>1. c \in Chunks(size) /\ ChunkOffset(c) + r = k
    BY <1>2, <1>3, <1>4, <1>5, <1>7
  <2>2. QED
    BY <1>8, <2>1 DEF c, r

(* A file of the right length matches when each of its chunks does.        *)
LEMMA MatchesByChunks ==
  ASSUME NEW f \in Files, NEW file, file.len = FileLen[f]
  PROVE  Matches(file, f) <=> \A c \in Chunks(FileLen[f]) : ChunkOnDisk(file, f, c)
<1>1. FileLen[f] \in Nat
  BY FileLenAssumption
<1>2. ASSUME Matches(file, f), NEW c \in Chunks(FileLen[f])
      PROVE  ChunkOnDisk(file, f, c)
  <2>1. /\ ChunkOffset(c) \in Nat /\ PacketsIn(FileLen[f], c) \in Nat
        /\ ChunkOffset(c) + PacketsIn(FileLen[f], c) <= FileLen[f]
    BY <1>1, ChunkBound
  <2>2. ASSUME NEW i \in 0 .. PacketsIn(FileLen[f], c) - 1
        PROVE  /\ ChunkOffset(c) + i < file.len
               /\ file.pkts[ChunkOffset(c) + i] = <<f, ChunkOffset(c) + i>>
    <3>1. ChunkOffset(c) + i \in 0 .. file.len - 1
      BY <1>1, <2>1
    <3>2. QED
      BY <1>1, <1>2, <3>1 DEF Matches
  <2>3. QED
    BY <2>2 DEF ChunkOnDisk
<1>3. ASSUME \A c \in Chunks(FileLen[f]) : ChunkOnDisk(file, f, c), NEW k \in 0 .. file.len - 1
      PROVE  file.pkts[k] = <<f, k>>
  <2>1. PICK c \in Chunks(FileLen[f]) :
          \E i \in 0 .. PacketsIn(FileLen[f], c) - 1 : ChunkOffset(c) + i = k
    BY <1>1, PositionFacts
  <2>2. QED
    BY <1>3, <2>1 DEF ChunkOnDisk
<1>4. QED
  BY <1>2, <1>3 DEF Matches

(* A file with every chunk on disk, and no longer than that, is whole.     *)
LEMMA ChunksMatch ==
  ASSUME NEW f \in Files, NEW file, file.len \in {0, FileLen[f]},
         \A c \in Chunks(FileLen[f]) : ChunkOnDisk(file, f, c)
  PROVE  Matches(file, f)
<1>1. FileLen[f] \in Nat
  BY FileLenAssumption
<1>2. CASE file.len = 0 /\ FileLen[f] # 0
  <2>1. 0 \in 0 .. FileLen[f] - 1
    BY <1>1, <1>2
  <2>2. PICK c \in Chunks(FileLen[f]) :
          \E i \in 0 .. PacketsIn(FileLen[f], c) - 1 : ChunkOffset(c) + i = 0
    BY <1>1, <2>1, PositionFacts
  <2>3. QED
    BY <1>1, <1>2, <2>2 DEF ChunkOnDisk
<1>3. CASE file.len = FileLen[f]
  BY <1>3, MatchesByChunks
<1>4. QED
  BY <1>2, <1>3

(* What the senders say of the size of a file is true.                     *)
TrueSizes == \A m \in AllAnnouncements : m.size = FileLen[m.sum]

LEMMA HonestSizes == HonestSenders => TrueSizes
BY DEF TrueSizes, AllAnnouncements, Announces, HonestSenders, Honest

LEMMA AnnouncementFacts ==
  ASSUME TrueSizes, TypeOK, NEW m \in Announcements
  PROVE  /\ m \in AllAnnouncements
         /\ m.size = FileLen[m.sum] /\ m.sum \in Files /\ m.name \in Names /\ m.tid \in Tids
         /\ FileLen[m.sum] \in Nat
<1>1. m \in AllAnnouncements /\ m \in MetadataPdu
  BY DEF TypeOK, Announcements, Announces, AllAnnouncements
<1>2. QED
  BY <1>1, FileLenAssumption DEF TrueSizes, MetadataPdu

LEMMA HonestMetadata ==
  ASSUME HonestSenders, TypeOK, NEW m \in Announcements
  PROVE  /\ m \in AllAnnouncements
         /\ m.size = FileLen[m.sum] /\ m.sum \in Files /\ m.name \in Names /\ m.tid \in Tids
         /\ FileLen[m.sum] \in Nat
         /\ \A n \in Announcements :
              n.tid = m.tid => n.sum = m.sum /\ n.name = m.name /\ n.size = m.size
<1>1. Honest(Says[sending])
  BY DEF TypeOK, HonestSenders
<1>2. \A n \in Announcements :
        n.tid = m.tid => n.sum = m.sum /\ n.name = m.name
  BY <1>1 DEF Announcements, Announces, Honest
<1>3. QED
  BY <1>2, HonestSizes, AnnouncementFacts

LEMMA OneFileEachFact ==
  ASSUME HonestSenders, NoRivals, TypeOK
  PROVE  OneFileEach
<1>1. CASE OnePerName
  BY <1>1, HonestMetadata DEF OnePerName, OneFileEach
<1>2. CASE OneAtATime
  <2>1. \A m, n \in Announcements : m.tid = n.tid
    BY <1>2 DEF OneAtATime, Announcements, TypeOK
  <2>2. QED
    BY <2>1, HonestMetadata DEF OneFileEach
<1>3. QED
  BY <1>1, <1>2 DEF NoRivals

(* The announcement of the transfer in memory.                             *)
LEMMA AnnouncementOfState ==
  ASSUME ShapeInv, state # NoTransfer
  PROVE  \E m \in Announcements :
           m.tid = state.tid /\ m.size = state.size /\ m.sum = state.sum /\ m.name = state.name
BY DEF ShapeInv, Announced, FromMetadata, Announcements, Announces, Wire

(* What is on disk stays there.                                            *)
DiskGrows ==
  \A m \in Announcements :
    /\ \A c \in Nat : ChunkOnDisk(disk[m.name], m.sum, c)
                        => ChunkOnDisk(disk'[m.name], m.sum, c)
    /\ Matches(disk[m.name], m.sum) => Matches(disk'[m.name], m.sum)

(* A file nobody else writes is empty or of the announced length.          *)
LEMMA LengthOfState ==
  ASSUME TrueSizes, OnePerName, ShapeInv, FullLength, state # NoTransfer
  PROVE  disk[state.name].len \in {0, state.size}
<1>1. TypeOK
  BY DEF ShapeInv
<1>2. PICK m \in Announcements :
        m.tid = state.tid /\ m.size = state.size /\ m.sum = state.sum /\ m.name = state.name
  BY AnnouncementOfState
<1>3. m \in AllAnnouncements /\ state.name \in Names /\ state.size = FileLen[state.sum]
  BY <1>1, <1>2, AnnouncementFacts
<1>4. CASE disk[state.name].len # 0
  <2>1. PICK k \in AllAnnouncements : k.name = state.name /\ k.size = disk[state.name].len
    BY <1>3, <1>4 DEF FullLength
  <2>2. k.sum = m.sum
    BY <1>2, <1>3, <2>1 DEF OnePerName
  <2>3. k.size = FileLen[k.sum]
    BY DEF TrueSizes
  <2>4. QED
    BY <1>2, <1>3, <2>1, <2>2, <2>3
<1>5. QED
  BY <1>4

(* A flush, finished or torn, does not lengthen a file of that length.     *)
LEMMA FlushLength ==
  ASSUME TrueSizes, ShapeInv, at = "write", NEW n \in 0 .. packetList.total,
         disk[state.name].len \in {0, state.size}
  PROVE  FlushedFile(n).len = state.size
<1> DEFINE file == disk[state.name]
           off == ChunkOffset(currentChunk)
<1>1. TypeOK /\ state # NoTransfer /\ currentChunk # UINT32_MAX
      /\ currentChunk \in Chunks(state.size)
  BY DEF ShapeInv, ChunkKnown
<1>2. PICK m \in Announcements :
        m.tid = state.tid /\ m.size = state.size /\ m.sum = state.sum /\ m.name = state.name
  BY <1>1, AnnouncementOfState
<1>3. state.size \in Nat
  BY <1>1, <1>2, AnnouncementFacts
<1>4. off \in Nat /\ packetList.total \in Nat /\ off + packetList.total <= state.size
  BY <1>1, <1>3, ChunkBound DEF ShapeInv, ListOfChunk
<1>5. n \in Nat /\ off + n <= state.size
  <2> HIDE DEF off
  <2>1. n \in Nat /\ n <= packetList.total
    BY <1>4
  <2>2. QED
    BY <1>3, <1>4, <2>1
<1>6. FlushedFile(n).len
        = LET base == IF file.len = 0 THEN state.size ELSE file.len
          IN  IF off + n > base THEN off + n ELSE base
  BY DEF FlushedFile, Overwrite
<1>7. off + n > state.size => FALSE
  BY <1>3, <1>4, <1>5
<1> HIDE DEF file, off
<1>8. CASE file.len = 0
  BY <1>6, <1>7, <1>8
<1>9. CASE file.len # 0 /\ file.len = state.size
  BY <1>6, <1>7, <1>9
<1>10. QED
  BY <1>8, <1>9 DEF file

LEMMA FlushGrows ==
  ASSUME HonestSenders, NoRivals, IndInv, at = "write", NEW n \in 0 .. packetList.total,
         disk' = [disk EXCEPT ![state.name] = FlushedFile(n)]
  PROVE  DiskGrows
<1>1. ShapeInv /\ SlotsHold /\ TypeOK /\ state # NoTransfer
  BY DEF IndInv, ContentInv, ShapeInv, ChunkKnown
<1>2. PICK s \in Announcements :
        s.tid = state.tid /\ s.size = state.size /\ s.sum = state.sum /\ s.name = state.name
  BY <1>1, AnnouncementOfState
<1>3. state.size = FileLen[state.sum] /\ state.sum \in Files /\ state.name \in Names
  BY <1>1, <1>2, HonestMetadata
<1>4. /\ disk'[state.name] = FlushedFile(n)
      /\ \A x \in Names : x # state.name => disk'[x] = disk[x]
  BY <1>1, FlushKeepsDisk
<1>5. ASSUME NEW m \in Announcements
      PROVE  /\ \A c \in Nat : ChunkOnDisk(disk[m.name], m.sum, c)
                                 => ChunkOnDisk(disk'[m.name], m.sum, c)
             /\ Matches(disk[m.name], m.sum) => Matches(disk'[m.name], m.sum)
  <2>1. CASE m.name = state.name
    <3>1. m.sum = state.sum
      BY <1>1, <1>2, <2>1, OneFileEachFact DEF OneFileEach
    <3>2. \A c \in Nat : ChunkOnDisk(disk[m.name], m.sum, c)
                           => ChunkOnDisk(disk'[m.name], m.sum, c)
      BY <1>1, <1>4, <2>1, <3>1, HonestWireFact, FlushKeeps
    <3>3. ASSUME Matches(disk[m.name], m.sum)
          PROVE  Matches(disk'[m.name], m.sum)
      <4>1. disk[state.name].len = state.size
        BY <1>3, <2>1, <3>1, <3>3 DEF Matches
      <4>2. disk'[m.name].len = FileLen[m.sum]
        BY <1>1, <1>3, <1>4, <2>1, <3>1, <4>1, HonestSizes, FlushLength
      <4>3. \A c \in Chunks(FileLen[m.sum]) : ChunkOnDisk(disk[m.name], m.sum, c)
        BY <1>3, <2>1, <3>1, <3>3, <4>1, MatchesByChunks
      <4>4. \A c \in Chunks(FileLen[m.sum]) : c \in Nat
        BY DEF Chunks
      <4>5. QED
        BY <1>3, <3>1, <3>2, <4>2, <4>3, <4>4, MatchesByChunks
    <3>4. QED
      BY <3>2, <3>3
  <2>2. CASE m.name # state.name
    BY <1>1, <1>4, <2>2, HonestMetadata
  <2>3. QED
    BY <2>1, <2>2
<1>6. QED
  BY <1>5 DEF DiskGrows

LEMMA FlushFull ==
  ASSUME TrueSizes, OnePerName, ShapeInv, FullLength, at = "write",
         NEW n \in 0 .. packetList.total,
         disk' = [disk EXCEPT ![state.name] = FlushedFile(n)]
  PROVE  FullLength'
<1>1. TypeOK /\ state # NoTransfer
  BY DEF ShapeInv, ChunkKnown
<1>2. PICK s \in Announcements : s.size = state.size /\ s.name = state.name
  BY <1>1, AnnouncementOfState
<1>3. s \in AllAnnouncements
  BY <1>1, AnnouncementFacts
<1>4. /\ disk'[state.name] = FlushedFile(n)
      /\ \A x \in Names : x # state.name => disk'[x] = disk[x]
  BY FlushKeepsDisk
<1>5. FlushedFile(n).len = state.size
  BY <1>1, LengthOfState, FlushLength
<1>6. ASSUME NEW x \in Names, disk'[x].len # 0
      PROVE  \E m \in AllAnnouncements : m.name = x /\ m.size = disk'[x].len
  <2>1. CASE x = state.name
    BY <1>2, <1>3, <1>4, <1>5, <2>1
  <2>2. CASE x # state.name
    BY <1>4, <1>6, <2>2 DEF FullLength
  <2>3. QED
    BY <2>1, <2>2
<1>7. QED
  BY <1>6 DEF FullLength

LEMMA DiskSteps ==
  ASSUME ShapeInv, [Next]_vars
  PROVE  \/ disk' = disk
         \/ /\ at = "write"
            /\ \E n \in 0 .. packetList.total :
                 disk' = [disk EXCEPT ![state.name] = FlushedFile(n)]
<1>1. CASE WriteChunk
  <2>1. packetList.total \in 0 .. packetList.total
    BY DEF ShapeInv, TypeOK, IsList
  <2>2. QED
    BY <1>1, <2>1 DEF WriteChunk
<1>2. CASE StopLingering \/ FlushThrows \/ Crash \/ Relaunch \/ StartAnew
  BY <1>2 DEF StopLingering, FlushThrows, Crash, Relaunch, StartAnew, MaybeTorn, stable
<1>3. CASE \/ BootFresh \/ BootResume \/ DropNoise
           \/ IgnoreMetadata \/ ReackTransfer \/ AcceptMetadata \/ CreateJournal
           \/ DropData \/ ReackData \/ StoreData \/ MarkChunk \/ AckChunk
           \/ DropEof \/ AcceptEof
           \/ NakCurrentChunk \/ NakMissingChunk \/ AwaitMoreChunks
           \/ RejectFile \/ AcceptFile \/ CloseTransfer
           \/ AnswerResumeQuery
           \/ LineDelivers \/ LineDrains \/ UNCHANGED vars
  BY <1>3
     DEF BootFresh, BootResume, DropNoise, IgnoreMetadata, ReackTransfer, AcceptMetadata,
         CreateJournal, DropData, ReackData, StoreData, MarkChunk, AckChunk, DropEof,
         AcceptEof, NakCurrentChunk, NakMissingChunk, AwaitMoreChunks, RejectFile,
         AcceptFile, CloseTransfer, AnswerResumeQuery, LineDelivers, LineDrains,
         vars, receiverVars, stable
<1>4. QED
  BY <1>1, <1>2, <1>3 DEF Next, NewSender, SameSender, ReceiverStep

LEMMA NextKeepsLength ==
  ASSUME TrueSizes, OnePerName, ShapeInv, FullLength, [Next]_vars
  PROVE  FullLength'
<1>1. CASE disk' = disk
  BY <1>1 DEF FullLength
<1>2. QED
  BY <1>1, DiskSteps, FlushFull

LEMMA NextGrows ==
  ASSUME HonestSenders, NoRivals, IndInv, [Next]_vars
  PROVE  DiskGrows
<1>1. CASE disk' = disk
  BY <1>1 DEF DiskGrows
<1>2. QED
  BY <1>1, DiskSteps, FlushGrows DEF IndInv

(* A transfer is given up at its end by one step only.                     *)
LEMMA OnlyRejected ==
  ASSUME ShapeInv, [Next]_vars, at = "check", at' = "recv", ~transferActive'
  PROVE  RejectFile
<1>1. transferActive
  BY DEF ShapeInv, Coupled
<1>2. ~(NakCurrentChunk \/ NakMissingChunk \/ AwaitMoreChunks \/ AcceptFile)
  BY <1>1 DEF NakCurrentChunk, NakMissingChunk, AwaitMoreChunks, AcceptFile, memory
<1>3. ~(\/ BootFresh \/ BootResume \/ CreateJournal \/ WriteChunk \/ MarkChunk \/ AckChunk
        \/ CloseTransfer \/ StopLingering \/ FlushThrows \/ Crash \/ Relaunch \/ StartAnew
        \/ LineDelivers \/ LineDrains \/ UNCHANGED vars)
  BY DEF BootFresh, BootResume, CreateJournal, WriteChunk, MarkChunk, AckChunk, CloseTransfer,
         StopLingering, FlushThrows, Crash, Relaunch, StartAnew, LineDelivers, LineDrains,
         vars, receiverVars
<1>4. ~(\/ DropNoise \/ IgnoreMetadata \/ ReackTransfer \/ AcceptMetadata \/ DropData \/ ReackData
        \/ StoreData \/ DropEof \/ AcceptEof \/ AnswerResumeQuery)
  BY DEF DropNoise, IgnoreMetadata, ReackTransfer, AcceptMetadata, DropData, ReackData,
         StoreData, DropEof, AcceptEof, AnswerResumeQuery, Receive
<1>5. QED
  BY <1>2, <1>3, <1>4 DEF Next, NewSender, SameSender, ReceiverStep

(* A file of the right length every chunk of which is on disk is verified: *)
(* whatever arrives, when each destination is that of one file, a transfer *)
(* is given up as corrupt only when some chunk on disk is damaged, so that *)
(* sending the file again can help (CfdpReceiver.cpp:386-393).             *)
THEOREM RejectsCorrect == ASSUME TrueSizes, OnePerName PROVE Spec => RejectsOnlyDamaged
<1>1. Init => FullLength
  BY DEF Init, ReceiverInit, FullLength, NoFile
<1>2. ShapeInv /\ FullLength /\ [Next]_vars => FullLength'
  BY NextKeepsLength
<1>3. ASSUME ShapeInv, FullLength, [Next]_vars, at = "check", at' = "recv",
             ~transferActive'
      PROVE  \E c \in Chunks(state.size) : ~ChunkOnDisk(disk[state.name], state.sum, c)
  <2>1. SUFFICES ASSUME \A c \in Chunks(state.size) :
                          ChunkOnDisk(disk[state.name], state.sum, c)
                 PROVE  FALSE
    OBVIOUS
  <2>2. TypeOK /\ state # NoTransfer
    BY <1>3 DEF ShapeInv, Coupled
  <2>3. PICK m \in Announcements :
          m.tid = state.tid /\ m.size = state.size /\ m.sum = state.sum /\ m.name = state.name
    BY <1>3, <2>2, AnnouncementOfState
  <2>4. state.size = FileLen[state.sum] /\ state.sum \in Files /\ state.size \in Nat
    BY <2>2, <2>3, AnnouncementFacts
  <2>5. disk[state.name].len \in {0, state.size}
    BY <1>3, <2>2, LengthOfState
  <2>6. Matches(disk[state.name], state.sum)
    BY <2>1, <2>4, <2>5, ChunksMatch
  <2>7. RejectFile
    BY <1>3, OnlyRejected
  <2>8. QED
    BY <2>6, <2>7 DEF RejectFile, VerifyFileChecksum
<1>4. ShapeInv /\ FullLength /\ [Next]_vars
        => [at = "check" /\ at' = "recv" /\ ~transferActive' =>
              \E c \in Chunks(state.size) : ~ChunkOnDisk(disk[state.name], state.sum, c)]_vars
  BY <1>3
<1>5. QED
  BY <1>1, <1>2, <1>4, ShapeInvariance, PTL DEF Spec, RejectsOnlyDamaged

-----------------------------------------------------------------------------
(* Replies keep their meaning.                                             *)

LEMMA VerifiedStays ==
  ASSUME UNCHANGED sending, DiskGrows, NEW tid, Verified(tid)
  PROVE  Verified(tid)'
BY DEF Announces, DiskGrows, Verified, Announcements

LEMMA HoldsStays ==
  ASSUME UNCHANGED sending, DiskGrows, NEW p \in ReceiverPdu, Holds(p)
  PROVE  Holds(p)'
<1>0. Announcements' = Announcements
  BY DEF Announcements
<1>1. p.type = "Ack" => p.chunk \in Nat \cup {UINT32_MAX}
  BY DEF ReceiverPdu, AckPdu, NakPdu, ResumeInfoPdu
<1>2. CASE p.type = "Ack" /\ p.chunk = UINT32_MAX
  BY <1>2, VerifiedStays DEF Holds
<1>3. CASE p.type = "Ack" /\ p.chunk # UINT32_MAX
  BY <1>0, <1>1, <1>3 DEF Holds, DiskGrows
<1>4. CASE p.type = "ResumeInfo" /\ p.first # 0
  <2> DEFINE told(m) == IF p.first = UINT32_MAX THEN Chunks(m.size) ELSE 0 .. p.first - 1
  <2>1. PICK m \in Announcements :
          m.tid = p.tid /\ \A c \in told(m) : ChunkOnDisk(disk[m.name], m.sum, c)
    BY <1>4 DEF Holds
  <2>2. \A c \in told(m) : c \in Nat
    BY DEF Chunks
  <2> HIDE DEF told
  <2>3. \A c \in told(m) : ChunkOnDisk(disk'[m.name], m.sum, c)
    BY <2>1, <2>2 DEF DiskGrows
  <2>4. QED
    BY <1>0, <1>4, <2>1, <2>3 DEF Holds, told
<1>5. QED
  BY <1>2, <1>3, <1>4 DEF Holds

LEMMA ConcatAt ==
  ASSUME NEW S, NEW a \in Seq(S), NEW b \in Seq(S), NEW i \in 1 .. Len(a) + Len(b)
  PROVE  (a \o b)[i] = IF i <= Len(a) THEN a[i] ELSE b[i - Len(a)]
OBVIOUS

(* A reply on the line was there before or is the new one.                 *)
LEMMA OldOrNew ==
  ASSUME TypeOK, [Next]_vars, NEW i \in DOMAIN toSender'
  PROVE  \/ \E j \in DOMAIN toSender : toSender'[i] = toSender[j]
         \/ toSender'[i] \in NewReplies
<1>1. toSender \in Seq(ReceiverPdu)
  BY DEF TypeOK
<1>2. ASSUME NEW p, Reply(p)
      PROVE  toSender'[i] = p \/ \E j \in DOMAIN toSender : toSender'[i] = toSender[j]
  BY <1>1, <1>2 DEF Reply
<1>3. ASSUME NEW p, Reply(p)
      PROVE  toSender'[i] \in NewReplies \/ \E j \in DOMAIN toSender : toSender'[i] = toSender[j]
  BY <1>2, <1>3, ReplyIsNew
<1>4. CASE toSender' = toSender
  BY <1>4
<1>5. CASE \/ ReackTransfer \/ ReackData \/ StoreData \/ AckChunk
           \/ NakCurrentChunk \/ NakMissingChunk \/ AcceptFile \/ AnswerResumeQuery
  <2>1. toSender' = toSender \/ \E p : Reply(p)
    BY <1>5 DEF ReackTransfer, ReackData, StoreData, AckChunk, NakCurrentChunk,
                NakMissingChunk, AcceptFile, AnswerResumeQuery
  <2>2. QED
    BY <1>3, <1>4, <2>1
<1>6. CASE LineDrains
  <2>1. CASE toSender' = <<>>
    BY <2>1
  <2>2. ASSUME NEW k \in DOMAIN toSender,
               toSender' = SubSeq(toSender, 1, k - 1) \o SubSeq(toSender, k + 1, Len(toSender))
        PROVE  \E j \in DOMAIN toSender : toSender'[i] = toSender[j]
    <3> DEFINE front == SubSeq(toSender, 1, k - 1)
               back == SubSeq(toSender, k + 1, Len(toSender))
    <3>1. k \in 1 .. Len(toSender)
      BY <1>1
    <3>2. /\ front \in Seq(ReceiverPdu) /\ Len(front) = k - 1
          /\ \A x \in 1 .. k - 1 : front[x] = toSender[x]
      BY <1>1, <3>1
    <3>3. /\ back \in Seq(ReceiverPdu) /\ Len(back) = Len(toSender) - k
          /\ \A x \in 1 .. Len(toSender) - k : back[x] = toSender[k + x]
      BY <1>1, <3>1
    <3>4. toSender' = front \o back
      BY <2>2
    <3> HIDE DEF front, back
    <3>5. i \in 1 .. Len(front) + Len(back)
      BY <3>2, <3>3, <3>4
    <3>6. /\ Len(toSender) \in Nat /\ k \in Nat /\ i \in Nat /\ i <= Len(toSender) - 1
          /\ k <= Len(toSender)
      <4>1. /\ Len(toSender) \in Nat /\ k \in Nat /\ k <= Len(toSender)
            /\ Len(front) + Len(back) = Len(toSender) - 1
        BY <1>1, <3>1, <3>2, <3>3
      <4>2. QED
        BY <3>5, <4>1
    <3>7. toSender'[i] = IF i <= k - 1 THEN front[i] ELSE back[i - (k - 1)]
      <4>1. (front \o back)[i] = IF i <= Len(front) THEN front[i] ELSE back[i - Len(front)]
        BY <3>2, <3>3, <3>5, ConcatAt
      <4>2. QED
        BY <3>2, <3>4, <4>1
    <3>8. CASE i <= k - 1
      <4>1. i \in 1 .. k - 1 /\ i \in DOMAIN toSender
        BY <1>1, <3>5, <3>6, <3>8
      <4>2. QED
        BY <3>2, <3>7, <3>8, <4>1
    <3>9. CASE ~(i <= k - 1)
      <4>1. i - (k - 1) \in 1 .. Len(toSender) - k /\ k + (i - (k - 1)) \in 1 .. Len(toSender)
        BY <3>6, <3>9
      <4>2. back[i - (k - 1)] = toSender[k + (i - (k - 1))]
        BY <3>3, <4>1
      <4>3. k + (i - (k - 1)) \in DOMAIN toSender
        BY <1>1, <4>1
      <4>4. QED
        BY <3>7, <3>9, <4>2, <4>3
    <3>10. QED
      BY <3>8, <3>9
  <2>3. QED
    BY <1>6, <2>1, <2>2 DEF LineDrains
<1>7. CASE StartAnew
  BY <1>7 DEF StartAnew
<1>8. CASE \/ BootFresh \/ BootResume \/ DropNoise
           \/ IgnoreMetadata \/ AcceptMetadata \/ CreateJournal
           \/ DropData \/ WriteChunk \/ MarkChunk \/ DropEof \/ AcceptEof
           \/ AwaitMoreChunks \/ RejectFile \/ CloseTransfer
           \/ StopLingering \/ FlushThrows \/ Crash \/ Relaunch
           \/ LineDelivers \/ UNCHANGED vars
  <2>1. toSender' = toSender
    BY <1>8
       DEF BootFresh, BootResume, DropNoise, IgnoreMetadata, AcceptMetadata, CreateJournal,
           DropData, WriteChunk, MarkChunk, DropEof, AcceptEof, AwaitMoreChunks, RejectFile,
           CloseTransfer, StopLingering, FlushThrows, Crash, Relaunch, LineDelivers,
           vars, receiverVars, line
  <2>2. QED
    BY <1>4, <2>1
<1>9. QED
  BY <1>5, <1>6, <1>7, <1>8 DEF Next, NewSender, SameSender, ReceiverStep

(* What memory calls done is on disk.                                      *)
LEMMA MemoryKept ==
  ASSUME HonestSenders, NoRivals, IndInv, Kept, [Next]_vars
  PROVE  /\ state' # NoTransfer =>
              \A c \in state'.done : ChunkOnDisk(disk'[state'.name], state'.sum, c)
         /\ at' = "ack" => currentChunk' \in state'.done
<1>0. ShapeInv /\ TypeOK
  BY DEF IndInv, ShapeInv
<1> USE DEF Continue, Returns, memory
<1>1. CASE /\ UNCHANGED state
           /\ at' # "ack" \/ UNCHANGED <<at, currentChunk>>
  <2>1. ASSUME state # NoTransfer, NEW c \in state.done
        PROVE  ChunkOnDisk(disk'[state.name], state.sum, c)
    <3>1. PICK m \in Announcements : m.sum = state.sum /\ m.name = state.name
      BY <1>0, <2>1, AnnouncementOfState
    <3>2. c \in Nat
      BY <2>1 DEF IndInv, ShapeInv, TypeOK, JournalState
    <3>3. ChunkOnDisk(disk[state.name], state.sum, c)
      BY <2>1 DEF Kept
    <3>4. QED
      BY <3>1, <3>2, <3>3, NextGrows DEF DiskGrows, Kept
  <2>2. QED
    BY <1>1, <2>1 DEF Kept
<1>2. CASE BootResume
  <2>1. state' = journal /\ disk' = disk /\ at' # "ack" /\ HasJournal
    BY <1>2 DEF BootResume, stable, HasJournal
  <2>2. QED
    BY <2>1 DEF IndInv, ContentInv, DoneIsOnDisk
<1>3. CASE AcceptMetadata
  BY <1>3 DEF AcceptMetadata, NewState
<1>4. CASE MarkChunk
  <2>1. at = "mark" /\ state # NoTransfer /\ state \in JournalState
    BY <1>4 DEF MarkChunk, IndInv, ShapeInv, Coupled, TypeOK
  <2>2. /\ state'.done = state.done \cup {currentChunk}
        /\ state'.name = state.name /\ state'.sum = state.sum
        /\ UNCHANGED <<disk, currentChunk>>
    BY <1>4, <2>1 DEF MarkChunk, JournalState
  <2>3. ChunkOnDisk(disk[state.name], state.sum, currentChunk)
    BY <2>1 DEF IndInv, ContentInv, ChunkFlushed
  <2>4. QED
    BY <2>1, <2>2, <2>3 DEF Kept
<1>5. CASE AcceptEof
  <2>1. state # NoTransfer /\ state \in JournalState
    BY <1>5 DEF AcceptEof, IndInv, ShapeInv, Coupled, TypeOK
  <2>2. /\ state'.done = state.done
        /\ state'.name = state.name /\ state'.sum = state.sum
        /\ disk' = disk /\ at' # "ack"
    BY <1>5, <2>1 DEF AcceptEof, JournalState
  <2>3. QED
    BY <2>1, <2>2 DEF Kept
<1>6. CASE StopLingering \/ FlushThrows \/ Crash \/ StartAnew
  BY <1>6 DEF StopLingering, FlushThrows, Crash, StartAnew, MemoryLost
<1>7. CASE \/ BootFresh \/ DropNoise \/ IgnoreMetadata \/ ReackTransfer \/ CreateJournal
           \/ DropData \/ ReackData \/ StoreData \/ WriteChunk \/ AckChunk \/ DropEof
           \/ NakCurrentChunk \/ NakMissingChunk \/ AwaitMoreChunks
           \/ RejectFile \/ AcceptFile \/ CloseTransfer \/ AnswerResumeQuery
           \/ Relaunch \/ LineDelivers \/ LineDrains \/ UNCHANGED vars
  BY <1>1, <1>7
     DEF BootFresh, DropNoise, IgnoreMetadata, ReackTransfer, CreateJournal, DropData,
         ReackData, StoreData, WriteChunk, AckChunk, DropEof, NakCurrentChunk,
         NakMissingChunk, AwaitMoreChunks, RejectFile, AcceptFile, CloseTransfer,
         AnswerResumeQuery, Relaunch, LineDelivers, LineDrains, vars, receiverVars
<1>8. QED
  BY <1>2, <1>3, <1>4, <1>5, <1>6, <1>7 DEF Next, NewSender, SameSender, ReceiverStep

(* A file that is complete is right: it is never rejected when a           *)
(* destination is that of one file.                                        *)
LEMMA CompleteMatches ==
  ASSUME HonestSenders, OnePerName, IndInv, Kept, state # NoTransfer, MissingChunks(state) = {}
  PROVE  Matches(disk[state.name], state.sum)
<1> DEFINE file == disk[state.name]
<1>0. ShapeInv /\ TypeOK
  BY DEF IndInv, ShapeInv
<1>1. PICK m \in Announcements :
        m.tid = state.tid /\ m.size = state.size /\ m.sum = state.sum /\ m.name = state.name
  BY <1>0, AnnouncementOfState
<1>2. state.size = FileLen[state.sum] /\ state.sum \in Files /\ state.size \in Nat
  BY <1>0, <1>1, HonestMetadata
<1>3. \A c \in Chunks(state.size) : ChunkOnDisk(file, state.sum, c)
  BY DEF MissingChunks, Kept
<1>4. file.len \in {0, state.size}
  BY <1>0, HonestSizes, LengthOfState DEF Kept
<1>5. QED
  BY <1>2, <1>3, <1>4, ChunksMatch

(* Who was acknowledged last.                                              *)
LEMMA LastAckedKept ==
  ASSUME HonestSenders, NoRivals, IndInv, Kept, [Next]_vars,
         UNCHANGED sending
  PROVE  /\ at' = "close" => lastAckedId' = state'.tid
         /\ ~transferActive' /\ at' # "create" /\ lastAckedId' # 0 => lastAckedId' = state'.tid
         /\ lastAckedId' # 0 => Verified(lastAckedId)'
<1>0. ShapeInv /\ TypeOK
  BY DEF IndInv, ShapeInv
<1> USE DEF Continue, Returns, memory
<1>1. DiskGrows
  BY NextGrows DEF Kept
<1>2. CASE /\ UNCHANGED lastAckedId
           /\ at' # "close" \/ UNCHANGED <<at, state>>
           /\ \/ transferActive'
              \/ at' = "create"
              \/ at # "create" /\ UNCHANGED <<transferActive, state>>
              \/ at = "close" /\ UNCHANGED state
  BY <1>1, <1>2, VerifiedStays DEF Kept
<1>3. CASE AcceptFile
  <2>1. /\ at = "check" /\ transferActive /\ state # NoTransfer
        /\ lastAckedId' = state.tid /\ state' = state /\ transferActive' = transferActive
        /\ Matches(disk[state.name], state.sum)
    BY <1>3 DEF AcceptFile, AllReceived, VerifyFileChecksum, IndInv, ShapeInv, Coupled
  <2>2. Verified(state.tid)
    BY <1>0, <2>1, AnnouncementOfState DEF Verified
  <2>3. Verified(lastAckedId)'
    BY <1>1, <2>1, <2>2, VerifiedStays
  <2>4. QED
    BY <2>1, <2>3
<1>4. CASE RejectFile
  <2>1. /\ state # NoTransfer /\ MissingChunks(state) = {}
        /\ ~Matches(disk[state.name], state.sum)
        /\ at' = "recv" /\ UNCHANGED <<state, lastAckedId, disk>>
    BY <1>4 DEF RejectFile, AllReceived, VerifyFileChecksum, IndInv, ShapeInv, Coupled
  <2>2. OneAtATime
    BY <2>1, CompleteMatches DEF NoRivals
  <2>3. lastAckedId # 0 => lastAckedId = state.tid
    BY <1>0, <2>1, <2>2, AnnouncementOfState
       DEF Kept, Verified, Announcements, OneAtATime, TypeOK
  <2>4. lastAckedId # 0 => Verified(lastAckedId)'
    BY <1>1, <1>4, VerifiedStays DEF Kept, RejectFile
  <2>5. QED
    BY <2>1, <2>3, <2>4
<1>5. CASE StopLingering \/ FlushThrows \/ Crash \/ StartAnew
  BY <1>5 DEF StopLingering, FlushThrows, Crash, StartAnew, MemoryLost
<1>6. CASE \/ BootFresh \/ BootResume \/ DropNoise \/ IgnoreMetadata \/ ReackTransfer
           \/ AcceptMetadata \/ CreateJournal \/ DropData \/ ReackData \/ DropEof
           \/ NakCurrentChunk \/ NakMissingChunk \/ AwaitMoreChunks
           \/ CloseTransfer \/ AnswerResumeQuery
  BY <1>2, <1>6
     DEF BootFresh, BootResume, DropNoise, IgnoreMetadata, ReackTransfer, AcceptMetadata,
         CreateJournal, DropData, ReackData, DropEof, NakCurrentChunk,
         NakMissingChunk, AwaitMoreChunks, CloseTransfer, AnswerResumeQuery, Receive
<1>7. CASE StoreData \/ WriteChunk \/ MarkChunk \/ AckChunk \/ AcceptEof
  <2>1. transferActive' /\ at' # "close" /\ UNCHANGED lastAckedId
    BY <1>7 DEF StoreData, Acceptable, WriteChunk, MarkChunk, AckChunk, AcceptEof, IndInv,
                ShapeInv, Coupled
  <2>2. QED
    BY <1>2, <2>1
<1>8. CASE Relaunch \/ LineDelivers \/ LineDrains \/ UNCHANGED vars
  <2>1. /\ lastAckedId' = lastAckedId /\ transferActive' = transferActive /\ state' = state
        /\ at' = at \/ (at' = "boot" /\ at = "exited")
    BY <1>8 DEF Relaunch, LineDelivers, LineDrains, vars, receiverVars
  <2>2. /\ at' = "close" => lastAckedId' = state'.tid
        /\ ~transferActive' /\ at' # "create" /\ lastAckedId' # 0 => lastAckedId' = state'.tid
    BY <2>1 DEF Kept
  <2>3. lastAckedId' # 0 => Verified(lastAckedId)'
    BY <1>1, <2>1, VerifiedStays DEF Kept
  <2>4. QED
    BY <2>2, <2>3
<1>9. QED
  BY <1>3, <1>4, <1>5, <1>6, <1>7, <1>8 DEF Next, NewSender, SameSender, ReceiverStep

(* A chunk memory calls done may be acknowledged.                          *)
LEMMA DoneHolds ==
  ASSUME HonestSenders, IndInv, Kept, state # NoTransfer, NEW c \in state.done
  PROVE  Holds(Ack(state.tid, c))
<1>0. ShapeInv /\ TypeOK
  BY DEF IndInv, ShapeInv
<1>1. PICK m \in Announcements :
        m.tid = state.tid /\ m.sum = state.sum /\ m.name = state.name
  BY <1>0, AnnouncementOfState
<1>2. c # UINT32_MAX
  BY Uint32MaxAssumption DEF IndInv, ShapeInv, TypeOK, JournalState
<1>3. ChunkOnDisk(disk[m.name], m.sum, c)
  BY <1>1 DEF Kept
<1>4. QED
  BY <1>1, <1>2, <1>3 DEF Holds, Ack

(* The transfer resumes where everything before is on disk.                *)
LEMMA ResumeHolds ==
  ASSUME HonestSenders, IndInv, Kept, NEW q, NEW c \in ResumePoint(q)
  PROVE  Holds(ResumeInfo(q.tid, c))
<1>0. ShapeInv /\ TypeOK
  BY DEF IndInv, ShapeInv
<1> DEFINE p == ResumeInfo(q.tid, c)
<1>1. p.type = "ResumeInfo" /\ p.tid = q.tid /\ p.first = c
  BY DEF ResumeInfo
<1>2. CASE c = 0
  BY <1>1, <1>2 DEF Holds
<1>3. CASE c # 0
  <2>1. transferActive /\ state.tid = q.tid
    BY <1>3 DEF ResumePoint
  <2>2. PICK m \in Announcements :
          m.tid = state.tid /\ m.size = state.size /\ m.sum = state.sum /\ m.name = state.name
    BY <1>0, <2>1, AnnouncementOfState DEF IndInv, ShapeInv, Coupled
  <2>3. \A e \in Chunks(state.size) \ MissingChunks(state) :
          ChunkOnDisk(disk[m.name], m.sum, e)
    BY <2>1, <2>2 DEF MissingChunks, Kept, IndInv, ShapeInv, Coupled
  <2>4. CASE MissingChunks(state) = {}
    <3>1. c = UINT32_MAX
      BY <2>1, <2>4 DEF ResumePoint
    <3>2. QED
      BY <1>1, <2>1, <2>2, <2>3, <2>4, <3>1 DEF Holds
  <2>5. CASE MissingChunks(state) # {}
    <3>1. c \in MissingChunks(state) /\ \A e \in MissingChunks(state) : c <= e
      BY <2>1, <2>5 DEF ResumePoint, FirstMissing
    <3>2. c \in Nat /\ c # UINT32_MAX
      BY <3>1, Uint32MaxAssumption DEF MissingChunks, Chunks
    <3>3. ASSUME NEW e \in 0 .. c - 1
          PROVE  e \in Chunks(state.size) \ MissingChunks(state)
      <4>1. state.size \in Nat
        BY <1>0, <2>2, HonestMetadata
      <4>2. TotalChunks(state.size) \in Int
        BY <4>1, ChunkSizeAssumption DEF TotalChunks
      <4>3. QED
        BY <3>1, <3>2, <4>2 DEF MissingChunks, Chunks
    <3>4. QED
      BY <1>1, <2>1, <2>2, <2>3, <3>2, <3>3 DEF Holds
  <2>6. QED
    BY <2>4, <2>5
<1>4. QED
  BY <1>2, <1>3

LEMMA NewRepliesHold ==
  ASSUME HonestSenders, NoRivals, IndInv, Kept, [Next]_vars
  PROVE  \A p \in NewReplies : Holds(p)
<1>0. ShapeInv /\ TypeOK
  BY DEF IndInv, ShapeInv
<1>1. TypeOK
  BY <1>0
<1>2. /\ \A p : p.type = "Nak" => Holds(p)
      /\ NakPackets(currentChunk).type = "Nak"
      /\ \A c : NakChunk(c).type = "Nak"
  BY DEF Holds, NakPackets, NakChunk, Nak
<1>3. CASE AckChunk
  <2>1. NewReplies = {Ack(state.tid, currentChunk)}
    BY <1>1, <1>3, ReplyIsNew DEF AckChunk
  <2>2. currentChunk \in state.done /\ state # NoTransfer
    BY <1>3 DEF AckChunk, Kept, IndInv, ShapeInv, Coupled
  <2>3. QED
    BY <2>1, <2>2, DoneHolds
<1>4. CASE ReackData
  <2>1. PICK d : /\ d.chunk \in state.done /\ transferActive
                 /\ Reply(Ack(state.tid, d.chunk)) \/ UNCHANGED toSender
    BY <1>4 DEF ReackData, Acceptable
  <2>2. state # NoTransfer
    BY <2>1 DEF IndInv, ShapeInv, Coupled
  <2>3. Holds(Ack(state.tid, d.chunk))
    BY <2>1, <2>2, DoneHolds
  <2>4. CASE Reply(Ack(state.tid, d.chunk))
    BY <1>1, <2>3, <2>4, ReplyIsNew
  <2>5. CASE UNCHANGED toSender
    BY <1>1, <2>5 DEF NewReplies, TypeOK
  <2>6. QED
    BY <2>1, <2>4, <2>5
<1>5. CASE ReackTransfer
  <2>1. /\ at = "recv" /\ ~transferActive /\ lastAckedId = Head(toReceiver).tid
        /\ Head(toReceiver) \in Wire /\ Head(toReceiver).type = "Metadata"
        /\ Reply(Ack(state.tid, UINT32_MAX))
    BY <1>1, <1>5, ReceiveTakes DEF ReackTransfer, Finished
  <2>2. lastAckedId # 0
    BY <1>0, <2>1, WireTypes, TidsAssumption DEF MetadataPdu
  <2>3. Verified(state.tid)
    BY <2>1, <2>2 DEF Kept
  <2>4. Holds(Ack(state.tid, UINT32_MAX))
    BY <2>3 DEF Holds, Ack
  <2>5. QED
    BY <1>1, <2>1, <2>4, ReplyIsNew
<1>6. CASE AcceptFile
  <2>1. /\ transferActive /\ state # NoTransfer /\ Matches(disk[state.name], state.sum)
        /\ Reply(Ack(state.tid, UINT32_MAX))
    BY <1>6 DEF AcceptFile, AllReceived, VerifyFileChecksum, IndInv, ShapeInv, Coupled
  <2>2. Verified(state.tid)
    BY <1>0, <2>1, AnnouncementOfState DEF Verified
  <2>3. Holds(Ack(state.tid, UINT32_MAX))
    BY <2>2 DEF Holds, Ack
  <2>4. QED
    BY <1>1, <2>1, <2>3, ReplyIsNew
<1>7. CASE AnswerResumeQuery
  <2>1. PICK q : \E c \in ResumePoint(q) : Reply(ResumeInfo(q.tid, c))
    BY <1>7 DEF AnswerResumeQuery
  <2>2. QED
    BY <1>1, <2>1, ResumeHolds, ReplyIsNew
<1>8. CASE NakCurrentChunk \/ NakMissingChunk
  BY <1>1, <1>2, <1>8, ReplyIsNew DEF NakCurrentChunk, NakMissingChunk
<1>9. CASE StoreData
  <2>1. CASE UNCHANGED toSender
    BY <1>1, <2>1 DEF NewReplies, TypeOK
  <2>2. CASE Reply(NakPackets(currentChunk))
    BY <1>1, <1>2, <2>2, ReplyIsNew
  <2>3. QED
    BY <1>9, <2>1, <2>2 DEF StoreData
<1>10. CASE LineDrains
  BY <1>1, <1>10, DrainShortens DEF NewReplies, TypeOK
<1>11. CASE StartAnew
  BY <1>1, <1>11 DEF StartAnew, NewReplies, TypeOK
<1>12. CASE \/ BootFresh \/ BootResume \/ DropNoise
            \/ IgnoreMetadata \/ AcceptMetadata \/ CreateJournal
            \/ DropData \/ WriteChunk \/ MarkChunk \/ DropEof \/ AcceptEof
            \/ AwaitMoreChunks \/ RejectFile \/ CloseTransfer
            \/ StopLingering \/ FlushThrows \/ Crash \/ Relaunch
            \/ LineDelivers \/ UNCHANGED vars
  <2>1. toSender' = toSender
    BY <1>12
       DEF BootFresh, BootResume, DropNoise, IgnoreMetadata, AcceptMetadata, CreateJournal,
           DropData, WriteChunk, MarkChunk, DropEof, AcceptEof, AwaitMoreChunks, RejectFile,
           CloseTransfer, StopLingering, FlushThrows, Crash, Relaunch, LineDelivers,
           vars, receiverVars, line
  <2>2. QED
    BY <1>1, <2>1 DEF NewReplies, TypeOK
<1>13. QED
  BY <1>3, <1>4, <1>5, <1>6, <1>7, <1>8, <1>9, <1>10, <1>11, <1>12 DEF Next, NewSender, SameSender, ReceiverStep

LEMMA NextKeepsKept ==
  ASSUME HonestSenders, NoRivals, IndInv, Kept, [Next]_vars
  PROVE  Kept'
<1>0. ShapeInv /\ TypeOK
  BY DEF IndInv, ShapeInv
<1>1. DiskGrows /\ (OnePerName => FullLength')
  BY <1>0, NextGrows, NextKeepsLength, HonestSizes DEF Kept
<1>2. ASSUME UNCHANGED sending, NEW i \in DOMAIN toSender'
      PROVE  Holds(toSender[i])'
  <2>1. PICK p : p = toSender'[i]
    OBVIOUS
  <2>2. p \in ReceiverPdu
    <3>1. toSender' \in Seq(ReceiverPdu)
      BY <1>0, NextKeepsShape DEF ShapeInv, TypeOK
    <3>2. QED
      BY <2>1, <3>1
  <2>3. Holds(p)
    <3>1. CASE \E j \in DOMAIN toSender : p = toSender[j]
      BY <3>1 DEF Kept
    <3>2. CASE p \in NewReplies
      BY <3>2, NewRepliesHold
    <3>3. QED
      BY <1>0, <2>1, <3>1, <3>2, OldOrNew
  <2>4. Holds(p)'
    BY <1>1, <1>2, <2>2, <2>3, HoldsStays
  <2>5. QED
    BY <2>1, <2>4 DEF Holds
<1>3. CASE UNCHANGED sending
  BY <1>1, <1>2, <1>3, MemoryKept, LastAckedKept DEF Kept
<1>4. CASE NewSender
  BY <1>1, <1>4, MemoryKept DEF NewSender, StartAnew, MemoryLost, Kept
<1>5. QED
  BY <1>3, <1>4 DEF Next, vars

LEMMA InitKept == Init => Kept
BY DEF Init, ReceiverInit, LineInit, Kept, FullLength, NoFile

LEMMA AlwaysKept == ASSUME HonestSenders, NoRivals PROVE Spec => []Kept
<1>1. IndInv /\ Kept /\ [Next]_vars => Kept'
  BY NextKeepsKept
<1>2. QED
  BY <1>1, InitKept, Invariance, PTL DEF Spec

(* The final ACK, the first one and every later one, leaves only while the *)
(* file on disk is the one announced, when a destination is that of one    *)
(* file or a sender has one transaction (CfdpReceiver.cpp:126-131,         *)
(* 387-398).                                                               *)
THEOREM FinalAcksCorrect ==
  ASSUME HonestSenders, NoRivals PROVE Spec => FinalAckOnlyVerified
<1>1. ASSUME IndInv, Kept, [Next]_vars,
             NEW p \in NewFinalAcks, NEW m \in Wire \cap MetadataPdu, m.tid = p.tid
      PROVE  Matches(disk[m.name], m.sum)
  <2>1. Holds(p) /\ p.type = "Ack" /\ p.chunk = UINT32_MAX
    BY <1>1, NewRepliesHold DEF NewFinalAcks
  <2>2. PICK n \in Announcements : n.tid = p.tid /\ Matches(disk[n.name], n.sum)
    BY <2>1 DEF Holds, Verified
  <2>3. m \in Announcements /\ TypeOK
    BY <1>1 DEF Announcements, Announces, Wire, IndInv, ShapeInv
  <2>4. n.sum = m.sum /\ n.name = m.name
    BY <1>1, <2>2, <2>3, HonestMetadata
  <2>5. QED
    BY <2>2, <2>4
<1>2. IndInv /\ Kept /\ [Next]_vars
        => [\A p \in NewFinalAcks, m \in Wire \cap MetadataPdu :
              m.tid = p.tid => Matches(disk[m.name], m.sum)]_vars
  BY <1>1
<1>3. QED
  BY <1>2, Invariance, AlwaysKept, PTL DEF Spec, FinalAckOnlyVerified
-----------------------------------------------------------------------------
(* The CRC-32 of the whole file as the last guard: what follows holds of   *)
(* any packets, misplaced ones and ones that keep their CRC-8 included.    *)

(* A Metadata that is not refused has one transaction id at a time, and    *)
(* that id one file.                                                       *)
Accepted(who) == {m \in Announces(who) : ~Rejected(m)}
OneTransaction == \A who \in Senders : \A m, n \in Accepted(who) : m.tid = n.tid
OneFilePerId ==
  \A who \in Senders : \A m, n \in Announces(who) :
    m.tid = n.tid => m.sum = n.sum /\ m.name = n.name

(* Once a file has been verified the receiver has nothing more to do with  *)
(* this sender: the id it acknowledged is that of any Metadata it would    *)
(* accept.                                                                 *)
Guarded ==
  /\ state # NoTransfer => ~Rejected(state)
  /\ HasJournal => ~Rejected(journal)
  /\ lastAckedId # 0 =>
       /\ at = "close" \/ (at = "recv" /\ ~transferActive)
       /\ lastAckedId = state.tid
       /\ Matches(disk[state.name], state.sum)

LEMMA SameRejected ==
  ASSUME NEW m, NEW n, m.size = n.size, m.name = n.name
  PROVE  Rejected(m) <=> Rejected(n)
BY DEF Rejected

LEMMA NothingElseAccepted ==
  ASSUME OneTransaction, ShapeInv, Guarded, lastAckedId # 0
  PROVE  ~AcceptMetadata
<1>1. SUFFICES ASSUME AcceptMetadata
               PROVE  FALSE
  OBVIOUS
<1>2. TypeOK /\ state # NoTransfer /\ sending \in Senders
  BY DEF ShapeInv, Coupled, TypeOK
<1>3. at = "recv" /\ ~transferActive /\ lastAckedId = state.tid /\ ~Rejected(state)
  BY <1>1, <1>2 DEF AcceptMetadata, Receive, Guarded
<1>4. PICK m \in Announcements :
        m.tid = state.tid /\ m.size = state.size /\ m.name = state.name
  BY <1>2, AnnouncementOfState
<1>5. m \in Accepted(sending)
  BY <1>3, <1>4, SameRejected DEF Accepted, Announcements
<1>6. Head(toReceiver) \in Accepted(sending)
  BY <1>1, <1>2, ReceiveTakes, WireTypes DEF AcceptMetadata, Accepted, Announces, Wire
<1>7. Head(toReceiver).tid = lastAckedId
  BY <1>2, <1>3, <1>4, <1>5, <1>6 DEF OneTransaction
<1>8. QED
  BY <1>1, <1>3, <1>7 DEF AcceptMetadata, Finished

LEMMA NextGuarded ==
  ASSUME OneTransaction, ShapeInv, Guarded, [Next]_vars
  PROVE  Guarded'
<1>0. TypeOK /\ Coupled
  BY DEF ShapeInv
<1> USE DEF HasJournal, Readable
<1>1. CASE BootFresh
  BY <1>1, JournalSentinels DEF BootFresh, memory, Continue, Guarded
<1>2. CASE BootResume
  <2>1. lastAckedId = 0
    BY <1>2 DEF BootResume, Guarded
  <2>2. QED
    BY <1>2, <2>1 DEF BootResume, stable, Guarded
<1>3. CASE AcceptMetadata
  <2>1. lastAckedId = 0 /\ lastAckedId' = 0
    BY <1>3, NothingElseAccepted DEF AcceptMetadata
  <2>2. ~Rejected(state')
    BY <1>3 DEF AcceptMetadata, NewState, Rejected
  <2>3. journal' = NoJournal
    BY <1>3 DEF AcceptMetadata
  <2>4. QED
    BY <2>1, <2>2, <2>3 DEF Guarded
<1>4. CASE CreateJournal
  <2>1. lastAckedId = 0 /\ lastAckedId' = 0 /\ state' = state /\ state # NoTransfer
    BY <1>0, <1>4 DEF CreateJournal, Guarded, Coupled
  <2>2. journal' = state \/ journal' = journal
    BY <1>4 DEF CreateJournal, WriteJournal
  <2>3. QED
    BY <2>1, <2>2 DEF Guarded
<1>5. CASE WriteChunk
  <2>1. lastAckedId = 0
    BY <1>5 DEF WriteChunk, Guarded
  <2>2. QED
    BY <1>5, <2>1 DEF WriteChunk, memory, Guarded
<1>6. CASE MarkChunk
  <2>1. lastAckedId = 0 /\ lastAckedId' = 0 /\ state # NoTransfer
    BY <1>0, <1>6 DEF MarkChunk, Guarded, Coupled
  <2>2. state'.size = state.size /\ state'.name = state.name
    BY <1>0, <1>6, <2>1 DEF MarkChunk, TypeOK, JournalState
  <2>3. ~Rejected(state')
    BY <2>1, <2>2, SameRejected DEF Guarded
  <2>4. HasJournal' => HasJournal /\ journal'.size = journal.size /\ journal'.name = journal.name
    BY <1>0, <1>6 DEF MarkChunk, WriteJournal, MarkedDone, TypeOK, JournalState
  <2>5. HasJournal' => ~Rejected(journal')
    BY <2>4, SameRejected DEF Guarded
  <2>6. QED
    BY <2>1, <2>3, <2>5 DEF Guarded
<1>7. CASE AcceptEof
  <2>1. /\ transferActive /\ state # NoTransfer
        /\ lastAckedId = 0 /\ lastAckedId' = 0
    BY <1>0, <1>7 DEF AcceptEof, Receive, Guarded, Coupled
  <2>2. state'.size = state.size /\ state'.name = state.name
    BY <1>0, <1>7, <2>1 DEF AcceptEof, TypeOK, JournalState
  <2>3. ~Rejected(state')
    BY <2>1, <2>2, SameRejected DEF Guarded
  <2>4. HasJournal' => HasJournal /\ journal'.size = journal.size /\ journal'.name = journal.name
    BY <1>0, <1>7 DEF AcceptEof, WriteJournal, MarkedEof, TypeOK, JournalState
  <2>5. HasJournal' => ~Rejected(journal')
    BY <2>4, SameRejected DEF Guarded
  <2>6. QED
    BY <2>1, <2>3, <2>5 DEF Guarded
<1>8. CASE AcceptFile
  BY <1>8 DEF AcceptFile, VerifyFileChecksum, Continue, stable, Guarded
<1>9. CASE CloseTransfer \/ RejectFile
  BY <1>9, JournalSentinels DEF CloseTransfer, RejectFile, AllReceived, Returns, Guarded
<1>10. CASE StopLingering \/ FlushThrows \/ Crash \/ StartAnew
  <2>1. state' = NoTransfer /\ lastAckedId' = 0
    BY <1>10 DEF StopLingering, FlushThrows, Crash, StartAnew, MemoryLost
  <2>2. HasJournal' => HasJournal /\ journal'.size = journal.size /\ journal'.name = journal.name
    <3>1. journal' = journal \/ JournalSetBack
      BY <1>10 DEF StopLingering, FlushThrows, Crash, StartAnew, stable
    <3>2. QED
      BY <1>0, <3>1, JournalLeft
  <2>3. HasJournal' => ~Rejected(journal')
    BY <2>2, SameRejected DEF Guarded
  <2>4. QED
    BY <2>1, <2>3 DEF Guarded
<1>11. CASE DropNoise \/ IgnoreMetadata \/ ReackTransfer \/ DropData \/ DropEof \/ AnswerResumeQuery
  BY <1>11
     DEF DropNoise, IgnoreMetadata, ReackTransfer, DropData, DropEof, AnswerResumeQuery,
         Receive, Returns, memory, stable, Guarded
<1>12. CASE ReackData \/ StoreData \/ AckChunk \/ NakCurrentChunk \/ NakMissingChunk \/ AwaitMoreChunks
  <2>1. lastAckedId = 0
    BY <1>12
       DEF ReackData, StoreData, Acceptable, AckChunk, NakCurrentChunk, NakMissingChunk,
           AwaitMoreChunks, Receive, Guarded
  <2>2. UNCHANGED <<state, lastAckedId, journal>>
    BY <1>12
       DEF ReackData, StoreData, AckChunk, NakCurrentChunk, NakMissingChunk, AwaitMoreChunks,
           memory, stable
  <2>3. QED
    BY <2>1, <2>2 DEF Guarded
<1>13. CASE Relaunch \/ LineDelivers \/ LineDrains \/ UNCHANGED vars
  BY <1>13 DEF Relaunch, LineDelivers, LineDrains, memory, stable, vars, receiverVars, Guarded
<1>14. QED
  BY <1>1, <1>2, <1>3, <1>4, <1>5, <1>6, <1>7, <1>8, <1>9, <1>10, <1>11, <1>12, <1>13
     DEF Next, NewSender, SameSender, ReceiverStep

LEMMA FinalAckSteps ==
  ASSUME ShapeInv, [Next]_vars, NEW p \in NewFinalAcks
  PROVE  /\ AcceptFile \/ ReackTransfer
         /\ p = Ack(state.tid, UINT32_MAX)
<1>1. TypeOK
  BY DEF ShapeInv
<1>2. p.type = "Ack" /\ p.chunk = UINT32_MAX /\ p \in NewReplies
  BY DEF NewFinalAcks
<1>3. CASE AckChunk
  <2>1. p = Ack(state.tid, currentChunk) /\ currentChunk # UINT32_MAX
    BY <1>1, <1>2, <1>3, ReplyIsNew DEF AckChunk, ShapeInv, ChunkKnown
  <2>2. QED
    BY <1>2, <2>1 DEF Ack
<1>4. CASE ReackData
  <2>1. PICK d : /\ d.chunk \in Chunks(state.size) /\ transferActive
                 /\ Reply(Ack(state.tid, d.chunk)) \/ UNCHANGED toSender
    BY <1>4 DEF ReackData, Acceptable
  <2>2. d.chunk # UINT32_MAX
    BY <2>1, Uint32MaxAssumption DEF Chunks
  <2>3. ~UNCHANGED toSender
    BY <1>1, <1>2 DEF NewReplies, TypeOK
  <2>4. p = Ack(state.tid, d.chunk)
    BY <1>1, <1>2, <2>1, <2>3, ReplyIsNew
  <2>5. QED
    BY <1>2, <2>2, <2>4 DEF Ack
<1>5. CASE NakCurrentChunk \/ NakMissingChunk \/ StoreData \/ AnswerResumeQuery
  <2>1. ~UNCHANGED toSender
    BY <1>1, <1>2 DEF NewReplies, TypeOK
  <2>2. /\ NakPackets(currentChunk).type # "Ack"
        /\ \A c : NakChunk(c).type # "Ack"
        /\ \A t, c : ResumeInfo(t, c).type # "Ack"
    BY DEF NakPackets, NakChunk, Nak, ResumeInfo
  <2>3. \/ Reply(NakPackets(currentChunk))
        \/ \E c : Reply(NakChunk(c))
        \/ \E t, c : Reply(ResumeInfo(t, c))
    BY <1>5, <2>1 DEF NakCurrentChunk, NakMissingChunk, StoreData, AnswerResumeQuery
  <2>4. \E q : Reply(q) /\ q.type # "Ack"
    BY <2>2, <2>3
  <2>5. QED
    BY <1>1, <1>2, <2>4, ReplyIsNew
<1>6. CASE ReackTransfer \/ AcceptFile
  BY <1>1, <1>2, <1>6, ReplyIsNew DEF ReackTransfer, AcceptFile
<1>7. CASE LineDrains \/ StartAnew
  BY <1>1, <1>2, <1>7, DrainShortens DEF StartAnew, NewReplies, TypeOK
<1>8. CASE \/ BootFresh \/ BootResume \/ DropNoise
            \/ IgnoreMetadata \/ AcceptMetadata \/ CreateJournal
            \/ DropData \/ WriteChunk \/ MarkChunk \/ DropEof \/ AcceptEof
            \/ AwaitMoreChunks \/ RejectFile \/ CloseTransfer
            \/ StopLingering \/ FlushThrows \/ Crash \/ Relaunch
            \/ LineDelivers \/ UNCHANGED vars
  <2>1. toSender' = toSender
    BY <1>8
       DEF BootFresh, BootResume, DropNoise, IgnoreMetadata, AcceptMetadata, CreateJournal,
           DropData, WriteChunk, MarkChunk, DropEof, AcceptEof, AwaitMoreChunks, RejectFile,
           CloseTransfer, StopLingering, FlushThrows, Crash, Relaunch, LineDelivers,
           vars, receiverVars, line
  <2>2. QED
    BY <1>1, <1>2, <2>1 DEF NewReplies, TypeOK
<1>9. QED
  BY <1>3, <1>4, <1>5, <1>6, <1>7, <1>8 DEF Next, NewSender, SameSender, ReceiverStep

(* Whatever packets arrive, and whatever fails, a final ACK leaves only    *)
(* while the file on disk is the one announced, if a sender is at one      *)
(* transfer only, as every run of sender.py is: the CRC-32 is never passed *)
(* over (CfdpReceiver.cpp:126-131, 387-398).                               *)
THEOREM FinalAcksVerified ==
  ASSUME OneTransaction, OneFilePerId PROVE Spec => FinalAckOnlyVerified
<1>1. Init => Guarded
  BY JournalSentinels DEF Init, ReceiverInit, Guarded, HasJournal, Readable
<1>2. ShapeInv /\ Guarded /\ [Next]_vars => Guarded'
  BY NextGuarded
<1>3. ASSUME ShapeInv, Guarded, [Next]_vars,
             NEW p \in NewFinalAcks, NEW m \in Wire \cap MetadataPdu, m.tid = p.tid
      PROVE  Matches(disk[m.name], m.sum)
  <2>1. TypeOK /\ Coupled /\ sending \in Senders /\ m \in Announcements
    BY <1>3 DEF ShapeInv, TypeOK, Announcements, Announces, Wire
  <2>2. /\ AcceptFile \/ ReackTransfer
        /\ p = Ack(state.tid, UINT32_MAX)
    BY <1>3, FinalAckSteps
  <2>3. state # NoTransfer /\ Matches(disk[state.name], state.sum)
    <3>1. CASE AcceptFile
      BY <2>1, <3>1 DEF AcceptFile, AllReceived, VerifyFileChecksum, Coupled
    <3>2. CASE ReackTransfer
      <4>1. at = "recv" /\ ~transferActive /\ lastAckedId = Head(toReceiver).tid
        BY <3>2 DEF ReackTransfer, Receive, Finished
      <4>2. Head(toReceiver) \in MetadataPdu
        BY <2>1, <3>2, ReceiveTakes, WireTypes DEF ReackTransfer
      <4>3. lastAckedId # 0
        BY <4>1, <4>2, TidsAssumption DEF MetadataPdu
      <4>4. QED
        BY <1>3, <2>1, <4>3 DEF Guarded, Coupled
    <3>3. QED
      BY <2>2, <3>1, <3>2
  <2>4. PICK n \in Announcements : n.tid = state.tid /\ n.sum = state.sum /\ n.name = state.name
    BY <1>3, <2>3, AnnouncementOfState
  <2>5. n.sum = m.sum /\ n.name = m.name
    BY <1>3, <2>1, <2>2, <2>4 DEF OneFilePerId, Announcements, Ack
  <2>6. QED
    BY <2>3, <2>4, <2>5
<1>4. ShapeInv /\ Guarded /\ [Next]_vars
        => [\A p \in NewFinalAcks, m \in Wire \cap MetadataPdu :
              m.tid = p.tid => Matches(disk[m.name], m.sum)]_vars
  BY <1>3
<1>5. QED
  BY <1>1, <1>2, <1>4, ShapeInvariance, PTL DEF Spec, FinalAckOnlyVerified
-----------------------------------------------------------------------------
(* What else is known of the receiver at each of its steps, whatever       *)
(* arrives and whatever fails.                                             *)

(* state.bin may lag behind the transfer in memory, since the result of a  *)
(* write is ignored; it claims nothing memory does not.                    *)
JournalTrails ==
  transferActive /\ HasJournal =>
    /\ journal.tid = state.tid
    /\ journal.size = state.size
    /\ journal.done \subseteq state.done
    /\ journal.eof => state.eof

(* A transfer that has everything is ended before the next PDU is handled. *)
Unfinished ==
  /\ at = "create" => ~state.eof
  /\ at \in {"check", "close"} => state.eof
  /\ at = "recv" /\ transferActive /\ state.eof => MissingChunks(state) # {}
  /\ at \in {"recv", "create"} /\ ~transferActive => ~HasJournal

AckDue == at = "ack" => currentChunk \in state.done /\ IsComplete(packetList)

Forgotten ==
  at \in {"boot", "exited"} =>
    ~transferActive /\ state = NoTransfer /\ currentChunk = UINT32_MAX

Paced == JournalTrails /\ Unfinished /\ AckDue /\ Forgotten

LEMMA BootPaced ==
  ASSUME ShapeInv, Paced, BootFresh \/ BootResume
  PROVE  Paced'
<1> USE DEF Paced, JournalTrails, Unfinished, AckDue, Forgotten, Continue, HasJournal
<1>1. CASE BootFresh
  BY <1>1 DEF BootFresh, memory, Readable
<1>2. CASE BootResume
  BY <1>2 DEF BootResume, stable, MissingChunks
<1>3. QED
  BY <1>1, <1>2

LEMMA MetadataPaced ==
  ASSUME ShapeInv, Paced, AcceptMetadata \/ CreateJournal
  PROVE  Paced'
<1> USE DEF Paced, JournalTrails, Unfinished, AckDue, Forgotten, Continue, Returns, HasJournal,
            Readable
<1>1. CASE AcceptMetadata
  <2>1. ~state'.eof
    BY <1>1 DEF AcceptMetadata, NewState
  <2>2. QED
    BY <1>1, <2>1 DEF AcceptMetadata
<1>2. CASE CreateJournal
  <2>1. at = "create" /\ journal = NoJournal /\ UNCHANGED state /\ transferActive' /\ at' = "recv"
    BY <1>2 DEF CreateJournal, ShapeInv, Coupled
  <2>2. journal' = state \/ journal' = NoJournal
    BY <1>2, <2>1 DEF CreateJournal, WriteJournal
  <2>3. QED
    BY <2>1, <2>2
<1>3. QED
  BY <1>1, <1>2

LEMMA MarkPaced ==
  ASSUME ShapeInv, Paced, MarkChunk
  PROVE  Paced'
<1>1. at = "mark" /\ transferActive /\ IsComplete(packetList)
  BY DEF MarkChunk, ShapeInv, Coupled, ChunkKnown
<1>2. state \in JournalState
  BY <1>1 DEF ShapeInv, TypeOK, Coupled
<1>3. /\ state' = [state EXCEPT !.done = @ \cup {currentChunk}]
      /\ UNCHANGED <<transferActive, packetList, currentChunk>> /\ at' = "ack"
  BY DEF MarkChunk, Continue
<1>4. /\ state'.tid = state.tid /\ state'.size = state.size /\ state'.eof = state.eof
      /\ state'.done = state.done \cup {currentChunk}
  BY <1>2, <1>3 DEF JournalState
<1>5. \/ journal' = journal
      \/ HasJournal /\ journal' = [journal EXCEPT !.done = @ \cup {currentChunk}]
  BY DEF MarkChunk, WriteJournal, MarkedDone, HasJournal
<1>6. JournalTrails'
  <2>1. CASE journal' = journal
    BY <1>1, <1>4, <2>1 DEF Paced, JournalTrails, HasJournal
  <2>2. CASE HasJournal /\ journal' = [journal EXCEPT !.done = @ \cup {currentChunk}]
    <3>1. journal \in JournalState
      BY <2>2 DEF ShapeInv, TypeOK, HasJournal, Readable
    <3>2. /\ journal'.tid = journal.tid /\ journal'.size = journal.size
          /\ journal'.eof = journal.eof /\ journal'.done = journal.done \cup {currentChunk}
      BY <2>2, <3>1 DEF JournalState
    <3>3. QED
      BY <1>1, <1>4, <2>2, <3>2 DEF Paced, JournalTrails
  <2>3. QED
    BY <1>5, <2>1, <2>2
<1>7. AckDue'
  BY <1>1, <1>3, <1>4 DEF AckDue, IsComplete
<1>8. QED
  BY <1>3, <1>6, <1>7 DEF Paced, Unfinished, Forgotten

LEMMA EofPaced ==
  ASSUME ShapeInv, Paced, AcceptEof
  PROVE  Paced'
<1>1. at = "recv" /\ transferActive
  BY DEF AcceptEof, Receive
<1>2. state \in JournalState
  BY <1>1 DEF ShapeInv, TypeOK, Coupled
<1>3. /\ state' = [state EXCEPT !.eof = TRUE]
      /\ UNCHANGED transferActive /\ at' = "check"
  BY DEF AcceptEof, Continue
<1>4. /\ state'.tid = state.tid /\ state'.size = state.size /\ state'.eof
      /\ state'.done = state.done
  BY <1>2, <1>3 DEF JournalState
<1>5. \/ journal' = journal
      \/ HasJournal /\ journal' = [journal EXCEPT !.eof = TRUE]
  BY DEF AcceptEof, WriteJournal, MarkedEof, HasJournal
<1>6. JournalTrails'
  <2>1. CASE journal' = journal
    BY <1>1, <1>4, <2>1 DEF Paced, JournalTrails, HasJournal
  <2>2. CASE HasJournal /\ journal' = [journal EXCEPT !.eof = TRUE]
    <3>1. journal \in JournalState
      BY <2>2 DEF ShapeInv, TypeOK, HasJournal, Readable
    <3>2. /\ journal'.tid = journal.tid /\ journal'.size = journal.size
          /\ journal'.done = journal.done
      BY <2>2, <3>1 DEF JournalState
    <3>3. QED
      BY <1>1, <1>4, <2>2, <3>2 DEF Paced, JournalTrails
  <2>3. QED
    BY <1>5, <2>1, <2>2
<1>7. QED
  BY <1>3, <1>4, <1>6 DEF Paced, Unfinished, AckDue, Forgotten

(* The steps that only reply or drop what has arrived.                     *)
LEMMA ReplyPaced ==
  ASSUME ShapeInv, NoFullList, Paced,
         \/ DropNoise \/ IgnoreMetadata \/ ReackTransfer \/ DropData \/ ReackData
         \/ DropEof \/ AnswerResumeQuery
         \/ NakCurrentChunk \/ NakMissingChunk \/ AwaitMoreChunks
  PROVE  Paced'
<1> USE DEF memory, stable, Receive, Returns
<1>1. UNCHANGED <<transferActive, state, journal>> /\ at' = "recv"
  BY DEF DropNoise, IgnoreMetadata, ReackTransfer, DropData, ReackData, DropEof,
         NakCurrentChunk, NakMissingChunk, AwaitMoreChunks, AnswerResumeQuery
<1>2. CASE at = "recv"
  BY <1>1, <1>2 DEF Paced, JournalTrails, Unfinished, AckDue, Forgotten, HasJournal,
                    MissingChunks
<1>3. CASE at # "recv"
  <2>1. NakCurrentChunk \/ NakMissingChunk \/ AwaitMoreChunks
    BY <1>3 DEF DropNoise, IgnoreMetadata, ReackTransfer, DropData, ReackData, DropEof,
                AnswerResumeQuery
  <2>2. at = "check" /\ transferActive
    BY <2>1 DEF NakCurrentChunk, NakMissingChunk, AwaitMoreChunks, ShapeInv, Coupled
  <2>3. MissingChunks(state) # {}
    <3>1. CASE NakCurrentChunk
      <4>1. currentChunk \in Chunks(state.size) /\ currentChunk \notin state.done
        BY <2>2, <3>1 DEF NakCurrentChunk, InProgress, ShapeInv, ChunkKnown, ListOfChunk
      <4>2. QED
        BY <4>1 DEF MissingChunks
    <3>2. CASE NakMissingChunk
      <4>1. PICK c \in Nakable : TRUE
        BY <3>2 DEF NakMissingChunk
      <4>2. c \in MissingChunks(state)
        BY DEF Nakable, MissingRanges, MaximalRanges
      <4>3. QED
        BY <4>2
    <3>3. CASE AwaitMoreChunks
      BY <3>3 DEF AwaitMoreChunks
    <3>4. QED
      BY <2>1, <3>1, <3>2, <3>3
  <2>4. QED
    BY <1>1, <2>2, <2>3
       DEF Paced, JournalTrails, Unfinished, AckDue, Forgotten, HasJournal, MissingChunks
<1>4. QED
  BY <1>2, <1>3

LEMMA NextKeepsPaced ==
  ASSUME ShapeInv, NoFullList, Paced, [Next]_vars
  PROVE  Paced'
<1> USE DEF memory, stable
<1>1. CASE \/ DropNoise \/ IgnoreMetadata \/ ReackTransfer \/ DropData \/ ReackData
           \/ DropEof \/ AnswerResumeQuery
           \/ NakCurrentChunk \/ NakMissingChunk \/ AwaitMoreChunks
  BY <1>1, ReplyPaced
<1>2. CASE StoreData \/ WriteChunk \/ AckChunk
  <2>1. /\ UNCHANGED <<transferActive, state, journal>>
        /\ transferActive
        /\ at' \in {"recv", "write", "mark", "check"}
        /\ at' = "check" => state.eof
        /\ at' = "recv" => at = "recv" \/ ~state.eof
    BY <1>2 DEF StoreData, Acceptable, WriteChunk, AckChunk, Receive, Continue, Returns,
                ShapeInv, Coupled
  <2>2. QED
    BY <2>1 DEF Paced, JournalTrails, Unfinished, AckDue, Forgotten, HasJournal, MissingChunks
<1>3. CASE BootFresh \/ BootResume
  BY <1>3, BootPaced
<1>4. CASE AcceptMetadata \/ CreateJournal
  BY <1>4, MetadataPaced
<1>5. CASE MarkChunk
  BY <1>5, MarkPaced
<1>6. CASE AcceptEof
  BY <1>6, EofPaced
<1>7. CASE RejectFile \/ CloseTransfer
  BY <1>7 DEF RejectFile, CloseTransfer, AllReceived, Returns, HasJournal, Readable,
              Paced, JournalTrails, Unfinished, AckDue, Forgotten
<1>8. CASE AcceptFile
  BY <1>8 DEF AcceptFile, AllReceived, Continue, HasJournal,
              Paced, JournalTrails, Unfinished, AckDue, Forgotten
<1>9. CASE StopLingering \/ FlushThrows \/ Crash \/ Relaunch \/ StartAnew
  <2>1. /\ at' \in {"boot", "exited"}
        /\ ~transferActive' /\ state' = NoTransfer /\ currentChunk' = UINT32_MAX
    BY <1>9 DEF StopLingering, FlushThrows, Crash, Relaunch, StartAnew, MemoryLost, ForgetChunk,
                Paced, Forgotten
  <2>2. QED
    BY <2>1 DEF Paced, JournalTrails, Unfinished, AckDue, Forgotten
<1>10. CASE LineDelivers \/ LineDrains \/ UNCHANGED vars
  BY <1>10 DEF LineDelivers, LineDrains, vars, receiverVars, HasJournal, MissingChunks,
               IsComplete, Paced, JournalTrails, Unfinished, AckDue, Forgotten
<1>11. QED
  BY <1>1, <1>2, <1>3, <1>4, <1>5, <1>6, <1>7, <1>8, <1>9, <1>10
     DEF Next, NewSender, SameSender, ReceiverStep

LEMMA InitPaced ==
  ASSUME Init
  PROVE  NoFullList /\ Paced
BY EmptyNotFull DEF Init, ReceiverInit, NoFullList, Paced, JournalTrails, Unfinished, AckDue,
                    Forgotten, HasJournal, Readable

(* Whatever writes of state.bin fail and wherever power cuts fall, it      *)
(* claims no chunk, and no EOF, that the transfer in memory does not       *)
(* (Journal.h:8, CfdpReceiver.h:15-17).                                    *)
THEOREM JournalNeverAhead == Spec => []JournalTrails
<1>1. Init => NoFullList /\ Paced
  BY InitPaced
<1>2. ShapeInv /\ NoFullList /\ Paced /\ [Next]_vars => NoFullList' /\ Paced'
  BY NextKeepsNoFullList, NextKeepsPaced
<1>3. Paced => JournalTrails
  BY DEF Paced
<1>4. QED
  BY <1>1, <1>2, <1>3, ShapeInvariance, PTL DEF Spec

(* So a process that is waiting for PDUs leaves no transfer behind that    *)
(* the next one would verify as soon as it starts.                         *)
VerifiesAtBoot == HasJournal /\ MissingChunks(journal) = {} /\ journal.eof

LEMMA NothingToVerify ==
  ASSUME Paced, at = "recv"
  PROVE  ~VerifiesAtBoot
BY DEF Paced, JournalTrails, Unfinished, VerifiesAtBoot, MissingChunks

(* Every NAK on the line is for one chunk.                                 *)
NaksOfOneChunk ==
  \A i \in DOMAIN toSender : toSender[i].type = "Nak" => OneChunk(toSender[i])

LEMMA NextKeepsNaks ==
  ASSUME ShapeInv, NoFullList, NaksOfOneChunk, [Next]_vars
  PROVE  NaksOfOneChunk'
<1> SUFFICES ASSUME NEW i \in DOMAIN toSender', toSender'[i].type = "Nak"
             PROVE  OneChunk(toSender'[i])
  BY DEF NaksOfOneChunk, OneChunk
<1>1. CASE toSender'[i] \in NewReplies
  BY <1>1, NaksSound DEF NewNaks, AsksForMissing
<1>2. CASE \E j \in DOMAIN toSender : toSender'[i] = toSender[j]
  BY <1>2 DEF NaksOfOneChunk
<1>3. QED
  BY <1>1, <1>2, OldOrNew DEF ShapeInv
=============================================================================

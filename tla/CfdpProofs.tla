------------------------------ MODULE CfdpProofs ------------------------------
(***************************************************************************)
(* Theorems about the whole program, for files, chunks and lines of every  *)
(* size, any number of runs and of faults, failing journal writes and      *)
(* power cuts included.                                                    *)
(*                                                                         *)
(* Whatever goes wrong, misread headers included, every variable keeps its *)
(* type (TypeOK), the receiver is one on an open line (ReceiverIsOpen), no *)
(* success is reported before a file was verified (SuccessWasVerified),    *)
(* and the replies on the line are bounded by the faults alone             *)
(* (FewReplies), so that with room for them the two sides never block each *)
(* other (NoStandoff).                                                     *)
(* When no header is misread (NoMisreads) and a transaction id stands for  *)
(* one file at a time (OneJobEach), the script passes over nothing that is *)
(* not on disk (PassedIsOnDisk), a success is one (SuccessMeansReceived),  *)
(* and the whole implements FileTransfer (DeliversFiles).                  *)
(*                                                                         *)
(* The invariants of the receiver (ShapeInv, IndInv, Kept) are used through*)
(* an instance of its proofs; SenderShape and SenderInv are the script's.  *)
(***************************************************************************)
EXTENDS Cfdp, FiniteSetTheorems, TLAPS

R == INSTANCE PromiseProofs
       WITH Senders <- AllSenders, Says <- Vocabulary, sending <- SenderOf(scenario, run)

NoMisreads == \A s \in Scenarios : s.faults["misread"] = 0

(* cfdp_send.sh takes another file only when the receiver has no journal;  *)
(* by hand nothing but the user does, and tid is 1 in every run.           *)
OneJobEach ==
  \A s \in Scenarios : s.start = "script" \/ \A i, j \in DOMAIN s.jobs : s.jobs[i] = s.jobs[j]

-----------------------------------------------------------------------------
(* The definitions of the receiver, here and in the two instances of       *)
(* ReceiverOpen, are the same.                                             *)
LEMMA SameReceiver ==
  /\ ReceiverInit /\ SenderOf(scenario, run) \in AllSenders => R!Init
  /\ ReceiverStep => R!ReceiverStep
  /\ StopLingering => R!StopLingering
  /\ Crash => R!Crash
  /\ Relaunch => R!Relaunch
  /\ StartAnew => R!StartAnew
  /\ R!Init => Open!Init
  /\ [R!Next]_(R!vars) => [Open!Next]_(Open!vars)
<1> USE DEF
           ChunkOffset, TotalChunks, Chunks, PacketsIn, Metadata, Data, Eof,
           ResumeQuery, Ack, ResumeInfo, Nak, EmptyNode, InitList, EmptyList,
           ValidSlots, NeedsRetransmit, CountDelta, Insert, IsComplete, Assemble,
           MaximalRanges, NakRanges, Readable, MissingChunks, MissingRanges, MarkedDone,
           MarkedEof, line, LineInit, Reply, memory, mainLoop, stable, NoFile,
           Overwrite, Matches, Receive, Returns, Continue, WriteJournal, ForgetChunk,
           BootFresh, BootResume, DropNoise, Duplicate, Finished, Rejected,
           IgnoreMetadata, ReackTransfer, NewState, AcceptMetadata, CreateJournal,
           Acceptable, DropData, SeeChunk, ReackData, ListFor, Abandons, NakPackets,
           StoreData, FlushedFile, WriteChunk, MarkChunk, AckChunk, DropEof, AcceptEof,
           InProgress, NakCurrentChunk, Nakable, NakChunk, NakMissingChunk,
           AwaitMoreChunks, VerifyFileChecksum, AllReceived, RejectFile, AcceptFile,
           CloseTransfer, FirstMissing, ResumePoint, AnswerResumeQuery, MemoryLost,
           MaybeTorn, StopLingering, JournalSetBack, Crash, Relaunch, StartAnew,
           ReceiverInit, ReceiverStep, R!ChunkOffset, R!TotalChunks, R!Chunks,
           R!PacketsIn, R!Metadata, R!Data, R!Eof, R!ResumeQuery, R!Ack, R!ResumeInfo,
           R!Nak, R!EmptyNode, R!InitList, R!EmptyList, R!ValidSlots, R!NeedsRetransmit,
           R!CountDelta, R!Insert, R!IsComplete, R!Assemble, R!MaximalRanges,
           R!NakRanges, R!Readable, R!MissingChunks, R!MissingRanges, R!MarkedDone,
           R!MarkedEof, R!line, R!LineInit, R!Reply, R!memory, R!mainLoop, R!stable,
           R!NoFile, R!Overwrite, R!Matches, R!Receive, R!Returns, R!Continue,
           R!WriteJournal, R!ForgetChunk, R!BootFresh, R!BootResume, R!DropNoise,
           R!Duplicate, R!Finished, R!Rejected, R!IgnoreMetadata, R!ReackTransfer,
           R!NewState, R!AcceptMetadata, R!CreateJournal, R!Acceptable, R!DropData,
           R!SeeChunk, R!ReackData, R!ListFor, R!Abandons, R!NakPackets, R!StoreData,
           R!FlushedFile, R!WriteChunk, R!MarkChunk, R!AckChunk, R!DropEof, R!AcceptEof,
           R!InProgress, R!NakCurrentChunk, R!Nakable, R!NakChunk, R!NakMissingChunk,
           R!AwaitMoreChunks, R!VerifyFileChecksum, R!AllReceived, R!RejectFile,
           R!AcceptFile, R!CloseTransfer, R!FirstMissing, R!ResumePoint,
           R!AnswerResumeQuery, R!MemoryLost, R!MaybeTorn, R!StopLingering,
           R!JournalSetBack, R!Crash, R!Relaunch, R!StartAnew, R!ReceiverInit,
           R!ReceiverStep, R!Transmit, R!receiverVars, R!FlushThrows, R!vars,
           R!LineDelivers, R!LineDrains, R!Wire, R!NewSender, R!SameSender, R!Init, R!Next, Open!ChunkOffset,
           Open!TotalChunks, Open!Chunks, Open!PacketsIn, Open!Metadata, Open!Data,
           Open!Eof, Open!ResumeQuery, Open!Ack, Open!ResumeInfo, Open!Nak,
           Open!EmptyNode, Open!InitList, Open!EmptyList, Open!ValidSlots,
           Open!NeedsRetransmit, Open!CountDelta, Open!Insert, Open!IsComplete,
           Open!Assemble, Open!MaximalRanges, Open!NakRanges, Open!Readable,
           Open!MissingChunks, Open!MissingRanges, Open!MarkedDone, Open!MarkedEof,
           Open!line, Open!LineInit, Open!Reply, Open!memory, Open!mainLoop,
           Open!stable, Open!NoFile, Open!Overwrite, Open!Matches, Open!Receive,
           Open!Returns, Open!Continue, Open!WriteJournal, Open!ForgetChunk,
           Open!BootFresh, Open!BootResume, Open!DropNoise, Open!Duplicate,
           Open!Finished, Open!Rejected, Open!IgnoreMetadata, Open!ReackTransfer,
           Open!NewState, Open!AcceptMetadata, Open!CreateJournal, Open!Acceptable,
           Open!DropData, Open!SeeChunk, Open!ReackData, Open!ListFor, Open!Abandons,
           Open!NakPackets, Open!StoreData, Open!FlushedFile, Open!WriteChunk,
           Open!MarkChunk, Open!AckChunk, Open!DropEof, Open!AcceptEof, Open!InProgress,
           Open!NakCurrentChunk, Open!Nakable, Open!NakChunk, Open!NakMissingChunk,
           Open!AwaitMoreChunks, Open!VerifyFileChecksum, Open!AllReceived,
           Open!RejectFile, Open!AcceptFile, Open!CloseTransfer, Open!FirstMissing,
           Open!ResumePoint, Open!AnswerResumeQuery, Open!MemoryLost, Open!MaybeTorn,
           Open!StopLingering, Open!JournalSetBack, Open!Crash, Open!Relaunch,
           Open!StartAnew, Open!ReceiverInit, Open!ReceiverStep, Open!Transmit,
           Open!receiverVars, Open!FlushThrows, Open!vars, Open!LineDelivers,
           Open!LineDrains, Open!Wire, Open!NewSender, Open!SameSender, Open!Init, Open!Next
<1>1. /\ ReceiverInit /\ SenderOf(scenario, run) \in AllSenders => R!Init
      /\ R!Init => Open!Init
  OBVIOUS
<1>2. ReceiverStep => R!ReceiverStep
  OBVIOUS
<1>3. /\ StopLingering => R!StopLingering
      /\ Crash => R!Crash
      /\ Relaunch => R!Relaunch
      /\ StartAnew => R!StartAnew
  OBVIOUS
<1>4. [R!Next]_(R!vars) => [Open!Next]_(Open!vars)
  OBVIOUS
<1>5. QED
  BY <1>1, <1>2, <1>3, <1>4

LEMMA SameFile ==
  ASSUME NEW file, NEW x, NEW c
  PROVE  /\ R!ChunkOnDisk(file, x, c) <=> ChunkOnDisk(file, x, c)
         /\ R!Matches(file, x) <=> Matches(file, x)
         /\ R!Chunks(x) = Chunks(x)
BY DEF R!ChunkOnDisk, ChunkOnDisk, R!Matches, Matches, R!PacketsIn, PacketsIn,
       R!ChunkOffset, ChunkOffset, R!Chunks, Chunks, R!TotalChunks, TotalChunks

-----------------------------------------------------------------------------
(* What is written and what is spoken.                                     *)

Job == [file : Files, name : Names]

LEMMA ElementOf ==
  ASSUME NEW S, NEW q \in Seq(S), NEW i \in DOMAIN q
  PROVE  q[i] \in S
OBVIOUS

LEMMA SenderJobs ==
  ASSUME NEW who \in AllSenders
  PROVE  who.jobs \subseteq Job
<1>1. PICK s \in Scenarios : \E r \in DOMAIN s.jobs : who = SenderOf(s, r)
  BY DEF AllSenders
<1>2. s.jobs \in Seq(Job)
  BY ScenariosAssumption DEF Job
<1>3. \A i \in DOMAIN s.jobs : s.jobs[i] \in Job
  BY <1>2, ElementOf
<1>4. who.jobs \subseteq {s.jobs[i] : i \in DOMAIN s.jobs}
  BY <1>1 DEF SenderOf, ToSet
<1>5. QED
  BY <1>3, <1>4

LEMMA JobFacts ==
  ASSUME NEW j \in Job
  PROVE  j.file \in Files /\ j.name \in Names /\ FileLen[j.file] \in Nat
BY FileLenAssumption DEF Job

LEMMA PacketFacts ==
  ASSUME NEW x \in Files, NEW d \in PacketsOf(x)
  PROVE  \E c \in Chunks(FileLen[x]) : \E p \in 0 .. PacketsIn(FileLen[x], c) - 1 :
           d = Data(Tid, x, c, p)
BY DEF PacketsOf

LEMMA WrittenKinds ==
  ASSUME NEW jobs, NEW d \in Written(jobs)
  PROVE  \/ \E j \in jobs : d = Metadata(Tid, j.file, j.name)
         \/ \E j \in jobs : d \in PacketsOf(j.file)
         \/ d \in {Eof(Tid), ResumeQuery(Tid)}
BY DEF Written, PacketsOfAll

LEMMA SpokenKinds ==
  ASSUME NEW who, NEW d \in Spoken(who)
  PROVE  \/ d \in Written(who.jobs)
         \/ \E j \in who.jobs : \E p \in PacketsOf(j.file) : d = Damaged(p)
         \/ who.misreads # 0 /\ \E p \in Written(who.jobs) : d \in Misread(p)
BY DEF Spoken, PacketsOfAll, AllMisread

LEMMA ChunkPosition ==
  ASSUME NEW size \in Nat, NEW c \in Chunks(size), NEW p \in 0 .. PacketsIn(size, c) - 1
  PROVE  /\ c \in Nat /\ p \in Nat /\ PacketsIn(size, c) \in Nat
         /\ ChunkOffset(c) + p \in 0 .. size - 1
<1>1. c \in Nat /\ ChunkOffset(c) \in Nat
  BY ChunkSizeAssumption DEF Chunks, ChunkOffset
<1>2. PacketsIn(size, c) \in Nat /\ PacketsIn(size, c) <= size - ChunkOffset(c)
  BY <1>1, ChunkSizeAssumption DEF PacketsIn
<1>3. QED
  BY <1>1, <1>2
LEMMA PacketIsPdu ==
  ASSUME NEW j \in Job, NEW d \in PacketsOf(j.file)
  PROVE  d \in R!DataPdu /\ Damaged(d) \in R!DataPdu /\ d \in DataPdu
<1>1. PICK c \in Chunks(FileLen[j.file]) :
        \E p \in 0 .. PacketsIn(FileLen[j.file], c) - 1 : d = Data(Tid, j.file, c, p)
  BY JobFacts, PacketFacts
<1>2. PICK p \in 0 .. PacketsIn(FileLen[j.file], c) - 1 : d = Data(Tid, j.file, c, p)
  BY <1>1
<1>3. /\ c \in Nat /\ p \in Nat /\ PacketsIn(FileLen[j.file], c) \in Nat
      /\ <<j.file, ChunkOffset(c) + p>> \in Payload
  BY JobFacts, ChunkPosition, PayloadAssumption
<1>4. d \in DataPdu
  BY <1>2, <1>3, TidAssumption DEF Data, DataPdu
<1>5. R!DataPdu = DataPdu
  BY DEF R!DataPdu, DataPdu
<1>6. Damaged(d) \in DataPdu
  BY <1>4, PayloadAssumption DEF Damaged, DataPdu
<1>7. QED
  BY <1>4, <1>5, <1>6

LEMMA SamePdus == R!SenderPdu = SenderPdu
BY DEF R!SenderPdu, SenderPdu, R!MetadataPdu, MetadataPdu, R!DataPdu, DataPdu, R!EofPdu, EofPdu,
       R!ResumeQueryPdu, ResumeQueryPdu, R!NoisePdu, NoisePdu

LEMMA WrittenArePdus ==
  ASSUME NEW jobs \in SUBSET Job, NEW d \in Written(jobs)
  PROVE  /\ d.type = "Metadata" => d \in MetadataPdu
         /\ d.type = "Data" => d \in DataPdu
         /\ d \in MetadataPdu \cup DataPdu \cup EofPdu \cup ResumeQueryPdu
<1> USE TidAssumption
<1>1. ASSUME NEW j \in jobs, d = Metadata(Tid, j.file, j.name)
      PROVE  d \in MetadataPdu /\ d.type = "Metadata"
  BY <1>1, JobFacts DEF Metadata, MetadataPdu
<1>2. ASSUME NEW j \in jobs, d \in PacketsOf(j.file)
      PROVE  d \in DataPdu /\ d.type = "Data"
  BY <1>2, PacketIsPdu DEF DataPdu
<1>3. CASE d = Eof(Tid)
  BY <1>3 DEF Eof, EofPdu
<1>4. CASE d = ResumeQuery(Tid)
  BY <1>4 DEF ResumeQuery, ResumeQueryPdu
<1>5. QED
  BY <1>1, <1>2, <1>3, <1>4, WrittenKinds

(* A header that is misread is that of another PDU, or of none.            *)
LEMMA MisreadArePdus ==
  ASSUME NEW jobs \in SUBSET Job, NEW d \in Written(jobs), NEW e \in Misread(d)
  PROVE  e \in SenderPdu
<1>1. d \in SenderPdu /\ (d.type = "Metadata" => d \in MetadataPdu)
      /\ (d.type = "Data" => d \in DataPdu)
      /\ d \in MetadataPdu \cup DataPdu \cup EofPdu \cup ResumeQueryPdu
  BY WrittenArePdus DEF SenderPdu
<1>2. CASE e = [type |-> "Noise"]
  BY <1>2 DEF SenderPdu, NoisePdu
<1>3. ASSUME NEW t \in Tids, e = [d EXCEPT !.tid = t]
      PROVE  e \in SenderPdu
  BY <1>1, <1>3 DEF SenderPdu, MetadataPdu, DataPdu, EofPdu, ResumeQueryPdu
<1>4. ASSUME d.type = "Metadata",
             e \in {[d EXCEPT !.name = n] : n \in Names} \cup {[d EXCEPT !.sum = x] : x \in Files}
      PROVE  e \in SenderPdu
  BY <1>1, <1>4 DEF SenderPdu, MetadataPdu
<1>5. ASSUME d.type = "Data",
             e \in {[d EXCEPT !.chunk = c] : c \in SomeChunk}
                     \cup {[d EXCEPT !.pkt = p] : p \in 0 .. d.total}
      PROVE  e \in SenderPdu
  <2>1. SomeChunk \subseteq Nat /\ 0 .. d.total \subseteq Nat
    BY DEF SomeChunk, Chunks
  <2>2. QED
    BY <1>1, <1>5, <2>1 DEF SenderPdu, DataPdu
<1>6. QED
  BY <1>2, <1>3, <1>4, <1>5 DEF Misread

(* SaysAssumption of ReceiverOpen, as it is instantiated here.             *)
LEMMA VocabularyIsPdus == Vocabulary \in [AllSenders -> SUBSET R!SenderPdu]
<1> SUFFICES ASSUME NEW who \in AllSenders, NEW d \in Spoken(who) PROVE d \in SenderPdu
  BY SamePdus DEF Vocabulary
<1>1. who.jobs \in SUBSET Job
  BY SenderJobs
<1>2. CASE d \in Written(who.jobs)
  BY <1>1, <1>2, WrittenArePdus DEF SenderPdu
<1>3. ASSUME NEW j \in who.jobs, NEW p \in PacketsOf(j.file), d = Damaged(p)
      PROVE  d \in SenderPdu
  BY <1>1, <1>3, PacketIsPdu DEF SenderPdu, R!DataPdu, DataPdu
<1>4. ASSUME NEW p \in Written(who.jobs), d \in Misread(p)
      PROVE  d \in SenderPdu
  BY <1>1, <1>4, MisreadArePdus
<1>5. QED
  BY <1>2, <1>3, <1>4, SpokenKinds

(* What the theorems of the receiver assume, so that they can be used.     *)
LEMMA ReceiverAssumptions ==
  /\ Vocabulary \in [AllSenders -> SUBSET R!SenderPdu]
  /\ NoJournal \notin R!JournalState
  /\ CorruptJournal \notin R!JournalState
  /\ NoJournal # CorruptJournal
  /\ NoTransfer \notin R!JournalState
  /\ FileLen \in [Files -> Nat]
  /\ ChunkSize \in Nat \ {0}
  /\ Tids \subseteq Nat \ {0}
  /\ UINT32_MAX \notin Nat
  /\ MaxToSender \in Nat \ {0} /\ MaxToReceiver \in Nat \ {0}
  /\ IoErrors \in BOOLEAN /\ PowerCuts \in BOOLEAN
<1>1. R!JournalState = JournalState
  BY DEF R!JournalState, JournalState, R!Chunks, Chunks, R!TotalChunks, TotalChunks
<1>2. QED
  BY <1>1, VocabularyIsPdus, JournalSentinels, NoTransferAssumption, FileLenAssumption,
     ChunkSizeAssumption, TidsAssumption, Uint32MaxAssumption, LineAssumption, FaultSwitches


(* Chunks have packets, and positions chunks, here as in the receiver.     *)
LEMMA ChunkNotEmpty ==
  ASSUME NEW size \in Nat, NEW c \in Chunks(size)
  PROVE  PacketsIn(size, c) \in Nat
<1>1. c \in R!Chunks(size) /\ R!PacketsIn(size, c) = PacketsIn(size, c)
  BY DEF R!Chunks, Chunks, R!TotalChunks, TotalChunks, R!ChunkOffset, ChunkOffset,
         R!PacketsIn, PacketsIn
<1>2. QED
  BY <1>1, R!ChunkBound, ReceiverAssumptions

LEMMA TotalIsNat ==
  ASSUME NEW size \in Nat
  PROVE  TotalChunks(size) \in Nat
<1>1. size + ChunkSize - 1 \in Nat /\ ChunkSize \in Nat \ {0}
  BY ChunkSizeAssumption
<1>2. QED
  BY <1>1 DEF TotalChunks

LEMMA PositionInChunk ==
  ASSUME NEW size \in Nat, NEW k \in 0 .. size - 1
  PROVE  /\ k \div ChunkSize \in Chunks(size)
         /\ k % ChunkSize \in 0 .. PacketsIn(size, k \div ChunkSize) - 1
<1>1. /\ k \div ChunkSize \in R!Chunks(size)
      /\ k % ChunkSize \in 0 .. R!PacketsIn(size, k \div ChunkSize) - 1
  BY R!PositionFacts, ReceiverAssumptions
<1>2. QED
  BY <1>1
     DEF R!Chunks, Chunks, R!TotalChunks, TotalChunks, R!ChunkOffset, ChunkOffset,
         R!PacketsIn, PacketsIn

(* What the script says of the file of its job is true.                    *)
LEMMA OneJob ==
  ASSUME OneJobEach, NEW who \in AllSenders
  PROVE  \E j \in Job : who.jobs = {j}
<1>1. PICK s \in Scenarios : \E r \in DOMAIN s.jobs : who = SenderOf(s, r)
  BY DEF AllSenders
<1>2. PICK r \in DOMAIN s.jobs : who = SenderOf(s, r)
  BY <1>1
<1>3. s.jobs[r] \in Job
  BY ScenariosAssumption, ElementOf DEF Job
<1>4. CASE s.start = "script"
  BY <1>2, <1>3, <1>4 DEF SenderOf
<1>5. CASE s.start # "script"
  <2>1. \A i \in DOMAIN s.jobs : s.jobs[i] = s.jobs[r]
    BY <1>5 DEF OneJobEach
  <2>2. ToSet(s.jobs) = {s.jobs[r]}
    BY <2>1 DEF ToSet
  <2>3. QED
    BY <1>2, <1>3, <1>5, <2>2 DEF SenderOf
<1>6. QED
  BY <1>4, <1>5

LEMMA OneAnnouncement ==
  ASSUME OneJobEach, NoMisreads, NEW who \in AllSenders, NEW j \in Job, who.jobs = {j},
         NEW d \in Spoken(who)
  PROVE  \/ d = Metadata(Tid, j.file, j.name)
         \/ d.type = "Data" /\ ~d.ok
         \/ \E c, p : d = Data(Tid, j.file, c, p)
         \/ d.type \in {"Eof", "ResumeQuery"}
<1>1. who.misreads = 0
  BY DEF NoMisreads, AllSenders, SenderOf
<1>2. CASE d \in Written({j})
  BY <1>2, WrittenKinds, PacketFacts, JobFacts DEF Eof, ResumeQuery
<1>3. ASSUME NEW p \in PacketsOf(j.file), d = Damaged(p)
      PROVE  d.type = "Data" /\ ~d.ok
  BY <1>3, PacketFacts, JobFacts DEF Damaged, Data
<1>4. QED
  BY <1>1, <1>2, <1>3, SpokenKinds

LEMMA VocabularyIsHonest == OneJobEach /\ NoMisreads => R!HonestSenders /\ R!OneAtATime
<1> SUFFICES ASSUME OneJobEach, NoMisreads, NEW who \in AllSenders
             PROVE  R!Honest(Vocabulary[who]) /\ \A m, n \in R!Announces(who) : m.tid = n.tid
  BY DEF R!HonestSenders, R!OneAtATime
<1>1. PICK j \in Job : who.jobs = {j}
  BY OneJob
<1>2. Vocabulary[who] = Spoken(who)
  BY DEF Vocabulary
<1>3. ASSUME NEW m \in Spoken(who) \cap R!MetadataPdu
      PROVE  m = Metadata(Tid, j.file, j.name)
  <2>1. m.type = "Metadata"
    BY DEF R!MetadataPdu
  <2>2. QED
    BY <1>1, <2>1, OneAnnouncement DEF Data
<1>4. ASSUME NEW d \in Spoken(who) \cap R!DataPdu, d.ok
      PROVE  d.data = <<j.file, R!ChunkOffset(d.chunk) + d.pkt>>
  <2>1. d.type = "Data"
    BY DEF R!DataPdu
  <2>2. PICK c, p : d = Data(Tid, j.file, c, p)
    BY <1>1, <1>4, <2>1, OneAnnouncement DEF Metadata
  <2>3. QED
    BY <2>2 DEF Data, R!ChunkOffset, ChunkOffset
<1>5. R!Honest(Spoken(who))
  BY <1>3, <1>4 DEF R!Honest, Metadata
<1>6. QED
  BY <1>2, <1>3, <1>5 DEF R!Announces

-----------------------------------------------------------------------------
(* What the script writes is spoken.                                       *)

Enumerates(s, S) ==
  /\ s \in [1 .. Cardinality(S) -> S]
  /\ \A i, j \in DOMAIN s : i < j => s[i] < s[j]

(* Positions below n can be put in order.                                  *)
LEMMA Enumerable ==
  ASSUME NEW n \in Nat, NEW S \in SUBSET (0 .. n - 1)
  PROVE  Cardinality(S) \in Nat /\ Enumerates(Ascending(S), S)
<1> DEFINE Bad == {k \in Nat : \E X \in SUBSET (0 .. k - 1) : ~\E s : Enumerates(s, X)}
<1>1. ASSUME NEW k \in Nat, NEW X \in SUBSET (0 .. k - 1)
      PROVE  IsFiniteSet(X) /\ Cardinality(X) \in Nat
  <2>1. IsFiniteSet(0 .. k - 1)
    BY FS_Interval
  <2>2. IsFiniteSet(X)
    BY <2>1, FS_Subset
  <2>3. QED
    BY <2>2, FS_CardinalityType
<1>2. Bad = {}
  <2>1. SUFFICES ASSUME Bad # {} PROVE FALSE
    OBVIOUS
  <2>2. PICK k \in Bad : \A e \in Bad : k <= e
    <3>1. Bad \in SUBSET Nat
      OBVIOUS
    <3> HIDE DEF Bad
    <3>2. QED
      BY <2>1, <3>1, R!SmallestOf, ReceiverAssumptions
  <2>3. PICK X \in SUBSET (0 .. k - 1) : ~\E s : Enumerates(s, X)
    OBVIOUS
  <2>4. k # 0
    <3>1. SUFFICES ASSUME k = 0 PROVE FALSE
      OBVIOUS
    <3>2. X = {}
      BY <3>1
    <3>3. Enumerates([i \in 1 .. 0 |-> i], X)
      BY <3>2, FS_EmptySet DEF Enumerates
    <3>4. QED
      BY <2>3, <3>3
  <2> DEFINE Y == X \ {k - 1}
             last == k - 1
  <2>5. last \in Nat /\ Y \in SUBSET (0 .. last - 1)
    BY <2>4
  <2>6. PICK s : Enumerates(s, Y)
    <3>1. k - 1 \notin Bad
      BY <2>2, <2>5
    <3>2. QED
      BY <2>5, <3>1
  <2>7. Y # X /\ X = Y \cup {last} /\ last \notin Y
    BY <2>3, <2>6
  <2>8. Cardinality(Y) \in Nat /\ Cardinality(X) = Cardinality(Y) + 1
    <3>1. IsFiniteSet(Y) /\ Cardinality(Y) \in Nat
      BY <1>1, <2>5
    <3>2. Cardinality(Y \cup {last}) = Cardinality(Y) + 1
      BY <2>7, <3>1, FS_AddElement
    <3>3. QED
      BY <2>7, <3>1, <3>2
  <2> DEFINE m == Cardinality(Y)
             t == [i \in 1 .. m + 1 |-> IF i <= m THEN s[i] ELSE last]
  <2>9. s \in [1 .. m -> Y] /\ \A i, j \in 1 .. m : i < j => s[i] < s[j]
    BY <2>6 DEF Enumerates
  <2>10. ASSUME NEW i \in 1 .. m
         PROVE  s[i] \in Y /\ s[i] < last /\ s[i] \in Nat
    <3> HIDE DEF m, last, Y, Bad
    <3>1. s[i] \in Y
      BY <2>9
    <3>2. s[i] \in 0 .. last - 1
      BY <2>5, <3>1
    <3>3. last \in Int
      BY <2>5
    <3>4. QED
      BY <3>1, <3>2, <3>3
  <2>11. m \in Nat /\ last \in X /\ last \in Nat /\ Y \subseteq X
    BY <2>5, <2>7, <2>8
  <2> HIDE DEF m, last, Y, Bad
  <2>12. t \in [1 .. m + 1 -> X]
    BY <2>10, <2>11
  <2>13. \A i, j \in 1 .. m + 1 : i < j => t[i] < t[j]
    BY <2>9, <2>10, <2>11
  <2>14. Enumerates(t, X)
    BY <2>8, <2>12, <2>13 DEF Enumerates, m
  <2>15. QED
    BY <2>3, <2>14
<1>3. n \notin Bad
  BY <1>2
<1>4. PICK s : Enumerates(s, S)
  BY <1>3
<1>5. Enumerates(Ascending(S), S)
  BY <1>4 DEF Enumerates, Ascending
<1>6. QED
  BY <1>1, <1>5
(* The job of the run, and what is written for it.                         *)
KnownJob == scenario \in Scenarios /\ run \in 1 .. Len(Jobs)

ThisSender == SenderOf(scenario, run)
OwnWords == Written({Jobs[run]})

LEMMA CurrentJob ==
  ASSUME KnownJob
  PROVE  /\ Jobs[run] \in Job /\ run \in DOMAIN Jobs
         /\ File \in Files /\ Jobs[run].name \in Names /\ FileLen[File] \in Nat
         /\ ThisSender \in AllSenders /\ Jobs[run] \in ThisSender.jobs
         /\ R!Wire = Spoken(ThisSender)
<1>1. Jobs \in Seq(Job) /\ run \in DOMAIN Jobs
  <2>1. Jobs \in Seq(Job)
    BY ScenariosAssumption DEF KnownJob, Jobs, Job
  <2>2. QED
    BY <2>1 DEF KnownJob
<1>2. Jobs[run] \in Job
  BY <1>1, ElementOf
<1>3. File \in Files /\ Jobs[run].name \in Names /\ FileLen[File] \in Nat
  BY <1>2, JobFacts DEF File
<1>4. ThisSender \in AllSenders
  BY <1>1 DEF KnownJob, Jobs, ThisSender, AllSenders
<1>5. Jobs[run] \in ThisSender.jobs
  BY <1>1 DEF ThisSender, SenderOf, Jobs, ToSet
<1>6. R!Wire = Spoken(ThisSender)
  BY <1>4 DEF R!Wire, Vocabulary, ThisSender
<1>7. QED
  BY <1>1, <1>2, <1>3, <1>4, <1>5, <1>6

(* What is written arrives, whole, damaged or misread.                     *)
LEMMA OwnWordsSpoken ==
  ASSUME KnownJob, NEW d \in OwnWords
  PROVE  /\ d \in R!Wire
         /\ d.type = "Data" => Damaged(d) \in R!Wire
         /\ ThisSender.misreads # 0 => Misread(d) \subseteq R!Wire
<1>1. /\ Jobs[run] \in ThisSender.jobs /\ Jobs[run] \in Job
      /\ R!Wire = Spoken(ThisSender)
  BY CurrentJob
<1>2. d \in Written(ThisSender.jobs)
  BY <1>1 DEF OwnWords, Written, PacketsOfAll
<1>3. ASSUME d.type = "Data"
      PROVE  d \in PacketsOfAll(ThisSender.jobs)
  <2>1. d \in PacketsOf(Jobs[run].file)
    BY <1>3, WrittenKinds DEF OwnWords, Metadata, Eof, ResumeQuery
  <2>2. QED
    BY <1>1, <2>1 DEF PacketsOfAll
<1>4. QED
  BY <1>1, <1>2, <1>3 DEF Spoken, AllMisread

LEMMA OwnWordsArePdus ==
  ASSUME KnownJob
  PROVE  OwnWords \subseteq SenderPdu
BY CurrentJob, WrittenArePdus DEF OwnWords, SenderPdu

LEMMA WordsWritten ==
  ASSUME KnownJob
  PROVE  /\ TheMetadata \in OwnWords /\ Eof(Tid) \in OwnWords /\ ResumeQuery(Tid) \in OwnWords
         /\ \A c \in Chunks(FileLen[File]) : \A p \in 0 .. PacketsIn(FileLen[File], c) - 1 :
              Packet(c, p) \in OwnWords
<1>1. PacketsOf(File) \subseteq OwnWords
  BY DEF OwnWords, Written, PacketsOfAll, File
<1>2. ASSUME NEW c \in Chunks(FileLen[File]), NEW p \in 0 .. PacketsIn(FileLen[File], c) - 1
      PROVE  Packet(c, p) \in PacketsOf(File)
  BY DEF PacketsOf, Packet
<1>3. TheMetadata \in OwnWords /\ Eof(Tid) \in OwnWords /\ ResumeQuery(Tid) \in OwnWords
  BY DEF OwnWords, Written, TheMetadata, File
<1>4. QED
  BY <1>1, <1>2, <1>3

LEMMA ChunkPdusWritten ==
  ASSUME KnownJob, NEW c \in Nat, c < ChunksOfFile
  PROVE  ChunkPdus(c) \in Seq(OwnWords)
<1> DEFINE n == PacketsIn(FileLen[File], c)
           q == [i \in 1 .. n |-> Packet(c, i - 1)]
<1>1. FileLen[File] \in Nat /\ TotalChunks(FileLen[File]) \in Int
  BY CurrentJob, ChunkSizeAssumption DEF TotalChunks
<1>2. c \in Chunks(FileLen[File])
  BY <1>1 DEF Chunks, ChunksOfFile
<1>3. n \in Nat
  <2>1. FileLen[File] - ChunkOffset(c) \in Int /\ ChunkSize \in Nat
    BY <1>1, ChunkSizeAssumption DEF ChunkOffset
  <2>2. QED
    BY <1>1, <1>2, ChunkNotEmpty
<1>4. \A i \in 1 .. n : Packet(c, i - 1) \in OwnWords
  <2> HIDE DEF n
  <2>1. \A i \in 1 .. n : i - 1 \in 0 .. n - 1
    BY <1>3
  <2>2. QED
    BY <1>2, <2>1, WordsWritten DEF n
<1>5. q \in Seq(OwnWords)
  BY <1>3, <1>4
<1>6. <<Eof(Tid)>> \in Seq(OwnWords)
  BY WordsWritten
<1>7. QED
  BY <1>5, <1>6 DEF ChunkPdus

(* The packets of a NAK the script can answer.                             *)
LEMMA NakPdusWritten ==
  ASSUME KnownJob, NEW nak \in NakPdu, HasPackets(nak)
  PROVE  NakPdus(nak) \in Seq(OwnWords)
<1> DEFINE size == FileLen[File]
           places == {ChunkOffset(q[1]) + q[2] : q \in Asked(nak)}
           n == Cardinality(places)
           order == Ascending(places)
           pdus == [i \in 1 .. n |-> Packet(order[i] \div ChunkSize, order[i] % ChunkSize)]
<1>1. size \in Nat /\ TotalChunks(size) \in Int
  BY CurrentJob, ChunkSizeAssumption DEF TotalChunks
<1>2. ASSUME NEW q \in Asked(nak)
      PROVE  ChunkOffset(q[1]) + q[2] \in 0 .. size - 1
  <2>1. PICK r \in nak.missing : q \in {<<r.chunk, p>> : p \in r.first .. r.last}
    BY DEF Asked
  <2>2. PICK p \in r.first .. r.last : q = <<r.chunk, p>>
    BY <2>1
  <2>3. r \in PacketNakRange
    BY DEF NakPdu
  <2>4. p \in Nat /\ q[1] = r.chunk /\ q[2] = p
    BY <2>2, <2>3 DEF PacketNakRange
  <2>5. r.chunk \in Chunks(size) /\ p < PacketsIn(size, r.chunk)
    BY <2>4 DEF HasPackets, ChunksOfFile, Chunks
  <2>6. PacketsIn(size, r.chunk) \in Int
    BY <1>1, <2>3, ChunkSizeAssumption DEF PacketsIn, ChunkOffset, PacketNakRange
  <2>7. p \in 0 .. PacketsIn(size, r.chunk) - 1
    BY <2>4, <2>5, <2>6
  <2>8. QED
    BY <1>1, <2>4, <2>5, <2>7, ChunkPosition
<1>3. places \in SUBSET (0 .. size - 1)
  BY <1>2
<1>4. n \in Nat /\ order \in [1 .. n -> places]
  BY <1>1, <1>3, Enumerable DEF Enumerates
<1> HIDE DEF places, n, order
<1>5. ASSUME NEW i \in 1 .. n
      PROVE  Packet(order[i] \div ChunkSize, order[i] % ChunkSize) \in OwnWords
  <2>1. order[i] \in 0 .. size - 1
    BY <1>3, <1>4
  <2>2. /\ order[i] \div ChunkSize \in Chunks(size)
        /\ order[i] % ChunkSize \in 0 .. PacketsIn(size, order[i] \div ChunkSize) - 1
    BY <1>1, <2>1, PositionInChunk
  <2>3. QED
    BY <2>2, WordsWritten
<1>6. pdus \in Seq(OwnWords)
  BY <1>4, <1>5
<1>7. <<Eof(Tid)>> \in Seq(OwnWords)
  BY WordsWritten
<1>8. pdus \o <<Eof(Tid)>> \in Seq(OwnWords)
  BY <1>6, <1>7
<1>9. NakPdus(nak) = pdus \o <<Eof(Tid)>>
  BY DEF NakPdus, places, n, order
<1>10. QED
  BY <1>8, <1>9

(* The NAK the script answers is one that arrived.                         *)
LEMMA LatestNakArrived ==
  ASSUME toSender \in Seq(ReceiverPdu), Naks # {}
  PROVE  LatestNak \in NakPdu /\ \E i \in Naks : LatestNak = toSender[i]
<1> DEFINE back == {Len(toSender) - i : i \in Naks}
<1>1. Naks \subseteq 1 .. Len(toSender) /\ Len(toSender) \in Nat
  BY DEF Naks
<1>2. back \in SUBSET Nat /\ back # {}
  <2>1. \A i \in Naks : Len(toSender) - i \in Nat
    BY <1>1
  <2>2. QED
    BY <2>1
<1>3. PICK m \in back : \A k \in back : m <= k
  <2> HIDE DEF back
  <2>1. QED
    BY <1>2, R!SmallestOf, ReceiverAssumptions
<1>4. PICK i \in Naks : m = Len(toSender) - i
  BY <1>3
<1>5. \A k \in Naks : k <= i
  <2>1. ASSUME NEW k \in Naks
        PROVE  k <= i
    <3>1. m <= Len(toSender) - k
      BY <1>3
    <3>2. QED
      BY <1>1, <1>4, <3>1
  <2>2. QED
    BY <2>1
<1>6. PICK x \in Naks : LatestNak = toSender[x]
  BY <1>5 DEF LatestNak
<1>7. toSender[x] \in ReceiverPdu /\ toSender[x].type = "Nak"
  BY <1>1, <1>6 DEF Naks
<1>8. QED
  BY <1>6, <1>7 DEF ReceiverPdu, AckPdu, ResumeInfoPdu, NakPdu

LEMMA TailIsRest ==
  ASSUME NEW S, NEW q \in Seq(S), q # <<>>
  PROVE  Tail(q) = SubSeq(q, 1, 1 - 1) \o SubSeq(q, 1 + 1, Len(q))
<1>1. SubSeq(q, 1, 1 - 1) = <<>> /\ SubSeq(q, 1 + 1, Len(q)) = Tail(q)
  OBVIOUS
<1>2. Tail(q) \in Seq(S)
  OBVIOUS
<1>3. QED
  BY <1>1, <1>2

-----------------------------------------------------------------------------
(* The types of the script.                                                *)

FaultsCount ==
  /\ faults \in [FaultKinds -> Nat]
  /\ \A k \in FaultKinds : faults[k] <= MaxFaults[k]

SenderShape ==
  /\ KnownJob
  /\ FaultsCount
  /\ outbox \in Seq(OwnWords)
  /\ ci \in Nat
  /\ attempt \in 0 .. 3
  /\ sAt \in Places

LEMMA FaultsCounted ==
  ASSUME SenderShape, NEW kind \in FaultKinds, Fault(kind)
  PROVE  FaultsCount' /\ UNCHANGED scenario
<1>1. /\ faults' \in [FaultKinds -> Nat] /\ UNCHANGED scenario
      /\ \A k \in FaultKinds : faults'[k] = IF k = kind THEN faults[k] + 1 ELSE faults[k]
  BY DEF SenderShape, FaultsCount, Fault
<1>2. MaxFaults \in [FaultKinds -> Nat] /\ MaxFaults' = MaxFaults
  BY <1>1, ScenariosAssumption DEF SenderShape, KnownJob, MaxFaults
<1>3. \A k \in FaultKinds : faults[k] \in Nat /\ faults[k] <= MaxFaults[k]
  BY DEF SenderShape, FaultsCount
<1>4. faults[kind] < MaxFaults[kind]
  BY DEF Fault
<1>5. \A k \in FaultKinds : faults'[k] <= MaxFaults'[k]
  BY <1>1, <1>2, <1>3, <1>4
<1>6. QED
  BY <1>1, <1>5 DEF FaultsCount

LEMMA FaultsSame ==
  ASSUME SenderShape, UNCHANGED <<faults, scenario>>
  PROVE  FaultsCount'
BY DEF SenderShape, FaultsCount, MaxFaults

(* A step of the same run.                                                 *)
LEMMA SameRunShape ==
  ASSUME SenderShape, UNCHANGED <<run, scenario>>, FaultsCount',
         outbox' \in Seq(OwnWords), ci' \in Nat, attempt' \in 0 .. 3, sAt' \in Places
  PROVE  SenderShape'
<1>1. KnownJob' /\ OwnWords' = OwnWords
  BY DEF SenderShape, KnownJob, Jobs, OwnWords
<1>2. QED
  BY <1>1 DEF SenderShape

(* Another run, or the same one again.                                     *)
LEMMA OtherRunShape ==
  ASSUME SenderShape, NEW job \in 1 .. Len(Jobs), Launch(job), UNCHANGED scenario, FaultsCount'
  PROVE  SenderShape'
<1>1. sAt' = "start" /\ outbox' = <<>> /\ ci' = 0 /\ attempt' = 0 /\ run' = job
  BY DEF Launch
<1>2. KnownJob'
  BY <1>1 DEF SenderShape, KnownJob, Jobs
<1>3. QED
  BY <1>1, <1>2 DEF SenderShape, Places

LEMMA ChunkBegunShape ==
  ASSUME SenderShape, UNCHANGED <<attempt, run, scenario, faults>>, NEW c \in Nat, BeginChunk(c)
  PROVE  SenderShape'
<1>1. ci' = c /\ sAt' \in {"wait", "final"}
  BY DEF BeginChunk
<1>2. outbox' \in Seq(OwnWords)
  <2>1. CASE c < ChunksOfFile
    BY <2>1, ChunkPdusWritten DEF BeginChunk, SenderShape
  <2>2. CASE ~(c < ChunksOfFile)
    BY <2>2 DEF BeginChunk
  <2>3. QED
    BY <2>1, <2>2
<1>3. attempt' \in 0 .. 3 /\ sAt' \in Places
  BY <1>1 DEF SenderShape, Places
<1>4. QED
  BY <1>1, <1>2, <1>3, FaultsSame, SameRunShape

(* What the script reads are replies.                                      *)
LEMMA RepliesArePdus ==
  ASSUME R!ShapeInv
  PROVE  toSender \in Seq(ReceiverPdu)
BY DEF R!ShapeInv, R!TypeOK, R!ReceiverPdu, ReceiverPdu, R!NakPdu, NakPdu, R!AckPdu, AckPdu,
       R!ResumeInfoPdu, ResumeInfoPdu, R!PacketNakRange, PacketNakRange

(* What the receiver reads are PDUs of the script.                         *)
LEMMA WordsArePdus ==
  ASSUME R!ShapeInv, KnownJob
  PROVE  toReceiver \in Seq(SenderPdu)
<1>1. toReceiver \in Seq(R!Wire)
  BY DEF R!ShapeInv, R!TypeOK
<1>2. R!Wire \subseteq SenderPdu
  BY CurrentJob, VocabularyIsPdus, SamePdus DEF Vocabulary
<1>3. QED
  BY <1>1, <1>2

LEMMA StepsKeepShape ==
  ASSUME R!ShapeInv, SenderShape, SenderStep
  PROVE  SenderShape' /\ UNCHANGED <<run, scenario>>
<1> USE DEF Idle
<1>1. /\ KnownJob
      /\ TheMetadata \in OwnWords /\ Eof(Tid) \in OwnWords /\ ResumeQuery(Tid) \in OwnWords
      /\ outbox \in Seq(OwnWords) /\ ci \in Nat /\ attempt \in 0 .. 3 /\ sAt \in Places
  BY WordsWritten DEF SenderShape
<1>2. /\ <<Eof(Tid)>> \in Seq(OwnWords) /\ <<ResumeQuery(Tid)>> \in Seq(OwnWords)
      /\ <<TheMetadata, Eof(Tid)>> \in Seq(OwnWords)
      /\ <<TheMetadata, ResumeQuery(Tid)>> \in Seq(OwnWords)
  BY <1>1
<1>3. toSender \in Seq(ReceiverPdu)
  BY RepliesArePdus
<1>4. ASSUME NextAttempt, UNCHANGED <<run, scenario, faults>>
      PROVE  SenderShape'
  <2>1. CASE attempt < 3
    <3>1. attempt' \in 0 .. 3 /\ outbox' = <<ResumeQuery(Tid)>> /\ UNCHANGED <<sAt, ci>>
      BY <1>1, <1>4, <2>1 DEF NextAttempt
    <3>2. QED
      BY <1>1, <1>2, <1>4, <3>1, FaultsSame, SameRunShape
  <2>2. CASE ~(attempt < 3)
    BY <1>4, <2>2, ChunkBegunShape DEF NextAttempt
  <2>3. QED
    BY <2>1, <2>2
<1>5. CASE StartTransfer
  <2>1. /\ outbox' = <<TheMetadata, ResumeQuery(Tid)>> /\ sAt' = "info" /\ attempt' = 1
        /\ UNCHANGED <<ci, run, scenario, faults>>
    BY <1>5 DEF StartTransfer
  <2>2. QED
    BY <1>1, <1>2, <2>1, FaultsSame, SameRunShape DEF Places
<1>6. CASE InfoTimeout
  BY <1>4, <1>6 DEF InfoTimeout
<1>7. CASE ReadInfo
  <2>1. PICK pdu : /\ pdu = Head(toSender) /\ toSender # <<>>
                   /\ UNCHANGED <<run, scenario, faults>>
    BY <1>7 DEF ReadInfo
  <2>2. pdu \in ReceiverPdu
    BY <1>3, <2>1
  <2>3. CASE pdu.type # "ResumeInfo" \/ pdu.tid # Tid
    BY <1>4, <1>7, <2>1, <2>3 DEF ReadInfo
  <2>4. CASE ~(pdu.type # "ResumeInfo" \/ pdu.tid # Tid) /\ pdu.first = UINT32_MAX
    <3>1. /\ ci' = ChunksOfFile /\ sAt' = "final" /\ outbox' = <<Eof(Tid)>>
          /\ UNCHANGED attempt
      BY <1>7, <2>1, <2>4 DEF ReadInfo
    <3>2. ChunksOfFile \in Nat
      BY <1>1, CurrentJob, TotalIsNat DEF ChunksOfFile
    <3>3. QED
      BY <1>1, <1>2, <2>1, <3>1, <3>2, FaultsSame, SameRunShape DEF Places
  <2>5. CASE ~(pdu.type # "ResumeInfo" \/ pdu.tid # Tid) /\ pdu.first # UINT32_MAX
    <3>1. BeginChunk(pdu.first) /\ UNCHANGED attempt
      BY <1>7, <2>1, <2>5 DEF ReadInfo
    <3>2. pdu.first \in Nat
      BY <2>2, <2>5 DEF ReceiverPdu, NakPdu, AckPdu, ResumeInfoPdu
    <3>3. QED
      BY <2>1, <3>1, <3>2, ChunkBegunShape
  <2>6. QED
    BY <2>1, <2>3, <2>4, <2>5
<1>8. CASE ChunkTimeout
  BY <1>1, <1>2, <1>8, FaultsSame, SameRunShape DEF ChunkTimeout
<1>9. CASE FinalTimeout
  BY <1>1, <1>2, <1>9, FaultsSame, SameRunShape DEF FinalTimeout
<1>10. CASE Complete
  <2>1. sAt' = "done" /\ UNCHANGED <<outbox, ci, attempt, run, faults, scenario>>
    BY <1>10 DEF Complete
  <2>2. QED
    BY <1>1, <2>1, FaultsSame, SameRunShape DEF Places
<1>11. CASE ChunkAcked
  <2>1. BeginChunk(ci + 1) /\ UNCHANGED <<attempt, run, faults, scenario>>
    BY <1>11 DEF ChunkAcked
  <2>2. ci + 1 \in Nat
    BY <1>1
  <2>3. QED
    BY <2>1, <2>2, ChunkBegunShape
<1>12. CASE Retransmit
  <2>1. UNCHANGED <<ci, attempt, run, faults, scenario>> /\ Naks # {}
    BY <1>12 DEF Retransmit
  <2>2. CASE HasPackets(LatestNak)
    <3>1. outbox' = NakPdus(LatestNak) /\ UNCHANGED sAt
      BY <1>12, <2>2 DEF Retransmit
    <3>2. outbox' \in Seq(OwnWords)
      BY <1>1, <1>3, <2>1, <2>2, <3>1, LatestNakArrived, NakPdusWritten
    <3>3. QED
      BY <1>1, <2>1, <3>1, <3>2, FaultsSame, SameRunShape
  <2>3. CASE ~HasPackets(LatestNak)
    <3>1. sAt' = "failed" /\ UNCHANGED outbox
      BY <1>12, <2>3 DEF Retransmit
    <3>2. QED
      BY <1>1, <2>1, <3>1, FaultsSame, SameRunShape DEF Places
  <2>4. QED
    BY <2>1, <2>2, <2>3
<1>13. CASE IgnoreReplies
  BY <1>1, <1>13, FaultsSame, SameRunShape DEF IgnoreReplies, script
<1>14. CASE SendNext
  <2>1. outbox' \in Seq(OwnWords) /\ UNCHANGED <<sAt, ci, attempt, run>>
    BY <1>1, <1>14 DEF SendNext
  <2>2. FaultsCount' /\ UNCHANGED scenario
    <3>1. \/ UNCHANGED <<faults, scenario>> \/ Fault("lost") \/ Fault("damaged")
          \/ Fault("misread")
      BY <1>14 DEF SendNext
    <3>2. {"lost", "damaged", "misread"} \subseteq FaultKinds
      BY DEF FaultKinds
    <3>3. QED
      BY <3>1, <3>2, FaultsCounted, FaultsSame
  <2>3. QED
    BY <1>1, <2>1, <2>2, SameRunShape
<1>15. QED
  BY <1>5, <1>6, <1>7, <1>8, <1>9, <1>10, <1>11, <1>12, <1>13, <1>14
     DEF SenderStep, StartTransfer, InfoTimeout, ChunkTimeout, FinalTimeout

(* A later job, or the same one again: of one sender when run by hand, of  *)
(* another one only when there is no journal when run by the script.       *)
LEMMA Launches ==
  ASSUME SenderShape, Interrupted \/ NextRun \/ ScriptRunsAgain \/ ScriptStopped
  PROVE  \E job \in 1 .. Len(Jobs) :
           /\ Launch(job) /\ job >= run
           /\ FaultsCount' /\ UNCHANGED scenario
<1>1. run \in 1 .. Len(Jobs) /\ Len(Jobs) \in Nat
  BY ScenariosAssumption DEF SenderShape, KnownJob, Jobs
<1>2. /\ Interrupted \/ ScriptStopped => Fault("kill")
      /\ NextRun \/ ScriptRunsAgain => UNCHANGED <<faults, scenario>>
  BY DEF Interrupted, Rerun, NextRun, NextJob, ScriptRunsAgain, ScriptStopped
<1>3. FaultsCount' /\ UNCHANGED scenario
  BY <1>2, FaultsCounted, FaultsSame DEF FaultKinds
<1>4. CASE Interrupted
  <2>1. PICK job \in run .. Len(Jobs) : Launch(job)
    BY <1>4 DEF Interrupted, Rerun
  <2>2. job \in 1 .. Len(Jobs) /\ job >= run
    BY <1>1
  <2>3. QED
    BY <1>3, <2>1, <2>2
<1>5. CASE NextRun
  <2>1. Launch(run + 1) /\ run < Len(Jobs)
    BY <1>5 DEF NextRun, NextJob
  <2>2. run + 1 \in 1 .. Len(Jobs) /\ run + 1 >= run
    BY <1>1, <2>1
  <2>3. QED
    BY <1>3, <2>1, <2>2
<1>6. CASE ScriptRunsAgain \/ ScriptStopped
  <2>1. PICK job \in 1 .. Len(Jobs) : SameOrNewFile(job) /\ Launch(job)
    BY <1>6 DEF ScriptRunsAgain, ScriptStopped, SendScript
  <2>2. job >= run
    BY <1>1, <2>1 DEF SameOrNewFile
  <2>3. QED
    BY <1>3, <2>1, <2>2
<1>7. QED
  BY <1>4, <1>5, <1>6

LEMMA NextKeepsSenderShape ==
  ASSUME R!ShapeInv, SenderShape, [Next]_vars
  PROVE  SenderShape'
<1>1. /\ outbox \in Seq(OwnWords) /\ ci \in Nat /\ attempt \in 0 .. 3 /\ sAt \in Places
  BY DEF SenderShape
<1>2. CASE Sender
  BY <1>2, StepsKeepShape DEF Sender
<1>3. CASE Receiver \/ ReceiverLeaves \/ ReceiverStarts \/ UNCHANGED vars
  <2>1. UNCHANGED senderVars
    BY <1>3 DEF Receiver, ReceiverLeaves, ReceiverStarts, vars
  <2>2. QED
    BY <1>1, <2>1, FaultsSame, SameRunShape DEF senderVars, script
<1>4. CASE Reboot \/ LoseReply
  <2>1. UNCHANGED script /\ (Fault("crash") \/ Fault("reply"))
    BY <1>4 DEF Reboot, LoseReply
  <2>2. FaultsCount' /\ UNCHANGED scenario
    BY <2>1, FaultsCounted DEF FaultKinds
  <2>3. QED
    BY <1>1, <2>1, <2>2, SameRunShape DEF script
<1>5. CASE Interrupted \/ NextRun \/ ScriptRunsAgain \/ ScriptStopped
  <2>1. PICK job \in 1 .. Len(Jobs) : Launch(job) /\ FaultsCount' /\ UNCHANGED scenario
    BY <1>5, Launches
  <2>2. QED
    BY <2>1, OtherRunShape
<1>6. QED
  BY <1>2, <1>3, <1>4, <1>5 DEF Next

-----------------------------------------------------------------------------
(* The receiver of the whole program is one on an open line.               *)

LEMMA OpenStep ==
  ASSUME R!ShapeInv, SenderShape, [Next]_vars
  PROVE  [R!Next]_(R!vars)
<1> USE DEF R!vars, R!receiverVars, R!memory, R!mainLoop, R!stable, R!line,
            receiver, memory, mainLoop, stable, line
<1>1. toSender \in Seq(R!ReceiverPdu) /\ KnownJob
  BY DEF R!ShapeInv, R!TypeOK, SenderShape
<1> DEFINE Same == SenderOf(scenario, run)' = SenderOf(scenario, run)
<1>2. UNCHANGED <<run, scenario>> => Same
  OBVIOUS
<1> HIDE DEF Same
<1>3. CASE Receiver \/ ReceiverLeaves \/ Reboot \/ ReceiverStarts
  <2>1. ReceiverStep \/ StopLingering \/ Crash \/ Relaunch
    BY <1>3 DEF Receiver, ReceiverLeaves, Reboot, ReceiverStarts
  <2>2. Same
    BY <1>2, <1>3
       DEF Receiver, ReceiverLeaves, Reboot, ReceiverStarts, senderVars, script, Fault
  <2>3. QED
    BY <2>1, <2>2, SameReceiver DEF R!Next, R!SameSender, Same
<1>4. CASE ScriptRunsAgain \/ ScriptStopped
  <2>1. /\ StartAnew /\ scenario.start = "script" /\ UNCHANGED scenario
        /\ \E job \in 1 .. Len(Jobs) : SameOrNewFile(job) /\ Launch(job)
    BY <1>4 DEF ScriptRunsAgain, ScriptStopped, SendScript, Fault
  <2>2. PICK job \in 1 .. Len(Jobs) : SameOrNewFile(job) /\ run' = job
    BY <2>1 DEF Launch
  <2>3. SenderOf(scenario, run)' = SenderOf(scenario, job)
    BY <2>1, <2>2
  <2>4. SenderOf(scenario, job) \in AllSenders
    <3>1. job \in DOMAIN Jobs
      BY ScenariosAssumption, <1>1 DEF KnownJob, Jobs
    <3>2. QED
      BY <1>1, <3>1 DEF KnownJob, Jobs, AllSenders
  <2>5. journal # NoJournal => Same
    BY <2>2, <2>3 DEF SameOrNewFile, Same
  <2>6. QED
    BY <2>1, <2>3, <2>4, <2>5, SameReceiver DEF R!Next, R!NewSender, Same
<1>5. ASSUME UNCHANGED <<receiver, toReceiver>>, toSender' \in {toSender, <<>>}, Same
      PROVE  [R!Next]_(R!vars)
  <2>1. CASE toSender' = toSender
    BY <1>5, <2>1 DEF Same
  <2>2. CASE toSender # <<>> /\ toSender' = <<>>
    BY <1>5, <2>2 DEF R!Next, R!SameSender, R!LineDrains, Same
  <2>3. QED
    BY <1>5, <2>1, <2>2
<1>6. ASSUME UNCHANGED <<receiver, toReceiver>>, Same, NEW i \in DOMAIN toSender,
             toSender' = SubSeq(toSender, 1, i - 1) \o SubSeq(toSender, i + 1, Len(toSender))
      PROVE  [R!Next]_(R!vars)
  <2>1. toSender # <<>>
    BY <1>6
  <2>2. QED
    BY <1>6, <2>1 DEF R!Next, R!SameSender, R!LineDrains, Same
<1>7. CASE LoseReply
  <2>1. Same
    BY <1>2, <1>7 DEF LoseReply, Fault, script
  <2>2. QED
    BY <1>6, <1>7, <2>1 DEF LoseReply, RemoveAt
<1>8. CASE Interrupted \/ NextRun
  <2>1. /\ scenario.start = "hand" /\ UNCHANGED <<scenario, receiver, toReceiver>>
        /\ toSender' \in {toSender, <<>>}
    BY <1>8 DEF Interrupted, NextRun, Rerun, NextJob, ByHand, Fault
  <2>2. Same
    BY <2>1 DEF Same, SenderOf
  <2>3. QED
    BY <1>5, <2>1, <2>2
<1>9. CASE SenderStep /\ ~SendNext /\ UNCHANGED receiver
  <2>1. UNCHANGED toReceiver /\ Same
    <3>1. UNCHANGED <<run, scenario>>
      BY <1>9, StepsKeepShape
    <3>2. QED
      BY <1>2, <1>9, <3>1
         DEF SenderStep, StartTransfer, InfoTimeout, ReadInfo, ChunkTimeout, Complete,
             ChunkAcked, Retransmit, IgnoreReplies, FinalTimeout
  <2>2. \/ toSender' \in {toSender, <<>>}
        \/ toSender # <<>> /\ toSender' = Tail(toSender)
    BY <1>9 DEF SenderStep, StartTransfer, InfoTimeout, ReadInfo, ChunkTimeout, Complete,
                ChunkAcked, Retransmit, IgnoreReplies, FinalTimeout, ReadBatch
  <2>3. CASE toSender # <<>> /\ toSender' = Tail(toSender)
    <3>1. 1 \in DOMAIN toSender
      BY <1>1, <2>3
    <3>2. Tail(toSender) = SubSeq(toSender, 1, 1 - 1) \o SubSeq(toSender, 1 + 1, Len(toSender))
      BY <1>1, <2>3, TailIsRest
    <3>3. QED
      BY <1>6, <1>9, <2>1, <2>3, <3>1, <3>2
  <2>4. QED
    BY <1>5, <1>9, <2>1, <2>2, <2>3
<1>10. CASE SendNext /\ UNCHANGED receiver
  <2>1. /\ Head(outbox) \in OwnWords /\ UNCHANGED toSender
        /\ UNCHANGED <<run, scenario>>
    BY <1>10, StepsKeepShape DEF SendNext, SenderShape, SenderStep
  <2>2. Same
    BY <1>2, <2>1
  <2>3. ASSUME NEW p \in R!Wire, Transmit(p)
        PROVE  [R!Next]_(R!vars)
    BY <1>10, <2>1, <2>2, <2>3
       DEF Transmit, R!Transmit, R!LineDelivers, R!Next, R!SameSender, Same
  <2>4. CASE Transmit(Head(outbox))
    BY <1>1, <2>1, <2>3, <2>4, OwnWordsSpoken
  <2>5. CASE UNCHANGED toReceiver
    BY <1>5, <1>10, <2>1, <2>2, <2>5
  <2>6. CASE /\ Head(outbox).type = "Data"
             /\ Transmit([Head(outbox) EXCEPT !.data = Garbage, !.ok = FALSE])
    BY <1>1, <2>1, <2>3, <2>6, OwnWordsSpoken DEF Damaged
  <2>7. CASE Fault("misread") /\ \E pdu \in Misread(Head(outbox)) : Transmit(pdu)
    <3>1. ThisSender.misreads # 0
      <4>1. faults["misread"] \in Nat /\ faults["misread"] < scenario.faults["misread"]
        BY <2>7 DEF Fault, MaxFaults, SenderShape, FaultsCount, FaultKinds
      <4>2. QED
        BY <4>1 DEF ThisSender, SenderOf
    <3>2. QED
      BY <1>1, <2>1, <2>3, <2>7, <3>1, OwnWordsSpoken
  <2>8. QED
    BY <1>10, <2>4, <2>5, <2>6, <2>7 DEF SendNext
<1>11. CASE UNCHANGED vars
  BY <1>11 DEF vars, senderVars, script
<1>12. QED
  BY <1>3, <1>4, <1>7, <1>8, <1>9, <1>10, <1>11 DEF Next, Sender

LEMMA InitShapes ==
  ASSUME Init
  PROVE  R!Init /\ R!ShapeInv /\ SenderShape
<1>1. /\ scenario \in Scenarios /\ run = 1 /\ sAt = "start" /\ outbox = <<>> /\ ci = 0
      /\ attempt = 0 /\ faults = [k \in FaultKinds |-> 0]
  BY DEF Init, SenderInit
<1>2. KnownJob
  <2>1. Jobs \in Seq(Job) /\ Jobs # <<>>
    BY <1>1, ScenariosAssumption DEF Jobs, Job
  <2>2. QED
    BY <1>1, <2>1 DEF KnownJob
<1>3. FaultsCount
  <2>1. MaxFaults \in [FaultKinds -> Nat]
    BY <1>1, ScenariosAssumption DEF MaxFaults
  <2>2. QED
    BY <1>1, <2>1 DEF FaultsCount
<1>4. SenderShape
  BY <1>1, <1>2, <1>3 DEF SenderShape, Places
<1>5. R!Init
  BY <1>2, CurrentJob, SameReceiver DEF Init, ThisSender
<1>6. R!ShapeInv
  BY <1>5, R!InitShape, ReceiverAssumptions
<1>7. QED
  BY <1>4, <1>5, <1>6

LEMMA NextShapes ==
  ASSUME R!ShapeInv, SenderShape, [Next]_vars
  PROVE  [R!Next]_(R!vars) /\ R!ShapeInv' /\ SenderShape'
<1>1. [R!Next]_(R!vars)
  BY OpenStep
<1>2. R!ShapeInv'
  BY <1>1, R!NextKeepsShape, ReceiverAssumptions
<1>3. QED
  BY <1>1, <1>2, NextKeepsSenderShape

LEMMA AlwaysShapes == Spec => [](R!ShapeInv /\ SenderShape)
<1>1. Init => R!ShapeInv /\ SenderShape
  BY InitShapes
<1>2. R!ShapeInv /\ SenderShape /\ [Next]_vars => (R!ShapeInv /\ SenderShape)'
  BY NextShapes
<1>3. QED
  BY <1>1, <1>2, PTL DEF Spec

LEMMA WholeIsR == Spec => R!Spec
<1>1. Init => R!Init
  BY InitShapes
<1>2. R!ShapeInv /\ SenderShape /\ [Next]_vars => [R!Next]_(R!vars)
  BY NextShapes
<1>3. QED
  BY <1>1, <1>2, AlwaysShapes, PTL DEF Spec, R!Spec

(* Whatever goes wrong, every variable of the whole program keeps its type:*)
(* the queues hold PDUs of the protocol (Types.h:20-83), the attempts and  *)
(* the faults stay within their bounds (sender.py:135-149), and an active  *)
(* transfer has a state (CfdpReceiver.cpp:75-111).                         *)
THEOREM TypeCorrect == Spec => []TypeOK
<1>1. ASSUME R!ShapeInv, SenderShape
      PROVE  TypeOK
  <2>1. /\ KnownJob /\ FaultsCount /\ outbox \in Seq(OwnWords) /\ ci \in Nat
        /\ attempt \in 0 .. 3 /\ sAt \in Places
    BY <1>1 DEF SenderShape
  <2>2. outbox \in Seq(SenderPdu)
    BY <2>1, OwnWordsArePdus
  <2>3. toReceiver \in Seq(SenderPdu)
    BY <1>1, <2>1, WordsArePdus
  <2>4. toSender \in Seq(ReceiverPdu)
    BY <1>1, RepliesArePdus
  <2>5. transferActive => state \in JournalState
    <3>1. R!JournalState = JournalState
      BY DEF R!JournalState, JournalState, R!Chunks, Chunks, R!TotalChunks, TotalChunks
    <3>2. QED
      BY <1>1, <3>1 DEF R!ShapeInv, R!TypeOK, R!Coupled
  <2>6. QED
    BY <2>1, <2>2, <2>3, <2>4, <2>5 DEF TypeOK, KnownJob, FaultsCount
<1>2. R!ShapeInv /\ SenderShape => TypeOK
  BY <1>1
<1>3. QED
  BY <1>2, AlwaysShapes, PTL

(* Behind the script, through every run, timeout, loss, misread header,    *)
(* reboot and kill, the receiver behaves as on an open line                *)
(* (CfdpReceiver.cpp:75-111).                                              *)
THEOREM WholeIsOpen == Spec => ReceiverIsOpen
<1>1. Init => Open!Init
  BY InitShapes, SameReceiver
<1>2. R!ShapeInv /\ SenderShape /\ [Next]_vars => [Open!Next]_(Open!vars)
  BY NextShapes, SameReceiver
<1>3. QED
  BY <1>1, <1>2, AlwaysShapes, PTL DEF Spec, ReceiverIsOpen, Open!Spec

-----------------------------------------------------------------------------
(* Where a success comes from, whatever is misread and whoever sends.      *)

Final(p) == p.type = "Ack" /\ p.chunk = UINT32_MAX
NoFinalAck(q) == \A i \in DOMAIN q : ~Final(q[i])

(* Until a file is verified no transfer has ended.                         *)
NothingEnded ==
  /\ lastAckedId = 0
  /\ at # "close"
  /\ NoFinalAck(toSender)
  /\ sAt # "done"

LEMMA OneReplyMore ==
  ASSUME toSender \in Seq(ReceiverPdu), NoFinalAck(toSender), NEW p, ~Final(p), Reply(p)
  PROVE  NoFinalAck(toSender')
<1>1. toSender' = Append(toSender, p)
  BY DEF Reply
<1>2. toSender \in Seq(ReceiverPdu \cup {p}) /\ Len(toSender) \in Nat
  OBVIOUS
<1>3. ASSUME NEW i \in DOMAIN toSender'
      PROVE  ~Final(toSender'[i])
  <2>1. i \in 1 .. Len(toSender) + 1
    BY <1>1, <1>2
  <2>2. CASE i = Len(toSender) + 1
    BY <1>1, <1>2, <2>2
  <2>3. CASE i \in 1 .. Len(toSender)
    BY <1>1, <1>2, <2>3 DEF NoFinalAck
  <2>4. QED
    BY <1>2, <2>1, <2>2, <2>3
<1>4. QED
  BY <1>3 DEF NoFinalAck

LEMMA FewerReplies ==
  ASSUME NEW q \in Seq(ReceiverPdu), NoFinalAck(q), NEW i \in DOMAIN q
  PROVE  NoFinalAck(RemoveAt(q, i))
<1> DEFINE before == SubSeq(q, 1, i - 1)
           after  == SubSeq(q, i + 1, Len(q))
<1>1. i \in 1 .. Len(q) /\ Len(q) \in Nat
  OBVIOUS
<1>2. /\ before \in Seq(ReceiverPdu) /\ after \in Seq(ReceiverPdu)
      /\ Len(before) = i - 1 /\ Len(after) = Len(q) - i
      /\ \A k \in 1 .. i - 1 : before[k] = q[k]
      /\ \A k \in 1 .. Len(q) - i : after[k] = q[i + k]
  BY <1>1
<1> HIDE DEF before, after
<1>3. ASSUME NEW k \in DOMAIN (before \o after)
      PROVE  \E e \in DOMAIN q : (before \o after)[k] = q[e]
  <2>1. k \in 1 .. Len(q) - 1
    BY <1>1, <1>2
  <2>2. CASE k < i
    <3>1. (before \o after)[k] = q[k] /\ k \in DOMAIN q
      BY <1>1, <1>2, <2>1, <2>2
    <3>2. QED
      BY <3>1
  <2>3. CASE ~(k < i)
    <3>1. (before \o after)[k] = q[k + 1] /\ k + 1 \in DOMAIN q
      BY <1>1, <1>2, <2>1, <2>3
    <3>2. QED
      BY <3>1
  <2>4. QED
    BY <2>2, <2>3
<1>4. QED
  BY <1>3 DEF NoFinalAck, RemoveAt, before, after

(* No step of the receiver gives a final ACK before a file is verified.    *)
LEMMA NothingAcked ==
  ASSUME R!ShapeInv, KnownJob, ~Verified, NothingEnded, ReceiverStep
  PROVE  lastAckedId' = 0 /\ at' # "close" /\ NoFinalAck(toSender')
<1> USE DEF Receive, Returns, Continue, memory, stable, line
<1>1. toSender \in Seq(ReceiverPdu) /\ NoFinalAck(toSender) /\ lastAckedId = 0 /\ at # "close"
  BY RepliesArePdus DEF NothingEnded
<1>2. /\ toReceiver \in Seq(SenderPdu) /\ UINT32_MAX \notin Nat /\ 0 \notin Tids
      /\ at = "ack" => currentChunk # UINT32_MAX
  <2>1. toReceiver \in Seq(SenderPdu)
    BY WordsArePdus
  <2>2. QED
    BY <2>1, TidsAssumption, Uint32MaxAssumption DEF R!ShapeInv, R!ChunkKnown
<1>3. CASE ReackTransfer
  <2>1. Head(toReceiver) \in SenderPdu /\ Head(toReceiver).type = "Metadata"
    BY <1>2, <1>3 DEF ReackTransfer
  <2>2. Head(toReceiver).tid \in Tids
    BY <2>1 DEF SenderPdu, MetadataPdu, DataPdu, EofPdu, ResumeQueryPdu, NoisePdu
  <2>3. QED
    BY <1>1, <1>2, <1>3, <2>2 DEF ReackTransfer, Finished
<1>4. CASE ReackData
  <2>1. Head(toReceiver).chunk # UINT32_MAX
    <3>1. Head(toReceiver) \in SenderPdu /\ Head(toReceiver).type = "Data"
      BY <1>2, <1>4 DEF ReackData
    <3>2. QED
      BY <1>2, <3>1 DEF SenderPdu, MetadataPdu, DataPdu, EofPdu, ResumeQueryPdu, NoisePdu
  <2>2. ~Final(Ack(state.tid, Head(toReceiver).chunk))
    BY <2>1 DEF Final, Ack
  <2>3. UNCHANGED lastAckedId /\ at' = "recv"
    BY <1>4 DEF ReackData
  <2>4. CASE Head(toReceiver).pkt = 0
    BY <1>1, <1>4, <2>2, <2>3, <2>4, OneReplyMore DEF ReackData
  <2>5. CASE Head(toReceiver).pkt # 0
    BY <1>1, <1>4, <2>3, <2>5 DEF ReackData
  <2>6. QED
    BY <2>4, <2>5
<1>5. CASE AckChunk
  <2>1. ~Final(Ack(state.tid, currentChunk))
    BY <1>2, <1>5 DEF AckChunk, Final, Ack
  <2>2. QED
    BY <1>1, <1>5, <2>1, OneReplyMore DEF AckChunk
<1>6. CASE StoreData \/ NakCurrentChunk \/ NakMissingChunk \/ AnswerResumeQuery
  <2>1. /\ UNCHANGED lastAckedId /\ at' # "close"
        /\ \/ UNCHANGED toSender
           \/ \E p : Reply(p) /\ ~Final(p)
    <3>1. \A t, s : ~Final(Nak(t, s)) /\ ~Final(ResumeInfo(t, s))
      BY DEF Final, Nak, ResumeInfo
    <3>2. CASE StoreData
      BY <3>1, <3>2 DEF StoreData, NakPackets
    <3>3. CASE NakCurrentChunk \/ NakMissingChunk
      BY <3>1, <3>3 DEF NakCurrentChunk, NakMissingChunk, NakPackets, NakChunk
    <3>4. CASE AnswerResumeQuery
      BY <3>1, <3>4 DEF AnswerResumeQuery
    <3>5. QED
      BY <1>6, <3>2, <3>3, <3>4
  <2>2. QED
    BY <1>1, <2>1, OneReplyMore
<1>7. CASE AcceptFile
  <2>1. state \in R!JournalState /\ Matches(disk[state.name], state.sum)
    BY <1>7 DEF AcceptFile, AllReceived, VerifyFileChecksum, R!ShapeInv, R!Coupled, R!TypeOK
  <2>2. state.name \in Names /\ state.sum \in Files
    BY <2>1 DEF R!JournalState
  <2>3. QED
    BY <2>1, <2>2 DEF Verified
<1>8. CASE \/ BootFresh \/ BootResume \/ DropNoise \/ IgnoreMetadata \/ AcceptMetadata
           \/ CreateJournal \/ DropData \/ WriteChunk \/ MarkChunk \/ DropEof \/ AcceptEof
           \/ AwaitMoreChunks \/ RejectFile \/ CloseTransfer
  <2>1. UNCHANGED <<lastAckedId, toSender>> /\ at' # "close"
    BY <1>8
       DEF BootFresh, BootResume, DropNoise, IgnoreMetadata, AcceptMetadata, CreateJournal,
           DropData, WriteChunk, MarkChunk, DropEof, AcceptEof, AwaitMoreChunks, RejectFile,
           CloseTransfer
  <2>2. QED
    BY <1>1, <2>1
<1>9. QED
  BY <1>3, <1>4, <1>5, <1>6, <1>7, <1>8 DEF ReceiverStep

LEMMA NothingReported ==
  ASSUME R!ShapeInv, SenderShape, ~Verified, NothingEnded, [Next]_vars
  PROVE  NothingEnded'
<1> USE DEF memory, stable, line
<1>1. /\ toSender \in Seq(ReceiverPdu) /\ NoFinalAck(toSender) /\ lastAckedId = 0
      /\ at # "close" /\ sAt # "done"
  BY RepliesArePdus DEF NothingEnded
<1>2. NoFinalAck(<<>>)
  BY DEF NoFinalAck
<1>3. CASE Receiver
  BY <1>1, <1>3, NothingAcked DEF Receiver, senderVars, script, NothingEnded, SenderShape
<1>4. CASE ReceiverLeaves \/ Reboot \/ ReceiverStarts
  <2>1. UNCHANGED <<sAt, toSender>> /\ at' # "close" /\ lastAckedId' = 0
    BY <1>1, <1>4
       DEF ReceiverLeaves, Reboot, ReceiverStarts, StopLingering, Crash, Relaunch,
           MemoryLost, senderVars, script
  <2>2. QED
    BY <1>1, <2>1 DEF NothingEnded
<1>5. CASE ScriptRunsAgain \/ ScriptStopped
  <2>1. sAt' = "start" /\ toSender' = <<>> /\ at' # "close" /\ lastAckedId' = 0
    BY <1>5 DEF ScriptRunsAgain, ScriptStopped, SendScript, StartAnew, MemoryLost, Launch
  <2>2. QED
    BY <1>2, <2>1 DEF NothingEnded
<1>6. CASE LoseReply
  <2>1. PICK i \in DOMAIN toSender : toSender' = RemoveAt(toSender, i)
    BY <1>6 DEF LoseReply
  <2>2. UNCHANGED <<sAt, at, lastAckedId>>
    BY <1>6 DEF LoseReply, receiver, script
  <2>3. QED
    BY <1>1, <2>1, <2>2, FewerReplies DEF NothingEnded
<1>7. CASE Interrupted \/ NextRun
  <2>1. /\ sAt' = "start" /\ toSender' \in {toSender, <<>>} /\ UNCHANGED <<at, lastAckedId>>
    BY <1>7 DEF Interrupted, NextRun, Rerun, NextJob, ByHand, Launch, receiver
  <2>2. QED
    BY <1>1, <1>2, <2>1 DEF NothingEnded
<1>8. CASE Sender
  <2>1. UNCHANGED <<at, lastAckedId>>
    BY <1>8 DEF Sender, receiver
  <2>2. ~Acked(UINT32_MAX)
    BY <1>1 DEF Acked, Batch, ToSet, NoFinalAck, Final
  <2>3. sAt' # "done"
    BY <1>1, <1>8, <2>2
       DEF Sender, SenderStep, SendNext, StartTransfer, InfoTimeout, ReadInfo, NextAttempt,
           BeginChunk, ChunkTimeout, Complete, ChunkAcked, Retransmit, IgnoreReplies,
           FinalTimeout, script
  <2>4. NoFinalAck(toSender')
    <3>1. \/ toSender' \in {toSender, <<>>}
          \/ toSender # <<>> /\ toSender' = Tail(toSender)
      BY <1>8
         DEF Sender, SenderStep, SendNext, StartTransfer, InfoTimeout, ReadInfo, ChunkTimeout,
             Complete, ChunkAcked, Retransmit, IgnoreReplies, FinalTimeout, ReadBatch
    <3>2. CASE toSender # <<>> /\ toSender' = Tail(toSender)
      <4>1. 1 \in DOMAIN toSender /\ Tail(toSender) = RemoveAt(toSender, 1)
        BY <1>1, <3>2, TailIsRest DEF RemoveAt
      <4>2. QED
        BY <1>1, <3>2, <4>1, FewerReplies
    <3>3. QED
      BY <1>1, <1>2, <3>1, <3>2
  <2>5. QED
    BY <1>1, <2>1, <2>3, <2>4 DEF NothingEnded
<1>9. CASE UNCHANGED vars
  BY <1>1, <1>9 DEF vars, receiver, senderVars, script, NothingEnded
<1>10. QED
  BY <1>3, <1>4, <1>5, <1>6, <1>7, <1>8, <1>9 DEF Next

(* No success is reported before some destination has been a whole file,   *)
(* with the checksum of a Metadata: however many jobs share the            *)
(* transaction id, whatever the headers are misread for, and whichever run *)
(* reads the ACK (CfdpReceiver.cpp:386-396, sender.py:155-176).            *)
THEOREM SuccessEarned == Spec => SuccessWasVerified
<1>1. Init => NothingEnded
  BY DEF Init, ReceiverInit, LineInit, SenderInit, NothingEnded, NoFinalAck
<1>2. R!ShapeInv /\ SenderShape /\ ~Verified /\ NothingEnded /\ [Next]_vars => NothingEnded'
  BY NothingReported
<1>3. NothingEnded => sAt # "done"
  BY DEF NothingEnded
<1>4. QED
  BY <1>1, <1>2, <1>3, AlwaysShapes, PTL DEF Spec, SuccessWasVerified

-----------------------------------------------------------------------------
(* What the replies mean to the script, when a transaction id stands for   *)
(* one file at a time and no header is misread.                            *)

OnDisk(c) == ChunkOnDisk(disk[Jobs[run].name], File, c)

LEMMA OwnAnnouncement ==
  ASSUME KnownJob
  PROVE  \E m \in R!Announcements : m.sum = File /\ m.name = Jobs[run].name
<1>1. TheMetadata \in R!Wire
  BY WordsWritten, OwnWordsSpoken
<1>2. TheMetadata \in MetadataPdu /\ MetadataPdu = R!MetadataPdu
  BY CurrentJob, TidAssumption DEF TheMetadata, Metadata, MetadataPdu, R!MetadataPdu
<1>3. QED
  BY <1>1, <1>2 DEF R!Announcements, R!Announces, R!Wire, TheMetadata, Metadata

LEMMA OnlyFile ==
  ASSUME OneJobEach, NoMisreads, KnownJob, NEW m \in R!Announcements
  PROVE  m.sum = File /\ m.name = Jobs[run].name /\ m.size = FileLen[File]
<1>1. m \in Spoken(ThisSender) /\ m.type = "Metadata"
  BY CurrentJob DEF R!Announcements, R!Announces, R!Wire, R!MetadataPdu
<1>2. PICK j \in Job : ThisSender.jobs = {j}
  BY CurrentJob, OneJob
<1>3. m = Metadata(Tid, j.file, j.name)
  BY <1>1, <1>2, CurrentJob, OneAnnouncement DEF Data
<1>4. j = Jobs[run]
  BY <1>2, CurrentJob
<1>5. QED
  BY <1>3, <1>4 DEF Metadata, File

LEMMA Meaning ==
  ASSUME OneJobEach, NoMisreads, KnownJob, NEW p, R!Holds(p)
  PROVE  /\ p.type = "Ack" /\ p.chunk = UINT32_MAX => Received
         /\ p.type = "Ack" /\ p.chunk # UINT32_MAX => OnDisk(p.chunk)
         /\ p.type = "ResumeInfo" /\ p.first = UINT32_MAX =>
              \A c \in Chunks(FileLen[File]) : OnDisk(c)
         /\ p.type = "ResumeInfo" /\ p.first # UINT32_MAX /\ p.first # 0 =>
              \A c \in 0 .. p.first - 1 : OnDisk(c)
<1>1. CASE p.type = "Ack" /\ p.chunk = UINT32_MAX
  <2>1. PICK m \in R!Announcements : R!Matches(disk[m.name], m.sum)
    BY <1>1 DEF R!Holds, R!Verified
  <2>2. QED
    BY <1>1, <2>1, OnlyFile, SameFile DEF Received
<1>2. CASE p.type = "Ack" /\ p.chunk # UINT32_MAX
  <2>1. PICK m \in R!Announcements : R!ChunkOnDisk(disk[m.name], m.sum, p.chunk)
    BY <1>2 DEF R!Holds
  <2>2. QED
    BY <1>2, <2>1, OnlyFile, SameFile DEF OnDisk
<1>3. CASE p.type = "ResumeInfo" /\ p.first = UINT32_MAX
  <2>1. UINT32_MAX # 0
    BY Uint32MaxAssumption
  <2>2. PICK m \in R!Announcements :
          \A c \in R!Chunks(m.size) : R!ChunkOnDisk(disk[m.name], m.sum, c)
    BY <1>3, <2>1 DEF R!Holds
  <2>3. \A c \in R!Chunks(FileLen[File]) : OnDisk(c)
    BY <2>2, OnlyFile, SameFile DEF OnDisk
  <2>4. R!Chunks(FileLen[File]) = Chunks(FileLen[File])
    BY DEF R!Chunks, Chunks, R!TotalChunks, TotalChunks
  <2>5. QED
    BY <1>3, <2>3, <2>4
<1>4. CASE p.type = "ResumeInfo" /\ p.first # UINT32_MAX /\ p.first # 0
  <2>1. PICK m \in R!Announcements :
          \A c \in 0 .. p.first - 1 : R!ChunkOnDisk(disk[m.name], m.sum, c)
    BY <1>4 DEF R!Holds
  <2>2. QED
    BY <1>4, <2>1, OnlyFile, SameFile DEF OnDisk
<1>5. QED
  BY <1>1, <1>2, <1>3, <1>4

(* What is on disk for the current job stays there.                        *)
LEMMA StillOnDisk ==
  ASSUME OneJobEach, NoMisreads, KnownJob, R!DiskGrows, UNCHANGED <<run, scenario>>
  PROVE  /\ KnownJob'
         /\ \A c \in Nat : OnDisk(c) => OnDisk(c)'
         /\ Received => Received'
<1>1. /\ KnownJob'
      /\ File' = File /\ Jobs' = Jobs
  BY DEF KnownJob, Jobs, File
<1>2. PICK m \in R!Announcements : m.sum = File /\ m.name = Jobs[run].name
  BY OwnAnnouncement
<1>3. /\ \A c \in Nat : R!ChunkOnDisk(disk[m.name], m.sum, c)
                          => R!ChunkOnDisk(disk'[m.name], m.sum, c)
      /\ R!Matches(disk[m.name], m.sum) => R!Matches(disk'[m.name], m.sum)
  BY <1>2 DEF R!DiskGrows
<1>4. /\ \A c \in Nat : ChunkOnDisk(disk[m.name], m.sum, c)
                          => ChunkOnDisk(disk'[m.name], m.sum, c)
      /\ Matches(disk[m.name], m.sum) => Matches(disk'[m.name], m.sum)
  BY <1>3, SameFile
<1>5. (\A c \in Nat : OnDisk(c) => OnDisk(c)') /\ (Received => Received')
  <2>1. /\ \A c : OnDisk(c) <=> ChunkOnDisk(disk[m.name], m.sum, c)
        /\ \A c : OnDisk(c)' <=> ChunkOnDisk(disk'[m.name], m.sum, c)
    BY <1>1, <1>2 DEF OnDisk, ChunkOnDisk
  <2>2. /\ Received <=> Matches(disk[m.name], m.sum)
        /\ Received' <=> Matches(disk'[m.name], m.sum)
    BY <1>1, <1>2 DEF Received, Matches
  <2>3. QED
    BY <1>4, <2>1, <2>2
<1>6. QED
  BY <1>1, <1>5

-----------------------------------------------------------------------------
(* The invariant of the script.                                            *)

SenderInv == SenderShape /\ PassedIsOnDisk /\ SuccessMeansReceived

(* A step of the same run.                                                 *)
LEMMA SameRun ==
  ASSUME OneJobEach, NoMisreads, SenderInv, SenderShape', R!DiskGrows, UNCHANGED <<run, scenario>>,
         sAt' \in {"wait", "final"} => \A c \in 0 .. ci' - 1 : OnDisk(c),
         sAt' = "done" => Received
  PROVE  SenderInv'
<1>1. /\ \A c \in Nat : OnDisk(c) => OnDisk(c)'
      /\ Received => Received'
  BY StillOnDisk DEF SenderInv, SenderShape
<1>2. SuccessMeansReceived'
  BY <1>1 DEF SuccessMeansReceived
<1>3. PassedIsOnDisk'
  <2>1. ASSUME sAt' \in {"wait", "final"}, NEW c \in 0 .. ci' - 1
        PROVE  OnDisk(c)'
    <3>1. c \in Nat
      OBVIOUS
    <3>2. OnDisk(c)
      BY <2>1, Zenon
    <3>3. QED
      BY <1>1, <3>1, <3>2
  <2>2. QED
    BY <2>1 DEF PassedIsOnDisk, OnDisk
<1>4. QED
  BY <1>2, <1>3 DEF SenderInv

(* A step that leaves the place and the chunk as they are.                 *)
LEMMA SamePlace ==
  ASSUME OneJobEach, NoMisreads, SenderInv, SenderShape', R!DiskGrows,
         UNCHANGED <<sAt, ci, run, scenario>>
  PROVE  SenderInv'
<1>1. /\ sAt \in {"wait", "final"} => \A c \in 0 .. ci - 1 : OnDisk(c)
      /\ sAt = "done" => Received
  BY DEF SenderInv, PassedIsOnDisk, SuccessMeansReceived, OnDisk
<1>2. QED
  BY <1>1, SameRun

(* The other run, or the same one again.                                   *)
LEMMA OtherRun ==
  ASSUME SenderInv, SenderShape', NEW job, Launch(job)
  PROVE  SenderInv'
<1>1. sAt' = "start"
  BY DEF Launch
<1>2. QED
  BY <1>1 DEF SenderInv, PassedIsOnDisk, SuccessMeansReceived

LEMMA ChunkBegun ==
  ASSUME OneJobEach, NoMisreads, SenderInv, SenderShape', R!DiskGrows, UNCHANGED <<run, scenario>>,
         NEW c \in Nat, BeginChunk(c), \A e \in 0 .. c - 1 : OnDisk(e)
  PROVE  SenderInv'
<1>1. ci' = c /\ sAt' \in {"wait", "final"}
  BY DEF BeginChunk
<1>2. QED
  BY <1>1, SameRun

(* Every reply the script reads is one whose promise is kept.              *)
LEMMA RepliesArrived ==
  ASSUME R!ShapeInv, R!Kept
  PROVE  /\ toSender \in Seq(ReceiverPdu)
         /\ \A p \in ToSet(toSender) : p \in ReceiverPdu /\ R!Holds(p)
<1>1. toSender \in Seq(ReceiverPdu)
  BY RepliesArePdus
<1>2. \A i \in DOMAIN toSender : toSender[i] \in ReceiverPdu /\ R!Holds(toSender[i])
  BY <1>1, ElementOf DEF R!Kept
<1>3. QED
  BY <1>1, <1>2 DEF ToSet

LEMMA StepsKeep ==
  ASSUME OneJobEach, NoMisreads, R!IndInv, R!Kept, SenderInv, R!DiskGrows, SenderStep
  PROVE  SenderInv'
<1> USE DEF Idle
<1>1. R!ShapeInv /\ SenderShape /\ KnownJob /\ ci \in Nat
  BY DEF R!IndInv, SenderInv, SenderShape
<1>2. SenderShape' /\ UNCHANGED <<run, scenario>>
  BY <1>1, StepsKeepShape
<1>3. /\ toSender \in Seq(ReceiverPdu)
      /\ \A p \in ToSet(toSender) : p \in ReceiverPdu /\ R!Holds(p)
  BY <1>1, RepliesArrived
<1>4. ASSUME NextAttempt
      PROVE  SenderInv'
  <2>1. CASE attempt < 3
    BY <1>2, <1>4, <2>1, SamePlace DEF NextAttempt
  <2>2. CASE ~(attempt < 3)
    <3>1. BeginChunk(0) /\ \A e \in 0 .. 0 - 1 : OnDisk(e)
      BY <1>4, <2>2 DEF NextAttempt
    <3>2. QED
      BY <1>2, <3>1, ChunkBegun
  <2>3. QED
    BY <2>1, <2>2
<1>5. CASE StartTransfer
  BY <1>2, <1>5, SameRun DEF StartTransfer
<1>6. CASE InfoTimeout
  BY <1>4, <1>6 DEF InfoTimeout
<1>7. CASE ReadInfo
  <2>1. PICK pdu : pdu = Head(toSender) /\ toSender # <<>>
    BY <1>7 DEF ReadInfo
  <2>2. pdu \in ReceiverPdu /\ R!Holds(pdu)
    BY <1>3, <2>1 DEF ToSet
  <2>3. CASE pdu.type # "ResumeInfo" \/ pdu.tid # Tid
    BY <1>4, <1>7, <2>1, <2>3 DEF ReadInfo
  <2>4. CASE ~(pdu.type # "ResumeInfo" \/ pdu.tid # Tid) /\ pdu.first = UINT32_MAX
    <3>1. ci' = ChunksOfFile /\ sAt' = "final"
      BY <1>7, <2>1, <2>4 DEF ReadInfo
    <3>2. \A c \in 0 .. ChunksOfFile - 1 : OnDisk(c)
      BY <1>1, <2>2, <2>4, Meaning DEF Chunks, ChunksOfFile
    <3>3. QED
      BY <1>2, <3>1, <3>2, SameRun
  <2>5. CASE ~(pdu.type # "ResumeInfo" \/ pdu.tid # Tid) /\ pdu.first # UINT32_MAX
    <3>1. BeginChunk(pdu.first)
      BY <1>7, <2>1, <2>5 DEF ReadInfo
    <3>2. pdu.first \in Nat
      BY <2>2, <2>5 DEF ReceiverPdu, NakPdu, AckPdu, ResumeInfoPdu
    <3>3. \A c \in 0 .. pdu.first - 1 : OnDisk(c)
      <4>1. CASE pdu.first = 0
        BY <4>1
      <4>2. CASE pdu.first # 0
        BY <1>1, <2>2, <2>5, <4>2, Meaning
      <4>3. QED
        BY <4>1, <4>2
    <3>4. QED
      BY <1>2, <3>1, <3>2, <3>3, ChunkBegun
  <2>6. QED
    BY <2>3, <2>4, <2>5
<1>8. CASE Complete
  <2>1. PICK p \in ToSet(toSender) : p.type = "Ack" /\ p.chunk = UINT32_MAX
    BY <1>8 DEF Complete, Acked, Batch
  <2>2. Received
    BY <1>1, <1>3, <2>1, Meaning
  <2>3. sAt' = "done"
    BY <1>8 DEF Complete
  <2>4. QED
    BY <1>2, <2>2, <2>3, SameRun
<1>9. CASE ChunkAcked
  <2>1. PICK p \in ToSet(toSender) : p.type = "Ack" /\ p.chunk = ci
    BY <1>9 DEF ChunkAcked, Acked, Batch
  <2>2. OnDisk(ci)
    BY <1>1, <1>3, <2>1, Meaning, Uint32MaxAssumption
  <2>3. \A c \in 0 .. ci - 1 : OnDisk(c)
    BY <1>9 DEF ChunkAcked, SenderInv, PassedIsOnDisk, OnDisk
  <2>4. ci + 1 \in Nat /\ \A c \in 0 .. (ci + 1) - 1 : OnDisk(c)
    <3>1. \A c \in 0 .. (ci + 1) - 1 : c = ci \/ c \in 0 .. ci - 1
      BY <1>1
    <3>2. QED
      BY <1>1, <2>2, <2>3, <3>1
  <2>5. BeginChunk(ci + 1)
    BY <1>9 DEF ChunkAcked
  <2>6. QED
    BY <1>2, <2>4, <2>5, ChunkBegun
<1>10. CASE Retransmit
  <2>1. UNCHANGED ci /\ (UNCHANGED sAt \/ sAt' = "failed")
    BY <1>10 DEF Retransmit
  <2>2. CASE UNCHANGED sAt
    BY <1>2, <2>1, <2>2, SamePlace
  <2>3. CASE sAt' = "failed"
    BY <1>2, <2>3, SameRun
  <2>4. QED
    BY <2>1, <2>2, <2>3
<1>11. CASE ChunkTimeout \/ FinalTimeout \/ IgnoreReplies \/ SendNext
  <2>1. UNCHANGED <<sAt, ci>>
    BY <1>11 DEF ChunkTimeout, FinalTimeout, IgnoreReplies, SendNext, script
  <2>2. QED
    BY <1>2, <2>1, SamePlace
<1>12. QED
  BY <1>5, <1>6, <1>7, <1>8, <1>9, <1>10, <1>11 DEF SenderStep

LEMMA NextKeepsSender ==
  ASSUME OneJobEach, NoMisreads, R!IndInv, R!Kept, SenderInv, R!DiskGrows, [Next]_vars
  PROVE  SenderInv'
<1>1. R!ShapeInv /\ SenderShape
  BY DEF R!IndInv, SenderInv
<1>2. SenderShape'
  BY <1>1, NextKeepsSenderShape
<1>3. CASE Sender
  BY <1>3, StepsKeep DEF Sender
<1>4. CASE \/ Receiver \/ ReceiverLeaves \/ ReceiverStarts \/ Reboot \/ LoseReply
           \/ UNCHANGED vars
  <2>1. UNCHANGED <<sAt, ci, run, scenario>>
    BY <1>4 DEF Receiver, ReceiverLeaves, ReceiverStarts, Reboot, LoseReply, Fault, senderVars,
                script, vars
  <2>2. QED
    BY <1>2, <2>1, SamePlace
<1>5. CASE Interrupted \/ NextRun \/ ScriptRunsAgain \/ ScriptStopped
  <2>1. PICK job \in 1 .. Len(Jobs) : Launch(job)
    BY <1>1, <1>5, Launches
  <2>2. QED
    BY <1>2, <2>1, OtherRun
<1>6. QED
  BY <1>3, <1>4, <1>5 DEF Next

WholeInv == R!IndInv /\ R!Kept /\ SenderInv

LEMMA InitWhole ==
  ASSUME Init
  PROVE  WholeInv
<1>1. R!Init /\ SenderShape /\ sAt = "start"
  BY InitShapes DEF Init, SenderInit
<1>2. R!IndInv /\ R!Kept
  BY <1>1, R!InitHolds, R!InitKept, ReceiverAssumptions
<1>3. SenderInv
  BY <1>1 DEF SenderInv, PassedIsOnDisk, SuccessMeansReceived
<1>4. QED
  BY <1>2, <1>3 DEF WholeInv

LEMMA NextWhole ==
  ASSUME OneJobEach, NoMisreads, WholeInv, [Next]_vars
  PROVE  R!DiskGrows /\ WholeInv'
<1>1. R!HonestSenders /\ R!NoRivals
  BY VocabularyIsHonest DEF R!NoRivals
<1>2. R!IndInv /\ R!Kept /\ SenderInv /\ R!ShapeInv /\ SenderShape /\ R!TypeOK
  BY DEF WholeInv, R!IndInv, R!ShapeInv, SenderInv
<1>3. [R!Next]_(R!vars) /\ R!ShapeInv'
  BY <1>2, NextShapes
<1>4. R!IndInv'
  <2>1. R!HonestWire
    BY <1>1, <1>2, R!HonestWireFact, ReceiverAssumptions
  <2>2. R!ContentInv'
    BY <1>2, <1>3, <2>1, R!NextKeepsContent, ReceiverAssumptions
  <2>3. QED
    BY <1>3, <2>2 DEF R!IndInv
<1>5. R!DiskGrows
  BY <1>1, <1>2, <1>3, R!NextGrows, ReceiverAssumptions
<1>6. R!Kept'
  BY <1>1, <1>2, <1>3, R!NextKeepsKept, ReceiverAssumptions
<1>7. SenderInv'
  BY <1>2, <1>5, NextKeepsSender
<1>8. QED
  BY <1>4, <1>5, <1>6, <1>7 DEF WholeInv

LEMMA AlwaysWhole == ASSUME OneJobEach, NoMisreads PROVE Spec => []WholeInv
<1>1. Init => WholeInv
  BY InitWhole
<1>2. WholeInv /\ [Next]_vars => WholeInv'
  BY NextWhole
<1>3. QED
  BY <1>1, <1>2, PTL DEF Spec

-----------------------------------------------------------------------------
(* The theorems about contents.                                            *)

(* So the receiver keeps, in the whole program, the promises proved for    *)
(* the open line: NAKs ask for what is missing, state.bin is the transfer  *)
(* in memory and loses nothing, whatever is misread; chunks called done    *)
(* are on disk, ACKs are durable and the final one is for a verified file  *)
(* (CfdpReceiver.h:11-17).                                                 *)
THEOREM PromisesKept ==
  /\ Spec => R!NakOnlyMissing
  /\ ~IoErrors => (Spec => []R!JournalMirrorsMemory)
  /\ ~IoErrors /\ ~PowerCuts => (Spec => R!ProgressSurvives)
  /\ OneJobEach /\ NoMisreads =>
       /\ Spec => []R!DoneIsOnDisk
       /\ Spec => R!FinalAckOnlyVerified
       /\ ~IoErrors => (Spec => R!AckOnlyDurable)
<1>1. Spec => R!NakOnlyMissing
  <2>1. R!Spec => R!NakOnlyMissing
    BY R!NaksCorrect, ReceiverAssumptions
  <2>2. QED
    BY <2>1, WholeIsR
<1>2. ~IoErrors => (Spec => []R!JournalMirrorsMemory)
  <2>1. ~IoErrors => (R!Spec => []R!JournalMirrorsMemory)
    BY R!JournalCorrect, ReceiverAssumptions
  <2>2. QED
    BY <2>1, WholeIsR
<1>3. ~IoErrors /\ ~PowerCuts => (Spec => R!ProgressSurvives)
  <2>1. ~IoErrors /\ ~PowerCuts => (R!Spec => R!ProgressSurvives)
    BY R!ProgressCorrect, ReceiverAssumptions
  <2>2. QED
    BY <2>1, WholeIsR
<1>4. OneJobEach /\ NoMisreads =>
        /\ Spec => []R!DoneIsOnDisk
        /\ Spec => R!FinalAckOnlyVerified
        /\ ~IoErrors => (Spec => R!AckOnlyDurable)
  <2>1. OneJobEach /\ NoMisreads => R!HonestSenders /\ R!NoRivals
    BY VocabularyIsHonest DEF R!NoRivals
  <2>2. R!HonestSenders => (R!Spec => []R!DoneIsOnDisk)
    BY R!DoneCorrect, ReceiverAssumptions
  <2>3. R!HonestSenders /\ R!NoRivals => (R!Spec => R!FinalAckOnlyVerified)
    BY R!FinalAcksCorrect, ReceiverAssumptions
  <2>4. R!HonestSenders /\ ~IoErrors => (R!Spec => R!AckOnlyDurable)
    BY R!AcksCorrect, ReceiverAssumptions
  <2>5. QED
    BY <2>1, <2>2, <2>3, <2>4, WholeIsR
<1>5. QED
  BY <1>1, <1>2, <1>3, <1>4

(* The script passes over no chunk whose bytes are not on disk, on an ACK  *)
(* or on a ResumeInfo, an old or a repeated one (sender.py:135-176,        *)
(* CfdpReceiver.cpp:444-466).                                              *)
THEOREM NothingSkipped == ASSUME OneJobEach, NoMisreads PROVE Spec => []PassedIsOnDisk
<1>1. WholeInv => PassedIsOnDisk
  BY DEF WholeInv, SenderInv
<1>2. QED
  BY <1>1, AlwaysWhole, PTL

(* A success the script reports is a file that is there                    *)
(* (sender.py:159, cfdp_send.sh:111-122).                                  *)
THEOREM SuccessCorrect == ASSUME OneJobEach, NoMisreads PROVE Spec => []SuccessMeansReceived
<1>1. WholeInv => SuccessMeansReceived
  BY DEF WholeInv, SenderInv
<1>2. QED
  BY <1>1, AlwaysWhole, PTL

(* So the file verified is still there when the success is reported: what  *)
(* confuses the two is one id for several files by hand, or a misread      *)
(* header (CfdpReceiver.cpp:386-396, sender.py:159).                       *)
THEOREM SuccessStands == ASSUME OneJobEach, NoMisreads PROVE Spec => []SuccessMeansVerified
<1>1. ASSUME WholeInv
      PROVE  SuccessMeansVerified
  <2>1. KnownJob /\ SuccessMeansReceived
    BY <1>1 DEF WholeInv, SenderInv, SenderShape
  <2>2. run \in 1 .. run /\ Jobs[run].name \in Names
    BY <2>1, CurrentJob DEF KnownJob
  <2>3. QED
    BY <2>1, <2>2 DEF SuccessMeansReceived, SuccessMeansVerified, Received, File
<1>2. WholeInv => SuccessMeansVerified
  BY <1>1
<1>3. QED
  BY <1>2, AlwaysWhole, PTL

(* An empty file is there before it is sent.                               *)
NoEmptyFile == \A x \in Files : FileLen[x] # 0

(* A step within a run changes the disk or reports, never both; the others *)
(* start a run.                                                            *)
LEMMA RunOrStep ==
  ASSUME WholeInv, [Next]_vars
  PROVE  \/ /\ UNCHANGED <<run, scenario>>
            /\ sAt' = "done" /\ sAt # "done" => disk' = disk
         \/ run' \in Nat /\ run' > run /\ sAt' = "start"
<1>1. run \in Nat
  BY DEF WholeInv, SenderInv, SenderShape, KnownJob
<1>2. CASE \/ Receiver \/ ReceiverLeaves \/ Reboot \/ ReceiverStarts \/ LoseReply
           \/ UNCHANGED vars
  BY <1>2 DEF Receiver, ReceiverLeaves, Reboot, ReceiverStarts, LoseReply, Fault, senderVars,
              script, vars
<1>3. CASE Sender
  <2>1. disk' = disk
    BY <1>3 DEF Sender, receiver, stable
  <2>2. UNCHANGED <<run, scenario>>
    BY <1>3 DEF Sender, SenderStep, SendNext, StartTransfer, InfoTimeout, ReadInfo,
                ChunkTimeout, Complete, ChunkAcked, Retransmit, IgnoreReplies, FinalTimeout,
                Fault, script
  <2>3. QED
    BY <2>1, <2>2
<1>4. CASE Interrupted \/ NextRun \/ ScriptRunsAgain \/ ScriptStopped
  <2>1. PICK job \in 1 .. Len(Jobs) : Launch(job) /\ job >= run /\ UNCHANGED scenario
    BY <1>4, Launches DEF WholeInv, SenderInv
  <2>2. run' = job /\ sAt' = "start"
    BY <2>1 DEF Launch
  <2>3. CASE job = run
    BY <2>1, <2>2, <2>3
  <2>4. CASE job # run
    BY <1>1, <2>1, <2>2, <2>4
  <2>5. QED
    BY <2>3, <2>4
<1>5. QED
  BY <1>2, <1>3, <1>4 DEF Next

(* The whole implements FileTransfer: nothing that has been received is    *)
(* undone by late PDUs, repeated runs, reboots or torn writes, and nothing *)
(* else is reported (README.md:108-118, cfdp_send.sh:111-122).             *)
THEOREM ImplementsFileTransfer ==
  ASSUME OneJobEach, NoMisreads, NoEmptyFile PROVE Spec => DeliversFiles
<1>1. ASSUME Init
      PROVE  Transfer!Init
  <2>1. run = 1 /\ sAt = "start" /\ disk = [n \in Names |-> NoFile]
    BY <1>1 DEF Init, ReceiverInit, SenderInit
  <2>2. KnownJob
    BY <1>1, InitWhole DEF WholeInv, SenderInv, SenderShape
  <2>3. Jobs[run].name \in Names /\ FileLen[File] # 0
    BY <2>2, CurrentJob DEF NoEmptyFile
  <2>4. ~Received
    BY <2>1, <2>3 DEF Received, Matches, NoFile
  <2>5. QED
    BY <2>1, <2>4 DEF Transfer!Init
<1>2. ASSUME WholeInv, [Next]_vars
      PROVE  [Transfer!Next]_(Transfer!vars)
  <2>1. /\ KnownJob /\ R!DiskGrows
        /\ sAt = "done" => Received
        /\ sAt' = "done" => Received'
    BY <1>2, NextWhole DEF WholeInv, SenderInv, SenderShape, SuccessMeansReceived
  <2>2. Received \in BOOLEAN /\ Received' \in BOOLEAN
    BY DEF Received, Matches
  <2>3. CASE /\ UNCHANGED <<run, scenario>>
             /\ sAt' = "done" /\ sAt # "done" => disk' = disk
    <3>1. Received => Received'
      BY <2>1, <2>3, StillOnDisk
    <3>2. disk' = disk => (Received' = Received)
      BY <2>3 DEF Received, File, Jobs
    <3>3. CASE (sAt' = "done") = (sAt = "done")
      <4>1. CASE Received' = Received
        BY <2>3, <3>3, <4>1 DEF Transfer!vars
      <4>2. CASE ~(Received' = Received)
        <5>1. ~Received /\ Received'
          BY <2>2, <3>1, <4>2
        <5>2. Transfer!Deliver
          BY <2>3, <3>3, <5>1 DEF Transfer!Deliver
        <5>3. QED
          BY <5>2 DEF Transfer!Next
      <4>3. QED
        BY <4>1, <4>2
    <3>4. CASE sAt' = "done" /\ sAt # "done"
      <4>1. Transfer!Report
        BY <2>1, <2>3, <3>2, <3>4 DEF Transfer!Report
      <4>2. QED
        BY <4>1 DEF Transfer!Next
    <3>5. CASE sAt' # "done" /\ sAt = "done"
      <4>1. Received' = Received
        BY <2>1, <2>2, <3>1, <3>5
      <4>2. Transfer!RunAgain
        BY <2>3, <3>5, <4>1 DEF Transfer!RunAgain
      <4>3. QED
        BY <4>2 DEF Transfer!Next
    <3>6. QED
      BY <3>3, <3>4, <3>5
  <2>4. CASE run' \in Nat /\ run' > run /\ sAt' = "start"
    <3>1. Transfer!NextJob
      BY <2>2, <2>4 DEF Transfer!NextJob
    <3>2. QED
      BY <3>1 DEF Transfer!Next
  <2>5. QED
    BY <1>2, <2>3, <2>4, RunOrStep
<1>3. WholeInv /\ [Next]_vars => [Transfer!Next]_(Transfer!vars)
  BY <1>2
<1>4. QED
  BY <1>1, <1>3, AlwaysWhole, PTL DEF Spec, DeliversFiles, Transfer!Spec

-----------------------------------------------------------------------------
(* How many replies what is on its way can still cause.  A packet that     *)
(* continues the chunk of the one before it, or of one the receiver has    *)
(* just served, causes none of its own; anything else is a mark.           *)

Continues(q, S, i) ==
  /\ q[i].type = "Data" /\ q[i].pkt # 0
  /\ IF i = 1 THEN q[1].chunk \in S
     ELSE q[i - 1].type = "Data" /\ q[i - 1].chunk = q[i].chunk

Marks(q, S) == {i \in DOMAIN q : ~Continues(q, S, i)}
Cost(q, S) == Cardinality(Marks(q, S))

LEMMA OneMore ==
  ASSUME NEW A, IsFiniteSet(A), NEW i
  PROVE  /\ IsFiniteSet(A \cup {i}) /\ Cardinality(A \cup {i}) \in Nat
         /\ Cardinality(A \cup {i}) <= Cardinality(A) + 1
<1>1. /\ IsFiniteSet(A \cup {i})
      /\ Cardinality(A \cup {i}) = IF i \in A THEN Cardinality(A) ELSE Cardinality(A) + 1
  BY FS_AddElement
<1>2. Cardinality(A) \in Nat /\ Cardinality(A \cup {i}) \in Nat
  BY <1>1, FS_CardinalityType
<1>3. QED
  BY <1>1, <1>2

LEMMA MarksFinite ==
  ASSUME NEW q \in Seq(SenderPdu), NEW S
  PROVE  /\ Marks(q, S) \subseteq 1 .. Len(q) /\ IsFiniteSet(Marks(q, S))
         /\ Cost(q, S) \in Nat /\ Cost(q, S) <= Len(q)
<1>1. /\ Len(q) \in Nat /\ DOMAIN q = 1 .. Len(q)
      /\ Marks(q, S) \subseteq 1 .. Len(q)
  BY DEF Marks
<1>2. IsFiniteSet(1 .. Len(q)) /\ Cardinality(1 .. Len(q)) = Len(q)
  <2>1. /\ IsFiniteSet(1 .. Len(q))
        /\ Cardinality(1 .. Len(q)) = IF 1 > Len(q) THEN 0 ELSE Len(q) - 1 + 1
    BY <1>1, FS_Interval
  <2>2. QED
    BY <1>1, <2>1
<1>3. IsFiniteSet(Marks(q, S)) /\ Cardinality(Marks(q, S)) <= Cardinality(1 .. Len(q))
  BY <1>1, <1>2, FS_Subset
<1>4. QED
  BY <1>1, <1>2, <1>3, FS_CardinalityType DEF Cost

LEMMA FewerMarks ==
  ASSUME NEW q \in Seq(SenderPdu), NEW S, NEW A, A \subseteq Marks(q, S)
  PROVE  /\ IsFiniteSet(A) /\ Cardinality(A) \in Nat /\ Cardinality(A) <= Cost(q, S)
         /\ \A i \in Marks(q, S) \ A : Cardinality(A) + 1 <= Cost(q, S)
<1>1. IsFiniteSet(Marks(q, S)) /\ Cost(q, S) \in Nat
  BY MarksFinite
<1>2. IsFiniteSet(A) /\ Cardinality(A) \in Nat /\ Cardinality(A) <= Cost(q, S)
  BY <1>1, FS_Subset, FS_CardinalityType DEF Cost
<1>3. ASSUME NEW i \in Marks(q, S) \ A
      PROVE  Cardinality(A) + 1 <= Cost(q, S)
  <2>1. IsFiniteSet(A \cup {i}) /\ Cardinality(A \cup {i}) = Cardinality(A) + 1
    BY <1>2, FS_AddElement
  <2>2. A \cup {i} \subseteq Marks(q, S)
    OBVIOUS
  <2>3. QED
    BY <1>1, <2>1, <2>2, FS_Subset DEF Cost
<1>4. QED
  BY <1>2, <1>3

(* Other replies served: only the first PDU may be seen otherwise.         *)
LEMMA ServedOtherwise ==
  ASSUME NEW q \in Seq(SenderPdu), NEW S, NEW T
  PROVE  /\ Cost(q, T) <= Cost(q, S) + 1
         /\ S \subseteq T => Cost(q, T) <= Cost(q, S)
<1>1. /\ IsFiniteSet(Marks(q, S)) /\ Cost(q, S) \in Nat /\ Cost(q, T) \in Nat
      /\ IsFiniteSet(Marks(q, T))
  BY MarksFinite
<1>2. Marks(q, T) \subseteq Marks(q, S) \cup {1}
  BY DEF Marks, Continues
<1>3. IsFiniteSet(Marks(q, S) \cup {1}) /\ Cardinality(Marks(q, S) \cup {1}) <= Cost(q, S) + 1
  BY <1>1, OneMore DEF Cost
<1>4. Cost(q, T) <= Cardinality(Marks(q, S) \cup {1})
  BY <1>2, <1>3, FS_Subset DEF Cost
<1>5. Cardinality(Marks(q, S) \cup {1}) \in Nat
  BY <1>1, OneMore
<1>6. ASSUME S \subseteq T
      PROVE  Cost(q, T) <= Cost(q, S)
  <2>1. Marks(q, T) \subseteq Marks(q, S)
    BY <1>6 DEF Marks, Continues
  <2>2. QED
    BY <2>1, FewerMarks DEF Cost
<1>7. QED
  BY <1>1, <1>3, <1>4, <1>5, <1>6

(* The first PDU is read.                                                  *)
LEMMA HeadRead ==
  ASSUME NEW q \in Seq(SenderPdu), q # <<>>, NEW S, NEW T,
         Head(q).type # "Data" \/ Head(q).chunk \in T
  PROVE  /\ Cost(Tail(q), T) <= Cost(q, S)
         /\ ~Continues(q, S, 1) => Cost(Tail(q), T) + 1 <= Cost(q, S)
<1> DEFINE r == Tail(q)
<1>1. /\ r \in Seq(SenderPdu) /\ Len(q) \in Nat \ {0} /\ Len(r) = Len(q) - 1
      /\ \A i \in 1 .. Len(q) - 1 : r[i] = q[i + 1]
      /\ q[1] = Head(q)
      /\ DOMAIN q = 1 .. Len(q) /\ DOMAIN r = 1 .. Len(q) - 1
  OBVIOUS
<1> HIDE DEF r
<1>2. ASSUME NEW i \in Marks(r, T)
      PROVE  i + 1 \in Marks(q, S) \ {1}
  <2>1. /\ i \in 1 .. Len(q) - 1 /\ i + 1 \in DOMAIN q /\ i + 1 # 1 /\ (i + 1) - 1 = i
        /\ ~Continues(r, T, i) /\ r[i] = q[i + 1]
    BY <1>1 DEF Marks
  <2>2. ~Continues(q, S, i + 1)
    <3>1. CASE i = 1
      BY <1>1, <2>1, <3>1 DEF Continues
    <3>2. CASE i # 1
      <4>1. i - 1 \in 1 .. Len(q) - 1 /\ (i - 1) + 1 = i
        BY <1>1, <2>1, <3>2
      <4>2. r[i - 1] = q[i]
        BY <1>1, <4>1
      <4>3. QED
        BY <2>1, <3>2, <4>2 DEF Continues
    <3>3. QED
      BY <3>1, <3>2
  <2>3. QED
    BY <2>1, <2>2 DEF Marks
<1> DEFINE f == [i \in Marks(r, T) |-> i + 1]
           rest == Marks(q, S) \ {1}
<1>3. f \in Injection(Marks(r, T), rest)
  <2>1. f \in [Marks(r, T) -> rest]
    BY <1>2
  <2>2. \A a, b \in Marks(r, T) : f[a] = f[b] => a = b
    BY <1>1 DEF Marks
  <2>3. QED
    BY <2>1, <2>2 DEF Injection, IsInjective
<1>4. IsFiniteSet(rest) /\ Cardinality(rest) \in Nat /\ Cardinality(rest) <= Cost(q, S)
      /\ (1 \in Marks(q, S) => Cardinality(rest) + 1 <= Cost(q, S))
  <2>1. rest \subseteq Marks(q, S) /\ 1 \notin rest
    OBVIOUS
  <2>2. QED
    BY <2>1, FewerMarks
<1>5. Cost(r, T) <= Cardinality(rest)
  BY <1>3, <1>4, FS_Injection DEF Cost
<1>6. Cost(r, T) \in Nat /\ Cost(q, S) \in Nat
  BY <1>1, MarksFinite
<1>7. ~Continues(q, S, 1) => 1 \in Marks(q, S)
  BY <1>1 DEF Marks
<1>8. QED
  BY <1>4, <1>5, <1>6, <1>7 DEF r

(* One PDU is not there any more.                                          *)
LEMMA OneLess ==
  ASSUME NEW q \in Seq(SenderPdu), NEW r \in Seq(SenderPdu), NEW k \in 1 .. Len(q), NEW S,
         Len(r) = Len(q) - 1,
         \A i \in 1 .. Len(r) : r[i] = IF i < k THEN q[i] ELSE q[i + 1]
  PROVE  Cost(r, S) <= Cost(q, S)
<1>1. /\ Len(q) \in Nat /\ k \in Nat /\ k >= 1 /\ k <= Len(q)
      /\ DOMAIN q = 1 .. Len(q) /\ DOMAIN r = 1 .. Len(q) - 1
  OBVIOUS
<1> DEFINE f == [i \in Marks(r, S) |->
                   IF i < k THEN i ELSE IF i = k /\ Continues(q, S, k + 1) THEN k ELSE i + 1]
<1>2. ASSUME NEW i \in Marks(r, S)
      PROVE  f[i] \in Marks(q, S)
  <2>1. i \in 1 .. Len(q) - 1 /\ ~Continues(r, S, i)
    BY <1>1 DEF Marks
  <2>2. CASE i < k
    <3>1. r[i] = q[i] /\ (i # 1 => r[i - 1] = q[i - 1])
      BY <1>1, <2>1, <2>2
    <3>2. ~Continues(q, S, i)
      BY <2>1, <3>1 DEF Continues
    <3>3. QED
      BY <1>1, <2>1, <2>2, <3>2 DEF Marks
  <2>3. CASE i > k
    <3>1. r[i] = q[i + 1] /\ i - 1 \in 1 .. Len(r) /\ ~(i - 1 < k) /\ (i - 1) + 1 = i
      BY <1>1, <2>1, <2>3
    <3>2. r[i - 1] = q[i] /\ i # 1 /\ i + 1 # 1 /\ (i + 1) - 1 = i
      BY <1>1, <2>1, <2>3, <3>1
    <3>3. ~Continues(q, S, i + 1)
      BY <2>1, <3>1, <3>2 DEF Continues
    <3>4. QED
      BY <1>1, <2>1, <2>3, <3>3 DEF Marks
  <2>4. CASE i = k /\ ~Continues(q, S, k + 1)
    BY <1>1, <2>1, <2>4 DEF Marks
  <2>5. CASE i = k /\ Continues(q, S, k + 1)
    <3>1. r[k] = q[k + 1] /\ (k # 1 => r[k - 1] = q[k - 1])
      BY <1>1, <2>1, <2>5
    <3>2. /\ q[k].type = "Data" /\ q[k].chunk = q[k + 1].chunk
          /\ q[k + 1].type = "Data" /\ q[k + 1].pkt # 0
      <4>1. k + 1 # 1 /\ (k + 1) - 1 = k
        BY <1>1
      <4>2. QED
        BY <2>5, <4>1 DEF Continues
    <3>3. ~Continues(q, S, k)
      BY <2>1, <2>5, <3>1, <3>2 DEF Continues
    <3>4. QED
      BY <1>1, <2>5, <3>3 DEF Marks
  <2>6. i \in Nat /\ k \in Nat
    BY <1>1, <2>1
  <2>7. QED
    BY <2>2, <2>3, <2>4, <2>5, <2>6
<1>3. \A a, b \in Marks(r, S) : f[a] = f[b] => a = b
  BY <1>1 DEF Marks
<1>4. f \in Injection(Marks(r, S), Marks(q, S))
  <2>1. f \in [Marks(r, S) -> Marks(q, S)]
    BY <1>2
  <2> HIDE DEF f
  <2>2. QED
    BY <1>3, <2>1 DEF Injection, IsInjective
<1>5. QED
  BY <1>4, MarksFinite, FS_Injection DEF Cost

(* A PDU in place of another: at most it and the next are marks now.       *)
LEMMA OneAltered ==
  ASSUME NEW q \in Seq(SenderPdu), NEW r \in Seq(SenderPdu), NEW k \in 1 .. Len(q), NEW S,
         Len(r) = Len(q), \A i \in 1 .. Len(q) : i # k => r[i] = q[i]
  PROVE  Cost(r, S) <= Cost(q, S) + 2
<1>1. /\ Len(q) \in Nat /\ k \in Nat /\ k >= 1
      /\ DOMAIN q = 1 .. Len(q) /\ DOMAIN r = 1 .. Len(q)
  OBVIOUS
<1>2. ASSUME NEW i \in Marks(r, S), i # k, i # k + 1
      PROVE  i \in Marks(q, S)
  <2>1. /\ i \in 1 .. Len(q) /\ ~Continues(r, S, i)
        /\ r[i] = q[i] /\ (i # 1 => r[i - 1] = q[i - 1])
    BY <1>1, <1>2 DEF Marks
  <2>2. QED
    BY <1>1, <2>1 DEF Marks, Continues
<1> DEFINE A == Marks(q, S) \cup {k}
           B == A \cup {k + 1}
<1>3. IsFiniteSet(Marks(q, S)) /\ Cost(q, S) \in Nat /\ Cost(r, S) \in Nat
  BY MarksFinite
<1>4. IsFiniteSet(A) /\ Cardinality(A) \in Nat /\ Cardinality(A) <= Cost(q, S) + 1
  BY <1>3, OneMore DEF Cost
<1>5. Marks(r, S) \subseteq B
  BY <1>2
<1> HIDE DEF A
<1>6. IsFiniteSet(B) /\ Cardinality(B) \in Nat /\ Cardinality(B) <= Cardinality(A) + 1
  BY <1>4, OneMore
<1> HIDE DEF B
<1>7. Cost(r, S) <= Cardinality(B)
  BY <1>5, <1>6, FS_Subset DEF Cost
<1>8. QED
  BY <1>3, <1>4, <1>6, <1>7

Alike(p, d) ==
  p.type = d.type /\ (d.type = "Data" => p.chunk = d.chunk /\ p.pkt = d.pkt)

LEMMA SameMarks ==
  ASSUME NEW q \in Seq(SenderPdu), NEW r \in Seq(SenderPdu), NEW S,
         Len(r) = Len(q), \A i \in 1 .. Len(q) : Alike(r[i], q[i])
  PROVE  Cost(r, S) = Cost(q, S)
<1>1. /\ Len(q) \in Nat /\ DOMAIN q = 1 .. Len(q) /\ DOMAIN r = 1 .. Len(q)
  OBVIOUS
<1>2. ASSUME NEW i \in 1 .. Len(q)
      PROVE  Continues(r, S, i) <=> Continues(q, S, i)
  <2>1. Alike(r[i], q[i]) /\ (i # 1 => Alike(r[i - 1], q[i - 1]))
    BY <1>1
  <2>2. QED
    BY <2>1 DEF Continues, Alike
<1>3. Marks(r, S) = Marks(q, S)
  BY <1>1, <1>2 DEF Marks
<1>4. QED
  BY <1>3 DEF Cost

(* Nothing that follows a PDU changes what it is.                          *)
LEMMA Unwritten ==
  ASSUME NEW q \in Seq(SenderPdu), NEW b \in Seq(SenderPdu), NEW S
  PROVE  /\ \A i \in 1 .. Len(q) : Continues(q \o b, S, i) <=> Continues(q, S, i)
         /\ Cost(q, S) <= Cost(q \o b, S)
<1> DEFINE n == Len(q)
           r == q \o b
<1>1. /\ n \in Nat /\ Len(b) \in Nat /\ r \in Seq(SenderPdu) /\ Len(r) = n + Len(b)
      /\ DOMAIN q = 1 .. n /\ DOMAIN r = 1 .. n + Len(b)
      /\ \A i \in 1 .. n : r[i] = q[i]
  OBVIOUS
<1> HIDE DEF r, n
<1>2. ASSUME NEW i \in 1 .. n
      PROVE  Continues(r, S, i) <=> Continues(q, S, i)
  <2>1. r[i] = q[i] /\ (i # 1 => r[i - 1] = q[i - 1])
    BY <1>1
  <2>2. QED
    BY <2>1 DEF Continues
<1>3. Marks(q, S) \subseteq Marks(r, S)
  BY <1>1, <1>2 DEF Marks
<1>4. Cost(q, S) <= Cost(r, S)
  BY <1>1, <1>3, FewerMarks DEF Cost
<1>5. QED
  BY <1>2, <1>4 DEF r, n

(* What the script queues in one step: at most its first PDU and its last  *)
(* are marks.                                                              *)
OneRun(b) == \A i \in 2 .. Len(b) - 1 : Continues(b, {}, i)

LEMMA Queued ==
  ASSUME NEW q \in Seq(SenderPdu), NEW b \in Seq(SenderPdu), NEW S, OneRun(b)
  PROVE  /\ Cost(q \o b, S) <= Cost(q, S) + 2
         /\ Len(b) = 1 => Cost(q \o b, S) <= Cost(q, S) + 1
<1> DEFINE n == Len(q)
           m == Len(b)
           r == q \o b
<1>1. /\ n \in Nat /\ m \in Nat /\ r \in Seq(SenderPdu) /\ Len(r) = n + m
      /\ DOMAIN q = 1 .. n /\ DOMAIN r = 1 .. n + m
  OBVIOUS
<1>2. \A i \in 1 .. n + m : r[i] = IF i <= n THEN q[i] ELSE b[i - n]
  BY R!ConcatAt
<1> HIDE DEF r, n, m
<1>3. ASSUME NEW i \in 1 .. n
      PROVE  Continues(r, S, i) <=> Continues(q, S, i)
  BY Unwritten DEF r, n
<1>4. ASSUME NEW i \in (n + 2) .. (n + m - 1)
      PROVE  Continues(r, S, i)
  <2>1. /\ i - n \in 2 .. m - 1 /\ i - n # 1 /\ i # 1 /\ (i - n) - 1 = (i - 1) - n
        /\ i \in 1 .. n + m /\ i - 1 \in 1 .. n + m /\ ~(i <= n) /\ ~(i - 1 <= n)
    BY <1>1
  <2>2. r[i] = b[i - n] /\ r[i - 1] = b[(i - n) - 1]
    BY <1>2, <2>1
  <2>3. Continues(b, {}, i - n)
    BY <2>1 DEF OneRun, m
  <2>4. QED
    BY <2>1, <2>2, <2>3 DEF Continues
<1> DEFINE A == Marks(q, S) \cup {n + 1}
           B == A \cup {n + m}
<1>5. IsFiniteSet(Marks(q, S)) /\ Cost(q, S) \in Nat /\ Cost(r, S) \in Nat
  BY <1>1, MarksFinite
<1>6. IsFiniteSet(A) /\ Cardinality(A) \in Nat /\ Cardinality(A) <= Cost(q, S) + 1
  BY <1>5, OneMore DEF Cost
<1>7. ASSUME NEW i \in Marks(r, S)
      PROVE  i \in B /\ (m = 1 => i \in A)
  <2>1. i \in 1 .. n + m /\ ~Continues(r, S, i)
    BY <1>1 DEF Marks
  <2>2. CASE i <= n
    BY <1>1, <1>3, <2>1, <2>2 DEF Marks
  <2>3. CASE ~(i <= n)
    BY <1>1, <1>4, <2>1, <2>3
  <2>4. QED
    BY <2>2, <2>3
<1> HIDE DEF A
<1>8. IsFiniteSet(B) /\ Cardinality(B) \in Nat /\ Cardinality(B) <= Cardinality(A) + 1
  BY <1>6, OneMore
<1> HIDE DEF B
<1>9. Cost(r, S) <= Cardinality(B)
  BY <1>7, <1>8, FS_Subset DEF Cost
<1>10. m = 1 => Cost(r, S) <= Cardinality(A)
  BY <1>6, <1>7, FS_Subset DEF Cost
<1>11. QED
  BY <1>5, <1>6, <1>8, <1>9, <1>10 DEF r, m

LEMMA ShortRuns ==
  ASSUME NEW b \in Seq(SenderPdu), Len(b) <= 2
  PROVE  OneRun(b)
BY DEF OneRun

LEMMA ChunkIsOneRun ==
  ASSUME KnownJob, NEW c \in Nat, c < ChunksOfFile
  PROVE  OneRun(ChunkPdus(c))
<1> DEFINE n == PacketsIn(FileLen[File], c)
           b == ChunkPdus(c)
           q == [i \in 1 .. n |-> Packet(c, i - 1)]
<1>1. FileLen[File] \in Nat /\ TotalChunks(FileLen[File]) \in Int
  BY CurrentJob, ChunkSizeAssumption DEF TotalChunks
<1>2. n \in Nat
  BY <1>1, ChunkNotEmpty DEF Chunks, ChunksOfFile
<1> HIDE DEF n
<1>3. b = q \o <<Eof(Tid)>>
  BY DEF ChunkPdus, n
<1> DEFINE W == {Packet(c, i - 1) : i \in 1 .. n}
<1>4. q \in Seq(W) /\ Len(q) = n
  <2>1. \A i \in 1 .. n : Packet(c, i - 1) \in W
    OBVIOUS
  <2> HIDE DEF W
  <2>2. QED
    BY <1>2, <2>1
<1>5. Len(b) = n + 1 /\ \A i \in 1 .. n : b[i] = Packet(c, i - 1)
  BY <1>2, <1>3, <1>4
<1> HIDE DEF b, q
<1>6. ASSUME NEW i \in 2 .. n
      PROVE  Continues(b, {}, i)
  <2>1. b[i] = Packet(c, i - 1) /\ b[i - 1] = Packet(c, i - 2) /\ i - 1 # 0 /\ i # 1
    BY <1>2, <1>5
  <2>2. QED
    BY <2>1 DEF Continues, Packet, Data
<1>7. QED
  BY <1>2, <1>5, <1>6 DEF OneRun, b

(* The places of a chunk.                                                  *)
LEMMA PlaceInChunk ==
  ASSUME NEW c \in Nat, NEW p \in Nat, p < ChunkSize
  PROVE  /\ ChunkOffset(c) \in Nat
         /\ (ChunkOffset(c) + p) \div ChunkSize = c
         /\ (ChunkOffset(c) + p) % ChunkSize = p
<1> DEFINE k == ChunkOffset(c) + p
           d == k \div ChunkSize
           e == k % ChunkSize
<1>1. ChunkSize \in Nat \ {0} /\ ChunkOffset(c) = ChunkSize * c /\ ChunkOffset(c) \in Nat
  BY ChunkSizeAssumption DEF ChunkOffset
<1>2. k \in Nat
  BY <1>1
<1>3. d \in Nat /\ e \in 0 .. ChunkSize - 1 /\ k = ChunkSize * d + e
  <2> HIDE DEF k
  <2>1. QED
    BY <1>1, <1>2, R!DivMod, ReceiverAssumptions
<1> HIDE DEF d, e
<1>4. ChunkSize * c + p = ChunkSize * d + e
  BY <1>1, <1>3
<1>5. ASSUME NEW a \in Nat, NEW f \in Nat, a < f
      PROVE  ChunkSize * f >= ChunkSize * a + ChunkSize
  <2>1. f - a - 1 \in Nat
    BY <1>5
  <2>2. ChunkSize * (f - a - 1) \in Nat
    BY <1>1, <2>1
  <2>3. ChunkSize * f = ChunkSize * a + ChunkSize + ChunkSize * (f - a - 1)
    BY <1>1, <2>1
  <2>4. ChunkSize * a \in Nat /\ ChunkSize * f \in Nat
    BY <1>1
  <2>5. QED
    BY <1>1, <2>2, <2>3, <2>4
<1>6. d = c
  <2>1. ChunkSize * c \in Nat /\ ChunkSize * d \in Nat
    BY <1>1, <1>3
  <2>2. ~(d < c) /\ ~(c < d)
    BY <1>1, <1>3, <1>4, <1>5, <2>1
  <2>3. QED
    BY <1>3, <2>2
<1>7. e = p
  <2>1. ChunkSize * c \in Nat /\ e \in Nat
    BY <1>1, <1>3
  <2>2. QED
    BY <1>4, <1>6, <2>1
<1>8. QED
  BY <1>1, <1>6, <1>7 DEF d, e

LEMMA NakIsOneRun ==
  ASSUME KnownJob, NEW nak \in NakPdu, HasPackets(nak),
         NEW c, \A r \in nak.missing : r.chunk = c
  PROVE  OneRun(NakPdus(nak))
<1> DEFINE size == FileLen[File]
           places == {ChunkOffset(q[1]) + q[2] : q \in Asked(nak)}
           n == Cardinality(places)
           order == Ascending(places)
           pdus == [i \in 1 .. n |-> Packet(order[i] \div ChunkSize, order[i] % ChunkSize)]
           b == NakPdus(nak)
<1>1. size \in Nat /\ ChunkSize \in Nat \ {0}
  BY CurrentJob, ChunkSizeAssumption
<1>2. ASSUME NEW k \in places
      PROVE  /\ c \in Nat /\ ChunkOffset(c) \in Nat /\ k \in 0 .. size - 1
             /\ k >= ChunkOffset(c) /\ k \div ChunkSize = c
             /\ k % ChunkSize = k - ChunkOffset(c)
  <2>1. PICK q \in Asked(nak) : k = ChunkOffset(q[1]) + q[2]
    OBVIOUS
  <2>2. PICK r \in nak.missing : \E p \in r.first .. r.last : q = <<r.chunk, p>>
    BY DEF Asked
  <2>3. PICK p \in r.first .. r.last : q = <<r.chunk, p>>
    BY <2>2
  <2>4. r \in PacketNakRange
    BY DEF NakPdu
  <2>5. p \in Nat /\ q[1] = c /\ q[2] = p /\ c \in Nat
    BY <2>3, <2>4 DEF PacketNakRange
  <2>6. c \in Chunks(size) /\ p < PacketsIn(size, c)
    BY <2>5 DEF HasPackets, ChunksOfFile, Chunks
  <2>7. PacketsIn(size, c) \in Int /\ PacketsIn(size, c) <= ChunkSize
    BY <1>1, <2>5 DEF PacketsIn, ChunkOffset
  <2>8. p < ChunkSize /\ p \in 0 .. PacketsIn(size, c) - 1
    BY <1>1, <2>5, <2>6, <2>7
  <2>9. k = ChunkOffset(c) + p /\ k \in 0 .. size - 1
    BY <1>1, <2>1, <2>5, <2>6, <2>8, ChunkPosition
  <2>10. ChunkOffset(c) \in Nat /\ k \div ChunkSize = c /\ k % ChunkSize = p
    BY <2>5, <2>8, <2>9, PlaceInChunk
  <2>11. QED
    BY <2>5, <2>9, <2>10
<1>3. places \in SUBSET (0 .. size - 1)
  BY <1>2
<1>4. n \in Nat /\ Enumerates(order, places)
  BY <1>1, <1>3, Enumerable
<1> HIDE DEF places, n, order
<1>5. order \in [1 .. n -> places] /\ \A i, j \in 1 .. n : i < j => order[i] < order[j]
  BY <1>4 DEF Enumerates, n
<1>6. b = pdus \o <<Eof(Tid)>>
  BY DEF NakPdus, places, n, order
<1>7. pdus \in Seq({pdus[i] : i \in 1 .. n}) /\ Len(pdus) = n
  BY <1>4
<1>8. /\ Len(b) = n + 1
      /\ \A i \in 1 .. n : b[i] = Packet(order[i] \div ChunkSize, order[i] % ChunkSize)
  BY <1>4, <1>6, <1>7
<1> HIDE DEF b, pdus
<1>9. ASSUME NEW i \in 2 .. n
      PROVE  Continues(b, {}, i)
  <2>1. i \in 1 .. n /\ i - 1 \in 1 .. n /\ 1 \in 1 .. n /\ 1 < i /\ i # 1
    BY <1>4
  <2>2. order[1] < order[i] /\ order[1] \in places /\ order[i] \in places /\ order[i - 1] \in places
    BY <1>5, <2>1
  <2>3. order[i] % ChunkSize # 0
    <3>1. /\ order[1] >= ChunkOffset(c) /\ ChunkOffset(c) \in Nat
          /\ order[1] \in 0 .. size - 1 /\ order[i] \in 0 .. size - 1
          /\ order[i] % ChunkSize = order[i] - ChunkOffset(c)
      BY <1>2, <2>2
    <3>2. QED
      BY <2>2, <3>1
  <2>4. order[i] \div ChunkSize = c /\ order[i - 1] \div ChunkSize = c
    BY <1>2, <2>2
  <2>5. /\ b[i] = Packet(c, order[i] % ChunkSize)
        /\ b[i - 1] = Packet(c, order[i - 1] % ChunkSize)
    BY <1>8, <2>1, <2>4
  <2>6. QED
    BY <2>1, <2>3, <2>5 DEF Continues, Packet, Data
<1>10. QED
  BY <1>4, <1>8, <1>9 DEF OneRun, b

-----------------------------------------------------------------------------
(* What the receiver still owes: the replies on the line, two for each     *)
(* mark, two for the chunk in progress (its NAK and its ACK), and one for  *)
(* the verification it is about to do, or finds at boot.                   *)

Pending == toReceiver \o outbox
Served == (IF state = NoTransfer THEN {} ELSE state.done) \cup {currentChunk}

VerifiesAtBoot == Readable(journal) /\ MissingChunks(journal) = {} /\ journal.eof

Due(b, n) == IF b THEN n ELSE 0
Credit ==
  Due(currentChunk # UINT32_MAX, 2) + Due(at = "check", 1)
    + Due(at \in {"boot", "exited"} /\ VerifiesAtBoot, 1)

Owed == Len(toSender) + 2 * Cost(Pending, Served) + Credit

(* What is known of the receiver, and what its steps need of it.           *)
Orderly == R!NoFullList /\ R!Paced /\ R!NaksOfOneChunk

Calm ==
  /\ toReceiver \in Seq(SenderPdu) /\ outbox \in Seq(SenderPdu) /\ Pending \in Seq(SenderPdu)
  /\ toSender \in Seq(ReceiverPdu)
  /\ currentChunk \in Nat \cup {UINT32_MAX}
  /\ journal \in JournalState \cup {NoJournal, CorruptJournal}
  /\ transferActive \/ at = "create" => state # NoTransfer
  /\ at \in {"write", "mark", "ack", "check", "close"} => transferActive
  /\ at = "create" => state.done = {}
  /\ at \in {"write", "mark", "ack"} => currentChunk # UINT32_MAX
  /\ at = "ack" => currentChunk \in state.done
  /\ at \in {"boot", "exited"} => state = NoTransfer /\ currentChunk = UINT32_MAX
  /\ at = "recv" => ~VerifiesAtBoot

LEMMA AlwaysCalm ==
  ASSUME R!ShapeInv, SenderShape, Orderly
  PROVE  Calm
<1>1. /\ KnownJob /\ outbox \in Seq(OwnWords)
      /\ toReceiver \in Seq(SenderPdu) /\ toSender \in Seq(ReceiverPdu)
  BY WordsArePdus, RepliesArePdus DEF SenderShape
<1>2. outbox \in Seq(SenderPdu)
  BY <1>1, OwnWordsArePdus
<1>3. Pending \in Seq(SenderPdu)
  BY <1>1, <1>2 DEF Pending
<1>4. at = "recv" => ~VerifiesAtBoot
  <2>1. R!VerifiesAtBoot <=> VerifiesAtBoot
    BY DEF R!VerifiesAtBoot, VerifiesAtBoot, R!HasJournal, R!Readable, Readable,
           R!MissingChunks, MissingChunks, R!Chunks, Chunks, R!TotalChunks, TotalChunks
  <2>2. QED
    BY <2>1, R!NothingToVerify, ReceiverAssumptions DEF Orderly
<1>5. R!JournalState = JournalState
  BY DEF R!JournalState, JournalState, R!Chunks, Chunks, R!TotalChunks, TotalChunks
<1>6. QED
  BY <1>1, <1>2, <1>3, <1>4, <1>5
     DEF Calm, Orderly, R!Paced, R!AckDue, R!Forgotten, R!ShapeInv, R!TypeOK, R!Coupled,
         R!ChunkKnown

LEMMA Numbers ==
  ASSUME Calm
  PROVE  /\ Len(toSender) \in Nat /\ Cost(Pending, Served) \in Nat /\ Credit \in 0 .. 3
         /\ Owed = Len(toSender) + 2 * Cost(Pending, Served) + Credit
<1>1. Cost(Pending, Served) \in Nat /\ Len(toSender) \in Nat
  BY MarksFinite DEF Calm
<1>2. Credit \in 0 .. 3
  BY DEF Credit, Due
<1>3. QED
  BY <1>1, <1>2 DEF Owed

(* A step owes no more than the one before it.                             *)
LEMMA Settled ==
  ASSUME Calm, Calm', NEW n \in Nat, NEW k \in Int,
         Len(toSender') <= Len(toSender) + n,
         Cost(Pending', Served') + k <= Cost(Pending, Served),
         Credit' + n <= Credit + 2 * k
  PROVE  Owed' <= Owed
<1>1. /\ Len(toSender') \in Nat /\ Cost(Pending', Served') \in Nat /\ Credit' \in Nat
      /\ Owed' = Len(toSender') + 2 * Cost(Pending', Served') + Credit'
  <2>1. Cost(Pending', Served') \in Nat /\ Len(toSender') \in Nat
    BY MarksFinite DEF Calm
  <2>2. Credit' \in Nat
    BY DEF Credit, Due
  <2>3. QED
    BY <2>1, <2>2 DEF Owed
<1>2. /\ Len(toSender) \in Nat /\ Cost(Pending, Served) \in Nat /\ Credit \in Nat
      /\ Owed = Len(toSender) + 2 * Cost(Pending, Served) + Credit
  BY Numbers
<1> DEFINE L == Len(toSender)
           M == Len(toSender')
           N == Cost(Pending, Served)
           P == Cost(Pending', Served')
           C == Credit
           D == Credit'
<1> HIDE DEF L, M, N, P, C, D
<1>3. /\ L \in Nat /\ M \in Nat /\ N \in Nat /\ P \in Nat /\ C \in Nat /\ D \in Nat
      /\ M <= L + n /\ P + k <= N /\ D + n <= C + 2 * k
  BY <1>1, <1>2 DEF L, M, N, P, C, D
<1>4. M + 2 * P + D <= L + 2 * N + C
  BY <1>3
<1>5. QED
  BY <1>1, <1>2, <1>4 DEF L, M, N, P, C, D

LEMMA TailOfBoth ==
  ASSUME NEW S, NEW a \in Seq(S), NEW b \in Seq(S), a # <<>>
  PROVE  a \o b # <<>> /\ Head(a \o b) = Head(a) /\ Tail(a \o b) = Tail(a) \o b
<1>1. /\ Len(a) \in Nat \ {0} /\ Len(b) \in Nat /\ a \o b \in Seq(S) /\ Tail(a) \in Seq(S)
      /\ Len(a \o b) = Len(a) + Len(b) /\ Len(Tail(a)) = Len(a) - 1
      /\ \A i \in 1 .. Len(a) - 1 : Tail(a)[i] = a[i + 1]
  OBVIOUS
<1>2. \A i \in 1 .. Len(a) + Len(b) :
        (a \o b)[i] = IF i <= Len(a) THEN a[i] ELSE b[i - Len(a)]
  BY R!ConcatAt
<1> DEFINE c == a \o b
           d == Tail(a)
<1> HIDE DEF c, d
<1>3. c # <<>> /\ Head(c) = Head(a)
  <2>1. c \in Seq(S) /\ Len(c) = Len(a) + Len(b) /\ c[1] = a[1]
    BY <1>1, <1>2 DEF c
  <2>2. QED
    BY <1>1, <2>1
<1>4. /\ Tail(c) \in Seq(S) /\ Len(Tail(c)) = Len(a) + Len(b) - 1
      /\ \A i \in 1 .. Len(a) + Len(b) - 1 : Tail(c)[i] = c[i + 1]
  BY <1>1, <1>3 DEF c
<1>5. /\ d \o b \in Seq(S) /\ Len(d \o b) = Len(a) + Len(b) - 1
      /\ \A i \in 1 .. Len(a) + Len(b) - 1 :
           (d \o b)[i] = IF i <= Len(a) - 1 THEN d[i] ELSE b[i - (Len(a) - 1)]
  <2>1. d \in Seq(S) /\ Len(d) = Len(a) - 1 /\ Len(b) \in Nat /\ Len(a) \in Nat \ {0}
    BY <1>1 DEF d
  <2>2. d \o b \in Seq(S) /\ Len(d \o b) = Len(a) + Len(b) - 1
    BY <2>1
  <2>3. \A i \in 1 .. Len(d) + Len(b) :
          (d \o b)[i] = IF i <= Len(d) THEN d[i] ELSE b[i - Len(d)]
    BY <2>1, R!ConcatAt
  <2>4. QED
    BY <2>1, <2>2, <2>3
<1>6. ASSUME NEW i \in 1 .. Len(a) + Len(b) - 1
      PROVE  Tail(c)[i] = (d \o b)[i]
  <2>1. /\ i + 1 \in 1 .. Len(a) + Len(b) /\ Tail(c)[i] = c[i + 1]
        /\ (d \o b)[i] = IF i <= Len(a) - 1 THEN d[i] ELSE b[i - (Len(a) - 1)]
        /\ c[i + 1] = IF i + 1 <= Len(a) THEN a[i + 1] ELSE b[i + 1 - Len(a)]
    BY <1>1, <1>2, <1>4, <1>5 DEF c
  <2>2. CASE i <= Len(a) - 1
    <3>1. d[i] = a[i + 1] /\ i + 1 <= Len(a)
      BY <1>1, <2>2 DEF d
    <3>2. QED
      BY <2>1, <2>2, <3>1
  <2>3. CASE ~(i <= Len(a) - 1)
    <3>1. i + 1 - Len(a) = i - (Len(a) - 1) /\ ~(i + 1 <= Len(a))
      BY <1>1, <2>3
    <3>2. QED
      BY <2>1, <2>3, <3>1
  <2>4. QED
    BY <2>2, <2>3
<1>7. Tail(c) = d \o b
  <2> DEFINE x == Tail(c)
             y == d \o b
  <2>1. x \in Seq(S) /\ y \in Seq(S) /\ Len(x) = Len(y) /\ \A i \in 1 .. Len(x) : x[i] = y[i]
    BY <1>4, <1>5, <1>6
  <2> HIDE DEF x, y
  <2>2. x = y
    BY <2>1
  <2>3. QED
    BY <2>2 DEF x, y
<1>8. QED
  BY <1>3, <1>7 DEF c, d

(* A PDU the receiver reads.                                               *)
LEMMA PendingRead ==
  ASSUME Calm, toReceiver # <<>>, toReceiver' = Tail(toReceiver), UNCHANGED outbox
  PROVE  /\ Pending # <<>> /\ Head(Pending) = Head(toReceiver) /\ Pending' = Tail(Pending)
         /\ Pending[1] = Head(toReceiver)
<1>1. toReceiver \in Seq(SenderPdu) /\ outbox \in Seq(SenderPdu) /\ Pending \in Seq(SenderPdu)
  BY DEF Calm
<1>2. /\ toReceiver \o outbox # <<>> /\ Head(toReceiver \o outbox) = Head(toReceiver)
      /\ Tail(toReceiver \o outbox) = Tail(toReceiver) \o outbox
  BY <1>1, TailOfBoth
<1>3. Pending # <<>> /\ Head(Pending) = Head(toReceiver) /\ Pending' = Tail(Pending)
  BY <1>2 DEF Pending
<1>4. QED
  BY <1>1, <1>3

LEMMA OneReply ==
  ASSUME Calm, toSender' = toSender \/ \E p : Reply(p)
  PROVE  /\ Len(toSender') <= Len(toSender) + 1
         /\ toSender' = toSender => Len(toSender') <= Len(toSender) + 0
<1>1. toSender \in Seq(ReceiverPdu) /\ Len(toSender) \in Nat
  BY DEF Calm
<1>2. ASSUME NEW p, Reply(p)
      PROVE  Len(toSender') = Len(toSender) + 1
  <2>1. toSender' = Append(toSender, p)
    BY <1>2 DEF Reply
  <2>2. toSender \in Seq(ReceiverPdu \cup {p})
    BY <1>1
  <2>3. QED
    BY <2>1, <2>2
<1>3. CASE toSender' = toSender
  BY <1>1, <1>3
<1>4. CASE \E p : Reply(p)
  <2>1. Len(toSender') = Len(toSender) + 1
    BY <1>2, <1>4
  <2>2. QED
    BY <1>1, <2>1
<1>5. QED
  BY <1>3, <1>4

(* Anything but a packet is worth a reply and a verification.              *)
LEMMA OtherRead ==
  ASSUME Calm, Calm', UNCHANGED outbox,
         \/ DropNoise \/ IgnoreMetadata \/ ReackTransfer \/ AcceptMetadata
         \/ DropEof \/ AcceptEof \/ AnswerResumeQuery
  PROVE  Owed' <= Owed
<1>1. /\ at = "recv" /\ toReceiver # <<>> /\ toReceiver' = Tail(toReceiver)
      /\ Head(toReceiver).type # "Data"
      /\ UNCHANGED currentChunk /\ at' \in {"recv", "create", "check"}
      /\ toSender' = toSender \/ \E p : Reply(p)
  BY DEF DropNoise, IgnoreMetadata, ReackTransfer, AcceptMetadata, DropEof, AcceptEof,
         AnswerResumeQuery, Receive, Returns, Continue, memory
<1>2. Cost(Pending', Served') + 1 <= Cost(Pending, Served)
  <2>1. /\ Pending \in Seq(SenderPdu) /\ Pending # <<>> /\ Pending' = Tail(Pending)
        /\ Head(Pending).type # "Data" /\ Pending[1].type # "Data"
    BY <1>1, PendingRead DEF Calm
  <2>2. ~Continues(Pending, Served, 1)
    BY <2>1 DEF Continues
  <2>3. QED
    BY <2>1, <2>2, HeadRead
<1>3. Credit' + 1 <= Credit + 2 * 1
  BY <1>1 DEF Credit, Due
<1>4. Len(toSender') <= Len(toSender) + 1
  BY <1>1, OneReply
<1>5. QED
  BY <1>2, <1>3, <1>4, Settled

LEMMA DataRead ==
  ASSUME Calm, Calm', UNCHANGED outbox, DropData \/ ReackData \/ StoreData
  PROVE  Owed' <= Owed
<1> DEFINE d == Head(toReceiver)
<1>1. /\ at = "recv" /\ toReceiver # <<>> /\ toReceiver' = Tail(toReceiver)
      /\ d.type = "Data"
  BY DEF DropData, ReackData, StoreData, Receive
<1>2. /\ Pending \in Seq(SenderPdu) /\ Pending # <<>> /\ Pending' = Tail(Pending)
      /\ Head(Pending) = d /\ Pending[1] = d /\ Pending' \in Seq(SenderPdu)
  BY <1>1, PendingRead DEF Calm
<1>3. d.chunk \in Nat /\ UINT32_MAX \notin Nat
  <2>1. d \in SenderPdu
    BY <1>1 DEF Calm
  <2>2. QED
    BY <1>1, <2>1, Uint32MaxAssumption
       DEF SenderPdu, MetadataPdu, DataPdu, EofPdu, ResumeQueryPdu, NoisePdu
<1>4. /\ Cost(Pending', Served') \in Nat /\ Cost(Pending, Served) \in Nat
      /\ Len(toSender) \in Nat
  BY <1>2, MarksFinite, Numbers
<1>5. CASE DropData
  <2>1. /\ UNCHANGED <<state, currentChunk, toSender>> /\ at' = "recv"
    BY <1>5 DEF DropData, Returns, memory
  <2>2. Served' = Served
    BY <2>1 DEF Served
  <2>3. Cost(Pending', Served) <= Cost(Pending, Served)
    <3>1. /\ 1 \in 1 .. Len(Pending) /\ Len(Pending') = Len(Pending) - 1
          /\ \A i \in 1 .. Len(Pending') :
               Pending'[i] = IF i < 1 THEN Pending[i] ELSE Pending[i + 1]
      BY <1>2
    <3>2. QED
      BY <1>2, <3>1, OneLess
  <2>4. Credit' + 0 <= Credit + 2 * 0
    BY <1>1, <2>1 DEF Credit, Due
  <2>5. QED
    BY <1>4, <2>1, <2>2, <2>3, <2>4, Settled
<1>6. CASE ReackData
  <2>1. /\ UNCHANGED <<state, currentChunk>> /\ at' = "recv" /\ transferActive
        /\ d.chunk \in state.done
        /\ IF d.pkt = 0 THEN \E p : Reply(p) ELSE UNCHANGED toSender
    BY <1>6 DEF ReackData, Returns, Acceptable
  <2>2. Served' = Served /\ d.chunk \in Served
    BY <2>1 DEF Served, Calm
  <2>3. /\ Cost(Pending', Served) <= Cost(Pending, Served)
        /\ ~Continues(Pending, Served, 1) => Cost(Pending', Served) + 1 <= Cost(Pending, Served)
    BY <1>2, <2>2, HeadRead
  <2>4. Credit' + 0 <= Credit + 2 * 0 /\ Credit' + 1 <= Credit + 2 * 1
    BY <1>1, <2>1 DEF Credit, Due
  <2>5. CASE d.pkt = 0
    <3>1. ~Continues(Pending, Served, 1)
      BY <1>2, <2>5 DEF Continues
    <3>2. Len(toSender') <= Len(toSender) + 1
      BY <2>1, <2>5, OneReply
    <3>3. QED
      BY <2>2, <2>3, <2>4, <3>1, <3>2, Settled
  <2>6. CASE d.pkt # 0
    <3>1. toSender' = toSender /\ Len(toSender') <= Len(toSender) + 0
      BY <1>4, <2>1, <2>6
    <3>2. Cost(Pending', Served') + 0 <= Cost(Pending, Served)
      BY <1>4, <2>2, <2>3
    <3>3. QED
      BY <2>4, <3>1, <3>2, Settled
  <2>7. QED
    BY <2>5, <2>6
<1>7. CASE StoreData
  <2>1. /\ UNCHANGED state /\ currentChunk' = d.chunk /\ at' \in {"recv", "write"}
        /\ transferActive /\ d.chunk \notin state.done
        /\ toSender' = toSender \/ \E p : Reply(p)
        /\ Abandons(d) \/ toSender' = toSender
    BY <1>7 DEF StoreData, Returns, Continue, Acceptable
  <2>2. Served' = state.done \cup {d.chunk} /\ Served = state.done \cup {currentChunk}
    BY <2>1 DEF Served, Calm
  <2>3. /\ Cost(Pending', Served') <= Cost(Pending, Served)
        /\ ~Continues(Pending, Served, 1) => Cost(Pending', Served') + 1 <= Cost(Pending, Served)
    BY <1>2, <2>2, HeadRead
  <2>4. CASE d.chunk = currentChunk
    <3>1. toSender' = toSender /\ Len(toSender') <= Len(toSender) + 0
      BY <1>4, <2>1, <2>4 DEF Abandons
    <3>2. Credit' + 0 <= Credit + 2 * 0
      BY <1>1, <1>3, <2>1, <2>4 DEF Credit, Due
    <3>3. Cost(Pending', Served') + 0 <= Cost(Pending, Served)
      BY <1>4, <2>3
    <3>4. QED
      BY <3>1, <3>2, <3>3, Settled
  <2>5. CASE d.chunk # currentChunk
    <3>1. Cost(Pending', Served') + 1 <= Cost(Pending, Served)
      <4>1. ~Continues(Pending, Served, 1)
        BY <1>2, <2>1, <2>2, <2>5 DEF Continues
      <4>2. QED
        BY <2>3, <4>1
    <3>2. CASE currentChunk = UINT32_MAX
      <4>1. toSender' = toSender /\ Len(toSender') <= Len(toSender) + 0
        BY <1>4, <2>1, <3>2 DEF Abandons
      <4>2. Credit' + 0 <= Credit + 2 * 1
        BY <1>1, <1>3, <2>1, <3>2 DEF Credit, Due
      <4>3. QED
        BY <3>1, <4>1, <4>2, Settled
    <3>3. CASE currentChunk # UINT32_MAX
      <4>1. Len(toSender') <= Len(toSender) + 1
        BY <2>1, OneReply
      <4>2. Credit' + 1 <= Credit + 2 * 1
        BY <1>1, <1>3, <2>1, <3>3 DEF Credit, Due
      <4>3. QED
        BY <3>1, <4>1, <4>2, Settled
    <3>4. QED
      BY <3>2, <3>3
  <2>6. QED
    BY <2>4, <2>5
<1>8. QED
  BY <1>5, <1>6, <1>7

(* A step that reads nothing.                                              *)
LEMMA NothingRead ==
  ASSUME Calm, Calm', UNCHANGED <<outbox, toReceiver>>,
         \/ BootFresh \/ BootResume \/ CreateJournal \/ WriteChunk \/ MarkChunk \/ AckChunk
         \/ NakCurrentChunk \/ NakMissingChunk \/ AwaitMoreChunks
         \/ RejectFile \/ AcceptFile \/ CloseTransfer
  PROVE  Owed' <= Owed
<1> USE DEF memory, line
<1>1. /\ Pending' = Pending /\ Pending \in Seq(SenderPdu)
      /\ Cost(Pending, Served) \in Nat /\ Cost(Pending', Served') \in Nat
      /\ Len(toSender) \in Nat /\ Credit \in Nat
  <2>1. Pending' = Pending /\ Pending \in Seq(SenderPdu)
    BY DEF Pending, Calm
  <2>2. QED
    BY <2>1, MarksFinite, Numbers
<1>2. ASSUME Served \subseteq Served', NEW n \in Nat, Len(toSender') <= Len(toSender) + n,
             Credit' + n <= Credit
      PROVE  Owed' <= Owed
  <2>1. Cost(Pending', Served') + 0 <= Cost(Pending, Served)
    BY <1>1, <1>2, ServedOtherwise
  <2>2. Credit' + n <= Credit + 2 * 0
    BY <1>1, <1>2
  <2>3. QED
    BY <1>2, <2>1, <2>2, Settled
<1>3. ASSUME toSender' = toSender
      PROVE  Len(toSender') <= Len(toSender) + 0
  BY <1>1, <1>3
<1>4. CASE BootFresh
  <2>1. Served' = Served /\ toSender' = toSender
    BY <1>4 DEF BootFresh, Served
  <2>2. Credit' + 0 <= Credit
    BY <1>4 DEF BootFresh, Continue, Credit, Due
  <2>3. QED
    BY <1>2, <1>3, <2>1, <2>2
<1>5. CASE BootResume
  <2>1. Served \subseteq Served' /\ toSender' = toSender
    BY <1>5 DEF BootResume, ForgetChunk, Served, Calm
  <2>2. Credit' + 0 <= Credit
    BY <1>5 DEF BootResume, ForgetChunk, Continue, Credit, Due, VerifiesAtBoot, Calm
  <2>3. QED
    BY <1>2, <1>3, <2>1, <2>2
<1>6. CASE CreateJournal
  <2>1. /\ toSender' = toSender /\ at = "create" /\ at' = "recv" /\ currentChunk' = UINT32_MAX
        /\ state' = state /\ state # NoTransfer /\ state.done = {}
    BY <1>6 DEF CreateJournal, ForgetChunk, Returns, Calm
  <2>2. CASE currentChunk = UINT32_MAX
    <3>1. Served' = Served /\ Credit' + 0 <= Credit
      BY <2>1, <2>2 DEF Served, Credit, Due
    <3>2. QED
      BY <1>2, <1>3, <2>1, <3>1
  <2>3. CASE currentChunk # UINT32_MAX
    <3>1. Credit' + 0 <= Credit + 2 * (-1)
      BY <2>1, <2>3 DEF Credit, Due
    <3>2. Cost(Pending', Served') <= Cost(Pending, Served) + 1
      BY <1>1, ServedOtherwise
    <3>3. Cost(Pending', Served') + (-1) <= Cost(Pending, Served)
      BY <1>1, <3>2
    <3>4. QED
      BY <1>3, <2>1, <3>1, <3>3, Settled
  <2>4. QED
    BY <2>2, <2>3
<1>7. CASE WriteChunk
  <2>1. Served' = Served /\ toSender' = toSender
    BY <1>7 DEF WriteChunk, Served
  <2>2. Credit' + 0 <= Credit
    BY <1>7 DEF WriteChunk, Continue, Credit, Due
  <2>3. QED
    BY <1>2, <1>3, <2>1, <2>2
<1>8. CASE MarkChunk
  <2>1. /\ toSender' = toSender /\ at = "mark" /\ at' = "ack" /\ UNCHANGED currentChunk
        /\ state # NoTransfer /\ state' # NoTransfer
    BY <1>8 DEF MarkChunk, Continue, Calm
  <2>2. state.done \subseteq state'.done
    BY <1>8, <2>1 DEF MarkChunk
  <2>3. Served \subseteq Served'
    BY <2>1, <2>2 DEF Served
  <2>4. Credit' + 0 <= Credit
    BY <2>1 DEF Credit, Due
  <2>5. QED
    BY <1>2, <1>3, <2>1, <2>3, <2>4
<1>9. CASE AckChunk
  <2>1. /\ at = "ack" /\ at' \in {"recv", "check"} /\ currentChunk' = UINT32_MAX
        /\ UNCHANGED state /\ state # NoTransfer
        /\ currentChunk # UINT32_MAX /\ currentChunk \in state.done
        /\ \E p : Reply(p)
    BY <1>9 DEF AckChunk, ForgetChunk, Continue, Returns, Calm
  <2>2. Served \subseteq Served'
    BY <2>1 DEF Served
  <2>3. Len(toSender') <= Len(toSender) + 1
    BY <2>1, OneReply
  <2>4. Credit' + 1 <= Credit
    BY <2>1 DEF Credit, Due
  <2>5. QED
    BY <1>2, <2>2, <2>3, <2>4
<1>10. CASE \/ NakCurrentChunk \/ NakMissingChunk \/ AwaitMoreChunks \/ RejectFile \/ AcceptFile
  <2>1. /\ at = "check" /\ at' \in {"recv", "close"} /\ UNCHANGED <<state, currentChunk>>
        /\ toSender' = toSender \/ \E p : Reply(p)
    BY <1>10 DEF NakCurrentChunk, NakMissingChunk, AwaitMoreChunks, RejectFile, AcceptFile,
                 AllReceived, Continue, Returns
  <2>2. Served' = Served
    BY <2>1 DEF Served
  <2>3. Len(toSender') <= Len(toSender) + 1
    BY <2>1, OneReply
  <2>4. Credit' + 1 <= Credit
    BY <2>1 DEF Credit, Due
  <2>5. QED
    BY <1>2, <2>2, <2>3, <2>4
<1>11. CASE CloseTransfer
  <2>1. Served' = Served /\ toSender' = toSender
    BY <1>11 DEF CloseTransfer, Served
  <2>2. Credit' + 0 <= Credit
    BY <1>11 DEF CloseTransfer, Returns, Credit, Due
  <2>3. QED
    BY <1>2, <1>3, <2>1, <2>2
<1>12. QED
  BY <1>4, <1>5, <1>6, <1>7, <1>8, <1>9, <1>10, <1>11

LEMMA ReceiverOwesLess ==
  ASSUME Calm, Calm', Receiver
  PROVE  Owed' <= Owed
<1>1. UNCHANGED outbox
  BY DEF Receiver, senderVars, script
<1>2. CASE \/ DropNoise \/ IgnoreMetadata \/ ReackTransfer \/ AcceptMetadata
           \/ DropEof \/ AcceptEof \/ AnswerResumeQuery
  BY <1>1, <1>2, OtherRead
<1>3. CASE DropData \/ ReackData \/ StoreData
  BY <1>1, <1>3, DataRead
<1>4. CASE \/ BootFresh \/ BootResume \/ CreateJournal \/ WriteChunk \/ MarkChunk \/ AckChunk
           \/ NakCurrentChunk \/ NakMissingChunk \/ AwaitMoreChunks
           \/ RejectFile \/ AcceptFile \/ CloseTransfer
  <2>1. UNCHANGED toReceiver
    BY <1>4 DEF BootFresh, BootResume, CreateJournal, WriteChunk, MarkChunk, AckChunk,
                NakCurrentChunk, NakMissingChunk, AwaitMoreChunks, RejectFile, AcceptFile,
                CloseTransfer, line
  <2>2. QED
    BY <1>1, <1>4, <2>1, NothingRead
<1>5. QED
  BY <1>2, <1>3, <1>4 DEF Receiver, ReceiverStep

-----------------------------------------------------------------------------
(* What the script, the user and the faults may add.                       *)

(* What a run of the script may still add before it is where it reads the  *)
(* replies as a batch.                                                     *)
StageOf(place, n) ==
  IF place \in {"start", "done", "failed"} THEN 0
  ELSE IF place = "info" THEN 2 + 2 * n ELSE 12
Stage == StageOf(sAt, attempt)

Charged == 12 * faults["kill"] + 3 * faults["crash"] + 4 * faults["misread"]

Bound == 2 * MaxToReceiver + 3 + Charged + Stage

RoomLeft ==
  /\ Len(toReceiver) <= MaxToReceiver
  /\ SenderSilent => outbox = <<>>
  /\ Owed <= Bound

LEMMA StageFits ==
  ASSUME NEW place, NEW n \in 0 .. 3
  PROVE  StageOf(place, n) \in 0 .. 12
BY DEF StageOf

LEMMA Bounds ==
  ASSUME SenderShape
  PROVE  /\ MaxToReceiver \in Nat /\ Charged \in Nat /\ Stage \in 0 .. 12
         /\ Bound = 2 * MaxToReceiver + 3 + Charged + Stage
<1>1. faults["kill"] \in Nat /\ faults["crash"] \in Nat /\ faults["misread"] \in Nat
  BY DEF SenderShape, FaultsCount, FaultKinds
<1>2. MaxToReceiver \in Nat
  BY LineAssumption
<1>3. attempt \in 0 .. 3
  BY DEF SenderShape
<1>4. Stage \in 0 .. 12
  BY <1>3, StageFits DEF Stage
<1>5. QED
  BY <1>1, <1>2, <1>4 DEF Bound, Charged

LEMMA Charges ==
  ASSUME SenderShape
  PROVE  /\ UNCHANGED faults => Charged' = Charged
         /\ Fault("kill") => Charged' = Charged + 12
         /\ Fault("crash") => Charged' = Charged + 3
         /\ Fault("misread") => Charged' = Charged + 4
         /\ Fault("lost") \/ Fault("damaged") \/ Fault("reply") => Charged' = Charged
<1>1. faults \in [FaultKinds -> Nat]
  BY DEF SenderShape, FaultsCount
<1>2. faults["kill"] \in Nat /\ faults["crash"] \in Nat /\ faults["misread"] \in Nat
  BY <1>1 DEF FaultKinds
<1>3. ASSUME NEW kind \in FaultKinds, Fault(kind)
      PROVE  \A k \in FaultKinds : faults'[k] = IF k = kind THEN faults[k] + 1 ELSE faults[k]
  BY <1>1, <1>3 DEF Fault
<1>4. QED
  BY <1>2, <1>3 DEF Charged, FaultKinds

(* The receiver stands still.                                              *)
LEMMA SameDebt ==
  ASSUME UNCHANGED receiver
  PROVE  Served' = Served /\ Credit' = Credit
BY DEF receiver, memory, stable, Served, Credit, VerifiesAtBoot, Due

LEMMA NothingToWrite ==
  ASSUME Calm, outbox = <<>>
  PROVE  Pending = toReceiver
BY DEF Pending, Calm

(* The script queues what it writes next.                                  *)
LEMMA Queues ==
  ASSUME Calm, Calm', outbox = <<>>, UNCHANGED <<receiver, toReceiver>>
  PROVE  /\ OneRun(outbox') => Cost(Pending', Served') <= Cost(Pending, Served) + 2
         /\ Len(outbox') = 1 => Cost(Pending', Served') <= Cost(Pending, Served) + 1
         /\ outbox' = <<>> => Cost(Pending', Served') <= Cost(Pending, Served)
         /\ Cost(Pending, Served) <= Len(toReceiver) /\ Len(toReceiver) \in Nat
         /\ Cost(Pending, Served) \in Nat /\ Cost(Pending', Served') \in Nat
<1>1. /\ toReceiver \in Seq(SenderPdu) /\ outbox' \in Seq(SenderPdu)
      /\ Pending = toReceiver /\ Pending' = toReceiver \o outbox' /\ Served' = Served
      /\ Pending' \in Seq(SenderPdu) /\ Len(outbox') \in Nat
  BY NothingToWrite, SameDebt DEF Pending, Calm
<1>2. ASSUME Len(outbox') = 1
      PROVE  OneRun(outbox')
  <2>1. Len(outbox') <= 2
    BY <1>2
  <2>2. QED
    BY <1>1, <2>1, ShortRuns
<1>3. outbox' = <<>> => Pending' = Pending
  BY <1>1
<1>4. /\ Cost(Pending, Served) <= Len(toReceiver) /\ Len(toReceiver) \in Nat
      /\ Cost(Pending, Served) \in Nat /\ Cost(Pending', Served') \in Nat
  <2>1. Cost(toReceiver, Served) \in Nat /\ Cost(toReceiver, Served) <= Len(toReceiver)
    BY <1>1, MarksFinite
  <2>2. Cost(Pending', Served') \in Nat
    BY <1>1, MarksFinite
  <2>3. QED
    BY <1>1, <2>1, <2>2
<1>5. /\ OneRun(outbox') => Cost(Pending', Served) <= Cost(Pending, Served) + 2
      /\ Len(outbox') = 1 => Cost(Pending', Served) <= Cost(Pending, Served) + 1
  BY <1>1, <1>2, Queued
<1>6. /\ Cost(Pending', Served') = Cost(Pending', Served)
      /\ outbox' = <<>> => Cost(Pending', Served') = Cost(Pending, Served)
  BY <1>1, <1>3
<1>7. QED
  BY <1>4, <1>5, <1>6

(* The script takes what it writes for granted, or has drained the line.   *)
LEMMA Adds ==
  ASSUME Calm, Calm', SenderShape, SenderShape', RoomLeft,
         UNCHANGED <<receiver, toReceiver, faults>>,
         NEW n \in Nat,
         Cost(Pending', Served') <= Cost(Pending, Served) + n,
         Cost(Pending, Served) <= Len(toReceiver),
         \/ Len(toSender') <= Len(toSender) /\ Stage' >= Stage + 2 * n
         \/ toSender' = <<>> /\ Stage' >= 2 * n
  PROVE  Owed' <= Bound'
<1> DEFINE M == Len(toSender')
           N == Cost(Pending, Served)
           P == Cost(Pending', Served')
<1>1. /\ Len(toSender) \in Nat /\ N \in Nat /\ Credit \in 0 .. 3
      /\ Owed = Len(toSender) + 2 * N + Credit
  BY Numbers
<1>2. M \in Nat /\ P \in Nat /\ Owed' = M + 2 * P + Credit
  <2>1. P \in Nat /\ M \in Nat
    BY MarksFinite DEF Calm
  <2>2. QED
    BY <2>1, SameDebt DEF Owed
<1>3. /\ MaxToReceiver \in Nat /\ Charged \in Nat /\ Stage \in 0 .. 12 /\ Stage' \in 0 .. 12
      /\ Bound = 2 * MaxToReceiver + 3 + Charged + Stage
      /\ Bound' = 2 * MaxToReceiver + 3 + Charged + Stage'
  <2>1. Charged' = Charged
    BY Charges
  <2>2. Stage' \in 0 .. 12
    <3>1. attempt' \in 0 .. 3
      BY DEF SenderShape
    <3>2. QED
      BY <3>1, StageFits DEF Stage
  <2>3. Bound' = 2 * MaxToReceiver + 3 + Charged + Stage'
    BY <2>1 DEF Bound
  <2>4. QED
    BY <2>2, <2>3, Bounds
<1>4. P <= N + n /\ N <= MaxToReceiver /\ Owed <= Bound
  <2>1. Len(toReceiver) \in Nat /\ Len(toReceiver) <= MaxToReceiver /\ Owed <= Bound
    BY DEF RoomLeft, Calm
  <2>2. QED
    BY <1>1, <1>3, <2>1
<1> DEFINE L == Len(toSender)
           C == Credit
           S == Stage
           T == Stage'
           B == Charged
<1>5. /\ L \in Nat /\ M \in Nat /\ N \in Nat /\ P \in Nat /\ C \in 0 .. 3
      /\ S \in 0 .. 12 /\ T \in 0 .. 12 /\ B \in Nat /\ MaxToReceiver \in Nat
      /\ P <= N + n /\ N <= MaxToReceiver
      /\ L + 2 * N + C <= 2 * MaxToReceiver + 3 + B + S
      /\ (M <= L /\ T >= S + 2 * n) \/ (M = 0 /\ T >= 2 * n)
  BY <1>1, <1>2, <1>3, <1>4
<1> HIDE DEF L, M, N, P, C, S, T, B
<1>6. M + 2 * P + C <= 2 * MaxToReceiver + 3 + B + T
  BY <1>5
<1>7. QED
  BY <1>2, <1>3, <1>6 DEF C, T, B

LEMMA ChunkQueued ==
  ASSUME KnownJob, NEW c \in Nat, BeginChunk(c)
  PROVE  OneRun(outbox') /\ sAt' \in {"wait", "final"}
<1>1. CASE c < ChunksOfFile
  BY <1>1, ChunkIsOneRun DEF BeginChunk
<1>2. CASE ~(c < ChunksOfFile)
  <2>1. outbox' = <<>> /\ sAt' = "final"
    BY <1>2 DEF BeginChunk
  <2>2. OneRun(<<>>)
    BY DEF OneRun
  <2>3. QED
    BY <2>1, <2>2
<1>3. QED
  BY <1>1, <1>2

LEMMA LatestNakIsOne ==
  ASSUME toSender \in Seq(ReceiverPdu), R!NaksOfOneChunk, Naks # {}
  PROVE  \E c : \A r \in LatestNak.missing : r.chunk = c
<1>1. PICK i \in Naks : LatestNak = toSender[i]
  BY LatestNakArrived
<1>2. QED
  BY <1>1 DEF Naks, R!NaksOfOneChunk, R!OneChunk

(* A step of the script that writes nothing yet.                           *)
LEMMA PlansKeepRoom ==
  ASSUME R!ShapeInv, SenderShape, SenderShape', Calm, Calm', R!NaksOfOneChunk, RoomLeft,
         Sender, ~SendNext
  PROVE  RoomLeft'
<1> USE DEF Idle, SenderSilent
<1>1. /\ outbox = <<>> /\ UNCHANGED <<receiver, toReceiver, faults>> /\ SenderStep
      /\ toSender \in Seq(ReceiverPdu)
  BY DEF Sender, SenderStep, StartTransfer, InfoTimeout, ReadInfo, ChunkTimeout, Complete,
         ChunkAcked, Retransmit, IgnoreReplies, FinalTimeout, line, Calm
<1>2. /\ KnownJob /\ attempt \in 0 .. 3 /\ ci \in Nat /\ sAt \in Places
  BY DEF SenderShape
<1>3. Len(toReceiver') <= MaxToReceiver
  BY <1>1 DEF RoomLeft
<1>4. /\ OneRun(outbox') => Cost(Pending', Served') <= Cost(Pending, Served) + 2
      /\ Len(outbox') = 1 => Cost(Pending', Served') <= Cost(Pending, Served) + 1
      /\ outbox' = <<>> => Cost(Pending', Served') <= Cost(Pending, Served) + 0
      /\ Cost(Pending, Served) <= Len(toReceiver)
  <2>1. /\ Cost(Pending, Served) \in Nat
        /\ OneRun(outbox') => Cost(Pending', Served') <= Cost(Pending, Served) + 2
        /\ Len(outbox') = 1 => Cost(Pending', Served') <= Cost(Pending, Served) + 1
        /\ outbox' = <<>> => Cost(Pending', Served') <= Cost(Pending, Served)
        /\ Cost(Pending, Served) <= Len(toReceiver)
    BY <1>1, Queues
  <2>2. QED
    BY <2>1
<1>5. ASSUME OneRun(outbox'), sAt' \notin {"start", "done", "failed"},
             \/ Len(toSender') <= Len(toSender) /\ Stage' >= Stage + 4
             \/ toSender' = <<>> /\ Stage' >= 4
      PROVE  RoomLeft'
  <2>1. Owed' <= Bound'
    BY <1>1, <1>4, <1>5, Adds
  <2>2. QED
    BY <1>3, <1>5, <2>1 DEF RoomLeft
<1>6. ASSUME Len(outbox') = 1, sAt' \notin {"start", "done", "failed"},
             \/ Len(toSender') <= Len(toSender) /\ Stage' >= Stage + 2
             \/ toSender' = <<>> /\ Stage' >= 2
      PROVE  RoomLeft'
  <2>1. Owed' <= Bound'
    BY <1>1, <1>4, <1>6, Adds
  <2>2. QED
    BY <1>3, <1>6, <2>1 DEF RoomLeft
<1>7. ASSUME outbox' = <<>>, toSender' = <<>>
      PROVE  RoomLeft'
  <2>1. Stage' >= 0
    <3>1. attempt' \in 0 .. 3
      BY DEF SenderShape
    <3>2. QED
      BY <3>1, StageFits DEF Stage
  <2>2. Owed' <= Bound'
    BY <1>1, <1>4, <1>7, <2>1, Adds
  <2>3. QED
    BY <1>3, <1>7, <2>2 DEF RoomLeft
<1>8. /\ Len(toSender) <= Len(toSender)
      /\ toSender # <<>> /\ toSender' = Tail(toSender) => Len(toSender') <= Len(toSender)
  BY <1>1
<1>9. ASSUME sAt = "info", NextAttempt, Len(toSender') <= Len(toSender)
      PROVE  RoomLeft'
  <2>1. CASE attempt < 3
    <3>1. Len(outbox') = 1 /\ sAt' = "info" /\ attempt' = attempt + 1
      BY <1>9, <2>1 DEF NextAttempt
    <3>2. Stage' >= Stage + 2
      BY <1>2, <1>9, <3>1 DEF Stage, StageOf
    <3>3. QED
      BY <1>6, <1>9, <3>1, <3>2
  <2>2. CASE ~(attempt < 3)
    <3>1. OneRun(outbox') /\ sAt' \in {"wait", "final"}
      BY <1>2, <1>9, <2>2, ChunkQueued DEF NextAttempt
    <3>2. Stage' >= Stage + 4
      BY <1>2, <1>9, <3>1 DEF Stage, StageOf
    <3>3. QED
      BY <1>5, <1>9, <3>1, <3>2
  <2>3. QED
    BY <2>1, <2>2
<1>10. CASE StartTransfer
  <2>1. /\ outbox' = <<TheMetadata, ResumeQuery(Tid)>> /\ sAt = "start" /\ sAt' = "info"
        /\ attempt' = 1 /\ toSender' = toSender
    BY <1>10 DEF StartTransfer, line
  <2>2. OneRun(outbox')
    <3>1. Len(outbox') <= 2 /\ outbox' \in Seq(SenderPdu)
      BY <2>1 DEF Calm
    <3>2. QED
      BY <3>1, ShortRuns
  <2>3. Stage' >= Stage + 4
    BY <2>1 DEF Stage, StageOf
  <2>4. QED
    BY <1>5, <1>8, <2>1, <2>2, <2>3
<1>11. CASE InfoTimeout
  BY <1>8, <1>9, <1>11 DEF InfoTimeout, line
<1>12. CASE ReadInfo
  <2>1. /\ sAt = "info" /\ toSender # <<>> /\ Len(toSender') <= Len(toSender)
        /\ Head(toSender) \in ReceiverPdu
    BY <1>1, <1>8, <1>12 DEF ReadInfo
  <2> DEFINE pdu == Head(toSender)
  <2>2. CASE pdu.type # "ResumeInfo" \/ pdu.tid # Tid
    BY <1>9, <1>12, <2>1, <2>2 DEF ReadInfo
  <2>3. CASE ~(pdu.type # "ResumeInfo" \/ pdu.tid # Tid) /\ pdu.first = UINT32_MAX
    <3>1. outbox' = <<Eof(Tid)>> /\ sAt' = "final"
      BY <1>12, <2>3 DEF ReadInfo
    <3>2. Len(outbox') = 1
      BY <3>1
    <3>3. Stage' >= Stage + 2
      BY <1>2, <2>1, <3>1 DEF Stage, StageOf
    <3>4. QED
      BY <1>6, <2>1, <3>1, <3>2, <3>3
  <2>4. CASE ~(pdu.type # "ResumeInfo" \/ pdu.tid # Tid) /\ pdu.first # UINT32_MAX
    <3>1. BeginChunk(pdu.first)
      BY <1>12, <2>4 DEF ReadInfo
    <3>2. pdu.first \in Nat
      BY <2>1, <2>4 DEF ReceiverPdu, NakPdu, AckPdu, ResumeInfoPdu
    <3>3. OneRun(outbox') /\ sAt' \in {"wait", "final"}
      BY <1>2, <3>1, <3>2, ChunkQueued
    <3>4. Stage' >= Stage + 4
      BY <1>2, <2>1, <3>3 DEF Stage, StageOf
    <3>5. QED
      BY <1>5, <2>1, <3>3, <3>4
  <2>5. QED
    BY <2>2, <2>3, <2>4
<1>13. CASE ChunkTimeout
  <2>1. outbox' = <<TheMetadata, Eof(Tid)>> /\ sAt' = "wait" /\ toSender' = <<>>
    BY <1>13 DEF ChunkTimeout, line
  <2>2. OneRun(outbox')
    <3>1. Len(outbox') <= 2 /\ outbox' \in Seq(SenderPdu)
      BY <2>1 DEF Calm
    <3>2. QED
      BY <3>1, ShortRuns
  <2>3. Stage' >= 4
    BY <2>1 DEF Stage, StageOf
  <2>4. QED
    BY <1>5, <2>1, <2>2, <2>3
<1>14. CASE FinalTimeout
  <2>1. outbox' = <<Eof(Tid)>> /\ sAt' = "final" /\ toSender' = <<>>
    BY <1>14 DEF FinalTimeout, line
  <2>2. Len(outbox') = 1
    BY <2>1
  <2>3. Stage' >= 2
    BY <2>1 DEF Stage, StageOf
  <2>4. QED
    BY <1>6, <2>1, <2>2, <2>3
<1>15. CASE Complete \/ IgnoreReplies
  BY <1>1, <1>7, <1>15 DEF Complete, IgnoreReplies, ReadBatch, script
<1>16. CASE ChunkAcked
  <2>1. BeginChunk(ci + 1) /\ toSender' = <<>> /\ ci + 1 \in Nat
    BY <1>2, <1>16 DEF ChunkAcked, ReadBatch
  <2>2. OneRun(outbox') /\ sAt' \in {"wait", "final"}
    BY <1>2, <2>1, ChunkQueued
  <2>3. Stage' >= 4
    BY <2>2 DEF Stage, StageOf
  <2>4. QED
    BY <1>5, <2>1, <2>2, <2>3
<1>17. CASE Retransmit
  <2>1. toSender' = <<>> /\ Naks # {} /\ sAt = "wait"
    BY <1>17 DEF Retransmit, ReadBatch
  <2>2. CASE HasPackets(LatestNak)
    <3>1. outbox' = NakPdus(LatestNak) /\ sAt' = "wait"
      BY <1>17, <2>1, <2>2 DEF Retransmit
    <3>2. LatestNak \in NakPdu
      BY <1>1, <2>1, LatestNakArrived
    <3>3. \E c : \A r \in LatestNak.missing : r.chunk = c
      BY <1>1, <2>1, LatestNakIsOne
    <3>4. OneRun(outbox')
      BY <1>2, <2>2, <3>1, <3>2, <3>3, NakIsOneRun
    <3>5. Stage' >= 4
      BY <3>1 DEF Stage, StageOf
    <3>6. QED
      BY <1>5, <2>1, <3>1, <3>4, <3>5
  <2>3. CASE ~HasPackets(LatestNak)
    BY <1>1, <1>7, <1>17, <2>1, <2>3 DEF Retransmit
  <2>4. QED
    BY <2>2, <2>3
<1>18. QED
  BY <1>1, <1>10, <1>11, <1>12, <1>13, <1>14, <1>15, <1>16, <1>17 DEF SenderStep

(* Two sequences in a row, when the first of the second one is taken out,  *)
(* or another takes its place.                                             *)
LEMMA TakenOut ==
  ASSUME NEW T, NEW q \in Seq(T), NEW b \in Seq(T), b # <<>>
  PROVE  /\ Len(q) + 1 \in 1 .. Len(q \o b) /\ (q \o b)[Len(q) + 1] = Head(b)
         /\ Len(q \o Tail(b)) = Len(q \o b) - 1
         /\ \A i \in 1 .. Len(q \o Tail(b)) :
              (q \o Tail(b))[i] = IF i < Len(q) + 1 THEN (q \o b)[i] ELSE (q \o b)[i + 1]
<1> DEFINE n == Len(q)
           m == Len(b)
           d == Tail(b)
<1>1. n \in Nat /\ m \in Nat \ {0}
  OBVIOUS
<1>2. /\ d \in Seq(T) /\ Len(d) = m - 1 /\ b[1] = Head(b)
      /\ \A i \in 1 .. m - 1 : d[i] = b[i + 1]
  OBVIOUS
<1>3. Len(q) = n /\ Len(b) = m
  OBVIOUS
<1> HIDE DEF n, m, d
<1>4. /\ Len(q \o b) = n + m
      /\ \A i \in 1 .. n + m : (q \o b)[i] = IF i <= n THEN q[i] ELSE b[i - n]
  <2>1. Len(q \o b) = Len(q) + Len(b)
    OBVIOUS
  <2>2. \A i \in 1 .. Len(q) + Len(b) : (q \o b)[i] = IF i <= Len(q) THEN q[i] ELSE b[i - Len(q)]
    BY R!ConcatAt
  <2>3. QED
    BY <1>3, <2>1, <2>2
<1>5. /\ Len(q \o d) = n + (m - 1)
      /\ \A i \in 1 .. n + (m - 1) : (q \o d)[i] = IF i <= n THEN q[i] ELSE d[i - n]
  <2>1. Len(q \o d) = Len(q) + Len(d)
    BY <1>2
  <2>2. \A i \in 1 .. Len(q) + Len(d) : (q \o d)[i] = IF i <= Len(q) THEN q[i] ELSE d[i - Len(q)]
    BY <1>2, R!ConcatAt
  <2>3. QED
    BY <1>2, <1>3, <2>1, <2>2
<1>6. ASSUME NEW i \in 1 .. n + (m - 1)
      PROVE  (q \o d)[i] = IF i < n + 1 THEN (q \o b)[i] ELSE (q \o b)[i + 1]
  <2>1. CASE i <= n
    <3>1. i \in 1 .. n + m /\ i < n + 1
      BY <1>1, <2>1
    <3>2. QED
      BY <1>4, <1>5, <2>1, <3>1
  <2>2. CASE ~(i <= n)
    <3>1. /\ i + 1 \in 1 .. n + m /\ ~(i < n + 1) /\ ~(i + 1 <= n)
          /\ i - n \in 1 .. m - 1 /\ (i - n) + 1 = (i + 1) - n
      BY <1>1, <2>2
    <3>2. d[i - n] = b[(i + 1) - n]
      BY <1>2, <3>1
    <3>3. (q \o d)[i] = d[i - n]
      BY <1>5, <2>2
    <3>4. (q \o b)[i + 1] = b[(i + 1) - n]
      <4>1. \A j \in 1 .. n + m : ~(j <= n) => (q \o b)[j] = b[j - n]
        BY <1>4
      <4>2. i + 1 \in 1 .. n + m /\ ~(i + 1 <= n)
        BY <3>1
      <4>3. QED
        BY <4>1, <4>2
    <3>5. QED
      BY <3>1, <3>2, <3>3, <3>4
  <2>3. QED
    BY <2>1, <2>2
<1>7. /\ n + 1 \in 1 .. n + m /\ n + (m - 1) = (n + m) - 1
      /\ ~(n + 1 <= n) /\ (n + 1) - n = 1
  BY <1>1
<1>8. (q \o b)[n + 1] = Head(b)
  BY <1>2, <1>4, <1>7
<1>9. QED
  BY <1>3, <1>4, <1>5, <1>6, <1>7, <1>8 DEF d

LEMMA Exchanged ==
  ASSUME NEW T, NEW q \in Seq(T), NEW b \in Seq(T), b # <<>>, NEW p \in T
  PROVE  /\ Len(Append(q, p) \o Tail(b)) = Len(q \o b)
         /\ \A i \in 1 .. Len(q \o b) :
              IF i = Len(q) + 1 THEN (Append(q, p) \o Tail(b))[i] = p
              ELSE (Append(q, p) \o Tail(b))[i] = (q \o b)[i]
<1> DEFINE n == Len(q)
           m == Len(b)
           d == Tail(b)
           r == Append(q, p)
<1>1. n \in Nat /\ m \in Nat \ {0}
  OBVIOUS
<1>2. /\ d \in Seq(T) /\ Len(d) = m - 1
      /\ \A i \in 1 .. m - 1 : d[i] = b[i + 1]
  OBVIOUS
<1>3. Len(q) = n /\ Len(b) = m
  OBVIOUS
<1>4. /\ r \in Seq(T) /\ Len(r) = n + 1 /\ r[n + 1] = p
      /\ \A i \in 1 .. n : r[i] = q[i]
  OBVIOUS
<1> HIDE DEF n, m, d, r
<1>5. /\ Len(q \o b) = n + m
      /\ \A i \in 1 .. n + m : (q \o b)[i] = IF i <= n THEN q[i] ELSE b[i - n]
  <2>1. Len(q \o b) = Len(q) + Len(b)
    OBVIOUS
  <2>2. \A i \in 1 .. Len(q) + Len(b) : (q \o b)[i] = IF i <= Len(q) THEN q[i] ELSE b[i - Len(q)]
    BY R!ConcatAt
  <2>3. QED
    BY <1>3, <2>1, <2>2
<1>6. /\ Len(r \o d) = n + m
      /\ \A i \in 1 .. n + m : (r \o d)[i] = IF i <= n + 1 THEN r[i] ELSE d[i - (n + 1)]
  <2> r \in Seq(T) /\ d \in Seq(T)
    BY <1>2, <1>4
  <2>1. Len(r \o d) = Len(r) + Len(d)
    OBVIOUS
  <2>2. \A i \in 1 .. Len(r) + Len(d) : (r \o d)[i] = IF i <= Len(r) THEN r[i] ELSE d[i - Len(r)]
    BY R!ConcatAt
  <2>3. Len(r) + Len(d) = n + m
    BY <1>1, <1>2, <1>4
  <2>4. QED
    BY <1>4, <2>1, <2>2, <2>3
<1>7. ASSUME NEW i \in 1 .. n + m
      PROVE  IF i = n + 1 THEN (r \o d)[i] = p ELSE (r \o d)[i] = (q \o b)[i]
  <2>1. CASE i = n + 1
    <3>1. i <= n + 1
      BY <1>1, <2>1
    <3>2. (r \o d)[i] = r[i]
      BY <1>6, <3>1
    <3>3. QED
      BY <1>4, <2>1, <3>2
  <2>2. CASE i <= n
    <3>1. i \in 1 .. n /\ i <= n + 1 /\ i # n + 1
      BY <1>1, <2>2
    <3>2. (r \o d)[i] = r[i] /\ (q \o b)[i] = q[i]
      BY <1>5, <1>6, <2>2, <3>1
    <3>3. QED
      BY <1>4, <3>1, <3>2
  <2>3. CASE i > n + 1
    <3>1. /\ ~(i <= n) /\ ~(i <= n + 1) /\ i # n + 1
          /\ i - (n + 1) \in 1 .. m - 1 /\ (i - (n + 1)) + 1 = i - n
      BY <1>1, <2>3
    <3>2. d[i - (n + 1)] = b[i - n]
      BY <1>2, <3>1
    <3>3. (r \o d)[i] = d[i - (n + 1)] /\ (q \o b)[i] = b[i - n]
      BY <1>5, <1>6, <3>1
    <3>4. QED
      BY <3>1, <3>2, <3>3
  <2>4. i = n + 1 \/ i <= n \/ i > n + 1
    BY <1>1
  <2>5. QED
    BY <2>1, <2>2, <2>3, <2>4
<1>8. QED
  BY <1>3, <1>5, <1>6, <1>7 DEF d, r

(* The next PDU is written, or lost, or is another one now.                *)
LEMMA NextWritten ==
  ASSUME Calm, Calm', outbox # <<>>, outbox' = Tail(outbox), NEW p, Transmit(p)
  PROVE  /\ Len(toReceiver) + 1 \in 1 .. Len(Pending) /\ Len(Pending') = Len(Pending)
         /\ Len(toReceiver') <= MaxToReceiver
         /\ \A i \in 1 .. Len(Pending) :
              IF i = Len(toReceiver) + 1 THEN Pending[i] = Head(outbox) /\ Pending'[i] = p
              ELSE Pending'[i] = Pending[i]
<1>1. /\ toReceiver \in Seq(SenderPdu) /\ outbox \in Seq(SenderPdu)
      /\ toReceiver' = Append(toReceiver, p) /\ Len(toReceiver) < MaxToReceiver
      /\ MaxToReceiver \in Nat /\ toReceiver' \in Seq(SenderPdu)
  BY LineAssumption DEF Calm, Transmit
<1>2. /\ Len(toReceiver') = Len(toReceiver) + 1 /\ Len(toReceiver') <= MaxToReceiver
      /\ p \in SenderPdu
  <2>1. toReceiver \in Seq(SenderPdu \cup {p})
    BY <1>1
  <2>2. /\ Len(toReceiver') = Len(toReceiver) + 1
        /\ toReceiver'[Len(toReceiver) + 1] = p /\ Len(toReceiver) \in Nat
    BY <1>1, <2>1
  <2>3. Len(toReceiver) + 1 \in 1 .. Len(toReceiver')
    BY <2>2
  <2>4. toReceiver'[Len(toReceiver) + 1] \in SenderPdu
    BY <1>1, <2>3
  <2>5. QED
    BY <1>1, <2>2, <2>4
<1>3. Pending = toReceiver \o outbox /\ Pending' = Append(toReceiver, p) \o Tail(outbox)
  BY <1>1 DEF Pending
<1>4. /\ Len(toReceiver) + 1 \in 1 .. Len(toReceiver \o outbox)
      /\ (toReceiver \o outbox)[Len(toReceiver) + 1] = Head(outbox)
  BY <1>1, TakenOut
<1>5. /\ Len(Append(toReceiver, p) \o Tail(outbox)) = Len(toReceiver \o outbox)
      /\ \A i \in 1 .. Len(toReceiver \o outbox) :
           IF i = Len(toReceiver) + 1 THEN (Append(toReceiver, p) \o Tail(outbox))[i] = p
           ELSE (Append(toReceiver, p) \o Tail(outbox))[i] = (toReceiver \o outbox)[i]
  BY <1>1, <1>2, Exchanged
<1>6. QED
  BY <1>2, <1>3, <1>4, <1>5

LEMMA NextLost ==
  ASSUME Calm, Calm', outbox # <<>>, outbox' = Tail(outbox), UNCHANGED toReceiver, NEW S
  PROVE  Cost(Pending', S) <= Cost(Pending, S)
<1> DEFINE k == Len(toReceiver) + 1
           x == Pending
           y == Pending'
<1>1. /\ toReceiver \in Seq(SenderPdu) /\ outbox \in Seq(SenderPdu)
      /\ x \in Seq(SenderPdu) /\ y \in Seq(SenderPdu)
  BY DEF Calm
<1>2. /\ k \in 1 .. Len(x) /\ Len(y) = Len(x) - 1
      /\ \A i \in 1 .. Len(y) : y[i] = IF i < k THEN x[i] ELSE x[i + 1]
  <2>1. x = toReceiver \o outbox /\ y = toReceiver \o Tail(outbox)
    BY DEF Pending
  <2>2. QED
    BY <1>1, <2>1, TakenOut
<1> HIDE DEF k, x, y
<1>3. Cost(y, S) <= Cost(x, S)
  BY <1>1, <1>2, OneLess
<1>4. QED
  BY <1>3 DEF x, y

LEMMA SendKeepsRoom ==
  ASSUME SenderShape, Calm, Calm', RoomLeft, SendNext, UNCHANGED receiver
  PROVE  RoomLeft'
<1> DEFINE k == Len(toReceiver) + 1
           d == Head(outbox)
<1>1. /\ outbox # <<>> /\ outbox' = Tail(outbox) /\ UNCHANGED <<sAt, attempt, toSender>>
      /\ outbox \in Seq(OwnWords) /\ KnownJob
      /\ Pending \in Seq(SenderPdu) /\ Pending' \in Seq(SenderPdu)
  BY DEF SendNext, SenderShape, Calm
<1>2. d \in SenderPdu
  BY <1>1 DEF Calm
<1>3. /\ Len(toSender) \in Nat /\ Cost(Pending, Served) \in Nat /\ Credit \in 0 .. 3
      /\ Owed = Len(toSender) + 2 * Cost(Pending, Served) + Credit
      /\ Cost(Pending', Served) \in Nat
  BY <1>1, Numbers, MarksFinite
<1>4. Owed' = Len(toSender) + 2 * Cost(Pending', Served) + Credit
  BY <1>1, SameDebt DEF Owed
<1>5. /\ MaxToReceiver \in Nat /\ Charged \in Nat /\ Stage \in Nat
      /\ Bound = 2 * MaxToReceiver + 3 + Charged + Stage
      /\ Stage' = Stage
  BY <1>1, Bounds DEF Stage
<1>6. ASSUME Len(toReceiver') <= MaxToReceiver, NEW n \in Nat,
             Cost(Pending', Served) <= Cost(Pending, Served) + n,
             Charged' = Charged + 2 * n
      PROVE  RoomLeft'
  <2>1. Bound' = 2 * MaxToReceiver + 3 + Charged + 2 * n + Stage
    BY <1>5, <1>6 DEF Bound
  <2>2. Owed <= Bound
    BY DEF RoomLeft
  <2> DEFINE L == Len(toSender)
             N == Cost(Pending, Served)
             P == Cost(Pending', Served)
             C == Credit
             X == Charged
             T == Stage
  <2>3. /\ L \in Nat /\ N \in Nat /\ P \in Nat /\ C \in Nat /\ X \in Nat /\ T \in Nat
        /\ MaxToReceiver \in Nat /\ P <= N + n
        /\ L + 2 * N + C <= 2 * MaxToReceiver + 3 + X + T
    BY <1>3, <1>5, <1>6, <2>2
  <2> HIDE DEF L, N, P, C, X, T
  <2>4. L + 2 * P + C <= 2 * MaxToReceiver + 3 + X + 2 * n + T
    BY <2>3
  <2>5. Owed' <= Bound'
    BY <1>4, <2>1, <2>4 DEF L, P, C, X, T
  <2>6. ~SenderSilent'
    BY <1>1 DEF RoomLeft, SenderSilent
  <2>7. QED
    BY <1>6, <2>5, <2>6 DEF RoomLeft
<1>7. ASSUME NEW p, Transmit(p), Alike(p, d), Charged' = Charged
      PROVE  RoomLeft'
  <2>1. /\ k \in 1 .. Len(Pending) /\ Len(Pending') = Len(Pending)
        /\ Len(toReceiver') <= MaxToReceiver
        /\ \A i \in 1 .. Len(Pending) :
             IF i = k THEN Pending[i] = d /\ Pending'[i] = p ELSE Pending'[i] = Pending[i]
    BY <1>1, <1>7, NextWritten
  <2> HIDE DEF k, d
  <2>2. \A i \in 1 .. Len(Pending) : Alike(Pending'[i], Pending[i])
    BY <1>7, <2>1 DEF Alike
  <2>3. Cost(Pending', Served) = Cost(Pending, Served)
    BY <1>1, <2>1, <2>2, SameMarks
  <2>4. Cost(Pending', Served) <= Cost(Pending, Served) + 0 /\ Charged' = Charged + 2 * 0
    BY <1>3, <1>5, <1>7, <2>3
  <2>5. QED
    BY <1>6, <2>1, <2>4
<1>8. CASE Transmit(d) /\ UNCHANGED <<faults, scenario>>
  <2>1. Charged' = Charged /\ Alike(d, d)
    BY <1>8, Charges DEF Alike
  <2>2. QED
    BY <1>7, <1>8, <2>1
<1>9. CASE Fault("lost") /\ UNCHANGED toReceiver
  <2>1. Cost(Pending', Served) <= Cost(Pending, Served)
    BY <1>1, <1>9, NextLost
  <2>2. /\ Cost(Pending', Served) <= Cost(Pending, Served) + 0
        /\ Charged' = Charged + 2 * 0
    BY <1>3, <1>5, <1>9, <2>1, Charges
  <2>3. Len(toReceiver') <= MaxToReceiver
    BY <1>9 DEF RoomLeft
  <2>4. QED
    BY <1>6, <2>2, <2>3
<1>10. CASE /\ d.type = "Data" /\ Transmit([d EXCEPT !.data = Garbage, !.ok = FALSE])
            /\ Fault("damaged")
  <2>1. d \in DataPdu
    BY <1>2, <1>10 DEF SenderPdu, MetadataPdu, EofPdu, ResumeQueryPdu, NoisePdu, DataPdu
  <2>2. Alike([d EXCEPT !.data = Garbage, !.ok = FALSE], d)
    BY <2>1 DEF Alike, DataPdu
  <2>3. Charged' = Charged
    BY <1>10, Charges
  <2>4. QED
    BY <1>7, <1>10, <2>2, <2>3
<1>11. CASE (\E p \in Misread(d) : Transmit(p)) /\ Fault("misread")
  <2>1. PICK p \in Misread(d) : Transmit(p)
    BY <1>11
  <2>2. /\ k \in 1 .. Len(Pending) /\ Len(Pending') = Len(Pending)
        /\ Len(toReceiver') <= MaxToReceiver
        /\ \A i \in 1 .. Len(Pending) :
             IF i = k THEN Pending[i] = d /\ Pending'[i] = p ELSE Pending'[i] = Pending[i]
    BY <1>1, <2>1, NextWritten
  <2> HIDE DEF k, d
  <2>3. \A i \in 1 .. Len(Pending) : i # k => Pending'[i] = Pending[i]
    BY <2>2
  <2>4. Cost(Pending', Served) <= Cost(Pending, Served) + 2
    BY <1>1, <2>2, <2>3, OneAltered
  <2>5. Charged' = Charged + 2 * 2
    BY <1>5, <1>11, Charges
  <2>6. QED
    BY <1>6, <2>2, <2>4, <2>5
<1>12. QED
  BY <1>8, <1>9, <1>10, <1>11 DEF SendNext

LEMMA SenderKeepsRoom ==
  ASSUME R!ShapeInv, SenderShape, SenderShape', Calm, Calm', R!NaksOfOneChunk, RoomLeft, Sender
  PROVE  RoomLeft'
<1>1. CASE SendNext
  BY <1>1, SendKeepsRoom DEF Sender
<1>2. CASE ~SendNext
  BY <1>2, PlansKeepRoom
<1>3. QED
  BY <1>1, <1>2

-----------------------------------------------------------------------------
(* The other steps: nothing new is written, and what they add is charged.  *)

LEMMA NextNumbers ==
  ASSUME Calm', SenderShape'
  PROVE  /\ Len(toSender') \in Nat /\ Cost(Pending', Served') \in Nat /\ Credit' \in 0 .. 3
         /\ Owed' = Len(toSender') + 2 * Cost(Pending', Served') + Credit'
         /\ Charged' \in Nat /\ Stage' \in 0 .. 12
         /\ Bound' = 2 * MaxToReceiver + 3 + Charged' + Stage'
<1>1. Cost(Pending', Served') \in Nat /\ Len(toSender') \in Nat
  BY MarksFinite DEF Calm
<1>2. Credit' \in 0 .. 3
  BY DEF Credit, Due
<1>3. faults'["kill"] \in Nat /\ faults'["crash"] \in Nat /\ faults'["misread"] \in Nat
  BY DEF SenderShape, FaultsCount, FaultKinds
<1>4. attempt' \in 0 .. 3
  BY DEF SenderShape
<1>5. Stage' \in 0 .. 12
  BY <1>4, StageFits DEF Stage
<1>6. Charged' \in Nat
  BY <1>3 DEF Charged
<1>7. /\ Owed' = Len(toSender') + 2 * Cost(Pending', Served') + Credit'
      /\ Bound' = 2 * MaxToReceiver + 3 + Charged' + Stage'
  BY DEF Owed, Bound
<1>8. QED
  BY <1>1, <1>2, <1>5, <1>6, <1>7

LEMMA ChargeCovers ==
  ASSUME SenderShape, SenderShape', Calm, Calm', RoomLeft,
         Len(toReceiver') <= MaxToReceiver, SenderSilent' => outbox' = <<>>,
         NEW n \in Nat, NEW m \in Nat,
         Len(toSender') <= Len(toSender),
         Cost(Pending', Served') <= Cost(Pending, Served) + n,
         Credit' <= Credit + m,
         Charged' + Stage' >= Charged + Stage + 2 * n + m
  PROVE  RoomLeft'
<1> DEFINE L == Len(toSender)
           M == Len(toSender')
           N == Cost(Pending, Served)
           P == Cost(Pending', Served')
           C == Credit
           D == Credit'
           X == Charged
           Y == Charged'
           S == Stage
           T == Stage'
<1>1. /\ L \in Nat /\ N \in Nat /\ C \in 0 .. 3 /\ Owed = L + 2 * N + C
  BY Numbers
<1>2. /\ M \in Nat /\ P \in Nat /\ D \in 0 .. 3 /\ Owed' = M + 2 * P + D
      /\ Y \in Nat /\ T \in 0 .. 12 /\ Bound' = 2 * MaxToReceiver + 3 + Y + T
  BY NextNumbers
<1>3. /\ MaxToReceiver \in Nat /\ X \in Nat /\ S \in 0 .. 12
      /\ Bound = 2 * MaxToReceiver + 3 + X + S
  BY Bounds
<1>4. Owed <= Bound
  BY DEF RoomLeft
<1>5. /\ M <= L /\ P <= N + n /\ D <= C + m /\ Y + T >= X + S + 2 * n + m
  OBVIOUS
<1> HIDE DEF L, M, N, P, C, D, X, Y, S, T
<1>6. L + 2 * N + C <= 2 * MaxToReceiver + 3 + X + S
  BY <1>1, <1>3, <1>4
<1>7. M + 2 * P + D <= 2 * MaxToReceiver + 3 + Y + T
  BY <1>1, <1>2, <1>3, <1>5, <1>6
<1>8. Owed' <= Bound'
  BY <1>2, <1>7
<1>9. QED
  BY <1>8 DEF RoomLeft

(* The receiver leaves, restarts or is started again.                      *)
LEMMA RestartKeepsRoom ==
  ASSUME SenderShape, SenderShape', Calm, Calm', RoomLeft,
         ReceiverLeaves \/ Reboot \/ ReceiverStarts
  PROVE  RoomLeft'
<1> USE DEF line, senderVars, script
<1>1. /\ UNCHANGED <<toReceiver, toSender, outbox, sAt, attempt>>
      /\ Pending' = Pending /\ Pending \in Seq(SenderPdu) /\ Stage' = Stage
  BY DEF ReceiverLeaves, Reboot, ReceiverStarts, StopLingering, Crash, Relaunch, Pending, Stage,
         Calm
<1>2. /\ Len(toReceiver') <= MaxToReceiver /\ (SenderSilent' => outbox' = <<>>)
      /\ Len(toSender') <= Len(toSender)
  <2>1. Len(toSender) \in Nat
    BY Numbers
  <2>2. QED
    BY <1>1, <2>1 DEF RoomLeft, SenderSilent
<1>3. /\ Charged \in Nat /\ Stage \in Nat /\ Credit \in Nat
      /\ Cost(Pending, Served) \in Nat /\ Cost(Pending', Served') \in Nat
  <2>1. Charged \in Nat /\ Stage \in 0 .. 12
    BY Bounds
  <2>2. Credit \in 0 .. 3 /\ Cost(Pending, Served) \in Nat
    BY Numbers
  <2>3. Cost(Pending', Served') \in Nat
    BY NextNumbers
  <2>4. QED
    BY <2>1, <2>2, <2>3
<1>4. CASE Reboot
  <2>1. Charged' = Charged + 3
    BY <1>4, Charges DEF Reboot
  <2>2. Cost(Pending', Served') <= Cost(Pending, Served) + 1
    BY <1>1, ServedOtherwise
  <2>3. Credit' <= 1
    BY <1>4 DEF Reboot, Crash, MemoryLost, ForgetChunk, Credit, Due
  <2>4. Credit' <= Credit + 1 /\ Charged' + Stage' >= Charged + Stage + 2 * 1 + 1
    <3>1. Credit' \in 0 .. 3
      BY NextNumbers
    <3>2. QED
      BY <1>1, <1>3, <2>1, <2>3, <3>1
  <2>5. QED
    BY <1>2, <2>2, <2>4, ChargeCovers
<1>5. CASE ReceiverStarts
  <2>1. UNCHANGED <<state, currentChunk, journal, faults>> /\ at = "exited" /\ at' = "boot"
    BY <1>5 DEF ReceiverStarts, Relaunch, memory, stable
  <2>2. Served' = Served /\ Credit' = Credit
    BY <2>1 DEF Served, Credit, VerifiesAtBoot, Due
  <2>3. Charged' = Charged
    BY <2>1, Charges
  <2>4. /\ Cost(Pending', Served') <= Cost(Pending, Served) + 0
        /\ Credit' <= Credit + 0 /\ Charged' + Stage' >= Charged + Stage + 2 * 0 + 0
    BY <1>1, <1>3, <2>2, <2>3
  <2>5. QED
    BY <1>2, <2>4, ChargeCovers
<1>6. CASE ReceiverLeaves
  <2>1. /\ SenderSilent /\ toReceiver = <<>> /\ at = "recv" /\ at' = "exited"
        /\ currentChunk' = UINT32_MAX /\ UNCHANGED <<journal, faults>>
    BY <1>6 DEF ReceiverLeaves, StopLingering, MemoryLost, ForgetChunk, stable
  <2>2. Pending' = <<>>
    BY <1>1, <2>1 DEF Pending, RoomLeft
  <2>3. Cost(Pending', Served') <= 0
    <3>1. Pending' \in Seq(SenderPdu) /\ Len(Pending') = 0
      BY <1>1, <2>2
    <3>2. Cost(Pending', Served') <= Len(Pending')
      BY <3>1, MarksFinite
    <3>3. QED
      BY <3>1, <3>2
  <2>4. Credit' = 0
    <3>1. ~VerifiesAtBoot
      BY <2>1 DEF Calm
    <3>2. VerifiesAtBoot' <=> VerifiesAtBoot
      BY <2>1 DEF VerifiesAtBoot
    <3>3. QED
      BY <2>1, <3>1, <3>2 DEF Credit, Due
  <2>5. Charged' = Charged
    BY <2>1, Charges
  <2>6. /\ Cost(Pending', Served') <= Cost(Pending, Served) + 0
        /\ Credit' <= Credit + 0 /\ Charged' + Stage' >= Charged + Stage + 2 * 0 + 0
    BY <1>1, <1>3, <2>3, <2>4, <2>5
  <2>7. QED
    BY <1>2, <2>6, ChargeCovers
<1>7. QED
  BY <1>4, <1>5, <1>6

(* A reply is lost, or nothing happens.                                    *)
LEMMA LossKeepsRoom ==
  ASSUME SenderShape, SenderShape', Calm, Calm', RoomLeft, LoseReply \/ UNCHANGED vars
  PROVE  RoomLeft'
<1>1. /\ UNCHANGED <<receiver, toReceiver, script>>
      /\ UNCHANGED faults \/ Fault("reply")
  BY DEF LoseReply, vars, senderVars, line
<1>2. Len(toSender') <= Len(toSender)
  <2>1. toSender \in Seq(ReceiverPdu) /\ Len(toSender) \in Nat
    BY DEF Calm
  <2>2. CASE LoseReply
    <3>1. PICK i \in DOMAIN toSender : toSender' = RemoveAt(toSender, i)
      BY <2>2 DEF LoseReply
    <3>2. /\ SubSeq(toSender, 1, i - 1) \in Seq(ReceiverPdu)
          /\ SubSeq(toSender, i + 1, Len(toSender)) \in Seq(ReceiverPdu)
          /\ Len(SubSeq(toSender, 1, i - 1)) = i - 1
          /\ Len(SubSeq(toSender, i + 1, Len(toSender))) = Len(toSender) - i
      BY <2>1
    <3>3. Len(toSender') = (i - 1) + (Len(toSender) - i)
      BY <3>1, <3>2 DEF RemoveAt
    <3>4. QED
      BY <2>1, <3>3
  <2>3. CASE UNCHANGED vars
    BY <2>1, <2>3 DEF vars, line
  <2>4. QED
    BY <2>2, <2>3
<1>3. /\ Pending' = Pending /\ Stage' = Stage /\ Len(toReceiver') <= MaxToReceiver
      /\ (SenderSilent' => outbox' = <<>>)
  BY <1>1 DEF script, Pending, Stage, RoomLeft, SenderSilent
<1>4. Charged' = Charged /\ Served' = Served /\ Credit' = Credit
  BY <1>1, Charges, SameDebt
<1>5. Charged \in Nat /\ Stage \in 0 .. 12 /\ Credit \in 0 .. 3 /\ Cost(Pending, Served) \in Nat
  BY Bounds, Numbers
<1>6. /\ Cost(Pending', Served') <= Cost(Pending, Served) + 0
      /\ Credit' <= Credit + 0 /\ Charged' + Stage' >= Charged + Stage + 2 * 0 + 0
  BY <1>3, <1>4, <1>5
<1>7. QED
  BY <1>2, <1>3, <1>6, ChargeCovers

(* The script is run again: what it had still to write is never written.   *)
LEMMA RunKeepsRoom ==
  ASSUME SenderShape, SenderShape', Calm, Calm', RoomLeft, Interrupted \/ NextRun
  PROVE  RoomLeft'
<1>1. /\ UNCHANGED <<receiver, toReceiver>> /\ outbox' = <<>> /\ sAt' = "start"
      /\ toSender' \in {toSender, <<>>}
  BY DEF Interrupted, NextRun, Rerun, NextJob, ByHand, Launch
<1>2. Stage' = 0 /\ Stage \in 0 .. 12 /\ Charged \in Nat
  BY <1>1, Bounds DEF Stage, StageOf
<1>3. Charged' + Stage' >= Charged + Stage + 2 * 0 + 0
  <2>1. CASE Interrupted
    <3>1. Charged' = Charged + 12
      BY <2>1, Charges DEF Interrupted, Rerun
    <3>2. QED
      BY <1>2, <3>1
  <2>2. CASE NextRun
    <3>1. Charged' = Charged
      BY <2>2, Charges DEF NextRun, NextJob
    <3>2. Stage = 0
      BY <2>2 DEF NextRun, NextJob, Ended, Stage, StageOf
    <3>3. QED
      BY <1>2, <3>1, <3>2
  <2>3. QED
    BY <2>1, <2>2
<1>4. /\ Served' = Served /\ Credit' = Credit /\ Credit \in 0 .. 3
      /\ Cost(Pending, Served) \in Nat /\ Cost(Pending', Served') \in Nat
  BY <1>1, SameDebt, Numbers, NextNumbers
<1>5. Cost(Pending', Served') <= Cost(Pending, Served)
  <2>1. /\ toReceiver \in Seq(SenderPdu) /\ outbox \in Seq(SenderPdu)
        /\ Pending = toReceiver \o outbox /\ Pending' = toReceiver
    BY <1>1 DEF Calm, Pending
  <2>2. Cost(toReceiver, Served) <= Cost(toReceiver \o outbox, Served)
    BY <2>1, Unwritten
  <2>3. QED
    BY <1>4, <2>1, <2>2
<1>6. /\ Cost(Pending', Served') <= Cost(Pending, Served) + 0 /\ Credit' <= Credit + 0
      /\ Len(toSender') <= Len(toSender)
  <2>1. toSender \in Seq(ReceiverPdu)
    BY DEF Calm
  <2>2. QED
    BY <1>1, <1>4, <1>5, <2>1
<1>7. Len(toReceiver') <= MaxToReceiver
  BY <1>1 DEF RoomLeft
<1>8. QED
  BY <1>1, <1>3, <1>6, <1>7, ChargeCovers

(* cfdp_send.sh is run again: the line is new.                             *)
LEMMA ScriptKeepsRoom ==
  ASSUME SenderShape', Calm', ScriptRunsAgain \/ ScriptStopped
  PROVE  RoomLeft'
<1>1. toReceiver' = <<>> /\ toSender' = <<>> /\ outbox' = <<>>
  BY DEF ScriptRunsAgain, ScriptStopped, SendScript, StartAnew, Launch
<1>2. MaxToReceiver \in Nat
  BY LineAssumption
<1>3. Pending' = <<>> /\ Pending' \in Seq(SenderPdu)
  BY <1>1 DEF Pending, Calm
<1>4. Cost(Pending', Served') <= 0
  BY <1>3, MarksFinite
<1>5. /\ Cost(Pending', Served') \in Nat /\ Credit' \in 0 .. 3
      /\ Owed' = Len(toSender') + 2 * Cost(Pending', Served') + Credit'
      /\ Charged' \in Nat /\ Stage' \in 0 .. 12
      /\ Bound' = 2 * MaxToReceiver + 3 + Charged' + Stage'
  BY NextNumbers
<1>6. Len(toSender') = 0 /\ Len(toReceiver') <= MaxToReceiver
  BY <1>1, <1>2
<1>7. Owed' <= Bound'
  BY <1>2, <1>4, <1>5, <1>6
<1>8. QED
  BY <1>1, <1>6, <1>7 DEF RoomLeft

-----------------------------------------------------------------------------
(* The replies on the line are few.                                        *)

Regular == R!ShapeInv /\ SenderShape /\ Orderly

LEMMA AlwaysRegular == Spec => [](Regular /\ Calm)
<1>1. Init => Orderly
  <2> SUFFICES ASSUME Init PROVE Orderly
    OBVIOUS
  <2>1. R!Init /\ toSender = <<>>
    BY InitShapes DEF Init, ReceiverInit, LineInit
  <2>2. R!NoFullList /\ R!Paced
    BY <2>1, R!InitPaced, ReceiverAssumptions
  <2>3. R!NaksOfOneChunk
    BY <2>1 DEF R!NaksOfOneChunk
  <2>4. QED
    BY <2>2, <2>3 DEF Orderly
<1>2. R!ShapeInv /\ Orderly /\ [R!Next]_(R!vars) => Orderly'
  <2> SUFFICES ASSUME R!ShapeInv, Orderly, [R!Next]_(R!vars) PROVE Orderly'
    OBVIOUS
  <2>1. R!NoFullList'
    BY R!NextKeepsNoFullList, ReceiverAssumptions DEF Orderly
  <2>2. R!Paced'
    BY R!NextKeepsPaced, ReceiverAssumptions DEF Orderly
  <2>3. R!NaksOfOneChunk'
    BY R!NextKeepsNaks, ReceiverAssumptions DEF Orderly
  <2>4. QED
    BY <2>1, <2>2, <2>3 DEF Orderly
<1>3. R!ShapeInv /\ SenderShape /\ Orderly => Calm
  BY AlwaysCalm
<1>4. Spec => []Orderly
  <2>1. R!ShapeInv /\ SenderShape /\ Orderly /\ [Next]_vars => Orderly'
    BY <1>2, NextShapes
  <2>2. QED
    BY <1>1, <2>1, AlwaysShapes, PTL DEF Spec
<1>5. R!ShapeInv /\ SenderShape /\ Orderly => Regular /\ Calm
  BY <1>3 DEF Regular
<1>6. QED
  BY <1>4, <1>5, AlwaysShapes, PTL

LEMMA InitRoom ==
  ASSUME Init, Calm
  PROVE  RoomLeft
<1>1. toReceiver = <<>> /\ toSender = <<>> /\ outbox = <<>> /\ SenderShape
  BY InitShapes DEF Init, ReceiverInit, LineInit, SenderInit
<1>2. Pending = <<>> /\ Pending \in Seq(SenderPdu)
  BY <1>1 DEF Pending, Calm
<1>3. Cost(Pending, Served) <= 0
  BY <1>2, MarksFinite
<1>4. /\ Cost(Pending, Served) \in Nat /\ Credit \in 0 .. 3
      /\ Owed = Len(toSender) + 2 * Cost(Pending, Served) + Credit
  BY Numbers
<1>5. /\ MaxToReceiver \in Nat /\ Charged \in Nat /\ Stage \in 0 .. 12
      /\ Bound = 2 * MaxToReceiver + 3 + Charged + Stage
  BY <1>1, Bounds
<1>6. Len(toSender) = 0 /\ Len(toReceiver) <= MaxToReceiver
  BY <1>1, <1>5
<1>7. Owed <= Bound
  BY <1>3, <1>4, <1>5, <1>6
<1>8. QED
  BY <1>1, <1>6, <1>7 DEF RoomLeft

LEMMA NextKeepsRoom ==
  ASSUME Regular, Regular', Calm, Calm', RoomLeft, [Next]_vars
  PROVE  RoomLeft'
<1>1. R!ShapeInv /\ SenderShape /\ R!NaksOfOneChunk /\ SenderShape'
  BY DEF Regular, Orderly
<1>2. CASE Receiver
  <2>1. Owed' <= Owed
    BY <1>2, ReceiverOwesLess
  <2>2. UNCHANGED <<faults, sAt, attempt, outbox>> /\ Len(toReceiver') <= Len(toReceiver)
    <3>1. UNCHANGED <<faults, sAt, attempt, outbox>>
      BY <1>2 DEF Receiver, senderVars, script
    <3>2. toReceiver' = toReceiver \/ (toReceiver # <<>> /\ toReceiver' = Tail(toReceiver))
      BY <1>2
         DEF Receiver, ReceiverStep, BootFresh, BootResume, DropNoise, IgnoreMetadata,
             ReackTransfer, AcceptMetadata, CreateJournal, DropData, ReackData, StoreData,
             WriteChunk, MarkChunk, AckChunk, DropEof, AcceptEof, NakCurrentChunk,
             NakMissingChunk, AwaitMoreChunks, RejectFile, AcceptFile, CloseTransfer,
             AnswerResumeQuery, Receive, line
    <3>3. toReceiver \in Seq(SenderPdu)
      BY DEF Calm
    <3>4. QED
      BY <3>1, <3>2, <3>3
  <2>3. Bound' = Bound /\ (SenderSilent' => outbox' = <<>>)
    <3>1. Charged' = Charged
      BY <1>1, <2>2, Charges
    <3>2. QED
      BY <2>2, <3>1 DEF Bound, Stage, SenderSilent, RoomLeft
  <2>4. /\ Owed \in Nat /\ Owed' \in Nat /\ Bound \in Nat /\ MaxToReceiver \in Nat
        /\ Len(toReceiver) \in Nat /\ Len(toReceiver') \in Nat
    <3>1. Owed \in Nat
      BY Numbers
    <3>2. Owed' \in Nat
      BY <1>1, NextNumbers
    <3>3. Bound \in Nat /\ MaxToReceiver \in Nat
      BY <1>1, Bounds
    <3>4. QED
      BY <3>1, <3>2, <3>3 DEF Calm
  <2>5. Owed <= Bound /\ Len(toReceiver) <= MaxToReceiver
    BY DEF RoomLeft
  <2>6. Owed' <= Bound' /\ Len(toReceiver') <= MaxToReceiver
    BY <2>1, <2>2, <2>3, <2>4, <2>5
  <2>7. QED
    BY <2>3, <2>6 DEF RoomLeft
<1>3. CASE ReceiverLeaves \/ Reboot \/ ReceiverStarts
  BY <1>1, <1>3, RestartKeepsRoom
<1>4. CASE Sender
  BY <1>1, <1>4, SenderKeepsRoom
<1>5. CASE Interrupted \/ NextRun
  BY <1>1, <1>5, RunKeepsRoom
<1>6. CASE ScriptRunsAgain \/ ScriptStopped
  BY <1>1, <1>6, ScriptKeepsRoom
<1>7. CASE LoseReply \/ UNCHANGED vars
  BY <1>1, <1>7, LossKeepsRoom
<1>8. QED
  BY <1>2, <1>3, <1>4, <1>5, <1>6, <1>7 DEF Next

LEMMA AlwaysRoom == Spec => []RoomLeft
<1>1. Init /\ Calm => RoomLeft
  BY InitRoom
<1>2. (Regular /\ Calm) /\ (Regular /\ Calm)' /\ RoomLeft /\ [Next]_vars => RoomLeft'
  BY NextKeepsRoom
<1>3. QED
  BY <1>1, <1>2, AlwaysRegular, PTL DEF Spec

(* What the faults account for, and what nobody has read of it.            *)
Replies(kills, crashes, misreads) ==
  2 * MaxToReceiver + 15 + 12 * kills + 3 * crashes + 4 * misreads

FewReplies ==
  Len(toSender) <= Replies(faults["kill"], faults["crash"], faults["misread"])

(* However large the files and the chunks, however many runs, timeouts,    *)
(* lost and damaged PDUs: what the receiver has written and nobody has     *)
(* read is bounded by the length of the other queue and by the number of   *)
(* kills, reboots and misread headers.  A chunk with holes is NAKed once   *)
(* per EOF, and not for every packet (CfdpReceiver.cpp:256).               *)
THEOREM RepliesBounded == Spec => []FewReplies
<1>1. SenderShape /\ Calm /\ RoomLeft => FewReplies
  <2> SUFFICES ASSUME SenderShape, Calm, RoomLeft PROVE FewReplies
    OBVIOUS
  <2>1. /\ Len(toSender) \in Nat /\ Cost(Pending, Served) \in Nat /\ Credit \in 0 .. 3
        /\ Owed = Len(toSender) + 2 * Cost(Pending, Served) + Credit
    BY Numbers
  <2>2. /\ MaxToReceiver \in Nat /\ Charged \in Nat /\ Stage \in 0 .. 12
        /\ Bound = 2 * MaxToReceiver + 3 + Charged + Stage
    BY Bounds
  <2>3. Owed <= Bound
    BY DEF RoomLeft
  <2>4. Len(toSender) <= 2 * MaxToReceiver + 15 + Charged
    BY <2>1, <2>2, <2>3
  <2> DEFINE k == faults["kill"]
             c == faults["crash"]
             m == faults["misread"]
  <2>5. k \in Nat /\ c \in Nat /\ m \in Nat
    BY DEF SenderShape, FaultsCount, FaultKinds
  <2>6. Charged = 12 * k + 3 * c + 4 * m
    BY DEF Charged
  <2> HIDE DEF k, c, m
  <2>7. 2 * MaxToReceiver + 15 + Charged = Replies(k, c, m)
    BY <2>2, <2>5, <2>6 DEF Replies
  <2>8. QED
    BY <2>4, <2>7 DEF FewReplies, k, c, m
<1>2. QED
  BY <1>1, AlwaysShapes, AlwaysRegular, AlwaysRoom, PTL

(* A line that holds more replies than those.                              *)
EnoughRoom ==
  \A s \in Scenarios :
    MaxToSender > Replies(s.faults["kill"], s.faults["crash"], s.faults["misread"])

(* On such a line the receiver never waits in a write, so that the two     *)
(* sides are never both stopped in one (CfdpReceiver.cpp:256).             *)
THEOREM NeverBothBlocked == ASSUME EnoughRoom PROVE Spec => []NoStandoff
<1>1. SenderShape /\ FewReplies /\ Calm => NoStandoff
  <2> SUFFICES ASSUME SenderShape, FewReplies, Calm PROVE Len(toSender) < MaxToSender
    BY LineAssumption DEF NoStandoff, Calm
  <2>1. /\ faults["kill"] \in Nat /\ faults["crash"] \in Nat /\ faults["misread"] \in Nat
        /\ faults["kill"] <= MaxFaults["kill"] /\ faults["crash"] <= MaxFaults["crash"]
        /\ faults["misread"] <= MaxFaults["misread"]
    BY DEF SenderShape, FaultsCount, FaultKinds
  <2>2. /\ MaxFaults["kill"] \in Nat /\ MaxFaults["crash"] \in Nat
        /\ MaxFaults["misread"] \in Nat
        /\ MaxToSender > Replies(MaxFaults["kill"], MaxFaults["crash"], MaxFaults["misread"])
    <3>1. scenario \in Scenarios
      BY DEF SenderShape, KnownJob
    <3>2. QED
      BY <3>1, ScenariosAssumption, EnoughRoom DEF EnoughRoom, MaxFaults, FaultKinds
  <2>3. MaxToReceiver \in Nat /\ MaxToSender \in Nat /\ Len(toSender) \in Nat
    BY LineAssumption DEF Calm
  <2> DEFINE k == faults["kill"]
             c == faults["crash"]
             m == faults["misread"]
             kk == MaxFaults["kill"]
             cc == MaxFaults["crash"]
             mm == MaxFaults["misread"]
             l == Len(toSender)
  <2>4. l <= Replies(k, c, m)
    BY DEF FewReplies
  <2> HIDE DEF k, c, m, kk, cc, mm, l
  <2>5. /\ k \in Nat /\ c \in Nat /\ m \in Nat /\ kk \in Nat /\ cc \in Nat /\ mm \in Nat
        /\ k <= kk /\ c <= cc /\ m <= mm /\ l \in Nat /\ MaxToSender > Replies(kk, cc, mm)
    BY <2>1, <2>2, <2>3 DEF k, c, m, kk, cc, mm, l
  <2>6. l < MaxToSender
    BY <2>3, <2>4, <2>5 DEF Replies
  <2>7. QED
    BY <2>6 DEF l
<1>2. QED
  BY <1>1, AlwaysShapes, AlwaysRegular, RepliesBounded, PTL
=============================================================================

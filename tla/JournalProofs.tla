---------------------------- MODULE JournalProofs ----------------------------
(***************************************************************************)
(* The steps of Journal.cpp implement the register of Journal.h.           *)
(***************************************************************************)
EXTENDS JournalStore, TLAPS

-----------------------------------------------------------------------------
(* What a file may hold.                                                   *)

(* The first n fields of the image of s.                                   *)
Cut(s, n) == SubSeq(Image(s), 1, n)

(* A path holds nothing, or the beginning of the image of a journal.       *)
FileOK(file) == file = NoFile \/ \E s \in JournalState : \E n \in 0 .. 2 : file = Cut(s, n)

(* What create(), mark_chunk_done() and mark_eof_received() write.         *)
Written(s) ==
  \/ s \in NewStates
  \/ Readable(Read) /\ \E c \in Chunks(Read.size) : s = MarkedDone(Read, c)
  \/ Readable(Read) /\ s = MarkedEof(Read)

StoreInv ==
  /\ FileOK(bin) /\ \A file \in afterCut : FileOK(file)
  /\ step \in {"open", "write"} => pending \in JournalState /\ Written(pending)
  /\ step = "write" => \E n \in 0 .. 2 : tmp = Cut(pending, n)

-----------------------------------------------------------------------------

(* The image of a journal has two parts, and no part of it is an absent    *)
(* file.                                                                   *)
LEMMA CutFacts ==
  ASSUME NEW s \in JournalState, NEW n \in 0 .. 2
  PROVE  /\ Cut(s, n) # NoFile
         /\ Len(Cut(s, n)) = n
         /\ \A i \in 1 .. n : Cut(s, n)[i] = Image(s)[i]
         /\ n < 2 => Append(Cut(s, n), Image(s)[n + 1]) = Cut(s, n + 1)
         /\ \A m \in 0 .. n : SubSeq(Cut(s, n), 1, m) = Cut(s, m)
<1> DEFINE D == JournalState \cup SUBSET Nat
<1>1. [s EXCEPT !.done = {}] \in JournalState /\ s.done \in SUBSET Nat
  BY DEF JournalState
<1>2. Image(s) \in Seq(D) /\ Len(Image(s)) = 2
  BY <1>1 DEF Image
<1> HIDE DEF D
<1>3. /\ Cut(s, n) \in Seq(D) /\ Len(Cut(s, n)) = n
      /\ \A i \in 1 .. n : Cut(s, n)[i] = Image(s)[i]
  BY <1>2 DEF Cut
<1>4. Cut(s, n) # NoFile
  BY <1>3, NoFileAssumption DEF D
<1>5. ASSUME n < 2
      PROVE  Append(Cut(s, n), Image(s)[n + 1]) = Cut(s, n + 1)
  BY <1>2, <1>5 DEF Cut
<1>6. ASSUME NEW m \in 0 .. n
      PROVE  SubSeq(Cut(s, n), 1, m) = Cut(s, m)
  BY <1>2 DEF Cut
<1>7. QED
  BY <1>3, <1>4, <1>5, <1>6

(* load() reads a whole image back as it was written, and refuses the      *)
(* beginning of one.                                                       *)
LEMMA LoadFacts ==
  ASSUME NEW s \in JournalState, NEW n \in 0 .. 2
  PROVE  Load(Cut(s, n)) = IF n = 2 THEN s ELSE CorruptJournal
<1>1. Cut(s, n) # NoFile /\ (Whole(Cut(s, n)) <=> n = 2)
  BY CutFacts DEF Whole
<1>2. CASE n < 2
  BY <1>1, <1>2 DEF Load
<1>3. CASE n = 2
  <2>1. Cut(s, 2)[1] = [s EXCEPT !.done = {}] /\ Cut(s, 2)[2] = s.done
    BY <1>3, CutFacts DEF Image
  <2>2. Load(Cut(s, 2)) = [Cut(s, 2)[1] EXCEPT !.done = Cut(s, 2)[2]]
    BY <1>1, <1>3 DEF Load
  <2>3. [[s EXCEPT !.done = {}] EXCEPT !.done = s.done] = s
    BY DEF JournalState
  <2>4. QED
    BY <1>3, <2>1, <2>2, <2>3
<1>4. QED
  BY <1>2, <1>3

(* What load() returns.                                                    *)
LEMMA LoadType ==
  ASSUME NEW file, FileOK(file)
  PROVE  /\ Load(file) \in JournalState \cup {NoJournal, CorruptJournal}
         /\ Readable(Load(file)) => Load(file) \in JournalState
<1>1. Load(NoFile) = NoJournal
  BY DEF Load
<1>2. QED
  BY <1>1, LoadFacts, JournalSentinels DEF FileOK, Readable

(* The marks keep a journal a journal.                                     *)
LEMMA MarkTypes ==
  ASSUME NEW j \in JournalState, NEW c \in Chunks(j.size)
  PROVE  MarkedDone(j, c) \in JournalState
<1>1. c \in Nat
  BY DEF Chunks
<1>2. QED
  BY <1>1 DEF MarkedDone, JournalState

LEMMA MarkEofTypes ==
  ASSUME NEW j \in JournalState
  PROVE  MarkedEof(j) \in JournalState
BY DEF MarkedEof, JournalState

(* Nothing is written yet of an empty file.                                *)
LEMMA CutNone ==
  ASSUME NEW s \in JournalState
  PROVE  Cut(s, 0) = <<>>
BY DEF Cut

-----------------------------------------------------------------------------
(* The invariant.                                                          *)

LEMMA InitStore == Init => StoreInv
BY DEF Init, StoreInv, FileOK

(* atomic_write: the temporary file grows into the image of pending, and   *)
(* is renamed only when it is whole.                                       *)
LEMMA WritingKeepsStore ==
  ASSUME StoreInv, OpenTmp \/ WriteTmp \/ Rename \/ Fail
  PROVE  StoreInv'
<1>1. CASE OpenTmp
  <2>1. pending \in JournalState /\ Written(pending) /\ step' = "write"
    BY <1>1 DEF OpenTmp, StoreInv
  <2>2. Written(pending)'
    BY <1>1, <2>1 DEF OpenTmp, Written, Read
  <2>3. tmp' = Cut(pending', 0)
    BY <1>1, <2>1, CutNone DEF OpenTmp
  <2>4. QED
    BY <1>1, <2>1, <2>2, <2>3 DEF OpenTmp, StoreInv
<1>2. CASE WriteTmp
  <2>1. pending \in JournalState /\ Written(pending)
    BY <1>2 DEF WriteTmp, StoreInv
  <2>2. UNCHANGED <<step, pending, chunk, bin, afterCut>>
    BY <1>2 DEF WriteTmp, call
  <2>3. Written(pending)'
    BY <2>1, <2>2 DEF Written, Read
  <2>4. PICK n \in 0 .. 2 : tmp = Cut(pending, n)
    BY <1>2 DEF WriteTmp, StoreInv
  <2>5. n < 2
    BY <1>2, <2>1, <2>4, CutFacts DEF WriteTmp, Whole
  <2>6. tmp' = Cut(pending', n + 1)
    BY <1>2, <2>1, <2>2, <2>4, <2>5, CutFacts DEF WriteTmp
  <2>7. n + 1 \in 0 .. 2
    BY <2>5
  <2>8. QED
    BY <2>1, <2>2, <2>3, <2>6, <2>7 DEF StoreInv
<1>3. CASE Rename
  <2>1. PICK n \in 0 .. 2 : pending \in JournalState /\ tmp = Cut(pending, n)
    BY <1>3 DEF Rename, StoreInv
  <2>2. FileOK(tmp)
    BY <2>1 DEF FileOK
  <2>3. \A file \in Prefixes(tmp) : FileOK(file)
    BY <2>1, CutFacts DEF Prefixes, FileOK
  <2>4. QED
    BY <1>3, <2>2, <2>3 DEF Rename, Return, StoreInv
<1>4. CASE Fail
  BY <1>4 DEF Fail, Return, files, StoreInv
<1>5. QED
  BY <1>1, <1>2, <1>3, <1>4

(* The calls of the receiver: what they give atomic_write is a change of   *)
(* what state.bin holds, or a new transfer.                                *)
LEMMA CallKeepsStore ==
  ASSUME StoreInv,
         \/ Announce \/ WriteData \/ SyncData \/ MarkChunk \/ MarkEofReceived
         \/ Finish \/ Boot
  PROVE  StoreInv'
<1>1. FileOK(NoFile)
  BY DEF FileOK
<1>2. CASE Announce
  BY <1>1, <1>2, NewStatesAssumption DEF Announce, Start, RemoveFile, Written, StoreInv
<1>3. CASE WriteData \/ SyncData
  BY <1>3 DEF WriteData, SyncData, files, StoreInv
<1>4. CASE MarkChunk \/ MarkEofReceived
  <2>1. UNCHANGED <<tmp, bin, afterCut>>
    BY <1>4 DEF MarkChunk, MarkEofReceived, files
  <2>2. Readable(Read) => Read \in JournalState
    BY LoadType DEF StoreInv, Read
  <2>3. step' \in {"open", "idle"}
    BY <1>4 DEF MarkChunk, MarkEofReceived, Start, Return
  <2>4. ASSUME step' = "open"
        PROVE  pending' \in JournalState /\ Written(pending')
    BY <1>4, <2>2, <2>4, MarkTypes, MarkEofTypes
       DEF MarkChunk, MarkEofReceived, Start, Return, Written
  <2>5. Written(pending') => Written(pending)'
    BY <2>1 DEF Written, Read
  <2>6. QED
    BY <2>1, <2>3, <2>4, <2>5 DEF StoreInv
<1>5. CASE Finish
  BY <1>1, <1>5 DEF Finish, RemoveFile, call, StoreInv
<1>6. CASE Boot
  BY <1>1, <1>6 DEF Boot, RemoveFile, Return, files, StoreInv
<1>7. QED
  BY <1>2, <1>3, <1>4, <1>5, <1>6

LEMMA NextKeepsStore ==
  ASSUME StoreInv, [Next]_vars
  PROVE  StoreInv'
<1>1. CASE Kill
  BY <1>1 DEF Kill, Dies, Return, files, StoreInv
<1>2. CASE PowerCut
  BY <1>2 DEF PowerCut, Dies, Return, StoreInv
<1>3. CASE Writeback \/ UNCHANGED vars
  <2>1. UNCHANGED <<step, pending, tmp, bin>> /\ \A file \in afterCut' : FileOK(file)
    BY <1>3 DEF Writeback, vars, call, files, StoreInv
  <2>2. Written(pending) => Written(pending)'
    BY <2>1 DEF Written, Read
  <2>3. QED
    BY <2>1, <2>2 DEF StoreInv
<1>4. QED
  BY <1>1, <1>2, <1>3, WritingKeepsStore, CallKeepsStore DEF Next

(* The temporary file is always the beginning of what is being written,    *)
(* and that is one change of the journal in place (Journal.cpp:89-99).     *)
THEOREM StoreInvariance == Spec => []StoreInv
<1>1. Init => StoreInv
  BY InitStore
<1>2. StoreInv /\ [Next]_vars => StoreInv'
  BY NextKeepsStore
<1>3. QED
  BY <1>1, <1>2, PTL DEF Spec

-----------------------------------------------------------------------------
(* The refinement.                                                         *)

(* The new contents, or what is left of them.                              *)
LEMMA PrefixesLoad ==
  ASSUME NEW s \in JournalState
  PROVE  {Load(file) : file \in Prefixes(Cut(s, 2))} = {s, CorruptJournal}
<1>1. Prefixes(Cut(s, 2)) = {Cut(s, n) : n \in 0 .. 2}
  BY CutFacts DEF Prefixes
<1>2. Load(Cut(s, 0)) = CorruptJournal /\ Load(Cut(s, 2)) = s
  BY LoadFacts
<1>3. \A n \in 0 .. 2 : Load(Cut(s, n)) \in {s, CorruptJournal}
  BY LoadFacts
<1>4. QED
  BY <1>1, <1>2, <1>3

(* The rename is the one change of the register.                           *)
LEMMA RenameRefines ==
  ASSUME StoreInv, Rename
  PROVE  Register!Next
<1>1. PICK n \in 0 .. 2 : pending \in JournalState /\ Written(pending) /\ tmp = Cut(pending, n)
  BY DEF Rename, StoreInv
<1>2. n = 2
  BY <1>1, CutFacts DEF Rename, Flushed, Whole
<1>3. Read' = pending
  BY <1>1, <1>2, LoadFacts DEF Rename, Read
<1>4. {Load(file) : file \in afterCut'}
        = {Load(file) : file \in afterCut} \cup {pending, CorruptJournal}
  <2>1. {Load(file) : file \in Prefixes(tmp)} = {pending, CorruptJournal}
    BY <1>1, <1>2, PrefixesLoad
  <2>2. afterCut' = afterCut \cup Prefixes(tmp)
    BY DEF Rename
  <2>3. QED
    BY <2>1, <2>2
<1>5. Register!Record(pending)
  BY <1>3, <1>4 DEF Register!Record
<1>6. CASE pending \in NewStates
  BY <1>5, <1>6 DEF Register!Create, Register!Next
<1>7. CASE Readable(Read) /\ \E c \in Chunks(Read.size) : pending = MarkedDone(Read, c)
  BY <1>5, <1>7
     DEF Register!Next, Register!MarkDone, Register!MarkedDone, Register!Readable,
         Register!Chunks, Register!TotalChunks, MarkedDone, Readable, Chunks, TotalChunks
<1>8. CASE Readable(Read) /\ pending = MarkedEof(Read)
  BY <1>5, <1>8
     DEF Register!Next, Register!MarkEof, Register!MarkedEof, Register!Readable,
         MarkedEof, Readable
<1>9. QED
  BY <1>1, <1>6, <1>7, <1>8 DEF Written

LEMMA NextRefines ==
  ASSUME StoreInv, [Next]_vars
  PROVE  [Register!Next]_Register!vars
<1>1. CASE Rename
  BY <1>1, RenameRefines
<1>2. CASE UNCHANGED <<bin, afterCut>>
  BY <1>2 DEF Register!vars, Read
<1>3. CASE RemoveFile
  <2>1. Read' = NoJournal
    BY <1>3 DEF RemoveFile, Read, Load
  <2>2. {Load(file) : file \in afterCut'}
          = {Load(file) : file \in afterCut} \cup {NoJournal}
    BY <1>3 DEF RemoveFile, Load
  <2>3. QED
    BY <2>1, <2>2 DEF Register!Remove, Register!Next
<1>4. CASE PowerCut
  <2>1. Read' \in {Load(file) : file \in afterCut}
    BY <1>4 DEF PowerCut, Read
  <2>2. {Load(file) : file \in afterCut'} = {Read'}
    BY <1>4 DEF PowerCut, Read
  <2>3. QED
    BY <2>1, <2>2 DEF Register!PowerCut, Register!Next
<1>5. CASE Writeback
  BY <1>5 DEF Writeback, Read, Register!Settle, Register!Next
<1>6. QED
  BY <1>1, <1>2, <1>3, <1>4, <1>5
     DEF Next, OpenTmp, WriteTmp, Fail, Announce, WriteData, SyncData, MarkChunk,
         MarkEofReceived, Finish, Boot, Kill, files, vars

(* Whatever fails or dies in the middle of atomic_write, state.bin is one  *)
(* register that changes at once: what load() finds is what create(), the  *)
(* two marks and remove() made of it (Journal.h:28-30), for files of every *)
(* number of chunks.                                                       *)
THEOREM StoreImplementsRegister == Spec => ImplementsRegister
<1>1. Init => Register!Init
  BY DEF Init, Register!Init, Read, Load
<1>2. StoreInv /\ [Next]_vars => [Register!Next]_Register!vars
  BY NextRefines
<1>3. QED
  BY <1>1, <1>2, StoreInvariance, PTL DEF Spec, ImplementsRegister, Register!Spec

-----------------------------------------------------------------------------
(* Data goes first.                                                        *)

(* What load() may find of the transfer last announced, now or after a     *)
(* power cut.                                                              *)
Held == {Load(file) : file \in afterCut \cup {bin}}
Ours == {s \in Held : Readable(s) /\ s.sum = latest}

OnDevice(chunks) == \A c \in chunks : c \in DOMAIN device /\ device[c] = latest

Behind(chunks) == \A s \in Ours : s.done \subseteq chunks

(* No version is ahead of state.bin, and that is not ahead of memory.  A   *)
(* journal of a transfer before the last can only be at work when a power  *)
(* cut has left none of the last.                                          *)
VersionsInOrder ==
  Readable(Read) => IF Read.sum = latest THEN Behind(Read.done) ELSE Ours = {}

MemoryAhead ==
  transfer # NoTransfer =>
    /\ Readable(Read) => Read.sum = transfer
    /\ IF transfer = latest THEN Behind(done) ELSE Ours = {}

(* What is being written is between the two.                               *)
PendingOnDevice ==
  step \in {"open", "write"} =>
    /\ transfer # NoTransfer /\ pending.sum = transfer
    /\ transfer = latest =>
         pending.done \subseteq done /\ OnDevice(pending.done) /\ Behind(pending.done)

FlushInOrder ==
  step \in {"data", "mark"} =>
    /\ transfer # NoTransfer /\ chunk \in DOMAIN device
    /\ step = "data" => chunk \notin done
    /\ step = "mark" => chunk \in done /\ device[chunk] = transfer

DeviceInv ==
  /\ \A s \in Ours : OnDevice(s.done)
  /\ VersionsInOrder /\ MemoryAhead /\ PendingOnDevice /\ FlushInOrder

LEMMA InitDevice == Init => DeviceInv
BY DEF Init, DeviceInv, Ours, Held, Read, Load, Readable, VersionsInOrder, MemoryAhead,
       PendingOnDevice, FlushInOrder

(* Nothing that can be read appears when a file is removed, comes back or  *)
(* is flushed.                                                             *)
LEMMA RemoveHolds ==
  ASSUME RemoveFile
  PROVE  Read' = NoJournal /\ Held' \subseteq Held \cup {NoJournal}
BY DEF RemoveFile, Read, Held, Load

LEMMA OursShrinks ==
  ASSUME Held' \subseteq Held \cup {NoJournal}, UNCHANGED latest
  PROVE  Ours' \subseteq Ours
BY DEF Ours, Readable

(* The invariant when only files go, and the process is between two calls. *)
LEMMA FewerFiles ==
  ASSUME DeviceInv, Ours' \subseteq Ours, UNCHANGED <<latest, device>>,
         step' \in {"idle", "boot"},
         VersionsInOrder', MemoryAhead'
  PROVE  DeviceInv'
BY DEF DeviceInv, OnDevice, PendingOnDevice, FlushInOrder

LEMMA RenameKeepsDevice ==
  ASSUME StoreInv, DeviceInv, Rename
  PROVE  DeviceInv'
<1>1. PICK n \in 0 .. 2 : pending \in JournalState /\ tmp = Cut(pending, n)
  BY DEF Rename, StoreInv
<1>2. n = 2
  BY <1>1, CutFacts DEF Rename, Flushed, Whole
<1>3. Read' = pending
  BY <1>1, <1>2, LoadFacts DEF Rename, Read
<1>4. Held' \subseteq Held \cup {pending, CorruptJournal}
  <2>1. {Load(file) : file \in Prefixes(tmp)} = {pending, CorruptJournal}
    BY <1>1, <1>2, PrefixesLoad
  <2>2. afterCut' \cup {bin'} = afterCut \cup Prefixes(tmp) \cup {tmp}
    BY DEF Rename
  <2>3. Load(tmp) = pending
    BY <1>1, <1>2, LoadFacts
  <2>4. QED
    BY <2>1, <2>2, <2>3 DEF Held
<1>5. UNCHANGED <<transfer, done, latest, device>> /\ step' = "idle"
  BY DEF Rename, memory, Return
<1>6. Ours' \subseteq Ours \cup {pending}
  BY <1>4, <1>5 DEF Ours, Readable
<1>7. /\ transfer # NoTransfer /\ pending.sum = transfer
      /\ transfer = latest =>
           pending.done \subseteq done /\ OnDevice(pending.done) /\ Behind(pending.done)
      /\ transfer # latest => Ours = {}
  BY DEF DeviceInv, PendingOnDevice, MemoryAhead, Rename
<1>8. CASE transfer = latest
  <2>1. \A s \in Ours' : s.done \subseteq pending.done
    BY <1>6, <1>7, <1>8 DEF Behind
  <2>2. \A s \in Ours' : OnDevice(s.done)'
    BY <1>5, <1>6, <1>7, <1>8 DEF DeviceInv, OnDevice
  <2>3. VersionsInOrder' /\ MemoryAhead'
    BY <1>3, <1>5, <1>7, <1>8, <2>1 DEF VersionsInOrder, MemoryAhead, Behind
  <2>4. QED
    BY <1>5, <2>2, <2>3 DEF DeviceInv, PendingOnDevice, FlushInOrder
<1>9. CASE transfer # latest
  <2>1. Ours' = {}
    BY <1>5, <1>6, <1>7, <1>9 DEF Ours
  <2>2. QED
    BY <1>3, <1>5, <1>7, <1>9, <2>1
       DEF DeviceInv, VersionsInOrder, MemoryAhead, PendingOnDevice, FlushInOrder
<1>10. QED
  BY <1>8, <1>9

(* No journal of the file announced is left.                               *)
LEMMA AnnounceKeepsDevice ==
  ASSUME ~SendsAgain, DeviceInv, Announce
  PROVE  DeviceInv'
<1>1. PICK s \in NewStates :
        /\ Forgotten(s) /\ Start(s)
        /\ transfer' = s.sum /\ done' = {} /\ latest' = s.sum
  BY DEF Announce
<1>2. s.sum \in Files /\ s.done = {}
  BY NewStatesAssumption DEF JournalState
<1>3. Read' = NoJournal /\ afterCut' \cup {bin'} = afterCut \cup {NoFile}
  BY DEF Announce, RemoveFile, Read, Load
<1>4. ~Readable(NoJournal) /\ Load(NoFile) = NoJournal
  BY DEF Readable, Load
<1>5. Ours' = {}
  BY <1>1, <1>3, <1>4 DEF Ours, Held, Forgotten
<1>6. step' = "open" /\ pending' = s
  BY <1>1 DEF Start
<1>7. QED
  BY <1>1, <1>2, <1>3, <1>4, <1>5, <1>6, NoTransferAssumption
     DEF DeviceInv, VersionsInOrder, MemoryAhead, PendingOnDevice, FlushInOrder,
         OnDevice, Behind

(* A chunk no version calls done is written, then it is on the device.     *)
LEMMA FlushKeepsDevice ==
  ASSUME DeviceInv, WriteData \/ SyncData
  PROVE  DeviceInv'
<1>1. UNCHANGED <<bin, afterCut, transfer, latest>>
  BY DEF WriteData, SyncData, files, memory
<1>2. UNCHANGED <<Held, Ours, Read>>
  BY <1>1 DEF Held, Ours, Read
<1>3. transfer # NoTransfer
  BY DEF WriteData, SyncData, DeviceInv, FlushInOrder
<1>4. CASE WriteData
  <2>1. PICK c \in DOMAIN device \ done :
          chunk' = c /\ device' = [device EXCEPT ![c] = Scrap]
    BY <1>4 DEF WriteData
  <2>2. step' = "data" /\ done' = done
    BY <1>4 DEF WriteData, memory
  <2>3. \A s \in Ours : c \notin s.done
    BY <1>3, <2>1 DEF DeviceInv, MemoryAhead, Behind
  <2>4. \A s \in Ours' : OnDevice(s.done)'
    BY <1>1, <1>2, <2>1, <2>3 DEF DeviceInv, OnDevice
  <2>5. VersionsInOrder' /\ MemoryAhead'
    BY <1>1, <1>2, <2>2 DEF DeviceInv, VersionsInOrder, MemoryAhead, Behind
  <2>6. QED
    BY <1>1, <1>3, <2>1, <2>2, <2>4, <2>5 DEF DeviceInv, PendingOnDevice, FlushInOrder
<1>5. CASE SyncData
  <2>1. /\ device' = [device EXCEPT ![chunk] = transfer] /\ chunk' = chunk
        /\ step' = "mark" /\ done' = done \cup {chunk}
    BY <1>5 DEF SyncData, DataSynced
  <2>2. chunk \in DOMAIN device
    BY <1>5 DEF SyncData, DeviceInv, FlushInOrder
  <2>3. \A s \in Ours' : OnDevice(s.done)'
    <3>1. SUFFICES ASSUME NEW s \in Ours, NEW c \in s.done
                   PROVE  c \in DOMAIN device' /\ device'[c] = latest
      BY <1>1, <1>2 DEF OnDevice
    <3>2. transfer = latest
      BY <1>3, <3>1 DEF DeviceInv, MemoryAhead
    <3>3. QED
      BY <2>1, <3>2 DEF DeviceInv, OnDevice
  <2>4. VersionsInOrder' /\ MemoryAhead'
    BY <1>1, <1>2, <2>1 DEF DeviceInv, VersionsInOrder, MemoryAhead, Behind
  <2>5. QED
    BY <1>1, <1>3, <2>1, <2>2, <2>3, <2>4 DEF DeviceInv, PendingOnDevice, FlushInOrder
<1>6. QED
  BY <1>4, <1>5

(* A mark adds the chunk just synced, or none.                             *)
LEMMA MarkKeepsDevice ==
  ASSUME StoreInv, DeviceInv, MarkChunk \/ MarkEofReceived
  PROVE  DeviceInv'
<1>1. UNCHANGED <<bin, afterCut, transfer, done, latest, device>>
  BY DEF MarkChunk, MarkEofReceived, files, memory
<1>2. UNCHANGED <<Held, Ours, Read>>
  BY <1>1 DEF Held, Ours, Read
<1>3. (\A s \in Ours' : OnDevice(s.done)') /\ VersionsInOrder' /\ MemoryAhead'
  BY <1>1, <1>2 DEF DeviceInv, OnDevice, VersionsInOrder, MemoryAhead, Behind
<1>4. transfer # NoTransfer /\ step' \in {"open", "idle"}
  BY DEF MarkChunk, MarkEofReceived, Start, Return, DeviceInv, FlushInOrder
<1>5. ASSUME step' = "open"
      PROVE  PendingOnDevice'
  <2>1. Readable(Read) /\ Read \in JournalState
    BY <1>5, LoadType DEF MarkChunk, MarkEofReceived, Start, Return, StoreInv, Read
  <2>2. Read.sum = transfer /\ Read \in Held
    BY <1>4, <2>1 DEF DeviceInv, MemoryAhead, Held, Read
  <2>3. ASSUME transfer = latest
        PROVE  /\ Read.done \subseteq done /\ OnDevice(Read.done)
               /\ Behind(Read.done)
    BY <1>4, <2>1, <2>2, <2>3 DEF DeviceInv, VersionsInOrder, MemoryAhead, Behind, Ours
  <2>4. CASE MarkChunk
    <3>1. pending' = [Read EXCEPT !.done = @ \cup {chunk}]
      BY <1>5, <2>1, <2>4 DEF MarkChunk, Start, Return, MarkedDone
    <3>2. pending'.sum = Read.sum /\ pending'.done = Read.done \cup {chunk}
      BY <2>1, <3>1 DEF JournalState
    <3>3. chunk \in done /\ chunk \in DOMAIN device /\ device[chunk] = transfer
      BY <2>4 DEF MarkChunk, DeviceInv, FlushInOrder
    <3>4. QED
      BY <1>1, <1>2, <1>4, <2>2, <2>3, <3>2, <3>3 DEF PendingOnDevice, OnDevice, Behind
  <2>5. CASE MarkEofReceived
    <3>1. pending' = [Read EXCEPT !.eof = TRUE]
      BY <2>1, <2>5 DEF MarkEofReceived, Start, MarkedEof
    <3>2. pending'.sum = Read.sum /\ pending'.done = Read.done
      BY <2>1, <3>1 DEF JournalState
    <3>3. QED
      BY <1>1, <1>2, <1>4, <2>2, <2>3, <3>2 DEF PendingOnDevice, OnDevice, Behind
  <2>6. QED
    BY <2>4, <2>5
<1>6. PendingOnDevice' /\ FlushInOrder'
  BY <1>4, <1>5 DEF PendingOnDevice, FlushInOrder
<1>7. QED
  BY <1>3, <1>6 DEF DeviceInv

(* Boot takes the newest version that is left, and the rest are behind it. *)
LEMMA BootKeepsDevice ==
  ASSUME DeviceInv, Boot \/ Finish
  PROVE  DeviceInv'
<1>1. step' \in {"idle", "boot"} \/ (step' = step /\ step = "idle")
  BY DEF Boot, Finish, Return, call
<1>2. UNCHANGED <<latest, device>>
  BY DEF Boot, Finish
<1>3. CASE Finish \/ (Boot /\ ~Readable(Read))
  <2>1. Ours' \subseteq Ours /\ ~Readable(Read')
    BY <1>2, <1>3, RemoveHolds, OursShrinks DEF Boot, Finish, Readable
  <2>2. VersionsInOrder'
    BY <2>1 DEF VersionsInOrder
  <2>3. transfer' = NoTransfer \/ UNCHANGED <<transfer, done>>
    BY <1>3 DEF Boot, Finish, memory
  <2>4. MemoryAhead'
    BY <1>2, <2>1, <2>3 DEF DeviceInv, MemoryAhead, Behind
  <2>5. QED
    BY <1>1, <1>2, <2>1, <2>2, <2>4, FewerFiles
<1>4. CASE Boot /\ Readable(Read)
  <2>1. UNCHANGED <<bin, afterCut>> /\ transfer' = Read.sum /\ done' = Read.done
    BY <1>4 DEF Boot, files
  <2>2. UNCHANGED <<Held, Ours, Read>>
    BY <1>2, <2>1 DEF Held, Ours, Read
  <2>3. VersionsInOrder' /\ MemoryAhead'
    BY <1>2, <1>4, <2>1, <2>2 DEF DeviceInv, VersionsInOrder, MemoryAhead, Behind
  <2>4. QED
    BY <1>1, <1>2, <2>2, <2>3, FewerFiles
<1>5. QED
  BY <1>3, <1>4

(* A process that dies leaves its files, a power cut one version.          *)
LEMMA DyingKeepsDevice ==
  ASSUME DeviceInv, Kill \/ PowerCut
  PROVE  DeviceInv'
<1>1. step' = "boot" /\ transfer' = NoTransfer /\ UNCHANGED <<latest, device>>
  BY DEF Kill, PowerCut, Dies, Return
<1>2. MemoryAhead'
  BY <1>1 DEF MemoryAhead
<1>3. CASE Kill
  <2>1. UNCHANGED <<Held, Read>>
    BY <1>3 DEF Kill, files, Held, Read
  <2>2. UNCHANGED Ours /\ VersionsInOrder'
    BY <1>1, <2>1 DEF DeviceInv, VersionsInOrder, Ours, Behind
  <2>3. QED
    BY <1>1, <1>2, <2>2, FewerFiles
<1>4. CASE PowerCut
  <2>1. Held' = {Read'} /\ Held' \subseteq Held
    BY <1>4 DEF PowerCut, Held, Read
  <2>2. Ours' \subseteq Ours
    BY <1>1, <2>1, OursShrinks
  <2>3. VersionsInOrder'
    BY <2>1 DEF VersionsInOrder, Ours, Behind
  <2>4. QED
    BY <1>1, <1>2, <2>2, <2>3, FewerFiles
<1>5. QED
  BY <1>3, <1>4

LEMMA NextKeepsDevice ==
  ASSUME ~SendsAgain, StoreInv, DeviceInv, [Next]_vars
  PROVE  DeviceInv'
<1>1. CASE OpenTmp \/ WriteTmp \/ Fail \/ Writeback \/ UNCHANGED vars
  <2>1. /\ UNCHANGED <<transfer, done, latest, device, Read>>
        /\ Held' \subseteq Held
        /\ step' = "idle" \/ (step' \in {"open", "write"} /\ step \in {"open", "write"})
           \/ (step' = step /\ chunk' = chunk)
        /\ step' = "idle" \/ pending' = pending
    BY <1>1 DEF OpenTmp, WriteTmp, Fail, Writeback, Return, vars, call, files, memory,
                Held, Read
  <2>2. Ours' \subseteq Ours
    BY <2>1, OursShrinks
  <2>3. (\A s \in Ours' : OnDevice(s.done)') /\ VersionsInOrder' /\ MemoryAhead'
    BY <2>1, <2>2 DEF DeviceInv, OnDevice, VersionsInOrder, MemoryAhead, Behind
  <2>4. PendingOnDevice' /\ FlushInOrder'
    BY <2>1, <2>2 DEF DeviceInv, PendingOnDevice, FlushInOrder, OnDevice, Behind
  <2>5. QED
    BY <2>3, <2>4 DEF DeviceInv
<1>2. QED
  BY <1>1, RenameKeepsDevice, AnnounceKeepsDevice, FlushKeepsDevice, MarkKeepsDevice,
     BootKeepsDevice, DyingKeepsDevice DEF Next

(* However old a version of the last transfer's journal a power cut brings *)
(* back, the chunks it calls done are on the device (CfdpReceiver.cpp:322, *)
(* 332), when no file is sent twice before its first journal is forgotten. *)
THEOREM VersionsSafe == ~SendsAgain => (Spec => []DoneIsOnDevice)
<1> SUFFICES ASSUME ~SendsAgain PROVE Spec => []DoneIsOnDevice
  OBVIOUS
<1>1. Init => DeviceInv
  BY InitDevice
<1>2. StoreInv /\ DeviceInv /\ [Next]_vars => DeviceInv'
  BY NextKeepsDevice
<1>3. DeviceInv => DoneIsOnDevice
  BY DEF DeviceInv, DoneIsOnDevice, Ours, Held, OnDevice
<1>4. QED
  BY <1>1, <1>2, <1>3, StoreInvariance, PTL DEF Spec
=============================================================================

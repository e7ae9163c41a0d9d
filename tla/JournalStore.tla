---------------------------- MODULE JournalStore ----------------------------
(***************************************************************************)
(* How receiver/Journal.cpp keeps state.bin: every change writes a whole   *)
(* new file beside it and renames that into place.  A killed process       *)
(* leaves its files as they are in the page cache; a power cut leaves what *)
(* the device has, and nothing of the journal is ever synced.  The data of *)
(* a chunk is (CfdpReceiver::flush_chunk), before the journal is touched.  *)
(*                                                                         *)
(* The receiver is reduced to the calls it makes: a transfer is announced, *)
(* its chunks are written and marked, the transfer ends.                   *)
(***************************************************************************)
EXTENDS Journal

CONSTANTS NewStates,   \* the transfers that may be announced
          NoFile,      \* a path that does not exist
          NoTransfer,  \* no transfer_active_
          Scrap,       \* a chunk of the output file half overwritten
          SendsAgain   \* whether a file is sent again within seconds

ASSUME NewStatesAssumption ==
  \A s \in NewStates : s \in JournalState /\ s.done = {} /\ ~s.eof
ASSUME SendsAgainAssumption == SendsAgain \in BOOLEAN
ASSUME NoTransferAssumption == NoTransfer \notin Files
ASSUME NoFileAssumption == NoFile \notin Seq(JournalState \cup SUBSET Nat)

VARIABLES step,      \* where the process is
          pending,   \* the state atomic_write is writing, if any
          chunk,     \* the chunk flush_chunk is writing, if any
          tmp,       \* state.bin.tmp
          bin,       \* state.bin
          afterCut,  \* what a power cut may leave of state.bin
          transfer,  \* state_: the file whose chunks the process writes
          done,      \* state_.chunk_done
          latest,    \* the transfer last announced
          device     \* whose bytes the output file has, synced, by chunk

call == <<step, pending, chunk>>
files == <<tmp, bin, afterCut>>
memory == <<transfer, done>>
vars == <<call, files, memory, latest, device>>

-----------------------------------------------------------------------------
(* Contents of a file: the fixed fields, then chunk_done.                  *)

Image(s) == <<[s EXCEPT !.done = {}], s.done>>

Whole(file) == Len(file) = 2

Load(file) ==
  CASE file = NoFile -> NoJournal
    [] file # NoFile /\ ~Whole(file) -> CorruptJournal
    [] OTHER -> [file[1] EXCEPT !.done = file[2]]

(* What a power cut may have left of it: its end may be missing.           *)
Prefixes(file) == {SubSeq(file, 1, n) : n \in 0 .. Len(file)}

Read == Load(bin)

-----------------------------------------------------------------------------
(* Journal::atomic_write                                                   *)

Start(s) == step' = "open" /\ pending' = s /\ chunk' = 0

Return(to) == step' = to /\ pending' = NoJournal /\ chunk' = 0

OpenTmp ==
  /\ step = "open"
  /\ tmp' = <<>>
  /\ step' = "write"
  /\ UNCHANGED <<pending, chunk, bin, afterCut, memory, latest, device>>

WriteTmp ==
  /\ step = "write"
  /\ ~Whole(tmp)
  /\ tmp' = Append(tmp, Image(pending)[Len(tmp) + 1])
  /\ UNCHANGED <<call, bin, afterCut, memory, latest, device>>

AnyLength(file) == Len(file) > 0
Flushed(file) == Whole(file)

Rename ==
  /\ step = "write"
  /\ Flushed(tmp)
  /\ bin' = tmp
  /\ afterCut' = afterCut \cup Prefixes(tmp)
  /\ tmp' = NoFile
  /\ Return("idle")
  /\ UNCHANGED <<memory, latest, device>>

(* The open, a write or the rename fails: false is returned, and ignored.  *)
Fail ==
  /\ step \in {"open", "write"}
  /\ Return("idle")
  /\ UNCHANGED <<files, memory, latest, device>>

-----------------------------------------------------------------------------
(* The calls of CfdpReceiver.                                              *)

(* Journal::remove                                                         *)
RemoveFile == bin' = NoFile /\ afterCut' = afterCut \cup {NoFile} /\ UNCHANGED tmp

(* No journal of an earlier transfer of the same file can come back.       *)
Forgotten(s) ==
  \A file \in afterCut : Readable(Load(file)) => Load(file).sum # s.sum

(* handle_metadata: remove() and create()                                  *)
Announce ==
  /\ step = "idle"
  /\ \E s \in NewStates :
       /\ SendsAgain \/ Forgotten(s)
       /\ Start(s)
       /\ transfer' = s.sum /\ done' = {} /\ latest' = s.sum
  /\ RemoveFile
  /\ UNCHANGED device

(* flush_chunk: the data is written and synced, then marked.               *)
WriteData ==
  /\ step = "idle" /\ transfer # NoTransfer
  /\ \E c \in DOMAIN device \ done : chunk' = c /\ device' = [device EXCEPT ![c] = Scrap]
  /\ step' = "data"
  /\ UNCHANGED <<pending, files, memory, latest>>

DataInCache == device
DataSynced == [device EXCEPT ![chunk] = transfer]

SyncData ==
  /\ step = "data"
  /\ device' = DataSynced
  /\ done' = done \cup {chunk}
  /\ step' = "mark"
  /\ UNCHANGED <<pending, chunk, files, transfer, latest>>

(* mark_chunk_done, and mark_eof_received; both give up when load() does.  *)
MarkChunk ==
  /\ step = "mark"
  /\ IF Readable(Read) /\ chunk \in Chunks(Read.size)
       THEN Start(MarkedDone(Read, chunk))
       ELSE Return("idle")
  /\ UNCHANGED <<files, memory, latest, device>>

MarkEofReceived ==
  /\ step = "idle" /\ transfer # NoTransfer
  /\ Readable(Read)
  /\ Start(MarkedEof(Read))
  /\ UNCHANGED <<files, memory, latest, device>>

(* check_completion: the transfer is over.                                 *)
Finish ==
  /\ step = "idle" /\ transfer # NoTransfer
  /\ RemoveFile
  /\ transfer' = NoTransfer
  /\ UNCHANGED <<call, done, latest, device>>

(* on_boot                                                                 *)
Boot ==
  /\ step = "boot"
  /\ Return("idle")
  /\ IF Readable(Read) THEN transfer' = Read.sum /\ done' = Read.done /\ UNCHANGED files
     ELSE RemoveFile /\ UNCHANGED memory
  /\ UNCHANGED <<latest, device>>

-----------------------------------------------------------------------------
(* The environment.                                                        *)

Dies ==
  /\ Return("boot")
  /\ transfer' = NoTransfer /\ done' = {}
  /\ UNCHANGED <<latest, device>>

Kill == step # "boot" /\ Dies /\ UNCHANGED files

PowerCut ==
  /\ Dies
  /\ bin' \in afterCut
  /\ afterCut' = {bin'}
  /\ tmp' \in {tmp, NoFile}

(* The kernel writes its cache back, some seconds later.                   *)
Writeback ==
  /\ afterCut' = {bin}
  /\ UNCHANGED <<call, tmp, bin, memory, latest, device>>

Init ==
  /\ step = "boot"
  /\ pending = NoJournal
  /\ chunk = 0
  /\ tmp = NoFile /\ bin = NoFile /\ afterCut = {NoFile}
  /\ transfer = NoTransfer /\ done = {} /\ latest = NoTransfer
  /\ device = [c \in UNION {Chunks(s.size) : s \in NewStates} |-> Scrap]

Next ==
  \/ OpenTmp \/ WriteTmp \/ Rename \/ Fail
  \/ Announce \/ WriteData \/ SyncData \/ MarkChunk \/ MarkEofReceived \/ Finish \/ Boot
  \/ Kill \/ PowerCut \/ Writeback

Spec == Init /\ [][Next]_vars

-----------------------------------------------------------------------------

Register == INSTANCE JournalRegister
              WITH value <- Read, survivors <- {Load(file) : file \in afterCut}

(* What is done with a temporary file and a rename, step by step, with a   *)
(* write that may fail and a process that may die between any two of them, *)
(* is an atomic change of one register: load() never sees half of it       *)
(* (Journal.h:28-30).                                                      *)
ImplementsRegister == Register!Spec

(* However old a version of the journal of the transfer at hand a power    *)
(* cut brings back, the chunks it calls done are on the device: data goes  *)
(* first (CfdpReceiver.cpp:322, 332).                                      *)
DoneIsOnDevice ==
  \A file \in afterCut :
    LET s == Load(file)
    IN  Readable(s) /\ s.sum = latest => \A c \in s.done : device[c] = s.sum
=============================================================================

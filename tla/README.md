# CFDP_CPP in TLA+

A model of the file transfer of this repository: the C++ receiver (`receiver/`),
the Python ground station (`sender/sender.py`) and the serial line between them,
with the TLC runs that check it on small instances and the TLAPS proofs that
hold for every instance. Line numbers refer to the source files under `src/`.

## 1. The system

| Component | State it keeps | Operations | What makes it correct |
|---|---|---|---|
| `PacketList` (`receiver/PacketList.*`) | the slots of the chunk in progress, `total_packets_`, `valid_count_` | `init`, `clear`, `insert`, `is_complete`, `compute_nak_ranges`, `assemble` | the counter is the number of valid slots; complete means every slot holds a good packet; the ranges name every missing slot once |
| `Journal` (`receiver/Journal.*`) | the file `state.bin` | `create`, `mark_chunk_done`, `mark_eof_received`, `load`, `remove`, `exists`, `compute_missing_chunks` | what it calls done is on disk; a crash loses nothing it recorded |
| `CfdpReceiver` (`receiver/CfdpReceiver.*`) | `state_`, `transfer_active_`, `last_acked_id_`, `current_chunk_index_`, `max_chunk_seen_`, `packet_list_`; the received files | `on_boot`, `on_pdu_received` and its four handlers, `flush_chunk`, `check_completion` | an ACK is a promise: a chunk ACK that the chunk survives a crash, the final one that the file is right; a NAK asks for what is missing and nothing else |
| `receiver_main` (`receiver/receiver_main.cpp`) | `was_active`, which of its two loops it is in | boot, receive loop, linger loop, `catch` | it ends once the transfer is over and the sender silent |
| `UartTransport` (`receiver/UartTransport.*`, `Transport.h`) | the device, how far into a PDU each side is | `send`, `recv`, `read_exact` | whole PDUs, in order, however reads and writes are split |
| `CfdpSender`, `Transport` (`sender/sender.py`) | where `send()` is, the current chunk, the attempts of `_query_resume` | `send`, `_query_resume`, `_send_one_chunk`, `_send_eof`, `_on_nak`; `Transport.send` loses and corrupts on purpose | success means the file is there; every run ends |
| `cfdp_send.sh`, `setup_loopback` | the processes, the presence of `state.bin` | pick the file, make the line, start a receiver, run the sender, wait, compare | the two files are equal; an interrupted file is resumed and never mixed with another |
| `Crc`, `PduCodec`, `Types`, the sizes and offsets | none | pure | one damaged byte is detected; the two sides agree on where every byte goes |

The sender sends `Metadata` and a `ResumeQuery`, then per chunk its packets and
an `Eof`, and waits for the chunk's ACK, answering NAKs; then it waits for the
final ACK. The receiver answers an `Eof` with a NAK for the chunk in progress or
for the first missing chunk it knows the sender has sent. A complete chunk is
written, synced, marked in memory, marked in the journal and acknowledged, in
this order. Both sides are sequential processes; they share only the line.
A receiver that dies is started again and reads the journal.

What is hard: the order of the steps of a flush against crashes; packets of
another chunk, duplicates and corrupt duplicates in the packet list; state that
a reboot loses (`max_chunk_seen_`, `last_acked_id_`); timeouts of the sender
while the receiver is still at work; replies left over from an earlier run; the
one transaction id the script ever uses; the two ends both writing. The
`hazards` of `PROJECT.json` list them line by line.

## 2. The modules

| Module | What it is |
|---|---|
| `PacketList` | the packet list as a record and its operations as operators |
| `RangeScan` | a machine that inserts packets in every order, and the range loop of `compute_nak_ranges` and `compute_missing_chunks` written as the code writes it, checked against its definition (`MaximalRanges`) |
| `Types` | PDUs, chunks and offsets; constants and their assumptions |
| `Line` | the two bounded FIFOs; `Reply` and `Transmit` are the two `write()`s |
| `Journal` | the journal's value and its operations |
| `CfdpReceiver` | the receiver process, one action per handler outcome or step between which the process can die |
| `ReceiverOpen` | the receiver behind a line that delivers any PDU of the set `Says[sending]` of the sender at the other end, in any order, any number of times; a new sender comes with a new line and new processes, and when there is no `state.bin`; its invariants and the promises of its replies |
| `CfdpSender` | the script, with the faults its own `Transport` makes |
| `Cfdp` | both, on one line, started by hand or by `cfdp_send.sh`, in one of `Scenarios`; refinement into `ReceiverOpen` and `FileTransfer`; the liveness properties |
| `FileTransfer` | what the program promises as a whole, with nothing of how |
| `JournalStore` | `Journal.cpp` step by step: temporary file, rename, page cache, failing writes, power cut |
| `JournalRegister` | what `Journal.h` promises: one register that changes at once |
| `UartFraming` | `send`, `recv` and `read_exact` byte by byte, the same at either end |
| `PduFifo` | what `Transport.h` promises: whole PDUs, in order |
| `ChunkArithmetic` | sizes and offsets in bytes, at the widths of the C++ integers, and in Python's unbounded ones |
| `Crc8` | `crc8` bit by bit, over the bytes sent and the bytes received |
| `MCReceiver`, `MCCfdp`, `MCJournal`, `MCUart`, `MCArithmetic` | values for TLC |
| `PacketListProofs`, `ReceiverProofs`, `PromiseProofs`, `CfdpProofs`, `JournalProofs`, `FramingProofs` (`UartFraming`), `ScanProofs` (`RangeScan`), `ArithmeticProofs` (`ChunkArithmetic`, `Crc8`) | theorems |

How they fit together. `Cfdp` is the program, in units of packets, PDUs and whole
journals. Each unit has a module that goes below it and shows that it may be used:

```
FileTransfer   <-- Cfdp = CfdpSender + CfdpReceiver + Line   --> ReceiverOpen
                                          |            |
       JournalRegister <-- JournalStore --+            +-- UartFraming --> PduFifo
       sizes in packets: ChunkArithmetic      the flag ok of a packet: Crc8
```

(an arrow points to the abstract side of a refinement).

Correspondence. A variable of `CfdpReceiver` has the name of the member it
stands for; `at` is where the process is. `"recv"` is `uart.recv()` in either
loop of `main`; `"create"` is between `journal_.remove()` and `journal_.create()`
(CfdpReceiver.cpp:163, 178); `"write"`, `"mark"`, `"ack"` are the three parts of
`flush_chunk` (286, 333, 336); `"check"` is the entry of `check_completion` with
`eof_received` set; `"close"` is after the final ACK and before the journal is
removed (398). Each handler takes its PDU off the line, does what the code does
until the next point where a crash makes a difference, and hands over through
`at`. The tail of every handler, the return to `main`, is `Returns`.

A script step (`CfdpSender`) puts what the code is going to write into `outbox`;
`SendNext` writes it PDU by PDU, each one delivered, lost or corrupted, and
interleaved with the receiver. Nothing is read until it is empty, as in the code.

`cfdp_send.sh` is `SendScript`: it picks the file from the presence of
`state.bin` (`SameOrNewFile`, cfdp_send.sh:42), makes a new line and new
processes in place of those its trap stopped, and is run again either when both
have ended (`ScriptRunsAgain`) or at any moment (`ScriptStopped`).

The refinement of `Cfdp` into `ReceiverOpen` names the sender of the moment
(`SenderOf`): under `cfdp_send.sh` the one job it sends, by hand all the jobs of
the scenario, since there nobody looks at `state.bin`. `Vocabulary` gives what each
may put on the line: what it writes for its jobs, packets with a damaged payload,
and, where the scenario has it, every PDU with one field misread.

In `JournalStore`, `tmp` and `bin` are what a process reads (the page cache),
`afterCut` the versions of `state.bin` a power cut may leave: every renamed one
since the last `Writeback`, and every prefix of it, since nothing is synced. Output
data is synced before the mark (`SyncData`), and `device` says whose bytes a chunk
holds.

In `UartFraming`, `out` is what is left of a `send()`, `need`, `buf` and `inPdu`
are where `recv()` is in `read_exact`; a length is two digits, so any two bytes
read at the wrong place are a length as well.

Abstractions.

* Sizes are counted in packets (`ChunkSize` of them per chunk; a short last packet
  is one packet). `ChunkArithmetic` justifies it: with the Metadata that was sent,
  both sides agree on the packets of every chunk and on the place of every byte.
* The payload of packet *i* of file *f* is `<<f, i>>`, a CRC-8 is the flag `ok`
  (a damaged byte is always detected: `Crc8`), a CRC-32 is the file it was computed
  from (collision free).
* The pointers of the packet list, texts and logs are left out.
* `state.bin` is one register in `CfdpReceiver` (`JournalStore` justifies it).
  With `IoErrors` a write of it may fail and a flush may throw; with `PowerCuts` a
  crash may set it back to an older version of the same transfer, remove it or
  leave it unreadable. That an older journal of an *earlier* transfer comes back
  is in `JournalStore` only, and so is a removed one that comes back.
* What a power cut leaves of a file is a prefix of what was written; blocks of
  zeros in place of lost data are not modelled (`read_from_disk` has no checksum
  and would take zeros for fields).
* A write of a chunk that is interrupted leaves a prefix of its packets, or only
  the created file.
* A NAK for packets the sender's chunk does not have makes the script fail
  (`HasPackets`). In the code a `data_len` of exactly 0 does not raise yet, a
  negative one does (`SenderRaises`).
* `ChunkArithmetic` lets a damaged Metadata have any other value in one of its
  fields, which includes every inverted byte.

Bounds. `MaxToReceiver`, `MaxToSender` bound the PDUs on the line, a
scenario (`Scenarios`) the runs of the script and how often each kind of fault
happens, `MaxTotal` the slots in `RangeScan`, `MaxSent` and `MaxKills` the PDUs
and the kills in `UartFraming`. `Capacity` there is the size of the line and
`Base` the values of a byte. `U32` and `MaxTotalChunks` are the limits of the code,
small in the run. `attempt` is bounded by the code itself.

## 3. The runs

Receiver on an open line (`MCReceiver`; file of three packets, chunks of two, so
one full and one partial chunk; a one-place line in each direction, which loses
nothing since every order of PDUs is delivered anyway):

| Run | Wire | Shows |
|---|---|---|
| `receiver` | two files to one name under two ids, intact packets, corrupt ones of the first, noise | the journal mirrors memory between PDUs, done chunks are on disk, slots belong to the chunk, chunk ACKs are durable, NAKs ask for missing packets only, no crash takes progress away; transfers interrupt one another |
| `receiver_faults` | one file, with `IoErrors` and `PowerCuts` | the inductive invariant `IndInv` of the proofs; NAKs are still right |
| `receiver_dirty` | packets in the wrong slot, payloads that collide under CRC-8, a refused name | a final ACK is given only while the file on disk is right; a file is given up after the checksum only when a chunk of it is wrong on disk |
| `RangeScan` | | the packet list and the range loop, up to five slots |

The whole program (`MCCfdp`; files of four and three packets, chunks of two):

| Run | Scenarios | Shows |
|---|---|---|
| `cfdp_live` | `Survivable`: no fault; the same file twice; one PDU of the sender lost (file of full chunks); one payload damaged; a kill, a reboot and a lost reply; `cfdp_send.sh` sending two files, with a loss, interrupted and run again | success means the file is there, no chunk is passed before it is on disk; a transfer that neither a stop nor a lost reply disturbs ends in success, a run after the last fault ends in success, the receiver process ends |
| `cfdp_faults` | `AllFaults`: each kind of fault but `misread`, once each, by hand; the same without the reboot under `cfdp_send.sh` with two files | type invariant, no chunk passed early, the two sides never both blocked in a write; the whole implements `FileTransfer`, and its receiver `ReceiverOpen` |
| `cfdp_switch` | three jobs with a destination each and one killed run; one misread header | success is only reported while a file of the jobs so far is there whole, and in no behaviour before a destination was verified; the refinement into `ReceiverOpen` again, with a misread header |

Below the program:

| Run | Instance | Shows |
|---|---|---|
| `journal_store` | two files of two chunks to one destination | `JournalStore` implements `JournalRegister`; what any version calls done is on the device |
| `uart_framing` | three PDUs of one to three bytes, a line of three bytes, two kills or new lines | `UartFraming` implements `PduFifo`; no PDU stays behind on a line smaller than one |
| `arithmetic` | files of 0 to 21 bytes, chunks of 2, 4 and 6, packets of 1 to 3 (also where one does not divide the other), `U32` = 16, `MaxTotalChunks` = 10 | the file is rebuilt byte for byte, only sizes beyond the limits are refused, a NAK ends with the chunk; CRC-8 detects a damaged byte anywhere in data of any length |

Why these bounds are enough. Two chunks are the fewest for which chunk switches, skipped chunks, a partial
last chunk and `max_chunk_seen_` matter; two packets the fewest for a chunk with
a hole. `cfdp_faults` has one fault of each of several kinds, in every
combination and order. `MaxToSender = 7` is below what a
4096-byte PTY holds (an ACK is 13 bytes with its prefix), so `NoStandoff` at
that bound means that seven unread replies never pile up in these runs while
the script writes; with room for three replies TLC does find the two sides
blocked, so the property depends on the room the line has. How much is always enough
is a theorem (`NeverBothBlocked`, section 4): seven is less than that, so for these
scenarios TLC says more. In `uart_framing` the
frames are longer than the line, so every write is split. In `arithmetic` 21 bytes
exceed `U32` (an offset needs the cast of CfdpReceiver.cpp:498) and eleven chunks
`MaxTotalChunks`. `Crc8` has no bound: its registers have 256 values each; the
intact bytes are four (the empty one, the two ends and a mixed one), the damaged
byte is any.

Deadlock is not checked in the `cfdp_*` runs (the program ends, and the findings
below are runs that stop), nor in `uart_framing` and `arithmetic`, which end when
everything has been sent.

Fairness (`FairSpec` of `Cfdp`): weak fairness of each process's own steps (neither is
stopped for ever by the operating system), of the receiver's exit after 1.5 s of
silence, of `ReceiverStarts` (one is started before each run by hand), of
`NextRun` and of `ScriptRunsAgain` (the jobs are run to the last). No fault is ever
forced. A timeout of the script may come whenever no
reply is waiting, however early: 0.5 s may pass during one `fdatasync`.
`FairSpec` of `UartFraming`: a write that has begun goes on when there is room
(`SendRest`) and a read when there are bytes (`ReadSome`, `ReadLength`, `Recv`); both
are blocking system calls of a process that is not stopped. Nothing makes anyone
send.

### Findings: what the code does not do

Each is a run that checks one property and that TLC refutes.

| Run | The claim | What happens |
|---|---|---|
| `lone_packet_lost` | README.md:112, a lost packet is asked for again | not if all packets of a chunk are lost: `max_chunk_seen_` (CfdpReceiver.cpp:366) |
| `one_id_two_files` | sender.py:159, the final ACK means the transfer is validated | by hand, a second file gets the first one's final ACK; `cfdp_send.sh` waits for the receiver to end first and is not exposed |

The same modules show more of the kind with other values in a configuration:

| To see it | The claim | What happens |
|---|---|---|
| `SuccessIsReported` on `FinalAckLost` | README.md:117, the final ACK is sent again | the sender repeats `Eof` only, and the receiver has closed the transfer and drops it |
| `RejectsOnlyDamaged` on `SaysTwo` (two files of different length to one name) | CfdpReceiver.cpp:390, README.md:118 | a longer old file is not truncated: the right file is rejected, and restarting does not help |
| `DoneIsOnDevice` with `SendsAgain = TRUE` | README.md:51 | after a power cut the journal of an earlier transfer of the same file vouches for chunks the next one is overwriting |
| `ChunkGetsThrough`, `Scenario(SendF, {"crash"})` | README.md:114, the chunk is sent again | `max_chunk_seen_` restarts at 0 and neither side moves |
| `Termination` without `"reply"` in `Never`, `FinalAckLost` | README.md:116, the ACK is repeated on duplicate packet 0 | the sender never repeats packet 0 on a timeout |
| `ReceiverEnds` without `"crash"` in `Never`, `Scenario(SendF, {"crash"})` | receiver_main.cpp:43-44 | a receiver that completes in `on_boot` never ends |
| `EveryPduArrives` without its hypothesis, `uart_framing` | README.md:114-115, a receiver that reboots goes on | started again by hand on the same line after it was stopped inside a PDU, it reads a length in the wrong place and stays out of step |
| `SuccessMeansReceived`, `Scenario(SendG, {"misread"})` with two names | cfdp_send.sh:111-122 | Metadata has no checksum: the file is under another name |
| `SuccessMeansVerified`, one kill: `SendFThenH` by hand, `f` of two packets | sender.py:159 | the final ACK of the first file, which its own run never read, is taken for that of the second while that overwrites the first |
| `SuccessMeansVerified`, one kill and two misread headers, `SendF` by hand | sender.py:159 | the same ACK is read while the file is sent again and two of its packets have changed places: it was verified, and is not right any more |
| `DoneIsOnDisk` on `SaysMisplaced` | README.md:113 | CRC-8 does not cover the header |
| `FinalAckOnlyVerified` on `SaysTwo` | CfdpReceiver.cpp:126 | the repeated ACK names the transaction of the last Metadata |
| `ProgressSurvives` with `PowerCuts` | Journal.h:8, README.md:51 | rename without fsync |
| `AckOnlyDurable` with `IoErrors` | CfdpReceiver.h:16 | the result of `mark_chunk_done` is ignored |

A success that is not one takes a final ACK that belongs to something else: the file
of another run by hand, a misread transaction id or file name, or the same file before
it was sent again. Behind a sender with one transaction the ACK itself is never wrong:
whatever packets arrive, it leaves only while the file announced is on disk
(`FinalAcksVerified`, section 4), since the CRC-32 of the whole file is the last guard.

## 4. The proofs

**The packet list** (`PacketListProofs`, `ScanProofs`), for lists of every length and
every sequence of packets.

* `insert` keeps the counter exact (`InsertCounts`), so `is_complete` means that
  every slot is valid (`CompleteMeansAllValid`).
* `ScanProofs` proves every property of the run `RangeScan`: `TypeCorrect`,
  `CounterExact`, `CompletionExact`, and `ScanFaithful` from `ScanCorrect`: the
  range loop returns the maximal runs of missing slots, each once and in ascending
  order. The loop is the function `Scanned` from the number of slots looked at to
  the state of the loop, and `RunsBefore` is what that state says of those slots: the
  ranges so far are the runs that have ended, the open range is the beginning of one.

**The receiver** (`ReceiverProofs`, and `NaksCorrect` in `PromiseProofs`), for every `Files`, `FileLen`,
`ChunkSize`, set of names and transaction ids, any senders one after another, all
line bounds, and with or without failing writes and power cuts. The invariant is in
two halves, because they need different things.

* `ShapeInv` (`ShapeInvariance`) needs nothing of what arrives: the types, and how
  the receiver's own variables go together. `TypeCorrect`, and `NaksCorrect`
  (`Spec => NakOnlyMissing`) follow from it. Two things could be wrong in a NAK. It
  could ask for nothing: the ranges of a list are those of its set of missing slots,
  which is not empty because a list that is complete is flushed before anything else
  happens (`NoFullList`), and a non-empty finite set of slots has a maximal run
  (`RangesExist`, from the well-foundedness of the order of finite sets). And it could
  ask past the end of a chunk: the bounds of a run are members of the set.
* `IndInv` (`Invariance`) adds `ContentInv`: what slots and disk hold. It has the
  hypothesis `HonestSenders`: a Metadata describes the file of its checksum, one file
  per id, and a packet whose CRC-8 matches is the packet its header says.
  `RunsAreHonest` in `MCReceiver` has TLC confirm it for the wires of the runs that
  check the same properties; on `SaysMisplaced`, which is not honest,
  `DoneIsOnDisk` fails. `SlotsCorrect` and `DoneCorrect` follow.

`DoneIsOnDisk` alone is not inductive. That a chunk is marked only when it is on
disk needs the flush to write the right bytes (`FlushFacts`), hence every valid
slot to hold its packet and be of the chunk in progress (`SlotsBelongToChunk`),
hence an exact counter (`Counted`), and a list that is complete while the process
is between `"write"` and `"mark"` (`ChunkKnown`). That the other chunks of the
journal survive the write needs the journal to be of the same file as the
transfer in memory (`Coupled`, `Announced`). A power cut keeps it because a journal
that is set back claims less (`JournalSetBack`), a new sender because one for
another file only comes when there is no journal.

**What the receiver promises** (`PromiseProofs`). The hypotheses are the
faults under which section 3 shows the promise broken.

* Whatever arrives and whatever fails: `JournalNeverAhead` (`Spec => []JournalTrails`),
  the journal of the transfer in memory claims no chunk, and no EOF, that memory does
  not.
* Whatever arrives, without `IoErrors`: `JournalCorrect`; without `PowerCuts` as
  well: `ProgressCorrect`. With honest senders and without `IoErrors`: `AcksCorrect`.
  They rest on `InStep`, which says for every place where the process can die how far
  the journal is behind memory: not at all but between `remove()` and `create()`.
* Whatever packets arrive, and with both kinds of fault: `RejectsCorrect` (`Spec =>
  RejectsOnlyDamaged`), when the sizes announced are true (`TrueSizes`) and no two
  files have one destination (`OnePerName`; without it see section 3). `FullLength`
  says that every destination is empty or has exactly the size announced for it,
  whatever the packets hold. A file all chunks of which are on disk
  then verifies, as it is put together from its chunks (`ChunksMatch`).
* With honest senders and both kinds of fault: `FinalAcksCorrect` (`Spec =>
  FinalAckOnlyVerified`), when a destination stands for one file, or each sender has
  one file (`NoRivals`; the latter is `cfdp_send.sh`, where the next file may go to
  the same name). The repeated final ACK vouches for a file verified long before.
  `Kept` is what remains true meanwhile: as long as the sender is the same a
  destination never gets shorter and never loses a chunk it has (`NextGrows`), so
  every reply that is still on the line keeps its meaning (`Holds`); and a transfer
  that is closed again finds the file it verified (`CompleteMatches`). That needs
  division and remainder for chunks of any size (`PositionFacts`).
* Whatever packets arrive, misplaced ones and ones whose payload collides under CRC-8
  included, and with both kinds of fault: `FinalAcksVerified` (`Spec =>
  FinalAckOnlyVerified` again), when a sender has one transaction (`OneTransaction`,
  `OneFilePerId`). It needs nothing of the disk, only that the CRC-32 of the whole file
  is never passed over. `Guarded` is the reason: once a file has been verified,
  `last_acked_id_` is the id of every Metadata the receiver would not refuse, so
  nothing is written any more until the process ends, and after that no final ACK is
  repeated. TLC has checked both hypotheses and `Guarded` with the values of
  `receiver_dirty`.

**The whole program** (`CfdpProofs`), for every number of runs and of faults, started by
hand or by `cfdp_send.sh`, with `IoErrors` and `PowerCuts`.

With no hypothesis, misread headers included:

* `TypeCorrect` (`Spec => []TypeOK`). The script answers a NAK with well-formed
  packets or stops (`HasPackets`), whatever NAK it reads (`SenderShape`).
* `WholeIsOpen` (`Spec => ReceiverIsOpen`). Every step of the program is a step of
  `ReceiverOpen`, or a stutter. Its invariant is that `outbox` only ever holds what
  the sender of the moment writes, so that what the line makes of it is in
  `Vocabulary`; and under `cfdp_send.sh` another file, hence another sender,
  comes only when `state.bin` is gone.
* `SuccessEarned` (`Spec => SuccessWasVerified`). No success is reported in a behaviour
  in which no destination has ever been a whole file with the checksum of a Metadata.
  `NothingEnded` is what lasts until then: no transaction id to acknowledge again, no
  final ACK on the line, wherever it stands in the queue, and no script that has
  read one.
* `RepliesBounded` (`Spec => []FewReplies`) and, on a line that holds more
  (`EnoughRoom`), `NeverBothBlocked` (`Spec => []NoStandoff`): the next paragraph.
* The part of `PromisesKept` that rests on nothing the packets say: `NakOnlyMissing`,
  and without failing writes `JournalMirrorsMemory` and `ProgressSurvives`.

When no header is misread (`NoMisreads`) and the transaction id 1 stands for one file
at a time (`OneJobEach`: a scenario is run by `cfdp_send.sh`, with any number of
files to any names, or has one job; by hand with several, `one_id_two_files` refutes
the claim), `VocabularyIsHonest` discharges the hypotheses of the receiver's theorems:

* the rest of `PromisesKept`: `DoneIsOnDisk`, `FinalAckOnlyVerified`, and `AckOnlyDurable`.
* `SuccessStands` (`Spec => []SuccessMeansVerified`), from `SuccessCorrect`.
* `NothingSkipped`, `SuccessCorrect` and `ImplementsFileTransfer` (`Spec =>
  DeliversFiles`). The invariant is `WholeInv`, that of the receiver (`IndInv`,
  `Kept`) and that of the script (`SenderInv`). The script believes every reply it
  reads, of whichever run it was; `Kept` says that each one is still true
  (`Meaning`), and a disk that only grows keeps true what the script concluded
  (`StillOnDisk`). With the next file line and processes are new, so nothing that was
  said of the one before can be read. `ImplementsFileTransfer` also needs files that
  are not empty, since an empty file is there before it is sent.

The room on the line. That the receiver cannot fill the line back is not inductive in
the length of the queue alone: what it will write depends on what it has still to
read, on its place in a handler, and on what a journal makes it do at boot. `RoomLeft`
bounds their sum, `Owed`, in replies:

* the replies on the line;
* two for each *mark* in what is on its way (`Pending`, the line and the `outbox`
  after it): a PDU that is no packet, a packet 0, or the first packet of another chunk than
  the one before. A packet that continues its chunk (`Continues`) causes no reply of
  its own, so that a chunk of any size costs what its two ends do (`ChunkIsOneRun`,
  `NakIsOneRun`; the latter because a NAK asks for packets of one chunk,
  `NextKeepsNaks`);
* the `Credit` of the receiver: two while a chunk is in progress (its NAK and its ACK),
  one for a verification under way, and one for the verification a boot would begin.

No step of the receiver owes more than before (`ReceiverOwesLess`). The script may
write only as much as its place allows (`Stage`): up to 12 before it is where it
empties the queue of replies whenever it reads, and nothing beyond that afterwards,
since it writes a round only when it has read everything or found nothing. A kill
(12), a reboot (3) and a misread header (4, as it may turn a PDU and the one after it
into marks) are charged when they happen; a lost or damaged PDU, a timeout and a new
run cost nothing. So the bound is 2 `MaxToReceiver` + 15 and the charges, whatever the
files, the chunks and the number of runs. A reply more is owed by a boot that finds a
file complete only if the process before died: when it is waiting for PDUs it leaves no
such journal behind (`NothingToVerify`, from the invariant of `JournalNeverAhead`). TLC
has checked the bound and its parts with the values of `cfdp_faults`, `cfdp_live` and
`cfdp_switch`; with kills, reboots, misread headers, failing writes and power cuts
together; and with a chunk of 32 packets on a line of one place and thirty, which
`EnoughRoom` allows and a receiver that sends a NAK for every packet fills.

The bound counts PDUs. A PTY has 4096 bytes each way, and an `Eof` and an ACK both take
13 of them: a script that times out some three hundred times while the receiver is
stopped could queue that many `Eof`s, each of them good for a reply at least as long,
and a line whose two sides have the same length does not meet `EnoughRoom`. The factor
of `MaxToReceiver` in the bound is that case.

The receiver's definitions occur three times in `CfdpProofs`: in `Cfdp`, in its
refinement `Open` and in the instance `R` of the proofs. `SameReceiver` shows that
they are the same; `ReceiverAssumptions` are the assumptions of the instance.

**The journal** (`JournalProofs`), for every set of transfers:

* `StoreImplementsRegister`: `Spec => ImplementsRegister`. What `load()` finds
  changes only in `Rename` and `remove()`. That the rename is a change the register
  allows needs `StoreInv`: the temporary file is the beginning of the image of
  `pending`, and `pending` is one of the things the register may turn into, *as
  computed from what `state.bin` holds now*. The rest is that the image of a
  journal reads back as the journal, and that no beginning of it reads at all
  (`LoadFacts`).
* `VersionsSafe`: `~SendsAgain => (Spec => []DoneIsOnDevice)`. `DeviceInv` orders
  the versions: what any version of the last transfer's journal calls done is in
  the newest (`VersionsInOrder`), that in memory (`MemoryAhead`), and a flush only
  ever overwrites a chunk that memory does not call done (`FlushInOrder`). After a
  power cut an older transfer may be at work again, and then no journal of the last
  one is left. Both invariants are over unbounded data; TLC has checked `DeviceInv`
  on the instance of `journal_store`.

**The framing** (`FramingProofs`), for PDUs, bytes and a line of every size and any
number of PDUs, kills and new lines:

* `FramingImplementsFifo`: `Spec => ImplementsFifo`. The queue of `PduFifo` is what a
  parser finds in the bytes on their way (`Stream`): those read, those on the line and
  those still to write, and in front of them the length of the PDU in progress, if it
  has been read. `FramingInv` is that the stream is cut into frames as long as no
  process stopped inside a PDU; a read or a part of a write moves bytes within
  the stream and leaves it as it is (`Moved`), a `send()` adds a frame at its end
  (`OneFrameMore`), a `recv()` takes one from its start (`OneFrameLess`).
* `ParseFramed`: there is only one way to cut a stream of frames, and the parser finds
  it. The parser is a recursive function of the number of steps it makes; that its
  steps are those cuts is shown for the first step where they would not be
  (`SmallestOf`).

**The arithmetic** (`ArithmeticProofs`), for integers of every width and
files, chunks and packets of every size:

* `CountsAgree`: the receiver's offset, packet count and NAK of a chunk, computed
  modulo 2^32 and 2^64, are the sender's. It rests on no product or sum wrapping
  under the limits `struct.pack` and `handle_metadata` set.
* `NakCorrect`: `Spec => []NakEndsInChunk`, with any field of the Metadata misread.
* `RebuildsFile`: `Spec => []FileRebuilt`. `AssemblesChunk` is its core: the packets of a
  chunk, joined by `assemble`, are the bytes of the chunk, the last packet and the
  last chunk being shorter or not.
* `DetectsOneByte`: `CrcSpec => []OneByteDetected`. Shifting the register is
  injective because the polynomial has bit 0, which a shifted register has not: two
  registers that differ go on differing, whatever equal bytes follow.

Every invariant and action property of the passing runs is proved, under the hypotheses
named above. `SuccessMeansVerified` holds in `cfdp_switch` without those of
`SuccessStands`, for three jobs by hand and one kill, or one misread header; with more
faults it fails (section 3), as a destination that was verified can be overwritten
while the final ACK is still unread. `SuccessEarned` is what then remains.
`NoStandoff` holds in `cfdp_faults` on a line shorter than `NeverBothBlocked` asks for.

Out of the prover's reach and left to TLC: the liveness properties (fairness and
ENABLED).

## 5. Not modelled

* CRC-32, which is zlib's (`Crc.cpp`): taken as collision free.
* `PduCodec.h`: `parse_nak` and `parse_ack` are called by nothing. The layout of
  the PDUs in bytes, but for the length prefix.
* The build, `socat`, `dd`, the command lines and the colours of the scripts.
* A read of `state.bin` that fails after it has filled part of `state_` (no handler
  looks at `state_` before the next Metadata then, but for an id of 0).
* An output file that exists and is empty counts as not created; the lengths
  differ only until the last chunk is written.
* An empty file: `arithmetic` has the refusal of its Metadata
  (CfdpReceiver.cpp:134). That the script then waits for ever is not a run: files of
  `Cfdp` have at least one packet.
* A length prefix so large that the receiver's allocation fails: the exception ends
  the process, which is the crash of `CfdpReceiver`.

## 6. Plan

Done: the receiver with its proofs; the composed program; below it the journal, the
framing and the arithmetic; above it `FileTransfer`; the script that drives it.

The safety properties of the runs are proved, under the hypotheses section 4 names.
Left: the room on the line in bytes rather than in PDUs, and files of no packets in
`Cfdp`.

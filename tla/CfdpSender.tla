----------------------------- MODULE CfdpSender -----------------------------
(***************************************************************************)
(* The ground station: class CfdpSender of sender/sender.py, with the      *)
(* losses and corruptions its class Transport makes on purpose.            *)
(*                                                                         *)
(* A step of the script queues the PDUs it is going to write in outbox and *)
(* SendNext writes them one by one; it reads nothing before the outbox is  *)
(* empty.  A timeout is possible whenever no reply is waiting: the 0.5 s   *)
(* may pass before the receiver is done with its disk.                     *)
(***************************************************************************)
EXTENDS Line, SequencesExt

CONSTANTS Scenarios,  \* what may be asked of the program, and what may go wrong
          Garbage     \* the payload of a damaged packet

FaultKinds == {"lost", "damaged", "misread", "reply", "crash", "kill"}

(* The jobs of a scenario are the successive command lines, files and      *)
(* destinations; start is who runs them, cfdp_send.sh or a person at a     *)
(* shell; faults bounds how often each kind of fault may happen.           *)
ASSUME ScenariosAssumption ==
  \A s \in Scenarios :
    /\ s.jobs \in Seq([file : Files, name : Names]) /\ s.jobs # <<>>
    /\ s.start \in {"hand", "script"}
    /\ s.faults \in [FaultKinds -> Nat]
ASSUME PayloadAssumption ==
  /\ \A x \in Files : \A i \in 0 .. FileLen[x] - 1 : <<x, i>> \in Payload
  /\ Garbage \in Payload

VARIABLES sAt,      \* where the script is: what it does once outbox is empty
          outbox,   \* what it still has to write
          ci,       \* the chunk being sent
          attempt,  \* attempts of _query_resume so far
          run,      \* which of the jobs
          faults,   \* faults so far, by kind
          scenario  \* which of Scenarios this is; no step changes it

script == <<sAt, outbox, ci, attempt, run>>
senderVars == <<script, faults, scenario>>

Jobs == scenario.jobs
MaxFaults == scenario.faults

Fault(kind) ==
  /\ faults[kind] < MaxFaults[kind]
  /\ faults' = [faults EXCEPT ![kind] = @ + 1]
  /\ UNCHANGED scenario

-----------------------------------------------------------------------------
(* What the script writes.  self.tid is 1 in every run.                    *)

Tid == 1
ASSUME TidAssumption == Tid \in Tids

File == Jobs[run].file
ChunksOfFile == TotalChunks(FileLen[File])

TheMetadata == Metadata(Tid, File, Jobs[run].name)
PacketOfChunkZero(c, p) == [Data(Tid, File, c, p) EXCEPT !.data = <<File, p>>]
Packet(c, p) == Data(Tid, File, c, p)

(* _send_one_chunk, _send_eof                                              *)
ChunkPdus(c) == [i \in 1 .. PacketsIn(FileLen[File], c) |-> Packet(c, i - 1)] \o <<Eof(Tid)>>

(* _on_nak: the packets of every range, in the order of the NAK, which is  *)
(* that of the file.                                                       *)
AskedShort(nak) ==
  UNION {{<<r.chunk, p>> : p \in r.first .. r.last - 1} : r \in nak.missing}
Asked(nak) ==
  UNION {{<<r.chunk, p>> : p \in r.first .. r.last} : r \in nak.missing}
Ascending(S) ==
  CHOOSE s \in [1 .. Cardinality(S) -> S] : \A i, j \in DOMAIN s : i < j => s[i] < s[j]
NakPdus(nak) ==
  LET places == {ChunkOffset(q[1]) + q[2] : q \in Asked(nak)}
      order  == Ascending(places)
  IN  [i \in 1 .. Cardinality(places) |-> Packet(order[i] \div ChunkSize, order[i] % ChunkSize)]
        \o <<Eof(Tid)>>

(* A packet the file does not have: struct.pack refuses its data_len and   *)
(* the script ends with the exception.                                     *)
HasPackets(nak) ==
  \A q \in Asked(nak) : q[1] \in 0 .. ChunksOfFile - 1 /\ q[2] < PacketsIn(FileLen[File], q[1])

-----------------------------------------------------------------------------
(* Transport.send: the PDU is written, lost, or written with one byte      *)
(* inverted.  The byte lies in the payload of a packet ("damaged": CRC-8   *)
(* detects every single byte), or in the header of any PDU ("misread"),    *)
(* which nothing covers: a field takes another value or no handler wants   *)
(* the PDU any more.                                                       *)

SomeChunk == UNION {Chunks(FileLen[x]) : x \in Files}

Misread(pdu) ==
  {[type |-> "Noise"]} \cup {[pdu EXCEPT !.tid = t] : t \in Tids}
    \cup CASE pdu.type = "Metadata" ->
                {[pdu EXCEPT !.name = n] : n \in Names}
                  \cup {[pdu EXCEPT !.sum = s] : s \in Files}
           [] pdu.type = "Data" ->
                {[pdu EXCEPT !.chunk = c] : c \in SomeChunk}
                  \cup {[pdu EXCEPT !.pkt = p] : p \in 0 .. pdu.total}
           [] OTHER -> {}

SendNext ==
  /\ outbox # <<>>
  /\ outbox' = Tail(outbox)
  /\ \/ Transmit(Head(outbox)) /\ UNCHANGED <<faults, scenario>>
     \/ Fault("lost") /\ UNCHANGED toReceiver
     \/ /\ Head(outbox).type = "Data"
        /\ Transmit([Head(outbox) EXCEPT !.data = Garbage, !.ok = FALSE])
        /\ Fault("damaged")
     \/ /\ \E pdu \in Misread(Head(outbox)) : Transmit(pdu)
        /\ Fault("misread")
  /\ UNCHANGED <<sAt, ci, attempt, run, toSender>>

-----------------------------------------------------------------------------
(* send(): Metadata, then where to start, then chunk by chunk.             *)

Idle(place) == sAt = place /\ outbox = <<>>

StartTransfer ==
  /\ Idle("start")
  /\ outbox' = <<TheMetadata, ResumeQuery(Tid)>>
  /\ attempt' = 1
  /\ sAt' = "info"
  /\ UNCHANGED <<ci, run, faults, scenario, line>>

BeginChunk(c) ==
  /\ ci' = c
  /\ IF c < ChunksOfFile
       THEN sAt' = "wait" /\ outbox' = ChunkPdus(c)
       ELSE sAt' = "final" /\ outbox' = <<>>

(* The next of three attempts, or a start from chunk 0.                    *)
AskForever ==
  attempt' = attempt + 1 /\ outbox' = <<ResumeQuery(Tid)>> /\ UNCHANGED <<sAt, ci>>
NextAttempt ==
  IF attempt < 3
    THEN attempt' = attempt + 1 /\ outbox' = <<ResumeQuery(Tid)>> /\ UNCHANGED <<sAt, ci>>
    ELSE BeginChunk(0) /\ UNCHANGED attempt

InfoTimeout ==
  /\ Idle("info")
  /\ toSender = <<>>
  /\ NextAttempt
  /\ UNCHANGED <<run, faults, scenario, line>>

(* One PDU per attempt is looked at, whatever it is.                       *)
ReadInfo ==
  /\ Idle("info")
  /\ toSender # <<>>
  /\ toSender' = Tail(toSender)
  /\ LET pdu == Head(toSender)
     IN  IF pdu.type # "ResumeInfo" \/ pdu.tid # Tid THEN NextAttempt
         ELSE /\ UNCHANGED attempt
              /\ IF pdu.first = UINT32_MAX
                   THEN ci' = ChunksOfFile /\ sAt' = "final" /\ outbox' = <<Eof(Tid)>>
                   ELSE BeginChunk(pdu.first)
  /\ UNCHANGED <<run, faults, scenario, toReceiver>>

-----------------------------------------------------------------------------
(* The wait for Ack(ci): everything that has arrived is read as a batch.   *)

Batch == ToSet(toSender)
AckedAny(c) == \E p \in Batch : p.type = "Ack"
Acked(c) == \E p \in Batch : p.type = "Ack" /\ p.chunk = c
Naks == {i \in DOMAIN toSender : toSender[i].type = "Nak"}
LatestNak == toSender[CHOOSE i \in Naks : \A k \in Naks : k <= i]

ReadBatch == toSender # <<>> /\ toSender' = <<>>

ChunkTimeout ==
  /\ Idle("wait")
  /\ toSender = <<>>
  /\ outbox' = <<TheMetadata, Eof(Tid)>>
  /\ UNCHANGED <<sAt, ci, attempt, run, faults, scenario, line>>

Complete ==
  /\ Idle("wait") \/ Idle("final")
  /\ Acked(UINT32_MAX)
  /\ ReadBatch
  /\ sAt' = "done"
  /\ UNCHANGED <<outbox, ci, attempt, run, faults, scenario, toReceiver>>

ChunkAcked ==
  /\ Idle("wait")
  /\ ~Acked(UINT32_MAX) /\ Acked(ci)
  /\ ReadBatch
  /\ BeginChunk(ci + 1)
  /\ UNCHANGED <<attempt, run, faults, scenario, toReceiver>>

Retransmit ==
  /\ Idle("wait")
  /\ ~Acked(UINT32_MAX) /\ ~Acked(ci) /\ Naks # {}
  /\ ReadBatch
  /\ IF HasPackets(LatestNak)
       THEN outbox' = NakPdus(LatestNak) /\ UNCHANGED sAt
       ELSE sAt' = "failed" /\ UNCHANGED outbox
  /\ UNCHANGED <<ci, attempt, run, faults, scenario, toReceiver>>

IgnoreReplies ==
  /\ \/ Idle("wait") /\ ~Acked(ci) /\ Naks = {}
     \/ Idle("final")
  /\ ~Acked(UINT32_MAX)
  /\ ReadBatch
  /\ UNCHANGED <<script, faults, scenario, toReceiver>>

(* Every chunk is acknowledged: the wait for the final ACK.                *)
FinalTimeout ==
  /\ Idle("final")
  /\ toSender = <<>>
  /\ outbox' = <<Eof(Tid)>>
  /\ UNCHANGED <<sAt, ci, attempt, run, faults, scenario, line>>

-----------------------------------------------------------------------------
(* The script is run again: for the next job once it has ended, or killed  *)
(* halfway and run with the same arguments or for a later job.  By hand,   *)
(* what it left in its device is still there, or was flushed.              *)

Launch(job) ==
  /\ sAt' = "start"
  /\ outbox' = <<>>
  /\ ci' = 0
  /\ attempt' = 0
  /\ run' = job

ByHand == scenario.start = "hand" /\ toSender' \in {toSender, <<>>}

Ended == sAt \in {"done", "failed"}

Rerun ==
  /\ ByHand
  /\ sAt # "done"
  /\ Fault("kill")
  /\ \E job \in run .. Len(Jobs) : Launch(job)
  /\ UNCHANGED toReceiver

NextJob ==
  /\ ByHand
  /\ Ended
  /\ run < Len(Jobs)
  /\ Launch(run + 1)
  /\ UNCHANGED <<faults, scenario, toReceiver>>

SenderInit ==
  /\ sAt = "start"
  /\ outbox = <<>>
  /\ ci = 0
  /\ attempt = 0
  /\ run = 1
  /\ faults = [k \in FaultKinds |-> 0]
  /\ scenario \in Scenarios

SenderStep ==
  \/ SendNext \/ StartTransfer
  \/ InfoTimeout \/ ReadInfo
  \/ ChunkTimeout \/ Complete \/ ChunkAcked \/ Retransmit \/ IgnoreReplies
  \/ FinalTimeout
=============================================================================

------------------------------ MODULE MCReceiver ------------------------------
(* Values for model checking ReceiverOpen: sizes are in packets, chunks of  *)
(* two packets, so a three-packet file has a full and a partial chunk.      *)
EXTENDS ReceiverOpen, TLC

CONSTANTS f, g,      \* two files of different lengths
          junk,      \* a payload whose CRC-8 does not match
          name, other

MCFiles == {f, g}
MCFileLen == f :> 3 @@ g :> 2
MCPayload == {<<x, i>> : x \in MCFiles, i \in 0 .. 2} \cup {junk}

Intact(tid, x) ==
  {Data(tid, x, i \div ChunkSize, i % ChunkSize) : i \in 0 .. FileLen[x] - 1}

Corrupted(tid, x) ==
  {[d EXCEPT !.data = junk, !.ok = FALSE] : d \in Intact(tid, x)}

Control(tid) ==
  {Eof(tid), ResumeQuery(tid)}

Noise == {[type |-> "Noise"]}

(* One file under one transaction id, packets intact or corrupt.            *)
OneTransfer ==
  {Metadata(1, f, name)} \cup Intact(1, f) \cup Corrupted(1, f) \cup Control(1) \cup Noise

(* A second transaction for the same destination, a shorter file whose      *)
(* only chunk has as many packets as chunk 0 of the first.                  *)
TwoTransfers ==
  OneTransfer \cup {Metadata(2, g, name)} \cup Intact(2, g) \cup Control(2)

(* Bytes inverted where no CRC looks: a packet that lands in another slot,  *)
(* a file name with a slash in it; and payloads that keep their CRC-8.      *)
Misplaced == {[d EXCEPT !.pkt = 1 - d.pkt] : d \in Intact(1, f)}
Colliding == {[Data(1, f, 0, 1) EXCEPT !.data = junk]}
MisplacedTransfer == {Metadata(1, f, name)} \cup Intact(1, f) \cup Misplaced \cup Control(1)
DirtyTransfer == MisplacedTransfer \cup Colliding \cup {Metadata(2, f, other)}

(* cfdp_send.sh draws another file, sent under the same id and name.        *)
OtherFile == {Metadata(1, g, name)} \cup Intact(1, g) \cup Control(1)

Alone(pdus) == [who \in {"one"} |-> pdus]
SaysOne == Alone(OneTransfer)
SaysTwo == "one" :> TwoTransfers @@ "other" :> OtherFile
SaysMisplaced == Alone(MisplacedTransfer)
SaysDirty == Alone(DirtyTransfer)

(* The honest ones meet the hypothesis of the theorems.                     *)
ASSUME RunsAreHonest == Says \in {SaysOne, SaysTwo} => HonestSenders
===============================================================================

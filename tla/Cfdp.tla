-------------------------------- MODULE Cfdp --------------------------------
(***************************************************************************)
(* The whole program: the ground station (CfdpSender) and the receiver     *)
(* (CfdpReceiver) on one serial line, started by hand or by cfdp_send.sh.  *)
(* Each side is one sequential process; a step of either may come between  *)
(* any two steps of the other.  What can go wrong, and how often, is up to *)
(* the scenario.                                                           *)
(***************************************************************************)
EXTENDS CfdpReceiver, CfdpSender

receiver == <<at, memory, mainLoop, stable>>
vars == <<receiver, line, senderVars>>

Init == ReceiverInit /\ SenderInit

Receiver == ReceiverStep /\ UNCHANGED senderVars

Sender == SenderStep /\ UNCHANGED receiver

(* The receiver leaves after 1.5 s of silence.  A script that runs writes  *)
(* something every 0.5 s, so it is only between two of its runs that the   *)
(* line falls silent for so long.                                          *)
SenderSilent == sAt \in {"start", "done", "failed"}
ReceiverLeaves == SenderSilent /\ StopLingering /\ UNCHANGED senderVars

Reboot == Crash /\ Fault("crash") /\ UNCHANGED script

(* By hand, a receiver that has left is started again for the next run.    *)
SenderEnded == sAt = "done" /\ run = Len(Jobs)
ReceiverStarts ==
  scenario.start = "hand" /\ Relaunch /\ ~SenderEnded /\ UNCHANGED senderVars

(* A reply is lost on the line.                                            *)
LoseReply ==
  /\ \E i \in DOMAIN toSender : toSender' = RemoveAt(toSender, i)
  /\ Fault("reply")
  /\ UNCHANGED <<receiver, script, toReceiver>>

Interrupted == Rerun /\ UNCHANGED receiver

NextRun == NextJob /\ UNCHANGED receiver

(* cfdp_send.sh is run.  It sends the file of the run before as long as    *)
(* there is a state.bin, a new file otherwise; the line and both processes *)
(* are new (its trap stops the old ones when it ends or is interrupted).   *)
NewFile(job) == job = run + 1
SameOrNewFile(job) == job = IF journal = NoJournal THEN run + 1 ELSE run

SendScript ==
  /\ scenario.start = "script"
  /\ \E job \in 1 .. Len(Jobs) : SameOrNewFile(job) /\ Launch(job)
  /\ StartAnew

(* It waits for both processes and is run again, or does not get that far. *)
ScriptRunsAgain ==
  Ended /\ at = "exited" /\ SendScript /\ UNCHANGED <<faults, scenario>>

ScriptStopped == Fault("kill") /\ SendScript

Next ==
  \/ Receiver \/ ReceiverLeaves \/ Reboot \/ ReceiverStarts
  \/ Sender \/ Interrupted \/ NextRun
  \/ ScriptRunsAgain \/ ScriptStopped
  \/ LoseReply

Spec == Init /\ [][Next]_vars

(* Neither process is stopped for ever while it has something to do, a run *)
(* of the sender has a receiver, and the jobs are run to the last.         *)
(* Nothing makes a fault happen.                                           *)
FairSpec ==
  /\ Spec
  /\ WF_vars(Receiver) /\ WF_vars(ReceiverLeaves) /\ WF_vars(ReceiverStarts)
  /\ WF_vars(Sender) /\ WF_vars(NextRun) /\ WF_vars(ScriptRunsAgain)

-----------------------------------------------------------------------------
(* What the script can write, and what the line can make of it.            *)

(* Who is at the other end: cfdp_send.sh keeps to one job until the        *)
(* receiver has no journal, by hand all of them may be run on one journal; *)
(* and how many headers may be misread.                                    *)
SenderOf(s, r) ==
  [jobs |-> IF s.start = "script" THEN {s.jobs[r]} ELSE ToSet(s.jobs),
   misreads |-> s.faults["misread"]]
AllSenders == UNION {{SenderOf(s, r) : r \in DOMAIN s.jobs} : s \in Scenarios}

PacketsOf(x) ==
  UNION {{Data(Tid, x, c, p) : p \in 0 .. PacketsIn(FileLen[x], c) - 1} : c \in Chunks(FileLen[x])}
PacketsOfAll(jobs) == UNION {PacketsOf(j.file) : j \in jobs}
Damaged(pdu) == [pdu EXCEPT !.data = Garbage, !.ok = FALSE]

Written(jobs) ==
  {Metadata(Tid, j.file, j.name) : j \in jobs}
    \cup PacketsOfAll(jobs)
    \cup {Eof(Tid), ResumeQuery(Tid)}
AllMisread(pdus) == UNION {Misread(p) : p \in pdus}
Spoken(who) ==
  Written(who.jobs)
    \cup {Damaged(p) : p \in PacketsOfAll(who.jobs)}
    \cup {p \in AllMisread(Written(who.jobs)) : who.misreads # 0}
Vocabulary == [who \in AllSenders |-> Spoken(who)]

Open == INSTANCE ReceiverOpen
          WITH Senders <- AllSenders, Says <- Vocabulary, sending <- SenderOf(scenario, run)

(* Behind every sender, however its runs, timeouts and losses fall, the    *)
(* receiver behaves as on the open line: what is established there for     *)
(* every order of the PDUs holds here.                                     *)
ReceiverIsOpen == Open!Spec

-----------------------------------------------------------------------------

Places == {"start", "info", "wait", "final", "done", "failed"}

TypeOK ==
  /\ sAt \in Places
  /\ outbox \in Seq(SenderPdu)
  /\ ci \in Nat
  /\ attempt \in 0 .. 3
  /\ run \in 1 .. Len(Jobs)
  /\ scenario \in Scenarios
  /\ faults \in [FaultKinds -> Nat]
  /\ \A k \in FaultKinds : faults[k] <= MaxFaults[k]
  /\ toReceiver \in Seq(SenderPdu)
  /\ toSender \in Seq(ReceiverPdu)
  /\ at = "recv" /\ transferActive => state \in JournalState

Received == Matches(disk[Jobs[run].name], File)

(* The script reports success only when the destination holds the file:    *)
(* what cfdp_send.sh verifies after each transfer (cfdp_send.sh:111-122).  *)
SuccessMeansReceived == sAt = "done" => Received

Transfer == INSTANCE FileTransfer
              WITH job <- run, delivered <- Received, reported <- sAt = "done"

(* The whole implements FileTransfer: what is reported has been received,  *)
(* and what has been received is never undone by running the same job      *)
(* again, by late PDUs of an earlier run, by a reboot or by a torn write   *)
(* (README.md:108-118, cfdp_send.sh:111-122).                              *)
DeliversFiles == Transfer!Spec

(* Even when one transaction id stands for several files, each with a      *)
(* destination of its own, or a misread Metadata for another, success is   *)
(* only reported while some file of the jobs so far is there whole, under  *)
(* some name (CfdpReceiver.cpp:387-397).  Several misread headers, or two  *)
(* files to one name, can undo it before the final ACK is read.            *)
SuccessMeansVerified ==
  sAt = "done" =>
    \E j \in 1 .. run, n \in Names : Matches(disk[n], Jobs[j].file)

(* Some destination is whole: it has the checksum of a Metadata.           *)
Verified == \E n \in Names, x \in Files : Matches(disk[n], x)

(* A final ACK may be read long after it was sent, by another run, when    *)
(* what it vouched for is no longer so.  But no success is reported,       *)
(* however many runs, kills, reboots and misread headers there were,       *)
(* unless some destination once was a whole file with the checksum of a    *)
(* Metadata (CfdpReceiver.cpp:386-396, sender.py:155-176).                 *)
SuccessWasVerified == [](~Verified) => [](sAt # "done")

(* The two sides are never both stopped in a write to a full line, each    *)
(* waiting for the other to read: an EOF is answered by one NAK, not every *)
(* packet (CfdpReceiver.cpp:256).                                          *)
NoStandoff ==
  ~(outbox # <<>> /\ Len(toReceiver) = MaxToReceiver /\ Len(toSender) = MaxToSender)

(* The script moves past a chunk, or skips it on a ResumeInfo, only when   *)
(* its bytes are on disk; nothing that happens later takes them away again *)
(* (README.md:51).                                                         *)
PassedIsOnDisk ==
  sAt \in {"wait", "final"} =>
    \A c \in 0 .. ci - 1 : ChunkOnDisk(disk[Jobs[run].name], File, c)

-----------------------------------------------------------------------------
(* Liveness, under FairSpec.                                               *)

Never(kinds) == [](\A k \in kinds : faults[k] = 0)

(* Every transfer ends in success, whatever the link does to what the      *)
(* sender writes, as long as neither process is stopped and no reply is    *)
(* lost (README.md:112-113).                                               *)
Termination == Never({"reply", "crash", "kill"}) => <>SenderEnded

(* Whatever went wrong before, a run of the script that meets no further   *)
(* fault ends in success (README.md:115, README.md:117).                   *)
RerunSucceeds ==
  (sAt = "start" /\ \A k \in FaultKinds : faults[k] = MaxFaults[k]) ~> sAt = "done"

(* A receiver process that has completed a transfer it did not find at     *)
(* boot ends, once the script is over and the line silent                  *)
(* (receiver_main.cpp:43-44); cfdp_send.sh waits for it.                   *)
ReceiverEnds ==
  Never({"crash", "kill"}) => ((SenderEnded /\ lastAckedId # 0) ~> at = "exited")

(* The chunk the script is waiting for reaches the disk (README.md:112,    *)
(* README.md:114).                                                         *)
ChunkGetsThrough ==
  \A c \in SomeChunk :
    (sAt = "wait" /\ ci = c) ~> ChunkOnDisk(disk[Jobs[run].name], File, c)

(* Once the whole file is on disk and every chunk acknowledged, the script *)
(* ends (README.md:117).                                                   *)
SuccessIsReported == (sAt = "final" /\ Received) ~> sAt = "done"
=============================================================================

-------------------------------- MODULE MCCfdp --------------------------------
(* Values for model checking Cfdp.  Sizes are in packets, chunks of two.    *)
EXTENDS Cfdp

CONSTANTS f, g, h, junk, name, other

MCFiles == {f, g, h}
MCFileLen == f :> 4 @@ g :> 3 @@ h :> 4
MCPayload == {<<x, i>> : x \in MCFiles, i \in 0 .. 3} \cup {junk}

At(x, n) == [file |-> x, name |-> n]
Once(kinds) == [k \in FaultKinds |-> IF k \in kinds THEN 1 ELSE 0]
Scenario(jobs, kinds) == [jobs |-> jobs, start |-> "hand", faults |-> Once(kinds)]
Scripted(jobs, kinds) == [jobs |-> jobs, start |-> "script", faults |-> Once(kinds)]

SendF == <<At(f, name)>>   \* two full chunks
SendG == <<At(g, name)>>   \* a full one and one of a single packet

(* cfdp_send.sh: every file goes to the same name.                         *)
SendFThenH == <<At(f, name), At(h, name)>>

(* What the program is meant to come through.  A lost PDU of the sender:   *)
(* only when no chunk has a single packet; see the run lone_packet_lost.   *)
Survivable ==
  {Scenario(SendG, {}), Scenario(SendF \o SendF, {}),
   Scenario(SendF, {"lost"}), Scenario(SendG, {"damaged"}),
   Scenario(SendF, {"kill", "crash", "reply"}),
   Scripted(SendFThenH, {"kill", "lost"})}
AllFaults ==
  {Scenario(SendG, FaultKinds \ {"misread"}),
   Scripted(SendFThenH, {"lost", "damaged", "reply", "kill"})}

(* Where the script or a misread Metadata takes one file for another.      *)
Confusing ==
  {Scenario(<<At(f, name), At(h, other), At(g, name)>>, {"kill"}),
   Scenario(SendF, {"misread"})}

LonePacketLost == {Scenario(SendG, {"lost"})}
FinalAckLost == {Scenario(SendF, {"reply"})}
OneIdTwoFiles == {Scenario(<<At(f, name), At(g, other)>>, {})}
===============================================================================

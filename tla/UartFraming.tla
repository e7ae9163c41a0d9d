---------------------------- MODULE UartFraming ----------------------------
(***************************************************************************)
(* One direction of the serial line, byte by byte: send() writes a length  *)
(* and then the PDU, recv() reads a length and then as many bytes          *)
(* (receiver/UartTransport.cpp and class Transport of sender/sender.py,    *)
(* which do the same at either end).                                       *)
(*                                                                         *)
(* A byte is a number below Base, and a length two of them, so that any    *)
(* two bytes read at the wrong place are a length too.  The kernel takes   *)
(* and gives as many bytes at a time as it likes; a process may be killed  *)
(* between any two.                                                        *)
(***************************************************************************)
EXTENDS Integers, Sequences

CONSTANTS Pdus,      \* what is sent: sequences of bytes
          Base,      \* number of values of a byte
          Capacity,  \* bytes the line holds
          MaxSent,   \* bound: PDUs sent
          MaxKills   \* bound: processes killed or lines set up again

ASSUME BaseAssumption == Base \in Nat \ {0}
ASSUME PdusAssumption ==
  \A p \in Pdus : p \in Seq(0 .. Base - 1) /\ p # <<>> /\ Len(p) < Base * Base

VARIABLES out,    \* what the writer has still to write of its PDU
          line,   \* bytes on the line
          need,   \* bytes the reader's read_exact is asked for
          buf,    \* those it has read
          inPdu,  \* it has read the length
          got,    \* what recv() returned last
          cut,    \* a process stopped in the middle of a PDU
          sent, kills

reader == <<need, buf, inPdu>>
vars == <<out, line, reader, got, cut, sent, kills>>

-----------------------------------------------------------------------------
(* Frames.                                                                 *)

Prefix == 2

LengthOfFrame(p) == Len(p) + Prefix
Length(p) == Len(p)

Frame(p) == <<Length(p) % Base, Length(p) \div Base>> \o p

Decoded(bytes) == bytes[1] + Base * bytes[2]

-----------------------------------------------------------------------------
(* send()                                                                  *)

(* The kernel takes the first k bytes.                                     *)
Write(bytes, k) ==
  /\ Len(line) + k <= Capacity
  /\ line' = line \o SubSeq(bytes, 1, k)
  /\ out' = SubSeq(bytes, k + 1, Len(bytes))

Send ==
  /\ out = <<>>
  /\ sent < MaxSent
  /\ \E p \in Pdus : \E k \in 1 .. Len(Frame(p)) : Write(Frame(p), k)
  /\ sent' = sent + 1
  /\ UNCHANGED <<reader, got, cut, kills>>

SendRest ==
  /\ \E k \in 1 .. Len(out) : Write(out, k)
  /\ UNCHANGED <<reader, got, cut, sent, kills>>

-----------------------------------------------------------------------------
(* recv()                                                                  *)

(* read_exact goes on until it has what it was asked for.                  *)
WhatOneReadGives == Len(buf) = need \/ (inPdu /\ buf # <<>>)
Enough == Len(buf) = need

ReadSome ==
  /\ ~Enough
  /\ \E k \in 1 .. Len(line) :
       /\ Len(buf) + k <= need
       /\ buf' = buf \o SubSeq(line, 1, k)
       /\ line' = SubSeq(line, k + 1, Len(line))
  /\ UNCHANGED <<out, need, inPdu, got, cut, sent, kills>>

ReadLength ==
  /\ ~inPdu /\ Enough
  /\ inPdu' = TRUE
  /\ need' = Decoded(buf)
  /\ buf' = <<>>
  /\ UNCHANGED <<out, line, got, cut, sent, kills>>

Recv ==
  /\ inPdu /\ Enough
  /\ got' = buf
  /\ inPdu' = FALSE /\ need' = Prefix /\ buf' = <<>>
  /\ UNCHANGED <<out, line, cut, sent, kills>>

-----------------------------------------------------------------------------
(* The life of the two processes.                                          *)

AtStart == ~inPdu /\ buf = <<>>

Fresh == need' = Prefix /\ buf' = <<>> /\ inPdu' = FALSE

KillWriter ==
  /\ kills < MaxKills /\ kills' = kills + 1
  /\ cut' = (cut \/ out # <<>>)
  /\ out' = <<>>
  /\ UNCHANGED <<line, reader, got, sent>>

KillReader ==
  /\ kills < MaxKills /\ kills' = kills + 1
  /\ cut' = (cut \/ ~AtStart)
  /\ Fresh
  /\ UNCHANGED <<out, line, got, sent>>

(* cfdp_send.sh stops both and makes a new pair of PTYs.                   *)
SetUp ==
  /\ kills < MaxKills /\ kills' = kills + 1
  /\ out' = <<>> /\ line' = <<>>
  /\ Fresh
  /\ cut' = FALSE
  /\ UNCHANGED <<got, sent>>

Init ==
  /\ out = <<>> /\ line = <<>>
  /\ need = Prefix /\ buf = <<>> /\ inPdu = FALSE
  /\ got = <<>> /\ cut = FALSE
  /\ sent = 0 /\ kills = 0

Next ==
  \/ Send \/ SendRest
  \/ ReadSome \/ ReadLength \/ Recv
  \/ KillWriter \/ KillReader \/ SetUp

Spec == Init /\ [][Next]_vars

(* A write that has begun and a read that can go on are not put off.       *)
FairSpec ==
  Spec /\ WF_vars(SendRest) /\ WF_vars(ReadSome) /\ WF_vars(ReadLength) /\ WF_vars(Recv)

-----------------------------------------------------------------------------

(* The PDUs a stream of bytes holds, taken from its start one by one.      *)
LengthAt(bytes, n) == Decoded(<<bytes[n + 1], bytes[n + 2]>>)
WholeAt(bytes, n) ==
  /\ n + Prefix <= Len(bytes)
  /\ n + Prefix + LengthAt(bytes, n) <= Len(bytes)

TakePdu(bytes, taken) ==
  LET first == taken.from + Prefix + 1
      end == taken.from + Prefix + LengthAt(bytes, taken.from)
  IN  IF WholeAt(bytes, taken.from)
        THEN [from |-> end, pdus |-> Append(taken.pdus, SubSeq(bytes, first, end))]
        ELSE taken

Taken(bytes, n) ==
  LET taken[k \in 0 .. n] == IF k = 0 THEN [from |-> 0, pdus |-> <<>>]
                             ELSE TakePdu(bytes, taken[k - 1])
  IN  taken[n]

Parse(bytes) == Taken(bytes, Len(bytes)).pdus

(* What is on its way, with the length of the PDU the reader is in the     *)
(* middle of put back in front of it.                                      *)
Stream ==
  (IF inPdu THEN <<need % Base, need \div Base>> ELSE <<>>) \o buf \o line \o out

Queue == IF cut THEN <<>> ELSE Parse(Stream)

Fifo == INSTANCE PduFifo WITH queue <- Queue, broken <- cut

(* However the kernel cuts up reads and writes, recv() returns the PDUs    *)
(* given to send(), whole and in order, until a process is stopped in the  *)
(* middle of one; a new line puts that right (Transport.h:8-13).           *)
ImplementsFifo == Fifo!Spec

(* No PDU stays on a line of any size, unless a process was stopped in the *)
(* middle of one: a writer that waits for room always gets it.             *)
EveryPduArrives == [](~cut) => <>[](out = <<>> /\ line = <<>> /\ AtStart)
=============================================================================

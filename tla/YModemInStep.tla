---------------------------- MODULE YModemInStep ----------------------------
(***************************************************************************)
(* Why the file arrives whole: while the line has spoiled nothing, the two *)
(* sides of one transfer are in step.  What is on its way to the receiving *)
(* side continues, item by item, what that side has taken last, and ends   *)
(* with what the sending side has written last.                            *)
(***************************************************************************)
EXTENDS YModemProperties

\* The transfers spoken of: the first of each side, nothing lost or damaged yet.
Unspoiled == faults = NoFault /\ OneTransfer

Starts == {Byte("C"), Byte("CAN")}
Ends   == {Byte("EOT"), Header("null")}
Data   == {Block(n, p) : n \in Numbers, p \in 0..(FileSize - 1)}

\* Everything a sending side writes, but for the CAN of one that gives up.
Packets == {Byte("C"), Header("file")} \cup Data \cup Ends

\* The place of the file after the data of a packet.
After(pkt) == pkt.pos + Smaller(Length(pkt), FileSize - pkt.pos)

\* What a sending side writes after a, when it goes on.
NextPacket(a) ==
  CASE a.code = "C"    -> Header("file")
    [] a.body = "file" -> IF FileSize = 0 THEN Byte("EOT") ELSE Block(1, 0)
    [] a.body = "data" -> IF After(a) = FileSize THEN Byte("EOT")
                          ELSE Block(NextBlk(a.blk), After(a))
    [] OTHER           -> Header("null")

\* It repeats itself, gives up, or goes on: it never skips.
Follows(a, b) == b \in {a, Byte("CAN"), NextPacket(a)}

\* The items of line continue a.
Continues(a, line) ==
  /\ line # <<>> => Follows(a, line[1])
  /\ \A i \in 1..(Len(line) - 1) : Follows(line[i], line[i + 1])

\* The last of a and the items of line after it.
Newest(a, line) == IF line = <<>> THEN a ELSE line[Len(line)]
-----------------------------------------------------------------------------
Beginning(n) == [i \in 1..n |-> i]

\* A receiving side in state m took a last.
RxAt(m, a) ==
  \/ /\ m.stage \in {"None", "Establishing"}
     /\ a = Byte("C") /\ m.file = <<>>
  \/ /\ m.stage = "Established"
     /\ a = Header("file") /\ m.file = <<>> /\ m.size = FileSize
  \/ /\ m.stage = "Transmitting"
     /\ a \in Data /\ a.blk = m.blk /\ m.file = Beginning(After(a)) /\ m.size = FileSize
  \/ /\ m.stage \in {"Finishing", "Finished"}
     /\ a \in Ends /\ m.file = File

\* A sending side in state m, with in on its way to it, wrote a last, and its
\* buffer holds what it writes next.  In the stage Established the first block
\* is read on an ACK and written on the C that comes right behind it.
TxAt(m, in, a) ==
  \/ m.stage \in {"None", "Establishing"} /\ a = Byte("C")
  \/ /\ m.stage = "Established" /\ m.blk = 0
     /\ a = Header("file") /\ m.buf = <<a>> /\ m.count = 0
  \/ /\ m.stage = "Established" /\ m.blk = 1
     /\ FileSize # 0 /\ m.buf = <<Block(1, 0)>> /\ m.count = After(Block(1, 0))
     /\ a \in {Header("file"), Block(1, 0)}
     /\ in # <<>> /\ in[1].code = "C"
  \/ /\ m.stage = "Established" /\ m.blk = 2
     /\ FileSize = 0 /\ a = Byte("EOT") /\ m.buf = <<a>> /\ m.count = 0
  \/ /\ m.stage = "Transmitting"
     /\ a \in Data /\ a.blk = m.blk /\ m.buf = <<a>> /\ m.count = After(a)
  \/ m.stage = "Finishing" /\ a = Byte("EOT") /\ m.buf = <<a>>
  \/ m.stage = "Finished" /\ a = Header("null") /\ m.buf = <<a>>

\* A sending side that has not read the first block yet.
Early(m) ==
  m.stage \in {"None", "Establishing"} \/ (m.stage = "Established" /\ m.blk = 0)

\* Every ACK is followed by the C of the same answer.
Answered(in) ==
  \A i \in 1..Len(in) : in[i].code = "ACK" => i < Len(in) /\ in[i + 1].code = "C"
-----------------------------------------------------------------------------
\* Before a side is started.
TxFresh == tx.status = "Idle" /\ tx.stage = "None" /\ ~tx.timer /\ toRx = <<>>
RxFresh ==
  /\ rx.status = "Idle" /\ rx.stage = "None" /\ ~rx.timer
  /\ rx.file = <<>> /\ toTx = <<>>
  /\ tx.stage \in {"None", "Establishing"}
  /\ \A i \in 1..Len(toRx) : toRx[i] \in Starts

\* The receiving side before its transfer and after it.
RxApart ==
  /\ rx.runs = 0 <=> rx.status = "Idle"
  /\ rx.status \in Final => \E n \in 0..FileSize : rx.file = Beginning(n)
  /\ rx.status = "Finish" => rx.file = File

\* Who has been started.
Started ==
  /\ tx.runs = 0 => TxFresh
  /\ tx.runs # 0 => tx.status # "Idle"
  /\ Running(tx) => tx.active /\ (tx.stage # "None" => tx.timer)
  /\ rx.runs = 0 => RxFresh

\* The sending side, the receiving one having taken a last.
TxInStep(a) ==
  /\ TxAt(tx, toTx, Newest(a, toRx))
  /\ Early(tx) => /\ Answered(toTx)
                  /\ a \notin Data /\ \A i \in 1..Len(toRx) : toRx[i] \notin Data

\* Both sides.
InStepAt(a) ==
  /\ RxAt(rx, a) /\ Continues(a, toRx)
  /\ tx.status \notin Final => TxInStep(a)

\* As long as nothing is lost or damaged, the callbacks of YmodemTransmit and
\* YmodemFileReceive stay in step: however often a packet is repeated and an
\* answer overtaken, what is under way leaves no gap between what the receiving
\* side took last and what txBuffer holds, and fileCount stands behind it.
InStep ==
  Unspoiled =>
    /\ RxApart
    /\ rx.status \notin Final => Started /\ \E a \in Packets : InStepAt(a)
=============================================================================

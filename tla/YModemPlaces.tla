---------------------------- MODULE YModemPlaces ----------------------------
(***************************************************************************)
(* Why the file stays in order on a line that loses, damages and delays:   *)
(* as long as no number comes round, the number of a block says which part *)
(* of the file it carries.  The exception is the first block, which the    *)
(* sending side reads on an ACK and calls 1 whichever it is; so every ACK  *)
(* it reads before must have its C behind it.                              *)
(***************************************************************************)
EXTENDS YModemInStep

\* Where block n begins, and what is written when it is.
PlaceOf(n) == (n - 1) * StxSize
Upto(n)    == Smaller(n * StxSize, FileSize)

\* The block of that number; numbers stand for blocks of the file only.
BlockOf(n) == Block(n, PlaceOf(n))
BlockNumbers == {n \in 1..(Blocks - 1) : PlaceOf(n) < FileSize}

\* A packet that passes for good is a header or carries what its number says.
Placed(pkt) ==
  IsPacket(pkt) /\ pkt.good =>
    \/ pkt \in {Header("file"), Header("null")}
    \/ pkt \in {BlockOf(n) : n \in BlockNumbers}

FileBegun == \E n \in 0..FileSize : rx.file = Beginning(n)
-----------------------------------------------------------------------------
\* A receiving side in state m: the file is written up to the block taken last.
RxPlaced(m) ==
  /\ m.stage \in {"None", "Establishing", "Established"} => m.file = <<>>
  /\ m.stage \in {"Established", "Transmitting"} => m.size = FileSize
  /\ m.stage = "Transmitting" =>
       m.file = File \/ (m.blk \in BlockNumbers /\ m.file = Beginning(Upto(m.blk)))

\* A sending side in state m, with in on its way to it: the buffer holds the block of
\* its number, and the file is read up to its end.
TxPlaced(m, in) ==
  \/ m.stage \in {"None", "Establishing"}
  \/ /\ m.stage = "Established" /\ m.blk = 0
     /\ m.buf = <<Header("file")>> /\ m.count = 0
  \/ /\ m.stage = "Established" /\ m.blk = 1
     /\ 1 \in BlockNumbers /\ m.buf = <<BlockOf(1)>> /\ m.count = Upto(1)
     /\ in # <<>> /\ in[1].code = "C"
  \/ /\ m.stage = "Established" /\ m.blk = 2
     /\ FileSize = 0 /\ m.buf = <<Byte("EOT")>> /\ m.count = 0
  \/ /\ m.stage = "Transmitting"
     /\ m.blk \in BlockNumbers /\ m.buf = <<BlockOf(m.blk)>> /\ m.count = Upto(m.blk)
  \/ m.stage = "Finishing" /\ m.buf = <<Byte("EOT")>>
  \/ m.stage = "Finished" /\ m.buf = <<Header("null")>>

\* Before the sending side has read a block, none is under way or written, and
\* every ACK has its C behind it.
NoBlockYet ==
  /\ rx.stage # "Transmitting"
  /\ \A pkt \in Range(toRx) : pkt.body # "data"
  /\ Answered(toTx)

\* Who has been started, and with which timer.
Begun ==
  /\ tx.runs = 0 <=> tx.status = "Idle"
  /\ tx.status = "Idle" => tx.stage = "None" /\ ~tx.timer
  /\ rx.status = "Idle" => rx.stage = "None" /\ ~rx.timer /\ toTx = <<>>
  /\ Running(tx) => tx.active /\ (tx.stage # "None" => tx.timer)

\* Both sides and the line between them, as long as the receiving one goes on.
Places ==
  /\ FileBegun
  /\ rx.runs = 0 <=> rx.status = "Idle"
  /\ rx.status \notin Final =>
       /\ Begun /\ RxPlaced(rx) /\ \A pkt \in Range(toRx) : Placed(pkt)
       /\ tx.status \notin Final => TxPlaced(tx, toTx) /\ (Early(tx) => NoBlockYet)

\* As long as the answers to the header arrive, YmodemTransmit and YmodemFileReceive
\* agree what every block number stands for: on both sides and on the line between
\* them, whatever the line did to the rest.
InPlace == OneTransfer /\ Short /\ faults.opening = 0 => Places
=============================================================================

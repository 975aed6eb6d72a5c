----------------------------- MODULE YModemTurns -----------------------------
(***************************************************************************)
(* Why a clean transfer ends alike on both sides: on a line that answers   *)
(* in time the two state machines take turns.  Whatever is on the lines    *)
(* says whose turn it is, and no side is ever left waiting for the other   *)
(* while that one waits for it.                                            *)
(***************************************************************************)
EXTENDS YModemInStep

\* The line answers in time and loses nothing, the name of the file has no space in
\* it, and nobody cancels.  setTimeOut takes no less than two seconds, which makes
\* timeDivide 40: were it 0, a side would repeat itself in every slot.
Clean == Prompt /\ ~Spaced /\ ~Cancels /\ MaxFaults = 0 /\ TimeDivide # 0

Call == Byte("C")
Ack  == Byte("ACK")
Nak  == Byte("NAK")
Eot  == Byte("EOT")
Can  == Byte("CAN")

\* The stages of a side between two transfers.
Resting == {"None", "Establishing"}

Begins(line, item) == line # <<>> /\ line[1] = item

\* A side whose slots are at work.
TxUp == Running(tx) /\ tx.timer
RxUp == Running(rx) /\ rx.timer

\* The stages of the two sides, and what is on the lines.
Stand(s, t, in, out) ==
  /\ TxUp /\ RxUp
  /\ tx.stage = s /\ rx.stage = t
  /\ toRx = in /\ toTx = out

\* Both or neither of the sides have finished their one transfer.
Even == OneTransfer => (tx.status = "Finish" <=> rx.status = "Finish")
-----------------------------------------------------------------------------
(***************************************************************************)
(* Before and after the data                                               *)
(***************************************************************************)
\* The two sides call each other, or are at rest.
Apart ==
  /\ tx.stage \in Resting /\ rx.stage \in Resting
  /\ toRx \in {<<>>, <<Call>>} /\ toTx \in {<<>>, <<Call>>}
  /\ toRx # <<>> => TxUp
  /\ toTx # <<>> => RxUp /\ rx.stage = "Establishing" /\ (toRx # <<>> => rx.time = 0)
  /\ Even

\* The sending side could not open its file, or had its limit of errors.
GivenUp ==
  /\ tx.stage \in Resting /\ tx.status # "Finish"
  /\ RxUp /\ rx.stage \in {"Establishing", "Established"}
  /\ toTx = <<>>
  /\ \/ Begins(toRx, Can)
     \/ /\ rx.stage = "Establishing" /\ rx.time = 0
        /\ Begins(toRx, Call) /\ Begins(Tail(toRx), Can)

\* The header is under way.
Asked ==
  /\ \/ Stand("Established", "Establishing", <<Header("file")>>, <<>>)
     \/ /\ Stand("Established", "Establishing", <<Call, Header("file")>>, <<>>)
        /\ rx.time = 0
  /\ tx.count = 0

\* The receiving side could not create its file.
Refused ==
  /\ TxUp /\ tx.stage = "Established"
  /\ rx.stage \in Resting /\ rx.status # "Finish"
  /\ toRx = <<>> /\ Begins(toTx, Can)

\* The receiving side has ended the transfer and says so.
Done ==
  /\ TxUp /\ tx.stage = "Finished"
  /\ rx.stage \in Resting /\ rx.file = File
  /\ OneTransfer => rx.status = "Finish"
  /\ toRx = <<>> /\ Begins(toTx, Ack)
-----------------------------------------------------------------------------
(***************************************************************************)
(* The data                                                                *)
(***************************************************************************)
\* The header is acknowledged, and the first block asked for.
Opened ==
  /\ Stand("Established", "Established", <<>>, <<Ack, Call>>)
  /\ tx.count = 0 /\ rx.file = <<>> /\ rx.size = FileSize

\* The first block is read, and waits for the C.
FirstRead ==
  /\ Stand("Established", "Established", <<>>, <<Call>>)
  /\ FileSize # 0 /\ tx.blk = 1
  /\ tx.buf = <<Block(1, 0)>> /\ tx.count = After(Block(1, 0))
  /\ rx.file = <<>> /\ rx.size = FileSize

\* The block that continues the file is under way.
BlockSent ==
  \E b \in Data :
    /\ \/ Stand("Transmitting", "Established", <<b>>, <<>>) /\ b.blk = 1
       \/ Stand("Transmitting", "Transmitting", <<b>>, <<>>) /\ b.blk = NextBlk(rx.blk)
    /\ tx.blk = b.blk /\ tx.count = After(b)
    /\ rx.file = Beginning(b.pos) /\ rx.size = FileSize

\* It has been written.
BlockTaken ==
  /\ Stand("Transmitting", "Transmitting", <<>>, <<Ack>>)
  /\ tx.blk = rx.blk
  /\ tx.count \in 1..FileSize
  /\ rx.file = Beginning(tx.count) /\ rx.size = FileSize

\* The file is through: EOT twice, the first answered with NAK, then the null
\* header.
Ending ==
  /\ rx.file = File
  /\ \/ Stand("Finishing", "Transmitting", <<Eot>>, <<>>)
     \/ Stand("Finishing", "Finishing", <<>>, <<Nak>>)
     \/ Stand("Finishing", "Finishing", <<Eot>>, <<>>) /\ tx.time = 0
     \/ Stand("Finishing", "Finished", <<>>, <<Ack, Call>>) /\ tx.time = 0
     \/ Stand("Finishing", "Finished", <<>>, <<Call>>)
     \/ Stand("Finished", "Finished", <<Header("null")>>, <<>>)
-----------------------------------------------------------------------------
(***************************************************************************)
(* An empty file: the sending side writes EOT on the ACK and again on the  *)
(* C behind it, so that two packets are under way to the end.              *)
(***************************************************************************)
\* The first EOT is under way, or refused.
EmptyRead ==
  /\ \/ Stand("Established", "Established", <<Eot>>, <<Call>>)
     \/ Stand("Established", "Finishing", <<>>, <<Call, Nak>>)
  /\ tx.blk = 2 /\ tx.buf = <<Eot>>

\* Both are.
EmptyEnding ==
  /\ ErrorMax # 0
  /\ \/ Stand("Finishing", "Established", <<Eot, Eot>>, <<>>)
     \/ Stand("Finishing", "Finishing", <<Eot>>, <<Nak>>)
     \/ Stand("Finishing", "Finishing", <<Eot, Eot>>, <<>>) /\ tx.time = 0
     \/ Stand("Finishing", "Finished", <<>>, <<Nak, Ack, Call>>) /\ rx.err = 0
     \/ Stand("Finishing", "Finished", <<Eot>>, <<Ack, Call>>) /\ tx.time = 0 /\ rx.err = 0
     \/ Stand("Finishing", "Finished", <<Eot>>, <<Call>>) /\ rx.err = 0
     \/ Stand("Finishing", "Finished", <<>>, <<Ack, Call, Ack, Call>>) /\ tx.time = 0
     \/ Stand("Finishing", "Finished", <<>>, <<Call, Ack, Call>>)
     \/ Stand("Finished", "Finished", <<Eot, Header("null")>>, <<>>) /\ rx.err = 0
     \/ Stand("Finished", "Finished", <<Header("null")>>, <<Ack, Call>>)

\* One side is through, the other about to be.
EmptyLeft ==
  /\ RxUp
  /\ \/ /\ tx.status = "Error"
        /\ \/ rx.stage = "Established" /\ Begins(toRx, Eot) /\ Begins(Tail(toRx), Can)
           \/ rx.stage = "Finishing" /\ Begins(toRx, Can)
     \/ /\ tx.status = "Finish"
        /\ rx.stage = "Finished" /\ Begins(toRx, Header("null"))

\* Both are through.
EmptyOver == BothOver /\ (tx.status = "Finish" <=> rx.status = "Finish")

EmptyTurn == FileSize = 0 /\ (EmptyRead \/ EmptyEnding \/ EmptyLeft \/ EmptyOver)
-----------------------------------------------------------------------------
\* What holds at every turn.
AtRest ==
  /\ rx.timer => Running(rx)
  /\ Running(tx) => tx.active
  /\ tx.runs = 0 => tx.status = "Idle" /\ ~tx.timer
  /\ rx.runs = 0 => rx.status = "Idle"
  /\ \E n \in 0..FileSize : rx.file = Beginning(n)

Turn ==
  \/ Apart \/ GivenUp \/ Asked \/ Refused \/ Done
  \/ Opened \/ FirstRead \/ BlockSent \/ BlockTaken \/ Ending
  \/ EmptyTurn

\* On a clean line YmodemTransmit and YmodemFileReceive take turns, over one
\* transfer or, unless the file is empty, over any number of them.
TakeTurns == (FileSize = 0 => OneTransfer) => AtRest /\ Turn
=============================================================================

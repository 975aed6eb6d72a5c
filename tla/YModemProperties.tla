-------------------------- MODULE YModemProperties --------------------------
(***************************************************************************)
(* What is claimed of a YModem transfer: of the file, of the resources the *)
(* two sides hold, and of what their users are told.                       *)
(***************************************************************************)
EXTENDS YModemTransfer

DataStages == {"Established", "Transmitting", "Finishing", "Finished"}

TypeOK ==
  /\ toRx \in Seq(Item) /\ toTx \in Seq(Item)
  /\ tx \in TxState /\ rx \in RxState
  /\ faults \in [toRx : 0..MaxFaults, toTx : 0..MaxFaults, opening : 0..MaxFaults]
-----------------------------------------------------------------------------
(***************************************************************************)
(* The file                                                                *)
(***************************************************************************)
File == [i \in 1..FileSize |-> i]

\* Neither side has started a second transfer.
OneTransfer == tx.runs <= 1 /\ rx.runs <= 1

\* What the receiving side has written is a beginning of the file sent: the
\* block numbers keep repeated and overtaken blocks out of it.
FileIsPrefix == OneTransfer => IsPrefix(rx.file, File)

\* A receiving side that tells its user the transfer finished has written the
\* whole file, if its name has no space (Spaced is FALSE in the runs: with one in
\* it, what follows the space is taken for the size).
RxFinishMeansComplete == rx.status = "Finish" => rx.file = File

\* A file of which no two blocks have the same number: up to 255 of them.
Short == FileSize <= (Blocks - 1) * StxSize

\* Whatever else is lost, damaged or late: if the answers to the header arrive, what
\* the receiving side has written is a beginning of the file, though the sending
\* side may have run ahead of it and cannot come back.
LossKeepsOrder ==
  OneTransfer /\ Short /\ faults.opening = 0 => IsPrefix(rx.file, File)

\* The file never grows past the size its header gave: the filling of the last
\* packet is cut off.
RxWithinSize == Len(rx.file) <= rx.size

\* Two sides that are both through with the one transfer agree how it went.
BothOver  == tx.status \in Final /\ rx.status \in Final
Agreement == OneTransfer /\ BothOver => (tx.status = "Finish" <=> rx.status = "Finish")

\* The abstract transfer this one carries out.
SideOf(m) ==
  IF m.status = "Idle" THEN "idle"
  ELSE IF Running(m) THEN "running"
  ELSE IF m.status = "Finish" THEN "done"
  ELSE "failed"

Abstract == INSTANCE FileTransfer
  WITH sender <- SideOf(tx), receiver <- SideOf(rx), saved <- rx.file

ImplementsFileTransfer == Abstract!Spec
-----------------------------------------------------------------------------
(***************************************************************************)
(* Resources and reports                                                   *)
(***************************************************************************)
\* The file of either side is open exactly in the stages that use it: every
\* way out of a transfer closes it, and no way in opens it twice.
TxHandle == tx.open <=> tx.stage \in DataStages
RxHandle == rx.open <=> rx.stage \in DataStages

\* The timer of a side whose transfer is over has one more slot to give, and that
\* slot finds the stage None: it reads nothing meant for the protocol parsers.
NoStraySlot == /\ tx.timer /\ tx.stage # "None" => Running(tx)
               /\ rx.timer /\ rx.stage # "None" => Running(rx)

\* The receiving user is told of the end exactly once for each transfer, and the
\* channel is back in its passive mode exactly when that is done.
RxToldOnce ==
  /\ rx.told = IF Running(rx) THEN rx.runs - 1 ELSE rx.runs
  /\ rx.active <=> Running(rx)

\* The sending user is never told more often than transfers were started, and
\* when as often, the channel is back and no slot is left to read it.
TxToldAtMostOnce ==
  /\ tx.told <= tx.runs
  /\ tx.told = tx.runs => ~tx.active /\ ~Running(tx)

\* What the comment at DEFAULT_YMODEL_TIME_OUT_MILLSCENDS says of both sides: a
\* transfer that is over has been reported.
EndIsReported ==
  /\ tx.status \in Final => tx.told = tx.runs
  /\ rx.status \in Final => rx.told = rx.runs

\* A sending side whose transfer is over puts nothing more on the line, although
\* its timer fires once more.
TxSilentAfterEnd ==
  [][tx.status \in Final /\ tx'.runs = tx.runs /\ tx' # tx => toRx' = toRx]_vars
-----------------------------------------------------------------------------
(***************************************************************************)
(* Progress                                                                *)
(***************************************************************************)
\* A transfer whose slots run comes to an end by itself, whatever the line does
\* and whether or not the other side is there.
TxEnds == (tx.timer /\ Running(tx)) ~> ~Running(tx)
RxEnds == Running(rx) ~> ~Running(rx)

\* Once the receiving side has taken the header of a file, both sides finish.
HeaderLeadsToFinish ==
  (OneTransfer /\ rx.stage = "Established")
    ~> ((tx.status = "Finish" /\ rx.status = "Finish") \/ ~OneTransfer)
=============================================================================

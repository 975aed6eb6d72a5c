--------------------------- MODULE YModemTransmit ---------------------------
(***************************************************************************)
(* The sending side: YmodemTransmit (ymodemtransmit.cpp) on top of         *)
(* YModem::transmit (ymodem.cpp), started and cancelled through            *)
(* FileTransmitHelper.  One slot of the 10 ms timer is one step.           *)
(***************************************************************************)
EXTENDS YModem

VARIABLE tx

TxState ==
  [stage: Stages, time: Nat, err: Nat, blk: Numbers,
   buf: Seq(Item),        \* txBuffer, as the items it would put on the line
   status: Statuses, timer: BOOLEAN,
   count: 0..FileSize,    \* fileCount
   open: BOOLEAN,         \* the file is open
   active: BOOLEAN,       \* the channel is in its active mode
   told: Nat,             \* final statuses the user has been told
   runs: Nat]             \* transfers started

TxInit ==
  tx = [stage |-> "None", time |-> 0, err |-> 0, blk |-> 0, buf |-> <<>>,
        status |-> "Idle", timer |-> FALSE, count |-> 0, open |-> FALSE,
        active |-> FALSE, told |-> 0, runs |-> 0]
-----------------------------------------------------------------------------
(***************************************************************************)
(* How a slot ends.  r is what it read, m the new state, out what it wrote.*)
(***************************************************************************)
\* The timer is restarted as long as the transfer goes on.
TxSlot(r, m, out) ==
  /\ tx' = [m EXCEPT !.timer = Running(m)]
  /\ toTx' = r.rest
  /\ toRx' = toRx \o out

\* callTransmitStatus with a final status: the helper gives the channel back,
\* which clears the port (out was written just before), and tells the user.
TxReport(in, m, s, out) ==
  /\ tx' = [m EXCEPT !.status = s, !.active = FALSE, !.told = @ + 1]
  /\ toTx' \in Uncleared(in)
  /\ toRx' \in Sent(toRx, out)

\* Variants of TxError for mutation: the file stays open; the stage stays.
TxErrorKeepsFile(r) ==
  /\ tx' = [Reset(tx, "None") EXCEPT !.buf = Cans, !.status = "Error", !.timer = TRUE]
  /\ toTx' = r.rest
  /\ toRx' = toRx \o Cans

TxErrorKeepsStage(r) ==
  /\ tx' = [Reset(tx, tx.stage) EXCEPT !.buf = Cans, !.open = FALSE,
                                       !.status = "Error", !.timer = TRUE]
  /\ toTx' = r.rest
  /\ toRx' = toRx \o Cans

\* callback(StatusError): the file is closed; nobody is told.
TxError(r) ==
  /\ tx' = [Reset(tx, "None") EXCEPT !.buf = Cans, !.open = FALSE,
                                     !.status = "Error", !.timer = TRUE]
  /\ toTx' = r.rest
  /\ toRx' = toRx \o Cans

\* callback(StatusTimeout)
TxTimeout(r) ==
  TxReport(r.rest, [Reset(tx, "None") EXCEPT !.buf = Cans, !.timer = TRUE], "Timeout", Cans)

\* callback(StatusAbort) and callback(StatusFinish)
TxOver(r, s) ==
  TxReport(r.rest, [Reset(tx, "None") EXCEPT !.open = FALSE, !.timer = TRUE], s, <<>>)

\* A variant for mutation: a repetition starts the wait anew.
TxSilenceRestarts(r) ==
  LET m == Waited(tx)
  IN  \/ Expired(m)  /\ TxError(r)
      \/ ~Expired(m) /\ TxSlot(r, IF Due(m) THEN [m EXCEPT !.time = 0] ELSE m,
                                IF Due(m) THEN tx.buf ELSE <<>>)

\* The default branch of a stage that repeats its last packet.
TxSilence(r) ==
  LET m == Waited(tx)
  IN  \/ Expired(m)  /\ TxError(r)
      \/ ~Expired(m) /\ TxSlot(r, m, IF Due(m) THEN tx.buf ELSE <<>>)

\* NAK, and C in the last stage: the last packet again, up to a limit.
TxRepeat(r) ==
  LET m == Faulted(tx)
  IN  \/ TooMany(m)  /\ TxError(r)
      \/ ~TooMany(m) /\ TxSlot(r, m, tx.buf)
-----------------------------------------------------------------------------
(***************************************************************************)
(* callback(StatusEstablish) and callback(StatusTransmit)                  *)
(***************************************************************************)
TxOpen(r) ==
  \/ TxSlot(r, [Reset(tx, "Established") EXCEPT
                  !.open = TRUE, !.count = 0, !.status = "Establish",
                  !.buf = <<Header("file")>>], <<Header("file")>>)
  \/ /\ LocalFaults
     /\ tx' = [Reset(tx, "None") EXCEPT !.buf = Cans, !.status = "Error", !.timer = TRUE]
     /\ toTx' = r.rest
     /\ toRx' = toRx \o Cans

\* A variant for mutation: a short last read counts as a whole one.
TxFillWhole(n, s) ==
  LET pkt == Block(n, tx.count)
  IN  [Reset(tx, s) EXCEPT !.blk = n, !.status = "Transmit", !.buf = <<pkt>>,
         !.count = @ + Length(pkt)]

\* The next part of the file, read into the buffer under block number n.
TxFill(n, s) ==
  LET pkt == Block(n, tx.count)
  IN  [Reset(tx, s) EXCEPT !.blk = n, !.status = "Transmit", !.buf = <<pkt>>,
         !.count = @ + Smaller(Length(pkt), FileSize - @)]

\* A variant for mutation: the EOT is sent, but the buffer keeps the last block.
TxEotKeepsBuffer(n, s) ==
  [Reset(tx, s) EXCEPT !.blk = n, !.status = "Transmit"]

TxEot(n, s) ==
  [Reset(tx, s) EXCEPT !.blk = n, !.status = "Transmit", !.buf = <<Byte("EOT")>>]
-----------------------------------------------------------------------------
TransmitStageNone ==
  /\ tx.stage = "None"
  /\ TxSlot([rest |-> toTx], Reset(tx, "Establishing"), <<>>)

TransmitStageEstablishing ==
  /\ tx.stage = "Establishing"
  /\ \E r \in ReceivePacket(tx, toTx) :
       \/ r.pkt.code = "C"   /\ TxOpen(r)
       \/ r.pkt.code = "CAN" /\ TxOver(r, "Abort")
       \/ /\ r.pkt.code \notin {"C", "CAN"}
          /\ LET m == Waited(tx)
             IN  \/ Expired(m)  /\ TxTimeout(r)
                 \/ ~Expired(m) /\ TxSlot(r, m, <<>>)

\* A variant for mutation: dataCount does not count the first block.
AfterEstablishedUncounted(n) == "Established"

\* stage + dataCount, with dataCount 0 before the first block is read, 1 once
\* it is, 2 when there is none
AfterEstablished(n) ==
  IF n = 0 THEN "Established" ELSE IF n = 1 THEN "Transmitting" ELSE "Finishing"

\* The answer to the header is ACK, which reads the first block, then C,
\* which sends what was read.
TransmitStageEstablished ==
  /\ tx.stage = "Established"
  /\ \E r \in ReceivePacket(tx, toTx) :
       \/ r.pkt.code = "NAK" /\ TxRepeat(r)
       \/ /\ r.pkt.code = "C"
          /\ LET m == Faulted(tx)
             IN  \/ TooMany(m)  /\ TxError(r)
                 \/ /\ ~TooMany(m)
                    /\ TxSlot(r, [tx EXCEPT !.stage = AfterEstablished(tx.blk),
                                            !.time = 0, !.err = 0], tx.buf)
       \/ /\ r.pkt.code = "ACK"
          /\ \/ tx.count # FileSize /\ TxSlot(r, TxFill(1, "Established"), <<>>)
             \/ tx.count = FileSize /\ TxSlot(r, TxEot(2, "Established"), <<Byte("EOT")>>)
       \/ r.pkt.code = "CAN" /\ TxOver(r, "Abort")
       \/ r.pkt.code \notin {"NAK", "C", "ACK", "CAN"} /\ TxSilence(r)

TransmitStageTransmitting ==
  /\ tx.stage = "Transmitting"
  /\ \E r \in ReceivePacket(tx, toTx) :
       \/ r.pkt.code = "NAK" /\ TxRepeat(r)
       \/ /\ r.pkt.code = "ACK"
          /\ LET m == TxFill(NextBlk(tx.blk), "Transmitting")
             IN  \/ tx.count # FileSize /\ TxSlot(r, m, m.buf)
                 \/ tx.count = FileSize /\ TxSlot(r, TxEot(0, "Finishing"), <<Byte("EOT")>>)
       \/ r.pkt.code = "CAN" /\ TxOver(r, "Abort")
       \/ r.pkt.code \notin {"NAK", "ACK", "CAN"} /\ TxSilence(r)

TransmitStageFinishing ==
  /\ tx.stage = "Finishing"
  /\ \E r \in ReceivePacket(tx, toTx) :
       \/ /\ r.pkt.code = "NAK"
          /\ TxSlot(r, [Reset(tx, "Finishing") EXCEPT !.buf = <<Byte("EOT")>>], <<Byte("EOT")>>)
       \/ /\ r.pkt.code = "C"
          /\ TxSlot(r, [Reset(tx, "Finished") EXCEPT !.buf = <<Header("null")>>],
                    <<Header("null")>>)
       \/ r.pkt.code = "CAN" /\ TxOver(r, "Abort")
       \/ r.pkt.code \notin {"NAK", "C", "CAN"} /\ TxSilence(r)

TransmitStageFinished ==
  /\ tx.stage = "Finished"
  /\ \E r \in ReceivePacket(tx, toTx) :
       \/ r.pkt.code \in {"C", "NAK"} /\ TxRepeat(r)
       \/ r.pkt.code = "ACK" /\ TxOver(r, "Finish")
       \/ r.pkt.code = "CAN" /\ TxOver(r, "Abort")
       \/ r.pkt.code \notin {"C", "NAK", "ACK", "CAN"} /\ TxSilence(r)

\* slotReadTimeOut
TxTick ==
  /\ tx.timer
  /\ \/ TransmitStageNone
     \/ TransmitStageEstablishing
     \/ TransmitStageEstablished
     \/ TransmitStageTransmitting
     \/ TransmitStageFinishing
     \/ TransmitStageFinished
-----------------------------------------------------------------------------
(***************************************************************************)
(* The user.  A second start during a transfer is left to the caller to    *)
(* avoid (the code would take the new file name into the running one).     *)
(***************************************************************************)
TxStart ==
  /\ ~(tx.timer /\ Running(tx))
  /\ tx.runs < MaxRuns
  /\ tx' = [tx EXCEPT !.status = "Establish", !.timer = TRUE, !.active = TRUE, !.runs = @ + 1]
  /\ toTx' \in Uncleared(toTx)
  /\ \E out \in Sent(toRx, <<>>) : toRx' = Append(out, Byte("C"))

\* startTransmit returns false for a name that does not fit in the header:
\* the channel is active by then, and the status Establish.
TxRefused ==
  /\ LocalFaults
  /\ ~(tx.timer /\ Running(tx))
  /\ tx.runs < MaxRuns
  /\ tx' = [tx EXCEPT !.status = "Establish", !.active = TRUE, !.runs = @ + 1]
  /\ toTx' \in Uncleared(toTx)
  /\ toRx' \in Sent(toRx, <<>>)

\* A variant for mutation: cancelTransmit does not look at the status.
TxCancelAnytime ==
  /\ Cancels
  /\ tx.runs > 0
  /\ TxReport(toTx, [Reset(tx, "None") EXCEPT !.buf = Cans, !.open = FALSE, !.timer = FALSE],
              "Abort", Cans)

\* cancelTransmit: stopTransmit closes the file, stops the timer and reports
TxCancel ==
  /\ Cancels
  /\ Running(tx)
  /\ TxReport(toTx, [Reset(tx, "None") EXCEPT !.buf = Cans, !.open = FALSE, !.timer = FALSE],
              "Abort", Cans)

\* Bytes no slot will read go to the protocol parsers (passive channel), or
\* wait in the port for the clear() of the next start (active channel).
TxDrain ==
  /\ ~Reading(tx)
  /\ toTx # <<>>
  /\ toTx' = <<>>
  /\ UNCHANGED <<toRx, tx>>
=============================================================================

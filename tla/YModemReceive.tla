--------------------------- MODULE YModemReceive ----------------------------
(***************************************************************************)
(* The receiving side: YmodemFileReceive (ymodemreceiver.cpp) on top of    *)
(* YModem::receive (ymodem.cpp), started and cancelled through             *)
(* FileTransmitHelper.  One slot of the 10 ms timer is one step.           *)
(***************************************************************************)
EXTENDS YModem

VARIABLE rx

\* No transfer writes more than this, and none of an empty file anything: larger sizes
\* in a header are not told apart.
SizeMax == IF FileSize = 0 THEN 0 ELSE FileSize + StxSize

RxState ==
  [stage: Stages, time: Nat, err: Nat, blk: Numbers,
   status: Statuses, timer: BOOLEAN,
   size: 0..SizeMax,      \* fileSize, read from the header
   file: Seq(0..FileSize), \* what was written: places of the file sent, 0 for filling and damage
   open: BOOLEAN,         \* the file is open
   active: BOOLEAN,       \* the channel is in its active mode
   told: Nat,             \* final statuses the user has been told
   runs: Nat]             \* transfers started

RxInit ==
  rx = [stage |-> "None", time |-> 0, err |-> 0, blk |-> 0,
        status |-> "Idle", timer |-> FALSE, size |-> 0, file |-> <<>>,
        open |-> FALSE, active |-> FALSE, told |-> 0, runs |-> 0]
-----------------------------------------------------------------------------
(***************************************************************************)
(* How a slot ends.  r is what it read, m the new state, out what it wrote.*)
(***************************************************************************)
\* The timer is restarted as long as the transfer goes on.
RxSlot(r, m, out) ==
  /\ rx' = [m EXCEPT !.timer = Running(m)]
  /\ toRx' = r.rest
  /\ toTx' = toTx \o out

\* callTransmitStatus with a final status, given after out was written: the
\* helper gives the channel back, which clears the port, and tells the user.
\* What the slot writes after that is sent.
RxReport(in, m, s, out, after) ==
  /\ rx' = [m EXCEPT !.status = s, !.active = FALSE, !.told = @ + 1]
  /\ toRx' \in Uncleared(in)
  /\ \E sent \in Sent(toTx, out) : toTx' = sent \o after

\* Variants of RxOver for mutation: nothing is written after the report; the
\* file stays open.
RxOverOneAck(r, s, out, after) ==
  RxReport(r.rest, [Reset(rx, "None") EXCEPT !.open = FALSE, !.timer = FALSE], s, out, <<>>)

RxOverKeepsFile(r, s, out, after) ==
  RxReport(r.rest, [Reset(rx, "None") EXCEPT !.timer = FALSE], s, out, after)

\* callback(StatusFinish), (StatusAbort), (StatusError): the file is closed
RxOver(r, s, out, after) ==
  RxReport(r.rest, [Reset(rx, "None") EXCEPT !.open = FALSE, !.timer = FALSE], s, out, after)

RxError(r) == RxOver(r, "Error", Cans, <<>>)
RxAbort(r) == RxOver(r, "Abort", <<>>, <<>>)

\* callback(StatusTimeout) leaves the file as it is
RxTimeout(r) ==
  RxReport(r.rest, [Reset(rx, "None") EXCEPT !.timer = FALSE], "Timeout", Cans, <<>>)

\* A variant for mutation: asking again starts the wait anew.
RxSilenceRestarts(r, out) ==
  LET m == Waited(rx)
  IN  \/ Expired(m)  /\ RxError(r)
      \/ ~Expired(m) /\ RxSlot(r, IF Due(m) THEN [m EXCEPT !.time = 0] ELSE m,
                                IF Due(m) THEN out ELSE <<>>)

\* The default branch of a stage that asks again with out and then calls
\* callback(StatusError).
RxSilence(r, out) ==
  LET m == Waited(rx)
  IN  \/ Expired(m)  /\ RxError(r)
      \/ ~Expired(m) /\ RxSlot(r, m, IF Due(m) THEN out ELSE <<>>)

\* A packet that is damaged, repeated or out of order is answered with out,
\* up to a limit.
RxCounted(r, out) ==
  LET m == Faulted(rx)
  IN  \/ TooMany(m)  /\ RxError(r)
      \/ ~TooMany(m) /\ RxSlot(r, m, out)
-----------------------------------------------------------------------------
(***************************************************************************)
(* callback(StatusEstablish) and callback(StatusTransmit)                  *)
(***************************************************************************)
\* The status is reported before the CANs are written: clear() spares them.
RxRefuse(r) ==
  RxReport(r.rest, [Reset(rx, "None") EXCEPT !.timer = FALSE], "Error", <<>>, Cans)

\* A header names the file and its size, and the name ends where a space is: with one
\* in the name what follows it is taken for the size (0 if it is no number).  A null
\* header has no name; a data block whose number wrapped to 0 gives a name and a
\* size of any kind.
Sizes(pkt) == IF pkt.body = "file" /\ ~Spaced THEN {FileSize} ELSE 0..SizeMax

\* A variant for mutation: the header is acknowledged without the C.
RxOpenNoC(r) ==
  \/ /\ r.pkt.body # "null"
     /\ \E n \in Sizes(r.pkt) :
          RxSlot(r, [Reset(rx, "Established") EXCEPT
                       !.open = TRUE, !.size = n, !.file = <<>>, !.status = "Establish"],
                 <<Byte("ACK")>>)
  \/ (r.pkt.body = "null" \/ LocalFaults) /\ RxRefuse(r)

RxOpen(r) ==
  \/ /\ r.pkt.body # "null"
     /\ \E n \in Sizes(r.pkt) :
          RxSlot(r, [Reset(rx, "Established") EXCEPT
                       !.open = TRUE, !.size = n, !.file = <<>>, !.status = "Establish"],
                 <<Byte("ACK"), Byte("C")>>)
  \/ (r.pkt.body = "null" \/ LocalFaults) /\ RxRefuse(r)

\* A variant for mutation: the filling of the last packet is written too.
RxSaveWhole(r, n) ==
  RxSlot(r, [Reset(rx, "Transmitting") EXCEPT
               !.blk = n, !.status = "Transmit",
               !.file = @ \o [i \in 1..Length(r.pkt) |-> Unit(r.pkt, i)]],
         <<Byte("ACK")>>)

\* The payload is written up to the size the header gave.
RxSave(r, n) ==
  LET len == Smaller(Length(r.pkt), rx.size - Len(rx.file))
  IN  RxSlot(r, [Reset(rx, "Transmitting") EXCEPT
                   !.blk = n, !.status = "Transmit",
                   !.file = @ \o [i \in 1..len |-> Unit(r.pkt, i)]],
             <<Byte("ACK")>>)
-----------------------------------------------------------------------------
IsPacket(pkt)    == pkt.code \in {"SOH", "STX"}
\* Variants of IsBlock for mutation: any block number, damaged packets too.
IsAnyBlock(pkt, n) == pkt.good
IsNumber(pkt, n)   == pkt.blk = n

IsBlock(pkt, n)  == pkt.good /\ pkt.blk = n
IsHeader(pkt)    == pkt.code = "SOH" /\ IsBlock(pkt, 0)

ReceiveStageNone ==
  /\ rx.stage = "None"
  /\ RxSlot([rest |-> toRx], Reset(rx, "Establishing"), <<Byte("C")>>)

ReceiveStageEstablishing ==
  /\ rx.stage = "Establishing"
  /\ \E r \in ReceivePacket(rx, toRx) :
       \/ IsHeader(r.pkt) /\ RxOpen(r)
       \/ r.pkt.code = "SOH" /\ ~IsHeader(r.pkt) /\ RxCounted(r, <<Byte("C")>>)
       \/ r.pkt.code = "CAN" /\ RxAbort(r)
       \/ /\ r.pkt.code \notin {"SOH", "CAN"}
          /\ LET m == Waited(rx)
             IN  \/ Expired(m)  /\ RxTimeout(r)
                 \/ ~Expired(m) /\ RxSlot(r, m, IF Due(m) THEN <<Byte("C")>> ELSE <<>>)

\* A variant for mutation: EOT is refused.
RxEotRefused(r) == RxCounted(r, <<Byte("NAK")>>)

\* EOT ends the data in both data stages.
RxEot(r) ==
  RxSlot(r, Reset(rx, "Finishing"), <<Byte("NAK")>>)

\* The header again, or the first block.
ReceiveStageEstablished ==
  /\ rx.stage = "Established"
  /\ \E r \in ReceivePacket(rx, toRx) :
       \/ IsHeader(r.pkt) /\ RxCounted(r, <<Byte("ACK"), Byte("C")>>)
       \/ IsPacket(r.pkt) /\ IsBlock(r.pkt, 1) /\ RxSave(r, 1)
       \/ /\ IsPacket(r.pkt) /\ ~IsHeader(r.pkt) /\ ~IsBlock(r.pkt, 1)
          /\ RxCounted(r, <<Byte("NAK")>>)
       \/ r.pkt.code = "EOT" /\ RxEot(r)
       \/ r.pkt.code = "CAN" /\ RxAbort(r)
       \/ ~IsPacket(r.pkt) /\ r.pkt.code \notin {"EOT", "CAN"} /\ RxSilence(r, <<Byte("NAK")>>)

\* The last block again, or the next one.
ReceiveStageTransmitting ==
  /\ rx.stage = "Transmitting"
  /\ \E r \in ReceivePacket(rx, toRx) :
       \/ IsPacket(r.pkt) /\ IsBlock(r.pkt, rx.blk) /\ RxCounted(r, <<Byte("ACK")>>)
       \/ IsPacket(r.pkt) /\ IsBlock(r.pkt, NextBlk(rx.blk)) /\ RxSave(r, NextBlk(rx.blk))
       \/ /\ IsPacket(r.pkt)
          /\ ~IsBlock(r.pkt, rx.blk) /\ ~IsBlock(r.pkt, NextBlk(rx.blk))
          /\ RxCounted(r, <<Byte("NAK")>>)
       \/ r.pkt.code = "EOT" /\ RxEot(r)
       \/ r.pkt.code = "CAN" /\ RxAbort(r)
       \/ ~IsPacket(r.pkt) /\ r.pkt.code \notin {"EOT", "CAN"} /\ RxSilence(r, <<Byte("NAK")>>)

ReceiveStageFinishing ==
  /\ rx.stage = "Finishing"
  /\ \E r \in ReceivePacket(rx, toRx) :
       \/ r.pkt.code = "EOT" /\ RxSlot(r, Reset(rx, "Finished"), <<Byte("ACK"), Byte("C")>>)
       \/ r.pkt.code = "CAN" /\ RxAbort(r)
       \/ r.pkt.code \notin {"EOT", "CAN"} /\ RxSilence(r, <<Byte("NAK")>>)

\* Any good block 0 ends the transfer: one ACK before the report, one after.
ReceiveStageFinished ==
  /\ rx.stage = "Finished"
  /\ \E r \in ReceivePacket(rx, toRx) :
       \/ IsHeader(r.pkt) /\ RxOver(r, "Finish", <<Byte("ACK")>>, <<Byte("ACK")>>)
       \/ r.pkt.code = "SOH" /\ ~IsHeader(r.pkt) /\ RxCounted(r, <<Byte("NAK")>>)
       \/ r.pkt.code = "EOT" /\ RxCounted(r, <<Byte("ACK"), Byte("C")>>)
       \/ r.pkt.code = "CAN" /\ RxAbort(r)
       \/ r.pkt.code \notin {"SOH", "EOT", "CAN"} /\ RxSilence(r, <<Byte("NAK")>>)

\* slotReadTimeOut
RxTick ==
  /\ rx.timer
  /\ \/ ReceiveStageNone
     \/ ReceiveStageEstablishing
     \/ ReceiveStageEstablished
     \/ ReceiveStageTransmitting
     \/ ReceiveStageFinishing
     \/ ReceiveStageFinished
-----------------------------------------------------------------------------
(***************************************************************************)
(* The user.  A second start during a transfer is left to the caller to    *)
(* avoid.                                                                  *)
(***************************************************************************)
RxStart ==
  /\ ~(rx.timer /\ Running(rx))
  /\ rx.runs < MaxRuns
  /\ rx' = [rx EXCEPT !.status = "Establish", !.timer = TRUE, !.active = TRUE, !.runs = @ + 1]
  /\ toRx' \in Uncleared(toRx)
  /\ toTx' \in Sent(toTx, <<>>)

\* A variant for mutation: cancelReceiver does not look at the status.
RxCancelAnytime ==
  /\ Cancels
  /\ rx.runs > 0
  /\ RxReport(toRx, [Reset(rx, "None") EXCEPT !.open = FALSE], "Abort", Cans, <<>>)

\* cancelReceiver: stopReceive leaves the timer on
RxCancel ==
  /\ Cancels
  /\ Running(rx)
  /\ RxReport(toRx, [Reset(rx, "None") EXCEPT !.open = FALSE], "Abort", Cans, <<>>)

\* Bytes no slot will read go to the protocol parsers, or wait in the port
\* for the clear() of the next start.
RxDrain ==
  /\ ~Reading(rx)
  /\ toRx # <<>>
  /\ toRx' = <<>>
  /\ UNCHANGED <<toTx, rx>>
=============================================================================

---------------------------- MODULE YModemProofs ----------------------------
(***************************************************************************)
(* What holds of every transfer, for every file size, packet size, limit   *)
(* and number of faults, on a line that answers late as on a prompt one.   *)
(*                                                                         *)
(* Neither side's invariant speaks of the other side: what arrives on its  *)
(* line is arbitrary.  So each side keeps its own, and leaves the other's  *)
(* alone.                                                                  *)
(***************************************************************************)
EXTENDS YModemTransmitProofs, YModemReceiveProofs

Counted == faults \in [toRx : 0..MaxFaults, toTx : 0..MaxFaults, opening : 0..MaxFaults]

\* The inductive invariant.
IInv == TxSafe /\ RxSafe /\ Counted

LEMMA InitSafe == Init => IInv
  <1> SUFFICES ASSUME Init PROVE IInv
    OBVIOUS
  <1>1. LinesOK /\ Counted
    BY FaultAssumption DEF Init, NoFault, Counted, LinesOK
  <1>2. TxSound(tx)
    <2>1. tx \in TxState
      BY ZeroNumber, SizeAssumption DEF Init, TxInit, TxState, Stages, Statuses
    <2> QED
      BY <2>1 DEF Init, TxInit, TxSound, DataStages, Running
  <1>3. RxSound(rx)
    <2>1. rx \in RxState
      BY ZeroNumber, SizeAssumption DEF Init, RxInit, RxState, SizeMax, Stages, Statuses
    <2> QED
      BY <2>1 DEF Init, RxInit, RxSound, RxReady, DataStages, Running
  <1> QED
    BY <1>1, <1>2, <1>3 DEF IInv, TxSafe, RxSafe

\* The line loses or damages one packet.
LEMMA FaultKeeps ==
  ASSUME IInv, Fault
  PROVE  IInv'
  <1>1. LinesOK'
    <2>1. CASE \E i \in 1..Len(toRx) : toRx' \in Hit(toRx, i) /\ UNCHANGED toTx
      BY <2>1, HitLine DEF IInv, TxSafe, LinesOK
    <2>2. CASE \E i \in 1..Len(toTx) : toTx' \in Hit(toTx, i) /\ UNCHANGED toRx
      BY <2>2, HitLine DEF IInv, TxSafe, LinesOK
    <2> QED
      BY <2>1, <2>2 DEF Fault
  <1>2. Counted'
    BY FaultAssumption DEF Fault, Counted, IInv
  <1>3. tx' = tx /\ rx' = rx
    BY DEF Fault
  <1>4. TxSound(tx') /\ RxSound(rx')
    BY <1>3 DEF IInv, TxSafe, RxSafe
  <1> QED
    BY <1>1, <1>2, <1>3, <1>4 DEF IInv, TxSafe, RxSafe

LEMMA NextSafe == IInv /\ [Next]_vars => IInv'
  <1> SUFFICES ASSUME IInv, [Next]_vars PROVE IInv'
    OBVIOUS
  <1>1. CASE TxNext
    <2>1. TxKept
      BY <1>1, TransmitKeeps DEF IInv
    <2>2. rx' = rx /\ faults' = faults
      BY <1>1 DEF TxNext
    <2>3. RxSound(rx')
      BY <2>2 DEF IInv, RxSafe
    <2> QED
      BY <2>1, <2>2, <2>3 DEF IInv, Counted, TxKept, TxSafe, RxSafe
  <1>2. CASE RxNext
    <2>1. RxKept
      BY <1>2, ReceiveKeeps DEF IInv
    <2>2. tx' = tx /\ faults' = faults
      BY <1>2 DEF RxNext
    <2>3. TxSound(tx')
      BY <2>2 DEF IInv, TxSafe
    <2> QED
      BY <2>1, <2>2, <2>3 DEF IInv, Counted, RxKept, TxSafe, RxSafe
  <1>3. CASE Fault
    BY <1>3, FaultKeeps
  <1>4. CASE UNCHANGED vars
    <2>1. toRx' = toRx /\ toTx' = toTx /\ tx' = tx /\ rx' = rx /\ faults' = faults
      BY <1>4 DEF vars
    <2>2. TxSound(tx') /\ RxSound(rx') /\ LinesOK'
      BY <2>1 DEF IInv, TxSafe, RxSafe, LinesOK
    <2> QED
      BY <2>1, <2>2 DEF IInv, Counted, TxSafe, RxSafe
  <1> QED
    BY <1>1, <1>2, <1>3, <1>4 DEF Next

LEMMA AlwaysSafe == Spec => []IInv
  BY InitSafe, NextSafe, PTL DEF Spec
-----------------------------------------------------------------------------
(***************************************************************************)
(* The theorems                                                            *)
(***************************************************************************)
\* Both sides of a transfer, and the lines between them, keep their types: no
\* handler leaves a counter, a block number or a buffer out of its range.
THEOREM TypesOfTransfer == Spec => []TypeOK
  <1>1. IInv => TypeOK
    BY DEF IInv, Counted, TxSafe, RxSafe, TxSound, RxSound, RxReady, LinesOK, TypeOK
  <1> QED
    BY <1>1, AlwaysSafe, PTL

\* The sending side holds its file open exactly in the stages that read it.
THEOREM TransmitHandle == Spec => []TxHandle
  <1>1. IInv => TxHandle
    BY DEF IInv, TxSafe, TxSound, TxHandle
  <1> QED
    BY <1>1, AlwaysSafe, PTL

\* The receiving side holds its file open exactly in the stages that write it.
THEOREM ReceiveHandle == Spec => []RxHandle
  <1>1. IInv => RxHandle
    BY DEF IInv, RxSafe, RxSound, RxReady, RxHandle
  <1> QED
    BY <1>1, AlwaysSafe, PTL

\* The last slot after the end of a transfer, on either side, finds the stage
\* None, and so reads nothing.
THEOREM LastSlotReadsNothing == Spec => []NoStraySlot
  <1>1. IInv => NoStraySlot
    BY DEF IInv, TxSafe, RxSafe, TxSound, RxSound, NoStraySlot
  <1> QED
    BY <1>1, AlwaysSafe, PTL

\* The receiving user is told of the end of each transfer once, and has the
\* channel back exactly then.
THEOREM ReceiverToldOnce == Spec => []RxToldOnce
  <1>1. IInv => RxToldOnce
    BY DEF IInv, RxSafe, RxSound, RxReady, RxToldOnce
  <1> QED
    BY <1>1, AlwaysSafe, PTL

\* The sending user is not told twice of one transfer, and one who was told of
\* them all has the channel back.
THEOREM SenderToldAtMostOnce == Spec => []TxToldAtMostOnce
  <1>1. IInv => TxToldAtMostOnce
    BY DEF IInv, TxSafe, TxSound, TxToldAtMostOnce
  <1> QED
    BY <1>1, AlwaysSafe, PTL

\* What is written never exceeds the size the header gave, whatever packets,
\* repeated, damaged or from another transfer, arrive.
THEOREM WithinSize == Spec => []RxWithinSize
  <1>1. IInv => RxWithinSize
    BY DEF IInv, RxSafe, RxSound, RxReady, RxWithinSize
  <1> QED
    BY <1>1, AlwaysSafe, PTL

\* A side whose transfer is over leaves the line to the next one, although its
\* timer fires once more.
THEOREM SilentAfterEnd == Spec => TxSilentAfterEnd
  <1> DEFINE Silent == tx.status \in Final /\ tx'.runs = tx.runs /\ tx' # tx => toRx' = toRx
  <1>1. IInv /\ [Next]_vars => [Silent]_vars
    <2> SUFFICES ASSUME IInv, Next, tx.status \in Final, tx'.runs = tx.runs, tx' # tx
                 PROVE  toRx' = toRx
      BY Zenon
    <2>1. ~Running(tx)
      BY DEF Running, Final
    <2>2. tx \in TxState /\ toRx \in Seq(Item)
      BY DEF IInv, TxSafe, TxSound, LinesOK
    <2>3. ~TxStart /\ ~TxRefused
      <3>1. tx.runs \in Nat
        BY <2>2 DEF TxState
      <3>2. ASSUME TxStart \/ TxRefused PROVE tx'.runs = tx.runs + 1
        BY <3>2, <2>2 DEF TxStart, TxRefused, TxState
      <3> QED
        BY <3>1, <3>2
    <2>4. ~TxCancel /\ ~TxDrain
      BY <2>1 DEF TxCancel, TxDrain
    <2>5. TxTick
      BY <2>3, <2>4 DEF Next, TxNext, RxNext, Fault
    <2>6. tx.stage = "None"
      BY <2>1, <2>5 DEF TxTick, IInv, TxSafe, TxSound
    <2>7. TransmitStageNone
      BY <2>5, <2>6 DEF TxTick, TransmitStageEstablishing, TransmitStageEstablished,
         TransmitStageTransmitting, TransmitStageFinishing, TransmitStageFinished
    <2>8. toRx' = toRx \o <<>>
      BY <2>7 DEF TransmitStageNone, TxSlot
    <2> QED
      BY <2>2, <2>8
  <1> QED
    BY <1>1, AlwaysSafe, PTL DEF Spec, TxSilentAfterEnd
-----------------------------------------------------------------------------
(***************************************************************************)
(* The file                                                                *)
(***************************************************************************)
LEMMA ClearedNothing ==
  ASSUME NEW left, left \in Uncleared(<<>>) \/ left \in Sent(<<>>, <<>>)
  PROVE  left = <<>>
  <1>1. CASE left \in Uncleared(<<>>)
    BY <1>1 DEF Uncleared, Suffixes
  <1>2. CASE left \in Sent(<<>>, <<>>)
    <2>1. <<>> \o <<>> = <<>> /\ Len(<<>>) = 0 /\ \A l \in 0..0 : SubSeq(<<>>, 1, l) = <<>>
      OBVIOUS
    <2> QED
      BY <1>2, <2>1 DEF Sent, Prefixes
  <1> QED
    BY <1>1, <1>2

\* Where the receiving side is in step, its file is a beginning.
LEMMA RxAtBegins ==
  ASSUME NEW m, NEW a, RxAt(m, a)
  PROVE  a \in Packets /\ \E n \in 0..FileSize : m.file = Beginning(n)
  <1>1. a \in Packets
    BY DEF RxAt, Packets
  <1>2. CASE m.file = <<>>
    <2>1. 0 \in 0..FileSize /\ Beginning(0) = <<>>
      BY SizeAssumption DEF Beginning
    <2> QED
      BY <1>1, <1>2, <2>1
  <1>3. CASE m.file = File
    <2>1. FileSize \in 0..FileSize /\ Beginning(FileSize) = File
      BY SizeAssumption DEF Beginning, File
    <2> QED
      BY <1>1, <1>3, <2>1
  <1>4. CASE a \in Data /\ m.file = Beginning(After(a))
    <2>1. After(a) \in 0..FileSize
      BY <1>4, AfterData
    <2> QED
      BY <1>1, <1>4, <2>1
  <1> QED
    BY <1>1, <1>2, <1>3, <1>4 DEF RxAt

LEMMA StartsNoData == \A c \in Starts : c \notin Data
  BY DataFields DEF Starts, Byte

LEMMA InitInStep == Init => InStep
  <1> SUFFICES ASSUME Init PROVE InStep
    OBVIOUS
  <1>1. /\ rx.stage = "None" /\ rx.runs = 0 /\ rx.status = "Idle" /\ rx.file = <<>>
        /\ tx.stage = "None" /\ tx.runs = 0 /\ tx.status = "Idle" /\ ~tx.timer /\ ~rx.timer
        /\ toRx = <<>> /\ toTx = <<>>
    BY DEF Init, TxInit, RxInit
  <1>2. RxApart /\ Started
    BY <1>1 DEF RxApart, Started, TxFresh, RxFresh, Running, Final
  <1>3. InStepAt(Byte("C"))
    <2>1. RxAt(rx, Byte("C")) /\ Continues(Byte("C"), toRx) /\ Newest(Byte("C"), toRx) = Byte("C")
      BY <1>1 DEF RxAt, Continues, Newest
    <2>2. TxAt(tx, toTx, Byte("C")) /\ Answered(toTx) /\ Byte("C") \notin Data
      BY <1>1, StartsNoData DEF TxAt, Answered, Starts
    <2>3. TxInStep(Byte("C"))
      BY <1>1, <2>1, <2>2 DEF TxInStep
    <2> QED
      BY <2>1, <2>3 DEF InStepAt
  <1>4. Byte("C") \in Packets
    BY DEF Packets
  <1> QED
    BY <1>2, <1>3, <1>4 DEF InStep

\* The last slot of the receiving side changes neither file nor status.
LEMMA RxLastSlot ==
  ASSUME RxSafe, ~Running(rx), RxTick
  PROVE  rx'.status = rx.status /\ rx'.runs = rx.runs /\ rx'.file = rx.file
  <1> DEFINE m == Reset(rx, "Establishing")
  <1>1. rx.stage = "None"
    BY DEF RxTick, RxSafe, RxSound
  <1>2. RxSlot([rest |-> toRx], m, <<Byte("C")>>)
    BY <1>1 DEF RxTick, ReceiveStageNone, ReceiveStageEstablishing, ReceiveStageEstablished,
       ReceiveStageTransmitting, ReceiveStageFinishing, ReceiveStageFinished
  <1>3. m \in RxState /\ m.status = rx.status /\ m.runs = rx.runs /\ m.file = rx.file
    BY ResetRx DEF RxSafe, RxSound, RxReady, Stages
  <1> HIDE DEF m
  <1> QED
    BY <1>2, <1>3 DEF RxSlot, RxState

\* Only a start counts the runs.
LEMMA TxRunsKept ==
  ASSUME TxSafe, TxTick \/ TxCancel \/ TxDrain
  PROVE  tx'.runs = tx.runs
  <1>1. tx \in TxState
    BY DEF TxSafe, TxSound
  <1>2. \A s : Reset(tx, s).runs = tx.runs /\ "runs" \in DOMAIN Reset(tx, s)
    BY <1>1 DEF Reset, TxState
  <1>3. ASSUME NEW r, TxError(r) \/ TxTimeout(r) \/ TxOver(r, "Abort") \/ TxOver(r, "Finish")
        PROVE  tx'.runs = tx.runs
    <2> DEFINE d == Reset(tx, "None")
    <2>1. d.runs = tx.runs
      BY <1>2
    <2> QED
      BY <1>1, <1>3 DEF TxError, TxTimeout, TxOver, TxReport, Reset, TxState
  <1>4. ASSUME NEW r, TxSilence(r) \/ TxRepeat(r)
        PROVE  tx'.runs = tx.runs
    BY <1>1, <1>3, <1>4 DEF TxSilence, TxRepeat, TxSlot, Waited, Faulted, TxState
  <1>5. CASE TransmitStageNone
    BY <1>1, <1>5 DEF TransmitStageNone, TxSlot, Reset, TxState
  <1>6. CASE TransmitStageEstablishing
    BY <1>1, <1>3, <1>6 DEF TransmitStageEstablishing, TxOpen, TxSlot, Reset, Waited, TxState
  <1>7. CASE TransmitStageEstablished
    BY <1>1, <1>3, <1>4, <1>7 DEF TransmitStageEstablished, TxFill, TxEot, TxSlot, Reset, TxState
  <1>8. CASE TransmitStageTransmitting
    BY <1>1, <1>3, <1>4, <1>8 DEF TransmitStageTransmitting, TxFill, TxEot, TxSlot, Reset, TxState
  <1>9. CASE TransmitStageFinishing
    BY <1>1, <1>3, <1>4, <1>9 DEF TransmitStageFinishing, TxSlot, Reset, TxState
  <1>10. CASE TransmitStageFinished
    BY <1>1, <1>3, <1>4, <1>10 DEF TransmitStageFinished
  <1>11. CASE TxCancel
    BY <1>1, <1>11 DEF TxCancel, TxReport, Reset, TxState
  <1>12. CASE TxDrain
    BY <1>12 DEF TxDrain
  <1> QED
    BY <1>5, <1>6, <1>7, <1>8, <1>9, <1>10, <1>11, <1>12 DEF TxTick

LEMMA RxRunsKept ==
  ASSUME RxSafe, RxTick \/ RxCancel \/ RxDrain
  PROVE  rx'.runs = rx.runs
  <1>1. rx \in RxState
    BY DEF RxSafe, RxSound, RxReady
  <1>2. ASSUME NEW r, NEW s, NEW out, NEW after, RxOver(r, s, out, after)
        PROVE  rx'.runs = rx.runs
    BY <1>1, <1>2 DEF RxOver, RxReport, Reset, RxState
  <1>3. ASSUME NEW r, RxError(r) \/ RxAbort(r) \/ RxTimeout(r) \/ RxRefuse(r)
        PROVE  rx'.runs = rx.runs
    BY <1>1, <1>2, <1>3 DEF RxError, RxAbort, RxTimeout, RxRefuse, RxReport, Reset, RxState
  <1>4. ASSUME NEW r, NEW out, RxSilence(r, out) \/ RxCounted(r, out)
        PROVE  rx'.runs = rx.runs
    BY <1>1, <1>3, <1>4 DEF RxSilence, RxCounted, RxSlot, Waited, Faulted, RxState
  <1>5. ASSUME NEW r, NEW n, RxSave(r, n) \/ RxEot(r) \/ RxOpen(r)
        PROVE  rx'.runs = rx.runs
    BY <1>1, <1>3, <1>5 DEF RxSave, RxEot, RxOpen, RxSlot, Reset, RxState
  <1>6. CASE ReceiveStageNone
    BY <1>1, <1>6 DEF ReceiveStageNone, RxSlot, Reset, RxState
  <1>7. CASE ReceiveStageEstablishing
    BY <1>1, <1>3, <1>4, <1>5, <1>7 DEF ReceiveStageEstablishing, RxSlot, Waited, RxState
  <1>8. CASE ReceiveStageEstablished
    BY <1>3, <1>4, <1>5, <1>8 DEF ReceiveStageEstablished
  <1>9. CASE ReceiveStageTransmitting
    BY <1>3, <1>4, <1>5, <1>9 DEF ReceiveStageTransmitting
  <1>10. CASE ReceiveStageFinishing
    BY <1>1, <1>3, <1>4, <1>10 DEF ReceiveStageFinishing, RxSlot, Reset, RxState
  <1>11. CASE ReceiveStageFinished
    BY <1>2, <1>3, <1>4, <1>11 DEF ReceiveStageFinished
  <1>12. CASE RxCancel
    BY <1>1, <1>12 DEF RxCancel, RxReport, Reset, RxState
  <1>13. CASE RxDrain
    BY <1>13 DEF RxDrain
  <1> QED
    BY <1>6, <1>7, <1>8, <1>9, <1>10, <1>11, <1>12, <1>13 DEF RxTick

\* The runs are only counted up.
LEMMA TxRuns ==
  ASSUME TxSafe, TxStart \/ TxRefused, tx'.runs <= 1
  PROVE  tx.runs = 0 /\ tx'.runs = 1
  <1>1. tx'.runs = tx.runs + 1 /\ tx.runs \in Nat
    BY DEF TxStart, TxRefused, TxSafe, TxSound, TxState
  <1> QED
    BY <1>1

\* A start of the sending side: the C is all there is on the line.
LEMMA TxStartInStep ==
  ASSUME IInv, Unspoiled, RxApart, rx.status \notin Final, Started,
         NEW a, InStepAt(a), TxStart \/ TxRefused, tx'.runs <= 1, rx' = rx
  PROVE  Started' /\ InStepAt(a)'
  <1>1. tx.runs = 0 /\ tx'.runs = 1 /\ TxFresh
    BY TxRuns DEF IInv, Started
  <1>2. /\ tx'.status = "Establish" /\ tx'.stage = "None" /\ tx'.active
    BY <1>1 DEF TxStart, TxRefused, IInv, TxSafe, TxSound, TxState, TxFresh
  <1>3. a = Byte("C") /\ Newest(a, toRx) = a
    BY <1>1 DEF InStepAt, TxInStep, TxFresh, Final, TxAt, Newest
  <1>4. toRx' = <<>> \/ toRx' = <<Byte("C")>>
    <2>1. CASE TxStart
      <3>1. PICK out \in Sent(toRx, <<>>) : toRx' = Append(out, Byte("C"))
        BY <2>1 DEF TxStart
      <3>2. out = <<>>
        BY <1>1, <3>1, ClearedNothing DEF TxFresh
      <3> QED
        BY <3>1, <3>2
    <2>2. CASE TxRefused
      BY <1>1, <2>2, ClearedNothing DEF TxRefused, TxFresh
    <2> QED
      BY <2>1, <2>2
  <1>5. \A i \in 1..Len(toRx') : toRx'[i] = Byte("C")
    BY <1>4
  <1>6. Continues(a, toRx') /\ Newest(a, toRx') = Byte("C")
    <2>1. Follows(Byte("C"), Byte("C"))
      BY DEF Follows
    <2> QED
      BY <1>3, <1>4, <2>1 DEF Continues, Newest
  <1>7. Answered(toTx')
    <2>1. Answered(toTx) /\ toTx \in Seq(Item)
      BY <1>1 DEF InStepAt, TxInStep, TxFresh, Final, Early, IInv, TxSafe, LinesOK
    <2>2. toTx' \in Uncleared(toTx)
      BY DEF TxStart, TxRefused
    <2> QED
      BY <2>1, <2>2, AnsweredSuffix
  <1>8. TxInStep(a)'
    <2>1. TxAt(tx', toTx', Byte("C"))
      BY <1>2 DEF TxAt
    <2>2. Byte("C") \notin Data
      BY StartsNoData DEF Starts
    <2> QED
      BY <1>3, <1>5, <1>6, <1>7, <2>1, <2>2 DEF TxInStep
  <1>9. rx.runs = 0 => RxFresh'
    <2> SUFFICES ASSUME rx.runs = 0 PROVE RxFresh'
      OBVIOUS
    <2>1. RxFresh
      BY DEF Started
    <2>2. toTx' = <<>>
      BY <2>1, ClearedNothing DEF TxStart, TxRefused, RxFresh
    <2> QED
      BY <1>2, <1>5, <2>1, <2>2 DEF RxFresh, Starts
  <1>10. Started'
    BY <1>1, <1>2, <1>9 DEF Started
  <1> QED
    BY <1>6, <1>8, <1>10 DEF InStepAt

\* A slot of the sending side, or the end of its transfer.
LEMMA TxStepInStep ==
  ASSUME IInv, Unspoiled, RxApart, rx.status \notin Final, Started,
         NEW a, InStepAt(a), TxTick \/ TxCancel, rx' = rx
  PROVE  Started' /\ InStepAt(a)'
  <1>1. tx.runs # 0 /\ tx.status \in Final \cup {"Establish", "Transmit"}
    BY DEF Started, TxFresh, TxTick, TxCancel, Running, IInv, TxSafe, TxSound, TxState, Statuses
  <1>2. TxSteps(a)
    <2>1. CASE Running(tx)
      <3>1. tx.active /\ TxInStep(a) /\ Continues(a, toRx)
        BY <2>1 DEF Started, InStepAt, Running, Final
      <3> QED
        BY <2>1, <3>1, TxTickInStep, TxCancelInStep DEF IInv
    <2>2. CASE ~Running(tx)
      <3>1. TxTick
        BY <2>2 DEF TxCancel
      <3>2. toRx' = toRx /\ tx'.status = tx.status /\ tx'.runs = tx.runs
        BY <2>2, <3>1, TxLastSlot DEF IInv
      <3>3. tx.status \in Final
        BY <1>1, <2>2 DEF Running
      <3> QED
        BY <3>2, <3>3 DEF TxSteps, InStepAt
    <2> QED
      BY <2>1, <2>2
  <1>3. rx.runs = 0 => RxFresh'
    BY TxUnanswered DEF Started, RxFresh, IInv
  <1>4. Started'
    BY <1>1, <1>2, <1>3 DEF Started, TxSteps, Running, Final
  <1>5. InStepAt(a)'
    <2>1. tx'.status \notin Final => TxInStep(a)'
      BY <1>2 DEF TxSteps
    <2> QED
      BY <1>2, <2>1 DEF InStepAt, TxSteps
  <1> QED
    BY <1>4, <1>5

\* Nobody reads what is drained: the transfer of the sending side is over, or
\* has not begun.
LEMMA TxDrainInStep ==
  ASSUME IInv, Unspoiled, RxApart, rx.status \notin Final, Started,
         NEW a, InStepAt(a), TxDrain, rx' = rx
  PROVE  Started' /\ InStepAt(a)'
  <1>1. tx' = tx /\ toRx' = toRx /\ toTx' = <<>>
    BY DEF TxDrain
  <1>2. Started'
    BY <1>1 DEF Started, TxFresh, RxFresh, Running
  <1>3. tx.status \notin Final => tx.stage = "None"
    BY DEF TxDrain, Reading, Started, TxFresh, Running, IInv, TxSafe, TxSound, TxState, Statuses
  <1>4. Answered(<<>>)
    BY DEF Answered
  <1>5. tx.status \notin Final => TxInStep(a)'
    BY <1>1, <1>3, <1>4 DEF InStepAt, TxInStep, TxAt, Early
  <1> QED
    BY <1>1, <1>2, <1>5 DEF InStepAt

LEMMA TransmitInStep ==
  ASSUME IInv, InStep, TxNext
  PROVE  InStep'
  <1> SUFFICES ASSUME Unspoiled' PROVE RxApart' /\ (rx'.status \notin Final =>
                         Started' /\ \E a \in Packets : InStepAt(a)')
    BY DEF InStep
  <1>1. rx' = rx /\ faults' = faults
    BY DEF TxNext
  <1>2. Unspoiled
    <2>1. tx'.runs = tx.runs \/ tx.runs <= 1
      <3>1. CASE TxStart \/ TxRefused
        BY <3>1, TxRuns DEF Unspoiled, OneTransfer, IInv
      <3>2. CASE ~(TxStart \/ TxRefused)
        BY <3>2, TxRunsKept DEF IInv, TxNext
      <3> QED
        BY <3>1, <3>2
    <2> QED
      BY <1>1, <2>1 DEF Unspoiled, OneTransfer
  <1>3. RxApart'
    BY <1>1, <1>2 DEF InStep, RxApart
  <1>4. ASSUME rx.status \notin Final
        PROVE  Started' /\ \E a \in Packets : InStepAt(a)'
    <2>1. RxApart /\ Started
      BY <1>2, <1>4 DEF InStep
    <2>2. PICK a \in Packets : InStepAt(a)
      BY <1>2, <1>4 DEF InStep
    <2>3. tx'.runs <= 1
      BY DEF Unspoiled, OneTransfer
    <2>4. Started' /\ InStepAt(a)'
      BY <1>1, <1>2, <1>4, <2>1, <2>2, <2>3, TxStartInStep, TxStepInStep, TxDrainInStep DEF TxNext
    <2> QED
      BY <2>4
  <1> QED
    BY <1>1, <1>3, <1>4

LEMMA NothingNoItem == Nothing \notin Item
  BY DEF Nothing, Item, Codes

\* Reading takes the first item of the line, or none.
LEMMA TakenInStep ==
  ASSUME LinesOK, NEW a \in Packets, Continues(a, toRx), NEW r, FromLine(a, r)
  PROVE  /\ Continues(Taken(a, r), r.rest)
         /\ Newest(Taken(a, r), r.rest) = Newest(a, toRx)
         /\ toRx = <<>> => Taken(a, r) = a /\ r.rest = <<>>
         /\ (a \notin Data /\ \A i \in 1..Len(toRx) : toRx[i] \notin Data)
              => (Taken(a, r) \notin Data /\ \A i \in 1..Len(r.rest) : r.rest[i] \notin Data)
  <1>1. CASE r.pkt = Nothing /\ r.rest = toRx
    BY <1>1 DEF Taken
  <1>2. CASE r.pkt # Nothing /\ toRx # <<>> /\ r.pkt = Head(toRx) /\ r.rest = Tail(toRx)
    <2>1. /\ Len(toRx) \in Nat /\ Len(toRx) # 0 /\ Head(toRx) = toRx[1]
          /\ r.rest \in Seq(Item) /\ Len(r.rest) = Len(toRx) - 1
          /\ \A i \in 1..Len(r.rest) : r.rest[i] = toRx[i + 1]
      BY <1>2, HeadTailProperties, LenProperties, EmptySeq DEF LinesOK
    <2>2. Taken(a, r) = Head(toRx)
      BY <1>2 DEF Taken
    <2>3. Continues(Head(toRx), r.rest) /\ Newest(Head(toRx), r.rest) = Newest(a, toRx)
      BY <1>2, ContinuesTail DEF LinesOK
    <2>4. ASSUME \A i \in 1..Len(toRx) : toRx[i] \notin Data
          PROVE  Head(toRx) \notin Data /\ \A i \in 1..Len(r.rest) : r.rest[i] \notin Data
      <3>1. 1 \in 1..Len(toRx) /\ \A i \in 1..Len(r.rest) : i + 1 \in 1..Len(toRx)
        BY <2>1
      <3> QED
        BY <2>1, <2>4, <3>1
    <2> QED
      BY <1>2, <2>2, <2>3, <2>4
  <1>3. r.pkt # Nothing \/ (r.pkt = Nothing /\ r.rest = toRx)
    <2>1. ASSUME toRx # <<>>, r.pkt = Head(toRx) PROVE r.pkt # Nothing
      <3>1. r.pkt \in Item
        BY <2>1, HeadTailProperties DEF LinesOK
      <3> QED
        BY <3>1, NothingNoItem
    <2> QED
      BY <2>1 DEF FromLine
  <1> QED
    BY <1>1, <1>2, <1>3 DEF FromLine

\* What the sending side needs of its line is not disturbed by an answer.
LEMMA AnswersBehind ==
  ASSUME NEW m, NEW a, NEW in, NEW more, TxAt(m, in, a),
         in # <<>> /\ in[1].code = "C" => more # <<>> /\ more[1].code = "C"
  PROVE  TxAt(m, more, a)
  BY DEF TxAt

\* A slot of the receiving side, or the end of its transfer.
LEMMA RxStepInStep ==
  ASSUME ~Spaced, IInv, Unspoiled, RxApart, Started, Running(rx),
         NEW a \in Packets, InStepAt(a), RxTick \/ RxCancel, tx' = tx
  PROVE  RxApart' /\ (rx'.status \notin Final => Started' /\ \E b \in Packets : InStepAt(b)')
  <1>1. rx.status # "Idle" /\ rx.status \notin Final /\ rx.runs # 0
    BY DEF Running, Final, RxApart
  <1>2. RxSteps(a)
    BY RxTickInStep, RxCancelInStep DEF InStepAt, IInv
  <1>3. rx'.runs # 0
    BY <1>1, <1>2 DEF RxSteps
  <1>4. CASE RxEnded
    <2>1. \E n \in 0..FileSize : rx.file = Beginning(n)
      BY RxAtBegins DEF InStepAt
    <2> QED
      BY <1>3, <1>4, <2>1 DEF RxEnded, RxApart, Final
  <1>5. CASE RxWent(a)
    <2>0. PICK r : \E out \in Seq(Item) :
            /\ FromLine(a, r) /\ toRx' = r.rest /\ toTx' = toTx \o out
            /\ Running(rx') /\ RxAt(rx', Taken(a, r))
            /\ Taken(a, r) \notin Data => Answered(out)
      BY <1>5 DEF RxWent
    <2>1. PICK out \in Seq(Item) :
            /\ FromLine(a, r) /\ toRx' = r.rest /\ toTx' = toTx \o out
            /\ Running(rx') /\ RxAt(rx', Taken(a, r))
            /\ Taken(a, r) \notin Data => Answered(out)
      BY <2>0
    <2> DEFINE b == Taken(a, r)
    <2>2. b \in Packets
      BY <2>1, RxAtBegins
    <2>3. /\ Continues(b, toRx') /\ Newest(b, toRx') = Newest(a, toRx)
          /\ toRx = <<>> => toRx' = <<>>
          /\ (a \notin Data /\ \A i \in 1..Len(toRx) : toRx[i] \notin Data)
               => (b \notin Data /\ \A i \in 1..Len(toRx') : toRx'[i] \notin Data)
      BY <2>1, TakenInStep DEF InStepAt, IInv, RxSafe
    <2>4. RxApart'
      BY <1>3, <2>1 DEF RxApart, Running, Final
    <2>5. Started'
      BY <1>3, <2>3 DEF Started, TxFresh
    <2>6. ASSUME tx.status \notin Final PROVE TxInStep(b)'
      <3>1. TxAt(tx', toTx', Newest(b, toRx'))
        <4>1. toTx \in Seq(Item) /\ TxAt(tx, toTx, Newest(a, toRx))
          BY <2>6 DEF InStepAt, TxInStep, IInv, RxSafe, LinesOK
        <4>2. toTx # <<>> /\ toTx[1].code = "C" => toTx' # <<>> /\ toTx'[1].code = "C"
          BY <2>1, <4>1
        <4>3. TxAt(tx, toTx', Newest(a, toRx))
          BY <4>1, <4>2, AnswersBehind
        <4> HIDE DEF b
        <4> QED
          BY <2>1, <2>3, <4>3
      <3>2. ASSUME Early(tx)
            PROVE  /\ Answered(toTx') /\ b \notin Data
                   /\ \A i \in 1..Len(toRx') : toRx'[i] \notin Data
        <4>1. /\ Answered(toTx) /\ a \notin Data
              /\ \A i \in 1..Len(toRx) : toRx[i] \notin Data
          BY <2>6, <3>2 DEF InStepAt, TxInStep
        <4>2. b \notin Data /\ \A i \in 1..Len(toRx') : toRx'[i] \notin Data
          BY <2>3, <4>1
        <4>3. Answered(toTx')
          BY <2>1, <4>1, <4>2, AnsweredBoth DEF IInv, RxSafe, LinesOK
        <4> QED
          BY <4>2, <4>3
      <3> HIDE DEF b
      <3> QED
        BY <3>1, <3>2 DEF TxInStep
    <2>7. InStepAt(b)'
      <3> HIDE DEF b
      <3>1. RxAt(rx', b)
        BY <2>1 DEF b
      <3> QED
        BY <2>3, <2>6, <3>1 DEF InStepAt
    <2> HIDE DEF b
    <2> QED
      BY <2>2, <2>4, <2>5, <2>7
  <1> QED
    BY <1>2, <1>4, <1>5 DEF RxSteps

\* The runs are only counted up.
LEMMA RxRuns ==
  ASSUME RxSafe, RxStart, rx'.runs <= 1
  PROVE  rx.runs = 0 /\ rx'.runs = 1
  <1>1. rx'.runs = rx.runs + 1 /\ rx.runs \in Nat
    BY DEF RxStart, RxSafe, RxSound, RxReady, RxState
  <1> QED
    BY <1>1

\* Before its transfer the receiving side may lose what is sent to it: it is
\* sent again, or the sending side gives up.
LEMMA RxBeforeInStep ==
  ASSUME IInv, Unspoiled, RxFresh, NEW a \in Packets, InStepAt(a),
         NEW left \in Uncleared(toRx), toRx' = left, toTx' = <<>>, tx' = tx,
         rx'.stage = "None", rx'.file = <<>>
  PROVE  InStepAt(a)' /\ \A i \in 1..Len(left) : left[i] \in Starts
  <1>1. a = Byte("C")
    <2>1. a.code = "C" => a = Byte("C")
      BY DataFields DEF Packets, Ends, Header, Byte
    <2> QED
      BY <2>1 DEF InStepAt, RxAt, RxFresh
  <1>2. /\ Continues(a, left) /\ \A i \in 1..Len(left) : left[i] \in Starts
        /\ Newest(a, left) \in {Byte("C"), Newest(a, toRx)}
    BY <1>1, ContinuesCleared DEF InStepAt, RxFresh, IInv, RxSafe, LinesOK
  <1>3. RxAt(rx', a)
    BY <1>1 DEF RxAt
  <1>4. ASSUME tx.status \notin Final PROVE TxInStep(a)'
    <2>1. TxAt(tx, toTx, Newest(a, toRx)) /\ Early(tx)
      BY <1>4 DEF InStepAt, TxInStep, RxFresh, Early
    <2>2. TxAt(tx, toTx', Newest(a, left))
      BY <1>2, <2>1 DEF TxAt, RxFresh
    <2>3. a \notin Data /\ \A i \in 1..Len(left) : left[i] \notin Data
      BY <1>1, <1>2, StartsNoData DEF Starts
    <2>4. Answered(toTx')
      BY DEF Answered
    <2> QED
      BY <2>2, <2>3, <2>4 DEF TxInStep
  <1> QED
    BY <1>2, <1>3, <1>4 DEF InStepAt

LEMMA RxStartInStep ==
  ASSUME IInv, Unspoiled, RxApart, Started,
         NEW a \in Packets, InStepAt(a), RxStart, rx'.runs <= 1, tx' = tx
  PROVE  RxApart' /\ Started' /\ InStepAt(a)'
  <1>1. rx.runs = 0 /\ rx'.runs = 1 /\ RxFresh
    BY RxRuns DEF IInv, Started
  <1>2. rx'.status = "Establish" /\ rx'.stage = "None" /\ rx'.file = <<>>
    BY <1>1 DEF RxStart, RxFresh, IInv, RxSafe, RxSound, RxReady, RxState
  <1>3. toTx' = <<>> /\ toRx' \in Uncleared(toRx)
    BY <1>1, ClearedNothing DEF RxStart, RxFresh
  <1>4. InStepAt(a)'
    BY <1>1, <1>2, <1>3, RxBeforeInStep
  <1>5. RxApart'
    BY <1>1, <1>2 DEF RxApart, Final
  <1>6. Started'
    BY <1>1, <1>3, ClearedNothing DEF Started, TxFresh
  <1> QED
    BY <1>4, <1>5, <1>6

\* Nobody reads what is drained: the receiving side has not been started.
LEMMA RxDrainInStep ==
  ASSUME IInv, Unspoiled, RxApart, Started, rx.status \notin Final,
         NEW a \in Packets, InStepAt(a), RxDrain, tx' = tx
  PROVE  RxApart' /\ Started' /\ InStepAt(a)'
  <1>1. rx' = rx /\ toRx' = <<>> /\ toTx' = toTx
    BY DEF RxDrain
  <1>2. ~Running(rx)
    BY DEF RxDrain, Reading, IInv, RxSafe, RxSound, RxReady
  <1>3. rx.status = "Idle"
    BY <1>2 DEF Running, IInv, RxSafe, RxSound, RxReady, RxState, Statuses
  <1>4. rx.runs = 0 /\ RxFresh
    BY <1>3 DEF RxApart, Started
  <1>5. InStepAt(a)'
    <2>1. toTx' = <<>> /\ rx'.stage = "None" /\ rx'.file = <<>>
      BY <1>1, <1>4 DEF RxFresh
    <2>2. <<>> \in Uncleared(toRx)
      BY DEF Uncleared, Suffixes
    <2> QED
      BY <1>1, <1>4, <2>1, <2>2, RxBeforeInStep
  <1>6. RxApart' /\ Started'
    BY <1>1, <1>4 DEF RxApart, Started, TxFresh, RxFresh, Running
  <1> QED
    BY <1>5, <1>6

\* A side whose transfer is over.
LEMMA RxLastInStep ==
  ASSUME IInv, RxApart, rx.status \in Final, ~RxStart, RxNext
  PROVE  RxApart' /\ rx'.status \in Final
  <1>1. ~Running(rx)
    BY DEF Running, Final
  <1>2. rx'.status = rx.status /\ rx'.runs = rx.runs /\ rx'.file = rx.file
    BY <1>1, RxLastSlot DEF RxNext, RxCancel, RxDrain, IInv
  <1>3. RxApart'
    BY <1>2, Zenon DEF RxApart
  <1> QED
    BY <1>2, <1>3

LEMMA ReceiveInStep ==
  ASSUME ~Spaced, IInv, InStep, RxNext
  PROVE  InStep'
  <1> SUFFICES ASSUME Unspoiled' PROVE RxApart' /\ (rx'.status \notin Final =>
                         Started' /\ \E a \in Packets : InStepAt(a)')
    BY DEF InStep
  <1>1. tx' = tx /\ faults' = faults /\ rx'.runs <= 1
    BY DEF RxNext, Unspoiled, OneTransfer
  <1>2. Unspoiled
    <2>1. rx'.runs = rx.runs \/ rx.runs <= 1
      <3>1. CASE RxStart
        BY <1>1, <3>1, RxRuns DEF IInv
      <3>2. CASE ~RxStart
        BY <3>2, RxRunsKept DEF IInv, RxNext
      <3> QED
        BY <3>1, <3>2
    <2> QED
      BY <1>1, <2>1 DEF Unspoiled, OneTransfer
  <1>3. RxApart
    BY <1>2 DEF InStep
  <1>4. CASE rx.status \in Final
    <2>1. ~RxStart
      BY <1>1, <1>3, <1>4, RxRuns DEF RxApart, IInv, Final
    <2> QED
      BY <1>3, <1>4, <2>1, RxLastInStep
  <1>5. CASE rx.status \notin Final
    <2>1. Started
      BY <1>2, <1>5 DEF InStep
    <2>2. PICK a \in Packets : InStepAt(a)
      BY <1>2, <1>5 DEF InStep
    <2>3. CASE RxStart
      BY <1>1, <1>2, <1>3, <2>1, <2>2, <2>3, RxStartInStep
    <2>4. CASE RxDrain
      BY <1>1, <1>2, <1>3, <1>5, <2>1, <2>2, <2>4, RxDrainInStep
    <2>5. CASE RxTick \/ RxCancel
      <3>1. Running(rx)
        <4>1. rx.status = "Idle" => rx.runs = 0 /\ ~rx.timer
          BY <1>3, <2>1 DEF RxApart, Started, RxFresh
        <4>2. rx.status \in Statuses
          BY DEF IInv, RxSafe, RxSound, RxReady, RxState
        <4> QED
          BY <1>5, <2>5, <4>1, <4>2 DEF RxTick, RxCancel, Running, Statuses
      <3> QED
        BY <1>1, <1>2, <1>3, <2>1, <2>2, <2>5, <3>1, RxStepInStep
    <2> QED
      BY <2>3, <2>4, <2>5 DEF RxNext
  <1> QED
    BY <1>4, <1>5

LEMMA FaultInStep == ASSUME IInv, Fault PROVE InStep'
  <1>1. faults' # NoFault
    BY DEF Fault, NoFault, Counted, IInv
  <1> QED
    BY <1>1 DEF InStep, Unspoiled

LEMMA StutterInStep == ASSUME InStep, UNCHANGED vars PROVE InStep'
  <1>1. /\ toRx' = toRx /\ toTx' = toTx /\ tx' = tx /\ rx' = rx /\ faults' = faults
    BY DEF vars
  <1>2. Unspoiled' = Unspoiled /\ RxApart' = RxApart /\ Started' = Started
    BY <1>1 DEF Unspoiled, OneTransfer, RxApart, Started, TxFresh, RxFresh, Running
  <1>3. \A a : InStepAt(a)' = InStepAt(a)
    BY <1>1 DEF InStepAt, TxInStep, Early
  <1> QED
    BY <1>1, <1>2, <1>3 DEF InStep

LEMMA NextInStep == ~Spaced /\ IInv /\ InStep /\ [Next]_vars => InStep'
  BY TransmitInStep, ReceiveInStep, FaultInStep, StutterInStep DEF Next

\* While no packet of the first transfer has been lost or damaged, and the name of the
\* file has no space in it, the line between the two sides of a YModem transfer holds
\* no gap: every packet under way is the one taken last again, or the one that follows
\* it, up to the one that the transmitter keeps in txBuffer.
THEOREM AlwaysInStep ==
  ASSUME ~Spaced
  PROVE  Spec => []InStep
  <1>1. Init => InStep
    BY InitInStep
  <1>2. IInv /\ InStep /\ [Next]_vars => InStep'
    BY NextInStep
  <1> QED
    BY <1>1, <1>2, AlwaysSafe, PTL DEF Spec

LEMMA BeginningIsPrefix ==
  ASSUME NEW n \in 0..FileSize
  PROVE  IsPrefix(Beginning(n), File)
  <1>1. /\ Beginning(n) \in Seq(Nat) /\ Len(Beginning(n)) = n
        /\ \A i \in 1..n : Beginning(n)[i] = i
    BY SizeAssumption DEF Beginning
  <1>2. /\ File \in Seq(Nat) /\ Len(File) = FileSize
        /\ \A i \in 1..FileSize : File[i] = i
    BY SizeAssumption DEF File
  <1> HIDE DEF Beginning, File
  <1>3. SubSeq(Beginning(n), 1, n) = SubSeq(File, 1, n)
    <2>1. n \in Nat /\ n <= FileSize /\ FileSize \in Nat
      BY SizeAssumption
    <2>2. /\ SubSeq(Beginning(n), 1, n) = [i \in 1..n |-> Beginning(n)[i]]
          /\ SubSeq(File, 1, n) = [i \in 1..n |-> File[i]]
      BY <1>1, <1>2, <2>1
    <2>3. \A i \in 1..n : Beginning(n)[i] = File[i]
      BY <1>1, <1>2, <2>1
    <2> QED
      BY <2>2, <2>3
  <1> QED
    BY <1>1, <1>2, <1>3, SizeAssumption DEF IsPrefix

\* Whatever the sizes, the file YmodemFileReceive writes in the first transfer
\* is at every moment a beginning of the one sent, as long as nothing was lost
\* or damaged and the header is split where the sender meant it: no answer that is
\* late and no packet that is repeated makes it write a block twice or skip one.
THEOREM FileArrivesInOrder ==
  ASSUME ~Spaced
  PROVE  Spec => [](faults = NoFault => FileIsPrefix)
  <1>1. IInv /\ InStep => (faults = NoFault => FileIsPrefix)
    <2> SUFFICES ASSUME IInv, InStep, Unspoiled PROVE IsPrefix(rx.file, File)
      BY DEF FileIsPrefix, Unspoiled
    <2>1. \E n \in 0..FileSize : rx.file = Beginning(n)
      BY RxAtBegins DEF InStep, RxApart, InStepAt
    <2> QED
      BY <2>1, BeginningIsPrefix
  <1> QED
    BY <1>1, AlwaysSafe, AlwaysInStep, PTL

\* A receiver that reports StatusFinish for the first transfer has written the
\* whole file, as long as nothing was lost or damaged and the name of the file has no
\* space, which would end it in the header.
THEOREM FinishedFileIsWhole ==
  ASSUME ~Spaced
  PROVE  Spec => [](faults = NoFault /\ OneTransfer => RxFinishMeansComplete)
  <1>1. InStep => (faults = NoFault /\ OneTransfer => RxFinishMeansComplete)
    BY DEF InStep, RxApart, Unspoiled, RxFinishMeansComplete
  <1> QED
    BY <1>1, AlwaysInStep, PTL
-----------------------------------------------------------------------------
(***************************************************************************)
(* Whatever the line does: the file stays in order                         *)
(***************************************************************************)
\* A second transfer stays a second transfer.
LEMMA TransfersCounted ==
  ASSUME IInv, [Next]_vars, OneTransfer'
  PROVE  OneTransfer
  <1>1. CASE TxNext
    <2>1. rx' = rx
      BY <1>1 DEF TxNext
    <2>2. tx.runs <= 1
      BY <1>1, TxRuns, TxRunsKept DEF IInv, TxNext, OneTransfer
    <2> QED
      BY <2>1, <2>2 DEF OneTransfer
  <1>2. CASE RxNext
    <2>1. tx' = tx
      BY <1>2 DEF RxNext
    <2>2. rx.runs <= 1
      BY <1>2, RxRuns, RxRunsKept DEF IInv, RxNext, OneTransfer
    <2> QED
      BY <2>1, <2>2 DEF OneTransfer
  <1>3. CASE Fault \/ UNCHANGED vars
    BY <1>3 DEF Fault, vars, OneTransfer
  <1> QED
    BY <1>1, <1>2, <1>3 DEF Next

LEMMA InitInPlace == Init => InPlace
  <1> SUFFICES ASSUME Init PROVE InPlace
    OBVIOUS
  <1>1. /\ rx.stage = "None" /\ rx.runs = 0 /\ rx.status = "Idle" /\ rx.file = <<>>
        /\ tx.stage = "None" /\ tx.runs = 0 /\ tx.status = "Idle" /\ ~tx.timer /\ ~rx.timer
        /\ toRx = <<>> /\ toTx = <<>>
    BY DEF Init, TxInit, RxInit
  <1>2. FileBegun
    <2>1. 0 \in 0..FileSize /\ Beginning(0) = <<>>
      BY SizeAssumption DEF Beginning
    <2> QED
      BY <1>1, <2>1 DEF FileBegun
  <1>3. Begun /\ RxPlaced(rx) /\ TxPlaced(tx, toTx)
    BY <1>1 DEF Begun, Running, RxPlaced, TxPlaced
  <1>4. NoBlockYet /\ \A pkt \in Range(toRx) : Placed(pkt)
    BY <1>1, RangeOfNone DEF NoBlockYet, Answered
  <1> QED
    BY <1>1, <1>2, <1>3, <1>4 DEF InPlace, Places

\* A slot of the sending side puts nothing on the line to it.
LEMMA TxPutsNoAnswer ==
  ASSUME TxTick \/ TxCancel, toTx = <<>>
  PROVE  toTx' = <<>>
  <1>1. ASSUME NEW r, r.rest = <<>>,
               \/ TxError(r) \/ TxTimeout(r) \/ TxOver(r, "Abort") \/ TxOver(r, "Finish")
               \/ TxOpen(r) \/ TxSilence(r) \/ TxRepeat(r)
               \/ \E m, out : TxSlot(r, m, out)
        PROVE  toTx' = <<>>
    <2>1. \A m, out : TxSlot(r, m, out) => toTx' = <<>>
      BY <1>1 DEF TxSlot
    <2>2. \A m, s, out : TxReport(r.rest, m, s, out) => toTx' = <<>>
      BY <1>1, ClearedNothing DEF TxReport
    <2> HIDE DEF TxSlot, TxReport
    <2>3. TxError(r) => toTx' = <<>>
      BY <1>1 DEF TxError
    <2> QED
      BY <1>1, <2>1, <2>2, <2>3 DEF TxTimeout, TxOver, TxOpen, TxSilence, TxRepeat
  <1>2. \A r \in ReceivePacket(tx, toTx) : r.rest = <<>>
    BY DEF ReceivePacket
  <1>3. CASE TransmitStageNone
    BY <1>3 DEF TransmitStageNone, TxSlot
  <1>4. CASE TransmitStageEstablishing
    BY <1>1, <1>2, <1>4 DEF TransmitStageEstablishing
  <1>5. CASE TransmitStageEstablished
    BY <1>1, <1>2, <1>5 DEF TransmitStageEstablished
  <1>6. CASE TransmitStageTransmitting
    BY <1>1, <1>2, <1>6 DEF TransmitStageTransmitting
  <1>7. CASE TransmitStageFinishing
    BY <1>1, <1>2, <1>7 DEF TransmitStageFinishing
  <1>8. CASE TransmitStageFinished
    BY <1>1, <1>2, <1>8 DEF TransmitStageFinished
  <1>9. CASE TxCancel
    BY <1>9, ClearedNothing DEF TxCancel, TxReport
  <1> QED
    BY <1>3, <1>4, <1>5, <1>6, <1>7, <1>8, <1>9 DEF TxTick

LEMMA TxStartInPlace ==
  ASSUME IInv, Places, rx.status \notin Final, TxStart \/ TxRefused, tx'.runs <= 1, rx' = rx
  PROVE  Places'
  <1>1. /\ tx.runs = 0 /\ tx'.runs = 1
        /\ tx.status = "Idle" /\ tx.stage = "None" /\ tx.status \notin Final
    BY TxRuns DEF IInv, Places, Begun, Final
  <1>2. tx'.status = "Establish" /\ tx'.stage = "None" /\ tx'.active
    BY <1>1 DEF TxStart, TxRefused, IInv, TxSafe, TxSound, TxState
  <1>3. NoBlockYet
    BY <1>1 DEF Places, Early
  <1>4. toTx' \in Uncleared(toTx) /\ toTx \in Seq(Item) /\ toRx \in Seq(Item)
    BY DEF TxStart, TxRefused, IInv, TxSafe, LinesOK
  <1>5. Range(toRx') \subseteq Range(toRx) \cup {Byte("C")}
    <2>1. ASSUME NEW sent \in Sent(toRx, <<>>)
          PROVE  sent \in Seq(Item) /\ Range(sent) \subseteq Range(toRx)
      <3>1. <<>> \in Seq(Item)
        OBVIOUS
      <3>2. sent \in Seq(Item)
        BY <1>4, <3>1, SentLine
      <3>3. Range(sent) \subseteq Range(toRx) \cup Range(<<>>)
        BY <1>4, <3>1, RangeOfSent
      <3> QED
        BY <3>2, <3>3, RangeOfNone
    <2>2. CASE TxStart
      <3>1. PICK sent \in Sent(toRx, <<>>) : toRx' = Append(sent, Byte("C"))
        BY <2>2 DEF TxStart
      <3>2. sent \in Seq(Item) /\ Range(sent) \subseteq Range(toRx)
        BY <2>1, <3>1
      <3>3. Byte("C") \in Item
        BY ByteItem DEF Codes
      <3>4. toRx' = sent \o <<Byte("C")>> /\ <<Byte("C")>> \in Seq(Item)
        BY <3>1, <3>2, <3>3
      <3> QED
        <4> DEFINE more == <<Byte("C")>>
        <4>1. Range(more) = {Byte("C")}
          BY RangeOfOne
        <4>2. toRx' = sent \o more /\ more \in Seq(Item)
          BY <3>4
        <4> HIDE DEF more
        <4>3. Range(sent \o more) \subseteq Range(sent) \cup Range(more)
          BY <3>2, <4>2, RangeOfJoin
        <4> QED
          BY <3>2, <4>1, <4>2, <4>3
    <2>3. CASE TxRefused
      BY <2>1, <2>3 DEF TxRefused
    <2> QED
      BY <2>2, <2>3
  <1>6. (\A pkt \in Range(toRx) : Placed(pkt))' /\ NoBlockYet'
    <2>1. Answered(toTx')
      BY <1>3, <1>4, AnsweredSuffix DEF NoBlockYet
    <2> QED
      BY <1>3, <1>5, <2>1, PlacedItems DEF Places, NoBlockYet
  <1>7. Begun'
    BY <1>1, <1>2, <1>4, ClearedNothing DEF Places, Begun
  <1>8. FileBegun' /\ RxPlaced(rx') /\ TxPlaced(tx', toTx')
    BY <1>2 DEF Places, FileBegun, TxPlaced
  <1> QED
    BY <1>6, <1>7, <1>8 DEF Places

\* A slot of the sending side, or the end of its transfer.
LEMMA TxStepInPlace ==
  ASSUME IInv, Short, Places, rx.status \notin Final, TxTick \/ TxCancel, rx' = rx
  PROVE  Places'
  <1>1. tx.runs # 0 /\ tx.status \in Final \cup {"Establish", "Transmit"}
    BY DEF Places, Begun, TxTick, TxCancel, Running, Final, IInv, TxSafe, TxSound, TxState, Statuses
  <1>2. toTx = <<>> => toTx' = <<>>
    BY TxPutsNoAnswer
  <1>3. FileBegun' /\ RxPlaced(rx')
    BY DEF Places, FileBegun
  <1>4. CASE Running(tx)
    <2>1. tx.status \notin Final
      BY <1>4 DEF Running, Final
    <2>2. TxInPlace
      BY <1>4, <2>1 DEF IInv, Places, Begun, TxInPlace, NoBlockYet
    <2>3. TxPuts
      BY <2>2, TxTickPuts, TxCancelPuts DEF IInv
    <2>4. (\A pkt \in Range(toRx) : Placed(pkt))'
      BY <2>3 DEF TxPuts, TxAdds, Places
    <2>5. Begun'
      BY <1>1, <1>2, <2>3 DEF Places, Begun, TxPuts, Running, Final
    <2>6. ASSUME tx'.status \notin Final PROVE TxPlaced(tx', toTx') /\ (Early(tx') => NoBlockYet')
      <3>1. TxPlaced(tx', toTx') /\ (Early(tx') => Early(tx) /\ Answered(toTx'))
        BY <2>3, <2>6 DEF TxPuts
      <3>2. Early(tx) => NoBlockYet
        BY <2>1 DEF Places
      <3>3. TxAdds(tx')
        BY <2>3 DEF TxPuts
      <3> QED
        BY <3>1, <3>2, <3>3 DEF TxAdds, NoBlockYet
    <2> QED
      BY <1>3, <2>4, <2>5, <2>6 DEF Places
  <1>5. CASE ~Running(tx)
    <2>1. tx.status \in Final /\ TxTick
      BY <1>1, <1>5 DEF Running, TxCancel
    <2>2. toRx' = toRx /\ tx'.status = tx.status /\ tx'.runs = tx.runs
      BY <1>5, <2>1, TxLastSlot DEF IInv
    <2>3. Begun'
      BY <1>1, <1>2, <1>5, <2>1, <2>2 DEF Places, Begun, Running, Final
    <2> QED
      BY <1>3, <2>1, <2>2, <2>3 DEF Places
  <1> QED
    BY <1>4, <1>5

LEMMA TxDrainInPlace ==
  ASSUME IInv, Places, rx.status \notin Final, TxDrain, rx' = rx
  PROVE  Places'
  <1>1. tx' = tx /\ toRx' = toRx /\ toTx' = <<>>
    BY DEF TxDrain
  <1>2. tx.status \notin Final => tx.stage = "None"
    BY DEF TxDrain, Reading, Places, Begun, Running, IInv, TxSafe, TxSound, TxState, Statuses
  <1>3. Answered(<<>>)
    BY DEF Answered
  <1>4. FileBegun' /\ RxPlaced(rx') /\ Begun'
    BY <1>1 DEF Places, FileBegun, Begun, Running
  <1>5. tx.status \notin Final => TxPlaced(tx, <<>>) /\ (Early(tx) => NoBlockYet')
    BY <1>1, <1>2, <1>3 DEF Places, TxPlaced, NoBlockYet
  <1> QED
    BY <1>1, <1>4, <1>5 DEF Places

LEMMA TransmitInPlace ==
  ASSUME IInv, Short, Places, TxNext, tx'.runs <= 1
  PROVE  Places'
  <1>1. rx' = rx
    BY DEF TxNext
  <1>2. CASE rx.status \in Final
    BY <1>1, <1>2 DEF Places, FileBegun
  <1>3. CASE rx.status \notin Final
    BY <1>1, <1>3, TxStartInPlace, TxStepInPlace, TxDrainInPlace DEF TxNext
  <1> QED
    BY <1>2, <1>3

\* The answers of the receiving side come behind those under way.
LEMMA PlacedBehind ==
  ASSUME NEW m, NEW in \in Seq(Item), NEW out \in Seq(Item), TxPlaced(m, in)
  PROVE  TxPlaced(m, in \o out)
  <1>1. in # <<>> => in \o out # <<>> /\ (in \o out)[1] = in[1]
    OBVIOUS
  <1> QED
    BY <1>1 DEF TxPlaced

\* A slot of the receiving side, or the end of its transfer.
LEMMA RxStepInPlace ==
  ASSUME ~Spaced, IInv, Short, Places, Running(rx), RxTick \/ RxCancel, tx' = tx
  PROVE  Places'
  <1>1. rx.status # "Idle" /\ rx.status \notin Final /\ rx.runs # 0
    BY DEF Running, Final, Places
  <1>2. RxInPlace
    BY <1>1 DEF RxInPlace, Places, IInv
  <1>3. RxPuts
    BY <1>2, RxTickPuts, RxCancelPuts
  <1>4. CASE rx'.status \in Final
    BY <1>1, <1>3, <1>4 DEF RxPuts, Places, Final
  <1>5. CASE rx'.status \notin Final
    <2>1. Running(rx') /\ RxPlaced(rx') /\ RxReplies
      BY <1>3, <1>5 DEF RxPuts
    <2>2. PICK out \in Seq(Item) :
            toTx' = toTx \o out /\ (rx'.stage = "Transmitting" \/ Answered(out))
      BY <2>1 DEF RxReplies
    <2>3. toTx \in Seq(Item)
      BY DEF IInv, TxSafe, LinesOK
    <2>4. Begun'
      BY <1>1, <2>1 DEF Places, Begun, Running
    <2>5. (\A pkt \in Range(toRx) : Placed(pkt))'
      BY <1>1, <1>3 DEF RxPuts, Places
    <2>6. ASSUME tx.status \notin Final PROVE TxPlaced(tx, toTx')
      BY <1>1, <2>2, <2>3, <2>6, PlacedBehind DEF Places
    <2>7. ASSUME tx.status \notin Final, Early(tx) PROVE NoBlockYet'
      <3>1. NoBlockYet
        BY <1>1, <2>7 DEF Places
      <3>2. rx'.stage # "Transmitting" /\ \A pkt \in Range(toRx') : pkt.body # "data"
        BY <1>3, <1>5, <3>1 DEF RxPuts, NoBlockYet
      <3>3. Answered(toTx')
        BY <2>2, <2>3, <3>1, <3>2, AnsweredBoth DEF NoBlockYet
      <3> QED
        BY <3>2, <3>3 DEF NoBlockYet
    <2> QED
      BY <1>1, <1>3, <2>1, <2>4, <2>5, <2>6, <2>7 DEF Places, RxPuts, Running
  <1> QED
    BY <1>4, <1>5

LEMMA RxStartInPlace ==
  ASSUME IInv, Places, RxStart, rx'.runs <= 1, tx' = tx
  PROVE  Places'
  <1>1. rx.runs = 0 /\ rx'.runs = 1 /\ rx.status = "Idle" /\ rx.status \notin Final
    BY RxRuns DEF IInv, Places, Final
  <1>2. rx.stage = "None" /\ toTx = <<>> /\ rx.file = <<>>
    BY <1>1 DEF Places, Begun, RxPlaced
  <1>3. rx'.status = "Establish" /\ rx'.stage = "None" /\ rx'.file = <<>>
    BY <1>2 DEF RxStart, IInv, RxSafe, RxSound, RxReady, RxState
  <1>4. toTx' = <<>>
    BY <1>2, ClearedNothing DEF RxStart
  <1>5. Range(toRx') \subseteq Range(toRx)
    BY RangeOfCleared DEF RxStart, IInv, TxSafe, LinesOK
  <1>6. FileBegun' /\ RxPlaced(rx')
    BY <1>2, <1>3 DEF Places, FileBegun, RxPlaced
  <1>7. Begun'
    BY <1>1, <1>3 DEF Places, Begun, Running
  <1>8. NoBlockYet => NoBlockYet'
    BY <1>2, <1>3, <1>4, <1>5 DEF NoBlockYet
  <1> QED
    BY <1>1, <1>2, <1>3, <1>4, <1>5, <1>6, <1>7, <1>8 DEF Places

LEMMA RxDrainInPlace ==
  ASSUME Places, RxDrain, tx' = tx
  PROVE  Places'
  <1>1. rx' = rx /\ toRx' = <<>> /\ toTx' = toTx
    BY DEF RxDrain
  <1>2. FileBegun' = FileBegun /\ Begun' = Begun /\ (NoBlockYet => NoBlockYet')
    BY <1>1, RangeOfNone DEF FileBegun, Begun, Running, NoBlockYet
  <1> QED
    BY <1>1, <1>2, RangeOfNone DEF Places

LEMMA ReceiveInPlace ==
  ASSUME ~Spaced, IInv, Short, Places, RxNext, rx'.runs <= 1
  PROVE  Places'
  <1>1. tx' = tx
    BY DEF RxNext
  <1>2. CASE RxStart
    BY <1>1, <1>2, RxStartInPlace
  <1>3. CASE RxDrain
    BY <1>1, <1>3, RxDrainInPlace
  <1>4. CASE (RxTick \/ RxCancel) /\ Running(rx)
    BY <1>1, <1>4, RxStepInPlace
  <1>5. CASE RxTick /\ ~Running(rx)
    <2>1. rx.status \in Final
      <3>1. rx.status \in Statuses
        BY DEF IInv, RxSafe, RxSound, RxReady, RxState
      <3>2. rx.status # "Idle"
        BY <1>5 DEF RxTick, Places, Begun, Final
      <3> QED
        BY <1>5, <3>1, <3>2 DEF Running, Statuses
    <2>2. rx'.status = rx.status /\ rx'.runs = rx.runs /\ rx'.file = rx.file
      BY <1>5, RxLastSlot DEF IInv
    <2> QED
      BY <2>1, <2>2 DEF Places, FileBegun
  <1> QED
    BY <1>2, <1>3, <1>4, <1>5 DEF RxNext, RxCancel

\* What goes astray may be any packet, and any answer but those to the header.
LEMMA FaultInPlace ==
  ASSUME IInv, Places, Fault, faults.opening = 0, faults'.opening = 0
  PROVE  Places'
  <1>1. tx' = tx /\ rx' = rx /\ toRx \in Seq(Item) /\ toTx \in Seq(Item)
    BY DEF Fault, IInv, TxSafe, LinesOK
  <1>2. FileBegun' = FileBegun
    BY <1>1 DEF FileBegun
  <1>3. CASE \E i \in 1..Len(toRx) : toRx' \in Hit(toRx, i) /\ UNCHANGED toTx
    <2>1. Range(toRx') \subseteq Range(toRx) \cup {Damaged(pkt) : pkt \in Range(toRx)}
      BY <1>1, <1>3, RangeOfHit
    <2>2. \A pkt \in Range(toRx) : pkt \in Item
      BY <1>1 DEF Range
    <2>3. (\A pkt \in Range(toRx) : Placed(pkt)) => (\A pkt \in Range(toRx) : Placed(pkt))'
      BY <2>1, <2>2, PlacedDamaged
    <2>4. NoBlockYet => NoBlockYet'
      BY <1>1, <1>3, <2>1, <2>2, PlacedDamaged DEF NoBlockYet
    <2>5. Begun' = Begun
      BY <1>1, <1>3 DEF Begun, Running
    <2> QED
      BY <1>1, <1>2, <1>3, <2>3, <2>4, <2>5 DEF Places
  <1>4. CASE /\ \E i \in 1..Len(toTx) : toTx' \in Hit(toTx, i)
             /\ Opening => faults' = [faults EXCEPT !.opening = @ + 1]
             /\ UNCHANGED toRx
    <2>1. ~Opening
      BY <1>4 DEF IInv, Counted
    <2>2. ~Early(tx) /\ (TxPlaced(tx, toTx) => TxPlaced(tx, toTx'))
      BY <2>1 DEF Opening, Early, TxPlaced
    <2>3. toTx # <<>>
      BY <1>4
    <2>4. Begun => Begun'
      BY <1>1, <2>3 DEF Begun, Running
    <2> QED
      BY <1>1, <1>2, <1>4, <2>2, <2>4 DEF Places
  <1> QED
    BY <1>3, <1>4 DEF Fault

LEMMA StutterInPlace == ASSUME Places, UNCHANGED vars PROVE Places'
  <1>1. /\ toRx' = toRx /\ toTx' = toTx /\ tx' = tx /\ rx' = rx
    BY DEF vars
  <1>2. FileBegun' = FileBegun /\ Begun' = Begun /\ NoBlockYet' = NoBlockYet
    BY <1>1 DEF FileBegun, Begun, Running, NoBlockYet
  <1> QED
    BY <1>1, <1>2 DEF Places

LEMMA NextKeepsPlaces == ~Spaced /\ IInv /\ InPlace /\ [Next]_vars => InPlace'
  <1> SUFFICES ASSUME ~Spaced, IInv, InPlace, [Next]_vars,
                      OneTransfer', Short, faults'.opening = 0
               PROVE  Places'
    BY DEF InPlace, Short
  <1>1. OneTransfer
    BY TransfersCounted
  <1>2. faults.opening = 0
    BY DEF Next, TxNext, RxNext, Fault, vars, IInv, Counted
  <1>3. Places
    BY <1>1, <1>2 DEF InPlace
  <1>4. tx'.runs <= 1 /\ rx'.runs <= 1
    BY DEF OneTransfer
  <1> QED
    BY <1>2, <1>3, <1>4, TransmitInPlace, ReceiveInPlace, FaultInPlace, StutterInPlace DEF Next

\* Whatever packets of the one transfer a line loses, damages or delays, and whichever
\* side repeats itself when: as long as the answers to the header arrive, block n carries
\* part n of the file, in txBuffer, on the line and for YmodemFileReceive, in a file of
\* up to 255 blocks whose name has no space.
THEOREM BlocksKeepTheirPlace ==
  ASSUME ~Spaced
  PROVE  Spec => []InPlace
  <1>1. Init => InPlace
    BY InitInPlace
  <1>2. IInv /\ InPlace /\ [Next]_vars => InPlace'
    BY NextKeepsPlaces
  <1> QED
    BY <1>1, <1>2, AlwaysSafe, PTL DEF Spec

\* What YmodemFileReceive has written of such a file is at every moment a beginning of
\* it, though the sides may be a block apart and the transfer bound to stop: a packet
\* lost or damaged, or one answer too many, never puts a block out of its place.
THEOREM LossLeavesOrder ==
  ASSUME ~Spaced
  PROVE  Spec => []LossKeepsOrder
  <1>1. InPlace => LossKeepsOrder
    BY BeginningIsPrefix DEF InPlace, Places, FileBegun, LossKeepsOrder
  <1> QED
    BY <1>1, BlocksKeepTheirPlace, PTL
-----------------------------------------------------------------------------
(***************************************************************************)
(* Taking turns on a clean line                                            *)
(***************************************************************************)
\* What a slot may make of the status of a transfer that goes on: only the stage
\* Finished reports StatusFinish, and only a report gives the channel back.
TxOutcome ==
  /\ tx'.status # "Idle"
  /\ tx'.status = "Finish" => tx.stage = "Finished"
  /\ Running(tx') => tx'.active = tx.active

LEMMA TxSlotOutcome ==
  ASSUME TxSafe, Running(tx), TxTick
  PROVE  TxOutcome
  <1>1. tx \in TxState /\ tx.status \in {"Establish", "Transmit"}
    BY DEF TxSafe, TxSound, Running
  <1>2. ASSUME NEW r, TxError(r) \/ TxTimeout(r) \/ TxOver(r, "Abort")
        PROVE  TxOutcome
    BY <1>1, <1>2 DEF TxError, TxTimeout, TxOver, TxReport, Reset, TxState, TxOutcome, Running
  <1>3. ASSUME NEW r, TxSilence(r) \/ TxRepeat(r)
        PROVE  TxOutcome
    BY <1>1, <1>2, <1>3 DEF TxSilence, TxRepeat, TxSlot, Waited, Faulted, TxState, TxOutcome
  <1>4. CASE TransmitStageNone
    BY <1>1, <1>4 DEF TransmitStageNone, TxSlot, Reset, TxState, TxOutcome
  <1>5. CASE TransmitStageEstablishing
    BY <1>1, <1>2, <1>5 DEF TransmitStageEstablishing, TxOpen, TxSlot, Reset, Waited, TxState,
       TxOutcome, Running
  <1>6. CASE TransmitStageEstablished
    BY <1>1, <1>2, <1>3, <1>6 DEF TransmitStageEstablished, TxFill, TxEot, TxSlot, Reset,
       TxState, TxOutcome
  <1>7. CASE TransmitStageTransmitting
    BY <1>1, <1>2, <1>3, <1>7 DEF TransmitStageTransmitting, TxFill, TxEot, TxSlot, Reset,
       TxState, TxOutcome
  <1>8. CASE TransmitStageFinishing
    BY <1>1, <1>2, <1>3, <1>8 DEF TransmitStageFinishing, TxSlot, Reset, TxState, TxOutcome
  <1>9. CASE TransmitStageFinished
    <2>1. ASSUME NEW r, TxOver(r, "Finish") PROVE TxOutcome
      BY <1>1, <1>9, <2>1 DEF TransmitStageFinished, TxOver, TxReport, Reset, TxState, TxOutcome,
         Running
    <2> QED
      BY <1>2, <1>3, <1>9, <2>1 DEF TransmitStageFinished
  <1> QED
    BY <1>4, <1>5, <1>6, <1>7, <1>8, <1>9 DEF TxTick

RxOutcome ==
  /\ rx'.status # "Idle"
  /\ rx'.status = "Finish" => rx.stage = "Finished"
  /\ rx'.timer => Running(rx')
  /\ rx'.status \in Final => rx'.file = rx.file

LEMMA RxSlotOutcome ==
  ASSUME RxSafe, Running(rx), RxTick
  PROVE  RxOutcome
  <1>1. rx \in RxState /\ rx.status \in {"Establish", "Transmit"}
    BY DEF RxSafe, RxSound, RxReady, Running
  <1>2. ASSUME NEW r, NEW s \in {"Abort", "Error", "Timeout"}, NEW out, NEW after,
               RxOver(r, s, out, after)
        PROVE  RxOutcome
    BY <1>1, <1>2 DEF RxOver, RxReport, Reset, RxState, RxOutcome
  <1>3. ASSUME NEW r, RxError(r) \/ RxAbort(r) \/ RxTimeout(r) \/ RxRefuse(r)
        PROVE  RxOutcome
    BY <1>1, <1>2, <1>3 DEF RxError, RxAbort, RxTimeout, RxRefuse, RxReport, Reset, RxState,
       RxOutcome
  <1>4. ASSUME NEW r, NEW out, RxSilence(r, out) \/ RxCounted(r, out)
        PROVE  RxOutcome
    BY <1>1, <1>3, <1>4 DEF RxSilence, RxCounted, RxSlot, Waited, Faulted, RxState, RxOutcome,
       Running, Final
  <1>5. ASSUME NEW r, NEW n, RxSave(r, n) \/ RxEot(r) \/ RxOpen(r)
        PROVE  RxOutcome
    <2>1. RxSave(r, n) => RxOutcome
      BY <1>1 DEF RxSave, RxSlot, Reset, RxState, RxOutcome, Running, Final
    <2>2. RxEot(r) => RxOutcome
      BY <1>1 DEF RxEot, RxSlot, Reset, RxState, RxOutcome, Running, Final
    <2>3. RxOpen(r) => RxOutcome
      BY <1>1, <1>3 DEF RxOpen, RxSlot, Reset, RxState, RxOutcome, Running, Final
    <2> QED
      BY <1>5, <2>1, <2>2, <2>3
  <1>6. CASE ReceiveStageNone
    BY <1>1, <1>6 DEF ReceiveStageNone, RxSlot, Reset, RxState, RxOutcome, Running, Final
  <1>7. CASE ReceiveStageEstablishing
    BY <1>1, <1>3, <1>4, <1>5, <1>7 DEF ReceiveStageEstablishing, RxSlot, Waited, RxState,
       RxOutcome, Running, Final
  <1>8. CASE ReceiveStageEstablished
    BY <1>3, <1>4, <1>5, <1>8 DEF ReceiveStageEstablished
  <1>9. CASE ReceiveStageTransmitting
    BY <1>3, <1>4, <1>5, <1>9 DEF ReceiveStageTransmitting
  <1>10. CASE ReceiveStageFinishing
    BY <1>1, <1>3, <1>4, <1>10 DEF ReceiveStageFinishing, RxSlot, Reset, RxState, RxOutcome,
       Running, Final
  <1>11. CASE ReceiveStageFinished
    <2>1. ASSUME NEW r, NEW out, NEW after, RxOver(r, "Finish", out, after) PROVE RxOutcome
      BY <1>1, <1>11, <2>1 DEF ReceiveStageFinished, RxOver, RxReport, Reset, RxState, RxOutcome
    <2> QED
      BY <1>3, <1>4, <1>11, <2>1 DEF ReceiveStageFinished
  <1> QED
    BY <1>6, <1>7, <1>8, <1>9, <1>10, <1>11 DEF RxTick
-----------------------------------------------------------------------------
\* A clean line is on time.
LEMMA CleanOnTime == ASSUME Clean, IInv PROVE OnTime
  BY FaultAssumption DEF Clean, IInv, Counted, OnTime, NoFault

\* A side whose slots are at work does nothing else.
LEMMA TxOnlyTicks ==
  ASSUME Clean, AtRest, TxUp, TxNext
  PROVE  TxTick /\ rx' = rx
  BY DEF Clean, AtRest, TxUp, TxNext, TxStart, TxRefused, TxCancel, TxDrain, Reading

LEMMA RxOnlyTicks ==
  ASSUME Clean, IInv, RxUp, RxNext
  PROVE  RxTick /\ tx' = tx
  BY DEF Clean, RxUp, RxNext, RxStart, RxCancel, RxDrain, Reading, IInv, RxSafe, RxSound, RxReady

\* Neither does the sending side have a slot while its packet is under way.
LEMMA TxStill ==
  ASSUME Clean, IInv, TxTick, toTx = <<>>, toRx # <<>>
  PROVE  tx.stage = "None"
  BY TxWaitsItsTurn, CleanOnTime DEF Clean, IInv

\* The slots of the sending side, in each turn.
LEMMA TxApart ==
  ASSUME Clean, IInv, TxTick, rx' = rx, Apart
  PROVE  (Apart \/ GivenUp \/ Asked)'
  <1>1. TxSafe /\ LinesOK /\ OnTime
    BY CleanOnTime DEF IInv, TxSafe, Clean
  <1>2. RxUp' = RxUp
    BY DEF RxUp, Running
  <1>3. tx'.runs = tx.runs
    BY <1>1, TxRunsKept
  <1>4. CASE tx.stage = "None"
    <2>1. /\ tx'.stage = "Establishing" /\ tx'.status = tx.status /\ tx'.timer = Running(tx)
          /\ toTx' = toTx /\ toRx' = toRx
      BY <1>1, <1>4, NoneGoes
    <2>2. TxUp => TxUp'
      BY <2>1 DEF TxUp, Running
    <2>3. Even'
      BY <1>3, <2>1 DEF Apart, Even, OneTransfer
    <2> QED
      BY <1>2, <2>1, <2>2, <2>3 DEF Apart, Resting
  <1>5. CASE tx.stage = "Establishing"
    <2>1. Running(tx)
      BY <1>1, <1>5 DEF TxSafe, TxSound, TxTick
    <2>2. toTx = <<>> => toRx = <<>>
      BY <1>5, TxStill
    <2>3. CASE toTx = <<>>
      <3>1. toRx' = <<>> /\ toTx' = <<>>
        BY <1>1, <1>5, <2>2, <2>3, EstablishingWaits DEF TxLeaves
      <3>2. tx'.stage \in Resting /\ tx'.status # "Finish"
        BY <1>1, <1>5, <2>1, <2>3, EstablishingWaits DEF TxLeaves, Resting, Running
      <3>3. Even'
        BY <1>3, <2>1, <3>2 DEF Apart, Even, OneTransfer, Running
      <3> QED
        BY <3>1, <3>2, <3>3 DEF Apart
    <2>4. CASE toTx = <<Call>>
      <3>1. Begins(toTx, Call) /\ Tail(toTx) = <<>>
        BY <2>4, ShortLines, ShortBegins
      <3>2. RxUp /\ rx.stage = "Establishing" /\ (toRx # <<>> => rx.time = 0)
        BY <2>4, ShortLines DEF Apart
      <3>3. CASE TxFails
        <4>1. toTx' = <<>> /\ toRx' = toRx \o Cans /\ tx'.stage \in Resting /\ tx'.status # "Finish"
          BY <3>1, <3>3 DEF TxFails, Resting
        <4>2. CASE toRx = <<>>
          <5>1. Begins(toRx', Can)
            BY <4>1, <4>2, CansLine, CansBegin
          <5> QED
            BY <1>2, <3>2, <4>1, <5>1 DEF GivenUp
        <4>3. CASE toRx = <<Call>>
          <5>1. Begins(toRx, Call) /\ Tail(toRx) = <<>>
            BY <4>3, ShortLines, ShortBegins
          <5>2. Begins(toRx', Call) /\ Tail(toRx') = <<>> \o Cans
            BY <1>1, <4>1, <5>1, CansLine, BeginsLonger DEF LinesOK
          <5>3. <<>> \o Cans = Cans
            BY CansLine
          <5>4. Begins(Tail(toRx'), Can)
            BY <5>2, <5>3, CansBegin
          <5>5. rx'.time = 0
            BY <3>2, <4>3, ShortLines
          <5> QED
            BY <1>2, <3>2, <4>1, <5>2, <5>4, <5>5 DEF GivenUp
        <4> QED
          BY <4>2, <4>3 DEF Apart
      <3>4. CASE TxGoes("Established", <<Header("file")>>) /\ tx'.count = 0
        <4>1. /\ TxUp' /\ tx'.stage = "Established" /\ toTx' = <<>>
              /\ toRx' = toRx \o <<Header("file")>> /\ tx'.count = 0
          BY <3>1, <3>4 DEF TxGoes
        <4>2. toRx = <<>> => toRx' = <<Header("file")>>
          BY <4>1, ShortLines
        <4>3. toRx = <<Call>> => toRx' = <<Call, Header("file")>>
          BY <4>1, SignalJoins
        <4>4. toRx = <<Call>> => rx'.time = 0
          BY <3>2, ShortLines
        <4>5. toRx = <<>> \/ toRx = <<Call>>
          BY DEF Apart
        <4> QED
          BY <1>2, <3>2, <4>1, <4>2, <4>3, <4>4, <4>5 DEF Asked, Stand
      <3> QED
        BY <1>1, <1>5, <3>1, <3>3, <3>4, EstablishingOnCall
    <2> QED
      BY <2>3, <2>4 DEF Apart
  <1> QED
    BY <1>4, <1>5 DEF Apart, Resting

LEMMA TxGivenUp ==
  ASSUME Clean, IInv, TxTick, rx' = rx, GivenUp
  PROVE  GivenUp'
  <1>1. toTx = <<>> /\ toRx # <<>>
    BY DEF GivenUp, Begins
  <1>2. /\ tx'.stage = "Establishing" /\ tx'.status = tx.status
        /\ toTx' = toTx /\ toRx' = toRx
    BY <1>1, TxStill, NoneGoes DEF IInv
  <1>3. RxUp' = RxUp
    BY DEF RxUp, Running
  <1> QED
    BY <1>2, <1>3 DEF GivenUp, Resting

LEMMA TxRefusal ==
  ASSUME Clean, IInv, TxTick, rx' = rx, Refused
  PROVE  Apart'
  <1>1. TxLeaves("Abort")
    BY EstablishedOnCan, CleanOnTime DEF Refused, Clean, IInv
  <1>2. toRx' = <<>> /\ toTx' = <<>> /\ tx'.stage = "None" /\ tx'.status = "Abort"
    BY <1>1 DEF TxLeaves, Refused
  <1> QED
    BY <1>2 DEF Apart, Refused, Resting, Even

LEMMA TxDone ==
  ASSUME Clean, IInv, TxTick, rx' = rx, Done
  PROVE  Apart'
  <1>1. TxLeaves("Finish")
    BY FinishedOnAck, CleanOnTime DEF Done, Clean, IInv
  <1>2. toRx' = <<>> /\ toTx' = <<>> /\ tx'.stage = "None" /\ tx'.status = "Finish"
    BY <1>1 DEF TxLeaves, Done
  <1>3. tx'.runs = tx.runs
    BY TxRunsKept DEF IInv
  <1>4. Even'
    BY <1>2, <1>3 DEF Done, Even, OneTransfer
  <1> QED
    BY <1>2, <1>4 DEF Apart, Done, Resting

LEMMA TxOpened ==
  ASSUME Clean, IInv, TxTick, rx' = rx, Opened
  PROVE  (FirstRead \/ EmptyTurn)'
  <1>1. TxUp /\ tx.stage = "Established" /\ tx.count = 0 /\ toRx = <<>> /\ toTx = <<Ack, Call>>
        /\ RxUp' /\ rx'.stage = "Established" /\ rx'.file = <<>> /\ rx'.size = FileSize
    BY DEF Opened, Stand, RxUp, Running
  <1>2. Begins(toTx, Ack) /\ Tail(toTx) = <<Call>>
    BY <1>1, ShortLines, ShortBegins
  <1>3. IF FileSize = 0
        THEN TxGoes("Established", <<Eot>>) /\ tx'.blk = 2 /\ tx'.buf = <<Eot>>
        ELSE /\ TxGoes("Established", <<>>) /\ tx'.blk = 1
             /\ tx'.buf = <<Block(1, 0)>> /\ tx'.count = After(Block(1, 0))
    BY <1>1, <1>2, EstablishedOnAck, CleanOnTime DEF Clean, IInv
  <1>4. CASE FileSize = 0
    <2>1. /\ TxUp' /\ tx'.stage = "Established" /\ toTx' = <<Call>> /\ toRx' = <<Eot>>
          /\ tx'.blk = 2 /\ tx'.buf = <<Eot>>
      BY <1>1, <1>2, <1>3, <1>4, ShortLines DEF TxGoes
    <2> QED
      BY <1>1, <1>4, <2>1 DEF EmptyTurn, EmptyRead, Stand
  <1>5. CASE FileSize # 0
    <2>1. /\ TxUp' /\ tx'.stage = "Established" /\ toTx' = <<Call>> /\ toRx' = <<>> \o <<>>
          /\ tx'.blk = 1 /\ tx'.buf = <<Block(1, 0)>> /\ tx'.count = After(Block(1, 0))
      BY <1>1, <1>2, <1>3, <1>5 DEF TxGoes
    <2> QED
      BY <1>1, <1>5, <2>1 DEF FirstRead, Stand
  <1> QED
    BY <1>4, <1>5

LEMMA TxFirstRead ==
  ASSUME Clean, IInv, TxTick, rx' = rx, FirstRead
  PROVE  (BlockSent \/ GivenUp)'
  <1> DEFINE b == Block(1, 0)
  <1>1. TxUp /\ tx.stage = "Established" /\ toRx = <<>> /\ toTx = <<Call>>
        /\ FileSize # 0 /\ tx.blk = 1 /\ tx.buf = <<b>> /\ tx.count = After(b)
        /\ RxUp' /\ rx'.stage = "Established" /\ rx'.file = <<>> /\ rx'.size = FileSize
    BY DEF FirstRead, Stand, RxUp, Running
  <1>2. Begins(toTx, Call) /\ Tail(toTx) = <<>>
    BY <1>1, ShortLines, ShortBegins
  <1>3. CASE TxFails
    <2>1. toTx' = <<>> /\ toRx' = <<>> \o Cans /\ tx'.stage \in Resting /\ tx'.status # "Finish"
      BY <1>1, <1>2, <1>3 DEF TxFails, Resting
    <2>2. <<>> \o Cans = Cans
      BY CansLine
    <2>3. Begins(toRx', Can)
      BY <2>1, <2>2, CansBegin
    <2> QED
      BY <1>1, <2>1, <2>3 DEF GivenUp
  <1>4. CASE /\ TxGoes(AfterEstablished(tx.blk), tx.buf)
             /\ tx'.blk = tx.blk /\ tx'.count = tx.count
    <2>1. b \in Data /\ b.blk = 1 /\ b.pos = 0
      BY <1>1, FirstBlock
    <2>2. AfterEstablished(1) = "Transmitting"
      BY DEF AfterEstablished
    <2>3. /\ TxUp' /\ tx'.stage = "Transmitting" /\ toTx' = <<>> /\ toRx' = <<b>>
          /\ tx'.blk = b.blk /\ tx'.count = After(b)
      BY <1>1, <1>2, <1>4, <2>1, <2>2, ShortLines DEF TxGoes
    <2>4. rx'.file = Beginning(b.pos)
      BY <1>1, <2>1 DEF Beginning
    <2> HIDE DEF b
    <2> QED
      BY <1>1, <2>1, <2>3, <2>4 DEF BlockSent, Stand
  <1> QED
    BY <1>1, <1>2, <1>3, <1>4, EstablishedOnCall, CleanOnTime DEF Clean, IInv

LEMMA TxBlockTaken ==
  ASSUME Clean, IInv, TxTick, rx' = rx, BlockTaken
  PROVE  (BlockSent \/ Ending)'
  <1>1. TxUp /\ tx.stage = "Transmitting" /\ toRx = <<>> /\ toTx = <<Ack>> /\ tx.blk = rx.blk
        /\ RxUp' /\ rx'.stage = "Transmitting" /\ rx'.file = Beginning(tx.count)
        /\ rx'.size = FileSize
    BY DEF BlockTaken, Stand, RxUp, Running
  <1>2. Begins(toTx, Ack) /\ Tail(toTx) = <<>>
    BY <1>1, ShortLines, ShortBegins
  <1>3. CASE tx.count = FileSize
    <2>1. TxGoes("Finishing", <<Eot>>)
      BY <1>1, <1>2, <1>3, TransmittingOnAck, CleanOnTime DEF Clean, IInv
    <2>2. TxUp' /\ tx'.stage = "Finishing" /\ toTx' = <<>> /\ toRx' = <<Eot>>
      BY <1>1, <1>2, <2>1, ShortLines DEF TxGoes
    <2>3. rx'.file = File
      BY <1>1, <1>3 DEF Beginning, File
    <2> QED
      BY <1>1, <2>2, <2>3 DEF Ending, Stand
  <1>4. CASE tx.count # FileSize
    <2>1. PICK b \in Data : /\ b.blk = NextBlk(tx.blk) /\ b.pos = tx.count
                            /\ TxGoes("Transmitting", <<b>>)
                            /\ tx'.blk = b.blk /\ tx'.count = After(b)
      BY <1>1, <1>2, <1>4, TransmittingOnAck, CleanOnTime DEF Clean, IInv
    <2>2. TxUp' /\ tx'.stage = "Transmitting" /\ toTx' = <<>> /\ toRx' = <<b>>
      BY <1>1, <1>2, <2>1, ShortLines DEF TxGoes
    <2>3. b.blk = NextBlk(rx'.blk) /\ rx'.file = Beginning(b.pos)
      BY <1>1, <2>1
    <2> QED
      BY <1>1, <2>1, <2>2, <2>3 DEF BlockSent, Stand
  <1> QED
    BY <1>3, <1>4

LEMMA TxEnding ==
  ASSUME Clean, IInv, TxTick, rx' = rx, Ending
  PROVE  Ending'
  <1>1. TxUp /\ RxUp' /\ tx.stage # "None" /\ rx'.file = File
    BY DEF Ending, Stand, RxUp, Running
  <1>2. ~(toTx = <<>> /\ toRx # <<>>)
    BY <1>1, TxStill
  <1>3. CASE Stand("Finishing", "Finishing", <<>>, <<Nak>>)
    <2>1. Begins(toTx, Nak) /\ Tail(toTx) = <<>>
      BY <1>3, ShortLines, ShortBegins DEF Stand
    <2>2. TxGoes("Finishing", <<Eot>>) /\ tx'.time = 0
      BY <1>3, <2>1, FinishingOnNak, CleanOnTime DEF Stand, Clean, IInv
    <2>3. TxUp' /\ tx'.stage = "Finishing" /\ toTx' = <<>> /\ toRx' = <<Eot>>
      BY <1>3, <2>1, <2>2, ShortLines DEF TxGoes, Stand
    <2> QED
      BY <1>1, <1>3, <2>2, <2>3 DEF Ending, Stand
  <1>4. CASE Stand("Finishing", "Finished", <<>>, <<Ack, Call>>) /\ tx.time = 0
    <2>1. Begins(toTx, Ack) /\ Tail(toTx) = <<Call>>
      BY <1>4, ShortLines, ShortBegins DEF Stand
    <2>2. TxGoes("Finishing", <<>>)
      BY <1>4, <2>1, FinishingOnAck, CleanOnTime DEF Stand, IInv, Clean
    <2>3. TxUp' /\ tx'.stage = "Finishing" /\ toTx' = <<Call>> /\ toRx' = <<>>
      BY <1>4, <2>1, <2>2 DEF TxGoes, Stand
    <2> QED
      BY <1>1, <1>4, <2>3 DEF Ending, Stand
  <1>5. CASE Stand("Finishing", "Finished", <<>>, <<Call>>)
    <2>1. Begins(toTx, Call) /\ Tail(toTx) = <<>>
      BY <1>5, ShortLines, ShortBegins DEF Stand
    <2>2. TxGoes("Finished", <<Header("null")>>)
      BY <1>5, <2>1, FinishingOnCall, CleanOnTime DEF Stand, Clean, IInv
    <2>3. TxUp' /\ tx'.stage = "Finished" /\ toTx' = <<>> /\ toRx' = <<Header("null")>>
      BY <1>5, <2>1, <2>2, ShortLines DEF TxGoes, Stand
    <2> QED
      BY <1>1, <1>5, <2>3 DEF Ending, Stand
  <1>6. \/ toTx = <<>> /\ toRx # <<>>
        \/ Stand("Finishing", "Finishing", <<>>, <<Nak>>)
        \/ Stand("Finishing", "Finished", <<>>, <<Ack, Call>>) /\ tx.time = 0
        \/ Stand("Finishing", "Finished", <<>>, <<Call>>)
    BY ShortLines DEF Ending, Stand
  <1> QED
    BY <1>2, <1>3, <1>4, <1>5, <1>6

\* The same, of an empty file.
LEMMA TxStands ==
  ASSUME NEW s, NEW t, NEW out, TxGoes(s, out), rx' = rx, RxUp, rx.stage = t,
         NEW in, in = toRx \o out, NEW after, after = Tail(toTx)
  PROVE  Stand(s, t, in, after)'
  BY DEF TxGoes, Stand, RxUp, Running

LEMMA StandLines == \A s, u, in, out : Stand(s, u, in, out) => toRx = in /\ toTx = out
  BY DEF Stand

LEMMA NotEmpty ==
  /\ \A a : <<a>> # <<>>
  /\ \A a, b : <<a, b>> # <<>>
  /\ \A a, b, c : <<a, b, c>> # <<>>
  /\ \A a, b, c, d : <<a, b, c, d>> # <<>>
  BY ShortLines

LEMMA TxEmptyRead ==
  ASSUME Clean, IInv, TxTick, rx' = rx, EmptyRead
  PROVE  (EmptyEnding \/ EmptyLeft)'
  <1>1. /\ TxUp /\ RxUp /\ tx.stage = "Established" /\ tx.blk = 2 /\ tx.buf = <<Eot>>
        /\ Begins(toTx, Call)
    BY ShortBegins DEF EmptyRead, Stand
  <1>2. CASE TxFails
    <2>1. tx'.status = "Error" /\ toRx' = toRx \o Cans
      BY <1>2 DEF TxFails
    <2>2. RxUp'
      BY <1>1 DEF RxUp, Running
    <2>3. CASE rx.stage = "Established" /\ toRx = <<Eot>>
      <3>1. Begins(toRx, Eot) /\ Tail(toRx) = <<>> /\ toRx \in Seq(Item)
        BY <2>3, ShortLines, ShortBegins DEF IInv, TxSafe, LinesOK
      <3>2. Begins(toRx', Eot) /\ Tail(toRx') = <<>> \o Cans
        BY <2>1, <3>1, CansLine, BeginsLonger
      <3>3. <<>> \o Cans = Cans
        BY CansLine
      <3> QED
        BY <2>1, <2>2, <2>3, <3>2, <3>3, CansBegin DEF EmptyLeft
    <2>4. CASE rx.stage = "Finishing" /\ toRx = <<>>
      <3>1. <<>> \o Cans = Cans
        BY CansLine
      <3> QED
        BY <2>1, <2>2, <2>4, <3>1, CansBegin DEF EmptyLeft
    <2> QED
      BY <2>3, <2>4 DEF EmptyRead, Stand
  <1>3. CASE ErrorMax # 0 /\ TxGoes(AfterEstablished(tx.blk), tx.buf)
    <2>1. TxGoes("Finishing", <<Eot>>)
      BY <1>1, <1>3 DEF AfterEstablished
    <2>2. CASE Stand("Established", "Established", <<Eot>>, <<Call>>)
      <3>1. Stand("Finishing", "Established", <<Eot, Eot>>, <<>>)'
        BY <2>1, <2>2, TxStands, ShortLines, SignalJoins DEF Stand
      <3> QED
        BY <1>3, <3>1 DEF EmptyEnding
    <2>3. CASE Stand("Established", "Finishing", <<>>, <<Call, Nak>>)
      <3>1. Stand("Finishing", "Finishing", <<Eot>>, <<Nak>>)'
        BY <2>1, <2>3, TxStands, ShortLines DEF Stand
      <3> QED
        BY <1>3, <3>1 DEF EmptyEnding
    <2> QED
      BY <2>2, <2>3 DEF EmptyRead
  <1> QED
    BY <1>1, <1>2, <1>3, EstablishedOnCall, CleanOnTime DEF Clean, IInv

\* While both sides are at its end, the sending side answers what is first.
LEMMA TxEmptyEnding ==
  ASSUME Clean, IInv, TxTick, rx' = rx, EmptyEnding
  PROVE  (EmptyEnding \/ EmptyLeft)'
  <1>1. TxSafe /\ OnTime /\ ErrorMax # 0 /\ TxUp /\ RxUp /\ tx.stage # "None"
    BY CleanOnTime DEF IInv, Clean, EmptyEnding, Stand
  <1>2. ~(toTx = <<>> /\ toRx # <<>>)
    BY <1>1, TxStill
  <1>3. CASE Stand("Finishing", "Finishing", <<Eot>>, <<Nak>>)
    <2>1. TxGoes("Finishing", <<Eot>>) /\ tx'.time = 0
      BY <1>1, <1>3, ShortBegins, FinishingOnNak DEF Stand
    <2>2. Stand("Finishing", "Finishing", <<Eot, Eot>>, <<>>)'
      BY <1>3, <2>1, TxStands, ShortLines, SignalJoins DEF Stand
    <2> QED
      BY <1>1, <2>1, <2>2 DEF EmptyEnding
  <1>4. CASE Stand("Finishing", "Finished", <<>>, <<Nak, Ack, Call>>) /\ rx.err = 0
    <2>1. TxGoes("Finishing", <<Eot>>) /\ tx'.time = 0
      BY <1>1, <1>4, ShortBegins, FinishingOnNak DEF Stand
    <2>2. <<Ack, Call>> = Tail(toTx) /\ <<Eot>> = toRx \o <<Eot>>
      BY <1>4, ShortLines DEF Stand
    <2>3. Stand("Finishing", "Finished", <<Eot>>, <<Ack, Call>>)'
      BY <1>4, <2>1, <2>2, TxStands DEF Stand
    <2> QED
      BY <1>1, <1>4, <2>1, <2>3 DEF EmptyEnding
  <1>5. CASE Stand("Finishing", "Finished", <<Eot>>, <<Ack, Call>>) /\ tx.time = 0 /\ rx.err = 0
    <2>1. TxGoes("Finishing", <<>>)
      BY <1>1, <1>5, ShortBegins, FinishingOnAck DEF Stand, Clean
    <2>2. <<Eot>> = <<Eot>> \o <<>>
      OBVIOUS
    <2>3. Stand("Finishing", "Finished", <<Eot>>, <<Call>>)'
      BY <1>5, <2>1, <2>2, TxStands, ShortLines DEF Stand
    <2> QED
      BY <1>1, <1>5, <2>3 DEF EmptyEnding
  <1>6. CASE Stand("Finishing", "Finished", <<Eot>>, <<Call>>) /\ rx.err = 0
    <2>1. TxGoes("Finished", <<Header("null")>>)
      BY <1>1, <1>6, ShortBegins, FinishingOnCall DEF Stand
    <2>2. Stand("Finished", "Finished", <<Eot, Header("null")>>, <<>>)'
      BY <1>6, <2>1, TxStands, ShortLines, SignalJoins DEF Stand
    <2> QED
      BY <1>1, <1>6, <2>2 DEF EmptyEnding
  <1>7. CASE Stand("Finishing", "Finished", <<>>, <<Ack, Call, Ack, Call>>) /\ tx.time = 0
    <2>1. TxGoes("Finishing", <<>>)
      BY <1>1, <1>7, ShortBegins, FinishingOnAck DEF Stand, Clean
    <2>2. <<Call, Ack, Call>> = Tail(toTx) /\ <<>> = toRx \o <<>>
      BY <1>7, ShortLines DEF Stand
    <2>3. Stand("Finishing", "Finished", <<>>, <<Call, Ack, Call>>)'
      BY <1>7, <2>1, <2>2, TxStands DEF Stand
    <2> QED
      BY <1>1, <2>3 DEF EmptyEnding
  <1>8. CASE Stand("Finishing", "Finished", <<>>, <<Call, Ack, Call>>)
    <2>1. TxGoes("Finished", <<Header("null")>>)
      BY <1>1, <1>8, ShortBegins, FinishingOnCall DEF Stand
    <2>2. <<Ack, Call>> = Tail(toTx) /\ <<Header("null")>> = toRx \o <<Header("null")>>
      BY <1>8, ShortLines DEF Stand
    <2>3. Stand("Finished", "Finished", <<Header("null")>>, <<Ack, Call>>)'
      BY <1>8, <2>1, <2>2, TxStands DEF Stand
    <2> QED
      BY <1>1, <2>3 DEF EmptyEnding
  <1>9. CASE Stand("Finished", "Finished", <<Header("null")>>, <<Ack, Call>>)
    <2>1. TxLeaves("Finish")
      BY <1>1, <1>9, ShortBegins, FinishedOnAck DEF Stand
    <2>2. tx'.status = "Finish" /\ Begins(toRx', Header("null"))
      BY <1>9, <2>1, ShortBegins DEF TxLeaves, Stand
    <2>3. RxUp' /\ rx'.stage = "Finished"
      BY <1>9 DEF Stand, RxUp, Running
    <2> QED
      BY <2>2, <2>3 DEF EmptyLeft
  <1>10. \/ toTx = <<>> /\ toRx # <<>>
         \/ Stand("Finishing", "Finishing", <<Eot>>, <<Nak>>)
         \/ Stand("Finishing", "Finished", <<>>, <<Nak, Ack, Call>>) /\ rx.err = 0
         \/ Stand("Finishing", "Finished", <<Eot>>, <<Ack, Call>>) /\ tx.time = 0 /\ rx.err = 0
         \/ Stand("Finishing", "Finished", <<Eot>>, <<Call>>) /\ rx.err = 0
         \/ Stand("Finishing", "Finished", <<>>, <<Ack, Call, Ack, Call>>) /\ tx.time = 0
         \/ Stand("Finishing", "Finished", <<>>, <<Call, Ack, Call>>)
         \/ Stand("Finished", "Finished", <<Header("null")>>, <<Ack, Call>>)
    BY StandLines, NotEmpty, Zenon DEF EmptyEnding
  <1> QED
    BY <1>2, <1>3, <1>4, <1>5, <1>6, <1>7, <1>8, <1>9, <1>10

\* The last slot of a sending side that is through.
LEMMA TxIdles ==
  ASSUME IInv, TxTick, ~Running(tx)
  PROVE  tx'.status = tx.status /\ toRx' = toRx
  BY TxLastSlot DEF IInv

LEMMA TxEmptyLeft ==
  ASSUME IInv, TxTick, rx' = rx, EmptyLeft \/ EmptyOver
  PROVE  (EmptyLeft \/ EmptyOver)'
  <1>1. ~Running(tx)
    BY DEF EmptyLeft, EmptyOver, BothOver, Running, Final
  <1>2. tx'.status = tx.status /\ toRx' = toRx
    BY <1>1, TxIdles
  <1>3. RxUp' = RxUp
    BY DEF RxUp, Running
  <1> QED
    BY <1>2, <1>3, Zenon DEF EmptyLeft, EmptyOver, BothOver

\* A start of the sending side.
LEMMA TxStarts ==
  ASSUME OnTime, TxSafe, TxStart \/ TxRefused
  PROVE  /\ toTx' = <<>>
         /\ (TxUp' /\ toRx' = toRx \o <<Call>>) \/ toRx' = toRx
         /\ tx'.status = "Establish" /\ tx'.stage = tx.stage
         /\ tx'.active /\ tx'.runs = tx.runs + 1
  <1>1. tx \in TxState /\ toRx \in Seq(Item)
    BY DEF TxSafe, TxSound, LinesOK
  <1>2. toTx' = <<>>
    BY ClearsAll DEF TxStart, TxRefused
  <1>3. /\ tx'.status = "Establish" /\ tx'.stage = tx.stage
        /\ tx'.active /\ tx'.runs = tx.runs + 1
    BY <1>1 DEF TxStart, TxRefused, TxState
  <1>4. CASE TxStart
    <2>1. toRx' = Append(toRx, Byte("C"))
      BY <1>4, ClearsAll DEF TxStart
    <2>2. toRx' = toRx \o <<Call>>
      BY <1>1, <2>1 DEF Call
    <2>3. tx'.timer
      BY <1>1, <1>4 DEF TxStart, TxState
    <2> QED
      BY <1>2, <1>3, <2>2, <2>3 DEF TxUp, Running
  <1>5. CASE TxRefused
    BY <1>2, <1>3, <1>5, ClearsAll DEF TxRefused
  <1> QED
    BY <1>4, <1>5

LEMMA TxStartTurns ==
  ASSUME Clean, IInv, AtRest, ~TxUp, TxStart \/ TxRefused, rx' = rx, Apart \/ GivenUp
  PROVE  (Apart \/ GivenUp)'
  <1>1. OnTime /\ TxSafe /\ toRx \in Seq(Item) /\ tx.runs \in Nat
    BY CleanOnTime DEF Clean, IInv, TxSafe, TxSound, TxState, LinesOK
  <1>2. /\ toTx' = <<>>
        /\ (TxUp' /\ toRx' = toRx \o <<Call>>) \/ toRx' = toRx
        /\ tx'.status = "Establish" /\ tx'.stage = tx.stage
        /\ tx'.runs = tx.runs + 1
    BY <1>1, TxStarts
  <1>3. RxUp' = RxUp
    BY DEF RxUp, Running
  <1>4. CASE Apart
    <2>1. toRx = <<>>
      BY <1>4 DEF Apart
    <2>2. (toRx' = <<Call>> /\ TxUp') \/ toRx' = <<>>
      BY <1>2, <2>1, ShortLines
    <2>3. Even'
      <3> SUFFICES ASSUME OneTransfer' PROVE rx.status # "Finish"
        BY <1>2 DEF Even
      <3>1. tx.runs = 0 /\ rx.runs <= 1
        BY <1>1, <1>2 DEF OneTransfer
      <3> QED
        BY <1>4, <3>1 DEF Apart, Even, OneTransfer, AtRest
    <2> QED
      BY <1>2, <1>3, <1>4, <2>2, <2>3, ShortLines DEF Apart
  <1>5. CASE GivenUp
    <2>1. Begins(toRx, Can) => Begins(toRx', Can)
      BY <1>1, <1>2, BeginsLonger, SignalItems, OneItem
    <2>2. Begins(toRx, Call) => Begins(toRx', Call)
                                /\ Tail(toRx') \in {Tail(toRx), Tail(toRx) \o <<Call>>}
      BY <1>1, <1>2, BeginsLonger, SignalItems, OneItem
    <2>3. Begins(toRx, Call) /\ Begins(Tail(toRx), Can) => Begins(Tail(toRx'), Can)
      <3> SUFFICES ASSUME Begins(toRx, Call), Begins(Tail(toRx), Can)
                   PROVE  Begins(Tail(toRx'), Can)
        OBVIOUS
      <3>1. Tail(toRx) \in Seq(Item)
        BY <1>1 DEF Begins
      <3>2. Begins(Tail(toRx) \o <<Call>>, Can)
        BY <3>1, BeginsLonger, SignalItems, OneItem
      <3> QED
        BY <2>2, <3>2
    <2> QED
      BY <1>2, <1>3, <1>5, <2>1, <2>2, <2>3 DEF GivenUp
  <1> QED
    BY <1>4, <1>5

LEMMA TxDrainTurns ==
  ASSUME IInv, ~TxUp, TxDrain, rx' = rx
  PROVE  /\ Apart \/ GivenUp => Apart'
         /\ EmptyLeft \/ EmptyOver => (EmptyLeft \/ EmptyOver)'
  <1>1. tx' = tx /\ toRx' = toRx /\ toTx' = <<>> /\ toTx # <<>>
    BY DEF TxDrain
  <1>2. TxUp' = TxUp /\ RxUp' = RxUp /\ Even' = Even
    BY <1>1 DEF TxUp, RxUp, Running, Even, OneTransfer
  <1> QED
    BY <1>1, <1>2 DEF Apart, GivenUp, EmptyLeft, EmptyOver, BothOver

\* Where the sending side is not at work.
LEMMA TxIdleTurns ==
  ASSUME Turn, ~TxUp
  PROVE  Apart \/ GivenUp \/ (FileSize = 0 /\ (EmptyLeft \/ EmptyOver))
  BY DEF Turn, Asked, Refused, Done, Opened, FirstRead, BlockSent, BlockTaken, Ending,
     EmptyTurn, EmptyRead, EmptyEnding, Stand

LEMMA TransmitTurns ==
  ASSUME Clean, IInv, AtRest, Turn, FileSize = 0 => OneTransfer', TxNext
  PROVE  Turn'
  <1>1. rx' = rx
    BY DEF TxNext
  <1>2. CASE TxTick
    <2>1. Apart => Turn'
      BY <1>1, <1>2, TxApart DEF Turn
    <2>2. GivenUp => Turn'
      BY <1>1, <1>2, TxGivenUp DEF Turn
    <2>3. ~Asked
      <3> SUFFICES ASSUME Asked PROVE FALSE
        OBVIOUS
      <3>1. toTx = <<>> /\ toRx # <<>> /\ tx.stage # "None"
        BY ShortLines DEF Asked, Stand
      <3> QED
        BY <1>2, <3>1, TxStill
    <2>4. Refused \/ Done => Turn'
      BY <1>1, <1>2, TxRefusal, TxDone DEF Turn
    <2>5. Opened => Turn'
      BY <1>1, <1>2, TxOpened DEF Turn
    <2>6. FirstRead => Turn'
      BY <1>1, <1>2, TxFirstRead DEF Turn
    <2>7. ~BlockSent
      <3> SUFFICES ASSUME BlockSent PROVE FALSE
        OBVIOUS
      <3>1. toTx = <<>> /\ toRx # <<>> /\ tx.stage # "None"
        BY ShortLines DEF BlockSent, Stand
      <3> QED
        BY <1>2, <3>1, TxStill
    <2>8. BlockTaken => Turn'
      BY <1>1, <1>2, TxBlockTaken DEF Turn
    <2>9. Ending => Turn'
      BY <1>1, <1>2, TxEnding DEF Turn
    <2>10. EmptyTurn => EmptyTurn'
      BY <1>1, <1>2, TxEmptyRead, TxEmptyEnding, TxEmptyLeft DEF EmptyTurn
    <2> QED
      BY <2>1, <2>2, <2>3, <2>4, <2>5, <2>6, <2>7, <2>8, <2>9, <2>10 DEF Turn
  <1>3. CASE ~TxTick
    <2>1. ~TxUp
      BY <1>3, TxOnlyTicks
    <2>2. Apart \/ GivenUp \/ (FileSize = 0 /\ (EmptyLeft \/ EmptyOver))
      BY <2>1, TxIdleTurns
    <2>3. CASE TxStart \/ TxRefused
      <3>1. tx'.runs = tx.runs + 1 /\ tx.runs \in Nat
        BY <2>3, TxStarts, CleanOnTime DEF Clean, IInv, TxSafe, TxSound, TxState
      <3>2. ~(FileSize = 0 /\ (EmptyLeft \/ EmptyOver))
        <4> SUFFICES ASSUME FileSize = 0, EmptyLeft \/ EmptyOver PROVE FALSE
          OBVIOUS
        <4>1. tx.runs = 0
          BY <3>1 DEF OneTransfer
        <4>2. tx.status # "Idle"
          BY DEF EmptyLeft, EmptyOver, BothOver, Final
        <4> QED
          BY <4>1, <4>2 DEF AtRest
      <3> QED
        BY <1>1, <2>1, <2>2, <2>3, <3>2, TxStartTurns DEF Turn
    <2>4. CASE TxDrain
      BY <1>1, <2>1, <2>2, <2>4, TxDrainTurns DEF Turn, EmptyTurn
    <2> QED
      BY <1>3, <2>3, <2>4 DEF TxNext, TxCancel, Clean
  <1> QED
    BY <1>2, <1>3
-----------------------------------------------------------------------------
\* What a step of the receiving side makes of its file.
RxGrows ==
  \/ rx'.file = rx.file
  \/ Running(rx) /\ Running(rx') /\ rx'.file = <<>>
  \/ /\ Running(rx) /\ Running(rx') /\ tx.status # "Idle"
     /\ \E n \in 0..FileSize : rx'.file = Beginning(n) /\ Len(rx'.file) > Len(rx.file)

LEMMA RxStill ==
  ASSUME Clean, IInv, RxTick, toRx = <<>>, toTx # <<>>
  PROVE  rx.stage = "None"
  BY RxWaitsItsTurn, CleanOnTime DEF Clean

LEMMA RxStands ==
  ASSUME NEW s, NEW t, NEW f, NEW out, RxGoes(t, f, out), tx' = tx, TxUp, tx.stage = s,
         NEW in, in = Tail(toRx), NEW after, after = toTx \o out
  PROVE  Stand(s, t, in, after)'
  BY DEF RxGoes, Stand, TxUp, Running

\* The slots of the receiving side, in each turn.
LEMMA RxApartTurn ==
  ASSUME Clean, IInv, AtRest, RxTick, tx' = tx, Apart
  PROVE  Apart' /\ rx'.file = rx.file
  <1>1. RxSafe /\ OnTime /\ Running(rx) /\ RxUp
    BY CleanOnTime DEF IInv, Clean, AtRest, RxTick, RxUp
  <1>2. TxUp' = TxUp
    BY DEF TxUp, Running
  <1>3. rx'.runs = rx.runs
    BY <1>1, RxRunsKept
  <1>4. ASSUME rx'.status # "Finish" PROVE Even'
    BY <1>1, <1>3, <1>4 DEF Apart, Even, OneTransfer, Running
  <1>5. CASE rx.stage = "None"
    <2>1. toTx = <<>>
      BY <1>5 DEF Apart
    <2>2. /\ rx'.stage = "Establishing" /\ rx'.status = rx.status /\ rx'.timer
          /\ rx'.file = rx.file /\ rx'.time = 0 /\ toRx' = toRx /\ toTx' = <<Call>>
      BY <1>1, <1>5, <2>1, RxNoneGoes, ShortLines
    <2>3. Even' /\ RxUp'
      BY <1>1, <1>4, <2>2 DEF RxUp, Running
    <2> QED
      BY <1>2, <2>2, <2>3 DEF Apart, Resting
  <1>6. CASE rx.stage = "Establishing"
    <2>1. CASE toRx = <<>>
      <3>1. toTx = <<>>
        BY <1>6, <2>1, RxStill
      <3>2. /\ rx'.stage \in Resting /\ rx'.status # "Finish" /\ rx'.file = rx.file
            /\ toRx' = <<>>
            /\ toTx' = <<>> \/ (RxUp' /\ rx'.stage = "Establishing" /\ toTx' = <<Call>>)
        <4>1. toTx \o <<>> = <<>> /\ toTx \o <<Call>> = <<Call>>
          BY <3>1, ShortLines
        <4>2. CASE RxLeaves("Timeout", <<>>)
          BY <4>1, <4>2 DEF RxLeaves, Resting
        <4>3. CASE /\ RxUp' /\ rx'.stage = "Establishing" /\ rx'.status = rx.status
                   /\ rx'.file = rx.file /\ toRx' = <<>> /\ toTx' \in {toTx, toTx \o <<Call>>}
          BY <1>1, <3>1, <4>1, <4>3 DEF Resting, Running
        <4> QED
          BY <1>1, <1>6, <2>1, <4>2, <4>3, RxEstablishingWaits
      <3> QED
        BY <1>2, <1>4, <3>2, ShortLines DEF Apart
    <2>2. CASE toRx = <<Call>>
      <3>1. Begins(toRx, Call) /\ Tail(toRx) = <<>> /\ toRx # <<>> /\ TxUp
        BY <2>2, ShortLines, ShortBegins DEF Apart
      <3>2. toTx = <<>> \/ (toTx = <<Call>> /\ rx.time = 0)
        BY <3>1 DEF Apart
      <3>3. CASE rx.time # 0 /\ RxLeaves("Timeout", <<>>)
        <4>1. toTx' = <<>> \o <<>> /\ toRx' = <<>> /\ rx'.stage = "None"
              /\ rx'.status = "Timeout" /\ rx'.file = rx.file
          BY <3>2, <3>3 DEF RxLeaves
        <4> QED
          BY <1>2, <1>4, <4>1 DEF Apart, Resting
      <3>4. CASE /\ RxUp' /\ rx'.stage = "Establishing" /\ rx'.status = rx.status
                 /\ rx'.file = rx.file /\ toRx' = Tail(toRx)
                 /\ toTx' \in {toTx, toTx \o <<Call>>}
                 /\ rx.time = 0 => toTx' = toTx
        <4>1. toTx' \in {<<>>, <<Call>>} /\ toRx' = <<>>
          BY <3>1, <3>2, <3>4, ShortLines
        <4>2. Even'
          BY <1>1, <1>4, <3>4 DEF Running
        <4> QED
          BY <1>2, <3>4, <4>1, <4>2 DEF Apart, Resting
      <3> QED
        BY <1>1, <1>6, <3>1, <3>3, <3>4, RxEstablishingOnCall DEF Clean
    <2> QED
      BY <2>1, <2>2 DEF Apart
  <1> QED
    BY <1>5, <1>6 DEF Apart, Resting

LEMMA RxGivenUp ==
  ASSUME Clean, IInv, RxTick, tx' = tx, GivenUp
  PROVE  (GivenUp \/ Apart)' /\ rx'.file = rx.file
  <1>1. RxSafe /\ OnTime /\ toTx = <<>> /\ RxUp
    BY CleanOnTime DEF IInv, Clean, GivenUp
  <1>2. CASE Begins(toRx, Can)
    <2>1. RxLeaves("Abort", <<>>)
      BY <1>1, <1>2, RxOnCan DEF GivenUp
    <2>2. /\ rx'.status = "Abort" /\ rx'.stage = "None" /\ rx'.file = rx.file
          /\ toRx' = <<>> /\ toTx' = <<>> \o <<>>
      BY <1>1, <2>1 DEF RxLeaves
    <2> QED
      BY <2>2 DEF GivenUp, Apart, Even, Resting
  <1>3. CASE /\ rx.stage = "Establishing" /\ rx.time = 0
             /\ Begins(toRx, Call) /\ Begins(Tail(toRx), Can)
    <2>1. /\ RxUp' /\ rx'.stage = "Establishing" /\ rx'.file = rx.file
          /\ toRx' = Tail(toRx) /\ toTx' = <<>>
      BY <1>1, <1>3, RxEstablishingOnCall DEF Clean
    <2> QED
      BY <1>3, <2>1 DEF GivenUp
  <1> QED
    BY <1>2, <1>3 DEF GivenUp

LEMMA RxAsked ==
  ASSUME Clean, IInv, RxTick, tx' = tx, Asked
  PROVE  (Asked \/ Refused \/ Opened)' /\ RxGrows
  <1>1. /\ RxSafe /\ OnTime /\ TxUp /\ RxUp /\ toTx = <<>> /\ tx.count = 0
        /\ tx.stage = "Established" /\ rx.stage = "Establishing"
    BY CleanOnTime DEF IInv, Clean, Asked, Stand
  <1>2. TxUp'
    BY <1>1 DEF TxUp, Running
  <1>3. CASE toRx = <<Header("file")>>
    <2>1. Begins(toRx, Header("file")) /\ Tail(toRx) = <<>>
      BY <1>3, ShortLines, ShortBegins
    <2>2. CASE RxLeaves("Error", Cans)
      <3>1. /\ rx'.status = "Error" /\ rx'.stage = "None" /\ rx'.file = rx.file
            /\ toRx' = <<>> /\ toTx' = <<>> \o Cans
        BY <1>1, <2>2 DEF RxLeaves
      <3>2. <<>> \o Cans = Cans
        BY CansLine
      <3> QED
        BY <1>1, <1>2, <3>1, <3>2, CansBegin DEF Refused, Resting, RxGrows
    <2>3. CASE RxGoes("Established", <<>>, <<Ack, Call>>) /\ rx'.size = FileSize
      <3>1. Stand("Established", "Established", <<>>, <<Ack, Call>>)'
        <4>1. <<Ack, Call>> = toTx \o <<Ack, Call>>
          BY <1>1, ShortLines
        <4> QED
          BY <1>1, <2>1, <2>3, <4>1, RxStands
      <3>2. rx'.file = <<>> /\ Running(rx) /\ Running(rx')
        BY <1>1, <2>3 DEF RxGoes, RxUp
      <3> QED
        BY <1>1, <2>3, <3>1, <3>2 DEF Opened, RxGrows
    <2> QED
      BY <1>1, <2>1, <2>2, <2>3, RxEstablishingOnHeader DEF Clean
  <1>4. CASE toRx = <<Call, Header("file")>> /\ rx.time = 0
    <2>1. Begins(toRx, Call) /\ Tail(toRx) = <<Header("file")>>
      BY <1>4, ShortLines, ShortBegins
    <2>2. /\ RxUp' /\ rx'.stage = "Establishing" /\ rx'.file = rx.file
          /\ toRx' = <<Header("file")>> /\ toTx' = <<>>
      BY <1>1, <1>4, <2>1, RxEstablishingOnCall DEF Clean
    <2> QED
      BY <1>1, <1>2, <2>2 DEF Asked, Stand, RxGrows
  <1> QED
    BY <1>3, <1>4 DEF Asked, Stand

\* A receiving side that asks again while the last answer is not read.
LEMMA RxAsksAgain ==
  ASSUME Clean, IInv, AtRest, RxTick, tx' = tx, Refused \/ Done
  PROVE  (Refused \/ Done)' /\ rx'.file = rx.file
  <1>1. toRx = <<>> /\ toTx # <<>> /\ toTx \in Seq(Item) /\ TxUp
    BY DEF Refused, Done, Begins, IInv, RxSafe, LinesOK
  <1>2. /\ rx'.stage = "Establishing" /\ rx'.status = rx.status /\ rx'.file = rx.file
        /\ toRx' = toRx /\ toTx' = toTx \o <<Call>>
    BY <1>1, RxStill, RxNoneGoes DEF IInv
  <1>3. \A item : Begins(toTx, item) => Begins(toTx', item)
    BY <1>1, <1>2, BeginsLonger, SignalItems, OneItem
  <1>4. TxUp' /\ rx'.runs = rx.runs
    BY <1>1, RxRunsKept DEF TxUp, Running, IInv
  <1> QED
    BY <1>2, <1>3, <1>4 DEF Refused, Done, Resting, OneTransfer

LEMMA RxBlockSent ==
  ASSUME Clean, IInv, RxTick, tx' = tx, BlockSent
  PROVE  BlockTaken' /\ RxGrows
  <1>1. PICK b \in Data :
          /\ \/ Stand("Transmitting", "Established", <<b>>, <<>>) /\ b.blk = 1
             \/ Stand("Transmitting", "Transmitting", <<b>>, <<>>) /\ b.blk = NextBlk(rx.blk)
          /\ tx.blk = b.blk /\ tx.count = After(b)
          /\ rx.file = Beginning(b.pos) /\ rx.size = FileSize
    BY DEF BlockSent
  <1>2. Begins(toRx, b) /\ <<>> = Tail(toRx) /\ <<Ack>> = toTx \o <<Ack>>
        /\ TxUp /\ RxUp /\ tx.stage = "Transmitting"
    BY <1>1, ShortLines, ShortBegins DEF Stand
  <1>3. /\ \/ rx.stage = "Established" /\ b.blk = 1
           \/ rx.stage = "Transmitting" /\ b.blk = NextBlk(rx.blk)
        /\ rx.size = FileSize /\ rx.file = Beginning(b.pos)
    BY <1>1 DEF Stand
  <1>4. /\ RxGoes("Transmitting", Beginning(After(b)), <<Ack>>)
        /\ rx'.blk = b.blk /\ rx'.size = FileSize
    BY <1>2, <1>3, RxTakesBlock, CleanOnTime DEF Clean, IInv
  <1>5. Stand("Transmitting", "Transmitting", <<>>, <<Ack>>)'
    BY <1>2, <1>4, RxStands
  <1>6. After(b) \in 1..FileSize /\ b.pos < After(b) /\ b.pos \in Nat
    BY AfterData, DataFields
  <1>7. rx'.file = Beginning(After(b)) /\ Running(rx) /\ Running(rx')
    BY <1>2, <1>4 DEF RxGoes, RxUp
  <1>8. BlockTaken'
    BY <1>1, <1>4, <1>5, <1>6, <1>7 DEF BlockTaken
  <1>9. RxGrows
    <2>1. Len(rx.file) = b.pos /\ Len(rx'.file) = After(b)
      BY <1>1, <1>6, <1>7 DEF Beginning
    <2>2. tx.status # "Idle"
      BY <1>2 DEF TxUp, Running
    <2>3. After(b) \in 0..FileSize
      BY <1>6
    <2> QED
      BY <1>6, <1>7, <2>1, <2>2, <2>3 DEF RxGrows
  <1> QED
    BY <1>8, <1>9

LEMMA RxEnding ==
  ASSUME Clean, IInv, RxTick, tx' = tx, Ending
  PROVE  (Ending \/ Done)' /\ rx'.file = rx.file
  <1>1. RxSafe /\ OnTime /\ TxUp /\ RxUp /\ rx.stage # "None" /\ rx.file = File
    BY CleanOnTime DEF IInv, Clean, Ending, Stand
  <1>2. ~(toRx = <<>> /\ toTx # <<>>)
    BY <1>1, RxStill
  <1>3. CASE Stand("Finishing", "Transmitting", <<Eot>>, <<>>)
    <2>1. RxGoes("Finishing", rx.file, <<Nak>>)
      BY <1>1, <1>3, ShortBegins, RxOnEot DEF Stand
    <2>2. <<>> = Tail(toRx) /\ <<Nak>> = toTx \o <<Nak>>
      BY <1>3, ShortLines DEF Stand
    <2>3. Stand("Finishing", "Finishing", <<>>, <<Nak>>)'
      BY <1>3, <2>1, <2>2, RxStands DEF Stand
    <2> QED
      BY <1>1, <2>1, <2>3 DEF Ending, RxGoes
  <1>4. CASE Stand("Finishing", "Finishing", <<Eot>>, <<>>) /\ tx.time = 0
    <2>1. RxGoes("Finished", rx.file, <<Ack, Call>>)
      BY <1>1, <1>4, ShortBegins, RxFinishingOnEot DEF Stand
    <2>2. <<>> = Tail(toRx) /\ <<Ack, Call>> = toTx \o <<Ack, Call>>
      BY <1>4, ShortLines DEF Stand
    <2>3. Stand("Finishing", "Finished", <<>>, <<Ack, Call>>)'
      BY <1>4, <2>1, <2>2, RxStands DEF Stand
    <2> QED
      BY <1>1, <1>4, <2>1, <2>3 DEF Ending, RxGoes
  <1>5. CASE Stand("Finished", "Finished", <<Header("null")>>, <<>>)
    <2>1. RxLeaves("Finish", <<Ack>>)
      BY <1>1, <1>5, ShortBegins, RxFinishedOnNull DEF Stand
    <2>2. /\ rx'.status = "Finish" /\ rx'.stage = "None" /\ rx'.file = rx.file
          /\ toRx' = <<>> /\ toTx' = <<>> \o <<Ack>>
      BY <1>5, <2>1 DEF RxLeaves, Stand
    <2>3. Begins(toTx', Ack)
      BY <2>2, ShortLines, ShortBegins
    <2>4. TxUp' /\ tx'.stage = "Finished"
      BY <1>5 DEF TxUp, Running, Stand
    <2> QED
      BY <1>1, <2>2, <2>3, <2>4 DEF Done, Resting
  <1>6. \/ toRx = <<>> /\ toTx # <<>>
        \/ Stand("Finishing", "Transmitting", <<Eot>>, <<>>)
        \/ Stand("Finishing", "Finishing", <<Eot>>, <<>>) /\ tx.time = 0
        \/ Stand("Finished", "Finished", <<Header("null")>>, <<>>)
    BY ShortLines DEF Ending, Stand
  <1> QED
    BY <1>2, <1>3, <1>4, <1>5, <1>6

LEMMA RxEmptyRead ==
  ASSUME Clean, IInv, RxTick, tx' = tx, EmptyRead
  PROVE  EmptyRead' /\ rx'.file = rx.file
  <1>1. RxSafe /\ OnTime /\ rx.stage # "None"
    BY CleanOnTime DEF IInv, Clean, EmptyRead, Stand
  <1>2. Stand("Established", "Established", <<Eot>>, <<Call>>)
    BY <1>1, RxStill, ShortLines DEF EmptyRead, Stand
  <1>3. RxGoes("Finishing", rx.file, <<Nak>>)
    BY <1>1, <1>2, ShortBegins, RxOnEot DEF Stand
  <1>4. <<>> = Tail(toRx) /\ <<Call, Nak>> = toTx \o <<Nak>>
    BY <1>2, ShortLines, SignalJoins DEF Stand
  <1>5. Stand("Established", "Finishing", <<>>, <<Call, Nak>>)'
    BY <1>2, <1>3, <1>4, RxStands DEF Stand
  <1> QED
    BY <1>3, <1>5 DEF EmptyRead, RxGoes

\* An empty file is whole from the start.
LEMMA EmptyIsWhole ==
  ASSUME RxSafe, FileSize = 0
  PROVE  rx.file = File
  <1>1. rx.file \in Seq(0..FileSize) /\ rx.size \in 0..SizeMax /\ Len(rx.file) <= rx.size
    BY DEF RxSafe, RxSound, RxReady, RxState
  <1>2. rx.size = 0
    BY <1>1 DEF SizeMax
  <1>3. Len(rx.file) = 0
    BY <1>1, <1>2
  <1>4. rx.file = <<>>
    BY <1>1, <1>3, EmptySeq
  <1>5. File = <<>>
    BY DEF File
  <1> QED
    BY <1>4, <1>5

LEMMA RxEmptyEnding ==
  ASSUME Clean, IInv, RxTick, tx' = tx, EmptyEnding, FileSize = 0
  PROVE  (EmptyEnding \/ Done)' /\ rx'.file = rx.file
  <1>1. RxSafe /\ OnTime /\ ErrorMax # 0 /\ TxUp /\ RxUp /\ rx.stage # "None" /\ rx.file = File
    BY EmptyIsWhole, CleanOnTime DEF IInv, Clean, EmptyEnding, Stand
  <1>2. ~(toRx = <<>> /\ toTx # <<>>)
    BY <1>1, RxStill
  <1>3. CASE Stand("Finishing", "Established", <<Eot, Eot>>, <<>>)
    <2>1. RxGoes("Finishing", rx.file, <<Nak>>)
      BY <1>1, <1>3, ShortBegins, RxOnEot DEF Stand
    <2>2. <<Eot>> = Tail(toRx) /\ <<Nak>> = toTx \o <<Nak>>
      BY <1>3, ShortLines DEF Stand
    <2>3. Stand("Finishing", "Finishing", <<Eot>>, <<Nak>>)'
      BY <1>3, <2>1, <2>2, RxStands DEF Stand
    <2> QED
      BY <1>1, <2>1, <2>3 DEF EmptyEnding, RxGoes
  <1>4. CASE Stand("Finishing", "Finishing", <<Eot>>, <<Nak>>)
    <2>1. RxGoes("Finished", rx.file, <<Ack, Call>>) /\ rx'.err = 0
      BY <1>1, <1>4, ShortBegins, RxFinishingOnEot DEF Stand
    <2>2. <<>> = Tail(toRx) /\ <<Nak, Ack, Call>> = toTx \o <<Ack, Call>>
      BY <1>4, ShortLines, SignalJoins DEF Stand
    <2>3. Stand("Finishing", "Finished", <<>>, <<Nak, Ack, Call>>)'
      BY <1>4, <2>1, <2>2, RxStands DEF Stand
    <2> QED
      BY <1>1, <2>1, <2>3 DEF EmptyEnding, RxGoes
  <1>5. CASE Stand("Finishing", "Finishing", <<Eot, Eot>>, <<>>) /\ tx.time = 0
    <2>1. RxGoes("Finished", rx.file, <<Ack, Call>>) /\ rx'.err = 0
      BY <1>1, <1>5, ShortBegins, RxFinishingOnEot DEF Stand
    <2>2. <<Eot>> = Tail(toRx) /\ <<Ack, Call>> = toTx \o <<Ack, Call>>
      BY <1>5, ShortLines DEF Stand
    <2>3. Stand("Finishing", "Finished", <<Eot>>, <<Ack, Call>>)'
      BY <1>5, <2>1, <2>2, RxStands DEF Stand
    <2> QED
      BY <1>1, <1>5, <2>1, <2>3 DEF EmptyEnding, RxGoes
  <1>6. CASE Stand("Finishing", "Finished", <<Eot>>, <<Ack, Call>>) /\ tx.time = 0 /\ rx.err = 0
    <2>1. RxGoes("Finished", rx.file, <<Ack, Call>>)
      BY <1>1, <1>6, ShortBegins, RxFinishedOnEot DEF Stand
    <2>2. <<>> = Tail(toRx) /\ <<Ack, Call, Ack, Call>> = toTx \o <<Ack, Call>>
      BY <1>6, ShortLines, SignalJoins DEF Stand
    <2>3. Stand("Finishing", "Finished", <<>>, <<Ack, Call, Ack, Call>>)'
      BY <1>6, <2>1, <2>2, RxStands DEF Stand
    <2> QED
      BY <1>1, <1>6, <2>1, <2>3 DEF EmptyEnding, RxGoes
  <1>7. CASE Stand("Finishing", "Finished", <<Eot>>, <<Call>>) /\ rx.err = 0
    <2>1. RxGoes("Finished", rx.file, <<Ack, Call>>)
      BY <1>1, <1>7, ShortBegins, RxFinishedOnEot DEF Stand
    <2>2. <<>> = Tail(toRx) /\ <<Call, Ack, Call>> = toTx \o <<Ack, Call>>
      BY <1>7, ShortLines, SignalJoins DEF Stand
    <2>3. Stand("Finishing", "Finished", <<>>, <<Call, Ack, Call>>)'
      BY <1>7, <2>1, <2>2, RxStands DEF Stand
    <2> QED
      BY <1>1, <2>1, <2>3 DEF EmptyEnding, RxGoes
  <1>8. CASE Stand("Finished", "Finished", <<Eot, Header("null")>>, <<>>) /\ rx.err = 0
    <2>1. RxGoes("Finished", rx.file, <<Ack, Call>>)
      BY <1>1, <1>8, ShortBegins, RxFinishedOnEot DEF Stand
    <2>2. <<Header("null")>> = Tail(toRx) /\ <<Ack, Call>> = toTx \o <<Ack, Call>>
      BY <1>8, ShortLines DEF Stand
    <2>3. Stand("Finished", "Finished", <<Header("null")>>, <<Ack, Call>>)'
      BY <1>8, <2>1, <2>2, RxStands DEF Stand
    <2> QED
      BY <1>1, <2>1, <2>3 DEF EmptyEnding, RxGoes
  <1>9. CASE Stand("Finished", "Finished", <<Header("null")>>, <<Ack, Call>>)
    <2>1. RxLeaves("Finish", <<Ack>>)
      BY <1>1, <1>9, ShortBegins, RxFinishedOnNull DEF Stand
    <2>2. /\ rx'.status = "Finish" /\ rx'.stage = "None" /\ rx'.file = rx.file
          /\ toRx' = <<>> /\ toTx' = toTx \o <<Ack>>
      BY <2>1 DEF RxLeaves
    <2>3. Begins(toTx, Ack) /\ toTx \in Seq(Item)
      BY <1>9, ShortBegins DEF Stand, IInv, RxSafe, LinesOK
    <2>4. Begins(toTx', Ack)
      BY <2>2, <2>3, BeginsLonger, SignalItems, OneItem
    <2>5. TxUp' /\ tx'.stage = "Finished"
      BY <1>9 DEF TxUp, Running, Stand
    <2> QED
      BY <1>1, <2>2, <2>4, <2>5 DEF Done, Resting
  <1>10. \/ toRx = <<>> /\ toTx # <<>>
         \/ Stand("Finishing", "Established", <<Eot, Eot>>, <<>>)
         \/ Stand("Finishing", "Finishing", <<Eot>>, <<Nak>>)
         \/ Stand("Finishing", "Finishing", <<Eot, Eot>>, <<>>) /\ tx.time = 0
         \/ Stand("Finishing", "Finished", <<Eot>>, <<Ack, Call>>) /\ tx.time = 0 /\ rx.err = 0
         \/ Stand("Finishing", "Finished", <<Eot>>, <<Call>>) /\ rx.err = 0
         \/ Stand("Finished", "Finished", <<Eot, Header("null")>>, <<>>) /\ rx.err = 0
         \/ Stand("Finished", "Finished", <<Header("null")>>, <<Ack, Call>>)
    <2>1. \A s, u, out : Stand(s, u, <<>>, out) /\ out # <<>> => toRx = <<>> /\ toTx # <<>>
      BY StandLines
    <2>2. /\ Stand("Finishing", "Finished", <<>>, <<Nak, Ack, Call>>) => toRx = <<>> /\ toTx # <<>>
          /\ Stand("Finishing", "Finished", <<>>, <<Ack, Call, Ack, Call>>) => toRx = <<>> /\ toTx # <<>>
          /\ Stand("Finishing", "Finished", <<>>, <<Call, Ack, Call>>) => toRx = <<>> /\ toTx # <<>>
      BY <2>1, NotEmpty, Zenon
    <2> QED
      BY <2>2, Zenon DEF EmptyEnding
  <1> QED
    BY <1>2, <1>3, <1>4, <1>5, <1>6, <1>7, <1>8, <1>9, <1>10

LEMMA RxEmptyLeft ==
  ASSUME Clean, IInv, RxTick, tx' = tx, EmptyLeft
  PROVE  (EmptyLeft \/ EmptyOver)' /\ rx'.file = rx.file
  <1>1. RxSafe /\ OnTime
    BY CleanOnTime DEF IInv, Clean
  <1>2. CASE /\ tx.status = "Error" /\ rx.stage = "Established"
             /\ Begins(toRx, Eot) /\ Begins(Tail(toRx), Can)
    <2>1. RxGoes("Finishing", rx.file, <<Nak>>)
      BY <1>1, <1>2, RxOnEot
    <2> QED
      BY <1>2, <2>1 DEF EmptyLeft, RxGoes
  <1>3. CASE tx.status = "Error" /\ rx.stage = "Finishing" /\ Begins(toRx, Can)
    <2>1. RxLeaves("Abort", <<>>)
      BY <1>1, <1>3, RxOnCan
    <2> QED
      BY <1>3, <2>1 DEF EmptyOver, BothOver, Final, RxLeaves
  <1>4. CASE tx.status = "Finish" /\ rx.stage = "Finished" /\ Begins(toRx, Header("null"))
    <2>1. RxLeaves("Finish", <<Ack>>)
      BY <1>1, <1>4, RxFinishedOnNull
    <2> QED
      BY <1>4, <2>1 DEF EmptyOver, BothOver, Final, RxLeaves
  <1> QED
    BY <1>2, <1>3, <1>4 DEF EmptyLeft

\* A start of the receiving side.
LEMMA RxStarts ==
  ASSUME OnTime, RxSafe, RxStart
  PROVE  /\ toRx' = <<>> /\ toTx' = toTx /\ RxUp'
         /\ rx'.status = "Establish" /\ rx'.stage = rx.stage /\ rx'.file = rx.file
         /\ rx'.runs = rx.runs + 1
  <1>1. rx \in RxState
    BY DEF RxSafe, RxSound, RxReady
  <1>2. toRx' = <<>> /\ toTx' = toTx
    BY ClearsAll DEF RxStart
  <1>3. /\ rx'.status = "Establish" /\ rx'.stage = rx.stage /\ rx'.file = rx.file
        /\ rx'.runs = rx.runs + 1 /\ rx'.timer
    BY <1>1 DEF RxStart, RxState
  <1> QED
    BY <1>2, <1>3 DEF RxUp, Running

LEMMA RxStartTurns ==
  ASSUME Clean, IInv, AtRest, ~RxUp, RxStart, tx' = tx, Apart \/ Refused \/ Done
  PROVE  (Apart \/ Refused \/ Done)'
  <1>1. OnTime /\ RxSafe /\ rx.runs \in Nat
    BY CleanOnTime DEF Clean, IInv, RxSafe, RxSound, RxReady, RxState
  <1>2. /\ toRx' = <<>> /\ toTx' = toTx /\ RxUp'
        /\ rx'.status = "Establish" /\ rx'.stage = rx.stage /\ rx'.file = rx.file
        /\ rx'.runs = rx.runs + 1
    BY <1>1, RxStarts
  <1>3. TxUp' = TxUp
    BY DEF TxUp, Running
  <1>4. OneTransfer' => OneTransfer /\ rx.status = "Idle"
    BY <1>1, <1>2 DEF OneTransfer, AtRest
  <1>5. CASE Apart
    <2>1. toTx = <<>>
      BY <1>5 DEF Apart
    <2>2. Even'
      BY <1>2, <1>4, <1>5 DEF Apart, Even
    <2> QED
      BY <1>2, <1>3, <1>5, <2>1, <2>2 DEF Apart
  <1>6. CASE Refused
    BY <1>2, <1>3, <1>6 DEF Refused
  <1>7. CASE Done
    BY <1>2, <1>3, <1>4, <1>7 DEF Done
  <1> QED
    BY <1>5, <1>6, <1>7

\* Where the receiving side is not at work.
LEMMA RxIdleTurns ==
  ASSUME Turn, ~RxUp
  PROVE  Apart \/ Refused \/ Done \/ (FileSize = 0 /\ EmptyOver)
  BY DEF Turn, Asked, GivenUp, Opened, FirstRead, BlockSent, BlockTaken, Ending,
     EmptyTurn, EmptyRead, EmptyEnding, EmptyLeft, Stand

LEMMA ReceiveTurns ==
  ASSUME Clean, IInv, AtRest, Turn, FileSize = 0 => OneTransfer', RxNext
  PROVE  Turn' /\ RxGrows
  <1>1. tx' = tx
    BY DEF RxNext
  <1>2. CASE RxTick
    <2>1. RxUp
      BY <1>2 DEF AtRest, RxTick, RxUp
    <2>2. Apart => Turn' /\ RxGrows
      BY <1>1, <1>2, RxApartTurn DEF Turn, RxGrows
    <2>3. GivenUp => Turn' /\ RxGrows
      BY <1>1, <1>2, RxGivenUp DEF Turn, RxGrows
    <2>4. Asked => Turn' /\ RxGrows
      BY <1>1, <1>2, RxAsked DEF Turn
    <2>5. Refused \/ Done => Turn' /\ RxGrows
      BY <1>1, <1>2, RxAsksAgain DEF Turn, RxGrows
    <2>6. ~(Opened \/ FirstRead \/ BlockTaken)
      <3> SUFFICES ASSUME Opened \/ FirstRead \/ BlockTaken PROVE FALSE
        OBVIOUS
      <3>1. toRx = <<>> /\ toTx # <<>> /\ rx.stage # "None"
        BY ShortLines DEF Opened, FirstRead, BlockTaken, Stand
      <3> QED
        BY <1>2, <3>1, RxStill
    <2>7. BlockSent => Turn' /\ RxGrows
      BY <1>1, <1>2, RxBlockSent DEF Turn
    <2>8. Ending => Turn' /\ RxGrows
      BY <1>1, <1>2, RxEnding DEF Turn, RxGrows
    <2>9. EmptyTurn => Turn' /\ RxGrows
      <3>1. ~EmptyOver
        BY <2>1 DEF EmptyOver, BothOver, RxUp, Running, Final
      <3> QED
        BY <1>1, <1>2, <3>1, RxEmptyRead, RxEmptyEnding, RxEmptyLeft
           DEF EmptyTurn, Turn, RxGrows
    <2> QED
      BY <2>2, <2>3, <2>4, <2>5, <2>6, <2>7, <2>8, <2>9 DEF Turn
  <1>3. CASE ~RxTick
    <2>1. ~RxUp
      BY <1>3, RxOnlyTicks
    <2>2. Apart \/ Refused \/ Done \/ (FileSize = 0 /\ EmptyOver)
      BY <2>1, RxIdleTurns
    <2>3. CASE RxStart
      <3>1. rx'.runs = rx.runs + 1 /\ rx.runs \in Nat /\ rx'.file = rx.file
        BY <2>3, RxStarts, CleanOnTime DEF Clean, IInv, RxSafe, RxSound, RxReady, RxState
      <3>2. ~(FileSize = 0 /\ EmptyOver)
        <4> SUFFICES ASSUME FileSize = 0, EmptyOver PROVE FALSE
          OBVIOUS
        <4>1. rx.runs = 0
          BY <3>1 DEF OneTransfer
        <4>2. rx.status # "Idle"
          BY DEF EmptyOver, BothOver, Final
        <4> QED
          BY <4>1, <4>2 DEF AtRest
      <3> QED
        BY <1>1, <2>1, <2>2, <2>3, <3>1, <3>2, RxStartTurns DEF Turn, RxGrows
    <2>4. CASE RxDrain
      <3>1. rx' = rx
        BY <2>4 DEF RxDrain
      <3>2. Apart \/ Refused \/ Done => Apart'
        <4> SUFFICES ASSUME Apart \/ Refused \/ Done PROVE Apart'
          OBVIOUS
        <4>1. Apart
          BY <2>4 DEF RxDrain, Refused, Done
        <4>2. TxUp' = TxUp /\ RxUp' = RxUp /\ Even' = Even
          BY <1>1, <3>1 DEF TxUp, RxUp, Running, Even, OneTransfer
        <4> QED
          BY <1>1, <2>4, <3>1, <4>1, <4>2 DEF RxDrain, Apart
      <3>3. EmptyOver => EmptyOver'
        BY <1>1, <3>1 DEF EmptyOver, BothOver
      <3> QED
        BY <2>2, <3>1, <3>2, <3>3 DEF Turn, EmptyTurn, RxGrows
    <2> QED
      BY <1>3, <2>3, <2>4 DEF RxNext, RxCancel, Clean
  <1> QED
    BY <1>2, <1>3
-----------------------------------------------------------------------------
(***************************************************************************)
(* Taking turns is an invariant of a clean line                            *)
(***************************************************************************)
LEMMA TransmitAtRest ==
  ASSUME Clean, IInv, AtRest, TxNext
  PROVE  AtRest'
  <1>1. rx' = rx
    BY DEF TxNext
  <1>2. /\ Running(tx') => tx'.active
        /\ tx'.runs = 0 => tx'.status = "Idle" /\ ~tx'.timer
    <2>1. CASE TxTick
      <3>1. tx'.runs = tx.runs /\ tx.runs # 0
        BY <2>1, TxRunsKept DEF IInv, AtRest, TxTick
      <3>2. CASE Running(tx)
        BY <2>1, <3>1, <3>2, TxSlotOutcome DEF IInv, AtRest, TxOutcome
      <3>3. CASE ~Running(tx)
        <4>1. ~Running(tx')
          BY <2>1, <3>3, TxIdles DEF Running
        <4> QED
          BY <3>1, <4>1
      <3> QED
        BY <3>2, <3>3
    <2>2. CASE TxStart \/ TxRefused
      <3>1. tx'.active /\ tx'.runs = tx.runs + 1 /\ tx.runs \in Nat
        BY <2>2, TxStarts, CleanOnTime DEF Clean, IInv, TxSafe, TxSound, TxState
      <3> QED
        BY <3>1
    <2>3. CASE TxDrain
      BY <2>3 DEF TxDrain, AtRest
    <2> QED
      BY <2>1, <2>2, <2>3 DEF TxNext, TxCancel, Clean
  <1> QED
    BY <1>1, <1>2 DEF AtRest, Running

LEMMA ReceiveAtRest ==
  ASSUME Clean, IInv, AtRest, RxNext, RxGrows
  PROVE  AtRest'
  <1>1. tx' = tx
    BY DEF RxNext
  <1>2. /\ rx'.timer => Running(rx')
        /\ rx'.runs = 0 => rx'.status = "Idle"
    <2>1. CASE RxTick
      <3>1. Running(rx)
        BY <2>1 DEF AtRest, RxTick
      <3>2. rx'.runs = rx.runs /\ rx.runs # 0
        BY <2>1, <3>1, RxRunsKept DEF IInv, AtRest, Running
      <3> QED
        BY <2>1, <3>1, <3>2, RxSlotOutcome DEF IInv, RxOutcome
    <2>2. CASE RxStart
      <3>1. RxUp' /\ rx'.runs = rx.runs + 1 /\ rx.runs \in Nat
        BY <2>2, RxStarts, CleanOnTime DEF Clean, IInv, RxSafe, RxSound, RxReady, RxState
      <3> QED
        BY <3>1 DEF RxUp, Running
    <2>3. CASE RxDrain
      BY <2>3 DEF RxDrain, AtRest, Running
    <2> QED
      BY <2>1, <2>2, <2>3 DEF RxNext, RxCancel, Clean
  <1>3. \E n \in 0..FileSize : rx'.file = Beginning(n)
    <2>1. CASE rx'.file = rx.file
      BY <2>1 DEF AtRest
    <2>2. CASE rx'.file = <<>>
      BY <2>2, SizeAssumption DEF Beginning
    <2> QED
      BY <2>1, <2>2 DEF RxGrows
  <1> QED
    BY <1>1, <1>2, <1>3 DEF AtRest, Running

LEMMA InitTurns == Init => TakeTurns
  <1> SUFFICES ASSUME Init PROVE AtRest /\ Turn
    BY DEF TakeTurns
  <1>1. rx.file = Beginning(0)
    BY DEF Init, RxInit, Beginning
  <1>2. AtRest
    BY <1>1, SizeAssumption DEF Init, TxInit, RxInit, AtRest, Running
  <1>3. Apart
    BY DEF Init, TxInit, RxInit, Apart, Resting, Even
  <1> QED
    BY <1>2, <1>3 DEF Turn

LEMMA NextTurns ==
  ASSUME Clean, IInv, TakeTurns, [Next]_vars
  PROVE  TakeTurns'
  <1> SUFFICES ASSUME FileSize = 0 => OneTransfer' PROVE AtRest' /\ Turn'
    BY DEF TakeTurns
  <1>1. AtRest /\ Turn
    BY TransfersCounted DEF TakeTurns
  <1>2. CASE TxNext
    BY <1>1, <1>2, TransmitTurns, TransmitAtRest
  <1>3. CASE RxNext
    BY <1>1, <1>3, ReceiveTurns, ReceiveAtRest
  <1>4. CASE UNCHANGED vars
    <2>1. toRx' = toRx /\ toTx' = toTx /\ tx' = tx /\ rx' = rx
      BY <1>4 DEF vars
    <2>2. AtRest'
      BY <1>1, <2>1 DEF AtRest, Running
    <2>3. TxUp' = TxUp /\ RxUp' = RxUp /\ Even' = Even /\ BothOver' = BothOver
      BY <2>1 DEF TxUp, RxUp, Running, Even, OneTransfer, BothOver
    <2>4. \A s, t, in, out : Stand(s, t, in, out)' = Stand(s, t, in, out)
      BY <2>1, <2>3 DEF Stand
    <2>5. (Apart \/ GivenUp \/ Asked \/ Refused \/ Done \/ Opened \/ FirstRead) =>
            (Apart \/ GivenUp \/ Asked \/ Refused \/ Done \/ Opened \/ FirstRead)'
      BY <2>1, <2>3, <2>4, Zenon DEF Apart, GivenUp, Asked, Refused, Done, Opened, FirstRead, OneTransfer
    <2>6. (BlockSent \/ BlockTaken \/ Ending) => (BlockSent \/ BlockTaken \/ Ending)'
      BY <2>1, <2>3, <2>4, Zenon DEF BlockSent, BlockTaken, Ending
    <2>7. EmptyTurn => EmptyTurn'
      BY <2>1, <2>3, <2>4, Zenon DEF EmptyTurn, EmptyRead, EmptyEnding, EmptyLeft, EmptyOver
    <2> QED
      BY <1>1, <2>2, <2>5, <2>6, <2>7 DEF Turn
  <1>5. ~Fault
    BY FaultAssumption DEF Fault, Clean, Counted, IInv
  <1> QED
    BY <1>2, <1>3, <1>4, <1>5 DEF Next

\* On a line that answers in time and loses nothing, and with nobody cancelling,
\* YmodemTransmit and YmodemFileReceive take turns: whatever is in the two ports
\* belongs to one of the exchanges of the protocol, and the side it is meant for
\* is at the stage that expects it.
THEOREM SidesTakeTurns ==
  ASSUME Clean
  PROVE  Spec => []TakeTurns
  <1>1. Init => TakeTurns
    BY InitTurns
  <1>2. IInv /\ TakeTurns /\ [Next]_vars => TakeTurns'
    BY NextTurns
  <1> QED
    BY <1>1, <1>2, AlwaysSafe, PTL DEF Spec

\* Two sides through with their one transfer report the same result to their
\* users: neither tells StatusFinish of a transfer the other has given up.
THEOREM SidesAgree ==
  ASSUME Clean
  PROVE  Spec => []Agreement
  <1>1. TakeTurns => Agreement
    <2> SUFFICES ASSUME TakeTurns, OneTransfer, BothOver
                 PROVE  tx.status = "Finish" <=> rx.status = "Finish"
      BY DEF Agreement
    <2>1. Turn
      BY DEF TakeTurns
    <2>2. ~TxUp /\ ~RxUp
      BY DEF BothOver, TxUp, RxUp, Running, Final
    <2>3. Apart \/ EmptyOver
      BY <2>1, <2>2, TxIdleTurns, RxIdleTurns DEF GivenUp, EmptyLeft
    <2> QED
      BY <2>3 DEF Apart, Even, EmptyOver
  <1> QED
    BY <1>1, SidesTakeTurns, PTL
-----------------------------------------------------------------------------
(***************************************************************************)
(* A clean transfer is the one FileTransfer promises                       *)
(***************************************************************************)
EmptyWhole == FileSize = 0 => rx.file = File

LEMMA BeginningIsOneOf ==
  ASSUME NEW n \in 0..FileSize
  PROVE  Beginning(n) \in Abstract!Beginnings
  <1>1. n \in Nat /\ n <= FileSize /\ FileSize \in Nat
    BY SizeAssumption
  <1>2. Abstract!File \in Seq(Nat) /\ Len(Abstract!File) = FileSize
        /\ \A i \in 1..FileSize : Abstract!File[i] = i
    BY <1>1 DEF Abstract!File
  <1>3. SubSeq(Abstract!File, 1, n) = [i \in 1..n |-> Abstract!File[i]]
    BY <1>1, <1>2
  <1>4. [i \in 1..n |-> Abstract!File[i]] = Beginning(n)
    BY <1>1, <1>2 DEF Beginning
  <1> QED
    BY <1>3, <1>4 DEF Abstract!Beginnings

\* A side that may report StatusFinish speaks of the whole file.
LEMMA WholeAtEnd ==
  ASSUME Clean, IInv, TakeTurns,
         (Running(tx) /\ tx.stage = "Finished") \/ (Running(rx) /\ rx.stage = "Finished")
  PROVE  rx.file = File
  <1>1. CASE FileSize = 0
    BY <1>1, EmptyIsWhole DEF IInv
  <1>2. CASE FileSize # 0
    <2>1. Turn
      BY <1>2 DEF TakeTurns
    <2>2. Done \/ Ending
      BY <1>2, <2>1 DEF Turn, Apart, GivenUp, Asked, Refused, Opened, FirstRead, BlockSent,
         BlockTaken, EmptyTurn, Stand, Resting, TxUp
    <2> QED
      BY <2>2 DEF Done, Ending
  <1> QED
    BY <1>1, <1>2

\* The file grows as TakeTurns says.
LEMMA FileGrows ==
  ASSUME Clean, IInv, TakeTurns, EmptyWhole, EmptyWhole', RxNext
  PROVE  RxGrows
  <1>1. CASE FileSize = 0
    BY <1>1 DEF EmptyWhole, RxGrows, File
  <1>2. CASE FileSize # 0
    BY <1>2, ReceiveTurns DEF TakeTurns
  <1> QED
    BY <1>1, <1>2

LEMMA SideIs ==
  ASSUME NEW m, m.status \in Statuses
  PROVE  /\ SideOf(m) = "running" <=> Running(m)
         /\ SideOf(m) = "done" <=> m.status = "Finish"
         /\ SideOf(m) = "idle" <=> m.status = "Idle"
         /\ SideOf(m) = "failed" => m.status \in Final
         /\ SideOf(m) \in {"idle", "running", "done", "failed"}
  BY DEF SideOf, Running, Statuses, Final

LEMMA TransferInit == Init => Abstract!Init
  BY DEF Init, TxInit, RxInit, Abstract!Init, SideOf

LEMMA TransmitTransfers ==
  ASSUME Clean, IInv, IInv', TakeTurns, TxNext
  PROVE  [Abstract!Next]_<<SideOf(tx), SideOf(rx), rx.file>>
  <1>1. rx' = rx /\ SideOf(rx') = SideOf(rx) /\ rx'.file = rx.file
    BY DEF TxNext
  <1>2. tx.status \in Statuses /\ tx'.status \in Statuses
    BY DEF IInv, TxSafe, TxSound, TxState
  <1>3. CASE tx'.status = tx.status
    BY <1>1, <1>3 DEF SideOf, Running
  <1>4. CASE TxTick /\ Running(tx)
    <2>1. SideOf(tx) = "running" /\ SideOf(tx') \in {"running", "done", "failed"}
      BY <1>2, <1>4, SideIs, TxSlotOutcome DEF IInv, TxOutcome
    <2>2. SideOf(tx') = "done" => rx.file = File
      BY <1>2, <1>4, SideIs, TxSlotOutcome, WholeAtEnd DEF IInv, TxOutcome
    <2> QED
      BY <1>1, <2>1, <2>2 DEF Abstract!Next, Abstract!SenderDone, Abstract!SenderFail,
         Abstract!File, File
  <1>5. CASE TxStart \/ TxRefused
    <2>1. SideOf(tx') = "running"
      BY <1>2, <1>5, SideIs, TxStarts, CleanOnTime DEF Clean, IInv, Running
    <2>2. SideOf(tx) \in {"running"} \cup Abstract!Idle
      BY <1>2, SideIs DEF Abstract!Idle
    <2> QED
      BY <1>1, <2>1, <2>2 DEF Abstract!Next, Abstract!SenderStart
  <1> QED
    BY <1>3, <1>4, <1>5, TxIdles DEF TxNext, TxCancel, TxDrain, Clean

LEMMA ReceiveTransfers ==
  ASSUME Clean, IInv, IInv', TakeTurns, EmptyWhole, EmptyWhole', RxNext
  PROVE  [Abstract!Next]_<<SideOf(tx), SideOf(rx), rx.file>>
  <1>1. tx' = tx /\ SideOf(tx') = SideOf(tx)
    BY DEF RxNext
  <1>2. rx.status \in Statuses /\ rx'.status \in Statuses /\ tx.status \in Statuses
    BY DEF IInv, TxSafe, TxSound, TxState, RxSafe, RxSound, RxReady, RxState
  <1>3. CASE rx'.status = rx.status /\ rx'.file = rx.file
    BY <1>1, <1>3 DEF SideOf, Running
  <1>4. CASE RxTick /\ Running(rx)
    <2>1. SideOf(rx) = "running" /\ SideOf(rx') \in {"running", "done", "failed"}
      BY <1>2, <1>4, SideIs, RxSlotOutcome DEF IInv, RxOutcome
    <2>2. CASE SideOf(rx') = "done"
      <3>1. rx.file = File /\ rx'.file = rx.file
        BY <1>2, <1>4, <2>2, SideIs, RxSlotOutcome, WholeAtEnd DEF IInv, RxOutcome, Final
      <3> QED
        BY <1>1, <2>1, <2>2, <3>1 DEF Abstract!Next, Abstract!ReceiverDone, Abstract!File, File
    <2>3. CASE SideOf(rx') = "failed"
      <3>1. rx'.status \in Final
        BY <1>2, <2>3, SideIs
      <3>2. rx'.file = rx.file
        BY <1>4, <3>1, RxSlotOutcome DEF IInv, RxOutcome
      <3> QED
        BY <1>1, <2>1, <2>3, <3>2 DEF Abstract!Next, Abstract!ReceiverFail
    <2>4. CASE SideOf(rx') = "running"
      <3>1. CASE rx'.file = rx.file
        BY <1>1, <2>1, <2>4, <3>1
      <3>2. CASE rx'.file = <<>>
        BY <1>1, <2>1, <2>4, <3>2 DEF Abstract!Next, Abstract!Open
      <3>3. CASE /\ tx.status # "Idle"
                 /\ \E n \in 0..FileSize :
                      rx'.file = Beginning(n) /\ Len(rx'.file) > Len(rx.file)
        <4>1. rx'.file \in Abstract!Beginnings /\ Len(rx'.file) > Len(rx.file)
          BY <3>3, BeginningIsOneOf
        <4>2. SideOf(tx) # "idle"
          BY <1>2, <3>3, SideIs
        <4> QED
          BY <1>1, <2>1, <2>4, <4>1, <4>2 DEF Abstract!Next, Abstract!Save
      <3> QED
        BY <3>1, <3>2, <3>3, FileGrows DEF RxGrows
    <2> QED
      BY <2>1, <2>2, <2>3, <2>4
  <1>5. CASE RxStart
    <2>1. SideOf(rx') = "running" /\ rx'.file = rx.file
      BY <1>2, <1>5, SideIs, RxStarts, CleanOnTime DEF Clean, IInv, Running
    <2>2. SideOf(rx) \in {"running"} \cup Abstract!Idle
      BY <1>2, SideIs DEF Abstract!Idle
    <2> QED
      BY <1>1, <2>1, <2>2 DEF Abstract!Next, Abstract!ReceiverStart
  <1> QED
    BY <1>3, <1>4, <1>5, RxLastSlot DEF RxNext, RxCancel, RxDrain, Clean, IInv

LEMMA TransferStep ==
  ASSUME Clean, IInv, IInv', TakeTurns, EmptyWhole, EmptyWhole', [Next]_vars
  PROVE  [Abstract!Next]_<<SideOf(tx), SideOf(rx), rx.file>>
  <1>1. ~Fault
    BY FaultAssumption DEF Fault, Clean, Counted, IInv
  <1>2. CASE UNCHANGED vars
    BY <1>2 DEF vars
  <1> QED
    BY <1>1, <1>2, TransmitTransfers, ReceiveTransfers DEF Next

\* A clean YModem transfer is a file transfer: YmodemFileReceive only ever writes
\* a longer beginning of the file, and a side that reports StatusFinish does so of
\* the whole of it, over any number of transfers.
THEOREM CleanTransferIsFileTransfer ==
  ASSUME Clean
  PROVE  Spec => ImplementsFileTransfer
  <1>1. IInv => EmptyWhole
    BY EmptyIsWhole DEF IInv, EmptyWhole
  <1>2. IInv /\ IInv' /\ TakeTurns /\ EmptyWhole /\ EmptyWhole' /\ [Next]_vars =>
          [Abstract!Next]_<<SideOf(tx), SideOf(rx), rx.file>>
    BY TransferStep
  <1> QED
    BY <1>1, <1>2, TransferInit, SidesTakeTurns, AlwaysSafe, PTL
       DEF Spec, ImplementsFileTransfer, Abstract!Spec
=============================================================================

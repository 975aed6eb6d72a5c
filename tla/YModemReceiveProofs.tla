------------------------ MODULE YModemReceiveProofs -------------------------
(***************************************************************************)
(* The receiving side keeps its file, its timer and its reports in order,  *)
(* whatever arrives on its line.                                           *)
(***************************************************************************)
EXTENDS YModemProperties, YModemLemmas

\* A state a slot may leave behind: RxSlot sets its timer from its status.
RxReady(m) ==
  /\ m \in RxState
  /\ m.open <=> m.stage \in DataStages
  /\ m.told = IF Running(m) THEN m.runs - 1 ELSE m.runs
  /\ m.active <=> Running(m)
  /\ Len(m.file) <= m.size

\* A receiving side between two slots.
RxSound(m) ==
  /\ RxReady(m)
  /\ m.timer /\ m.stage # "None" => Running(m)
  /\ Running(m) => m.timer

RxSafe == LinesOK /\ RxSound(rx)

\* What a slot, or a call of the user, leaves behind.
RxKept == LinesOK' /\ RxSound(rx')

LEMMA ResetRx ==
  ASSUME NEW m \in RxState, NEW s \in Stages
  PROVE  /\ Reset(m, s) \in RxState
         /\ Reset(m, s).stage = s /\ Reset(m, s).time = 0 /\ Reset(m, s).err = 0
         /\ Reset(m, s).status = m.status /\ Reset(m, s).timer = m.timer
         /\ Reset(m, s).size = m.size /\ Reset(m, s).file = m.file
         /\ Reset(m, s).open = m.open /\ Reset(m, s).active = m.active
         /\ Reset(m, s).told = m.told /\ Reset(m, s).runs = m.runs
  <1>1. Reset(m, s) \in RxState
    BY ZeroNumber, Zenon DEF Reset, RxState
  <1> QED
    BY <1>1 DEF Reset, RxState

LEMMA RxSlotKeeps ==
  ASSUME LinesOK, NEW m, RxReady(m), NEW out \in Seq(Item),
         NEW r, r.rest \in Seq(Item), RxSlot(r, m, out)
  PROVE  RxKept
  <1>1. rx' \in RxState
    <2>1. Running(m) \in BOOLEAN
      BY DEF Running
    <2> QED
      BY <2>1, Zenon DEF RxSlot, RxReady, RxState
  <1>2. /\ rx'.open = m.open /\ rx'.stage = m.stage /\ rx'.status = m.status
        /\ rx'.told = m.told /\ rx'.runs = m.runs /\ rx'.active = m.active
        /\ rx'.file = m.file /\ rx'.size = m.size
        /\ rx'.timer = Running(m)
    BY DEF RxSlot, RxReady, RxState
  <1>3. LinesOK'
    BY DEF RxSlot, LinesOK
  <1>4. RxReady(rx')
    BY <1>1, <1>2 DEF RxReady, Running
  <1> QED
    BY <1>2, <1>3, <1>4 DEF RxKept, RxSound, Running

\* Only a transfer that goes on is reported, and its report ends it.
LEMMA RxReportKeeps ==
  ASSUME LinesOK, NEW m \in RxState, NEW s \in Final, NEW in \in Seq(Item),
         NEW out \in Seq(Item), NEW after \in Seq(Item),
         m.stage = "None", ~m.open, m.told = m.runs - 1, Len(m.file) <= m.size,
         RxReport(in, m, s, out, after)
  PROVE  RxKept
  <1>1. m.told \in Nat /\ m.runs \in Nat
    BY DEF RxState
  <1>2. rx' \in RxState
    <2>1. s \in Statuses /\ m.told + 1 \in Nat
      BY <1>1 DEF Statuses
    <2> QED
      BY <2>1, Zenon DEF RxReport, RxState
  <1>3. /\ rx'.open = m.open /\ rx'.stage = m.stage /\ rx'.status = s
        /\ rx'.told = m.told + 1 /\ rx'.runs = m.runs /\ rx'.active = FALSE
        /\ rx'.file = m.file /\ rx'.size = m.size
    BY DEF RxReport, RxState
  <1>4. LinesOK'
    <2>1. PICK sent \in Sent(toTx, out) : toTx' = sent \o after
      BY DEF RxReport
    <2>2. sent \in Seq(Item)
      BY SentLine DEF LinesOK
    <2>3. toRx' \in Seq(Item)
      BY ClearedLine DEF RxReport
    <2> QED
      BY <2>1, <2>2, <2>3 DEF LinesOK
  <1>5. ~Running(rx')
    BY <1>3 DEF Running, Final
  <1>6. RxReady(rx')
    BY <1>1, <1>2, <1>3, <1>5 DEF RxReady, DataStages
  <1> QED
    BY <1>3, <1>4, <1>5, <1>6 DEF RxKept, RxSound

LEMMA RxOverKeeps ==
  ASSUME RxSafe, Running(rx), NEW r, r.rest \in Seq(Item), NEW s \in Final,
         NEW out \in Seq(Item), NEW after \in Seq(Item), RxOver(r, s, out, after)
  PROVE  RxKept
  <1> DEFINE m == Reset(rx, "None")
             n == [m EXCEPT !.open = FALSE, !.timer = FALSE]
  <1>0. rx \in RxState /\ "None" \in Stages
    BY DEF RxSafe, RxSound, RxReady, Stages
  <1>1. /\ m \in RxState /\ m.stage = "None" /\ m.told = rx.told /\ m.runs = rx.runs
        /\ m.file = rx.file /\ m.size = rx.size
    BY <1>0, ResetRx
  <1>2. RxReport(r.rest, n, s, out, after)
    BY DEF RxOver
  <1> HIDE DEF m
  <1>3. n \in RxState
    BY <1>1, Zenon DEF RxState
  <1>4. /\ n.stage = "None" /\ ~n.open /\ n.told = rx.told /\ n.runs = rx.runs
        /\ n.file = rx.file /\ n.size = rx.size
    BY <1>1 DEF RxState
  <1>5. LinesOK /\ rx.told = rx.runs - 1 /\ Len(rx.file) <= rx.size
    BY DEF RxSafe, RxSound, RxReady
  <1> QED
    BY <1>2, <1>3, <1>4, <1>5, RxReportKeeps

\* Before the file is open, a report may leave it alone.
LEMMA RxUnopenedKeeps ==
  ASSUME RxSafe, Running(rx), ~rx.open, NEW r, r.rest \in Seq(Item),
         RxTimeout(r) \/ RxRefuse(r)
  PROVE  RxKept
  <1> DEFINE m == Reset(rx, "None")
             n == [m EXCEPT !.timer = FALSE]
  <1>0. rx \in RxState /\ "None" \in Stages
    BY DEF RxSafe, RxSound, RxReady, Stages
  <1>1. /\ m \in RxState /\ m.stage = "None" /\ m.told = rx.told /\ m.runs = rx.runs
        /\ m.file = rx.file /\ m.size = rx.size /\ m.open = rx.open
    BY <1>0, ResetRx
  <1>2. RxReport(r.rest, n, "Timeout", Cans, <<>>) \/ RxReport(r.rest, n, "Error", <<>>, Cans)
    BY DEF RxTimeout, RxRefuse
  <1> HIDE DEF m
  <1>3. n \in RxState
    BY <1>1, Zenon DEF RxState
  <1>4. /\ n.stage = "None" /\ ~n.open /\ n.told = rx.told /\ n.runs = rx.runs
        /\ n.file = rx.file /\ n.size = rx.size
    BY <1>1 DEF RxState
  <1>5. /\ LinesOK /\ rx.told = rx.runs - 1 /\ Len(rx.file) <= rx.size
        /\ "Timeout" \in Final /\ "Error" \in Final /\ <<>> \in Seq(Item)
    BY DEF RxSafe, RxSound, RxReady, Final
  <1> QED
    BY <1>2, <1>3, <1>4, <1>5, CansLine, RxReportKeeps

LEMMA RxErrorKeeps ==
  ASSUME RxSafe, Running(rx), NEW r, r.rest \in Seq(Item), RxError(r) \/ RxAbort(r)
  PROVE  RxKept
  <1>1. "Error" \in Final /\ "Abort" \in Final /\ <<>> \in Seq(Item)
    BY DEF Final
  <1> QED
    BY <1>1, CansLine, RxOverKeeps DEF RxError, RxAbort

\* The counters of a state change nothing of what RxReady is about.
LEMMA RxCountingReady ==
  ASSUME RxSound(rx)
  PROVE  RxReady(rx) /\ RxReady(Waited(rx)) /\ RxReady(Faulted(rx))
  <1>1. Waited(rx) \in RxState
    BY DEF RxSound, RxReady, Waited, RxState
  <1>2. Faulted(rx) \in RxState
    BY DEF RxSound, RxReady, Faulted, RxState
  <1>3. /\ Waited(rx).open = rx.open /\ Waited(rx).stage = rx.stage
        /\ Waited(rx).status = rx.status /\ Waited(rx).told = rx.told
        /\ Waited(rx).runs = rx.runs /\ Waited(rx).active = rx.active
        /\ Waited(rx).file = rx.file /\ Waited(rx).size = rx.size
    BY DEF RxSound, RxReady, Waited, RxState
  <1>4. /\ Faulted(rx).open = rx.open /\ Faulted(rx).stage = rx.stage
        /\ Faulted(rx).status = rx.status /\ Faulted(rx).told = rx.told
        /\ Faulted(rx).runs = rx.runs /\ Faulted(rx).active = rx.active
        /\ Faulted(rx).file = rx.file /\ Faulted(rx).size = rx.size
    BY DEF RxSound, RxReady, Faulted, RxState
  <1> QED
    BY <1>1, <1>2, <1>3, <1>4 DEF RxSound, RxReady, Running

LEMMA RxSilenceKeeps ==
  ASSUME RxSafe, Running(rx), NEW r, r.rest \in Seq(Item), NEW out \in Seq(Item),
         RxSilence(r, out)
  PROVE  RxKept
  <1> DEFINE m == Waited(rx)
  <1>1. CASE Expired(m) /\ RxError(r)
    BY <1>1, RxErrorKeeps
  <1>2. CASE ~Expired(m) /\ RxSlot(r, m, IF Due(m) THEN out ELSE <<>>)
    <2>1. (IF Due(m) THEN out ELSE <<>>) \in Seq(Item)
      OBVIOUS
    <2>2. LinesOK /\ RxReady(m)
      BY RxCountingReady DEF RxSafe
    <2> QED
      BY <1>2, <2>1, <2>2, RxSlotKeeps
  <1> QED
    BY <1>1, <1>2 DEF RxSilence

LEMMA RxCountedKeeps ==
  ASSUME RxSafe, Running(rx), NEW r, r.rest \in Seq(Item), NEW out \in Seq(Item),
         RxCounted(r, out)
  PROVE  RxKept
  <1> DEFINE m == Faulted(rx)
  <1>1. CASE TooMany(m) /\ RxError(r)
    BY <1>1, RxErrorKeeps
  <1>2. CASE ~TooMany(m) /\ RxSlot(r, m, out)
    <2>1. LinesOK /\ RxReady(m)
      BY RxCountingReady DEF RxSafe
    <2> QED
      BY <1>2, <2>1, RxSlotKeeps
  <1> QED
    BY <1>1, <1>2 DEF RxCounted

LEMMA Answers ==
  /\ <<Byte("ACK")>> \in Seq(Item) /\ <<Byte("NAK")>> \in Seq(Item) /\ <<Byte("C")>> \in Seq(Item)
  /\ <<Byte("ACK"), Byte("C")>> \in Seq(Item) /\ <<>> \in Seq(Item)
  <1>1. Byte("ACK") \in Item /\ Byte("NAK") \in Item /\ Byte("C") \in Item
    BY ByteItem DEF Codes
  <1> HIDE DEF Item
  <1> QED
    BY <1>1

LEMMA RxOpenKeeps ==
  ASSUME RxSafe, Running(rx), ~rx.open, NEW r, r.rest \in Seq(Item), RxOpen(r)
  PROVE  RxKept
  <1> DEFINE d == Reset(rx, "Established")
             m(n) == [d EXCEPT !.open = TRUE, !.size = n, !.file = <<>>, !.status = "Establish"]
  <1>1. CASE \E n \in Sizes(r.pkt) : RxSlot(r, m(n), <<Byte("ACK"), Byte("C")>>)
    <2>1. PICK n \in Sizes(r.pkt) : RxSlot(r, m(n), <<Byte("ACK"), Byte("C")>>)
      BY <1>1
    <2>2. n \in 0..SizeMax
      BY SizeAssumption DEF Sizes, SizeMax
    <2>3. rx \in RxState /\ "Established" \in Stages /\ rx.told = rx.runs - 1 /\ rx.active
      BY DEF RxSafe, RxSound, RxReady, Stages
    <2>4. /\ d \in RxState /\ d.stage = "Established" /\ d.told = rx.told /\ d.runs = rx.runs
          /\ d.active = rx.active
      BY <2>3, ResetRx
    <2> HIDE DEF d
    <2>5. m(n) \in RxState
      <3>1. "Establish" \in Statuses /\ <<>> \in Seq(0..FileSize)
        BY DEF Statuses
      <3> QED
        BY <2>2, <2>4, <3>1, Zenon DEF RxState
    <2>6. /\ m(n).open /\ m(n).stage = "Established" /\ m(n).told = rx.told
          /\ m(n).runs = rx.runs /\ m(n).active = rx.active /\ m(n).status = "Establish"
          /\ m(n).file = <<>> /\ m(n).size = n
      BY <2>4 DEF RxState
    <2>7. Running(m(n)) /\ Len(m(n).file) <= m(n).size
      BY <2>2, <2>6 DEF Running
    <2>8. RxReady(m(n))
      BY <2>3, <2>5, <2>6, <2>7 DEF RxReady, DataStages
    <2> HIDE DEF m
    <2> QED
      BY <2>1, <2>8, Answers, RxSlotKeeps DEF RxSafe
  <1>2. CASE RxRefuse(r)
    BY <1>2, RxUnopenedKeeps
  <1> QED
    BY <1>1, <1>2 DEF RxOpen

\* What is written of a payload fits in the size the header gave.
LEMMA RxSaveKeeps ==
  ASSUME RxSafe, Running(rx), rx.open, NEW r, r.rest \in Seq(Item), r.pkt \in Item,
         NEW n \in Numbers, RxSave(r, n)
  PROVE  RxKept
  <1> DEFINE d == Reset(rx, "Transmitting")
             len == Smaller(Length(r.pkt), rx.size - Len(rx.file))
             add == [i \in 1..len |-> Unit(r.pkt, i)]
             m == [d EXCEPT !.blk = n, !.status = "Transmit", !.file = @ \o add]
  <1>1. /\ rx \in RxState /\ "Transmitting" \in Stages /\ rx.told = rx.runs - 1 /\ rx.active
        /\ rx.file \in Seq(0..FileSize) /\ rx.size \in Nat /\ Len(rx.file) <= rx.size
    BY SizeAssumption DEF RxSafe, RxSound, RxReady, Stages, RxState
  <1>2. /\ d \in RxState /\ d.stage = "Transmitting" /\ d.told = rx.told /\ d.runs = rx.runs
        /\ d.active = rx.active /\ d.open = rx.open /\ d.file = rx.file /\ d.size = rx.size
    BY <1>1, ResetRx
  <1>3. RxSlot(r, m, <<Byte("ACK")>>)
    BY DEF RxSave
  <1>4. len \in Nat /\ Len(rx.file) + len <= rx.size
    <2>1. Length(r.pkt) \in Nat
      BY SizeAssumption DEF Length
    <2>2. Len(rx.file) \in Nat
      BY <1>1, LenProperties
    <2> QED
      BY <1>1, <2>1, <2>2 DEF Smaller
  <1> HIDE DEF d, len, m
  <1>5. \A i \in 1..len : Unit(r.pkt, i) \in 0..FileSize
    <2>1. r.pkt.pos \in 0..FileSize
      BY DEF Item
    <2> QED
      BY <1>4, <2>1, SizeAssumption DEF Unit
  <1>6. add \in Seq(0..FileSize) /\ Len(add) = len
    BY <1>4, <1>5
  <1> HIDE DEF add
  <1>7. rx.file \o add \in Seq(0..FileSize) /\ Len(rx.file \o add) = Len(rx.file) + len
    <2>1. rx.file \in Seq(0..FileSize)
      BY <1>1
    <2> QED
      BY <2>1, <1>6, ConcatProperties, Zenon
  <1>8. m \in RxState
    <2>1. "Transmit" \in Statuses
      BY DEF Statuses
    <2> QED
      BY <1>2, <1>7, <2>1, Zenon DEF RxState, m
  <1>9. /\ m.open = rx.open /\ m.stage = "Transmitting" /\ m.told = rx.told
        /\ m.runs = rx.runs /\ m.active = rx.active /\ m.status = "Transmit"
        /\ m.file = rx.file \o add /\ m.size = rx.size
    BY <1>2 DEF RxState, m
  <1>10. Running(m)
    BY <1>9 DEF Running
  <1>11. RxReady(m)
    BY <1>1, <1>4, <1>7, <1>8, <1>9, <1>10 DEF RxReady, DataStages
  <1> QED
    BY <1>3, <1>11, Answers, RxSlotKeeps DEF RxSafe

\* A stage that changes without opening or closing the file.
LEMMA RxMoves ==
  ASSUME RxSafe, NEW s \in Stages, s \in DataStages <=> rx.stage \in DataStages,
         NEW r, r.rest \in Seq(Item), NEW out \in Seq(Item), RxSlot(r, Reset(rx, s), out)
  PROVE  RxKept
  <1> DEFINE m == Reset(rx, s)
  <1>1. rx \in RxState
    BY DEF RxSafe, RxSound, RxReady
  <1>2. /\ m \in RxState /\ m.stage = s /\ m.told = rx.told /\ m.runs = rx.runs
        /\ m.active = rx.active /\ m.open = rx.open /\ m.file = rx.file /\ m.size = rx.size
        /\ m.status = rx.status
    BY <1>1, ResetRx
  <1> HIDE DEF m
  <1>3. RxReady(m)
    BY <1>2 DEF RxSafe, RxSound, RxReady, Running
  <1>4. RxSlot(r, m, out)
    BY DEF m
  <1> QED
    BY <1>3, <1>4, RxSlotKeeps DEF RxSafe
-----------------------------------------------------------------------------
(***************************************************************************)
(* The stages                                                              *)
(***************************************************************************)
LEMMA RxNoneKeeps ==
  ASSUME RxSafe, ReceiveStageNone
  PROVE  RxKept
  <1> DEFINE r == [rest |-> toRx]
  <1>1. RxSlot(r, Reset(rx, "Establishing"), <<Byte("C")>>) /\ r.rest \in Seq(Item)
    BY DEF ReceiveStageNone, RxSafe, LinesOK
  <1>2. "Establishing" \in Stages /\ ("Establishing" \in DataStages <=> rx.stage \in DataStages)
    BY DEF ReceiveStageNone, Stages, DataStages
  <1> QED
    BY <1>1, <1>2, Answers, RxMoves

LEMMA RxEstablishingKeeps ==
  ASSUME RxSafe, rx.timer, ReceiveStageEstablishing
  PROVE  RxKept
  <1>1. Running(rx) /\ ~rx.open
    BY DEF ReceiveStageEstablishing, RxSafe, RxSound, RxReady, DataStages
  <1>2. PICK r \in ReceivePacket(rx, toRx) :
          \/ RxOpen(r)
          \/ RxCounted(r, <<Byte("C")>>)
          \/ RxAbort(r)
          \/ RxTimeout(r)
          \/ RxSlot(r, Waited(rx), IF Due(Waited(rx)) THEN <<Byte("C")>> ELSE <<>>)
    BY DEF ReceiveStageEstablishing
  <1>3. r.rest \in Seq(Item)
    BY ReadLine DEF RxSafe, LinesOK
  <1>4. CASE RxSlot(r, Waited(rx), IF Due(Waited(rx)) THEN <<Byte("C")>> ELSE <<>>)
    <2>1. (IF Due(Waited(rx)) THEN <<Byte("C")>> ELSE <<>>) \in Seq(Item)
      BY Answers
    <2>2. LinesOK /\ RxReady(Waited(rx))
      BY RxCountingReady DEF RxSafe
    <2> QED
      BY <1>3, <1>4, <2>1, <2>2, RxSlotKeeps
  <1> QED
    BY <1>1, <1>2, <1>3, <1>4, Answers, RxOpenKeeps, RxCountedKeeps, RxErrorKeeps, RxUnopenedKeeps

LEMMA RxEotKeeps ==
  ASSUME RxSafe, rx.stage \in DataStages, NEW r, r.rest \in Seq(Item), RxEot(r)
  PROVE  RxKept
  <1>1. "Finishing" \in Stages /\ "Finishing" \in DataStages
    BY DEF Stages, DataStages
  <1> QED
    BY <1>1, Answers, RxMoves DEF RxEot

LEMMA RxEstablishedKeeps ==
  ASSUME RxSafe, rx.timer, ReceiveStageEstablished
  PROVE  RxKept
  <1>1. Running(rx) /\ rx.open /\ rx.stage \in DataStages
    BY DEF ReceiveStageEstablished, RxSafe, RxSound, RxReady, DataStages
  <1>2. PICK r \in ReceivePacket(rx, toRx) :
          \/ RxCounted(r, <<Byte("ACK"), Byte("C")>>)
          \/ IsPacket(r.pkt) /\ RxSave(r, 1)
          \/ RxCounted(r, <<Byte("NAK")>>)
          \/ RxEot(r)
          \/ RxAbort(r)
          \/ RxSilence(r, <<Byte("NAK")>>)
    BY DEF ReceiveStageEstablished
  <1>3. r.rest \in Seq(Item) /\ (IsPacket(r.pkt) => r.pkt \in Item)
    BY ReadLine DEF RxSafe, LinesOK, IsPacket, Nothing
  <1>4. 1 \in Numbers
    BY ZeroNumber
  <1> QED
    BY <1>1, <1>2, <1>3, <1>4, Answers, RxSaveKeeps, RxCountedKeeps, RxErrorKeeps, RxEotKeeps,
       RxSilenceKeeps

LEMMA RxTransmittingKeeps ==
  ASSUME RxSafe, rx.timer, ReceiveStageTransmitting
  PROVE  RxKept
  <1>1. Running(rx) /\ rx.open /\ rx.stage \in DataStages
    BY DEF ReceiveStageTransmitting, RxSafe, RxSound, RxReady, DataStages
  <1>2. PICK r \in ReceivePacket(rx, toRx) :
          \/ RxCounted(r, <<Byte("ACK")>>)
          \/ IsPacket(r.pkt) /\ RxSave(r, NextBlk(rx.blk))
          \/ RxCounted(r, <<Byte("NAK")>>)
          \/ RxEot(r)
          \/ RxAbort(r)
          \/ RxSilence(r, <<Byte("NAK")>>)
    BY DEF ReceiveStageTransmitting
  <1>3. r.rest \in Seq(Item) /\ (IsPacket(r.pkt) => r.pkt \in Item)
    BY ReadLine DEF RxSafe, LinesOK, IsPacket, Nothing
  <1>4. NextBlk(rx.blk) \in Numbers
    BY NextBlkNumber DEF RxSafe, RxSound, RxReady, RxState
  <1> QED
    BY <1>1, <1>2, <1>3, <1>4, Answers, RxSaveKeeps, RxCountedKeeps, RxErrorKeeps, RxEotKeeps,
       RxSilenceKeeps

LEMMA RxFinishingKeeps ==
  ASSUME RxSafe, rx.timer, ReceiveStageFinishing
  PROVE  RxKept
  <1>1. Running(rx) /\ rx.stage \in DataStages
    BY DEF ReceiveStageFinishing, RxSafe, RxSound, DataStages
  <1>2. PICK r \in ReceivePacket(rx, toRx) :
          \/ RxSlot(r, Reset(rx, "Finished"), <<Byte("ACK"), Byte("C")>>)
          \/ RxAbort(r)
          \/ RxSilence(r, <<Byte("NAK")>>)
    BY DEF ReceiveStageFinishing
  <1>3. r.rest \in Seq(Item)
    BY ReadLine DEF RxSafe, LinesOK
  <1>4. "Finished" \in Stages /\ "Finished" \in DataStages
    BY DEF Stages, DataStages
  <1> QED
    BY <1>1, <1>2, <1>3, <1>4, Answers, RxMoves, RxErrorKeeps, RxSilenceKeeps

LEMMA RxFinishedKeeps ==
  ASSUME RxSafe, rx.timer, ReceiveStageFinished
  PROVE  RxKept
  <1>1. Running(rx)
    BY DEF ReceiveStageFinished, RxSafe, RxSound
  <1>2. PICK r \in ReceivePacket(rx, toRx) :
          \/ RxOver(r, "Finish", <<Byte("ACK")>>, <<Byte("ACK")>>)
          \/ RxCounted(r, <<Byte("NAK")>>)
          \/ RxCounted(r, <<Byte("ACK"), Byte("C")>>)
          \/ RxAbort(r)
          \/ RxSilence(r, <<Byte("NAK")>>)
    BY DEF ReceiveStageFinished
  <1>3. r.rest \in Seq(Item) /\ "Finish" \in Final
    BY ReadLine DEF RxSafe, LinesOK, Final
  <1> QED
    BY <1>1, <1>2, <1>3, Answers, RxOverKeeps, RxCountedKeeps, RxErrorKeeps, RxSilenceKeeps
-----------------------------------------------------------------------------
(***************************************************************************)
(* The calls of the user, and every step of the receiving side             *)
(***************************************************************************)
LEMMA RxStartKeeps ==
  ASSUME RxSafe, RxStart
  PROVE  RxKept
  <1>1. /\ rx \in RxState /\ rx.runs \in Nat /\ ~Running(rx) /\ rx.told = rx.runs
        /\ Len(rx.file) <= rx.size
    BY DEF RxStart, RxSafe, RxSound, RxReady, RxState
  <1>2. rx' \in RxState
    <2>1. "Establish" \in Statuses /\ rx.runs + 1 \in Nat
      BY <1>1 DEF Statuses
    <2> QED
      BY <1>1, <2>1, Zenon DEF RxStart, RxState
  <1>3. /\ rx'.status = "Establish" /\ rx'.runs = rx.runs + 1 /\ rx'.told = rx.told
        /\ rx'.stage = rx.stage /\ rx'.open = rx.open /\ rx'.active /\ rx'.timer
        /\ rx'.file = rx.file /\ rx'.size = rx.size
    BY <1>1 DEF RxStart, RxState
  <1>4. LinesOK'
    BY Answers, ClearedLine, SentLine DEF RxStart, RxSafe, LinesOK
  <1>5. Running(rx')
    BY <1>3 DEF Running
  <1>6. RxReady(rx')
    BY <1>1, <1>2, <1>3, <1>5 DEF RxSafe, RxSound, RxReady
  <1> QED
    BY <1>3, <1>4, <1>5, <1>6 DEF RxSound, RxKept

LEMMA RxCancelKeeps ==
  ASSUME RxSafe, RxCancel
  PROVE  RxKept
  <1> DEFINE m == Reset(rx, "None")
             n == [m EXCEPT !.open = FALSE]
  <1>1. /\ rx \in RxState /\ "None" \in Stages /\ rx.told = rx.runs - 1
        /\ Len(rx.file) <= rx.size
    BY DEF RxCancel, RxSafe, RxSound, RxReady, Stages
  <1>2. /\ m \in RxState /\ m.stage = "None" /\ m.told = rx.told /\ m.runs = rx.runs
        /\ m.file = rx.file /\ m.size = rx.size
    BY <1>1, ResetRx
  <1>3. RxReport(toRx, n, "Abort", Cans, <<>>)
    BY DEF RxCancel
  <1> HIDE DEF m
  <1>4. n \in RxState
    BY <1>2, Zenon DEF RxState
  <1>5. /\ n.stage = "None" /\ ~n.open /\ n.told = rx.told /\ n.runs = rx.runs
        /\ n.file = rx.file /\ n.size = rx.size
    BY <1>2 DEF RxState
  <1>6. LinesOK /\ toRx \in Seq(Item) /\ "Abort" \in Final
    BY DEF RxSafe, LinesOK, Final
  <1> QED
    BY <1>1, <1>3, <1>4, <1>5, <1>6, Answers, CansLine, RxReportKeeps

LEMMA ReceiveKeeps ==
  ASSUME RxSafe, RxNext
  PROVE  RxKept
  <1>1. CASE RxTick
    BY <1>1, RxNoneKeeps, RxEstablishingKeeps, RxEstablishedKeeps, RxTransmittingKeeps,
       RxFinishingKeeps, RxFinishedKeeps DEF RxTick
  <1>2. CASE RxDrain
    BY <1>2, Answers DEF RxDrain, RxSafe, RxKept, LinesOK, RxSound, RxReady, Running
  <1> QED
    BY <1>1, <1>2, RxStartKeeps, RxCancelKeeps DEF RxNext
-----------------------------------------------------------------------------
(***************************************************************************)
(* On an unspoiled line                                                    *)
(***************************************************************************)
\* What a slot reads of a line that continues a, and what it has taken then.
FromLine(a, r) ==
  \/ r.pkt = Nothing /\ r.rest = toRx
  \/ toRx # <<>> /\ r.pkt = Head(toRx) /\ r.rest = Tail(toRx) /\ Follows(a, r.pkt)
Taken(a, r) == IF r.pkt = Nothing THEN a ELSE r.pkt

\* A receiving side in step with its line stays so, or ends the transfer: with
\* the whole file, when it says so.
RxEnded ==
  /\ rx'.status \in Final /\ rx'.file = rx.file
  /\ rx'.status = "Finish" => rx.file = File
RxWent(a) ==
  \E r : \E out \in Seq(Item) :
    /\ FromLine(a, r) /\ toRx' = r.rest /\ toTx' = toTx \o out
    /\ Running(rx') /\ RxAt(rx', Taken(a, r))
    /\ Taken(a, r) \notin Data => Answered(out)
RxSteps(a) == rx'.runs = rx.runs /\ (RxEnded \/ RxWent(a))

LEMMA ReadsInStep ==
  ASSUME NEW a, LinesOK, Continues(a, toRx), NEW r \in ReceivePacket(rx, toRx)
  PROVE  FromLine(a, r)
  <1>1. toRx # <<>> => Follows(a, Head(toRx))
    BY ContinuesTail DEF LinesOK
  <1> QED
    BY <1>1 DEF ReceivePacket, FromLine

LEMMA AnswersAnswered ==
  /\ Answered(<<>>) /\ Answered(<<Byte("C")>>) /\ Answered(<<Byte("NAK")>>)
  /\ Answered(<<Byte("ACK"), Byte("C")>>)
  BY DEF Answered, Byte

LEMMA RxWentOn ==
  ASSUME NEW a, NEW r, FromLine(a, r), NEW m \in RxState, NEW out \in Seq(Item),
         RxSlot(r, m, out), Running(m), m.runs = rx.runs, RxAt(m, Taken(a, r)),
         Taken(a, r) \notin Data => Answered(out)
  PROVE  RxSteps(a)
  <1>1. /\ rx'.stage = m.stage /\ rx'.status = m.status /\ rx'.blk = m.blk
        /\ rx'.size = m.size /\ rx'.file = m.file /\ rx'.runs = m.runs
    BY DEF RxSlot, RxState
  <1>2. RxAt(rx', Taken(a, r)) /\ Running(rx')
    BY <1>1 DEF RxAt, Running
  <1>3. RxWent(a)
    BY <1>2 DEF RxWent, RxSlot
  <1> QED
    BY <1>1, <1>3 DEF RxSteps

\* A slot that only counts.
LEMMA RxWaits ==
  ASSUME RxSafe, Running(rx), NEW a, NEW r, FromLine(a, r), RxAt(rx, Taken(a, r)),
         NEW out \in Seq(Item), Answered(out) \/ Taken(a, r) \in Data,
         RxSlot(r, Waited(rx), out) \/ RxSlot(r, Faulted(rx), out)
  PROVE  RxSteps(a)
  <1>1. Waited(rx) \in RxState /\ Faulted(rx) \in RxState
    BY RxCountingReady DEF RxSafe, RxReady
  <1>2. /\ Waited(rx).stage = rx.stage /\ Waited(rx).status = rx.status
        /\ Waited(rx).blk = rx.blk /\ Waited(rx).size = rx.size
        /\ Waited(rx).file = rx.file /\ Waited(rx).runs = rx.runs
    BY DEF RxSafe, RxSound, RxReady, Waited, RxState
  <1>3. /\ Faulted(rx).stage = rx.stage /\ Faulted(rx).status = rx.status
        /\ Faulted(rx).blk = rx.blk /\ Faulted(rx).size = rx.size
        /\ Faulted(rx).file = rx.file /\ Faulted(rx).runs = rx.runs
    BY DEF RxSafe, RxSound, RxReady, Faulted, RxState
  <1>4. RxAt(Waited(rx), Taken(a, r)) /\ RxAt(Faulted(rx), Taken(a, r))
    BY <1>2, <1>3 DEF RxAt
  <1>5. Running(Waited(rx)) /\ Running(Faulted(rx))
    BY <1>2, <1>3 DEF Running
  <1> QED
    BY <1>1, <1>2, <1>3, <1>4, <1>5, RxWentOn

LEMMA RxReportInStep ==
  ASSUME RxSafe, NEW a, NEW m \in RxState, NEW s \in Final, NEW in, NEW out, NEW after,
         m.file = rx.file, m.runs = rx.runs, s = "Finish" => rx.file = File,
         RxReport(in, m, s, out, after)
  PROVE  RxSteps(a)
  <1>1. rx'.status = s /\ rx'.file = m.file /\ rx'.runs = m.runs
    BY DEF RxReport, RxState
  <1> QED
    BY <1>1 DEF RxSteps, RxEnded

LEMMA RxOverInStep ==
  ASSUME RxSafe, NEW a, NEW r, NEW s \in Final, NEW out, NEW after,
         s = "Finish" => rx.file = File, RxOver(r, s, out, after)
  PROVE  RxSteps(a)
  <1> DEFINE m == Reset(rx, "None")
             n == [m EXCEPT !.open = FALSE, !.timer = FALSE]
  <1>1. m \in RxState /\ m.file = rx.file /\ m.runs = rx.runs
    BY ResetRx DEF RxSafe, RxSound, RxReady, Stages
  <1>2. RxReport(r.rest, n, s, out, after)
    BY DEF RxOver
  <1> HIDE DEF m
  <1>3. n \in RxState
    BY <1>1, Zenon DEF RxState
  <1>4. n.file = rx.file /\ n.runs = rx.runs
    BY <1>1 DEF RxState
  <1> HIDE DEF n
  <1> QED
    BY <1>2, <1>3, <1>4, RxReportInStep

LEMMA RxFails ==
  ASSUME RxSafe, NEW a, NEW r, RxError(r) \/ RxAbort(r) \/ RxTimeout(r) \/ RxRefuse(r)
  PROVE  RxSteps(a)
  <1> DEFINE m == Reset(rx, "None")
             k == [m EXCEPT !.timer = FALSE]
  <1>1. {"Error", "Abort", "Timeout"} \subseteq Final
    BY DEF Final
  <1>2. CASE RxError(r) \/ RxAbort(r)
    BY <1>1, <1>2, RxOverInStep DEF RxError, RxAbort
  <1>3. CASE RxTimeout(r) \/ RxRefuse(r)
    <2>1. m \in RxState /\ m.file = rx.file /\ m.runs = rx.runs
      BY ResetRx DEF RxSafe, RxSound, RxReady, Stages
    <2>2. RxReport(r.rest, k, "Timeout", Cans, <<>>) \/ RxReport(r.rest, k, "Error", <<>>, Cans)
      BY <1>3 DEF RxTimeout, RxRefuse
    <2> HIDE DEF m
    <2>3. k \in RxState
      BY <2>1, Zenon DEF RxState
    <2>4. k.file = rx.file /\ k.runs = rx.runs
      BY <2>1 DEF RxState
    <2> HIDE DEF k
    <2> QED
      BY <1>1, <2>2, <2>3, <2>4, RxReportInStep
  <1> QED
    BY <1>2, <1>3

LEMMA RxSilenceInStep ==
  ASSUME RxSafe, Running(rx), NEW a, NEW r, FromLine(a, r), RxAt(rx, Taken(a, r)),
         RxSilence(r, <<Byte("NAK")>>)
  PROVE  RxSteps(a)
  <1>1. CASE RxError(r)
    BY <1>1, RxFails
  <1>2. CASE RxSlot(r, Waited(rx), IF Due(Waited(rx)) THEN <<Byte("NAK")>> ELSE <<>>)
    BY <1>2, Answers, AnswersAnswered, RxWaits
  <1> QED
    BY <1>1, <1>2 DEF RxSilence

LEMMA RxCountedInStep ==
  ASSUME RxSafe, Running(rx), NEW a, NEW r, FromLine(a, r), RxAt(rx, Taken(a, r)),
         NEW out \in Seq(Item), Answered(out) \/ Taken(a, r) \in Data, RxCounted(r, out)
  PROVE  RxSteps(a)
  <1>1. CASE RxError(r)
    BY <1>1, RxFails
  <1>2. CASE RxSlot(r, Faulted(rx), out)
    BY <1>2, RxWaits
  <1> QED
    BY <1>1, <1>2 DEF RxCounted

LEMMA RxNoneInStep ==
  ASSUME RxSafe, Running(rx), ReceiveStageNone, NEW a, RxAt(rx, a)
  PROVE  RxSteps(a)
  <1> DEFINE r == [pkt |-> Nothing, rest |-> toRx]
             m == Reset(rx, "Establishing")
  <1>1. /\ m \in RxState /\ m.stage = "Establishing" /\ m.status = rx.status
        /\ m.file = rx.file /\ m.runs = rx.runs
    BY ResetRx DEF RxSafe, RxSound, RxReady, Stages
  <1>2. RxSlot(r, m, <<Byte("C")>>)
    BY DEF ReceiveStageNone, RxSlot
  <1>3. FromLine(a, r) /\ Taken(a, r) = a
    BY DEF FromLine, Taken
  <1> HIDE DEF m, r
  <1>4. RxAt(m, a) /\ Running(m)
    BY <1>1 DEF RxAt, ReceiveStageNone, Running
  <1> QED
    BY <1>1, <1>2, <1>3, <1>4, Answers, AnswersAnswered, RxWentOn

\* The header is taken: the file is empty, its size the one sent.
LEMMA RxOpenInStep ==
  ASSUME ~Spaced, RxSafe, Running(rx), NEW a, NEW r, FromLine(a, r), r.pkt = Header("file"),
         RxOpen(r)
  PROVE  RxSteps(a)
  <1> DEFINE d == Reset(rx, "Established")
             m == [d EXCEPT !.open = TRUE, !.size = FileSize, !.file = <<>>,
                            !.status = "Establish"]
  <1>1. CASE RxRefuse(r)
    BY <1>1, RxFails
  <1>2. CASE RxSlot(r, m, <<Byte("ACK"), Byte("C")>>)
    <2>1. d \in RxState /\ d.stage = "Established" /\ d.runs = rx.runs
      BY ResetRx DEF RxSafe, RxSound, RxReady, Stages
    <2> HIDE DEF d
    <2>2. m \in RxState
      <3>1. "Establish" \in Statuses /\ <<>> \in Seq(0..FileSize) /\ FileSize \in 0..SizeMax
        BY SizeAssumption DEF Statuses, SizeMax
      <3> QED
        BY <2>1, <3>1, Zenon DEF RxState
    <2>3. /\ m.stage = "Established" /\ m.runs = rx.runs /\ m.status = "Establish"
          /\ m.file = <<>> /\ m.size = FileSize
      BY <2>1 DEF RxState
    <2> HIDE DEF m
    <2>4. Taken(a, r) = Header("file")
      BY DEF Taken, Header, Nothing
    <2>5. RxAt(m, Taken(a, r)) /\ Running(m)
      BY <2>3, <2>4 DEF RxAt, Running
    <2> QED
      BY <1>2, <2>2, <2>3, <2>5, Answers, AnswersAnswered, RxWentOn
  <1>3. Sizes(r.pkt) = {FileSize} /\ r.pkt.body # "null"
    BY DEF Sizes, Header
  <1> QED
    BY <1>1, <1>2, <1>3 DEF RxOpen

LEMMA RxEstablishingInStep ==
  ASSUME ~Spaced, RxSafe, rx.timer, ReceiveStageEstablishing, NEW a, RxAt(rx, a),
         Continues(a, toRx)
  PROVE  RxSteps(a)
  <1>1. Running(rx) /\ a = Byte("C") /\ LinesOK
    BY DEF ReceiveStageEstablishing, RxSafe, RxSound, RxAt
  <1>2. PICK r \in ReceivePacket(rx, toRx) :
          \/ IsHeader(r.pkt) /\ RxOpen(r)
          \/ r.pkt.code = "SOH" /\ ~IsHeader(r.pkt)
          \/ RxAbort(r)
          \/ /\ r.pkt.code \notin {"SOH", "CAN"}
             /\ \/ RxTimeout(r)
                \/ RxSlot(r, Waited(rx), IF Due(Waited(rx)) THEN <<Byte("C")>> ELSE <<>>)
    BY DEF ReceiveStageEstablishing
  <1>3. FromLine(a, r)
    BY <1>1, ReadsInStep
  <1>4. r.pkt \in {Nothing, Byte("C"), Byte("CAN"), Header("file")}
    BY <1>1, <1>3, FollowsC DEF FromLine
  <1>5. CASE IsHeader(r.pkt) /\ RxOpen(r)
    <2>1. r.pkt = Header("file")
      BY <1>4, <1>5 DEF IsHeader, Nothing, Byte
    <2> QED
      BY <1>1, <1>3, <1>5, <2>1, RxOpenInStep
  <1>6. ~(r.pkt.code = "SOH" /\ ~IsHeader(r.pkt))
    BY <1>4 DEF Nothing, Byte, Header, IsHeader, IsBlock
  <1>7. CASE RxAbort(r) \/ RxTimeout(r)
    BY <1>7, RxFails
  <1>8. CASE /\ r.pkt.code \notin {"SOH", "CAN"}
             /\ RxSlot(r, Waited(rx), IF Due(Waited(rx)) THEN <<Byte("C")>> ELSE <<>>)
    <2>1. Taken(a, r) = a
      <3>1. r.pkt.code \notin {"SOH", "CAN"}
        BY <1>8
      <3>2. r.pkt \in {Nothing, Byte("C")}
        BY <1>4, <3>1 DEF Byte, Header
      <3> QED
        BY <1>1, <3>2 DEF Taken
    <2> QED
      BY <1>1, <1>3, <1>8, <2>1, Answers, AnswersAnswered, RxWaits
  <1> QED
    BY <1>2, <1>5, <1>6, <1>7, <1>8

\* A block is taken where the last one ended.
Written(pkt) ==
  [Reset(rx, "Transmitting") EXCEPT
     !.blk = pkt.blk, !.status = "Transmit",
     !.file = @ \o [i \in 1..Smaller(Length(pkt), rx.size - Len(rx.file)) |-> Unit(pkt, i)]]

LEMMA WrittenFields ==
  ASSUME RxSafe, NEW pkt \in Data, rx.size = FileSize, rx.file = Beginning(pkt.pos)
  PROVE  /\ Written(pkt) \in RxState
         /\ Written(pkt).stage = "Transmitting" /\ Written(pkt).runs = rx.runs
         /\ Written(pkt).status = "Transmit" /\ Written(pkt).blk = pkt.blk
         /\ Written(pkt).file = Beginning(After(pkt)) /\ Written(pkt).size = FileSize
  <1> DEFINE d == Reset(rx, "Transmitting")
             p == pkt.pos
             len == Smaller(Length(pkt), rx.size - Len(rx.file))
             add == [i \in 1..len |-> Unit(pkt, i)]
             m == [d EXCEPT !.blk = pkt.blk, !.status = "Transmit", !.file = @ \o add]
  <1>1. Written(pkt) = m
    BY DEF Written
  <1>2. /\ d \in RxState /\ d.stage = "Transmitting" /\ d.runs = rx.runs
        /\ d.file = rx.file /\ d.size = rx.size
    BY ResetRx DEF RxSafe, RxSound, RxReady, Stages
  <1>3. /\ pkt.blk \in Numbers /\ pkt.good /\ p \in 0..(FileSize - 1)
        /\ pkt.body = "data" /\ FileSize \in Nat
    BY DataFields, SizeAssumption
  <1>4. After(pkt) \in 1..FileSize /\ p < After(pkt)
    BY AfterData
  <1>5. Beginning(p) \in Seq(0..FileSize) /\ Len(Beginning(p)) = p
    BY <1>3 DEF Beginning
  <1>6. len = After(pkt) - p /\ len \in Nat
    <2>1. len = Smaller(Length(pkt), FileSize - p)
      BY <1>5
    <2>2. Length(pkt) \in Nat
      BY SizeAssumption DEF Length
    <2> QED
      BY <1>3, <1>4, <2>1, <2>2 DEF After, Smaller
  <1> HIDE DEF d, len, m
  <1>7. \A i \in 1..len : Unit(pkt, i) = p + i
    BY <1>3, <1>4, <1>6 DEF Unit
  <1>8. /\ add \in Seq(0..FileSize) /\ Len(add) = len
        /\ \A i \in 1..len : add[i] = p + i
    <2>1. \A i \in 1..len : p + i \in 0..FileSize
      BY <1>3, <1>4, <1>6
    <2>2. \A i \in 1..len : Unit(pkt, i) \in 0..FileSize
      BY <1>7, <2>1
    <2>3. len \in Nat
      BY <1>6
    <2>4. add \in Seq(0..FileSize) /\ Len(add) = len
      BY <2>2, <2>3
    <2> QED
      BY <1>7, <2>4
  <1> HIDE DEF add
  <1>9. rx.file \o add = Beginning(After(pkt)) /\ rx.file \o add \in Seq(0..FileSize)
    <2>1. p \in Nat /\ After(pkt) \in Nat /\ p <= After(pkt) /\ After(pkt) <= FileSize
      BY <1>3, <1>4
    <2> DEFINE q == After(pkt)
    <2>2. len = q - p /\ add \in Seq(0..FileSize) /\ Len(add) = q - p
      BY <1>6, <1>8
    <2>3. \A i \in 1..(q - p) : add[i] = p + i
      BY <1>8, <2>2
    <2> HIDE DEF p, q
    <2>4. Beginning(p) \o add = Beginning(q)
      BY <2>1, <2>2, <2>3, BeginningExtended DEF q
    <2>5. Beginning(p) \o add \in Seq(0..FileSize)
      BY <1>5, <1>8
    <2> QED
      BY <2>4, <2>5 DEF p, q
  <1>10. m \in RxState
    <2>1. "Transmit" \in Statuses
      BY DEF Statuses
    <2> QED
      BY <1>2, <1>3, <1>9, <2>1, Zenon DEF RxState, m
  <1>11. /\ m.stage = "Transmitting" /\ m.runs = rx.runs /\ m.status = "Transmit"
         /\ m.file = Beginning(After(pkt)) /\ m.size = FileSize /\ m.blk = pkt.blk
    BY <1>2, <1>9 DEF RxState, m
  <1> QED
    BY <1>1, <1>10, <1>11

LEMMA RxSaveInStep ==
  ASSUME RxSafe, Running(rx), NEW a, NEW r, FromLine(a, r), r.pkt \in Data,
         rx.size = FileSize, rx.file = Beginning(r.pkt.pos), RxSave(r, r.pkt.blk)
  PROVE  RxSteps(a)
  <1> DEFINE m == Written(r.pkt)
  <1>1. RxSlot(r, m, <<Byte("ACK")>>)
    BY DEF RxSave, Written
  <1>2. /\ m \in RxState /\ m.stage = "Transmitting" /\ m.runs = rx.runs
        /\ m.status = "Transmit" /\ m.file = Beginning(After(r.pkt))
        /\ m.size = FileSize /\ m.blk = r.pkt.blk
    BY WrittenFields
  <1>3. Taken(a, r) = r.pkt
    BY DataFields DEF Taken, Nothing
  <1> HIDE DEF m
  <1>4. RxAt(m, Taken(a, r)) /\ Running(m)
    BY <1>2, <1>3 DEF RxAt, Running
  <1> QED
    BY <1>1, <1>2, <1>3, <1>4, Answers, RxWentOn

\* EOT is taken when the file is whole.
LEMMA RxEotInStep ==
  ASSUME RxSafe, Running(rx), NEW a, NEW r, FromLine(a, r), r.pkt = Byte("EOT"),
         rx.file = File, NEW s \in {"Finishing", "Finished"}, NEW out \in Seq(Item),
         Answered(out), RxSlot(r, Reset(rx, s), out)
  PROVE  RxSteps(a)
  <1> DEFINE m == Reset(rx, s)
  <1>1. /\ m \in RxState /\ m.stage = s /\ m.status = rx.status
        /\ m.file = rx.file /\ m.runs = rx.runs
    BY ResetRx DEF RxSafe, RxSound, RxReady, Stages
  <1>2. Taken(a, r) = Byte("EOT")
    BY DEF Taken, Byte, Nothing
  <1>3. RxSlot(r, m, out)
    OBVIOUS
  <1> HIDE DEF m
  <1>4. RxAt(m, Taken(a, r)) /\ Running(m)
    BY <1>1, <1>2 DEF RxAt, Running, Ends
  <1> QED
    BY <1>1, <1>3, <1>4, RxWentOn

LEMMA RxEstablishedInStep ==
  ASSUME RxSafe, rx.timer, ReceiveStageEstablished, NEW a, RxAt(rx, a), Continues(a, toRx)
  PROVE  RxSteps(a)
  <1>1. /\ Running(rx) /\ LinesOK
        /\ a = Header("file") /\ rx.file = <<>> /\ rx.size = FileSize
    BY DEF ReceiveStageEstablished, RxSafe, RxSound, RxAt
  <1>2. PICK r \in ReceivePacket(rx, toRx) :
          \/ IsHeader(r.pkt) /\ RxCounted(r, <<Byte("ACK"), Byte("C")>>)
          \/ IsPacket(r.pkt) /\ IsBlock(r.pkt, 1) /\ RxSave(r, 1)
          \/ IsPacket(r.pkt) /\ ~IsHeader(r.pkt) /\ ~IsBlock(r.pkt, 1)
          \/ r.pkt.code = "EOT" /\ RxEot(r)
          \/ RxAbort(r)
          \/ /\ ~IsPacket(r.pkt) /\ r.pkt.code \notin {"EOT", "CAN"}
             /\ RxSilence(r, <<Byte("NAK")>>)
    BY DEF ReceiveStageEstablished
  <1>3. FromLine(a, r)
    BY <1>1, ReadsInStep
  <1>4. \/ r.pkt \in {Nothing, Header("file"), Byte("CAN")}
        \/ FileSize = 0 /\ r.pkt = Byte("EOT")
        \/ FileSize # 0 /\ r.pkt = Block(1, 0)
    BY <1>1, <1>3, FollowsHeader DEF FromLine
  <1>5. CASE IsHeader(r.pkt) /\ RxCounted(r, <<Byte("ACK"), Byte("C")>>)
    <2>1. r.pkt = Header("file")
      BY <1>4, <1>5 DEF IsHeader, IsBlock, Nothing, Byte, Block
    <2>2. Taken(a, r) = a
      BY <1>1, <2>1 DEF Taken
    <2> QED
      BY <1>1, <1>3, <1>5, <2>2, Answers, AnswersAnswered, RxCountedInStep
  <1>6. CASE IsPacket(r.pkt) /\ IsBlock(r.pkt, 1) /\ RxSave(r, 1)
    <2>1. FileSize # 0 /\ r.pkt = Block(1, 0)
      BY <1>4, <1>6 DEF IsPacket, IsBlock, Nothing, Byte, Header
    <2>2. r.pkt \in Data /\ r.pkt.blk = 1 /\ r.pkt.pos = 0
      BY <2>1, FirstBlock
    <2>3. rx.file = Beginning(r.pkt.pos)
      BY <1>1, <2>2 DEF Beginning
    <2> QED
      BY <1>1, <1>3, <1>6, <2>2, <2>3, RxSaveInStep
  <1>7. ~(IsPacket(r.pkt) /\ ~IsHeader(r.pkt) /\ ~IsBlock(r.pkt, 1))
    BY <1>4 DEF IsPacket, IsHeader, IsBlock, Nothing, Byte, Header, Block
  <1>8. CASE r.pkt.code = "EOT" /\ RxEot(r)
    <2>1. FileSize = 0 /\ r.pkt = Byte("EOT")
      BY <1>4, <1>8 DEF Nothing, Byte, Header, Block
    <2>2. rx.file = File
      BY <1>1, <2>1 DEF File
    <2> QED
      BY <1>1, <1>3, <1>8, <2>1, <2>2, Answers, AnswersAnswered, RxEotInStep DEF RxEot
  <1>9. CASE RxAbort(r)
    BY <1>9, RxFails
  <1>10. CASE /\ ~IsPacket(r.pkt) /\ r.pkt.code \notin {"EOT", "CAN"}
              /\ RxSilence(r, <<Byte("NAK")>>)
    <2>1. r.pkt = Nothing
      BY <1>4, <1>10 DEF IsPacket, Byte, Header, Block
    <2>2. Taken(a, r) = a
      BY <2>1 DEF Taken
    <2> QED
      BY <1>1, <1>3, <1>10, <2>2, RxSilenceInStep
  <1> QED
    BY <1>2, <1>5, <1>6, <1>7, <1>8, <1>9, <1>10

LEMMA RxTransmittingInStep ==
  ASSUME RxSafe, rx.timer, ReceiveStageTransmitting, NEW a, RxAt(rx, a), Continues(a, toRx)
  PROVE  RxSteps(a)
  <1> DEFINE next == Block(NextBlk(a.blk), After(a))
  <1>1. /\ Running(rx) /\ LinesOK
        /\ a \in Data /\ a.blk = rx.blk /\ rx.file = Beginning(After(a)) /\ rx.size = FileSize
    BY DEF ReceiveStageTransmitting, RxSafe, RxSound, RxAt
  <1>2. PICK r \in ReceivePacket(rx, toRx) :
          \/ IsPacket(r.pkt) /\ IsBlock(r.pkt, rx.blk) /\ RxCounted(r, <<Byte("ACK")>>)
          \/ IsPacket(r.pkt) /\ IsBlock(r.pkt, NextBlk(rx.blk)) /\ RxSave(r, NextBlk(rx.blk))
          \/ IsPacket(r.pkt) /\ ~IsBlock(r.pkt, rx.blk) /\ ~IsBlock(r.pkt, NextBlk(rx.blk))
          \/ r.pkt.code = "EOT" /\ RxEot(r)
          \/ RxAbort(r)
          \/ /\ ~IsPacket(r.pkt) /\ r.pkt.code \notin {"EOT", "CAN"}
             /\ RxSilence(r, <<Byte("NAK")>>)
    BY DEF ReceiveStageTransmitting
  <1>3. FromLine(a, r)
    BY <1>1, ReadsInStep
  <1>4. \/ r.pkt \in {Nothing, a, Byte("CAN")}
        \/ After(a) = FileSize /\ r.pkt = Byte("EOT")
        \/ r.pkt = next /\ next \in Data
    BY <1>1, <1>3, FollowsData DEF FromLine
  <1>5. /\ a.code \in {"SOH", "STX"} /\ a.good
        /\ next.code \in {"SOH", "STX"} /\ next.good
        /\ next.blk = NextBlk(a.blk) /\ next.pos = After(a)
        /\ NextBlk(a.blk) # a.blk
    BY <1>1, DataFields, NextBlkDiffers DEF Block
  <1> HIDE DEF next
  <1>6. CASE IsPacket(r.pkt) /\ IsBlock(r.pkt, rx.blk) /\ RxCounted(r, <<Byte("ACK")>>)
    <2>1. r.pkt = a
      BY <1>1, <1>4, <1>5, <1>6 DEF IsPacket, IsBlock, Nothing, Byte
    <2>2. Taken(a, r) = a
      BY <2>1 DEF Taken
    <2> QED
      BY <1>1, <1>3, <1>6, <2>2, Answers, RxCountedInStep
  <1>7. CASE IsPacket(r.pkt) /\ IsBlock(r.pkt, NextBlk(rx.blk)) /\ RxSave(r, NextBlk(rx.blk))
    <2>1. r.pkt = next /\ next \in Data
      BY <1>1, <1>4, <1>5, <1>7 DEF IsPacket, IsBlock, Nothing, Byte
    <2> QED
      BY <1>1, <1>3, <1>5, <1>7, <2>1, RxSaveInStep
  <1>8. ~(IsPacket(r.pkt) /\ ~IsBlock(r.pkt, rx.blk) /\ ~IsBlock(r.pkt, NextBlk(rx.blk)))
    BY <1>1, <1>4, <1>5 DEF IsPacket, IsBlock, Nothing, Byte
  <1>9. CASE r.pkt.code = "EOT" /\ RxEot(r)
    <2>1. After(a) = FileSize /\ r.pkt = Byte("EOT")
      BY <1>4, <1>5, <1>9 DEF Nothing, Byte
    <2>2. rx.file = File
      BY <1>1, <2>1 DEF File, Beginning
    <2> QED
      BY <1>1, <1>3, <1>9, <2>1, <2>2, Answers, AnswersAnswered, RxEotInStep DEF RxEot
  <1>10. CASE RxAbort(r)
    BY <1>10, RxFails
  <1>11. CASE /\ ~IsPacket(r.pkt) /\ r.pkt.code \notin {"EOT", "CAN"}
              /\ RxSilence(r, <<Byte("NAK")>>)
    <2>1. r.pkt = Nothing
      BY <1>4, <1>5, <1>11 DEF IsPacket, Byte
    <2>2. Taken(a, r) = a
      BY <2>1 DEF Taken
    <2> QED
      BY <1>1, <1>3, <1>11, <2>2, RxSilenceInStep
  <1> QED
    BY <1>2, <1>6, <1>7, <1>8, <1>9, <1>10, <1>11

\* In the last two stages the file is whole, and EOT and the null header change
\* nothing of it.
LEMMA RxTakesEnd ==
  ASSUME rx.stage \in {"Finishing", "Finished"}, NEW a, RxAt(rx, a), NEW r, FromLine(a, r),
         r.pkt.code # "CAN"
  PROVE  rx.file = File /\ r.pkt \in Ends \cup {Nothing} /\ RxAt(rx, Taken(a, r))
  <1>1. a \in Ends /\ rx.file = File
    BY DEF RxAt
  <1>2. r.pkt \in Ends \cup {Nothing}
    BY <1>1, FollowsEnd DEF FromLine, Byte
  <1>3. Taken(a, r) \in Ends
    BY <1>1, <1>2 DEF Taken
  <1> QED
    BY <1>1, <1>2, <1>3 DEF RxAt

LEMMA RxFinishingInStep ==
  ASSUME RxSafe, rx.timer, ReceiveStageFinishing, NEW a, RxAt(rx, a), Continues(a, toRx)
  PROVE  RxSteps(a)
  <1>1. Running(rx) /\ LinesOK /\ rx.stage = "Finishing"
    BY DEF ReceiveStageFinishing, RxSafe, RxSound
  <1>2. PICK r \in ReceivePacket(rx, toRx) :
          \/ r.pkt.code = "EOT" /\ RxSlot(r, Reset(rx, "Finished"), <<Byte("ACK"), Byte("C")>>)
          \/ RxAbort(r)
          \/ r.pkt.code # "CAN" /\ RxSilence(r, <<Byte("NAK")>>)
    BY DEF ReceiveStageFinishing
  <1>3. FromLine(a, r)
    BY <1>1, ReadsInStep
  <1>4. CASE r.pkt.code = "EOT" /\ RxSlot(r, Reset(rx, "Finished"), <<Byte("ACK"), Byte("C")>>)
    <2>1. rx.file = File /\ r.pkt = Byte("EOT")
      BY <1>1, <1>3, <1>4, RxTakesEnd DEF Ends, Nothing, Header
    <2> QED
      BY <1>1, <1>3, <1>4, <2>1, Answers, AnswersAnswered, RxEotInStep
  <1>5. CASE RxAbort(r)
    BY <1>5, RxFails
  <1>6. CASE r.pkt.code # "CAN" /\ RxSilence(r, <<Byte("NAK")>>)
    <2>1. RxAt(rx, Taken(a, r))
      BY <1>1, <1>3, <1>6, RxTakesEnd
    <2> QED
      BY <1>1, <1>3, <1>6, <2>1, RxSilenceInStep
  <1> QED
    BY <1>2, <1>4, <1>5, <1>6

LEMMA RxFinishedInStep ==
  ASSUME RxSafe, rx.timer, ReceiveStageFinished, NEW a, RxAt(rx, a), Continues(a, toRx)
  PROVE  RxSteps(a)
  <1>1. Running(rx) /\ LinesOK /\ rx.stage = "Finished"
    BY DEF ReceiveStageFinished, RxSafe, RxSound
  <1>2. PICK r \in ReceivePacket(rx, toRx) :
          \/ RxOver(r, "Finish", <<Byte("ACK")>>, <<Byte("ACK")>>)
          \/ r.pkt.code = "SOH" /\ ~IsHeader(r.pkt)
          \/ r.pkt.code = "EOT" /\ RxCounted(r, <<Byte("ACK"), Byte("C")>>)
          \/ RxAbort(r)
          \/ r.pkt.code # "CAN" /\ RxSilence(r, <<Byte("NAK")>>)
    BY DEF ReceiveStageFinished
  <1>3. FromLine(a, r)
    BY <1>1, ReadsInStep
  <1>4. CASE RxOver(r, "Finish", <<Byte("ACK")>>, <<Byte("ACK")>>)
    <2>1. rx.file = File /\ "Finish" \in Final
      BY <1>1 DEF RxAt, Final
    <2> QED
      BY <1>4, <2>1, RxOverInStep
  <1>5. ~(r.pkt.code = "SOH" /\ ~IsHeader(r.pkt))
    <2>1. ASSUME r.pkt.code = "SOH" PROVE r.pkt = Header("null")
      BY <1>1, <1>3, <2>1, RxTakesEnd DEF Ends, Nothing, Byte
    <2> QED
      BY <2>1 DEF IsHeader, IsBlock, Header
  <1>6. CASE r.pkt.code = "EOT" /\ RxCounted(r, <<Byte("ACK"), Byte("C")>>)
    <2>1. RxAt(rx, Taken(a, r))
      BY <1>1, <1>3, <1>6, RxTakesEnd
    <2> QED
      BY <1>1, <1>3, <1>6, <2>1, Answers, AnswersAnswered, RxCountedInStep
  <1>7. CASE RxAbort(r)
    BY <1>7, RxFails
  <1>8. CASE r.pkt.code # "CAN" /\ RxSilence(r, <<Byte("NAK")>>)
    <2>1. RxAt(rx, Taken(a, r))
      BY <1>1, <1>3, <1>8, RxTakesEnd
    <2> QED
      BY <1>1, <1>3, <1>8, <2>1, RxSilenceInStep
  <1> QED
    BY <1>2, <1>4, <1>5, <1>6, <1>7, <1>8

\* Every slot of a transfer that goes on.
LEMMA RxTickInStep ==
  ASSUME ~Spaced, RxSafe, Running(rx), RxTick, NEW a, RxAt(rx, a), Continues(a, toRx)
  PROVE  RxSteps(a)
  BY RxNoneInStep, RxEstablishingInStep, RxEstablishedInStep, RxTransmittingInStep,
     RxFinishingInStep, RxFinishedInStep DEF RxTick

\* A transfer that is cancelled.
LEMMA RxCancelInStep ==
  ASSUME RxSafe, RxCancel, NEW a
  PROVE  RxSteps(a)
  <1> DEFINE m == Reset(rx, "None")
             n == [m EXCEPT !.open = FALSE]
  <1>1. m \in RxState /\ m.file = rx.file /\ m.runs = rx.runs
    BY ResetRx DEF RxSafe, RxSound, RxReady, Stages
  <1>2. RxReport(toRx, n, "Abort", Cans, <<>>)
    BY DEF RxCancel
  <1> HIDE DEF m
  <1>3. n \in RxState
    BY <1>1, Zenon DEF RxState
  <1>4. n.file = rx.file /\ n.runs = rx.runs /\ "Abort" \in Final
    BY <1>1 DEF RxState, Final
  <1> HIDE DEF n
  <1> QED
    BY <1>2, <1>3, <1>4, RxReportInStep
-----------------------------------------------------------------------------
(***************************************************************************)
(* On a clean line: what one slot makes of the packet that came first      *)
(***************************************************************************)
FirstPacket == [pkt |-> Head(toRx), rest |-> Tail(toRx)]

\* The receiving side goes on in stage s with file f and has answered out.
RxGoes(s, f, out) ==
  RxUp' /\ rx'.stage = s /\ rx'.file = f /\ toRx' = Tail(toRx) /\ toTx' = toTx \o out

\* It has reported s, and answered after behind the report, which drops what the
\* slot had written before.
RxLeaves(s, after) ==
  /\ rx'.status = s /\ rx'.stage = "None" /\ ~rx'.timer /\ rx'.file = rx.file
  /\ toRx' = <<>> /\ toTx' = toTx \o after

LEMMA RxSlotGoes ==
  ASSUME NEW m \in RxState, Running(m), NEW out, RxSlot(FirstPacket, m, out)
  PROVE  /\ RxGoes(m.stage, m.file, out)
         /\ rx'.status = m.status /\ rx'.time = m.time /\ rx'.err = m.err
         /\ rx'.blk = m.blk /\ rx'.size = m.size
  BY DEF RxSlot, RxGoes, RxUp, RxState, Running, FirstPacket

LEMMA RxReportLeaves ==
  ASSUME OnTime, NEW m \in RxState, m.stage = "None", ~m.timer, m.file = rx.file,
         NEW in, NEW s, NEW out, NEW after, RxReport(in, m, s, out, after)
  PROVE  /\ rx'.status = s /\ rx'.stage = "None" /\ ~rx'.timer /\ rx'.file = rx.file
         /\ toRx' = <<>> /\ toTx' = toTx \o after
  <1>1. rx'.status = s /\ rx'.stage = "None" /\ ~rx'.timer /\ rx'.file = rx.file
    BY DEF RxReport, RxState
  <1>2. toRx' = <<>> /\ toTx' = toTx \o after
    <2>1. toRx' \in Uncleared(in)
      BY DEF RxReport
    <2>2. PICK sent \in Sent(toTx, out) : toTx' = sent \o after
      BY DEF RxReport
    <2>3. toRx' = <<>>
      BY <2>1, ClearsAll
    <2>4. Sent(toTx, out) = {toTx}
      BY DEF Sent
    <2> QED
      BY <2>2, <2>3, <2>4
  <1> QED
    BY <1>1, <1>2

LEMMA RxOverLeaves ==
  ASSUME OnTime, RxSafe, NEW r, NEW s, NEW out, NEW after, RxOver(r, s, out, after)
  PROVE  RxLeaves(s, after)
  <1> DEFINE d == Reset(rx, "None")
             m == [d EXCEPT !.open = FALSE, !.timer = FALSE]
  <1>1. d \in RxState /\ d.stage = "None" /\ d.file = rx.file
    BY ResetRx DEF RxSafe, RxSound, RxReady, Stages
  <1>2. RxReport(r.rest, m, s, out, after)
    BY DEF RxOver
  <1> HIDE DEF d
  <1>3. m \in RxState
    BY <1>1, Zenon DEF RxState
  <1>4. m.stage = "None" /\ ~m.timer /\ m.file = rx.file
    BY <1>1 DEF RxState
  <1> HIDE DEF m
  <1> QED
    BY <1>2, <1>3, <1>4, RxReportLeaves DEF RxLeaves

LEMMA RxUnopenedLeaves ==
  ASSUME OnTime, RxSafe, NEW r
  PROVE  /\ RxTimeout(r) => RxLeaves("Timeout", <<>>)
         /\ RxRefuse(r) => RxLeaves("Error", Cans)
  <1> DEFINE d == Reset(rx, "None")
             m == [d EXCEPT !.timer = FALSE]
  <1>1. d \in RxState /\ d.stage = "None" /\ d.file = rx.file
    BY ResetRx DEF RxSafe, RxSound, RxReady, Stages
  <1>2. /\ RxTimeout(r) => RxReport(r.rest, m, "Timeout", Cans, <<>>)
        /\ RxRefuse(r) => RxReport(r.rest, m, "Error", <<>>, Cans)
    BY DEF RxTimeout, RxRefuse
  <1> HIDE DEF d
  <1>3. m \in RxState
    BY <1>1, Zenon DEF RxState
  <1>4. m.stage = "None" /\ ~m.timer /\ m.file = rx.file
    BY <1>1 DEF RxState
  <1> HIDE DEF m
  <1>5. ASSUME RxReport(r.rest, m, "Timeout", Cans, <<>>) PROVE RxLeaves("Timeout", <<>>)
    BY <1>3, <1>4, <1>5, RxReportLeaves DEF RxLeaves
  <1>6. ASSUME RxReport(r.rest, m, "Error", <<>>, Cans) PROVE RxLeaves("Error", Cans)
    BY <1>3, <1>4, <1>6, RxReportLeaves DEF RxLeaves
  <1> QED
    BY <1>2, <1>5, <1>6

\* A slot goes where its stage says.
LEMMA RxTickStage ==
  ASSUME RxTick
  PROVE  /\ rx.stage = "None"         => ReceiveStageNone
         /\ rx.stage = "Establishing" => ReceiveStageEstablishing
         /\ rx.stage = "Established"  => ReceiveStageEstablished
         /\ rx.stage = "Transmitting" => ReceiveStageTransmitting
         /\ rx.stage = "Finishing"    => ReceiveStageFinishing
         /\ rx.stage = "Finished"     => ReceiveStageFinished
  BY DEF RxTick, ReceiveStageNone, ReceiveStageEstablishing, ReceiveStageEstablished,
     ReceiveStageTransmitting, ReceiveStageFinishing, ReceiveStageFinished

\* A stage that reads finds nothing to read while the other side is to move.
LEMMA RxWaitsItsTurn ==
  ASSUME OnTime, RxTick, toRx = <<>>, toTx # <<>>
  PROVE  rx.stage = "None"
  <1>1. ReceivePacket(rx, toRx) = {}
    BY DEF ReceivePacket, Quiet, OnTime
  <1> QED
    BY <1>1 DEF RxTick, ReceiveStageNone, ReceiveStageEstablishing, ReceiveStageEstablished,
       ReceiveStageTransmitting, ReceiveStageFinishing, ReceiveStageFinished

\* What a slot reads of a line that begins with item.
LEMMA ReadsPacket ==
  ASSUME OnTime, NEW item, Begins(toRx, item)
  PROVE  \A r \in ReceivePacket(rx, toRx) : r = FirstPacket /\ r.pkt = item
  BY ReadsFirst, BeginsHead DEF FirstPacket, Begins

LEMMA RxNoneGoes ==
  ASSUME RxSafe, RxTick, rx.stage = "None"
  PROVE  /\ rx'.stage = "Establishing" /\ rx'.status = rx.status /\ rx'.timer = Running(rx)
         /\ rx'.file = rx.file /\ rx'.time = 0
         /\ toRx' = toRx /\ toTx' = toTx \o <<Call>>
  <1> DEFINE m == Reset(rx, "Establishing")
  <1>1. /\ m \in RxState /\ m.stage = "Establishing" /\ m.status = rx.status
        /\ m.file = rx.file /\ m.time = 0
    BY ResetRx DEF RxSafe, RxSound, RxReady, Stages
  <1>2. RxSlot([rest |-> toRx], m, <<Call>>)
    BY RxTickStage DEF ReceiveStageNone, Call
  <1> HIDE DEF m
  <1>3. /\ rx'.stage = m.stage /\ rx'.status = m.status /\ rx'.timer = Running(m)
        /\ rx'.file = m.file /\ rx'.time = m.time
        /\ toRx' = toRx /\ toTx' = toTx \o <<Call>>
    BY <1>1, <1>2 DEF RxSlot, RxState
  <1> QED
    BY <1>1, <1>3 DEF Running

\* A slot that waits in the stage Establishing, and may call again.
LEMMA EstablishingCounts ==
  ASSUME RxSafe, RxTick, rx.stage = "Establishing", NEW r,
         RxSlot(r, Waited(rx), IF Due(Waited(rx)) THEN <<Byte("C")>> ELSE <<>>)
  PROVE  /\ RxUp' /\ rx'.stage = "Establishing" /\ rx'.status = rx.status
         /\ rx'.file = rx.file /\ toRx' = r.rest
         /\ toTx' \in {toTx, toTx \o <<Call>>}
         /\ (TimeDivide # 0 /\ rx.time = 0) => toTx' = toTx
  <1>1. /\ Waited(rx) \in RxState /\ Waited(rx).stage = "Establishing"
        /\ Waited(rx).status = rx.status /\ Waited(rx).file = rx.file
        /\ Waited(rx).time = rx.time + 1
    BY DEF RxSafe, RxSound, RxReady, Waited, RxState
  <1>2. Running(Waited(rx))
    BY <1>1 DEF Running, RxTick, RxSafe, RxSound
  <1>3. /\ rx'.stage = Waited(rx).stage /\ rx'.status = Waited(rx).status /\ rx'.timer
        /\ rx'.file = Waited(rx).file /\ toRx' = r.rest
        /\ toTx' = toTx \o (IF Due(Waited(rx)) THEN <<Call>> ELSE <<>>)
    BY <1>1, <1>2 DEF RxSlot, RxState, Call
  <1>4. toTx \o <<>> = toTx
    BY DEF RxSafe, LinesOK
  <1>5. toTx' \in {toTx, toTx \o <<Call>>}
    BY <1>3, <1>4
  <1>6. (TimeDivide # 0 /\ rx.time = 0) => ~Due(Waited(rx))
    BY <1>1, FirstWait
  <1>7. (TimeDivide # 0 /\ rx.time = 0) => toTx' = toTx
    BY <1>3, <1>4, <1>6
  <1>8. RxUp'
    BY <1>1, <1>2, <1>3 DEF RxUp, Running
  <1> QED
    BY <1>1, <1>3, <1>5, <1>7, <1>8

LEMMA RxEstablishingWaits ==
  ASSUME OnTime, RxSafe, RxTick, rx.stage = "Establishing", toRx = <<>>
  PROVE  \/ RxLeaves("Timeout", <<>>)
         \/ /\ RxUp' /\ rx'.stage = "Establishing" /\ rx'.status = rx.status
            /\ rx'.file = rx.file /\ toRx' = <<>> /\ toTx' \in {toTx, toTx \o <<Call>>}
  <1>1. PICK r \in ReceivePacket(rx, toRx) :
          \/ IsHeader(r.pkt) \/ r.pkt.code \in {"SOH", "CAN"}
          \/ RxTimeout(r)
          \/ RxSlot(r, Waited(rx), IF Due(Waited(rx)) THEN <<Byte("C")>> ELSE <<>>)
    BY RxTickStage DEF ReceiveStageEstablishing
  <1>2. r.pkt = Nothing /\ r.rest = <<>>
    BY DEF ReceivePacket
  <1>3. RxTimeout(r) \/ RxSlot(r, Waited(rx), IF Due(Waited(rx)) THEN <<Byte("C")>> ELSE <<>>)
    BY <1>1, <1>2 DEF Nothing, IsHeader
  <1> QED
    BY <1>2, <1>3, RxUnopenedLeaves, EstablishingCounts

LEMMA RxEstablishingOnCall ==
  ASSUME OnTime, TimeDivide # 0, RxSafe, RxTick, rx.stage = "Establishing",
         Begins(toRx, Call)
  PROVE  \/ rx.time # 0 /\ RxLeaves("Timeout", <<>>)
         \/ /\ RxUp' /\ rx'.stage = "Establishing" /\ rx'.status = rx.status
            /\ rx'.file = rx.file /\ toRx' = Tail(toRx)
            /\ toTx' \in {toTx, toTx \o <<Call>>}
            /\ rx.time = 0 => toTx' = toTx
  <1>1. Call.code = "C"
    BY DEF Call, Byte
  <1>2. \/ Expired(Waited(rx)) /\ RxTimeout(FirstPacket)
        \/ RxSlot(FirstPacket, Waited(rx),
                  IF Due(Waited(rx)) THEN <<Byte("C")>> ELSE <<>>)
    BY <1>1, RxTickStage, ReadsPacket DEF ReceiveStageEstablishing, IsHeader
  <1>3. rx.time = 0 => ~Expired(Waited(rx))
    <2>1. Waited(rx).time = rx.time + 1
      BY DEF RxSafe, RxSound, RxReady, Waited, RxState
    <2> QED
      BY <2>1, FirstWait
  <1> QED
    BY <1>2, <1>3, RxUnopenedLeaves, EstablishingCounts DEF FirstPacket

LEMMA RxEstablishingOnHeader ==
  ASSUME OnTime, ~Spaced, RxSafe, RxTick, rx.stage = "Establishing",
         Begins(toRx, Header("file"))
  PROVE  \/ RxLeaves("Error", Cans)
         \/ RxGoes("Established", <<>>, <<Ack, Call>>) /\ rx'.size = FileSize
  <1> DEFINE d == Reset(rx, "Established")
             m == [d EXCEPT !.open = TRUE, !.size = FileSize, !.file = <<>>,
                            !.status = "Establish"]
  <1>0. Sizes(Header("file")) = {FileSize}
    BY DEF Sizes, Header
  <1>1. RxOpen(FirstPacket)
    BY RxTickStage, ReadsPacket DEF ReceiveStageEstablishing, Header, IsHeader, IsBlock
  <1>2. RxRefuse(FirstPacket) \/ RxSlot(FirstPacket, m, <<Ack, Call>>)
    BY <1>0, <1>1, BeginsHead DEF RxOpen, FirstPacket, Ack, Call
  <1>3. CASE RxSlot(FirstPacket, m, <<Ack, Call>>)
    <2>1. d \in RxState /\ d.stage = "Established"
      BY ResetRx DEF RxSafe, RxSound, RxReady, Stages
    <2> HIDE DEF d
    <2>2. m \in RxState
      <3>1. "Establish" \in Statuses /\ <<>> \in Seq(0..FileSize) /\ FileSize \in 0..SizeMax
        BY SizeAssumption DEF Statuses, SizeMax
      <3> QED
        BY <2>1, <3>1, Zenon DEF RxState
    <2>3. /\ m.stage = "Established" /\ m.status = "Establish"
          /\ m.file = <<>> /\ m.size = FileSize
      BY <2>1 DEF RxState
    <2> HIDE DEF m
    <2>4. Running(m)
      BY <2>3 DEF Running
    <2> QED
      BY <1>3, <2>2, <2>3, <2>4, RxSlotGoes
  <1> QED
    BY <1>2, <1>3, RxUnopenedLeaves

LEMMA RxOnCan ==
  ASSUME OnTime, RxSafe, RxTick, Begins(toRx, Can),
         rx.stage \in {"Establishing", "Established", "Finishing"}
  PROVE  RxLeaves("Abort", <<>>)
  <1>1. RxAbort(FirstPacket)
    <2>1. \A r \in ReceivePacket(rx, toRx) : r = FirstPacket /\ r.pkt.code = "CAN" /\ ~IsHeader(r.pkt)
      BY ReadsPacket DEF Can, Byte, IsHeader
    <2> QED
      BY <2>1, RxTickStage DEF ReceiveStageEstablishing, ReceiveStageEstablished,
         ReceiveStageFinishing, IsPacket
  <1> QED
    BY <1>1, RxOverLeaves DEF RxAbort

\* The block that continues the file is written and acknowledged.
LEMMA RxTakesBlock ==
  ASSUME OnTime, RxSafe, RxTick, NEW b \in Data, Begins(toRx, b),
         \/ rx.stage = "Established" /\ b.blk = 1
         \/ rx.stage = "Transmitting" /\ b.blk = NextBlk(rx.blk),
         rx.size = FileSize, rx.file = Beginning(b.pos)
  PROVE  /\ RxGoes("Transmitting", Beginning(After(b)), <<Ack>>)
         /\ rx'.blk = b.blk /\ rx'.size = FileSize
  <1> DEFINE m == Written(b)
  <1>1. b.good /\ b.code \in {"SOH", "STX"} /\ b.blk \in Numbers
    BY DataFields
  <1>2. FirstPacket.pkt = b
    BY BeginsHead DEF FirstPacket
  <1>3. RxSave(FirstPacket, b.blk)
    <2>1. CASE rx.stage = "Established" /\ b.blk = 1
      BY <1>1, <2>1, ReadsPacket, RxTickStage
         DEF ReceiveStageEstablished, IsPacket, IsHeader, IsBlock
    <2>2. CASE rx.stage = "Transmitting" /\ b.blk = NextBlk(rx.blk)
      <3>1. rx.blk # NextBlk(rx.blk)
        BY NextBlkDiffers DEF RxSafe, RxSound, RxReady, RxState
      <3> QED
        BY <1>1, <2>2, <3>1, ReadsPacket, RxTickStage
           DEF ReceiveStageTransmitting, IsPacket, IsBlock
    <2> QED
      BY <2>1, <2>2
  <1>4. RxSlot(FirstPacket, m, <<Ack>>)
    BY <1>2, <1>3 DEF RxSave, Written, Ack
  <1>5. /\ m \in RxState /\ m.stage = "Transmitting" /\ m.status = "Transmit"
        /\ m.blk = b.blk /\ m.file = Beginning(After(b)) /\ m.size = FileSize
    BY WrittenFields
  <1> HIDE DEF m
  <1>6. Running(m)
    BY <1>5 DEF Running
  <1> QED
    BY <1>4, <1>5, <1>6, RxSlotGoes

\* A slot that starts a stage over and answers.
LEMMA RxResetGoes ==
  ASSUME RxSafe, RxTick, rx.stage # "None", NEW s \in Stages, NEW out,
         RxSlot(FirstPacket, Reset(rx, s), out)
  PROVE  RxGoes(s, rx.file, out) /\ rx'.err = 0
  <1> DEFINE m == Reset(rx, s)
  <1>1. m \in RxState /\ m.stage = s /\ m.status = rx.status /\ m.file = rx.file /\ m.err = 0
    BY ResetRx DEF RxSafe, RxSound, RxReady
  <1>2. RxSlot(FirstPacket, m, out)
    OBVIOUS
  <1> HIDE DEF m
  <1>3. Running(m)
    BY <1>1 DEF Running, RxTick, RxSafe, RxSound
  <1> QED
    BY <1>1, <1>2, <1>3, RxSlotGoes

LEMMA RxOnEot ==
  ASSUME OnTime, RxSafe, RxTick, rx.stage \in {"Established", "Transmitting"}, Begins(toRx, Eot)
  PROVE  RxGoes("Finishing", rx.file, <<Nak>>)
  <1>1. \A r \in ReceivePacket(rx, toRx) :
          r = FirstPacket /\ r.pkt.code = "EOT" /\ ~IsHeader(r.pkt) /\ ~IsPacket(r.pkt)
    BY ReadsPacket DEF Eot, Byte, IsHeader, IsPacket
  <1>2. RxEot(FirstPacket)
    BY <1>1, RxTickStage DEF ReceiveStageEstablished, ReceiveStageTransmitting
  <1>3. "Finishing" \in Stages
    BY DEF Stages
  <1> QED
    BY <1>2, <1>3, RxResetGoes DEF RxEot, Nak

LEMMA RxFinishingOnEot ==
  ASSUME OnTime, RxSafe, RxTick, rx.stage = "Finishing", Begins(toRx, Eot)
  PROVE  RxGoes("Finished", rx.file, <<Ack, Call>>) /\ rx'.err = 0
  <1>1. RxSlot(FirstPacket, Reset(rx, "Finished"), <<Ack, Call>>)
    BY ReadsPacket, RxTickStage DEF ReceiveStageFinishing, Eot, Byte, Ack, Call
  <1>2. "Finished" \in Stages
    BY DEF Stages
  <1> QED
    BY <1>1, <1>2, RxResetGoes

\* An EOT too many is answered as the second one was.
LEMMA RxFinishedOnEot ==
  ASSUME OnTime, RxSafe, RxTick, rx.stage = "Finished", Begins(toRx, Eot),
         rx.err = 0, ErrorMax # 0
  PROVE  RxGoes("Finished", rx.file, <<Ack, Call>>)
  <1>1. RxCounted(FirstPacket, <<Ack, Call>>)
    <2>1. \A r \in ReceivePacket(rx, toRx) : r = FirstPacket /\ r.pkt.code = "EOT" /\ ~IsHeader(r.pkt)
      BY ReadsPacket DEF Eot, Byte, IsHeader
    <2> QED
      BY <2>1, RxTickStage DEF ReceiveStageFinished, Ack, Call
  <1>2. /\ Faulted(rx) \in RxState /\ Faulted(rx).stage = "Finished"
        /\ Faulted(rx).status = rx.status /\ Faulted(rx).file = rx.file /\ Faulted(rx).err = 1
    BY DEF RxSafe, RxSound, RxReady, Faulted, RxState
  <1>3. ~TooMany(Faulted(rx))
    BY <1>2, TimeAssumption DEF TooMany
  <1>4. RxSlot(FirstPacket, Faulted(rx), <<Ack, Call>>)
    BY <1>1, <1>3 DEF RxCounted
  <1>5. Running(Faulted(rx))
    BY <1>2 DEF Running, RxTick, RxSafe, RxSound
  <1> QED
    BY <1>2, <1>4, <1>5, RxSlotGoes

LEMMA RxFinishedOnNull ==
  ASSUME OnTime, RxSafe, RxTick, rx.stage = "Finished", Begins(toRx, Header("null"))
  PROVE  RxLeaves("Finish", <<Ack>>)
  <1>1. RxOver(FirstPacket, "Finish", <<Ack>>, <<Ack>>)
    BY ReadsPacket, RxTickStage DEF ReceiveStageFinished, Header, IsHeader, IsBlock, Ack, Byte
  <1> QED
    BY <1>1, RxOverLeaves
-----------------------------------------------------------------------------
(***************************************************************************)
(* Whatever the line does: a block is written at its place                 *)
(***************************************************************************)
\* A receiving side at work on a line whose blocks carry what their numbers say.
RxInPlace ==
  /\ RxSafe /\ Running(rx) /\ RxPlaced(rx) /\ FileBegun
  /\ \A pkt \in Range(toRx) : Placed(pkt)

\* An answer: an ACK alone is that to a block.
RxReplies ==
  \E out \in Seq(Item) :
    /\ toTx' = toTx \o out
    /\ rx'.stage = "Transmitting" \/ Answered(out)

RxPuts ==
  /\ rx'.runs = rx.runs /\ FileBegun' /\ Range(toRx') \subseteq Range(toRx)
  /\ \/ rx'.status \in Final
     \/ /\ Running(rx') /\ RxPlaced(rx') /\ RxReplies
        /\ rx'.stage = "Transmitting" =>
             rx.stage = "Transmitting" \/ \E pkt \in Range(toRx) : pkt.body = "data"

\* What a slot leaves of the line.
LeavesLine(r) == Range(r.rest) \subseteq Range(toRx)

LEMMA RxReadsPlaced ==
  ASSUME RxInPlace, NEW r \in ReceivePacket(rx, toRx)
  PROVE  /\ LeavesLine(r) /\ r.rest \in Seq(Item)
         /\ r.pkt = Nothing \/ (r.pkt \in Range(toRx) /\ Placed(r.pkt))
  <1>1. toRx \in Seq(Item)
    BY DEF RxInPlace, RxSafe, LinesOK
  <1>2. /\ Range(r.rest) \subseteq Range(toRx)
        /\ r.pkt = Nothing \/ r.pkt \in Range(toRx)
    BY <1>1, RangeOfRest
  <1> QED
    BY <1>1, <1>2, ReadLine DEF RxInPlace, LeavesLine

LEMMA RxPutOn ==
  ASSUME NEW r, LeavesLine(r), NEW m \in RxState, NEW out \in Seq(Item), RxSlot(r, m, out),
         Running(m), m.runs = rx.runs, RxPlaced(m),
         \E n \in 0..FileSize : m.file = Beginning(n),
         m.stage = "Transmitting" \/ Answered(out),
         m.stage = "Transmitting" =>
           rx.stage = "Transmitting" \/ \E pkt \in Range(toRx) : pkt.body = "data"
  PROVE  RxPuts
  <1>1. /\ rx'.stage = m.stage /\ rx'.status = m.status /\ rx'.blk = m.blk
        /\ rx'.size = m.size /\ rx'.file = m.file /\ rx'.runs = m.runs
    BY DEF RxSlot, RxState
  <1>2. toRx' = r.rest /\ toTx' = toTx \o out
    BY DEF RxSlot
  <1>3. Running(rx') /\ RxPlaced(rx') /\ FileBegun'
    BY <1>1 DEF Running, RxPlaced, FileBegun
  <1>4. RxReplies
    BY <1>1, <1>2 DEF RxReplies
  <1> QED
    BY <1>1, <1>2, <1>3, <1>4 DEF RxPuts, LeavesLine

\* A slot that counts, and may answer.
LEMMA RxPutsAgain ==
  ASSUME RxInPlace, NEW r, LeavesLine(r), NEW m \in {Waited(rx), Faulted(rx)},
         NEW out \in Seq(Item), rx.stage = "Transmitting" \/ Answered(out), RxSlot(r, m, out)
  PROVE  RxPuts
  <1>1. m \in RxState
    BY RxCountingReady DEF RxInPlace, RxSafe, RxReady
  <1>2. /\ m.stage = rx.stage /\ m.status = rx.status /\ m.blk = rx.blk
        /\ m.size = rx.size /\ m.file = rx.file /\ m.runs = rx.runs
    BY DEF RxInPlace, RxSafe, RxSound, RxReady, Waited, Faulted, RxState
  <1>3. Running(m) /\ RxPlaced(m) /\ \E n \in 0..FileSize : m.file = Beginning(n)
    BY <1>2 DEF Running, RxPlaced, RxInPlace, FileBegun
  <1> QED
    BY <1>1, <1>2, <1>3, RxPutOn

LEMMA RxPutsReport ==
  ASSUME RxInPlace, NEW m \in RxState, m.file = rx.file, m.runs = rx.runs,
         NEW in \in Seq(Item), Range(in) \subseteq Range(toRx), NEW s \in Final, NEW out,
         NEW after, RxReport(in, m, s, out, after)
  PROVE  RxPuts
  <1>1. rx'.status = s /\ rx'.file = m.file /\ rx'.runs = m.runs
    BY DEF RxReport, RxState
  <1>2. Range(toRx') \subseteq Range(toRx)
    BY RangeOfCleared DEF RxReport
  <1>3. FileBegun'
    BY <1>1 DEF RxInPlace, FileBegun
  <1> QED
    BY <1>1, <1>2, <1>3 DEF RxPuts

LEMMA RxPutsEnd ==
  ASSUME RxInPlace, NEW r, LeavesLine(r), r.rest \in Seq(Item), NEW out, NEW after,
         \/ RxError(r) \/ RxAbort(r) \/ RxTimeout(r) \/ RxRefuse(r)
         \/ RxOver(r, "Finish", out, after)
  PROVE  RxPuts
  <1> DEFINE m == Reset(rx, "None")
             n == [m EXCEPT !.open = FALSE, !.timer = FALSE]
             k == [m EXCEPT !.timer = FALSE]
  <1>1. {"Error", "Abort", "Timeout", "Finish"} \subseteq Final
    BY DEF Final
  <1>2. m \in RxState /\ m.file = rx.file /\ m.runs = rx.runs
    BY ResetRx DEF RxInPlace, RxSafe, RxSound, RxReady, Stages
  <1>3. \/ RxReport(r.rest, n, "Error", Cans, <<>>)
        \/ RxReport(r.rest, n, "Abort", <<>>, <<>>)
        \/ RxReport(r.rest, n, "Finish", out, after)
        \/ RxReport(r.rest, k, "Timeout", Cans, <<>>)
        \/ RxReport(r.rest, k, "Error", <<>>, Cans)
    BY DEF RxError, RxAbort, RxOver, RxTimeout, RxRefuse
  <1> HIDE DEF m
  <1>4. n \in RxState /\ k \in RxState
    BY <1>2, Zenon DEF RxState
  <1>5. n.file = rx.file /\ n.runs = rx.runs /\ k.file = rx.file /\ k.runs = rx.runs
    BY <1>2 DEF RxState
  <1> HIDE DEF n, k
  <1> QED
    BY <1>1, <1>3, <1>4, <1>5, RxPutsReport DEF LeavesLine

LEMMA RxPutsAnswer ==
  ASSUME RxInPlace, NEW r, LeavesLine(r), r.rest \in Seq(Item), NEW out \in Seq(Item),
         rx.stage = "Transmitting" \/ Answered(out), RxSilence(r, out) \/ RxCounted(r, out)
  PROVE  RxPuts
  <1>1. CASE RxError(r)
    BY <1>1, RxPutsEnd
  <1>2. CASE RxSlot(r, Faulted(rx), out)
    BY <1>2, RxPutsAgain
  <1>3. CASE RxSlot(r, Waited(rx), IF Due(Waited(rx)) THEN out ELSE <<>>)
    BY <1>3, RxPutsAgain, Answers, AnswersAnswered
  <1> QED
    BY <1>1, <1>2, <1>3 DEF RxSilence, RxCounted

\* The file stays as it is in another stage.
LEMMA RxPutsMove ==
  ASSUME RxInPlace, NEW r, LeavesLine(r), NEW out \in Seq(Item), Answered(out),
         NEW s \in {"Establishing", "Finishing", "Finished"},
         s = "Establishing" => rx.stage = "None", RxSlot(r, Reset(rx, s), out)
  PROVE  RxPuts
  <1> DEFINE m == Reset(rx, s)
  <1>1. /\ m \in RxState /\ m.stage = s /\ m.status = rx.status
        /\ m.file = rx.file /\ m.runs = rx.runs
    BY ResetRx DEF RxInPlace, RxSafe, RxSound, RxReady, Stages
  <1>2. RxSlot(r, m, out)
    OBVIOUS
  <1> HIDE DEF m
  <1>3. Running(m) /\ RxPlaced(m) /\ \E n \in 0..FileSize : m.file = Beginning(n)
    BY <1>1 DEF Running, RxPlaced, RxInPlace, FileBegun
  <1> QED
    BY <1>1, <1>2, <1>3, RxPutOn
-----------------------------------------------------------------------------
LEMMA RxNonePuts ==
  ASSUME RxInPlace, ReceiveStageNone
  PROVE  RxPuts
  <1> DEFINE r == [rest |-> toRx]
  <1>1. RxSlot(r, Reset(rx, "Establishing"), <<Byte("C")>>) /\ rx.stage = "None" /\ r.rest = toRx
    BY DEF ReceiveStageNone
  <1> HIDE DEF r
  <1>2. LeavesLine(r)
    BY <1>1 DEF LeavesLine
  <1> QED
    BY <1>1, <1>2, Answers, AnswersAnswered, RxPutsMove

LEMMA RxOpenPuts ==
  ASSUME ~Spaced, RxInPlace, NEW r, LeavesLine(r), r.rest \in Seq(Item),
         r.pkt \in {Header("file"), Header("null")}, RxOpen(r)
  PROVE  RxPuts
  <1> DEFINE d == Reset(rx, "Established")
             m == [d EXCEPT !.open = TRUE, !.size = FileSize, !.file = <<>>,
                            !.status = "Establish"]
  <1>1. CASE RxRefuse(r)
    BY <1>1, RxPutsEnd
  <1>2. CASE RxSlot(r, m, <<Byte("ACK"), Byte("C")>>)
    <2>1. d \in RxState /\ d.stage = "Established" /\ d.runs = rx.runs
      BY ResetRx DEF RxInPlace, RxSafe, RxSound, RxReady, Stages
    <2> HIDE DEF d
    <2>2. m \in RxState
      <3>1. "Establish" \in Statuses /\ <<>> \in Seq(0..FileSize) /\ FileSize \in 0..SizeMax
        BY SizeAssumption DEF Statuses, SizeMax
      <3> QED
        BY <2>1, <3>1, Zenon DEF RxState
    <2>3. /\ m.stage = "Established" /\ m.runs = rx.runs /\ m.status = "Establish"
          /\ m.file = <<>> /\ m.size = FileSize
      BY <2>1 DEF RxState
    <2> HIDE DEF m
    <2>4. RxPlaced(m) /\ Running(m)
      BY <2>3 DEF RxPlaced, Running
    <2>5. \E n \in 0..FileSize : m.file = Beginning(n)
      BY <2>3, SizeAssumption DEF Beginning
    <2> QED
      BY <1>2, <2>2, <2>3, <2>4, <2>5, Answers, AnswersAnswered, RxPutOn
  <1>3. r.pkt.body # "null" => Sizes(r.pkt) = {FileSize}
    BY DEF Sizes, Header
  <1> QED
    BY <1>1, <1>2, <1>3 DEF RxOpen

LEMMA RxEstablishingPuts ==
  ASSUME ~Spaced, RxInPlace, ReceiveStageEstablishing
  PROVE  RxPuts
  <1>1. PICK r \in ReceivePacket(rx, toRx) :
          \/ IsHeader(r.pkt) /\ RxOpen(r)
          \/ RxCounted(r, <<Byte("C")>>)
          \/ RxAbort(r)
          \/ RxTimeout(r)
          \/ RxSlot(r, Waited(rx), IF Due(Waited(rx)) THEN <<Byte("C")>> ELSE <<>>)
    BY DEF ReceiveStageEstablishing
  <1>2. LeavesLine(r) /\ r.rest \in Seq(Item) /\ (r.pkt = Nothing \/ Placed(r.pkt))
    BY RxReadsPlaced
  <1>3. CASE IsHeader(r.pkt) /\ RxOpen(r)
    <2>1. r.pkt # Nothing
      BY <1>3 DEF IsHeader, Nothing
    <2> QED
      BY <1>2, <1>3, <2>1, PlacedHeader, RxOpenPuts
  <1>4. CASE RxCounted(r, <<Byte("C")>>)
    BY <1>2, <1>4, Answers, AnswersAnswered, RxPutsAnswer
  <1>5. CASE RxAbort(r) \/ RxTimeout(r)
    BY <1>2, <1>5, RxPutsEnd
  <1>6. CASE RxSlot(r, Waited(rx), IF Due(Waited(rx)) THEN <<Byte("C")>> ELSE <<>>)
    BY <1>2, <1>6, Answers, AnswersAnswered, RxPutsAgain
  <1> QED
    BY <1>1, <1>3, <1>4, <1>5, <1>6

\* Once the file is whole nothing more is written to it.
LEMMA WholeStays ==
  ASSUME RxSafe, rx.file = File, rx.size = FileSize, NEW pkt, pkt.blk \in Numbers
  PROVE  /\ Written(pkt) \in RxState
         /\ Written(pkt).stage = "Transmitting" /\ Written(pkt).runs = rx.runs
         /\ Written(pkt).status = "Transmit"
         /\ Written(pkt).file = File /\ Written(pkt).size = FileSize
  <1> DEFINE d == Reset(rx, "Transmitting")
             len == Smaller(Length(pkt), rx.size - Len(rx.file))
             m == [d EXCEPT !.blk = pkt.blk, !.status = "Transmit",
                            !.file = @ \o [i \in 1..len |-> Unit(pkt, i)]]
  <1>1. /\ d \in RxState /\ d.stage = "Transmitting" /\ d.file = File /\ d.size = FileSize
        /\ d.runs = rx.runs
    BY ResetRx DEF RxSafe, RxSound, RxReady, Stages
  <1>2. len = 0
    <2>1. Len(File) = FileSize /\ FileSize \in Nat
      BY SizeAssumption DEF File
    <2>2. Length(pkt) \in Nat
      BY SizeAssumption DEF Length
    <2> QED
      BY <2>1, <2>2 DEF Smaller
  <1>3. File \o [i \in 1..0 |-> Unit(pkt, i)] = File
    <2>1. [i \in 1..0 |-> Unit(pkt, i)] = <<>>
      OBVIOUS
    <2>2. File \in Seq(Nat)
      BY SizeAssumption DEF File
    <2> QED
      BY <2>1, <2>2
  <1>4. Written(pkt) = m
    BY DEF Written
  <1> HIDE DEF d, len
  <1>5. m = [d EXCEPT !.blk = pkt.blk, !.status = "Transmit", !.file = File]
    BY <1>1, <1>2, <1>3
  <1> HIDE DEF m
  <1>6. File \in Seq(0..FileSize) /\ "Transmit" \in Statuses
    BY SizeAssumption DEF File, Statuses
  <1>7. m \in RxState
    BY <1>1, <1>5, <1>6, Zenon DEF RxState
  <1>8. /\ m.stage = "Transmitting" /\ m.runs = rx.runs /\ m.status = "Transmit"
        /\ m.file = File /\ m.size = FileSize
    BY <1>1, <1>5 DEF RxState
  <1> QED
    BY <1>4, <1>7, <1>8

\* A block is written where the last one ended, or not at all.
LEMMA RxSavePuts ==
  ASSUME RxInPlace, rx.size = FileSize, NEW r, LeavesLine(r), RxSave(r, r.pkt.blk),
         rx.stage = "Transmitting" \/ (r.pkt \in Range(toRx) /\ r.pkt.body = "data"),
         \/ /\ r.pkt.blk \in BlockNumbers /\ r.pkt = BlockOf(r.pkt.blk)
            /\ rx.file = Beginning(r.pkt.pos)
         \/ r.pkt.blk \in Numbers /\ rx.file = File
  PROVE  RxPuts
  <1> DEFINE m == Written(r.pkt)
  <1>1. RxSlot(r, m, <<Byte("ACK")>>)
    BY DEF RxSave, Written
  <1>2. /\ m \in RxState /\ m.stage = "Transmitting" /\ m.runs = rx.runs
        /\ m.status = "Transmit" /\ m.size = FileSize
        /\ m.file = File \/ (m.blk \in BlockNumbers /\ m.file = Beginning(Upto(m.blk)))
    <2>1. CASE rx.file = File /\ r.pkt.blk \in Numbers
      BY <2>1, WholeStays DEF RxInPlace
    <2>2. CASE /\ r.pkt.blk \in BlockNumbers /\ r.pkt = BlockOf(r.pkt.blk)
               /\ rx.file = Beginning(r.pkt.pos)
      <3>1. r.pkt \in Data /\ After(r.pkt) = Upto(r.pkt.blk)
        BY <2>2, BlockOfFields
      <3>2. /\ m \in RxState /\ m.stage = "Transmitting" /\ m.runs = rx.runs
            /\ m.status = "Transmit" /\ m.blk = r.pkt.blk
            /\ m.file = Beginning(After(r.pkt)) /\ m.size = FileSize
        BY <2>2, <3>1, WrittenFields DEF RxInPlace
      <3> QED
        BY <2>2, <3>1, <3>2
    <2> QED
      BY <2>1, <2>2
  <1> HIDE DEF m
  <1>3. RxPlaced(m) /\ Running(m)
    BY <1>2 DEF RxPlaced, Running
  <1>4. \E n \in 0..FileSize : m.file = Beginning(n)
    <2>1. FileSize \in 0..FileSize /\ File = Beginning(FileSize)
      BY SizeAssumption DEF File, Beginning
    <2>2. \A n \in BlockNumbers : Upto(n) \in 0..FileSize
      BY BlockOfFields
    <2> QED
      BY <1>2, <2>1, <2>2
  <1> QED
    BY <1>1, <1>2, <1>3, <1>4, Answers, RxPutOn

LEMMA RxEotPuts ==
  ASSUME RxInPlace, NEW r, LeavesLine(r), RxEot(r)
  PROVE  RxPuts
  BY Answers, AnswersAnswered, RxPutsMove DEF RxEot

LEMMA RxEstablishedPuts ==
  ASSUME RxInPlace, ReceiveStageEstablished
  PROVE  RxPuts
  <1>1. PICK r \in ReceivePacket(rx, toRx) :
          \/ RxCounted(r, <<Byte("ACK"), Byte("C")>>)
          \/ IsPacket(r.pkt) /\ IsBlock(r.pkt, 1) /\ RxSave(r, 1)
          \/ RxCounted(r, <<Byte("NAK")>>)
          \/ RxEot(r)
          \/ RxAbort(r)
          \/ RxSilence(r, <<Byte("NAK")>>)
    BY DEF ReceiveStageEstablished
  <1>2. /\ LeavesLine(r) /\ r.rest \in Seq(Item)
        /\ r.pkt = Nothing \/ (r.pkt \in Range(toRx) /\ Placed(r.pkt))
    BY RxReadsPlaced
  <1>3. rx.stage = "Established" /\ rx.file = <<>> /\ rx.size = FileSize
    BY DEF ReceiveStageEstablished, RxInPlace, RxPlaced
  <1>4. CASE IsPacket(r.pkt) /\ IsBlock(r.pkt, 1) /\ RxSave(r, 1)
    <2>1. r.pkt \in Range(toRx) /\ Placed(r.pkt) /\ r.pkt.good /\ r.pkt.blk = 1
      BY <1>2, <1>4 DEF IsPacket, IsBlock, Nothing
    <2>2. 1 \in BlockNumbers /\ r.pkt = BlockOf(1)
      BY <1>4, <2>1, PlacedBlock
    <2>3. r.pkt.body = "data" /\ r.pkt.pos = 0
      <3>1. PlaceOf(1) = 0
        BY SizeAssumption DEF PlaceOf
      <3> QED
        BY <2>2, <3>1, BlockOfFields, DataFields
    <2>4. rx.file = Beginning(r.pkt.pos)
      BY <1>3, <2>3 DEF Beginning
    <2>5. RxSave(r, r.pkt.blk)
      BY <1>4, <2>1
    <2> QED
      BY <1>2, <1>3, <2>1, <2>2, <2>3, <2>4, <2>5, RxSavePuts
  <1>5. CASE RxEot(r)
    BY <1>2, <1>5, RxEotPuts
  <1>6. CASE RxAbort(r)
    BY <1>2, <1>6, RxPutsEnd
  <1>7. CASE RxCounted(r, <<Byte("ACK"), Byte("C")>>)
    BY <1>2, <1>7, Answers, AnswersAnswered, RxPutsAnswer
  <1>8. CASE RxCounted(r, <<Byte("NAK")>>) \/ RxSilence(r, <<Byte("NAK")>>)
    BY <1>2, <1>8, Answers, AnswersAnswered, RxPutsAnswer
  <1> QED
    BY <1>1, <1>4, <1>5, <1>6, <1>7, <1>8

\* The block behind the last one is the next of the file, as long as there is one.
LEMMA NextInPlace ==
  ASSUME Short, RxInPlace, rx.stage = "Transmitting", NEW pkt, Placed(pkt), IsPacket(pkt),
         IsBlock(pkt, NextBlk(rx.blk))
  PROVE  \/ /\ pkt.blk \in BlockNumbers /\ pkt = BlockOf(pkt.blk)
            /\ rx.file = Beginning(pkt.pos)
         \/ pkt.blk \in Numbers /\ rx.file = File
  <1>1. rx.file = File \/ (rx.blk \in BlockNumbers /\ rx.file = Beginning(Upto(rx.blk)))
    BY DEF RxInPlace, RxPlaced
  <1>2. pkt.good /\ pkt.blk = NextBlk(rx.blk) /\ pkt.blk \in Numbers
    BY NextBlkNumber DEF IsBlock, RxInPlace, RxSafe, RxSound, RxReady, RxState
  <1>3. CASE rx.file # File /\ pkt.blk # 0
    <2>1. pkt.blk \in BlockNumbers /\ pkt = BlockOf(pkt.blk)
      BY <1>2, <1>3, PlacedBlock
    <2>2. pkt.pos = PlaceOf(pkt.blk)
      BY <2>1, BlockOfFields
    <2>3. PlaceOf(pkt.blk) = Upto(rx.blk)
      BY <1>1, <1>2, <1>3, <2>1, NextBlockTaken
    <2> QED
      BY <1>1, <1>3, <2>1, <2>2, <2>3
  <1>4. CASE rx.file # File /\ pkt.blk = 0
    <2>1. rx.blk \in Nat /\ rx.blk <= Blocks - 1 /\ rx.blk >= 1 /\ Blocks \in Nat
      BY <1>1, <1>4, BlockAssumption DEF BlockNumbers
    <2>2. rx.blk = Blocks - 1
      BY <1>2, <1>4, <2>1, SMT DEF NextBlk
    <2>3. Upto(rx.blk) = FileSize
      <3>1. FileSize <= rx.blk * StxSize
        BY <2>2 DEF Short
      <3>2. rx.blk * StxSize \in Nat /\ FileSize \in Nat
        BY <2>1, SizeAssumption
      <3> QED
        BY <3>1, <3>2 DEF Upto, Smaller
    <2>4. rx.file = File
      BY <1>1, <2>3 DEF File, Beginning
    <2> QED
      BY <1>4, <2>4
  <1> QED
    BY <1>2, <1>3, <1>4

LEMMA RxTransmittingPuts ==
  ASSUME Short, RxInPlace, ReceiveStageTransmitting
  PROVE  RxPuts
  <1>1. PICK r \in ReceivePacket(rx, toRx) :
          \/ RxCounted(r, <<Byte("ACK")>>) \/ RxCounted(r, <<Byte("NAK")>>)
          \/ IsPacket(r.pkt) /\ IsBlock(r.pkt, NextBlk(rx.blk)) /\ RxSave(r, NextBlk(rx.blk))
          \/ RxEot(r)
          \/ RxAbort(r)
          \/ RxSilence(r, <<Byte("NAK")>>)
    BY DEF ReceiveStageTransmitting
  <1>2. /\ LeavesLine(r) /\ r.rest \in Seq(Item)
        /\ r.pkt = Nothing \/ (r.pkt \in Range(toRx) /\ Placed(r.pkt))
    BY RxReadsPlaced
  <1>3. rx.stage = "Transmitting" /\ rx.size = FileSize
    BY DEF ReceiveStageTransmitting, RxInPlace, RxPlaced
  <1>4. CASE IsPacket(r.pkt) /\ IsBlock(r.pkt, NextBlk(rx.blk)) /\ RxSave(r, NextBlk(rx.blk))
    <2>1. Placed(r.pkt)
      BY <1>2, <1>4 DEF IsPacket, Nothing
    <2>2. RxSave(r, r.pkt.blk)
      BY <1>4 DEF IsBlock
    <2> QED
      BY <1>2, <1>3, <1>4, <2>1, <2>2, NextInPlace, RxSavePuts
  <1>5. CASE RxEot(r)
    BY <1>2, <1>5, RxEotPuts
  <1>6. CASE RxAbort(r)
    BY <1>2, <1>6, RxPutsEnd
  <1>7. CASE \/ RxCounted(r, <<Byte("ACK")>>) \/ RxCounted(r, <<Byte("NAK")>>)
             \/ RxSilence(r, <<Byte("NAK")>>)
    BY <1>2, <1>3, <1>7, Answers, RxPutsAnswer
  <1> QED
    BY <1>1, <1>4, <1>5, <1>6, <1>7

LEMMA RxFinishingPuts ==
  ASSUME RxInPlace, ReceiveStageFinishing
  PROVE  RxPuts
  <1>1. PICK r \in ReceivePacket(rx, toRx) :
          \/ RxSlot(r, Reset(rx, "Finished"), <<Byte("ACK"), Byte("C")>>)
          \/ RxAbort(r)
          \/ RxSilence(r, <<Byte("NAK")>>)
    BY DEF ReceiveStageFinishing
  <1>2. LeavesLine(r) /\ r.rest \in Seq(Item)
    BY RxReadsPlaced
  <1>3. CASE RxSlot(r, Reset(rx, "Finished"), <<Byte("ACK"), Byte("C")>>)
    BY <1>2, <1>3, Answers, AnswersAnswered, RxPutsMove
  <1>4. CASE RxAbort(r)
    BY <1>2, <1>4, RxPutsEnd
  <1>5. CASE RxSilence(r, <<Byte("NAK")>>)
    BY <1>2, <1>5, Answers, AnswersAnswered, RxPutsAnswer
  <1> QED
    BY <1>1, <1>3, <1>4, <1>5

LEMMA RxFinishedPuts ==
  ASSUME RxInPlace, ReceiveStageFinished
  PROVE  RxPuts
  <1>1. PICK r \in ReceivePacket(rx, toRx) :
          \/ RxOver(r, "Finish", <<Byte("ACK")>>, <<Byte("ACK")>>)
          \/ RxCounted(r, <<Byte("NAK")>>) \/ RxCounted(r, <<Byte("ACK"), Byte("C")>>)
          \/ RxAbort(r)
          \/ RxSilence(r, <<Byte("NAK")>>)
    BY DEF ReceiveStageFinished
  <1>2. LeavesLine(r) /\ r.rest \in Seq(Item)
    BY RxReadsPlaced
  <1>3. CASE RxOver(r, "Finish", <<Byte("ACK")>>, <<Byte("ACK")>>) \/ RxAbort(r)
    BY <1>2, <1>3, RxPutsEnd
  <1>4. CASE \/ RxCounted(r, <<Byte("NAK")>>) \/ RxCounted(r, <<Byte("ACK"), Byte("C")>>)
             \/ RxSilence(r, <<Byte("NAK")>>)
    BY <1>2, <1>4, Answers, AnswersAnswered, RxPutsAnswer
  <1> QED
    BY <1>1, <1>3, <1>4

\* Every slot of a transfer that goes on.
LEMMA RxTickPuts ==
  ASSUME ~Spaced, Short, RxInPlace, RxTick
  PROVE  RxPuts
  BY RxNonePuts, RxEstablishingPuts, RxEstablishedPuts, RxTransmittingPuts,
     RxFinishingPuts, RxFinishedPuts DEF RxTick

LEMMA RxCancelPuts ==
  ASSUME RxInPlace, RxCancel
  PROVE  RxPuts
  <1> DEFINE m == Reset(rx, "None")
             n == [m EXCEPT !.open = FALSE]
  <1>1. m \in RxState /\ m.file = rx.file /\ m.runs = rx.runs
    BY ResetRx DEF RxInPlace, RxSafe, RxSound, RxReady, Stages
  <1>2. RxReport(toRx, n, "Abort", Cans, <<>>)
    BY DEF RxCancel
  <1> HIDE DEF m
  <1>3. n \in RxState
    BY <1>1, Zenon DEF RxState
  <1>4. n.file = rx.file /\ n.runs = rx.runs /\ "Abort" \in Final /\ toRx \in Seq(Item)
    BY <1>1 DEF RxState, Final, RxInPlace, RxSafe, LinesOK
  <1> HIDE DEF n
  <1> QED
    BY <1>2, <1>3, <1>4, RxPutsReport
=============================================================================

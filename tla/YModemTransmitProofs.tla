------------------------ MODULE YModemTransmitProofs ------------------------
(***************************************************************************)
(* The sending side keeps its file, its timer and its reports in order,    *)
(* whatever arrives on its line.                                           *)
(***************************************************************************)
EXTENDS YModemProperties, YModemLemmas

\* A sending side between two slots.
TxSound(m) ==
  /\ m \in TxState
  /\ m.open <=> m.stage \in DataStages
  /\ m.timer /\ m.stage # "None" => Running(m)
  /\ m.told <= m.runs
  /\ m.told = m.runs => ~m.active /\ ~Running(m)

\* A state a slot may leave behind: TxSlot sets its timer from its status.
TxReady(m) ==
  /\ m \in TxState
  /\ m.open <=> m.stage \in DataStages
  /\ m.told <= m.runs
  /\ m.told = m.runs => ~m.active /\ ~Running(m)

TxSafe == LinesOK /\ TxSound(tx)

\* What a slot, or a call of the user, leaves behind.
TxKept == LinesOK' /\ TxSound(tx')

LEMMA ResetTx ==
  ASSUME NEW m \in TxState, NEW s \in Stages
  PROVE  /\ Reset(m, s) \in TxState
         /\ Reset(m, s).stage = s
         /\ Reset(m, s).time = 0 /\ Reset(m, s).err = 0 /\ Reset(m, s).blk = 0
         /\ Reset(m, s).buf = m.buf /\ Reset(m, s).status = m.status
         /\ Reset(m, s).timer = m.timer /\ Reset(m, s).count = m.count
         /\ Reset(m, s).open = m.open /\ Reset(m, s).active = m.active
         /\ Reset(m, s).told = m.told /\ Reset(m, s).runs = m.runs
  <1>1. Reset(m, s) \in TxState
    BY ZeroNumber, Zenon DEF Reset, TxState
  <1> QED
    BY <1>1 DEF Reset, TxState

LEMMA SlotKeeps ==
  ASSUME LinesOK, NEW m, TxReady(m), NEW out \in Seq(Item),
         NEW r, r.rest \in Seq(Item), TxSlot(r, m, out)
  PROVE  TxKept
  <1>1. tx' \in TxState
    <2>1. Running(m) \in BOOLEAN
      BY DEF Running
    <2> QED
      BY <2>1, Zenon DEF TxSlot, TxReady, TxState
  <1>2. /\ tx'.open = m.open /\ tx'.stage = m.stage /\ tx'.status = m.status
        /\ tx'.told = m.told /\ tx'.runs = m.runs /\ tx'.active = m.active
        /\ tx'.timer = Running(m)
    BY DEF TxSlot, TxReady, TxState
  <1>3. LinesOK'
    BY DEF TxSlot, LinesOK
  <1> QED
    BY <1>1, <1>2, <1>3 DEF TxKept, TxSound, TxReady, Running

\* Only a transfer that goes on can be reported, and its report ends it.
LEMMA ReportKeeps ==
  ASSUME LinesOK, NEW m \in TxState, NEW s \in Final, NEW in \in Seq(Item), NEW out \in Seq(Item),
         m.stage = "None", ~m.open, m.told < m.runs, TxReport(in, m, s, out)
  PROVE  TxKept
  <1>1. tx' \in TxState
    <2>1. s \in Statuses
      BY DEF Statuses
    <2>2. m.told + 1 \in Nat
      BY DEF TxState
    <2> QED
      BY <2>1, <2>2, Zenon DEF TxReport, TxState
  <1>2. /\ tx'.open = m.open /\ tx'.stage = m.stage /\ tx'.status = s
        /\ tx'.told = m.told + 1 /\ tx'.runs = m.runs /\ tx'.active = FALSE
    BY DEF TxReport, TxState
  <1>3. m.told \in Nat /\ m.runs \in Nat
    BY DEF TxState
  <1>4. LinesOK'
    BY ClearedLine, SentLine DEF TxReport, LinesOK
  <1> QED
    BY <1>1, <1>2, <1>3, <1>4 DEF TxKept, TxSound, Running, Final, DataStages

LEMMA ErrorKeeps ==
  ASSUME TxSafe, tx.told < tx.runs, NEW r, r.rest \in Seq(Item), TxError(r)
  PROVE  TxKept
  <1> DEFINE m == Reset(tx, "None")
  <1>1. /\ m \in TxState /\ m.stage = "None"
        /\ m.told = tx.told /\ m.runs = tx.runs /\ m.active = tx.active
    BY ResetTx DEF TxSafe, TxSound, Stages
  <1>2. tx' = [m EXCEPT !.buf = Cans, !.open = FALSE, !.status = "Error", !.timer = TRUE]
    BY DEF TxError
  <1> HIDE DEF m
  <1>3. tx' \in TxState
    <2>1. "Error" \in Statuses
      BY DEF Statuses, Final
    <2> QED
      BY <1>1, <1>2, <2>1, CansLine, Zenon DEF TxState
  <1>4. /\ tx'.open = FALSE /\ tx'.stage = "None" /\ tx'.status = "Error"
        /\ tx'.told = tx.told /\ tx'.runs = tx.runs
    BY <1>1, <1>2 DEF TxState
  <1>5. LinesOK'
    BY CansLine DEF TxError, TxSafe, LinesOK
  <1>6. tx.told \in Nat /\ tx.runs \in Nat
    BY DEF TxSafe, TxSound, TxState
  <1> QED
    BY <1>3, <1>4, <1>5, <1>6 DEF TxKept, TxSound, TxSafe, Running, DataStages

LEMMA OverKeeps ==
  ASSUME TxSafe, tx.told < tx.runs, NEW r, r.rest \in Seq(Item),
         NEW s \in Final, TxOver(r, s)
  PROVE  TxKept
  <1> DEFINE m == Reset(tx, "None")
             n == [m EXCEPT !.open = FALSE, !.timer = TRUE]
  <1>1. m \in TxState /\ m.stage = "None" /\ m.told = tx.told /\ m.runs = tx.runs
    BY ResetTx DEF TxSafe, TxSound, Stages
  <1>2. TxReport(r.rest, n, s, <<>>)
    BY DEF TxOver
  <1> HIDE DEF m
  <1>3. n \in TxState
    BY <1>1, Zenon DEF TxState
  <1>4. n.stage = "None" /\ ~n.open /\ n.told < n.runs
    BY <1>1 DEF TxState
  <1>5. LinesOK /\ <<>> \in Seq(Item)
    BY DEF TxSafe
  <1> QED
    BY <1>2, <1>3, <1>4, <1>5, ReportKeeps

LEMMA TimeoutKeeps ==
  ASSUME TxSafe, tx.told < tx.runs, ~tx.open, NEW r, r.rest \in Seq(Item), TxTimeout(r)
  PROVE  TxKept
  <1> DEFINE m == Reset(tx, "None")
             n == [m EXCEPT !.buf = Cans, !.timer = TRUE]
  <1>1. /\ m \in TxState /\ m.stage = "None" /\ m.told = tx.told /\ m.runs = tx.runs
        /\ m.open = tx.open
    BY ResetTx DEF TxSafe, TxSound, Stages
  <1>2. TxReport(r.rest, n, "Timeout", Cans)
    BY DEF TxTimeout
  <1> HIDE DEF m
  <1>3. n \in TxState
    BY <1>1, CansLine, Zenon DEF TxState
  <1>4. n.stage = "None" /\ ~n.open /\ n.told < n.runs
    BY <1>1 DEF TxState
  <1>5. LinesOK /\ "Timeout" \in Final
    BY DEF TxSafe, Final
  <1> QED
    BY <1>2, <1>3, <1>4, <1>5, CansLine, ReportKeeps

\* The counters of a state change nothing of what TxReady is about.
LEMMA CountingReady ==
  ASSUME TxSound(tx)
  PROVE  /\ TxReady(tx) /\ TxReady(Waited(tx)) /\ TxReady(Faulted(tx))
  <1>1. Waited(tx) \in TxState
    BY DEF TxSound, Waited, TxState
  <1>2. Faulted(tx) \in TxState
    BY DEF TxSound, Faulted, TxState
  <1>3. /\ Waited(tx).open = tx.open /\ Waited(tx).stage = tx.stage
        /\ Waited(tx).status = tx.status /\ Waited(tx).told = tx.told
        /\ Waited(tx).runs = tx.runs /\ Waited(tx).active = tx.active
    BY DEF TxSound, Waited, TxState
  <1>4. /\ Faulted(tx).open = tx.open /\ Faulted(tx).stage = tx.stage
        /\ Faulted(tx).status = tx.status /\ Faulted(tx).told = tx.told
        /\ Faulted(tx).runs = tx.runs /\ Faulted(tx).active = tx.active
    BY DEF TxSound, Faulted, TxState
  <1> QED
    BY <1>1, <1>2, <1>3, <1>4 DEF TxSound, TxReady, Running

LEMMA SilenceKeeps ==
  ASSUME TxSafe, tx.told < tx.runs, NEW r, r.rest \in Seq(Item), TxSilence(r)
  PROVE  TxKept
  <1> DEFINE m == Waited(tx)
  <1>1. CASE Expired(m) /\ TxError(r)
    BY <1>1, ErrorKeeps
  <1>2. CASE ~Expired(m) /\ TxSlot(r, m, IF Due(m) THEN tx.buf ELSE <<>>)
    <2>1. (IF Due(m) THEN tx.buf ELSE <<>>) \in Seq(Item)
      BY DEF TxSafe, TxSound, TxState
    <2>2. LinesOK /\ TxReady(m)
      BY CountingReady DEF TxSafe
    <2> QED
      BY <1>2, <2>1, <2>2, SlotKeeps
  <1> QED
    BY <1>1, <1>2 DEF TxSilence

LEMMA RepeatKeeps ==
  ASSUME TxSafe, tx.told < tx.runs, NEW r, r.rest \in Seq(Item), TxRepeat(r)
  PROVE  TxKept
  <1> DEFINE m == Faulted(tx)
  <1>1. CASE TooMany(m) /\ TxError(r)
    BY <1>1, ErrorKeeps
  <1>2. CASE ~TooMany(m) /\ TxSlot(r, m, tx.buf)
    <2>1. tx.buf \in Seq(Item)
      BY DEF TxSafe, TxSound, TxState
    <2>2. LinesOK /\ TxReady(m)
      BY CountingReady DEF TxSafe
    <2> QED
      BY <1>2, <2>1, <2>2, SlotKeeps
  <1> QED
    BY <1>1, <1>2 DEF TxRepeat

LEMMA OpenKeeps ==
  ASSUME TxSafe, tx.told < tx.runs, ~tx.open, NEW r, r.rest \in Seq(Item), TxOpen(r)
  PROVE  TxKept
  <1> DEFINE d == Reset(tx, "Established")
             m == [d EXCEPT !.open = TRUE, !.count = 0, !.status = "Establish",
                            !.buf = <<Header("file")>>]
             c == Reset(tx, "None")
  <1>1. tx.told \in Nat /\ tx.runs \in Nat
    BY DEF TxSafe, TxSound, TxState
  <1>2. <<Header("file")>> \in Seq(Item)
    BY HeaderItem, OneItem
  <1>3. CASE TxSlot(r, m, <<Header("file")>>)
    <2>1. d \in TxState /\ d.stage = "Established" /\ d.told = tx.told /\ d.runs = tx.runs
      BY ResetTx DEF TxSafe, TxSound, Stages
    <2> HIDE DEF d
    <2>2. m \in TxState
      <3>1. 0 \in 0..FileSize /\ "Establish" \in Statuses
        BY SizeAssumption DEF Statuses
      <3> QED
        BY <2>1, <3>1, <1>2, Zenon DEF TxState
    <2>3. m.open /\ m.stage = "Established" /\ m.told = tx.told /\ m.runs = tx.runs
      BY <2>1 DEF TxState
    <2>4. LinesOK /\ TxReady(m)
      BY <1>1, <2>2, <2>3 DEF TxSafe, TxReady, DataStages
    <2> QED
      BY <1>2, <1>3, <2>4, SlotKeeps
  <1>4. CASE /\ tx' = [c EXCEPT !.buf = Cans, !.status = "Error", !.timer = TRUE]
             /\ toTx' = r.rest
             /\ toRx' = toRx \o Cans
    <2>1. /\ c \in TxState /\ c.stage = "None" /\ c.told = tx.told /\ c.runs = tx.runs
          /\ c.open = tx.open
      BY ResetTx DEF TxSafe, TxSound, Stages
    <2> HIDE DEF c
    <2>2. tx' \in TxState
      <3>1. "Error" \in Statuses
        BY DEF Statuses, Final
      <3> QED
        BY <1>4, <2>1, <3>1, CansLine, Zenon DEF TxState
    <2>3. /\ ~tx'.open /\ tx'.stage = "None" /\ tx'.status = "Error"
          /\ tx'.told = tx.told /\ tx'.runs = tx.runs
      BY <1>4, <2>1 DEF TxState
    <2>4. LinesOK'
      BY <1>4, CansLine DEF TxSafe, LinesOK
    <2> QED
      BY <1>1, <2>2, <2>3, <2>4 DEF TxKept, TxSound, Running, DataStages
  <1> QED
    BY <1>3, <1>4 DEF TxOpen

\* The buffer a block of the file is read into holds one packet of it.
LEMMA FillReady ==
  ASSUME TxSafe, tx.told < tx.runs, tx.open,
         NEW n \in Numbers, NEW s \in DataStages
  PROVE  TxReady(TxFill(n, s)) /\ TxFill(n, s).buf \in Seq(Item)
  <1> DEFINE d == Reset(tx, s)
             pkt == Block(n, tx.count)
             read == Smaller(Length(pkt), FileSize - d.count)
             m == [d EXCEPT !.blk = n, !.status = "Transmit", !.buf = <<pkt>>,
                            !.count = @ + read]
  <1>0. s \in Stages /\ tx \in TxState
    BY DEF TxSafe, TxSound, Stages, DataStages
  <1>1. tx.told \in Nat /\ tx.runs \in Nat /\ tx.count \in 0..FileSize
    BY DEF TxSafe, TxSound, TxState
  <1>2. /\ d \in TxState /\ d.stage = s /\ d.told = tx.told /\ d.runs = tx.runs
        /\ d.open = tx.open /\ d.count = tx.count
    BY <1>0, ResetTx
  <1>3. TxFill(n, s) = m
    BY DEF TxFill
  <1>4. <<pkt>> \in Seq(Item)
    BY <1>1, BlockItem, OneItem
  <1>5. d.count + read \in 0..FileSize
    <2>1. Length(pkt) \in Nat
      BY SizeAssumption DEF Length
    <2> HIDE DEF pkt, d
    <2> QED
      BY <1>1, <1>2, <2>1, SizeAssumption DEF Smaller
  <1> HIDE DEF d, pkt, read
  <1>6. m \in TxState
    <2>1. "Transmit" \in Statuses
      BY DEF Statuses
    <2> QED
      BY <1>2, <1>4, <1>5, <2>1, Zenon DEF TxState
  <1>7. /\ m.open /\ m.stage = s /\ m.told = tx.told /\ m.runs = tx.runs /\ m.buf = <<pkt>>
    BY <1>2 DEF TxState
  <1> QED
    BY <1>1, <1>3, <1>4, <1>6, <1>7 DEF TxReady

LEMMA EotReady ==
  ASSUME TxSafe, tx.told < tx.runs, tx.open,
         NEW n \in Numbers, NEW s \in DataStages
  PROVE  TxReady(TxEot(n, s))
  <1> DEFINE d == Reset(tx, s)
             m == [d EXCEPT !.blk = n, !.status = "Transmit", !.buf = <<Byte("EOT")>>]
  <1>0. s \in Stages /\ tx \in TxState
    BY DEF TxSafe, TxSound, Stages, DataStages
  <1>1. tx.told \in Nat /\ tx.runs \in Nat
    BY DEF TxSafe, TxSound, TxState
  <1>2. /\ d \in TxState /\ d.stage = s /\ d.told = tx.told /\ d.runs = tx.runs
        /\ d.open = tx.open
    BY <1>0, ResetTx
  <1>3. TxEot(n, s) = m
    BY DEF TxEot
  <1> HIDE DEF d
  <1>4. m \in TxState
    <2>1. "Transmit" \in Statuses /\ <<Byte("EOT")>> \in Seq(Item)
      BY ByteItem, OneItem DEF Statuses, Codes
    <2> QED
      BY <1>2, <2>1, Zenon DEF TxState
  <1>5. m.open /\ m.stage = s /\ m.told = tx.told /\ m.runs = tx.runs
    BY <1>2 DEF TxState
  <1> QED
    BY <1>1, <1>3, <1>4, <1>5 DEF TxReady
-----------------------------------------------------------------------------
(***************************************************************************)
(* The stages.  A slot that finds a stage other than None belongs to a     *)
(* transfer that goes on, so its end has not been reported yet.            *)
(***************************************************************************)
LEMMA SlotOfTransfer ==
  ASSUME TxSafe, tx.timer, tx.stage # "None"
  PROVE  tx.told < tx.runs
  <1>1. tx.told \in Nat /\ tx.runs \in Nat
    BY DEF TxSafe, TxSound, TxState
  <1> QED
    BY <1>1 DEF TxSafe, TxSound

LEMMA NoneKeeps ==
  ASSUME TxSafe, TransmitStageNone
  PROVE  TxKept
  <1> DEFINE m == Reset(tx, "Establishing")
             r == [rest |-> toTx]
  <1>1. /\ m \in TxState /\ m.stage = "Establishing" /\ m.open = tx.open
        /\ m.told = tx.told /\ m.runs = tx.runs /\ m.active = tx.active /\ m.status = tx.status
    BY ResetTx DEF TxSafe, TxSound, Stages
  <1>2. TxSlot(r, m, <<>>) /\ r.rest \in Seq(Item) /\ <<>> \in Seq(Item) /\ LinesOK
    BY DEF TransmitStageNone, TxSafe, LinesOK
  <1> HIDE DEF m, r
  <1>3. TxReady(m)
    BY <1>1 DEF TransmitStageNone, TxSafe, TxSound, TxReady, Running, DataStages
  <1> QED
    BY <1>2, <1>3, SlotKeeps

LEMMA EstablishingKeeps ==
  ASSUME TxSafe, tx.timer, TransmitStageEstablishing
  PROVE  TxKept
  <1>1. tx.told < tx.runs /\ ~tx.open
    BY SlotOfTransfer DEF TransmitStageEstablishing, TxSafe, TxSound, DataStages
  <1>2. PICK r \in ReceivePacket(tx, toTx) :
          \/ TxOpen(r)
          \/ TxOver(r, "Abort")
          \/ TxTimeout(r)
          \/ TxSlot(r, Waited(tx), <<>>)
    BY DEF TransmitStageEstablishing
  <1>3. r.rest \in Seq(Item)
    BY ReadLine DEF TxSafe, LinesOK
  <1>4. CASE TxOpen(r)
    BY <1>1, <1>3, <1>4, OpenKeeps
  <1>5. CASE TxOver(r, "Abort")
    BY <1>1, <1>3, <1>5, OverKeeps DEF Final
  <1>6. CASE TxTimeout(r)
    BY <1>1, <1>3, <1>6, TimeoutKeeps
  <1>7. CASE TxSlot(r, Waited(tx), <<>>)
    <2>1. LinesOK /\ TxReady(Waited(tx)) /\ <<>> \in Seq(Item)
      BY CountingReady DEF TxSafe
    <2> QED
      BY <1>3, <1>7, <2>1, SlotKeeps
  <1> QED
    BY <1>2, <1>4, <1>5, <1>6, <1>7

LEMMA EstablishedKeeps ==
  ASSUME TxSafe, tx.timer, TransmitStageEstablished
  PROVE  TxKept
  <1> DEFINE c == [tx EXCEPT !.stage = AfterEstablished(tx.blk), !.time = 0, !.err = 0]
  <1>1. tx.told < tx.runs /\ tx.open /\ LinesOK
    BY SlotOfTransfer DEF TransmitStageEstablished, TxSafe, TxSound, DataStages
  <1>2. PICK r \in ReceivePacket(tx, toTx) :
          \/ TxRepeat(r)
          \/ TxError(r)
          \/ TxSlot(r, c, tx.buf)
          \/ TxSlot(r, TxFill(1, "Established"), <<>>)
          \/ TxSlot(r, TxEot(2, "Established"), <<Byte("EOT")>>)
          \/ TxOver(r, "Abort")
          \/ TxSilence(r)
    BY DEF TransmitStageEstablished
  <1>3. r.rest \in Seq(Item)
    BY ReadLine DEF TxSafe, LinesOK
  <1>4. CASE TxRepeat(r)
    BY <1>1, <1>3, <1>4, RepeatKeeps
  <1>5. CASE TxError(r)
    BY <1>1, <1>3, <1>5, ErrorKeeps
  <1>6. CASE TxSlot(r, c, tx.buf)
    <2>1. AfterEstablished(tx.blk) \in DataStages /\ AfterEstablished(tx.blk) \in Stages
      BY DEF AfterEstablished, DataStages, Stages
    <2>2. tx \in TxState /\ tx.buf \in Seq(Item) /\ tx.told \in Nat /\ tx.runs \in Nat
      BY DEF TxSafe, TxSound, TxState
    <2>3. c \in TxState
      BY <2>1, <2>2, Zenon DEF TxState
    <2>4. c.stage \in DataStages /\ c.open /\ c.told = tx.told /\ c.runs = tx.runs
      BY <1>1, <2>1, <2>2 DEF TxState
    <2>5. TxReady(c)
      BY <1>1, <2>2, <2>3, <2>4 DEF TxReady
    <2> QED
      BY <1>1, <1>3, <1>6, <2>2, <2>5, SlotKeeps
  <1>7. CASE TxSlot(r, TxFill(1, "Established"), <<>>)
    <2>1. TxReady(TxFill(1, "Established")) /\ <<>> \in Seq(Item)
      BY <1>1, ZeroNumber, FillReady DEF DataStages
    <2> QED
      BY <1>1, <1>3, <1>7, <2>1, SlotKeeps
  <1>8. CASE TxSlot(r, TxEot(2, "Established"), <<Byte("EOT")>>)
    <2>1. TxReady(TxEot(2, "Established"))
      BY <1>1, ZeroNumber, EotReady DEF DataStages
    <2>2. <<Byte("EOT")>> \in Seq(Item)
      BY ByteItem, OneItem DEF Codes
    <2> QED
      BY <1>1, <1>3, <1>8, <2>1, <2>2, SlotKeeps
  <1>9. CASE TxOver(r, "Abort")
    BY <1>1, <1>3, <1>9, OverKeeps DEF Final
  <1>10. CASE TxSilence(r)
    BY <1>1, <1>3, <1>10, SilenceKeeps
  <1> QED
    BY <1>2, <1>4, <1>5, <1>6, <1>7, <1>8, <1>9, <1>10

LEMMA TransmittingKeeps ==
  ASSUME TxSafe, tx.timer, TransmitStageTransmitting
  PROVE  TxKept
  <1> DEFINE m == TxFill(NextBlk(tx.blk), "Transmitting")
  <1>1. tx.told < tx.runs /\ tx.open /\ LinesOK
    BY SlotOfTransfer DEF TransmitStageTransmitting, TxSafe, TxSound, DataStages
  <1>2. PICK r \in ReceivePacket(tx, toTx) :
          \/ TxRepeat(r)
          \/ TxSlot(r, m, m.buf)
          \/ TxSlot(r, TxEot(0, "Finishing"), <<Byte("EOT")>>)
          \/ TxOver(r, "Abort")
          \/ TxSilence(r)
    BY DEF TransmitStageTransmitting
  <1>3. r.rest \in Seq(Item)
    BY ReadLine DEF TxSafe, LinesOK
  <1>4. CASE TxRepeat(r)
    BY <1>1, <1>3, <1>4, RepeatKeeps
  <1>5. CASE TxSlot(r, m, m.buf)
    <2>1. NextBlk(tx.blk) \in Numbers
      BY NextBlkNumber DEF TxSafe, TxSound, TxState
    <2>2. TxReady(m) /\ m.buf \in Seq(Item)
      BY <1>1, <2>1, FillReady DEF DataStages
    <2> QED
      BY <1>1, <1>3, <1>5, <2>2, SlotKeeps
  <1>6. CASE TxSlot(r, TxEot(0, "Finishing"), <<Byte("EOT")>>)
    <2>1. TxReady(TxEot(0, "Finishing"))
      BY <1>1, ZeroNumber, EotReady DEF DataStages
    <2>2. <<Byte("EOT")>> \in Seq(Item)
      BY ByteItem, OneItem DEF Codes
    <2> QED
      BY <1>1, <1>3, <1>6, <2>1, <2>2, SlotKeeps
  <1>7. CASE TxOver(r, "Abort")
    BY <1>1, <1>3, <1>7, OverKeeps DEF Final
  <1>8. CASE TxSilence(r)
    BY <1>1, <1>3, <1>8, SilenceKeeps
  <1> QED
    BY <1>2, <1>4, <1>5, <1>6, <1>7, <1>8

LEMMA FinishingKeeps ==
  ASSUME TxSafe, tx.timer, TransmitStageFinishing
  PROVE  TxKept
  <1> DEFINE e == Reset(tx, "Finishing")
             f == Reset(tx, "Finished")
             m == [e EXCEPT !.buf = <<Byte("EOT")>>]
             n == [f EXCEPT !.buf = <<Header("null")>>]
  <1>1. tx.told < tx.runs /\ tx.open /\ LinesOK /\ tx.told \in Nat /\ tx.runs \in Nat
    BY SlotOfTransfer DEF TransmitStageFinishing, TxSafe, TxSound, DataStages, TxState
  <1>2. PICK r \in ReceivePacket(tx, toTx) :
          \/ TxSlot(r, m, <<Byte("EOT")>>)
          \/ TxSlot(r, n, <<Header("null")>>)
          \/ TxOver(r, "Abort")
          \/ TxSilence(r)
    BY DEF TransmitStageFinishing
  <1>3. r.rest \in Seq(Item)
    BY ReadLine DEF TxSafe, LinesOK
  <1>4. /\ <<Byte("EOT")>> \in Seq(Item)
        /\ <<Header("null")>> \in Seq(Item)
    BY ByteItem, HeaderItem, OneItem DEF Codes
  <1>5. CASE TxSlot(r, m, <<Byte("EOT")>>)
    <2>1. /\ e \in TxState /\ e.stage = "Finishing" /\ e.open = tx.open
          /\ e.told = tx.told /\ e.runs = tx.runs
      BY ResetTx DEF TxSafe, TxSound, Stages
    <2> HIDE DEF e
    <2>2. m \in TxState
      BY <1>4, <2>1, Zenon DEF TxState
    <2>3. m.stage = "Finishing" /\ m.open /\ m.told = tx.told /\ m.runs = tx.runs
      BY <1>1, <2>1 DEF TxState
    <2>4. TxReady(m)
      BY <1>1, <2>2, <2>3 DEF TxReady, DataStages
    <2> QED
      BY <1>1, <1>3, <1>4, <1>5, <2>4, SlotKeeps
  <1>6. CASE TxSlot(r, n, <<Header("null")>>)
    <2>1. /\ f \in TxState /\ f.stage = "Finished" /\ f.open = tx.open
          /\ f.told = tx.told /\ f.runs = tx.runs
      BY ResetTx DEF TxSafe, TxSound, Stages
    <2> HIDE DEF f
    <2>2. n \in TxState
      BY <1>4, <2>1, Zenon DEF TxState
    <2>3. n.stage = "Finished" /\ n.open /\ n.told = tx.told /\ n.runs = tx.runs
      BY <1>1, <2>1 DEF TxState
    <2>4. TxReady(n)
      BY <1>1, <2>2, <2>3 DEF TxReady, DataStages
    <2> QED
      BY <1>1, <1>3, <1>4, <1>6, <2>4, SlotKeeps
  <1>7. CASE TxOver(r, "Abort")
    BY <1>1, <1>3, <1>7, OverKeeps DEF Final
  <1>8. CASE TxSilence(r)
    BY <1>1, <1>3, <1>8, SilenceKeeps
  <1> QED
    BY <1>2, <1>5, <1>6, <1>7, <1>8

LEMMA FinishedKeeps ==
  ASSUME TxSafe, tx.timer, TransmitStageFinished
  PROVE  TxKept
  <1>1. tx.told < tx.runs
    BY SlotOfTransfer DEF TransmitStageFinished
  <1>2. PICK r \in ReceivePacket(tx, toTx) :
          \/ TxRepeat(r)
          \/ TxOver(r, "Finish")
          \/ TxOver(r, "Abort")
          \/ TxSilence(r)
    BY DEF TransmitStageFinished
  <1>3. r.rest \in Seq(Item)
    BY ReadLine DEF TxSafe, LinesOK
  <1>4. "Finish" \in Final /\ "Abort" \in Final
    BY DEF Final
  <1> QED
    BY <1>1, <1>2, <1>3, <1>4, RepeatKeeps, OverKeeps, SilenceKeeps
-----------------------------------------------------------------------------
(***************************************************************************)
(* The calls of the user, and every step of the sending side               *)
(***************************************************************************)
LEMMA StartKeeps ==
  ASSUME TxSafe, TxStart
  PROVE  TxKept
  <1>1. tx \in TxState /\ tx.told \in Nat /\ tx.runs \in Nat /\ tx.told <= tx.runs
    BY DEF TxSafe, TxSound, TxState
  <1>2. tx' \in TxState
    <2>1. "Establish" \in Statuses /\ tx.runs + 1 \in Nat
      BY <1>1 DEF Statuses
    <2> QED
      BY <1>1, <2>1, Zenon DEF TxStart, TxState
  <1>3. /\ tx'.status = "Establish" /\ tx'.runs = tx.runs + 1 /\ tx'.told = tx.told
        /\ tx'.stage = tx.stage /\ tx'.open = tx.open
    BY <1>1 DEF TxStart, TxState
  <1>4. LinesOK'
    <2>1. <<>> \in Seq(Item) /\ Byte("C") \in Item
      BY ByteItem DEF Codes
    <2>2. PICK out \in Sent(toRx, <<>>) : toRx' = Append(out, Byte("C"))
      BY DEF TxStart
    <2>3. out \in Seq(Item)
      BY <2>1, SentLine DEF TxSafe, LinesOK
    <2>4. toTx' \in Seq(Item)
      BY ClearedLine DEF TxStart, TxSafe, LinesOK
    <2> QED
      BY <2>1, <2>2, <2>3, <2>4 DEF LinesOK
  <1> QED
    BY <1>1, <1>2, <1>3, <1>4 DEF TxSafe, TxSound, TxKept, Running

LEMMA RefusedKeeps ==
  ASSUME TxSafe, TxRefused
  PROVE  TxKept
  <1>1. tx \in TxState /\ tx.told \in Nat /\ tx.runs \in Nat /\ tx.told <= tx.runs
    BY DEF TxSafe, TxSound, TxState
  <1>2. tx' \in TxState
    <2>1. "Establish" \in Statuses /\ tx.runs + 1 \in Nat
      BY <1>1 DEF Statuses
    <2> QED
      BY <1>1, <2>1, Zenon DEF TxRefused, TxState
  <1>3. /\ tx'.status = "Establish" /\ tx'.runs = tx.runs + 1 /\ tx'.told = tx.told
        /\ tx'.stage = tx.stage /\ tx'.open = tx.open
    BY <1>1 DEF TxRefused, TxState
  <1>4. LinesOK'
    <2>1. <<>> \in Seq(Item)
      OBVIOUS
    <2> QED
      BY <2>1, ClearedLine, SentLine DEF TxRefused, TxSafe, LinesOK
  <1> QED
    BY <1>1, <1>2, <1>3, <1>4 DEF TxSafe, TxSound, TxKept, Running

LEMMA CancelKeeps ==
  ASSUME TxSafe, TxCancel
  PROVE  TxKept
  <1> DEFINE m == Reset(tx, "None")
             n == [m EXCEPT !.buf = Cans, !.open = FALSE, !.timer = FALSE]
  <1>1. tx.told < tx.runs
    <2>1. tx.told \in Nat /\ tx.runs \in Nat
      BY DEF TxSafe, TxSound, TxState
    <2> QED
      BY <2>1 DEF TxCancel, TxSafe, TxSound
  <1>2. m \in TxState /\ m.stage = "None" /\ m.told = tx.told /\ m.runs = tx.runs
    BY ResetTx DEF TxSafe, TxSound, Stages
  <1>3. TxReport(toTx, n, "Abort", Cans)
    BY DEF TxCancel
  <1> HIDE DEF m
  <1>4. n \in TxState
    BY <1>2, CansLine, Zenon DEF TxState
  <1>5. n.stage = "None" /\ ~n.open /\ n.told < n.runs
    BY <1>1, <1>2 DEF TxState
  <1>6. LinesOK /\ toTx \in Seq(Item) /\ "Abort" \in Final
    BY DEF TxSafe, LinesOK, Final
  <1> QED
    BY <1>3, <1>4, <1>5, <1>6, CansLine, ReportKeeps

LEMMA TransmitKeeps ==
  ASSUME TxSafe, TxNext
  PROVE  TxKept
  <1>1. CASE TxTick
    BY <1>1, NoneKeeps, EstablishingKeeps, EstablishedKeeps, TransmittingKeeps,
       FinishingKeeps, FinishedKeeps DEF TxTick
  <1>2. CASE TxDrain
    BY <1>2 DEF TxDrain, TxSafe, TxKept, LinesOK, TxSound, Running
  <1> QED
    BY <1>1, <1>2, StartKeeps, RefusedKeeps, CancelKeeps DEF TxNext
-----------------------------------------------------------------------------
(***************************************************************************)
(* On an unspoiled line                                                    *)
(***************************************************************************)
\* What a slot reads of the answers.
FromAnswers(r) ==
  \/ r.pkt = Nothing /\ r.rest = toTx
  \/ toTx # <<>> /\ r.pkt = Head(toTx) /\ r.rest = Tail(toTx)

\* A sending side in step with its line stays so, or ends the transfer; either
\* way it leaves no gap behind it.
TxSteps(a) ==
  /\ tx'.runs = tx.runs /\ Continues(a, toRx')
  /\ \/ tx'.status \in Final
     \/ Running(tx') /\ tx'.active /\ tx'.timer /\ TxInStep(a)'

LEMMA ReadsAnswers ==
  ASSUME LinesOK, NEW r \in ReceivePacket(tx, toTx)
  PROVE  FromAnswers(r) /\ r.rest \in Seq(Item)
  BY ReadLine DEF ReceivePacket, FromAnswers, LinesOK

\* A side that has not read the first block wrote no data.
LEMMA EarlyPacket ==
  ASSUME NEW m, Early(m), NEW in, NEW b, TxAt(m, in, b)
  PROVE  b \in {Byte("C"), Header("file")} /\ b \notin Data
  <1>1. b \in {Byte("C"), Header("file")}
    BY DEF Early, TxAt
  <1> QED
    BY <1>1, DataFields DEF Byte, Header

\* A slot that writes nothing, or the packet b it is at then.
LEMMA TxWentOn ==
  ASSUME LinesOK, NEW a, Continues(a, toRx), NEW r, NEW m \in TxState, NEW out,
         TxSlot(r, m, out), Running(m), m.active, m.runs = tx.runs,
         NEW b, \/ out = <<>> /\ b = Newest(a, toRx)
                \/ out = <<b>> /\ b \in Item /\ Follows(Newest(a, toRx), b),
         TxAt(m, r.rest, b),
         Early(m) => /\ Answered(r.rest)
                     /\ a \notin Data /\ \A i \in 1..Len(toRx) : toRx[i] \notin Data
  PROVE  TxSteps(a)
  <1>1. /\ tx'.stage = m.stage /\ tx'.status = m.status /\ tx'.blk = m.blk
        /\ tx'.buf = m.buf /\ tx'.count = m.count /\ tx'.runs = m.runs
        /\ tx'.active = m.active /\ tx'.timer = Running(m)
    BY DEF TxSlot, TxState
  <1>2. toTx' = r.rest /\ toRx' = toRx \o out
    BY DEF TxSlot
  <1>3. Running(tx') /\ tx'.active /\ tx'.timer
    BY <1>1 DEF Running
  <1>4. TxAt(tx', toTx', b) /\ (Early(tx') => Early(m))
    BY <1>1, <1>2 DEF TxAt, Early
  <1>5. /\ Continues(a, toRx') /\ Newest(a, toRx') = b
        /\ Early(m) => \A i \in 1..Len(toRx') : toRx'[i] \notin Data
    <2>1. CASE out = <<>> /\ b = Newest(a, toRx)
      <3>1. toRx' = toRx
        BY <1>2, <2>1 DEF LinesOK
      <3> QED
        BY <2>1, <3>1
    <2>2. CASE out = <<b>> /\ b \in Item /\ Follows(Newest(a, toRx), b)
      <3>1. /\ Continues(a, toRx') /\ Newest(a, toRx') = b
            /\ Len(toRx') = Len(toRx) + 1 /\ Len(toRx) \in Nat
            /\ \A i \in 1..Len(toRx) : toRx'[i] = toRx[i]
            /\ toRx'[Len(toRx) + 1] = b
        BY <1>2, <2>2, ContinuesWrite, LenProperties DEF LinesOK
      <3>2. Early(m) => b \notin Data
        BY EarlyPacket
      <3>3. ASSUME Early(m), NEW i \in 1..Len(toRx') PROVE toRx'[i] \notin Data
        <4>1. i \in 1..Len(toRx) \/ i = Len(toRx) + 1
          BY <3>1
        <4> QED
          BY <3>1, <3>2, <3>3, <4>1
      <3> QED
        BY <3>1, <3>3
    <2> QED
      BY <2>1, <2>2
  <1>6. TxInStep(a)'
    BY <1>2, <1>4, <1>5 DEF TxInStep
  <1> QED
    BY <1>1, <1>3, <1>5, <1>6 DEF TxSteps

\* What a side that gives up leaves on the line.
LEMMA SentContinues ==
  ASSUME LinesOK, NEW a, Continues(a, toRx), NEW out \in {<<>>, Cans},
         NEW sent \in Sent(toRx, out)
  PROVE  Continues(a, sent)
  <1> DEFINE l == toRx \o out
  <1>1. l \in Seq(Item) /\ Continues(a, l)
    <2>1. CASE out = <<>>
      BY <2>1 DEF LinesOK
    <2>2. CASE out = Cans
      BY <2>2, CansLine, ContinuesCans DEF LinesOK
    <2> QED
      BY <2>1, <2>2
  <1> HIDE DEF l
  <1>2. sent = toRx \/ \E k \in 0..Len(l) : sent = SubSeq(l, 1, k)
    BY Zenon DEF Sent, Prefixes, l
  <1> QED
    BY <1>1, <1>2, ContinuesPrefix

LEMMA TxReportInStep ==
  ASSUME TxSafe, NEW a, Continues(a, toRx), NEW m \in TxState, m.runs = tx.runs,
         NEW in, NEW s \in Final, NEW out \in {<<>>, Cans}, TxReport(in, m, s, out)
  PROVE  TxSteps(a)
  <1>1. tx'.status = s /\ tx'.runs = m.runs
    BY DEF TxReport, TxState
  <1>2. Continues(a, toRx')
    BY SentContinues DEF TxReport, TxSafe
  <1> QED
    BY <1>1, <1>2 DEF TxSteps

LEMMA TxGivesUp ==
  ASSUME TxSafe, NEW a, Continues(a, toRx), NEW r,
         TxError(r) \/ TxTimeout(r) \/ TxOver(r, "Abort") \/ TxOver(r, "Finish")
  PROVE  TxSteps(a)
  <1> DEFINE m == Reset(tx, "None")
             n == [m EXCEPT !.buf = Cans, !.timer = TRUE]
             k == [m EXCEPT !.open = FALSE, !.timer = TRUE]
  <1>1. m \in TxState /\ m.runs = tx.runs
    BY ResetTx DEF TxSafe, TxSound, Stages
  <1>2. {"Error", "Timeout", "Abort", "Finish"} \subseteq Final
    BY DEF Final
  <1>3. CASE TxError(r)
    <2>1. tx' = [m EXCEPT !.buf = Cans, !.open = FALSE, !.status = "Error", !.timer = TRUE]
      BY <1>3 DEF TxError
    <2> HIDE DEF m
    <2>2. tx'.status = "Error" /\ tx'.runs = tx.runs
      BY <1>1, <2>1 DEF TxState
    <2>3. Continues(a, toRx')
      BY <1>3, ContinuesCans DEF TxError, TxSafe, LinesOK
    <2> QED
      BY <1>2, <2>2, <2>3 DEF TxSteps
  <1>4. CASE TxTimeout(r) \/ TxOver(r, "Abort") \/ TxOver(r, "Finish")
    <2>1. \/ TxReport(r.rest, n, "Timeout", Cans)
          \/ \E s \in {"Abort", "Finish"} : TxReport(r.rest, k, s, <<>>)
      BY <1>4 DEF TxTimeout, TxOver
    <2> HIDE DEF m
    <2>2. n \in TxState /\ k \in TxState
      BY <1>1, CansLine, Zenon DEF TxState
    <2>3. n.runs = tx.runs /\ k.runs = tx.runs
      BY <1>1 DEF TxState
    <2> HIDE DEF n, k
    <2> QED
      BY <1>2, <2>1, <2>2, <2>3, TxReportInStep
  <1> QED
    BY <1>3, <1>4

\* The buffer holds what may be written again.
LEMMA BufferFollows ==
  ASSUME NEW in, NEW l, TxAt(tx, in, l), tx.stage \notin {"None", "Establishing"}
  PROVE  \E b \in Item : tx.buf = <<b>> /\ Follows(l, b) /\ TxAt(tx, in, b)
  <1>1. Byte("EOT") \in Item /\ Header("file") \in Item /\ Header("null") \in Item
    BY ByteItem, HeaderItem DEF Codes
  <1>2. \A c : Follows(c, c)
    BY DEF Follows
  <1>3. CASE tx.stage = "Established" /\ tx.blk = 1
    <2>1. /\ FileSize # 0 /\ tx.buf = <<Block(1, 0)>> /\ l \in {Header("file"), Block(1, 0)}
          /\ TxAt(tx, in, Block(1, 0))
      BY <1>3 DEF TxAt
    <2>2. Follows(l, Block(1, 0))
      BY <1>2, <2>1 DEF Follows, NextPacket, Header
    <2>3. Block(1, 0) \in Item
      BY <2>1, FirstBlock, DataFields
    <2> QED
      BY <2>1, <2>2, <2>3
  <1>4. CASE ~(tx.stage = "Established" /\ tx.blk = 1)
    <2>1. tx.buf = <<l>>
      BY <1>4 DEF TxAt
    <2>2. l \in Item
      BY <1>1, <1>4, DataFields DEF TxAt
    <2> QED
      BY <1>2, <2>1, <2>2
  <1> QED
    BY <1>3, <1>4

\* A slot that counts, and may repeat the buffer.
LEMMA TxAgain ==
  ASSUME TxSafe, Running(tx), tx.active, tx.stage \notin {"None", "Establishing"},
         NEW a, Continues(a, toRx), NEW r, TxAt(tx, r.rest, Newest(a, toRx)),
         Early(tx) => /\ Answered(r.rest)
                      /\ a \notin Data /\ \A i \in 1..Len(toRx) : toRx[i] \notin Data,
         NEW m, m \in {Waited(tx), Faulted(tx), [tx EXCEPT !.time = 0, !.err = 0]},
         NEW out \in {<<>>, tx.buf}, TxSlot(r, m, out)
  PROVE  TxSteps(a)
  <1>1. m \in TxState
    <2>1. Waited(tx) \in TxState /\ Faulted(tx) \in TxState
      BY CountingReady DEF TxSafe, TxReady
    <2>2. [tx EXCEPT !.time = 0, !.err = 0] \in TxState
      BY DEF TxSafe, TxSound, TxState
    <2> QED
      BY <2>1, <2>2
  <1>2. /\ m.stage = tx.stage /\ m.status = tx.status /\ m.blk = tx.blk
        /\ m.buf = tx.buf /\ m.count = tx.count /\ m.runs = tx.runs /\ m.active = tx.active
    BY DEF TxSafe, TxSound, TxState, Waited, Faulted
  <1>3. Running(m) /\ (Early(m) => Early(tx)) /\ \A b : TxAt(tx, r.rest, b) => TxAt(m, r.rest, b)
    BY <1>2 DEF Running, Early, TxAt
  <1>4. PICK b \in Item : /\ tx.buf = <<b>> /\ Follows(Newest(a, toRx), b)
                          /\ TxAt(tx, r.rest, b)
    BY BufferFollows
  <1>5. CASE out = <<>>
    BY <1>1, <1>2, <1>3, <1>5, TxWentOn DEF TxSafe
  <1>6. CASE out = tx.buf
    BY <1>1, <1>2, <1>3, <1>4, <1>6, TxWentOn DEF TxSafe
  <1> QED
    BY <1>5, <1>6

LEMMA TxSilenceInStep ==
  ASSUME TxSafe, Running(tx), tx.active, tx.stage \notin {"None", "Establishing"},
         NEW a, Continues(a, toRx), NEW r, TxAt(tx, r.rest, Newest(a, toRx)),
         Early(tx) => /\ Answered(r.rest)
                      /\ a \notin Data /\ \A i \in 1..Len(toRx) : toRx[i] \notin Data,
         TxSilence(r) \/ TxRepeat(r)
  PROVE  TxSteps(a)
  <1>1. CASE TxError(r)
    BY <1>1, TxGivesUp
  <1>2. CASE \/ TxSlot(r, Waited(tx), IF Due(Waited(tx)) THEN tx.buf ELSE <<>>)
             \/ TxSlot(r, Faulted(tx), tx.buf)
    <2>1. CASE TxSlot(r, Waited(tx), IF Due(Waited(tx)) THEN tx.buf ELSE <<>>)
      BY <2>1, TxAgain
    <2>2. CASE TxSlot(r, Faulted(tx), tx.buf)
      BY <2>2, TxAgain
    <2> QED
      BY <1>2, <2>1, <2>2
  <1> QED
    BY <1>1, <1>2 DEF TxSilence, TxRepeat

\* What is left of the answers serves the same stage, unless they were waited for.
LEMMA AnswersLeft ==
  ASSUME LinesOK, NEW a, TxInStep(a), NEW r, FromAnswers(r)
  PROVE  /\ tx.stage = "Established" /\ tx.blk = 1 => r.pkt = Nothing \/ r.pkt.code = "C"
         /\ ~(tx.stage = "Established" /\ tx.blk = 1 /\ r.pkt.code = "C") =>
               TxAt(tx, r.rest, Newest(a, toRx))
         /\ Early(tx) => /\ Answered(r.rest)
                         /\ a \notin Data /\ \A i \in 1..Len(toRx) : toRx[i] \notin Data
  <1>1. toTx # <<>> => Head(toTx) = toTx[1]
    BY HeadTailProperties DEF LinesOK
  <1>2. tx.stage = "Established" /\ tx.blk = 1 => r.pkt = Nothing \/ r.pkt.code = "C"
    BY <1>1 DEF FromAnswers, TxInStep, TxAt
  <1>3. CASE r.pkt = Nothing /\ r.rest = toTx
    BY <1>2, <1>3 DEF TxInStep
  <1>4. CASE toTx # <<>> /\ r.pkt = Head(toTx) /\ r.rest = Tail(toTx)
    <2>1. Early(tx) => Answered(r.rest)
      BY <1>4, AnsweredTail DEF TxInStep, LinesOK
    <2>2. tx.stage = "Established" /\ tx.blk = 1 => r.pkt.code = "C"
      BY <1>1, <1>4 DEF TxInStep, TxAt
    <2>3. ~(tx.stage = "Established" /\ tx.blk = 1) => TxAt(tx, r.rest, Newest(a, toRx))
      BY DEF TxInStep, TxAt
    <2> QED
      BY <1>2, <2>1, <2>2, <2>3 DEF TxInStep
  <1> QED
    BY <1>3, <1>4 DEF FromAnswers

LEMMA FillFields ==
  ASSUME TxSafe, NEW n \in Numbers, NEW s \in DataStages, tx.count # FileSize
  PROVE  LET m == TxFill(n, s) pkt == Block(n, tx.count) IN
         /\ pkt \in Data /\ pkt.blk = n /\ pkt.pos = tx.count
         /\ m.stage = s /\ m.blk = n /\ m.buf = <<pkt>> /\ m.count = After(pkt)
         /\ m.active = tx.active /\ m.runs = tx.runs /\ Running(m)
  <1> DEFINE d == Reset(tx, s)
             pkt == Block(n, tx.count)
             m == [d EXCEPT !.blk = n, !.status = "Transmit", !.buf = <<pkt>>,
                            !.count = @ + Smaller(Length(pkt), FileSize - @)]
  <1>1. s \in Stages /\ tx \in TxState /\ tx.count \in 0..FileSize
    BY DEF TxSafe, TxSound, TxState, Stages, DataStages
  <1>2. /\ d \in TxState /\ d.stage = s /\ d.runs = tx.runs
        /\ d.active = tx.active /\ d.count = tx.count
    BY <1>1, ResetTx
  <1>3. pkt \in Data /\ pkt.blk = n /\ pkt.pos = tx.count
    <2>1. tx.count \in 0..(FileSize - 1)
      BY <1>1, SizeAssumption
    <2>2. pkt \in Data
      BY <2>1 DEF Data
    <2>3. pkt.blk = n /\ pkt.pos = tx.count
      BY DEF Block
    <2> QED
      BY <2>2, <2>3
  <1>4. TxFill(n, s) = m
    BY DEF TxFill
  <1> HIDE DEF d, pkt
  <1>5. /\ m.stage = s /\ m.blk = n /\ m.buf = <<pkt>> /\ m.status = "Transmit"
        /\ m.active = tx.active /\ m.runs = tx.runs
        /\ m.count = tx.count + Smaller(Length(pkt), FileSize - tx.count)
    BY <1>2 DEF TxState
  <1>6. m.count = After(pkt) /\ Running(m)
    BY <1>3, <1>5 DEF After, Running
  <1> HIDE DEF m
  <1> QED
    BY <1>3, <1>4, <1>5, <1>6 DEF pkt

LEMMA EotFields ==
  ASSUME TxSafe, NEW n \in Numbers, NEW s \in DataStages
  PROVE  LET m == TxEot(n, s) IN
         /\ m.stage = s /\ m.blk = n /\ m.buf = <<Byte("EOT")>> /\ m.count = tx.count
         /\ m.active = tx.active /\ m.runs = tx.runs /\ Running(m)
  <1> DEFINE d == Reset(tx, s)
             m == [d EXCEPT !.blk = n, !.status = "Transmit", !.buf = <<Byte("EOT")>>]
  <1>1. /\ d \in TxState /\ d.stage = s /\ d.runs = tx.runs
        /\ d.active = tx.active /\ d.count = tx.count
    BY ResetTx DEF TxSafe, TxSound, Stages, DataStages
  <1>2. TxEot(n, s) = m
    BY DEF TxEot
  <1> HIDE DEF d
  <1>3. /\ m.stage = s /\ m.blk = n /\ m.buf = <<Byte("EOT")>> /\ m.status = "Transmit"
        /\ m.active = tx.active /\ m.runs = tx.runs /\ m.count = tx.count
    BY <1>1 DEF TxState
  <1> HIDE DEF m
  <1> QED
    BY <1>2, <1>3 DEF Running
-----------------------------------------------------------------------------
(***************************************************************************)
(* The stages, on an unspoiled line                                        *)
(***************************************************************************)
LEMMA NoneInStep ==
  ASSUME TxSafe, Running(tx), tx.active, TransmitStageNone,
         NEW a, Continues(a, toRx), TxInStep(a)
  PROVE  TxSteps(a)
  <1> DEFINE r == [rest |-> toTx]
             m == Reset(tx, "Establishing")
             b == Newest(a, toRx)
  <1>1. /\ m \in TxState /\ m.stage = "Establishing" /\ m.status = tx.status
        /\ m.active = tx.active /\ m.runs = tx.runs
    BY ResetTx DEF TxSafe, TxSound, Stages
  <1>2. TxSlot(r, m, <<>>) /\ r.rest = toTx
    BY DEF TransmitStageNone
  <1>3. b = Byte("C") /\ Early(tx)
    BY DEF TransmitStageNone, TxInStep, TxAt, Early
  <1> HIDE DEF m, r
  <1>4. Running(m) /\ TxAt(m, r.rest, b)
    BY <1>1, <1>3 DEF Running, TxAt
  <1> QED
    BY <1>1, <1>2, <1>3, <1>4, TxWentOn DEF TxSafe, TxInStep

LEMMA OpenInStep ==
  ASSUME TxSafe, tx.active, NEW r, NEW a, Continues(a, toRx), Newest(a, toRx) = Byte("C"),
         Answered(r.rest), a \notin Data, \A i \in 1..Len(toRx) : toRx[i] \notin Data,
         TxOpen(r)
  PROVE  TxSteps(a)
  <1> DEFINE d == Reset(tx, "Established")
             m == [d EXCEPT !.open = TRUE, !.count = 0, !.status = "Establish",
                            !.buf = <<Header("file")>>]
             c == Reset(tx, "None")
  <1>1. CASE TxSlot(r, m, <<Header("file")>>)
    <2>1. /\ d \in TxState /\ d.stage = "Established" /\ d.runs = tx.runs
          /\ d.active = tx.active /\ d.blk = 0
      BY ResetTx DEF TxSafe, TxSound, Stages
    <2> HIDE DEF d
    <2>2. m \in TxState
      <3>1. 0 \in 0..FileSize /\ "Establish" \in Statuses /\ <<Header("file")>> \in Seq(Item)
        BY SizeAssumption, HeaderItem, OneItem DEF Statuses
      <3> QED
        BY <2>1, <3>1, Zenon DEF TxState
    <2>3. /\ m.stage = "Established" /\ m.runs = tx.runs /\ m.active = tx.active /\ m.blk = 0
          /\ m.count = 0 /\ m.status = "Establish" /\ m.buf = <<Header("file")>>
      BY <2>1 DEF TxState
    <2> HIDE DEF m
    <2>4. Running(m) /\ TxAt(m, r.rest, Header("file"))
      BY <2>3 DEF Running, TxAt
    <2>5. Follows(Newest(a, toRx), Header("file"))
      BY DEF Follows, NextPacket, Byte
    <2> QED
      BY <1>1, <2>2, <2>3, <2>4, <2>5, HeaderItem, TxWentOn DEF TxSafe
  <1>2. CASE /\ tx' = [c EXCEPT !.buf = Cans, !.status = "Error", !.timer = TRUE]
             /\ toRx' = toRx \o Cans
    <2>1. c \in TxState /\ c.runs = tx.runs
      BY ResetTx DEF TxSafe, TxSound, Stages
    <2> HIDE DEF c
    <2>2. tx'.status = "Error" /\ tx'.runs = tx.runs
      BY <1>2, <2>1 DEF TxState
    <2>3. Continues(a, toRx')
      BY <1>2, ContinuesCans DEF TxSafe, LinesOK
    <2> QED
      BY <2>2, <2>3 DEF TxSteps, Final
  <1> QED
    BY <1>1, <1>2 DEF TxOpen

LEMMA EstablishingInStep ==
  ASSUME TxSafe, Running(tx), tx.active, TransmitStageEstablishing,
         NEW a, Continues(a, toRx), TxInStep(a)
  PROVE  TxSteps(a)
  <1>1. Newest(a, toRx) = Byte("C") /\ Early(tx) /\ LinesOK
    BY DEF TransmitStageEstablishing, TxInStep, TxAt, Early, TxSafe
  <1>2. PICK r \in ReceivePacket(tx, toTx) :
          \/ TxOpen(r)
          \/ TxOver(r, "Abort")
          \/ TxTimeout(r)
          \/ TxSlot(r, Waited(tx), <<>>)
    BY DEF TransmitStageEstablishing
  <1>3. FromAnswers(r)
    BY <1>1, ReadsAnswers
  <1>4. /\ Answered(r.rest) /\ a \notin Data
        /\ \A i \in 1..Len(toRx) : toRx[i] \notin Data
    BY <1>1, <1>3, AnswersLeft
  <1>5. CASE TxSlot(r, Waited(tx), <<>>)
    <2>1. Waited(tx) \in TxState
      BY CountingReady DEF TxSafe, TxReady
    <2>2. /\ Waited(tx).stage = "Establishing" /\ Waited(tx).status = tx.status
          /\ Waited(tx).active = tx.active /\ Waited(tx).runs = tx.runs
      BY DEF TransmitStageEstablishing, TxSafe, TxSound, TxState, Waited
    <2>3. Running(Waited(tx)) /\ TxAt(Waited(tx), r.rest, Byte("C"))
      BY <2>2 DEF Running, TxAt
    <2> QED
      BY <1>1, <1>4, <1>5, <2>1, <2>2, <2>3, TxWentOn
  <1> QED
    BY <1>1, <1>2, <1>4, <1>5, OpenInStep, TxGivesUp

\* The first block is read on the ACK, whose C comes right behind it.
LEMMA FirstFillInStep ==
  ASSUME TxSafe, tx.active, tx.stage = "Established", tx.blk = 0, tx.count # FileSize,
         NEW a, Continues(a, toRx), TxInStep(a), NEW r, FromAnswers(r), r.pkt.code = "ACK",
         TxSlot(r, TxFill(1, "Established"), <<>>), tx.told < tx.runs, tx.open
  PROVE  TxSteps(a)
  <1> DEFINE m == TxFill(1, "Established")
             b == Newest(a, toRx)
  <1>1. b = Header("file") /\ tx.count = 0 /\ LinesOK
    BY DEF TxInStep, TxAt, TxSafe
  <1>2. "Established" \in DataStages /\ 1 \in Numbers
    BY ZeroNumber DEF DataStages
  <1>3. m \in TxState
    BY <1>2, FillReady DEF TxReady
  <1>4. /\ m.stage = "Established" /\ m.blk = 1 /\ m.buf = <<Block(1, 0)>>
        /\ m.count = After(Block(1, 0)) /\ m.active = tx.active /\ m.runs = tx.runs
        /\ Running(m)
    <2>1. /\ m.stage = "Established" /\ m.blk = 1 /\ m.buf = <<Block(1, tx.count)>>
          /\ m.count = After(Block(1, tx.count)) /\ m.active = tx.active /\ m.runs = tx.runs
          /\ Running(m)
      BY <1>2, FillFields
    <2> HIDE DEF m
    <2> QED
      BY <1>1, <2>1
  <1>5. r.rest # <<>> /\ r.rest[1].code = "C"
    <2>1. toTx # <<>> /\ r.pkt = toTx[1] /\ r.rest = Tail(toTx) /\ Len(toTx) \in Nat /\ Len(toTx) # 0
      BY <1>1, HeadTailProperties, LenProperties, EmptySeq DEF FromAnswers, LinesOK, Nothing
    <2>2. Answered(toTx)
      BY DEF TxInStep, Early
    <2>3. 1 \in 1..Len(toTx)
      BY <2>1
    <2>4. 1 < Len(toTx) /\ toTx[1 + 1].code = "C"
      BY <2>1, <2>2, <2>3 DEF Answered
    <2>5. Len(Tail(toTx)) = Len(toTx) - 1 /\ \A i \in 1..(Len(toTx) - 1) : Tail(toTx)[i] = toTx[i + 1]
      BY <1>1, <2>1, HeadTailProperties DEF LinesOK
    <2>6. Tail(toTx)[1] = toTx[1 + 1]
      BY <2>4, <2>5
    <2> QED
      BY <2>1, <2>4, <2>5, <2>6
  <1>6. TxSlot(r, m, <<>>)
    OBVIOUS
  <1> HIDE DEF m
  <1>7. TxAt(m, r.rest, b) /\ ~Early(m)
    BY <1>1, <1>4, <1>5 DEF TxAt, Early
  <1> QED
    BY <1>1, <1>3, <1>4, <1>6, <1>7, TxWentOn

\* EOT is written once the whole file has been.
LEMMA EotInStep ==
  ASSUME TxSafe, tx.active, tx.told < tx.runs, tx.open,
         NEW n \in Numbers, NEW s \in DataStages,
         (s = "Established" /\ n = 2 /\ FileSize = 0 /\ tx.count = 0) \/ s = "Finishing",
         NEW a, Continues(a, toRx), Follows(Newest(a, toRx), Byte("EOT")),
         NEW r, TxSlot(r, TxEot(n, s), <<Byte("EOT")>>)
  PROVE  TxSteps(a)
  <1> DEFINE m == TxEot(n, s)
  <1>1. /\ m.stage = s /\ m.blk = n /\ m.buf = <<Byte("EOT")>> /\ m.count = tx.count
        /\ m.active = tx.active /\ m.runs = tx.runs /\ Running(m)
    BY EotFields
  <1>2. m \in TxState
    BY EotReady DEF TxReady
  <1>3. TxSlot(r, m, <<Byte("EOT")>>)
    OBVIOUS
  <1> HIDE DEF m
  <1>4. TxAt(m, r.rest, Byte("EOT")) /\ ~Early(m)
    BY <1>1 DEF TxAt, Early
  <1>5. Byte("EOT") \in Item
    BY ByteItem DEF Codes
  <1> QED
    BY <1>1, <1>2, <1>3, <1>4, <1>5, TxWentOn DEF TxSafe

\* The C after the header writes what was read on the ACK, if it was.
LEMMA AnsweredInStep ==
  ASSUME TxSafe, Running(tx), tx.active, tx.stage = "Established",
         NEW a, Continues(a, toRx), TxInStep(a), NEW r, FromAnswers(r),
         TxSlot(r, [tx EXCEPT !.stage = AfterEstablished(tx.blk), !.time = 0, !.err = 0], tx.buf)
  PROVE  TxSteps(a)
  <1> DEFINE c == [tx EXCEPT !.stage = AfterEstablished(tx.blk), !.time = 0, !.err = 0]
  <1>1. c \in TxState
    <2>1. AfterEstablished(tx.blk) \in Stages
      BY DEF AfterEstablished, Stages
    <2> QED
      BY <2>1, Zenon DEF TxSafe, TxSound, TxState
  <1>2. /\ c.stage = AfterEstablished(tx.blk) /\ c.status = tx.status /\ c.blk = tx.blk
        /\ c.buf = tx.buf /\ c.count = tx.count /\ c.runs = tx.runs /\ c.active = tx.active
    BY DEF TxSafe, TxSound, TxState
  <1>3. TxSlot(r, c, tx.buf)
    OBVIOUS
  <1> HIDE DEF c
  <1>4. PICK b \in Item : /\ tx.buf = <<b>> /\ Follows(Newest(a, toRx), b)
                          /\ TxAt(tx, toTx, b)
    BY BufferFollows DEF TxInStep
  <1>5. Early(tx) => /\ Answered(r.rest) /\ a \notin Data
                     /\ \A i \in 1..Len(toRx) : toRx[i] \notin Data
    BY AnswersLeft DEF TxSafe
  <1>6. Running(c)
    BY <1>2 DEF Running
  <1>7. TxAt(c, r.rest, b) /\ (Early(c) => Early(tx))
    <2>1. CASE tx.blk = 0
      BY <1>2, <1>4, <2>1 DEF TxAt, AfterEstablished, Early
    <2>2. CASE tx.blk = 1
      <3>1. c.stage = "Transmitting" /\ FileSize # 0
        BY <1>2, <1>4, <2>2 DEF TxAt, AfterEstablished
      <3>2. /\ tx.buf = <<Block(1, 0)>> /\ tx.count = After(Block(1, 0))
        BY <1>4, <2>2 DEF TxAt
      <3>3. b = Block(1, 0)
        BY <1>4, <3>2
      <3>4. b \in Data /\ b.blk = 1
        BY <3>1, <3>3, FirstBlock
      <3> QED
        BY <1>2, <1>4, <2>2, <3>1, <3>2, <3>3, <3>4 DEF TxAt, Early
    <2>3. CASE tx.blk = 2
      BY <1>2, <1>4, <2>3 DEF TxAt, AfterEstablished, Early
    <2> QED
      BY <1>4, <2>1, <2>2, <2>3 DEF TxAt
  <1> QED
    BY <1>1, <1>2, <1>3, <1>4, <1>5, <1>6, <1>7, TxWentOn DEF TxSafe

LEMMA EstablishedInStep ==
  ASSUME TxSafe, Running(tx), tx.active, tx.timer, TransmitStageEstablished,
         NEW a, Continues(a, toRx), TxInStep(a)
  PROVE  TxSteps(a)
  <1> DEFINE c == [tx EXCEPT !.stage = AfterEstablished(tx.blk), !.time = 0, !.err = 0]
             l == Newest(a, toRx)
  <1>1. tx.stage = "Established" /\ tx.told < tx.runs /\ tx.open /\ LinesOK
    BY SlotOfTransfer DEF TransmitStageEstablished, TxSafe, TxSound, DataStages
  <1>2. PICK r \in ReceivePacket(tx, toTx) :
          \/ r.pkt.code # "C" /\ (TxRepeat(r) \/ TxSilence(r))
          \/ TxError(r) \/ TxOver(r, "Abort")
          \/ TxSlot(r, c, tx.buf)
          \/ /\ r.pkt.code = "ACK" /\ tx.count # FileSize
             /\ TxSlot(r, TxFill(1, "Established"), <<>>)
          \/ /\ r.pkt.code = "ACK" /\ tx.count = FileSize
             /\ TxSlot(r, TxEot(2, "Established"), <<Byte("EOT")>>)
    BY DEF TransmitStageEstablished
  <1>3. FromAnswers(r)
    BY <1>1, ReadsAnswers
  <1>4. CASE r.pkt.code # "C" /\ (TxRepeat(r) \/ TxSilence(r))
    <2>1. /\ TxAt(tx, r.rest, l)
          /\ Early(tx) => /\ Answered(r.rest)
                          /\ a \notin Data /\ \A i \in 1..Len(toRx) : toRx[i] \notin Data
      BY <1>1, <1>3, <1>4, AnswersLeft
    <2> QED
      BY <1>1, <1>4, <2>1, TxSilenceInStep
  <1>5. CASE TxError(r) \/ TxOver(r, "Abort")
    BY <1>5, TxGivesUp
  <1>6. CASE TxSlot(r, c, tx.buf)
    BY <1>1, <1>3, <1>6, AnsweredInStep
  <1>7. r.pkt.code = "ACK" => tx.blk # 1
    BY <1>1, <1>3, AnswersLeft DEF Nothing
  <1>8. CASE /\ r.pkt.code = "ACK" /\ tx.count # FileSize
             /\ TxSlot(r, TxFill(1, "Established"), <<>>)
    <2>1. tx.blk = 0
      BY <1>1, <1>7, <1>8 DEF TxInStep, TxAt
    <2> QED
      BY <1>1, <1>3, <1>8, <2>1, FirstFillInStep
  <1>9. CASE /\ r.pkt.code = "ACK" /\ tx.count = FileSize
             /\ TxSlot(r, TxEot(2, "Established"), <<Byte("EOT")>>)
    <2>1. FileSize = 0 /\ l \in {Header("file"), Byte("EOT")}
      BY <1>1, <1>7, <1>9 DEF TxInStep, TxAt
    <2>2. Follows(l, Byte("EOT"))
      BY <2>1 DEF Follows, NextPacket, Header
    <2>3. "Established" \in DataStages /\ 2 \in Numbers
      BY ZeroNumber DEF DataStages
    <2> QED
      BY <1>1, <1>9, <2>1, <2>2, <2>3, EotInStep
  <1> QED
    BY <1>2, <1>4, <1>5, <1>6, <1>8, <1>9

LEMMA TransmittingInStep ==
  ASSUME TxSafe, Running(tx), tx.active, tx.timer, TransmitStageTransmitting,
         NEW a, Continues(a, toRx), TxInStep(a)
  PROVE  TxSteps(a)
  <1> DEFINE l == Newest(a, toRx)
             m == TxFill(NextBlk(tx.blk), "Transmitting")
             b == Block(NextBlk(tx.blk), tx.count)
  <1>1. /\ tx.stage = "Transmitting" /\ tx.told < tx.runs /\ tx.open /\ LinesOK
        /\ l \in Data /\ l.blk = tx.blk /\ tx.count = After(l) /\ ~Early(tx)
    BY SlotOfTransfer DEF TransmitStageTransmitting, TxSafe, TxSound, DataStages, TxInStep,
       TxAt, Early
  <1>2. PICK r \in ReceivePacket(tx, toTx) :
          \/ TxRepeat(r) \/ TxSilence(r)
          \/ TxOver(r, "Abort")
          \/ tx.count # FileSize /\ TxSlot(r, m, m.buf)
          \/ tx.count = FileSize /\ TxSlot(r, TxEot(0, "Finishing"), <<Byte("EOT")>>)
    BY DEF TransmitStageTransmitting
  <1>3. FromAnswers(r)
    BY <1>1, ReadsAnswers
  <1>4. CASE TxRepeat(r) \/ TxSilence(r)
    <2>1. TxAt(tx, r.rest, l)
      BY <1>1, <1>3, AnswersLeft
    <2> QED
      BY <1>1, <1>4, <2>1, TxSilenceInStep
  <1>5. CASE TxOver(r, "Abort")
    BY <1>5, TxGivesUp
  <1>6. l.body = "data" /\ l.code \in {"SOH", "STX"}
    BY <1>1, DataFields
  <1>7. CASE tx.count # FileSize /\ TxSlot(r, m, m.buf)
    <2>1. NextBlk(tx.blk) \in Numbers /\ "Transmitting" \in DataStages
      BY NextBlkNumber DEF TxSafe, TxSound, TxState, DataStages
    <2>2. m \in TxState
      BY <1>1, <2>1, FillReady DEF TxReady
    <2>3. /\ b \in Data /\ b.blk = NextBlk(tx.blk)
          /\ m.stage = "Transmitting" /\ m.blk = NextBlk(tx.blk) /\ m.buf = <<b>>
          /\ m.count = After(b) /\ m.active = tx.active /\ m.runs = tx.runs /\ Running(m)
      BY <1>7, <2>1, FillFields
    <2>4. Follows(l, b)
      BY <1>1, <1>6, <1>7 DEF Follows, NextPacket
    <2>5. TxSlot(r, m, m.buf) /\ b \in Item
      BY <1>7, <2>3, DataFields
    <2> HIDE DEF m, b
    <2>6. TxAt(m, r.rest, b) /\ ~Early(m)
      BY <2>3 DEF TxAt, Early
    <2> QED
      BY <1>1, <2>2, <2>3, <2>4, <2>5, <2>6, TxWentOn
  <1>8. CASE tx.count = FileSize /\ TxSlot(r, TxEot(0, "Finishing"), <<Byte("EOT")>>)
    <2>1. Follows(l, Byte("EOT"))
      BY <1>1, <1>6, <1>8 DEF Follows, NextPacket
    <2>2. "Finishing" \in DataStages /\ 0 \in Numbers
      BY ZeroNumber DEF DataStages
    <2> QED
      BY <1>1, <1>8, <2>1, <2>2, EotInStep
  <1> QED
    BY <1>2, <1>4, <1>5, <1>7, <1>8

\* The end of the data again, or the null header.
LEMMA EndsInStep ==
  ASSUME TxSafe, Running(tx), tx.active, NEW a, Continues(a, toRx), NEW r,
         NEW s \in {"Finishing", "Finished"},
         NEW b, b = IF s = "Finishing" THEN Byte("EOT") ELSE Header("null"),
         Follows(Newest(a, toRx), b), TxSlot(r, [Reset(tx, s) EXCEPT !.buf = <<b>>], <<b>>)
  PROVE  TxSteps(a)
  <1> DEFINE d == Reset(tx, s)
             m == [d EXCEPT !.buf = <<b>>]
  <1>1. s \in Stages /\ b \in Item
    BY ByteItem, HeaderItem DEF Stages, Codes
  <1>2. /\ d \in TxState /\ d.stage = s /\ d.status = tx.status
        /\ d.runs = tx.runs /\ d.active = tx.active
    BY <1>1, ResetTx DEF TxSafe, TxSound
  <1>3. TxSlot(r, m, <<b>>)
    OBVIOUS
  <1> HIDE DEF d
  <1>4. m \in TxState
    BY <1>1, <1>2, OneItem, Zenon DEF TxState
  <1>5. /\ m.stage = s /\ m.status = tx.status /\ m.runs = tx.runs
        /\ m.active = tx.active /\ m.buf = <<b>>
    BY <1>2 DEF TxState
  <1> HIDE DEF m
  <1>6. Running(m) /\ TxAt(m, r.rest, b) /\ ~Early(m)
    BY <1>5 DEF Running, TxAt, Early
  <1> QED
    BY <1>1, <1>3, <1>4, <1>5, <1>6, TxWentOn DEF TxSafe

LEMMA FinishingInStep ==
  ASSUME TxSafe, Running(tx), tx.active, tx.timer, TransmitStageFinishing,
         NEW a, Continues(a, toRx), TxInStep(a)
  PROVE  TxSteps(a)
  <1>1. /\ tx.stage = "Finishing" /\ LinesOK /\ Newest(a, toRx) = Byte("EOT") /\ ~Early(tx)
    BY DEF TransmitStageFinishing, TxSafe, TxInStep, TxAt, Early
  <1>2. PICK r \in ReceivePacket(tx, toTx) :
          \/ TxSlot(r, [Reset(tx, "Finishing") EXCEPT !.buf = <<Byte("EOT")>>], <<Byte("EOT")>>)
          \/ TxSlot(r, [Reset(tx, "Finished") EXCEPT !.buf = <<Header("null")>>],
                    <<Header("null")>>)
          \/ TxOver(r, "Abort")
          \/ TxSilence(r)
    BY DEF TransmitStageFinishing
  <1>3. FromAnswers(r)
    BY <1>1, ReadsAnswers
  <1>4. Follows(Byte("EOT"), Byte("EOT")) /\ Follows(Byte("EOT"), Header("null"))
    BY DEF Follows, NextPacket, Byte
  <1>5. CASE TxSlot(r, [Reset(tx, "Finishing") EXCEPT !.buf = <<Byte("EOT")>>], <<Byte("EOT")>>)
    BY <1>1, <1>4, <1>5, EndsInStep
  <1>6. CASE TxSlot(r, [Reset(tx, "Finished") EXCEPT !.buf = <<Header("null")>>],
                    <<Header("null")>>)
    BY <1>1, <1>4, <1>6, EndsInStep
  <1>7. CASE TxOver(r, "Abort")
    BY <1>7, TxGivesUp
  <1>8. CASE TxSilence(r)
    <2>1. TxAt(tx, r.rest, Newest(a, toRx))
      BY <1>1, <1>3, AnswersLeft
    <2> QED
      BY <1>1, <1>8, <2>1, TxSilenceInStep
  <1> QED
    BY <1>2, <1>5, <1>6, <1>7, <1>8

LEMMA FinishedInStep ==
  ASSUME TxSafe, Running(tx), tx.active, tx.timer, TransmitStageFinished,
         NEW a, Continues(a, toRx), TxInStep(a)
  PROVE  TxSteps(a)
  <1>1. tx.stage = "Finished" /\ LinesOK /\ ~Early(tx)
    BY DEF TransmitStageFinished, TxSafe, Early
  <1>2. PICK r \in ReceivePacket(tx, toTx) :
          \/ TxRepeat(r) \/ TxSilence(r)
          \/ TxOver(r, "Abort") \/ TxOver(r, "Finish")
    BY DEF TransmitStageFinished
  <1>3. TxAt(tx, r.rest, Newest(a, toRx))
    BY <1>1, ReadsAnswers, AnswersLeft
  <1> QED
    BY <1>1, <1>2, <1>3, TxGivesUp, TxSilenceInStep

\* Every slot of a transfer that goes on.
LEMMA TxTickInStep ==
  ASSUME TxSafe, Running(tx), tx.active, TxTick, NEW a, Continues(a, toRx), TxInStep(a)
  PROVE  TxSteps(a)
  BY NoneInStep, EstablishingInStep, EstablishedInStep, TransmittingInStep,
     FinishingInStep, FinishedInStep DEF TxTick

\* A transfer that is cancelled.
LEMMA TxCancelInStep ==
  ASSUME TxSafe, TxCancel, NEW a, Continues(a, toRx)
  PROVE  TxSteps(a)
  <1> DEFINE m == Reset(tx, "None")
             n == [m EXCEPT !.buf = Cans, !.open = FALSE, !.timer = FALSE]
  <1>1. m \in TxState /\ m.runs = tx.runs
    BY ResetTx DEF TxSafe, TxSound, Stages
  <1>2. TxReport(toTx, n, "Abort", Cans)
    BY DEF TxCancel
  <1> HIDE DEF m
  <1>3. n \in TxState
    BY <1>1, CansLine, Zenon DEF TxState
  <1>4. n.runs = tx.runs /\ "Abort" \in Final
    BY <1>1 DEF TxState, Final
  <1> HIDE DEF n
  <1> QED
    BY <1>2, <1>3, <1>4, TxReportInStep

\* The last slot after the end writes nothing.
LEMMA TxLastSlot ==
  ASSUME TxSafe, ~Running(tx), TxTick
  PROVE  toRx' = toRx /\ tx'.status = tx.status /\ tx'.runs = tx.runs
  <1>1. tx.stage = "None"
    BY DEF TxTick, TxSafe, TxSound
  <1>2. TxSlot([rest |-> toTx], Reset(tx, "Establishing"), <<>>)
    BY <1>1 DEF TxTick, TransmitStageNone, TransmitStageEstablishing, TransmitStageEstablished,
       TransmitStageTransmitting, TransmitStageFinishing, TransmitStageFinished
  <1> DEFINE m == Reset(tx, "Establishing")
  <1>3. m \in TxState /\ m.status = tx.status /\ m.runs = tx.runs
    BY ResetTx DEF TxSafe, TxSound, Stages
  <1> HIDE DEF m
  <1>4. tx'.status = m.status /\ tx'.runs = m.runs /\ toRx' = toRx \o <<>>
    BY <1>2, <1>3 DEF TxSlot, TxState, m
  <1> QED
    BY <1>3, <1>4 DEF TxSafe, LinesOK

\* A sending side that nobody answers does not get past its first stages, and
\* only gives up behind its C.
LEMMA TxUnanswered ==
  ASSUME TxSafe, TxTick \/ TxCancel, toTx = <<>>, tx.stage \in {"None", "Establishing"},
         \A i \in 1..Len(toRx) : toRx[i] \in Starts
  PROVE  /\ tx'.stage \in {"None", "Establishing"} /\ toTx' = <<>>
         /\ \A i \in 1..Len(toRx') : toRx'[i] \in Starts
  <1> DEFINE Idle(m) == m \in TxState /\ m.stage \in {"None", "Establishing"}
             Kept    == /\ tx'.stage \in {"None", "Establishing"} /\ toTx' = <<>>
                        /\ \A i \in 1..Len(toRx') : toRx'[i] \in Starts
  <1>0. tx \in TxState /\ LinesOK /\ {"None", "Establishing"} \subseteq Stages
    BY DEF TxSafe, TxSound, Stages
  <1>1. ASSUME NEW m, Idle(m), NEW r, r.rest = <<>>, TxSlot(r, m, <<>>) PROVE Kept
    <2>1. tx'.stage = m.stage
      BY <1>1 DEF TxSlot, TxState
    <2>2. toTx' = <<>> /\ toRx' = toRx
      BY <1>0, <1>1 DEF TxSlot, LinesOK
    <2> QED
      BY <1>1, <2>1, <2>2
  <1>2. ASSUME NEW m, Idle(m), NEW s, NEW in, in = <<>>, TxReport(in, m, s, Cans) PROVE Kept
    <2>1. tx'.stage = m.stage
      BY <1>2 DEF TxReport, TxState
    <2>2. toTx' = <<>>
      BY <1>2 DEF TxReport, Uncleared, Suffixes
    <2>3. /\ Cans \in Seq(Item) /\ Len(Cans) = CanNumber /\ CanNumber \in Nat
          /\ \A i \in 1..CanNumber : Cans[i] \in Starts
      BY CansLine, SizeAssumption DEF Cans, Starts
    <2> HIDE DEF Cans
    <2> DEFINE l == toRx \o Cans
    <2>4. l \in Seq(Item) /\ \A i \in 1..Len(l) : l[i] \in Starts
      BY <1>0, <2>3 DEF LinesOK
    <2> HIDE DEF l
    <2>5. toRx' = toRx \/ \E k \in 0..Len(l) : toRx' = SubSeq(l, 1, k)
      BY <1>2, Zenon DEF TxReport, Sent, Prefixes, l
    <2>6. \A i \in 1..Len(toRx') : toRx'[i] \in Starts
      <3>1. CASE toRx' = toRx
        BY <3>1
      <3>2. CASE \E k \in 0..Len(l) : toRx' = SubSeq(l, 1, k)
        BY <2>4, <3>2, SubSeqProperties, LenProperties
      <3> QED
        BY <2>5, <3>1, <3>2
    <2> QED
      BY <1>2, <2>1, <2>2, <2>6
  <1>3. CASE TransmitStageNone
    <2> DEFINE m == Reset(tx, "Establishing")
    <2>1. m \in TxState /\ m.stage = "Establishing"
      BY <1>0, ResetTx
    <2>2. TxSlot([rest |-> toTx], m, <<>>)
      BY <1>3 DEF TransmitStageNone
    <2> HIDE DEF m
    <2> QED
      BY <1>1, <2>1, <2>2
  <1> DEFINE d == Reset(tx, "None")
  <1>4. d \in TxState /\ d.stage = "None"
    BY <1>0, ResetTx
  <1>5. CASE TransmitStageEstablishing
    <2>1. PICK r \in ReceivePacket(tx, toTx) :
            \/ r.pkt.code \in {"C", "CAN"}
            \/ TxTimeout(r)
            \/ TxSlot(r, Waited(tx), <<>>)
      BY <1>5 DEF TransmitStageEstablishing
    <2>2. r.pkt = Nothing /\ r.rest = <<>>
      BY DEF ReceivePacket
    <2>3. CASE TxTimeout(r)
      <3> DEFINE n == [d EXCEPT !.buf = Cans, !.timer = TRUE]
      <3>1. TxReport(r.rest, n, "Timeout", Cans)
        BY <2>3 DEF TxTimeout
      <3> HIDE DEF d
      <3>2. n \in TxState
        BY <1>4, CansLine, Zenon DEF TxState
      <3>3. n.stage = "None"
        BY <1>4 DEF TxState
      <3> HIDE DEF n
      <3> QED
        BY <1>2, <2>2, <3>1, <3>2, <3>3
    <2>4. CASE TxSlot(r, Waited(tx), <<>>)
      <3>1. Waited(tx) \in TxState /\ Waited(tx).stage = tx.stage
        BY <1>0 DEF Waited, TxState
      <3> QED
        BY <1>1, <2>2, <2>4, <3>1
    <2> QED
      BY <2>1, <2>2, <2>3, <2>4 DEF Nothing
  <1>6. CASE TxCancel
    <2> DEFINE n == [d EXCEPT !.buf = Cans, !.open = FALSE, !.timer = FALSE]
    <2>1. TxReport(toTx, n, "Abort", Cans)
      BY <1>6 DEF TxCancel
    <2> HIDE DEF d
    <2>2. n \in TxState
      BY <1>4, CansLine, Zenon DEF TxState
    <2>3. n.stage = "None"
      BY <1>4 DEF TxState
    <2> HIDE DEF n
    <2> QED
      BY <1>2, <2>1, <2>2, <2>3
  <1> QED
    BY <1>3, <1>5, <1>6 DEF TxTick, TransmitStageEstablished, TransmitStageTransmitting,
       TransmitStageFinishing, TransmitStageFinished
-----------------------------------------------------------------------------
(***************************************************************************)
(* On a clean line: what one slot makes of the answer that came first      *)
(***************************************************************************)
FirstAnswer == [pkt |-> Head(toTx), rest |-> Tail(toTx)]

\* The sending side goes on in stage s and has written out.
TxGoes(s, out) == TxUp' /\ tx'.stage = s /\ toTx' = Tail(toTx) /\ toRx' = toRx \o out

\* It has reported s.
TxLeaves(s) == tx'.status = s /\ tx'.stage = "None" /\ toTx' = <<>> /\ toRx' = toRx

\* It has given up.
TxFails == tx'.status = "Error" /\ tx'.stage = "None" /\ toTx' = Tail(toTx) /\ toRx' = toRx \o Cans

LEMMA TxSlotGoes ==
  ASSUME NEW m \in TxState, Running(m), NEW out, TxSlot(FirstAnswer, m, out)
  PROVE  /\ TxGoes(m.stage, out)
         /\ tx'.status = m.status /\ tx'.time = m.time /\ tx'.blk = m.blk
         /\ tx'.buf = m.buf /\ tx'.count = m.count
  BY DEF TxSlot, TxGoes, TxUp, TxState, Running, FirstAnswer

LEMMA TxOverLeaves ==
  ASSUME OnTime, TxSafe, NEW r, NEW s, TxOver(r, s)
  PROVE  TxLeaves(s)
  <1> DEFINE d == Reset(tx, "None")
             m == [d EXCEPT !.open = FALSE, !.timer = TRUE]
  <1>1. d \in TxState /\ d.stage = "None"
    BY ResetTx DEF TxSafe, TxSound, Stages
  <1>2. TxReport(r.rest, m, s, <<>>)
    BY DEF TxOver
  <1> HIDE DEF d
  <1>3. m.stage = "None" /\ tx' = [m EXCEPT !.status = s, !.active = FALSE, !.told = @ + 1]
    BY <1>1, <1>2 DEF TxReport, TxState
  <1>4. tx'.status = s /\ tx'.stage = "None"
    BY <1>1, <1>3 DEF TxState
  <1>5. toTx' = <<>> /\ toRx' = toRx
    BY <1>2, ClearsAll DEF TxReport
  <1> QED
    BY <1>4, <1>5 DEF TxLeaves

LEMMA TxTimeoutLeaves ==
  ASSUME OnTime, TxSafe, NEW r, TxTimeout(r)
  PROVE  TxLeaves("Timeout")
  <1> DEFINE d == Reset(tx, "None")
             m == [d EXCEPT !.buf = Cans, !.timer = TRUE]
  <1>1. d \in TxState /\ d.stage = "None"
    BY ResetTx DEF TxSafe, TxSound, Stages
  <1>2. TxReport(r.rest, m, "Timeout", Cans)
    BY DEF TxTimeout
  <1> HIDE DEF d
  <1>3. m.stage = "None" /\ tx' = [m EXCEPT !.status = "Timeout", !.active = FALSE, !.told = @ + 1]
    BY <1>1, <1>2 DEF TxReport, TxState
  <1>4. tx'.status = "Timeout" /\ tx'.stage = "None"
    BY <1>1, <1>3 DEF TxState
  <1>5. toTx' = <<>> /\ toRx' = toRx
    BY <1>2, ClearsAll DEF TxReport
  <1> QED
    BY <1>4, <1>5 DEF TxLeaves

LEMMA TxErrorFails ==
  ASSUME TxSafe, TxError(FirstAnswer)
  PROVE  TxFails
  <1> DEFINE d == Reset(tx, "None")
  <1>1. d \in TxState /\ d.stage = "None"
    BY ResetTx DEF TxSafe, TxSound, Stages
  <1>2. /\ tx' = [d EXCEPT !.buf = Cans, !.open = FALSE, !.status = "Error", !.timer = TRUE]
        /\ toTx' = Tail(toTx) /\ toRx' = toRx \o Cans
    BY DEF TxError, FirstAnswer
  <1> HIDE DEF d
  <1>3. tx'.status = "Error" /\ tx'.stage = "None"
    BY <1>1, <1>2 DEF TxState
  <1> QED
    BY <1>2, <1>3 DEF TxFails

\* A slot goes where its stage says.
LEMMA TxTickStage ==
  ASSUME TxTick
  PROVE  /\ tx.stage = "None"         => TransmitStageNone
         /\ tx.stage = "Establishing" => TransmitStageEstablishing
         /\ tx.stage = "Established"  => TransmitStageEstablished
         /\ tx.stage = "Transmitting" => TransmitStageTransmitting
         /\ tx.stage = "Finishing"    => TransmitStageFinishing
         /\ tx.stage = "Finished"     => TransmitStageFinished
  BY DEF TxTick, TransmitStageNone, TransmitStageEstablishing, TransmitStageEstablished,
     TransmitStageTransmitting, TransmitStageFinishing, TransmitStageFinished

\* A stage that reads finds nothing to read while the other side is to move.
LEMMA TxWaitsItsTurn ==
  ASSUME OnTime, TxSafe, TxTick, toTx = <<>>, toRx # <<>>
  PROVE  tx.stage = "None"
  <1>1. ReceivePacket(tx, toTx) = {}
    BY DEF ReceivePacket, Quiet, OnTime
  <1> QED
    BY <1>1 DEF TxTick, TransmitStageNone, TransmitStageEstablishing, TransmitStageEstablished,
       TransmitStageTransmitting, TransmitStageFinishing, TransmitStageFinished

\* What a slot reads of a line that begins with item.
LEMMA ReadsAnswer ==
  ASSUME OnTime, NEW item, Begins(toTx, item)
  PROVE  \A r \in ReceivePacket(tx, toTx) : r = FirstAnswer /\ r.pkt = item
  BY ReadsFirst, BeginsHead DEF FirstAnswer, Begins

LEMMA NoneGoes ==
  ASSUME TxSafe, TxTick, tx.stage = "None"
  PROVE  /\ tx'.stage = "Establishing" /\ tx'.status = tx.status /\ tx'.timer = Running(tx)
         /\ toTx' = toTx /\ toRx' = toRx
  <1> DEFINE m == Reset(tx, "Establishing")
  <1>1. m \in TxState /\ m.stage = "Establishing" /\ m.status = tx.status
    BY ResetTx DEF TxSafe, TxSound, Stages
  <1>2. TxSlot([rest |-> toTx], m, <<>>)
    BY TxTickStage DEF TransmitStageNone
  <1> HIDE DEF m
  <1>3. tx'.stage = m.stage /\ tx'.status = m.status /\ tx'.timer = Running(m)
        /\ toTx' = toTx /\ toRx' = toRx \o <<>>
    BY <1>1, <1>2 DEF TxSlot, TxState
  <1> QED
    BY <1>1, <1>3 DEF TxSafe, LinesOK, Running

LEMMA EstablishingWaits ==
  ASSUME OnTime, TxSafe, TxTick, tx.stage = "Establishing", toTx = <<>>
  PROVE  \/ TxLeaves("Timeout")
         \/ TxUp' /\ tx'.stage = "Establishing" /\ tx'.status = tx.status
            /\ toTx' = <<>> /\ toRx' = toRx
  <1>1. PICK r \in ReceivePacket(tx, toTx) : \/ r.pkt.code \in {"C", "CAN"}
                                        \/ TxTimeout(r)
                                        \/ TxSlot(r, Waited(tx), <<>>)
    BY TxTickStage DEF TransmitStageEstablishing
  <1>2. r.pkt = Nothing /\ r.rest = <<>>
    BY DEF ReceivePacket
  <1>3. CASE TxSlot(r, Waited(tx), <<>>)
    <2>1. /\ Waited(tx) \in TxState /\ Waited(tx).stage = "Establishing"
          /\ Waited(tx).status = tx.status
      BY DEF TxSafe, TxSound, Waited, TxState
    <2>2. Running(Waited(tx))
      BY <2>1 DEF Running, TxTick, TxSafe, TxSound
    <2>3. tx'.stage = Waited(tx).stage /\ tx'.status = Waited(tx).status /\ tx'.timer
          /\ toTx' = <<>> /\ toRx' = toRx \o <<>>
      BY <1>2, <1>3, <2>1, <2>2 DEF TxSlot, TxState
    <2> QED
      BY <2>1, <2>2, <2>3 DEF TxUp, Running, TxSafe, LinesOK
  <1> QED
    BY <1>1, <1>2, <1>3, TxTimeoutLeaves DEF Nothing

LEMMA EstablishingOnCall ==
  ASSUME OnTime, TxSafe, TxTick, tx.stage = "Establishing", Begins(toTx, Call)
  PROVE  \/ TxFails
         \/ /\ TxGoes("Established", <<Header("file")>>)
            /\ tx'.count = 0 /\ tx'.blk = 0 /\ tx'.buf = <<Header("file")>>
  <1>1. TxOpen(FirstAnswer)
    BY TxTickStage, ReadsAnswer DEF TransmitStageEstablishing, Call, Byte
  <1> DEFINE d == Reset(tx, "Established")
             m == [d EXCEPT !.open = TRUE, !.count = 0, !.status = "Establish",
                            !.buf = <<Header("file")>>]
             c == Reset(tx, "None")
  <1>2. CASE TxSlot(FirstAnswer, m, <<Header("file")>>)
    <2>1. d \in TxState /\ d.stage = "Established" /\ d.blk = 0
      BY ResetTx DEF TxSafe, TxSound, Stages
    <2> HIDE DEF d
    <2>2. m \in TxState
      <3>1. 0 \in 0..FileSize /\ "Establish" \in Statuses /\ <<Header("file")>> \in Seq(Item)
        BY SizeAssumption, HeaderItem, OneItem DEF Statuses
      <3> QED
        BY <2>1, <3>1, Zenon DEF TxState
    <2>3. /\ m.stage = "Established" /\ m.count = 0 /\ m.status = "Establish"
          /\ m.blk = 0 /\ m.buf = <<Header("file")>>
      BY <2>1 DEF TxState
    <2> HIDE DEF m
    <2>4. Running(m)
      BY <2>3 DEF Running
    <2> QED
      BY <1>2, <2>2, <2>3, <2>4, TxSlotGoes
  <1>3. CASE /\ tx' = [c EXCEPT !.buf = Cans, !.status = "Error", !.timer = TRUE]
             /\ toTx' = Tail(toTx) /\ toRx' = toRx \o Cans
    <2>1. c \in TxState /\ c.stage = "None"
      BY ResetTx DEF TxSafe, TxSound, Stages
    <2> HIDE DEF c
    <2>2. tx'.status = "Error" /\ tx'.stage = "None"
      BY <1>3, <2>1 DEF TxState
    <2> QED
      BY <1>3, <2>2 DEF TxFails
  <1> QED
    BY <1>1, <1>2, <1>3 DEF TxOpen, FirstAnswer

LEMMA EstablishedOnCall ==
  ASSUME OnTime, TxSafe, TxTick, tx.stage = "Established", Begins(toTx, Call)
  PROVE  \/ TxFails
         \/ /\ ErrorMax # 0
            /\ TxGoes(AfterEstablished(tx.blk), tx.buf)
            /\ tx'.blk = tx.blk /\ tx'.count = tx.count /\ tx'.buf = tx.buf
  <1> DEFINE m == [tx EXCEPT !.stage = AfterEstablished(tx.blk), !.time = 0, !.err = 0]
  <1>1. \/ TxError(FirstAnswer)
        \/ ~TooMany(Faulted(tx)) /\ TxSlot(FirstAnswer, m, tx.buf)
    BY TxTickStage, ReadsAnswer DEF TransmitStageEstablished, Call, Byte
  <1>2. CASE ~TooMany(Faulted(tx)) /\ TxSlot(FirstAnswer, m, tx.buf)
    <2>1. Faulted(tx).err = tx.err + 1 /\ tx.err \in Nat
      BY DEF TxSafe, TxSound, Faulted, TxState
    <2>2. ErrorMax # 0
      BY <1>2, <2>1, TimeAssumption DEF TooMany
    <2>3. m \in TxState
      <3>1. AfterEstablished(tx.blk) \in Stages
        BY DEF AfterEstablished, Stages
      <3> QED
        BY <3>1, Zenon DEF TxSafe, TxSound, TxState
    <2>4. /\ m.stage = AfterEstablished(tx.blk) /\ m.status = tx.status /\ m.blk = tx.blk
          /\ m.count = tx.count /\ m.buf = tx.buf
      BY DEF TxSafe, TxSound, TxState
    <2> HIDE DEF m
    <2>5. Running(m)
      BY <2>4 DEF Running, TxTick, TxSafe, TxSound
    <2> QED
      BY <1>2, <2>2, <2>3, <2>4, <2>5, TxSlotGoes
  <1> QED
    BY <1>1, <1>2, TxErrorFails

LEMMA EstablishedOnCan ==
  ASSUME OnTime, TxSafe, TxTick, tx.stage = "Established", Begins(toTx, Can)
  PROVE  TxLeaves("Abort")
  <1>1. TxOver(FirstAnswer, "Abort")
    BY TxTickStage, ReadsAnswer DEF TransmitStageEstablished, Can, Byte
  <1> QED
    BY <1>1, TxOverLeaves

\* The next part of the file is read, or EOT stands for it.
LEMMA FillGoes ==
  ASSUME TxSafe, tx.told < tx.runs, tx.open, NEW n \in Numbers, NEW s \in DataStages,
         tx.count # FileSize, NEW out, TxSlot(FirstAnswer, TxFill(n, s), out)
  PROVE  LET b == Block(n, tx.count) IN
         /\ b \in Data /\ b.blk = n /\ b.pos = tx.count
         /\ TxGoes(s, out)
         /\ tx'.blk = n /\ tx'.buf = <<b>> /\ tx'.count = After(b)
  <1> DEFINE m == TxFill(n, s)
             b == Block(n, tx.count)
  <1>1. /\ b \in Data /\ b.blk = n /\ b.pos = tx.count
        /\ m.stage = s /\ m.blk = n /\ m.buf = <<b>> /\ m.count = After(b) /\ Running(m)
    BY FillFields
  <1>2. m \in TxState
    BY FillReady DEF TxReady
  <1>3. TxSlot(FirstAnswer, m, out)
    OBVIOUS
  <1> HIDE DEF m, b
  <1>4. TxGoes(s, out) /\ tx'.blk = n /\ tx'.buf = <<b>> /\ tx'.count = After(b)
    BY <1>1, <1>2, <1>3, TxSlotGoes
  <1> QED
    BY <1>1, <1>4 DEF b

LEMMA EotGoes ==
  ASSUME TxSafe, tx.told < tx.runs, tx.open, NEW n \in Numbers, NEW s \in DataStages,
         NEW out, TxSlot(FirstAnswer, TxEot(n, s), out)
  PROVE  TxGoes(s, out) /\ tx'.blk = n /\ tx'.buf = <<Eot>>
  <1> DEFINE m == TxEot(n, s)
  <1>1. m.stage = s /\ m.blk = n /\ m.buf = <<Eot>> /\ Running(m)
    BY EotFields DEF Eot
  <1>2. m \in TxState
    BY EotReady DEF TxReady
  <1>3. TxSlot(FirstAnswer, m, out)
    OBVIOUS
  <1> HIDE DEF m
  <1> QED
    BY <1>1, <1>2, <1>3, TxSlotGoes

LEMMA EstablishedOnAck ==
  ASSUME OnTime, TxSafe, TxTick, tx.stage = "Established", Begins(toTx, Ack), tx.count = 0
  PROVE  IF FileSize = 0
         THEN TxGoes("Established", <<Eot>>) /\ tx'.blk = 2 /\ tx'.buf = <<Eot>>
         ELSE /\ TxGoes("Established", <<>>) /\ tx'.blk = 1
              /\ tx'.buf = <<Block(1, 0)>> /\ tx'.count = After(Block(1, 0))
  <1>1. IF tx.count = FileSize
        THEN TxSlot(FirstAnswer, TxEot(2, "Established"), <<Eot>>)
        ELSE TxSlot(FirstAnswer, TxFill(1, "Established"), <<>>)
    BY TxTickStage, ReadsAnswer DEF TransmitStageEstablished, Ack, Eot, Byte
  <1>2. tx.told < tx.runs /\ tx.open
    BY SlotOfTransfer DEF TxTick, TxSafe, TxSound, DataStages
  <1>3. "Established" \in DataStages /\ 1 \in Numbers /\ 2 \in Numbers
    BY ZeroNumber DEF DataStages
  <1>4. CASE FileSize = 0
    BY <1>1, <1>2, <1>3, <1>4, EotGoes
  <1>5. CASE FileSize # 0
    <2>1. /\ TxGoes("Established", <<>>) /\ tx'.blk = 1
          /\ tx'.buf = <<Block(1, tx.count)>> /\ tx'.count = After(Block(1, tx.count))
      BY <1>1, <1>2, <1>3, <1>5, FillGoes
    <2> QED
      BY <1>5, <2>1
  <1> QED
    BY <1>4, <1>5

LEMMA TransmittingOnAck ==
  ASSUME OnTime, TxSafe, TxTick, tx.stage = "Transmitting", Begins(toTx, Ack)
  PROVE  IF tx.count = FileSize
         THEN TxGoes("Finishing", <<Eot>>)
         ELSE \E b \in Data : /\ b.blk = NextBlk(tx.blk) /\ b.pos = tx.count
                              /\ TxGoes("Transmitting", <<b>>)
                              /\ tx'.blk = b.blk /\ tx'.buf = <<b>> /\ tx'.count = After(b)
  <1> DEFINE m == TxFill(NextBlk(tx.blk), "Transmitting")
             b == Block(NextBlk(tx.blk), tx.count)
  <1>1. IF tx.count = FileSize
        THEN TxSlot(FirstAnswer, TxEot(0, "Finishing"), <<Eot>>)
        ELSE TxSlot(FirstAnswer, m, m.buf)
    BY TxTickStage, ReadsAnswer DEF TransmitStageTransmitting, Ack, Eot, Byte
  <1>2. tx.told < tx.runs /\ tx.open
    BY SlotOfTransfer DEF TxTick, TxSafe, TxSound, DataStages
  <1>3. "Transmitting" \in DataStages /\ "Finishing" \in DataStages
        /\ NextBlk(tx.blk) \in Numbers /\ 0 \in Numbers
    BY ZeroNumber, NextBlkNumber DEF DataStages, TxSafe, TxSound, TxState
  <1>4. CASE tx.count = FileSize
    BY <1>1, <1>2, <1>3, <1>4, EotGoes
  <1>5. CASE tx.count # FileSize
    <2>1. TxSlot(FirstAnswer, m, <<b>>)
      BY <1>1, <1>3, <1>5, FillFields
    <2>2. /\ b \in Data /\ b.blk = NextBlk(tx.blk) /\ b.pos = tx.count
          /\ TxGoes("Transmitting", <<b>>)
          /\ tx'.blk = NextBlk(tx.blk) /\ tx'.buf = <<b>> /\ tx'.count = After(b)
      BY <1>2, <1>3, <1>5, <2>1, FillGoes
    <2> HIDE DEF b, m
    <2> QED
      BY <1>5, <2>2
  <1> QED
    BY <1>4, <1>5

LEMMA FinishingOnNak ==
  ASSUME OnTime, TxSafe, TxTick, tx.stage = "Finishing", Begins(toTx, Nak)
  PROVE  TxGoes("Finishing", <<Eot>>) /\ tx'.time = 0
  <1> DEFINE d == Reset(tx, "Finishing")
             m == [d EXCEPT !.buf = <<Eot>>]
  <1>0. PICK r \in ReceivePacket(tx, toTx) :
          \/ r.pkt.code # "NAK"
          \/ TxSlot(r, [Reset(tx, "Finishing") EXCEPT !.buf = <<Byte("EOT")>>], <<Byte("EOT")>>)
    BY TxTickStage DEF TransmitStageFinishing
  <1>1. TxSlot(FirstAnswer, m, <<Eot>>)
    <2>1. r = FirstAnswer /\ r.pkt.code = "NAK"
      BY ReadsAnswer DEF Nak, Byte
    <2> QED
      BY <1>0, <2>1 DEF Eot
  <1>2. d \in TxState /\ d.stage = "Finishing" /\ d.time = 0 /\ d.status = tx.status
    BY ResetTx DEF TxSafe, TxSound, Stages
  <1> HIDE DEF d
  <1>3. m \in TxState
    <2>1. <<Eot>> \in Seq(Item)
      BY ByteItem, OneItem DEF Eot, Codes
    <2> QED
      BY <1>2, <2>1, Zenon DEF TxState
  <1>4. m.stage = "Finishing" /\ m.time = 0 /\ m.status = tx.status
    BY <1>2 DEF TxState
  <1> HIDE DEF m
  <1>5. Running(m)
    BY <1>4 DEF Running, TxTick, TxSafe, TxSound
  <1> QED
    BY <1>1, <1>3, <1>4, <1>5, TxSlotGoes

LEMMA FinishingOnAck ==
  ASSUME OnTime, TimeDivide # 0, TxSafe, TxTick, tx.stage = "Finishing",
         Begins(toTx, Ack), tx.time = 0
  PROVE  TxGoes("Finishing", <<>>)
  <1>1. TxSilence(FirstAnswer)
    BY TxTickStage, ReadsAnswer DEF TransmitStageFinishing, Ack, Byte
  <1>2. /\ Waited(tx) \in TxState /\ Waited(tx).time = 1
        /\ Waited(tx).stage = "Finishing" /\ Waited(tx).status = tx.status
    BY DEF TxSafe, TxSound, Waited, TxState
  <1>3. ~Expired(Waited(tx)) /\ ~Due(Waited(tx))
    BY <1>2, FirstWait
  <1>4. TxSlot(FirstAnswer, Waited(tx), <<>>)
    BY <1>1, <1>3 DEF TxSilence
  <1>5. Running(Waited(tx))
    BY <1>2 DEF Running, TxTick, TxSafe, TxSound
  <1> QED
    BY <1>2, <1>4, <1>5, TxSlotGoes

LEMMA FinishingOnCall ==
  ASSUME OnTime, TxSafe, TxTick, tx.stage = "Finishing", Begins(toTx, Call)
  PROVE  TxGoes("Finished", <<Header("null")>>)
  <1> DEFINE d == Reset(tx, "Finished")
             m == [d EXCEPT !.buf = <<Header("null")>>]
  <1>1. TxSlot(FirstAnswer, m, <<Header("null")>>)
    BY TxTickStage, ReadsAnswer DEF TransmitStageFinishing, Call, Byte
  <1>2. d \in TxState /\ d.stage = "Finished" /\ d.status = tx.status
    BY ResetTx DEF TxSafe, TxSound, Stages
  <1> HIDE DEF d
  <1>3. m \in TxState
    <2>1. <<Header("null")>> \in Seq(Item)
      BY HeaderItem, OneItem
    <2> QED
      BY <1>2, <2>1, Zenon DEF TxState
  <1>4. m.stage = "Finished" /\ m.status = tx.status
    BY <1>2 DEF TxState
  <1> HIDE DEF m
  <1>5. Running(m)
    BY <1>4 DEF Running, TxTick, TxSafe, TxSound
  <1> QED
    BY <1>1, <1>3, <1>4, <1>5, TxSlotGoes

LEMMA FinishedOnAck ==
  ASSUME OnTime, TxSafe, TxTick, tx.stage = "Finished", Begins(toTx, Ack)
  PROVE  TxLeaves("Finish")
  <1>1. TxOver(FirstAnswer, "Finish")
    BY TxTickStage, ReadsAnswer DEF TransmitStageFinished, Ack, Byte
  <1> QED
    BY <1>1, TxOverLeaves
-----------------------------------------------------------------------------
(***************************************************************************)
(* Whatever the line does: a block keeps its place                         *)
(***************************************************************************)
\* A sending side at work, whose buffer holds the block of its number.
TxInPlace ==
  /\ TxSafe /\ Running(tx) /\ tx.active
  /\ TxPlaced(tx, toTx) /\ (Early(tx) => Answered(toTx))

\* What a slot adds to the line has its place; the first block is not written early.
TxAdds(m) ==
  \A pkt \in Range(toRx') :
    pkt \in Range(toRx) \/ (Placed(pkt) /\ (Early(m) => pkt.body # "data"))

\* The side goes on in its place, or is through.
TxPuts ==
  /\ tx'.runs = tx.runs /\ TxAdds(tx')
  /\ \/ tx'.status \in Final
     \/ /\ Running(tx') /\ tx'.active /\ tx'.timer /\ TxPlaced(tx', toTx')
        /\ Early(tx') => Early(tx) /\ Answered(toTx')

LEMMA TxUntold ==
  ASSUME TxInPlace
  PROVE  tx.told < tx.runs
  <1>1. tx.told \in Nat /\ tx.runs \in Nat
    BY DEF TxInPlace, TxSafe, TxSound, TxState
  <1> QED
    BY <1>1 DEF TxInPlace, TxSafe, TxSound

LEMMA TxPutOn ==
  ASSUME LinesOK, NEW r, NEW m \in TxState, NEW out, TxSlot(r, m, out),
         Running(m), m.active, m.runs = tx.runs,
         out = <<>> \/ \E b \in Item : out = <<b>> /\ Placed(b) /\ (Early(m) => b.body # "data"),
         TxPlaced(m, r.rest), Early(m) => Early(tx) /\ Answered(r.rest)
  PROVE  TxPuts
  <1>1. /\ tx'.stage = m.stage /\ tx'.status = m.status /\ tx'.blk = m.blk
        /\ tx'.buf = m.buf /\ tx'.count = m.count /\ tx'.runs = m.runs
        /\ tx'.active = m.active /\ tx'.timer = Running(m)
    BY DEF TxSlot, TxState
  <1>2. toTx' = r.rest /\ toRx' = toRx \o out
    BY DEF TxSlot
  <1>3. Running(tx') /\ tx'.active /\ tx'.timer
    BY <1>1 DEF Running
  <1>4. TxPlaced(tx', toTx') /\ (Early(tx') <=> Early(m))
    BY <1>1, <1>2 DEF TxPlaced, Early
  <1>5. TxAdds(tx')
    <2>1. CASE out = <<>>
      <3>1. toRx' = toRx
        BY <1>2, <2>1 DEF LinesOK
      <3> QED
        BY <3>1 DEF TxAdds
    <2>2. CASE out # <<>>
      <3>1. PICK b \in Item : out = <<b>> /\ Placed(b) /\ (Early(m) => b.body # "data")
        BY <2>2
      <3>2. <<b>> \in Seq(Item)
        OBVIOUS
      <3>3. Range(toRx \o <<b>>) \subseteq Range(toRx) \cup {b}
        BY <3>2, RangeOfJoin, RangeOfOne DEF LinesOK
      <3> QED
        BY <1>2, <1>4, <3>1, <3>3 DEF TxAdds
    <2> QED
      BY <2>1, <2>2
  <1> QED
    BY <1>1, <1>2, <1>3, <1>4, <1>5 DEF TxPuts

\* A side that gives up, or is through, adds CANs.
LEMMA TxAddsCans ==
  ASSUME LinesOK, NEW m, NEW out \in {<<>>, Cans},
         toRx' = toRx \o out \/ toRx' \in Sent(toRx, out)
  PROVE  TxAdds(m)
  <1>1. out \in Seq(Item) /\ Range(out) \subseteq {Byte("CAN")}
    <2>1. CASE out = <<>>
      BY <2>1, RangeOfNone
    <2>2. CASE out = Cans
      BY <2>2, CansLine, RangeOfCans
    <2> QED
      BY <2>1, <2>2
  <1>2. Range(toRx') \subseteq Range(toRx) \cup {Byte("CAN")}
    <2>1. CASE toRx' = toRx \o out
      BY <1>1, <2>1, RangeOfJoin DEF LinesOK
    <2>2. CASE toRx' \in Sent(toRx, out)
      BY <1>1, <2>2, RangeOfSent DEF LinesOK
    <2> QED
      BY <2>1, <2>2
  <1> QED
    BY <1>2, PlacedItems DEF TxAdds

LEMMA TxPutsReport ==
  ASSUME LinesOK, NEW m \in TxState, m.runs = tx.runs,
         NEW in, NEW s \in Final, NEW out \in {<<>>, Cans}, TxReport(in, m, s, out)
  PROVE  TxPuts
  <1>1. tx'.status = s /\ tx'.runs = m.runs
    BY DEF TxReport, TxState
  <1>2. TxAdds(tx')
    BY TxAddsCans DEF TxReport
  <1> QED
    BY <1>1, <1>2 DEF TxPuts

LEMMA TxPutsEnd ==
  ASSUME TxSafe, NEW r, TxError(r) \/ TxTimeout(r) \/ TxOver(r, "Abort") \/ TxOver(r, "Finish")
  PROVE  TxPuts
  <1> DEFINE m == Reset(tx, "None")
             n == [m EXCEPT !.buf = Cans, !.timer = TRUE]
             k == [m EXCEPT !.open = FALSE, !.timer = TRUE]
  <1>1. m \in TxState /\ m.runs = tx.runs
    BY ResetTx DEF TxSafe, TxSound, Stages
  <1>2. {"Error", "Timeout", "Abort", "Finish"} \subseteq Final
    BY DEF Final
  <1>3. CASE TxError(r)
    <2>1. tx' = [m EXCEPT !.buf = Cans, !.open = FALSE, !.status = "Error", !.timer = TRUE]
      BY <1>3 DEF TxError
    <2> HIDE DEF m
    <2>2. tx'.status = "Error" /\ tx'.runs = tx.runs
      BY <1>1, <2>1 DEF TxState
    <2>3. TxAdds(tx')
      BY <1>3, TxAddsCans DEF TxError, TxSafe
    <2> QED
      BY <1>2, <2>2, <2>3 DEF TxPuts
  <1>4. CASE TxTimeout(r) \/ TxOver(r, "Abort") \/ TxOver(r, "Finish")
    <2>1. \/ TxReport(r.rest, n, "Timeout", Cans)
          \/ \E s \in {"Abort", "Finish"} : TxReport(r.rest, k, s, <<>>)
      BY <1>4 DEF TxTimeout, TxOver
    <2> HIDE DEF m
    <2>2. n \in TxState /\ k \in TxState
      BY <1>1, CansLine, Zenon DEF TxState
    <2>3. n.runs = tx.runs /\ k.runs = tx.runs
      BY <1>1 DEF TxState
    <2> HIDE DEF n, k
    <2> QED
      BY <1>2, <2>1, <2>2, <2>3, TxPutsReport DEF TxSafe
  <1> QED
    BY <1>3, <1>4

\* What the buffer holds may be written again.
LEMMA TxBufferPlaced ==
  ASSUME NEW in, TxPlaced(tx, in), tx.stage \notin {"None", "Establishing"}
  PROVE  \E b \in Item : tx.buf = <<b>> /\ Placed(b) /\ (Early(tx) => b.body # "data")
  <1>1. Byte("EOT") \in Item /\ Header("file") \in Item /\ Header("null") \in Item
    BY SignalItems DEF Eot
  <1>2. \A n \in BlockNumbers : BlockOf(n) \in Item /\ Placed(BlockOf(n))
    BY BlockOfFields, DataFields, PlacedItems
  <1>3. Early(tx) => tx.buf = <<Header("file")>>
    BY DEF Early, TxPlaced
  <1> QED
    BY <1>1, <1>2, <1>3, PlacedItems DEF TxPlaced

\* A slot that counts, and may repeat the buffer.
LEMMA TxPutsAgain ==
  ASSUME TxInPlace, tx.stage \notin {"None", "Establishing"}, NEW r, TxPlaced(tx, r.rest),
         Early(tx) => Answered(r.rest), TxSilence(r) \/ TxRepeat(r)
  PROVE  TxPuts
  <1>1. CASE TxError(r)
    BY <1>1, TxPutsEnd DEF TxInPlace
  <1>2. ASSUME NEW m \in {Waited(tx), Faulted(tx)}, NEW out \in {<<>>, tx.buf},
               TxSlot(r, m, out)
        PROVE  TxPuts
    <2>1. m \in TxState
      BY CountingReady DEF TxInPlace, TxSafe, TxReady
    <2>2. /\ m.stage = tx.stage /\ m.status = tx.status /\ m.blk = tx.blk
          /\ m.buf = tx.buf /\ m.count = tx.count /\ m.runs = tx.runs /\ m.active = tx.active
      BY DEF TxInPlace, TxSafe, TxSound, TxState, Waited, Faulted
    <2>3. Running(m) /\ m.active /\ (Early(m) <=> Early(tx)) /\ TxPlaced(m, r.rest)
      BY <2>2 DEF Running, Early, TxPlaced, TxInPlace
    <2>4. \E b \in Item : tx.buf = <<b>> /\ Placed(b) /\ (Early(m) => b.body # "data")
      BY <2>3, TxBufferPlaced
    <2> QED
      BY <1>2, <2>1, <2>2, <2>3, <2>4, TxPutOn DEF TxInPlace, TxSafe
  <1>3. CASE \/ TxSlot(r, Waited(tx), IF Due(Waited(tx)) THEN tx.buf ELSE <<>>)
             \/ TxSlot(r, Faulted(tx), tx.buf)
    <2>1. CASE TxSlot(r, Waited(tx), IF Due(Waited(tx)) THEN tx.buf ELSE <<>>)
      BY <1>2, <2>1
    <2>2. CASE TxSlot(r, Faulted(tx), tx.buf)
      BY <1>2, <2>2
    <2> QED
      BY <1>3, <2>1, <2>2
  <1> QED
    BY <1>1, <1>3 DEF TxSilence, TxRepeat

\* What is left of the answers serves the same stage, unless they were waited for.
LEMMA TxPlacedRest ==
  ASSUME TxInPlace, NEW r, FromAnswers(r)
  PROVE  /\ tx.stage = "Established" /\ tx.blk = 1 => r.pkt = Nothing \/ r.pkt.code = "C"
         /\ ~(tx.stage = "Established" /\ tx.blk = 1 /\ r.pkt.code = "C") =>
               TxPlaced(tx, r.rest)
         /\ Early(tx) => Answered(r.rest)
  <1>1. toTx \in Seq(Item) /\ (toTx # <<>> => Head(toTx) = toTx[1])
    BY HeadTailProperties DEF TxInPlace, TxSafe, LinesOK
  <1>2. CASE r.pkt = Nothing /\ r.rest = toTx
    BY <1>2 DEF TxInPlace
  <1>3. CASE toTx # <<>> /\ r.pkt = Head(toTx) /\ r.rest = Tail(toTx)
    <2>1. Early(tx) => Answered(r.rest)
      BY <1>1, <1>3, AnsweredTail DEF TxInPlace
    <2>2. tx.stage = "Established" /\ tx.blk = 1 => r.pkt.code = "C"
      BY <1>1, <1>3 DEF TxInPlace, TxPlaced
    <2>3. ~(tx.stage = "Established" /\ tx.blk = 1) => TxPlaced(tx, r.rest)
      BY DEF TxInPlace, TxPlaced
    <2> QED
      BY <2>1, <2>2, <2>3
  <1> QED
    BY <1>2, <1>3 DEF FromAnswers
-----------------------------------------------------------------------------
LEMMA NonePuts ==
  ASSUME TxInPlace, TransmitStageNone
  PROVE  TxPuts
  <1> DEFINE r == [rest |-> toTx]
             m == Reset(tx, "Establishing")
  <1>1. /\ m \in TxState /\ m.stage = "Establishing" /\ m.status = tx.status
        /\ m.active = tx.active /\ m.runs = tx.runs
    BY ResetTx DEF TxInPlace, TxSafe, TxSound, Stages
  <1>2. TxSlot(r, m, <<>>) /\ r.rest = toTx
    BY DEF TransmitStageNone
  <1>3. Early(tx)
    BY DEF TransmitStageNone, Early
  <1> HIDE DEF m, r
  <1>4. Running(m) /\ TxPlaced(m, r.rest)
    BY <1>1 DEF Running, TxPlaced, TxInPlace
  <1> QED
    BY <1>1, <1>2, <1>3, <1>4, TxPutOn DEF TxInPlace, TxSafe

LEMMA OpenPuts ==
  ASSUME TxInPlace, Early(tx), NEW r, Answered(r.rest), TxOpen(r)
  PROVE  TxPuts
  <1> DEFINE d == Reset(tx, "Established")
             m == [d EXCEPT !.open = TRUE, !.count = 0, !.status = "Establish",
                            !.buf = <<Header("file")>>]
             c == Reset(tx, "None")
  <1>1. CASE TxSlot(r, m, <<Header("file")>>)
    <2>1. /\ d \in TxState /\ d.stage = "Established" /\ d.runs = tx.runs
          /\ d.active = tx.active /\ d.blk = 0
      BY ResetTx DEF TxInPlace, TxSafe, TxSound, Stages
    <2> HIDE DEF d
    <2>2. m \in TxState
      <3>1. 0 \in 0..FileSize /\ "Establish" \in Statuses /\ <<Header("file")>> \in Seq(Item)
        BY SizeAssumption, HeaderItem, OneItem DEF Statuses
      <3> QED
        BY <2>1, <3>1, Zenon DEF TxState
    <2>3. /\ m.stage = "Established" /\ m.runs = tx.runs /\ m.active = tx.active /\ m.blk = 0
          /\ m.count = 0 /\ m.status = "Establish" /\ m.buf = <<Header("file")>>
      BY <2>1 DEF TxState
    <2> HIDE DEF m
    <2>4. Running(m) /\ TxPlaced(m, r.rest)
      BY <2>3 DEF Running, TxPlaced
    <2> QED
      BY <1>1, <2>2, <2>3, <2>4, HeaderItem, PlacedItems, TxPutOn DEF TxInPlace, TxSafe
  <1>2. CASE /\ tx' = [c EXCEPT !.buf = Cans, !.status = "Error", !.timer = TRUE]
             /\ toRx' = toRx \o Cans
    <2>1. c \in TxState /\ c.runs = tx.runs
      BY ResetTx DEF TxInPlace, TxSafe, TxSound, Stages
    <2> HIDE DEF c
    <2>2. tx'.status = "Error" /\ tx'.runs = tx.runs
      BY <1>2, <2>1 DEF TxState
    <2>3. TxAdds(tx')
      BY <1>2, TxAddsCans DEF TxInPlace, TxSafe
    <2> QED
      BY <2>2, <2>3 DEF TxPuts, Final
  <1> QED
    BY <1>1, <1>2 DEF TxOpen

LEMMA EstablishingPuts ==
  ASSUME TxInPlace, TransmitStageEstablishing
  PROVE  TxPuts
  <1>1. PICK r \in ReceivePacket(tx, toTx) :
          \/ TxOpen(r) \/ TxOver(r, "Abort") \/ TxTimeout(r)
          \/ TxSlot(r, Waited(tx), <<>>)
    BY DEF TransmitStageEstablishing
  <1>2. Early(tx) /\ LinesOK /\ tx.stage = "Establishing"
    BY DEF TransmitStageEstablishing, Early, TxInPlace, TxSafe
  <1>3. Answered(r.rest)
    BY <1>2, ReadsAnswers, TxPlacedRest
  <1>4. CASE TxSlot(r, Waited(tx), <<>>)
    <2>1. Waited(tx) \in TxState
      BY CountingReady DEF TxInPlace, TxSafe, TxReady
    <2>2. /\ Waited(tx).stage = "Establishing" /\ Waited(tx).status = tx.status
          /\ Waited(tx).active = tx.active /\ Waited(tx).runs = tx.runs
      BY <1>2 DEF TxInPlace, TxSafe, TxSound, TxState, Waited
    <2>3. Running(Waited(tx)) /\ TxPlaced(Waited(tx), r.rest)
      BY <2>2 DEF Running, TxPlaced, TxInPlace
    <2> QED
      BY <1>2, <1>3, <1>4, <2>1, <2>2, <2>3, TxPutOn DEF TxInPlace
  <1> QED
    BY <1>1, <1>2, <1>3, <1>4, OpenPuts, TxPutsEnd DEF TxInPlace

\* The first block is read on an ACK, whose C is right behind it.
LEMMA FirstFillPuts ==
  ASSUME TxInPlace, tx.stage = "Established", tx.blk = 0, tx.count # FileSize,
         tx.told < tx.runs, tx.open, NEW r, FromAnswers(r), r.pkt.code = "ACK",
         TxSlot(r, TxFill(1, "Established"), <<>>)
  PROVE  TxPuts
  <1> DEFINE m == TxFill(1, "Established")
  <1>1. tx.count = 0 /\ LinesOK /\ TxSafe /\ tx.active
    BY DEF TxInPlace, TxPlaced, TxSafe
  <1>2. "Established" \in DataStages /\ 1 \in Numbers
    BY ZeroNumber DEF DataStages
  <1>3. m \in TxState
    BY <1>1, <1>2, FillReady DEF TxReady
  <1>4. /\ m.stage = "Established" /\ m.blk = 1 /\ m.buf = <<Block(1, 0)>>
        /\ m.count = After(Block(1, 0)) /\ m.active = tx.active /\ m.runs = tx.runs
        /\ Running(m)
    <2>1. /\ m.stage = "Established" /\ m.blk = 1 /\ m.buf = <<Block(1, tx.count)>>
          /\ m.count = After(Block(1, tx.count)) /\ m.active = tx.active /\ m.runs = tx.runs
          /\ Running(m)
      BY <1>1, <1>2, FillFields
    <2> HIDE DEF m
    <2> QED
      BY <1>1, <2>1
  <1>5. r.rest # <<>> /\ r.rest[1].code = "C"
    <2>1. toTx # <<>> /\ r.pkt = toTx[1] /\ r.rest = Tail(toTx) /\ Len(toTx) \in Nat /\ Len(toTx) # 0
      BY <1>1, HeadTailProperties, LenProperties, EmptySeq DEF FromAnswers, LinesOK, Nothing
    <2>2. Answered(toTx)
      BY DEF TxInPlace, Early
    <2>3. 1 \in 1..Len(toTx)
      BY <2>1
    <2>4. 1 < Len(toTx) /\ toTx[1 + 1].code = "C"
      BY <2>1, <2>2, <2>3 DEF Answered
    <2>5. Len(Tail(toTx)) = Len(toTx) - 1 /\ \A i \in 1..(Len(toTx) - 1) : Tail(toTx)[i] = toTx[i + 1]
      BY <1>1, <2>1, HeadTailProperties DEF LinesOK
    <2>6. Tail(toTx)[1] = toTx[1 + 1]
      BY <2>4, <2>5
    <2> QED
      BY <2>1, <2>4, <2>5, <2>6
  <1>6. 1 \in BlockNumbers /\ BlockOf(1) = Block(1, 0) /\ After(Block(1, 0)) = Upto(1)
    <2>1. PlaceOf(1) = 0 /\ FileSize > 0 /\ Blocks - 1 >= 1 /\ Blocks \in Nat
      BY <1>1, SizeAssumption, BlockAssumption DEF PlaceOf
    <2>2. 1 \in BlockNumbers /\ BlockOf(1) = Block(1, 0)
      BY <2>1 DEF BlockNumbers, BlockOf
    <2> QED
      BY <2>2, BlockOfFields
  <1>7. TxSlot(r, m, <<>>)
    OBVIOUS
  <1> HIDE DEF m
  <1>8. TxPlaced(m, r.rest) /\ ~Early(m)
    BY <1>4, <1>5, <1>6 DEF TxPlaced, Early
  <1> QED
    BY <1>1, <1>3, <1>4, <1>7, <1>8, TxPutOn

LEMMA EotPuts ==
  ASSUME TxInPlace, tx.told < tx.runs, tx.open, NEW n \in Numbers, NEW s \in DataStages,
         (s = "Established" /\ n = 2 /\ FileSize = 0 /\ tx.count = 0) \/ s = "Finishing",
         NEW r, TxSlot(r, TxEot(n, s), <<Byte("EOT")>>)
  PROVE  TxPuts
  <1> DEFINE m == TxEot(n, s)
  <1>1. /\ m.stage = s /\ m.blk = n /\ m.buf = <<Byte("EOT")>> /\ m.count = tx.count
        /\ m.active = tx.active /\ m.runs = tx.runs /\ Running(m)
    BY EotFields DEF TxInPlace
  <1>2. m \in TxState
    BY EotReady DEF TxReady, TxInPlace
  <1>3. TxSlot(r, m, <<Byte("EOT")>>)
    OBVIOUS
  <1> HIDE DEF m
  <1>4. TxPlaced(m, r.rest) /\ ~Early(m)
    BY <1>1 DEF TxPlaced, Early
  <1>5. Byte("EOT") \in Item /\ Placed(Byte("EOT"))
    BY SignalItems, PlacedItems DEF Eot
  <1> QED
    BY <1>1, <1>2, <1>3, <1>4, <1>5, TxPutOn DEF TxInPlace, TxSafe

\* The C behind it writes what the ACK read.
LEMMA AnsweredPuts ==
  ASSUME TxInPlace, tx.stage = "Established", NEW r, FromAnswers(r),
         TxSlot(r, [tx EXCEPT !.stage = AfterEstablished(tx.blk), !.time = 0, !.err = 0], tx.buf)
  PROVE  TxPuts
  <1> DEFINE c == [tx EXCEPT !.stage = AfterEstablished(tx.blk), !.time = 0, !.err = 0]
  <1>1. c \in TxState
    <2>1. AfterEstablished(tx.blk) \in Stages
      BY DEF AfterEstablished, Stages
    <2> QED
      BY <2>1, Zenon DEF TxInPlace, TxSafe, TxSound, TxState
  <1>2. /\ c.stage = AfterEstablished(tx.blk) /\ c.status = tx.status /\ c.blk = tx.blk
        /\ c.buf = tx.buf /\ c.count = tx.count /\ c.runs = tx.runs /\ c.active = tx.active
    BY DEF TxInPlace, TxSafe, TxSound, TxState
  <1>3. TxSlot(r, c, tx.buf)
    OBVIOUS
  <1> HIDE DEF c
  <1>4. \E b \in Item : tx.buf = <<b>> /\ Placed(b) /\ (Early(tx) => b.body # "data")
    BY TxBufferPlaced DEF TxInPlace
  <1>5. Early(tx) => Answered(r.rest)
    BY TxPlacedRest
  <1>6. Running(c) /\ c.active
    BY <1>2 DEF Running, TxInPlace
  <1>7. TxPlaced(c, r.rest) /\ (Early(c) => Early(tx))
    <2>1. CASE tx.blk = 0
      BY <1>2, <2>1 DEF TxPlaced, TxInPlace, AfterEstablished, Early
    <2>2. CASE tx.blk = 1
      BY <1>2, <2>2 DEF TxPlaced, TxInPlace, AfterEstablished, Early
    <2>3. CASE tx.blk = 2
      BY <1>2, <2>3 DEF TxPlaced, TxInPlace, AfterEstablished, Early
    <2> QED
      BY <2>1, <2>2, <2>3 DEF TxPlaced, TxInPlace
  <1> QED
    BY <1>1, <1>2, <1>3, <1>4, <1>5, <1>6, <1>7, TxPutOn DEF TxInPlace, TxSafe

LEMMA EstablishedPuts ==
  ASSUME TxInPlace, TransmitStageEstablished
  PROVE  TxPuts
  <1> DEFINE c == [tx EXCEPT !.stage = AfterEstablished(tx.blk), !.time = 0, !.err = 0]
  <1>1. tx.stage = "Established" /\ tx.told < tx.runs /\ tx.open /\ LinesOK
    BY TxUntold DEF TransmitStageEstablished, TxInPlace, TxSafe, TxSound, DataStages
  <1>2. PICK r \in ReceivePacket(tx, toTx) :
          \/ r.pkt.code # "C" /\ (TxRepeat(r) \/ TxSilence(r))
          \/ TxError(r) \/ TxOver(r, "Abort")
          \/ TxSlot(r, c, tx.buf)
          \/ /\ r.pkt.code = "ACK" /\ tx.count # FileSize
             /\ TxSlot(r, TxFill(1, "Established"), <<>>)
          \/ /\ r.pkt.code = "ACK" /\ tx.count = FileSize
             /\ TxSlot(r, TxEot(2, "Established"), <<Byte("EOT")>>)
    BY DEF TransmitStageEstablished
  <1>3. FromAnswers(r)
    BY <1>1, ReadsAnswers
  <1>4. CASE r.pkt.code # "C" /\ (TxRepeat(r) \/ TxSilence(r))
    <2>1. TxPlaced(tx, r.rest) /\ (Early(tx) => Answered(r.rest))
      BY <1>3, <1>4, TxPlacedRest
    <2> QED
      BY <1>1, <1>4, <2>1, TxPutsAgain
  <1>5. CASE TxError(r) \/ TxOver(r, "Abort")
    BY <1>5, TxPutsEnd DEF TxInPlace
  <1>6. CASE TxSlot(r, c, tx.buf)
    BY <1>1, <1>3, <1>6, AnsweredPuts
  <1>7. r.pkt.code = "ACK" => tx.blk # 1
    BY <1>1, <1>3, TxPlacedRest DEF Nothing
  <1>8. CASE /\ r.pkt.code = "ACK" /\ tx.count # FileSize
             /\ TxSlot(r, TxFill(1, "Established"), <<>>)
    <2>1. tx.blk = 0
      BY <1>1, <1>7, <1>8 DEF TxInPlace, TxPlaced
    <2> QED
      BY <1>1, <1>3, <1>8, <2>1, FirstFillPuts
  <1>9. CASE /\ r.pkt.code = "ACK" /\ tx.count = FileSize
             /\ TxSlot(r, TxEot(2, "Established"), <<Byte("EOT")>>)
    <2>1. FileSize = 0
      BY <1>1, <1>7, <1>9 DEF TxInPlace, TxPlaced
    <2>2. "Established" \in DataStages /\ 2 \in Numbers
      BY ZeroNumber DEF DataStages
    <2> QED
      BY <1>1, <1>9, <2>1, <2>2, EotPuts
  <1> QED
    BY <1>2, <1>4, <1>5, <1>6, <1>8, <1>9

\* An ACK moves the block number on, and the place with it.
LEMMA TransmittingPuts ==
  ASSUME TxInPlace, Short, TransmitStageTransmitting
  PROVE  TxPuts
  <1> DEFINE n == tx.blk
             m == TxFill(NextBlk(n), "Transmitting")
             b == Block(NextBlk(n), tx.count)
  <1>1. /\ tx.stage = "Transmitting" /\ tx.told < tx.runs /\ tx.open /\ LinesOK /\ TxSafe
        /\ n \in BlockNumbers /\ tx.count = Upto(n) /\ ~Early(tx) /\ tx.active
    <2>1. tx.stage = "Transmitting"
      BY DEF TransmitStageTransmitting
    <2> QED
      BY <2>1, TxUntold DEF TxInPlace, TxSafe, TxSound, DataStages, TxPlaced, Early
  <1>2. PICK r \in ReceivePacket(tx, toTx) :
          \/ TxRepeat(r) \/ TxSilence(r)
          \/ TxOver(r, "Abort")
          \/ tx.count # FileSize /\ TxSlot(r, m, m.buf)
          \/ tx.count = FileSize /\ TxSlot(r, TxEot(0, "Finishing"), <<Byte("EOT")>>)
    BY DEF TransmitStageTransmitting
  <1>3. CASE TxRepeat(r) \/ TxSilence(r)
    <2>1. TxPlaced(tx, r.rest)
      BY <1>1, ReadsAnswers, TxPlacedRest
    <2> QED
      BY <1>1, <1>3, <2>1, TxPutsAgain
  <1>4. CASE TxOver(r, "Abort")
    BY <1>1, <1>4, TxPutsEnd
  <1>5. CASE tx.count # FileSize /\ TxSlot(r, m, m.buf)
    <2>1. /\ n + 1 \in BlockNumbers /\ NextBlk(n) = n + 1 /\ PlaceOf(n + 1) = tx.count
      BY <1>1, <1>5, NextBlockOf
    <2>2. NextBlk(n) \in Numbers /\ "Transmitting" \in DataStages
      BY <1>1, NextBlkNumber DEF TxSafe, TxSound, TxState, DataStages
    <2>3. m \in TxState
      BY <1>1, <2>2, FillReady DEF TxReady
    <2>4. /\ b \in Data /\ m.stage = "Transmitting" /\ m.blk = NextBlk(n) /\ m.buf = <<b>>
          /\ m.count = After(b) /\ m.active = tx.active /\ m.runs = tx.runs /\ Running(m)
      BY <1>1, <1>5, <2>2, FillFields
    <2>5. b = BlockOf(n + 1)
      BY <2>1 DEF BlockOf
    <2>6. TxSlot(r, m, m.buf) /\ b \in Item
      BY <1>5, <2>4, DataFields
    <2> HIDE DEF m, b, n
    <2>7. After(b) = Upto(n + 1) /\ Placed(b)
      BY <2>1, <2>5, BlockOfFields, PlacedItems
    <2>8. TxPlaced(m, r.rest) /\ ~Early(m)
      BY <2>1, <2>4, <2>5, <2>7 DEF TxPlaced, Early
    <2> QED
      BY <1>1, <2>3, <2>4, <2>6, <2>7, <2>8, TxPutOn
  <1>6. CASE tx.count = FileSize /\ TxSlot(r, TxEot(0, "Finishing"), <<Byte("EOT")>>)
    <2>1. "Finishing" \in DataStages /\ 0 \in Numbers
      BY ZeroNumber DEF DataStages
    <2> QED
      BY <1>1, <1>6, <2>1, EotPuts
  <1> QED
    BY <1>2, <1>3, <1>4, <1>5, <1>6

LEMMA EndsPuts ==
  ASSUME TxInPlace, NEW r, NEW s \in {"Finishing", "Finished"},
         NEW b, b = IF s = "Finishing" THEN Byte("EOT") ELSE Header("null"),
         TxSlot(r, [Reset(tx, s) EXCEPT !.buf = <<b>>], <<b>>)
  PROVE  TxPuts
  <1> DEFINE d == Reset(tx, s)
             m == [d EXCEPT !.buf = <<b>>]
  <1>1. s \in Stages /\ b \in Item /\ Placed(b)
    BY SignalItems, PlacedItems DEF Stages, Eot
  <1>2. /\ d \in TxState /\ d.stage = s /\ d.status = tx.status
        /\ d.runs = tx.runs /\ d.active = tx.active
    BY <1>1, ResetTx DEF TxInPlace, TxSafe, TxSound
  <1>3. TxSlot(r, m, <<b>>)
    OBVIOUS
  <1> HIDE DEF d
  <1>4. m \in TxState
    BY <1>1, <1>2, OneItem, Zenon DEF TxState
  <1>5. /\ m.stage = s /\ m.status = tx.status /\ m.runs = tx.runs
        /\ m.active = tx.active /\ m.buf = <<b>>
    BY <1>2 DEF TxState
  <1> HIDE DEF m
  <1>6. Running(m) /\ TxPlaced(m, r.rest) /\ ~Early(m)
    BY <1>5 DEF Running, TxPlaced, Early, TxInPlace
  <1> QED
    BY <1>1, <1>3, <1>4, <1>5, <1>6, TxPutOn DEF TxInPlace, TxSafe

LEMMA FinishingPuts ==
  ASSUME TxInPlace, TransmitStageFinishing
  PROVE  TxPuts
  <1>1. tx.stage = "Finishing" /\ LinesOK /\ ~Early(tx)
    BY DEF TransmitStageFinishing, TxInPlace, TxSafe, Early
  <1>2. PICK r \in ReceivePacket(tx, toTx) :
          \/ TxSlot(r, [Reset(tx, "Finishing") EXCEPT !.buf = <<Byte("EOT")>>], <<Byte("EOT")>>)
          \/ TxSlot(r, [Reset(tx, "Finished") EXCEPT !.buf = <<Header("null")>>],
                    <<Header("null")>>)
          \/ TxOver(r, "Abort")
          \/ TxSilence(r)
    BY DEF TransmitStageFinishing
  <1>3. TxPlaced(tx, r.rest)
    BY <1>1, ReadsAnswers, TxPlacedRest
  <1>4. CASE TxSlot(r, [Reset(tx, "Finishing") EXCEPT !.buf = <<Byte("EOT")>>], <<Byte("EOT")>>)
    BY <1>4, EndsPuts
  <1>5. CASE TxSlot(r, [Reset(tx, "Finished") EXCEPT !.buf = <<Header("null")>>],
                    <<Header("null")>>)
    BY <1>5, EndsPuts
  <1> QED
    BY <1>1, <1>2, <1>3, <1>4, <1>5, TxPutsEnd, TxPutsAgain DEF TxInPlace

LEMMA FinishedPuts ==
  ASSUME TxInPlace, TransmitStageFinished
  PROVE  TxPuts
  <1>1. tx.stage = "Finished" /\ LinesOK /\ ~Early(tx)
    BY DEF TransmitStageFinished, TxInPlace, TxSafe, Early
  <1>2. PICK r \in ReceivePacket(tx, toTx) :
          \/ TxRepeat(r) \/ TxSilence(r)
          \/ TxOver(r, "Abort") \/ TxOver(r, "Finish")
    BY DEF TransmitStageFinished
  <1>3. TxPlaced(tx, r.rest)
    BY <1>1, ReadsAnswers, TxPlacedRest
  <1> QED
    BY <1>1, <1>2, <1>3, TxPutsEnd, TxPutsAgain DEF TxInPlace

\* Every slot of a transfer that goes on.
LEMMA TxTickPuts ==
  ASSUME TxInPlace, Short, TxTick
  PROVE  TxPuts
  BY NonePuts, EstablishingPuts, EstablishedPuts, TransmittingPuts, FinishingPuts,
     FinishedPuts DEF TxTick

LEMMA TxCancelPuts ==
  ASSUME TxSafe, TxCancel
  PROVE  TxPuts
  <1> DEFINE m == Reset(tx, "None")
             n == [m EXCEPT !.buf = Cans, !.open = FALSE, !.timer = FALSE]
  <1>1. m \in TxState /\ m.runs = tx.runs
    BY ResetTx DEF TxSafe, TxSound, Stages
  <1>2. TxReport(toTx, n, "Abort", Cans)
    BY DEF TxCancel
  <1> HIDE DEF m
  <1>3. n \in TxState
    BY <1>1, CansLine, Zenon DEF TxState
  <1>4. n.runs = tx.runs /\ "Abort" \in Final
    BY <1>1 DEF TxState, Final
  <1> HIDE DEF n
  <1> QED
    BY <1>2, <1>3, <1>4, TxPutsReport DEF TxSafe
=============================================================================

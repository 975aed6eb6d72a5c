--------------------------- MODULE YModemTransfer ---------------------------
(***************************************************************************)
(* One sending and one receiving side at the two ends of a line that may   *)
(* lose packets and damage them.                                           *)
(***************************************************************************)
EXTENDS YModemTransmit, YModemReceive

CONSTANT MaxFaults    \* bound: packets lost or damaged

ASSUME FaultAssumption == MaxFaults \in Nat

vars == <<toRx, toTx, tx, rx, faults>>

Init ==
  /\ toRx = <<>> /\ toTx = <<>>
  /\ TxInit
  /\ RxInit
  /\ faults = NoFault
-----------------------------------------------------------------------------
Damaged(pkt) ==
  IF IsPacket(pkt) THEN [pkt EXCEPT !.good = FALSE] ELSE Byte("NOISE")

\* The line the item of place i goes missing from, and the line it is damaged on.
Hit(line, i) == {RemoveAt(line, i), [line EXCEPT ![i] = Damaged(@)]}

\* The header of the file has not been answered in full.
Opening == tx.stage \in {"None", "Establishing", "Established"}

\* Faults are counted by line; those of the answers to the header by themselves.
Fault ==
  /\ faults.toRx + faults.toTx + faults.opening < MaxFaults
  /\ \/ /\ \E i \in 1..Len(toRx) : toRx' \in Hit(toRx, i)
        /\ faults' = [faults EXCEPT !.toRx = @ + 1]
        /\ UNCHANGED toTx
     \/ /\ \E i \in 1..Len(toTx) : toTx' \in Hit(toTx, i)
        /\ faults' = IF Opening THEN [faults EXCEPT !.opening = @ + 1]
                                ELSE [faults EXCEPT !.toTx = @ + 1]
        /\ UNCHANGED toRx
  /\ UNCHANGED <<tx, rx>>
-----------------------------------------------------------------------------
TxNext == (TxTick \/ TxStart \/ TxRefused \/ TxCancel \/ TxDrain) /\ UNCHANGED <<rx, faults>>
RxNext == (RxTick \/ RxStart \/ RxCancel \/ RxDrain) /\ UNCHANGED <<tx, faults>>

Next == TxNext \/ RxNext \/ Fault

Spec == Init /\ [][Next]_vars

\* The timers keep firing and what arrives is taken off the port; nobody has
\* to start or to cancel anything.
Fairness ==
  /\ WF_vars((TxTick \/ TxDrain) /\ UNCHANGED <<rx, faults>>)
  /\ WF_vars((RxTick \/ RxDrain) /\ UNCHANGED <<tx, faults>>)

FairSpec == Spec /\ Fairness
=============================================================================

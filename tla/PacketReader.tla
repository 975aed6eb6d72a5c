---------------------------- MODULE PacketReader ----------------------------
(***************************************************************************)
(* YModem::receivePacket byte by byte: a side reads what its port has, a   *)
(* part of a packet at a time, into rxBuffer.  A data byte may look like   *)
(* the code of an item; which item it belongs to is known to the model     *)
(* only.                                                                   *)
(***************************************************************************)
EXTENDS Integers, Sequences

CONSTANTS
  SohLength, StxLength,  \* bytes of a packet, its code and its CRC among them
  MaxItems,              \* bound: items the other side writes
  MaxLost                \* bound: bytes lost, and packets given up half read

ASSUME ReaderAssumption ==
  /\ SohLength \in Nat /\ StxLength \in Nat /\ 1 < SohLength /\ SohLength < StxLength
  /\ MaxItems \in Nat /\ MaxLost \in Nat

VARIABLES
  written,   \* the items written
  line,      \* bytes on their way, and in the port
  code, rxLength, rxBuffer,
  read,      \* what receivePacket returned other than CodeNone
  lost       \* bytes lost, and packets given up half read

vars == <<written, line, code, rxLength, rxBuffer, read, lost>>

Packets   == {"SOH", "STX"}
Length(c) == CASE c = "SOH" -> SohLength [] c = "STX" -> StxLength [] OTHER -> 1

\* An item's code and what its other bytes look like.
Item     == [code : Packets \cup {"ACK"}, data : Packets \cup {"ACK"}]
NoByte   == [looks |-> "none", of |-> 0, nth |-> 0]
Bytes(i, n) ==
  [k \in 1..Length(i.code) |-> [looks |-> IF k = 1 THEN i.code ELSE i.data, of |-> n, nth |-> k]]

Init ==
  /\ written = <<>> /\ line = <<>> /\ read = <<>> /\ lost = 0
  /\ code = "none" /\ rxLength = 0 /\ rxBuffer = [k \in 1..StxLength |-> NoByte]
-----------------------------------------------------------------------------
Write(i) ==
  /\ Len(written) < MaxItems
  /\ written' = Append(written, i)
  /\ line' = line \o Bytes(i, Len(written) + 1)
  /\ UNCHANGED <<code, rxLength, rxBuffer, read, lost>>

Lose ==
  /\ lost < MaxLost /\ lost' = lost + 1
  /\ \E k \in DOMAIN line : line' = SubSeq(line, 1, k - 1) \o SubSeq(line, k + 1, Len(line))
  /\ UNCHANGED <<written, code, rxLength, rxBuffer, read>>

\* A stage is left while a packet is read in part.
GiveUp ==
  /\ code # "none" /\ code' = "none"
  /\ lost < MaxLost /\ lost' = lost + 1
  /\ UNCHANGED <<written, line, rxLength, rxBuffer, read>>
-----------------------------------------------------------------------------
\* read: n bytes, into rxBuffer behind the first from.
Fetch(from, n) ==
  /\ n <= Len(line) /\ line' = SubSeq(line, n + 1, Len(line))
  /\ rxBuffer' = [k \in 1..StxLength |->
                    IF k \in (from + 1)..(from + n) THEN line[k - from] ELSE rxBuffer[k]]

\* A variant for mutation: a packet that is complete is waited for.
CompletedLate(c, length) ==
  /\ IF length <= Length(c) THEN code' = c /\ rxLength' = length ELSE code' = "none" /\ UNCHANGED rxLength
  /\ UNCHANGED read

\* With so many bytes there the packet is returned, or read on in a later slot.
Completed(c, length) ==
  IF length < Length(c)
  THEN code' = c /\ rxLength' = length /\ UNCHANGED read
  ELSE /\ code' = "none" /\ UNCHANGED rxLength
       /\ read' = Append(read, [k \in 1..Length(c) |-> rxBuffer'[k]])

\* No packet is under way: a byte says which item begins.
ReadFirst ==
  /\ code = "none" /\ line # <<>>
  /\ \E n \in 1..Length(Head(line).looks) :
       Fetch(0, n) /\ Completed(Head(line).looks, n)

\* A variant for mutation: as many bytes are asked for as for a whole packet.
ReadRestWhole ==
  /\ code # "none"
  /\ \E n \in 1..Length(code) :
       /\ Fetch(rxLength, n)
       /\ Completed(code, IF n < Length(code) THEN rxLength + n ELSE n)

\* The rest of a packet.
ReadRest ==
  /\ code # "none"
  /\ \E n \in 1..(Length(code) - rxLength) :
       Fetch(rxLength, n) /\ Completed(code, rxLength + n)

ReceivePacket == (ReadFirst \/ ReadRest) /\ UNCHANGED <<written, lost>>

Next == (\E i \in Item : Write(i)) \/ Lose \/ GiveUp \/ ReceivePacket
Spec == Init /\ [][Next]_vars

\* The slot reads again and again, and bytes on the line come to the port.
FairSpec == Spec /\ WF_vars(ReceivePacket)
-----------------------------------------------------------------------------
\* The number of the item a packet is, 0 if its bytes are not those of one item.
Genuine(p) ==
  IF /\ Len(p) = Length(written[p[1].of].code)
     /\ \A k \in DOMAIN p : p[k].of = p[1].of /\ p[k].nth = k
  THEN p[1].of ELSE 0

TypeOK ==
  /\ code \in Packets \cup {"none"} /\ lost \in 0..MaxLost
  /\ code # "none" => rxLength \in 1..(Length(code) - 1)

\* However the line is cut, receivePacket returns the items as they were
\* written; and after a byte is lost, none twice and none out of order.
Abstract == INSTANCE ItemLine
  WITH written <- Len(written), read <- [k \in DOMAIN read |-> Genuine(read[k])], torn <- lost > 0
ImplementsItemLine == Abstract!Spec

\* While no byte is missing, every item is read.
EveryItemIsRead ==
  \A n \in 1..MaxItems :
    (n <= Len(written) /\ lost = 0) ~> (n <= Len(read) \/ lost > 0)
=============================================================================

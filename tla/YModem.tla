------------------------------- MODULE YModem -------------------------------
(***************************************************************************)
(* What the two ends of a YModem transfer share: the class YModem of       *)
(* bcfcore/ymodel/ymodem.cpp (its counters, its time limits, its reading   *)
(* of one packet) and the serial port of SerialChannel_QT between them.    *)
(*                                                                         *)
(* A packet is one item of a line: what its CRC and its complemented block *)
(* number tell the receiver is the field good, and its payload is named by *)
(* the place of the file it was read from (pos).  Sizes are counted in     *)
(* units of YMODEM_PACKET_SIZE bytes.                                      *)
(***************************************************************************)
EXTENDS Integers, Sequences, SequencesExt

CONSTANTS
  TimeDivide,   \* YModem::timeDivide: a silent side repeats itself every TimeDivide + 1 slots
  TimeMax,      \* YModem::timeMax: the repetitions before it gives up
  ErrorMax,     \* YModem::errorMax: the errors in a row before it gives up
  Blocks,       \* the values of the 8-bit block number (256 in the code)
  SohSize,      \* payload of a SOH packet (YMODEM_PACKET_SIZE)
  StxSize,      \* payload of a STX packet (YMODEM_PACKET_1K_SIZE)
  CanNumber,    \* YMODEM_CODE_CAN_NUMBER
  FileSize,     \* size of the file that is sent
  Spaced,       \* the name of the file has a space in it
  Prompt,       \* as long as nothing goes astray, answers come before a repetition falls due
  LocalFaults,  \* opening the file may fail, its name may be too long
  Cancels,      \* the callers may cancel
  MaxRuns       \* bound: transfers started on each side

ASSUME TimeAssumption  == TimeDivide \in Nat /\ TimeMax \in Nat /\ ErrorMax \in Nat
ASSUME BlockAssumption == Blocks \in Nat /\ Blocks > 2
ASSUME SizeAssumption  == /\ SohSize \in Nat \ {0} /\ StxSize \in Nat \ {0}
                          /\ SohSize <= StxSize
                          /\ CanNumber \in Nat \ {0} /\ FileSize \in Nat
ASSUME SwitchAssumption == /\ Spaced \in BOOLEAN /\ Prompt \in BOOLEAN /\ LocalFaults \in BOOLEAN
                           /\ Cancels \in BOOLEAN /\ MaxRuns \in Nat

VARIABLES
  toRx,         \* what is on its way to the receiving side, oldest first
  toTx,         \* what is on its way to the sending side
  faults        \* items lost or damaged so far (YModemTransfer)

lines == <<toRx, toTx>>
-----------------------------------------------------------------------------
Stages == {"None", "Establishing", "Established", "Transmitting", "Finishing", "Finished"}

\* "Idle" is a side on which no transfer was ever started.
Final    == {"Finish", "Abort", "Timeout", "Error"}
Statuses == {"Idle", "Establish", "Transmit"} \cup Final

\* NOISE is any byte that no stage knows; NONE is an empty read.
Codes == {"SOH", "STX", "EOT", "ACK", "NAK", "CAN", "C", "NOISE"}
Numbers == 0..(Blocks - 1)

Item == [code: Codes, blk: Numbers, pos: 0..FileSize,
         body: {"file", "null", "data", "none"}, good: BOOLEAN]

Byte(c)   == [code |-> c, blk |-> 0, pos |-> 0, body |-> "none", good |-> TRUE]
Header(b) == [code |-> "SOH", blk |-> 0, pos |-> 0, body |-> b, good |-> TRUE]
Nothing   == [code |-> "NONE", blk |-> 0, pos |-> 0, body |-> "none", good |-> TRUE]
Cans      == [i \in 1..CanNumber |-> Byte("CAN")]

\* The packet that carries the file from place p on, zero-filled past its end.
Block(n, p) == [code |-> IF FileSize - p > SohSize THEN "STX" ELSE "SOH",
                blk |-> n, pos |-> p, body |-> "data", good |-> TRUE]
Length(pkt)  == IF pkt.code = "STX" THEN StxSize ELSE SohSize

\* Unit i of a payload: a place of the file, 0 for filling and for damaged data.
Unit(pkt, i) == IF pkt.good /\ pkt.pos + i <= FileSize THEN pkt.pos + i ELSE 0

Smaller(a, b) == IF a <= b THEN a ELSE b
NextBlk(n)    == (n + 1) % Blocks
-----------------------------------------------------------------------------
(***************************************************************************)
(* The counters both state machines keep; m is the record of one side.     *)
(***************************************************************************)
Reset(m, s)  == [m EXCEPT !.stage = s, !.time = 0, !.err = 0, !.blk = 0]
Waited(m)    == [m EXCEPT !.time = @ + 1]
Faulted(m)   == [m EXCEPT !.err = @ + 1]
Expired(m)   == m.time \div (TimeDivide + 1) > TimeMax
Due(m)       == m.time % (TimeDivide + 1) = 0
TooMany(m)   == m.err > ErrorMax

\* The slots go on as long as the status is one of these two.
Running(m)   == m.status \in {"Establish", "Transmit"}

\* Whether some slot of m will still read its line.
Reading(m)   == m.active /\ m.timer
-----------------------------------------------------------------------------
(***************************************************************************)
(* The line.  A slot takes the oldest item, or finds nothing.  A line that *)
(* is not prompt lets it find nothing at any time; a prompt one, when      *)
(* nothing is under way in either direction.  Once something has gone      *)
(* astray both sides wait for it, and their periods run out together: even *)
(* on a prompt line either may then find nothing in the slot that makes it *)
(* repeat itself, while what the other wrote is under way.                 *)
(* clear() of the serial port drops what has arrived unread and what is    *)
(* not yet sent.  On time that is all the input, and of the output what    *)
(* this slot wrote; else it is any part (none of it over TCP, whose        *)
(* channel has no clear()).                                                *)
(***************************************************************************)
NoFault == [toRx |-> 0, toTx |-> 0, opening |-> 0]
OnTime  == Prompt /\ faults = NoFault

Quiet(m) ==
  Prompt => \/ toRx = <<>> /\ toTx = <<>>
            \/ faults # NoFault /\ Due(Waited(m))

ReceivePacket(m, in) ==
  (IF in = <<>> THEN {} ELSE {[pkt |-> Head(in), rest |-> Tail(in)]})
    \cup (IF Quiet(m) THEN {[pkt |-> Nothing, rest |-> in]} ELSE {})

Uncleared(in) == IF OnTime THEN {<<>>} ELSE Suffixes(in)
Sent(out, unsent) == IF OnTime THEN {out} ELSE Prefixes(out \o unsent)
=============================================================================

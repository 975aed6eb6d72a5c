------------------------------ MODULE Receive -------------------------------
(***************************************************************************)
(* From the port to signalParseOver: a peer's frames, as the builder lays  *)
(* them out, arrive in pieces, pass the channel's queue and are parsed in  *)
(* the data callback that RequestHandler::receive sets.                    *)
(***************************************************************************)
EXTENDS Channel, ProtocolParser

CONSTANTS
  MaxFrames, MaxBody,  \* bounds: frames the peer sends, bytes of a body
  CleanCuts            \* a piece ends with a frame, or within a head that began the buffer

ASSUME ReceiveAssumption == MaxFrames \in Nat /\ MaxBody \in Nat /\ CleanCuts \in BOOLEAN

VARIABLE frames        \* what the peer sends; seq and the bytes of the body are its number

vars == <<chvars, parservars, frames>>

\* begin is the place of the stream at which a frame begins.
Frame  == [type : 1..Types, len : 0..MaxBody, begin : 0..StreamEnd]
EndOf(f) == f.begin + BodyOffset + f.len
\* Each frame begins where the one before it ends.
Laid(fs) ==
  \A n \in DOMAIN fs :
    /\ n = 1 => fs[n].begin = 0
    /\ n > 1 => fs[n].begin = EndOf(fs[n - 1])
    /\ \A m \in 1..(n - 1) : EndOf(fs[m]) <= fs[n].begin

\* The value of cmd; it is not that of a type.
CmdSent == 9

\* ByHeadProtocolBuilder::build: the head, then the body.
Build(f, n) == <<f.type, n, CmdSent, f.len>> \o [i \in 1..f.len |-> n]

Begin(n)  == frames[n].begin
End(n)    == EndOf(frames[n])
\* What stands at a place of the stream, and between two of them.
FrameAt(q) == CHOOSE n \in DOMAIN frames : Begin(n) <= q /\ q < End(n)
Cell(q)    == Build(frames[FrameAt(q)], FrameAt(q))[q - Begin(FrameAt(q)) + 1]
Cells(p)   == [i \in 1..(p.to - p.from) |-> Cell(p.from + i - 1)]

\* The frames that have arrived whole when the stream has come to place p.
Whole(p) == {n \in DOMAIN frames : End(n) <= p}
AtEnd(p) == p = 0 \/ \E n \in DOMAIN frames : p = End(n)
WithinHead(from, to) ==
  \E n \in DOMAIN frames : Begin(n) <= from /\ to < Begin(n) + BodyOffset

Init ==
  /\ ChannelInit /\ ParserInit
  /\ frames \in {fs \in UNION {[1..n -> Frame] : n \in 1..MaxFrames} : Laid(fs)}
-----------------------------------------------------------------------------
\* The port reads what has come, as much as it is.
Receive(to) ==
  /\ to <= End(Len(frames))
  /\ CleanCuts => AtEnd(to) \/ WithinHead(arrived, to)
  /\ Push(to)

\* A connection ends between two frames; what it had cut would stay in the parsers.
Break == (CleanCuts => AtEnd(arrived)) /\ (Close \/ Destroy)

\* The data callback, parseByAll, in the thread.
Start == [parser |-> 1, parsing |-> FALSE]

ParseByAll ==
  /\ thread = "call" /\ hand # <<>> /\ set
  /\ Sniff(at.parser, Cells(Head(hand))) \/ Parse(at.parser)
  /\ IF at' = Start THEN Called ELSE UNCHANGED chvars

Drop == ~set /\ Called

ThreadNext == ((ThreadGoesOn \/ Drop) /\ UNCHANGED parservars) \/ ParseByAll
LoopNext   == LoopGoesOn /\ UNCHANGED parservars
Environment ==
  /\ Open \/ Break \/ Spurious \/ \E to \in 1..StreamEnd : Receive(to)
  /\ UNCHANGED parservars

Next == (ThreadNext \/ LoopNext \/ Environment) /\ UNCHANGED frames
Spec == Init /\ [][Next]_vars

\* The thread runs and the loop ends what it has begun; nobody has to open, to
\* send or to close.
FairSpec == /\ Spec
            /\ WF_vars(ThreadNext /\ UNCHANGED frames)
            /\ WF_vars(LoopNext /\ UNCHANGED frames)
=============================================================================

--------------------------- MODULE ReceiveProofs ----------------------------
(***************************************************************************)
(* Proofs of ReceiveProperties: first of the channel, whatever the pieces  *)
(* hold, then of the parsers that are given them.                          *)
(***************************************************************************)
EXTENDS ReceiveProperties, SequenceTheorems, FiniteSetTheorems, TLAPS

-----------------------------------------------------------------------------
(***************************************************************************)
(* The channel                                                             *)
(***************************************************************************)
PieceSet == [from : Nat, to : Nat]

ChannelTypes ==
  /\ state \in {"Idel", "Opened", "Closed"}
  /\ isexit \in BOOLEAN /\ set \in BOOLEAN /\ status \in BOOLEAN
  /\ loop \in {"free", "opening", "opened", "pushing", "closing", "joining",
               "exiting", "leaving", "over"}
  /\ thread \in {"none", "test", "predicate", "block", "blocked", "awake", "pop", "call", "gone"}
  /\ queue \in Seq(PieceSet) /\ hand \in Seq(PieceSet)
  /\ arrived \in Nat /\ handled \in Nat /\ closes \in Nat

\* Where the loop stands says in which state the channel is ...
LoopAndState ==
  /\ loop = "opened" => state = "Opened"
  /\ loop \in {"closing", "joining"} => state = "Closed"
  /\ loop = "pushing" => state = "Opened"
  /\ loop = "pushing" /\ thread \in {"awake", "pop"} => queue # <<>>

\* ... that there is no thread after a join, what it holds ...
ThreadJoined ==
  /\ thread # "call" => hand = <<>>
  /\ loop = "free" /\ state = "Closed" => thread = "none"
  /\ loop = "over" => thread = "none"

\* ... and that nothing is received without a data callback.
NoneBefore ==
  ~set => /\ queue = <<>> /\ hand = <<>> /\ loop # "pushing"
          /\ state = "Opened" => loop = "opened"

ChannelInv == ChannelTypes /\ LoopAndState /\ ThreadJoined /\ NoneBefore

LEMMA ChannelInvInit == ChannelInit => ChannelInv
  <1> SUFFICES ASSUME ChannelInit PROVE ChannelInv
    OBVIOUS
  <1>1. LoopAndState /\ ThreadJoined /\ NoneBefore
    BY DEF ChannelInit, LoopAndState, ThreadJoined, NoneBefore
  <1>2. queue \in Seq(PieceSet) /\ hand \in Seq(PieceSet)
    BY DEF ChannelInit
  <1>3. arrived \in Nat /\ handled \in Nat /\ closes \in Nat
    BY DEF ChannelInit
  <1> QED BY <1>1, <1>2, <1>3, Zenon DEF ChannelInit, ChannelInv, ChannelTypes

LEMMA ChannelTypesStep == ChannelInv /\ [ChannelNext]_chvars => ChannelTypes'
  <1> SUFFICES ASSUME ChannelInv, [ChannelNext]_chvars PROVE ChannelTypes'
    OBVIOUS
  <1>0. ChannelTypes /\ LoopAndState
    BY DEF ChannelInv
  <1> USE <1>0 DEF ChannelTypes
  <1>1. CASE LoopGoesOn
    <2>1. CASE Opened \/ SetDataCallback
      BY <2>1 DEF Opened, SetDataCallback, LoopGoes
    <2>2. CASE PushNotify \/ Notify \/ Join
      BY <2>2 DEF PushNotify, Notify, Join, LoopGoes, Notified
    <2> QED BY <1>1, <2>1, <2>2 DEF LoopGoesOn
  <1>2. CASE Open \/ Close \/ Destroy
    <2>1. CASE Open
      BY <2>1 DEF Open, LoopGoes, ThreadGoes
    <2>2. CASE Close
      BY <2>2 DEF Close, LoopGoes
    <2>3. CASE Destroy
      BY <2>3 DEF Destroy, LoopGoes
    <2> QED BY <1>2, <2>1, <2>2, <2>3
  <1>3. ASSUME NEW to \in 1..StreamEnd, Push(to) PROVE ChannelTypes'
    <2>1. arrived' \in Nat /\ Piece(arrived, to) \in PieceSet
      BY <1>3, ChannelAssumption DEF Push, Piece, PieceSet
    <2>2. queue' \in Seq(PieceSet)
      BY <2>1, <1>3 DEF Push
    <2> QED
      BY <1>3, <2>1, <2>2 DEF Push, LoopGoes
  <1>4. CASE ThreadGoesOn \/ Spurious
    <2>1. CASE PopAll
      <3>0. thread' = "call" /\ UNCHANGED <<state, isexit, set, loop, status, arrived, handled, closes>>
        BY <2>1 DEF PopAll, ThreadGoes
      <3> SUFFICES queue' \in Seq(PieceSet) /\ hand' \in Seq(PieceSet)
        BY <3>0
      <3>1. CASE loop # "pushing"
        <4>1. hand' = queue /\ queue' = <<>>
          BY <3>1, <2>1 DEF PopAll
        <4>2. <<>> \in Seq(PieceSet)
          OBVIOUS
        <4> QED BY <4>1, <4>2
      <3>2. CASE loop = "pushing"
        <4>1. queue # <<>>
          BY <2>1, <3>2 DEF PopAll, ThreadGoes, LoopAndState
        <4>2. Len(queue) \in Nat /\ Len(queue) > 0
          BY <4>1
        <4>3. Front(queue) \in Seq(PieceSet)
          BY <4>2 DEF Front
        <4>4. <<Last(queue)>> \in Seq(PieceSet)
          BY <4>2 DEF Last
        <4>5. hand' \in {queue, Front(queue)}
          BY <3>2, <2>1 DEF PopAll
        <4>6. queue' \in {<<>>, <<Last(queue)>>}
          BY <3>2, <2>1 DEF PopAll
        <4>7. <<>> \in Seq(PieceSet)
          OBVIOUS
        <4> QED BY <4>3, <4>4, <4>5, <4>6, <4>7, Zenon
      <3> QED BY <3>1, <3>2
    <2>2. CASE Test \/ Predicate \/ Block \/ WaitTimeout \/ Awake \/ AllCalled \/ Spurious
      BY <2>2 DEF Test, Predicate, Block, WaitTimeout, Awake, AllCalled, Spurious, ThreadGoes, Ready, Leaves
    <2> QED BY <1>4, <2>1, <2>2 DEF ThreadGoesOn
  <1>5. CASE Called
    <2>1. Head(hand) \in PieceSet /\ Tail(hand) \in Seq(PieceSet)
      BY <1>5 DEF Called
    <2> QED BY <1>5, <2>1 DEF Called, PieceSet
  <1>6. CASE UNCHANGED chvars
    BY <1>6 DEF chvars
  <1> QED
    BY <1>1, <1>2, <1>3, <1>4, <1>5, <1>6 DEF ChannelNext, LoopStarts

LEMMA ChannelInvStep == ChannelInv /\ [ChannelNext]_chvars => ChannelInv'
  <1> SUFFICES ASSUME ChannelInv, [ChannelNext]_chvars
               PROVE  (LoopAndState /\ ThreadJoined /\ NoneBefore)'
    BY ChannelTypesStep DEF ChannelInv
  <1> USE DEF ChannelInv, LoopAndState, ThreadJoined, NoneBefore
  <1>1. CASE LoopGoesOn
    BY <1>1 DEF LoopGoesOn, Opened, SetDataCallback, PushNotify, Notify, Join, LoopGoes, Notified, ChannelTypes
  <1>2. CASE Open \/ Close \/ Destroy
    BY <1>2 DEF Open, Close, Destroy, LoopGoes, ThreadGoes, ChannelTypes
  <1>3. ASSUME NEW to \in 1..StreamEnd, Push(to)
        PROVE  (LoopAndState /\ ThreadJoined /\ NoneBefore)'
    BY <1>3 DEF Push, LoopGoes, ChannelTypes
  <1>4. CASE ThreadGoesOn \/ Spurious
    <2>1. CASE PopAll
      BY <2>1 DEF PopAll, ThreadGoes, ChannelTypes
    <2>2. CASE Test \/ Predicate \/ Block \/ WaitTimeout \/ Awake \/ AllCalled \/ Spurious
      BY <2>2 DEF Test, Predicate, Block, WaitTimeout, Awake, AllCalled, Spurious, ThreadGoes, Ready, Leaves, ChannelTypes
    <2> QED BY <1>4, <2>1, <2>2 DEF ThreadGoesOn
  <1>5. CASE Called
    BY <1>5 DEF Called, ChannelTypes
  <1>6. CASE UNCHANGED chvars
    BY <1>6 DEF chvars
  <1> QED
    BY <1>1, <1>2, <1>3, <1>4, <1>5, <1>6 DEF ChannelNext, LoopStarts

\* To the channel, every step of receiving is one of its own.
LEMMA ChannelSteps == [Next]_vars => [ChannelNext]_chvars
  <1> SUFFICES ASSUME [Next]_vars PROVE [ChannelNext]_chvars
    OBVIOUS
  <1>1. CASE ThreadNext
    BY <1>1 DEF ThreadNext, Drop, ParseByAll, ChannelNext
  <1>2. CASE LoopNext
    BY <1>2 DEF LoopNext, ChannelNext
  <1>3. CASE Environment
    BY <1>3 DEF Environment, Break, Receive, ChannelNext, LoopStarts
  <1>4. CASE UNCHANGED vars
    BY <1>4 DEF vars
  <1> QED BY <1>1, <1>2, <1>3, <1>4 DEF Next

\* The channel's own invariant holds of every receiver, however frames are cut.
THEOREM ChannelAlways == Spec => []ChannelInv
  <1>1. Init => ChannelInv
    BY ChannelInvInit DEF Init
  <1>2. ChannelInv /\ [Next]_vars => ChannelInv'
    BY ChannelSteps, ChannelInvStep
  <1> QED BY <1>1, <1>2, PTL DEF Spec

\* There is a data callback before there is data, of a port that opens first as of
\* a connection that is made later (requesthandler.cpp:263).
THEOREM CallbackBeforeData == Spec => []CallbackFirst
  <1>1. ChannelInv => CallbackFirst
    BY DEF ChannelInv, ChannelTypes, NoneBefore, CallbackFirst
  <1> QED BY <1>1, ChannelAlways, PTL

\* After close, or the destructor, nothing is handed over (ichannel.cpp:105).
THEOREM NothingAfterClose == Spec => SilentAfterClose
  <1> DEFINE Silent == (loop = "free" /\ state = "Closed") \/ loop = "over" => UNCHANGED <<handled, got>>
  <1>1. ChannelInv /\ [Next]_vars => [Silent]_vars
    <2> SUFFICES ASSUME ChannelInv, Next, (loop = "free" /\ state = "Closed") \/ loop = "over"
                 PROVE  UNCHANGED <<handled, got>>
      OBVIOUS
    <2>1. thread = "none"
      BY DEF ChannelInv, ThreadJoined
    <2>2. CASE ThreadNext
      <3>1. CASE ParseByAll
        BY <2>1, <3>1 DEF ParseByAll
      <3>2. CASE (ThreadGoesOn \/ Drop) /\ UNCHANGED parservars
        BY <2>1, <3>2 DEF ThreadGoesOn, Test, Predicate, Block, WaitTimeout, Awake, PopAll, AllCalled,
                          Drop, Called, ThreadGoes
      <3> QED BY <2>2, <3>1, <3>2 DEF ThreadNext
    <2>3. CASE LoopNext
      BY <2>3 DEF LoopNext, LoopGoesOn, Opened, SetDataCallback, PushNotify, Notify, Join, parservars
    <2>4. CASE Environment
      BY <2>4 DEF Environment, Break, Receive, Open, Close, Destroy, Push, Spurious, parservars
    <2> QED BY <2>2, <2>3, <2>4 DEF Next
  <1> QED BY <1>1, ChannelAlways, PTL DEF Spec, SilentAfterClose
-----------------------------------------------------------------------------
(***************************************************************************)
(* The pieces                                                              *)
(***************************************************************************)
\* q covers the stream between two places without a gap.
Covers(q, from, to) ==
  /\ q = <<>> => from = to
  /\ q # <<>> => q[1].from = from /\ q[Len(q)].to = to
  /\ \A i \in 1..(Len(q) - 1) : q[i].to = q[i + 1].from

LEMMA CoversAppend ==
  ASSUME NEW q \in Seq(PieceSet), NEW from \in Nat, NEW to \in Nat, NEW further \in Nat,
         Covers(q, from, to)
  PROVE  Covers(Append(q, Piece(to, further)), from, further)
  <1> DEFINE p == Piece(to, further)
             r == Append(q, p)
  <1>1. Len(q) \in Nat /\ Len(r) = Len(q) + 1 /\ r # <<>> /\ r[Len(q) + 1] = p
    OBVIOUS
  <1>2. \A i \in 1..Len(q) : r[i] = q[i]
    OBVIOUS
  <1>3. p.from = to /\ p.to = further
    BY DEF Piece
  <1> SUFFICES Covers(r, from, further)
    OBVIOUS
  <1> HIDE DEF p, r
  <1>4. q = <<>> <=> Len(q) = 0
    OBVIOUS
  <1> QED BY <1>1, <1>2, <1>3, <1>4 DEF Covers

LEMMA CoversTail ==
  ASSUME NEW q \in Seq(PieceSet), NEW from \in Nat, NEW to \in Nat,
         Covers(q, from, to), q # <<>>
  PROVE  Head(q).from = from /\ Covers(Tail(q), Head(q).to, to)
  <1> DEFINE r == Tail(q)
  <1>1. Len(q) \in Nat /\ Len(q) > 0 /\ Len(r) = Len(q) - 1 /\ Head(q) = q[1]
    OBVIOUS
  <1>2. \A i \in 1..Len(r) : r[i] = q[i + 1]
    OBVIOUS
  <1>0. r \in Seq(PieceSet)
    OBVIOUS
  <1> SUFFICES Head(q).from = from /\ Covers(r, Head(q).to, to)
    OBVIOUS
  <1> HIDE DEF r
  <1>3. r = <<>> <=> Len(r) = 0
    BY <1>0
  <1>4. q[1].from = from /\ q[Len(q)].to = to /\ \A i \in 1..(Len(q) - 1) : q[i].to = q[i + 1].from
    BY DEF Covers
  <1>5. r = <<>> => Head(q).to = to
    <2> SUFFICES ASSUME Len(r) = 0 PROVE Head(q).to = to
      BY <1>3
    <2>1. Len(q) = 1
      BY <1>1
    <2> QED BY <1>1, <1>4, <2>1
  <1>6. r # <<>> => r[1].from = Head(q).to /\ r[Len(r)].to = to
    <2> SUFFICES ASSUME Len(r) # 0 PROVE r[1].from = Head(q).to /\ r[Len(r)].to = to
      BY <1>3
    <2>1. 1 \in 1..Len(r) /\ Len(r) \in 1..Len(r) /\ 1 \in 1..(Len(q) - 1)
      BY <1>1
    <2>2. r[1] = q[2] /\ r[Len(r)] = q[Len(q)]
      BY <1>1, <1>2, <2>1
    <2> QED BY <1>1, <1>4, <2>1, <2>2
  <1>7. \A i \in 1..(Len(r) - 1) : r[i].to = r[i + 1].from
    BY <1>1, <1>2, <1>4
  <1> QED BY <1>1, <1>4, <1>5, <1>6, <1>7 DEF Covers

PiecesInv == ChannelInv /\ Covers(Kept, handled, arrived)

LEMMA CoversIsNothingLost ==
  ASSUME ChannelTypes
  PROVE  NothingLost <=> Covers(Kept, handled, arrived)
  <1>1. Kept \in Seq(PieceSet)
    BY DEF Kept, ChannelTypes
  <1>2. Kept # <<>> => Head(Kept) = Kept[1]
    BY <1>1
  <1> HIDE DEF Kept
  <1> QED BY <1>2 DEF NothingLost, Covers, Last

\* What a step may do to the pieces: one more at the end, one less at the front.
LEMMA KeptMoves ==
  ASSUME ~Races, ChannelInv, [Next]_vars
  PROVE  \/ \E to \in 1..StreamEnd :
              /\ Receive(to) /\ arrived < to /\ arrived' = to /\ handled' = handled
              /\ Kept' = Append(Kept, Piece(arrived, to))
         \/ Kept' = Kept /\ UNCHANGED <<arrived, handled>>
         \/ /\ Called /\ Kept # <<>> /\ Head(Kept) = Head(hand)
            /\ Kept' = Tail(Kept) /\ handled' = Head(Kept).to /\ arrived' = arrived
  <1> DEFINE Longer == \E to \in 1..StreamEnd :
                         /\ Receive(to) /\ arrived < to /\ arrived' = to /\ handled' = handled
                         /\ Kept' = Append(Kept, Piece(arrived, to))
             Same == Kept' = Kept /\ UNCHANGED <<arrived, handled>>
             Shorter == /\ Called /\ Kept # <<>> /\ Head(Kept) = Head(hand)
                        /\ Kept' = Tail(Kept) /\ handled' = Head(Kept).to /\ arrived' = arrived
  <1> SUFFICES Longer \/ Same \/ Shorter
    OBVIOUS
  <1>1. ChannelTypes /\ ThreadJoined /\ NoneBefore
    BY DEF ChannelInv
  <1>2. queue \in Seq(PieceSet) /\ hand \in Seq(PieceSet) /\ arrived \in Nat
    BY <1>1 DEF ChannelTypes
  <1>3. ASSUME NEW to \in 1..StreamEnd, Receive(to) PROVE Longer
    <2>1. Push(to)
      BY <1>3 DEF Receive
    <2>2. arrived' = to /\ handled' = handled /\ arrived < to
      BY <1>2, <2>1, ChannelAssumption DEF Push
    <2>3. Kept' = Append(Kept, Piece(arrived, to))
      BY <1>2, <2>1 DEF Push, Kept, Piece
    <2> QED BY <1>3, <2>2, <2>3
  <1>4. CASE PopAll
    <2>1. hand = <<>> /\ hand' = queue /\ queue' = <<>> /\ UNCHANGED <<arrived, handled>>
      BY <1>4, <1>1 DEF PopAll, ThreadGoes, ThreadJoined
    <2> QED BY <2>1, <1>2 DEF Kept
  <1>5. CASE Called
    <2>1. hand # <<>> /\ hand' = Tail(hand) /\ queue' = queue /\ arrived' = arrived /\ set
      BY <1>5, <1>1 DEF Called, NoneBefore
    <2>2. handled' = Head(hand).to
      BY <1>5, <2>1 DEF Called
    <2>3. Kept # <<>> /\ Head(Kept) = Head(hand) /\ Kept' = Tail(Kept)
      BY <2>1, <1>2 DEF Kept
    <2> QED BY <1>5, <2>1, <2>2, <2>3
  <1>6. CASE UNCHANGED <<queue, hand, handled, arrived>>
    BY <1>6 DEF Kept
  <1> HIDE DEF Longer, Same, Shorter
  <1>7. CASE LoopNext
    BY <1>7, <1>6 DEF LoopNext, LoopGoesOn, Opened, SetDataCallback, PushNotify, Notify, Join
  <1>8. CASE Environment
    BY <1>8, <1>6, <1>3 DEF Environment, Break, Open, Close, Destroy, Spurious
  <1>9. CASE ThreadNext
    <2>1. CASE ThreadGoesOn
      BY <2>1, <1>4, <1>6 DEF ThreadGoesOn, Test, Predicate, Block, WaitTimeout, Awake, AllCalled
    <2>2. CASE Drop
      BY <2>2, <1>5 DEF Drop
    <2>3. CASE ParseByAll
      BY <2>3, <1>5, <1>6 DEF ParseByAll, chvars
    <2> QED BY <1>9, <2>1, <2>2, <2>3 DEF ThreadNext
  <1>10. CASE UNCHANGED vars
    BY <1>10, <1>6 DEF vars, chvars
  <1> QED BY <1>7, <1>8, <1>9, <1>10 DEF Next

LEMMA PiecesInvStep ==
  ASSUME ~Races, PiecesInv, [Next]_vars
  PROVE  PiecesInv'
  <1>1. ChannelInv /\ ChannelInv'
    BY ChannelSteps, ChannelInvStep DEF PiecesInv
  <1>2. Kept \in Seq(PieceSet) /\ arrived \in Nat /\ handled \in Nat /\ arrived' \in Nat
    BY <1>1 DEF ChannelInv, ChannelTypes, Kept
  <1>3. Covers(Kept, handled, arrived)
    BY DEF PiecesInv
  <1>4. CASE Kept' = Kept /\ UNCHANGED <<arrived, handled>>
    BY <1>1, <1>3, <1>4 DEF PiecesInv
  <1>5. CASE /\ arrived' \in Nat /\ handled' = handled
             /\ Kept' = Append(Kept, Piece(arrived, arrived'))
    BY <1>1, <1>2, <1>3, <1>5, CoversAppend DEF PiecesInv
  <1>6. CASE Kept # <<>> /\ Kept' = Tail(Kept) /\ handled' = Head(Kept).to /\ arrived' = arrived
    BY <1>1, <1>2, <1>3, <1>6, CoversTail DEF PiecesInv
  <1> QED BY <1>1, <1>2, <1>4, <1>5, <1>6, KeptMoves

\* Without the race of popall no piece is lost, doubled or out of its place on the
\* way between the two threads (ichannel.cpp:114, 122), wherever they are cut.
THEOREM PiecesAreKept == ASSUME ~Races PROVE Spec => []NothingLost
  <1>1. Init => PiecesInv
    <2> SUFFICES ASSUME Init PROVE PiecesInv
      OBVIOUS
    <2>1. Kept = <<>> /\ handled = arrived /\ Len(<<>>) = 0
      BY DEF Init, ChannelInit, Kept
    <2> QED BY <2>1, ChannelInvInit DEF Init, PiecesInv, Covers
  <1>2. PiecesInv /\ [Next]_vars => PiecesInv'
    BY PiecesInvStep
  <1>3. PiecesInv => NothingLost
    BY CoversIsNothingLost DEF PiecesInv, ChannelInv
  <1> QED BY <1>1, <1>2, <1>3, PTL DEF Spec
-----------------------------------------------------------------------------
(***************************************************************************)
(* The parsers                                                             *)
(***************************************************************************)
FramesOK == \E k \in 1..MaxFrames : frames \in [1..k -> Frame] /\ Laid(frames)

\* The parser of the first frame is the only one that ever comes past it.
First == frames[1].type

\* The place behind the first k frames.
Here(k) == IF k = 0 THEN 0 ELSE End(k)

\* A buffer that holds the stream between two places and is read up to r.
Filled(from, to, r) ==
  [buf |-> Cells(Piece(from, to)), rpos |-> r, wpos |-> to - from]

\* How far the stream has come to parser p: the parsers before the one whose turn
\* it is have the piece that is handed over.
Has(p)    == p < at.parser \/ (p = at.parser /\ at.parsing)
Behind(p) == IF Has(p) THEN Head(hand).to ELSE handled

Clean(p) ==
  /\ p.from < p.to /\ p.to <= arrived
  /\ AtEnd(p.to) \/ WithinHead(p.from, p.to)

StreamInv ==
  /\ FramesOK
  /\ handled <= arrived /\ arrived <= End(Len(frames))
  /\ \A i \in DOMAIN Kept : Clean(Kept[i])

TurnInv ==
  /\ at \in [parser : 1..Types, parsing : BOOLEAN]
  /\ at.parsing => at.parser = First
  /\ at # Start => thread = "call" /\ hand # <<>>

\* What the models hold.
ModelSet == [by : Nat, type : Nat, seq : Nat, cmd : Nat, body : Seq(Nat)]
GotInv ==
  /\ got \in Seq(ModelSet) /\ Len(got) <= Len(frames)
  /\ \A i \in 1..Len(got) : View(got[i]) = Sent[i]

\* The other parsers stand before the first frame for ever.
OthersInv == \A p \in 1..Types : p # First => buffers[p] = Filled(0, Behind(p), 0)

\* The parser of the first frame has made a model of each frame before place h.
\* When it is not parsing, nothing before h is left in its buffer, and behind h a
\* part of a head or a frame of another type; when it is, there is something to
\* parse, up to the end of a frame or within a head.
Idle(b, n, h, c) ==
  /\ b = Filled(h, c, 0) /\ h <= c
  /\ h < c => frames[n + 1].type # First \/ c < h + BodyOffset
Parsing(b, h, c) ==
  /\ h < c
  /\ \E s \in 0..h : /\ b = Filled(s, c, h - s)
                     /\ AtEnd(c) \/ (s = h /\ c < h + BodyOffset)
FirstInv ==
  LET h == Here(Len(got))
      c == Behind(First)
  IN  IF at.parsing THEN Parsing(buffers[First], h, c) ELSE Idle(buffers[First], Len(got), h, c)

ParserInv ==
  /\ DOMAIN buffers = 1..Types
  /\ TurnInv /\ GotInv /\ OthersInv /\ FirstInv

IInv == PiecesInv /\ StreamInv /\ ParserInv
-----------------------------------------------------------------------------
(***************************************************************************)
(* The frames and their places                                             *)
(***************************************************************************)
LEMMA FrameFacts ==
  ASSUME FramesOK
  PROVE  /\ Len(frames) \in 1..MaxFrames /\ DOMAIN frames = 1..Len(frames)
         /\ \A n \in DOMAIN frames :
              /\ frames[n].type \in 1..Types /\ frames[n].len \in Nat
              /\ Begin(n) \in Nat /\ End(n) = Begin(n) + 4 + frames[n].len
         /\ Begin(1) = 0
         /\ \A n \in DOMAIN frames : n > 1 => Begin(n) = End(n - 1)
         /\ \A m, n \in DOMAIN frames : m < n => End(m) <= Begin(n)
  <1>1. PICK k \in 1..MaxFrames : frames \in [1..k -> Frame] /\ Laid(frames)
    BY DEF FramesOK
  <1>2. k \in Nat /\ MaxFrames \in Nat
    BY <1>1, ReceiveAssumption
  <1>3. frames \in Seq(Frame) /\ Len(frames) = k /\ DOMAIN frames = 1..k
    BY <1>1, <1>2
  <1>4. \A n \in DOMAIN frames :
          /\ frames[n].type \in 1..Types /\ frames[n].len \in Nat
          /\ Begin(n) \in Nat /\ End(n) = Begin(n) + 4 + frames[n].len
    BY <1>1, <1>2 DEF Frame, Begin, End, EndOf, BodyOffset
  <1>5. Begin(1) = 0
    BY <1>1, <1>2, <1>3 DEF Laid, Begin
  <1>6. \A n \in DOMAIN frames : n > 1 => Begin(n) = End(n - 1)
    BY <1>1, <1>2, <1>3 DEF Laid, Begin, End
  <1>7. \A m, n \in DOMAIN frames : m < n => End(m) <= Begin(n)
    <2> SUFFICES ASSUME NEW m \in DOMAIN frames, NEW n \in DOMAIN frames, m < n
                 PROVE  End(m) <= Begin(n)
      OBVIOUS
    <2>1. m \in 1..(n - 1)
      BY <1>2, <1>3
    <2> QED BY <1>1, <2>1 DEF Laid, Begin, End
  <1> QED BY <1>2, <1>3, <1>4, <1>5, <1>6, <1>7

\* The first k frames: where the next one begins, and what has arrived whole.
LEMMA HereFacts ==
  ASSUME FramesOK, NEW k \in 0..Len(frames)
  PROVE  /\ Here(k) \in Nat
         /\ k < Len(frames) => /\ k + 1 \in DOMAIN frames /\ Begin(k + 1) = Here(k)
                               /\ Here(k + 1) = Here(k) + 4 + frames[k + 1].len
         /\ k = Len(frames) => Here(k) = End(Len(frames))
         /\ \A n \in DOMAIN frames : n <= k => End(n) <= Here(k)
         /\ \A n \in DOMAIN frames : n > k => Here(k) < End(n) /\ Here(k) <= Begin(n)
  <1>0. /\ Len(frames) \in Nat /\ DOMAIN frames = 1..Len(frames) /\ Len(frames) > 0
        /\ \A n \in DOMAIN frames :
             /\ frames[n].type \in 1..Types /\ frames[n].len \in Nat
             /\ Begin(n) \in Nat /\ End(n) = Begin(n) + 4 + frames[n].len
        /\ Begin(1) = 0
        /\ \A m, n \in DOMAIN frames : m < n => End(m) <= Begin(n)
    BY FrameFacts, ReceiveAssumption
  <1> USE <1>0 DEF Here
  <1>1. Here(k) \in Nat
    OBVIOUS
  <1>2. k < Len(frames) => /\ k + 1 \in DOMAIN frames /\ Begin(k + 1) = Here(k)
                           /\ Here(k + 1) = Here(k) + 4 + frames[k + 1].len
    <2> SUFFICES ASSUME k < Len(frames)
                 PROVE  /\ k + 1 \in DOMAIN frames /\ Begin(k + 1) = Here(k)
                        /\ Here(k + 1) = Here(k) + 4 + frames[k + 1].len
      OBVIOUS
    <2>1. k + 1 \in DOMAIN frames /\ k + 1 # 0 /\ (k + 1) - 1 = k
      OBVIOUS
    <2>2. Begin(k + 1) = Here(k)
      <3>1. k + 1 > 1 => Begin(k + 1) = End(k)
        BY <2>1, FrameFacts, Zenon
      <3>2. Begin(1) = 0
        BY FrameFacts
      <3> QED BY <3>1, <3>2
    <2>3. Here(k + 1) = End(k + 1)
      BY <2>1
    <2> QED BY <2>1, <2>2, <2>3
  <1>3. \A n \in DOMAIN frames : n <= k => End(n) <= Here(k)
    <2> SUFFICES ASSUME NEW n \in DOMAIN frames, n <= k, n # k PROVE End(n) <= Here(k)
      OBVIOUS
    <2>1. k \in DOMAIN frames /\ n < k /\ k # 0
      OBVIOUS
    <2>2. End(n) <= Begin(k) /\ Begin(k) <= End(k)
      BY <2>1
    <2> QED BY <2>1, <2>2
  <1>4. ASSUME NEW n \in DOMAIN frames, n > k PROVE Here(k) < End(n) /\ Here(k) <= Begin(n)
    <2>1. CASE k = 0
      BY <2>1
    <2>2. CASE k # 0
      <3>1. k \in DOMAIN frames /\ k < n
        BY <1>4, <2>2
      <3>2. End(k) <= Begin(n)
        BY <3>1
      <3> QED BY <2>2, <3>1, <3>2, SMTT(30)
    <2> QED BY <2>1, <2>2, Zenon
  <1>5. k = Len(frames) => Here(k) = End(Len(frames))
    OBVIOUS
  <1> HIDE DEF Here
  <1> QED BY <1>1, <1>2, <1>3, <1>4, <1>5, Zenon

\* What stands in the head and in the body of a frame.
LEMMA CellAt ==
  ASSUME FramesOK, NEW n \in DOMAIN frames
  PROVE  /\ Cell(Begin(n)) = frames[n].type
         /\ Cell(Begin(n) + 1) = n
         /\ Cell(Begin(n) + 2) = CmdSent
         /\ Cell(Begin(n) + 3) = frames[n].len
         /\ \A i \in 1..frames[n].len : Cell(Begin(n) + 3 + i) = n
  <1>0. /\ Len(frames) \in Nat /\ DOMAIN frames = 1..Len(frames) /\ Len(frames) > 0
        /\ \A r \in DOMAIN frames :
             /\ frames[r].type \in 1..Types /\ frames[r].len \in Nat
             /\ Begin(r) \in Nat /\ End(r) = Begin(r) + 4 + frames[r].len
        /\ Begin(1) = 0
        /\ \A m, r \in DOMAIN frames : m < r => End(m) <= Begin(r)
    BY FrameFacts, ReceiveAssumption
  <1>1. ASSUME NEW q \in Int, Begin(n) <= q, q < End(n)
        PROVE  Cell(q) = Build(frames[n], n)[q - Begin(n) + 1]
    <2>1. FrameAt(q) \in DOMAIN frames /\ Begin(FrameAt(q)) <= q /\ q < End(FrameAt(q))
      BY <1>1, Zenon DEF FrameAt
    <2>2. FrameAt(q) = n
      <3> DEFINE m == FrameAt(q)
      <3> HIDE DEF m
      <3>1. m \in DOMAIN frames /\ Begin(m) <= q /\ q < End(m)
        BY <2>1 DEF m
      <3>2. ~(m < n) /\ ~(n < m)
        BY <1>0, <1>1, <3>1
      <3>3. m = n
        BY <1>0, <3>1, <3>2
      <3> QED BY <3>3 DEF m
    <2> QED BY <2>2 DEF Cell
  <1> DEFINE l == frames[n].len
             hd == <<frames[n].type, n, CmdSent, l>>
             bd == [i \in 1..l |-> n]
  <1>2. Build(frames[n], n) = hd \o bd
    BY DEF Build
  <1>3. l \in Nat /\ n \in Nat /\ End(n) = Begin(n) + 4 + l /\ Begin(n) \in Nat
    BY <1>0
  <1>4. hd[1] = frames[n].type /\ hd[2] = n /\ hd[3] = CmdSent /\ hd[4] = l /\ Len(hd) = 4
    OBVIOUS
  <1>5. bd \in Seq(Nat) /\ Len(bd) = l /\ \A i \in 1..l : bd[i] = n
    BY <1>3
  <1>6. hd \in Seq(Nat)
    BY <1>0, <1>3, ParserAssumption DEF CmdSent
  <1> HIDE DEF hd, bd, l
  <1>10. PICK c : c = hd \o bd
    OBVIOUS
  <1>7. (\A i \in 1..4 : c[i] = hd[i]) /\ \A i \in 1..l : c[4 + i] = bd[i]
    <2>1. \A i \in 1..(Len(hd) + Len(bd)) :
            (hd \o bd)[i] = IF i <= Len(hd) THEN hd[i] ELSE bd[i - Len(hd)]
      BY <1>5, <1>6, ConcatProperties, Zenon
    <2>2. \A i \in 1..(4 + l) : c[i] = IF i <= 4 THEN hd[i] ELSE bd[i - 4]
      BY <1>4, <1>5, <1>10, <2>1, Zenon
    <2>3. ASSUME NEW i \in 1..4 PROVE c[i] = hd[i]
      <3>1. i \in 1..(4 + l) /\ i <= 4
        BY <1>3
      <3> QED BY <2>2, <3>1, Zenon
    <2>4. ASSUME NEW i \in 1..l PROVE c[4 + i] = bd[i]
      <3>1. 4 + i \in 1..(4 + l) /\ ~(4 + i <= 4) /\ (4 + i) - 4 = i
        BY <1>3
      <3> QED BY <2>2, <3>1, Zenon
    <2> QED BY <2>3, <2>4, Zenon
  <1>11. PICK b \in Nat : b = Begin(n)
    BY <1>3
  <1>12. ASSUME NEW j \in 1..(4 + l) PROVE Cell(b + (j - 1)) = c[j]
    <2>1. /\ b + (j - 1) \in Int /\ b <= b + (j - 1) /\ b + (j - 1) < b + 4 + l
          /\ b + (j - 1) - b + 1 = j
      BY <1>3
    <2>2. Cell(b + (j - 1)) = Build(frames[n], n)[b + (j - 1) - b + 1]
      BY <1>1, <1>3, <1>11, <2>1
    <2> QED BY <2>1, <2>2, <1>2, <1>10
  <1>8. /\ Cell(Begin(n)) = frames[n].type /\ Cell(Begin(n) + 1) = n
        /\ Cell(Begin(n) + 2) = CmdSent /\ Cell(Begin(n) + 3) = l
    <2>1. 1 \in 1..(4 + l) /\ 2 \in 1..(4 + l) /\ 3 \in 1..(4 + l) /\ 4 \in 1..(4 + l)
      BY <1>3
    <2>2. /\ Cell(b + (1 - 1)) = c[1] /\ Cell(b + (2 - 1)) = c[2]
          /\ Cell(b + (3 - 1)) = c[3] /\ Cell(b + (4 - 1)) = c[4]
      BY <1>12, <2>1, Zenon
    <2>3. b + (1 - 1) = b /\ b + (2 - 1) = b + 1 /\ b + (3 - 1) = b + 2 /\ b + (4 - 1) = b + 3
      OBVIOUS
    <2> QED BY <2>2, <2>3, <1>4, <1>7, <1>11
  <1>9. ASSUME NEW i \in 1..l PROVE Cell(Begin(n) + 3 + i) = n
    <2>1. 4 + i \in 1..(4 + l) /\ b + (4 + i - 1) = b + 3 + i
      BY <1>3
    <2>2. Cell(b + (4 + i - 1)) = c[4 + i]
      BY <1>12, <2>1
    <2> QED BY <2>1, <2>2, <1>5, <1>7, <1>11
  <1> QED BY <1>8, <1>9 DEF l
-----------------------------------------------------------------------------
(***************************************************************************)
(* What a buffer holds                                                     *)
(***************************************************************************)
LEMMA CellsFacts ==
  ASSUME NEW from \in Nat, NEW to \in Nat, from <= to
  PROVE  /\ Len(Cells(Piece(from, to))) = to - from
         /\ Cells(Piece(from, to)) \in Seq({Cell(q) : q \in Int})
         /\ \A i \in 1..(to - from) : Cells(Piece(from, to))[i] = Cell(from + i - 1)
  <1> DEFINE n == to - from
             S == {Cell(q) : q \in Int}
             f == [i \in 1..n |-> Cell(from + i - 1)]
  <1>1. Cells(Piece(from, to)) = f
    BY DEF Cells, Piece
  <1>2. n \in Nat
    OBVIOUS
  <1>3. f \in Seq(S) /\ DOMAIN f = 1..n
    <2>1. \A i \in 1..n : Cell(from + i - 1) \in S
      OBVIOUS
    <2> QED BY <1>2, <2>1
  <1>4. \A i \in 1..n : f[i] = Cell(from + i - 1)
    OBVIOUS
  <1> HIDE DEF f, n, S
  <1>5. Len(f) = n
    BY <1>2, <1>3
  <1> QED BY <1>1, <1>3, <1>4, <1>5 DEF n, S

LEMMA FilledFacts ==
  ASSUME NEW from \in Nat, NEW to \in Nat, from <= to, NEW r
  PROVE  LET b == Filled(from, to, r)
         IN  /\ b.rpos = r /\ b.wpos = to - from /\ Size(b) = to - from
             /\ b.buf = Cells(Piece(from, to))
             /\ \A i \in 0..(to - from - 1) : At(b, i) = Cell(from + i)
  <1> DEFINE b == Filled(from, to, r)
  <1>1. b.rpos = r /\ b.wpos = to - from /\ b.buf = Cells(Piece(from, to))
    BY DEF Filled
  <1>2. Size(b) = to - from
    BY <1>1, CellsFacts DEF Size
  <1>3. ASSUME NEW i \in 0..(to - from - 1) PROVE At(b, i) = Cell(from + i)
    <2>1. i + 1 \in 1..(to - from) /\ i < to - from /\ from + (i + 1) - 1 = from + i
      OBVIOUS
    <2>2. b.buf[i + 1] = Cell(from + (i + 1) - 1)
      BY <1>1, <2>1, CellsFacts
    <2> HIDE DEF b
    <2> QED BY <1>2, <2>1, <2>2 DEF At
  <1> QED BY <1>1, <1>2, <1>3

\* A piece that is put behind what a buffer holds continues it.
LEMMA PutFilled ==
  ASSUME NEW from \in Nat, NEW c \in Nat, NEW to \in Nat, from <= c, c <= to, NEW r
  PROVE  Put(Filled(from, c, r), Cells(Piece(c, to))) = Filled(from, to, r)
  <1> DEFINE b == Filled(from, c, r)
             cells == Cells(Piece(c, to))
             end == to - from
             f == [i \in 1..end |-> IF i \in (c - from + 1)..end THEN cells[i - (c - from)]
                                    ELSE At(b, i - 1)]
  <1>1. /\ b.wpos = c - from /\ Size(b) = c - from
        /\ \A i \in 0..(c - from - 1) : At(b, i) = Cell(from + i)
    BY FilledFacts
  <1>2. Len(cells) = to - c /\ \A i \in 1..(to - c) : cells[i] = Cell(c + i - 1)
    BY CellsFacts
  <1>3. b.wpos + Len(cells) = end /\ ~(Size(b) > end)
    BY <1>1, <1>2
  <1>4. \A i \in 1..end : f[i] = Cell(from + i - 1)
    <2> SUFFICES ASSUME NEW i \in 1..end PROVE f[i] = Cell(from + i - 1)
      OBVIOUS
    <2> HIDE DEF b, cells
    <2>1. CASE i \in (c - from + 1)..end
      <3>1. i - (c - from) \in 1..(to - c) /\ c + (i - (c - from)) - 1 = from + i - 1
        BY <2>1
      <3> QED BY <1>2, <2>1, <3>1
    <2>2. CASE i \notin (c - from + 1)..end
      <3>1. i - 1 \in 0..(c - from - 1) /\ from + (i - 1) = from + i - 1
        BY <2>2
      <3> QED BY <1>1, <2>2, <3>1
    <2> QED BY <2>1, <2>2
  <1>5. f = Cells(Piece(from, to))
    <2>1. Cells(Piece(from, to)) = [i \in 1..end |-> Cell(from + i - 1)]
      BY DEF Cells, Piece
    <2> HIDE DEF f
    <2>2. f = [i \in 1..end |-> f[i]]
      BY DEF f
    <2> QED BY <1>4, <2>1, <2>2
  <1>6. Put(b, cells) = [b EXCEPT !.wpos = end, !.buf = f]
    BY <1>1, <1>3 DEF Put
  <1> HIDE DEF f, cells, end
  <1>7. [b EXCEPT !.wpos = end, !.buf = f] = [buf |-> f, rpos |-> r, wpos |-> end]
    <2>1. PICK x, y : b = [buf |-> x, rpos |-> r, wpos |-> y]
      BY DEF Filled
    <2> HIDE DEF b
    <2>2. PICK d : d = [b EXCEPT !.wpos = end]
      OBVIOUS
    <2>4. d = [buf |-> x, rpos |-> r, wpos |-> end]
      BY <2>1, <2>2
    <2>5. [d EXCEPT !.buf = f] = [buf |-> f, rpos |-> r, wpos |-> end]
      BY <2>4
    <2>3. [b EXCEPT !.wpos = end, !.buf = f] = [[b EXCEPT !.wpos = end] EXCEPT !.buf = f]
      BY <2>1
    <2> QED BY <2>2, <2>3, <2>5, Zenon
  <1> HIDE DEF b
  <1> QED BY <1>5, <1>6, <1>7 DEF Filled, b, cells, end

LEMMA FilledEmpty == ASSUME NEW c \in Nat PROVE Filled(c, c, 0) = Cleared
  <1>1. Cells(Piece(c, c)) = <<>>
    <2>1. Cells(Piece(c, c)) = [i \in 1..0 |-> Cell(c + i - 1)]
      BY DEF Cells, Piece
    <2> QED BY <2>1
  <1> QED BY <1>1 DEF Filled, Cleared

\* The frames do not change, and with them what stands at a place.
FrameOf(fs, q) == CHOOSE n \in DOMAIN fs : fs[n].begin <= q /\ q < EndOf(fs[n])
CellOf(fs, q)  == Build(fs[FrameOf(fs, q)], FrameOf(fs, q))[q - fs[FrameOf(fs, q)].begin + 1]

LEMMA CellsSame ==
  ASSUME frames' = frames, NEW from, NEW to, NEW r
  PROVE  Filled(from, to, r)' = Filled(from, to, r)
  <1>1. \A q : Cell(q) = CellOf(frames, q)
    BY DEF Cell, CellOf, FrameAt, FrameOf, Begin, End
  <1>2. \A q : Cell(q)' = CellOf(frames', q)
    BY DEF Cell, CellOf, FrameAt, FrameOf, Begin, End
  <1>3. \A q : Cell(q)' = Cell(q)
    BY <1>1, <1>2
  <1> QED BY <1>3 DEF Filled, Cells, Piece
-----------------------------------------------------------------------------
(***************************************************************************)
(* The stream                                                              *)
(***************************************************************************)
LEMMA StreamInit == Init => StreamInv
  <1> SUFFICES ASSUME Init PROVE StreamInv
    OBVIOUS
  <1>1. FramesOK
    <2>1. PICK k \in 1..MaxFrames : frames \in [1..k -> Frame]
      BY DEF Init
    <2> QED BY <2>1 DEF Init, FramesOK
  <1>2. Kept = <<>> /\ handled = 0 /\ arrived = 0
    BY DEF Init, ChannelInit, Kept
  <1>3. End(Len(frames)) \in Nat /\ DOMAIN Kept = {}
    <2>1. Len(frames) \in DOMAIN frames
      BY <1>1, FrameFacts, ReceiveAssumption
    <2>2. End(Len(frames)) \in Nat
      BY <1>1, <2>1, FrameFacts
    <2> QED BY <2>2, <1>2
  <1> QED BY <1>1, <1>2, <1>3 DEF StreamInv

LEMMA StreamStep ==
  ASSUME ~Races, CleanCuts, PiecesInv, StreamInv, [Next]_vars
  PROVE  StreamInv'
  <1>1. frames' = frames
    BY DEF Next, vars
  <1>2. FramesOK' /\ End(Len(frames))' = End(Len(frames))
    BY <1>1 DEF StreamInv, FramesOK, Laid, End, EndOf
  <1>3. Kept \in Seq(PieceSet) /\ arrived \in Nat /\ handled \in Nat
    BY DEF PiecesInv, ChannelInv, ChannelTypes, Kept
  <1>4. ASSUME NEW p \in PieceSet, Clean(p), arrived <= arrived', arrived' \in Nat PROVE Clean(p)'
    <2>1. p.to <= arrived'
      BY <1>3, <1>4 DEF Clean, PieceSet
    <2>2. AtEnd(p.to)' = AtEnd(p.to) /\ WithinHead(p.from, p.to)' = WithinHead(p.from, p.to)
      BY <1>1 DEF AtEnd, WithinHead, Begin, End, EndOf
    <2> QED BY <1>4, <2>1, <2>2 DEF Clean
  <1>5. handled <= arrived /\ arrived <= End(Len(frames)) /\ \A i \in DOMAIN Kept : Clean(Kept[i])
    BY DEF StreamInv
  <1> DEFINE Moved == /\ handled' <= arrived' /\ arrived' <= End(Len(frames))
                      /\ \A i \in DOMAIN Kept' : \E p \in PieceSet : p = Kept'[i] /\ Clean(p)'
  <1> SUFFICES Moved
    BY <1>2 DEF StreamInv
  <1>6. CASE Kept' = Kept /\ UNCHANGED <<arrived, handled>>
    <2>1. \A i \in DOMAIN Kept : Kept[i] \in PieceSet
      BY <1>3
    <2>2. ASSUME NEW i \in DOMAIN Kept' PROVE \E p \in PieceSet : p = Kept'[i] /\ Clean(p)'
      <3>1. PICK p \in PieceSet : p = Kept[i] /\ Clean(p)
        BY <1>5, <1>6, <2>1
      <3> QED BY <1>3, <1>4, <1>6, <3>1
    <2> QED BY <1>5, <1>6, <2>2
  <1>7. ASSUME NEW to \in 1..StreamEnd,
               Receive(to), arrived < to, arrived' = to, handled' = handled,
               Kept' = Append(Kept, Piece(arrived, to))
        PROVE  Moved
    <2>0. to \in Nat
      BY ChannelAssumption
    <2>1. handled' <= arrived' /\ arrived' <= End(Len(frames))
      BY <1>3, <1>5, <1>7, <2>0 DEF Receive
    <2>2. PICK new \in PieceSet : new = Piece(arrived, to) /\ new.from = arrived /\ new.to = to
      <3>1. [from |-> arrived, to |-> to] \in PieceSet
        BY <1>3, <2>0 DEF PieceSet
      <3> QED BY <3>1 DEF Piece
    <2>3. Clean(new)'
      <3>1. AtEnd(new.to) \/ WithinHead(new.from, new.to)
        BY <1>7, <2>2 DEF Receive
      <3>2. AtEnd(new.to)' = AtEnd(new.to) /\ WithinHead(new.from, new.to)' = WithinHead(new.from, new.to)
        BY <1>1 DEF AtEnd, WithinHead, Begin, End, EndOf
      <3> QED BY <1>7, <2>0, <2>2, <3>1, <3>2 DEF Clean
    <2>4. ASSUME NEW i \in DOMAIN Kept' PROVE \E p \in PieceSet : p = Kept'[i] /\ Clean(p)'
      <3>0. Kept' = Append(Kept, new)
        BY <1>7, <2>2
      <3>1. CASE i = Len(Kept) + 1
        BY <1>3, <2>3, <3>0, <3>1
      <3>2. CASE i # Len(Kept) + 1
        <4>1. i \in DOMAIN Kept /\ Kept'[i] = Kept[i] /\ Kept[i] \in PieceSet
          BY <1>3, <3>0, <3>2
        <4>2. Clean(Kept[i])
          BY <1>5, <4>1
        <4>3. PICK p \in PieceSet : p = Kept[i]
          BY <4>1
        <4>4. Clean(p)'
          BY <1>3, <1>4, <1>7, <2>0, <4>2, <4>3
        <4> QED BY <4>1, <4>3, <4>4
      <3> QED BY <3>1, <3>2
    <2> QED BY <2>1, <2>4
  <1>8. CASE Kept # <<>> /\ Kept' = Tail(Kept) /\ handled' = Head(Kept).to /\ arrived' = arrived
    <2>1. 1 \in DOMAIN Kept /\ Head(Kept) = Kept[1] /\ Kept[1] \in PieceSet
      BY <1>3, <1>8
    <2>2. handled' <= arrived'
      BY <1>5, <1>8, <2>1 DEF Clean
    <2>3. ASSUME NEW i \in DOMAIN Kept' PROVE \E p \in PieceSet : p = Kept'[i] /\ Clean(p)'
      <3>1. i + 1 \in DOMAIN Kept /\ Kept'[i] = Kept[i + 1] /\ Kept[i + 1] \in PieceSet
        BY <1>3, <1>8
      <3>2. PICK p \in PieceSet : p = Kept[i + 1] /\ Clean(p)
        BY <1>5, <3>1
      <3> QED BY <1>3, <1>4, <1>8, <3>1, <3>2
    <2> QED BY <1>5, <1>8, <2>2, <2>3
  <1> QED BY <1>6, <1>7, <1>8, KeptMoves DEF PiecesInv
-----------------------------------------------------------------------------
(***************************************************************************)
(* A frame in a buffer                                                     *)
(***************************************************************************)
\* What stands behind the first k frames is the head of the next one.
LEMMA HeadAtHere ==
  ASSUME FramesOK, NEW k \in 0..Len(frames), k < Len(frames)
  PROVE  /\ Cell(Here(k)) = frames[k + 1].type
         /\ Cell(Here(k) + 1) = k + 1
         /\ Cell(Here(k) + 2) = CmdSent
         /\ Cell(Here(k) + 3) = frames[k + 1].len
         /\ \A i \in 1..frames[k + 1].len : Cell(Here(k) + 3 + i) = k + 1
  <1>1. k + 1 \in DOMAIN frames /\ Begin(k + 1) = Here(k)
    BY HereFacts
  <1> QED BY <1>1, CellAt

\* Of the ends of frames behind the first k the nearest is that of the next one.
LEMMA NextEnd ==
  ASSUME FramesOK, NEW k \in 0..Len(frames), NEW c \in Nat, AtEnd(c), Here(k) < c
  PROVE  k < Len(frames) /\ Here(k + 1) <= c
  <1>0. Len(frames) \in Nat /\ DOMAIN frames = 1..Len(frames)
    BY FrameFacts, ReceiveAssumption
  <1>1. Here(k) \in Nat /\ \A n \in DOMAIN frames : n <= k => End(n) <= Here(k)
    BY HereFacts
  <1>2. PICK n \in DOMAIN frames : c = End(n)
    BY <1>1 DEF AtEnd
  <1>3. n > k
    BY <1>0, <1>1, <1>2
  <1>4. k < Len(frames) /\ k + 1 \in 0..Len(frames) /\ n >= k + 1
    BY <1>0, <1>3
  <1>5. CASE n = k + 1
    BY <1>2, <1>4, <1>5, <1>0 DEF Here
  <1>6. CASE n # k + 1
    <2>1. n > k + 1
      BY <1>0, <1>4, <1>6
    <2>2. Here(k + 1) < End(n)
      BY <1>4, <2>1, HereFacts
    <2>3. Here(k + 1) \in Nat
      BY <1>4, HereFacts
    <2> QED BY <1>2, <1>4, <2>2, <2>3
  <1> QED BY <1>5, <1>6

\* A buffer that is read up to a whole frame, and what parse makes of it.
LEMMA WholeFrame ==
  ASSUME FramesOK, NEW k \in 0..Len(frames), k < Len(frames),
         NEW c \in Nat, Here(k + 1) <= c, NEW s \in 0..Here(k)
  PROVE  LET b   == Filled(s, c, Here(k) - s)
             len == frames[k + 1].len
         IN  /\ At(b, b.rpos) = frames[k + 1].type
             /\ At(b, b.rpos + 1) = k + 1
             /\ At(b, b.rpos + 2) = CmdSent
             /\ At(b, b.rpos + 3) = len
             /\ MidLen(Skip(b, 4), len) = len
             /\ Mid(Skip(b, 4), len) = [i \in 1..len |-> k + 1]
             /\ Skip(Skip(b, 4), len) = Filled(s, c, Here(k + 1) - s)
  <1> DEFINE h == Here(k)
             b == Filled(s, c, h - s)
             len == frames[k + 1].len
             e == Here(k + 1)
             hd == Skip(b, 4)
  <1>1. h \in Nat /\ e = h + 4 + len /\ len \in Nat /\ k + 1 \in DOMAIN frames
    BY HereFacts, FrameFacts
  <1>2. /\ Cell(h) = frames[k + 1].type /\ Cell(h + 1) = k + 1
        /\ Cell(h + 2) = CmdSent /\ Cell(h + 3) = len
    BY HeadAtHere
  <1>3. \A i \in 1..len : Cell(h + 3 + i) = k + 1
    BY HeadAtHere
  <1>4. s \in Nat /\ s <= h
    BY <1>1
  <1> HIDE DEF h, e, len
  <1>5. s <= c /\ c \in Nat /\ h - s \in Nat
    BY <1>1, <1>4 DEF e
  <1>6. /\ b.rpos = h - s /\ Size(b) = c - s /\ b.buf = Cells(Piece(s, c))
        /\ \A i \in 0..(c - s - 1) : At(b, i) = Cell(s + i)
    BY <1>4, <1>5, FilledFacts
  <1>7. ASSUME NEW j \in 0..3 PROVE At(b, b.rpos + j) = Cell(h + j)
    <2>1. b.rpos + j \in 0..(c - s - 1) /\ s + (b.rpos + j) = h + j
      <3>1. e <= c
        BY DEF e
      <3> HIDE DEF b
      <3> QED BY <1>1, <1>4, <1>6, <3>1
    <2> HIDE DEF b
    <2> QED BY <1>6, <2>1
  <1>8. /\ At(b, b.rpos) = frames[k + 1].type /\ At(b, b.rpos + 1) = k + 1
        /\ At(b, b.rpos + 2) = CmdSent /\ At(b, b.rpos + 3) = len
    <2>1. b.rpos + 0 = b.rpos /\ h + 0 = h
      BY <1>1, <1>5, <1>6
    <2> QED BY <1>2, <1>7, <2>1
  <1>9. hd.buf = b.buf /\ hd.rpos = h - s + 4 /\ Size(hd) = c - s
    BY <1>6 DEF Skip, Size, Filled
  <1>10. hd = Filled(s, c, h - s + 4)
    BY DEF Skip, Filled
  <1>11. MidLen(hd, len) = len
    <2>1. e <= c
      BY DEF e
    <2> HIDE DEF hd
    <2> QED BY <1>1, <1>4, <1>9, <2>1 DEF MidLen
  <1>12. Mid(hd, len) = [i \in 1..len |-> k + 1]
    <2>1. Mid(hd, len) = SubSeq(b.buf, h - s + 4 + 1, h - s + 4 + len)
      BY <1>9, <1>11 DEF Mid
    <2>2. \A i \in 1..(c - s) : b.buf[i] = Cell(s + i - 1)
      BY <1>4, <1>5, <1>6, CellsFacts, ZenonT(30)
    <2>3. ASSUME NEW i \in 1..len PROVE b.buf[h - s + 4 + i] = k + 1
      <3>1. h - s + 4 + i \in 1..(c - s) /\ s + (h - s + 4 + i) - 1 = h + 3 + i
        <4>1. e <= c
          BY DEF e
        <4> QED BY <1>1, <1>4, <4>1
      <3> HIDE DEF b
      <3> QED BY <1>3, <2>2, <3>1
    <2>4. PICK m, n : m = h - s + 4 + 1 /\ n = h - s + 4 + len
      OBVIOUS
    <2>5. m \in Int /\ n \in Int /\ (m <= n <=> len # 0) /\ n - m + 1 = len
      BY <1>1, <1>4, <2>4
    <2>6. ASSUME NEW i \in 1..len PROVE b.buf[m + i - 1] = k + 1
      <3>1. m + i - 1 = h - s + 4 + i
        BY <1>1, <1>4, <2>4
      <3> QED BY <2>3, <3>1
    <2>7. \A i \in m..n : b.buf[i] \in Int
      <3> SUFFICES ASSUME NEW i \in m..n PROVE b.buf[i] \in Int
        OBVIOUS
      <3>1. i - m + 1 \in 1..len /\ m + (i - m + 1) - 1 = i
        BY <2>5
      <3>2. k + 1 \in Int
        OBVIOUS
      <3> QED BY <2>6, <3>1, <3>2
    <2>8. PICK f : f = SubSeq(b.buf, m, n)
      OBVIOUS
    <2>9. f \in Seq(Int) /\ Len(f) = len /\ \A i \in 1..len : f[i] = b.buf[m + i - 1]
      BY <2>5, <2>7, <2>8, SubSeqProperties
    <2>10. f = [i \in 1..len |-> k + 1]
      <3>1. DOMAIN f = 1..len /\ f = [i \in DOMAIN f |-> f[i]]
        BY <2>9
      <3>2. f = [i \in 1..len |-> f[i]]
        BY <3>1
      <3>3. \A i \in 1..len : f[i] = k + 1
        BY <2>6, <2>9
      <3> QED BY <3>2, <3>3
    <2>11. Mid(hd, len) = f
      BY <2>1, <2>4, <2>8
    <2> QED BY <2>10, <2>11
  <1>13. Skip(hd, len) = Filled(s, c, e - s)
    <2>1. h - s + 4 + len = e - s
      BY <1>1, <1>4
    <2>2. Skip(Filled(s, c, h - s + 4), len) = Filled(s, c, h - s + 4 + len)
      BY DEF Skip, Filled
    <2> QED BY <2>1, <2>2, <1>10
  <1> QED BY <1>8, <1>11, <1>12, <1>13 DEF h, e, len
-----------------------------------------------------------------------------
(***************************************************************************)
(* Steps that parse nothing                                                *)
(***************************************************************************)
\* While a piece is handed over, neither the loop nor the world takes it away.
LEMMA OthersStand ==
  ASSUME ChannelInv, TurnInv, [Next]_vars, ~ParseByAll
  PROVE  /\ UNCHANGED <<parservars, frames, handled>>
         /\ at # Start => thread' = thread /\ hand' = hand
  <1>1. ThreadJoined /\ NoneBefore /\ ChannelTypes
    BY DEF ChannelInv
  <1>2. at # Start => thread = "call" /\ hand # <<>>
    BY DEF TurnInv
  <1>0. frames' = frames
    BY DEF Next, vars
  <1>3. CASE LoopNext
    BY <1>0, <1>2, <1>3
       DEF LoopNext, LoopGoesOn, Opened, SetDataCallback, PushNotify, Notify, Join, Notified
  <1>4. CASE Environment
    BY <1>0, <1>2, <1>4
       DEF Environment, Break, Open, Close, Destroy, Spurious, Receive, Push, ThreadGoes
  <1>5. CASE ThreadNext
    <2>1. UNCHANGED parservars /\ (ThreadGoesOn \/ Drop)
      BY <1>5 DEF ThreadNext
    <2>2. CASE Drop
      BY <1>0, <1>1, <1>2, <2>1, <2>2 DEF Drop, Called, NoneBefore
    <2>3. CASE ThreadGoesOn
      BY <1>0, <1>2, <2>1, <2>3 DEF ThreadGoesOn, Test, Predicate, Block, WaitTimeout, Awake, PopAll, AllCalled,
                              ThreadGoes
    <2> QED BY <2>1, <2>2, <2>3
  <1>6. CASE UNCHANGED vars
    BY <1>6 DEF vars, chvars
  <1> QED BY <1>3, <1>4, <1>5, <1>6 DEF Next

LEMMA FirstFacts == ASSUME FramesOK PROVE First \in 1..Types /\ 1 \in DOMAIN frames /\ Len(frames) \in Nat
  BY FrameFacts, ReceiveAssumption DEF First

LEMMA FramesSame ==
  ASSUME frames' = frames
  PROVE  /\ First' = First /\ Sent' = Sent
         /\ \A k : Here(k)' = Here(k)
         /\ \A c : AtEnd(c)' = AtEnd(c)
  BY DEF First, Sent, Here, AtEnd, End, EndOf

LEMMA BuffersSame ==
  ASSUME frames' = frames
  PROVE  /\ \A b, n, h, c : Idle(b, n, h, c)' <=> Idle(b, n, h, c)
         /\ \A b, h, c : Parsing(b, h, c)' <=> Parsing(b, h, c)
  <1>1. /\ First' = First /\ \A c : AtEnd(c)' = AtEnd(c)
    BY FramesSame
  <1>2. \A s, c, r : Filled(s, c, r)' = Filled(s, c, r)
    BY CellsSame
  <1>3. ASSUME NEW b, NEW n, NEW h, NEW c PROVE Idle(b, n, h, c)' <=> Idle(b, n, h, c)
    BY <1>1, <1>2 DEF Idle
  <1>4. ASSUME NEW b, NEW h, NEW c PROVE Parsing(b, h, c)' <=> Parsing(b, h, c)
    BY <1>1, <1>2 DEF Parsing
  <1> QED BY <1>3, <1>4

\* The invariant of the first frame's parser after a step, in what it was before.
LEMMA FirstAfter ==
  ASSUME frames' = frames, NEW c, Behind(First)' = c,
         IF at'.parsing THEN Parsing(buffers'[First], Here(Len(got')), c)
         ELSE Idle(buffers'[First], Len(got'), Here(Len(got')), c)
  PROVE  FirstInv'
  <1>1. PICK b, n, h : b = buffers'[First] /\ n = Len(got') /\ h = Here(n)
    OBVIOUS
  <1>2. First' = First /\ Here(n)' = h
    BY <1>1, FramesSame
  <1>3. IF at'.parsing THEN Parsing(b, h, c)' ELSE Idle(b, n, h, c)'
    BY <1>1, BuffersSame
  <1>4. FirstInv' <=> IF at'.parsing THEN Parsing(b, h, c)' ELSE Idle(b, n, h, c)'
    <2>1. h = Here(Len(got))'
      BY <1>1, <1>2
    <2>2. Parsing(buffers[First], Here(Len(got)), Behind(First))' <=> Parsing(b, h, c)'
      BY <1>1, <1>2, <2>1 DEF Parsing
    <2>3. Idle(buffers[First], Len(got), Here(Len(got)), Behind(First))' <=> Idle(b, n, h, c)'
      BY <1>1, <1>2, <2>1 DEF Idle
    <2> QED BY <2>2, <2>3 DEF FirstInv
  <1> QED BY <1>3, <1>4

LEMMA OthersStep ==
  ASSUME ChannelInv, FramesOK, ParserInv, [Next]_vars, ~ParseByAll
  PROVE  ParserInv'
  <1>1. /\ buffers' = buffers /\ at' = at /\ got' = got /\ frames' = frames /\ handled' = handled
        /\ at # Start => thread' = thread /\ hand' = hand
    BY OthersStand DEF ParserInv, parservars
  <1>2. DOMAIN buffers = 1..Types /\ TurnInv /\ GotInv /\ OthersInv /\ FirstInv
    BY DEF ParserInv
  <1>3. /\ First' = First /\ Sent' = Sent /\ \A k : Here(k)' = Here(k) /\ \A c : AtEnd(c)' = AtEnd(c)
    BY <1>1, FramesSame
  <1>4. TurnInv'
    BY <1>1, <1>2, <1>3 DEF TurnInv, Start
  <1>5. GotInv'
    BY <1>1, <1>2, <1>3 DEF GotInv, View
  <1>6. ASSUME NEW p \in 1..Types PROVE Behind(p)' = Behind(p)
    <2>1. Has(p)' = Has(p)
      BY <1>1 DEF Has
    <2>2. Has(p) => at # Start
      BY DEF Has, Start
    <2> QED BY <1>1, <2>1, <2>2 DEF Behind
  <1>7. OthersInv'
    <2> SUFFICES ASSUME NEW p \in 1..Types, p # First
                 PROVE  buffers[p] = Filled(0, Behind(p), 0)'
      BY <1>1, <1>3 DEF OthersInv
    <2>1. PICK c : c = Behind(p)
      OBVIOUS
    <2>2. c = Behind(p)'
      BY <1>6, <2>1
    <2>3. Filled(0, c, 0)' = Filled(0, c, 0)
      BY <1>1, CellsSame
    <2>4. Filled(0, Behind(p), 0)' = Filled(0, c, 0)'
      BY <2>2 DEF Filled
    <2> QED BY <1>2, <2>1, <2>3, <2>4 DEF OthersInv
  <1>8. FirstInv'
    <2>1. PICK p \in 1..Types : p = First
      BY FirstFacts
    <2>2. PICK c : c = Behind(p)
      OBVIOUS
    <2>3. Behind(First)' = c
      <3>1. Behind(p)' = c
        BY <1>6, <2>2
      <3> QED BY <1>3, <2>1, <3>1 DEF Behind, Has
    <2>4. IF at.parsing THEN Parsing(buffers[First], Here(Len(got)), c)
          ELSE Idle(buffers[First], Len(got), Here(Len(got)), c)
      BY <1>2, <2>1, <2>2 DEF FirstInv
    <2> QED BY <1>1, <1>3, <2>3, <2>4, FirstAfter
  <1> QED BY <1>1, <1>2, <1>4, <1>5, <1>7, <1>8 DEF ParserInv
-----------------------------------------------------------------------------
(***************************************************************************)
(* Steps that parse                                                        *)
(***************************************************************************)
\* The piece that is handed over continues what the parsers have.
LEMMA PieceInHand ==
  ASSUME PiecesInv, StreamInv, hand # <<>>
  PROVE  /\ handled \in Nat /\ Head(hand).to \in Nat /\ arrived \in Nat
         /\ Head(hand) = Piece(handled, Head(hand).to)
         /\ handled < Head(hand).to /\ Head(hand).to <= arrived /\ arrived <= End(Len(frames))
         /\ AtEnd(Head(hand).to) \/ WithinHead(handled, Head(hand).to)
  <1>1. queue \in Seq(PieceSet) /\ hand \in Seq(PieceSet) /\ handled \in Nat /\ arrived \in Nat
    BY DEF PiecesInv, ChannelInv, ChannelTypes
  <1>2. PICK piece \in PieceSet : piece = Head(hand)
    BY <1>1
  <1>3. Kept # <<>> /\ Kept[1] = piece /\ 1 \in DOMAIN Kept
    BY <1>1, <1>2 DEF Kept
  <1>4. piece.from = handled
    BY <1>3 DEF PiecesInv, Covers
  <1>5. Clean(piece) /\ arrived <= End(Len(frames))
    BY <1>3 DEF StreamInv
  <1>6. piece = Piece(handled, piece.to) /\ piece.to \in Nat
    BY <1>4 DEF Piece, PieceSet
  <1> QED BY <1>1, <1>2, <1>4, <1>5, <1>6 DEF Clean

\* Whose turn it is and how far the parsers are, after the turn of parser p.
LEMMA Turn ==
  ASSUME TurnInv, NEW p, p = at.parser, thread = "call", hand # <<>>, set,
         IF at' = Start THEN Called ELSE UNCHANGED chvars,
         NextParser(p) \/ at' = [parser |-> p, parsing |-> TRUE]
  PROVE  /\ at' \in [parser : 1..Types, parsing : BOOLEAN]
         /\ at' # Start => thread' = "call" /\ hand' # <<>>
         /\ \A q \in 1..Types : Behind(q)' = IF q <= p THEN Head(hand).to ELSE handled
  <1>1. p \in 1..Types /\ Types \in Nat \ {0}
    BY ParserAssumption DEF TurnInv
  <1>2. CASE at' = [parser |-> p, parsing |-> TRUE]
    <2>1. at' # Start /\ at'.parser = p /\ at'.parsing
      BY <1>2 DEF Start
    <2>2. hand' = hand /\ thread' = thread /\ handled' = handled
      BY <2>1 DEF chvars
    <2>3. at' \in [parser : 1..Types, parsing : BOOLEAN]
      BY <1>1, <1>2
    <2> QED BY <1>1, <2>1, <2>2, <2>3 DEF Behind, Has
  <1>3. CASE NextParser(p) /\ ~Through(p)
    <2>1. at' = [parser |-> p + 1, parsing |-> FALSE] /\ p + 1 \in 1..Types
      BY <1>1, <1>3 DEF NextParser, Through
    <2>2. at' # Start /\ at'.parser = p + 1 /\ ~at'.parsing
      BY <1>1, <2>1 DEF Start
    <2>3. hand' = hand /\ thread' = thread /\ handled' = handled
      BY <2>2 DEF chvars
    <2>4. at' \in [parser : 1..Types, parsing : BOOLEAN]
      BY <2>1
    <2> QED BY <1>1, <2>2, <2>3, <2>4 DEF Behind, Has
  <1>4. CASE NextParser(p) /\ Through(p)
    <2>1. at' = Start /\ p = Types
      BY <1>4 DEF NextParser, Through, Start
    <2>2. at'.parser = 1 /\ ~at'.parsing /\ at' \in [parser : 1..Types, parsing : BOOLEAN]
      BY <1>1, <2>1 DEF Start
    <2>3. handled' = Head(hand).to
      BY <2>1 DEF Called
    <2> QED BY <1>1, <2>1, <2>2, <2>3 DEF Behind, Has
  <1> QED BY <1>2, <1>3, <1>4

\* What the turn of parser p does when the stream has come to place c with it.
Turned(p, c) ==
  /\ NextParser(p) \/ at' = [parser |-> p, parsing |-> TRUE]
  /\ DOMAIN buffers' = 1..Types
  /\ \A q \in 1..Types : q # p => buffers'[q] = buffers[q]
  /\ p # First => /\ ~at.parsing /\ ~at'.parsing /\ got' = got
                  /\ buffers'[p] = Filled(0, c, 0)
  /\ p = First => IF at'.parsing THEN Parsing(buffers'[p], Here(Len(got')), c)
                  ELSE Idle(buffers'[p], Len(got'), Here(Len(got')), c)
  /\ got' \in Seq(ModelSet) /\ Len(got') <= Len(frames)
  /\ \A i \in 1..Len(got') : View(got'[i]) = Sent[i]
  /\ at'.parsing => p = First

LEMMA TurnedStep ==
  ASSUME FramesOK, ParserInv, frames' = frames, thread = "call", hand # <<>>, set,
         IF at' = Start THEN Called ELSE UNCHANGED chvars,
         Turned(at.parser, Head(hand).to)
  PROVE  ParserInv'
  <1>1. PICK p, c : p = at.parser /\ c = Head(hand).to
    OBVIOUS
  <1>2. Turned(p, c)
    BY <1>1
  <1>3. TurnInv /\ OthersInv /\ FirstInv /\ p \in 1..Types /\ First \in 1..Types
    BY <1>1, FirstFacts DEF ParserInv, TurnInv
  <1>4. /\ at' \in [parser : 1..Types, parsing : BOOLEAN]
        /\ at' # Start => thread' = "call" /\ hand' # <<>>
        /\ \A q \in 1..Types : Behind(q)' = IF q <= p THEN c ELSE handled
    BY <1>1, <1>2, <1>3, Turn DEF Turned
  <1>5. First' = First /\ Sent' = Sent
    BY FramesSame
  <1>6. TurnInv'
    <2>1. at'.parsing => at'.parser = First
      BY <1>2, <1>3 DEF Turned, NextParser
    <2> QED BY <1>4, <1>5, <2>1 DEF TurnInv, Start
  <1>7. GotInv'
    BY <1>2, <1>5 DEF Turned, GotInv, View
  <1>8. ASSUME NEW q \in 1..Types, q # p PROVE Behind(q) = IF q <= p THEN c ELSE handled
    BY <1>1, <1>3, <1>8 DEF Behind, Has
  <1>9. OthersInv'
    <2> SUFFICES ASSUME NEW q \in 1..Types, q # First
                 PROVE  buffers'[q] = Filled(0, Behind(q), 0)'
      BY <1>5 DEF OthersInv
    <2>1. PICK d : d = Behind(q)'
      OBVIOUS
    <2>2. Filled(0, Behind(q), 0)' = Filled(0, d, 0)'
      BY <2>1 DEF Filled
    <2>3. Filled(0, d, 0)' = Filled(0, d, 0)
      BY CellsSame
    <2>4. buffers'[q] = Filled(0, d, 0)
      <3>1. CASE q = p
        BY <1>2, <1>3, <1>4, <2>1, <3>1 DEF Turned
      <3>2. CASE q # p
        BY <1>2, <1>3, <1>4, <1>8, <2>1, <3>2 DEF Turned, OthersInv
      <3> QED BY <3>1, <3>2
    <2> QED BY <2>2, <2>3, <2>4
  <1>10. FirstInv'
    <2>0. PICK d : d = IF First <= p THEN c ELSE handled
      OBVIOUS
    <2>1. Behind(First)' = d
      <3>1. PICK q \in 1..Types : q = First
        BY <1>3
      <3>2. Behind(q)' = d
        BY <1>4, <2>0, <3>1
      <3> QED BY <1>5, <3>1, <3>2 DEF Behind, Has
    <2>2. IF at'.parsing THEN Parsing(buffers'[First], Here(Len(got')), d)
          ELSE Idle(buffers'[First], Len(got'), Here(Len(got')), d)
      <3>1. CASE p = First
        BY <1>2, <1>3, <2>0, <3>1 DEF Turned
      <3>2. CASE p # First
        <4>1. ~at.parsing /\ ~at'.parsing /\ got' = got /\ buffers'[First] = buffers[First]
          BY <1>2, <1>3, <3>2 DEF Turned
        <4>2. Behind(First) = d
          BY <1>3, <1>8, <2>0, <3>2
        <4> QED BY <1>3, <4>1, <4>2 DEF FirstInv
      <3> QED BY <3>1, <3>2
    <2> QED BY <2>1, <2>2, FirstAfter
  <1>11. DOMAIN buffers' = 1..Types
    BY <1>2 DEF Turned
  <1> QED BY <1>6, <1>7, <1>9, <1>10, <1>11 DEF ParserInv

LEMMA SniffTurned ==
  ASSUME PiecesInv, StreamInv, ParserInv, hand # <<>>, NEW p, p = at.parser,
         Sniff(p, Cells(Head(hand)))
  PROVE  Turned(p, Head(hand).to)
  <1>0. /\ DOMAIN buffers = 1..Types /\ TurnInv /\ GotInv /\ OthersInv /\ FirstInv
        /\ FramesOK /\ p \in 1..Types /\ First \in 1..Types
    BY FirstFacts DEF ParserInv, StreamInv, TurnInv
  <1>1. PICK f, t : f = handled /\ t = Head(hand).to
    OBVIOUS
  <1>2. /\ f \in Nat /\ t \in Nat /\ f < t /\ t <= End(Len(frames)) /\ Head(hand) = Piece(f, t)
        /\ AtEnd(t) \/ WithinHead(f, t)
    <2>1. /\ f \in Nat /\ t \in Nat /\ f < t /\ t <= arrived /\ Head(hand) = Piece(f, t)
          /\ AtEnd(t) \/ WithinHead(f, t)
          /\ arrived \in Nat /\ arrived <= End(Len(frames))
      BY <1>1, PieceInHand
    <2>2. Len(frames) \in 0..Len(frames) /\ End(Len(frames)) \in Nat
      BY <1>0, FirstFacts, FrameFacts
    <2> QED BY <2>1, <2>2
  <1>3. PICK b : b = Put(buffers[p], Cells(Piece(f, t)))
    OBVIOUS
  <1>4. /\ ~at.parsing /\ got' = got /\ buffers' = [buffers EXCEPT ![p] = b]
        /\ IF At(b, b.rpos) = p THEN at' = [at EXCEPT !.parsing = TRUE] ELSE NextParser(p)
    BY <1>2, <1>3 DEF Sniff
  <1>5. /\ DOMAIN buffers' = 1..Types /\ buffers'[p] = b
        /\ \A q \in 1..Types : q # p => buffers'[q] = buffers[q]
    BY <1>0, <1>4
  <1>6. NextParser(p) => ~at'.parsing
    BY DEF NextParser
  <1>7. /\ got' \in Seq(ModelSet) /\ Len(got') <= Len(frames)
        /\ \A i \in 1..Len(got') : View(got'[i]) = Sent[i]
    BY <1>0, <1>4 DEF GotInv
  <1>8. Behind(p) = f
    BY <1>0, <1>1, <1>4 DEF Behind, Has
  <1>9. At(b, b.rpos) = p => at' = [parser |-> p, parsing |-> TRUE] /\ at'.parsing
    BY <1>0, <1>4 DEF TurnInv
  <1>10. CASE p # First
    <2>1. b = Filled(0, t, 0)
      BY <1>0, <1>2, <1>3, <1>8, <1>10, PutFilled DEF OthersInv
    <2>2. At(b, 0) = Cell(0) /\ b.rpos = 0
      BY <1>2, <2>1, FilledFacts
    <2>3. Cell(0) = First
      <3>1. Here(0) = 0 /\ 0 \in 0..Len(frames) /\ 0 < Len(frames)
        BY <1>0, FirstFacts, FrameFacts DEF Here
      <3>2. Cell(Here(0)) = frames[0 + 1].type
        BY <1>0, <3>1, HeadAtHere
      <3> QED BY <3>1, <3>2 DEF First
    <2>4. NextParser(p)
      BY <1>4, <1>10, <2>2, <2>3
    <2> QED BY <1>4, <1>5, <1>6, <1>7, <1>10, <2>1, <2>4, <1>1 DEF Turned
  <1>11. CASE p = First
    <2>0. PICK k, h : k = Len(got) /\ h = Here(k)
      OBVIOUS
    <2>1. k \in 0..Len(frames) /\ h \in Nat
      BY <1>0, <2>0, FirstFacts, HereFacts DEF GotInv
    <2>2. Idle(buffers[p], k, h, f)
      BY <1>0, <1>4, <1>8, <1>11, <2>0 DEF FirstInv
    <2>3. b = Filled(h, t, 0) /\ h <= f /\ h < t
      BY <1>2, <1>3, <2>1, <2>2, PutFilled DEF Idle
    <2>4. k < Len(frames)
      <3>1. k = Len(frames) => h = End(Len(frames))
        BY <1>0, <2>0, <2>1, HereFacts
      <3>2. Len(frames) \in Nat /\ End(Len(frames)) \in Nat
        BY <1>0, FirstFacts, FrameFacts
      <3> QED BY <1>2, <2>1, <2>3, <3>1, <3>2
    <2>5. At(b, b.rpos) = frames[k + 1].type
      <3>1. At(b, 0) = Cell(h + 0) /\ b.rpos = 0
        BY <1>2, <2>1, <2>3, FilledFacts
      <3>2. Cell(h) = frames[k + 1].type
        BY <1>0, <2>0, <2>1, <2>4, HeadAtHere
      <3> QED BY <2>1, <3>1, <3>2
    <2>6. CASE frames[k + 1].type = First
      <3>1. at' = [parser |-> p, parsing |-> TRUE] /\ at'.parsing
        BY <1>9, <1>11, <2>5, <2>6
      <3>2. AtEnd(t) \/ t < h + 4
        <4> SUFFICES ASSUME WithinHead(f, t) PROVE t < h + 4
          BY <1>2
        <4>1. PICK n \in DOMAIN frames : Begin(n) <= f /\ t < Begin(n) + 4
          BY DEF WithinHead, BodyOffset
        <4>2. Begin(n) \in Nat /\ n \in Nat /\ k + 1 \in 0..Len(frames) /\ Here(k + 1) \in Nat
          <5>1. Begin(n) \in Nat /\ n \in Nat
            BY <1>0, FrameFacts, FirstFacts
          <5>2. k + 1 \in 0..Len(frames)
            BY <1>0, <2>1, <2>4, FirstFacts
          <5> QED BY <1>0, <5>1, <5>2, HereFacts
        <4>3. f < h + 4
          BY <1>2, <2>1, <2>2, <2>6 DEF Idle, BodyOffset
        <4>4. n <= k + 1
          <5> SUFFICES ASSUME n > k + 1 PROVE FALSE
            BY <2>1, <4>2
          <5>1. Here(k + 1) <= Begin(n)
            BY <1>0, <4>2, HereFacts
          <5>2. Here(k + 1) = h + 4 + frames[k + 1].len /\ k + 1 \in DOMAIN frames
            BY <1>0, <2>0, <2>1, <2>4, HereFacts
          <5>3. frames[k + 1].len \in Nat
            BY <1>0, <5>2, FrameFacts
          <5> QED BY <1>2, <2>1, <4>1, <4>2, <4>3, <5>1, <5>2, <5>3
        <4>5. Begin(n) <= h
          <5>1. CASE n = k + 1
            BY <1>0, <2>0, <2>1, <2>4, <4>2, <5>1, HereFacts
          <5>2. CASE n # k + 1
            <6>1. n <= k /\ End(n) <= Here(k)
              BY <1>0, <2>1, <4>2, <4>4, <5>2, HereFacts
            <6>2. End(n) = Begin(n) + 4 + frames[n].len /\ frames[n].len \in Nat
              BY <1>0, FrameFacts
            <6> QED BY <2>0, <2>1, <4>2, <6>1, <6>2
          <5> QED BY <5>1, <5>2
        <4> QED BY <1>2, <2>1, <4>1, <4>2, <4>5
      <3>3. Parsing(b, h, t)
        <4>1. h \in 0..h /\ h - h = 0
          BY <2>1
        <4> QED BY <2>3, <3>2, <4>1 DEF Parsing, BodyOffset
      <3> QED BY <1>1, <1>4, <1>5, <1>7, <1>11, <2>0, <3>1, <3>3 DEF Turned
    <2>7. CASE frames[k + 1].type # First
      <3>1. NextParser(p)
        BY <1>4, <1>11, <2>5, <2>7
      <3>2. Idle(b, k, h, t)
        BY <1>2, <2>1, <2>3, <2>7 DEF Idle
      <3> QED BY <1>1, <1>4, <1>5, <1>6, <1>7, <1>11, <2>0, <3>1, <3>2 DEF Turned
    <2> QED BY <2>6, <2>7
  <1> QED BY <1>10, <1>11

LEMMA ParseTurned ==
  ASSUME PiecesInv, StreamInv, ParserInv, hand # <<>>, NEW p, p = at.parser, Parse(p)
  PROVE  Turned(p, Head(hand).to)
  <1>0. /\ DOMAIN buffers = 1..Types /\ TurnInv /\ GotInv /\ FirstInv
        /\ FramesOK /\ p \in 1..Types /\ at.parsing /\ p = First
    BY DEF ParserInv, StreamInv, TurnInv, Parse
  <1>1. PICK t : t = Head(hand).to
    OBVIOUS
  <1>2. t \in Nat
    BY <1>1, PieceInHand
  <1>3. PICK k, h, b : k = Len(got) /\ h = Here(k) /\ b = buffers[p]
    OBVIOUS
  <1>4. k \in 0..Len(frames) /\ h \in Nat /\ Len(frames) \in Nat /\ got \in Seq(ModelSet)
    BY <1>0, <1>3, FirstFacts, HereFacts DEF GotInv
  <1>5. Behind(First) = t
    BY <1>0, <1>1 DEF Behind, Has
  <1>6. Parsing(b, h, t)
    BY <1>0, <1>3, <1>5 DEF FirstInv
  <1>7. PICK s \in 0..h : /\ b = Filled(s, t, h - s)
                          /\ AtEnd(t) \/ (s = h /\ t < h + 4)
    BY <1>6 DEF Parsing, BodyOffset
  <1>8. h < t /\ s <= t /\ s \in Nat
    BY <1>2, <1>4, <1>6 DEF Parsing
  <1>9. b.rpos = h - s /\ Size(b) = t - s
    BY <1>2, <1>7, <1>8, FilledFacts
  <1>10. \A x : DOMAIN [buffers EXCEPT ![p] = x] = 1..Types /\ [buffers EXCEPT ![p] = x][p] = x
                /\ \A q \in 1..Types : q # p => [buffers EXCEPT ![p] = x][q] = buffers[q]
    BY <1>0
  <1>11. at = [parser |-> p, parsing |-> TRUE]
    BY <1>0 DEF TurnInv
  <1>12. CASE ~AtEnd(t)
    <2>1. s = h /\ Size(b) < 4 /\ b.rpos = 0
      BY <1>2, <1>4, <1>7, <1>8, <1>9, <1>12
    <2>2. At(b, b.rpos + 3) = 0
      BY <2>1, <1>2, <1>4, <1>8, <1>9 DEF At
    <2>3. ~Deliver(p)
      BY <2>1, <2>2, <1>2, <1>3, <1>4, <1>8, <1>9 DEF Deliver, BodyOffset
    <2>4. Wait(p) /\ NextParser(p) /\ got' = got
      BY <2>3 DEF Parse
    <2>5. buffers' = buffers
      BY <2>1, <2>4, <1>2, <1>3, <1>4, <1>8, <1>9 DEF Wait, BodyOffset
    <2>6. Idle(b, k, h, t)
      <3>1. b = Filled(h, t, 0)
        BY <1>4, <1>7, <2>1
      <3> QED BY <1>2, <1>4, <1>7, <1>8, <1>12, <3>1 DEF Idle, BodyOffset
    <2>7. ~at'.parsing
      BY <2>4 DEF NextParser
    <2> QED BY <1>0, <1>1, <1>3, <2>4, <2>5, <2>6, <2>7 DEF Turned, GotInv
  <1>13. CASE AtEnd(t)
    <2>1. k < Len(frames) /\ Here(k + 1) <= t
      BY <1>0, <1>2, <1>3, <1>4, <1>8, <1>13, NextEnd
    <2>2. PICK e, len : e = Here(k + 1) /\ len = frames[k + 1].len
      OBVIOUS
    <2>3. e = h + 4 + len /\ len \in Nat /\ e <= t /\ e \in Nat /\ k + 1 \in 1..Len(frames)
      <3>1. k + 1 \in DOMAIN frames /\ e = h + 4 + len
        BY <1>0, <1>3, <1>4, <2>1, <2>2, HereFacts
      <3>2. len \in Nat
        BY <1>0, <2>2, <3>1, FrameFacts
      <3> QED BY <1>4, <2>1, <2>2, <3>1, <3>2
    <2>4. /\ At(b, b.rpos) = frames[k + 1].type
          /\ At(b, b.rpos + 1) = k + 1
          /\ At(b, b.rpos + 2) = CmdSent
          /\ At(b, b.rpos + 3) = len
          /\ MidLen(Skip(b, 4), len) = len
          /\ Mid(Skip(b, 4), len) = [i \in 1..len |-> k + 1]
          /\ Skip(Skip(b, 4), len) = Filled(s, t, e - s)
      BY <1>0, <1>2, <1>3, <1>4, <1>7, <2>1, <2>2, WholeFrame, SMTT(30)
    <2>5. Size(b) >= 4 + len
      BY <1>2, <1>4, <1>8, <1>9, <2>3
    <2>6. ~Wait(p)
      BY <1>2, <1>3, <1>8, <1>9, <2>3, <2>4, <2>5 DEF Wait, BodyOffset
    <2>7. PICK m : m = Model(p, b, [i \in 1..len |-> k + 1])
      OBVIOUS
    <2>8. PICK rest : rest = Filled(s, t, e - s)
      OBVIOUS
    <2>9. /\ got' = Append(got, m)
          /\ buffers' = [buffers EXCEPT ![p] = IF NothingRemains(rest) THEN Cleared ELSE rest]
          /\ IF NothingRemains(rest) THEN NextParser(p) ELSE UNCHANGED at
      BY <1>3, <2>4, <2>6, <2>7, <2>8 DEF Parse, Deliver, BodyOffset
    <2>10. NothingRemains(rest) <=> t = e
      <3>1. Size(rest) = t - s /\ rest.rpos = e - s
        BY <1>2, <1>8, <2>8, FilledFacts
      <3> QED BY <1>2, <1>8, <2>3, <3>1 DEF NothingRemains
    <2>11. /\ got' \in Seq(ModelSet) /\ Len(got') = k + 1
           /\ \A i \in 1..Len(got') : View(got'[i]) = Sent[i]
      <3>1. /\ m.type = frames[k + 1].type /\ m.seq = k + 1
            /\ m.body = [i \in 1..len |-> k + 1] /\ m \in ModelSet
        <4>1. m = [by |-> p, type |-> frames[k + 1].type, seq |-> k + 1,
                   cmd |-> Cmd(CmdSent), body |-> [i \in 1..len |-> k + 1]]
          BY <2>4, <2>7 DEF Model
        <4>2. frames[k + 1].type \in Nat /\ p \in Nat /\ k + 1 \in Nat
          BY <1>0, <2>3, FrameFacts, ParserAssumption
        <4>3. [i \in 1..len |-> k + 1] \in Seq(Nat)
          BY <2>3, <4>2
        <4>4. Cmd(CmdSent) \in Nat
          BY DEF Cmd, CmdSent
        <4> QED BY <4>1, <4>2, <4>3, <4>4 DEF ModelSet
      <3>2. got' \in Seq(ModelSet) /\ Len(got') = k + 1
        BY <1>3, <1>4, <2>9, <3>1
      <3>3. View(m) = Sent[k + 1]
        <4>1. k + 1 \in DOMAIN frames
          BY <1>0, <2>3, FrameFacts
        <4> QED BY <2>2, <3>1, <4>1 DEF View, Sent
      <3>4. ASSUME NEW i \in 1..Len(got') PROVE View(got'[i]) = Sent[i]
        <4>1. CASE i = k + 1
          BY <1>3, <1>4, <2>9, <3>1, <3>3, <4>1
        <4>2. CASE i # k + 1
          <5>1. i \in 1..Len(got) /\ got'[i] = got[i]
            BY <1>3, <1>4, <2>9, <3>1, <3>2, <4>2
          <5> QED BY <1>0, <5>1 DEF GotInv
        <4> QED BY <4>1, <4>2
      <3> QED BY <3>2, <3>4
    <2>12. Len(got') <= Len(frames) /\ Here(Len(got')) = e
      BY <2>2, <2>3, <2>11, <1>4
    <2>13. CASE t = e
      <3>1. buffers' = [buffers EXCEPT ![p] = Cleared] /\ NextParser(p) /\ ~at'.parsing
        BY <2>9, <2>10, <2>13 DEF NextParser
      <3>2. Idle(Cleared, k + 1, e, t)
        BY <2>3, <2>13, FilledEmpty DEF Idle
      <3> QED BY <1>0, <1>1, <1>10, <2>11, <2>12, <3>1, <3>2 DEF Turned
    <2>14. CASE t # e
      <3>1. buffers' = [buffers EXCEPT ![p] = rest] /\ at' = [parser |-> p, parsing |-> TRUE] /\ at'.parsing
        BY <1>0, <1>11, <2>9, <2>10, <2>14
      <3>2. Parsing(rest, e, t)
        <4>1. s \in 0..e /\ e < t
          BY <1>2, <1>4, <1>8, <2>3, <2>14
        <4> QED BY <1>13, <2>8, <4>1 DEF Parsing
      <3> QED BY <1>0, <1>1, <1>10, <2>11, <2>12, <3>1, <3>2 DEF Turned
    <2> QED BY <2>13, <2>14
  <1> QED BY <1>12, <1>13
-----------------------------------------------------------------------------
(***************************************************************************)
(* The theorems about models                                               *)
(***************************************************************************)
LEMMA ParserInvInit == Init => ParserInv
  <1> SUFFICES ASSUME Init PROVE ParserInv
    OBVIOUS
  <1>0. StreamInv
    BY StreamInit
  <1>1. FramesOK /\ First \in 1..Types /\ Len(frames) \in Nat /\ Types \in Nat \ {0}
    BY <1>0, FirstFacts, ParserAssumption DEF StreamInv
  <1>2. /\ buffers = [p \in 1..Types |-> Cleared] /\ at = Start /\ got = <<>>
        /\ handled = 0
    BY DEF Init, ParserInit, ChannelInit, Start
  <1>3. \A p \in 1..Types : Behind(p) = 0
    BY <1>2 DEF Behind, Has, Start
  <1>4. Filled(0, 0, 0) = Cleared
    BY FilledEmpty
  <1>5. TurnInv
    <2>1. Start \in [parser : 1..Types, parsing : BOOLEAN] /\ ~Start.parsing
      BY <1>1 DEF Start
    <2> QED BY <1>2, <2>1 DEF TurnInv
  <1>6. GotInv
    <2>1. Len(got) = 0 /\ got \in Seq(ModelSet)
      BY <1>2
    <2> QED BY <1>1, <2>1 DEF GotInv
  <1>7. OthersInv
    BY <1>2, <1>3, <1>4 DEF OthersInv
  <1>8. FirstInv
    <2>1. Len(got) = 0 /\ Here(0) = 0 /\ ~at.parsing /\ Behind(First) = 0 /\ buffers[First] = Cleared
      BY <1>1, <1>2, <1>3 DEF Here, Start
    <2> QED BY <2>1, <1>4 DEF FirstInv, Idle
  <1> QED BY <1>2, <1>5, <1>6, <1>7, <1>8 DEF ParserInv

LEMMA ParserInvStep ==
  ASSUME ~Races, CleanCuts, IInv, [Next]_vars
  PROVE  ParserInv'
  <1>1. PiecesInv /\ StreamInv /\ ParserInv /\ ChannelInv /\ FramesOK
    BY DEF IInv, PiecesInv, StreamInv
  <1>2. CASE ~ParseByAll
    BY <1>1, <1>2, OthersStep
  <1>3. CASE ParseByAll
    <2>1. frames' = frames
      BY DEF Next, vars
    <2>2. /\ thread = "call" /\ hand # <<>> /\ set
          /\ Sniff(at.parser, Cells(Head(hand))) \/ Parse(at.parser)
          /\ IF at' = Start THEN Called ELSE UNCHANGED chvars
      BY <1>3 DEF ParseByAll
    <2>3. Turned(at.parser, Head(hand).to)
      BY <1>1, <2>2, SniffTurned, ParseTurned
    <2> QED BY <1>1, <2>1, <2>2, <2>3, TurnedStep
  <1> QED BY <1>2, <1>3

\* The inductive invariant: of the channel, of the stream and of the parsers.
THEOREM IInvAlways == ASSUME ~Races, CleanCuts PROVE Spec => []IInv
  <1>1. Init => IInv
    <2> SUFFICES ASSUME Init PROVE IInv
      OBVIOUS
    <2>1. PiecesInv
      <3>1. Kept = <<>> /\ handled = arrived /\ Len(<<>>) = 0
        BY DEF Init, ChannelInit, Kept
      <3> QED BY <3>1, ChannelInvInit DEF Init, PiecesInv, Covers
    <2> QED BY <2>1, StreamInit, ParserInvInit DEF IInv
  <1>2. IInv /\ [Next]_vars => IInv'
    BY PiecesInvStep, StreamStep, ParserInvStep DEF IInv
  <1> QED BY <1>1, <1>2, PTL DEF Spec

\* What a step may do to the models: one more, by a step that parses.
LEMMA GotMoves ==
  ASSUME [Next]_vars
  PROVE  got' = got \/ (ParseByAll /\ \E m : got' = Append(got, m))
  <1>1. CASE ParseByAll
    <2>1. CASE Sniff(at.parser, Cells(Head(hand)))
      BY <2>1 DEF Sniff
    <2>2. CASE Parse(at.parser)
      BY <1>1, <2>2 DEF Parse, Deliver
    <2> QED BY <1>1, <2>1, <2>2 DEF ParseByAll
  <1>2. CASE ~ParseByAll
    BY <1>2 DEF Next, ThreadNext, LoopNext, Environment, vars, parservars
  <1> QED BY <1>1, <1>2

\* The frames whose models were handed over have arrived.
LEMMA BehindBounds ==
  ASSUME IInv
  PROVE  /\ Here(Len(got)) \in Nat /\ Behind(First) \in Nat /\ arrived \in Nat
         /\ Here(Len(got)) <= Behind(First) /\ Behind(First) <= arrived
  <1>1. PiecesInv /\ StreamInv /\ ParserInv /\ FramesOK /\ GotInv /\ FirstInv /\ TurnInv
    BY DEF IInv, StreamInv, ParserInv
  <1>2. Here(Len(got)) \in Nat
    BY <1>1, FirstFacts, HereFacts DEF GotInv
  <1>3. handled \in Nat /\ arrived \in Nat /\ handled <= arrived
    BY <1>1 DEF PiecesInv, ChannelInv, ChannelTypes, StreamInv
  <1>4. Behind(First) \in Nat /\ Behind(First) <= arrived
    <2>1. CASE Has(First)
      <3>1. at # Start
        BY <1>1, <2>1, FirstFacts DEF Has, Start
      <3> QED BY <1>1, <2>1, <3>1, PieceInHand DEF Behind, TurnInv
    <2>2. CASE ~Has(First)
      BY <1>3, <2>2 DEF Behind
    <2> QED BY <2>1, <2>2
  <1>5. Here(Len(got)) <= Behind(First)
    BY <1>1, <1>2, <1>4 DEF FirstInv, Idle, Parsing
  <1> QED BY <1>2, <1>3, <1>4, <1>5

LEMMA BehindOthers == ASSUME IInv, NEW p \in 1..Types PROVE Behind(p) \in Nat
  <1>1. PiecesInv /\ StreamInv /\ TurnInv /\ handled \in Nat
    BY DEF IInv, PiecesInv, ChannelInv, ChannelTypes, ParserInv
  <1>2. CASE Has(p)
    <2>1. at # Start
      BY <1>2 DEF Has, Start
    <2> QED BY <1>1, <1>2, <2>1, PieceInHand DEF Behind, TurnInv
  <1>3. CASE ~Has(p)
    BY <1>1, <1>3 DEF Behind
  <1> QED BY <1>2, <1>3

LEMMA UpTo == ASSUME NEW n \in Nat PROVE IsFiniteSet(1..n) /\ Cardinality(1..n) = n
  <1>1. 1 \in Int /\ n \in Int
    OBVIOUS
  <1>2. IsFiniteSet(1..n) /\ Cardinality(1..n) = IF 1 > n THEN 0 ELSE n - 1 + 1
    BY <1>1, FS_Interval, Zenon
  <1>3. (IF 1 > n THEN 0 ELSE n - 1 + 1) = n
    OBVIOUS
  <1> QED BY <1>2, <1>3

LEMMA WholeFacts ==
  ASSUME FramesOK, NEW c
  PROVE  /\ IsFiniteSet(Whole(c)) /\ Cardinality(Whole(c)) \in 0..Len(frames)
  <1>1. Whole(c) \subseteq 1..Len(frames) /\ Len(frames) \in Nat
    BY FrameFacts, FirstFacts DEF Whole
  <1>2. IsFiniteSet(1..Len(frames)) /\ Cardinality(1..Len(frames)) = Len(frames)
    BY <1>1, UpTo
  <1> QED BY <1>1, <1>2, FS_Subset, FS_CardinalityType

LEMMA GotWhole == ASSUME IInv PROVE Len(got) <= Cardinality(Whole(arrived))
  <1>1. FramesOK /\ GotInv /\ Len(frames) \in Nat /\ DOMAIN frames = 1..Len(frames)
    BY FirstFacts, FrameFacts DEF IInv, StreamInv, ParserInv
  <1>2. Len(got) \in Nat /\ Len(got) <= Len(frames)
    BY <1>1 DEF GotInv
  <1>3. 1..Len(got) \subseteq Whole(arrived)
    <2> SUFFICES ASSUME NEW n \in 1..Len(got) PROVE n \in Whole(arrived)
      OBVIOUS
    <2>0. n \in DOMAIN frames /\ n <= Len(got) /\ Len(got) \in 0..Len(frames)
      BY <1>1, <1>2
    <2>1. n \in DOMAIN frames /\ End(n) \in Nat
      BY <1>1, <2>0, FrameFacts
    <2>2. End(n) <= Here(Len(got))
      BY <1>1, <2>0, HereFacts
    <2> QED BY <2>1, <2>2, BehindBounds DEF Whole
  <1>4. Cardinality(1..Len(got)) = Len(got)
    BY <1>2, UpTo
  <1>5. IsFiniteSet(Whole(arrived)) /\ Cardinality(Whole(arrived)) \in Nat
    BY <1>1, WholeFacts
  <1> QED BY <1>2, <1>3, <1>4, <1>5, FS_Subset

\* Types, and that no read position passes the end of a buffer (bytebuffer.hpp).
THEOREM TypesAlways == ASSUME ~Races, CleanCuts PROVE Spec => []TypeOK
  <1>1. IInv => TypeOK
    <2> SUFFICES ASSUME IInv PROVE TypeOK
      OBVIOUS
    <2>1. ChannelTypes /\ TurnInv /\ OthersInv /\ FirstInv /\ FramesOK
      BY DEF IInv, PiecesInv, ChannelInv, ParserInv, StreamInv
    <2>2. ASSUME NEW p \in 1..Types
          PROVE  buffers[p].rpos <= Size(buffers[p]) /\ buffers[p].wpos = Size(buffers[p])
      <3>1. CASE p # First
        <4>1. Behind(p) \in Nat
          BY <2>1, <3>1, BehindOthers
        <4> QED BY <2>1, <3>1, <4>1, FilledFacts DEF OthersInv
      <3>2. CASE p = First
        <4>1. PICK h, c : h = Here(Len(got)) /\ c = Behind(First)
          OBVIOUS
        <4>2. h \in Nat /\ c \in Nat /\ h <= c
          BY <4>1, BehindBounds
        <4>3. PICK s \in 0..h : buffers[p] = Filled(s, c, h - s)
          <5>1. CASE at.parsing
            BY <2>1, <3>2, <4>1, <5>1 DEF FirstInv, Parsing
          <5>2. CASE ~at.parsing
            <6>1. h \in 0..h /\ h - h = 0
              BY <4>2
            <6>2. buffers[p] = Filled(h, c, 0)
              BY <2>1, <3>2, <4>1, <5>2 DEF FirstInv, Idle
            <6> QED BY <6>1, <6>2
          <5> QED BY <5>1, <5>2
        <4>4. s \in Nat /\ s <= c /\ h - s <= c - s
          BY <4>2
        <4>5. buffers[p].rpos = h - s /\ Size(buffers[p]) = c - s /\ buffers[p].wpos = c - s
          BY <4>2, <4>3, <4>4, FilledFacts
        <4> QED BY <4>4, <4>5
      <3> QED BY <3>1, <3>2
    <2>3. BuffersOK
      BY <2>2 DEF BuffersOK
    <2>4. at \in [parser : 1..Types, parsing : BOOLEAN]
      BY <2>1 DEF TurnInv
    <2> QED BY <2>1, <2>3, <2>4, Zenon DEF TypeOK, ChannelTypes, PieceSet
  <1> QED BY <1>1, IInvAlways, PTL

\* With clean cuts and frames of one type, a parser keeps no whole frame to itself
\* when there is nothing left to hand over (byheadprotocol.h:56).
THEOREM NoFrameIsLeft == ASSUME ~Races, CleanCuts PROVE Spec => []NothingLeft
  <1>1. IInv => NothingLeft
    <2> SUFFICES ASSUME IInv, OneType, Kept = <<>>
                 PROVE  Len(got) = Cardinality(Whole(arrived))
      BY DEF NothingLeft
    <2>1. /\ ChannelTypes /\ TurnInv /\ FirstInv /\ GotInv /\ FramesOK /\ Covers(Kept, handled, arrived)
          /\ arrived <= End(Len(frames))
      BY DEF IInv, PiecesInv, ChannelInv, ParserInv, StreamInv
    <2>2. hand = <<>> /\ handled = arrived
      <3>1. hand \in Seq(PieceSet) /\ queue \in Seq(PieceSet)
        BY <2>1 DEF ChannelTypes
      <3> QED BY <2>1, <3>1 DEF Kept, Covers
    <2>3. at = Start /\ ~at.parsing /\ Behind(First) = arrived
      <3>1. First \in 1..Types
        BY <2>1, FirstFacts
      <3> QED BY <2>1, <2>2, <3>1 DEF TurnInv, Start, Behind, Has
    <2>4. PICK k, h : k = Len(got) /\ h = Here(k)
      OBVIOUS
    <2>5. Idle(buffers[First], k, h, arrived)
      BY <2>1, <2>3, <2>4 DEF FirstInv
    <2>6. k \in 0..Len(frames) /\ Len(frames) \in Nat /\ DOMAIN frames = 1..Len(frames)
      BY <2>1, <2>4, FirstFacts, FrameFacts DEF GotInv
    <2>7. h \in Nat /\ h <= arrived /\ arrived \in Nat
      BY <2>3, <2>4, BehindBounds
    <2>8. ASSUME NEW n \in DOMAIN frames PROVE End(n) <= arrived <=> n <= k
      <3>0. /\ n <= k => End(n) <= h
            /\ n > k => h <= Begin(n) /\ h < End(n)
        BY <2>1, <2>4, <2>6, HereFacts
      <3>1. /\ End(n) = Begin(n) + 4 + frames[n].len /\ Begin(n) \in Nat /\ frames[n].len \in Nat
            /\ End(n) \in Nat /\ n \in Nat
        BY <2>1, <2>6, FrameFacts
      <3>2. ASSUME n > k PROVE ~(End(n) <= arrived)
        <4>1. k + 1 \in DOMAIN frames
          BY <2>6, <3>1, <3>2
        <4>2. frames[k + 1].type = First
          BY <2>1, <4>1, FirstFacts DEF OneType, First
        <4>3. h < arrived => arrived < h + 4
          BY <2>5, <4>2 DEF Idle, BodyOffset
        <4> QED BY <2>7, <3>0, <3>1, <3>2, <4>3
      <3> QED BY <2>6, <2>7, <3>0, <3>1, <3>2
    <2>9. Whole(arrived) = 1..k
      BY <2>6, <2>8 DEF Whole
    <2> QED BY <2>4, <2>6, <2>9, UpTo
  <1> QED BY <1>1, IInvAlways, PTL

LEMMA AbstractStep ==
  ASSUME ~Races, IInv, [Next]_vars, GotInv', Len(got)' <= Cardinality(Whole(arrived))'
  PROVE  [Abstract!Next /\ UNCHANGED Sent]_<<Sent, Cardinality(Whole(arrived)), Views>>
  <1>1. ChannelInv /\ GotInv /\ FramesOK /\ Len(frames) \in Nat /\ DOMAIN frames = 1..Len(frames)
    BY FirstFacts, FrameFacts DEF IInv, PiecesInv, ParserInv, StreamInv
  <1>2. frames' = frames
    BY DEF Next, vars
  <1>3. Sent' = Sent
    BY <1>2, FramesSame
  <1>4. Sent \in Seq({Sent[n] : n \in 1..Len(frames)}) /\ Len(Sent) = Len(frames)
    <2>1. DOMAIN Sent = 1..Len(frames) /\ Sent = [n \in 1..Len(frames) |-> Sent[n]]
      BY <1>1 DEF Sent
    <2> HIDE DEF Sent
    <2> QED BY <1>1, <2>1
  <1>5. PICK w, v : w = Cardinality(Whole(arrived)) /\ v = Cardinality(Whole(arrived))'
    OBVIOUS
  <1>6. arrived' >= arrived /\ arrived \in Nat /\ arrived' \in Nat
    <2>1. arrived \in Nat
      BY <1>1 DEF ChannelInv, ChannelTypes
    <2> QED BY <1>1, <2>1, KeptMoves, ChannelAssumption
  <1>7. w \in 0..Len(frames) /\ v \in 0..Len(frames) /\ w <= v
    <2>1. PICK a, b : a = arrived /\ b = arrived'
      OBVIOUS
    <2>2. Whole(arrived)' = Whole(b)
      BY <1>2, <2>1 DEF Whole, End, EndOf
    <2>3. IsFiniteSet(Whole(b)) /\ Whole(a) \subseteq Whole(b)
      <3>1. ASSUME NEW n \in Whole(a) PROVE n \in Whole(b)
        <4>1. n \in DOMAIN frames /\ End(n) <= a
          BY <3>1 DEF Whole
        <4>2. End(n) \in Nat
          BY <1>1, <4>1, FrameFacts
        <4> QED BY <1>6, <2>1, <4>1, <4>2 DEF Whole
      <3>2. IsFiniteSet(Whole(b))
        BY <1>1, WholeFacts
      <3> QED BY <3>1, <3>2
    <2>4. w = Cardinality(Whole(a)) /\ v = Cardinality(Whole(b))
      BY <1>5, <2>1, <2>2
    <2> QED BY <1>1, <2>3, <2>4, WholeFacts, FS_Subset
  <1>8. CASE got' = got
    <2>1. Views' = Views
      BY <1>8 DEF Views, View
    <2>2. CASE v = w
      BY <1>3, <1>5, <2>1, <2>2
    <2>3. CASE v # w
      <3>1. v \in (w + 1)..Len(Sent)
        BY <1>1, <1>4, <1>7, <2>3
      <3> QED BY <1>3, <1>5, <2>1, <3>1 DEF Abstract!Next, Abstract!Arrive
    <2> QED BY <2>2, <2>3
  <1>9. ASSUME NEW m, ParseByAll, got' = Append(got, m)
        PROVE  [Abstract!Next /\ UNCHANGED Sent]_<<Sent, Cardinality(Whole(arrived)), Views>>
    <2>1. arrived' = arrived
      BY <1>9 DEF ParseByAll, Called, chvars
    <2>2. v = w
      <3>1. Whole(arrived)' = Whole(arrived)
        BY <1>2, <2>1 DEF Whole, End, EndOf
      <3> QED BY <1>5, <3>1
    <2>3. /\ got \in Seq(ModelSet) /\ got' \in Seq(ModelSet)
          /\ Len(got) \in Nat /\ Len(got') = Len(got) + 1
          /\ DOMAIN got = 1..Len(got) /\ DOMAIN got' = 1..(Len(got) + 1)
          /\ \A i \in 1..Len(got) : got'[i] = got[i]
      BY <1>1, <1>9 DEF GotInv
    <2>4. /\ \A i \in 1..Len(got) : View(got[i]) = Sent[i]
          /\ \A i \in 1..Len(got') : View(got'[i]) = Sent[i]
      BY <1>1, <1>3 DEF GotInv, View
    <2>5. Views = [i \in 1..Len(got) |-> Sent[i]] /\ Views' = [i \in 1..(Len(got) + 1) |-> Sent[i]]
      <3>1. Views = [i \in 1..Len(got) |-> View(got[i])]
        BY <2>3 DEF Views
      <3>2. Views' = [i \in 1..(Len(got) + 1) |-> View(got'[i])]
        BY <2>3 DEF Views, View
      <3> QED BY <2>3, <2>4, <3>1, <3>2
    <2>6. PICK k \in Nat : k = Len(got)
      BY <2>3
    <2>7. k < w
      BY <1>5, <1>7, <2>2, <2>3, <2>6, <1>1
    <2>8. Len(Views) = k /\ Views' = Append(Views, Sent[k + 1])
      BY <1>4, <2>5, <2>6, <2>7, <1>1, <1>7
    <2> QED BY <1>3, <1>5, <2>2, <2>7, <2>8 DEF Abstract!Next, Abstract!HandOver
  <1> QED BY <1>8, <1>9, GotMoves

\* What is handed over is the frames that have arrived, in their order: with clean
\* cuts receiving implements FrameDelivery, whatever the frames and the pieces.
THEOREM DeliversFrames == ASSUME ~Races, CleanCuts PROVE Spec => ImplementsFrameDelivery
  <1>1. Init => Abstract!Init
    <2> SUFFICES ASSUME Init PROVE Abstract!Init
      OBVIOUS
    <2>1. FramesOK
      BY StreamInit DEF StreamInv
    <2>2. arrived = 0 /\ got = <<>>
      BY DEF Init, ChannelInit, ParserInit
    <2>3. Whole(0) = {}
      BY <2>1, FrameFacts DEF Whole
    <2>4. Cardinality(Whole(arrived)) = 0
      BY <2>2, <2>3, FS_EmptySet
    <2>5. Views = <<>>
      BY <2>2 DEF Views
    <2> QED BY <2>4, <2>5 DEF Abstract!Init
  <1>2. IInv /\ IInv' /\ [Next]_vars /\ (Len(got) <= Cardinality(Whole(arrived)))'
          => [Abstract!Next /\ UNCHANGED Sent]_<<Sent, Cardinality(Whole(arrived)), Views>>
    BY AbstractStep DEF IInv, ParserInv
  <1>3. IInv => Len(got) <= Cardinality(Whole(arrived))
    BY GotWhole
  <1> QED BY <1>1, <1>2, <1>3, IInvAlways, PTL DEF Spec, ImplementsFrameDelivery, Abstract!Spec

\* With clean cuts a model is a whole packet, however the frames are glued
\* (src/README.md:25): what is handed over is a beginning of what was sent.
THEOREM ModelsAreWhole == ASSUME ~Races, CleanCuts PROVE Spec => []ModelsAreFrames
  <1>1. IInv => ModelsAreFrames
    <2> SUFFICES ASSUME IInv PROVE ModelsAreFrames
      OBVIOUS
    <2>1. GotInv /\ FramesOK /\ Len(frames) \in Nat /\ DOMAIN frames = 1..Len(frames)
      BY FirstFacts, FrameFacts DEF IInv, ParserInv, StreamInv
    <2>2. PICK k \in Nat : k = Len(got) /\ k <= Len(frames)
      BY <2>1 DEF GotInv
    <2>3. DOMAIN got = 1..k /\ \A i \in 1..k : View(got[i]) = Sent[i]
      BY <2>1, <2>2 DEF GotInv
    <2>4. PICK v, t : v = Views /\ t = Sent
      OBVIOUS
    <2>5. v = [i \in 1..k |-> t[i]] /\ DOMAIN v = 1..k
      <3>1. v = [i \in 1..k |-> View(got[i])]
        BY <2>3, <2>4 DEF Views
      <3> QED BY <2>3, <2>4, <3>1
    <2>6. t = [n \in 1..Len(frames) |-> t[n]] /\ DOMAIN t = 1..Len(frames)
      BY <2>1, <2>4 DEF Sent
    <2>7. \A i \in 1..k : i \in 1..Len(frames) /\ v[i] = t[i]
      BY <2>1, <2>2, <2>5
    <2> DEFINE S == {t[n] : n \in 1..Len(frames)}
    <2>8. v \in Seq(S) /\ Len(v) = k
      BY <2>2, <2>5, <2>7
    <2>9. t \in Seq(S) /\ Len(t) = Len(frames)
      BY <2>1, <2>6
    <2> HIDE DEF S
    <2>10. SubSeq(v, 1, k) = SubSeq(t, 1, k)
      BY <2>1, <2>2, <2>7, <2>8, <2>9
    <2> QED BY <2>2, <2>4, <2>8, <2>9, <2>10 DEF ModelsAreFrames, IsPrefix
  <1> QED BY <1>1, IInvAlways, PTL
=============================================================================

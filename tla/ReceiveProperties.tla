------------------------- MODULE ReceiveProperties --------------------------
(***************************************************************************)
(* What is claimed of receiving: of the pieces between the two threads,    *)
(* of the thread itself, and of the models that come out.                  *)
(***************************************************************************)
EXTENDS Receive, FiniteSets

\* The read position of a parser never passes the end of its buffer, where writing
\* goes on.
BuffersOK == \A p \in 1..Types : LET b == buffers[p]
                                 IN  b.rpos <= Size(b) /\ b.wpos = Size(b)

TypeOK ==
  /\ state \in {"Idel", "Opened", "Closed"}
  /\ isexit \in BOOLEAN /\ set \in BOOLEAN /\ status \in BOOLEAN
  /\ loop \in {"free", "opening", "opened", "pushing", "closing", "joining",
               "exiting", "leaving", "over"}
  /\ thread \in {"none", "test", "predicate", "block", "blocked", "awake", "pop", "call", "gone"}
  /\ queue \in Seq([from : Nat, to : Nat]) /\ hand \in Seq([from : Nat, to : Nat])
  /\ arrived \in Nat /\ handled \in Nat /\ closes \in Nat
  /\ at \in [parser : 1..Types, parsing : BOOLEAN] /\ BuffersOK
-----------------------------------------------------------------------------
(***************************************************************************)
(* The channel                                                             *)
(***************************************************************************)
\* What has arrived and was not handed over lies in the thread's hand and in the
\* queue, in its order, no piece twice and none missing: pushing and swapping, on
\* two threads, lose nothing.
Kept == hand \o queue
NothingLost ==
  /\ IF Kept = <<>> THEN handled = arrived
     ELSE Head(Kept).from = handled /\ Last(Kept).to = arrived
  /\ \A i \in 1..(Len(Kept) - 1) : Kept[i].to = Kept[i + 1].from

\* There is a data callback before there is data for it: of a port that opens
\* first, nothing is read until the callback is set.
CallbackFirst == queue \o hand # <<>> => set

\* After close has returned, and after the destructor, nothing is handed over
\* any more: the thread was waited for.
SilentAfterClose ==
  [][(loop = "free" /\ state = "Closed") \/ loop = "over" => UNCHANGED <<handled, got>>]_vars

\* close returns, wherever the thread was when it was told.
CloseReturns == loop \in {"closing", "exiting"} ~> loop \in {"free", "over"}
-----------------------------------------------------------------------------
(***************************************************************************)
(* The models                                                              *)
(***************************************************************************)
Sent    == [n \in DOMAIN frames |->
              [type |-> frames[n].type, seq |-> n, body |-> [i \in 1..frames[n].len |-> n]]]
View(m) == [type |-> m.type, seq |-> m.seq, body |-> m.body]
Views   == [i \in DOMAIN got |-> View(got[i])]

Abstract == INSTANCE FrameDelivery
  WITH frames <- Sent, whole <- Cardinality(Whole(arrived)), models <- Views

ImplementsFrameDelivery == Abstract!Spec

\* A model is handed over for whole frames only, in their order: bcf's README says
\* of gluing and splitting that each model is a whole packet.
ModelsAreFrames == IsPrefix(Views, Sent)

\* The frames are all of one type: a frame of another type stops the parsers.
OneType == \A m, n \in DOMAIN frames : frames[m].type = frames[n].type

\* When the thread has nothing left, no whole frame lies in a parser's buffer.
NothingLeft ==
  OneType /\ Kept = <<>> => Len(got) = Cardinality(Whole(arrived))

\* As long as the channel was never closed, each frame that has
\* arrived whole is handed over, though the notify may miss the thread.
Lives == state = "Opened" /\ closes = 0 /\ ~isexit
EveryFrameIsHandedOver ==
  \A n \in 1..MaxFrames :
    (OneType /\ n \in Whole(arrived) /\ Lives) ~> (Len(got) >= n \/ ~Lives)
=============================================================================

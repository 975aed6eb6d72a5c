------------------------------ MODULE Channel -------------------------------
(***************************************************************************)
(* IChannel (bcfcore/ichannel.cpp): what the port receives is put into     *)
(* m_Queue on the event loop and handed over on the user callback thread.  *)
(* A piece of the stream received is named by the two places between which *)
(* it lies.  The lock of m_QueueMtx that outlasts a step is that of        *)
(* pushqueueAndNotify: the loop holds it at "pushing".                     *)
(***************************************************************************)
EXTENDS Integers, Sequences, SequencesExt

CONSTANTS
  StreamEnd,  \* how much there is to receive
  LeastPiece, \* bound: the least that is received at a time
  Races,      \* popall may come to its swap while pushqueueAndNotify holds the lock
  MaxCloses   \* bound: times the channel is closed

ASSUME ChannelAssumption == StreamEnd \in Nat /\ LeastPiece \in Nat \ {0} /\ Races \in BOOLEAN /\ MaxCloses \in Nat

VARIABLES
  state,      \* m_state
  isexit,     \* m_isexit, which nothing initialises
  set,        \* m_dataCallback is there
  queue,      \* m_Queue
  loop,       \* where the event loop stands
  thread,     \* where the user callback thread stands
  status,     \* what wait_for returned, FALSE when it is out of scope
  hand,       \* dataqueue: the pieces popped and not handed over yet
  arrived,    \* how far the stream was received
  handled,    \* how far the stream was handed over
  closes      \* times the channel was closed

chvars == <<state, isexit, set, queue, loop, thread, status, hand, arrived, handled, closes>>

\* By the time a TCP connection is made the data callback is there; a serial port
\* opens first.
ChannelInit ==
  /\ state = "Idel" /\ isexit \in BOOLEAN /\ set \in BOOLEAN
  /\ queue = <<>> /\ loop = "free"
  /\ thread = "none" /\ status = FALSE /\ hand = <<>>
  /\ arrived = 0 /\ handled = 0 /\ closes = 0

Piece(from, to)  == [from |-> from, to |-> to]
Leaves           == isexit \/ state = "Closed"
LoopGoes(a, b)   == loop = a /\ loop' = b
ThreadGoes(a, b) == thread = a /\ thread' = b

\* notify_all: a thread that is blocked looks at its predicate again; one that has
\* looked and is about to block does not hear it, for its mutex is another one.
Notified == IF thread = "blocked" THEN "predicate" ELSE thread
-----------------------------------------------------------------------------
(***************************************************************************)
(* The event loop                                                          *)
(***************************************************************************)
\* The port is open: the connection-completed callback starts the thread ...
Open ==
  /\ LoopGoes("free", "opening") /\ state # "Opened"
  /\ ThreadGoes("none", "test")
  /\ UNCHANGED <<state, isexit, set, queue, status, hand, arrived, handled, closes>>

\* A variant for mutation: the loop receives before the data callback is set.
OpenedFree ==
  /\ LoopGoes("opening", "free") /\ state' = "Opened"
  /\ UNCHANGED <<isexit, set, queue, thread, status, hand, arrived, handled, closes>>

\* ... sets the state and calls the user ...
Opened ==
  /\ LoopGoes("opening", "opened") /\ state' = "Opened"
  /\ UNCHANGED <<isexit, set, queue, thread, status, hand, arrived, handled, closes>>

\* ... and then RequestHandler::receive sets the data callback, under the lock
\* that the thread holds while it hands over.
SetDataCallback ==
  /\ LoopGoes("opened", "free") /\ (set \/ thread # "call") /\ set' = TRUE
  /\ UNCHANGED <<state, isexit, queue, thread, status, hand, arrived, handled, closes>>

\* onReceivedData: what is there is read and, under the lock, put into the queue.
Push(to) ==
  /\ LoopGoes("free", "pushing") /\ state = "Opened"
  /\ to \in (arrived + LeastPiece)..StreamEnd /\ arrived' = to
  /\ queue' = Append(queue, Piece(arrived, to))
  /\ UNCHANGED <<state, isexit, set, thread, status, hand, handled, closes>>

PushNotify ==
  /\ LoopGoes("pushing", "free") /\ thread' = Notified
  /\ UNCHANGED <<state, isexit, set, queue, status, hand, arrived, handled, closes>>

\* close(): the port and m_state, the notify, the join.
Close ==
  /\ LoopGoes("free", "closing") /\ state # "Closed" /\ state' = "Closed"
  /\ closes < MaxCloses /\ closes' = closes + 1
  /\ UNCHANGED <<isexit, set, queue, thread, status, hand, arrived, handled>>

\* The destructor does the same with m_isexit.
Destroy ==
  /\ LoopGoes("free", "exiting") /\ isexit' = TRUE
  /\ UNCHANGED <<state, set, queue, thread, status, hand, arrived, handled, closes>>

Notify ==
  /\ LoopGoes("closing", "joining") \/ LoopGoes("exiting", "leaving")
  /\ thread' = Notified
  /\ UNCHANGED <<state, isexit, set, queue, status, hand, arrived, handled, closes>>

\* A variant for mutation: the thread is not waited for.
JoinNot ==
  /\ LoopGoes("joining", "free") \/ LoopGoes("leaving", "over")
  /\ UNCHANGED <<state, isexit, set, queue, thread, status, hand, arrived, handled, closes>>

Join ==
  /\ LoopGoes("joining", "free") \/ LoopGoes("leaving", "over")
  /\ thread \in {"none", "gone"} /\ thread' = "none"
  /\ UNCHANGED <<state, isexit, set, queue, status, hand, arrived, handled, closes>>
-----------------------------------------------------------------------------
(***************************************************************************)
(* The user callback thread                                                *)
(***************************************************************************)
\* The condition of the while.
Test ==
  /\ thread = "test" /\ thread' = IF Leaves THEN "gone" ELSE "predicate"
  /\ UNCHANGED <<state, isexit, set, queue, loop, status, hand, arrived, handled, closes>>

\* wait_for looks at its predicate under the lock of the queue.
Ready == queue # <<>> \/ Leaves

Predicate ==
  /\ thread = "predicate" /\ loop # "pushing"
  /\ status' = Ready /\ thread' = IF Ready THEN "awake" ELSE "block"
  /\ UNCHANGED <<state, isexit, set, queue, loop, hand, arrived, handled, closes>>

Block ==
  /\ ThreadGoes("block", "blocked")
  /\ UNCHANGED <<state, isexit, set, queue, loop, status, hand, arrived, handled, closes>>

Spurious ==
  /\ ThreadGoes("blocked", "predicate")
  /\ UNCHANGED <<state, isexit, set, queue, loop, status, hand, arrived, handled, closes>>

\* A variant for mutation: a wait without limit.
NoWaitTimeout == FALSE /\ UNCHANGED chvars

\* After five seconds wait_for looks a last time.
WaitTimeout ==
  /\ thread \in {"block", "blocked"} /\ loop # "pushing"
  /\ status' = Ready /\ thread' = "awake"
  /\ UNCHANGED <<state, isexit, set, queue, loop, hand, arrived, handled, closes>>

Awake ==
  /\ thread = "awake"
  /\ thread' = IF Leaves THEN "gone" ELSE IF status THEN "pop" ELSE "test"
  /\ status' = FALSE
  /\ UNCHANGED <<state, isexit, set, queue, loop, hand, arrived, handled, closes>>

\* A variant for mutation: a copy of the queue is handed over.
PopAllCopies ==
  /\ ThreadGoes("pop", "call") /\ loop # "pushing" /\ hand' = queue
  /\ UNCHANGED <<state, isexit, set, queue, loop, status, arrived, handled, closes>>

\* popall swaps whether or not try_to_lock got the lock.  Together with the
\* emplace_back of one who holds it, which is undefined behaviour, the last piece
\* may come along, stay, or be in neither deque.
PopAll ==
  /\ ThreadGoes("pop", "call")
  /\ \/ loop # "pushing" /\ hand' = queue /\ queue' = <<>>
     \/ /\ loop = "pushing" /\ Races
        /\ hand' \in {queue, Front(queue)}
        /\ queue' \in IF hand' = queue THEN {<<>>} ELSE {<<>>, <<Last(queue)>>}
  /\ UNCHANGED <<state, isexit, set, loop, status, arrived, handled, closes>>

\* The data callback is through with a piece; without one the piece is dropped.
Called ==
  /\ thread = "call" /\ hand # <<>> /\ hand' = Tail(hand)
  /\ handled' = IF set THEN Head(hand).to ELSE handled
  /\ UNCHANGED <<state, isexit, set, queue, loop, thread, status, arrived, closes>>

AllCalled ==
  /\ ThreadGoes("call", "test") /\ hand = <<>>
  /\ UNCHANGED <<state, isexit, set, queue, loop, status, hand, arrived, handled, closes>>

LoopGoesOn == Opened \/ SetDataCallback \/ PushNotify \/ Notify \/ Join
LoopStarts == Open \/ Close \/ Destroy \/ \E to \in 1..StreamEnd : Push(to)
ThreadGoesOn ==
  Test \/ Predicate \/ Block \/ WaitTimeout \/ Awake \/ PopAll \/ AllCalled

ChannelNext == LoopGoesOn \/ LoopStarts \/ ThreadGoesOn \/ Spurious \/ Called
ChannelSpec == ChannelInit /\ [][ChannelNext]_chvars
=============================================================================

--------------------------- MODULE RequestHandler ---------------------------
(***************************************************************************)
(* RequestHandler (requesthandler.cpp): requests wait in a map, by number, *)
(* for a model of that number from the peer or for the one-second timer to *)
(* run them out.  Everything here runs on one event loop; a user's         *)
(* callback is a state of its own, in which that user may ask again.       *)
(***************************************************************************)
EXTENDS Integers, Sequences

CONSTANTS
  SeqMax,       \* UINT_MAX: getNextSeq gives 0..SeqMax - 1, models carry 0..SeqMax
  Timeout,      \* m_timeoutMillSeconds, in units of time
  Interval,     \* TIMER_INTERVAL_MILLS, in the same units
  Resends,      \* a user may ask again with a model whose request is decided
  PeerCounts,   \* the peer numbers its answers by a getNextSeq of its own
  MaxRequests,  \* bound: requests made
  MaxPushes     \* bound: models the peer sends of itself

ASSUME NumberAssumption == SeqMax \in Nat /\ SeqMax > 1
ASSUME LimitAssumption  == Timeout \in Nat /\ Interval \in Nat \ {0}
ASSUME UseAssumption    == /\ Resends \in BOOLEAN /\ PeerCounts \in BOOLEAN
                           /\ MaxRequests \in Nat /\ MaxPushes \in Nat

VARIABLES
  asked,        \* the requests made, in order, with what became of each
  pending,      \* m_callbacks: by number, the request and the time it has left
  running,      \* the callback under way, and the number it was found by
  last,         \* what getNextSeq gave last
  due,          \* time until the timer fires
  open,         \* the channel is open
  posted,       \* models signalled by the parser's thread, not yet taken by the loop
  peer,         \* requests the peer has not answered
  answered,     \* requests the peer has answered
  peerLast,     \* what the peer's getNextSeq gave last
  pushes        \* models the peer sent of itself

vars == <<asked, pending, running, last, due, open, posted, peer, answered, peerLast, pushes>>

device == <<open, posted, peer, answered, peerLast, pushes>>
-----------------------------------------------------------------------------
Seqs     == 0..SeqMax
Requests == 1..MaxRequests
Errors   == {"CHANNEL_CLOSE", "PROTOCOL_NOT_EXIST", "ERROR_THREAD_AFFINITY"}
Results  == {"waiting", "OK", "TIME_OUT"} \cup Errors
Entry    == [req: Requests, left: Nat]

\* bound: ages from here on are not told apart
AgeMax   == Timeout + 2 * Interval

\* A request: its number, the time since it was made, the calls of its callback,
\* its result, and whose answer it was called with (0 is a model sent unasked).
Asking   == [seq: Seqs, age: 0..AgeMax, calls: Nat, result: Results, by: 0..MaxRequests]
None     == [kind |-> "none", seq |-> 0]

GetNextSeq(n) == IF n + 1 >= SeqMax THEN 0 ELSE n + 1

\* The map is keyed by int: its upper half comes first.
Key(n) == IF n <= SeqMax \div 2 THEN n ELSE n - (SeqMax + 1)

Init ==
  /\ asked = <<>>
  /\ pending = [n \in {} |-> 0]
  /\ running = None
  /\ last = 0 /\ peerLast = 0
  /\ due = Interval
  /\ open = FALSE
  /\ posted = <<>> /\ peer = {} /\ answered = {}
  /\ pushes = 0
-----------------------------------------------------------------------------
(***************************************************************************)
(* request                                                                 *)
(***************************************************************************)
\* emplace leaves an entry of the same number as it is.
Emplace(n, i) ==
  [k \in DOMAIN pending \cup {n} |->
     IF k \in DOMAIN pending THEN pending[k] ELSE [req |-> i, left |-> Timeout]]

Asked(n, s) ==
  [seq |-> n, age |-> 0, calls |-> IF s \in Errors THEN 1 ELSE 0, result |-> s, by |-> 0]

\* A request that cannot be sent has its callback called before request returns:
\* on a closed channel, for a protocol without builder, and on a foreign thread.
Refuse(n) ==
  \E s \in Errors :
    /\ (s = "CHANNEL_CLOSE") = ~open
    /\ asked' = Append(asked, Asked(n, s))
    /\ UNCHANGED <<pending, device>>

Send(n) ==
  /\ open
  /\ asked' = Append(asked, Asked(n, "waiting"))
  /\ pending' = Emplace(n, Len(asked) + 1)
  /\ peer' = peer \cup {Len(asked) + 1}
  /\ UNCHANGED <<open, posted, answered, peerLast, pushes>>

\* The models a user can ask with: a new one, which moves the counter, and those
\* of requests that are decided.
Decided == {i \in DOMAIN asked : asked[i].result # "waiting"}
Old     == IF Resends THEN {[seq |-> asked[i].seq, last |-> last] : i \in Decided} ELSE {}
Models  == {[seq |-> GetNextSeq(last), last |-> GetNextSeq(last)]} \cup Old

\* Made from the event loop, or within a callback.
Request ==
  /\ Len(asked) < MaxRequests
  /\ \E m \in Models : last' = m.last /\ (Refuse(m.seq) \/ Send(m.seq))
  /\ UNCHANGED <<running, due>>
-----------------------------------------------------------------------------
(***************************************************************************)
(* slotParseOver                                                           *)
(***************************************************************************)
Called(i, s, from) ==
  LET called == [asked[i] EXCEPT !.calls = @ + 1, !.result = s, !.by = from]
  IN  [asked EXCEPT ![i] = called]

\* Variants of Erase for mutation: the entry is kept; all of them go.
EraseNone(p, n) == p
EraseAll(p, n)  == [k \in {} |-> p[k]]

Erase(p, n) == [k \in DOMAIN p \ {n} |-> p[k]]

\* A variant for mutation: the answer goes to any request that waits.
MatchesAny(m, n) == TRUE

Matches(m, n) == m.seq = n

\* The callback of the request the model's number is found under is called
\* before its entry is erased; a number not found goes to ReceiveCallback.
SlotParseOver ==
  /\ running = None
  /\ posted # <<>>
  /\ posted' = Tail(posted)
  /\ LET m == Head(posted)
     IN  \/ \E n \in DOMAIN pending :
              /\ Matches(m, n)
              /\ asked' = Called(pending[n].req, "OK", m.from)
              /\ running' = [kind |-> "answer", seq |-> n]
         \/ /\ \A n \in DOMAIN pending : ~Matches(m, n)
            /\ UNCHANGED <<asked, running>>
  /\ UNCHANGED <<pending, last, due, open, peer, answered, peerLast, pushes>>

AnswerReturn ==
  /\ running.kind = "answer"
  /\ pending' = Erase(pending, running.seq)
  /\ running' = None
  /\ UNCHANGED <<asked, last, due, device>>
-----------------------------------------------------------------------------
(***************************************************************************)
(* slotTimeout                                                             *)
(***************************************************************************)
\* Variants of Less for mutation: nothing is taken off, everything, or too much.
LessNothing(t) == t
LessAll(t)     == 0
LessBelow(t)   == t - Interval

Less(t) == IF t > Interval THEN t - Interval ELSE 0

Down(p, S) == [n \in DOMAIN p |-> IF n \in S THEN [p[n] EXCEPT !.left = Less(@)] ELSE p[n]]

\* The rest of the walk through the map p, after the key c, in the order of the
\* keys: up to the first entry that has no time left, whose callback is called.
\* An entry made in a callback is met if its key is yet to come.
Walk(c, p) ==
  LET Ahead   == {n \in DOMAIN p : Key(n) > c}
      Expired == {n \in Ahead : p[n].left = 0}
  IN  \/ /\ Expired = {}
         /\ pending' = Down(p, Ahead)
         /\ running' = None
         /\ UNCHANGED asked
      \/ \E n \in Expired :
           /\ \A k \in Expired : Key(n) <= Key(k)
           /\ pending' = Down(p, {k \in Ahead : Key(k) < Key(n)})
           /\ asked' = Called(p[n].req, "TIME_OUT", 0)
           /\ running' = [kind |-> "timeout", seq |-> n]

SlotTimeout ==
  /\ running = None
  /\ due = 0
  /\ due' = Interval
  /\ Walk(-(SeqMax + 1), pending)
  /\ UNCHANGED <<last, device>>

TimeoutReturn ==
  /\ running.kind = "timeout"
  /\ Walk(Key(running.seq), Erase(pending, running.seq))
  /\ UNCHANGED <<last, due, device>>
-----------------------------------------------------------------------------
(***************************************************************************)
(* Time, the peer and the channel                                          *)
(***************************************************************************)
\* The timer fires on time, and callbacks take none.
Elapse ==
  /\ running = None
  /\ due > 0
  /\ due' = due - 1
  /\ asked' = [i \in DOMAIN asked |->
                 IF asked[i].result = "waiting" /\ asked[i].age < AgeMax
                 THEN [asked[i] EXCEPT !.age = @ + 1] ELSE asked[i]]
  /\ UNCHANGED <<pending, running, last, device>>

\* The peer answers what it was asked, once, late, or never, in any order: with
\* the number of the request, or with a number of its own.
PeerAnswer ==
  \E i \in peer :
    /\ peer' = peer \ {i}
    /\ answered' = answered \cup {i}
    /\ peerLast' = IF PeerCounts THEN GetNextSeq(peerLast) ELSE peerLast
    /\ posted' = Append(posted, [seq |-> IF PeerCounts THEN peerLast' ELSE asked[i].seq,
                                 from |-> i])
    /\ UNCHANGED <<asked, pending, running, last, due, open, pushes>>

\* The peer sends a model of itself, with a number nobody else on the channel uses,
\* or with one of its own.
PeerPush ==
  /\ open
  /\ pushes < MaxPushes
  /\ pushes' = pushes + 1
  /\ peerLast' = IF PeerCounts THEN GetNextSeq(peerLast) ELSE peerLast
  /\ posted' = Append(posted, [seq |-> IF PeerCounts THEN peerLast' ELSE SeqMax, from |-> 0])
  /\ UNCHANGED <<asked, pending, running, last, due, open, peer, answered>>

\* A connection that breaks takes with it what the peer has not answered.
ChannelOpen  == ~open /\ open' = TRUE /\ UNCHANGED <<posted, peer>>
ChannelClose == open /\ open' = FALSE /\ peer' = {} /\ UNCHANGED posted

Channel ==
  /\ ChannelOpen \/ ChannelClose
  /\ UNCHANGED <<asked, pending, running, last, due, answered, peerLast, pushes>>
-----------------------------------------------------------------------------
Next ==
  \/ Request
  \/ SlotParseOver \/ AnswerReturn
  \/ SlotTimeout \/ TimeoutReturn
  \/ Elapse
  \/ PeerAnswer \/ PeerPush
  \/ Channel

Spec == Init /\ [][Next]_vars

\* The event loop goes on; the peer owes nothing.
Fairness ==
  /\ WF_vars(AnswerReturn) /\ WF_vars(TimeoutReturn)
  /\ WF_vars(SlotTimeout) /\ WF_vars(Elapse) /\ WF_vars(SlotParseOver)

FairSpec == Spec /\ Fairness
=============================================================================

------------------------- MODULE RequestProperties --------------------------
(***************************************************************************)
(* What is claimed of requests and their callbacks.                        *)
(***************************************************************************)
EXTENDS RequestHandler

TypeOK ==
  /\ asked \in Seq(Asking)
  /\ Len(asked) <= MaxRequests
  /\ DOMAIN pending \subseteq Seqs
  /\ \A n \in DOMAIN pending : pending[n] \in Entry
  /\ running \in [kind: {"none", "answer", "timeout"}, seq: Seqs]
  /\ last \in Seqs /\ peerLast \in Seqs
  /\ due \in 0..Interval
  /\ open \in BOOLEAN
  /\ posted \in Seq([seq: Seqs, from: 0..MaxRequests])
  /\ peer \subseteq Requests /\ answered \subseteq Requests
  /\ pushes \in 0..MaxPushes
-----------------------------------------------------------------------------
\* The callback of a request is called once at most, and exactly once when the
\* request is decided.
CalledOnce ==
  \A i \in DOMAIN asked : asked[i].calls = IF asked[i].result = "waiting" THEN 0 ELSE 1

\* The README asks that numbers be unique on the channel.  By getNextSeq they are, if
\* models are not asked again and the counter does not come round.
UniqueNumbers == ~Resends /\ MaxRequests <= SeqMax

\* A callback that is told OK is given the peer's answer to its own request, in
\* whatever order the peer answers.
OkIsItsAnswer ==
  \A i \in DOMAIN asked : asked[i].result = "OK" => asked[i].by = i

\* A request that waits has its own entry in the map, under its own number: no
\* request is forgotten, whichever callback it was made in.
WaitingIsPending ==
  \A i \in DOMAIN asked : asked[i].result = "waiting" =>
    asked[i].seq \in DOMAIN pending /\ pending[asked[i].seq].req = i

\* No entry of the map is for a request that is decided, but the one whose callback
\* is under way: no callback is left to be called again.
PendingWaits ==
  \A n \in DOMAIN pending :
    asked[pending[n].req].result # "waiting" => running.kind # "none" /\ running.seq = n

\* A request that times out has waited as long as it was given, though the timer
\* runs freely and may fire right after the request.
NeverEarly ==
  \A i \in DOMAIN asked : asked[i].result = "TIME_OUT" => asked[i].age >= Timeout

\* No request waits longer than its time and two periods of the timer.
NeverLate ==
  \A i \in DOMAIN asked : asked[i].result = "waiting" => asked[i].age < Timeout + 2 * Interval

\* The abstract request and reply.
Reply == INSTANCE RequestReply
  WITH result <- [r \in Requests |-> IF r \in DOMAIN asked THEN asked[r].result ELSE "none"]

ImplementsRequestReply == Reply!Spec

\* Every request that was sent is decided, whether or not the peer answers and
\* the channel stays open.
EveryRequestEnds ==
  \A r \in Requests :
    (r \in DOMAIN asked) ~> (r \in DOMAIN asked /\ asked[r].result # "waiting")

\* What ReceiveCallback is given was not asked for (the comment of withReceiveData).
ToReceiveCallback == posted # <<>> /\ posted' = Tail(posted) /\ asked' = asked

GivenIsUnasked == [][ToReceiveCallback => Head(posted).from = 0]_vars
=============================================================================

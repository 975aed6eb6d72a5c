---------------------------- MODULE RequestReply ----------------------------
(***************************************************************************)
(* What request() promises: a request is refused at once, or waits and is  *)
(* decided once, by an answer the peer has given to it or by its time-out. *)
(***************************************************************************)
CONSTANT Requests

VARIABLES result, answered

Init == result = [r \in Requests |-> "none"] /\ answered = {}

Become(r, from, to) == result[r] = from /\ result' = [result EXCEPT ![r] = to]

Ask(r)    == Become(r, "none", "waiting") /\ UNCHANGED answered
Refuse(r) == /\ \E e \in {"CHANNEL_CLOSE", "PROTOCOL_NOT_EXIST", "ERROR_THREAD_AFFINITY"} :
                  Become(r, "none", e)
             /\ UNCHANGED answered

Answer(r) ==
  /\ result[r] \in {"waiting", "OK", "TIME_OUT"}
  /\ answered' = answered \cup {r}
  /\ UNCHANGED result

Deliver(r) == r \in answered /\ Become(r, "waiting", "OK") /\ UNCHANGED answered
Expire(r)  == Become(r, "waiting", "TIME_OUT") /\ UNCHANGED answered

Next == \E r \in Requests : Ask(r) \/ Refuse(r) \/ Answer(r) \/ Deliver(r) \/ Expire(r)

Spec == Init /\ [][Next]_<<result, answered>>
=============================================================================

------------------------- MODULE RequestReplyProofs -------------------------
(***************************************************************************)
(* What holds of requests where numbers are unique: none is forgotten,     *)
(* none waits too long, each is given its own answer, and the handler      *)
(* implements the abstract request and reply.                              *)
(***************************************************************************)
EXTENDS RequestProofs

\* The number of the i-th request.
Number(i) == IF i < SeqMax THEN i ELSE 0

Numbered ==
  /\ last = Number(Len(asked))
  /\ \A i \in DOMAIN asked : asked[i].seq = Number(i)

\* The entry whose callback is under way is in the map, and its request decided.
RunningIsPending ==
  running.kind # "none" =>
    running.seq \in DOMAIN pending /\ asked[pending[running.seq].req].result # "waiting"

\* An entry with time left will have used it up a period after the time-out at the
\* latest; then one more visit ends it.
InTime(e, d) ==
  \/ asked[e.req].age + e.left + d <= Timeout + Interval
  \/ e.left = 0 /\ asked[e.req].age + d < Timeout + 2 * Interval

UInv ==
  /\ IInv
  /\ Numbered
  /\ WaitingIsPending
  /\ RunningIsPending
  /\ \A n \in DOMAIN pending :
       asked[pending[n].req].result = "waiting" => InTime(pending[n], Visit(n))

LEMMA DistinctNumbers ==
  ASSUME UniqueNumbers
  PROVE  \A i, j \in Requests : Number(i) = Number(j) => i = j
  BY NumberAssumption, UseAssumption DEF UniqueNumbers, Requests, Number

LEMMA UniqueInit == Init => UInv
  <1> SUFFICES ASSUME Init PROVE UInv
    OBVIOUS
  <1>1. IInv
    BY InitInvariant
  <1>2. asked = <<>> /\ Len(asked) = 0 /\ DOMAIN asked = {} /\ DOMAIN pending = {}
    BY EmptySeq DEF Init
  <1>3. running.kind = "none"
    BY DEF Init, None
  <1>4. last = Number(0)
    BY NumberAssumption DEF Init, Number
  <1> QED
    BY <1>1, <1>2, <1>3, <1>4 DEF UInv, Numbered, WaitingIsPending, RunningIsPending

LEMMA UniqueRequest ==
  ASSUME UniqueNumbers, UInv, Request
  PROVE  UInv'
  <1> DEFINE new == Len(asked) + 1
  <1>1. IInv /\ IInv' /\ TypeOK /\ Linked(pending)
    BY RequestKeeps DEF UInv, IInv
  <1>2. PICK m \in Models, s \in {"waiting"} \cup Errors :
           /\ m.seq \in Seqs /\ last' = m.last
           /\ Len(asked') = new
           /\ DOMAIN asked' = DOMAIN asked \cup {new} /\ new \notin DOMAIN asked /\ new \in Requests
           /\ \A i \in DOMAIN asked : asked'[i] = asked[i]
           /\ asked'[new].seq = m.seq /\ asked'[new].result = s /\ asked'[new].age = 0
           /\ running' = running /\ due' = due
           /\ DOMAIN pending' = IF s = "waiting" THEN DOMAIN pending \cup {m.seq} ELSE DOMAIN pending
           /\ \A n \in DOMAIN pending' :
                pending'[n] = IF n \in DOMAIN pending THEN pending[n] ELSE [req |-> new, left |-> Timeout]
    BY <1>1, RequestSteps
  <1>3. Len(asked) \in Nat /\ DOMAIN asked \subseteq Requests
    BY <1>1, LenProperties, UseAssumption DEF TypeOK, Requests
  <1>4. m.seq = Number(new) /\ last' = Number(new)
    <2>1. m = [seq |-> GetNextSeq(last), last |-> GetNextSeq(last)]
      BY DEF UniqueNumbers, Models, Old
    <2>2. last = Number(Len(asked)) /\ Len(asked) < SeqMax
      BY <1>2, <1>3, NumberAssumption, UseAssumption DEF UInv, Numbered, Requests, UniqueNumbers
    <2>3. GetNextSeq(last) = Number(new)
      BY <1>3, <2>2, NumberAssumption DEF GetNextSeq, Number
    <2> QED
      BY <1>2, <2>1, <2>3
  <1>5. m.seq \notin DOMAIN pending
    <2> SUFFICES ASSUME m.seq \in DOMAIN pending PROVE FALSE
      OBVIOUS
    <2>1. pending[m.seq].req \in DOMAIN asked /\ asked[pending[m.seq].req].seq = m.seq
      BY <1>1 DEF Linked
    <2>2. Number(pending[m.seq].req) = Number(new)
      BY <1>4, <2>1 DEF UInv, Numbered
    <2> QED
      BY <1>2, <1>3, <2>1, <2>2, DistinctNumbers
  <1> DEFINE e == [req |-> new, left |-> Timeout]
  <1>6. e.req = new /\ e.left = Timeout
    OBVIOUS
  <1> HIDE DEF new, e
  <1>7. Numbered'
    BY <1>2, <1>4 DEF UInv, Numbered
  <1>8. WaitingIsPending'
    <2>1. ASSUME NEW i \in DOMAIN asked, asked'[i].result = "waiting"
          PROVE  asked'[i].seq \in DOMAIN pending' /\ pending'[asked'[i].seq].req = i
      BY <1>2, <2>1 DEF UInv, WaitingIsPending
    <2>2. ASSUME s = "waiting"
          PROVE  m.seq \in DOMAIN pending' /\ pending'[m.seq].req = new
      BY <1>2, <1>5, <1>6, <2>2 DEF e
    <2> QED
      BY <1>2, <2>1, <2>2 DEF WaitingIsPending
  <1>9. RunningIsPending'
    BY <1>1, <1>2 DEF UInv, RunningIsPending, Linked
  <1>10. ASSUME NEW n \in DOMAIN pending', asked'[pending'[n].req].result = "waiting"
         PROVE  InTime(pending[n], Visit(n))'
    <2>1. CASE n \in DOMAIN pending
      BY <1>1, <1>2, <1>10, <2>1 DEF UInv, InTime, Visit, Linked
    <2>2. CASE n \notin DOMAIN pending
      <3>1. pending'[n].req = new /\ pending'[n].left = Timeout /\ asked'[new].age = 0
        BY <1>2, <1>6, <2>2 DEF e
      <3>2. Visit(n)' \in 0..Interval
        BY <1>1, <1>2, LimitAssumption DEF TypeOK, Visit
      <3> QED
        BY <3>1, <3>2, LimitAssumption DEF InTime
    <2> QED
      BY <2>1, <2>2
  <1> QED
    BY <1>1, <1>7, <1>8, <1>9, <1>10 DEF UInv

LEMMA UniqueParseOver ==
  ASSUME UInv, SlotParseOver
  PROVE  UInv'
  <1>1. IInv /\ IInv' /\ TypeOK /\ Linked(pending)
    BY ParseOverKeeps DEF UInv, IInv
  <1>2. /\ running.kind = "none"
        /\ UNCHANGED <<pending, last, due>>
        /\ Len(asked') = Len(asked) /\ DOMAIN asked' = DOMAIN asked
        /\ \A j \in DOMAIN asked : asked'[j].seq = asked[j].seq /\ asked'[j].age = asked[j].age
    BY <1>1, ParseOverSteps
  <1>3. Numbered'
    BY <1>2 DEF UInv, Numbered
  <1>4. CASE asked' = asked /\ running' = running
    BY <1>1, <1>2, <1>3, <1>4 DEF UInv, WaitingIsPending, RunningIsPending, InTime, Visit
  <1>5. ASSUME NEW n \in DOMAIN pending,
               running' = [kind |-> "answer", seq |-> n],
               \A j \in DOMAIN asked : j # pending[n].req => asked'[j] = asked[j],
               asked'[pending[n].req].result = "OK"
        PROVE  UInv'
    <2>1. WaitingIsPending'
      BY <1>2, <1>5 DEF UInv, WaitingIsPending
    <2>2. RunningIsPending'
      BY <1>2, <1>5 DEF RunningIsPending
    <2>3. ASSUME NEW k \in DOMAIN pending', asked'[pending'[k].req].result = "waiting"
          PROVE  InTime(pending[k], Visit(k))'
      <3>1. Visit(k)' = Visit(k) /\ pending'[k] = pending[k] /\ k \in DOMAIN pending
        BY <1>2, <1>5 DEF Visit
      <3>2. asked'[pending[k].req] = asked[pending[k].req]
        BY <1>1, <1>5, <2>3, <3>1 DEF Linked
      <3> QED
        BY <2>3, <3>1, <3>2 DEF UInv, InTime
    <2> QED
      BY <1>1, <1>3, <2>1, <2>2, <2>3 DEF UInv
  <1> QED
    BY <1>1, <1>4, <1>5, ParseOverSteps

\* No request that waits loses its entry when a callback returns.
LEMMA ErasedIsDecided ==
  ASSUME UInv, running.kind # "none"
  PROVE  \A i \in DOMAIN asked : asked[i].result = "waiting" =>
           /\ asked[i].seq \in DOMAIN pending \ {running.seq}
           /\ pending[asked[i].seq].req = i
  BY DEF UInv, WaitingIsPending, RunningIsPending

LEMMA UniqueAnswerReturn ==
  ASSUME UInv, AnswerReturn
  PROVE  UInv'
  <1>1. IInv /\ IInv'
    BY AnswerReturnKeeps DEF UInv
  <1>2. /\ running.kind = "answer" /\ running'.kind = "none"
        /\ UNCHANGED <<asked, last, due>>
        /\ pending' = Erase(pending, running.seq)
    BY DEF AnswerReturn, None
  <1>3. /\ DOMAIN pending' = DOMAIN pending \ {running.seq}
        /\ \A n \in DOMAIN pending' : pending'[n] = pending[n]
    BY <1>2 DEF Erase
  <1>4. Numbered'
    BY <1>2 DEF UInv, Numbered
  <1>5. WaitingIsPending'
    BY <1>2, <1>3, ErasedIsDecided DEF WaitingIsPending
  <1>6. RunningIsPending'
    BY <1>2 DEF RunningIsPending
  <1>7. ASSUME NEW n \in DOMAIN pending', asked'[pending'[n].req].result = "waiting"
        PROVE  InTime(pending[n], Visit(n))'
    BY <1>2, <1>3, <1>7 DEF UInv, InTime, Visit
  <1> QED
    BY <1>1, <1>4, <1>5, <1>6, <1>7 DEF UInv

LEMMA UniqueWalk ==
  ASSUME IInv, Numbered, NEW c \in Int, NEW p, Linked(p),
         \A i \in DOMAIN asked : asked[i].result = "waiting" =>
           asked[i].seq \in DOMAIN p /\ p[asked[i].seq].req = i,
         \A n \in DOMAIN p : asked[p[n].req].result = "waiting",
         \A n \in DOMAIN p : InTime(p[n], IF Key(n) > c THEN 0 ELSE Interval),
         Walk(c, p), due' = Interval, last' = last
  PROVE  /\ Numbered' /\ WaitingIsPending' /\ RunningIsPending'
         /\ \A n \in DOMAIN pending' :
              asked'[pending'[n].req].result = "waiting" => InTime(pending[n], Visit(n))'
  <1>1. /\ DOMAIN pending' = DOMAIN p
        /\ \A k \in DOMAIN p : pending'[k] \in Entry /\ pending'[k].req = p[k].req
        /\ Len(asked') = Len(asked) /\ DOMAIN asked' = DOMAIN asked
        /\ \A j \in DOMAIN asked : asked'[j].seq = asked[j].seq /\ asked'[j].age = asked[j].age
    BY WalkSteps DEF IInv
  <1>2. \A k \in DOMAIN p : /\ Key(k) \in Int /\ p[k].left \in Nat
                            /\ p[k].req \in DOMAIN asked /\ asked[p[k].req].seq = k
                            /\ asked[p[k].req].age \in Nat
    BY Keys, Ages DEF Linked, Entry, IInv
  <1>3. Numbered'
    BY <1>1 DEF Numbered
  <1>4. ASSUME NEW k \in DOMAIN p, Key(k) > c, p[k].left # 0, pending'[k].left = Less(p[k].left)
        PROVE  InTime(pending[k], Interval)'
    <2>1. asked[p[k].req].age + p[k].left <= Timeout + Interval
      BY <1>2, <1>4, LimitAssumption DEF InTime
    <2>2. \/ asked[p[k].req].age + Less(p[k].left) + Interval <= Timeout + Interval
          \/ Less(p[k].left) = 0 /\ asked[p[k].req].age + Interval < Timeout + 2 * Interval
      BY <1>2, <1>4, <2>1, LessTime, LimitAssumption
    <2>3. asked'[pending'[k].req].age = asked[p[k].req].age
      BY <1>1, <1>2
    <2> QED
      BY <1>4, <2>2, <2>3 DEF InTime
  <1>5. ASSUME NEW k \in DOMAIN p, pending'[k] = p[k], NEW CONSTANT d, InTime(p[k], d)
        PROVE  InTime(pending[k], d)'
    BY <1>1, <1>2, <1>5 DEF InTime
  <1>6. CASE /\ running' = None /\ asked' = asked
             /\ \A k \in DOMAIN p :
                  IF Key(k) > c
                  THEN p[k].left # 0 /\ pending'[k].left = Less(p[k].left)
                  ELSE pending'[k] = p[k]
    <2>1. WaitingIsPending'
      BY <1>1, <1>6 DEF WaitingIsPending
    <2>2. RunningIsPending'
      BY <1>6 DEF RunningIsPending, None
    <2>3. ASSUME NEW k \in DOMAIN pending'
          PROVE  InTime(pending[k], Visit(k))'
      <3>1. Visit(k)' = Interval /\ k \in DOMAIN p
        BY <1>1, <1>6 DEF Visit, None
      <3>2. CASE Key(k) > c
        BY <1>4, <1>6, <3>1, <3>2
      <3>3. CASE ~(Key(k) > c)
        BY <1>5, <1>6, <3>1, <3>3
      <3> QED
        BY <3>2, <3>3
    <2> QED
      BY <1>3, <2>1, <2>2, <2>3
  <1>7. ASSUME NEW n \in DOMAIN p,
               Key(n) > c, p[n].left = 0,
               running' = [kind |-> "timeout", seq |-> n],
               \A j \in DOMAIN asked : j # p[n].req => asked'[j] = asked[j],
               asked'[p[n].req].result = "TIME_OUT",
               \A k \in DOMAIN p :
                 IF Key(k) > c /\ Key(k) < Key(n)
                 THEN p[k].left # 0 /\ pending'[k].left = Less(p[k].left)
                 ELSE pending'[k] = p[k]
        PROVE  /\ WaitingIsPending' /\ RunningIsPending'
               /\ \A k \in DOMAIN pending' :
                    asked'[pending'[k].req].result = "waiting" => InTime(pending[k], Visit(k))'
    <2>1. WaitingIsPending'
      BY <1>1, <1>7 DEF WaitingIsPending
    <2>2. RunningIsPending'
      BY <1>1, <1>7 DEF RunningIsPending
    <2>3. ASSUME NEW k \in DOMAIN pending', asked'[pending'[k].req].result = "waiting"
          PROVE  InTime(pending[k], Visit(k))'
      <3>1. k \in DOMAIN p /\ Key(k) \in Int /\ Key(n) \in Int /\ k # n
        BY <1>1, <1>2, <1>7, <2>3
      <3>2. Key(k) # Key(n)
        BY <3>1, Keys DEF Linked
      <3>3. Visit(k)' = IF Key(k) > Key(n) THEN 0 ELSE Interval
        BY <1>7 DEF Visit
      <3>4. CASE Key(k) > c /\ Key(k) < Key(n)
        BY <1>4, <1>7, <3>1, <3>3, <3>4
      <3>5. CASE Key(k) > Key(n)
        BY <1>5, <1>7, <3>1, <3>3, <3>5
      <3>6. CASE ~(Key(k) > c)
        BY <1>5, <1>7, <3>1, <3>3, <3>6
      <3> QED
        BY <3>1, <3>2, <3>4, <3>5, <3>6
    <2> QED
      BY <2>1, <2>2, <2>3
  <1> QED
    BY <1>3, <1>6, <1>7, WalkSteps DEF IInv

LEMMA UniqueSlotTimeout ==
  ASSUME UInv, SlotTimeout
  PROVE  UInv'
  <1>1. IInv /\ IInv' /\ Linked(pending)
    BY SlotTimeoutKeeps DEF UInv, IInv
  <1>2. running.kind = "none" /\ due = 0 /\ due' = Interval /\ last' = last
    BY DEF SlotTimeout, None
  <1>3. \A n \in DOMAIN pending : asked[pending[n].req].result = "waiting"
    BY <1>1, <1>2 DEF IInv, PendingWaits
  <1>4. ASSUME NEW n \in DOMAIN pending
        PROVE  Key(n) > -(SeqMax + 1) /\ InTime(pending[n], 0)
    <2>1. n \in Seqs
      BY <1>1 DEF Linked
    <2>2. InTime(pending[n], Visit(n)) /\ Visit(n) = 0
      BY <1>2, <1>3 DEF Visit, UInv
    <2> QED
      BY <2>1, <2>2, Keys
  <1>5. -(SeqMax + 1) \in Int
    BY NumberAssumption
  <1> QED
    BY <1>1, <1>2, <1>3, <1>4, <1>5, UniqueWalk DEF SlotTimeout, UInv, WaitingIsPending

LEMMA UniqueTimeoutReturn ==
  ASSUME UInv, TimeoutReturn
  PROVE  UInv'
  <1> DEFINE p == Erase(pending, running.seq)
             c == Key(running.seq)
  <1>1. IInv /\ IInv'
    BY TimeoutReturnKeeps DEF UInv
  <1>2. /\ Linked(p)
        /\ DOMAIN p = DOMAIN pending \ {running.seq}
        /\ \A n \in DOMAIN p : p[n] = pending[n] /\ asked[p[n].req].result = "waiting"
    BY <1>1, ErasedMap
  <1>3. running.kind = "timeout" /\ due' = Interval /\ due = Interval /\ last' = last
    BY <1>1 DEF TimeoutReturn, IInv
  <1>4. c \in Int
    BY <1>1, Keys DEF IInv, TypeOK
  <1>5. ASSUME NEW n \in DOMAIN p
        PROVE  InTime(p[n], IF Key(n) > c THEN 0 ELSE Interval)
    BY <1>2, <1>3 DEF Visit, UInv
  <1>6. \A i \in DOMAIN asked : asked[i].result = "waiting" =>
           asked[i].seq \in DOMAIN p /\ p[asked[i].seq].req = i
    BY <1>2, <1>3, ErasedIsDecided
  <1>7. Walk(c, p)
    BY DEF TimeoutReturn
  <1>8. Numbered
    BY DEF UInv
  <1> HIDE DEF p, c
  <1> QED
    BY <1>1, <1>2, <1>3, <1>4, <1>5, <1>6, <1>7, <1>8, UniqueWalk DEF UInv

LEMMA UniqueElapse ==
  ASSUME UInv, Elapse
  PROVE  UInv'
  <1>1. IInv /\ IInv' /\ Linked(pending)
    BY ElapseKeeps DEF UInv, IInv
  <1>2. /\ Len(asked') = Len(asked) /\ DOMAIN asked' = DOMAIN asked
        /\ \A i \in DOMAIN asked :
             /\ asked'[i].seq = asked[i].seq /\ asked'[i].result = asked[i].result
             /\ asked'[i].age = IF asked[i].result = "waiting" /\ asked[i].age < AgeMax
                               THEN asked[i].age + 1 ELSE asked[i].age
    BY <1>1, AgedAsked DEF IInv, TypeOK
  <1>3. /\ running.kind = "none" /\ running' = running /\ pending' = pending
        /\ due > 0 /\ due' = due - 1 /\ last' = last
    BY DEF Elapse, None
  <1>4. Numbered' /\ WaitingIsPending' /\ RunningIsPending'
    BY <1>2, <1>3 DEF UInv, Numbered, WaitingIsPending, RunningIsPending
  <1>5. ASSUME NEW n \in DOMAIN pending, asked'[pending[n].req].result = "waiting"
        PROVE  InTime(pending[n], Visit(n))'
    <2> DEFINE i == pending[n].req
    <2>1. i \in DOMAIN asked /\ asked[i].age \in Nat /\ pending[n].left \in Nat /\ due \in Nat
      BY <1>1, Ages DEF Linked, Entry, IInv, TypeOK
    <2>2. InTime(pending[n], due) /\ Visit(n)' = due - 1
      BY <1>2, <1>3, <1>5, <2>1 DEF UInv, Visit
    <2>3. asked'[i].age = asked[i].age + 1 \/ asked'[i].age = asked[i].age
      BY <1>2, <2>1
    <2>4. \/ asked[i].age + pending[n].left + due <= Timeout + Interval
          \/ pending[n].left = 0 /\ asked[i].age + due < Timeout + 2 * Interval
      BY <2>2 DEF InTime
    <2> HIDE DEF i
    <2>5. \/ asked'[i].age + pending[n].left + (due - 1) <= Timeout + Interval
          \/ pending[n].left = 0 /\ asked'[i].age + (due - 1) < Timeout + 2 * Interval
      BY <2>1, <2>3, <2>4, LimitAssumption
    <2> QED
      BY <1>3, <2>2, <2>5 DEF InTime, i
  <1> QED
    BY <1>1, <1>3, <1>4, <1>5 DEF UInv

LEMMA UniqueOthers ==
  ASSUME UInv, PeerAnswer \/ PeerPush \/ Channel \/ UNCHANGED vars
  PROVE  UInv'
  <1>1. UNCHANGED <<asked, pending, running, last, due>>
    BY DEF PeerAnswer, PeerPush, Channel, vars
  <1>2. IInv'
    BY OthersKeep DEF UInv
  <1> QED
    BY <1>1, <1>2 DEF UInv, Numbered, WaitingIsPending, RunningIsPending, InTime, Visit

LEMMA AlwaysUnique ==
  ASSUME UniqueNumbers
  PROVE  Spec => []UInv
  <1>1. UInv /\ [Next]_vars => UInv'
    BY UniqueRequest, UniqueParseOver, UniqueAnswerReturn, UniqueSlotTimeout,
       UniqueTimeoutReturn, UniqueElapse, UniqueOthers DEF Next
  <1> QED
    BY <1>1, UniqueInit, PTL DEF Spec
-----------------------------------------------------------------------------
(***************************************************************************)
(* Whose answer it is.  Where the peer answers by the number it was given, *)
(* a number names one request, in the map as on the line.                  *)
(***************************************************************************)
IsOwn(m) ==
  \/ m.from = 0 /\ m.seq = SeqMax
  \/ m.from \in answered /\ m.from \in DOMAIN asked /\ m.seq = asked[m.from].seq

AInv ==
  /\ UInv
  /\ \A k \in DOMAIN posted : IsOwn(posted[k])
  /\ \A i \in peer : asked[i].result \notin Errors
  /\ OkIsItsAnswer

LEMMA AnswerInit == Init => AInv
  <1> SUFFICES ASSUME Init PROVE AInv
    OBVIOUS
  <1>1. DOMAIN asked = {} /\ DOMAIN posted = {} /\ peer = {}
    BY EmptySeq DEF Init
  <1> QED
    BY <1>1, UniqueInit DEF AInv, OkIsItsAnswer

\* The entry found by an answer's number is that of the request it answers.
LEMMA FoundIsAnswered ==
  ASSUME UniqueNumbers, AInv, SlotParseOver, NEW n \in DOMAIN pending, Head(posted).seq = n
  PROVE  /\ Head(posted).from = pending[n].req
         /\ pending[n].req \in answered
         /\ pending[n].req \in DOMAIN asked
         /\ asked[pending[n].req].result = "waiting"
  <1> DEFINE i == pending[n].req
  <1>1. IInv /\ Numbered /\ TypeOK /\ Linked(pending) /\ running.kind = "none"
    BY DEF AInv, UInv, IInv, SlotParseOver, None
  <1>2. i \in DOMAIN asked /\ asked[i].seq = n /\ asked[i].result = "waiting"
    BY <1>1 DEF Linked, IInv, PendingWaits
  <1>3. DOMAIN asked \subseteq Requests
    BY <1>1, LenProperties, UseAssumption DEF TypeOK, Requests
  <1>4. Number(i) = n /\ n # SeqMax
    BY <1>1, <1>2, <1>3, NumberAssumption DEF Numbered, Number, Requests
  <1>5. 1 \in DOMAIN posted /\ Head(posted) = posted[1]
    BY <1>1, HeadTailProperties DEF TypeOK, SlotParseOver
  <1>6. IsOwn(Head(posted))
    BY <1>5 DEF AInv
  <1> DEFINE j == Head(posted).from
  <1>7. j \in answered /\ j \in DOMAIN asked /\ n = asked[j].seq
    BY <1>4, <1>6 DEF IsOwn
  <1>8. Number(j) = Number(i)
    BY <1>1, <1>4, <1>7 DEF Numbered
  <1> HIDE DEF i, j
  <1>9. j = i
    BY <1>2, <1>3, <1>7, <1>8, DistinctNumbers
  <1> QED
    BY <1>2, <1>7, <1>9 DEF i, j

LEMMA AnswerRequest ==
  ASSUME UniqueNumbers, AInv, Request
  PROVE  AInv'
  <1>1. UInv' /\ TypeOK /\ peer \subseteq DOMAIN asked
    BY UniqueRequest DEF AInv, UInv, IInv
  <1> DEFINE new == Len(asked) + 1
  <1>2. PICK s \in {"waiting"} \cup Errors :
           /\ DOMAIN asked' = DOMAIN asked \cup {new} /\ new \notin DOMAIN asked
           /\ \A i \in DOMAIN asked : asked'[i] = asked[i]
           /\ asked'[new].result = s
           /\ peer' = IF s = "waiting" THEN peer \cup {new} ELSE peer
           /\ UNCHANGED <<posted, answered>>
    BY <1>1, RequestSteps
  <1> HIDE DEF new
  <1>3. s # "OK" /\ "waiting" \notin Errors
    BY DEF Errors
  <1>4. ASSUME NEW k \in DOMAIN posted' PROVE IsOwn(posted[k])'
    BY <1>2 DEF AInv, IsOwn
  <1>5. \A i \in peer' : asked'[i].result \notin Errors
    BY <1>1, <1>2, <1>3 DEF AInv
  <1>6. OkIsItsAnswer'
    BY <1>2, <1>3 DEF AInv, OkIsItsAnswer
  <1> QED
    BY <1>1, <1>4, <1>5, <1>6 DEF AInv

LEMMA AnswerParseOver ==
  ASSUME UniqueNumbers, AInv, SlotParseOver
  PROVE  AInv'
  <1>1. UInv' /\ TypeOK /\ Linked(pending) /\ peer \subseteq DOMAIN asked
    BY UniqueParseOver DEF AInv, UInv, IInv
  <1>2. /\ posted # <<>> /\ posted' = Tail(posted) /\ UNCHANGED <<peer, answered>>
        /\ DOMAIN asked' = DOMAIN asked
        /\ \A j \in DOMAIN asked : asked'[j].seq = asked[j].seq
    BY <1>1, ParseOverSteps
  <1>3. ASSUME NEW k \in DOMAIN posted' PROVE k + 1 \in DOMAIN posted /\ posted'[k] = posted[k + 1]
    BY <1>1, <1>2, HeadTailProperties DEF TypeOK
  <1>4. ASSUME NEW k \in DOMAIN posted' PROVE IsOwn(posted[k])'
    BY <1>2, <1>3 DEF AInv, IsOwn
  <1>5. CASE asked' = asked
    BY <1>1, <1>2, <1>4, <1>5 DEF AInv, OkIsItsAnswer
  <1>6. ASSUME NEW n \in DOMAIN pending, Head(posted).seq = n,
               \A j \in DOMAIN asked : j # pending[n].req => asked'[j] = asked[j],
               asked'[pending[n].req].result = "OK",
               asked'[pending[n].req].by = Head(posted).from
        PROVE  AInv'
    <2>1. Head(posted).from = pending[n].req
      BY <1>6, FoundIsAnswered
    <2>2. "OK" \notin Errors
      BY DEF Errors
    <2>3. \A i \in peer' : asked'[i].result \notin Errors
      BY <1>1, <1>2, <1>6, <2>2 DEF AInv
    <2>4. OkIsItsAnswer'
      BY <1>2, <1>6, <2>1 DEF AInv, OkIsItsAnswer
    <2> QED
      BY <1>1, <1>4, <2>3, <2>4 DEF AInv
  <1> QED
    BY <1>1, <1>5, <1>6, ParseOverSteps

\* What the timer and the passing of time do to requests: some may time out.
LEMMA LoopSteps ==
  ASSUME UInv, AnswerReturn \/ SlotTimeout \/ TimeoutReturn \/ Elapse
  PROVE  /\ UNCHANGED <<posted, peer, answered>>
         /\ DOMAIN asked' = DOMAIN asked
         /\ \A j \in DOMAIN asked : asked'[j].seq = asked[j].seq
         /\ \/ \A j \in DOMAIN asked : asked'[j].result = asked[j].result /\ asked'[j].by = asked[j].by
            \/ \E i \in DOMAIN asked :
                 /\ \A j \in DOMAIN asked : j # i => asked'[j] = asked[j]
                 /\ asked[i].result = "waiting" /\ asked'[i].result = "TIME_OUT"
  <1>1. IInv /\ TypeOK
    BY DEF UInv, IInv
  <1>2. CASE AnswerReturn
    BY <1>2 DEF AnswerReturn, device
  <1>3. CASE Elapse
    BY <1>1, <1>3, AgedAsked DEF Elapse, device, TypeOK
  <1>4. ASSUME NEW c \in Int, NEW p, Linked(p), Walk(c, p),
               \A n \in DOMAIN p : asked[p[n].req].result = "waiting"
        PROVE  /\ DOMAIN asked' = DOMAIN asked
               /\ \A j \in DOMAIN asked : asked'[j].seq = asked[j].seq
               /\ \/ asked' = asked
                  \/ \E i \in DOMAIN asked :
                       /\ \A j \in DOMAIN asked : j # i => asked'[j] = asked[j]
                       /\ asked[i].result = "waiting" /\ asked'[i].result = "TIME_OUT"
    <2>1. \A n \in DOMAIN p : p[n].req \in DOMAIN asked
      BY <1>4 DEF Linked
    <2> QED
      BY <1>1, <1>4, <2>1, WalkSteps
  <1>5. CASE SlotTimeout
    <2>1. /\ Walk(-(SeqMax + 1), pending) /\ UNCHANGED device /\ -(SeqMax + 1) \in Int
          /\ Linked(pending) /\ \A n \in DOMAIN pending : asked[pending[n].req].result = "waiting"
      BY <1>1, <1>5, NumberAssumption DEF SlotTimeout, IInv, PendingWaits, None
    <2> QED
      BY <1>4, <2>1 DEF device
  <1>6. CASE TimeoutReturn
    <2> DEFINE p == Erase(pending, running.seq)
    <2>1. Linked(p) /\ \A n \in DOMAIN p : asked[p[n].req].result = "waiting"
      BY <1>1, ErasedMap
    <2>2. Key(running.seq) \in Int /\ Walk(Key(running.seq), p) /\ UNCHANGED device
      BY <1>1, <1>6, Keys DEF TimeoutReturn, TypeOK
    <2> HIDE DEF p
    <2> QED
      BY <1>4, <2>1, <2>2 DEF device
  <1> QED
    BY <1>2, <1>3, <1>5, <1>6

LEMMA AnswerLoop ==
  ASSUME AInv, AnswerReturn \/ SlotTimeout \/ TimeoutReturn \/ Elapse
  PROVE  AInv'
  <1>1. UInv /\ UInv' /\ peer \subseteq DOMAIN asked
    BY UniqueAnswerReturn, UniqueSlotTimeout, UniqueTimeoutReturn, UniqueElapse DEF AInv, UInv, IInv
  <1>2. /\ UNCHANGED <<posted, peer, answered>> /\ DOMAIN asked' = DOMAIN asked
        /\ \A j \in DOMAIN asked : asked'[j].seq = asked[j].seq
        /\ \A j \in DOMAIN asked :
             \/ asked'[j].result = asked[j].result /\ asked'[j].by = asked[j].by
             \/ asked'[j].result = "TIME_OUT"
    BY <1>1, LoopSteps
  <1>3. "TIME_OUT" \notin Errors
    BY DEF Errors
  <1>4. ASSUME NEW k \in DOMAIN posted' PROVE IsOwn(posted[k])'
    BY <1>2 DEF AInv, IsOwn
  <1>5. \A i \in peer' : asked'[i].result \notin Errors
    BY <1>1, <1>2, <1>3 DEF AInv
  <1>6. OkIsItsAnswer'
    BY <1>2 DEF AInv, OkIsItsAnswer
  <1> QED
    BY <1>1, <1>4, <1>5, <1>6 DEF AInv

LEMMA AnswerOthers ==
  ASSUME ~PeerCounts, AInv, PeerAnswer \/ PeerPush \/ Channel \/ UNCHANGED vars
  PROVE  AInv'
  <1>1. UInv' /\ TypeOK /\ peer \subseteq DOMAIN asked /\ asked' = asked /\ peer' \subseteq peer
    BY UniqueOthers DEF AInv, UInv, IInv, PeerAnswer, PeerPush, Channel, ChannelOpen, ChannelClose, vars
  <1>2. OkIsItsAnswer' /\ \A i \in peer' : asked'[i].result \notin Errors
    BY <1>1 DEF AInv, OkIsItsAnswer
  <1>3. CASE posted' = posted /\ answered' = answered
    BY <1>1, <1>2, <1>3 DEF AInv, IsOwn
  <1>4. ASSUME NEW m, posted' = Append(posted, m), answered \subseteq answered', IsOwn(m)'
        PROVE  AInv'
    <2>1. ASSUME NEW k \in DOMAIN posted' PROVE IsOwn(posted[k])'
      <3>1. CASE k \in DOMAIN posted /\ posted'[k] = posted[k]
        BY <1>1, <1>4, <3>1 DEF AInv, IsOwn
      <3>2. CASE posted'[k] = m
        BY <1>4, <3>2 DEF IsOwn
      <3> QED
        BY <1>1, <1>4, <3>1, <3>2 DEF TypeOK
    <2> QED
      BY <1>1, <1>2, <2>1 DEF AInv
  <1>5. CASE PeerAnswer
    <2>1. PICK i \in peer : /\ posted' = Append(posted, [seq |-> asked[i].seq, from |-> i])
                            /\ answered' = answered \cup {i}
      BY <1>5 DEF PeerAnswer
    <2>2. PICK m : m.seq = asked[i].seq /\ m.from = i /\ posted' = Append(posted, m)
      BY <2>1
    <2>3. IsOwn(m)'
      BY <1>1, <2>1, <2>2 DEF IsOwn
    <2> QED
      BY <1>4, <2>1, <2>2, <2>3
  <1>6. CASE PeerPush
    <2> DEFINE m == [seq |-> SeqMax, from |-> 0]
    <2>1. posted' = Append(posted, m) /\ answered' = answered
      BY <1>6 DEF PeerPush
    <2>2. IsOwn(m)'
      BY DEF IsOwn
    <2> HIDE DEF m
    <2> QED
      BY <1>4, <2>1, <2>2
  <1>7. CASE Channel \/ UNCHANGED vars
    BY <1>3, <1>7 DEF Channel, ChannelOpen, ChannelClose, vars
  <1> QED
    BY <1>5, <1>6, <1>7

LEMMA AlwaysAnswer ==
  ASSUME UniqueNumbers, ~PeerCounts
  PROVE  Spec => []AInv
  <1>1. AInv /\ [Next]_vars => AInv'
    BY AnswerRequest, AnswerParseOver, AnswerLoop, AnswerOthers DEF Next
  <1> QED
    BY <1>1, AnswerInit, PTL DEF Spec
-----------------------------------------------------------------------------
(***************************************************************************)
(* The abstract request and reply                                          *)
(***************************************************************************)
Result(r) == IF r \in DOMAIN asked THEN asked[r].result ELSE "none"

Stands == [r \in Requests |-> Result(r)]

\* A step that changes the result of one request.
LEMMA OneBecomes ==
  ASSUME NEW i \in Requests, \A r \in Requests : r # i => Result(r)' = Result(r)
  PROVE  Stands' = [Stands EXCEPT ![i] = Result(i)']
  BY DEF Stands

LEMMA ReplyInit == Init => Reply!Init
  <1> SUFFICES ASSUME Init PROVE Reply!Init
    OBVIOUS
  <1>1. DOMAIN asked = {} /\ answered = {}
    BY EmptySeq DEF Init
  <1> QED
    BY <1>1 DEF Reply!Init

LEMMA ReplyStep ==
  ASSUME UniqueNumbers, ~PeerCounts, AInv, [Next]_vars
  PROVE  [Reply!Next]_<<Stands, answered>>
  <1>1. UInv /\ IInv /\ TypeOK /\ Linked(pending) /\ peer \subseteq DOMAIN asked
    BY DEF AInv, UInv, IInv
  <1>2. DOMAIN asked \subseteq Requests
    BY <1>1, LenProperties, UseAssumption DEF TypeOK, Requests
  <1>3. \A r \in Requests : Stands[r] = Result(r)
    BY DEF Stands
  <1>4. CASE Request
    <2> DEFINE new == Len(asked) + 1
    <2>1. PICK s \in {"waiting"} \cup Errors :
             /\ DOMAIN asked' = DOMAIN asked \cup {new} /\ new \notin DOMAIN asked /\ new \in Requests
             /\ \A i \in DOMAIN asked : asked'[i] = asked[i]
             /\ asked'[new].result = s
             /\ answered' = answered
      BY <1>1, <1>4, RequestSteps
    <2> HIDE DEF new
    <2>2. Stands' = [Stands EXCEPT ![new] = s] /\ Stands[new] = "none"
      BY <1>3, <2>1, OneBecomes DEF Result
    <2> QED
      BY <2>1, <2>2 DEF Reply!Next, Reply!Ask, Reply!Refuse, Reply!Become, Stands, Result, Errors
  <1>5. CASE SlotParseOver
    <2>1. CASE asked' = asked
      BY <1>1, <1>5, <2>1, ParseOverSteps DEF Stands, Result
    <2>2. ASSUME NEW n \in DOMAIN pending, Head(posted).seq = n,
                 DOMAIN asked' = DOMAIN asked, answered' = answered,
                 \A j \in DOMAIN asked : j # pending[n].req => asked'[j] = asked[j],
                 asked'[pending[n].req].result = "OK"
          PROVE  Reply!Next
      <3>1. PICK i \in DOMAIN asked : i = pending[n].req /\ i \in answered /\ asked[i].result = "waiting"
        BY <1>5, <2>2, FoundIsAnswered
      <3>2. i \in Requests /\ Stands[i] = "waiting" /\ Stands' = [Stands EXCEPT ![i] = "OK"]
        BY <1>2, <1>3, <2>2, <3>1, OneBecomes DEF Result
      <3> QED
        BY <2>2, <3>1, <3>2 DEF Reply!Next, Reply!Deliver, Reply!Become, Stands, Result
    <2> QED
      BY <1>1, <1>5, <2>1, <2>2, ParseOverSteps
  <1>6. CASE AnswerReturn \/ SlotTimeout \/ TimeoutReturn \/ Elapse
    <2>1. CASE /\ answered' = answered /\ DOMAIN asked' = DOMAIN asked
               /\ \A j \in DOMAIN asked : asked'[j].result = asked[j].result
      BY <2>1 DEF Stands, Result
    <2>2. ASSUME NEW i \in DOMAIN asked,
                 DOMAIN asked' = DOMAIN asked, answered' = answered,
                 \A j \in DOMAIN asked : j # i => asked'[j] = asked[j],
                 asked[i].result = "waiting", asked'[i].result = "TIME_OUT"
          PROVE  Reply!Next
      <3>1. i \in Requests /\ Stands[i] = "waiting" /\ Stands' = [Stands EXCEPT ![i] = "TIME_OUT"]
        BY <1>2, <1>3, <2>2, OneBecomes DEF Result
      <3> QED
        BY <2>2, <3>1 DEF Reply!Next, Reply!Expire, Reply!Become, Stands, Result
    <2> QED
      BY <1>1, <1>6, <2>1, <2>2, LoopSteps
  <1>7. CASE PeerAnswer
    <2>1. PICK i \in peer : answered' = answered \cup {i} /\ asked' = asked
      BY <1>7 DEF PeerAnswer
    <2>2. i \in DOMAIN asked /\ asked[i].result \in {"waiting", "OK", "TIME_OUT"}
      BY <1>1, <2>1, Ages DEF AInv, Asking, Results
    <2>3. i \in Requests /\ Stands[i] = asked[i].result /\ Stands' = Stands
      BY <1>2, <1>3, <2>1, <2>2 DEF Result, Stands
    <2> QED
      BY <2>1, <2>2, <2>3 DEF Reply!Next, Reply!Answer, Stands, Result
  <1>8. CASE PeerPush \/ Channel \/ UNCHANGED vars
    BY <1>8 DEF PeerPush, Channel, vars, Stands, Result
  <1> QED
    BY <1>4, <1>5, <1>6, <1>7, <1>8 DEF Next
-----------------------------------------------------------------------------
(***************************************************************************)
(* The theorems                                                            *)
(***************************************************************************)
\* No request is forgotten: one that waits has its entry in the map, whichever
\* callbacks were called and whatever was asked in them.
THEOREM NoneForgotten ==
  ASSUME UniqueNumbers
  PROVE  Spec => []WaitingIsPending
  BY AlwaysUnique, PTL DEF UInv

\* A request waits less than its time and two periods of the timer.
THEOREM TimeOutAtLast ==
  ASSUME UniqueNumbers
  PROVE  Spec => []NeverLate
  <1>1. UInv => NeverLate
    <2> SUFFICES ASSUME UInv, NEW i \in DOMAIN asked, asked[i].result = "waiting"
                 PROVE  asked[i].age < Timeout + 2 * Interval
      BY DEF NeverLate
    <2> DEFINE n == asked[i].seq
    <2>1. n \in DOMAIN pending /\ pending[n].req = i
      BY DEF UInv, WaitingIsPending
    <2>2. asked[i].age \in Nat /\ pending[n].left \in Nat /\ Visit(n) \in Nat
      BY <2>1, Ages, LimitAssumption DEF UInv, IInv, TypeOK, Entry, Visit
    <2>3. InTime(pending[n], Visit(n))
      BY <2>1 DEF UInv
    <2> HIDE DEF n
    <2> QED
      BY <2>1, <2>2, <2>3, LimitAssumption DEF InTime
  <1> QED
    BY <1>1, AlwaysUnique, PTL

\* A callback that is told OK is given the answer to its own request.
THEOREM AnswersAreOwn ==
  ASSUME UniqueNumbers, ~PeerCounts
  PROVE  Spec => []OkIsItsAnswer
  BY AlwaysAnswer, PTL DEF AInv

\* Requests with their numbers, map, timer and callbacks implement the abstract
\* request and reply: each is refused, or waits and is decided once, by OK only when
\* the peer has answered it.
THEOREM RequestsAreReplied ==
  ASSUME UniqueNumbers, ~PeerCounts
  PROVE  Spec => ImplementsRequestReply
  <1>1. AInv /\ [Next]_vars => [Reply!Next]_<<Stands, answered>>
    BY ReplyStep
  <1>2. [Reply!Next]_<<Stands, answered>> =>
          [Reply!Next]_<<[r \in Requests |-> IF r \in DOMAIN asked THEN asked[r].result ELSE "none"], answered>>
    BY DEF Stands, Result
  <1> QED
    BY <1>1, <1>2, ReplyInit, AlwaysAnswer, PTL DEF Spec, ImplementsRequestReply, Reply!Spec
=============================================================================

--------------------------- MODULE RequestProofs ----------------------------
(***************************************************************************)
(* The invariants of requests that hold for every number, time limit and   *)
(* use, and those that need numbers not to repeat.                         *)
(***************************************************************************)
EXTENDS RequestProperties, SequenceTheorems, TLAPS

-----------------------------------------------------------------------------
(***************************************************************************)
(* The operators                                                           *)
(***************************************************************************)
LEMMA NextSeq ==
  ASSUME NEW n \in Seqs
  PROVE  GetNextSeq(n) \in Seqs
  BY NumberAssumption DEF GetNextSeq, Seqs

\* The keys are distinct, and all follow the one the timer's walk starts from.
LEMMA Keys ==
  /\ \A n \in Seqs : Key(n) \in Int /\ Key(n) > -(SeqMax + 1)
  /\ \A n, k \in Seqs : Key(n) = Key(k) => n = k
  <1> DEFINE half == SeqMax \div 2
  <1>1. half \in Nat
    BY NumberAssumption
  <1>2. \A n : Key(n) = IF n <= half THEN n ELSE n - (SeqMax + 1)
    BY DEF Key
  <1> HIDE DEF half
  <1> QED
    BY <1>1, <1>2, NumberAssumption DEF Seqs

LEMMA LessTime ==
  ASSUME NEW t \in Nat
  PROVE  /\ Less(t) \in Nat
         /\ Less(t) >= t - Interval
         /\ Less(t) = t - Interval \/ (Less(t) = 0 /\ t <= Interval)
  BY LimitAssumption DEF Less

LEMMA NewAsking ==
  ASSUME NEW n \in Seqs, NEW s \in {"waiting"} \cup Errors
  PROVE  /\ Asked(n, s) \in Asking
         /\ Asked(n, s).seq = n /\ Asked(n, s).result = s /\ Asked(n, s).age = 0
         /\ Asked(n, s).calls = IF s = "waiting" THEN 0 ELSE 1
  <1>1. AgeMax \in Nat
    BY LimitAssumption DEF AgeMax
  <1>2. s \in Results /\ (s \in Errors <=> s # "waiting")
    BY DEF Results, Errors
  <1>3. Asked(n, s).calls = IF s = "waiting" THEN 0 ELSE 1
    BY <1>2 DEF Asked
  <1>4. Asked(n, s) \in Asking
    <2>1. 0 \in 0..AgeMax /\ 0 \in 0..MaxRequests
      BY <1>1, UseAssumption
    <2>2. (IF s \in Errors THEN 1 ELSE 0) \in Nat
      OBVIOUS
    <2> QED
      BY <1>2, <2>1, <2>2, Zenon DEF Asked, Asking
  <1> QED
    BY <1>3, <1>4 DEF Asked

LEMMA AppendedAsked ==
  ASSUME asked \in Seq(Asking), NEW r \in Asking, asked' = Append(asked, r)
  PROVE  /\ asked' \in Seq(Asking) /\ Len(asked') = Len(asked) + 1
         /\ DOMAIN asked' = DOMAIN asked \cup {Len(asked) + 1}
         /\ \A i \in DOMAIN asked : asked'[i] = asked[i]
         /\ asked'[Len(asked) + 1] = r
         /\ Len(asked) + 1 \notin DOMAIN asked
  BY AppendProperties

\* A call changes the request it is made for, and no other.
LEMMA CalledAsked ==
  ASSUME asked \in Seq(Asking), NEW i \in DOMAIN asked, NEW s \in Results,
         NEW from \in 0..MaxRequests, asked' = Called(i, s, from)
  PROVE  /\ asked' \in Seq(Asking) /\ Len(asked') = Len(asked) /\ DOMAIN asked' = DOMAIN asked
         /\ \A j \in DOMAIN asked : j # i => asked'[j] = asked[j]
         /\ asked'[i].seq = asked[i].seq /\ asked'[i].age = asked[i].age
         /\ asked'[i].calls = asked[i].calls + 1
         /\ asked'[i].result = s /\ asked'[i].by = from
  <1> DEFINE r == [asked[i] EXCEPT !.calls = @ + 1, !.result = s, !.by = from]
  <1>1. asked[i] \in Asking
    BY ElementOfSeq
  <1>2. r \in Asking
    <2>1. asked[i].calls + 1 \in Nat
      BY <1>1 DEF Asking
    <2> QED
      BY <1>1, <2>1, Zenon DEF Asking
  <1>3. /\ r.seq = asked[i].seq /\ r.age = asked[i].age /\ r.calls = asked[i].calls + 1
        /\ r.result = s /\ r.by = from
    BY <1>1 DEF Asking
  <1>4. asked' = [asked EXCEPT ![i] = r]
    BY DEF Called
  <1> HIDE DEF r
  <1> QED
    BY <1>2, <1>3, <1>4, ExceptSeq

\* With the time the requests that wait grow older, and nothing else changes.
LEMMA AgedAsked ==
  ASSUME asked \in Seq(Asking), Elapse
  PROVE  /\ asked' \in Seq(Asking) /\ Len(asked') = Len(asked) /\ DOMAIN asked' = DOMAIN asked
         /\ \A i \in DOMAIN asked :
              /\ asked'[i].seq = asked[i].seq /\ asked'[i].calls = asked[i].calls
              /\ asked'[i].result = asked[i].result /\ asked'[i].by = asked[i].by
              /\ asked'[i].age = IF asked[i].result = "waiting" /\ asked[i].age < AgeMax
                                THEN asked[i].age + 1 ELSE asked[i].age
  <1>1. AgeMax \in Nat
    BY LimitAssumption DEF AgeMax
  <1>2. \A i \in DOMAIN asked : asked[i] \in Asking
    BY ElementOfSeq
  <1>3. DOMAIN asked' = DOMAIN asked
    BY DEF Elapse
  <1>4. ASSUME NEW i \in DOMAIN asked, asked[i].result = "waiting", asked[i].age < AgeMax
        PROVE  /\ asked'[i] \in Asking
               /\ asked'[i].seq = asked[i].seq /\ asked'[i].calls = asked[i].calls
               /\ asked'[i].result = asked[i].result /\ asked'[i].by = asked[i].by
               /\ asked'[i].age = asked[i].age + 1
    <2>1. asked'[i] = [asked[i] EXCEPT !.age = @ + 1]
      BY <1>4 DEF Elapse
    <2>2. asked[i] \in Asking
      BY <1>2
    <2>3. asked[i].age + 1 \in 0..AgeMax
      BY <1>1, <1>4, <2>2 DEF Asking
    <2> QED
      BY <2>1, <2>2, <2>3 DEF Asking
  <1>5. ASSUME NEW i \in DOMAIN asked, ~(asked[i].result = "waiting" /\ asked[i].age < AgeMax)
        PROVE  asked'[i] = asked[i]
    BY <1>5 DEF Elapse
  <1>6. asked' \in Seq(Asking) /\ Len(asked') = Len(asked)
    <2>1. \A i \in 1..Len(asked) : asked'[i] \in Asking
      BY <1>2, <1>4, <1>5
    <2>2. asked' = [i \in 1..Len(asked) |-> asked'[i]]
      BY DEF Elapse
    <2>3. Len(asked) \in Nat
      OBVIOUS
    <2> HIDE DEF Elapse
    <2> QED
      BY <2>1, <2>2, <2>3, IsASeq, LenProperties
  <1> QED
    BY <1>3, <1>4, <1>5, <1>6

-----------------------------------------------------------------------------
(***************************************************************************)
(* The invariant                                                           *)
(***************************************************************************)
\* The entries of a map are for requests made, each with the number of its key.
Linked(p) ==
  /\ DOMAIN p \subseteq Seqs
  /\ \A n \in DOMAIN p : /\ p[n] \in Entry
                         /\ p[n].req \in DOMAIN asked
                         /\ asked[p[n].req].seq = n

\* What time an entry has lost, its request has waited: up to what is left of the
\* timer's period, which the first visit may have taken too early.
OnTime(e, d) == e.left = Timeout \/ asked[e.req].age + e.left >= Timeout - d

\* The time until the entry n is visited; none, if the walk under way is to come to it.
Visit(n) == IF running.kind = "timeout" /\ Key(n) > Key(running.seq) THEN 0 ELSE due

IInv ==
  /\ TypeOK
  /\ Linked(pending)
  /\ CalledOnce
  /\ PendingWaits
  /\ NeverEarly
  /\ peer \subseteq DOMAIN asked
  /\ running.kind = "timeout" => due = Interval
  /\ \A n \in DOMAIN pending : OnTime(pending[n], Visit(n))

LEMMA Ages ==
  ASSUME TypeOK
  PROVE  \A i \in DOMAIN asked : /\ asked[i] \in Asking /\ asked[i].age \in Nat
                                 /\ asked[i].seq \in Seqs /\ asked[i].calls \in Nat
  <1>1. \A i \in DOMAIN asked : asked[i] \in Asking
    BY ElementOfSeq DEF TypeOK
  <1>2. 0..AgeMax \subseteq Nat
    BY LimitAssumption DEF AgeMax
  <1> QED
    BY <1>1, <1>2 DEF Asking

LEMMA InitInvariant == Init => IInv
  <1> SUFFICES ASSUME Init PROVE IInv
    OBVIOUS
  <1>1. asked = <<>> /\ Len(asked) = 0 /\ DOMAIN asked = {} /\ asked \in Seq(Asking)
    BY EmptySeq DEF Init
  <1>2. DOMAIN pending = {}
    BY DEF Init
  <1>3. posted \in Seq([seq: Seqs, from: 0..MaxRequests])
    BY EmptySeq DEF Init
  <1>4. running \in [kind: {"none", "answer", "timeout"}, seq: Seqs] /\ running.kind = "none"
    BY NumberAssumption DEF Init, None, Seqs
  <1>5. TypeOK
    <2>1. Len(asked) <= MaxRequests
      BY <1>1, UseAssumption
    <2>2. \A n \in DOMAIN pending : pending[n] \in Entry
      BY <1>2
    <2>3. 0 \in Seqs /\ Interval \in 0..Interval /\ 0 \in 0..MaxPushes
      BY NumberAssumption, LimitAssumption, UseAssumption DEF Seqs
    <2> QED
      BY <1>1, <1>2, <1>3, <1>4, <2>1, <2>2, <2>3, Zenon DEF Init, TypeOK
  <1> QED
    BY <1>1, <1>2, <1>4, <1>5 DEF IInv, Linked, CalledOnce, PendingWaits, NeverEarly, Init

\* What the rest of a walk does to the map and the requests.
LEMMA WalkSteps ==
  ASSUME TypeOK, NEW c \in Int, NEW p, Linked(p), Walk(c, p)
  PROVE  /\ DOMAIN pending' = DOMAIN p
         /\ \A k \in DOMAIN p : pending'[k] \in Entry /\ pending'[k].req = p[k].req
         /\ asked' \in Seq(Asking) /\ Len(asked') = Len(asked) /\ DOMAIN asked' = DOMAIN asked
         /\ \A j \in DOMAIN asked : asked'[j].seq = asked[j].seq /\ asked'[j].age = asked[j].age
         /\ \/ /\ running' = None /\ asked' = asked
               /\ \A k \in DOMAIN p :
                    IF Key(k) > c
                    THEN p[k].left # 0 /\ pending'[k].left = Less(p[k].left)
                    ELSE pending'[k] = p[k]
            \/ \E n \in DOMAIN p :
                 /\ Key(n) > c /\ p[n].left = 0
                 /\ running' = [kind |-> "timeout", seq |-> n]
                 /\ \A j \in DOMAIN asked : j # p[n].req => asked'[j] = asked[j]
                 /\ asked'[p[n].req].calls = asked[p[n].req].calls + 1
                 /\ asked'[p[n].req].result = "TIME_OUT"
                 /\ \A k \in DOMAIN p :
                      IF Key(k) > c /\ Key(k) < Key(n)
                      THEN p[k].left # 0 /\ pending'[k].left = Less(p[k].left)
                      ELSE pending'[k] = p[k]
  <1> DEFINE Ahead == {n \in DOMAIN p : Key(n) > c}
  <1>1. ASSUME NEW S \in SUBSET Ahead, pending' = Down(p, S)
        PROVE  /\ DOMAIN pending' = DOMAIN p
               /\ \A n \in DOMAIN p :
                    /\ pending'[n] \in Entry
                    /\ pending'[n].req = p[n].req
                    /\ n \notin S => pending'[n] = p[n]
                    /\ n \in S => pending'[n].left = Less(p[n].left)
    <2>1. DOMAIN pending' = DOMAIN p
      BY <1>1 DEF Down
    <2>2. ASSUME NEW n \in DOMAIN p, n \in S
          PROVE  /\ pending'[n] \in Entry /\ pending'[n].req = p[n].req
                 /\ pending'[n].left = Less(p[n].left)
      <3>1. pending'[n] = [p[n] EXCEPT !.left = Less(p[n].left)]
        BY <1>1, <2>2 DEF Down
      <3>2. p[n] \in Entry
        BY DEF Linked
      <3>3. Less(p[n].left) \in Nat
        BY <3>2, LessTime DEF Entry
      <3> QED
        BY <3>1, <3>2, <3>3 DEF Entry
    <2>3. ASSUME NEW n \in DOMAIN p, n \notin S
          PROVE  pending'[n] = p[n] /\ p[n] \in Entry
      BY <1>1, <2>3 DEF Down, Linked
    <2> QED
      BY <2>1, <2>2, <2>3
  <1>2. asked \in Seq(Asking)
    BY DEF TypeOK
  <1>3. CASE /\ \A n \in Ahead : p[n].left # 0
             /\ pending' = Down(p, Ahead) /\ running' = None /\ asked' = asked
    BY <1>1, <1>2, <1>3
  <1>4. CASE \E n \in Ahead :
              /\ p[n].left = 0
              /\ \A k \in Ahead : p[k].left = 0 => Key(n) <= Key(k)
              /\ pending' = Down(p, {k \in Ahead : Key(k) < Key(n)})
              /\ asked' = Called(p[n].req, "TIME_OUT", 0)
              /\ running' = [kind |-> "timeout", seq |-> n]
    <2> PICK n \in Ahead :
              /\ p[n].left = 0
              /\ \A k \in Ahead : p[k].left = 0 => Key(n) <= Key(k)
              /\ pending' = Down(p, {k \in Ahead : Key(k) < Key(n)})
              /\ asked' = Called(p[n].req, "TIME_OUT", 0)
              /\ running' = [kind |-> "timeout", seq |-> n]
      BY <1>4
    <2> DEFINE i == p[n].req
               S == {k \in Ahead : Key(k) < Key(n)}
    <2>1. n \in DOMAIN p /\ i \in DOMAIN asked /\ Key(n) > c
      BY DEF Linked
    <2>2. /\ asked' \in Seq(Asking) /\ Len(asked') = Len(asked) /\ DOMAIN asked' = DOMAIN asked
          /\ \A j \in DOMAIN asked : j # i => asked'[j] = asked[j]
          /\ asked'[i].seq = asked[i].seq /\ asked'[i].age = asked[i].age
          /\ asked'[i].calls = asked[i].calls + 1
          /\ asked'[i].result = "TIME_OUT"
      <3>1. "TIME_OUT" \in Results /\ 0 \in 0..MaxRequests
        BY UseAssumption DEF Results
      <3> QED
        BY <1>2, <2>1, <3>1, CalledAsked
    <2>3. /\ DOMAIN pending' = DOMAIN p
          /\ \A k \in DOMAIN p :
                    /\ pending'[k] \in Entry
                    /\ pending'[k].req = p[k].req
                    /\ k \notin S => pending'[k] = p[k]
                    /\ k \in S => pending'[k].left = Less(p[k].left)
      BY <1>1
    <2>4. ASSUME NEW k \in DOMAIN p
          PROVE  IF Key(k) > c /\ Key(k) < Key(n)
                 THEN p[k].left # 0 /\ pending'[k].left = Less(p[k].left)
                 ELSE pending'[k] = p[k]
      <3>1. Key(k) \in Int /\ Key(n) \in Int
        BY Keys DEF Linked
      <3> QED
        BY <2>3, <3>1
    <2> HIDE DEF i, S
    <2>5. \A j \in DOMAIN asked : asked'[j].seq = asked[j].seq /\ asked'[j].age = asked[j].age
      BY <2>2
    <2> QED
      BY <2>1, <2>2, <2>3, <2>4, <2>5 DEF i
  <1> QED
    BY <1>3, <1>4 DEF Walk

\* The invariant after the rest of a walk, if the entries it meets are all of requests
\* that wait and have no more than their time left.
LEMMA WalkKeeps ==
  ASSUME TypeOK, CalledOnce, NeverEarly, peer \subseteq DOMAIN asked, NEW c \in Int, NEW p, Linked(p),
         \A n \in DOMAIN p : asked[p[n].req].result = "waiting",
         \A n \in DOMAIN p : OnTime(p[n], IF Key(n) > c THEN 0 ELSE Interval),
         Walk(c, p), due' = Interval, UNCHANGED <<last, device>>
  PROVE  IInv'
  <1>1. /\ DOMAIN pending' = DOMAIN p
        /\ \A k \in DOMAIN p : pending'[k] \in Entry /\ pending'[k].req = p[k].req
        /\ asked' \in Seq(Asking) /\ Len(asked') = Len(asked) /\ DOMAIN asked' = DOMAIN asked
        /\ \A j \in DOMAIN asked : asked'[j].seq = asked[j].seq /\ asked'[j].age = asked[j].age
    BY WalkSteps
  <1>2. /\ DOMAIN p \subseteq Seqs
        /\ \A k \in DOMAIN p : /\ p[k] \in Entry /\ p[k].left \in Nat
                               /\ p[k].req \in DOMAIN asked /\ asked[p[k].req].seq = k
    BY DEF Linked, Entry
  <1>3. \A k \in DOMAIN p : Key(k) \in Int
    BY <1>2, Keys
  <1>4. Linked(pending)'
    BY <1>1, <1>2 DEF Linked
  <1>5. ASSUME running' \in [kind: {"none", "answer", "timeout"}, seq: Seqs]
        PROVE  TypeOK'
    BY <1>1, <1>4, <1>5, LimitAssumption DEF TypeOK, Linked, device
  \* A visit takes at most a period off, and sets the timer back by one.
  <1>6. ASSUME NEW k \in DOMAIN p, Key(k) > c, pending'[k].left = Less(p[k].left)
        PROVE  OnTime(pending[k], Interval)'
    <2>1. asked[p[k].req].age \in Nat /\ p[k].left \in Nat
      BY <1>2, Ages
    <2>2. p[k].left = Timeout \/ asked[p[k].req].age + p[k].left >= Timeout
      BY <1>6, <2>1, LimitAssumption DEF OnTime
    <2>3. asked'[pending'[k].req].age = asked[p[k].req].age
      BY <1>1, <1>2
    <2>4. asked[p[k].req].age + Less(p[k].left) >= Timeout - Interval
      BY <2>1, <2>2, LessTime, LimitAssumption
    <2> QED
      BY <1>6, <2>3, <2>4 DEF OnTime
  <1>7. ASSUME NEW k \in DOMAIN p, pending'[k] = p[k], NEW CONSTANT d, OnTime(p[k], d)
        PROVE  OnTime(pending[k], d)'
    BY <1>1, <1>2, <1>7 DEF OnTime
  <1>8. CASE /\ running' = None /\ asked' = asked
             /\ \A k \in DOMAIN p :
                  IF Key(k) > c
                  THEN p[k].left # 0 /\ pending'[k].left = Less(p[k].left)
                  ELSE pending'[k] = p[k]
    <2>1. running'.kind = "none" /\ running' \in [kind: {"none", "answer", "timeout"}, seq: Seqs]
      BY <1>8, NumberAssumption DEF None, Seqs
    <2>2. PendingWaits'
      BY <1>1, <1>8 DEF PendingWaits
    <2>3. CalledOnce' /\ NeverEarly'
      BY <1>8 DEF CalledOnce, NeverEarly
    <2>4. ASSUME NEW k \in DOMAIN pending'
          PROVE  OnTime(pending[k], Visit(k))'
      <3>1. Visit(k)' = Interval /\ k \in DOMAIN p
        BY <1>1, <2>1 DEF Visit
      <3>2. CASE Key(k) > c
        BY <1>6, <1>8, <3>1, <3>2
      <3>3. CASE ~(Key(k) > c)
        BY <1>7, <1>8, <3>1, <3>3
      <3> QED
        BY <3>2, <3>3
    <2> QED
      BY <1>1, <1>4, <1>5, <2>1, <2>2, <2>3, <2>4 DEF IInv, device
  <1>9. ASSUME NEW n \in DOMAIN p,
               Key(n) > c, p[n].left = 0,
               running' = [kind |-> "timeout", seq |-> n],
               \A j \in DOMAIN asked : j # p[n].req => asked'[j] = asked[j],
               asked'[p[n].req].calls = asked[p[n].req].calls + 1,
               asked'[p[n].req].result = "TIME_OUT",
               \A k \in DOMAIN p :
                 IF Key(k) > c /\ Key(k) < Key(n)
                 THEN p[k].left # 0 /\ pending'[k].left = Less(p[k].left)
                 ELSE pending'[k] = p[k]
        PROVE  IInv'
    <2> DEFINE i == p[n].req
    <2>1. running' \in [kind: {"none", "answer", "timeout"}, seq: Seqs]
      BY <1>2, <1>9
    <2>2. i \in DOMAIN asked /\ asked[i].result = "waiting" /\ asked[i].calls = 0
      BY <1>2 DEF CalledOnce
    <2>3. PendingWaits'
      <3>1. \A k \in DOMAIN p : k # n => asked'[p[k].req].result = "waiting"
        BY <1>2, <1>9
      <3> QED
        BY <1>1, <1>9, <3>1 DEF PendingWaits
    <2>4. CalledOnce'
      BY <1>1, <1>9, <2>2 DEF CalledOnce
    <2>5. NeverEarly'
      <3>1. OnTime(p[n], 0)
        BY <1>9
      <3>2. asked[i].age \in Nat /\ Timeout \in Nat
        BY <2>2, Ages, LimitAssumption
      <3>3. asked[i].age >= Timeout
        BY <1>9, <3>1, <3>2 DEF OnTime
      <3> QED
        BY <1>1, <1>9, <3>3 DEF NeverEarly
    <2>6. ASSUME NEW k \in DOMAIN pending'
           PROVE  OnTime(pending[k], Visit(k))'
      <3>1. k \in DOMAIN p /\ Key(k) \in Int /\ Key(n) \in Int /\ (Key(k) = Key(n) => k = n)
        BY <1>1, <1>2, Keys
      <3>2. Visit(k)' = IF Key(k) > Key(n) THEN 0 ELSE Interval
        BY <1>9 DEF Visit
      <3>3. CASE Key(k) > c /\ Key(k) < Key(n)
        BY <1>6, <1>9, <3>1, <3>2, <3>3
      <3>4. CASE Key(k) > Key(n)
        BY <1>7, <1>9, <3>1, <3>2, <3>4
      <3>5. CASE k = n
        <4>1. asked'[i].age \in Nat /\ asked'[i].age + 0 >= Timeout - Interval
          BY <1>1, <1>9, <2>2, <2>5, Ages, LimitAssumption DEF NeverEarly
        <4>2. pending'[k].left = 0 /\ pending'[k].req = i /\ Visit(k)' = Interval
          BY <1>1, <1>9, <3>1, <3>2, <3>5
        <4> HIDE DEF i
        <4> QED
          BY <4>1, <4>2 DEF OnTime
      <3>6. CASE ~(Key(k) > c)
        BY <1>7, <1>9, <3>1, <3>2, <3>6
      <3> QED
        BY <3>1, <3>3, <3>4, <3>5, <3>6
    <2> QED
      BY <1>1, <1>4, <1>5, <1>9, <2>1, <2>3, <2>4, <2>5, <2>6 DEF IInv, device
  <1> QED
    BY <1>8, <1>9, WalkSteps

\* A request adds itself to those asked, and an entry of its number to the map if it
\* waits and there is none.
LEMMA RequestSteps ==
  ASSUME TypeOK, Request
  PROVE  \E m \in Models, s \in {"waiting"} \cup Errors :
           LET new == Len(asked) + 1 IN
           /\ m.seq \in Seqs /\ m.last \in Seqs /\ last' = m.last
           /\ asked' \in Seq(Asking) /\ Len(asked') = new
           /\ DOMAIN asked' = DOMAIN asked \cup {new} /\ new \notin DOMAIN asked /\ new \in Requests
           /\ \A i \in DOMAIN asked : asked'[i] = asked[i]
           /\ asked'[new].seq = m.seq /\ asked'[new].result = s /\ asked'[new].age = 0
           /\ asked'[new].calls = IF s = "waiting" THEN 0 ELSE 1
           /\ running' = running /\ due' = due
           /\ DOMAIN pending' = IF s = "waiting" THEN DOMAIN pending \cup {m.seq} ELSE DOMAIN pending
           /\ \A n \in DOMAIN pending' :
                pending'[n] = IF n \in DOMAIN pending THEN pending[n] ELSE [req |-> new, left |-> Timeout]
           /\ peer' = IF s = "waiting" THEN peer \cup {new} ELSE peer
           /\ UNCHANGED <<open, posted, answered, peerLast, pushes>>
  <1> DEFINE new == Len(asked) + 1
  <1>1. PICK m \in Models : last' = m.last /\ (Refuse(m.seq) \/ Send(m.seq))
    BY DEF Request
  <1>2. m.seq \in Seqs /\ m.last \in Seqs
    <2>1. last \in Seqs /\ GetNextSeq(last) \in Seqs
      BY NextSeq DEF TypeOK
    <2>2. CASE m = [seq |-> GetNextSeq(last), last |-> GetNextSeq(last)]
      BY <2>1, <2>2
    <2>3. CASE \E i \in DOMAIN asked : m = [seq |-> asked[i].seq, last |-> last]
      BY <2>1, <2>3, Ages
    <2> QED
      BY <2>2, <2>3 DEF Models, Old, Decided
  <1>3. PICK s \in {"waiting"} \cup Errors :
          /\ asked' = Append(asked, Asked(m.seq, s))
          /\ s = "waiting" => Send(m.seq)
          /\ s # "waiting" => Refuse(m.seq)
    BY <1>1 DEF Refuse, Send, Errors
  <1>4. /\ asked' \in Seq(Asking) /\ Len(asked') = new
        /\ DOMAIN asked' = DOMAIN asked \cup {new} /\ new \notin DOMAIN asked
        /\ \A i \in DOMAIN asked : asked'[i] = asked[i]
        /\ asked'[new].seq = m.seq /\ asked'[new].result = s /\ asked'[new].age = 0
        /\ asked'[new].calls = IF s = "waiting" THEN 0 ELSE 1
    <2>1. /\ Asked(m.seq, s) \in Asking
          /\ Asked(m.seq, s).seq = m.seq /\ Asked(m.seq, s).result = s
          /\ Asked(m.seq, s).age = 0
          /\ Asked(m.seq, s).calls = IF s = "waiting" THEN 0 ELSE 1
      BY <1>2, NewAsking, ZenonT(30)
    <2>2. asked \in Seq(Asking)
      BY DEF TypeOK
    <2> QED
      BY <1>3, <2>1, <2>2, AppendedAsked
  <1>5. new \in Requests
    BY UseAssumption DEF TypeOK, Request, Requests
  <1>6. running' = running /\ due' = due
    BY DEF Request
  \* emplace keeps the entries there are, and adds at most one.
  <1>7. /\ DOMAIN pending' = IF s = "waiting" THEN DOMAIN pending \cup {m.seq} ELSE DOMAIN pending
        /\ \A n \in DOMAIN pending' :
             pending'[n] = IF n \in DOMAIN pending THEN pending[n] ELSE [req |-> new, left |-> Timeout]
        /\ peer' = IF s = "waiting" THEN peer \cup {new} ELSE peer
        /\ UNCHANGED <<open, posted, answered, peerLast, pushes>>
    <2>1. CASE s = "waiting"
      BY <1>3, <2>1 DEF Send, Emplace
    <2>2. CASE s # "waiting"
      BY <1>3, <2>2 DEF Refuse, device
    <2> QED
      BY <2>1, <2>2
  <1> HIDE DEF new
  <1> QED
    BY <1>1, <1>2, <1>3, <1>4, <1>5, <1>6, <1>7 DEF new

LEMMA RequestKeeps ==
  ASSUME IInv, Request
  PROVE  IInv'
  <1> USE DEF IInv
  <1> DEFINE new == Len(asked) + 1
  <1>1. PICK m \in Models, s \in {"waiting"} \cup Errors :
           /\ m.seq \in Seqs /\ m.last \in Seqs /\ last' = m.last
           /\ asked' \in Seq(Asking) /\ Len(asked') = new
           /\ DOMAIN asked' = DOMAIN asked \cup {new} /\ new \notin DOMAIN asked /\ new \in Requests
           /\ \A i \in DOMAIN asked : asked'[i] = asked[i]
           /\ asked'[new].seq = m.seq /\ asked'[new].result = s
           /\ asked'[new].calls = IF s = "waiting" THEN 0 ELSE 1
           /\ running' = running /\ due' = due
           /\ DOMAIN pending' \subseteq DOMAIN pending \cup {m.seq}
           /\ \A n \in DOMAIN pending' :
                pending'[n] = IF n \in DOMAIN pending THEN pending[n] ELSE [req |-> new, left |-> Timeout]
           /\ s # "waiting" => DOMAIN pending' = DOMAIN pending
           /\ peer' \subseteq peer \cup {new}
           /\ UNCHANGED <<open, posted, answered, peerLast, pushes>>
    BY RequestSteps
  <1> DEFINE e == [req |-> new, left |-> Timeout]
  <1>2. e \in Entry /\ e.req = new /\ e.left = Timeout
    BY <1>1, LimitAssumption DEF Entry
  <1> HIDE DEF e, new
  <1>3. Linked(pending)'
    <2>1. DOMAIN pending' \subseteq Seqs
      BY <1>1 DEF Linked
    <2>2. ASSUME NEW n \in DOMAIN pending'
          PROVE  /\ pending'[n] \in Entry
                 /\ pending'[n].req \in DOMAIN asked'
                 /\ asked'[pending'[n].req].seq = n
      <3>1. CASE n \in DOMAIN pending
        BY <1>1, <3>1 DEF Linked
      <3>2. CASE n \notin DOMAIN pending
        BY <1>1, <1>2, <3>2 DEF e
      <3> QED
        BY <3>1, <3>2
    <2> QED
      BY <2>1, <2>2 DEF Linked
  <1>4. TypeOK'
    <2>1. /\ open' \in BOOLEAN /\ posted' = posted /\ answered' = answered
          /\ peerLast' = peerLast /\ pushes' = pushes /\ peer' \subseteq Requests
      BY <1>1 DEF TypeOK
    <2>2. Len(asked') <= MaxRequests
      BY <1>1, UseAssumption DEF Requests
    <2> QED
      BY <1>1, <1>3, <2>1, <2>2 DEF TypeOK, Linked
  <1>5. CalledOnce'
    BY <1>1 DEF CalledOnce
  <1>6. NeverEarly'
    BY <1>1 DEF NeverEarly, Errors
  <1>7. PendingWaits'
    <2>1. ASSUME NEW n \in DOMAIN pending', n \notin DOMAIN pending
          PROVE  asked'[pending'[n].req].result = "waiting"
      BY <1>1, <1>2, <2>1 DEF e
    <2>2. ASSUME NEW n \in DOMAIN pending' \cap DOMAIN pending
          PROVE  asked'[pending'[n].req] = asked[pending[n].req]
      BY <1>1 DEF Linked
    <2> QED
      BY <1>1, <2>1, <2>2 DEF PendingWaits
  <1>8. ASSUME NEW n \in DOMAIN pending'
         PROVE  OnTime(pending[n], Visit(n))'
    <2>1. CASE n \in DOMAIN pending
      BY <1>1, <2>1 DEF OnTime, Visit, Linked
    <2>2. CASE n \notin DOMAIN pending
      BY <1>1, <1>2, <2>2 DEF OnTime, e
    <2> QED
      BY <2>1, <2>2
  <1>9. peer' \subseteq DOMAIN asked'
    BY <1>1
  <1> QED
    BY <1>1, <1>3, <1>4, <1>5, <1>6, <1>7, <1>8, <1>9

\* A model answers the request its number is found under, or none.
LEMMA ParseOverSteps ==
  ASSUME TypeOK, Linked(pending), SlotParseOver
  PROVE  /\ Head(posted) \in [seq: Seqs, from: 0..MaxRequests]
         /\ posted' \in Seq([seq: Seqs, from: 0..MaxRequests])
         /\ running.kind = "none" /\ posted # <<>> /\ posted' = Tail(posted)
         /\ UNCHANGED <<pending, last, due, open, peer, answered, peerLast, pushes>>
         /\ asked' \in Seq(Asking) /\ Len(asked') = Len(asked) /\ DOMAIN asked' = DOMAIN asked
         /\ \A j \in DOMAIN asked : asked'[j].seq = asked[j].seq /\ asked'[j].age = asked[j].age
         /\ \/ asked' = asked /\ running' = running
            \/ \E n \in DOMAIN pending :
                 /\ Head(posted).seq = n
                 /\ running' = [kind |-> "answer", seq |-> n]
                 /\ \A j \in DOMAIN asked : j # pending[n].req => asked'[j] = asked[j]
                 /\ asked'[pending[n].req].calls = asked[pending[n].req].calls + 1
                 /\ asked'[pending[n].req].result = "OK"
                 /\ asked'[pending[n].req].by = Head(posted).from
  <1> DEFINE m == Head(posted)
  <1>1. m \in [seq: Seqs, from: 0..MaxRequests] /\ posted' \in Seq([seq: Seqs, from: 0..MaxRequests])
    BY HeadTailProperties DEF TypeOK, SlotParseOver
  <1>2. running.kind = "none" /\ posted # <<>> /\ posted' = Tail(posted)
    BY DEF SlotParseOver, None
  <1>3. UNCHANGED <<pending, last, due, open, peer, answered, peerLast, pushes>>
    BY DEF SlotParseOver
  <1>4. asked \in Seq(Asking)
    BY DEF TypeOK
  <1>5. CASE UNCHANGED <<asked, running>>
    BY <1>1, <1>2, <1>3, <1>4, <1>5
  <1>6. CASE \E n \in DOMAIN pending : /\ m.seq = n
                                       /\ asked' = Called(pending[n].req, "OK", m.from)
                                       /\ running' = [kind |-> "answer", seq |-> n]
    <2> PICK n \in DOMAIN pending : /\ m.seq = n
                                    /\ asked' = Called(pending[n].req, "OK", m.from)
                                    /\ running' = [kind |-> "answer", seq |-> n]
      BY <1>6
    <2> DEFINE i == pending[n].req
    <2>1. "OK" \in Results /\ m.from \in 0..MaxRequests
      BY <1>1 DEF Results
    <2>2. i \in DOMAIN asked
      BY DEF Linked
    <2>3. /\ asked' \in Seq(Asking) /\ Len(asked') = Len(asked) /\ DOMAIN asked' = DOMAIN asked
          /\ \A j \in DOMAIN asked : j # i => asked'[j] = asked[j]
          /\ asked'[i].seq = asked[i].seq /\ asked'[i].age = asked[i].age
          /\ asked'[i].calls = asked[i].calls + 1
          /\ asked'[i].result = "OK" /\ asked'[i].by = m.from
      BY <1>4, <2>1, <2>2, CalledAsked
    <2>4. \A j \in DOMAIN asked : asked'[j].seq = asked[j].seq /\ asked'[j].age = asked[j].age
      BY <2>3
    <2> HIDE DEF m
    <2> QED
      BY <1>1, <1>2, <1>3, <2>3, <2>4 DEF m
  <1> QED
    BY <1>5, <1>6 DEF SlotParseOver, Matches

LEMMA ParseOverKeeps ==
  ASSUME IInv, SlotParseOver
  PROVE  IInv'
  <1> USE DEF IInv
  <1>1. /\ posted' \in Seq([seq: Seqs, from: 0..MaxRequests]) /\ running.kind = "none"
        /\ UNCHANGED <<pending, last, due, open, peer, answered, peerLast, pushes>>
        /\ asked' \in Seq(Asking) /\ Len(asked') = Len(asked) /\ DOMAIN asked' = DOMAIN asked
        /\ \A j \in DOMAIN asked : asked'[j].seq = asked[j].seq /\ asked'[j].age = asked[j].age
    BY ParseOverSteps
  <1>2. \A n \in DOMAIN pending : /\ n \in Seqs /\ pending[n].req \in DOMAIN asked
                                  /\ asked[pending[n].req].seq = n
                                  /\ asked[pending[n].req].result = "waiting"
    BY <1>1 DEF Linked, PendingWaits
  <1>3. Linked(pending)'
    BY <1>1 DEF Linked
  <1>4. CASE asked' = asked /\ running' = running
    BY <1>1, <1>3, <1>4 DEF TypeOK, CalledOnce, PendingWaits, NeverEarly, OnTime, Visit
  <1>5. ASSUME NEW n \in DOMAIN pending,
               running' = [kind |-> "answer", seq |-> n],
               \A j \in DOMAIN asked : j # pending[n].req => asked'[j] = asked[j],
               asked'[pending[n].req].calls = asked[pending[n].req].calls + 1,
               asked'[pending[n].req].result = "OK"
        PROVE  IInv'
    <2> DEFINE i == pending[n].req
    <2>1. running' \in [kind: {"none", "answer", "timeout"}, seq: Seqs]
      BY <1>2, <1>5
    <2>2. TypeOK'
      BY <1>1, <2>1 DEF TypeOK
    <2>3. asked[i].calls = 0
      BY <1>2 DEF CalledOnce
    <2>4. CalledOnce'
      BY <1>1, <1>5, <2>3 DEF CalledOnce
    <2>5. \A k \in DOMAIN pending : k # n => asked'[pending[k].req].result = "waiting"
      BY <1>2, <1>5
    <2>6. PendingWaits'
      BY <1>1, <1>5, <2>5 DEF PendingWaits
    <2>7. NeverEarly'
      BY <1>1, <1>5 DEF NeverEarly
    <2>8. ASSUME NEW k \in DOMAIN pending'
          PROVE  OnTime(pending[k], Visit(k))'
      <3>1. Visit(k)' = Visit(k) /\ pending'[k] = pending[k] /\ k \in DOMAIN pending
        BY <1>1, <1>5 DEF Visit
      <3>2. asked'[pending[k].req].age = asked[pending[k].req].age
        BY <1>1, <1>2, <3>1
      <3> QED
        BY <3>1, <3>2 DEF OnTime
    <2> QED
      BY <1>1, <1>3, <1>5, <2>2, <2>4, <2>6, <2>7, <2>8
  <1> QED
    BY <1>4, <1>5, ParseOverSteps

\* Once its callback has returned, the entry of a request is gone, and what is left
\* is of requests that wait.
LEMMA ErasedMap ==
  ASSUME IInv
  PROVE  LET p == Erase(pending, running.seq)
         IN  /\ Linked(p)
             /\ DOMAIN p = DOMAIN pending \ {running.seq}
             /\ \A n \in DOMAIN p : p[n] = pending[n] /\ asked[p[n].req].result = "waiting"
  BY DEF IInv, Linked, Erase, PendingWaits

LEMMA AnswerReturnKeeps ==
  ASSUME IInv, AnswerReturn
  PROVE  IInv'
  <1> USE DEF IInv
  <1> DEFINE p == Erase(pending, running.seq)
  <1>1. /\ Linked(p)
        /\ DOMAIN p = DOMAIN pending \ {running.seq}
        /\ \A n \in DOMAIN p : p[n] = pending[n] /\ asked[p[n].req].result = "waiting"
    BY ErasedMap
  <1>2. running.kind = "answer" /\ pending' = p /\ running' = None
        /\ UNCHANGED <<asked, last, due, device>>
    BY DEF AnswerReturn
  <1> HIDE DEF p
  <1>3. running' \in [kind: {"none", "answer", "timeout"}, seq: Seqs] /\ running'.kind = "none"
    BY <1>2, NumberAssumption DEF None, Seqs
  <1>4. TypeOK'
    BY <1>1, <1>2, <1>3 DEF TypeOK, Linked, device
  <1>5. Linked(pending)' /\ CalledOnce' /\ NeverEarly' /\ PendingWaits'
    BY <1>1, <1>2 DEF Linked, CalledOnce, NeverEarly, PendingWaits
  <1>6. ASSUME NEW n \in DOMAIN pending'
        PROVE  OnTime(pending[n], Visit(n))'
    BY <1>1, <1>2, <1>3 DEF OnTime, Visit
  <1> QED
    BY <1>2, <1>3, <1>4, <1>5, <1>6 DEF device

LEMMA SlotTimeoutKeeps ==
  ASSUME IInv, SlotTimeout
  PROVE  IInv'
  <1> USE DEF IInv
  <1>1. running.kind = "none" /\ due = 0
    BY DEF SlotTimeout, None
  <1>2. \A n \in DOMAIN pending : asked[pending[n].req].result = "waiting"
    BY <1>1 DEF PendingWaits
  <1>3. -(SeqMax + 1) \in Int
    BY NumberAssumption
  <1>4. ASSUME NEW n \in DOMAIN pending
        PROVE  Key(n) > -(SeqMax + 1) /\ OnTime(pending[n], 0)
    <2>1. n \in Seqs
      BY DEF TypeOK
    <2>2. OnTime(pending[n], Visit(n)) /\ Visit(n) = 0
      BY <1>1 DEF Visit
    <2> QED
      BY <2>1, <2>2, Keys
  <1> QED
    BY <1>2, <1>3, <1>4, WalkKeeps DEF SlotTimeout

LEMMA TimeoutReturnKeeps ==
  ASSUME IInv, TimeoutReturn
  PROVE  IInv'
  <1> USE DEF IInv
  <1> DEFINE p == Erase(pending, running.seq)
             c == Key(running.seq)
  <1>1. /\ Linked(p)
        /\ DOMAIN p = DOMAIN pending \ {running.seq}
        /\ \A n \in DOMAIN p : p[n] = pending[n] /\ asked[p[n].req].result = "waiting"
    BY ErasedMap
  <1>2. running.kind = "timeout" /\ due' = Interval /\ due = Interval
    BY DEF TimeoutReturn
  <1>3. c \in Int
    BY Keys DEF TypeOK
  <1>4. ASSUME NEW n \in DOMAIN p
        PROVE  OnTime(p[n], IF Key(n) > c THEN 0 ELSE Interval)
    BY <1>1, <1>2 DEF Visit
  <1>5. Walk(c, p) /\ UNCHANGED <<last, device>>
    BY DEF TimeoutReturn
  <1> HIDE DEF p, c
  <1> QED
    BY <1>1, <1>2, <1>3, <1>4, <1>5, WalkKeeps

LEMMA ElapseKeeps ==
  ASSUME IInv, Elapse
  PROVE  IInv'
  <1> USE DEF IInv
  <1>1. /\ asked' \in Seq(Asking) /\ Len(asked') = Len(asked) /\ DOMAIN asked' = DOMAIN asked
        /\ \A i \in DOMAIN asked :
             /\ asked'[i].seq = asked[i].seq /\ asked'[i].calls = asked[i].calls
             /\ asked'[i].result = asked[i].result /\ asked'[i].by = asked[i].by
             /\ asked'[i].age = IF asked[i].result = "waiting" /\ asked[i].age < AgeMax
                               THEN asked[i].age + 1 ELSE asked[i].age
    BY AgedAsked DEF TypeOK
  <1>2. /\ running.kind = "none" /\ running' = running /\ pending' = pending
        /\ due > 0 /\ due' = due - 1 /\ UNCHANGED <<last, device>>
    BY DEF Elapse, None
  <1>3. TypeOK'
    BY <1>1, <1>2, LimitAssumption DEF TypeOK, device
  <1>4. Linked(pending)' /\ CalledOnce' /\ PendingWaits'
    BY <1>1, <1>2 DEF Linked, CalledOnce, PendingWaits
  <1>5. NeverEarly'
    BY <1>1 DEF NeverEarly
  <1>6. ASSUME NEW n \in DOMAIN pending
        PROVE  OnTime(pending[n], Visit(n))'
    <2> DEFINE i == pending[n].req
    <2>1. i \in DOMAIN asked /\ asked[i].age \in Nat /\ pending[n].left \in Nat
      BY Ages DEF Linked, Entry
    <2>2. asked[i].result = "waiting"
      BY <1>2 DEF PendingWaits
    <2>3. Visit(n) = due /\ Visit(n)' = due - 1 /\ due \in Nat
      BY <1>2 DEF Visit, TypeOK
    <2>4. asked'[i].age = asked[i].age + 1 \/ (asked'[i].age = asked[i].age /\ asked[i].age >= Timeout)
      BY <1>1, <2>1, <2>2, LimitAssumption DEF AgeMax
    <2>5. pending[n].left = Timeout \/ asked[i].age + pending[n].left >= Timeout - due
      BY <2>3 DEF OnTime
    <2> HIDE DEF i
    <2>6. pending[n].left = Timeout \/ asked'[i].age + pending[n].left >= Timeout - (due - 1)
      BY <1>2, <2>1, <2>3, <2>4, <2>5, LimitAssumption
    <2> QED
      BY <1>2, <2>3, <2>6 DEF OnTime, i
  <1> QED
    BY <1>1, <1>2, <1>3, <1>4, <1>5, <1>6 DEF device

LEMMA OthersKeep ==
  ASSUME IInv, PeerAnswer \/ PeerPush \/ Channel \/ UNCHANGED vars
  PROVE  IInv'
  <1> USE DEF IInv
  <1>1. UNCHANGED <<asked, pending, running, last, due>>
    BY DEF PeerAnswer, PeerPush, Channel, vars
  <1>2. TypeOK'
    <2>1. peerLast \in Seqs /\ GetNextSeq(peerLast) \in Seqs /\ SeqMax \in Seqs
      BY NextSeq, NumberAssumption, SMTT(30) DEF TypeOK, Seqs
    <2> DEFINE Model == [seq: Seqs, from: 0..MaxRequests]
    <2>2. CASE PeerAnswer
      <3>1. PICK i \in peer :
              /\ peer' = peer \ {i} /\ answered' = answered \cup {i}
              /\ peerLast' = IF PeerCounts THEN GetNextSeq(peerLast) ELSE peerLast
              /\ posted' = Append(posted, [seq |-> IF PeerCounts THEN peerLast' ELSE asked[i].seq,
                                            from |-> i])
              /\ UNCHANGED <<open, pushes>>
        BY <2>2, Zenon DEF PeerAnswer
      <3>2. i \in Requests /\ i \in DOMAIN asked
        BY DEF TypeOK
      <3>3. peerLast' \in Seqs
        BY <2>1, <3>1
      <3>4. (IF PeerCounts THEN peerLast' ELSE asked[i].seq) \in Seqs
        BY <3>2, <3>3, Ages
      <3>5. posted' \in Seq(Model)
        <4>1. i \in 0..MaxRequests /\ posted \in Seq(Model)
          BY <3>2, UseAssumption DEF Requests, TypeOK
        <4>2. [seq |-> IF PeerCounts THEN peerLast' ELSE asked[i].seq, from |-> i] \in Model
          BY <3>4, <4>1, Zenon
        <4> HIDE DEF Model
        <4> QED
          BY <3>1, <4>1, <4>2, AppendProperties
      <3> QED
        BY <1>1, <3>1, <3>2, <3>3, <3>5 DEF TypeOK
    <2>3. CASE PeerPush
      <3>1. /\ pushes < MaxPushes /\ pushes' = pushes + 1
            /\ peerLast' = IF PeerCounts THEN GetNextSeq(peerLast) ELSE peerLast
            /\ posted' = Append(posted, [seq |-> IF PeerCounts THEN peerLast' ELSE SeqMax, from |-> 0])
            /\ UNCHANGED <<open, peer, answered>>
        BY <2>3, Zenon DEF PeerPush
      <3>2. peerLast' \in Seqs /\ (IF PeerCounts THEN peerLast' ELSE SeqMax) \in Seqs
        BY <2>1, <3>1
      <3>3. posted' \in Seq(Model)
        <4>1. 0 \in 0..MaxRequests /\ posted \in Seq(Model)
          BY UseAssumption DEF TypeOK
        <4>2. [seq |-> IF PeerCounts THEN peerLast' ELSE SeqMax, from |-> 0] \in Model
          BY <3>2, <4>1, Zenon
        <4> HIDE DEF Model
        <4> QED
          BY <3>1, <4>1, <4>2, AppendProperties
      <3>4. pushes' \in 0..MaxPushes
        BY <3>1, UseAssumption DEF TypeOK
      <3> QED
        BY <1>1, <3>1, <3>2, <3>3, <3>4 DEF TypeOK
    <2>4. CASE Channel
      BY <1>1, <2>4 DEF Channel, ChannelOpen, ChannelClose, TypeOK
    <2>5. CASE UNCHANGED vars
      BY <2>5 DEF vars, TypeOK
    <2> QED
      BY <2>2, <2>3, <2>4, <2>5
  <1>3. peer' \subseteq peer
    BY DEF PeerAnswer, PeerPush, Channel, ChannelOpen, ChannelClose, vars
  <1> QED
    BY <1>1, <1>2, <1>3 DEF Linked, CalledOnce, PendingWaits, NeverEarly, OnTime, Visit

LEMMA NextKeeps == IInv /\ [Next]_vars => IInv'
  BY RequestKeeps, ParseOverKeeps, AnswerReturnKeeps, SlotTimeoutKeeps, TimeoutReturnKeeps,
     ElapseKeeps, OthersKeep DEF Next

LEMMA AlwaysInvariant == Spec => []IInv
  BY InitInvariant, NextKeeps, PTL DEF Spec
-----------------------------------------------------------------------------
(***************************************************************************)
(* Whatever the numbers                                                    *)
(***************************************************************************)
\* Requests, entries, models and the timer keep their types.
THEOREM TypesOfRequests == Spec => []TypeOK
  BY AlwaysInvariant, PTL DEF IInv

\* No callback is called twice, though callbacks run while their entry is still in
\* the map, may ask again, and numbers may collide.
THEOREM CallbackOnce == Spec => []CalledOnce
  BY AlwaysInvariant, PTL DEF IInv

\* No entry is left for a request that is decided.
THEOREM EntriesWait == Spec => []PendingWaits
  BY AlwaysInvariant, PTL DEF IInv

\* No request times out before its time, whatever the phase of the timer and
\* whichever callback the request was made in.
THEOREM TimeOutInTime == Spec => []NeverEarly
  BY AlwaysInvariant, PTL DEF IInv
=============================================================================

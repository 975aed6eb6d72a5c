---------------------------- MODULE YModemLemmas ----------------------------
(***************************************************************************)
(* What the operators of YModem return: the types of items and lines, what *)
(* a slot reads and clears, what follows what on an unspoiled line, how    *)
(* the two sides of a clean one wait.                                      *)
(***************************************************************************)
EXTENDS YModemTurns, YModemPlaces, SequenceTheorems, TLAPS

\* Both lines carry packets and bytes only.
LinesOK == toRx \in Seq(Item) /\ toTx \in Seq(Item)

LEMMA ZeroNumber == 0 \in Numbers /\ 1 \in Numbers /\ 2 \in Numbers
  BY BlockAssumption DEF Numbers

LEMMA NextBlkNumber ==
  ASSUME NEW n \in Numbers
  PROVE  NextBlk(n) \in Numbers
  BY BlockAssumption, SMT DEF Numbers, NextBlk

LEMMA ByteItem ==
  ASSUME NEW c \in Codes
  PROVE  Byte(c) \in Item
  BY ZeroNumber, SizeAssumption DEF Byte, Item

LEMMA HeaderItem == Header("file") \in Item /\ Header("null") \in Item
  BY ZeroNumber, SizeAssumption DEF Header, Item, Codes

LEMMA CansLine == Cans \in Seq(Item)
  <1>1. Byte("CAN") \in Item
    BY ByteItem DEF Codes
  <1>2. CanNumber \in Nat
    BY SizeAssumption
  <1> QED
    BY <1>1, <1>2, IsASeq DEF Cans

LEMMA BlockItem ==
  ASSUME NEW n \in Numbers, NEW p \in 0..FileSize
  PROVE  Block(n, p) \in Item
  BY SizeAssumption DEF Block, Item, Codes

LEMMA OneItem ==
  ASSUME NEW i \in Item
  PROVE  <<i>> \in Seq(Item)
  OBVIOUS

LEMMA ReadLine ==
  ASSUME NEW m, NEW in \in Seq(Item), NEW r \in ReceivePacket(m, in)
  PROVE  /\ r.rest \in Seq(Item)
         /\ r.pkt \in Item \cup {Nothing}
  <1>1. CASE in # <<>> /\ r = [pkt |-> Head(in), rest |-> Tail(in)]
    BY <1>1, HeadTailProperties
  <1>2. CASE r = [pkt |-> Nothing, rest |-> in]
    BY <1>2
  <1> QED
    BY <1>1, <1>2 DEF ReceivePacket

LEMMA ClearedLine ==
  ASSUME NEW in \in Seq(Item), NEW left \in Uncleared(in)
  PROVE  left \in Seq(Item)
  <1>1. CASE left = <<>>
    BY <1>1
  <1>2. CASE left \in Suffixes(in)
    <2>1. \A l \in 1..Len(in) : SubSeq(in, l, Len(in)) \in Seq(Item)
      BY SubSeqProperties
    <2>2. <<>> \in Seq(Item)
      OBVIOUS
    <2>3. left \in {SubSeq(in, l, Len(in)) : l \in 1..Len(in)} \/ left = <<>>
      BY <1>2, Zenon DEF Suffixes
    <2> QED
      BY <2>1, <2>2, <2>3
  <1> QED
    BY <1>1, <1>2 DEF Uncleared

LEMMA SentLine ==
  ASSUME NEW out \in Seq(Item), NEW unsent \in Seq(Item), NEW sent \in Sent(out, unsent)
  PROVE  sent \in Seq(Item)
  <1>1. CASE sent = out
    BY <1>1
  <1>2. CASE sent \in Prefixes(out \o unsent)
    <2>1. out \o unsent \in Seq(Item)
      OBVIOUS
    <2>2. \A l \in 0..Len(out \o unsent) : SubSeq(out \o unsent, 1, l) \in Seq(Item)
      BY <2>1, SubSeqProperties
    <2> QED
      BY <1>2, <2>2 DEF Prefixes
  <1> QED
    BY <1>1, <1>2 DEF Sent

LEMMA HitLine ==
  ASSUME NEW line \in Seq(Item), NEW i \in 1..Len(line), NEW hit \in Hit(line, i)
  PROVE  hit \in Seq(Item)
  <1>1. CASE hit = RemoveAt(line, i)
    <2>1. SubSeq(line, 1, i - 1) \in Seq(Item) /\ SubSeq(line, i + 1, Len(line)) \in Seq(Item)
      BY SubSeqProperties
    <2> QED
      BY <1>1, <2>1 DEF RemoveAt
  <1>2. CASE hit = [line EXCEPT ![i] = Damaged(@)]
    <2>1. Damaged(line[i]) \in Item
      <3>1. line[i] \in Item
        BY ElementOfSeq
      <3>2. Byte("NOISE") \in Item
        BY ByteItem DEF Codes
      <3>3. [line[i] EXCEPT !.good = FALSE] \in Item
        BY <3>1 DEF Item
      <3> QED
        BY <3>2, <3>3 DEF Damaged
    <2> QED
      BY <1>2, <2>1, ExceptSeq
  <1> QED
    BY <1>1, <1>2 DEF Hit
-----------------------------------------------------------------------------
(***************************************************************************)
(* The packets of a transfer that nothing has spoiled                      *)
(***************************************************************************)
LEMMA DataFields ==
  ASSUME NEW a \in Data
  PROVE  /\ a = Block(a.blk, a.pos) /\ a.blk \in Numbers /\ a.pos \in 0..(FileSize - 1)
         /\ a.code \in {"SOH", "STX"} /\ a.body = "data" /\ a.good /\ a \in Item
  <1>1. PICK n \in Numbers, p \in 0..(FileSize - 1) : a = Block(n, p)
    BY DEF Data
  <1>2. p \in 0..FileSize /\ a.blk = n /\ a.pos = p
    BY <1>1, SizeAssumption DEF Block
  <1> QED
    BY <1>1, <1>2, BlockItem DEF Block

LEMMA AfterData ==
  ASSUME NEW a \in Data
  PROVE  After(a) \in 1..FileSize /\ a.pos < After(a)
  <1>1. Length(a) \in Nat \ {0}
    BY SizeAssumption DEF Length
  <1>2. a.pos \in 0..(FileSize - 1)
    BY DataFields
  <1> QED
    BY <1>1, <1>2, SizeAssumption DEF After, Smaller

LEMMA NextBlkDiffers ==
  ASSUME NEW n \in Numbers
  PROVE  NextBlk(n) # n
  BY BlockAssumption, SMT DEF Numbers, NextBlk

\* The beginning of the file goes on with the units of the place where it ends.
LEMMA BeginningExtended ==
  ASSUME NEW p \in Nat, NEW q \in Nat, p <= q, q <= FileSize,
         NEW add \in Seq(0..FileSize), Len(add) = q - p, \A i \in 1..(q - p) : add[i] = p + i
  PROVE  Beginning(p) \o add = Beginning(q)
  <1> DEFINE b == Beginning(p)
             f == b \o add
             g == Beginning(q)
  <1>1. /\ b \in Seq(0..FileSize) /\ Len(b) = p /\ \A i \in 1..p : b[i] = i
        /\ g \in Seq(0..FileSize) /\ Len(g) = q /\ \A i \in 1..q : g[i] = i
    BY SizeAssumption DEF Beginning
  <1> HIDE DEF b, g
  <1>2. /\ f \in Seq(0..FileSize) /\ Len(f) = q
        /\ \A i \in 1..q : f[i] = IF i <= p THEN b[i] ELSE add[i - p]
    <2>1. /\ f \in Seq(0..FileSize) /\ Len(f) = Len(b) + Len(add)
          /\ \A i \in 1..(Len(b) + Len(add)) :
               f[i] = IF i <= Len(b) THEN b[i] ELSE add[i - Len(b)]
      <3>1. b \in Seq(0..FileSize) /\ add \in Seq(0..FileSize)
        BY <1>1
      <3> QED
        BY <3>1, ConcatProperties, Zenon
    <2>2. Len(b) = p /\ Len(add) = q - p /\ p + (q - p) = q
      BY <1>1
    <2> HIDE DEF f
    <2> QED
      BY <2>1, <2>2, Zenon
  <1> HIDE DEF f
  <1>3. ASSUME NEW i \in 1..q PROVE f[i] = g[i]
    <2>1. CASE i <= p
      BY <1>1, <1>2, <2>1
    <2>2. CASE i > p
      <3>1. i - p \in 1..(q - p)
        BY <2>2
      <3>2. add[i - p] = i
        BY <3>1
      <3> QED
        BY <1>1, <1>2, <2>2, <3>2
    <2> QED
      BY <2>1, <2>2
  <1> QED
    BY <1>1, <1>2, <1>3, SeqEqual DEF f, b, g

LEMMA FirstBlock ==
  ASSUME FileSize # 0
  PROVE  Block(1, 0) \in Data /\ Block(1, 0).blk = 1 /\ Block(1, 0).pos = 0
  <1>1. 1 \in Numbers /\ 0 \in 0..(FileSize - 1)
    BY ZeroNumber, SizeAssumption
  <1>2. Block(1, 0) \in Data
    BY <1>1 DEF Data
  <1> QED
    BY <1>2 DEF Block

\* What may follow each kind of packet.
LEMMA FollowsC ==
  ASSUME NEW b, Follows(Byte("C"), b)
  PROVE  b \in {Byte("C"), Byte("CAN"), Header("file")}
  BY DEF Follows, NextPacket, Byte

LEMMA FollowsHeader ==
  ASSUME NEW b, Follows(Header("file"), b)
  PROVE  \/ b \in {Header("file"), Byte("CAN")}
         \/ FileSize = 0 /\ b = Byte("EOT")
         \/ FileSize # 0 /\ b = Block(1, 0)
  BY DEF Follows, NextPacket, Header

LEMMA FollowsData ==
  ASSUME NEW a \in Data, NEW b, Follows(a, b)
  PROVE  \/ b \in {a, Byte("CAN")}
         \/ After(a) = FileSize /\ b = Byte("EOT")
         \/ After(a) # FileSize /\ b = Block(NextBlk(a.blk), After(a)) /\ b \in Data
  <1>1. NextPacket(a) = IF After(a) = FileSize THEN Byte("EOT")
                        ELSE Block(NextBlk(a.blk), After(a))
    BY DataFields DEF NextPacket
  <1>2. CASE After(a) = FileSize
    BY <1>1, <1>2 DEF Follows
  <1>3. CASE After(a) # FileSize
    <2>1. After(a) \in 0..(FileSize - 1)
      BY <1>3, AfterData, SizeAssumption
    <2>2. NextBlk(a.blk) \in Numbers
      BY DataFields, NextBlkNumber
    <2>3. Block(NextBlk(a.blk), After(a)) \in Data
      BY <2>1, <2>2 DEF Data
    <2> QED
      BY <1>1, <1>3, <2>3 DEF Follows
  <1> QED
    BY <1>2, <1>3

LEMMA FollowsEnd ==
  ASSUME NEW a \in Ends, NEW b, Follows(a, b)
  PROVE  b \in Ends \cup {Byte("CAN")}
  BY DEF Follows, NextPacket, Header, Byte, Ends
-----------------------------------------------------------------------------
(***************************************************************************)
(* The line: what is read, written and cleared leaves no gap               *)
(***************************************************************************)
LEMMA ContinuesTail ==
  ASSUME NEW a, NEW line \in Seq(Item), line # <<>>, Continues(a, line)
  PROVE  /\ Follows(a, Head(line))
         /\ Continues(Head(line), Tail(line))
         /\ Newest(Head(line), Tail(line)) = Newest(a, line)
  <1> DEFINE t == Tail(line)
  <1>1. /\ Len(line) \in Nat /\ Len(line) # 0 /\ Head(line) = line[1]
        /\ t \in Seq(Item) /\ Len(t) = Len(line) - 1
        /\ \A i \in 1..Len(t) : t[i] = line[i + 1]
    BY HeadTailProperties, LenProperties, EmptySeq
  <1>2. Follows(a, Head(line))
    BY <1>1 DEF Continues
  <1>3. Continues(Head(line), t)
    <2>1. t # <<>> => Follows(Head(line), t[1])
      BY <1>1, EmptySeq DEF Continues
    <2>2. \A i \in 1..(Len(t) - 1) : Follows(t[i], t[i + 1])
      BY <1>1 DEF Continues
    <2> QED
      BY <2>1, <2>2 DEF Continues
  <1>4. Newest(Head(line), t) = Newest(a, line)
    BY <1>1, EmptySeq DEF Newest
  <1> QED
    BY <1>2, <1>3, <1>4

LEMMA ContinuesWrite ==
  ASSUME NEW a, NEW line \in Seq(Item), Continues(a, line),
         NEW b \in Item, Follows(Newest(a, line), b)
  PROVE  /\ Continues(a, line \o <<b>>)
         /\ Newest(a, line \o <<b>>) = b
         /\ line \o <<b>> \in Seq(Item) /\ Len(line \o <<b>>) = Len(line) + 1
         /\ \A i \in 1..Len(line) : (line \o <<b>>)[i] = line[i]
         /\ (line \o <<b>>)[Len(line) + 1] = b
  <1> DEFINE l == line \o <<b>>
  <1>1. /\ Len(line) \in Nat /\ l \in Seq(Item) /\ Len(l) = Len(line) + 1
        /\ \A i \in 1..Len(line) : l[i] = line[i]
        /\ l[Len(line) + 1] = b
    OBVIOUS
  <1>2. l # <<>> /\ (line = <<>> <=> Len(line) = 0)
    BY <1>1, EmptySeq
  <1> HIDE DEF l
  <1>3. Follows(a, l[1])
    <2>1. CASE line = <<>>
      BY <1>1, <1>2, <2>1 DEF Newest
    <2>2. CASE line # <<>>
      BY <1>1, <1>2, <2>2 DEF Continues
    <2> QED
      BY <2>1, <2>2
  <1>4. ASSUME NEW i \in 1..(Len(l) - 1) PROVE Follows(l[i], l[i + 1])
    <2>1. CASE i = Len(line)
      BY <1>1, <1>2, <2>1 DEF Newest
    <2>2. CASE i # Len(line)
      BY <1>1, <2>2 DEF Continues
    <2> QED
      BY <2>1, <2>2
  <1>5. Newest(a, l) = b
    BY <1>1, <1>2 DEF Newest
  <1> QED
    BY <1>1, <1>2, <1>3, <1>4, <1>5 DEF Continues, l

LEMMA ContinuesPrefix ==
  ASSUME NEW a, NEW line \in Seq(Item), Continues(a, line), NEW k \in 0..Len(line)
  PROVE  Continues(a, SubSeq(line, 1, k))
  <1> DEFINE s == SubSeq(line, 1, k)
  <1>1. /\ Len(line) \in Nat /\ s \in Seq(Item) /\ Len(s) = k
        /\ \A i \in 1..k : s[i] = line[i]
    BY SubSeqProperties, LenProperties
  <1>2. s # <<>> => k # 0 /\ line # <<>>
    BY <1>1, EmptySeq
  <1> HIDE DEF s
  <1> QED
    BY <1>1, <1>2 DEF Continues, s

\* A sending side that gives up writes CAN behind anything.
LEMMA ContinuesCans ==
  ASSUME NEW a, NEW line \in Seq(Item), Continues(a, line)
  PROVE  Continues(a, line \o Cans)
  <1> DEFINE l == line \o Cans
             n == Len(line)
  <1>1. Cans \in Seq(Item) /\ Len(Cans) = CanNumber /\ \A i \in 1..CanNumber : Cans[i] = Byte("CAN")
    BY CansLine, SizeAssumption DEF Cans
  <1> HIDE DEF Cans
  <1>2. /\ n \in Nat /\ l \in Seq(Item) /\ Len(l) = n + CanNumber
        /\ \A i \in 1..n : l[i] = line[i]
        /\ \A i \in 1..(n + CanNumber) : i > n => l[i] = Cans[i - n]
    <2>1. CanNumber \in Nat
      BY SizeAssumption
    <2> QED
      BY <1>1, <2>1
  <1>3. \A i \in 1..(n + CanNumber) : i > n => l[i] = Byte("CAN")
    BY <1>1, <1>2, SizeAssumption
  <1>4. \A c : Follows(c, Byte("CAN"))
    BY DEF Follows
  <1>5. line # <<>> => n # 0
    BY EmptySeq
  <1> HIDE DEF l
  <1>6. Follows(a, l[1])
    BY <1>2, <1>3, <1>4, <1>5, SizeAssumption DEF Continues
  <1>7. ASSUME NEW i \in 1..(Len(l) - 1) PROVE Follows(l[i], l[i + 1])
    <2>1. CASE i < n
      BY <1>2, <2>1 DEF Continues
    <2>2. CASE i >= n
      BY <1>2, <1>3, <1>4, <2>2, SizeAssumption
    <2> QED
      BY <1>2, <2>1, <2>2
  <1> QED
    BY <1>6, <1>7 DEF Continues, l

\* What is cleared of a line that only calls the receiving side leaves no gap.
LEMMA ContinuesCleared ==
  ASSUME NEW line \in Seq(Item), NEW left \in Uncleared(line),
         Continues(Byte("C"), line), \A i \in 1..Len(line) : line[i] \in Starts
  PROVE  /\ Continues(Byte("C"), left)
         /\ Newest(Byte("C"), left) \in {Byte("C"), Newest(Byte("C"), line)}
         /\ \A i \in 1..Len(left) : left[i] \in Starts
  <1>1. CASE left = <<>>
    BY <1>1 DEF Continues, Newest
  <1>2. CASE \E k \in 1..Len(line) : left = SubSeq(line, k, Len(line))
    <2>1. PICK k \in 1..Len(line) : left = SubSeq(line, k, Len(line))
      BY <1>2
    <2>2. /\ Len(line) \in Nat /\ left \in Seq(Item) /\ Len(left) = Len(line) - k + 1
          /\ \A i \in 1..Len(left) : left[i] = line[k + i - 1]
      BY <2>1, SubSeqProperties, LenProperties
    <2>3. left # <<>> /\ line # <<>>
      BY <2>2, EmptySeq
    <2>4. Newest(Byte("C"), left) = Newest(Byte("C"), line)
      BY <2>2, <2>3 DEF Newest
    <2>5. \A i \in 1..Len(left) : left[i] \in Starts
      BY <2>2
    <2>6. Follows(Byte("C"), left[1])
      BY <2>2, <2>5 DEF Follows, Starts
    <2>7. \A i \in 1..(Len(left) - 1) : Follows(left[i], left[i + 1])
      BY <2>2 DEF Continues
    <2> QED
      BY <2>4, <2>5, <2>6, <2>7 DEF Continues
  <1> QED
    BY <1>1, <1>2, Zenon DEF Uncleared, Suffixes

LEMMA AnsweredTail ==
  ASSUME NEW in \in Seq(Item), in # <<>>, Answered(in)
  PROVE  Answered(Tail(in))
  <1>1. /\ Len(in) \in Nat /\ Len(in) # 0
        /\ Tail(in) \in Seq(Item) /\ Len(Tail(in)) = Len(in) - 1
        /\ \A i \in 1..Len(Tail(in)) : Tail(in)[i] = in[i + 1]
    BY HeadTailProperties, LenProperties, EmptySeq
  <1> QED
    BY <1>1 DEF Answered

LEMMA AnsweredSuffix ==
  ASSUME NEW in \in Seq(Item), NEW left \in Uncleared(in), Answered(in)
  PROVE  Answered(left)
  <1>1. CASE left = <<>>
    BY <1>1 DEF Answered
  <1>2. CASE \E k \in 1..Len(in) : left = SubSeq(in, k, Len(in))
    <2>1. PICK k \in 1..Len(in) : left = SubSeq(in, k, Len(in))
      BY <1>2
    <2>2. /\ Len(in) \in Nat /\ left \in Seq(Item) /\ Len(left) = Len(in) - k + 1
          /\ \A i \in 1..Len(left) : left[i] = in[k + i - 1]
      BY <2>1, SubSeqProperties, LenProperties
    <2>3. ASSUME NEW i \in 1..Len(left), left[i].code = "ACK"
          PROVE  i < Len(left) /\ left[i + 1].code = "C"
      <3>1. (k + i - 1) \in 1..Len(in) /\ in[k + i - 1].code = "ACK"
        BY <2>2, <2>3
      <3>2. k + i - 1 < Len(in) /\ in[(k + i - 1) + 1].code = "C"
        BY <3>1 DEF Answered
      <3>3. i + 1 \in 1..Len(left) /\ k + (i + 1) - 1 = (k + i - 1) + 1
        BY <2>2, <3>2
      <3>4. left[i + 1] = in[(k + i - 1) + 1]
        BY <2>2, <3>3
      <3> QED
        BY <2>2, <3>2, <3>3, <3>4
    <2> QED
      BY <2>3 DEF Answered
  <1> QED
    BY <1>1, <1>2, Zenon DEF Uncleared, Suffixes

LEMMA AnsweredBoth ==
  ASSUME NEW in \in Seq(Item), NEW out \in Seq(Item), Answered(in), Answered(out)
  PROVE  Answered(in \o out)
  <1> DEFINE l == in \o out
             n == Len(in)
  <1>1. /\ n \in Nat /\ Len(out) \in Nat /\ Len(l) = n + Len(out)
        /\ \A i \in 1..n : l[i] = in[i]
        /\ \A i \in 1..Len(l) : i > n => l[i] = out[i - n]
    OBVIOUS
  <1> HIDE DEF l, n
  <1>2. ASSUME NEW i \in 1..Len(l), l[i].code = "ACK"
        PROVE  i < Len(l) /\ l[i + 1].code = "C"
    <2>1. CASE i <= n
      <3>1. i \in 1..Len(in) /\ in[i].code = "ACK"
        BY <1>1, <1>2, <2>1 DEF n
      <3>2. i < n /\ in[i + 1].code = "C"
        BY <3>1 DEF Answered, n
      <3>3. i + 1 \in 1..n
        BY <1>1, <3>1, <3>2
      <3> QED
        BY <1>1, <3>2, <3>3
    <2>2. CASE i > n
      <3>1. (i - n) \in 1..Len(out) /\ out[i - n].code = "ACK"
        BY <1>1, <1>2, <2>2
      <3>2. i - n < Len(out) /\ out[i - n + 1].code = "C"
        BY <3>1 DEF Answered
      <3> QED
        BY <1>1, <2>2, <3>1, <3>2
    <2> QED
      BY <1>1, <2>1, <2>2
  <1> QED
    BY <1>2 DEF Answered, l
-----------------------------------------------------------------------------
(***************************************************************************)
(* A clean line                                                            *)
(***************************************************************************)
\* A slot takes what has come first, and waits for it as long as anything is
\* under way in either direction.
LEMMA ReadsFirst ==
  ASSUME OnTime, NEW m, NEW in, in = toRx \/ in = toTx, toRx # <<>> \/ toTx # <<>>,
         NEW r \in ReceivePacket(m, in)
  PROVE  in # <<>> /\ r = [pkt |-> Head(in), rest |-> Tail(in)]
  BY DEF ReceivePacket, Quiet, OnTime

\* What clear() of the port leaves.
LEMMA ClearsAll ==
  ASSUME OnTime
  PROVE  /\ \A in : \A left \in Uncleared(in) : left = <<>>
         /\ \A out, unsent : \A left \in Sent(out, unsent) : left = out
  BY DEF Uncleared, Sent

\* The first slot that waits neither repeats nor gives up.
LEMMA FirstWait ==
  ASSUME TimeDivide # 0, NEW m, m.time = 1
  PROVE  ~Expired(m) /\ ~Due(m)
  <1>1. TimeDivide + 1 \in Nat /\ TimeDivide + 1 > 1 /\ TimeMax \in Nat
    BY TimeAssumption
  <1>2. \A n \in Nat : n > 1 => 1 \div n = 0 /\ 1 % n = 1
    BY SMT
  <1> QED
    BY <1>1, <1>2 DEF Expired, Due

LEMMA BeginsHead ==
  ASSUME NEW line, NEW item, Begins(line, item)
  PROVE  line # <<>> /\ Head(line) = item
  BY DEF Begins

LEMMA BeginsLonger ==
  ASSUME NEW line \in Seq(Item), NEW more \in Seq(Item), NEW item, Begins(line, item)
  PROVE  /\ Begins(line \o more, item)
         /\ Tail(line \o more) = Tail(line) \o more
  <1>1. Len(line) \in Nat /\ Len(line) # 0 /\ line[1] = item
    BY LenProperties, EmptySeq DEF Begins
  <1>2. Len(line \o more) = Len(line) + Len(more) /\ (line \o more)[1] = line[1]
    BY <1>1
  <1>3. line \o more # <<>>
    BY <1>1, <1>2
  <1>4. Tail(line \o more) = Tail(line) \o more
    BY <1>1
  <1> QED
    BY <1>1, <1>2, <1>3, <1>4 DEF Begins

LEMMA CansBegin == Begins(Cans, Can)
  <1>1. CanNumber \in Nat \ {0}
    BY SizeAssumption
  <1>2. Cans \in Seq(Item) /\ Len(Cans) = CanNumber /\ Cans[1] = Can
    BY <1>1, CansLine DEF Cans, Can
  <1> QED
    BY <1>1, <1>2, EmptySeq DEF Begins

\* What is written is put behind what is under way.
LEMMA JoinsTwo ==
  ASSUME NEW a \in Item, NEW b \in Item
  PROVE  <<a>> \o <<b>> = <<a, b>>
  <1> DEFINE s == <<a>> \o <<b>>
             t == <<a, b>>
  <1>1. <<a>> \in Seq(Item) /\ <<b>> \in Seq(Item)
    BY OneItem
  <1>2. s \in Seq(Item) /\ Len(s) = 2 /\ s[1] = a /\ s[2] = b
    BY <1>1
  <1>3. t \in Seq(Item) /\ Len(t) = 2 /\ t[1] = a /\ t[2] = b
    <2> HIDE DEF Item
    <2> QED
      OBVIOUS
  <1> HIDE DEF s, t
  <1>4. s = t
    BY <1>2, <1>3, SeqEqual
  <1> QED
    BY <1>4 DEF s, t

LEMMA JoinsThree ==
  ASSUME NEW a \in Item, NEW b \in Item, NEW c \in Item
  PROVE  <<a>> \o <<b, c>> = <<a, b, c>>
  <1> DEFINE s == <<a>> \o <<b, c>>
             t == <<a, b, c>>
  <1> HIDE DEF Item
  <1>1. <<a>> \in Seq(Item) /\ <<b, c>> \in Seq(Item) /\ Len(<<b, c>>) = 2
        /\ <<b, c>>[1] = b /\ <<b, c>>[2] = c
    BY OneItem
  <1>2. s \in Seq(Item) /\ Len(s) = 3 /\ s[1] = a /\ s[2] = b /\ s[3] = c
    BY <1>1
  <1>3. t \in Seq(Item) /\ Len(t) = 3 /\ t[1] = a /\ t[2] = b /\ t[3] = c
    OBVIOUS
  <1> HIDE DEF s, t
  <1>4. s = t
    BY <1>2, <1>3, SeqEqual
  <1> QED
    BY <1>4 DEF s, t

LEMMA JoinsFour ==
  ASSUME NEW a \in Item, NEW b \in Item, NEW c \in Item, NEW d \in Item
  PROVE  <<a, b>> \o <<c, d>> = <<a, b, c, d>>
  <1> DEFINE s == <<a, b>> \o <<c, d>>
             t == <<a, b, c, d>>
  <1> HIDE DEF Item
  <1>1. /\ <<a, b>> \in Seq(Item) /\ <<a, b>>[1] = a /\ <<a, b>>[2] = b
        /\ <<c, d>> \in Seq(Item) /\ <<c, d>>[1] = c /\ <<c, d>>[2] = d
        /\ Len(<<a, b>>) = 2 /\ Len(<<c, d>>) = 2
    OBVIOUS
  <1>2. s \in Seq(Item) /\ Len(s) = 4 /\ s[1] = a /\ s[2] = b /\ s[3] = c /\ s[4] = d
    BY <1>1
  <1>3. t \in Seq(Item) /\ Len(t) = 4 /\ t[1] = a /\ t[2] = b /\ t[3] = c /\ t[4] = d
    OBVIOUS
  <1> HIDE DEF s, t
  <1>4. s = t
    BY <1>2, <1>3, SeqEqual
  <1> QED
    BY <1>4 DEF s, t

\* The short lines of a clean transfer.
LEMMA ShortLines ==
  /\ \A a : Tail(<<a>>) = <<>> /\ <<>> \o <<a>> = <<a>> /\ <<a>> # <<>>
  /\ \A a, b : Tail(<<a, b>>) = <<b>> /\ <<>> \o <<a, b>> = <<a, b>> /\ <<a, b>> # <<>>
  /\ \A a, b, c : Tail(<<a, b, c>>) = <<b, c>> /\ <<a, b, c>> # <<>>
  /\ \A a, b, c, d : Tail(<<a, b, c, d>>) = <<b, c, d>> /\ <<a, b, c, d>> # <<>>
  OBVIOUS

LEMMA ShortBegins ==
  /\ \A a : Begins(<<a>>, a)
  /\ \A a, b : Begins(<<a, b>>, a)
  /\ \A a, b, c : Begins(<<a, b, c>>, a)
  /\ \A a, b, c, d : Begins(<<a, b, c, d>>, a)
  BY DEF Begins

\* The bytes a side answers with, and the headers.
LEMMA SignalItems ==
  /\ Call \in Item /\ Ack \in Item /\ Nak \in Item /\ Eot \in Item /\ Can \in Item
  /\ Header("file") \in Item /\ Header("null") \in Item
  BY ByteItem, HeaderItem DEF Call, Ack, Nak, Eot, Can, Codes

LEMMA SignalJoins ==
  /\ <<Call>> \o <<Header("file")>> = <<Call, Header("file")>>
  /\ <<Eot>> \o <<Eot>> = <<Eot, Eot>>
  /\ <<Eot>> \o <<Header("null")>> = <<Eot, Header("null")>>
  /\ <<Call>> \o <<Nak>> = <<Call, Nak>>
  /\ <<Nak>> \o <<Ack, Call>> = <<Nak, Ack, Call>>
  /\ <<Call>> \o <<Ack, Call>> = <<Call, Ack, Call>>
  /\ <<Ack, Call>> \o <<Ack, Call>> = <<Ack, Call, Ack, Call>>
  BY SignalItems, JoinsTwo, JoinsThree, JoinsFour
-----------------------------------------------------------------------------
(***************************************************************************)
(* Any line: what is on it, whatever happened to it                        *)
(***************************************************************************)
LEMMA RangeOfJoin ==
  ASSUME NEW a \in Seq(Item), NEW b \in Seq(Item)
  PROVE  Range(a \o b) \subseteq Range(a) \cup Range(b)
  <1> DEFINE l == a \o b
             n == Len(a)
  <1>1. /\ n \in Nat /\ Len(b) \in Nat /\ l \in Seq(Item) /\ Len(l) = n + Len(b)
        /\ \A i \in 1..n : l[i] = a[i]
        /\ \A i \in 1..Len(l) : i > n => l[i] = b[i - n] /\ i - n \in 1..Len(b)
    OBVIOUS
  <1>2. DOMAIN l = 1..Len(l) /\ DOMAIN a = 1..n /\ DOMAIN b = 1..Len(b)
    BY <1>1
  <1> HIDE DEF l, n
  <1>3. ASSUME NEW i \in 1..Len(l) PROVE l[i] \in Range(a) \cup Range(b)
    <2>1. i \in 1..n \/ i > n
      BY <1>1, <1>3
    <2> QED
      BY <1>1, <1>2, <1>3, <2>1 DEF Range
  <1>4. Range(l) \subseteq Range(a) \cup Range(b)
    BY <1>2, <1>3 DEF Range
  <1> QED
    BY <1>4 DEF l

LEMMA RangeOfPart ==
  ASSUME NEW a \in Seq(Item), NEW i \in 1..(Len(a) + 1), NEW j \in 0..Len(a)
  PROVE  Range(SubSeq(a, i, j)) \subseteq Range(a)
  <1>1. /\ Len(a) \in Nat /\ DOMAIN a = 1..Len(a)
        /\ DOMAIN SubSeq(a, i, j) = 1..Len(SubSeq(a, i, j))
        /\ \A k \in 1..Len(SubSeq(a, i, j)) :
             SubSeq(a, i, j)[k] = a[i + k - 1] /\ i + k - 1 \in 1..Len(a)
    BY SubSeqProperties, LenProperties
  <1> QED
    BY <1>1 DEF Range

LEMMA RangeOfTail ==
  ASSUME NEW a \in Seq(Item), a # <<>>
  PROVE  Range(Tail(a)) \subseteq Range(a) /\ Head(a) \in Range(a)
  <1>1. /\ Len(a) \in Nat /\ Len(a) # 0 /\ DOMAIN a = 1..Len(a) /\ Head(a) = a[1]
        /\ DOMAIN Tail(a) = 1..(Len(a) - 1)
        /\ \A i \in 1..(Len(a) - 1) : Tail(a)[i] = a[i + 1]
    BY HeadTailProperties, LenProperties, EmptySeq
  <1> QED
    BY <1>1 DEF Range

LEMMA RangeOfNone == Range(<<>>) = {}
  BY DEF Range

LEMMA RangeOfOne ==
  ASSUME NEW x
  PROVE  Range(<<x>>) = {x}
  BY DEF Range

LEMMA RangeOfCans == Range(Cans) \subseteq {Byte("CAN")}
  BY DEF Range, Cans

\* A slot takes an item off the line, clear() of the port only ever drops some.
LEMMA RangeOfRest ==
  ASSUME NEW m, NEW in \in Seq(Item), NEW r \in ReceivePacket(m, in)
  PROVE  /\ Range(r.rest) \subseteq Range(in)
         /\ r.pkt = Nothing \/ r.pkt \in Range(in)
  <1>1. CASE in # <<>> /\ r = [pkt |-> Head(in), rest |-> Tail(in)]
    <2>1. r.pkt = Head(in) /\ r.rest = Tail(in)
      BY <1>1
    <2> QED
      BY <1>1, <2>1, RangeOfTail
  <1>2. CASE r = [pkt |-> Nothing, rest |-> in]
    <2>1. r.pkt = Nothing /\ r.rest = in
      BY <1>2
    <2> QED
      BY <2>1
  <1> QED
    BY <1>1, <1>2 DEF ReceivePacket

LEMMA RangeOfCleared ==
  ASSUME NEW in \in Seq(Item), NEW left \in Uncleared(in)
  PROVE  Range(left) \subseteq Range(in)
  <1>1. CASE left = <<>>
    BY <1>1, RangeOfNone
  <1>2. CASE \E k \in 1..Len(in) : left = SubSeq(in, k, Len(in))
    <2>1. Len(in) \in Nat
      BY LenProperties
    <2> QED
      BY <1>2, <2>1, RangeOfPart
  <1> QED
    BY <1>1, <1>2, Zenon DEF Uncleared, Suffixes

LEMMA RangeOfSent ==
  ASSUME NEW out \in Seq(Item), NEW unsent \in Seq(Item), NEW sent \in Sent(out, unsent)
  PROVE  Range(sent) \subseteq Range(out) \cup Range(unsent)
  <1> DEFINE l == out \o unsent
  <1>1. CASE sent = out
    BY <1>1
  <1>2. CASE sent \in Prefixes(l)
    <2>1. l \in Seq(Item) /\ Len(l) \in Nat
      BY LenProperties
    <2>2. Range(l) \subseteq Range(out) \cup Range(unsent)
      BY RangeOfJoin
    <2> HIDE DEF l
    <2>3. PICK k \in 0..Len(l) : sent = SubSeq(l, 1, k)
      BY <1>2 DEF Prefixes
    <2>4. 1 \in 1..(Len(l) + 1)
      BY <2>1
    <2> QED
      BY <2>1, <2>2, <2>3, <2>4, RangeOfPart
  <1> QED
    BY <1>1, <1>2 DEF Sent

LEMMA RangeOfHit ==
  ASSUME NEW line \in Seq(Item), NEW i \in 1..Len(line), NEW hit \in Hit(line, i)
  PROVE  Range(hit) \subseteq Range(line) \cup {Damaged(pkt) : pkt \in Range(line)}
  <1>1. Len(line) \in Nat /\ DOMAIN line = 1..Len(line)
    BY LenProperties
  <1>2. CASE hit = RemoveAt(line, i)
    <2> DEFINE a == SubSeq(line, 1, i - 1)
               b == SubSeq(line, i + 1, Len(line))
    <2>1. a \in Seq(Item) /\ b \in Seq(Item)
      BY SubSeqProperties
    <2>2. Range(a) \subseteq Range(line) /\ Range(b) \subseteq Range(line)
      <3>1. /\ 1 \in 1..(Len(line) + 1) /\ i - 1 \in 0..Len(line)
            /\ i + 1 \in 1..(Len(line) + 1) /\ Len(line) \in 0..Len(line)
        BY <1>1
      <3> QED
        BY <3>1, RangeOfPart
    <2>3. hit = a \o b
      BY <1>2 DEF RemoveAt
    <2> HIDE DEF a, b
    <2>4. Range(a \o b) \subseteq Range(a) \cup Range(b)
      BY <2>1, RangeOfJoin
    <2> QED
      BY <2>2, <2>3, <2>4
  <1>3. CASE hit = [line EXCEPT ![i] = Damaged(@)]
    <2>1. DOMAIN hit = 1..Len(line)
      BY <1>1, <1>3
    <2>2. \A k \in 1..Len(line) : hit[k] = line[k] \/ hit[k] = Damaged(line[k])
      BY <1>1, <1>3
    <2> QED
      BY <1>1, <2>1, <2>2 DEF Range
  <1> QED
    BY <1>2, <1>3 DEF Hit
-----------------------------------------------------------------------------
(***************************************************************************)
(* The number of a block and its place                                     *)
(***************************************************************************)
LEMMA BlockOfFields ==
  ASSUME NEW n \in BlockNumbers
  PROVE  /\ n \in Numbers /\ n # 0 /\ n <= Blocks - 1
         /\ BlockOf(n) \in Data /\ BlockOf(n).blk = n /\ BlockOf(n).pos = PlaceOf(n)
         /\ After(BlockOf(n)) = Upto(n) /\ Upto(n) \in 1..FileSize
  <1> DEFINE p == PlaceOf(n)
             b == BlockOf(n)
  <1>1. /\ n \in Nat /\ n >= 1 /\ n <= Blocks - 1 /\ p < FileSize
        /\ FileSize \in Nat /\ StxSize \in Nat \ {0} /\ SohSize \in Nat \ {0}
        /\ SohSize <= StxSize /\ Blocks \in Nat
    BY SizeAssumption, BlockAssumption DEF BlockNumbers
  <1>2. p \in Nat /\ n * StxSize = p + StxSize
    BY <1>1 DEF PlaceOf
  <1>3. n \in Numbers
    BY <1>1 DEF Numbers
  <1>4. b = Block(n, p)
    BY DEF BlockOf
  <1> HIDE DEF p, b
  <1>5. p \in 0..(FileSize - 1)
    BY <1>1, <1>2 DEF p
  <1>6. b \in Data
    BY <1>3, <1>4, <1>5 DEF Data
  <1>7. b.blk = n /\ b.pos = p /\ b.code = IF FileSize - p > SohSize THEN "STX" ELSE "SOH"
    BY <1>4 DEF Block
  <1>8. Length(b) = IF FileSize - p > SohSize THEN StxSize ELSE SohSize
    BY <1>7 DEF Length
  <1>9. After(b) = Upto(n)
    BY <1>1, <1>2, <1>5, <1>7, <1>8 DEF After, Upto, Smaller
  <1>10. Upto(n) \in 1..FileSize
    BY <1>1, <1>2, <1>5 DEF Upto, Smaller
  <1> QED
    BY <1>1, <1>3, <1>6, <1>7, <1>9, <1>10 DEF p, b

LEMMA NextBlockOf ==
  ASSUME Short, NEW n \in BlockNumbers, Upto(n) # FileSize
  PROVE  n + 1 \in BlockNumbers /\ NextBlk(n) = n + 1 /\ PlaceOf(n + 1) = Upto(n)
  <1>1. /\ n \in Nat /\ n >= 1 /\ n <= Blocks - 1
        /\ FileSize \in Nat /\ StxSize \in Nat \ {0} /\ Blocks \in Nat
    BY SizeAssumption, BlockAssumption DEF BlockNumbers
  <1>2. n * StxSize < FileSize /\ Upto(n) = n * StxSize
    BY <1>1 DEF Upto, Smaller
  <1>3. n # Blocks - 1
    BY <1>1, <1>2 DEF Short
  <1>4. n + 1 \in 1..(Blocks - 1) /\ PlaceOf(n + 1) = n * StxSize
    BY <1>1, <1>3 DEF PlaceOf
  <1>5. NextBlk(n) = n + 1
    BY <1>1, <1>4, SMT DEF NextBlk
  <1> QED
    BY <1>2, <1>4, <1>5 DEF BlockNumbers

\* The number of the last of all blocks is followed by that of a header.
LEMMA NextBlockTaken ==
  ASSUME NEW n \in BlockNumbers, NextBlk(n) \in BlockNumbers
  PROVE  NextBlk(n) = n + 1 /\ PlaceOf(n + 1) = n * StxSize /\ Upto(n) = n * StxSize
  <1>1. /\ n \in Nat /\ n >= 1 /\ n <= Blocks - 1 /\ NextBlk(n) >= 1
        /\ FileSize \in Nat /\ StxSize \in Nat \ {0} /\ Blocks \in Nat
        /\ PlaceOf(NextBlk(n)) < FileSize
    BY SizeAssumption, BlockAssumption DEF BlockNumbers
  <1>2. n # Blocks - 1
    BY <1>1, SMT DEF NextBlk
  <1>3. NextBlk(n) = n + 1
    BY <1>1, <1>2, SMT DEF NextBlk
  <1>4. PlaceOf(n + 1) = n * StxSize
    BY <1>1 DEF PlaceOf
  <1> QED
    BY <1>1, <1>3, <1>4 DEF Upto, Smaller

LEMMA PlacedBlock ==
  ASSUME NEW pkt, Placed(pkt), IsPacket(pkt), pkt.good, pkt.blk # 0
  PROVE  pkt.blk \in BlockNumbers /\ pkt = BlockOf(pkt.blk)
  <1>1. Header("file").blk = 0 /\ Header("null").blk = 0
    BY DEF Header
  <1> QED
    BY <1>1, BlockOfFields DEF Placed

LEMMA PlacedHeader ==
  ASSUME NEW pkt, Placed(pkt), IsHeader(pkt)
  PROVE  pkt \in {Header("file"), Header("null")}
  <1>1. IsPacket(pkt) /\ pkt.good /\ pkt.blk = 0
    BY DEF IsHeader, IsBlock, IsPacket
  <1> QED
    BY <1>1, BlockOfFields DEF Placed

\* What the sending side puts on the line besides.
LEMMA PlacedItems ==
  /\ Placed(Header("file")) /\ Placed(Header("null"))
  /\ \A c \in {"C", "EOT", "CAN", "NOISE"} : Placed(Byte(c)) /\ Byte(c).body # "data"
  /\ Header("file").body # "data" /\ Header("null").body # "data"
  /\ \A n \in BlockNumbers : Placed(BlockOf(n))
  <1>1. Header("file").body # "data" /\ Header("null").body # "data"
    BY DEF Header
  <1>2. \A c \in {"C", "EOT", "CAN", "NOISE"} : Placed(Byte(c)) /\ Byte(c).body # "data"
    BY DEF Placed, IsPacket, Byte
  <1> QED
    BY <1>1, <1>2 DEF Placed

LEMMA PlacedDamaged ==
  ASSUME NEW pkt \in Item
  PROVE  Placed(Damaged(pkt)) /\ (pkt.body # "data" => Damaged(pkt).body # "data")
  BY DEF Damaged, Placed, IsPacket, Byte, Item
=============================================================================

------------------------- MODULE PacketReaderProofs -------------------------
(***************************************************************************)
(* Proofs of PacketReader: what receivePacket reads, byte by byte, is a    *)
(* line of items.                                                          *)
(***************************************************************************)
EXTENDS PacketReader, TLAPS

Looks == Packets \cup {"ACK"}
Byte  == [looks : Looks, of : Nat, nth : Nat]

\* The bytes that are not in a packet returned yet: those held in rxBuffer, and
\* behind them the line.
Held   == IF code = "none" THEN 0 ELSE rxLength
Left   == Held + Len(line)
Unread == [k \in 1..Left |-> IF k <= Held THEN rxBuffer[k] ELSE line[k - Held]]

Types ==
  /\ written \in Seq(Item) /\ line \in Seq(Byte) /\ read \in Seq(Seq(Byte))
  /\ code \in Packets \cup {"none"} /\ rxLength \in Nat /\ lost \in 0..MaxLost
  /\ rxBuffer \in [1..StxLength -> Byte \cup {NoByte}]

\* A packet under way began with its code and is not complete.
UnderWay ==
  code # "none" => /\ rxLength \in 1..(Length(code) - 1)
                   /\ rxBuffer[1].looks = code
                   /\ \A k \in 1..rxLength : rxBuffer[k] \in Byte
-----------------------------------------------------------------------------
(***************************************************************************)
(* n bytes u of the items w                                                *)
(***************************************************************************)
LengthOf(b, w) == Length(w[b.of].code)

\* Each is a byte of an item; the first of an item is its code.
Sound(u, n, w) ==
  \A k \in 1..n : /\ u[k] \in Byte /\ u[k].of \in 1..Len(w)
                  /\ u[k].nth \in 1..LengthOf(u[k], w)
                  /\ u[k].nth = 1 => u[k].looks = w[u[k].of].code

\* They come as they were written.
Sorted(u, n) ==
  \A j, k \in 1..n :
    j < k => u[j].of < u[k].of \/ (u[j].of = u[k].of /\ u[j].nth < u[k].nth)

\* They are those of all items but the first r.
InPlace(u, n, w, k) ==
  \A i \in 1..LengthOf(u[k], w) :
    LET m == k - u[k].nth + i
    IN  m \in 1..n /\ u[m].of = u[k].of /\ u[m].nth = i

Complete(u, n, w, r) ==
  /\ r <= Len(w)
  /\ n = 0 => r = Len(w)
  /\ n > 0 => /\ u[1].of = r + 1 /\ u[1].nth = 1
              /\ u[n].of = Len(w) /\ u[n].nth = LengthOf(u[n], w)
  /\ \A k \in 1..n : InPlace(u, n, w, k)
  /\ \A k \in 1..(n - 1) :
       u[k].nth = LengthOf(u[k], w) => u[k + 1].of = u[k].of + 1 /\ u[k + 1].nth = 1

\* The t bytes v are u with the o-th item, i, behind them.
Grown(u, v, n, t, i, o) ==
  /\ t = n + Length(i.code)
  /\ \A k \in 1..n : v[k] = u[k]
  /\ \A k \in 1..Length(i.code) : v[n + k] = Bytes(i, o)[k]
-----------------------------------------------------------------------------
\* The number of the item of w that a packet is (Genuine), 0 if it is none.
NumberOf(p, w) ==
  IF Len(p) = LengthOf(p[1], w) /\ \A k \in DOMAIN p : p[k].of = p[1].of /\ p[k].nth = k
  THEN p[1].of ELSE 0

\* What was read begins with a byte of an item, and if it is one, no byte that is
\* unread is of it or of one before it.
Past(p, w, u, n) ==
  /\ p # <<>> /\ p[1].of \in 1..Len(w)
  /\ \A k \in 1..n : NumberOf(p, w) < u[k].of
ReadInv == \A r \in DOMAIN read : Past(read[r], written, Unread, Left)

\* While no byte is missing, all items were read, or are unread.
Exact ==
  lost = 0 => /\ \A r \in DOMAIN read : NumberOf(read[r], written) = r
              /\ Complete(Unread, Left, written, Len(read))

IInv ==
  /\ Types /\ UnderWay
  /\ Sound(Unread, Left, written) /\ Sorted(Unread, Left)
  /\ ReadInv /\ Exact
-----------------------------------------------------------------------------
(***************************************************************************)
(* Bytes                                                                   *)
(***************************************************************************)
LEMMA LengthFacts ==
  ASSUME NEW c \in Looks
  PROVE  /\ Length(c) \in Nat \ {0} /\ Length(c) <= StxLength /\ StxLength \in Nat
         /\ Length(c) > 1 => c \in Packets
  BY ReaderAssumption DEF Looks, Packets, Length

LEMMA CodeFacts ==
  ASSUME NEW w \in Seq(Item), NEW o \in 1..Len(w)
  PROVE  w[o].code \in Looks
  <1>1. w[o] \in Item
    OBVIOUS
  <1> QED BY <1>1 DEF Item, Looks

\* An item that is written is laid out whole.
LEMMA BytesFacts ==
  ASSUME NEW i \in Item, NEW o \in Nat, NEW k \in 1..Length(i.code)
  PROVE  /\ Bytes(i, o)[k] \in Byte /\ Bytes(i, o)[k].of = o /\ Bytes(i, o)[k].nth = k
         /\ k = 1 => Bytes(i, o)[k].looks = i.code
  <1>1. i.code \in Looks /\ i.data \in Looks
    BY DEF Item, Looks
  <1>2. k \in Nat /\ Length(i.code) \in Nat
    BY <1>1, LengthFacts
  <1> QED BY <1>1, <1>2 DEF Bytes, Byte

\* Leaving out bytes keeps what was said of the others.
LEMMA Thinned ==
  ASSUME NEW u, NEW v, NEW w, NEW n \in Nat, NEW from \in Nat \ {0}, NEW d \in Nat, d <= n,
         Sound(u, n, w), Sorted(u, n),
         \A k \in 1..(n - d) : v[k] = IF k < from THEN u[k] ELSE u[k + d]
  PROVE  Sound(v, n - d, w) /\ Sorted(v, n - d)
  <1> DEFINE At(k) == IF k < from THEN k ELSE k + d
  <1>1. ASSUME NEW k \in 1..(n - d)
        PROVE  At(k) \in 1..n /\ v[k] = u[At(k)]
    BY <1>1
  <1>2. ASSUME NEW j \in 1..(n - d), NEW k \in 1..(n - d), j < k
        PROVE  At(j) < At(k)
    BY <1>2
  <1> HIDE DEF At
  <1>3. Sound(v, n - d, w)
    BY <1>1 DEF Sound, LengthOf
  <1>4. Sorted(v, n - d)
    BY <1>1, <1>2 DEF Sorted
  <1> QED BY <1>3, <1>4

\* So does an item written behind them.
LEMMA Lengthened ==
  ASSUME NEW u, NEW v, NEW w \in Seq(Item), NEW n \in Nat, NEW t \in Nat, NEW i \in Item,
         Sound(u, n, w), Sorted(u, n),
         Grown(u, v, n, t, i, Len(w) + 1)
  PROVE  Sound(v, t, Append(w, i)) /\ Sorted(v, t)
  <1>0. /\ t = n + Length(i.code)
        /\ \A k \in 1..n : v[k] = u[k]
        /\ \A k \in 1..Length(i.code) : v[n + k] = Bytes(i, Len(w) + 1)[k]
    BY DEF Grown
  <1> USE <1>0
  <1>1. PICK l \in Nat : l = Length(i.code) /\ l > 0
    BY LengthFacts DEF Item, Looks
  <1>2. PICK m \in Nat : m = Len(w)
    OBVIOUS
  <1>3. PICK x : x = Append(w, i)
    OBVIOUS
  <1>4. Len(x) = m + 1 /\ x[m + 1] = i /\ \A j \in 1..m : x[j] = w[j]
    BY <1>2, <1>3
  <1>5. ASSUME NEW k \in 1..n
        PROVE  /\ v[k] \in Byte /\ v[k].of \in 1..m /\ v[k].nth \in 1..LengthOf(v[k], x)
               /\ v[k].nth = 1 => v[k].looks = x[v[k].of].code
    BY <1>2, <1>4 DEF Sound, LengthOf
  <1>6. ASSUME NEW k \in (n + 1)..(n + l)
        PROVE  /\ v[k] \in Byte /\ v[k].of = m + 1 /\ v[k].nth = k - n
               /\ v[k].nth = 1 => v[k].looks = x[v[k].of].code
               /\ LengthOf(v[k], x) = l
    <2>1. k - n \in 1..l /\ k = n + (k - n)
      BY <1>1
    <2>2. v[k] = Bytes(i, m + 1)[k - n]
      BY <2>1, <1>1, <1>2
    <2> QED BY <2>1, <2>2, <1>1, <1>2, <1>4, BytesFacts DEF LengthOf
  <1>7. \A k \in 1..(n + l) : k \in 1..n \/ k \in (n + 1)..(n + l)
    OBVIOUS
  <1>8. Sound(v, n + l, x)
    <2> SUFFICES ASSUME NEW k \in 1..(n + l)
                 PROVE  /\ v[k] \in Byte /\ v[k].of \in 1..(m + 1)
                        /\ v[k].nth \in 1..LengthOf(v[k], x)
                        /\ v[k].nth = 1 => v[k].looks = x[v[k].of].code
      BY <1>4 DEF Sound
    <2>1. CASE k \in 1..n
      BY <2>1, <1>2, <1>5
    <2>2. CASE k \in (n + 1)..(n + l)
      BY <2>2, <1>1, <1>2, <1>6
    <2> QED BY <2>1, <2>2, <1>7
  <1>9. Sorted(v, n + l)
    <2> SUFFICES ASSUME NEW j \in 1..(n + l), NEW k \in 1..(n + l), j < k
                 PROVE  v[j].of < v[k].of \/ (v[j].of = v[k].of /\ v[j].nth < v[k].nth)
      BY DEF Sorted
    <2>1. CASE k \in 1..n
      BY <2>1 DEF Sorted
    <2>2. CASE j \in 1..n /\ k \in (n + 1)..(n + l)
      BY <2>2, <1>5, <1>6, <1>2
    <2>3. CASE j \in (n + 1)..(n + l) /\ k \in (n + 1)..(n + l)
      BY <2>3, <1>6
    <2> QED BY <2>1, <2>2, <2>3, <1>7
  <1> QED BY <1>1, <1>3, <1>8, <1>9

\* The first item that is unread stands whole at the beginning.
LEMMA FirstItem ==
  ASSUME NEW u, NEW w \in Seq(Item), NEW n \in Nat \ {0}, NEW r \in Nat,
         Sound(u, n, w), Complete(u, n, w, r)
  PROVE  /\ LengthOf(u[1], w) \in 1..n /\ u[1].looks = w[u[1].of].code
         /\ \A k \in 1..LengthOf(u[1], w) : u[k].of = r + 1 /\ u[k].nth = k
  <1>1. /\ 1 \in 1..n /\ u[1].of = r + 1 /\ u[1].nth = 1 /\ u[1].looks = w[u[1].of].code
        /\ u[1].of \in 1..Len(w)
    BY DEF Sound, Complete
  <1>2. w[u[1].of].code \in Looks
    BY <1>1, CodeFacts
  <1>3. PICK l \in Nat : l = LengthOf(u[1], w) /\ l > 0
    BY <1>2, LengthFacts DEF LengthOf
  <1>4. InPlace(u, n, w, 1)
    BY <1>1 DEF Complete
  <1>5. \A k \in 1..l : k \in 1..n /\ u[k].of = r + 1 /\ u[k].nth = k
    BY <1>1, <1>3, <1>4 DEF InPlace
  <1>6. l \in 1..n
    BY <1>3, <1>5
  <1> QED BY <1>1, <1>3, <1>5, <1>6

\* Without it the bytes are those of the items after it.
LEMMA CompleteTaken ==
  ASSUME NEW u, NEW v, NEW w \in Seq(Item), NEW n \in Nat \ {0}, NEW r \in Nat, NEW l \in 1..n,
         Sound(u, n, w), Sorted(u, n), Complete(u, n, w, r),
         l = LengthOf(u[1], w),
         \A k \in 1..(n - l) : v[k] = u[k + l]
  PROVE  Complete(v, n - l, w, r + 1)
  <1>1. \A k \in 1..l : u[k].of = r + 1 /\ u[k].nth = k
    BY FirstItem
  <1>2. u[1].of \in 1..Len(w) /\ Len(w) \in Nat
    BY DEF Sound
  <1>3. LengthOf(u[l], w) = l /\ u[l].of = r + 1 /\ u[l].nth = l /\ u[1].of = r + 1
    BY <1>1 DEF LengthOf
  <1>4. r + 1 <= Len(w)
    BY <1>2, <1>3
  <1>5. n - l = 0 => r + 1 = Len(w)
    BY <1>3 DEF Complete
  <1>6. ASSUME n - l > 0
        PROVE  /\ v[1].of = r + 1 + 1 /\ v[1].nth = 1
               /\ v[n - l].of = Len(w) /\ v[n - l].nth = LengthOf(v[n - l], w)
    <2>1. u[l + 1].of = u[l].of + 1 /\ u[l + 1].nth = 1
      BY <1>3, <1>6 DEF Complete
    <2>2. v[1] = u[l + 1] /\ v[n - l] = u[n]
      BY <1>6
    <2> QED BY <1>3, <2>1, <2>2 DEF Complete
  <1>7. ASSUME NEW k \in 1..(n - l)
        PROVE  InPlace(v, n - l, w, k)
    <2>1. k + l \in 1..n /\ v[k] = u[k + l]
      OBVIOUS
    <2>2. /\ u[k + l].of \in 1..Len(w) /\ u[k + l].nth \in 1..LengthOf(u[k + l], w)
          /\ InPlace(u, n, w, k + l)
      BY <2>1 DEF Sound, Complete
    <2>3. u[k + l].of # r + 1
      <3> SUFFICES ASSUME u[k + l].of = r + 1
                   PROVE  FALSE
        OBVIOUS
      <3>1. LengthOf(u[k + l], w) = l
        BY <1>3 DEF LengthOf
      <3>2. l < k + l /\ l \in 1..n
        OBVIOUS
      <3>3. u[l].nth < u[k + l].nth
        BY <1>3, <2>1, <3>2 DEF Sorted
      <3> QED BY <1>3, <2>2, <3>1, <3>3
    <2>4. PICK g \in Nat : g = LengthOf(u[k + l], w)
      <3>1. w[u[k + l].of].code \in Looks
        BY <2>2, CodeFacts
      <3> QED BY <3>1, LengthFacts DEF LengthOf
    <2>5. PICK t \in 1..g : t = u[k + l].nth
      BY <2>2, <2>4
    <2>6. ASSUME NEW i \in 1..g
          PROVE  /\ k - t + i \in 1..(n - l)
                 /\ v[k - t + i].of = v[k].of /\ v[k - t + i].nth = i
      <3>1. /\ k + l - t + i \in 1..n
            /\ u[k + l - t + i].of = u[k + l].of /\ u[k + l - t + i].nth = i
        <4>1. PICK q \in Int : q = k + l
          OBVIOUS
        <4>2. InPlace(u, n, w, q)
          BY <2>2, <4>1
        <4>3. \A h \in 1..LengthOf(u[q], w) :
                /\ q - u[q].nth + h \in 1..n
                /\ u[q - u[q].nth + h].of = u[q].of
                /\ u[q - u[q].nth + h].nth = h
          BY <4>2, Zenon DEF InPlace
        <4>4. q - t + i \in 1..n /\ u[q - t + i].of = u[q].of /\ u[q - t + i].nth = i
          <5>1. i \in 1..LengthOf(u[q], w) /\ u[q].nth = t
            BY <2>4, <2>5, <4>1
          <5> QED BY <4>3, <5>1
        <4>5. q - t + i = k + l - t + i
          BY <4>1
        <4> QED BY <4>1, <4>4, <4>5
      <3>2. k + l - t + i \notin 1..l
        BY <1>1, <2>3, <3>1
      <3>3. k - t + i \in 1..(n - l) /\ (k - t + i) + l = k + l - t + i
        BY <3>1, <3>2
      <3>4. v[k - t + i] = u[(k - t + i) + l]
        BY <3>3
      <3>5. v[k - t + i] = u[k + l - t + i]
        BY <3>3, <3>4
      <3> QED BY <2>1, <3>1, <3>3, <3>5
    <2>7. LengthOf(v[k], w) = g /\ v[k].nth = t
      BY <2>1, <2>4, <2>5
    <2> QED BY <2>6, <2>7 DEF InPlace
  <1>8. ASSUME NEW k \in 1..(n - l - 1), v[k].nth = LengthOf(v[k], w)
        PROVE  v[k + 1].of = v[k].of + 1 /\ v[k + 1].nth = 1
    <2>1. k + l \in 1..(n - 1) /\ k \in 1..(n - l) /\ k + 1 \in 1..(n - l) /\ k + 1 + l = k + l + 1
      OBVIOUS
    <2>2. v[k] = u[k + l] /\ v[k + 1] = u[k + l + 1]
      BY <2>1
    <2> QED BY <1>8, <2>1, <2>2 DEF Complete
  <1> QED BY <1>4, <1>5, <1>6, <1>7, <1>8 DEF Complete

\* With an item behind them they are those of one item more.
LEMMA CompleteWritten ==
  ASSUME NEW u, NEW v, NEW w \in Seq(Item), NEW n \in Nat, NEW t \in Nat, NEW i \in Item,
         NEW r \in Nat, Sound(u, n, w), Complete(u, n, w, r),
         Grown(u, v, n, t, i, Len(w) + 1)
  PROVE  Complete(v, t, Append(w, i), r)
  <1>0. /\ t = n + Length(i.code)
        /\ \A k \in 1..n : v[k] = u[k]
        /\ \A k \in 1..Length(i.code) : v[n + k] = Bytes(i, Len(w) + 1)[k]
    BY DEF Grown
  <1> USE <1>0
  <1>1. PICK l \in Nat : l = Length(i.code) /\ l > 0
    BY LengthFacts DEF Item, Looks
  <1>2. PICK m \in Nat : m = Len(w)
    OBVIOUS
  <1>3. PICK x : x = Append(w, i)
    OBVIOUS
  <1>4. Len(x) = m + 1 /\ x[m + 1] = i /\ \A j \in 1..m : x[j] = w[j]
    BY <1>2, <1>3
  <1>5. ASSUME NEW k \in 1..n
        PROVE  /\ v[k] = u[k] /\ v[k].of \in 1..m /\ LengthOf(v[k], x) = LengthOf(u[k], w)
               /\ v[k].nth \in 1..LengthOf(u[k], w)
    BY <1>2, <1>4 DEF Sound, LengthOf
  <1>6. ASSUME NEW k \in 1..l
        PROVE  v[n + k].of = m + 1 /\ v[n + k].nth = k /\ LengthOf(v[n + k], x) = l
    <2>1. v[n + k] = Bytes(i, m + 1)[k]
      BY <1>1, <1>2
    <2> QED BY <2>1, <1>1, <1>2, <1>4, BytesFacts DEF LengthOf
  <1>7. r <= m + 1 /\ n + l > 0
    BY <1>1, <1>2 DEF Complete
  <1>8. v[1].of = r + 1 /\ v[1].nth = 1
    <2>1. CASE n = 0
      <3>1. r = m
        BY <2>1, <1>2 DEF Complete
      <3>2. v[0 + 1].of = m + 1 /\ v[0 + 1].nth = 1
        BY <2>1, <1>1, <1>6
      <3> QED BY <3>1, <3>2
    <2>2. CASE n > 0
      BY <2>2 DEF Complete
    <2> QED BY <2>1, <2>2
  <1>9. v[n + l].of = m + 1 /\ v[n + l].nth = LengthOf(v[n + l], x)
    BY <1>1, <1>6
  <1>10. \A k \in 1..(n + l) : k \in 1..n \/ \E j \in 1..l : k = n + j
    <2> SUFFICES ASSUME NEW k \in 1..(n + l), k \notin 1..n
                 PROVE  \E j \in 1..l : k = n + j
      OBVIOUS
    <2>1. k - n \in 1..l /\ k = n + (k - n)
      OBVIOUS
    <2> QED BY <2>1
  <1>11. ASSUME NEW k \in 1..(n + l)
         PROVE  InPlace(v, n + l, x, k)
    <2>1. CASE k \in 1..n
      <3>1. PICK g \in Nat : g = LengthOf(u[k], w)
        <4>1. w[u[k].of].code \in Looks
          BY <2>1, CodeFacts DEF Sound
        <4> QED BY <4>1, LengthFacts DEF LengthOf
      <3>2. PICK a \in 1..g : a = v[k].nth
        BY <2>1, <3>1, <1>5
      <3>3. ASSUME NEW j \in 1..g
            PROVE  /\ k - a + j \in 1..(n + l)
                   /\ v[k - a + j].of = v[k].of /\ v[k - a + j].nth = j
        <4>1. InPlace(u, n, w, k) /\ v[k] = u[k]
          BY <2>1 DEF Complete
        <4>2. k - a + j \in 1..n /\ u[k - a + j].of = u[k].of /\ u[k - a + j].nth = j
          BY <4>1, <3>1, <3>2 DEF InPlace
        <4>3. k - a + j \in 1..(n + l)
          BY <4>2, <1>1
        <4> QED BY <4>1, <4>2, <4>3
      <3>4. LengthOf(v[k], x) = g
        BY <2>1, <3>1, <1>5
      <3> QED BY <3>2, <3>3, <3>4 DEF InPlace
    <2>2. ASSUME NEW a \in 1..l, k = n + a
          PROVE  InPlace(v, n + l, x, k)
      <3>1. LengthOf(v[k], x) = l /\ v[k].nth = a /\ v[k].of = m + 1
        BY <2>2, <1>6
      <3>2. ASSUME NEW j \in 1..l
            PROVE  /\ k - a + j \in 1..(n + l)
                   /\ v[k - a + j].of = m + 1 /\ v[k - a + j].nth = j
        <4>1. k - a + j = n + j /\ n + j \in 1..(n + l)
          BY <2>2, <1>1
        <4> QED BY <4>1, <1>6
      <3> QED BY <3>1, <3>2 DEF InPlace
    <2> QED BY <2>1, <2>2, <1>10
  <1>12. ASSUME NEW k \in 1..(n + l - 1), v[k].nth = LengthOf(v[k], x)
         PROVE  v[k + 1].of = v[k].of + 1 /\ v[k + 1].nth = 1
    <2>1. CASE k \in 1..(n - 1)
      <3>1. k \in 1..n /\ k + 1 \in 1..n
        BY <2>1
      <3> QED BY <3>1, <2>1, <1>12, <1>5 DEF Complete
    <2>2. CASE k = n
      <3>1. n > 0 /\ n \in 1..n
        BY <2>2
      <3>2. v[n].of = m
        BY <3>1, <1>2 DEF Complete
      <3>3. v[n + 1].of = m + 1 /\ v[n + 1].nth = 1
        BY <1>1, <1>6
      <3> QED BY <2>2, <3>2, <3>3
    <2>3. CASE k > n
      <3>1. k - n \in 1..l /\ k = n + (k - n) /\ k - n < l
        BY <2>3
      <3>2. v[k].nth = k - n /\ LengthOf(v[k], x) = l
        BY <3>1, <1>6
      <3>3. k - n = l
        BY <1>12, <3>2
      <3> QED BY <3>1, <3>3
    <2> QED BY <2>1, <2>2, <2>3
  <1>13. \A k \in 1..(n + l) : InPlace(v, n + l, x, k)
    BY <1>11
  <1> QED BY <1>1, <1>3, <1>4, <1>7, <1>8, <1>9, <1>12, <1>13 DEF Complete

\* A packet of the first bytes that is an item is before all the others.
LEMMA TakenIsPast ==
  ASSUME NEW u, NEW v, NEW w \in Seq(Item), NEW n \in Nat \ {0}, NEW l \in 1..n, NEW p \in Seq(Byte),
         Sound(u, n, w), Sorted(u, n), Len(p) = l, \A k \in 1..l : p[k] = u[k],
         \A k \in 1..(n - l) : v[k] = u[k + l]
  PROVE  Past(p, w, v, n - l)
  <1>1. p # <<>> /\ p[1] = u[1] /\ u[1].of \in 1..Len(w) /\ DOMAIN p = 1..l /\ Len(w) \in Nat
    BY DEF Sound
  <1>2. ASSUME NEW k \in 1..(n - l)
        PROVE  NumberOf(p, w) < v[k].of
    <2>1. /\ k + l \in 1..n /\ l \in 1..n /\ l < k + l /\ v[k] = u[k + l]
          /\ u[k + l].of \in 1..Len(w) /\ u[k + l].nth \in 1..LengthOf(u[k + l], w)
      BY DEF Sound
    <2>2. CASE NumberOf(p, w) = 0
      BY <2>1, <2>2, <1>1
    <2>3. CASE NumberOf(p, w) # 0
      <3>1. /\ l = LengthOf(p[1], w) /\ NumberOf(p, w) = p[1].of
            /\ p[l].of = p[1].of /\ p[l].nth = l
        BY <2>1, <2>3, <1>1 DEF NumberOf
      <3>2. p[l] = u[l]
        BY <2>1
      <3>3. u[l].of = u[1].of /\ u[l].nth = l /\ LengthOf(u[1], w) = l /\ NumberOf(p, w) = u[1].of
        BY <1>1, <3>1, <3>2
      <3>4. u[l].of < u[k + l].of \/ (u[l].of = u[k + l].of /\ u[l].nth < u[k + l].nth)
        BY <2>1 DEF Sorted
      <3>5. u[l].of # u[k + l].of
        <4> SUFFICES ASSUME u[l].of = u[k + l].of
                     PROVE  FALSE
          OBVIOUS
        <4>1. LengthOf(u[k + l], w) = l
          BY <3>3 DEF LengthOf
        <4> QED BY <4>1, <2>1, <3>3, <3>4
      <3> QED BY <2>1, <3>3, <3>4, <3>5
    <2> QED BY <2>2, <2>3
  <1> QED BY <1>1, <1>2 DEF Past

\* A packet is what it was when an item more is written.
LEMMA NumberSame ==
  ASSUME NEW w \in Seq(Item), NEW i \in Item, NEW p \in Seq(Byte), p[1].of \in 1..Len(w)
  PROVE  NumberOf(p, Append(w, i)) = NumberOf(p, w) /\ NumberOf(p, w) \in 0..Len(w)
  <1>1. PICK x : x = Append(w, i)
    OBVIOUS
  <1>2. \A j \in 1..Len(w) : x[j] = w[j]
    BY <1>1
  <1>3. Len(w) \in Nat
    OBVIOUS
  <1> QED BY <1>1, <1>2, <1>3 DEF NumberOf, LengthOf

\* An item that is written is none of those that were read.
LEMMA WrittenIsPast ==
  ASSUME NEW u, NEW v, NEW w \in Seq(Item), NEW n \in Nat, NEW i \in Item, NEW p \in Seq(Byte),
         NEW x, x = Append(w, i), NEW t \in Nat,
         Past(p, w, u, n),
         Grown(u, v, n, t, i, Len(w) + 1)
  PROVE  Past(p, x, v, t)
  <1>0. /\ t = n + Length(i.code)
        /\ \A k \in 1..n : v[k] = u[k]
        /\ \A k \in 1..Length(i.code) : v[n + k] = Bytes(i, Len(w) + 1)[k]
    BY DEF Grown
  <1> USE <1>0
  <1>1. PICK l \in Nat : l = Length(i.code) /\ l > 0
    BY LengthFacts DEF Item, Looks
  <1>2. PICK m \in Nat : m = Len(w)
    OBVIOUS
  <1>3. Len(x) = m + 1 /\ \A j \in 1..m : x[j] = w[j]
    BY <1>2
  <1>4. p # <<>> /\ p[1].of \in 1..m
    BY <1>2 DEF Past
  <1>5. NumberOf(p, x) = NumberOf(p, w) /\ NumberOf(p, w) \in 0..m
    BY <1>2, <1>4, NumberSame
  <1>6. ASSUME NEW k \in 1..(n + l)
        PROVE  NumberOf(p, w) < v[k].of
    <2>1. CASE k \in 1..n
      BY <2>1 DEF Past
    <2>2. CASE k \notin 1..n
      <3>1. k - n \in 1..l /\ k = n + (k - n)
        BY <2>2
      <3>2. v[k] = Bytes(i, m + 1)[k - n]
        BY <3>1, <1>1, <1>2
      <3>3. v[k].of = m + 1
        BY <3>1, <3>2, <1>1, BytesFacts
      <3> QED BY <3>3, <1>5
    <2> QED BY <2>1, <2>2
  <1>7. Past(p, x, v, n + l)
    BY <1>3, <1>4, <1>5, <1>6 DEF Past
  <1> QED BY <1>1, <1>7
-----------------------------------------------------------------------------
(***************************************************************************)
(* Steps                                                                   *)
(***************************************************************************)
LEMMA UnreadFacts ==
  ASSUME Types, UnderWay
  PROVE  /\ Held \in Nat /\ Left \in Nat /\ Left = Held + Len(line) /\ Len(line) \in Nat
         /\ \A k \in 1..Held : Unread[k] = rxBuffer[k] /\ rxBuffer[k] \in Byte
         /\ \A k \in 1..Len(line) : Unread[Held + k] = line[k] /\ line[k] \in Byte
         /\ \A k \in 1..Left : Unread[k] = IF k <= Held THEN rxBuffer[k] ELSE line[k - Held]
  <1>1. Held \in Nat /\ Len(line) \in Nat /\ \A k \in 1..Held : rxBuffer[k] \in Byte
    BY DEF Types, UnderWay, Held
  <1>2. \A k \in 1..Len(line) : line[k] \in Byte
    BY DEF Types
  <1>3. Left \in Nat /\ Left = Held + Len(line)
    BY <1>1 DEF Left
  <1>4. \A k \in 1..Left : Unread[k] = IF k <= Held THEN rxBuffer[k] ELSE line[k - Held]
    BY DEF Unread
  <1>5. \A k \in 1..Held : Unread[k] = rxBuffer[k]
    BY <1>1, <1>3, <1>4
  <1>6. \A k \in 1..Len(line) : Unread[Held + k] = line[k]
    <2> SUFFICES ASSUME NEW k \in 1..Len(line)
                 PROVE  Unread[Held + k] = line[k]
      OBVIOUS
    <2>1. Held + k \in 1..Left /\ ~(Held + k <= Held) /\ (Held + k) - Held = k
      BY <1>1, <1>3
    <2> QED BY <2>1, <1>4
  <1> QED BY <1>1, <1>2, <1>3, <1>4, <1>5, <1>6

\* n bytes more of a packet with code c: it is under way with the same bytes unread,
\* or it is what stood at their beginning.
LEMMA Fetched ==
  ASSUME Types, UnderWay, NEW c \in Looks, NEW n \in Nat \ {0},
         Held + n <= Length(c), Fetch(Held, n), Completed(c, Held + n),
         Unread[1].looks = c, UNCHANGED <<written, lost>>
  PROVE  /\ Types' /\ UnderWay'
         /\ \/ /\ read' = read /\ Left' = Left
               /\ \A k \in 1..Left : Unread'[k] = Unread[k]
            \/ /\ Length(c) \in 1..Left /\ Left' = Left - Length(c)
               /\ read' = Append(read, [k \in 1..Length(c) |-> Unread[k]])
               /\ [k \in 1..Length(c) |-> Unread[k]] \in Seq(Byte)
               /\ \A k \in 1..(Left - Length(c)) : Unread'[k] = Unread[k + Length(c)]
  <1>1. PICK h \in Nat : h = Held
    BY UnreadFacts
  <1>2. PICK l \in Nat : l = Length(c) /\ l <= StxLength /\ (l > 1 => c \in Packets)
    BY LengthFacts
  <1>3. PICK e \in Nat : e = Len(line)
    BY UnreadFacts
  <1>4. PICK t \in Nat \ {0} : t = h + n /\ t <= l
    BY <1>1, <1>2
  <1>5. StxLength \in Nat /\ Left = h + e /\ n <= e
    BY <1>1, <1>3, LengthFacts, UnreadFacts DEF Fetch
  <1>6. /\ \A k \in 1..h : Unread[k] = rxBuffer[k] /\ rxBuffer[k] \in Byte
        /\ \A k \in 1..e : Unread[h + k] = line[k] /\ line[k] \in Byte
    BY <1>1, <1>3, UnreadFacts
  <1>7. line' \in Seq(Byte) /\ Len(line') = e - n /\ \A k \in 1..(e - n) : line'[k] = line[k + n]
    <2>1. line' = SubSeq(line, n + 1, e) /\ line \in Seq(Byte)
      BY <1>3 DEF Fetch, Types
    <2> QED BY <2>1, <1>3, <1>5
  <1>8. rxBuffer' \in [1..StxLength -> Byte \cup {NoByte}]
    <2> SUFFICES ASSUME NEW k \in 1..StxLength
                 PROVE  (IF k \in (h + 1)..(h + n) THEN line[k - h] ELSE rxBuffer[k])
                          \in Byte \cup {NoByte}
      BY <1>1, Zenon DEF Fetch
    <2>1. k \in (h + 1)..(h + n) => k - h \in 1..e
      BY <1>5
    <2> QED BY <2>1, <1>6 DEF Types
  <1>9. \A k \in 1..t : rxBuffer'[k] = Unread[k] /\ Unread[k] \in Byte
    <2> SUFFICES ASSUME NEW k \in 1..t
                 PROVE  rxBuffer'[k] = Unread[k] /\ Unread[k] \in Byte
      OBVIOUS
    <2>1. k \in 1..StxLength
      BY <1>2, <1>4, <1>5
    <2>2. rxBuffer'[k] = IF k \in (h + 1)..(h + n) THEN line[k - h] ELSE rxBuffer[k]
      BY <2>1, <1>1 DEF Fetch
    <2>3. CASE k <= h
      BY <2>2, <2>3, <1>6
    <2>4. CASE k > h
      <3>1. k - h \in 1..e /\ h + (k - h) = k /\ k \in (h + 1)..(h + n)
        BY <2>4, <1>4, <1>5
      <3> QED BY <2>2, <3>1, <1>6
    <2> QED BY <2>3, <2>4
  <1>10. written' = written /\ lost' = lost
    OBVIOUS
  <1>11. CASE t < l
    <2>1. code' = c /\ rxLength' = t /\ read' = read /\ c \in Packets
      BY <1>11, <1>1, <1>2, <1>4 DEF Completed
    <2>2. Held' = t
      BY <2>1 DEF Held, Packets
    <2>3. Left' = Left
      BY <2>2, <1>4, <1>5, <1>7 DEF Left
    <2>4. \A k \in 1..Left : Unread'[k] = Unread[k]
      <3> SUFFICES ASSUME NEW k \in 1..Left
                   PROVE  Unread'[k] = Unread[k]
        OBVIOUS
      <3>1. Unread'[k] = IF k <= t THEN rxBuffer'[k] ELSE line'[k - t]
        BY <2>2, <2>3 DEF Unread
      <3>2. CASE k <= t
        BY <3>1, <3>2, <1>9
      <3>3. CASE k > t
        <4>1. k - t \in 1..(e - n) /\ k - t + n \in 1..e /\ h + (k - t + n) = k
          BY <3>3, <1>4, <1>5
        <4>2. line'[k - t] = line[k - t + n]
          BY <4>1, <1>7
        <4>3. Unread[h + (k - t + n)] = line[k - t + n]
          BY <4>1, <1>6
        <4> QED BY <3>1, <3>3, <4>1, <4>2, <4>3
      <3> QED BY <3>2, <3>3
    <2>5. UnderWay'
      BY <2>1, <1>2, <1>4, <1>9, <1>11 DEF UnderWay
    <2>6. Types'
      BY <2>1, <1>7, <1>8, <1>10 DEF Types
    <2> QED BY <2>1, <2>3, <2>4, <2>5, <2>6
  <1>12. CASE t = l
    <2>1. code' = "none" /\ rxLength' = rxLength
          /\ read' = Append(read, [k \in 1..l |-> rxBuffer'[k]])
      <3>1. ~(Held + n < Length(c)) /\ Length(c) = l
        BY <1>12, <1>1, <1>2, <1>4
      <3>2. code' = "none" /\ rxLength' = rxLength
            /\ read' = Append(read, [k \in 1..Length(c) |-> rxBuffer'[k]])
        BY <3>1, Zenon DEF Completed
      <3> QED BY <3>1, <3>2
    <2>2. Held' = 0
      BY <2>1 DEF Held
    <2>3. Left' = Left - l
      BY <2>2, <1>4, <1>5, <1>7, <1>12 DEF Left
    <2>4. [k \in 1..l |-> rxBuffer'[k]] = [k \in 1..l |-> Unread[k]]
      BY <1>9, <1>12
    <2>5. [k \in 1..l |-> Unread[k]] \in Seq(Byte)
      BY <1>9, <1>12
    <2>6. \A k \in 1..(Left - l) : Unread'[k] = Unread[k + l]
      <3> SUFFICES ASSUME NEW k \in 1..(Left - l)
                   PROVE  Unread'[k] = Unread[k + l]
        OBVIOUS
      <3>1. Unread'[k] = line'[k]
        BY <2>2, <2>3 DEF Unread
      <3>2. k \in 1..(e - n) /\ k + n \in 1..e /\ h + (k + n) = k + l
        BY <1>4, <1>5, <1>12
      <3>3. line'[k] = line[k + n] /\ Unread[h + (k + n)] = line[k + n]
        BY <3>2, <1>6, <1>7
      <3> QED BY <3>1, <3>2, <3>3
    <2>7. read' \in Seq(Seq(Byte))
      BY <2>1, <2>4, <2>5 DEF Types
    <2>8. Types' /\ UnderWay'
      BY <2>1, <2>7, <1>7, <1>8, <1>10 DEF Types, UnderWay
    <2>9. l \in 1..Left
      BY <1>4, <1>5, <1>12
    <2> QED BY <2>1, <2>3, <2>4, <2>5, <2>6, <2>8, <2>9, <1>2
  <1> QED BY <1>4, <1>11, <1>12

\* receivePacket keeps the bytes that are unread, or returns those at their beginning.
LEMMA Received ==
  ASSUME Types, UnderWay, ReceivePacket
  PROVE  /\ Types' /\ UnderWay'
         /\ \/ /\ read' = read /\ Left' = Left
               /\ \A k \in 1..Left : Unread'[k] = Unread[k]
            \/ \E l \in 1..Left :
                 /\ l = Length(Unread[1].looks) /\ Left' = Left - l
                 /\ read' = Append(read, [k \in 1..l |-> Unread[k]])
                 /\ [k \in 1..l |-> Unread[k]] \in Seq(Byte)
                 /\ \A k \in 1..(Left - l) : Unread'[k] = Unread[k + l]
  <1>0. UNCHANGED <<written, lost>>
    BY DEF ReceivePacket
  <1>1. CASE ReadFirst
    <2>1. Held = 0 /\ line # <<>> /\ line \in Seq(Byte)
      BY <1>1 DEF ReadFirst, Held, Types
    <2>2. 1 \in 1..Len(line) /\ Head(line) = line[1] /\ line[1] \in Byte
      BY <2>1
    <2>3. Unread[1] = line[1]
      <3>1. Unread[Held + 1] = line[1]
        BY <2>2, UnreadFacts
      <3> QED BY <2>1, <3>1
    <2>4. PICK c \in Looks : c = Unread[1].looks
      BY <2>2, <2>3 DEF Byte
    <2>5. PICK n \in 1..Length(c) : Fetch(0, n) /\ Completed(c, n)
      BY <1>1, <2>2, <2>3, <2>4 DEF ReadFirst
    <2>6. n \in Nat \ {0} /\ Held + n = n /\ Held + n <= Length(c)
      BY <2>1, <2>5, LengthFacts
    <2>7. Fetch(Held, n) /\ Completed(c, Held + n)
      BY <2>1, <2>5, <2>6
    <2> QED BY <1>0, <2>4, <2>6, <2>7, Fetched
  <1>2. CASE ReadRest
    <2>1. code # "none" /\ Held = rxLength /\ code \in Looks
      BY <1>2 DEF ReadRest, Held, Types, Looks
    <2>2. rxLength \in 1..(Length(code) - 1) /\ rxBuffer[1].looks = code /\ Length(code) \in Nat
      BY <2>1, LengthFacts DEF UnderWay
    <2>3. Unread[1].looks = code
      <3>1. 1 \in 1..Held
        BY <2>1, <2>2
      <3> QED BY <3>1, <2>2, UnreadFacts
    <2>4. PICK n \in 1..(Length(code) - rxLength) :
            Fetch(rxLength, n) /\ Completed(code, rxLength + n)
      BY <1>2 DEF ReadRest
    <2>5. n \in Nat \ {0} /\ Held + n <= Length(code)
      BY <2>1, <2>2, <2>4
    <2>6. Fetch(Held, n) /\ Completed(code, Held + n)
      BY <2>1, <2>4
    <2> QED BY <1>0, <2>1, <2>3, <2>5, <2>6, Fetched
  <1> QED BY <1>1, <1>2 DEF ReceivePacket

LEMMA PastSame ==
  ASSUME NEW p, NEW w, NEW u, NEW v, NEW n \in Nat, NEW d \in Nat, d <= n, NEW from \in Nat,
         Past(p, w, u, n),
         \A k \in 1..(n - d) : v[k] = IF k < from THEN u[k] ELSE u[k + d]
  PROVE  Past(p, w, v, n - d)
  <1>1. ASSUME NEW k \in 1..(n - d)
        PROVE  NumberOf(p, w) < v[k].of
    <2>1. k \in 1..n /\ k + d \in 1..n
      OBVIOUS
    <2> QED BY <2>1 DEF Past
  <1> QED BY <1>1 DEF Past

\* A step that only leaves out bytes counts as a loss.
LEMMA Thins ==
  ASSUME IInv, Types', UnderWay', NEW from \in Nat \ {0}, NEW d \in Nat, d <= Left, Left' = Left - d,
         \A k \in 1..(Left - d) : Unread'[k] = IF k < from THEN Unread[k] ELSE Unread[k + d],
         UNCHANGED <<written, read>>, lost' = lost + 1
  PROVE  IInv'
  <1>1. PICK n \in Nat : n = Left
    BY UnreadFacts DEF IInv
  <1>2. PICK u, v : u = Unread /\ v = Unread'
    OBVIOUS
  <1>3. Sound(u, n, written) /\ Sorted(u, n) /\ lost \in Nat
    BY <1>1, <1>2 DEF IInv, Types
  <1>4. \A k \in 1..(n - d) : v[k] = IF k < from THEN u[k] ELSE u[k + d]
    BY <1>1, <1>2
  <1>5. Sound(v, n - d, written) /\ Sorted(v, n - d)
    BY <1>1, <1>3, <1>4, Thinned
  <1>6. \A r \in DOMAIN read : Past(read[r], written, v, n - d)
    BY <1>1, <1>2, <1>4, PastSame DEF IInv, ReadInv
  <1>7. ReadInv'
    BY <1>1, <1>2, <1>6 DEF ReadInv
  <1>8. Exact'
    BY <1>3 DEF Exact
  <1>9. Sound(Unread, Left, written)' /\ Sorted(Unread, Left)'
    BY <1>1, <1>2, <1>5
  <1> QED BY <1>7, <1>8, <1>9 DEF IInv

LEMMA ConcatFacts ==
  ASSUME NEW s \in Seq(Byte), NEW t \in Seq(Byte)
  PROVE  /\ s \o t \in Seq(Byte) /\ Len(s \o t) = Len(s) + Len(t)
         /\ \A k \in 1..Len(s) : (s \o t)[k] = s[k]
         /\ \A k \in 1..Len(t) : (s \o t)[Len(s) + k] = t[k]
  <1>1. s \o t \in Seq(Byte) /\ Len(s \o t) = Len(s) + Len(t)
    OBVIOUS
  <1>2. \A k \in 1..Len(s) : (s \o t)[k] = s[k]
    OBVIOUS
  <1>3. \A k \in 1..Len(t) : (s \o t)[Len(s) + k] = t[k]
    OBVIOUS
  <1> QED BY <1>1, <1>2, <1>3

LEMMA WriteStep ==
  ASSUME IInv, NEW i \in Item, Write(i)
  PROVE  IInv'
  <1>1. PICK n \in Nat : n = Left
    BY UnreadFacts DEF IInv
  <1>2. PICK l \in Nat : l = Length(i.code) /\ l > 0
    BY LengthFacts DEF Item, Looks
  <1>3. PICK u, v : u = Unread /\ v = Unread'
    OBVIOUS
  <1>4. PICK w \in Seq(Item) : w = written
    BY DEF IInv, Types
  <1>5. PICK m \in Nat : m = Len(w)
    OBVIOUS
  <1>6. /\ written' = Append(w, i) /\ line' = line \o Bytes(i, m + 1)
        /\ UNCHANGED <<code, rxLength, rxBuffer, read, lost>>
    BY <1>4, <1>5 DEF Write
  <1>7. PICK b : b = Bytes(i, m + 1)
    OBVIOUS
  <1>8. b \in Seq(Byte) /\ Len(b) = l
    <2>1. \A k \in 1..l : b[k] \in Byte
      BY <1>2, <1>7, BytesFacts
    <2>2. b = [k \in 1..l |-> b[k]]
      BY <1>2, <1>7 DEF Bytes
    <2> QED BY <2>1, <2>2
  <1>9. PICK e \in Nat : e = Len(line) /\ line \in Seq(Byte)
    BY DEF IInv, Types
  <1>10. /\ line' \in Seq(Byte) /\ Len(line') = e + l
         /\ \A k \in 1..e : line'[k] = line[k]
         /\ \A k \in 1..l : line'[e + k] = b[k]
    <2>1. line' = line \o b
      BY <1>6, <1>7
    <2> QED BY <2>1, <1>2, <1>8, <1>9, ConcatFacts, ZenonT(30)
  <1>11. Types' /\ UnderWay'
    BY <1>4, <1>6, <1>10 DEF IInv, Types, UnderWay
  <1>12. PICK h \in Nat : h = Held /\ h = Held' /\ n = h + e
    BY <1>1, <1>6, <1>9, UnreadFacts DEF IInv, Held
  <1>22. n = h + e
    BY <1>12
  <1>13. Left' = n + l
    BY <1>10, <1>12 DEF Left
  <1>14. \A k \in 1..n : v[k] = u[k]
    <2> SUFFICES ASSUME NEW k \in 1..n
                 PROVE  v[k] = u[k]
      OBVIOUS
    <2>1. u[k] = IF k <= h THEN rxBuffer[k] ELSE line[k - h]
      BY <1>1, <1>3, <1>12 DEF Unread
    <2>2. v[k] = IF k <= h THEN rxBuffer[k] ELSE line'[k - h]
      <3>1. k \in 1..(n + l)
        BY <1>2
      <3>2. k \in 1..Left'
        BY <3>1, <1>13
      <3>3. Unread'[k] = IF k <= Held' THEN rxBuffer'[k] ELSE line'[k - Held']
        BY <3>2 DEF Unread
      <3> QED BY <3>3, <1>3, <1>6, <1>12
    <2>3. k > h => k - h \in 1..e
      BY <1>22
    <2> QED BY <2>1, <2>2, <2>3, <1>10
  <1>15. \A k \in 1..l : v[n + k] = b[k]
    <2> SUFFICES ASSUME NEW k \in 1..l
                 PROVE  v[n + k] = b[k]
      OBVIOUS
    <2>1. n + k \in 1..(n + l) /\ ~(n + k <= h) /\ (n + k) - h = e + k
      BY <1>1, <1>2, <1>9, <1>12, SMTT(30)
    <2>2. v[n + k] = line'[e + k]
      BY <2>1, <1>3, <1>12, <1>13 DEF Unread
    <2> QED BY <2>2, <1>10
  <1>16. Grown(u, v, n, n + l, i, Len(w) + 1) /\ n + l \in Nat
    BY <1>2, <1>5, <1>7, <1>14, <1>15 DEF Grown
  <1>17. Sound(u, n, w) /\ Sorted(u, n)
    BY <1>1, <1>3, <1>4 DEF IInv
  <1>18. Sound(v, n + l, written') /\ Sorted(v, n + l)
    BY <1>2, <1>6, <1>16, <1>17, Lengthened
  <1>19. ASSUME NEW r \in DOMAIN read
         PROVE  /\ Past(read[r], written', v, n + l)
                /\ NumberOf(read[r], written') = NumberOf(read[r], w)
    <2>1. Past(read[r], w, u, n) /\ read[r] \in Seq(Byte)
      BY <1>1, <1>3, <1>4 DEF IInv, ReadInv, Types
    <2>2. PICK p \in Seq(Byte) : p = read[r]
      BY <2>1
    <2>3. Past(p, w, u, n)
      BY <2>1, <2>2
    <2>4. PICK x, t : x = Append(w, i) /\ t = n + l
      OBVIOUS
    <2>5. Grown(u, v, n, t, i, Len(w) + 1) /\ t \in Nat
      BY <2>4, <1>16
    <2>6. Past(p, x, v, t)
      BY <2>3, <2>4, <2>5, WrittenIsPast
    <2>7. NumberOf(p, x) = NumberOf(p, w)
      BY <2>3, <2>4, NumberSame DEF Past
    <2> QED BY <2>2, <2>4, <2>6, <2>7, <1>6
  <1>20. ReadInv'
    BY <1>3, <1>6, <1>13, <1>19 DEF ReadInv
  <1>21. Exact'
    <2> SUFFICES ASSUME lost = 0
                 PROVE  /\ \A r \in DOMAIN read : NumberOf(read[r], written') = r
                        /\ Complete(v, n + l, written', Len(read))
      BY <1>3, <1>6, <1>13 DEF Exact
    <2>1. /\ \A r \in DOMAIN read : NumberOf(read[r], w) = r
          /\ Complete(u, n, w, Len(read)) /\ Len(read) \in Nat
      BY <1>1, <1>3, <1>4 DEF IInv, Exact, Types
    <2>2. Complete(v, n + l, written', Len(read))
      BY <2>1, <1>2, <1>6, <1>16, <1>17, CompleteWritten
    <2> QED BY <2>1, <2>2, <1>19
  <1> QED BY <1>3, <1>11, <1>13, <1>18, <1>20, <1>21 DEF IInv

LEMMA LoseStep ==
  ASSUME IInv, Lose
  PROVE  IInv'
  <1>1. PICK k \in DOMAIN line : line' = SubSeq(line, 1, k - 1) \o SubSeq(line, k + 1, Len(line))
    BY DEF Lose
  <1>2. PICK e \in Nat : e = Len(line) /\ line \in Seq(Byte) /\ k \in 1..e
    BY DEF IInv, Types
  <1>3. /\ line' \in Seq(Byte) /\ Len(line') = e - 1
        /\ \A j \in 1..(e - 1) : line'[j] = IF j < k THEN line[j] ELSE line[j + 1]
    <2>1. PICK s, t : s = SubSeq(line, 1, k - 1) /\ t = SubSeq(line, k + 1, e)
      OBVIOUS
    <2>2. /\ s \in Seq(Byte) /\ Len(s) = k - 1
          /\ \A j \in 1..(k - 1) : s[j] = line[j]
      BY <2>1, <1>2
    <2>3. /\ t \in Seq(Byte) /\ Len(t) = e - k
          /\ \A j \in 1..(e - k) : t[j] = line[k + j]
      BY <2>1, <1>2
    <2>4. line' = s \o t
      BY <2>1, <1>1, <1>2
    <2>5. line' \in Seq(Byte) /\ Len(line') = e - 1
      BY <2>2, <2>3, <2>4, <1>2, ConcatFacts
    <2>6. ASSUME NEW j \in 1..(e - 1)
          PROVE  line'[j] = IF j < k THEN line[j] ELSE line[j + 1]
      <3>1. CASE j < k
        BY <3>1, <2>2, <2>3, <2>4, <1>2, ConcatFacts
      <3>2. CASE j >= k
        <4>1. j - (k - 1) \in 1..(e - k) /\ (k - 1) + (j - (k - 1)) = j /\ k + (j - (k - 1)) = j + 1
          BY <3>2, <1>2
        <4>2. line'[(k - 1) + (j - (k - 1))] = t[j - (k - 1)]
          BY <4>1, <2>2, <2>3, <2>4, ConcatFacts
        <4> QED BY <3>2, <4>1, <4>2, <2>3, <1>2
      <3> QED BY <3>1, <3>2, <1>2
    <2> QED BY <2>5, <2>6
  <1>4. /\ UNCHANGED <<written, code, rxLength, rxBuffer, read>> /\ lost' = lost + 1
        /\ lost < MaxLost
    BY DEF Lose
  <1>5. Types' /\ UnderWay'
    BY <1>3, <1>4, ReaderAssumption DEF IInv, Types, UnderWay
  <1>6. PICK h \in Nat : h = Held /\ h = Held' /\ Left = h + e
    BY <1>2, <1>4, UnreadFacts DEF IInv, Held
  <1>7. Left' = Left - 1
    BY <1>3, <1>6 DEF Left
  <1>10. Left = h + e
    BY <1>6
  <1>8. ASSUME NEW j \in 1..(Left - 1)
        PROVE  Unread'[j] = IF j < h + k THEN Unread[j] ELSE Unread[j + 1]
    <2>1. Unread'[j] = IF j <= h THEN rxBuffer[j] ELSE line'[j - h]
      BY <1>4, <1>6, <1>7 DEF Unread
    <2>2. j \in 1..Left /\ j + 1 \in 1..Left
      BY <1>2, <1>6
    <2>3. /\ Unread[j] = IF j <= h THEN rxBuffer[j] ELSE line[j - h]
          /\ Unread[j + 1] = IF j + 1 <= h THEN rxBuffer[j + 1] ELSE line[j + 1 - h]
      BY <2>2, <1>6 DEF Unread
    <2>4. CASE j <= h
      BY <2>1, <2>3, <2>4, <1>2
    <2>5. CASE j > h
      <3>1. j - h \in 1..(e - 1) /\ j - h + 1 = j + 1 - h
        BY <2>5, <1>10
      <3>2. line'[j - h] = IF j - h < k THEN line[j - h] ELSE line[j - h + 1]
        BY <3>1, <1>3
      <3> QED BY <2>1, <2>3, <2>5, <3>1, <3>2, <1>2
    <2> QED BY <2>4, <2>5
  <1>9. h + k \in Nat \ {0} /\ 1 <= Left
    BY <1>2, <1>6
  <1> QED BY <1>4, <1>5, <1>7, <1>8, <1>9, Thins

LEMMA GiveUpStep ==
  ASSUME IInv, GiveUp
  PROVE  IInv'
  <1>1. /\ code # "none" /\ code' = "none" /\ lost' = lost + 1 /\ lost < MaxLost
        /\ UNCHANGED <<written, line, rxLength, rxBuffer, read>>
    BY DEF GiveUp
  <1>2. Types' /\ UnderWay'
    BY <1>1, ReaderAssumption DEF IInv, Types, UnderWay
  <1>3. PICK h \in Nat : h = Held
    BY UnreadFacts DEF IInv
  <1>4. PICK e \in Nat : e = Len(line) /\ Left = h + e
    BY <1>3, UnreadFacts DEF IInv
  <1>5. Held' = 0 /\ Left' = Left - h
    BY <1>1, <1>4 DEF Held, Left
  <1>6. ASSUME NEW j \in 1..(Left - h)
        PROVE  Unread'[j] = IF j < 1 THEN Unread[j] ELSE Unread[j + h]
    <2>1. Unread'[j] = line[j]
      BY <1>1, <1>5 DEF Unread
    <2>2. j \in 1..e /\ h + j = j + h
      BY <1>4
    <2>3. Unread[h + j] = line[j]
      BY <2>2, <1>3, <1>4, UnreadFacts DEF IInv
    <2> QED BY <2>1, <2>2, <2>3
  <1>7. 1 \in Nat \ {0} /\ h <= Left
    BY <1>3, <1>4
  <1> QED BY <1>1, <1>2, <1>3, <1>5, <1>6, <1>7, Thins

LEMMA ReceiveStep ==
  ASSUME IInv, ReceivePacket
  PROVE  IInv'
  <1>1. UNCHANGED <<written, lost>>
    BY DEF ReceivePacket
  <1>2. Types' /\ UnderWay'
    BY Received DEF IInv
  <1>3. PICK n \in Nat : n = Left
    BY UnreadFacts DEF IInv
  <1>4. PICK u, v : u = Unread /\ v = Unread'
    OBVIOUS
  <1>5. PICK w \in Seq(Item) : w = written
    BY DEF IInv, Types
  <1>6. Sound(u, n, w) /\ Sorted(u, n)
    BY <1>3, <1>4, <1>5 DEF IInv
  <1>7. \A r \in DOMAIN read : Past(read[r], w, u, n)
    BY <1>3, <1>4, <1>5 DEF IInv, ReadInv
  <1>8. CASE read' = read /\ Left' = Left /\ \A k \in 1..Left : Unread'[k] = Unread[k]
    <2>1. Left' = n /\ \A k \in 1..n : v[k] = u[k]
      BY <1>3, <1>4, <1>8
    <2>2. Sound(v, n, w) /\ Sorted(v, n)
      BY <2>1, <1>6 DEF Sound, Sorted, LengthOf
    <2>3. \A r \in DOMAIN read : Past(read[r], w, v, n)
      BY <2>1, <1>7 DEF Past
    <2>4. Complete(u, n, w, Len(read)) => Complete(v, n, w, Len(read))
      <3> SUFFICES ASSUME Complete(u, n, w, Len(read))
                   PROVE  Complete(v, n, w, Len(read))
        OBVIOUS
      <3>1. n > 0 => 1 \in 1..n /\ n \in 1..n
        OBVIOUS
      <3>2. \A k \in 1..(n - 1) : k \in 1..n /\ k + 1 \in 1..n
        OBVIOUS
      <3>3. \A k \in 1..n : InPlace(v, n, w, k)
        BY <2>1 DEF Complete, InPlace, LengthOf
      <3> QED BY <2>1, <3>1, <3>2, <3>3 DEF Complete, LengthOf
    <2>5. ReadInv'
      BY <2>1, <2>3, <1>1, <1>4, <1>5, <1>8 DEF ReadInv
    <2>6. Exact'
      BY <2>1, <2>4, <1>1, <1>3, <1>4, <1>5, <1>8 DEF IInv, Exact
    <2>7. Sound(Unread, Left, written)' /\ Sorted(Unread, Left)'
      BY <2>1, <2>2, <1>1, <1>4, <1>5
    <2> QED BY <2>5, <2>6, <2>7, <1>2 DEF IInv
  <1>9. ASSUME NEW l \in 1..Left,
               l = Length(Unread[1].looks), Left' = Left - l,
               read' = Append(read, [k \in 1..l |-> Unread[k]]),
               [k \in 1..l |-> Unread[k]] \in Seq(Byte),
               \A k \in 1..(Left - l) : Unread'[k] = Unread[k + l]
        PROVE  IInv'
    <2>1. PICK p \in Seq(Byte) : p = [k \in 1..l |-> u[k]]
      BY <1>4, <1>9
    <2>2. Len(p) = l /\ \A k \in 1..l : p[k] = u[k]
      BY <2>1, <1>9
    <2>3. l \in 1..n /\ n \in Nat \ {0} /\ \A k \in 1..(n - l) : v[k] = u[k + l]
      BY <1>3, <1>4, <1>9
    <2>4. Past(p, w, v, n - l)
      BY <2>2, <2>3, <1>6, TakenIsPast
    <2>5. \A k \in 1..(n - l) : v[k] = IF k < 1 THEN u[k] ELSE u[k + l]
      BY <2>3
    <2>6. Sound(v, n - l, w) /\ Sorted(v, n - l)
      <3>1. 1 \in Nat \ {0} /\ l \in Nat /\ l <= n
        BY <2>3
      <3> QED BY <3>1, <2>3, <2>5, <1>6, Thinned
    <2>7. ASSUME NEW r \in DOMAIN read
          PROVE  Past(read[r], w, v, n - l)
      <3>1. Past(read[r], w, u, n)
        BY <1>7
      <3>2. 1 \in Nat /\ l \in Nat /\ l <= n
        BY <2>3
      <3> QED BY <3>1, <3>2, <2>3, <2>5, PastSame
    <2>8. read \in Seq(Seq(Byte)) /\ Len(read) \in Nat /\ DOMAIN read = 1..Len(read)
      BY DEF IInv, Types
    <2>9. /\ DOMAIN read' = 1..(Len(read) + 1) /\ read'[Len(read) + 1] = p
          /\ \A r \in DOMAIN read : read'[r] = read[r]
          /\ Len(read') = Len(read) + 1
      BY <2>1, <2>8, <1>4, <1>9
    <2>10. \A r \in DOMAIN read' : r \in DOMAIN read \/ r = Len(read) + 1
      <3> SUFFICES ASSUME NEW r \in 1..(Len(read) + 1), r # Len(read) + 1
                   PROVE  r \in 1..Len(read)
        BY <2>8, <2>9
      <3> QED BY <2>8
    <2>11. ReadInv'
      BY <2>4, <2>7, <2>9, <2>10, <1>1, <1>3, <1>4, <1>5, <1>9 DEF ReadInv
    <2>12. Exact'
      <3> SUFFICES ASSUME lost = 0
                   PROVE  /\ \A r \in DOMAIN read' : NumberOf(read'[r], w) = r
                          /\ Complete(v, n - l, w, Len(read) + 1)
        BY <2>9, <1>1, <1>3, <1>4, <1>5, <1>9 DEF Exact
      <3>1. /\ \A r \in DOMAIN read : NumberOf(read[r], w) = r
            /\ Complete(u, n, w, Len(read))
        BY <1>3, <1>4, <1>5 DEF IInv, Exact
      <3>2. /\ LengthOf(u[1], w) \in 1..n /\ u[1].looks = w[u[1].of].code
            /\ \A k \in 1..LengthOf(u[1], w) : u[k].of = Len(read) + 1 /\ u[k].nth = k
        BY <3>1, <2>3, <2>8, <1>6, FirstItem
      <3>3. l = LengthOf(u[1], w)
        BY <3>2, <1>4, <1>9 DEF LengthOf
      <3>4. Complete(v, n - l, w, Len(read) + 1)
        BY <3>1, <3>3, <2>3, <2>8, <1>6, CompleteTaken
      <3>5. DOMAIN p = 1..l /\ p[1] = u[1] /\ 1 \in 1..l
        BY <2>1, <2>3
      <3>6. NumberOf(p, w) = Len(read) + 1
        BY <3>2, <3>3, <3>5, <2>2 DEF NumberOf
      <3> QED BY <3>1, <3>4, <3>6, <2>9, <2>10
    <2>13. Sound(Unread, Left, written)' /\ Sorted(Unread, Left)'
      BY <2>6, <1>1, <1>3, <1>4, <1>5, <1>9
    <2> QED BY <2>11, <2>12, <2>13, <1>2 DEF IInv
  <1> QED BY <1>8, <1>9, Received DEF IInv
-----------------------------------------------------------------------------
(***************************************************************************)
(* The invariant and what follows                                          *)
(***************************************************************************)
LEMMA IInvInit == Init => IInv
  <1> SUFFICES ASSUME Init PROVE IInv
    OBVIOUS
  <1>1. /\ written = <<>> /\ line = <<>> /\ read = <<>> /\ lost = 0 /\ code = "none"
        /\ rxLength = 0 /\ rxBuffer \in [1..StxLength -> {NoByte}]
    BY DEF Init
  <1>2. Types
    BY <1>1, ReaderAssumption DEF Types
  <1>3. UnderWay
    BY <1>1 DEF UnderWay
  <1>4. Left = 0
    BY <1>1 DEF Left, Held
  <1>5. Sound(Unread, Left, written) /\ Sorted(Unread, Left)
    BY <1>4 DEF Sound, Sorted
  <1>6. ReadInv
    BY <1>1 DEF ReadInv
  <1>7. Complete(Unread, 0, written, 0)
    BY <1>1 DEF Complete
  <1>8. Exact
    BY <1>1, <1>4, <1>7 DEF Exact
  <1> QED BY <1>2, <1>3, <1>5, <1>6, <1>8 DEF IInv

LEMMA IInvStep == IInv /\ [Next]_vars => IInv'
  <1> SUFFICES ASSUME IInv, [Next]_vars PROVE IInv'
    OBVIOUS
  <1>1. ASSUME NEW i \in Item, Write(i) PROVE IInv'
    BY <1>1, WriteStep
  <1>2. CASE Lose
    BY <1>2, LoseStep
  <1>3. CASE GiveUp
    BY <1>3, GiveUpStep
  <1>4. CASE ReceivePacket
    BY <1>4, ReceiveStep
  <1>5. CASE UNCHANGED vars
    <2> USE <1>5 DEF vars
    <2>1. Held' = Held /\ Left' = Left
      BY DEF Held, Left
    <2>2. Unread' = Unread
      BY <2>1 DEF Unread
    <2>3. Types' /\ UnderWay'
      BY DEF IInv, Types, UnderWay
    <2>4. Sound(Unread, Left, written)' /\ Sorted(Unread, Left)'
      BY <2>1, <2>2 DEF IInv
    <2>5. ReadInv' /\ Exact'
      BY <2>1, <2>2 DEF IInv, ReadInv, Exact
    <2> QED BY <2>3, <2>4, <2>5 DEF IInv
  <1> QED BY <1>1, <1>2, <1>3, <1>4, <1>5 DEF Next

\* Whatever each read brings and whichever bytes are lost: those that are unread
\* lie in the order in which they were written, behind every item that was read.
THEOREM IInvAlways == Spec => []IInv
  BY IInvInit, IInvStep, PTL DEF Spec

\* The code, how much of a packet is there, and the losses.
THEOREM TypesAlways == Spec => []TypeOK
  <1>1. IInv => TypeOK
    BY DEF IInv, Types, UnderWay, TypeOK
  <1> QED BY <1>1, IInvAlways, PTL

Numbers == [k \in DOMAIN read |-> Genuine(read[k])]

LEMMA NumbersOf ==
  ASSUME NEW w \in Seq(Item), NEW q \in Seq(Seq(Byte)), NEW f,
         f = [k \in DOMAIN q |-> NumberOf(q[k], w)],
         \A k \in DOMAIN q : q[k] # <<>> /\ q[k][1].of \in 1..Len(w)
  PROVE  /\ f = [k \in 1..Len(q) |-> NumberOf(q[k], w)]
         /\ f \in Seq(Nat) /\ Len(f) = Len(q) /\ Len(q) \in Nat /\ DOMAIN q = 1..Len(q)
         /\ \A k \in 1..Len(q) : f[k] \in 0..Len(w)
  <1>1. PICK m \in Nat : m = Len(q) /\ DOMAIN q = 1..m
    OBVIOUS
  <1>2. \A k \in 1..m : NumberOf(q[k], w) \in 0..Len(w)
    BY <1>1, SMTT(30) DEF NumberOf
  <1>3. Len(w) \in Nat
    OBVIOUS
  <1>4. f = [k \in 1..m |-> NumberOf(q[k], w)]
    BY <1>1
  <1>5. \A k \in 1..m : f[k] \in 0..Len(w)
    BY <1>2, <1>4
  <1>6. f \in Seq(Nat) /\ Len(f) = m
    BY <1>3, <1>4, <1>5
  <1> QED BY <1>1, <1>4, <1>5, <1>6

LEMMA NumbersAre == Numbers = [k \in DOMAIN read |-> NumberOf(read[k], written)]
  BY DEF Numbers, Genuine, NumberOf, LengthOf

LEMMA NumberFacts ==
  ASSUME IInv
  PROVE  /\ Numbers = [k \in 1..Len(read) |-> NumberOf(read[k], written)]
         /\ Numbers \in Seq(Nat) /\ Len(Numbers) = Len(read) /\ DOMAIN read = 1..Len(read)
         /\ Len(read) \in Nat
  <1>1. read \in Seq(Seq(Byte)) /\ written \in Seq(Item)
    BY DEF IInv, Types
  <1>2. \A k \in DOMAIN read : read[k] # <<>> /\ read[k][1].of \in 1..Len(written)
    BY DEF IInv, ReadInv, Past
  <1> QED BY <1>1, <1>2, NumbersAre, NumbersOf

\* The steps of receivePacket are those of the abstract line.
LEMMA ReadIsAbstract ==
  ASSUME IInv, IInv', ReceivePacket
  PROVE  [Abstract!Next]_<<Len(written), Numbers, lost > 0>>
  <1>1. UNCHANGED <<written, lost>>
    BY DEF ReceivePacket
  <1>2. PICK m \in Nat : m = Len(read)
    BY NumberFacts
  <1>3. PICK s, w, e : s = Numbers /\ w = Len(written) /\ e = Numbers'
    OBVIOUS
  <1>4. /\ w \in Nat /\ s \in Seq(Nat) /\ Len(s) = m
        /\ s = [k \in 1..m |-> NumberOf(read[k], written)]
    BY <1>2, <1>3, NumberFacts
  <1>5. CASE read' = read
    <2>1. Numbers' = Numbers
      BY <1>1, <1>5 DEF Numbers, Genuine
    <2> QED BY <2>1, <1>1
  <1>6. ASSUME NEW l \in 1..Left,
               l = Length(Unread[1].looks),
               read' = Append(read, [k \in 1..l |-> Unread[k]]),
               [k \in 1..l |-> Unread[k]] \in Seq(Byte)
        PROVE  Abstract!Read \/ Abstract!ReadTorn
    <2>1. PICK p \in Seq(Byte) : p = [k \in 1..l |-> Unread[k]]
      BY <1>6
    <2>2. read \in Seq(Seq(Byte)) /\ DOMAIN read = 1..m
      BY <1>2 DEF IInv, Types
    <2>3. /\ Len(read') = m + 1 /\ DOMAIN read' = 1..(m + 1) /\ read'[m + 1] = p
          /\ \A k \in 1..m : read'[k] = read[k]
      BY <2>1, <2>2, <1>2, <1>6
    <2>4. PICK g : g = NumberOf(p, written)
      OBVIOUS
    <2>5. e = [k \in 1..(m + 1) |-> NumberOf(read'[k], written)] /\ g \in 0..w
      <3>1. Numbers' = [k \in DOMAIN read' |-> NumberOf(read'[k], written')]
        BY DEF Numbers, Genuine, NumberOf, LengthOf
      <3>2. p # <<>> /\ p[1].of \in 1..Len(written)
        <4>1. m + 1 \in DOMAIN read'
          BY <2>3
        <4>2. Past(read'[m + 1], written', Unread', Left')
          BY <4>1 DEF IInv, ReadInv
        <4> QED BY <4>2, <2>3, <1>1 DEF Past
      <3>3. g \in 0..w
        BY <3>2, <2>4, <1>3, <1>4 DEF NumberOf
      <3> QED BY <3>1, <3>3, <2>3, <1>1, <1>3
    <2>6. e = Append(s, g)
      <3>1. e = [k \in 1..(m + 1) |-> IF k = m + 1 THEN g ELSE s[k]]
        BY <2>3, <2>4, <2>5, <1>4
      <3>2. Append(s, g) = [k \in 1..(m + 1) |-> IF k = m + 1 THEN g ELSE s[k]]
        BY <1>4
      <3> QED BY <3>1, <3>2
    <2>7. CASE lost = 0
      <3>1. \A k \in DOMAIN read' : NumberOf(read'[k], written') = k
        BY <2>7, <1>1 DEF IInv, Exact
      <3>2. g = m + 1
        BY <3>1, <2>3, <2>4, <1>1
      <3>3. m < w
        BY <3>2, <2>5, <1>4
      <3>4. Numbers' = Append(Numbers, Len(Numbers) + 1) /\ Len(Numbers) < Len(written) /\ ~(lost > 0)
        BY <3>2, <3>3, <2>6, <2>7, <1>3, <1>4
      <3> QED BY <3>4, <1>1 DEF Abstract!Read, Numbers
    <2>8. CASE lost > 0
      <3>1. ASSUME g > 0, NEW k \in 1..m
            PROVE  s[k] < g
        <4>1. Past(read[k], written, Unread, Left)
          BY <2>2 DEF IInv, ReadInv
        <4>2. 1 \in 1..Left /\ 1 \in 1..l
          BY <1>6, UnreadFacts DEF IInv
        <4>3. s[k] < Unread[1].of
          BY <4>1, <4>2, <1>4 DEF Past
        <4>4. g = p[1].of
          BY <3>1, <2>4 DEF NumberOf
        <4> QED BY <4>2, <4>3, <4>4, <2>1
      <3>2. \A x \in Abstract!Range(s) : \E k \in 1..m : x = s[k]
        BY <1>4 DEF Abstract!Range
      <3>3. g > 0 => \A x \in Abstract!Range(s) : x < g
        BY <3>1, <3>2
      <3>4. /\ Numbers' = Append(Numbers, g) /\ g \in 0..Len(written) /\ lost > 0
            /\ g > 0 => \A x \in Abstract!Range(Numbers) : x < g
        BY <3>3, <2>5, <2>6, <2>8, <1>3
      <3> QED BY <3>4, <1>1 DEF Abstract!ReadTorn, Numbers
    <2>9. lost \in Nat
      BY DEF IInv, Types
    <2> QED BY <2>7, <2>8, <2>9
  <1>7. read' = read \/ Abstract!Read \/ Abstract!ReadTorn
    BY <1>6, Received DEF IInv
  <1> QED BY <1>5, <1>7 DEF Abstract!Next

\* However the line is cut into reads, receivePacket reads the items as they were
\* written, and after a loss none twice and none before another: it implements
\* the line of items that the models of a transfer read.
THEOREM ReadsItems == Spec => ImplementsItemLine
  <1>1. Init => Abstract!Init
    BY DEF Init, Abstract!Init
  <1>2. IInv /\ IInv' /\ [Next]_vars => [Abstract!Next]_<<Len(written), Numbers, lost > 0>>
    <2> SUFFICES ASSUME IInv, IInv', [Next]_vars
                 PROVE  [Abstract!Next]_<<Len(written), Numbers, lost > 0>>
      OBVIOUS
    <2>1. ASSUME NEW i \in Item, Write(i)
          PROVE  Abstract!Write
      <3>1. written' = Append(written, i) /\ read' = read /\ lost' = lost /\ written \in Seq(Item)
        BY <2>1 DEF Write, IInv, Types
      <3>2. PICK m \in Nat : m = Len(read)
        BY NumberFacts
      <3>3. ASSUME NEW k \in 1..m
            PROVE  NumberOf(read[k], written') = NumberOf(read[k], written)
        <4>1. k \in DOMAIN read /\ read[k] \in Seq(Byte)
          BY <3>2 DEF IInv, Types
        <4>2. read[k][1].of \in 1..Len(written)
          BY <4>1 DEF IInv, ReadInv, Past
        <4> QED BY <4>1, <4>2, <3>1, NumberSame
      <3>4. Numbers' = Numbers
        <4>1. Numbers' = [k \in 1..m |-> NumberOf(read[k], written')]
          <5>1. DOMAIN read' = 1..m /\ read' = read
            BY <3>1, <3>2, NumberFacts
          <5> QED BY <5>1 DEF Numbers, Genuine, NumberOf, LengthOf
        <4>2. Numbers = [k \in 1..m |-> NumberOf(read[k], written)]
          BY <3>2, NumberFacts
        <4> QED BY <4>1, <4>2, <3>3
      <3>5. Len(written') = Len(written) + 1
        BY <3>1
      <3> QED BY <3>1, <3>4, <3>5 DEF Abstract!Write, Numbers
    <2>2. CASE Lose \/ GiveUp
      <3>1. UNCHANGED <<written, read>> /\ lost' = lost + 1 /\ lost \in Nat
        BY <2>2 DEF Lose, GiveUp, IInv, Types
      <3>2. Numbers' = Numbers /\ (lost > 0)' = TRUE
        BY <3>1 DEF Numbers, Genuine
      <3> QED BY <3>1, <3>2 DEF Abstract!Next, Abstract!Tear, Numbers
    <2>3. CASE ReceivePacket
      BY <2>3, ReadIsAbstract
    <2>4. CASE UNCHANGED vars
      BY <2>4 DEF vars, Numbers, Genuine
    <2> QED BY <2>1, <2>2, <2>3, <2>4 DEF Next, Abstract!Next
  <1> QED BY <1>1, <1>2, IInvAlways, PTL DEF Spec, ImplementsItemLine, Abstract!Spec, Numbers
=============================================================================

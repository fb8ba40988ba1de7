-------------------------- MODULE OrderBookProofs ---------------------------
(***************************************************************************)
(* Proofs about the order book, for every set of prices and volumes, every *)
(* number of levels N and K and any number of messages on their way.       *)
(*                                                                         *)
(* Part one is about lists of levels: a set of naturals has a least        *)
(* member, so the position of an insertion and the level of a price exist, *)
(* and inserting, removing and trimming keep a list sorted.  Part two is   *)
(* the shape of the messages: each price once per side, no more than N     *)
(* levels in a snapshot.  Part three says what the book knows: it tracks   *)
(* one past state of the venue's window, and the messages on their way     *)
(* lead from that state to the present one.                                *)
(***************************************************************************)
EXTENDS OrderBook, FiniteSetTheorems, SequenceTheorems, TLAPS

-----------------------------------------------------------------------------
(* Part one: lists of levels.                                              *)

\* A set of naturals has a least member.
LEMMA Least ==
  ASSUME NEW T \in SUBSET Nat, T # {}
  PROVE  \E x \in T : \A y \in T : x <= y
<1>1. PICK x \in T : \A y \in T : ~ (<<y, x>> \in OpToRel(<, Nat))
  BY NatLessThanWellFounded, WFMin
<1>2. \A y \in T : ~ (y < x)
  BY <1>1 DEF OpToRel
<1> QED
  BY <1>2

Sorted(side, levels) ==
  \A i, j \in 1 .. Len(levels) :
    i < j => Better(side, levels[i].price, levels[j].price)

LEMMA SideCases == \A side \in Sides : side = "bids" \/ side = "asks"
BY DEF Sides

LEMMA LevelShape ==
  /\ Volumes \subseteq Nat \ {0}
  /\ \A l \in Level : l.price \in Prices /\ l.price \in Nat /\ l.vol \in Volumes
  /\ \A c \in Change : /\ c.side \in Sides /\ c.price \in Prices /\ c.price \in Nat
                       /\ c.vol \in {0} \cup Volumes /\ c.vol \in Nat
                       /\ c.vol > 0 => [price |-> c.price, vol |-> c.vol] \in Level
<1>1. Volumes \subseteq Nat \ {0}
  BY VolsAssumption DEF Volumes
<1>2. \A l \in Level : l.price \in Prices /\ l.price \in Nat /\ l.vol \in Volumes
  BY PriceAssumption DEF Level
<1>3. ASSUME NEW c \in Change
      PROVE  /\ c.side \in Sides /\ c.price \in Prices /\ c.price \in Nat
             /\ c.vol \in {0} \cup Volumes /\ c.vol \in Nat
             /\ c.vol > 0 => [price |-> c.price, vol |-> c.vol] \in Level
  <2>1. c.side \in Sides /\ c.price \in Prices /\ c.vol \in {0} \cup Volumes
    BY DEF Change
  <2>2. c.price \in Nat
    BY <2>1, PriceAssumption
  <2>3. c.vol = 0 \/ (c.vol \in Volumes /\ c.vol \in Nat)
    BY <1>1, <2>1
  <2>4. c.vol \in Nat /\ (c.vol > 0 => c.vol \in Volumes)
    BY <2>3
  <2> QED
    BY <2>1, <2>2, <2>4 DEF Level
<1> QED
  BY <1>1, <1>2, <1>3

\* Two different prices of a side: one is better than the other, not both.
LEMMA Order ==
  ASSUME NEW side \in Sides
  PROVE  /\ \A p, q \in Nat : p # q => Better(side, p, q) \/ Better(side, q, p)
         /\ \A p, q, r \in Nat : Better(side, p, q) /\ Better(side, q, r) => Better(side, p, r)
         /\ \A p, q \in Nat : Better(side, p, q) => ~Better(side, q, p) /\ p # q
BY SideCases DEF Better

\* What InsertAt, RemoveAt and Front return.
LEMMA InsertAtIs ==
  ASSUME NEW S, NEW s \in Seq(S), NEW e \in S, NEW i \in 1 .. Len(s) + 1
  PROVE  LET r == InsertAt(s, i, e)
         IN  /\ r \in Seq(S) /\ Len(r) = Len(s) + 1
             /\ \A j \in 1 .. Len(s) + 1 :
                  r[j] = IF j < i THEN s[j] ELSE IF j = i THEN e ELSE s[j - 1]
<1> DEFINE a == SubSeq(s, 1, i - 1)
           b == SubSeq(s, i, Len(s))
<1>1. Len(s) \in Nat /\ \A j \in 1 .. Len(s) : s[j] \in S
  BY LenProperties, ElementOfSeq
<1>2. /\ a \in Seq(S) /\ Len(a) = i - 1
      /\ \A j \in 1 .. i - 1 : a[j] = s[j]
  BY <1>1, SubSeqProperties
<1>3. /\ b \in Seq(S) /\ Len(b) = Len(s) - i + 1
      /\ \A j \in 1 .. Len(s) - i + 1 : b[j] = s[i + j - 1]
  BY <1>1, SubSeqProperties
<1>4. <<e>> \in Seq(S) /\ Len(<<e>>) = 1 /\ <<e>>[1] = e
  OBVIOUS
<1> DEFINE ae == a \o <<e>>
<1>5. /\ ae \in Seq(S) /\ Len(ae) = i
      /\ \A j \in 1 .. i : ae[j] = IF j < i THEN s[j] ELSE e
  <2>1. /\ ae \in Seq(S) /\ Len(ae) = Len(a) + Len(<<e>>)
        /\ \A j \in 1 .. Len(a) + Len(<<e>>) :
             ae[j] = IF j <= Len(a) THEN a[j] ELSE <<e>>[j - Len(a)]
    BY <1>2, <1>4, ConcatProperties
  <2> HIDE DEF ae, a
  <2>2. Len(ae) = i
    BY <2>1, <1>1, <1>2, <1>4
  <2>3. ASSUME NEW j \in 1 .. i
        PROVE  ae[j] = IF j < i THEN s[j] ELSE e
    <3>1. CASE j < i
      <4>1. j \in 1 .. i - 1 /\ j <= Len(a)
        BY <3>1, <1>1, <1>2
      <4>2. j \in 1 .. Len(a) + Len(<<e>>)
        BY <4>1, <1>1, <1>2, <1>4
      <4> QED
        BY <3>1, <4>1, <4>2, <2>1, <1>2
    <3>2. CASE j = i
      <4>1. ~(j <= Len(a)) /\ j - Len(a) = 1 /\ ~(j < i)
        BY <3>2, <1>1, <1>2
      <4>2. j \in 1 .. Len(a) + Len(<<e>>)
        BY <3>2, <1>1, <1>2, <1>4
      <4> QED
        BY <4>1, <4>2, <2>1, <1>4
    <3> QED
      BY <3>1, <3>2, <1>1
  <2> QED
    BY <2>1, <2>2, <2>3
<1> DEFINE r == ae \o b
<1>6. /\ r \in Seq(S) /\ Len(r) = Len(s) + 1
      /\ \A j \in 1 .. Len(s) + 1 : r[j] = IF j <= i THEN ae[j] ELSE b[j - i]
  <2>1. /\ r \in Seq(S) /\ Len(r) = Len(ae) + Len(b)
        /\ \A j \in 1 .. Len(ae) + Len(b) :
             r[j] = IF j <= Len(ae) THEN ae[j] ELSE b[j - Len(ae)]
    BY ZenonT(40), <1>3, <1>5, ConcatProperties
  <2> HIDE DEF ae, b, r
  <2> QED
    BY <2>1, <1>1, <1>3, <1>5
<1>7. r = InsertAt(s, i, e)
  BY DEF InsertAt
<1> HIDE DEF ae, a, b, r
<1>8. \A j \in 1 .. Len(s) + 1 :
        r[j] = IF j < i THEN s[j] ELSE IF j = i THEN e ELSE s[j - 1]
  <2> TAKE j \in 1 .. Len(s) + 1
  <2>1. CASE j <= i
    BY <2>1, <1>1, <1>5, <1>6
  <2>2. CASE j > i
    <3>1. r[j] = b[j - i] /\ j - i \in 1 .. Len(s) - i + 1
      BY <2>2, <1>1, <1>6
    <3>2. b[j - i] = s[i + (j - i) - 1]
      BY <3>1, <1>3
    <3>3. i + (j - i) - 1 = j - 1
      BY <1>1
    <3> QED
      BY <2>2, <3>1, <3>2, <3>3, <1>1
  <2> QED
    BY <2>1, <2>2, <1>1
<1> QED
  BY <1>6, <1>7, <1>8

LEMMA RemoveAtIs ==
  ASSUME NEW S, NEW s \in Seq(S), NEW i \in 1 .. Len(s)
  PROVE  LET r == RemoveAt(s, i)
         IN  /\ r \in Seq(S) /\ Len(r) = Len(s) - 1
             /\ \A j \in 1 .. Len(s) - 1 : r[j] = IF j < i THEN s[j] ELSE s[j + 1]
<1> DEFINE a == SubSeq(s, 1, i - 1)
           b == SubSeq(s, i + 1, Len(s))
           r == a \o b
<1>1. Len(s) \in Nat /\ \A j \in 1 .. Len(s) : s[j] \in S
  BY LenProperties, ElementOfSeq
<1>2. /\ a \in Seq(S) /\ Len(a) = i - 1
      /\ \A j \in 1 .. i - 1 : a[j] = s[j]
  BY <1>1, SubSeqProperties
<1>3. /\ b \in Seq(S) /\ Len(b) = Len(s) - i
      /\ \A j \in 1 .. Len(s) - i : b[j] = s[i + j]
  BY <1>1, SubSeqProperties
<1>4. /\ r \in Seq(S) /\ Len(r) = Len(a) + Len(b)
      /\ \A j \in 1 .. Len(a) + Len(b) : r[j] = IF j <= Len(a) THEN a[j] ELSE b[j - Len(a)]
  BY <1>2, <1>3, ConcatProperties
<1>5. r = RemoveAt(s, i)
  BY DEF RemoveAt
<1> HIDE DEF a, b, r
<1>6. \A j \in 1 .. Len(s) - 1 : r[j] = IF j < i THEN s[j] ELSE s[j + 1]
  <2> TAKE j \in 1 .. Len(s) - 1
  <2>1. j \in 1 .. Len(a) + Len(b)
    BY <1>1, <1>2, <1>3
  <2>2. CASE j < i
    BY SMTT(60), <2>1, <2>2, <1>1, <1>2, <1>4
  <2>3. CASE ~(j < i)
    <3>1. r[j] = b[j - Len(a)] /\ j - Len(a) \in 1 .. Len(s) - i
      BY <2>1, <2>3, <1>1, <1>2, <1>3, <1>4
    <3>2. b[j - Len(a)] = s[i + (j - Len(a))]
      BY <3>1, <1>3
    <3>3. i + (j - Len(a)) = j + 1
      BY <1>1, <1>2
    <3> QED
      BY <2>3, <3>1, <3>2, <3>3
  <2> QED
    BY <2>2, <2>3
<1>7. r \in Seq(S) /\ Len(r) = Len(s) - 1
  BY <1>1, <1>2, <1>3, <1>4
<1> QED
  BY <1>5, <1>6, <1>7

LEMMA FirstIs ==
  ASSUME NEW S, NEW s \in Seq(S), NEW n \in 0 .. Len(s)
  PROVE  /\ SubSeq(s, 1, n) \in Seq(S) /\ Len(SubSeq(s, 1, n)) = n
         /\ \A j \in 1 .. n : SubSeq(s, 1, n)[j] = s[j]
<1>1. Len(s) \in Nat /\ \A j \in 1 .. Len(s) : s[j] \in S
  BY LenProperties, ElementOfSeq
<1> QED
  BY <1>1, SubSeqProperties

\* An insertion has a position: before it nothing is worse, after it all is.
LEMMA PositionIs ==
  ASSUME NEW side \in Sides, NEW levels \in Seq(Level), NEW price \in Nat
  PROVE  LET i == Position(side, levels, price)
         IN  /\ i \in 1 .. Len(levels) + 1
             /\ i <= Len(levels) => Better(side, price, levels[i].price)
             /\ \A j \in 1 .. i - 1 : ~Better(side, price, levels[j].price)
<1> DEFINE Good == {i \in 1 .. Len(levels) + 1 :
                      i <= Len(levels) => Better(side, price, levels[i].price)}
<1>1. Len(levels) \in Nat
  BY LenProperties
<1>2. Good \in SUBSET Nat /\ Len(levels) + 1 \in Good
  BY <1>1
<1>3. PICK i \in Good : \A k \in Good : i <= k
  BY <1>2, Least
<1>4. \A j \in 1 .. i - 1 : ~Better(side, price, levels[j].price)
  BY <1>1, <1>3
<1>5. \E k \in 1 .. Len(levels) + 1 :
        /\ k <= Len(levels) => Better(side, price, levels[k].price)
        /\ \A j \in 1 .. k - 1 : ~Better(side, price, levels[j].price)
  BY <1>3, <1>4
<1> QED
  BY <1>5 DEF Position

-----------------------------------------------------------------------------
\* What an insertion of a price the list does not have leaves.
LEMMA InsertedIs ==
  ASSUME NEW c \in Change, c.vol > 0, NEW levels \in Seq(Level), Sorted(c.side, levels),
         \A i \in 1 .. Len(levels) : levels[i].price # c.price
  PROVE  LET r == Inserted(levels, c)
         IN  /\ r \in Seq(Level) /\ Len(r) = Len(levels) + 1 /\ Sorted(c.side, r)
             /\ \A i \in 1 .. Len(r) :
                  \/ r[i] = [price |-> c.price, vol |-> c.vol]
                  \/ \E j \in 1 .. Len(levels) : r[i] = levels[j]
             /\ \A j \in 1 .. Len(levels) : \E i \in 1 .. Len(r) : r[i] = levels[j]
             /\ \E i \in 1 .. Len(r) : r[i] = [price |-> c.price, vol |-> c.vol]
<1> DEFINE side == c.side
           e == [price |-> c.price, vol |-> c.vol]
           n == Len(levels)
           k == Position(side, levels, c.price)
           r == Inserted(levels, c)
<1>1. side \in Sides /\ c.price \in Nat /\ e \in Level /\ e.price = c.price
  BY LevelShape
<1>2. n \in Nat /\ \A i \in 1 .. n : levels[i] \in Level /\ levels[i].price \in Nat
  BY LenProperties, ElementOfSeq, LevelShape
<1>3. /\ k \in 1 .. n + 1
      /\ k <= n => Better(side, c.price, levels[k].price)
      /\ \A j \in 1 .. k - 1 : ~Better(side, c.price, levels[j].price)
  BY <1>1, PositionIs
<1>4. /\ r \in Seq(Level) /\ Len(r) = n + 1
      /\ \A j \in 1 .. n + 1 : r[j] = IF j < k THEN levels[j] ELSE IF j = k THEN e ELSE levels[j - 1]
  <2>1. r = InsertAt(levels, k, e)
    BY DEF Inserted
  <2> HIDE DEF k, e, r
  <2>2. n = Len(levels)
    OBVIOUS
  <2> HIDE DEF n
  <2>3. e \in Level /\ k \in 1 .. Len(levels) + 1
    BY <2>2, <1>1, <1>3
  <2>4. LET t == InsertAt(levels, k, e)
        IN  /\ t \in Seq(Level) /\ Len(t) = Len(levels) + 1
            /\ \A j \in 1 .. Len(levels) + 1 :
                 t[j] = IF j < k THEN levels[j] ELSE IF j = k THEN e ELSE levels[j - 1]
    BY <2>3, InsertAtIs
  <2> QED
    BY <2>1, <2>2, <2>4
<1>5. \A i, j \in 1 .. n : i < j => Better(side, levels[i].price, levels[j].price)
  BY DEF Sorted
<1>6. \A i \in 1 .. n : levels[i].price # c.price
  OBVIOUS
<1> HIDE DEF k, r, n, e, side
<1>7. \A j \in 1 .. k - 1 : Better(side, levels[j].price, c.price)
  BY <1>1, <1>2, <1>3, <1>6, Order
<1>8. \A j \in k .. n : Better(side, c.price, levels[j].price)
  <2> TAKE j \in k .. n
  <2>1. Better(side, c.price, levels[k].price) /\ k \in 1 .. n /\ j \in 1 .. n
    BY <1>2, <1>3
  <2>2. CASE j = k
    BY <2>1, <2>2
  <2>3. CASE j # k
    <3>0. k < j
      BY <2>1, <2>3, <1>2
    <3>1. Better(side, levels[k].price, levels[j].price)
      BY <2>1, <3>0, <1>5
    <3> QED
      BY <2>1, <3>1, <1>1, <1>2, Order
  <2> QED
    BY <2>2, <2>3
<1>9. ASSUME NEW i \in 1 .. n + 1, NEW j \in 1 .. n + 1, i < j
      PROVE  Better(side, r[i].price, r[j].price)
  <2>1. CASE j < k
    <3>1. r[i] = levels[i] /\ r[j] = levels[j] /\ i \in 1 .. n /\ j \in 1 .. n
      BY <2>1, <1>2, <1>3, <1>4, <1>9
    <3> QED
      BY <3>1, <1>5, <1>9
  <2>2. CASE j = k
    <3>1. r[j] = e /\ r[i] = levels[i] /\ i \in 1 .. k - 1
      BY <2>2, <1>2, <1>3, <1>4, <1>9
    <3> QED
      BY <3>1, <1>1, <1>7
  <2>3. CASE j > k /\ i = k
    <3>1. r[i] = e /\ r[j] = levels[j - 1] /\ j - 1 \in k .. n
      BY <2>3, <1>2, <1>3, <1>4, <1>9
    <3> QED
      BY <3>1, <1>1, <1>8
  <2>4. CASE j > k /\ i < k
    <3>1. r[i] = levels[i] /\ r[j] = levels[j - 1] /\ i \in 1 .. n /\ j - 1 \in 1 .. n /\ i < j - 1
      BY <2>4, <1>2, <1>3, <1>4, <1>9
    <3> QED
      BY <3>1, <1>5
  <2>5. CASE j > k /\ i > k
    <3>1. r[i] = levels[i - 1] /\ r[j] = levels[j - 1] /\ i - 1 \in 1 .. n /\ j - 1 \in 1 .. n /\ i - 1 < j - 1
      BY <2>5, <1>2, <1>3, <1>4, <1>9
    <3> QED
      BY <3>1, <1>5
  <2> QED
    BY <2>1, <2>2, <2>3, <2>4, <2>5, <1>2, <1>3
<1>10. Sorted(side, r)
  BY <1>4, <1>9 DEF Sorted
<1>11. \A i \in 1 .. n + 1 : r[i] = e \/ \E j \in 1 .. n : r[i] = levels[j]
  <2> TAKE i \in 1 .. n + 1
  <2>1. CASE i < k
    BY <2>1, <1>2, <1>3, <1>4
  <2>2. CASE i = k
    BY <2>2, <1>4
  <2>3. CASE i > k
    <3>1. r[i] = levels[i - 1] /\ i - 1 \in 1 .. n
      BY <2>3, <1>2, <1>3, <1>4
    <3> QED
      BY <3>1
  <2> QED
    BY <2>1, <2>2, <2>3, <1>2, <1>3
<1>12. \A j \in 1 .. n : \E i \in 1 .. n + 1 : r[i] = levels[j]
  <2> TAKE j \in 1 .. n
  <2>1. CASE j < k
    <3>1. r[j] = levels[j] /\ j \in 1 .. n + 1
      BY <2>1, <1>2, <1>3, <1>4
    <3> QED
      BY <3>1
  <2>2. CASE ~(j < k)
    <3>1. j + 1 \in 1 .. n + 1 /\ ~(j + 1 < k) /\ j + 1 # k /\ (j + 1) - 1 = j
      BY <2>2, <1>2, <1>3
    <3>2. r[j + 1] = levels[(j + 1) - 1]
      BY <3>1, <1>4
    <3> QED
      BY <3>1, <3>2
  <2> QED
    BY <2>1, <2>2
<1>13. \E i \in 1 .. n + 1 : r[i] = e
  <2>1. r[k] = e
    BY <1>2, <1>3, <1>4
  <2> QED
    BY <2>1, <1>3
<1>14. /\ r \in Seq(Level) /\ Len(r) = n + 1 /\ Sorted(side, r)
       /\ \A i \in 1 .. Len(r) : r[i] = e \/ \E j \in 1 .. n : r[i] = levels[j]
       /\ \A j \in 1 .. n : \E i \in 1 .. Len(r) : r[i] = levels[j]
       /\ \E i \in 1 .. Len(r) : r[i] = e
  BY <1>4, <1>10, <1>11, <1>12, <1>13
<1> QED
  BY <1>14 DEF r, n, e, side

\* What update_side_desc and update_side_asc leave, when prices are compared
\* exactly or not: a sorted list that is no longer than N.
LEMMA HeldIs ==
  ASSUME NEW levels \in Seq(Level), NEW price \in Nat
  PROVE  /\ Held(levels, price) \in SUBSET (1 .. Len(levels))
         /\ Held(levels, price) # {} =>
              LET i == CHOOSE i \in Held(levels, price) : \A j \in Held(levels, price) : i <= j
              IN  i \in Held(levels, price)
         /\ \A i \in 1 .. Len(levels) : levels[i].price = price => i \in Held(levels, price)
         /\ Eps = 1 => \A i \in Held(levels, price) : levels[i].price = price
<1>1. Len(levels) \in Nat /\ \A i \in 1 .. Len(levels) : levels[i].price \in Nat
  BY LenProperties, ElementOfSeq, LevelShape
<1>2. Held(levels, price) \in SUBSET (1 .. Len(levels)) /\ Held(levels, price) \in SUBSET Nat
  BY <1>1 DEF Held
<1>3. ASSUME Held(levels, price) # {}
      PROVE  LET i == CHOOSE i \in Held(levels, price) : \A j \in Held(levels, price) : i <= j
             IN  i \in Held(levels, price)
  <2>1. \E i \in Held(levels, price) : \A j \in Held(levels, price) : i <= j
    BY <1>2, <1>3, Least
  <2> QED
    BY <2>1
<1>4. \A i \in 1 .. Len(levels) : levels[i].price = price => i \in Held(levels, price)
  BY <1>1, EpsAssumption DEF Held, SamePrice
<1>5. Eps = 1 => \A i \in Held(levels, price) : levels[i].price = price
  BY <1>1 DEF Held, SamePrice
<1> QED
  BY <1>2, <1>3, <1>4, <1>5

\* What became of the levels of a list in an update.
Follows(levels, c, r) ==
  /\ \A i \in 1 .. Len(r) :
       \/ r[i].price = c.price /\ r[i].vol = c.vol /\ c.vol > 0
       \/ r[i].price # c.price /\ \E j \in 1 .. Len(levels) : r[i] = levels[j]
  /\ \A p \in Prices :
       (IF p = c.price THEN c.vol > 0 ELSE \E j \in 1 .. Len(levels) : levels[j].price = p) =>
         \/ \E i \in 1 .. Len(r) : r[i].price = p
         \/ Overflows(levels, c) /\ Last(Inserted(levels, c)).price = p

LEMMA ChangedIs ==
  ASSUME NEW c \in Change, NEW levels \in Seq(Level), Sorted(c.side, levels),
         NEW i \in 1 .. Len(levels)
  PROVE  LET r == Changed(levels, i, c.vol)
         IN  /\ r \in Seq(Level) /\ Len(r) <= Len(levels) /\ Sorted(c.side, r)
             /\ levels[i].price = c.price => Follows(levels, c, r)
<1> DEFINE n == Len(levels)
           side == c.side
           r == Changed(levels, i, c.vol)
<1>1. n \in Nat /\ \A j \in 1 .. n : levels[j] \in Level /\ levels[j].price \in Nat
  BY LenProperties, ElementOfSeq, LevelShape
<1>2. side \in Sides /\ c.vol \in {0} \cup Volumes /\ c.vol \in Nat
  BY LevelShape
<1>3. \A j, k \in 1 .. n : j < k => Better(side, levels[j].price, levels[k].price)
  BY DEF Sorted
<1>4. \A j, k \in 1 .. n : j # k => levels[j].price # levels[k].price
  BY <1>1, <1>2, <1>3, Order
<1>5. CASE c.vol = 0
  <2>1. r = RemoveAt(levels, i)
    BY <1>5 DEF Changed
  <2> HIDE DEF r
  <2>2. /\ r \in Seq(Level) /\ Len(r) = n - 1
        /\ \A j \in 1 .. n - 1 : r[j] = IF j < i THEN levels[j] ELSE levels[j + 1]
    BY <2>1, RemoveAtIs
  <2> HIDE DEF n, side
  <2>3. \A j \in 1 .. n - 1 : \E k \in 1 .. n :
          k # i /\ r[j] = levels[k] /\ k = IF j < i THEN j ELSE j + 1
    BY <1>1, <2>2 DEF n
  <2>4. ASSUME NEW j \in 1 .. n - 1, NEW k \in 1 .. n - 1, j < k
        PROVE  Better(side, r[j].price, r[k].price)
    <3>1. PICK a \in 1 .. n : r[j] = levels[a] /\ a = IF j < i THEN j ELSE j + 1
      BY <2>3
    <3>2. PICK b \in 1 .. n : r[k] = levels[b] /\ b = IF k < i THEN k ELSE k + 1
      BY <2>3
    <3>3. a < b
      BY <2>4, <3>1, <3>2, <1>1
    <3> QED
      BY <3>1, <3>2, <3>3, <1>3
  <2>5. \A k \in 1 .. n : k # i => \E j \in 1 .. n - 1 : r[j] = levels[k]
    <3> SUFFICES ASSUME NEW k \in 1 .. n, k # i
                 PROVE  \E j \in 1 .. n - 1 : r[j] = levels[k]
      OBVIOUS
    <3>1. CASE k < i
      <4>1. k \in 1 .. n - 1 /\ r[k] = levels[k]
        BY <3>1, <1>1, <2>2 DEF n
      <4> QED
        BY <4>1
    <3>2. CASE ~(k < i)
      <4>1. k - 1 \in 1 .. n - 1 /\ ~(k - 1 < i) /\ (k - 1) + 1 = k
        BY <3>2, <1>1 DEF n
      <4>2. r[k - 1] = levels[(k - 1) + 1]
        BY <4>1, <2>2
      <4> QED
        BY <4>1, <4>2
    <3> QED
      BY <3>1, <3>2
  <2>6. Sorted(side, r) /\ Len(r) <= n
    BY <1>1, <2>2, <2>4 DEF Sorted
  <2>7. ASSUME levels[i].price = c.price
        PROVE  Follows(levels, c, r)
    <3>1. \A j \in 1 .. Len(r) : r[j].price # c.price /\ \E k \in 1 .. n : r[j] = levels[k]
      <4> TAKE j \in 1 .. Len(r)
      <4>1. PICK k \in 1 .. n : k # i /\ r[j] = levels[k]
        BY <2>2, <2>3
      <4>2. levels[k].price # levels[i].price
        BY <4>1, <1>4 DEF n
      <4> QED
        BY <4>1, <4>2, <2>7
    <3>2. \A p \in Prices : p # c.price /\ (\E k \in 1 .. n : levels[k].price = p) =>
            \E j \in 1 .. Len(r) : r[j].price = p
      BY <2>2, <2>5, <2>7
    <3> QED
      BY <3>1, <3>2, <1>5 DEF Follows, n
  <2> QED
    BY <2>2, <2>6, <2>7 DEF r, n, side
<1>6. CASE c.vol # 0
  <2> DEFINE l == [levels[i] EXCEPT !.vol = c.vol]
  <2>1. r = [levels EXCEPT ![i] = l]
    BY <1>6 DEF Changed
  <2>2. l \in Level /\ l.price = levels[i].price /\ l.vol = c.vol
    BY <1>1, <1>2, <1>6 DEF Level
  <2> HIDE DEF r, l
  <2>3. /\ r \in Seq(Level) /\ Len(r) = n
        /\ \A j \in 1 .. n : r[j] = IF j = i THEN l ELSE levels[j]
    BY <2>1, <2>2, ExceptSeq
  <2> HIDE DEF n, side
  <2>4. \A j \in 1 .. n : r[j].price = levels[j].price
    BY <2>2, <2>3
  <2>5. Sorted(side, r)
    BY <1>3, <2>3, <2>4 DEF Sorted
  <2>6. ASSUME levels[i].price = c.price
        PROVE  Follows(levels, c, r)
    <3>1. i \in 1 .. n /\ c.vol > 0
      BY <1>2, <1>6 DEF n
    <3>2. \A j \in 1 .. Len(r) :
            \/ r[j].price = c.price /\ r[j].vol = c.vol
            \/ r[j].price # c.price /\ \E k \in 1 .. n : r[j] = levels[k]
      BY <2>2, <2>3, <2>4, <2>6, <3>1, <1>4
    <3>3. \A p \in Prices : (\E k \in 1 .. n : levels[k].price = p) =>
            \E j \in 1 .. Len(r) : r[j].price = p
      BY <2>3, <2>4
    <3>4. \E k \in 1 .. n : levels[k].price = c.price
      BY <2>6, <3>1
    <3>5. \A p \in Prices :
            (IF p = c.price THEN c.vol > 0 ELSE \E j \in 1 .. n : levels[j].price = p) =>
              \E j \in 1 .. Len(r) : r[j].price = p
      BY <3>3, <3>4
    <3> QED
      BY <3>1, <3>2, <3>5 DEF Follows, n
  <2> QED
    BY <2>3, <2>5, <2>6, <1>1 DEF r, n, side
<1> QED
  BY <1>5, <1>6

LEMMA AddedIs ==
  ASSUME NEW c \in Change, c.vol > 0, NEW levels \in Seq(Level), Sorted(c.side, levels),
         Held(levels, c.price) = {}
  PROVE  LET r == Added(levels, c)
         IN  /\ r \in Seq(Level) /\ Sorted(c.side, r) /\ Follows(levels, c, r)
             /\ Len(levels) <= N => Len(r) <= N
<1> DEFINE n == Len(levels)
           s == Inserted(levels, c)
           e == [price |-> c.price, vol |-> c.vol]
           r == Added(levels, c)
<1>1. \A j \in 1 .. n : levels[j].price # c.price
  BY HeldIs, LevelShape
<1>2. /\ s \in Seq(Level) /\ Len(s) = n + 1 /\ Sorted(c.side, s)
      /\ \A i \in 1 .. Len(s) : s[i] = e \/ \E j \in 1 .. n : s[i] = levels[j]
      /\ \A j \in 1 .. n : \E i \in 1 .. Len(s) : s[i] = levels[j]
      /\ \E i \in 1 .. Len(s) : s[i] = e
  BY <1>1, InsertedIs
<1>3. n \in Nat /\ e.price = c.price /\ e.vol = c.vol
  BY LenProperties
<1>4. CASE n # N
  <2>1. r = s
    BY <1>4 DEF Added
  <2> HIDE DEF r, s, e, n
  <2>2. \A i \in 1 .. Len(r) :
          \/ r[i].price = c.price /\ r[i].vol = c.vol
          \/ r[i].price # c.price /\ \E j \in 1 .. n : r[i] = levels[j]
    BY <2>1, <1>1, <1>2, <1>3
  <2>3. \A p \in Prices :
          (IF p = c.price THEN c.vol > 0 ELSE \E j \in 1 .. n : levels[j].price = p) =>
            \E i \in 1 .. Len(r) : r[i].price = p
    BY <2>1, <1>2, <1>3
  <2>4. Follows(levels, c, r)
    BY <2>2, <2>3 DEF Follows, n
  <2>5. n <= N => Len(r) <= N
    BY <2>1, <1>2, <1>3, <1>4, SizesAssumption
  <2> QED
    BY <2>1, <2>4, <2>5, <1>2 DEF r, n
<1>5. CASE n = N
  <2>1. r = SubSeq(s, 1, n)
    <3>1. r = SubSeq(s, 1, Len(s) - 1)
      BY <1>5 DEF Added, Front
    <3> QED
      BY <3>1, <1>2, <1>3
  <2>2. Overflows(levels, c) /\ Last(Inserted(levels, c)) = s[n + 1]
    BY <1>2, <1>5 DEF Overflows, Last
  <2> HIDE DEF r, s, e, n
  <2>3. /\ r \in Seq(Level) /\ Len(r) = n
        /\ \A j \in 1 .. n : r[j] = s[j]
    BY <2>1, <1>2, <1>3, FirstIs
  <2>4. Sorted(c.side, r)
    BY <2>3, <1>2, <1>3 DEF Sorted
  <2>5. \A i \in 1 .. Len(r) :
          \/ r[i].price = c.price /\ r[i].vol = c.vol
          \/ r[i].price # c.price /\ \E j \in 1 .. n : r[i] = levels[j]
    <3> TAKE i \in 1 .. Len(r)
    <3>1. i \in 1 .. Len(s) /\ r[i] = s[i]
      BY <2>3, <1>2, <1>3
    <3>2. s[i] = e \/ \E j \in 1 .. n : s[i] = levels[j]
      BY <3>1, <1>2
    <3> QED
      BY <3>1, <3>2, <1>1, <1>3
  <2>6. \A i \in 1 .. Len(s) :
          (\E j \in 1 .. Len(r) : r[j].price = s[i].price) \/ s[n + 1].price = s[i].price
    BY <2>3, <1>2, <1>3
  <2>7. \A p \in Prices :
          (IF p = c.price THEN c.vol > 0 ELSE \E j \in 1 .. n : levels[j].price = p) =>
            \E i \in 1 .. Len(s) : s[i].price = p
    BY <1>2, <1>3
  <2>8. Follows(levels, c, r)
    BY <2>2, <2>5, <2>6, <2>7 DEF Follows, n
  <2> QED
    BY <2>3, <2>4, <2>8, <1>3, <1>5 DEF r, n
<1> QED
  BY <1>4, <1>5

LEMMA UpdateIs ==
  ASSUME NEW c \in Change, NEW levels \in Seq(Level), Sorted(c.side, levels)
  PROVE  LET r == UpdateSide(levels, c)
         IN  /\ r \in Seq(Level) /\ Sorted(c.side, r)
             /\ Len(levels) <= N => Len(r) <= N
             /\ Eps = 1 => Follows(levels, c, r)
<1> DEFINE r == UpdateSide(levels, c)
           held == Held(levels, c.price)
<1>1. Len(levels) \in Nat /\ c.price \in Nat /\ c.vol \in Nat /\ N \in Nat
  BY LenProperties, LevelShape, SizesAssumption
<1>2. /\ held \in SUBSET (1 .. Len(levels))
      /\ \A i \in 1 .. Len(levels) : levels[i].price = c.price => i \in held
      /\ Eps = 1 => \A i \in held : levels[i].price = c.price
  BY <1>1, HeldIs
<1>3. CASE held # {}
  <2> DEFINE i == CHOOSE i \in held : \A j \in held : i <= j
  <2>1. i \in held
    BY <1>1, <1>3, HeldIs
  <2>2. r = Changed(levels, i, c.vol)
    BY <1>3 DEF UpdateSide
  <2> HIDE DEF i, r, held
  <2>3. i \in 1 .. Len(levels)
    BY <2>1, <1>2
  <2>4. /\ r \in Seq(Level) /\ Len(r) <= Len(levels) /\ Sorted(c.side, r)
        /\ levels[i].price = c.price => Follows(levels, c, r)
    BY <2>2, <2>3, ChangedIs
  <2>5. Len(r) \in Nat
    BY <2>4, LenProperties
  <2> QED
    BY <2>1, <2>4, <2>5, <1>1, <1>2 DEF r
<1>4. CASE held = {} /\ c.vol > 0
  <2>1. r = Added(levels, c)
    BY <1>4 DEF UpdateSide
  <2> QED
    BY <2>1, <1>4, AddedIs
<1>5. CASE held = {} /\ ~(c.vol > 0)
  <2>1. r = levels
    BY <1>5 DEF UpdateSide
  <2>2. \A j \in 1 .. Len(levels) : levels[j].price # c.price
    BY <1>2, <1>5
  <2> HIDE DEF r, held
  <2>3. Follows(levels, c, r)
    BY <2>1, <2>2, <1>5 DEF Follows
  <2> QED
    BY <2>1, <2>3 DEF r
<1> QED
  BY <1>3, <1>4, <1>5

-----------------------------------------------------------------------------
(* Part two: what the venue sends.                                         *)

Venues == [Sides -> [Prices -> {0} \cup Volumes]]
Messages == [snapshot : BOOLEAN, bids : Seq(Change), asks : Seq(Change)]
Part(m, side) == IF side = "bids" THEN m.bids ELSE m.asks
View(b) == [side \in Sides |-> Shown(b, side)]

LEMMA ShownIs ==
  ASSUME NEW b \in Venues, NEW side \in Sides
  PROVE  /\ Shown(b, side) \in [Prices -> {0} \cup Volumes]
         /\ \A p \in Prices : /\ Shown(b, side)[p] = IF InWindow(b, side, p) THEN b[side][p] ELSE 0
                              /\ Shown(b, side)[p] # 0 <=> InWindow(b, side, p)
<1>1. \A p \in Prices : b[side][p] \in {0} \cup Volumes
  BY DEF Venues
<1>2. \A p \in Prices : Shown(b, side)[p] = IF InWindow(b, side, p) THEN b[side][p] ELSE 0
  BY DEF Shown
<1>3. \A p \in Prices : InWindow(b, side, p) => b[side][p] # 0
  BY DEF InWindow
<1>4. Shown(b, side) \in [Prices -> {0} \cup Volumes]
  BY <1>1 DEF Shown
<1> QED
  BY <1>2, <1>3, <1>4

\* The window of a side has no more than N levels.
LEMMA WindowIsSmall ==
  ASSUME NEW b \in Venues, NEW side \in Sides
  PROVE  LET W == {p \in Prices : InWindow(b, side, p)}
         IN  IsFiniteSet(W) /\ Cardinality(W) <= N
<1> DEFINE W == {p \in Prices : InWindow(b, side, p)}
           Behind(x) == {q \in W : Better(side, x, q)}
           Ahead(x) == {q \in Prices : b[side][q] > 0 /\ Better(side, q, x)}
           Sizes == {Cardinality(Behind(x)) : x \in W}
<1>1. IsFiniteSet(W) /\ Cardinality(W) \in Nat /\ W \subseteq Nat
  <2>1. W \in SUBSET Prices
    OBVIOUS
  <2>2. IsFiniteSet(W)
    BY <2>1, PriceAssumption, FS_Subset
  <2> QED
    BY <2>1, <2>2, PriceAssumption, FS_CardinalityType
<1>2. CASE W = {}
  <2>1. Cardinality(W) = 0
    BY <1>2, FS_EmptySet
  <2> QED
    BY <2>1, <1>1, SizesAssumption
<1>3. CASE W # {}
  <2>1. \A x \in W : /\ Behind(x) \in SUBSET W /\ IsFiniteSet(Behind(x))
                     /\ Cardinality(Behind(x)) \in Nat
    <3> TAKE x \in W
    <3>1. Behind(x) \in SUBSET W
      OBVIOUS
    <3>2. IsFiniteSet(Behind(x))
      BY <3>1, <1>1, FS_Subset
    <3> QED
      BY <3>1, <3>2, FS_CardinalityType
  <2>2. Sizes \in SUBSET Nat /\ Sizes # {}
    BY <2>1, <1>3
  <2>3. PICK n \in Sizes : \A k \in Sizes : n <= k
    <3> HIDE DEF Sizes
    <3> QED
      BY <2>2, Least
  <2>4. PICK x \in W : \A y \in W : Cardinality(Behind(x)) <= Cardinality(Behind(y))
    BY <2>3
  <2>5. \A y \in W : ~Better(side, x, y)
    <3> SUFFICES ASSUME NEW y \in W, Better(side, x, y) PROVE FALSE
      OBVIOUS
    <3>1. y \in Behind(x) /\ y \notin Behind(y)
      BY <1>1, Order
    <3>2. Behind(y) \in SUBSET Behind(x)
      BY <1>1, Order
    <3>3. /\ Cardinality(Behind(y)) <= Cardinality(Behind(x))
          /\ Cardinality(Behind(x)) = Cardinality(Behind(y)) => Behind(x) = Behind(y)
      <4> HIDE DEF Behind
      <4> QED
        BY <3>2, <2>1, FS_Subset
    <3>4. Cardinality(Behind(x)) = Cardinality(Behind(y))
      <4> HIDE DEF Behind
      <4> QED
        BY <3>3, <2>1, <2>4
    <3> QED
      BY <3>1, <3>3, <3>4
  <2>6. W \ {x} \in SUBSET Ahead(x)
    BY <1>1, <2>5, Order DEF InWindow
  <2>7. IsFiniteSet(Ahead(x)) /\ Cardinality(Ahead(x)) \in Nat
    <3>1. Ahead(x) \in SUBSET Prices
      OBVIOUS
    <3>2. IsFiniteSet(Ahead(x))
      BY <3>1, PriceAssumption, FS_Subset
    <3> QED
      BY <3>2, FS_CardinalityType
  <2>8. Cardinality(Ahead(x)) < N
    BY DEF InWindow
  <2> HIDE DEF Ahead, W
  <2>9. Cardinality(W \ {x}) <= Cardinality(Ahead(x))
    BY <2>6, <2>7, FS_Subset
  <2>10. Cardinality(W \ {x}) = Cardinality(W) - 1
    BY <1>1, <2>4, FS_RemoveElement
  <2>11. Cardinality(W) <= N
    BY <1>1, <2>7, <2>8, <2>9, <2>10, SizesAssumption
  <2> QED
    BY <1>1, <2>11 DEF W
<1> QED
  BY <1>2, <1>3

\* The sequences that list a finite set.
LEMMA Listing ==
  ASSUME NEW S, IsFiniteSet(S), NEW s \in SetToSeqs(S)
  PROVE  /\ s \in Seq(S) /\ Len(s) = Cardinality(S)
         /\ \A i, j \in 1 .. Len(s) : i # j => s[i] # s[j]
         /\ \A e \in S : \E i \in 1 .. Len(s) : s[i] = e
<1> DEFINE n == Cardinality(S)
<1>1. n \in Nat
  BY FS_CardinalityType
<1>2. s \in [1 .. n -> S] /\ \A i, j \in 1 .. n : i # j => s[i] # s[j]
  BY DEF SetToSeqs
<1> HIDE DEF n
<1>3. s \in Seq(S) /\ Len(s) = n
  BY <1>1, <1>2
<1>4. s \in Injection(1 .. n, S)
  BY <1>2 DEF Injection, IsInjective
<1>5. IsFiniteSet(1 .. n) /\ Cardinality(1 .. n) = n
  BY <1>1, FS_Interval
<1>6. s \in Surjection(1 .. n, S)
  BY <1>4, <1>5, FS_Injection DEF n
<1>7. \A e \in S : \E i \in 1 .. n : s[i] = e
  BY <1>6 DEF Surjection
<1> QED
  BY <1>2, <1>3, <1>7 DEF n

\* What a message says of one side.
Lists(s, old, new, side) ==
  /\ s \in Seq(Change)
  /\ \A i \in 1 .. Len(s) : /\ s[i].side = side /\ s[i].price \in Prices
                            /\ s[i].vol = Shown(new, side)[s[i].price]
                            /\ Shown(new, side)[s[i].price] # Shown(old, side)[s[i].price]
  /\ \A i, j \in 1 .. Len(s) : i # j => s[i].price # s[j].price
  /\ \A p \in Prices : Shown(new, side)[p] # Shown(old, side)[p] =>
       \E i \in 1 .. Len(s) : s[i].price = p
  /\ Len(s) <= Cardinality({p \in Prices : Shown(new, side)[p] # Shown(old, side)[p]})

LEMMA ChangesAre ==
  ASSUME NEW old \in Venues, NEW new \in Venues, NEW side \in Sides,
         NEW s \in SetToSeqs(Changes(old, new, side))
  PROVE  Lists(s, old, new, side)
<1> DEFINE D == {q \in Prices : Shown(new, side)[q] # Shown(old, side)[q]}
           C(p) == [side |-> side, price |-> p, vol |-> Shown(new, side)[p]]
           S == Changes(old, new, side)
           f == [p \in D |-> C(p)]
<1>1. S = {C(p) : p \in D}
  BY DEF Changes
<1>2. IsFiniteSet(D) /\ Cardinality(D) \in Nat
  <2>1. D \in SUBSET Prices
    OBVIOUS
  <2>2. IsFiniteSet(D)
    BY <2>1, PriceAssumption, FS_Subset
  <2> QED
    BY <2>2, FS_CardinalityType
<1>3. f \in Surjection(D, S)
  BY <1>1 DEF Surjection
<1>4. IsFiniteSet(S) /\ Cardinality(S) <= Cardinality(D)
  <2> HIDE DEF f, S, D
  <2> QED
    BY <1>2, <1>3, FS_Surjection
<1>5. \A p \in Prices : C(p) \in Change
  BY ShownIs DEF Change
<1>6. \A c \in S : /\ c \in Change /\ c.side = side /\ c.price \in D
                  /\ c.vol = Shown(new, side)[c.price] /\ c = C(c.price)
  BY <1>1, <1>5
<1>7. \A p \in D : C(p) \in S /\ C(p).price = p
  BY <1>1
<1> HIDE DEF S, C
<1>8. /\ s \in Seq(S) /\ Len(s) = Cardinality(S)
      /\ \A i, j \in 1 .. Len(s) : i # j => s[i] # s[j]
      /\ \A e \in S : \E i \in 1 .. Len(s) : s[i] = e
  BY <1>4, Listing DEF S
<1>9. s \in Seq(Change) /\ \A i \in 1 .. Len(s) : s[i] \in S
  <2>1. S \subseteq Change
    BY <1>6
  <2> QED
    BY <1>8, <2>1, SeqMonotonic, ElementOfSeq
<1>10. \A i, j \in 1 .. Len(s) : i # j => s[i].price # s[j].price
  BY <1>6, <1>8, <1>9
<1>11. \A p \in D : \E i \in 1 .. Len(s) : s[i].price = p
  BY <1>7, <1>8
<1> QED
  BY <1>4, <1>6, <1>8, <1>9, <1>10, <1>11 DEF Lists

\* A message: every price once per side, and no more levels than fit.
MessageOK(m) ==
  /\ m \in Messages
  /\ \A side \in Sides :
       /\ \A i \in 1 .. Len(Part(m, side)) : Part(m, side)[i].side = side
       /\ \A i, j \in 1 .. Len(Part(m, side)) :
            i # j => Part(m, side)[i].price # Part(m, side)[j].price
       /\ m.snapshot => /\ \A i \in 1 .. Len(Part(m, side)) : Part(m, side)[i].vol > 0
                        /\ Len(Part(m, side)) <= N

\* It leads from one view of the venue to another.
Leads(m, v, w) ==
  \A side \in Sides :
    /\ \A i \in 1 .. Len(Part(m, side)) :
         Part(m, side)[i].vol = w[side][Part(m, side)[i].price]
    /\ \A p \in Prices : w[side][p] # (IF m.snapshot THEN 0 ELSE v[side][p]) =>
         \E i \in 1 .. Len(Part(m, side)) : Part(m, side)[i].price = p

LEMMA NothingIs ==
  /\ Nothing \in Venues
  /\ \A side \in Sides : \A p \in Prices : Shown(Nothing, side)[p] = 0
<1>1. Nothing \in Venues
  BY DEF Nothing, Venues
<1>2. \A side \in Sides : \A p \in Prices : ~InWindow(Nothing, side, p)
  BY DEF Nothing, InWindow
<1> QED
  BY <1>1, <1>2, ShownIs

LEMMA DeltaIs ==
  ASSUME NEW old \in Venues, NEW new \in Venues,
         NEW b \in SetToSeqs(Changes(old, new, "bids")),
         NEW a \in SetToSeqs(Changes(old, new, "asks"))
  PROVE  LET m == [snapshot |-> FALSE, bids |-> b, asks |-> a]
         IN  /\ MessageOK(m) /\ Leads(m, View(old), View(new))
             /\ b \o a = <<>> => View(new) = View(old)
<1> DEFINE m == [snapshot |-> FALSE, bids |-> b, asks |-> a]
<1>1. \A side \in Sides : Lists(Part(m, side), old, new, side)
  <2>1. \A side \in Sides : Part(m, side) \in SetToSeqs(Changes(old, new, side))
    BY SideCases DEF Part
  <2> HIDE DEF m
  <2> QED
    BY <2>1, ChangesAre
<1>2. "bids" \in Sides /\ "asks" \in Sides
  BY DEF Sides
<1>3. b \in Seq(Change) /\ a \in Seq(Change)
  BY <1>2, ChangesAre DEF Lists
<1>4. m \in Messages /\ ~m.snapshot
  BY <1>3 DEF Messages
<1>5. \A side \in Sides : View(old)[side] = Shown(old, side) /\ View(new)[side] = Shown(new, side)
  BY DEF View
<1>6. MessageOK(m) /\ Leads(m, View(old), View(new))
  <2> HIDE DEF m
  <2>1. MessageOK(m)
    BY <1>1, <1>4 DEF MessageOK, Lists
  <2>2. Leads(m, View(old), View(new))
    <3> SUFFICES ASSUME NEW side \in Sides
                 PROVE  /\ \A i \in 1 .. Len(Part(m, side)) :
                             Part(m, side)[i].vol = Shown(new, side)[Part(m, side)[i].price]
                        /\ \A p \in Prices : Shown(new, side)[p] # Shown(old, side)[p] =>
                             \E i \in 1 .. Len(Part(m, side)) : Part(m, side)[i].price = p
      BY <1>4, <1>5 DEF Leads
    <3> DEFINE q == Part(m, side)
    <3>1. Lists(q, old, new, side)
      BY <1>1
    <3> HIDE DEF q
    <3>2. /\ \A i \in 1 .. Len(q) : q[i].vol = Shown(new, side)[q[i].price]
          /\ \A p \in Prices : Shown(new, side)[p] # Shown(old, side)[p] =>
               \E i \in 1 .. Len(q) : q[i].price = p
      BY <3>1 DEF Lists
    <3> QED
      BY <3>2 DEF q
  <2> QED
    BY <2>1, <2>2
<1>7. ASSUME b \o a = <<>>
      PROVE  View(new) = View(old)
  <2>1. b = <<>> /\ a = <<>>
    BY <1>3, <1>7, ConcatSimplifications!concIsEmpty
  <2>2. \A side \in Sides : Len(Part(m, side)) = 0
    BY <2>1, SideCases DEF Part
  <2>3. \A side \in Sides : \A p \in Prices : Shown(new, side)[p] = Shown(old, side)[p]
    <3> HIDE DEF m
    <3> QED
      <4> TAKE side \in Sides
      <4> DEFINE q == Part(m, side)
      <4>1. Lists(q, old, new, side) /\ Len(q) = 0
        BY <1>1, <2>2
      <4> HIDE DEF q
      <4>2. \A p \in Prices : Shown(new, side)[p] # Shown(old, side)[p] =>
              \E i \in 1 .. Len(q) : q[i].price = p
        BY <4>1 DEF Lists
      <4> QED
        BY <4>1, <4>2
  <2>4. \A side \in Sides : Shown(new, side) = Shown(old, side)
    BY <2>3 DEF Shown
  <2> QED
    BY <2>4 DEF View
<1> QED
  BY <1>6, <1>7

LEMMA SnapshotIs ==
  ASSUME NEW new \in Venues,
         NEW b \in SetToSeqs(Changes(Nothing, new, "bids")),
         NEW a \in SetToSeqs(Changes(Nothing, new, "asks")),
         NEW v
  PROVE  LET m == [snapshot |-> TRUE, bids |-> b, asks |-> a]
         IN  MessageOK(m) /\ Leads(m, v, View(new))
<1> DEFINE m == [snapshot |-> TRUE, bids |-> b, asks |-> a]
<1>1. \A side \in Sides : Lists(Part(m, side), Nothing, new, side)
  <2>1. \A side \in Sides : Part(m, side) \in SetToSeqs(Changes(Nothing, new, side))
    BY SideCases DEF Part
  <2> HIDE DEF m
  <2> QED
    BY <2>1, ChangesAre, NothingIs
<1>2. "bids" \in Sides /\ "asks" \in Sides
  BY DEF Sides
<1>3. b \in Seq(Change) /\ a \in Seq(Change)
  BY <1>2, ChangesAre, NothingIs DEF Lists
<1>4. m \in Messages /\ m.snapshot
  BY <1>3 DEF Messages
<1>5. \A side \in Sides : View(new)[side] = Shown(new, side)
  BY DEF View
<1> HIDE DEF m
<1>6. ASSUME NEW side \in Sides
      PROVE  Len(Part(m, side)) <= N
  <2> DEFINE W == {p \in Prices : InWindow(new, side, p)}
             D == {p \in Prices : Shown(new, side)[p] # Shown(Nothing, side)[p]}
  <2>1. D = W
    BY ShownIs, NothingIs
  <2>2. Cardinality(W) <= N /\ Cardinality(W) \in Nat
    BY WindowIsSmall, FS_CardinalityType
  <2>3. Len(Part(m, side)) <= Cardinality(D)
    BY <1>1 DEF Lists
  <2>4. Len(Part(m, side)) \in Nat
    BY <1>4, LenProperties DEF Part, Messages
  <2> HIDE DEF W, D
  <2> QED
    BY <2>1, <2>2, <2>3, <2>4, SizesAssumption
<1>7. ASSUME NEW side \in Sides, NEW i \in 1 .. Len(Part(m, side))
      PROVE  Part(m, side)[i].vol > 0
  <2>1. /\ Part(m, side)[i].price \in Prices
        /\ Part(m, side)[i].vol = Shown(new, side)[Part(m, side)[i].price]
        /\ Shown(new, side)[Part(m, side)[i].price] # Shown(Nothing, side)[Part(m, side)[i].price]
    <3> DEFINE q == Part(m, side)
    <3>1. Lists(q, Nothing, new, side) /\ i \in 1 .. Len(q)
      BY <1>1
    <3> HIDE DEF q
    <3>2. /\ q[i].price \in Prices
          /\ q[i].vol = Shown(new, side)[q[i].price]
          /\ Shown(new, side)[q[i].price] # Shown(Nothing, side)[q[i].price]
      BY <3>1 DEF Lists
    <3> QED
      BY <3>2 DEF q
  <2>2. Part(m, side)[i].vol # 0 /\ Part(m, side)[i].vol \in {0} \cup Volumes
    BY <2>1, ShownIs, NothingIs
  <2>3. Part(m, side)[i].vol \in Nat \ {0}
    BY <2>2, LevelShape
  <2> QED
    BY <2>3
<1>8. MessageOK(m)
  BY ZenonT(40), <1>1, <1>4, <1>6, <1>7 DEF MessageOK, Lists
<1>9. Leads(m, v, View(new))
  <2> SUFFICES ASSUME NEW side \in Sides
               PROVE  /\ \A i \in 1 .. Len(Part(m, side)) :
                           Part(m, side)[i].vol = Shown(new, side)[Part(m, side)[i].price]
                      /\ \A p \in Prices : Shown(new, side)[p] # 0 =>
                           \E i \in 1 .. Len(Part(m, side)) : Part(m, side)[i].price = p
    BY <1>4, <1>5 DEF Leads
  <2> DEFINE q == Part(m, side)
  <2>1. Lists(q, Nothing, new, side)
    BY <1>1
  <2> HIDE DEF q
  <2>2. /\ \A i \in 1 .. Len(q) : q[i].vol = Shown(new, side)[q[i].price]
        /\ \A p \in Prices : Shown(new, side)[p] # 0 => \E i \in 1 .. Len(q) : q[i].price = p
    BY <2>1, NothingIs DEF Lists
  <2> QED
    BY <2>2 DEF q
<1> QED
  BY <1>8, <1>9 DEF m

-----------------------------------------------------------------------------
(* Part three: the invariants.                                             *)

\* The message being applied: a price once per side, and for a snapshot only
\* prices the book does not have, no more than it has room for.
Todo ==
  /\ \A i, j \in 1 .. Len(todo) :
       i # j /\ todo[i].side = todo[j].side => todo[i].price # todo[j].price
  /\ replacing => \A i \in 1 .. Len(todo) :
       /\ todo[i].vol > 0
       /\ \A k \in 1 .. Len(book[todo[i].side]) : book[todo[i].side][k].price # todo[i].price
       /\ \A j \in 1 .. Len(todo) : i <= j /\ todo[i].side = todo[j].side =>
            Len(book[todo[i].side]) + (j - i) + 1 <= N

\* What holds of the book whatever PRICE_EPS is.
Shape ==
  /\ BookTypeOK
  /\ \A k \in 1 .. Len(wire) : MessageOK(wire[k])
  /\ Todo
  /\ SidesSorted

Views == {v \in Venues : Uncrossed(v)}
Pending(side, p) == \E i \in 1 .. Len(todo) : todo[i].side = side /\ todo[i].price = p
InBook(side, p) == \E i \in 1 .. Len(book[side]) : book[side][i].price = p

\* The book is the view v, but for what is still to be applied or was trimmed.
Tracks(v) ==
  /\ \A i \in 1 .. Len(todo) : todo[i].vol = v[todo[i].side][todo[i].price]
  /\ \A side \in Sides : \A i \in 1 .. Len(book[side]) :
       Pending(side, book[side][i].price) \/ book[side][i].vol = v[side][book[side][i].price]
  /\ \A side \in Sides : \A p \in Prices : v[side][p] > 0 =>
       InBook(side, p) \/ Pending(side, p) \/ <<side, p>> \in trimmed

\* The messages on their way lead from that view to what the venue shows.
Leading(w) ==
  /\ w \in [0 .. Len(wire) -> Views]
  /\ Tracks(w[0])
  /\ open => w[Len(wire)] = View(venue)
  /\ \A k \in 1 .. Len(wire) : Leads(wire[k], w[k - 1], w[k])

Matches(b, v) ==
  \A side \in Sides : \A i \in 1 .. Len(b[side]) : b[side][i].vol = v[side][b[side][i].price]

\* What holds of it when a price is found exactly.
Knows ==
  /\ Shape
  /\ Uncrossed(venue)
  /\ \E w : Leading(w)
  /\ \E v \in Views : Matches(depth, v)

-----------------------------------------------------------------------------
LEMMA BookTypes ==
  ASSUME BookTypeOK
  PROVE  /\ \A side \in Sides : /\ book[side] \in Seq(Level) /\ Len(book[side]) \in Nat
                               /\ Len(book[side]) <= N
                               /\ \A i \in 1 .. Len(book[side]) :
                                    book[side][i] \in Level /\ book[side][i].price \in Prices
         /\ Len(todo) \in Nat /\ \A i \in 1 .. Len(todo) :
              todo[i] \in Change /\ todo[i].side \in Sides /\ todo[i].price \in Prices
         /\ wire \in Seq(Messages) /\ Len(wire) \in Nat
<1>1. ASSUME NEW side \in Sides
      PROVE  /\ book[side] \in Seq(Level) /\ Len(book[side]) \in Nat /\ Len(book[side]) <= N
             /\ \A i \in 1 .. Len(book[side]) :
                  book[side][i] \in Level /\ book[side][i].price \in Prices
  <2>1. book[side] \in Seq(Level) /\ Len(book[side]) <= N
    BY DEF BookTypeOK
  <2> QED
    BY <2>1, LenProperties, ElementOfSeq, LevelShape
<1>2. Len(todo) \in Nat /\ \A i \in 1 .. Len(todo) :
        todo[i] \in Change /\ todo[i].side \in Sides /\ todo[i].price \in Prices
  <2>1. todo \in Seq(Change)
    BY DEF BookTypeOK
  <2> QED
    BY <2>1, LenProperties, ElementOfSeq, LevelShape
<1>3. wire \in Seq(Messages) /\ Len(wire) \in Nat
  BY LenProperties DEF BookTypeOK, Messages
<1> QED
  BY <1>1, <1>2, <1>3

\* A Depth5 is the top of the book: sorted like it, with its volumes.
LEMMA DepthIs ==
  ASSUME NEW b \in [Sides -> Seq(Level)]
  PROVE  /\ Depth5(b) \in [Sides -> Seq(Level)]
         /\ \A side \in Sides : Len(Depth5(b)[side]) <= K
         /\ \A v : Matches(b, v) => Matches(Depth5(b), v)
<1>1. ASSUME NEW side \in Sides
      PROVE  /\ Depth5(b)[side] \in Seq(Level) /\ Len(Depth5(b)[side]) <= K
             /\ Len(Depth5(b)[side]) <= Len(b[side]) /\ Len(Depth5(b)[side]) \in Nat
             /\ \A i \in 1 .. Len(Depth5(b)[side]) : Depth5(b)[side][i] = b[side][i]
  <2> DEFINE n == IF Len(b[side]) < K THEN Len(b[side]) ELSE K
             s == b[side]
  <2>1. s \in Seq(Level) /\ Len(s) \in Nat
    BY LenProperties
  <2>2. n \in 0 .. Len(s) /\ n <= K
    BY <2>1, SizesAssumption
  <2>3. Depth5(b)[side] = SubSeq(s, 1, n)
    BY DEF Depth5
  <2> HIDE DEF n, s
  <2>4. /\ SubSeq(s, 1, n) \in Seq(Level) /\ Len(SubSeq(s, 1, n)) = n
        /\ \A j \in 1 .. n : SubSeq(s, 1, n)[j] = s[j]
    BY <2>1, <2>2, FirstIs
  <2> QED
    BY <2>1, <2>2, <2>3, <2>4 DEF s
<1>2. Depth5(b) \in [Sides -> Seq(Level)]
  BY <1>1 DEF Depth5
<1>3. ASSUME NEW v, Matches(b, v)
      PROVE  Matches(Depth5(b), v)
  <2> SUFFICES ASSUME NEW side \in Sides, NEW i \in 1 .. Len(Depth5(b)[side])
               PROVE  Depth5(b)[side][i].vol = v[side][Depth5(b)[side][i].price]
    BY DEF Matches
  <2>1. i \in 1 .. Len(b[side]) /\ Depth5(b)[side][i] = b[side][i]
    BY <1>1, LenProperties
  <2> QED
    BY <2>1, <1>3 DEF Matches
<1> QED
  BY <1>1, <1>2, <1>3

LEMMA ViewIs ==
  ASSUME NEW b \in Venues, Uncrossed(b)
  PROVE  View(b) \in Views
<1>1. View(b) \in Venues
  BY ShownIs DEF View, Venues
<1>2. \A side \in Sides : \A p \in Prices : View(b)[side][p] > 0 => b[side][p] > 0
  <2> TAKE side \in Sides
  <2> TAKE p \in Prices
  <2>1. View(b)[side][p] = IF InWindow(b, side, p) THEN b[side][p] ELSE 0
    BY ShownIs DEF View
  <2> QED
    BY <2>1
<1>3. "bids" \in Sides /\ "asks" \in Sides
  BY DEF Sides
<1> QED
  BY <1>1, <1>2, <1>3 DEF Views, Uncrossed

\* What a message puts on the list: all levels of both sides.
Taken(m) == IF m.snapshot THEN FirstN(m.bids) \o FirstN(m.asks) ELSE m.bids \o m.asks

LEMMA TakenIs ==
  ASSUME NEW m, MessageOK(m)
  PROVE  /\ Taken(m) \in Seq(Change)
         /\ Len(m.bids) \in Nat /\ Len(m.asks) \in Nat
         /\ Len(Taken(m)) = Len(m.bids) + Len(m.asks)
         /\ \A i \in 1 .. Len(Taken(m)) :
              Taken(m)[i] = IF i <= Len(m.bids) THEN m.bids[i] ELSE m.asks[i - Len(m.bids)]
<1>1. m.bids \in Seq(Change) /\ m.asks \in Seq(Change) /\ m.snapshot \in BOOLEAN
  BY DEF MessageOK, Messages
<1>2. Len(m.bids) \in Nat /\ Len(m.asks) \in Nat
  BY <1>1, LenProperties
<1>3. Taken(m) = m.bids \o m.asks
  <2>1. CASE m.snapshot
    <3>1. Len(m.bids) <= N /\ Len(m.asks) <= N
      BY <2>1 DEF MessageOK, Part, Sides
    <3>2. ASSUME NEW s \in Seq(Change), Len(s) <= N
          PROVE  FirstN(s) = s
      <4>1. FirstN(s) = SubSeq(s, 1, Len(s))
        BY <3>2, LenProperties, SizesAssumption DEF FirstN
      <4> QED
        BY <4>1, SubSeqFull
    <3> QED
      BY <2>1, <3>1, <3>2, <1>1 DEF Taken
  <2>2. CASE ~m.snapshot
    BY <2>2 DEF Taken
  <2> QED
    BY <2>1, <2>2
<1> DEFINE b == m.bids
           a == m.asks
           t == Taken(m)
<1>4. /\ b \o a \in Seq(Change) /\ Len(b \o a) = Len(b) + Len(a)
      /\ \A i \in 1 .. Len(b) + Len(a) : (b \o a)[i] = IF i <= Len(b) THEN b[i] ELSE a[i - Len(b)]
  BY <1>1, ConcatProperties
<1>5. t = b \o a
  BY <1>3
<1> HIDE DEF b, a, t
<1>6. /\ t \in Seq(Change) /\ Len(t) = Len(b) + Len(a)
      /\ \A i \in 1 .. Len(t) : t[i] = IF i <= Len(b) THEN b[i] ELSE a[i - Len(b)]
  BY <1>4, <1>5
<1> QED
  BY <1>2, <1>6 DEF b, a, t

\* The same, by side: a level on the list is one of the message, and the other
\* way round; the levels of a side come one after the other.
BySide(t, m) ==
  /\ \A i \in 1 .. Len(t) : \E k \in 1 .. Len(Part(m, t[i].side)) :
       /\ t[i].side \in Sides /\ t[i] = Part(m, t[i].side)[k]
       /\ k = IF i <= Len(m.bids) THEN i ELSE i - Len(m.bids)
       /\ i <= Len(m.bids) <=> t[i].side = "bids"
  /\ \A side \in Sides : \A k \in 1 .. Len(Part(m, side)) :
       \E i \in 1 .. Len(t) : t[i] = Part(m, side)[k] /\ t[i].side = side

LEMMA TakenBySide ==
  ASSUME NEW m, MessageOK(m)
  PROVE  BySide(Taken(m), m)
<1> DEFINE t == Taken(m)
           b == m.bids
           a == m.asks
<1>1. /\ Len(b) \in Nat /\ Len(a) \in Nat /\ Len(t) = Len(b) + Len(a)
      /\ \A i \in 1 .. Len(t) : t[i] = IF i <= Len(b) THEN b[i] ELSE a[i - Len(b)]
  BY TakenIs
<1>2. /\ \A i \in 1 .. Len(b) : b[i].side = "bids"
      /\ \A i \in 1 .. Len(a) : a[i].side = "asks"
  BY DEF MessageOK, Part, Sides
<1>3. Part(m, "bids") = b /\ Part(m, "asks") = a /\ "bids" \in Sides /\ "asks" \in Sides
  BY DEF Part, Sides
<1> HIDE DEF t, b, a
<1>4. ASSUME NEW i \in 1 .. Len(t)
      PROVE  \E k \in 1 .. Len(Part(m, t[i].side)) :
               /\ t[i].side \in Sides /\ t[i] = Part(m, t[i].side)[k]
               /\ k = IF i <= Len(b) THEN i ELSE i - Len(b)
               /\ i <= Len(b) <=> t[i].side = "bids"
  <2>1. CASE i <= Len(b)
    <3>1. i \in 1 .. Len(b) /\ t[i] = b[i] /\ t[i].side = "bids"
      BY <2>1, <1>1, <1>2
    <3> QED
      BY <3>1, <2>1, <1>3
  <2>2. CASE ~(i <= Len(b))
    <3>1. i - Len(b) \in 1 .. Len(a) /\ t[i] = a[i - Len(b)] /\ t[i].side = "asks"
      BY <2>2, <1>1, <1>2
    <3> QED
      BY <3>1, <2>2, <1>3
  <2> QED
    BY <2>1, <2>2
<1>5. ASSUME NEW k \in 1 .. Len(b)
      PROVE  \E i \in 1 .. Len(t) : t[i] = b[k] /\ t[i].side = "bids"
  <2>1. k \in 1 .. Len(t) /\ t[k] = b[k]
    BY <1>1
  <2> QED
    BY <2>1, <1>2
<1>6. ASSUME NEW k \in 1 .. Len(a)
      PROVE  \E i \in 1 .. Len(t) : t[i] = a[k] /\ t[i].side = "asks"
  <2>1. Len(b) + k \in 1 .. Len(t) /\ ~(Len(b) + k <= Len(b)) /\ (Len(b) + k) - Len(b) = k
    BY <1>1
  <2>2. t[Len(b) + k] = a[k]
    BY <2>1, <1>1
  <2> QED
    BY <2>1, <2>2, <1>2
<1>7. ASSUME NEW side \in Sides, NEW k \in 1 .. Len(Part(m, side))
      PROVE  \E i \in 1 .. Len(t) : t[i] = Part(m, side)[k] /\ t[i].side = side
  <2>1. CASE side = "bids"
    BY <2>1, <1>3, <1>5
  <2>2. CASE side = "asks"
    BY <2>2, <1>3, <1>6
  <2> QED
    BY <2>1, <2>2, SideCases
<1> QED
  BY <1>4, <1>7 DEF t, b, BySide

-----------------------------------------------------------------------------
(* The steps.                                                              *)

LEMMA InitKnows == Init => Knows
<1> SUFFICES ASSUME Init PROVE Knows
  OBVIOUS
<1>0. N \in Nat /\ K \in Nat /\ 0 <= N /\ 0 <= K /\ Len(<<>>) = 0
  BY SizesAssumption
<1>1. BookTypeOK
  <2>1. book = [side \in Sides |-> <<>>] /\ depth = [side \in Sides |-> <<>>]
    BY DEF Init
  <2>2. book \in [Sides -> Seq(Level)] /\ depth \in [Sides -> Seq(Level)]
    BY <2>1
  <2>3. \A side \in Sides : Len(book[side]) <= N /\ Len(depth[side]) <= K
    BY <2>1, <1>0
  <2>4. venue \in [Sides -> [Prices -> {0} \cup Volumes]] /\ wire = <<>> /\ todo = <<>>
    BY DEF Init
  <2>5. wire \in Seq([snapshot : BOOLEAN, bids : Seq(Change), asks : Seq(Change)]) /\ todo \in Seq(Change)
    BY <2>4
  <2>6. open \in BOOLEAN /\ synced \in BOOLEAN /\ replacing \in BOOLEAN /\ trimmed \subseteq Sides \X Prices
    BY DEF Init
  <2> QED
    BY <2>2, <2>3, <2>4, <2>5, <2>6 DEF BookTypeOK
<1>2. Shape
  BY <1>1 DEF Init, Shape, Todo, SidesSorted
<1>3. venue \in Views /\ Uncrossed(venue)
  <2>1. venue \in Venues /\ \A side \in Sides, p \in Prices : venue[side][p] = 0
    BY DEF Init, Venues
  <2>2. "bids" \in Sides /\ "asks" \in Sides
    BY DEF Sides
  <2> QED
    BY <2>1, <2>2 DEF Views, Uncrossed
<1> DEFINE w == [k \in 0 .. Len(wire) |-> venue]
<1>4. w \in [0 .. Len(wire) -> Views] /\ w[0] = venue /\ Len(wire) = 0
  BY <1>3 DEF Init
<1>5. Tracks(venue)
  BY DEF Init, Tracks
<1> HIDE DEF w
<1>6. Leading(w)
  BY <1>4, <1>5 DEF Init, Leading
<1>7. Matches(depth, venue)
  BY DEF Init, Matches
<1> QED
  BY <1>2, <1>3, <1>6, <1>7 DEF Knows

\* A step that leaves the book alone.
LEMMA QuietShape ==
  ASSUME Shape, UNCHANGED <<book, replacing, todo, depth, trimmed>>,
         venue' \in Venues, open' \in BOOLEAN, synced' \in BOOLEAN,
         wire' \in Seq(Messages), \A k \in 1 .. Len(wire') : MessageOK(wire'[k])
  PROVE  Shape'
<1>1. BookTypeOK'
  BY DEF Shape, BookTypeOK, Venues, Messages
<1>2. Todo' /\ SidesSorted'
  BY ZenonT(40) DEF Shape, Todo, SidesSorted
<1>3. (\A k \in 1 .. Len(wire) : MessageOK(wire[k]))'
  OBVIOUS
<1> QED
  BY <1>1, <1>2, <1>3 DEF Shape

LEMMA QuietKnows ==
  ASSUME Knows, UNCHANGED <<book, replacing, todo, depth, trimmed>>
  PROVE  /\ \A v : Tracks(v) => Tracks(v)'
         /\ \E v \in Views : Matches(depth', v)
         /\ \E w : Leading(w) /\ w \in [0 .. Len(wire) -> Views] /\ w[0] \in Views
<1>1. \A v : Tracks(v) => Tracks(v)'
  BY DEF Tracks, Pending, InBook
<1>2. \E v \in Views : Matches(depth', v)
  BY DEF Knows
<1>3. \A w : Leading(w) => w \in [0 .. Len(wire) -> Views] /\ w[0] \in Views
  BY BookTypes DEF Leading, Knows, Shape
<1> QED
  BY <1>1, <1>2, <1>3 DEF Knows

LEMMA Disconnecting ==
  ASSUME Disconnect
  PROVE  (Shape => Shape') /\ (Knows => Knows')
<1>1. ASSUME Shape PROVE Shape'
  <2>1. venue' \in Venues /\ wire' = <<>> /\ wire' \in Seq(Messages) /\ Len(wire') = 0
    BY <1>1 DEF Disconnect, Shape, BookTypeOK, Venues
  <2>2. open' \in BOOLEAN /\ synced' \in BOOLEAN /\ UNCHANGED <<book, replacing, todo, depth, trimmed>>
    BY DEF Disconnect
  <2>3. \A k \in 1 .. Len(wire') : MessageOK(wire'[k])
    BY <2>1
  <2> QED
    BY <1>1, <2>1, <2>2, <2>3, QuietShape
<1>2. ASSUME Knows PROVE Knows'
  <2>1. UNCHANGED <<book, replacing, todo, depth, trimmed, venue>> /\ wire' = <<>> /\ open' = FALSE
    BY DEF Disconnect
  <2>2. PICK w : Leading(w) /\ w[0] \in Views
    BY <1>2, <2>1, QuietKnows
  <2> DEFINE u == [k \in 0 .. 0 |-> w[0]]
  <2>3. u \in [0 .. Len(wire') -> Views] /\ u[0] = w[0] /\ Len(wire') = 0
    BY <2>1, <2>2
  <2>4. Tracks(w[0])'
    BY <1>2, <2>1, <2>2, QuietKnows DEF Leading, Tracks, Pending, InBook
  <2> HIDE DEF u
  <2>5. Leading(u)'
    BY <2>1, <2>3, <2>4 DEF Leading, Tracks
  <2>6. Uncrossed(venue)' /\ \E v \in Views : Matches(depth', v)
    BY <1>2, <2>1 DEF Knows, Uncrossed
  <2>7. \E x : Leading(x)'
    BY <2>5
  <2> QED
    BY <1>1, <1>2, <2>6, <2>7 DEF Knows, Matches
<1> QED
  BY <1>1, <1>2

LEMMA Subscribing ==
  ASSUME Subscribe
  PROVE  (Shape => Shape') /\ (Knows => Knows')
<1>1. PICK b \in SetToSeqs(Changes(Nothing, venue, "bids")),
           a \in SetToSeqs(Changes(Nothing, venue, "asks")) :
             wire' = <<[snapshot |-> TRUE, bids |-> b, asks |-> a]>>
  BY DEF Subscribe
<1> DEFINE m == [snapshot |-> TRUE, bids |-> b, asks |-> a]
<1>2. /\ UNCHANGED <<book, replacing, todo, depth, trimmed, synced, venue>>
      /\ open' = TRUE /\ wire' = <<m>>
  BY <1>1 DEF Subscribe, bookvars
<1>3. ASSUME venue \in Venues, NEW v
      PROVE  MessageOK(m) /\ Leads(m, v, View(venue))
  BY <1>3, SnapshotIs
<1> HIDE DEF m
<1>4. ASSUME Shape PROVE Shape'
  <2>1. venue \in Venues /\ synced \in BOOLEAN
    BY <1>4 DEF Shape, BookTypeOK, Venues
  <2>2. MessageOK(m) /\ m \in Messages
    BY <2>1, <1>3 DEF MessageOK
  <2>3. wire' \in Seq(Messages) /\ \A k \in 1 .. Len(wire') : MessageOK(wire'[k])
    BY <2>2, <1>2
  <2> QED
    BY <1>2, <1>4, <2>1, <2>3, QuietShape
<1>5. ASSUME Knows PROVE Knows'
  <2>1. venue \in Venues /\ Uncrossed(venue)
    BY <1>5 DEF Knows, Shape, BookTypeOK, Venues
  <2>2. PICK w : Leading(w) /\ w[0] \in Views
    BY <1>2, <1>5, QuietKnows
  <2>3. PICK u :
        /\ u \in [0 .. 1 -> Views] /\ u[0] = w[0] /\ u[1] = View(venue)
        /\ Len(wire') = 1 /\ wire'[1] = m
    <3> DEFINE x == [k \in 0 .. 1 |-> IF k = 0 THEN w[0] ELSE View(venue)]
    <3>1. x \in [0 .. 1 -> Views] /\ x[0] = w[0] /\ x[1] = View(venue)
      BY <2>1, <2>2, ViewIs
    <3>2. Len(wire') = 1 /\ wire'[1] = m
      BY <1>2
    <3> HIDE DEF x
    <3> QED
      BY <3>1, <3>2
  <2>4. Tracks(w[0])'
    BY <2>2, <1>2 DEF Leading, Tracks, Pending, InBook
  <2>5. Leads(m, w[0], View(venue))
    BY <2>1, <1>3
  <2>6. Tracks(u[0])'
    BY <2>3, <2>4 DEF Tracks
  <2>7. Leading(u)'
    <3>1. \A k \in 1 .. Len(wire') : Leads(wire'[k], u[k - 1], u[k])
      BY <2>3, <2>5
    <3>2. u[Len(wire')] = View(venue')
      BY <2>3, <1>2
    <3>3. u \in [0 .. Len(wire') -> Views]
      BY <2>3
    <3> QED
      BY <2>6, <3>1, <3>2, <3>3 DEF Leading
  <2>8. Uncrossed(venue)' /\ (\E v \in Views : Matches(depth, v))'
    BY <1>2, <1>5 DEF Knows, Uncrossed, Matches
  <2>9. \E x : Leading(x)'
    BY <2>7
  <2> QED
    BY <1>4, <1>5, <2>8, <2>9 DEF Knows
<1> QED
  BY <1>4, <1>5

LEMMA Moving ==
  ASSUME NEW new \in Moves, VenueMoves(new)
  PROVE  (Shape => Shape') /\ (Knows => Knows')
<1>1. PICK b \in SetToSeqs(Changes(venue, new, "bids")),
           a \in SetToSeqs(Changes(venue, new, "asks")) : Send(new, b, a)
  BY DEF VenueMoves
<1> DEFINE m == [snapshot |-> FALSE, bids |-> b, asks |-> a]
<1>2. /\ UNCHANGED <<book, replacing, todo, depth, trimmed, synced, open>>
      /\ venue' = new /\ Uncrossed(new)
  BY DEF VenueMoves, bookvars
<1>3. wire' = IF open /\ b \o a # <<>> THEN Append(wire, m) ELSE wire
  BY <1>1 DEF Send
<1>4. ASSUME venue \in Venues PROVE new \in Venues
  <2>0. PICK p \in Prices, q \in Prices :
          \E side \in Sides, x \in {0} \cup Vols[p], y \in {0} \cup Vols[q] :
            new = [venue EXCEPT ![side] = [@ EXCEPT ![p] = x, ![q] = y]]
    BY DEF Moves
  <2>1. PICK side \in Sides, x \in {0} \cup Vols[p], y \in {0} \cup Vols[q] :
          new = [venue EXCEPT ![side] = [@ EXCEPT ![p] = x, ![q] = y]]
    BY <2>0
  <2>2. x \in {0} \cup Volumes /\ y \in {0} \cup Volumes
    BY DEF Volumes
  <2> QED
    BY <1>4, <2>1, <2>2 DEF Venues
<1>5. ASSUME venue \in Venues
      PROVE  /\ MessageOK(m) /\ Leads(m, View(venue), View(new))
             /\ b \o a = <<>> => View(new) = View(venue)
  BY <1>4, <1>5, DeltaIs
<1> HIDE DEF m
<1>6. ASSUME Shape PROVE Shape'
  <2>1. venue \in Venues /\ synced \in BOOLEAN /\ open \in BOOLEAN /\ wire \in Seq(Messages)
    BY <1>6 DEF Shape, BookTypeOK, Venues, Messages
  <2>2. MessageOK(m) /\ m \in Messages
    BY <2>1, <1>5 DEF MessageOK
  <2>3. wire' \in Seq(Messages) /\ \A k \in 1 .. Len(wire') : MessageOK(wire'[k])
    <3>1. CASE wire' = wire
      BY <3>1, <2>1, <1>6 DEF Shape
    <3>2. CASE wire' = Append(wire, m)
      BY <3>2, <2>1, <2>2, <1>6, AppendProperties DEF Shape
    <3> QED
      BY <3>1, <3>2, <1>3
  <2>4. venue' \in Venues
    BY <1>2, <1>4, <2>1
  <2> QED
    BY <1>2, <1>6, <2>1, <2>3, <2>4, QuietShape
<1>7. ASSUME Knows PROVE Knows'
  <2>1. venue \in Venues /\ new \in Venues /\ Uncrossed(new) /\ wire \in Seq(Messages) /\ Len(wire) \in Nat
    BY <1>2, <1>4, <1>7, BookTypes DEF Knows, Shape, BookTypeOK, Venues
  <2>2. PICK w : Leading(w) /\ w \in [0 .. Len(wire) -> Views] /\ w[0] \in Views
    BY <1>2, <1>7, QuietKnows
  <2>3. Tracks(w[0])'
    BY <2>2, <1>2 DEF Leading, Tracks, Pending, InBook
  <2>4. MessageOK(m) /\ m \in Messages
    BY <2>1, <1>5 DEF MessageOK
  <2>5. \E x : Leading(x)'
    <3>1. CASE open /\ b \o a # <<>>
      <4> DEFINE n == Len(wire)
      <4>1. /\ Len(wire') = n + 1 /\ wire'[n + 1] = m
            /\ \A k \in 1 .. n : wire'[k] = wire[k]
        BY <2>1, <2>4, <3>1, <1>3, AppendProperties
      <4>2. View(new) \in Views
        BY <2>1, ViewIs
      <4>3. PICK u :
            /\ u \in [0 .. n + 1 -> Views] /\ u[n + 1] = View(new)
            /\ \A k \in 0 .. n : u[k] = w[k]
        <5> DEFINE x == [k \in 0 .. n + 1 |-> IF k = n + 1 THEN View(new) ELSE w[k]]
        <5>1. /\ x \in [0 .. n + 1 -> Views] /\ x[n + 1] = View(new)
              /\ \A k \in 0 .. n : x[k] = w[k]
          BY <2>1, <2>2, <4>2
        <5> HIDE DEF x
        <5> QED
          BY <5>1
      <4> HIDE DEF n
      <4>4. n \in Nat /\ n = Len(wire)
        BY <2>1 DEF n
      <4>5. w[n] = View(venue) /\ \A k \in 1 .. n : Leads(wire[k], w[k - 1], w[k])
        BY <2>2, <3>1, <4>4 DEF Leading
      <4>6. Leads(m, w[n], View(new))
        BY <2>1, <4>5, <1>5
      <4>7. \A k \in 1 .. n + 1 : Leads(wire'[k], u[k - 1], u[k])
        <5> TAKE k \in 1 .. n + 1
        <5>1. CASE k = n + 1
          <6>1. u[k - 1] = w[n] /\ u[k] = View(new) /\ wire'[k] = m
            BY <5>1, <4>1, <4>3, <4>4
          <6> QED
            BY <6>1, <4>6
        <5>2. CASE k # n + 1
          <6>1. k \in 1 .. n /\ k - 1 \in 0 .. n /\ k \in 0 .. n
            BY <5>2, <4>4
          <6>2. u[k - 1] = w[k - 1] /\ u[k] = w[k] /\ wire'[k] = wire[k]
            BY <6>1, <4>1, <4>3
          <6> QED
            BY <6>1, <6>2, <4>5
        <5> QED
          BY <5>1, <5>2
      <4>8. u[0] = w[0]
        BY <4>3, <4>4
      <4>9. Tracks(u[0])'
        BY <4>8, <2>3 DEF Tracks
      <4>10. Leading(u)'
        <5>1. u \in [0 .. Len(wire') -> Views] /\ u[Len(wire')] = View(venue')
          BY <4>1, <4>3, <1>2
        <5>2. \A k \in 1 .. Len(wire') : Leads(wire'[k], u[k - 1], u[k])
          BY <4>1, <4>7
        <5> QED
          BY <4>9, <5>1, <5>2 DEF Leading
      <4> QED
        BY <4>10
    <3>2. CASE ~(open /\ b \o a # <<>>)
      <4>1. wire' = wire /\ open' = open
        BY <3>2, <1>2, <1>3
      <4>2. open => View(new) = View(venue)
        BY <2>1, <3>2, <1>5
      <4>3. open' => w[Len(wire')] = View(venue')
        BY <2>2, <4>1, <4>2, <1>2 DEF Leading
      <4>4. Leading(w)'
        BY <2>2, <2>3, <4>1, <4>3 DEF Leading
      <4> QED
        BY <4>4
    <3> QED
      BY <3>1, <3>2
  <2>7. Uncrossed(venue)' /\ (\E v \in Views : Matches(depth, v))'
    BY <1>2, <1>7 DEF Knows, Uncrossed, Matches
  <2> QED
    BY <1>6, <1>7, <2>5, <2>7 DEF Knows
<1> QED
  BY <1>6, <1>7

-----------------------------------------------------------------------------
\* A message is taken off the wire.
Empty == [side \in Sides |-> <<>>]

LEMMA ReceiveIs ==
  ASSUME Shape, Receive, NEW m, m = wire[1]
  PROVE  /\ wire # <<>> /\ todo = <<>> /\ wire' = Tail(wire) /\ MessageOK(m) /\ m.snapshot \in BOOLEAN
         /\ todo' = Taken(m) /\ replacing' = m.snapshot
         /\ book' = (IF m.snapshot THEN Empty ELSE book)
         /\ synced' \in BOOLEAN
         /\ trimmed' = (IF m.snapshot THEN {} ELSE trimmed)
         /\ depth' = (IF todo' = <<>> THEN Depth5(book') ELSE depth)
         /\ UNCHANGED <<venue, open>>
         /\ wire' \in Seq(Messages) /\ Len(wire) \in Nat /\ Len(wire) > 0 /\ Len(wire') = Len(wire) - 1
         /\ \A k \in 1 .. Len(wire') : wire'[k] = wire[k + 1]
<1>1. wire \in Seq(Messages) /\ Len(wire) \in Nat /\ wire # <<>> /\ wire' = Tail(wire)
  BY BookTypes DEF Shape, Receive
<1>2. /\ wire' \in Seq(Messages) /\ Len(wire) > 0 /\ Len(wire') = Len(wire) - 1
      /\ \A k \in 1 .. Len(wire') : wire'[k] = wire[k + 1]
  BY <1>1, EmptySeq, HeadTailProperties
<1>3. m = Head(wire)
  BY <1>1
<1>4. MessageOK(m)
  BY <1>1, <1>2 DEF Shape
<1>5. m.snapshot \in BOOLEAN
  BY <1>4 DEF MessageOK, Messages
<1>6. /\ todo = <<>> /\ todo' = Taken(m) /\ replacing' = m.snapshot
      /\ book' = (IF m.snapshot THEN Empty ELSE book)
      /\ synced' = (synced \/ m.snapshot)
      /\ trimmed' = (IF m.snapshot THEN {} ELSE trimmed)
      /\ depth' = (IF todo' = <<>> THEN Depth5(book') ELSE depth)
      /\ UNCHANGED <<venue, open>>
  BY <1>3 DEF Receive, Taken, Empty
<1>7. synced' \in BOOLEAN
  BY <1>6
<1> QED
  BY <1>1, <1>2, <1>4, <1>5, <1>6, <1>7

LEMMA ReceivingShape == Shape /\ Receive => Shape'
<1> SUFFICES ASSUME Shape, Receive PROVE Shape'
  OBVIOUS
<1> DEFINE m == wire[1]
<1>1. /\ wire' = Tail(wire) /\ MessageOK(m) /\ m.snapshot \in BOOLEAN
      /\ todo' = Taken(m) /\ replacing' = m.snapshot
      /\ book' = (IF m.snapshot THEN Empty ELSE book)
      /\ synced' \in BOOLEAN
      /\ trimmed' = (IF m.snapshot THEN {} ELSE trimmed)
      /\ depth' = (IF todo' = <<>> THEN Depth5(book') ELSE depth)
      /\ UNCHANGED <<venue, open>>
      /\ wire' \in Seq(Messages) /\ Len(wire) \in Nat /\ Len(wire') = Len(wire) - 1
      /\ \A k \in 1 .. Len(wire') : wire'[k] = wire[k + 1]
  BY ReceiveIs
<1> HIDE DEF m
<1>2. N \in Nat /\ N > 0
  BY SizesAssumption
<1>3. /\ book' \in [Sides -> Seq(Level)] /\ \A side \in Sides : Len(book'[side]) <= N
      /\ m.snapshot => \A side \in Sides : book'[side] = <<>> /\ Len(book'[side]) = 0
      /\ ~m.snapshot => book' = book
  <2>1. CASE m.snapshot
    <3>1. \A side \in Sides : book'[side] = <<>> /\ Len(book'[side]) = 0
      BY <2>1, <1>1 DEF Empty
    <3>2. book' \in [Sides -> Seq(Level)]
      BY <2>1, <1>1 DEF Empty
    <3> QED
      BY <2>1, <3>1, <3>2, <1>2
  <2>2. CASE ~m.snapshot
    BY <2>2, <1>1 DEF Shape, BookTypeOK
  <2> QED
    BY <2>1, <2>2
<1>4. depth' \in [Sides -> Seq(Level)] /\ \A side \in Sides : Len(depth'[side]) <= K
  BY <1>1, <1>3, DepthIs DEF Shape, BookTypeOK
<1>5. BookTypeOK'
  <2>1. todo' \in Seq(Change) /\ replacing' \in BOOLEAN /\ trimmed' \subseteq Sides \X Prices
    BY <1>1, TakenIs DEF Shape, BookTypeOK
  <2> QED
    BY <1>1, <1>3, <1>4, <2>1 DEF Shape, BookTypeOK, Messages
<1>6. (\A k \in 1 .. Len(wire) : MessageOK(wire[k]))'
  <2>1. \A k \in 1 .. Len(wire') : k + 1 \in 1 .. Len(wire) /\ wire'[k] = wire[k + 1]
    BY <1>1
  <2>2. \A k \in 1 .. Len(wire') : MessageOK(wire'[k])
    BY <2>1 DEF Shape
  <2> QED
    BY <2>2
<1>7. SidesSorted'
  <2>1. CASE m.snapshot
    <3>1. \A side \in Sides : Len(book'[side]) = 0
      BY <2>1, <1>3
    <3> QED
      BY <3>1 DEF SidesSorted
  <2>2. CASE ~m.snapshot
    BY <2>2, <1>3 DEF Shape, SidesSorted
  <2> QED
    BY <2>1, <2>2
<1> DEFINE t == todo'
           Index(i) == IF i <= Len(m.bids) THEN i ELSE i - Len(m.bids)
<1>8. t = Taken(m) /\ Len(t) \in Nat /\ Len(m.bids) \in Nat
  BY <1>1, TakenIs
<1> HIDE DEF t
<1>9. \A i \in 1 .. Len(t) :
        /\ t[i].side \in Sides /\ t[i] = Part(m, t[i].side)[Index(i)]
        /\ Index(i) \in 1 .. Len(Part(m, t[i].side))
        /\ i <= Len(m.bids) <=> t[i].side = "bids"
  <2>1. BySide(t, m)
    BY <1>1, <1>8, TakenBySide
  <2> TAKE i \in 1 .. Len(t)
  <2>2. PICK k \in 1 .. Len(Part(m, t[i].side)) :
          /\ t[i].side \in Sides /\ t[i] = Part(m, t[i].side)[k]
          /\ k = IF i <= Len(m.bids) THEN i ELSE i - Len(m.bids)
          /\ i <= Len(m.bids) <=> t[i].side = "bids"
    BY <2>1 DEF BySide
  <2>3. k = Index(i)
    BY <2>2
  <2> HIDE DEF Index
  <2> QED
    BY <2>2, <2>3
<1>10. ASSUME NEW i \in 1 .. Len(t), NEW j \in 1 .. Len(t), t[i].side = t[j].side
       PROVE  Index(j) - Index(i) = j - i
  BY <1>8, <1>9, <1>10
<1> HIDE DEF Index
<1>11. ASSUME NEW i \in 1 .. Len(t), NEW j \in 1 .. Len(t), i # j, t[i].side = t[j].side
       PROVE  t[i].price # t[j].price
  <2> DEFINE side == t[i].side
             q == Part(m, side)
  <2>1. /\ side \in Sides /\ t[i] = q[Index(i)] /\ Index(i) \in 1 .. Len(q)
        /\ t[j] = q[Index(j)] /\ Index(j) \in 1 .. Len(q)
    BY <1>9, <1>11
  <2>2. Index(i) # Index(j)
    <3>1. Index(j) - Index(i) = j - i /\ i \in Int /\ j \in Int /\ i # j
      BY <1>8, <1>10, <1>11
    <3>2. Index(i) = Index(j) => Index(j) - Index(i) = 0
      BY <2>1
    <3> QED
      BY <3>1, <3>2
  <2>3. \A a, b \in 1 .. Len(q) : a # b => q[a].price # q[b].price
    BY <1>1, <2>1 DEF MessageOK
  <2> HIDE DEF side, q
  <2> QED
    BY <2>1, <2>2, <2>3
<1>12. ASSUME NEW i \in 1 .. Len(t), m.snapshot
       PROVE  /\ t[i].vol > 0 /\ Len(book'[t[i].side]) = 0
              /\ \A j \in 1 .. Len(t) : i <= j /\ t[i].side = t[j].side =>
                   Len(book'[t[i].side]) + (j - i) + 1 <= N
  <2> DEFINE side == t[i].side
             q == Part(m, side)
  <2>1. side \in Sides /\ t[i] = q[Index(i)] /\ Index(i) \in 1 .. Len(q)
    BY <1>9
  <2>2. (\A a \in 1 .. Len(q) : q[a].vol > 0) /\ Len(q) <= N
    BY <1>1, <2>1, <1>12 DEF MessageOK
  <2>3. Len(book'[side]) = 0
    BY <1>3, <1>12, <2>1
  <2>4. Len(q) \in Nat
    BY <1>1, LenProperties DEF q, Part, MessageOK, Messages
  <2>5. ASSUME NEW j \in 1 .. Len(t), i <= j, side = t[j].side
        PROVE  Len(book'[side]) + (j - i) + 1 <= N
    <3>1. Index(j) \in 1 .. Len(q) /\ Index(j) - Index(i) = j - i
      BY <1>9, <1>10, <2>5
    <3> HIDE DEF q, side
    <3> QED
      BY <2>1, <2>2, <2>3, <2>4, <3>1, <1>2
  <2>6. t[i].vol > 0
    <3> HIDE DEF q
    <3> QED
      BY <2>1, <2>2
  <2> QED
    BY <2>3, <2>5, <2>6
<1>13. Todo'
  <2>1. (replacing => \A i \in 1 .. Len(todo) :
       /\ todo[i].vol > 0
       /\ \A k \in 1 .. Len(book[todo[i].side]) : book[todo[i].side][k].price # todo[i].price
       /\ \A j \in 1 .. Len(todo) : i <= j /\ todo[i].side = todo[j].side =>
            Len(book[todo[i].side]) + (j - i) + 1 <= N)'
    BY <1>1, <1>12 DEF t
  <2> QED
    BY <1>11, <2>1 DEF t, Todo
<1> QED
  BY <1>5, <1>6, <1>7, <1>13 DEF Shape

LEMMA ReceivingKnows == Knows /\ Receive => Knows'
<1> SUFFICES ASSUME Knows, Receive PROVE Knows'
  OBVIOUS
<1> DEFINE m == wire[1]
<1>1. /\ wire # <<>> /\ todo = <<>> /\ wire' = Tail(wire) /\ MessageOK(m) /\ m.snapshot \in BOOLEAN
      /\ todo' = Taken(m)
      /\ book' = (IF m.snapshot THEN Empty ELSE book)
      /\ trimmed' = (IF m.snapshot THEN {} ELSE trimmed)
      /\ depth' = (IF todo' = <<>> THEN Depth5(book') ELSE depth)
      /\ UNCHANGED <<venue, open>>
      /\ Len(wire) \in Nat /\ Len(wire) > 0 /\ Len(wire') = Len(wire) - 1
      /\ \A k \in 1 .. Len(wire') : wire'[k] = wire[k + 1]
  BY ReceiveIs DEF Knows
<1>2. Shape'
  BY ReceivingShape DEF Knows
<1>3. PICK w : Leading(w)
  BY DEF Knows
<1>4. PICK v : v = w[1] /\ v \in Views /\ Leads(m, w[0], v)
  BY <1>1, <1>3 DEF Leading
<1>5. PICK u : u \in [0 .. Len(wire') -> Views] /\ \A k \in 0 .. Len(wire') : u[k] = w[k + 1]
  <2> DEFINE x == [k \in 0 .. Len(wire') |-> w[k + 1]]
  <2>1. \A k \in 0 .. Len(wire') : w[k + 1] \in Views
    BY <1>1, <1>3 DEF Leading
  <2>2. x \in [0 .. Len(wire') -> Views] /\ \A k \in 0 .. Len(wire') : x[k] = w[k + 1]
    BY <2>1
  <2> HIDE DEF x
  <2> QED
    BY <2>2
<1> DEFINE t == todo'
<1>6. /\ t = Taken(m)
      /\ \A i \in 1 .. Len(t) : t[i].side \in Sides /\ \E k \in 1 .. Len(Part(m, t[i].side)) :
           t[i] = Part(m, t[i].side)[k]
      /\ \A side \in Sides : \A k \in 1 .. Len(Part(m, side)) :
           \E i \in 1 .. Len(t) : t[i] = Part(m, side)[k] /\ t[i].side = side
  <2> HIDE DEF m
  <2>1. t = Taken(m) /\ BySide(t, m)
    BY <1>1, TakenBySide
  <2> HIDE DEF t
  <2> QED
    BY <2>1 DEF BySide
<1> HIDE DEF m
<1>7. /\ \A side \in Sides : \A k \in 1 .. Len(Part(m, side)) :
           Part(m, side)[k].vol = v[side][Part(m, side)[k].price]
      /\ \A side \in Sides : \A p \in Prices : v[side][p] # (IF m.snapshot THEN 0 ELSE w[0][side][p]) =>
           \E k \in 1 .. Len(Part(m, side)) : Part(m, side)[k].price = p
  BY <1>4 DEF Leads
<1>8. \A side \in Sides : \A p \in Prices :
        v[side][p] # (IF m.snapshot THEN 0 ELSE w[0][side][p]) => Pending(side, p)'
  <2> TAKE side \in Sides
  <2> TAKE p \in Prices
  <2> HAVE v[side][p] # (IF m.snapshot THEN 0 ELSE w[0][side][p])
  <2>1. PICK k \in 1 .. Len(Part(m, side)) : Part(m, side)[k].price = p
    BY <1>7
  <2>2. PICK i \in 1 .. Len(t) : t[i] = Part(m, side)[k] /\ t[i].side = side
    BY <1>6
  <2> QED
    BY <2>1, <2>2 DEF Pending
<1>9. \A i \in 1 .. Len(t) : t[i].vol = v[t[i].side][t[i].price]
  <2> TAKE i \in 1 .. Len(t)
  <2>1. PICK k \in 1 .. Len(Part(m, t[i].side)) : t[i] = Part(m, t[i].side)[k] /\ t[i].side \in Sides
    BY <1>6
  <2>2. Part(m, t[i].side)[k].vol = v[t[i].side][Part(m, t[i].side)[k].price]
    BY <2>1, <1>7
  <2> QED
    BY <2>1, <2>2
<1>10. Tracks(v)'
  <2>1. CASE m.snapshot
    <3>1. \A side \in Sides : Len(book'[side]) = 0
      BY <2>1, <1>1 DEF Empty
    <3>2. \A side \in Sides : \A p \in Prices : v[side][p] > 0 => Pending(side, p)'
      BY <2>1, <1>8
    <3> QED
      BY <3>1, <3>2, <1>9 DEF Tracks
  <2>2. CASE ~m.snapshot
    <3>1. book' = book /\ trimmed' = trimmed /\ Tracks(w[0]) /\ todo = <<>>
      BY <2>2, <1>1, <1>3 DEF Leading
    <3>2. \A side \in Sides : \A p \in Prices : ~Pending(side, p)
      BY <3>1 DEF Pending
    <3>3. \A side \in Sides : \A p \in Prices : v[side][p] # w[0][side][p] => Pending(side, p)'
      BY <2>2, <1>8
    <3>4. \A side \in Sides : \A i \in 1 .. Len(book[side]) : book[side][i].price \in Prices
      BY BookTypes DEF Knows, Shape
    <3>5. \A side \in Sides : \A i \in 1 .. Len(book'[side]) :
            Pending(side, book[side][i].price)' \/ book'[side][i].vol = v[side][book'[side][i].price]
      <4> TAKE side \in Sides
      <4> TAKE i \in 1 .. Len(book'[side])
      <4> DEFINE p == book[side][i].price
      <4>1. i \in 1 .. Len(book[side]) /\ p \in Prices /\ book[side][i].vol = w[0][side][p]
        BY <3>1, <3>2, <3>4 DEF Tracks
      <4>2. Pending(side, p)' \/ v[side][p] = w[0][side][p]
        BY <4>1, <3>3, <3>1
      <4> QED
        BY <4>1, <4>2, <3>1
    <3>6. \A side \in Sides : \A p \in Prices : v[side][p] > 0 =>
            InBook(side, p)' \/ Pending(side, p)' \/ <<side, p>> \in trimmed'
      <4> TAKE side \in Sides
      <4> TAKE p \in Prices
      <4> HAVE v[side][p] > 0
      <4>1. CASE v[side][p] # w[0][side][p]
        BY <4>1, <3>3
      <4>2. CASE v[side][p] = w[0][side][p]
        <5>1. InBook(side, p) \/ <<side, p>> \in trimmed
          BY <4>2, <3>1, <3>2 DEF Tracks
        <5>2. InBook(side, p) => InBook(side, p)'
          BY <3>1 DEF InBook
        <5> QED
          BY <5>1, <5>2, <3>1
      <4> QED
        BY <4>1, <4>2
    <3> QED
      BY <3>5, <3>6, <1>9 DEF Tracks
  <2> QED
    BY <2>1, <2>2, <1>1 DEF m
<1>11. (\E x \in Views : Matches(depth, x))'
  <2>1. CASE todo' = <<>>
    <3>1. \A side \in Sides : \A p : ~Pending(side, p)'
      BY <2>1 DEF Pending
    <3>2. Matches(book', v)
      BY <3>1, <1>10 DEF Tracks, Matches
    <3>3. book' \in [Sides -> Seq(Level)]
      BY <1>2 DEF Shape, BookTypeOK
    <3>4. Matches(depth', v)
      BY <2>1, <3>2, <3>3, <1>1, DepthIs
    <3> QED
      BY <3>4, <1>4
  <2>2. CASE todo' # <<>>
    BY <2>2, <1>1 DEF Knows
  <2> QED
    BY <2>1, <2>2
<1>12. Leading(u)'
  <2>1. u[0] = v
    BY <1>1, <1>4, <1>5
  <2>2. Tracks(u[0])'
    BY <2>1, <1>10 DEF Tracks
  <2>3. open' => u[Len(wire')] = View(venue')
    <3>1. u[Len(wire')] = w[Len(wire)]
      BY <1>1, <1>5
    <3> QED
      BY <3>1, <1>1, <1>3 DEF Leading
  <2>4. \A k \in 1 .. Len(wire') : Leads(wire'[k], u[k - 1], u[k])
    <3> TAKE k \in 1 .. Len(wire')
    <3>1. k \in 0 .. Len(wire') /\ k - 1 \in 0 .. Len(wire') /\ k + 1 \in 1 .. Len(wire)
      BY <1>1
    <3>2. u[k - 1] = w[k] /\ u[k] = w[k + 1] /\ wire'[k] = wire[k + 1]
      <4>1. u[k - 1] = w[(k - 1) + 1] /\ (k - 1) + 1 = k
        BY <3>1, <1>5
      <4> QED
        BY <4>1, <3>1, <1>1, <1>5
    <3>3. Leads(wire[k + 1], w[(k + 1) - 1], w[k + 1]) /\ (k + 1) - 1 = k
      BY <3>1, <1>3 DEF Leading
    <3> QED
      BY <3>2, <3>3
  <2> QED
    BY <2>2, <2>3, <2>4, <1>5 DEF Leading
<1>13. Uncrossed(venue)'
  BY <1>1 DEF Knows, Uncrossed
<1>14. \E x : Leading(x)'
  BY <1>12
<1> QED
  BY <1>2, <1>11, <1>13, <1>14 DEF Knows

-----------------------------------------------------------------------------
\* One level is applied.
Applied(c, r) ==
  /\ c \in Change /\ c.side \in Sides /\ c.price \in Prices
  /\ todo # <<>> /\ Len(todo) \in Nat /\ Len(todo) > 0 /\ c = todo[1]
  /\ todo' \in Seq(Change) /\ Len(todo') = Len(todo) - 1
  /\ \A i \in 1 .. Len(todo') : todo'[i] = todo[i + 1]
  /\ book' \in [Sides -> Seq(Level)] /\ book'[c.side] = r
  /\ \A side \in Sides : side # c.side => book'[side] = book[side]
  /\ r \in Seq(Level) /\ Len(r) <= N /\ Sorted(c.side, r)
  /\ replacing => /\ c.vol > 0 /\ Len(r) = Len(book[c.side]) + 1
                  /\ \A i \in 1 .. Len(r) :
                       \/ r[i].price = c.price
                       \/ \E j \in 1 .. Len(book[c.side]) : r[i] = book[c.side][j]
  /\ trimmed' \subseteq Sides \X Prices
  /\ Eps = 1 => /\ \A i \in 1 .. Len(r) :
                     \/ r[i].price = c.price /\ r[i].vol = c.vol
                     \/ r[i].price # c.price /\ \E j \in 1 .. Len(book[c.side]) : r[i] = book[c.side][j]
                /\ \A p \in Prices :
                     (IF p = c.price THEN c.vol > 0 ELSE InBook(c.side, p)) =>
                       (\E i \in 1 .. Len(r) : r[i].price = p) \/ <<c.side, p>> \in trimmed'
                /\ \A side \in Sides, p \in Prices :
                     <<side, p>> # <<c.side, c.price>> /\ <<side, p>> \in trimmed => <<side, p>> \in trimmed'

LEMMA ApplyIs ==
  ASSUME Shape, Apply
  PROVE  \E c, r : Applied(c, r)
<1> DEFINE c == todo[1]
           levels == book[c.side]
           r == IF replacing THEN Inserted(levels, c) ELSE UpdateSide(levels, c)
           lost == IF ~replacing /\ Overflows(levels, c)
                   THEN {<<c.side, Last(Inserted(levels, c)).price>>} ELSE {}
<1>1. todo \in Seq(Change) /\ todo # <<>> /\ Head(todo) = c
  BY DEF Apply, Shape, BookTypeOK
<1>2. Len(todo) \in Nat /\ Len(todo) > 0 /\ c \in Change
  BY <1>1, EmptySeq, HeadTailProperties
<1>3. /\ todo' = Tail(todo) /\ todo' \in Seq(Change) /\ Len(todo') = Len(todo) - 1
      /\ \A i \in 1 .. Len(todo') : todo'[i] = todo[i + 1]
  <2>1. todo' = Tail(todo)
    BY DEF Apply
  <2> QED
    BY <2>1, <1>1, HeadTailProperties
<1>4. book' = [book EXCEPT ![c.side] = r] /\ trimmed' = (trimmed \ {<<c.side, c.price>>}) \cup lost
  BY <1>1 DEF Apply
<1> HIDE DEF c
<1>5. c.side \in Sides /\ c.price \in Prices
  BY <1>2, LevelShape
<1>6. book \in [Sides -> Seq(Level)] /\ trimmed \subseteq Sides \X Prices
  BY DEF Shape, BookTypeOK
<1>7. /\ levels \in Seq(Level) /\ Len(levels) \in Nat /\ Len(levels) <= N /\ Sorted(c.side, levels)
  BY <1>5, BookTypes DEF Shape, SidesSorted, Sorted
<1> HIDE DEF r, lost
<1>8. book'[c.side] = r /\ \A side \in Sides : side # c.side => book'[side] = book[side]
  BY <1>4, <1>5, <1>6
<1>9. N \in Nat
  BY SizesAssumption
<1> HIDE DEF levels
<1>10. lost \subseteq Sides \X Prices
  <2>1. CASE ~replacing /\ Overflows(levels, c)
    <3> DEFINE t == Inserted(levels, c)
    <3>1. c.vol > 0 /\ \A i \in 1 .. Len(levels) : levels[i].price # c.price
      BY <2>1, <1>2, <1>7, HeldIs, LevelShape DEF Overflows
    <3>2. t \in Seq(Level) /\ Len(t) = Len(levels) + 1
      BY <3>1, <1>2, <1>7, InsertedIs
    <3> HIDE DEF t
    <3>3. Len(t) \in 1 .. Len(t) /\ Last(t) = t[Len(t)]
      BY <3>2, <1>7 DEF Last
    <3>4. Last(t).price \in Prices
      BY <3>2, <3>3, ElementOfSeq, LevelShape
    <3> QED
      BY <2>1, <3>4, <1>5 DEF lost, t
  <2>2. CASE ~(~replacing /\ Overflows(levels, c))
    BY <2>2 DEF lost
  <2> QED
    BY <2>1, <2>2
<1>11. trimmed' \subseteq Sides \X Prices
  BY <1>4, <1>6, <1>10
<1>12. \A p \in Prices : InBook(c.side, p) <=> \E i \in 1 .. Len(levels) : levels[i].price = p
  BY DEF InBook, levels
<1>13. \A side \in Sides, p \in Prices :
         <<side, p>> # <<c.side, c.price>> /\ <<side, p>> \in trimmed => <<side, p>> \in trimmed'
  BY <1>4
<1>14. CASE replacing
  <2>1. r = Inserted(levels, c)
    BY <1>14 DEF r
  <2>2. /\ c.vol > 0 /\ \A k \in 1 .. Len(levels) : levels[k].price # c.price
        /\ Len(levels) + 1 <= N
    <3>1. 1 \in 1 .. Len(todo) /\ c = todo[1]
      BY <1>2 DEF c
    <3>2. Len(levels) + (1 - 1) + 1 <= N
      BY <3>1, <1>14 DEF Shape, Todo, levels
    <3> QED
      BY <3>1, <3>2, <1>7, <1>9, <1>14 DEF Shape, Todo, levels
  <2>3. /\ r \in Seq(Level) /\ Len(r) = Len(levels) + 1 /\ Sorted(c.side, r)
        /\ \A i \in 1 .. Len(r) :
             \/ r[i] = [price |-> c.price, vol |-> c.vol]
             \/ \E j \in 1 .. Len(levels) : r[i] = levels[j]
        /\ \A j \in 1 .. Len(levels) : \E i \in 1 .. Len(r) : r[i] = levels[j]
        /\ \E i \in 1 .. Len(r) : r[i] = [price |-> c.price, vol |-> c.vol]
    BY SMTT(30), <2>1, <2>2, <1>2, <1>7, InsertedIs
  <2>4. \A i \in 1 .. Len(r) :
          \/ r[i].price = c.price /\ r[i].vol = c.vol
          \/ r[i].price # c.price /\ \E j \in 1 .. Len(levels) : r[i] = levels[j]
    <3> TAKE i \in 1 .. Len(r)
    <3>1. CASE r[i] = [price |-> c.price, vol |-> c.vol]
      BY <3>1
    <3>2. CASE \E j \in 1 .. Len(levels) : r[i] = levels[j]
      BY <3>2, <2>2
    <3> QED
      BY <3>1, <3>2, <2>3
  <2>5. \A p \in Prices :
          (IF p = c.price THEN c.vol > 0 ELSE InBook(c.side, p)) => \E i \in 1 .. Len(r) : r[i].price = p
    BY <2>3, <1>12
  <2>6. Len(r) <= N
    BY <2>2, <2>3
  <2>7. c = todo[1]
    BY DEF c
  <2>8. book' \in [Sides -> Seq(Level)]
    BY <2>3, <1>4, <1>6
  <2>9. Applied(c, r)
    BY <2>8, <1>1, <1>2, <1>3, <1>5, <1>8, <1>11, <1>13, <2>2, <2>3, <2>4, <2>5, <2>6, <2>7 DEF Applied, levels
  <2> QED
    BY <2>9
<1>15. CASE ~replacing
  <2>1. r = UpdateSide(levels, c)
    BY <1>15 DEF r
  <2>2. /\ r \in Seq(Level) /\ Sorted(c.side, r) /\ Len(r) <= N
        /\ Eps = 1 => Follows(levels, c, r)
    BY <2>1, <1>2, <1>7, UpdateIs
  <2>3. Overflows(levels, c) => <<c.side, Last(Inserted(levels, c)).price>> \in trimmed'
    BY <1>4, <1>15 DEF lost
  <2>4. ASSUME Eps = 1
        PROVE  /\ \A i \in 1 .. Len(r) :
                    \/ r[i].price = c.price /\ r[i].vol = c.vol
                    \/ r[i].price # c.price /\ \E j \in 1 .. Len(levels) : r[i] = levels[j]
               /\ \A p \in Prices :
                    (IF p = c.price THEN c.vol > 0 ELSE InBook(c.side, p)) =>
                      (\E i \in 1 .. Len(r) : r[i].price = p) \/ <<c.side, p>> \in trimmed'
    <3>1. Follows(levels, c, r)
      BY <2>2, <2>4
    <3>2. \A i \in 1 .. Len(r) :
            \/ r[i].price = c.price /\ r[i].vol = c.vol
            \/ r[i].price # c.price /\ \E j \in 1 .. Len(levels) : r[i] = levels[j]
      BY <3>1 DEF Follows
    <3>3. \A p \in Prices :
            (IF p = c.price THEN c.vol > 0 ELSE \E j \in 1 .. Len(levels) : levels[j].price = p) =>
              \/ \E i \in 1 .. Len(r) : r[i].price = p
              \/ Overflows(levels, c) /\ Last(Inserted(levels, c)).price = p
      BY <3>1 DEF Follows
    <3>4. \A p \in Prices : (Overflows(levels, c) /\ Last(Inserted(levels, c)).price = p) =>
            <<c.side, p>> \in trimmed'
      BY <2>3
    <3> QED
      BY <3>2, <3>3, <3>4, <1>12
  <2>5. c = todo[1]
    BY DEF c
  <2>6. book' \in [Sides -> Seq(Level)]
    BY <2>2, <1>4, <1>6
  <2>7. Applied(c, r)
    BY <2>6, <1>1, <1>2, <1>3, <1>5, <1>8, <1>11, <1>13, <1>15, <2>2, <2>4, <2>5 DEF Applied, levels
  <2> QED
    BY <2>7
<1> QED
  BY <1>14, <1>15

LEMMA ApplyingShape == Shape /\ Apply => Shape'
<1> SUFFICES ASSUME Shape, Apply PROVE Shape'
  OBVIOUS
<1>1. PICK c, r : Applied(c, r)
  BY ApplyIs
<1>2. /\ c \in Change /\ c.side \in Sides
      /\ Len(todo) \in Nat /\ Len(todo) > 0 /\ c = todo[1]
      /\ todo' \in Seq(Change) /\ Len(todo') = Len(todo) - 1
      /\ \A i \in 1 .. Len(todo') : todo'[i] = todo[i + 1]
      /\ book'[c.side] = r /\ \A side \in Sides : side # c.side => book'[side] = book[side]
      /\ r \in Seq(Level) /\ Len(r) <= N /\ Sorted(c.side, r)
      /\ trimmed' \subseteq Sides \X Prices
  BY <1>1 DEF Applied
<1>3. replacing => /\ Len(r) = Len(book[c.side]) + 1
                   /\ \A i \in 1 .. Len(r) :
                        \/ r[i].price = c.price
                        \/ \E j \in 1 .. Len(book[c.side]) : r[i] = book[c.side][j]
  BY <1>1 DEF Applied
<1>4. /\ book' \in [Sides -> Seq(Level)] /\ \A side \in Sides : Len(book'[side]) <= N
  <2>1. book' \in [Sides -> Seq(Level)]
    BY <1>1 DEF Applied
  <2>2. \A side \in Sides : Len(book'[side]) <= N
    BY <1>2 DEF Shape, BookTypeOK
  <2> QED
    BY <2>1, <2>2
<1>5. UNCHANGED <<venue, wire, open, replacing, synced>> /\ depth' = (IF Len(todo) = 1 THEN Depth5(book') ELSE depth)
  BY DEF Apply
<1>6. BookTypeOK'
  <2>1. depth' \in [Sides -> Seq(Level)] /\ \A side \in Sides : Len(depth'[side]) <= K
    BY <1>4, <1>5, DepthIs DEF Shape, BookTypeOK
  <2> QED
    BY <1>2, <1>4, <1>5, <2>1 DEF Shape, BookTypeOK
<1>7. (\A k \in 1 .. Len(wire) : MessageOK(wire[k]))'
  BY <1>5 DEF Shape
<1>8. SidesSorted'
  <2>1. \A side \in Sides : Sorted(side, book'[side])
    BY <1>2 DEF Shape, SidesSorted, Sorted
  <2> QED
    BY <2>1 DEF SidesSorted, Sorted
<1>9. \A i \in 1 .. Len(todo') : i + 1 \in 1 .. Len(todo) /\ i + 1 # 1 /\ i \in Nat /\ i >= 1
  BY <1>2
<1>10. ASSUME NEW i \in 1 .. Len(todo'), NEW j \in 1 .. Len(todo'), i # j, todo'[i].side = todo'[j].side
       PROVE  todo'[i].price # todo'[j].price
  <2>1. i + 1 # j + 1
    BY <1>9, <1>10
  <2> QED
    BY SMTT(30), <2>1, <1>2, <1>9, <1>10 DEF Shape, Todo
<1>11. ASSUME replacing, NEW i \in 1 .. Len(todo')
       PROVE  /\ todo'[i].vol > 0
              /\ \A k \in 1 .. Len(book'[todo'[i].side]) : book'[todo'[i].side][k].price # todo'[i].price
              /\ \A j \in 1 .. Len(todo') : i <= j /\ todo'[i].side = todo'[j].side =>
                   Len(book'[todo'[i].side]) + (j - i) + 1 <= N
  <2> DEFINE d == todo[i + 1]
  <2>1. todo'[i] = d /\ i + 1 \in 1 .. Len(todo) /\ 1 \in 1 .. Len(todo)
    BY <1>2, <1>9
  <2>2. d.side \in Sides /\ Len(book[d.side]) \in Nat
    BY <2>1, BookTypes DEF Shape
  <2>3. /\ d.vol > 0
        /\ \A k \in 1 .. Len(book[d.side]) : book[d.side][k].price # d.price
        /\ \A j \in 1 .. Len(todo) : i + 1 <= j /\ d.side = todo[j].side =>
             Len(book[d.side]) + (j - (i + 1)) + 1 <= N
    BY <2>1, <1>11 DEF Shape, Todo
  <2>4. \A j \in 1 .. Len(todo) : 1 <= j /\ c.side = todo[j].side => Len(book[c.side]) + (j - 1) + 1 <= N
    BY <2>1, <1>2, <1>11 DEF Shape, Todo
  <2>5. N \in Nat
    BY SizesAssumption
  <2>6. CASE d.side = c.side
    <3>1. d.price # c.price
      <4>1. i + 1 # 1
        BY <1>9
      <4> QED
        BY <4>1, <2>1, <2>6, <1>2 DEF Shape, Todo
    <3>2. \A k \in 1 .. Len(r) : r[k].price # d.price
      <4> TAKE k \in 1 .. Len(r)
      <4>1. r[k].price = c.price \/ \E j \in 1 .. Len(book[c.side]) : r[k] = book[c.side][j]
        BY <1>3, <1>11
      <4>2. \A j \in 1 .. Len(book[c.side]) : book[c.side][j].price # d.price
        BY <2>3, <2>6
      <4> HIDE DEF d
      <4> QED
        BY <4>1, <4>2, <3>1
    <3>3. ASSUME NEW j \in 1 .. Len(todo'), i <= j, d.side = todo'[j].side
          PROVE  Len(r) + (j - i) + 1 <= N
      <4>1. j + 1 \in 1 .. Len(todo) /\ 1 <= j + 1 /\ todo[j + 1].side = c.side /\ j \in Nat /\ i \in Nat /\ i >= 1
        BY <2>6, <3>3, <1>2, <1>9
      <4>2. Len(book[c.side]) + ((j + 1) - 1) + 1 <= N
        BY <4>1, <2>4
      <4>3. Len(r) = Len(book[c.side]) + 1 /\ Len(book[c.side]) \in Nat
        BY <2>2, <2>6, <1>3, <1>11
      <4> QED
        BY SMTT(30), <4>1, <4>2, <4>3, <2>5
    <3> QED
      BY <2>1, <2>3, <2>6, <3>2, <3>3, <1>2
  <2>7. CASE d.side # c.side
    <3>1. book'[d.side] = book[d.side]
      BY <2>2, <2>7, <1>2
    <3>2. ASSUME NEW j \in 1 .. Len(todo'), i <= j, d.side = todo'[j].side
          PROVE  Len(book[d.side]) + (j - i) + 1 <= N
      <4>1. j + 1 \in 1 .. Len(todo) /\ i + 1 <= j + 1 /\ todo[j + 1].side = d.side /\ j \in Nat /\ i \in Nat
        BY <3>2, <1>2, <1>9
      <4>2. Len(book[d.side]) + ((j + 1) - (i + 1)) + 1 <= N
        BY <4>1, <2>3
      <4>3. (j + 1) - (i + 1) = j - i
        BY <4>1
      <4> QED
        BY <4>2, <4>3
    <3> QED
      BY <2>1, <2>3, <3>1, <3>2
  <2> QED
    BY <2>6, <2>7
<1>12. Todo'
  <2>1. (replacing => \A i \in 1 .. Len(todo) :
       /\ todo[i].vol > 0
       /\ \A k \in 1 .. Len(book[todo[i].side]) : book[todo[i].side][k].price # todo[i].price
       /\ \A j \in 1 .. Len(todo) : i <= j /\ todo[i].side = todo[j].side =>
            Len(book[todo[i].side]) + (j - i) + 1 <= N)'
    BY <1>5, <1>11
  <2> QED
    BY <1>10, <2>1 DEF Todo
<1> QED
  BY <1>6, <1>7, <1>8, <1>12 DEF Shape

LEMMA ApplyingKnows ==
  ASSUME Eps = 1, Knows, Apply
  PROVE  Knows'
<1>1. PICK c, r : Applied(c, r)
  BY ApplyIs DEF Knows
<1>2. /\ c.side \in Sides /\ c.price \in Prices
      /\ Len(todo) \in Nat /\ Len(todo) > 0 /\ c = todo[1]
      /\ Len(todo') = Len(todo) - 1
      /\ \A i \in 1 .. Len(todo') : todo'[i] = todo[i + 1]
      /\ book' \in [Sides -> Seq(Level)] /\ book'[c.side] = r
      /\ \A side \in Sides : side # c.side => book'[side] = book[side]
  BY <1>1 DEF Applied
<1>3. /\ \A i \in 1 .. Len(r) :
           \/ r[i].price = c.price /\ r[i].vol = c.vol
           \/ r[i].price # c.price /\ \E j \in 1 .. Len(book[c.side]) : r[i] = book[c.side][j]
      /\ \A p \in Prices :
           (IF p = c.price THEN c.vol > 0 ELSE InBook(c.side, p)) =>
             (\E i \in 1 .. Len(r) : r[i].price = p) \/ <<c.side, p>> \in trimmed'
      /\ \A side \in Sides, p \in Prices :
           <<side, p>> # <<c.side, c.price>> /\ <<side, p>> \in trimmed => <<side, p>> \in trimmed'
  BY <1>1 DEF Applied
<1>4. Shape'
  BY ApplyingShape DEF Knows
<1>5. UNCHANGED <<venue, wire, open>> /\ depth' = (IF Len(todo) = 1 THEN Depth5(book') ELSE depth)
  BY DEF Apply
<1>6. PICK w : Leading(w)
  BY DEF Knows
<1>7. PICK v : v = w[0] /\ v \in Views /\ Tracks(v)
  BY <1>6, BookTypes DEF Leading, Knows, Shape
<1>8. 1 \in 1 .. Len(todo) /\ \A i \in 1 .. Len(todo') : i + 1 \in 1 .. Len(todo) /\ i + 1 # 1
  BY <1>2
<1>9. c.vol = v[c.side][c.price]
  BY <1>2, <1>7, <1>8 DEF Tracks
<1>10. \A i \in 1 .. Len(todo') : todo'[i].vol = v[todo'[i].side][todo'[i].price]
  BY <1>2, <1>7, <1>8 DEF Tracks
<1>11. \A side \in Sides, p \in Prices :
         side # c.side \/ p # c.price => (Pending(side, p) => Pending(side, p)')
  <2> SUFFICES ASSUME NEW side \in Sides, NEW p \in Prices, side # c.side \/ p # c.price, Pending(side, p)
               PROVE  Pending(side, p)'
    OBVIOUS
  <2>1. PICK i \in 1 .. Len(todo) : todo[i].side = side /\ todo[i].price = p
    BY DEF Pending
  <2>2. i # 1
    BY <2>1, <1>2
  <2>3. i - 1 \in 1 .. Len(todo') /\ (i - 1) + 1 = i
    BY <2>2, <1>2
  <2>4. todo'[i - 1] = todo[i]
    BY <2>3, <1>2
  <2> QED
    BY <2>1, <2>3, <2>4 DEF Pending
<1>12. \A side \in Sides : \A i \in 1 .. Len(book[side]) : book[side][i].price \in Prices
  BY BookTypes DEF Knows, Shape
<1>13. ASSUME NEW side \in Sides, NEW i \in 1 .. Len(book'[side])
       PROVE  Pending(side, book[side][i].price)' \/ book'[side][i].vol = v[side][book'[side][i].price]
  <2>1. CASE side = c.side
    <3>1. i \in 1 .. Len(r) /\ book'[side][i] = r[i]
      BY <2>1, <1>2
    <3>2. CASE r[i].price = c.price /\ r[i].vol = c.vol
      BY <2>1, <3>1, <3>2, <1>9
    <3>3. CASE r[i].price # c.price /\ \E j \in 1 .. Len(book[c.side]) : r[i] = book[c.side][j]
      <4>1. PICK j \in 1 .. Len(book[side]) : r[i] = book[side][j]
        BY <2>1, <3>3
      <4>2. PICK p : p = r[i].price
        OBVIOUS
      <4>3. p \in Prices /\ p # c.price /\ book[side][j].price = p
        BY <3>3, <4>1, <4>2, <1>12
      <4>4. Pending(side, p) \/ r[i].vol = v[side][p]
        BY <4>1, <4>3, <1>7 DEF Tracks
      <4>5. Pending(side, p)' \/ r[i].vol = v[side][p]
        BY <4>3, <4>4, <1>11
      <4>6. book'[side][i].price = p
        BY <3>1, <4>2
      <4> QED
        BY <3>1, <4>2, <4>5, <4>6 DEF Pending
    <3> QED
      BY <3>1, <3>2, <3>3, <1>3
  <2>2. CASE side # c.side
    <3>1. book'[side] = book[side] /\ i \in 1 .. Len(book[side])
      BY <2>2, <1>2
    <3>2. PICK p : p = book[side][i].price
      OBVIOUS
    <3>3. Pending(side, p) \/ book[side][i].vol = v[side][p]
      BY <3>1, <3>2, <1>7 DEF Tracks
    <3>4. Pending(side, p)' \/ book[side][i].vol = v[side][p]
      BY <2>2, <3>1, <3>2, <3>3, <1>11, <1>12
    <3> QED
      BY <3>1, <3>2, <3>4 DEF Pending
  <2> QED
    BY <2>1, <2>2
<1>14. ASSUME NEW side \in Sides, NEW p \in Prices, v[side][p] > 0
       PROVE  InBook(side, p)' \/ Pending(side, p)' \/ <<side, p>> \in trimmed'
  <2>1. CASE side = c.side /\ p = c.price
    <3>1. (\E i \in 1 .. Len(r) : r[i].price = p) \/ <<c.side, p>> \in trimmed'
      BY <2>1, <1>3, <1>9, <1>14
    <3> QED
      BY <2>1, <3>1, <1>2 DEF InBook
  <2>2. CASE ~(side = c.side /\ p = c.price)
    <3>1. InBook(side, p) \/ Pending(side, p) \/ <<side, p>> \in trimmed
      BY <1>7, <1>14 DEF Tracks
    <3>2. CASE Pending(side, p)
      BY <2>2, <3>2, <1>11
    <3>3. CASE <<side, p>> \in trimmed
      BY <2>2, <3>3, <1>3
    <3>4. CASE InBook(side, p) /\ side # c.side
      BY <3>4, <1>2 DEF InBook
    <3>5. CASE InBook(side, p) /\ side = c.side
      <4>1. (\E i \in 1 .. Len(r) : r[i].price = p) \/ <<c.side, p>> \in trimmed'
        BY <2>2, <3>5, <1>3
      <4> QED
        BY <3>5, <4>1, <1>2 DEF InBook
    <3> QED
      BY <3>1, <3>2, <3>3, <3>4, <3>5
  <2> QED
    BY <2>1, <2>2
<1>15. Tracks(v)'
  BY <1>10, <1>13, <1>14 DEF Tracks
<1>16. Leading(w)'
  <2>1. Tracks(w[0])'
    BY <1>7, <1>15 DEF Tracks
  <2> QED
    BY <2>1, <1>5, <1>6 DEF Leading
<1>17. (\E x \in Views : Matches(depth, x))'
  <2>1. CASE Len(todo) = 1
    <3>1. Len(todo') = 0
      BY <2>1, <1>2
    <3>2. \A side \in Sides : \A p : ~Pending(side, p)'
      BY <3>1 DEF Pending
    <3>3. Matches(book', v)
      BY <3>2, <1>15 DEF Tracks, Matches
    <3>4. Matches(depth', v)
      BY <2>1, <3>3, <1>2, <1>5, DepthIs
    <3> QED
      BY <3>4, <1>7
  <2>2. CASE Len(todo) # 1
    BY <2>2, <1>5 DEF Knows
  <2> QED
    BY <2>1, <2>2
<1>18. Uncrossed(venue)'
  BY <1>5 DEF Knows, Uncrossed
<1>19. \E x : Leading(x)'
  BY <1>16
<1> QED
  BY <1>4, <1>17, <1>18, <1>19 DEF Knows

-----------------------------------------------------------------------------
(* The theorems.                                                           *)

LEMMA NextShape == Shape /\ [Next]_vars => Shape'
<1> SUFFICES ASSUME Shape, [Next]_vars PROVE Shape'
  OBVIOUS
<1>1. CASE UNCHANGED vars
  <2>1. /\ venue' \in Venues /\ open' \in BOOLEAN /\ synced' \in BOOLEAN
        /\ wire' \in Seq(Messages) /\ \A k \in 1 .. Len(wire') : MessageOK(wire'[k])
    BY <1>1 DEF vars, bookvars, Shape, BookTypeOK, Venues, Messages
  <2> QED
    BY <1>1, <2>1, QuietShape DEF vars, bookvars
<1> QED
  BY <1>1, Moving, Subscribing, Disconnecting, ReceivingShape, ApplyingShape DEF Next

LEMMA NextKnows ==
  ASSUME Eps = 1
  PROVE  Knows /\ [Next]_vars => Knows'
<1> SUFFICES ASSUME Knows, [Next]_vars PROVE Knows'
  OBVIOUS
<1>1. CASE UNCHANGED vars
  <2>1. Shape' /\ Uncrossed(venue)' /\ (\E v \in Views : Matches(depth, v))'
    BY <1>1, NextShape DEF vars, bookvars, Knows, Uncrossed, Matches
  <2>2. PICK w : Leading(w)
    BY DEF Knows
  <2>3. Leading(w)'
    BY <1>1, <2>2 DEF vars, bookvars, Leading, Tracks, Pending, InBook
  <2>4. \E x : Leading(x)'
    BY <2>3
  <2> QED
    BY <2>1, <2>4 DEF Knows
<1> QED
  BY <1>1, Moving, Subscribing, Disconnecting, ReceivingKnows, ApplyingKnows DEF Next

\* The invariant of OrderBook that needs no exact prices.
THEOREM Shaped == Spec => []Shape
<1>1. Init => Shape
  BY InitKnows DEF Knows
<1> QED
  BY <1>1, NextShape, PTL DEF Spec

(* Every variable keeps its type: no side is longer than N, no Depth5      *)
(* longer than K.                                                          *)
THEOREM TypeCorrect == Spec => []BookTypeOK
<1>1. Shape => BookTypeOK
  BY DEF Shape
<1> QED
  BY <1>1, Shaped, PTL

(* order_book.rs:107-141: both sides stay strictly sorted.                 *)
THEOREM BookStaysSorted == Spec => []SidesSorted
<1>1. Shape => SidesSorted
  BY DEF Shape
<1> QED
  BY <1>1, Shaped, PTL

\* The invariant that ties the book to the venue, for exact prices.
THEOREM Informed ==
  ASSUME Eps = 1
  PROVE  Spec => []Knows
BY InitKnows, NextKnows, PTL DEF Spec

\* A book that has applied everything tracks the present window.
LEMMA CaughtUpIs ==
  ASSUME Knows, CaughtUp
  PROVE  /\ \A side \in Sides : \A i \in 1 .. Len(book[side]) :
              /\ book[side][i].price \in Prices /\ book[side][i].vol > 0
              /\ book[side][i].vol = Shown(venue, side)[book[side][i].price]
         /\ \A side \in Sides : \A p \in Prices : Shown(venue, side)[p] > 0 =>
              InBook(side, p) \/ <<side, p>> \in trimmed
         /\ venue \in Venues
<1>1. PICK w : Leading(w)
  BY DEF Knows
<1>2. Len(wire) = 0 /\ Len(todo) = 0
  BY DEF CaughtUp
<1>3. Tracks(View(venue))
  BY <1>1, <1>2 DEF Leading, CaughtUp
<1>4. \A side \in Sides : \A p : ~Pending(side, p)
  BY <1>2 DEF Pending
<1>5. \A side \in Sides : View(venue)[side] = Shown(venue, side)
  BY DEF View
<1>6. \A side \in Sides : \A i \in 1 .. Len(book[side]) :
        book[side][i].price \in Prices /\ book[side][i].vol > 0
  <2> SUFFICES ASSUME NEW side \in Sides, NEW i \in 1 .. Len(book[side])
               PROVE  book[side][i].price \in Prices /\ book[side][i].vol > 0
    OBVIOUS
  <2>1. book[side][i] \in Level
    BY BookTypes DEF Knows, Shape
  <2>2. book[side][i].price \in Prices /\ book[side][i].vol \in Nat \ {0}
    BY <2>1, LevelShape
  <2> QED
    BY <2>2
<1>7. \A side \in Sides : \A i \in 1 .. Len(book[side]) :
        book[side][i].vol = Shown(venue, side)[book[side][i].price]
  <2> TAKE side \in Sides
  <2> TAKE i \in 1 .. Len(book[side])
  <2>1. book[side][i].vol = View(venue)[side][book[side][i].price]
    BY <1>3, <1>4 DEF Tracks
  <2> QED
    BY <2>1, <1>5
<1>8. \A side \in Sides : \A p \in Prices : Shown(venue, side)[p] > 0 =>
        InBook(side, p) \/ <<side, p>> \in trimmed
  BY <1>3, <1>4, <1>5 DEF Tracks
<1>9. venue \in Venues
  BY DEF Knows, Shape, BookTypeOK, Venues
<1> QED
  BY <1>6, <1>7, <1>8, <1>9

(* A book that has caught up holds only what the venue shows, with the     *)
(* venue's volumes (update_side_*, set_snapshot).                          *)
THEOREM VenueLevelsOnly ==
  ASSUME Eps = 1
  PROVE  Spec => []OnlyVenueLevels
<1>1. Knows => OnlyVenueLevels
  <2> SUFFICES ASSUME Knows, CaughtUp, NEW side \in Sides, NEW i \in 1 .. Len(book[side])
               PROVE  <<book[side][i].price, book[side][i].vol>> \in Window(side)
    BY DEF OnlyVenueLevels, BookLevels
  <2> DEFINE p == book[side][i].price
             x == book[side][i].vol
  <2>1. p \in Prices /\ x > 0 /\ x = Shown(venue, side)[p] /\ venue \in Venues
    BY CaughtUpIs
  <2> HIDE DEF p, x
  <2>2. InWindow(venue, side, p) /\ x = venue[side][p]
    BY <2>1, ShownIs
  <2> QED
    BY <2>1, <2>2 DEF Window, p, x
<1> QED
  BY <1>1, Informed, PTL

(* What is missing from it was trimmed (update_side_*, the last lines).    *)
THEOREM OnlyTrimmedMissing ==
  ASSUME Eps = 1
  PROVE  Spec => []MissingOnlyTrimmed
<1>1. Knows => MissingOnlyTrimmed
  <2> SUFFICES ASSUME Knows, CaughtUp, NEW side \in Sides, NEW l \in Window(side) \ BookLevels(side)
               PROVE  <<side, l[1]>> \in trimmed
    BY DEF MissingOnlyTrimmed
  <2>1. PICK p \in Prices : InWindow(venue, side, p) /\ l = <<p, venue[side][p]>>
    BY DEF Window
  <2>2. Shown(venue, side)[p] = venue[side][p] /\ venue[side][p] > 0
    BY <2>1, CaughtUpIs, ShownIs DEF InWindow
  <2>3. ~InBook(side, p)
    <3> SUFFICES ASSUME NEW i \in 1 .. Len(book[side]), book[side][i].price = p PROVE FALSE
      BY DEF InBook
    <3>1. book[side][i].vol = venue[side][p]
      BY <2>2, CaughtUpIs
    <3>2. <<book[side][i].price, book[side][i].vol>> \in BookLevels(side)
      BY DEF BookLevels
    <3> QED
      BY <2>1, <3>1, <3>2
  <2> QED
    BY <2>1, <2>2, <2>3, CaughtUpIs
<1> QED
  BY <1>1, Informed, PTL

(* parse_depth_to_md, mod.rs: no Depth5 is crossed, at any time.           *)
THEOREM DepthNeverCrossed ==
  ASSUME Eps = 1
  PROVE  Spec => []NeverCrossed
<1>1. Knows => NeverCrossed
  <2> SUFFICES ASSUME Knows, depth["bids"] # <<>>, depth["asks"] # <<>>
               PROVE  depth["bids"][1].price < depth["asks"][1].price
    BY DEF NeverCrossed
  <2>1. PICK v \in Views : Matches(depth, v)
    BY DEF Knows
  <2>2. ASSUME NEW side \in Sides, depth[side] # <<>>
        PROVE  depth[side][1].price \in Prices /\ v[side][depth[side][1].price] > 0
    <3>1. depth[side] \in Seq(Level)
      BY DEF Knows, Shape, BookTypeOK
    <3>2. 1 \in 1 .. Len(depth[side])
      BY <2>2, <3>1, EmptySeq
    <3>3. depth[side][1] \in Level
      BY <3>1, <3>2, ElementOfSeq
    <3>4. depth[side][1].price \in Prices /\ depth[side][1].vol \in Nat \ {0}
      BY <3>3, LevelShape
    <3>5. depth[side][1].vol = v[side][depth[side][1].price]
      BY <2>1, <3>2 DEF Matches
    <3> QED
      BY <3>4, <3>5
  <2>3. "bids" \in Sides /\ "asks" \in Sides
    BY DEF Sides
  <2>4. \A p, q \in Prices : v["bids"][p] > 0 /\ v["asks"][q] > 0 => p < q
    BY <2>1 DEF Views, Uncrossed
  <2> QED
    BY <2>2, <2>3, <2>4
<1> QED
  BY <1>1, Informed, PTL

=============================================================================

----------------------------- MODULE FeedsProofs -----------------------------
(***************************************************************************)
(* Proofs about Feeds, for every configuration, number of news, frame size *)
(* and block length: every stored record is its market's, every trade that *)
(* was delivered is stored once, and the newest record shows the newest    *)
(* news.  The argument has three parts.  What each exchange's parser makes *)
(* of each frame that FeedFormats can send (BinanceJsonParsed .. Parsed);  *)
(* which stream serves which feed, one and no other, and that it keeps     *)
(* what is configured (ServesIs .. ConfiguredServed); and the invariant    *)
(* FdInv of the wires, the ids known and the stores.  What folds and       *)
(* recursive functions compute is proved by a least counterexample: the    *)
(* library's induction theorems take an operator, which no prover here can *)
(* be given.                                                               *)
(***************************************************************************)
EXTENDS Feeds, WellFoundedInduction, SequenceTheorems, TLAPS

-----------------------------------------------------------------------------
(* Least counterexamples, maxima and folds.                                *)

\* A set of naturals has a least member.
LEMMA Least ==
  ASSUME NEW T \in SUBSET Nat, T # {}
  PROVE  \E x \in T : \A y \in T : x <= y
<1>1. PICK x \in T : \A y \in T : ~ (<<y, x>> \in OpToRel(<, Nat))
  BY NatLessThanWellFounded, WFMin
<1>2. \A y \in T : ~ (y < x)
  BY <1>1 DEF OpToRel
<1> QED
  BY <1>2

LEMMA MinNat ==
  ASSUME NEW T \in SUBSET Nat, T # {}
  PROVE  Min(T) \in T /\ \A y \in T : Min(T) <= y
BY Least DEF Min

\* A bounded one has a greatest.
LEMMA Greatest ==
  ASSUME NEW T \in SUBSET Nat, T # {}, NEW n \in Nat, \A y \in T : y <= n
  PROVE  \E x \in T : \A y \in T : x >= y
<1> DEFINE U == {m \in Nat : \A y \in T : y <= m}
<1>1. U \in SUBSET Nat /\ U # {}
  OBVIOUS
<1>2. PICK m \in U : \A v \in U : m <= v
  BY <1>1, Least
<1>3. m \in T
  <2> SUFFICES ASSUME m \notin T PROVE FALSE
    OBVIOUS
  <2>1. \A y \in T : y < m
    BY <1>2
  <2>2. m # 0
    <3>1. PICK y \in T : y < m
      BY <2>1
    <3>2. y \in Nat
      OBVIOUS
    <3> QED
      BY <3>1, <3>2
  <2>3. m - 1 \in U
    BY <2>1, <2>2
  <2> QED
    BY <1>2, <2>3
<1> QED
  BY <1>2, <1>3

LEMMA MaxNat ==
  ASSUME NEW T \in SUBSET Nat, T # {}, NEW n \in Nat, \A y \in T : y <= n
  PROVE  Max(T) \in T /\ \A y \in T : Max(T) >= y
BY Greatest DEF Max

\* The greatest of some places of a sequence.
LEMMA MaxUpTo ==
  ASSUME NEW n \in Nat, NEW T \in SUBSET (1 .. n), T # {}
  PROVE  Max(T) \in T /\ \A y \in T : Max(T) >= y
<1>1. T \in SUBSET Nat /\ \A y \in T : y <= n
  OBVIOUS
<1> QED
  BY <1>1, MaxNat

LEMMA MaxIs ==
  ASSUME NEW n \in Nat, NEW T \in SUBSET (1 .. n), NEW m \in T, \A y \in T : y <= m
  PROVE  Max(T) = m
<1>1. Max(T) \in T /\ \A y \in T : Max(T) >= y
  BY MaxUpTo
<1>2. Max(T) >= m /\ Max(T) <= m
  BY <1>1
<1>4. Max(T) \in 1 .. n /\ m \in 1 .. n
  BY <1>1
<1>3. Max(T) = m
  BY <1>2, <1>4
<1> QED
  BY <1>3


\* h handles the messages m at the positions of a set, from the last one down:
\* the function that HandleAll, a fold from the left, chooses.
Run(h, stream, base, m, n) ==
  h = [T \in SUBSET (1 .. n) |->
         IF T = {} THEN base ELSE Handle(stream, h[T \ {Max(T)}], m[Max(T)])]

\* There is such a function, by its extension from n to n + 1 ...
LEMMA RunExists ==
  ASSUME NEW n \in Nat, NEW stream, NEW base, NEW m
  PROVE  \E h : Run(h, stream, base, m, n)
<1> DEFINE Good(k) == \E h : Run(h, stream, base, m, k)
           Bad == {k \in 0 .. n : ~ Good(k)}
<1> SUFFICES ASSUME ~ Good(n) PROVE FALSE
  OBVIOUS
<1>1. PICK k \in Bad : \A j \in Bad : k <= j
  <2> HIDE DEF Good
  <2>1. Bad \in SUBSET Nat /\ n \in Bad
    OBVIOUS
  <2> QED
    BY <2>1, Least
<1>2. k # 0
  <2> SUFFICES Good(0)
    BY <1>1
  <2> DEFINE h == [T \in SUBSET (1 .. 0) |-> base]
  <2>1. SUBSET (1 .. 0) = {{}}
    OBVIOUS
  <2>2. h = [T \in SUBSET (1 .. 0) |->
               IF T = {} THEN base ELSE Handle(stream, h[T \ {Max(T)}], m[Max(T)])]
    BY <2>1
  <2> QED
    BY <2>2 DEF Run
<1> DEFINE i == k - 1
<1>3. i \in 0 .. n /\ k \in 1 .. n /\ k = i + 1 /\ i \in Nat
  BY <1>1, <1>2
<1>4. Good(i)
  <2>1. i < k
    BY <1>3
  <2> HIDE DEF Good
  <2>2. i \notin Bad
    BY <1>1, <1>3, <2>1
  <2> QED
    BY <1>3, <2>2
<1>5. PICK h : Run(h, stream, base, m, i)
  BY <1>4
<1> HIDE DEF i
<1> DEFINE g == [T \in SUBSET (1 .. k) |-> IF k \in T THEN Handle(stream, h[T \ {k}], m[k]) ELSE h[T]]
<1>6. \A T \in SUBSET (1 .. k) : /\ k \in T => T \ {k} \in SUBSET (1 .. i)
                                /\ k \notin T => T \in SUBSET (1 .. i)
  <2> SUFFICES ASSUME NEW T \in SUBSET (1 .. k)
               PROVE  /\ k \in T => T \ {k} \in SUBSET (1 .. i)
                      /\ k \notin T => T \in SUBSET (1 .. i)
    OBVIOUS
  <2>1. \A y \in T : y # k => y \in 1 .. i
    BY <1>3
  <2> QED
    BY <2>1
<1>8. ASSUME NEW T \in SUBSET (1 .. k)
      PROVE  g[T] = IF T = {} THEN base ELSE Handle(stream, g[T \ {Max(T)}], m[Max(T)])
  <2>1. CASE k \in T
    <3>1. Max(T) = k
      <4>1. k \in Nat /\ \A y \in T : y <= k
        BY <1>3
      <4> QED
        BY <2>1, <4>1, MaxIs
    <3>2. T \ {k} \in SUBSET (1 .. k) /\ k \notin T \ {k}
      OBVIOUS
    <3>3. g[T \ {k}] = h[T \ {k}]
      BY <3>2
    <3> QED
      BY <2>1, <3>1, <3>3
  <2>2. CASE k \notin T
    <3>1. g[T] = h[T] /\ T \in SUBSET (1 .. i)
      BY <2>2, <1>6
    <3>2. h[T] = IF T = {} THEN base ELSE Handle(stream, h[T \ {Max(T)}], m[Max(T)])
      BY <3>1, <1>5 DEF Run
    <3>3. T \ {Max(T)} \in SUBSET (1 .. k) /\ k \notin T \ {Max(T)}
      BY <2>2
    <3> QED
      BY <3>1, <3>2, <3>3
  <2> QED
    BY <2>1, <2>2
<1>9. Run(g, stream, base, m, k)
  BY <1>8 DEF Run
<1> HIDE DEF g
<1> QED
  BY <1>1, <1>9

\* ... and all of them agree with the states after each message: the least n
\* at which one did not would make it differ at n - 1.
LEMMA RunIs ==
  ASSUME NEW n \in Nat, NEW stream, NEW base, NEW m, NEW h, Run(h, stream, base, m, n),
         NEW acc, acc[0] = base, \A k \in 1 .. n : acc[k] = Handle(stream, acc[k - 1], m[k])
  PROVE  h[1 .. n] = acc[n]
<1> DEFINE Good(k) == h[1 .. k] = acc[k]
           Bad == {k \in 0 .. n : ~ Good(k)}
<1> SUFFICES ASSUME ~ Good(n) PROVE FALSE
  OBVIOUS
<1>1. PICK k \in Bad : \A j \in Bad : k <= j
  <2> HIDE DEF Good
  <2>1. Bad \in SUBSET Nat /\ n \in Bad
    OBVIOUS
  <2> QED
    BY <2>1, Least
<1>2. k # 0
  <2>1. 1 .. 0 = {} /\ {} \in SUBSET (1 .. n)
    OBVIOUS
  <2>2. h[{}] = base
    BY <2>1 DEF Run
  <2> QED
    BY <1>1, <2>1, <2>2
<1>3. k \in 1 .. n /\ k - 1 \in 0 .. n /\ k - 1 < k /\ k \in Nat
  BY <1>1, <1>2
<1>4. h[1 .. (k - 1)] = acc[k - 1]
  <2> HIDE DEF Good
  <2>1. Good(k - 1)
    BY <1>1, <1>3
  <2> QED
    BY <2>1 DEF Good
<1>5. (1 .. k) \in SUBSET (1 .. n) /\ (1 .. k) # {} /\ k \in 1 .. k /\ \A y \in 1 .. k : y <= k
  <2>1. k \in 1 .. k
    BY <1>3
  <2>2. \A y \in 1 .. k : y \in 1 .. n /\ y <= k
    BY <1>3
  <2> QED
    BY <2>1, <2>2
<1>6. Max(1 .. k) = k
  BY <1>5, MaxIs
<1>7. (1 .. k) \ {k} = 1 .. (k - 1)
  BY <1>3
<1>8. h[1 .. k] = Handle(stream, h[1 .. (k - 1)], m[k])
  <2> DEFINE T == 1 .. k
  <2>1. h[T] = IF T = {} THEN base ELSE Handle(stream, h[T \ {Max(T)}], m[Max(T)])
    <3> HIDE DEF T
    <3> QED
      BY <1>5 DEF Run, T
  <2> QED
    BY <1>5, <1>6, <1>7, <2>1
<1> QED
  BY <1>1, <1>3, <1>4, <1>8

\* What HandleAll returns, from the states after each message.
LEMMA FoldIs ==
  ASSUME NEW stream, NEW base, NEW m, NEW n \in Nat, DOMAIN m = 1 .. n,
         NEW acc, acc[0] = base, \A k \in 1 .. n : acc[k] = Handle(stream, acc[k - 1], m[k])
  PROVE  HandleAll(stream, base, m) = acc[n]
<1> DEFINE P(g) == g = [s \in SUBSET (DOMAIN m) |->
                          IF s = {} THEN base ELSE Handle(stream, g[s \ {Max(s)}], m[Max(s)])]
<1>1. HandleAll(stream, base, m) = (CHOOSE g : P(g))[DOMAIN m]
  BY DEF HandleAll, FoldLeft, MapThenFoldSet
<1>2. ASSUME NEW g PROVE P(g) <=> Run(g, stream, base, m, n)
  BY DEF Run
<1>3. PICK h : Run(h, stream, base, m, n)
  BY RunExists
<1>4. P(h)
  BY <1>2, <1>3
<1> HIDE DEF P
<1>5. P(CHOOSE g : P(g))
  BY <1>4
<1>6. Run(CHOOSE g : P(g), stream, base, m, n)
  BY <1>2, <1>5
<1>7. (CHOOSE g : P(g))[1 .. n] = acc[n]
  BY <1>6, RunIs
<1> QED
  BY <1>1, <1>7

-----------------------------------------------------------------------------
(* Sequences: prefixes, flattening, reversal.                              *)

\* Sequences: one-element sequences joined, and a reversal undone.
Joins(f, seqs, n) == f = [i \in 1 .. n |-> IF i = 1 THEN seqs[i] ELSE f[i - 1] \o seqs[i]]

First(m, k) == [j \in 1 .. k |-> m[j]]

\* One more message appended to what was written of them.
LEMMA AppendFirst ==
  ASSUME NEW S, NEW s \in Seq(S), NEW N \in Nat, NEW m \in [1 .. N -> S], NEW k \in 1 .. N
  PROVE  Append(s \o First(m, k - 1), m[k]) = s \o First(m, k)
<1>1. /\ k \in Nat /\ k - 1 \in Nat /\ m[k] \in S
      /\ First(m, k - 1) \in Seq(S) /\ First(m, k) \in Seq(S)
  <2>1. k \in Nat /\ k - 1 \in Nat /\ m[k] \in S
    OBVIOUS
  <2>2. \A j \in 1 .. k : j \in 1 .. N /\ m[j] \in S
    OBVIOUS
  <2>3. \A j \in 1 .. k - 1 : m[j] \in S
    BY <2>2
  <2> QED
    BY <2>1, <2>2, <2>3, IsASeq DEF First
<1>2. Len(First(m, k - 1)) = k - 1 /\ Len(First(m, k)) = k
  BY <1>1 DEF First
<1>3. First(m, k) = Append(First(m, k - 1), m[k])
  <2>1. Append(First(m, k - 1), m[k]) \in Seq(S) /\ Len(Append(First(m, k - 1), m[k])) = k
    BY <1>1, <1>2
  <2>2. ASSUME NEW j \in 1 .. k
        PROVE  First(m, k)[j] = Append(First(m, k - 1), m[k])[j]
    <3>1. CASE j = k
      BY <1>1, <1>2, <3>1 DEF First
    <3>2. CASE j # k
      <4>1. j \in 1 .. k - 1
        BY <1>1, <3>2
      <4>2. Append(First(m, k - 1), m[k])[j] = First(m, k - 1)[j]
        BY <1>1, <1>2, <4>1
      <4> QED
        BY <4>1, <4>2 DEF First
    <3> QED
      BY <3>1, <3>2
  <2> QED
    BY <1>1, <1>2, <2>1, <2>2, SeqEqual
<1>4. ASSUME NEW t \in Seq(S), NEW e \in S
      PROVE  Append(s \o t, e) = s \o Append(t, e)
  <2>1. /\ Append(s \o t, e) \in Seq(S) /\ Len(Append(s \o t, e)) = Len(s) + Len(t) + 1
        /\ s \o Append(t, e) \in Seq(S) /\ Len(s \o Append(t, e)) = Len(s) + Len(t) + 1
    OBVIOUS
  <2>2. ASSUME NEW j \in 1 .. Len(s) + Len(t) + 1
        PROVE  Append(s \o t, e)[j] = (s \o Append(t, e))[j]
    <3>1. CASE j \in 1 .. Len(s)
      BY <3>1
    <3>2. CASE j \in Len(s) + 1 .. Len(s) + Len(t)
      BY <3>2
    <3>3. CASE j = Len(s) + Len(t) + 1
      BY <3>3
    <3> QED
      BY <3>1, <3>2, <3>3
  <2> QED
    BY <2>1, <2>2, SeqEqual
<1> QED
  BY <1>1, <1>3, <1>4

\* One-element sequences joined are the sequence of their elements.
LEMMA FlattenOnes ==
  ASSUME NEW n \in Nat, n # 0, NEW S, NEW m \in [1 .. n -> S]
  PROVE  FlattenSeq([i \in 1 .. n |-> <<m[i]>>]) = m
<1> DEFINE seqs == [i \in 1 .. n |-> <<m[i]>>]
           P(f) == f = [i \in 1 .. Len(seqs) |-> IF i = 1 THEN seqs[i] ELSE f[i - 1] \o seqs[i]]
<1>1. Len(seqs) = n /\ seqs \in Seq(Seq(S))
  <2>1. \A i \in 1 .. n : <<m[i]>> \in Seq(S)
    OBVIOUS
  <2> QED
    BY <2>1
<1>2. FlattenSeq(seqs) = (CHOOSE f : P(f))[Len(seqs)]
  BY <1>1 DEF FlattenSeq
<1>3. ASSUME NEW f PROVE P(f) <=> Joins(f, seqs, n)
  BY <1>1 DEF Joins
<1>4. \A k \in 1 .. n : seqs[k] = <<m[k]>>
  OBVIOUS
<1> HIDE DEF seqs, P
<1>5. \A k \in 1 .. n : First(m, k) \in Seq(S) /\ k # 1 => First(m, k - 1) \o seqs[k] = First(m, k)
  <2> SUFFICES ASSUME NEW k \in 1 .. n, First(m, k) \in Seq(S), k # 1
               PROVE  First(m, k - 1) \o seqs[k] = First(m, k)
    OBVIOUS
  <2>1. First(m, k - 1) \in Seq(S)
    <3>1. \A j \in 1 .. k - 1 : m[j] \in S
      OBVIOUS
    <3> QED
      BY <3>1 DEF First
  <2>2. <<>> \in Seq(S)
    BY EmptySeq
  <2>3. Append(<<>> \o First(m, k - 1), m[k]) = <<>> \o First(m, k)
    BY <2>2, AppendFirst
  <2>4. Append(First(m, k - 1), m[k]) = First(m, k)
    BY <2>1, <2>3
  <2>5. First(m, k - 1) \o <<m[k]>> = Append(First(m, k - 1), m[k])
    BY <2>1
  <2> QED
    BY <1>4, <2>4, <2>5
<1>6. \A k \in 1 .. n : First(m, k) \in Seq(S)
  <2> SUFFICES ASSUME NEW k \in 1 .. n PROVE First(m, k) \in Seq(S)
    OBVIOUS
  <2>1. \A j \in 1 .. k : m[j] \in S
    OBVIOUS
  <2> QED
    BY <2>1 DEF First
<1>7. First(m, 1) = seqs[1] /\ First(m, n) = m
  BY <1>4 DEF First
<1> DEFINE g == [i \in 1 .. n |-> First(m, i)]
<1>8. Joins(g, seqs, n)
  <2>1. ASSUME NEW i \in 1 .. n
        PROVE  First(m, i) = IF i = 1 THEN seqs[i] ELSE g[i - 1] \o seqs[i]
    <3>1. CASE i = 1
      BY <1>7, <3>1
    <3>2. CASE i # 1
      <4>1. i - 1 \in 1 .. n
        BY <3>2
      <4>2. g[i - 1] = First(m, i - 1)
        BY <4>1
      <4> QED
        BY <1>5, <1>6, <3>2, <4>2
    <3> QED
      BY <3>1, <3>2
  <2> QED
    BY <2>1 DEF Joins
<1>9. P(g)
  BY <1>3, <1>8
<1> DEFINE h == CHOOSE f : P(f)
<1>10. Joins(h, seqs, n)
  <2> HIDE DEF g
  <2>1. P(h)
    BY <1>9
  <2> HIDE DEF h
  <2> QED
    BY <1>3, <2>1
<1> HIDE DEF g, h
<1>11. h[n] = First(m, n)
  <2> DEFINE Good(k) == h[k] = First(m, k)
             Bad == {k \in 1 .. n : ~ Good(k)}
  <2> SUFFICES ASSUME ~ Good(n) PROVE FALSE
    OBVIOUS
  <2>1. PICK k \in Bad : \A j \in Bad : k <= j
    <3> HIDE DEF Good
    <3>1. Bad \in SUBSET Nat /\ n \in Bad
      OBVIOUS
    <3> QED
      BY <3>1, Least
  <2>2. k \in 1 .. n /\ h[k] = IF k = 1 THEN seqs[k] ELSE h[k - 1] \o seqs[k]
    BY <2>1, <1>10 DEF Joins
  <2>3. k # 1
    BY <2>1, <2>2, <1>7
  <2>4. k - 1 \in 1 .. n /\ k - 1 < k
    BY <2>2, <2>3
  <2>5. h[k - 1] = First(m, k - 1)
    BY <2>1, <2>4
  <2> QED
    BY <1>5, <1>6, <2>1, <2>2, <2>3, <2>5
<1>12. FlattenSeq(seqs) = h[n]
  BY <1>1, <1>2 DEF h
<1> QED
  BY <1>7, <1>11, <1>12 DEF seqs

LEMMA FlattenNothing == FlattenSeq(<<>>) = <<>> /\ FlattenSeq([i \in 1 .. 1 |-> <<>>]) = <<>>
<1>1. FlattenSeq(<<>>) = <<>>
  BY DEF FlattenSeq
<1> DEFINE seqs == [i \in 1 .. 1 |-> <<>>]
           P(f) == f = [i \in 1 .. Len(seqs) |-> IF i = 1 THEN seqs[i] ELSE f[i - 1] \o seqs[i]]
<1>2. Len(seqs) = 1 /\ seqs[1] = <<>>
  OBVIOUS
<1>3. FlattenSeq(seqs) = (CHOOSE f : P(f))[Len(seqs)]
  BY <1>2 DEF FlattenSeq
<1> HIDE DEF seqs
<1>4. P([i \in 1 .. 1 |-> <<>>])
  BY <1>2
<1>5. ASSUME NEW f, P(f) PROVE f[1] = <<>>
  BY <1>2, <1>5
<1> HIDE DEF P
<1>6. P(CHOOSE f : P(f))
  BY <1>4
<1>7. (CHOOSE f : P(f))[1] = <<>>
  BY <1>5, <1>6
<1> QED
  BY <1>1, <1>2, <1>3, <1>7 DEF seqs

\* Bitget sends newest first, and the parser turns it round again.
LEMMA ReverseTwice ==
  ASSUME NEW S, NEW s \in Seq(S)
  PROVE  Reverse(Reverse(s)) = s /\ Reverse(s) \in Seq(S) /\ Len(Reverse(s)) = Len(s)
<1>1. \A i \in 1 .. Len(s) : Len(s) - i + 1 \in 1 .. Len(s) /\ s[Len(s) - i + 1] \in S
  OBVIOUS
<1>2. Reverse(s) = [i \in 1 .. Len(s) |-> s[Len(s) - i + 1]]
  BY DEF Reverse
<1>3. Reverse(s) \in Seq(S) /\ Len(Reverse(s)) = Len(s)
  BY <1>1, <1>2
<1>4. Reverse(Reverse(s)) = [i \in 1 .. Len(s) |-> Reverse(s)[Len(s) - i + 1]]
  BY <1>3 DEF Reverse
<1>5. \A i \in 1 .. Len(s) : Reverse(s)[Len(s) - i + 1] = s[i]
  <2> SUFFICES ASSUME NEW i \in 1 .. Len(s) PROVE Reverse(s)[Len(s) - i + 1] = s[i]
    OBVIOUS
  <2>1. Len(s) - i + 1 \in 1 .. Len(s) /\ Len(s) - (Len(s) - i + 1) + 1 = i
    OBVIOUS
  <2> QED
    BY <1>2, <2>1
<1>6. s = [i \in 1 .. Len(s) |-> s[i]]
  OBVIOUS
<1>7. Reverse(Reverse(s)) = s
  BY <1>4, <1>5, <1>6
<1> QED
  BY <1>3, <1>7

\* The first of one.
LEMMA TakeOne ==
  ASSUME NEW S, NEW s \in Seq(S), Len(s) = 1
  PROVE  Take(s, 1) = s
<1>1. Min({1, Len(s)}) = 1
  BY MinNat
<1>2. Take(s, 1) = SubSeq(s, 1, 1)
  BY <1>1 DEF Take
<1> QED
  BY <1>2

-----------------------------------------------------------------------------
(* What the dedup worker and the stores make of new messages.              *)

IsSeq(s) == s \in Seq({s[i] : i \in DOMAIN s})

\* IsSeq does not name the set that a sequence is over.
LEMMA SeqIs ==
  ASSUME NEW S, NEW s \in Seq(S)
  PROVE  IsSeq(s)
<1>1. Len(s) \in Nat /\ DOMAIN s = 1 .. Len(s) /\ s = [i \in 1 .. Len(s) |-> s[i]]
  OBVIOUS
<1> DEFINE T == {s[i] : i \in DOMAIN s}
<1>2. \A i \in 1 .. Len(s) : s[i] \in T
  BY <1>1
<1> HIDE DEF T
<1>3. s \in Seq(T)
  BY <1>1, <1>2, IsASeq
<1> QED
  BY <1>3 DEF IsSeq, T

LEMMA SeqOfBoth ==
  ASSUME NEW s, IsSeq(s), NEW t, IsSeq(t)
  PROVE  \E S : s \in Seq(S) /\ t \in Seq(S)
<1> DEFINE S == {s[i] : i \in DOMAIN s}
           T == {t[i] : i \in DOMAIN t}
<1>1. s \in Seq(S) /\ t \in Seq(T)
  BY DEF IsSeq
<1> HIDE DEF S, T
<1>2. s \in Seq(S \cup T) /\ t \in Seq(S \cup T)
  BY <1>1
<1> QED
  BY <1>2

LEMMA FirstEnds ==
  ASSUME NEW s, IsSeq(s), NEW N \in Nat, NEW S, NEW m \in [1 .. N -> S]
  PROVE  s \o First(m, 0) = s /\ First(m, N) = m
<1>1. First(m, N) = m
  BY DEF First
<1> DEFINE T == {s[i] : i \in DOMAIN s}
<1>2. s \in Seq(T)
  BY DEF IsSeq
<1> HIDE DEF T
<1>3. First(m, 0) = <<>>
  BY DEF First
<1>4. s \o <<>> = s
  BY <1>2, ConcatEmptySeq
<1> QED
  BY <1>1, <1>3, <1>4

\* What the dedup table keeps of a message.
Heard(msg) == [kind |-> msg.kind, sym |-> msg.sym, id |-> msg.id]

\* The store that takes messages of a kind about a symbol.
Into(stream, kind, sym, n) == n \in stream.names /\ n[2] = kind /\ sym \in stream.symbols

After(stream, known, old, kind, sym, m, k) ==
  [seen  |-> known \cup {Heard(m[j]) : j \in 1 .. k},
   store |-> [n \in StoreNames |-> IF Into(stream, kind, sym, n) THEN old[n] \o First(m, k) ELSE old[n]]]

Handed(stream, known, old, kind, sym, m, N) ==
  [seen  |-> known \cup {Heard(m[j]) : j \in 1 .. N},
   store |-> [n \in StoreNames |-> IF Into(stream, kind, sym, n) THEN old[n] \o m ELSE old[n]]]

Stores(old) == old = [n \in StoreNames |-> old[n]] /\ \A n \in StoreNames : IsSeq(old[n])

Unheard(known, kind, sym, m, N) ==
  /\ \A i \in 1 .. N : m[i].kind = kind /\ m[i].sym = sym /\ m[i].id \in Nat
  /\ \A i, j \in 1 .. N : i < j => m[i].id < m[j].id
  /\ \A k \in known : k.kind = kind /\ k.sym = sym =>
       k.id \in Nat /\ \A i \in 1 .. N : k.id < m[i].id

\* Messages whose ids rise, above all that are known, are all written.
LEMMA Handled ==
  ASSUME NEW stream, NEW known, NEW old, Stores(old), NEW kind, NEW sym,
         NEW N \in Nat, NEW S, NEW m \in [1 .. N -> S], Unheard(known, kind, sym, m, N)
  PROVE  HandleAll(stream, [seen |-> known, store |-> old], m) = Handed(stream, known, old, kind, sym, m, N)
<1> USE DEF Stores, Unheard, Handed
<1> DEFINE A(k) == After(stream, known, old, kind, sym, m, k)
           base == [seen |-> known, store |-> old]
           acc == [k \in 0 .. N |-> A(k)]
<1>1. A(0) = base
  <2>1. {Heard(m[j]) : j \in 1 .. 0} = {}
    OBVIOUS
  <2>2. \A n \in StoreNames : old[n] \o First(m, 0) = old[n]
    <3> SUFFICES ASSUME NEW n \in StoreNames PROVE old[n] \o First(m, 0) = old[n]
      OBVIOUS
    <3>1. IsSeq(old[n])
      OBVIOUS
    <3> QED
      BY ONLY <3>1, N \in Nat, m \in [1 .. N -> S], FirstEnds
  <2>3. [n \in StoreNames |-> IF Into(stream, kind, sym, n) THEN old[n] \o First(m, 0) ELSE old[n]] = old
    BY <2>2
  <2> QED
    BY <2>1, <2>3 DEF After
<1>2. A(N) = [seen  |-> known \cup {Heard(m[j]) : j \in 1 .. N},
              store |-> [n \in StoreNames |-> IF Into(stream, kind, sym, n) THEN old[n] \o m ELSE old[n]]]
  <2>1. First(m, N) = m
    BY DEF First
  <2> QED
    BY <2>1 DEF After
<1>3. ASSUME NEW k \in 1 .. N
      PROVE  A(k) = Handle(stream, A(k - 1), m[k])
  <2>1. k - 1 \in 0 .. N /\ k \in Nat
    OBVIOUS
  <2> DEFINE before == A(k - 1)
  <2>2. before.seen = known \cup {Heard(m[j]) : j \in 1 .. k - 1}
    BY DEF After
  <2>3. before.store = [n \in StoreNames |->
                          IF Into(stream, kind, sym, n) THEN old[n] \o First(m, k - 1) ELSE old[n]]
    BY DEF After
  <2>4. m[k].kind = kind /\ m[k].sym = sym /\ m[k].id \in Nat
    OBVIOUS
  <2> HIDE DEF before
  <2>5. ~ Repeated(stream, before.seen, m[k])
    <3> SUFFICES ASSUME NEW x \in before.seen, x.kind = m[k].kind, x.sym = m[k].sym
                 PROVE  x.id # m[k].id /\ ~ (x.id >= m[k].id)
      BY DEF Repeated
    <3>1. CASE x \in known
      <4>1. x.id \in Nat /\ x.id < m[k].id
        BY <2>4, <3>1
      <4> QED
        BY <2>4, <4>1
    <3>2. CASE x \notin known
      <4>1. PICK j \in 1 .. k - 1 : x = Heard(m[j])
        BY <2>2, <3>2
      <4>2. j \in 1 .. N /\ j < k /\ x.id = m[j].id
        BY <2>1, <4>1 DEF Heard
      <4>3. m[j].id < m[k].id /\ m[j].id \in Nat
        BY <4>2
      <4> QED
        BY <2>4, <4>2, <4>3
    <3> QED
      BY <3>1, <3>2
  <2>6. Handle(stream, before, m[k])
          = [seen  |-> before.seen \cup {Heard(m[k])},
             store |-> [n \in StoreNames |-> IF Into(stream, kind, sym, n)
                                             THEN Append(before.store[n], m[k]) ELSE before.store[n]]]
    BY <2>4, <2>5 DEF Handle, Heard, Into
  <2>7. before.seen \cup {Heard(m[k])} = known \cup {Heard(m[j]) : j \in 1 .. k}
    <3>1. \A j : j \in 1 .. k <=> j \in 1 .. k - 1 \/ j = k
      BY <2>1
    <3> QED
      BY <2>2, <3>1
  <2>8. \A n \in StoreNames : Append(old[n] \o First(m, k - 1), m[k]) = old[n] \o First(m, k)
    <3> SUFFICES ASSUME NEW n \in StoreNames
                 PROVE  Append(old[n] \o First(m, k - 1), m[k]) = old[n] \o First(m, k)
      OBVIOUS
    <3> DEFINE T == {old[n][i] : i \in DOMAIN old[n]}
               s == old[n]
    <3>1. s \in Seq(T)
      BY DEF IsSeq
    <3>2. m \in [1 .. N -> S \cup T] /\ s \in Seq(S \cup T)
      <4> HIDE DEF T, s
      <4> QED
        BY <3>1
    <3> HIDE DEF T, s
    <3>3. Append(s \o First(m, k - 1), m[k]) = s \o First(m, k)
      BY <3>2, AppendFirst, ZenonT(60)
    <3> QED
      BY <3>3 DEF s
  <2>9. [n \in StoreNames |-> IF Into(stream, kind, sym, n)
                              THEN Append(before.store[n], m[k]) ELSE before.store[n]]
          = [n \in StoreNames |-> IF Into(stream, kind, sym, n) THEN old[n] \o First(m, k) ELSE old[n]]
    BY <2>3, <2>8
  <2> QED
    BY <2>6, <2>7, <2>9 DEF After, before
<1> HIDE DEF A
<1>4. acc[0] = base /\ acc[N] = A(N)
  BY <1>1
<1>5. \A k \in 1 .. N : acc[k] = Handle(stream, acc[k - 1], m[k])
  <2> SUFFICES ASSUME NEW k \in 1 .. N PROVE acc[k] = Handle(stream, acc[k - 1], m[k])
    OBVIOUS
  <2>1. k - 1 \in 0 .. N /\ k \in 0 .. N
    OBVIOUS
  <2> QED
    BY <1>3, <2>1
<1> HIDE DEF acc, base
<1>6. HandleAll(stream, base, m) = acc[N]
  <2>1. DOMAIN m = 1 .. N
    OBVIOUS
  <2> QED
    BY <1>4, <1>5, <2>1, FoldIs
<1> QED
  BY <1>2, <1>4, <1>6 DEF base

-----------------------------------------------------------------------------
(* The streams that a configuration runs, one by label.                    *)

BinanceLabels == {"binance_spot_json", "binance_spot_sbe", "binance_ubase"}
OkxLabels == {"okx_spot", "okx_swap"}
BitgetLabels == {"bitget_spot", "bitget_futures"}
BybitLabels == {"bybit_spot", "bybit_futures"}

\* The streams by their labels.
ExchangeOf(l) ==
  CASE l \in BinanceLabels -> "binance" [] l \in OkxLabels -> "okx"
    [] l \in BitgetLabels -> "bitget" [] OTHER -> "bybit"

MarketOf(l) ==
  IF l \in {"binance_ubase", "okx_swap", "bitget_futures", "bybit_futures"} THEN "futures" ELSE "spot"

KindsOf(l) ==
  CASE l = "binance_spot_json" -> {"agg"} [] l = "binance_ubase" -> Kinds [] OTHER -> NoAgg

UrlOf(l) ==
  CASE l = "binance_spot_json" -> "binance_spot" [] l = "binance_spot_sbe" -> "binance_sbe"
    [] l = "binance_ubase" -> "binance_futures" [] l \in OkxLabels -> "okx"
    [] l \in BitgetLabels -> "bitget" [] l = "bybit_spot" -> "bybit_spot" [] OTHER -> "bybit_linear"

PartOf(l) ==
  CASE l \in {"binance_spot_json", "binance_spot_sbe"} -> BinanceConfig(conn).spot
    [] l = "binance_ubase" -> BinanceConfig(conn).ubase
    [] l = "okx_spot" -> OkxConfig(conn).spot
    [] l = "okx_swap" -> OkxConfig(conn).swap
    [] l = "bitget_spot" -> BitgetConfig(conn).spot
    [] l = "bitget_futures" -> BitgetConfig(conn).futures
    [] l = "bybit_spot" -> BybitConfig(conn).spot
    [] OTHER -> BybitConfig(conn).futures

SubsOf(l, symbols) ==
  CASE l = "binance_spot_json" -> SpotJsonSubscribe(symbols)
    [] l = "binance_spot_sbe" -> SpotSbeSubscribe(symbols)
    [] l = "binance_ubase" -> UbaseSubscribe(symbols)
    [] l \in OkxLabels -> OkxSubscribe(symbols)
    [] l = "bitget_spot" -> BitgetSpotSubscribe(symbols)
    [] l = "bitget_futures" -> BitgetFuturesSubscribe(symbols)
    [] OTHER -> BybitSubscribe(symbols)

NamesOf(l, names) ==
  CASE l = "binance_spot_json" -> names \cap ({"spot"} \X {"agg"})
    [] l = "binance_spot_sbe" -> names \ ({"spot"} \X {"agg"})
    [] OTHER -> names

StreamAt(l) ==
  [label |-> l, url |-> UrlOf(l), subs |-> SubsOf(l, PartOf(l).symbols),
   names |-> NamesOf(l, PartOf(l).names), symbols |-> PartOf(l).symbols, uuid |-> l = "bybit_futures"]

Active == {l \in Labels : ExchangeOf(l) = conn.exchange /\ PartOf(l).symbols # {}}

One(l) == IF PartOf(l).symbols = {} THEN {} ELSE {StreamAt(l)}

\* Each exchange has one stream for each of its labels whose section has symbols.
LEMMA BinanceOnes ==
  BinanceStreams(conn) = One("binance_spot_json") \cup One("binance_spot_sbe") \cup One("binance_ubase")
<1> DEFINE cfg == BinanceConfig(conn)
           agg == {"spot"} \X {"agg"}
<1>1. One("binance_spot_json") =
        StreamOf("binance_spot_json", "binance_spot", SpotJsonSubscribe(cfg.spot.symbols),
                 cfg.spot.names \cap agg, cfg.spot.symbols)
  BY DEF One, StreamOf, StreamAt, UrlOf, SubsOf, NamesOf, PartOf, OkxLabels, BitgetLabels
<1>2. One("binance_spot_sbe") =
        StreamOf("binance_spot_sbe", "binance_sbe", SpotSbeSubscribe(cfg.spot.symbols),
                 cfg.spot.names \ agg, cfg.spot.symbols)
  BY DEF One, StreamOf, StreamAt, UrlOf, SubsOf, NamesOf, PartOf, OkxLabels, BitgetLabels
<1>3. One("binance_ubase") =
        StreamOf("binance_ubase", "binance_futures", UbaseSubscribe(cfg.ubase.symbols),
                 cfg.ubase.names, cfg.ubase.symbols)
  BY DEF One, StreamOf, StreamAt, UrlOf, SubsOf, NamesOf, PartOf, OkxLabels, BitgetLabels
<1> QED
  BY <1>1, <1>2, <1>3 DEF BinanceStreams

LEMMA OkxOnes == OkxStreams(conn) = One("okx_spot") \cup One("okx_swap")
<1> DEFINE cfg == OkxConfig(conn)
<1>1. One("okx_spot") =
        StreamOf("okx_spot", "okx", OkxSubscribe(cfg.spot.symbols), cfg.spot.names, cfg.spot.symbols)
  BY DEF One, StreamOf, StreamAt, UrlOf, SubsOf, NamesOf, PartOf, OkxLabels, BitgetLabels
<1>2. One("okx_swap") =
        StreamOf("okx_swap", "okx", OkxSubscribe(cfg.swap.symbols), cfg.swap.names, cfg.swap.symbols)
  BY DEF One, StreamOf, StreamAt, UrlOf, SubsOf, NamesOf, PartOf, OkxLabels, BitgetLabels
<1> QED
  BY <1>1, <1>2 DEF OkxStreams

LEMMA BitgetOnes == BitgetStreams(conn) = One("bitget_spot") \cup One("bitget_futures")
<1> DEFINE cfg == BitgetConfig(conn)
<1>1. One("bitget_spot") =
        StreamOf("bitget_spot", "bitget", BitgetSpotSubscribe(cfg.spot.symbols),
                 cfg.spot.names, cfg.spot.symbols)
  BY DEF One, StreamOf, StreamAt, UrlOf, SubsOf, NamesOf, PartOf, OkxLabels, BitgetLabels
<1>2. One("bitget_futures") =
        StreamOf("bitget_futures", "bitget", BitgetFuturesSubscribe(cfg.futures.symbols),
                 cfg.futures.names, cfg.futures.symbols)
  BY DEF One, StreamOf, StreamAt, UrlOf, SubsOf, NamesOf, PartOf, OkxLabels, BitgetLabels
<1> QED
  BY <1>1, <1>2 DEF BitgetStreams

LEMMA BybitOnes == BybitStreams(conn) = One("bybit_spot") \cup One("bybit_futures")
<1> DEFINE cfg == BybitConfig(conn)
<1>1. One("bybit_spot") =
        StreamOf("bybit_spot", "bybit_spot", BybitSubscribe(cfg.spot.symbols),
                 cfg.spot.names, cfg.spot.symbols)
  BY DEF One, StreamOf, StreamAt, UrlOf, SubsOf, NamesOf, PartOf, OkxLabels, BitgetLabels
<1>2. One("bybit_futures") =
        StreamOf("bybit_futures", "bybit_linear", BybitSubscribe(cfg.futures.symbols),
                 cfg.futures.names, cfg.futures.symbols)
  BY DEF One, StreamOf, StreamAt, UrlOf, SubsOf, NamesOf, PartOf, OkxLabels, BitgetLabels
<1> QED
  BY <1>1, <1>2 DEF BybitStreams

\* build() makes the streams of the exchange whose part of the configuration
\* has symbols.
LEMMA StreamsAre ==
  ASSUME conn \in Configs
  PROVE  Streams(conn) = {StreamAt(l) : l \in Active}
<1>1. conn.exchange \in Exchanges
  BY ConfigsAssumption DEF Configuration
<1>2. ASSUME NEW st
      PROVE  st \in {StreamAt(l) : l \in Active} <=>
               \E l \in Labels : ExchangeOf(l) = conn.exchange /\ st \in One(l)
  BY DEF Active, One
<1>3. ASSUME NEW l \in Labels
      PROVE  /\ ExchangeOf(l) = "binance" <=> l \in BinanceLabels
             /\ ExchangeOf(l) = "okx" <=> l \in OkxLabels
             /\ ExchangeOf(l) = "bitget" <=> l \in BitgetLabels
             /\ ExchangeOf(l) = "bybit" <=> l \in BybitLabels
  BY DEF Labels, ExchangeOf, BinanceLabels, OkxLabels, BitgetLabels, BybitLabels
<1>4. BinanceLabels \subseteq Labels /\ OkxLabels \subseteq Labels
      /\ BitgetLabels \subseteq Labels /\ BybitLabels \subseteq Labels
  BY DEF Labels, BinanceLabels, OkxLabels, BitgetLabels, BybitLabels
<1>5. CASE conn.exchange = "binance"
  <2>1. Streams(conn) = BinanceStreams(conn)
    BY <1>5 DEF Streams
  <2>2. ASSUME NEW st
        PROVE  st \in BinanceStreams(conn) <=> \E l \in BinanceLabels : st \in One(l)
    BY BinanceOnes DEF BinanceLabels
  <2> QED
    BY <1>2, <1>3, <1>4, <1>5, <2>1, <2>2
<1>6. CASE conn.exchange = "okx"
  <2>1. Streams(conn) = OkxStreams(conn)
    BY <1>6 DEF Streams
  <2>2. ASSUME NEW st
        PROVE  st \in OkxStreams(conn) <=> \E l \in OkxLabels : st \in One(l)
    BY OkxOnes DEF OkxLabels
  <2> QED
    BY <1>2, <1>3, <1>4, <1>6, <2>1, <2>2
<1>7. CASE conn.exchange = "bitget"
  <2>1. Streams(conn) = BitgetStreams(conn)
    BY <1>7 DEF Streams
  <2>2. ASSUME NEW st
        PROVE  st \in BitgetStreams(conn) <=> \E l \in BitgetLabels : st \in One(l)
    BY BitgetOnes DEF BitgetLabels
  <2> QED
    BY <1>2, <1>3, <1>4, <1>7, <2>1, <2>2
<1>8. CASE conn.exchange = "bybit"
  <2>1. Streams(conn) = BybitStreams(conn)
    BY <1>8 DEF Streams
  <2>2. ASSUME NEW st
        PROVE  st \in BybitStreams(conn) <=> \E l \in BybitLabels : st \in One(l)
    BY BybitOnes DEF BybitLabels
  <2> QED
    BY <1>2, <1>3, <1>4, <1>8, <2>1, <2>2
<1> QED
  BY <1>1, <1>5, <1>6, <1>7, <1>8 DEF Exchanges

\* The streams that run are those of the active labels.
LEMMA RunningIs ==
  ASSUME conn \in Configs
  PROVE  Running = Active /\ \A l \in Active : Stream(l) = StreamAt(l)
<1>1. Streams(conn) = {StreamAt(l) : l \in Active}
  BY StreamsAre
<1>2. \A l : StreamAt(l).label = l
  BY DEF StreamAt
<1>3. Running = Active
  BY <1>1, <1>2 DEF Running
<1>4. ASSUME NEW l \in Active
      PROVE  Stream(l) = StreamAt(l)
  <2>1. StreamAt(l) \in Streams(conn) /\ StreamAt(l).label = l
    BY <1>1, <1>2
  <2>2. \A st \in Streams(conn) : st.label = l => st = StreamAt(l)
    BY <1>1, <1>2
  <2> QED
    BY <2>1, <2>2 DEF Stream
<1> QED
  BY <1>3, <1>4

-----------------------------------------------------------------------------
(* What a stream serves.                                                   *)

TypeOf(l) == CASE l = "bitget_spot" -> "SPOT" [] l = "bitget_futures" -> "USDT-FUTURES" [] OTHER -> ""

ChannelsOf(l) ==
  CASE l = "binance_spot_json" -> {"aggTrade"}
    [] l = "binance_spot_sbe" -> {"bestBidAsk", "trade", "depth20"}
    [] l = "binance_ubase" -> {"aggTrade", "bookTicker", "trade", "depth5@100ms"}
    [] l \in OkxLabels -> {"bbo-tbt", "trades", "books5"}
    [] l \in BitgetLabels -> {"books1", "trade", "books5"}
    [] OTHER -> {"publicTrade", "orderbook.1", "orderbook.50"}

SymsOf(l, symbols) == IF l \in BinanceLabels THEN {Lower(s) : s \in symbols} ELSE symbols

\* The subscriptions of a label, in one form for all exchanges.
LEMMA SubsAre ==
  ASSUME NEW l \in Labels, NEW symbols
  PROVE  SubsOf(l, symbols) = [type : {TypeOf(l)}, channel : ChannelsOf(l), sym : SymsOf(l, symbols)]
<1>1. CASE l = "binance_spot_json"
  BY <1>1 DEF SubsOf, TypeOf, ChannelsOf, SymsOf, BinanceLabels, OkxLabels, BitgetLabels,
              SpotJsonSubscribe, Subscribe
<1>2. CASE l = "binance_spot_sbe"
  BY <1>2 DEF SubsOf, TypeOf, ChannelsOf, SymsOf, BinanceLabels, OkxLabels, BitgetLabels,
              SpotSbeSubscribe, Subscribe
<1>3. CASE l = "binance_ubase"
  BY <1>3 DEF SubsOf, TypeOf, ChannelsOf, SymsOf, BinanceLabels, OkxLabels, BitgetLabels,
              UbaseSubscribe, Subscribe
<1>4. CASE l \in OkxLabels
  BY <1>4 DEF SubsOf, TypeOf, ChannelsOf, SymsOf, BinanceLabels, OkxLabels, BitgetLabels,
              OkxSubscribe, Subscribe
<1>5. CASE l = "bitget_spot"
  BY <1>5 DEF SubsOf, TypeOf, ChannelsOf, SymsOf, BinanceLabels, OkxLabels, BitgetLabels,
              BitgetSpotSubscribe, Subscribe
<1>6. CASE l = "bitget_futures"
  BY <1>6 DEF SubsOf, TypeOf, ChannelsOf, SymsOf, BinanceLabels, OkxLabels, BitgetLabels,
              BitgetFuturesSubscribe, Subscribe
<1>7. CASE l \in BybitLabels
  BY <1>7 DEF SubsOf, TypeOf, ChannelsOf, SymsOf, BinanceLabels, OkxLabels, BitgetLabels, BybitLabels,
              BybitSubscribe, Subscribe
<1> QED
  BY <1>1, <1>2, <1>3, <1>4, <1>5, <1>6, <1>7 DEF Labels, OkxLabels, BybitLabels

LEMMA Sections ==
  ASSUME conn \in Configs
  PROVE  /\ conn.spot \in Option(Listed) /\ conn.futures \in Option(Listed)
         /\ conn.swap \in Option(Listed) /\ conn.exchange \in Exchanges
BY ConfigsAssumption DEF Configuration

\* A section lists symbols.
LEMMA SymbolsAre ==
  ASSUME NEW section \in Option(Listed)
  PROVE  SpotSymbols(section) \subseteq Symbol /\ EffectiveSymbols(section) \subseteq Symbol
<1>1. ASSUME NEW option \in Option(SUBSET Symbol)
      PROVE  SymbolsOf(option) \subseteq Symbol
  <2>1. CASE option = <<>>
    BY <2>1 DEF SymbolsOf
  <2>2. CASE option # <<>>
    <3>1. option \in Seq(SUBSET Symbol)
      BY DEF Option
    <3>2. option[1] \in SUBSET Symbol
      BY <2>2, <3>1
    <3> QED
      BY <2>2, <3>2 DEF SymbolsOf
  <2> QED
    BY <2>1, <2>2
<1>2. CASE section = <<>>
  BY <1>2 DEF SpotSymbols, EffectiveSymbols
<1>3. CASE section # <<>>
  <2>1. section \in Seq(Listed)
    BY DEF Option
  <2>2. section[1] \in Listed
    BY <1>3, <2>1
  <2>3. section[1].symbols \in Option(SUBSET Symbol) /\ section[1].ubase \in Option(SUBSET Symbol)
    BY <2>2 DEF Listed
  <2> QED
    BY <1>1, <1>3, <2>3 DEF SpotSymbols, EffectiveSymbols
<1> QED
  BY <1>2, <1>3

\* OKX: the swap is in the symbol.
LEMMA OkxSwaps ==
  ASSUME conn \in Configs, conn.exchange = "okx"
  PROVE  /\ \A s \in PartOf("okx_spot").symbols : s.swap = 0
         /\ \A s \in PartOf("okx_swap").symbols : s.swap # 0
<1>1. /\ PartOf("okx_spot").symbols = {ToOkxInstId(s) : s \in SpotSymbols(conn.spot)}
      /\ PartOf("okx_swap").symbols = {ToOkxSwapInstId(s) : s \in SpotSymbols(conn.swap)}
  BY DEF PartOf, OkxConfig, Extract
<1>2. SpotSymbols(conn.spot) \subseteq Symbol /\ SpotSymbols(conn.swap) \subseteq Symbol
  BY Sections, SymbolsAre
<1>3. \A s \in SpotSymbols(conn.spot) : s.swap = 0
  BY ConfigsAssumption
<1>4. ASSUME NEW s \in Symbol
      PROVE  /\ s.swap \in Nat /\ ToOkxInstId(s) \in Symbol /\ ToOkxInstId(s).swap = s.swap
             /\ Swap(s).swap = s.swap + 1
  BY DEF Symbol, ToOkxInstId, Hyphen, Swap
<1>5. ASSUME NEW s \in Symbol
      PROVE  ToOkxSwapInstId(s).swap # 0
  <2>1. ToOkxInstId(s) \in Symbol /\ ToOkxInstId(s).swap \in Nat
    BY <1>4
  <2>2. ToOkxSwapInstId(s).swap = ToOkxInstId(s).swap + 1
    BY <1>4, <2>1 DEF ToOkxSwapInstId
  <2> QED
    BY <2>1, <2>2
<1> QED
  BY <1>1, <1>2, <1>3, <1>4, <1>5

\* What a stream is served: the market, the kinds and the symbols that are its.
LEMMA ServesIs ==
  ASSUME conn \in Configs, NEW l \in Active, NEW feed \in Feeds, NEW sub \in Serves(StreamAt(l), feed)
  PROVE  /\ feed.market = MarketOf(l) /\ feed.kind \in KindsOf(l)
         /\ sub.type = TypeOf(l) /\ sub.channel \in ChannelsOf(l) /\ KindOfChannel(sub.channel) = feed.kind
         /\ sub.sym = VenueSymbol(UrlOf(l), feed.market, feed.pair)
<1>1. l \in Labels /\ ExchangeOf(l) = conn.exchange
  BY DEF Active
<1> DEFINE symbols == PartOf(l).symbols
<1>2. StreamAt(l).url = UrlOf(l) /\ StreamAt(l).subs = SubsOf(l, symbols)
  BY DEF StreamAt
<1>3. /\ sub \in SubsOf(l, symbols) /\ KindOfChannel(sub.channel) = feed.kind
      /\ feed.market \in MarketsAt(UrlOf(l), sub.type)
      /\ sub.sym = VenueSymbol(UrlOf(l), feed.market, feed.pair)
  BY <1>2 DEF Serves
<1> HIDE DEF symbols
<1>4. sub.type = TypeOf(l) /\ sub.channel \in ChannelsOf(l) /\ sub.sym \in SymsOf(l, symbols)
  <2>1. sub \in [type : {TypeOf(l)}, channel : ChannelsOf(l), sym : SymsOf(l, symbols)]
    BY <1>1, <1>3, SubsAre
  <2> QED
    BY <2>1
<1>5. feed.market \in {"spot", "futures"} /\ feed.pair \in Pairs /\ feed.kind \in Kinds
  BY DEF Feeds, Markets
<1>6. feed.kind \in KindsOf(l)
  <2>1. CASE l = "binance_spot_json"
    <3>1. sub.channel = "aggTrade" /\ KindsOf(l) = {"agg"}
      BY <1>4, <2>1 DEF ChannelsOf, KindsOf, OkxLabels, BitgetLabels
    <3>2. KindOfChannel("aggTrade") = "agg"
      BY DEF KindOfChannel
    <3> QED
      BY <1>3, <3>1, <3>2
  <2>2. CASE l = "binance_ubase"
    BY <1>5, <2>2 DEF KindsOf
  <2>3. CASE l \notin {"binance_spot_json", "binance_ubase"}
    <3>1. sub.channel \in {"bestBidAsk", "trade", "depth20", "bbo-tbt", "trades", "books5", "books1",
                           "publicTrade", "orderbook.1", "orderbook.50"}
      BY <1>1, <1>4, <2>3 DEF ChannelsOf
    <3>2. KindOfChannel(sub.channel) \in NoAgg
      BY <3>1 DEF KindOfChannel, NoAgg
    <3> QED
      BY <1>3, <2>3, <3>2 DEF KindsOf
  <2> QED
    BY <2>1, <2>2, <2>3
<1>7. feed.market = MarketOf(l)
  <2>1. CASE l \notin OkxLabels \cup BitgetLabels
    <3>1. UrlOf(l) \in {"binance_spot", "binance_sbe", "binance_futures", "bybit_spot", "bybit_linear"}
      BY <1>1, <2>1 DEF UrlOf, Labels, OkxLabels, BitgetLabels
    <3>2. MarketOf(l) = IF UrlOf(l) \in {"binance_futures", "bybit_linear"} THEN "futures" ELSE "spot"
      BY <1>1, <2>1 DEF UrlOf, MarketOf, Labels, OkxLabels, BitgetLabels
    <3> QED
      BY <1>3, <3>1, <3>2 DEF MarketsAt
  <2>2. CASE l \in BitgetLabels
    <3>1. UrlOf(l) = "bitget"
      BY <2>2 DEF UrlOf, OkxLabels, BitgetLabels
    <3>2. MarketOf(l) = IF TypeOf(l) = "SPOT" THEN "spot" ELSE "futures"
      BY <2>2 DEF MarketOf, TypeOf, BitgetLabels
    <3> QED
      BY <1>3, <1>4, <3>1, <3>2 DEF MarketsAt
  <2>3. CASE l \in OkxLabels
    <3>1. UrlOf(l) = "okx" /\ SymsOf(l, symbols) = symbols /\ conn.exchange = "okx"
      BY <1>1, <2>3 DEF UrlOf, SymsOf, ExchangeOf, OkxLabels, BinanceLabels, BitgetLabels
    <3>2. sub.sym \in PartOf(l).symbols
      BY <1>4, <3>1 DEF symbols
    <3>3. sub.sym = IF feed.market = "spot" THEN Hyphen(Plain(feed.pair)) ELSE Swap(Hyphen(Plain(feed.pair)))
      BY <1>3, <3>1 DEF VenueSymbol
    <3>4. Hyphen(Plain(feed.pair)).swap = 0 /\ Swap(Hyphen(Plain(feed.pair))).swap = 1
      BY DEF Plain, Hyphen, Swap
    <3>5. l = "okx_spot" => sub.sym.swap = 0
      BY <3>1, <3>2, OkxSwaps
    <3>6. l = "okx_swap" => sub.sym.swap # 0
      BY <3>1, <3>2, OkxSwaps
    <3> QED
      BY <1>5, <2>3, <3>3, <3>4, <3>5, <3>6 DEF MarketOf, OkxLabels
  <2> QED
    BY <2>1, <2>2, <2>3
<1> QED
  BY <1>3, <1>4, <1>6, <1>7

\* No feed is served to two streams.
LEMMA OneServes ==
  ASSUME conn \in Configs, NEW l \in Active, NEW m \in Active, NEW feed \in Feeds,
         Serves(StreamAt(l), feed) # {}, Serves(StreamAt(m), feed) # {}
  PROVE  l = m
<1>1. feed.market = MarketOf(l) /\ feed.kind \in KindsOf(l)
  BY ServesIs
<1>2. feed.market = MarketOf(m) /\ feed.kind \in KindsOf(m)
  BY ServesIs
<1>3. l \in Labels /\ m \in Labels /\ ExchangeOf(l) = ExchangeOf(m)
  BY DEF Active
<1>4. MarketOf(l) = MarketOf(m) /\ KindsOf(l) \cap KindsOf(m) # {}
  BY <1>1, <1>2
<1>5. KindsOf("binance_spot_json") \cap KindsOf("binance_spot_sbe") = {}
  BY DEF KindsOf, NoAgg
<1>6. CASE l \in BinanceLabels
  <2>1. m \in BinanceLabels
    BY <1>3, <1>6 DEF ExchangeOf, BinanceLabels, OkxLabels, BitgetLabels
  <2> QED
    BY <1>4, <1>5, <1>6, <2>1 DEF MarketOf, BinanceLabels
<1>7. CASE l \in OkxLabels
  BY <1>3, <1>4, <1>7 DEF ExchangeOf, MarketOf, Labels, BinanceLabels, OkxLabels, BitgetLabels
<1>8. CASE l \in BitgetLabels
  BY <1>3, <1>4, <1>8 DEF ExchangeOf, MarketOf, Labels, BinanceLabels, OkxLabels, BitgetLabels
<1>9. CASE l \in BybitLabels
  BY <1>3, <1>4, <1>9 DEF ExchangeOf, MarketOf, Labels, BinanceLabels, OkxLabels, BitgetLabels, BybitLabels
<1> QED
  BY <1>3, <1>6, <1>7, <1>8, <1>9 DEF Labels, BinanceLabels, OkxLabels, BitgetLabels, BybitLabels

\* The stores of a stream are of its market and its kinds.
LEMMA NamesAre ==
  ASSUME NEW l \in Active, NEW n \in StreamAt(l).names
  PROVE  n[1] = MarketOf(l) /\ n[2] \in KindsOf(l)
<1>1. l \in Labels /\ n \in NamesOf(l, PartOf(l).names)
  BY DEF Active, StreamAt
<1>2. ASSUME NEW section, NEW symbols, NEW market, NEW kinds,
             NEW x \in Extract(section, symbols, market, kinds).names
      PROVE  x[1] = market /\ x[2] \in kinds
  BY DEF Extract
<1>3. CASE l = "binance_spot_json"
  BY <1>1, <1>3 DEF NamesOf, MarketOf, KindsOf
<1>4. CASE l = "binance_spot_sbe"
  <2>1. n \in BinanceConfig(conn).spot.names /\ n \notin {"spot"} \X {"agg"}
    BY <1>1, <1>4 DEF NamesOf, PartOf
  <2>2. n \in Extract(conn.spot, SpotSymbols(conn.spot), "spot", Kinds).names
    BY <2>1 DEF BinanceConfig
  <2>3. n[1] = "spot" /\ n[2] \in Kinds /\ n = <<n[1], n[2]>>
    BY <2>2 DEF Extract
  <2>4. n[2] # "agg"
    BY <2>1, <2>3
  <2> QED
    BY <1>4, <2>3, <2>4 DEF MarketOf, KindsOf, Kinds, NoAgg
<1>5. CASE l = "binance_ubase"
  <2>1. n \in Extract(conn.futures, EffectiveSymbols(conn.futures), "futures", Kinds).names
    BY <1>1, <1>5 DEF NamesOf, PartOf, BinanceConfig
  <2> QED
    BY <1>2, <1>5, <2>1 DEF MarketOf, KindsOf
<1>6. CASE l = "okx_spot"
  <2>1. n \in Extract(conn.spot, {ToOkxInstId(s) : s \in SpotSymbols(conn.spot)}, "spot", NoAgg).names
    BY <1>1, <1>6 DEF NamesOf, PartOf, OkxConfig
  <2> QED
    BY <1>2, <1>6, <2>1 DEF MarketOf, KindsOf
<1>7. CASE l = "okx_swap"
  <2>1. n \in Extract(conn.swap, {ToOkxSwapInstId(s) : s \in SpotSymbols(conn.swap)}, "futures", NoAgg).names
    BY <1>1, <1>7 DEF NamesOf, PartOf, OkxConfig
  <2> QED
    BY <1>2, <1>7, <2>1 DEF MarketOf, KindsOf
<1>8. CASE l = "bitget_spot"
  <2>1. n \in Extract(conn.spot, SpotSymbols(conn.spot), "spot", NoAgg).names
    BY <1>1, <1>8 DEF NamesOf, PartOf, BitgetConfig
  <2> QED
    BY <1>2, <1>8, <2>1 DEF MarketOf, KindsOf
<1>9. CASE l = "bitget_futures"
  <2>1. n \in Extract(conn.futures, EffectiveSymbols(conn.futures), "futures", NoAgg).names
    BY <1>1, <1>9 DEF NamesOf, PartOf, BitgetConfig
  <2> QED
    BY <1>2, <1>9, <2>1 DEF MarketOf, KindsOf
<1>10. CASE l = "bybit_spot"
  <2>1. n \in Extract(conn.spot, SpotSymbols(conn.spot), "spot", NoAgg).names
    BY <1>1, <1>10 DEF NamesOf, PartOf, BybitConfig
  <2> QED
    BY <1>2, <1>10, <2>1 DEF MarketOf, KindsOf
<1>11. CASE l = "bybit_futures"
  <2>1. n \in Extract(conn.futures, EffectiveSymbols(conn.futures), "futures", NoAgg).names
    BY <1>1, <1>11 DEF NamesOf, PartOf, BybitConfig
  <2> QED
    BY <1>2, <1>11, <2>1 DEF MarketOf, KindsOf
<1> QED
  BY <1>1, <1>3, <1>4, <1>5, <1>6, <1>7, <1>8, <1>9, <1>10, <1>11 DEF Labels

-----------------------------------------------------------------------------
(* A configured feed has its stream.                                       *)

\* The stream that must carry a feed.
LabelFor(feed) ==
  CASE conn.exchange = "binance" ->
         IF feed.market = "futures" THEN "binance_ubase"
         ELSE IF feed.kind = "agg" THEN "binance_spot_json" ELSE "binance_spot_sbe"
    [] conn.exchange = "okx" -> IF feed.market = "futures" THEN "okx_swap" ELSE "okx_spot"
    [] conn.exchange = "bitget" -> IF feed.market = "futures" THEN "bitget_futures" ELSE "bitget_spot"
    [] OTHER -> IF feed.market = "futures" THEN "bybit_futures" ELSE "bybit_spot"

\* That stream is of the exchange and the market, and has channels of that kind.
LEMMA LabelForIs ==
  ASSUME conn \in Configs, NEW feed \in Feeds, Sold(feed)
  PROVE  LET l == LabelFor(feed)
         IN  l \in Labels /\ ExchangeOf(l) = conn.exchange
             /\ MarketOf(l) = feed.market /\ feed.kind \in KindsOf(l)
<1> DEFINE l == LabelFor(feed)
<1>1. /\ feed.market \in {"spot", "futures"} /\ feed.kind \in Kinds
      /\ conn.exchange \in {"binance", "okx", "bitget", "bybit"}
  BY Sections DEF Feeds, Markets, Exchanges
<1>2. CASE conn.exchange = "binance"
  <2>1. l = IF feed.market = "futures" THEN "binance_ubase"
            ELSE IF feed.kind = "agg" THEN "binance_spot_json" ELSE "binance_spot_sbe"
    BY <1>2 DEF LabelFor
  <2>2. l \in BinanceLabels /\ l \in Labels
    BY <2>1 DEF BinanceLabels, Labels
  <2>3. ExchangeOf(l) = conn.exchange
    BY <1>2, <2>2 DEF ExchangeOf, BinanceLabels, OkxLabels, BitgetLabels
  <2>4. MarketOf(l) = feed.market
    BY <1>1, <2>1 DEF MarketOf
  <2>5. feed.kind \in KindsOf(l)
    BY <1>1, <2>1 DEF KindsOf, Kinds, NoAgg
  <2> QED
    BY <2>2, <2>3, <2>4, <2>5
<1>3. CASE conn.exchange # "binance"
  <2>1. feed.kind \in NoAgg
    BY <1>1, <1>3 DEF Sold, Kinds, NoAgg
  <2>2. l = IF conn.exchange = "okx" THEN IF feed.market = "futures" THEN "okx_swap" ELSE "okx_spot"
            ELSE IF conn.exchange = "bitget"
                 THEN IF feed.market = "futures" THEN "bitget_futures" ELSE "bitget_spot"
                 ELSE IF feed.market = "futures" THEN "bybit_futures" ELSE "bybit_spot"
    BY <1>1, <1>3 DEF LabelFor
  <2>3. l \in Labels /\ l \notin {"binance_spot_json", "binance_ubase", "binance_spot_sbe"}
    BY <2>2 DEF Labels
  <2>4. ExchangeOf(l) = conn.exchange
    BY <1>1, <1>3, <2>2 DEF ExchangeOf, BinanceLabels, OkxLabels, BitgetLabels
  <2>5. MarketOf(l) = feed.market
    BY <1>1, <2>2 DEF MarketOf
  <2>6. KindsOf(l) = NoAgg
    BY <2>3 DEF KindsOf
  <2> QED
    BY <2>1, <2>3, <2>4, <2>5, <2>6
<1> QED
  BY <1>2, <1>3

\* The part of the configuration that the stream is made of.
LEMMA PartIs ==
  ASSUME conn \in Configs, NEW feed \in Feeds, Sold(feed)
  PROVE  LET section == Section(feed.market)
         IN  PartOf(LabelFor(feed)) =
               Extract(section,
                       IF conn.exchange # "okx" THEN Effective(feed.market)
                       ELSE IF feed.market = "spot" THEN {ToOkxInstId(s) : s \in Effective("spot")}
                       ELSE {ToOkxSwapInstId(s) : s \in Effective("futures")},
                       feed.market,
                       IF conn.exchange = "binance" THEN Kinds ELSE NoAgg)
<1>1. feed.market \in {"spot", "futures"} /\ conn.exchange \in {"binance", "okx", "bitget", "bybit"}
  BY Sections DEF Feeds, Markets, Exchanges
<1>2. CASE conn.exchange = "binance"
  <2>1. CASE feed.market = "spot"
    <3>1. PartOf(LabelFor(feed)) = BinanceConfig(conn).spot
      BY <1>2, <2>1 DEF LabelFor, PartOf
    <3> QED
      BY <1>2, <2>1, <3>1 DEF BinanceConfig, Section, Effective
  <2>2. CASE feed.market = "futures"
    <3>1. PartOf(LabelFor(feed)) = BinanceConfig(conn).ubase
      BY <1>2, <2>2 DEF LabelFor, PartOf
    <3> QED
      BY <1>2, <2>2, <3>1 DEF BinanceConfig, Section, Effective
  <2> QED
    BY <1>1, <2>1, <2>2
<1>3. CASE conn.exchange = "okx"
  <2>1. CASE feed.market = "spot"
    <3>1. PartOf(LabelFor(feed)) = OkxConfig(conn).spot
      BY <1>3, <2>1 DEF LabelFor, PartOf
    <3> QED
      BY <1>3, <2>1, <3>1 DEF OkxConfig, Section, Effective
  <2>2. CASE feed.market = "futures"
    <3>1. PartOf(LabelFor(feed)) = OkxConfig(conn).swap
      BY <1>3, <2>2 DEF LabelFor, PartOf
    <3> QED
      BY <1>3, <2>2, <3>1 DEF OkxConfig, Section, Effective
  <2> QED
    BY <1>1, <2>1, <2>2
<1>4. CASE conn.exchange = "bitget"
  <2>1. CASE feed.market = "spot"
    <3>1. PartOf(LabelFor(feed)) = BitgetConfig(conn).spot
      BY <1>4, <2>1 DEF LabelFor, PartOf
    <3> QED
      BY <1>4, <2>1, <3>1 DEF BitgetConfig, Section, Effective
  <2>2. CASE feed.market = "futures"
    <3>1. PartOf(LabelFor(feed)) = BitgetConfig(conn).futures
      BY <1>4, <2>2 DEF LabelFor, PartOf
    <3> QED
      BY <1>4, <2>2, <3>1 DEF BitgetConfig, Section, Effective
  <2> QED
    BY <1>1, <2>1, <2>2
<1>5. CASE conn.exchange = "bybit"
  <2>1. CASE feed.market = "spot"
    <3>1. PartOf(LabelFor(feed)) = BybitConfig(conn).spot
      BY <1>5, <2>1 DEF LabelFor, PartOf
    <3> QED
      BY <1>5, <2>1, <3>1 DEF BybitConfig, Section, Effective
  <2>2. CASE feed.market = "futures"
    <3>1. PartOf(LabelFor(feed)) = BybitConfig(conn).futures
      BY <1>5, <2>2 DEF LabelFor, PartOf
    <3> QED
      BY <1>5, <2>2, <3>1 DEF BybitConfig, Section, Effective
  <2> QED
    BY <1>1, <2>1, <2>2
<1> QED
  BY <1>1, <1>2, <1>3, <1>4, <1>5

LEMMA SymbolsEqual ==
  ASSUME NEW s \in Symbol, NEW t \in Symbol,
         s.pair = t.pair, s.lower = t.lower, s.hyphen = t.hyphen, s.swap = t.swap
  PROVE  s = t
BY DEF Symbol

LEMMA Spellings ==
  ASSUME NEW p \in Pairs
  PROVE  /\ Plain(p) \in Symbol /\ Plain(p).pair = p /\ Plain(p).lower = FALSE
         /\ Plain(p).hyphen = FALSE /\ Plain(p).swap = 0
         /\ Hyphen(Plain(p)) \in Symbol /\ Hyphen(Plain(p)).pair = p /\ Hyphen(Plain(p)).lower = FALSE
         /\ Hyphen(Plain(p)).hyphen = TRUE /\ Hyphen(Plain(p)).swap = 0
BY DEF Plain, Hyphen, Symbol

\* A symbol with no suffix and no small letters has one of two spellings.
LEMMA Spelled ==
  ASSUME NEW s \in Symbol, ~ s.lower, s.swap = 0
  PROVE  s = IF s.hyphen THEN Hyphen(Plain(s.pair)) ELSE Plain(s.pair)
<1>1. s.pair \in Pairs /\ s.lower \in BOOLEAN /\ s.hyphen \in BOOLEAN
  BY DEF Symbol
<1>2. s.lower = FALSE
  BY <1>1
<1>3. CASE s.hyphen
  <2>1. s.hyphen = TRUE
    BY <1>1, <1>3
  <2> DEFINE t == Hyphen(Plain(s.pair))
  <2>3. /\ t \in Symbol /\ t.pair = s.pair /\ t.lower = s.lower
        /\ t.hyphen = s.hyphen /\ t.swap = s.swap
    <3>1. t \in Symbol /\ t.pair = s.pair
      BY <1>1, Spellings
    <3>2. t.lower = FALSE /\ t.hyphen = TRUE /\ t.swap = 0
      BY <1>1, Spellings
    <3> HIDE DEF t
    <3>3. t.lower = s.lower /\ t.hyphen = s.hyphen
      BY ONLY <1>2, <2>1, <3>2
    <3> QED
      BY <3>1, <3>2, <3>3
  <2> HIDE DEF t
  <2>2. s = t
    BY <2>3, SymbolsEqual
  <2> QED
    BY <1>3, <2>2 DEF t
<1>4. CASE ~ s.hyphen
  <2>1. s.hyphen = FALSE
    BY <1>1, <1>4
  <2> DEFINE t == Plain(s.pair)
  <2>3. /\ t \in Symbol /\ t.pair = s.pair /\ t.lower = s.lower
        /\ t.hyphen = s.hyphen /\ t.swap = s.swap
    <3>1. t \in Symbol /\ t.pair = s.pair
      BY <1>1, Spellings
    <3>2. t.lower = FALSE /\ t.hyphen = FALSE /\ t.swap = 0
      BY <1>1, Spellings
    <3> HIDE DEF t
    <3>3. t.lower = s.lower /\ t.hyphen = s.hyphen
      BY ONLY <1>2, <2>1, <3>2
    <3> QED
      BY <3>1, <3>2, <3>3
  <2> HIDE DEF t
  <2>2. s = t
    BY <2>3, SymbolsEqual
  <2> QED
    BY <1>4, <2>2 DEF t
<1> QED
  BY <1>3, <1>4

\* The symbol of a configured feed is one of the stream's, as the store has
\* it and as the exchange knows it.
LEMMA SymbolKept ==
  ASSUME conn \in Configs, NEW feed \in Configured
  PROVE  LET l == LabelFor(feed)
         IN  /\ StoreSymbol(feed) \in PartOf(l).symbols
             /\ VenueSymbol(UrlOf(l), feed.market, feed.pair) \in SymsOf(l, PartOf(l).symbols)
<1> DEFINE l == LabelFor(feed)
           symbols == PartOf(l).symbols
<1>1. /\ feed \in Feeds /\ Sold(feed) /\ feed.market \in {"spot", "futures"} /\ feed.pair \in Pairs
      /\ conn.exchange \in {"binance", "okx", "bitget", "bybit"}
  BY Sections DEF Configured, Feeds, Markets, Exchanges
<1>2. PICK s \in Effective(feed.market) :
        /\ s.pair = feed.pair /\ ~ s.lower /\ s.swap = 0
        /\ s.hyphen => conn.exchange = "okx"
        /\ conn.exchange = "okx" => s.pair \notin OddPairs
  BY DEF Configured
<1>3. s \in Symbol
  BY <1>1, <1>2, Sections, SymbolsAre DEF Effective
<1>4. s = IF s.hyphen THEN Hyphen(Plain(s.pair)) ELSE Plain(s.pair)
  BY <1>2, <1>3, Spelled
<1>5. symbols = IF conn.exchange # "okx" THEN Effective(feed.market)
                ELSE IF feed.market = "spot" THEN {ToOkxInstId(x) : x \in Effective("spot")}
                ELSE {ToOkxSwapInstId(x) : x \in Effective("futures")}
  <2> DEFINE whole == IF conn.exchange # "okx" THEN Effective(feed.market)
                      ELSE IF feed.market = "spot" THEN {ToOkxInstId(x) : x \in Effective("spot")}
                      ELSE {ToOkxSwapInstId(x) : x \in Effective("futures")}
  <2>1. \E section, market, kinds : PartOf(l) = Extract(section, whole, market, kinds)
    BY <1>1, PartIs
  <2>2. \A section, market, kinds : Extract(section, whole, market, kinds).symbols = whole
    BY DEF Extract
  <2> HIDE DEF whole
  <2> QED
    BY <2>1, <2>2 DEF whole
<1>6. l \in Labels /\ ExchangeOf(l) = conn.exchange
  BY <1>1, LabelForIs
<1> HIDE DEF symbols, l
<1>7. CASE conn.exchange = "okx"
  <2>1. l \in OkxLabels /\ UrlOf(l) = "okx" /\ SymsOf(l, symbols) = symbols
    <3>1. l \in OkxLabels
      BY <1>6, <1>7 DEF Labels, ExchangeOf, BinanceLabels, OkxLabels, BitgetLabels
    <3> QED
      BY <3>1 DEF UrlOf, SymsOf, BinanceLabels, OkxLabels, BitgetLabels
  <2>2. ToOkxInstId(s) = Hyphen(Plain(feed.pair))
    <3>1. CASE s.hyphen
      BY <1>2, <1>4, <3>1 DEF ToOkxInstId
    <3>2. CASE ~ s.hyphen
      <4>1. s = Plain(feed.pair)
        BY <1>2, <1>4, <3>2
      <4>2. ~ (s.hyphen \/ s.swap > 0 \/ s.lower \/ s.pair \in OddPairs)
        BY <1>2, <1>7, <3>2
      <4> QED
        BY <4>1, <4>2 DEF ToOkxInstId
    <3> QED
      BY <3>1, <3>2
  <2>3. VenueSymbol("okx", feed.market, feed.pair) \in symbols
    <3>1. CASE feed.market = "spot"
      BY <1>2, <1>5, <1>7, <2>2, <3>1 DEF VenueSymbol
    <3>2. CASE feed.market = "futures"
      <4>1. ToOkxSwapInstId(s) = Swap(Hyphen(Plain(feed.pair)))
        BY <2>2 DEF ToOkxSwapInstId
      <4> QED
        BY <1>2, <1>5, <1>7, <3>2, <4>1 DEF VenueSymbol
    <3> QED
      BY <1>1, <3>1, <3>2
  <2> QED
    BY <1>7, <2>1, <2>3 DEF StoreSymbol, symbols, l
<1>8. CASE conn.exchange # "okx"
  <2>1. s = Plain(feed.pair) /\ s \in symbols
    BY <1>2, <1>4, <1>5, <1>8
  <2>2. StoreSymbol(feed) \in symbols
    BY <1>8, <2>1 DEF StoreSymbol
  <2>3. CASE conn.exchange = "binance"
    <3>1. l \in BinanceLabels
      BY <1>6, <2>3 DEF Labels, ExchangeOf, BinanceLabels, OkxLabels, BitgetLabels
    <3>2. UrlOf(l) \in {"binance_spot", "binance_sbe", "binance_futures"}
      BY <3>1 DEF UrlOf, BinanceLabels, OkxLabels, BitgetLabels
    <3>3. VenueSymbol(UrlOf(l), feed.market, feed.pair) = Lower(Plain(feed.pair))
      BY <3>2 DEF VenueSymbol
    <3>4. SymsOf(l, symbols) = {Lower(x) : x \in symbols}
      BY <3>1 DEF SymsOf
    <3> QED
      BY <2>1, <2>2, <3>3, <3>4 DEF symbols, l
  <2>4. CASE conn.exchange # "binance"
    <3>1. l \notin BinanceLabels /\ l \in Labels /\ l \notin OkxLabels
      BY <1>6, <1>8, <2>4 DEF ExchangeOf, BinanceLabels, OkxLabels, BitgetLabels
    <3>2. UrlOf(l) \in {"bitget", "bybit_spot", "bybit_linear"}
      BY <3>1 DEF UrlOf, Labels, BinanceLabels, OkxLabels, BitgetLabels
    <3>3. VenueSymbol(UrlOf(l), feed.market, feed.pair) = Plain(feed.pair)
      BY <3>2 DEF VenueSymbol
    <3>4. SymsOf(l, symbols) = symbols
      BY <3>1 DEF SymsOf
    <3> QED
      BY <2>1, <2>2, <3>3, <3>4 DEF symbols, l
  <2> QED
    BY <2>3, <2>4
<1> QED
  BY <1>7, <1>8

\* A stream subscribes a channel of each kind that is its.
LEMMA Channels ==
  ASSUME NEW l \in Labels, NEW kind \in KindsOf(l)
  PROVE  \E c \in ChannelsOf(l) : KindOfChannel(c) = kind
<1>1. /\ KindOfChannel("aggTrade") = "agg"
      /\ KindOfChannel("bestBidAsk") = "bbo" /\ KindOfChannel("bookTicker") = "bbo"
      /\ KindOfChannel("bbo-tbt") = "bbo" /\ KindOfChannel("books1") = "bbo"
      /\ KindOfChannel("orderbook.1") = "bbo"
  BY DEF KindOfChannel
<1>2. /\ KindOfChannel("trade") = "trade" /\ KindOfChannel("trades") = "trade"
      /\ KindOfChannel("publicTrade") = "trade"
      /\ KindOfChannel("depth20") = "depth5" /\ KindOfChannel("depth5@100ms") = "depth5"
      /\ KindOfChannel("books5") = "depth5" /\ KindOfChannel("orderbook.50") = "depth5"
  BY DEF KindOfChannel
<1>3. CASE l = "binance_spot_json"
  BY <1>1, <1>3 DEF ChannelsOf, KindsOf, OkxLabels, BitgetLabels
<1>4. CASE l = "binance_ubase"
  <2>1. /\ ChannelsOf(l) = {"aggTrade", "bookTicker", "trade", "depth5@100ms"}
        /\ kind \in {"agg", "bbo", "trade", "depth5"}
    BY <1>4 DEF ChannelsOf, KindsOf, Kinds, OkxLabels, BitgetLabels
  <2> QED
    BY <1>1, <1>2, <2>1
<1>5. CASE l \notin {"binance_spot_json", "binance_ubase"}
  <2>1. kind \in {"bbo", "trade", "depth5"}
    BY <1>5 DEF KindsOf, NoAgg
  <2>2. CASE l = "binance_spot_sbe"
    <3>1. ChannelsOf(l) = {"bestBidAsk", "trade", "depth20"}
      BY <2>2 DEF ChannelsOf, OkxLabels, BitgetLabels
    <3> QED
      BY <1>1, <1>2, <2>1, <3>1
  <2>3. CASE l \in OkxLabels
    <3>1. ChannelsOf(l) = {"bbo-tbt", "trades", "books5"}
      BY <2>3 DEF ChannelsOf, OkxLabels, BitgetLabels
    <3> QED
      BY <1>1, <1>2, <2>1, <3>1
  <2>4. CASE l \in BitgetLabels
    <3>1. ChannelsOf(l) = {"books1", "trade", "books5"}
      BY <2>4 DEF ChannelsOf, OkxLabels, BitgetLabels
    <3> QED
      BY <1>1, <1>2, <2>1, <3>1
  <2>5. CASE l \in BybitLabels
    <3>1. ChannelsOf(l) = {"publicTrade", "orderbook.1", "orderbook.50"}
      BY <2>5 DEF ChannelsOf, OkxLabels, BitgetLabels, BybitLabels
    <3> QED
      BY <1>1, <1>2, <2>1, <3>1
  <2> QED
    BY <1>5, <2>2, <2>3, <2>4, <2>5 DEF Labels, OkxLabels, BitgetLabels, BybitLabels
<1> QED
  BY <1>3, <1>4, <1>5

\* What is configured is subscribed, and has a store.
LEMMA ConfiguredServed ==
  ASSUME conn \in Configs, NEW feed \in Configured
  PROVE  LET l == LabelFor(feed)
         IN  /\ l \in Active /\ Serves(StreamAt(l), feed) # {}
             /\ <<feed.market, feed.kind>> \in StreamAt(l).names
             /\ StoreSymbol(feed) \in StreamAt(l).symbols
<1> DEFINE l == LabelFor(feed)
           venue == VenueSymbol(UrlOf(l), feed.market, feed.pair)
<1>1. /\ feed \in Feeds /\ Sold(feed) /\ Section(feed.market) # <<>>
      /\ feed.kind \in Section(feed.market)[1].names /\ feed.market \in {"spot", "futures"}
      /\ feed.kind \in Kinds
  BY DEF Configured, Feeds, Markets
<1>2. /\ l \in Labels /\ ExchangeOf(l) = conn.exchange
      /\ MarketOf(l) = feed.market /\ feed.kind \in KindsOf(l)
  BY <1>1, LabelForIs
<1>3. StoreSymbol(feed) \in PartOf(l).symbols /\ venue \in SymsOf(l, PartOf(l).symbols)
  BY SymbolKept
<1>4. l \in Active
  BY <1>2, <1>3 DEF Active
<1>5. <<feed.market, feed.kind>> \in PartOf(l).names
  <2>1. PartOf(l).names = {feed.market} \X (Section(feed.market)[1].names \cap
                             (IF conn.exchange = "binance" THEN Kinds ELSE NoAgg))
    BY <1>1, PartIs DEF Extract
  <2>2. feed.kind \in IF conn.exchange = "binance" THEN Kinds ELSE NoAgg
    BY <1>1 DEF Sold, Kinds, NoAgg
  <2> QED
    BY <1>1, <2>1, <2>2
<1> HIDE DEF l
<1>6. <<feed.market, feed.kind>> \in NamesOf(l, PartOf(l).names)
  <2>1. CASE l = "binance_spot_json"
    <3>1. feed.market = "spot" /\ feed.kind = "agg"
      BY <1>2, <2>1 DEF MarketOf, KindsOf
    <3> QED
      BY <1>5, <2>1, <3>1 DEF NamesOf
  <2>2. CASE l = "binance_spot_sbe"
    <3>1. feed.kind # "agg"
      BY <1>2, <2>2 DEF KindsOf, NoAgg
    <3> QED
      BY <1>5, <2>2, <3>1 DEF NamesOf
  <2>3. CASE l \notin {"binance_spot_json", "binance_spot_sbe"}
    BY <1>5, <2>3 DEF NamesOf
  <2> QED
    BY <2>1, <2>2, <2>3
<1>7. Serves(StreamAt(l), feed) # {}
  <2>1. PICK c \in ChannelsOf(l) : KindOfChannel(c) = feed.kind
    BY <1>2, Channels
  <2> DEFINE sub == [type |-> TypeOf(l), channel |-> c, sym |-> venue]
  <2>2. sub \in SubsOf(l, PartOf(l).symbols)
    <3>1. sub \in [type : {TypeOf(l)}, channel : ChannelsOf(l), sym : SymsOf(l, PartOf(l).symbols)]
      BY <1>3
    <3> QED
      BY <1>2, <3>1, SubsAre
  <2>3. feed.market \in MarketsAt(UrlOf(l), TypeOf(l))
    <3>1. CASE l \in OkxLabels
      BY <1>1, <3>1 DEF UrlOf, MarketsAt, Markets, OkxLabels, BitgetLabels
    <3>2. CASE l \in BitgetLabels
      BY <1>2, <3>2 DEF UrlOf, MarketsAt, MarketOf, TypeOf, OkxLabels, BitgetLabels
    <3>3. CASE l \in BinanceLabels
      BY <1>2, <3>3 DEF UrlOf, MarketsAt, MarketOf, BinanceLabels, OkxLabels, BitgetLabels
    <3>4. CASE l \in BybitLabels
      BY <1>2, <3>4 DEF UrlOf, MarketsAt, MarketOf, BybitLabels, OkxLabels, BitgetLabels
    <3> QED
      BY <1>2, <3>1, <3>2, <3>3, <3>4 DEF Labels, BinanceLabels, OkxLabels, BitgetLabels, BybitLabels
  <2>4. sub \in StreamAt(l).subs /\ StreamAt(l).url = UrlOf(l)
    BY <2>2 DEF StreamAt
  <2> QED
    BY <2>1, <2>3, <2>4 DEF Serves
<1> QED
  BY <1>3, <1>4, <1>6, <1>7 DEF StreamAt, l

-----------------------------------------------------------------------------
(* What the JSON parsers make of a frame.                                  *)

\* What the parsers make of a news of a feed, and of a frame of them.
ProductOf(feed) == IF Unmarked(feed) THEN "spot" ELSE feed.market

MessageOf(feed, item) == Msg(feed.kind, StoreSymbol(feed), ProductOf(feed), item.id, Expected(feed, item))

\* Elsewhere the product is the market.
LEMMA ProductIs ==
  ASSUME NEW feed, conn.exchange # "binance" \/ feed.market = "spot"
  PROVE  ProductOf(feed) = feed.market
BY DEF ProductOf, Unmarked

MessagesOf(feed, items) ==
  IF Whole(feed, items[1]) THEN [i \in DOMAIN items |-> MessageOf(feed, items[i])] ELSE <<>>

Fresh(feed, n, size, sides, depth) == [i \in 1 .. size |-> Item(feed, n + i, sides, depth)]

\* Only trades come several at once, and not from everywhere.
LEMMA Batches ==
  ASSUME NEW feed \in Feeds, NEW size \in BatchSizes(feed)
  PROVE  /\ size \in Nat /\ size >= 1
         /\ feed.kind # "trade" \/ conn.exchange = "okx"
              \/ (conn.exchange = "binance" /\ feed.market = "futures") => size = 1
BY FeedBounds DEF BatchSizes

LEMMA FreshIs ==
  ASSUME NEW feed \in Feeds, NEW n \in Nat, NEW size \in Nat, NEW sides, NEW depth
  PROVE  LET items == Fresh(feed, n, size, sides, depth)
         IN  /\ IsSeq(items) /\ Len(items) = size /\ DOMAIN items = 1 .. size
             /\ \A i \in 1 .. size : items[i] = Item(feed, n + i, sides, depth) /\ items[i].id = n + i
<1> DEFINE it(i) == Item(feed, n + i, sides, depth)
           items == [i \in 1 .. size |-> it(i)]
           S == {it(i) : i \in 1 .. size}
<1>1. Fresh(feed, n, size, sides, depth) = items
  BY DEF Fresh
<1>2. \A i : it(i).id = n + i
  BY DEF Item
<1>3. \A i \in 1 .. size : it(i) \in S
  OBVIOUS
<1> HIDE DEF it, S
<1>4. items \in Seq(S) /\ Len(items) = size
  BY <1>3, IsASeq
<1>5. IsSeq(items)
  <2> HIDE DEF items
  <2> QED
    BY <1>4, SeqIs
<1>6. DOMAIN items = 1 .. size /\ \A i \in 1 .. size : items[i] = it(i)
  OBVIOUS
<1> HIDE DEF items
<1> QED
  BY <1>1, <1>2, <1>4, <1>5, <1>6 DEF it

\* An item parsed gives its message, but for a quote with one side.
LEMMA ParseItemIs ==
  ASSUME NEW feed \in Feeds, NEW sym, NEW product, NEW item
  PROVE  ParseItem(feed.kind, sym, product, item) =
           IF Whole(feed, item) THEN <<Msg(feed.kind, sym, product, item.id, Expected(feed, item))>> ELSE <<>>
<1>1. CASE feed.kind = "bbo"
  BY <1>1 DEF ParseItem, Whole, Expected
<1>2. CASE feed.kind = "depth5"
  BY <1>2 DEF ParseItem, Whole, Expected
<1>3. CASE feed.kind \notin {"bbo", "depth5"}
  BY <1>3 DEF ParseItem, Whole, Expected
<1> QED
  BY <1>1, <1>2, <1>3

\* The parsers that look at one item only.
LEMMA ParseOne ==
  ASSUME NEW feed \in Feeds, NEW items, DOMAIN items = 1 .. 1
  PROVE  ParseItem(feed.kind, StoreSymbol(feed), ProductOf(feed), items[1]) = MessagesOf(feed, items)
<1>1. ParseItem(feed.kind, StoreSymbol(feed), ProductOf(feed), items[1])
        = IF Whole(feed, items[1]) THEN <<MessageOf(feed, items[1])>> ELSE <<>>
  BY ParseItemIs DEF MessageOf
<1> DEFINE mess(i) == MessageOf(feed, items[i])
<1>2. [i \in DOMAIN items |-> mess(i)] = <<mess(1)>>
  <2> HIDE DEF mess
  <2>1. [i \in 1 .. 1 |-> mess(i)] = <<mess(1)>>
    OBVIOUS
  <2> QED
    BY <2>1
<1> QED
  BY <1>1, <1>2 DEF MessagesOf

\* The parsers that look at every item.
LEMMA ParseAll ==
  ASSUME NEW feed \in Feeds, NEW items, NEW n \in Nat, n # 0, DOMAIN items = 1 .. n,
         feed.kind = "bbo" => n = 1
  PROVE  FlattenSeq([i \in DOMAIN items |-> ParseItem(feed.kind, StoreSymbol(feed), ProductOf(feed), items[i])])
           = MessagesOf(feed, items)
<1> DEFINE parsed == [i \in DOMAIN items |-> ParseItem(feed.kind, StoreSymbol(feed), ProductOf(feed), items[i])]
           mess(i) == MessageOf(feed, items[i])
<1>1. \A i \in 1 .. n : ParseItem(feed.kind, StoreSymbol(feed), ProductOf(feed), items[i])
                          = IF Whole(feed, items[i]) THEN <<mess(i)>> ELSE <<>>
  BY ParseItemIs DEF MessageOf
<1>2. parsed = [i \in 1 .. n |-> IF Whole(feed, items[i]) THEN <<mess(i)>> ELSE <<>>]
  BY <1>1
<1>3. CASE \A i \in 1 .. n : Whole(feed, items[i])
  <2> DEFINE m == [i \in 1 .. n |-> mess(i)]
             S == {mess(i) : i \in 1 .. n}
  <2>1. MessagesOf(feed, items) = m
    BY <1>3 DEF MessagesOf
  <2>2. parsed = [i \in 1 .. n |-> <<m[i]>>]
    BY <1>2, <1>3
  <2>3. m \in [1 .. n -> S]
    <3> HIDE DEF mess
    <3> QED
      OBVIOUS
  <2> HIDE DEF m, S, parsed, mess
  <2>4. FlattenSeq(parsed) = m
    BY <2>2, <2>3, FlattenOnes
  <2> QED
    BY <2>1, <2>4 DEF parsed
<1>4. CASE ~ \A i \in 1 .. n : Whole(feed, items[i])
  <2>1. n = 1 /\ ~ Whole(feed, items[1])
    BY <1>4 DEF Whole
  <2>2. parsed = [i \in 1 .. 1 |-> <<>>]
    BY <1>2, <2>1
  <2>3. MessagesOf(feed, items) = <<>>
    BY <2>1 DEF MessagesOf
  <2> HIDE DEF parsed
  <2>4. FlattenSeq(parsed) = <<>>
    BY <2>2, FlattenNothing
  <2> QED
    BY <2>3, <2>4 DEF parsed
<1> QED
  BY <1>3, <1>4

\* Each exchange's JSON parser gives the messages of the feed that a frame is for.
LEMMA BinanceJsonParsed ==
  ASSUME NEW feed \in Feeds, conn.exchange = "binance", NEW url \in {"binance_spot", "binance_futures"},
         NEW sub, NEW items, DOMAIN items = 1 .. 1
  PROVE  ParseBinance(JsonFrame(url, sub, feed, items)) = MessagesOf(feed, items)
<1> DEFINE mark == IF feed.market = "futures" /\ feed.kind \in PsKinds THEN "ps" ELSE ""
           frame == Json(EventType[feed.kind], Plain(feed.pair), mark, items)
<1>1. JsonFrame(url, sub, feed, items) = frame
  BY DEF JsonFrame
<1>2. feed.kind \in {"bbo", "agg", "trade", "depth5"} /\ feed.market \in {"spot", "futures"}
  BY DEF Feeds, Kinds, Markets
<1>3. EventType[feed.kind] \in DOMAIN BinanceKind /\ BinanceKind[EventType[feed.kind]] = feed.kind
  <2>1. CASE feed.kind = "bbo"
    BY <2>1 DEF EventType, BinanceKind
  <2>2. CASE feed.kind = "agg"
    BY <2>2 DEF EventType, BinanceKind
  <2>3. CASE feed.kind = "trade"
    BY <2>3 DEF EventType, BinanceKind
  <2>4. CASE feed.kind = "depth5"
    BY <2>4 DEF EventType, BinanceKind
  <2> QED
    BY <1>2, <2>1, <2>2, <2>3, <2>4
<1>4. /\ frame.tag = EventType[feed.kind] /\ frame.sym = Plain(feed.pair) /\ frame.data = items
      /\ frame.mark = mark
  BY DEF Json
<1>5. ProductFromPs(frame) = ProductOf(feed)
  <2> HIDE DEF frame
  <2>1. CASE feed.market = "spot"
    BY <1>4, <2>1 DEF ProductFromPs, ProductOf, Unmarked
  <2>2. CASE feed.market = "futures"
    BY <1>4, <2>2 DEF ProductFromPs, ProductOf, Unmarked
  <2> QED
    BY <1>2, <2>1, <2>2
<1> HIDE DEF frame, mark
<1>6. ParseBinance(frame) = ParseItem(feed.kind, Plain(feed.pair), ProductOf(feed), items[1])
  BY <1>3, <1>4, <1>5 DEF ParseBinance
<1>7. StoreSymbol(feed) = Plain(feed.pair)
  BY DEF StoreSymbol
<1> QED
  BY <1>1, <1>6, <1>7, ParseOne

LEMMA OkxParsed ==
  ASSUME NEW feed \in Feeds, conn.exchange = "okx", NEW sub, NEW items, DOMAIN items = 1 .. 1,
         sub.channel \in {"bbo-tbt", "trades", "books5"}, KindOfChannel(sub.channel) = feed.kind,
         sub.sym = VenueSymbol("okx", feed.market, feed.pair)
  PROVE  ParseOkx(JsonFrame("okx", sub, feed, items)) = MessagesOf(feed, items)
<1> DEFINE frame == Json(sub.channel, sub.sym, sub.type, items)
<1>1. JsonFrame("okx", sub, feed, items) = frame
  BY DEF JsonFrame
<1>2. sub.channel \in DOMAIN OkxKind /\ OkxKind[sub.channel] = feed.kind
  BY DEF OkxKind, KindOfChannel
<1>3. frame.tag = sub.channel /\ frame.sym = sub.sym /\ frame.data = items
  BY DEF Json
<1>4. items # <<>>
  <2>1. DOMAIN <<>> = {}
    BY EmptySeq, LenProperties
  <2>2. 1 \in DOMAIN items
    OBVIOUS
  <2> QED
    BY <2>1, <2>2
<1>5. sub.sym = StoreSymbol(feed)
  BY DEF StoreSymbol
<1>6. ProductFromInstId(sub.sym) = feed.market
  <2>1. Hyphen(Plain(feed.pair)).swap = 0 /\ Swap(Hyphen(Plain(feed.pair))).swap = 1
    BY DEF Plain, Hyphen, Swap
  <2>2. feed.market \in {"spot", "futures"}
    BY DEF Feeds, Markets
  <2>3. sub.sym = IF feed.market = "spot" THEN Hyphen(Plain(feed.pair)) ELSE Swap(Hyphen(Plain(feed.pair)))
    BY DEF VenueSymbol
  <2> QED
    BY <2>1, <2>2, <2>3 DEF ProductFromInstId
<1> HIDE DEF frame
<1>7. ParseOkx(frame) = ParseItem(feed.kind, StoreSymbol(feed), ProductOf(feed), items[1])
  BY <1>2, <1>3, <1>4, <1>5, <1>6, ProductIs DEF ParseOkx
<1> QED
  BY <1>1, <1>7, ParseOne

LEMMA BitgetParsed ==
  ASSUME NEW feed \in Feeds, conn.exchange = "bitget", NEW sub, NEW items,
         sub.channel \in {"books1", "trade", "books5"}, KindOfChannel(sub.channel) = feed.kind,
         sub.sym = Plain(feed.pair), sub.type = IF feed.market = "spot" THEN "SPOT" ELSE "USDT-FUTURES",
         IsSeq(items), items # <<>>, feed.kind # "trade" => Len(items) = 1
  PROVE  ParseBitget(JsonFrame("bitget", sub, feed, items)) = MessagesOf(feed, items)
<1> DEFINE data == IF feed.kind = "trade" THEN Reverse(items) ELSE items
           frame == Json(sub.channel, sub.sym, sub.type, data)
           S == {items[i] : i \in DOMAIN items}
           n == Len(items)
<1>1. items \in Seq(S)
  BY DEF IsSeq
<1> HIDE DEF S
<1>2. n \in Nat /\ n # 0 /\ DOMAIN items = 1 .. n
  BY <1>1
<1>3. JsonFrame("bitget", sub, feed, items) = frame
  BY DEF JsonFrame
<1>4. /\ sub.channel = "trade" <=> feed.kind = "trade"
      /\ sub.channel \in DOMAIN BitgetKind /\ BitgetKind[sub.channel] = feed.kind
  <2>1. CASE sub.channel = "books1"
    BY <2>1 DEF KindOfChannel, BitgetKind
  <2>2. CASE sub.channel = "trade"
    BY <2>2 DEF KindOfChannel, BitgetKind
  <2>3. CASE sub.channel = "books5"
    BY <2>3 DEF KindOfChannel, BitgetKind
  <2> QED
    BY <2>1, <2>2, <2>3
<1>5. /\ frame.tag = sub.channel /\ frame.sym = sub.sym /\ frame.mark = sub.type /\ frame.data = data
  BY DEF Json
<1>6. ProductFromInstType(frame) = feed.market
  <2>1. feed.market \in {"spot", "futures"}
    BY DEF Feeds, Markets
  <2> QED
    BY <1>5, <2>1 DEF ProductFromInstType
<1> DEFINE taken == CASE frame.tag = "trade" -> BitgetTrades(frame.data)
                      [] frame.tag \in {"books1", "books5"} -> Take(frame.data, 1)
                      [] OTHER -> <<>>
<1> HIDE DEF frame
<1>7. taken = items
  <2>1. CASE feed.kind = "trade"
    <3>1. taken = Reverse(Reverse(items))
      BY <1>4, <1>5, <2>1 DEF BitgetTrades
    <3> HIDE DEF taken
    <3> QED
      BY <1>1, <3>1, ReverseTwice
  <2>2. CASE feed.kind # "trade"
    <3>1. taken = Take(items, 1)
      BY <1>4, <1>5, <2>2
    <3> HIDE DEF taken
    <3> QED
      BY <1>1, <2>2, <3>1, TakeOne
  <2> QED
    BY <2>1, <2>2
<1>8. ParseBitget(frame) = FlattenSeq([i \in DOMAIN taken |->
        ParseItem(BitgetKind[frame.tag], frame.sym, ProductFromInstType(frame), taken[i])])
  BY DEF ParseBitget
<1> HIDE DEF taken
<1>9. StoreSymbol(feed) = Plain(feed.pair)
  BY DEF StoreSymbol
<1>10. ParseBitget(frame) = FlattenSeq([i \in DOMAIN items |->
        ParseItem(feed.kind, StoreSymbol(feed), ProductOf(feed), items[i])])
  BY <1>4, <1>5, <1>6, <1>7, <1>8, <1>9, ProductIs
<1>11. feed.kind = "bbo" => n = 1
  OBVIOUS
<1>12. ParseBitget(frame) = MessagesOf(feed, items)
  <2> HIDE DEF n
  <2> QED
    BY ONLY <1>2, <1>10, <1>11, feed \in Feeds, ParseAll
<1> QED
  BY <1>3, <1>12

LEMMA BybitParsed ==
  ASSUME NEW feed \in Feeds, conn.exchange = "bybit", NEW url \in {"bybit_spot", "bybit_linear"},
         NEW sub, NEW items,
         sub.channel \in {"publicTrade", "orderbook.1"},
         KindOfChannel(sub.channel) = feed.kind, sub.sym = Plain(feed.pair),
         IsSeq(items), items # <<>>, feed.kind # "trade" => Len(items) = 1
  PROVE  ParseBybit(JsonFrame(url, sub, feed, items), feed.market) = MessagesOf(feed, items)
<1> DEFINE frame == Json(sub.channel, sub.sym, sub.type, items)
           S == {items[i] : i \in DOMAIN items}
           n == Len(items)
<1>1. items \in Seq(S)
  BY DEF IsSeq
<1> HIDE DEF S
<1>2. n \in Nat /\ n # 0 /\ DOMAIN items = 1 .. n
  BY <1>1
<1>3. JsonFrame(url, sub, feed, items) = frame
  BY DEF JsonFrame
<1>4. sub.channel \in DOMAIN BybitKind /\ BybitKind[sub.channel] = feed.kind
  BY DEF BybitKind, KindOfChannel
<1>5. frame.tag = sub.channel /\ frame.sym = sub.sym /\ frame.data = items
  BY DEF Json
<1>6. StoreSymbol(feed) = Plain(feed.pair)
  BY DEF StoreSymbol
<1> HIDE DEF frame
<1>7. (IF frame.tag \in DOMAIN BybitKind THEN frame.data ELSE <<>>) = items
  BY <1>4, <1>5
<1>8. ParseBybit(frame, feed.market) = FlattenSeq([i \in DOMAIN items |->
        ParseItem(feed.kind, StoreSymbol(feed), ProductOf(feed), items[i])])
  BY <1>4, <1>5, <1>6, <1>7, ProductIs DEF ParseBybit
<1>9. feed.kind = "bbo" => n = 1
  OBVIOUS
<1>10. ParseBybit(frame, feed.market) = MessagesOf(feed, items)
  <2> HIDE DEF n
  <2> QED
    BY ONLY <1>2, <1>8, <1>9, feed \in Feeds, ParseAll
<1> QED
  BY <1>3, <1>10

-----------------------------------------------------------------------------
(* Bytes: numbers spread over a block and read back.                       *)

\* Blocks of b bytes do not overlap.
LEMMA Steps ==
  ASSUME NEW i \in Nat, NEW j \in Nat, NEW b \in Nat
  PROVE  i * b \in Nat /\ (i < j => i * b + b <= j * b)
<1>1. i * b \in Nat
  OBVIOUS
<1>2. ASSUME i < j
      PROVE  i * b + b <= j * b
  <2>1. PICK d \in Nat : j = i + 1 + d
    <3>1. j - i - 1 \in Nat /\ j = i + 1 + (j - i - 1)
      BY <1>2
    <3> QED
      BY <3>1
  <2>2. j * b = i * b + b + d * b
    BY <2>1
  <2>3. d * b \in Nat
    BY <2>1
  <2> QED
    BY <1>1, <2>2, <2>3
<1> QED
  BY <1>1, <1>2

\* The block that an offset is in.
LEMMA Quotient ==
  ASSUME NEW i \in Nat, NEW b \in Nat, b # 0
  PROVE  (i * b) \div b = i
<1>1. i * b \in Nat /\ b > 0
  OBVIOUS
<1> DEFINE q == (i * b) \div b
           r == (i * b) % b
<1>2. q \in Nat /\ r \in 0 .. b - 1 /\ i * b = b * q + r
  BY <1>1
<1> HIDE DEF q, r
<1>3. ~ (q < i)
  <2> SUFFICES ASSUME q < i PROVE FALSE
    OBVIOUS
  <2>1. q * b + b <= i * b
    BY <1>2, Steps
  <2>2. b * q = q * b /\ q * b \in Nat
    BY <1>2
  <2> QED
    BY <1>1, <1>2, <2>1, <2>2
<1>4. ~ (i < q)
  <2> SUFFICES ASSUME i < q PROVE FALSE
    OBVIOUS
  <2>1. i * b + b <= q * b
    BY <1>2, Steps
  <2>2. b * q = q * b /\ q * b \in Nat
    BY <1>2
  <2> QED
    BY <1>1, <1>2, <2>1, <2>2
<1> QED
  BY <1>2, <1>3, <1>4 DEF q

\* What is read at the offset of an entry is that entry.
LEMMA SpreadAt ==
  ASSUME NEW entries, NEW start \in Nat, NEW b \in Nat, b # 0, NEW n \in Nat, DOMAIN entries = 1 .. n,
         NEW i \in 1 .. n
  PROVE  /\ start + (i - 1) * b \in DOMAIN Spread(entries, start, b)
         /\ Spread(entries, start, b)[start + (i - 1) * b] = entries[i]
<1> DEFINE o == start + (i - 1) * b
<1>1. o \in {start + (k - 1) * b : k \in DOMAIN entries}
  OBVIOUS
<1>2. i - 1 \in Nat
  OBVIOUS
<1>3. (o - start) \div b + 1 = i
  <2> DEFINE j == i - 1
  <2>1. j \in Nat
    BY <1>2
  <2> HIDE DEF j
  <2>2. (j * b) \div b = j
    BY <2>1, Quotient
  <2>3. j * b \in Nat
    BY <2>1
  <2>4. (start + j * b) - start = j * b
    <3> DEFINE p == j * b
    <3>1. p \in Nat
      BY <2>3
    <3> HIDE DEF p
    <3>2. (start + p) - start = p
      BY <3>1
    <3> QED
      BY <3>2 DEF p
  <2>5. j + 1 = i
    BY DEF j
  <2>6. o = start + j * b
    BY DEF j
  <2> QED
    BY <2>2, <2>4, <2>5, <2>6
<1> HIDE DEF o
<1>4. o \in DOMAIN Spread(entries, start, b)
  BY <1>1 DEF Spread
<1>5. Spread(entries, start, b)[o] = entries[(o - start) \div b + 1]
  BY <1>1 DEF Spread
<1> QED
  BY <1>3, <1>4, <1>5 DEF o

LEMMA SpreadIs ==
  ASSUME NEW entries, NEW start \in Nat, NEW b \in Nat, b # 0, NEW n \in Nat, DOMAIN entries = 1 .. n
  PROVE  LET s == Spread(entries, start, b)
         IN  \A i \in 1 .. n : start + (i - 1) * b \in DOMAIN s /\ s[start + (i - 1) * b] = entries[i]
BY SpreadAt

\* A field of a frame is found at its offset, whatever is laid beside it.
LEMMA ValueIs ==
  ASSUME NEW o, NEW v
  PROVE  DOMAIN ValueAt(o, v) = {o} /\ ValueAt(o, v)[o] = v
BY DEF ValueAt

LEMMA OverLeft ==
  ASSUME NEW f, NEW g, NEW o, NEW v, o \in DOMAIN f, f[o] = v
  PROVE  o \in DOMAIN Over(f, g) /\ Over(f, g)[o] = v
BY DEF Over

LEMMA OverRight ==
  ASSUME NEW f, NEW g, NEW o, NEW v, o \notin DOMAIN f, o \in DOMAIN g, g[o] = v
  PROVE  o \in DOMAIN Over(f, g) /\ Over(f, g)[o] = v
BY DEF Over

\* The three binary frames parsed.
LEMMA BbaParsed ==
  ASSUME NEW feed \in Feeds, feed.kind = "bbo", feed.market = "spot", conn.exchange = "binance",
         NEW items, DOMAIN items = 1 .. 1,
         items[1].body = [side \in {"bid", "ask"} |-> items[1].body[side]]
  PROVE  ParseSbe(EncodeBba(Plain(feed.pair), items[1])) = MessagesOf(feed, items)
<1> DEFINE sym == Plain(feed.pair)
           item == items[1]
           frame == EncodeBba(sym, item)
<1>1. /\ frame.template = 10001 /\ frame.len = 50 + 1 + SymbolBytes
      /\ frame.at = [o \in {8, 18, 34, 50} |->
             CASE o = 8 -> item.id [] o = 18 -> item.body["bid"]
               [] o = 34 -> item.body["ask"] [] OTHER -> sym]
  BY DEF EncodeBba
<1> HIDE DEF frame
<1>2. /\ DOMAIN frame.at = {8, 18, 34, 50}
      /\ frame.at[8] = item.id /\ frame.at[18] = item.body["bid"]
      /\ frame.at[34] = item.body["ask"] /\ frame.at[50] = sym
  BY <1>1
<1>3. frame.len \in Nat /\ frame.len > 50
  BY <1>1, SymbolBytesAssumption
<1>4. /\ ReadSymbol(frame, 50) = sym /\ Read(frame, 8) = item.id
      /\ Read(frame, 18) = item.body["bid"] /\ Read(frame, 34) = item.body["ask"]
  BY <1>2, <1>3 DEF ReadSymbol, Read
<1>5. ParseSbe(frame) = ParseBestBidAsk(frame)
  BY <1>1 DEF ParseSbe
<1>6. ParseBestBidAsk(frame) = <<Msg("bbo", sym, "spot", item.id,
         [side \in {"bid", "ask"} |-> Read(frame, IF side = "bid" THEN 18 ELSE 34)])>>
  BY <1>3, <1>4 DEF ParseBestBidAsk, BbaMinBody
<1>7. [side \in {"bid", "ask"} |-> Read(frame, IF side = "bid" THEN 18 ELSE 34)] = item.body
  <2>1. \A side \in {"bid", "ask"} : Read(frame, IF side = "bid" THEN 18 ELSE 34) = item.body[side]
    BY <1>4
  <2> QED
    BY <2>1
<1>8. Whole(feed, item) /\ Expected(feed, item) = item.body /\ StoreSymbol(feed) = sym
  <2>1. DOMAIN item.body = {"bid", "ask"}
    OBVIOUS
  <2> QED
    BY <2>1 DEF Whole, Expected, TwoSided, StoreSymbol
<1>9. ParseItem(feed.kind, StoreSymbol(feed), ProductOf(feed), item)
        = <<Msg("bbo", sym, "spot", item.id, item.body)>>
  BY <1>8, ParseItemIs, ProductIs
<1>10. ParseItem(feed.kind, StoreSymbol(feed), ProductOf(feed), item) = MessagesOf(feed, items)
  BY ParseOne
<1> QED
  BY <1>5, <1>6, <1>7, <1>9, <1>10 DEF frame

LEMMA TradesParsed ==
  ASSUME NEW feed \in Feeds, feed.kind = "trade", feed.market = "spot", conn.exchange = "binance",
         NEW items, IsSeq(items), items # <<>>, NEW b \in Nat, b >= 25
  PROVE  ParseSbe(EncodeTrades(Plain(feed.pair), items, b)) = MessagesOf(feed, items)
<1> DEFINE sym == Plain(feed.pair)
           n == Len(items)
           frame == EncodeTrades(sym, items, b)
           end == 24 + n * b
           ids == [i \in DOMAIN items |-> items[i].id]
           bodies == [i \in DOMAIN items |-> items[i].body]
           T == {items[i] : i \in DOMAIN items}
<1>1. n \in Nat /\ DOMAIN items = 1 .. n
  <2>1. items \in Seq(T)
    BY DEF IsSeq
  <2> HIDE DEF T
  <2> QED
    BY <2>1
<1>2. n * b \in Nat
  BY <1>1
<1>3. /\ frame.template = 10000 /\ frame.len = end + 1 + SymbolBytes
      /\ frame.size = Over(ValueAt(18, b), ValueAt(20, n))
      /\ frame.at = Over(ValueAt(end, sym), Over(Spread(ids, 24, b), Spread(bodies, 32, b)))
  BY DEF EncodeTrades
<1> HIDE DEF frame
<1>4. ReadSize(frame, 18) = b /\ ReadSize(frame, 20) = n
  <2> HIDE DEF n
  <2> DEFINE f == ValueAt(18, b)
             g == ValueAt(20, n)
  <2>1. DOMAIN f = {18} /\ f[18] = b
    BY ONLY ValueIs
  <2>2. DOMAIN g = {20} /\ g[20] = n
    BY ONLY ValueIs
  <2> HIDE DEF f, g
  <2>3. 18 \in DOMAIN Over(f, g) /\ Over(f, g)[18] = b
    BY ONLY <2>1, OverLeft
  <2>4. 20 \in DOMAIN Over(f, g) /\ Over(f, g)[20] = n
    BY ONLY <2>1, <2>2, OverRight
  <2>5. frame.size = Over(f, g)
    BY <1>3 DEF f, g
  <2> QED
    BY ONLY <2>3, <2>4, <2>5 DEF ReadSize
<1>5. b * n = n * b
  BY <1>1
<1>6. end \in Nat /\ end = 24 + b * n /\ frame.len \in Nat /\ frame.len >= 24 /\ end < frame.len
  <2> DEFINE x == n * b
  <2>1. x \in Nat /\ end = 24 + x /\ frame.len = end + 1 + SymbolBytes
    BY <1>2, <1>3
  <2> HIDE DEF x, end
  <2>2. end \in Nat /\ frame.len \in Nat /\ frame.len >= 24 /\ end < frame.len
    BY <2>1, SymbolBytesAssumption
  <2> QED
    BY <1>5, <2>2 DEF end
<1>7. ReadSymbol(frame, end) = sym
  <2>1. end \in DOMAIN frame.at /\ frame.at[end] = sym
    <3> HIDE DEF end
    <3> DEFINE f == ValueAt(end, sym)
               g == Over(Spread(ids, 24, b), Spread(bodies, 32, b))
    <3>1. end \in DOMAIN f /\ f[end] = sym
      BY ONLY ValueIs
    <3>2. frame.at = Over(f, g)
      BY <1>3
    <3> HIDE DEF f, g
    <3> QED
      BY ONLY <3>1, <3>2, OverLeft
  <2> QED
    BY <1>6, <2>1 DEF ReadSymbol
<1>8. ASSUME NEW i \in 1 .. n
      PROVE  /\ Read(frame, 24 + (i - 1) * b) = items[i].id
             /\ Read(frame, 24 + (i - 1) * b + 8) = items[i].body
  <2> DEFINE x == (i - 1) * b
  <2>1. /\ 24 + (i - 1) * b \in DOMAIN Spread(ids, 24, b) /\ Spread(ids, 24, b)[24 + (i - 1) * b] = ids[i]
        /\ 32 + (i - 1) * b \in DOMAIN Spread(bodies, 32, b)
        /\ Spread(bodies, 32, b)[32 + (i - 1) * b] = bodies[i]
    <3>1. DOMAIN ids = 1 .. n /\ DOMAIN bodies = 1 .. n /\ b # 0 /\ n \in Nat /\ 24 \in Nat /\ 32 \in Nat
      BY <1>1
    <3> HIDE DEF ids, bodies, n
    <3>2. 24 + (i - 1) * b \in DOMAIN Spread(ids, 24, b) /\ Spread(ids, 24, b)[24 + (i - 1) * b] = ids[i]
      BY ONLY <3>1, b \in Nat, i \in 1 .. n, SpreadAt, ZenonT(60)
    <3>3. /\ 32 + (i - 1) * b \in DOMAIN Spread(bodies, 32, b)
          /\ Spread(bodies, 32, b)[32 + (i - 1) * b] = bodies[i]
      BY ONLY <3>1, b \in Nat, i \in 1 .. n, SpreadAt, ZenonT(60)
    <3> QED
      BY <3>2, <3>3
  <2>2. x \in Nat /\ x + b <= n * b
    <3>1. i - 1 \in Nat /\ i - 1 < n
      BY <1>1
    <3> QED
      BY <1>1, <3>1, Steps
  <2>3. ids[i] = items[i].id /\ bodies[i] = items[i].body
    BY <1>1
  <2>4. 24 + x < end /\ 32 + x < end /\ 24 + x \in Nat /\ 32 + x \in Nat /\ 24 + x + 8 = 32 + x
    <3> DEFINE y == n * b
    <3>1. x \in Nat /\ y \in Nat /\ x + b <= y /\ end = 24 + y
      BY <1>2, <2>2
    <3> HIDE DEF x, y, end
    <3> QED
      BY <3>1
  <2>5. 32 + x \notin DOMAIN Spread(ids, 24, b)
    <3> SUFFICES ASSUME NEW k \in 1 .. n, 32 + x = 24 + (k - 1) * b PROVE FALSE
      BY <1>1 DEF Spread
    <3> DEFINE j == k - 1
               h == i - 1
    <3>1. j \in Nat /\ h \in Nat /\ x = h * b
      BY <1>1
    <3>2. 32 + x = 24 + j * b
      OBVIOUS
    <3> HIDE DEF j, h, x
    <3>3. j * b \in Nat /\ h * b \in Nat
      BY <3>1
    <3>4. j < h => j * b + b <= h * b
      BY <3>1, Steps
    <3>5. h < j => h * b + b <= j * b
      BY <3>1, Steps
    <3>6. j = h => j * b = h * b
      OBVIOUS
    <3> DEFINE u == j * b
               v == h * b
    <3>7. /\ u \in Nat /\ v \in Nat /\ 32 + v = 24 + u
          /\ (j < h => u + b <= v) /\ (h < j => v + b <= u) /\ (j = h => u = v)
      BY <3>1, <3>2, <3>3, <3>4, <3>5, <3>6
    <3> HIDE DEF u, v
    <3> QED
      BY <3>1, <3>7
  <2> DEFINE inner == Over(Spread(ids, 24, b), Spread(bodies, 32, b))
  <2>6. 24 + x \in DOMAIN inner /\ inner[24 + x] = items[i].id
    <3>1. 24 + x \in DOMAIN Spread(ids, 24, b) /\ Spread(ids, 24, b)[24 + x] = items[i].id
      BY <2>1, <2>3
    <3> HIDE DEF ids, bodies, x
    <3> QED
      BY ONLY <3>1, OverLeft
  <2>7. 32 + x \in DOMAIN inner /\ inner[32 + x] = items[i].body
    <3>1. 32 + x \in DOMAIN Spread(bodies, 32, b) /\ Spread(bodies, 32, b)[32 + x] = items[i].body
      BY <2>1, <2>3
    <3> HIDE DEF ids, bodies, x
    <3> QED
      BY ONLY <3>1, <2>5, OverRight
  <2> HIDE DEF inner
  <2>8. 24 + x \notin DOMAIN ValueAt(end, sym) /\ 32 + x \notin DOMAIN ValueAt(end, sym)
    <3> HIDE DEF end, x
    <3>1. DOMAIN ValueAt(end, sym) = {end}
      BY ValueIs
    <3>2. 24 + x # end /\ 32 + x # end
      BY <1>6, <2>4
    <3> QED
      BY <3>1, <3>2
  <2>9. frame.at = Over(ValueAt(end, sym), inner)
    BY <1>3 DEF inner
  <2> HIDE DEF x, end
  <2>10. 24 + x \in DOMAIN frame.at /\ frame.at[24 + x] = items[i].id
    BY ONLY <2>6, <2>8, <2>9, OverRight
  <2>11. 32 + x \in DOMAIN frame.at /\ frame.at[32 + x] = items[i].body
    BY ONLY <2>7, <2>8, <2>9, OverRight
  <2> QED
    BY <2>4, <2>10, <2>11 DEF Read, x
<1>9. ParseSbe(frame) = ParseTrades(frame)
  BY <1>3 DEF ParseSbe
<1>10. ParseTrades(frame) = [i \in 1 .. n |-> Msg("trade", sym, "spot",
                               Read(frame, 24 + (i - 1) * b), Read(frame, 24 + (i - 1) * b + 8))]
  <2>1. TradesRootSize = 18 /\ TradesRootSize + 2 = 20 /\ TradesRootSize + TradesGroupHeaderSize = 24
    BY DEF TradesRootSize, TradesGroupHeaderSize
  <2>2. ~ (frame.len < 24 \/ 24 + b * n > frame.len)
    BY <1>6
  <2>3. ReadSymbol(frame, 24 + b * n) = sym
    BY <1>6, <1>7
  <2> HIDE DEF n, end
  <2> QED
    BY <1>4, <2>1, <2>2, <2>3 DEF ParseTrades
<1>11. MessagesOf(feed, items) = [i \in 1 .. n |-> Msg("trade", sym, "spot", items[i].id, items[i].body)]
  <2>1. Whole(feed, items[1]) /\ StoreSymbol(feed) = sym
    BY DEF Whole, StoreSymbol
  <2>2. \A i \in 1 .. n : MessageOf(feed, items[i]) = Msg("trade", sym, "spot", items[i].id, items[i].body)
    BY <2>1, ProductIs DEF MessageOf, Expected
  <2> QED
    BY <1>1, <2>1, <2>2 DEF MessagesOf
<1> QED
  BY <1>8, <1>9, <1>10, <1>11 DEF frame

-----------------------------------------------------------------------------
(* An SBE frame, byte by byte.                                             *)

\* Five levels, or as many as there are.
LEMMA AtMostFive ==
  ASSUME NEW n \in Nat
  PROVE  LET k == Min({5, n}) IN k \in Nat /\ k <= n /\ (k = 5 \/ k = n) /\ k <= 5
<1>1. {5, n} \in SUBSET Nat /\ {5, n} # {}
  OBVIOUS
<1>2. Min({5, n}) \in {5, n} /\ \A y \in {5, n} : Min({5, n}) <= y
  BY <1>1, MinNat
<1> QED
  BY <1>2

LEMMA TakeIs ==
  ASSUME NEW S, NEW e \in Seq(S)
  PROVE  Take(e, 5) = [i \in 1 .. Min({5, Len(e)}) |-> e[i]]
<1> DEFINE k == Min({5, Len(e)})
<1>1. Len(e) \in Nat
  OBVIOUS
<1>2. k \in Nat /\ k <= Len(e)
  BY <1>1, AtMostFive
<1>3. Take(e, 5) = SubSeq(e, 1, k)
  BY DEF Take
<1> HIDE DEF k
<1>4. SubSeq(e, 1, k) = [i \in 1 .. k |-> e[i]]
  <2>1. SubSeq(e, 1, k) \in Seq(S) /\ Len(SubSeq(e, 1, k)) = k
    BY <1>2
  <2>2. \A i \in 1 .. k : SubSeq(e, 1, k)[i] = e[i]
    BY <1>2
  <2>3. SubSeq(e, 1, k) = [i \in 1 .. k |-> SubSeq(e, 1, k)[i]]
    BY <2>1
  <2> QED
    BY <2>2, <2>3
<1> QED
  BY <1>3, <1>4 DEF k

\* A group of entries e in blocks of b bytes: the first five are read, all
\* are skipped.
LEMMA GroupIs ==
  ASSUME NEW frame, frame.len \in Nat, NEW o \in Nat, NEW b \in Nat, b # 0, NEW S, NEW e \in Seq(S),
         ReadSize(frame, o) = b, ReadSize(frame, o + 2) = Len(e),
         o + 4 + Len(e) * b <= frame.len,
         \A i \in 1 .. Len(e) : Read(frame, o + 4 + (i - 1) * b) = e[i]
  PROVE  GroupLevels(frame, o) = Take(e, 5) /\ GroupEnd(frame, o) = o + 4 + Len(e) * b
<1> DEFINE n == Len(e)
           k == Min({5, n})
           fit == {i \in 1 .. k : o + 4 + i * b <= frame.len}
<1>1. n \in Nat
  OBVIOUS
<1>2. k \in Nat /\ k <= n /\ (k = 5 \/ k = n) /\ k <= 5
  BY <1>1, AtMostFive
<1> HIDE DEF k
<1>3. fit = 1 .. k
  <2> SUFFICES ASSUME NEW i \in 1 .. k PROVE o + 4 + i * b <= frame.len
    OBVIOUS
  <2>1. i \in Nat /\ (i < n \/ i = n)
    BY <1>1, <1>2
  <2>2. i * b \in Nat /\ n * b \in Nat /\ i * b <= n * b
    <3>1. CASE i = n
      BY <1>1, <3>1
    <3>2. CASE i < n
      <4>1. i * b \in Nat /\ n * b \in Nat /\ i * b + b <= n * b
        BY <1>1, <2>1, <3>2, Steps
      <4> DEFINE x == i * b
                 y == n * b
      <4>2. x \in Nat /\ y \in Nat /\ x + b <= y
        BY <4>1
      <4> HIDE DEF x, y
      <4>3. x <= y
        BY <4>2
      <4> QED
        BY <4>1, <4>3 DEF x, y
    <3> QED
      BY <2>1, <3>1, <3>2
  <2> DEFINE x == i * b
             y == n * b
  <2>3. x \in Nat /\ y \in Nat /\ x <= y /\ o + 4 + y <= frame.len
    BY <2>2
  <2> HIDE DEF x, y
  <2>4. o + 4 + x <= frame.len
    BY <2>3
  <2> QED
    BY <2>4 DEF x
<1>4. DepthGroupHeaderSize = 4
  BY DEF DepthGroupHeaderSize
<1>5. GroupLevels(frame, o) = [i \in fit |-> Read(frame, o + 4 + (i - 1) * b)]
  <2> HIDE DEF n
  <2> QED
    BY <1>4 DEF GroupLevels, k, n
<1>6. \A i \in 1 .. k : Read(frame, o + 4 + (i - 1) * b) = e[i]
  BY <1>1, <1>2
<1>7. GroupLevels(frame, o) = [i \in 1 .. k |-> e[i]]
  <2> HIDE DEF fit
  <2> QED
    BY <1>3, <1>5, <1>6
<1>8. GroupLevels(frame, o) = Take(e, 5)
  BY <1>7, TakeIs DEF k
<1>9. Len(GroupLevels(frame, o)) = k
  BY <1>2, <1>7
<1>10. GroupEnd(frame, o) = o + 4 + (Len(GroupLevels(frame, o)) + (n - k)) * b
  <2> HIDE DEF n
  <2> QED
    BY <1>4 DEF GroupEnd, k, n
<1>11. k + (n - k) = n
  <2> HIDE DEF n
  <2> QED
    BY <1>1, <1>2
<1> QED
  BY <1>8, <1>9, <1>10, <1>11

OneDepth(items) == DOMAIN items = 1 .. 1 /\ \E S : items[1].body \in [{"bid", "ask"} -> Seq(S)]

\* Where the parts of a depth frame are.
DepthParts(frame, item, sym, b) ==
  LET bids == item.body["bid"]
      asks == item.body["ask"]
      second == 22 + Len(bids) * b
      end == second + 4 + Len(asks) * b
  IN  /\ ReadSize(frame, 18) = b /\ ReadSize(frame, 20) = Len(bids)
      /\ ReadSize(frame, second) = b /\ ReadSize(frame, second + 2) = Len(asks)
      /\ Read(frame, 8) = item.id /\ ReadSymbol(frame, end) = sym
      /\ \A i \in 1 .. Len(bids) : Read(frame, 22 + (i - 1) * b) = bids[i]
      /\ \A i \in 1 .. Len(asks) : Read(frame, second + 4 + (i - 1) * b) = asks[i]
      /\ frame.len = end + 1 + SymbolBytes

LEMMA DepthEncoded ==
  ASSUME NEW item, NEW sym, NEW b \in Nat, b >= 16, NEW S, item.body \in [{"bid", "ask"} -> Seq(S)]
  PROVE  DepthParts(EncodeDepth(sym, item, b), item, sym, b)
<1> DEFINE frame == EncodeDepth(sym, item, b)
           bids == item.body["bid"]
           asks == item.body["ask"]
           p == Len(bids)
           q == Len(asks)
           second == 22 + p * b
           end == second + 4 + q * b
           s1 == Over(ValueAt(18, b), ValueAt(20, p))
           s2 == Over(ValueAt(second, b), ValueAt(second + 2, q))
           a1 == Over(ValueAt(8, item.id), ValueAt(end, sym))
           ab == Spread(bids, 22, b)
           aa == Spread(asks, second + 4, b)
<1>1. /\ frame.len = end + 1 + SymbolBytes /\ frame.size = Over(s1, s2)
      /\ frame.at = Over(a1, Over(ab, aa))
  BY DEF EncodeDepth
<1>2. /\ bids \in Seq(S) /\ asks \in Seq(S) /\ p \in Nat /\ q \in Nat
      /\ DOMAIN bids = 1 .. p /\ DOMAIN asks = 1 .. q
  OBVIOUS
<1> HIDE DEF frame, bids, asks, p, q
<1>3. /\ p * b \in Nat /\ q * b \in Nat
  BY <1>2, Steps
<1>4. second \in Nat /\ end \in Nat /\ second >= 22 /\ end >= second + 4
  <2> DEFINE x == p * b
             y == q * b
  <2>1. x \in Nat /\ y \in Nat
    BY <1>3
  <2> HIDE DEF x, y
  <2>2. 22 + x \in Nat /\ 22 + x + 4 + y \in Nat /\ 22 + x >= 22 /\ 22 + x + 4 + y >= 22 + x + 4
    BY <2>1
  <2> QED
    BY <2>2 DEF x, y
<1>5. DOMAIN s1 = {18, 20} /\ s1[18] = b /\ s1[20] = p
  BY DEF Over, ValueAt
<1>6. second \in DOMAIN s2 /\ s2[second] = b /\ second + 2 \in DOMAIN s2 /\ s2[second + 2] = q
  <2> HIDE DEF second
  <2>1. second + 2 # second
    BY <1>4
  <2> QED
    BY <2>1 DEF Over, ValueAt
<1>7. DOMAIN a1 = {8, end} /\ a1[8] = item.id /\ a1[end] = sym
  <2> HIDE DEF end
  <2>1. 8 # end
    BY <1>4
  <2> QED
    BY <2>1 DEF Over, ValueAt
<1> HIDE DEF s1, s2, a1
<1>8. ReadSize(frame, 18) = b /\ ReadSize(frame, 20) = p
  <2>1. 18 \in DOMAIN Over(s1, s2) /\ Over(s1, s2)[18] = b
    BY ONLY <1>5, OverLeft
  <2>2. 20 \in DOMAIN Over(s1, s2) /\ Over(s1, s2)[20] = p
    BY ONLY <1>5, OverLeft
  <2> QED
    BY ONLY <1>1, <2>1, <2>2 DEF ReadSize
<1>9. ReadSize(frame, second) = b /\ ReadSize(frame, second + 2) = q
  <2> HIDE DEF second
  <2>1. second \notin DOMAIN s1 /\ second + 2 \notin DOMAIN s1
    BY <1>4, <1>5
  <2>2. second \in DOMAIN Over(s1, s2) /\ Over(s1, s2)[second] = b
    BY ONLY <1>6, <2>1, OverRight
  <2>3. second + 2 \in DOMAIN Over(s1, s2) /\ Over(s1, s2)[second + 2] = q
    BY ONLY <1>6, <2>1, OverRight
  <2> HIDE DEF end
  <2> QED
    BY ONLY <1>1, <2>2, <2>3 DEF ReadSize
<1>10. Read(frame, 8) = item.id /\ ReadSymbol(frame, end) = sym
  <2> HIDE DEF end
  <2>1. 8 \in DOMAIN Over(a1, Over(ab, aa)) /\ Over(a1, Over(ab, aa))[8] = item.id
    <3> HIDE DEF ab, aa
    <3> QED
      BY ONLY <1>7, OverLeft
  <2>2. end \in DOMAIN Over(a1, Over(ab, aa)) /\ Over(a1, Over(ab, aa))[end] = sym
    <3> HIDE DEF ab, aa
    <3> QED
      BY ONLY <1>7, OverLeft
  <2>3. end < frame.len
    BY <1>1, <1>4, SymbolBytesAssumption
  <2> HIDE DEF ab, aa
  <2> QED
    BY ONLY <1>1, <2>1, <2>2, <2>3 DEF Read, ReadSymbol
<1>11. ASSUME NEW i \in 1 .. p
       PROVE  Read(frame, 22 + (i - 1) * b) = bids[i]
  <2> DEFINE o == 22 + (i - 1) * b
  <2>1. o \in DOMAIN ab /\ ab[o] = bids[i]
    <3>1. b # 0 /\ p \in Nat /\ 22 \in Nat /\ DOMAIN bids = 1 .. p
      BY <1>2
    <3> QED
      BY ONLY <3>1, b \in Nat, i \in 1 .. p, SpreadAt
  <2>2. o \in Nat /\ o >= 22 /\ o + b <= second
    <3>1. i - 1 \in Nat /\ i - 1 < p
      BY <1>2
    <3>2. (i - 1) * b \in Nat /\ (i - 1) * b + b <= p * b
      BY <1>2, <3>1, Steps
    <3> DEFINE x == (i - 1) * b
               y == p * b
    <3>3. x \in Nat /\ y \in Nat /\ x + b <= y
      BY <1>3, <3>2
    <3> HIDE DEF x, y
    <3>4. 22 + x \in Nat /\ 22 + x >= 22 /\ 22 + x + b <= 22 + y
      BY <3>3
    <3> QED
      BY <3>4 DEF x, y
  <2> HIDE DEF o, ab, aa
  <2>3. o \in DOMAIN Over(ab, aa) /\ Over(ab, aa)[o] = bids[i]
    BY ONLY <2>1, OverLeft
  <2>4. o # 8 /\ o # end
    <3> HIDE DEF second, end
    <3> QED
      BY <1>4, <2>2
  <2>5. o \in DOMAIN Over(a1, Over(ab, aa)) /\ Over(a1, Over(ab, aa))[o] = bids[i]
    <3> HIDE DEF end
    <3>1. o \notin DOMAIN a1
      BY ONLY <1>7, <2>4
    <3> QED
      BY ONLY <2>3, <3>1, OverRight
  <2>6. Read(frame, o) = bids[i]
    <3> HIDE DEF end
    <3> QED
      BY ONLY <1>1, <2>5 DEF Read
  <2> QED
    BY <2>6 DEF o
<1>12. ASSUME NEW i \in 1 .. q
       PROVE  Read(frame, second + 4 + (i - 1) * b) = asks[i]
  <2> DEFINE o == second + 4 + (i - 1) * b
  <2>1. o \in DOMAIN aa /\ aa[o] = asks[i]
    <3> HIDE DEF second
    <3>1. b # 0 /\ q \in Nat /\ second + 4 \in Nat /\ DOMAIN asks = 1 .. q
      BY <1>2, <1>4
    <3> QED
      BY ONLY <3>1, b \in Nat, i \in 1 .. q, SpreadAt
  <2>2. o \in Nat /\ o >= second + 4 /\ o < end
    <3> HIDE DEF second
    <3>1. i - 1 \in Nat /\ i - 1 < q
      BY <1>2
    <3>2. (i - 1) * b \in Nat /\ (i - 1) * b + b <= q * b
      BY <1>2, <3>1, Steps
    <3> DEFINE x == (i - 1) * b
               y == q * b
    <3>3. x \in Nat /\ y \in Nat /\ x + b <= y
      BY <1>3, <3>2
    <3> HIDE DEF x, y
    <3>4. second + 4 + x \in Nat /\ second + 4 + x >= second + 4 /\ second + 4 + x < second + 4 + y
      BY <1>4, <3>3
    <3> QED
      BY <3>4 DEF x, y
  <2>3. o \notin DOMAIN ab
    <3> SUFFICES ASSUME NEW k \in 1 .. p, o = 22 + (k - 1) * b PROVE FALSE
      BY <1>2 DEF Spread
    <3>1. k - 1 \in Nat /\ k - 1 < p
      BY <1>2
    <3>2. (k - 1) * b \in Nat /\ (k - 1) * b + b <= p * b
      BY <1>2, <3>1, Steps
    <3> DEFINE x == (k - 1) * b
               y == p * b
    <3>3. x \in Nat /\ y \in Nat /\ x + b <= y /\ o = 22 + x /\ second = 22 + y
      BY <1>3, <3>2
    <3> HIDE DEF x, y, o, second, end
    <3> QED
      BY <2>2, <3>3
  <2> HIDE DEF o, ab, aa
  <2>4. o \in DOMAIN Over(ab, aa) /\ Over(ab, aa)[o] = asks[i]
    BY ONLY <2>1, <2>3, OverRight
  <2>5. o # 8 /\ o # end
    <3> HIDE DEF second, end
    <3> QED
      BY <1>4, <2>2
  <2>6. o \in DOMAIN Over(a1, Over(ab, aa)) /\ Over(a1, Over(ab, aa))[o] = asks[i]
    <3> HIDE DEF end
    <3>1. o \notin DOMAIN a1
      BY ONLY <1>7, <2>5
    <3> QED
      BY ONLY <2>4, <3>1, OverRight
  <2>7. Read(frame, o) = asks[i]
    <3> HIDE DEF end
    <3> QED
      BY ONLY <1>1, <2>6 DEF Read
  <2> QED
    BY <2>7 DEF o
<1> QED
  BY <1>1, <1>8, <1>9, <1>10, <1>11, <1>12 DEF DepthParts, p, q, bids, asks, frame

LEMMA DepthParsed ==
  ASSUME NEW feed \in Feeds, feed.kind = "depth5", feed.market = "spot", conn.exchange = "binance",
         NEW items, OneDepth(items), NEW b \in Nat, b >= 16
  PROVE  ParseSbe(EncodeDepth(Plain(feed.pair), items[1], b)) = MessagesOf(feed, items)
<1> DEFINE item == items[1]
           sym == Plain(feed.pair)
           frame == EncodeDepth(sym, item, b)
           bids == item.body["bid"]
           asks == item.body["ask"]
           second == 22 + Len(bids) * b
           end == second + 4 + Len(asks) * b
<1>1. PICK S : item.body \in [{"bid", "ask"} -> Seq(S)]
  BY DEF OneDepth
<1>2. bids \in Seq(S) /\ asks \in Seq(S) /\ Len(bids) \in Nat /\ Len(asks) \in Nat
  BY <1>1
<1>3. frame.template = 10002
  BY DEF EncodeDepth
<1>4. DepthParts(frame, item, sym, b)
  BY ONLY <1>1, b \in Nat, b >= 16, DepthEncoded
<1> HIDE DEF frame, item
<1>5. /\ ReadSize(frame, 18) = b /\ ReadSize(frame, 18 + 2) = Len(bids)
      /\ ReadSize(frame, second) = b /\ ReadSize(frame, second + 2) = Len(asks)
      /\ Read(frame, 8) = item.id /\ ReadSymbol(frame, end) = sym
      /\ \A i \in 1 .. Len(bids) : Read(frame, 22 + (i - 1) * b) = bids[i]
      /\ \A i \in 1 .. Len(asks) : Read(frame, second + 4 + (i - 1) * b) = asks[i]
      /\ frame.len = end + 1 + SymbolBytes
  <2>1. ReadSize(frame, 18) = b /\ ReadSize(frame, 20) = Len(bids)
    BY ONLY <1>4 DEF DepthParts
  <2>2. ReadSize(frame, second) = b /\ ReadSize(frame, second + 2) = Len(asks)
    BY ONLY <1>4 DEF DepthParts
  <2>3. Read(frame, 8) = item.id /\ ReadSymbol(frame, end) = sym
    BY ONLY <1>4 DEF DepthParts
  <2>4. \A i \in 1 .. Len(bids) : Read(frame, 22 + (i - 1) * b) = bids[i]
    BY ONLY <1>4, Zenon DEF DepthParts
  <2>5. \A i \in 1 .. Len(asks) : Read(frame, second + 4 + (i - 1) * b) = asks[i]
    BY ONLY <1>4, Zenon DEF DepthParts
  <2>6. frame.len = end + 1 + SymbolBytes
    BY ONLY <1>4 DEF DepthParts
  <2>7. 18 + 2 = 20
    OBVIOUS
  <2> HIDE DEF second, end, bids, asks
  <2> QED
    BY ONLY <2>1, <2>2, <2>3, <2>4, <2>5, <2>6, <2>7
<1> HIDE DEF bids, asks
<1>6. Len(bids) * b \in Nat /\ Len(asks) * b \in Nat
  BY <1>2, Steps
<1>7. /\ second \in Nat /\ end \in Nat /\ frame.len \in Nat /\ end <= frame.len
      /\ second + 4 <= frame.len /\ 22 <= frame.len
  <2> DEFINE x == Len(bids) * b
             y == Len(asks) * b
  <2>1. x \in Nat /\ y \in Nat /\ second = 22 + x /\ end = second + 4 + y /\ frame.len = end + 1 + SymbolBytes
    BY <1>5, <1>6
  <2> HIDE DEF x, y, second, end
  <2> QED
    BY <2>1, SymbolBytesAssumption
<1>8. GroupLevels(frame, 18) = Take(bids, 5) /\ GroupEnd(frame, 18) = second
  <2>1. 18 + 4 + Len(bids) * b <= frame.len
    <3> DEFINE x == Len(bids) * b
    <3>1. x \in Nat /\ second = 22 + x
      BY <1>6
    <3> HIDE DEF x, second, end
    <3>2. 18 + 4 + x <= frame.len
      BY <1>7, <3>1
    <3> QED
      BY <3>2 DEF x
  <2>2. \A i \in 1 .. Len(bids) : Read(frame, 18 + 4 + (i - 1) * b) = bids[i]
    BY <1>5
  <2>3. b # 0 /\ 18 \in Nat
    OBVIOUS
  <2>4. GroupLevels(frame, 18) = Take(bids, 5) /\ GroupEnd(frame, 18) = 18 + 4 + Len(bids) * b
    BY ONLY <1>2, <1>5, <1>7, <2>1, <2>2, <2>3, b \in Nat, GroupIs
  <2> QED
    BY <2>4
<1>9. GroupLevels(frame, second) = Take(asks, 5) /\ GroupEnd(frame, second) = end
  <2>1. b # 0 /\ second + 4 + Len(asks) * b <= frame.len
    BY <1>7
  <2> HIDE DEF second
  <2>2. GroupLevels(frame, second) = Take(asks, 5)
        /\ GroupEnd(frame, second) = second + 4 + Len(asks) * b
    BY ONLY <1>2, <1>5, <1>7, <2>1, b \in Nat, GroupIs
  <2> QED
    BY <2>2
<1>10. ParseSbe(frame) = ParseDepth(frame)
  BY <1>3 DEF ParseSbe
<1>11. ParseDepth(frame) = <<Msg("depth5", sym, "spot", item.id,
           [side \in {"bid", "ask"} |-> GroupLevels(frame, IF side = "bid" THEN 18 ELSE second)])>>
  <2> HIDE DEF second, end
  <2>1. DepthRootSize = 18 /\ DepthGroupHeaderSize = 4
    BY DEF DepthRootSize, DepthGroupHeaderSize
  <2>2. ~ (frame.len < 18 + 4) /\ ~ (second + 4 > frame.len)
    BY <1>7
  <2> QED
    BY <1>5, <1>8, <1>9, <2>1, <2>2 DEF ParseDepth
<1>12. [side \in {"bid", "ask"} |-> GroupLevels(frame, IF side = "bid" THEN 18 ELSE second)] = FillDepth5(item.body)
  <2>1. \A side \in {"bid", "ask"} :
          GroupLevels(frame, IF side = "bid" THEN 18 ELSE second) = Take(item.body[side], 5)
    BY <1>8, <1>9 DEF bids, asks
  <2> QED
    BY <2>1 DEF FillDepth5
<1>13. MessagesOf(feed, items) = <<Msg("depth5", sym, "spot", item.id, FillDepth5(item.body))>>
  <2>1. StoreSymbol(feed) = sym /\ Whole(feed, item) /\ Expected(feed, item) = FillDepth5(item.body)
    BY DEF StoreSymbol, Whole, Expected
  <2>2. ParseItem(feed.kind, StoreSymbol(feed), ProductOf(feed), item)
          = <<Msg("depth5", sym, "spot", item.id, FillDepth5(item.body))>>
    BY <2>1, ParseItemIs, ProductIs
  <2>3. DOMAIN items = 1 .. 1
    BY DEF OneDepth
  <2> QED
    BY <2>2, <2>3, ParseOne DEF item
<1> QED
  BY <1>10, <1>11, <1>12, <1>13 DEF frame, item

-----------------------------------------------------------------------------
(* Every frame, parsed.                                                    *)

LEMMA SbeParsed ==
  ASSUME NEW feed \in Feeds, feed.market = "spot", conn.exchange = "binance", feed.kind \in NoAgg,
         NEW n \in Nat, NEW size \in BatchSizes(feed), NEW sides \in SideSets(feed),
         NEW depth \in DepthsOf(feed), NEW extra \in Nat
  PROVE  ParseSbe(SbeFrame(feed, Fresh(feed, n, size, sides, depth), extra))
           = MessagesOf(feed, Fresh(feed, n, size, sides, depth))
<1> DEFINE items == Fresh(feed, n, size, sides, depth)
<1>1. /\ size \in Nat /\ size >= 1 /\ (feed.kind # "trade" => size = 1)
  BY Batches
<1>2. IsSeq(items) /\ Len(items) = size /\ DOMAIN items = 1 .. size
      /\ items[1] = Item(feed, n + 1, sides, depth)
  BY <1>1, FreshIs
<1> HIDE DEF items
<1>3. CASE feed.kind = "bbo"
  <2>1. sides = {"bid", "ask"}
    BY DEF SideSets
  <2>2. items[1].body = [side \in {"bid", "ask"} |-> News(feed, n + 1)]
    BY <1>2, <1>3, <2>1 DEF Item
  <2>3. items[1].body = [side \in {"bid", "ask"} |-> items[1].body[side]]
    BY <2>2
  <2>4. SbeFrame(feed, items, extra) = EncodeBba(Plain(feed.pair), items[1])
    BY <1>3 DEF SbeFrame
  <2>5. DOMAIN items = 1 .. 1
    BY <1>1, <1>2, <1>3
  <2> QED
    BY <1>3, <2>3, <2>4, <2>5, BbaParsed DEF items
<1>4. CASE feed.kind = "trade"
  <2>1. SbeFrame(feed, items, extra) = EncodeTrades(Plain(feed.pair), items, 25 + extra)
    BY <1>4 DEF SbeFrame
  <2>2. items # <<>>
    BY <1>1, <1>2, EmptySeq
  <2>3. 25 + extra \in Nat /\ 25 + extra >= 25
    OBVIOUS
  <2> QED
    BY <1>2, <1>4, <2>1, <2>2, <2>3, TradesParsed DEF items
<1>5. CASE feed.kind = "depth5"
  <2>1. SbeFrame(feed, items, extra) = EncodeDepth(Plain(feed.pair), items[1], 16 + extra)
    BY <1>5 DEF SbeFrame
  <2>2. depth \in [{"bid", "ask"} -> Nat]
    BY <1>5, FeedBounds DEF DepthsOf
  <2>3. items[1].body = [side \in {"bid", "ask"} |-> [i \in 1 .. depth[side] |-> <<i, News(feed, n + 1)>>]]
    BY <1>2, <1>5 DEF Item
  <2>4. OneDepth(items)
    <3> DEFINE S == Nat \X {News(feed, n + 1)}
               level(i) == <<i, News(feed, n + 1)>>
    <3>1. ASSUME NEW side \in {"bid", "ask"}
          PROVE  [i \in 1 .. depth[side] |-> level(i)] \in Seq(S)
      <4>1. depth[side] \in Nat
        BY <2>2
      <4>2. \A i \in 1 .. depth[side] : level(i) \in S
        BY <4>1
      <4> HIDE DEF S, level
      <4> QED
        BY <4>1, <4>2, IsASeq
    <3>2. items[1].body \in [{"bid", "ask"} -> Seq(S)]
      <4> HIDE DEF S
      <4> QED
        BY <3>1, <2>3
    <3>3. DOMAIN items = 1 .. 1
      BY <1>1, <1>2, <1>5
    <3> HIDE DEF S
    <3> QED
      BY <3>2, <3>3 DEF OneDepth
  <2>5. 16 + extra \in Nat /\ 16 + extra >= 16
    OBVIOUS
  <2> QED
    BY <1>5, <2>1, <2>4, <2>5, DepthParsed DEF items
<1> QED
  BY <1>3, <1>4, <1>5 DEF NoAgg

\* Whatever is published of a feed is parsed to its messages by the stream that serves it.
LEMMA Parsed ==
  ASSUME conn \in Configs, NEW l \in Running, NEW feed \in Feeds, Serves(Stream(l), feed) # {}, Sold(feed),
         NEW n \in Nat, NEW size \in BatchSizes(feed), NEW sides \in SideSets(feed),
         NEW depth \in DepthsOf(feed), NEW extra \in Nat
  PROVE  Parse(Stream(l), FrameFor(Stream(l), feed, Fresh(feed, n, size, sides, depth), extra))
           = MessagesOf(feed, Fresh(feed, n, size, sides, depth))
<1> DEFINE items == Fresh(feed, n, size, sides, depth)
           st == Stream(l)
           sub == CHOOSE s \in Serves(st, feed) : TRUE
<1>1. l \in Active /\ st = StreamAt(l)
  BY RunningIs
<1>2. l \in Labels /\ ExchangeOf(l) = conn.exchange /\ st.url = UrlOf(l)
  BY <1>1 DEF Active, StreamAt
<1>3. sub \in Serves(st, feed)
  OBVIOUS
<1>4. /\ feed.market = MarketOf(l) /\ feed.kind \in KindsOf(l)
      /\ sub.type = TypeOf(l) /\ sub.channel \in ChannelsOf(l) /\ KindOfChannel(sub.channel) = feed.kind
      /\ sub.sym = VenueSymbol(UrlOf(l), feed.market, feed.pair)
  BY <1>1, <1>3, ServesIs
<1>5. /\ size \in Nat /\ size >= 1
      /\ feed.kind # "trade" \/ conn.exchange = "okx" \/ (conn.exchange = "binance" /\ feed.market = "futures")
           => size = 1
  BY Batches
<1>6. IsSeq(items) /\ Len(items) = size /\ DOMAIN items = 1 .. size /\ items # <<>>
  <2>1. IsSeq(items) /\ Len(items) = size /\ DOMAIN items = 1 .. size
    BY <1>5, FreshIs
  <2> HIDE DEF items
  <2> QED
    BY <2>1, <1>5, EmptySeq
<1> DEFINE frame == FrameFor(st, feed, items, extra)
<1>7. frame = IF st.url = "binance_sbe" THEN SbeFrame(feed, items, extra) ELSE JsonFrame(st.url, sub, feed, items)
  BY DEF FrameFor, SbeUrl
<1> HIDE DEF items, st, sub, frame
<1>8. CASE l = "binance_spot_sbe"
  <2>1. UrlOf(l) = "binance_sbe" /\ conn.exchange = "binance" /\ feed.market = "spot" /\ feed.kind \in NoAgg
    BY <1>8, <1>2, <1>4 DEF UrlOf, ExchangeOf, MarketOf, KindsOf, BinanceLabels, OkxLabels, BitgetLabels
  <2>2. Parse(st, frame) = ParseSbe(frame)
    BY <1>2, <2>1 DEF Parse
  <2>3. ParseSbe(SbeFrame(feed, items, extra)) = MessagesOf(feed, items)
    BY <2>1, SbeParsed DEF items
  <2> QED
    BY <1>2, <1>7, <2>1, <2>2, <2>3 DEF items, st, frame
<1>9. CASE l \in {"binance_spot_json", "binance_ubase"}
  <2>1. UrlOf(l) \in {"binance_spot", "binance_futures"} /\ conn.exchange = "binance"
        /\ (feed.kind = "agg" \/ feed.market = "futures")
    BY <1>9, <1>2, <1>4 DEF UrlOf, ExchangeOf, MarketOf, KindsOf, BinanceLabels, OkxLabels, BitgetLabels
  <2>2. Parse(st, frame) = ParseBinance(frame)
    BY <1>2, <2>1 DEF Parse
  <2>3. DOMAIN items = 1 .. 1
    BY <1>5, <1>6, <2>1
  <2>4. frame = JsonFrame(UrlOf(l), sub, feed, items)
    BY <1>2, <1>7, <2>1
  <2> QED
    BY <2>1, <2>2, <2>3, <2>4, BinanceJsonParsed DEF items, st, frame
<1>10. CASE l \in OkxLabels
  <2>1. UrlOf(l) = "okx" /\ conn.exchange = "okx" /\ ChannelsOf(l) = {"bbo-tbt", "trades", "books5"}
    BY <1>10, <1>2 DEF UrlOf, ExchangeOf, ChannelsOf, BinanceLabels, OkxLabels, BitgetLabels
  <2>2. Parse(st, frame) = ParseOkx(frame)
    BY <1>2, <2>1 DEF Parse
  <2>3. DOMAIN items = 1 .. 1
    BY <1>5, <1>6, <2>1
  <2>4. frame = JsonFrame("okx", sub, feed, items)
    BY <1>2, <1>7, <2>1
  <2>5. /\ sub.channel \in {"bbo-tbt", "trades", "books5"} /\ KindOfChannel(sub.channel) = feed.kind
        /\ sub.sym = VenueSymbol("okx", feed.market, feed.pair)
    BY <1>4, <2>1
  <2> QED
    BY <2>1, <2>2, <2>3, <2>4, <2>5, OkxParsed DEF items, st, frame
<1>11. CASE l \in BitgetLabels
  <2>1. UrlOf(l) = "bitget" /\ conn.exchange = "bitget" /\ ChannelsOf(l) = {"books1", "trade", "books5"}
    BY <1>11, <1>2 DEF UrlOf, ExchangeOf, ChannelsOf, BinanceLabels, OkxLabels, BitgetLabels
  <2>2. Parse(st, frame) = ParseBitget(frame)
    BY <1>2, <2>1 DEF Parse
  <2>3. feed.kind # "trade" => Len(items) = 1
    BY <1>5, <1>6
  <2>4. frame = JsonFrame("bitget", sub, feed, items)
    BY <1>2, <1>7, <2>1
  <2>5. /\ sub.channel \in {"books1", "trade", "books5"} /\ KindOfChannel(sub.channel) = feed.kind
        /\ sub.sym = Plain(feed.pair)
    BY <1>4, <2>1 DEF VenueSymbol
  <2>6. sub.type = IF feed.market = "spot" THEN "SPOT" ELSE "USDT-FUTURES"
    BY <1>4, <1>11 DEF TypeOf, MarketOf, BitgetLabels
  <2>7. IsSeq(items) /\ items # <<>>
    BY <1>6
  <2>8. ParseBitget(JsonFrame("bitget", sub, feed, items)) = MessagesOf(feed, items)
    <3>1. conn.exchange = "bitget" /\ (feed.kind # "trade" => Len(items) = 1)
      BY <2>1, <2>3
    <3> QED
      BY ONLY <2>5, <2>6, <2>7, <3>1, feed \in Feeds, BitgetParsed
  <2> QED
    BY <2>2, <2>4, <2>8 DEF items, st, frame
<1>12. CASE l \in BybitLabels
  <2>1. /\ UrlOf(l) = IF feed.market = "spot" THEN "bybit_spot" ELSE "bybit_linear"
        /\ conn.exchange = "bybit" /\ ChannelsOf(l) = {"publicTrade", "orderbook.1", "orderbook.50"}
        /\ feed.market \in {"spot", "futures"}
    BY <1>12, <1>2, <1>4
       DEF UrlOf, ExchangeOf, ChannelsOf, MarketOf, BinanceLabels, OkxLabels, BitgetLabels, BybitLabels
  <2>2. Parse(st, frame) = ParseBybit(frame, feed.market)
    BY <1>2, <2>1 DEF Parse
  <2>3. feed.kind # "trade" => Len(items) = 1
    BY <1>5, <1>6
  <2>4. frame = JsonFrame(UrlOf(l), sub, feed, items)
    BY <1>2, <1>7, <2>1
  <2>5. /\ sub.channel \in {"publicTrade", "orderbook.1"}
        /\ KindOfChannel(sub.channel) = feed.kind /\ sub.sym = Plain(feed.pair)
    <3>1. KindOfChannel("orderbook.50") = "depth5"
      BY DEF KindOfChannel
    <3>2. feed.kind # "depth5"
      BY <2>1 DEF Sold
    <3> QED
      BY <1>4, <2>1, <3>1, <3>2 DEF VenueSymbol
  <2>6. UrlOf(l) \in {"bybit_spot", "bybit_linear"}
    BY <2>1
  <2>7. IsSeq(items) /\ items # <<>>
    BY <1>6
  <2>8. ParseBybit(JsonFrame(UrlOf(l), sub, feed, items), feed.market) = MessagesOf(feed, items)
    <3>1. conn.exchange = "bybit" /\ (feed.kind # "trade" => Len(items) = 1)
      BY <2>1, <2>3
    <3> QED
      BY ONLY <2>5, <2>6, <2>7, <3>1, feed \in Feeds, BybitParsed
  <2> QED
    BY <2>2, <2>4, <2>8 DEF items, st, frame
<1> QED
  BY <1>2, <1>8, <1>9, <1>10, <1>11, <1>12 DEF Labels, OkxLabels, BitgetLabels, BybitLabels, items, st, frame

\* What a connection gets first is no market data.
LEMMA ControlParsed ==
  ASSUME conn \in Configs, NEW l \in Running
  PROVE  Parse(Stream(l), IF SbeUrl(Stream(l)) THEN SbeControl ELSE Control) = <<>>
<1> DEFINE st == Stream(l)
           frame == IF SbeUrl(st) THEN SbeControl ELSE Control
<1>1. st.url \in {"binance_spot", "binance_sbe", "binance_futures", "okx", "bitget", "bybit_spot", "bybit_linear"}
  <2>1. l \in Labels /\ st.url = UrlOf(l)
    BY RunningIs DEF Active, StreamAt
  <2> QED
    BY <2>1 DEF UrlOf, Labels, OkxLabels, BitgetLabels
<1> HIDE DEF st
<1>2. Control.tag = "" /\ Control.data = <<>> /\ SbeControl.template = 0
  BY DEF Control, Json, SbeControl
<1>3. DOMAIN <<>> = {}
  BY EmptySeq, LenProperties
<1>4. CASE st.url = "binance_sbe"
  <2>1. frame = SbeControl
    BY <1>4 DEF SbeUrl
  <2>2. Parse(st, SbeControl) = ParseSbe(SbeControl)
    BY <1>4 DEF Parse
  <2>3. ParseSbe(SbeControl) = <<>>
    <3>1. SbeControl.template # 10000 /\ SbeControl.template # 10001 /\ SbeControl.template # 10002
      <4>1. SbeControl.template = 0
        BY ONLY <1>2
      <4> QED
        BY ONLY <4>1
    <3> QED
      BY ONLY <3>1 DEF ParseSbe
  <2> QED
    BY <2>1, <2>2, <2>3 DEF st
<1>5. CASE st.url \in {"binance_spot", "binance_futures"}
  <2>1. "" \notin DOMAIN BinanceKind
    BY DEF BinanceKind
  <2>2. Parse(st, Control) = ParseBinance(Control)
    BY <1>5 DEF Parse
  <2>3. frame = Control
    BY <1>5 DEF SbeUrl
  <2> QED
    BY <1>2, <2>1, <2>2, <2>3 DEF ParseBinance, st
<1>6. CASE st.url = "okx"
  <2>1. Parse(st, Control) = ParseOkx(Control)
    BY <1>6 DEF Parse
  <2>2. frame = Control
    BY <1>6 DEF SbeUrl
  <2> QED
    BY <1>2, <2>1, <2>2 DEF ParseOkx, st
<1>7. CASE st.url = "bitget"
  <2>1. Parse(st, Control) = ParseBitget(Control)
    BY <1>7 DEF Parse
  <2>2. frame = Control
    BY <1>7 DEF SbeUrl
  <2>3. ParseBitget(Control) = FlattenSeq([i \in DOMAIN <<>> |->
          ParseItem(BitgetKind[Control.tag], Control.sym, ProductFromInstType(Control), <<>>[i])])
    BY <1>2 DEF ParseBitget
  <2>4. [i \in DOMAIN <<>> |->
          ParseItem(BitgetKind[Control.tag], Control.sym, ProductFromInstType(Control), <<>>[i])] = <<>>
    BY <1>3
  <2> QED
    BY <2>1, <2>2, <2>3, <2>4, FlattenNothing DEF st
<1>8. CASE st.url \in {"bybit_spot", "bybit_linear"}
  <2>1. \E product : Parse(st, Control) = ParseBybit(Control, product)
    BY <1>8 DEF Parse
  <2>2. frame = Control
    BY <1>8 DEF SbeUrl
  <2>3. ASSUME NEW product PROVE ParseBybit(Control, product) = <<>>
    <3>1. (IF Control.tag \in DOMAIN BybitKind THEN Control.data ELSE <<>>) = <<>>
      BY <1>2
    <3>2. ParseBybit(Control, product) = FlattenSeq([i \in DOMAIN <<>> |->
            ParseItem(BybitKind[Control.tag], Control.sym, product, <<>>[i])])
      BY <3>1 DEF ParseBybit
    <3>3. [i \in DOMAIN <<>> |-> ParseItem(BybitKind[Control.tag], Control.sym, product, <<>>[i])] = <<>>
      BY <1>3
    <3> QED
      BY <3>2, <3>3, FlattenNothing
  <2> QED
    BY <2>1, <2>2, <2>3 DEF st
<1> QED
  BY <1>1, <1>4, <1>5, <1>6, <1>7, <1>8

-----------------------------------------------------------------------------
(* The inductive invariant.                                                *)

Shape ==
  /\ conn \in Configs /\ up \subseteq Running
  /\ counts \in [Feeds -> Nat] /\ breaks \in 0 .. MaxBreaks
  /\ wire = [l \in Labels |-> wire[l]] /\ seen = [l \in Labels |-> seen[l]]
  /\ store = [n \in StoreNames |-> store[n]]
  /\ \A n \in StoreNames : IsSeq(store[n])
  /\ \A l \in Labels : IsSeq(wire[l]) /\ (l \notin up => wire[l] = <<>>)

Batch(feed, items) ==
  /\ IsSeq(items) /\ items # <<>>
  /\ feed.kind = "bbo" => Len(items) = 1
  /\ \A i \in DOMAIN items : items[i].id \in 1 .. counts[feed]
  /\ \A i, j \in DOMAIN items : i < j => items[i].id < items[j].id

Served(l, feed) == feed \in Feeds /\ Serves(Stream(l), feed) # {}

Entry(l, e) ==
  \/ e.feed = <<>> /\ e.items = <<>> /\ Parse(Stream(l), e.frame) = <<>>
  \/ /\ Served(l, e.feed) /\ Batch(e.feed, e.items)
     /\ Parse(Stream(l), e.frame) = MessagesOf(e.feed, e.items)

Wires ==
  \A l \in up : \A i \in DOMAIN wire[l] :
    /\ Entry(l, wire[l][i])
    /\ \A j \in DOMAIN wire[l] : i < j /\ wire[l][i].feed = wire[l][j].feed =>
         \A a \in DOMAIN wire[l][i].items, b \in DOMAIN wire[l][j].items :
            wire[l][i].items[a].id < wire[l][j].items[b].id

\* All that is on its way of a feed has higher ids.
Ahead(feed, n) ==
  \A l \in up : \A i \in DOMAIN wire[l] : wire[l][i].feed = feed =>
    \A a \in DOMAIN wire[l][i].items : n < wire[l][i].items[a].id

Passed(feed, n) == n \in 1 .. counts[feed] /\ Ahead(feed, n)

Known ==
  \A l \in Labels : \A k \in seen[l] :
    l \in Running /\ \E feed \in Feeds : /\ Served(l, feed) /\ k.kind = feed.kind
                                         /\ k.sym = StoreSymbol(feed) /\ Passed(feed, k.id)

Filed ==
  \A n \in StoreNames : \A k \in DOMAIN store[n] :
    \E feed \in Feeds : n = <<feed.market, feed.kind>> /\ k \in Places(feed)

Rising ==
  \A feed \in Feeds : \A k \in Places(feed) :
    /\ Records(feed)[k].product = ProductOf(feed) /\ Passed(feed, Records(feed)[k].id)
    /\ \A j \in Places(feed) : j < k => Records(feed)[j].id < Records(feed)[k].id

Owed ==
  /\ OnWires \subseteq due
  /\ \A d \in due : d.feed \in Feeds /\ d.item.id \in 1 .. counts[d.feed]
  /\ \A d, e \in due : d.feed = e.feed /\ d.item.id = e.item.id => d = e

Faithful ==
  \A feed \in Configured :
    /\ \A item \in Delivered(feed) : Whole(feed, item) =>
         \E k \in Places(feed) : Records(feed)[k].id = item.id
    /\ \A k \in Places(feed) : \E item \in Delivered(feed) :
         Whole(feed, item) /\ Records(feed)[k] = MessageOf(feed, item)

FdInv == Shape /\ Wires /\ Known /\ Filed /\ Rising /\ Owed /\ Faithful

\* The wires, and what is on its way.

LEMMA SeqFacts ==
  ASSUME NEW s, IsSeq(s)
  PROVE  /\ Len(s) \in Nat /\ DOMAIN s = 1 .. Len(s) /\ (s = <<>> <=> Len(s) = 0)
         /\ \A e : /\ IsSeq(Append(s, e)) /\ Len(Append(s, e)) = Len(s) + 1
                   /\ \A i \in 1 .. Len(s) : Append(s, e)[i] = s[i]
                   /\ Append(s, e)[Len(s) + 1] = e
         /\ s # <<>> => /\ IsSeq(Tail(s)) /\ Len(Tail(s)) = Len(s) - 1 /\ Head(s) = s[1]
                        /\ \A i \in 1 .. Len(s) - 1 : Tail(s)[i] = s[i + 1]
<1> DEFINE S == {s[i] : i \in DOMAIN s}
<1>1. s \in Seq(S)
  BY DEF IsSeq
<1> HIDE DEF S
<1>2. Len(s) \in Nat /\ DOMAIN s = 1 .. Len(s) /\ (s = <<>> <=> Len(s) = 0)
  BY <1>1
<1>3. ASSUME NEW e
      PROVE  /\ IsSeq(Append(s, e)) /\ Len(Append(s, e)) = Len(s) + 1
             /\ \A i \in 1 .. Len(s) : Append(s, e)[i] = s[i]
             /\ Append(s, e)[Len(s) + 1] = e
  <2>1. s \in Seq(S \cup {e})
    BY <1>1
  <2>2. Append(s, e) \in Seq(S \cup {e})
    BY <2>1
  <2>3. IsSeq(Append(s, e))
    BY <2>2, SeqIs
  <2> QED
    BY <2>1, <2>3
<1>4. ASSUME s # <<>>
      PROVE  /\ IsSeq(Tail(s)) /\ Len(Tail(s)) = Len(s) - 1 /\ Head(s) = s[1]
             /\ \A i \in 1 .. Len(s) - 1 : Tail(s)[i] = s[i + 1]
  <2>1. Tail(s) \in Seq(S)
    BY <1>1, <1>4
  <2>2. IsSeq(Tail(s))
    BY <2>1, SeqIs
  <2> QED
    BY <1>1, <1>4, <2>2
<1> QED
  BY <1>2, <1>3, <1>4

\* Two sequences joined, place by place.
LEMMA Joined ==
  ASSUME NEW s, IsSeq(s), NEW t, IsSeq(t)
  PROVE  /\ IsSeq(s \o t) /\ Len(s \o t) = Len(s) + Len(t)
         /\ \A i \in 1 .. Len(s) : (s \o t)[i] = s[i]
         /\ \A i \in 1 .. Len(t) : (s \o t)[Len(s) + i] = t[i]
<1>1. PICK S : s \in Seq(S) /\ t \in Seq(S)
  BY SeqOfBoth
<1>2. s \o t \in Seq(S)
  BY <1>1
<1>3. IsSeq(s \o t)
  BY <1>2, SeqIs
<1> QED
  BY <1>1, <1>3

LEMMA FeedsEqual ==
  ASSUME NEW f \in Feeds, NEW g \in Feeds, f.market = g.market, f.kind = g.kind, f.pair = g.pair
  PROVE  f = g
BY DEF Feeds

LEMMA FeedIs ==
  ASSUME NEW f \in Feeds
  PROVE  /\ f.market \in Markets /\ f.kind \in Kinds /\ f.pair \in Pairs
         /\ <<f.market, f.kind>> \in StoreNames
BY DEF Feeds, StoreNames

LEMMA SwapPair ==
  ASSUME NEW s \in Symbol
  PROVE  Swap(s).pair = s.pair
BY DEF Swap, Symbol

\* However a feed is spelled, its pair is told by its symbol.
LEMMA PairOf ==
  ASSUME NEW f \in Feeds
  PROVE  StoreSymbol(f).pair = f.pair
<1>1. f.pair \in Pairs
  BY FeedIs
<1>2. /\ Plain(f.pair).pair = f.pair
      /\ Hyphen(Plain(f.pair)) \in Symbol /\ Hyphen(Plain(f.pair)).pair = f.pair
  BY <1>1, Spellings
<1>3. Swap(Hyphen(Plain(f.pair))).pair = f.pair
  BY <1>2, SwapPair
<1>4. VenueSymbol("okx", f.market, f.pair).pair = f.pair
  BY <1>2, <1>3 DEF VenueSymbol
<1> QED
  BY <1>2, <1>4 DEF StoreSymbol

\* No feed is served by two streams.
LEMMA OneLabel ==
  ASSUME conn \in Configs, NEW l \in Running, NEW m \in Running, NEW f, Served(l, f), Served(m, f)
  PROVE  l = m
<1>1. /\ f \in Feeds /\ Serves(Stream(l), f) # {} /\ Serves(Stream(m), f) # {}
  BY DEF Served
<1>2. l \in Active /\ m \in Active /\ Stream(l) = StreamAt(l) /\ Stream(m) = StreamAt(m)
  BY RunningIs
<1> QED
  BY <1>1, <1>2, OneServes

LEMMA ServedAt ==
  ASSUME conn \in Configs, NEW l \in Running, NEW f, Served(l, f)
  PROVE  f \in Feeds /\ f.market = MarketOf(l)
<1>1. l \in Active /\ Stream(l) = StreamAt(l)
  BY RunningIs
<1>2. f \in Feeds /\ Serves(StreamAt(l), f) # {}
  BY <1>1 DEF Served
<1>3. PICK sub : sub \in Serves(StreamAt(l), f)
  BY <1>2
<1> QED
  BY <1>1, <1>2, <1>3, ServesIs

\* On one stream, the kind and the symbol tell the feed.
LEMMA OneFeed ==
  ASSUME conn \in Configs, NEW l \in Running, NEW f, NEW g, Served(l, f), Served(l, g),
         f.kind = g.kind, StoreSymbol(f) = StoreSymbol(g)
  PROVE  f = g
<1>1. f \in Feeds /\ g \in Feeds /\ f.market = g.market
  BY ServedAt
<1>2. f.pair = g.pair
  BY <1>1, PairOf
<1> QED
  BY <1>1, <1>2, FeedsEqual

\* Nothing of the configuration changes.
LEMMA ConnKept ==
  ASSUME conn' = conn
  PROVE  /\ Running' = Running /\ Configured' = Configured
         /\ \A l, f : Served(l, f)' <=> Served(l, f)
         /\ \A f : StoreSymbol(f)' = StoreSymbol(f) /\ ProductOf(f)' = ProductOf(f)
         /\ \A l, frame : Parse(Stream(l), frame)' = Parse(Stream(l), frame)
         /\ \A f, items : MessagesOf(f, items)' = MessagesOf(f, items)
         /\ \A f, item : MessageOf(f, item)' = MessageOf(f, item)
<1>1. Running' = Running
  BY DEF Running
<1>2. \A l : Stream(l)' = Stream(l)
  BY DEF Stream
<1>3. \A l, f : Served(l, f)' <=> Served(l, f)
  BY <1>2 DEF Served
<1>4. \A f : StoreSymbol(f)' = StoreSymbol(f) /\ ProductOf(f)' = ProductOf(f)
  BY DEF StoreSymbol, ProductOf, Unmarked
<1>5. \A l, frame : Parse(Stream(l), frame)' = Parse(Stream(l), frame)
  BY <1>2
<1>6. \A f, item : MessageOf(f, item)' = MessageOf(f, item)
  BY <1>4 DEF MessageOf
<1>7. \A f, items : MessagesOf(f, items)' = MessagesOf(f, items)
  BY <1>6 DEF MessagesOf
<1>8. Configured' = Configured
  BY DEF Configured, Section, Effective, Sold
<1> QED
  BY <1>1, <1>3, <1>4, <1>5, <1>6, <1>7, <1>8

LEMMA InitFdInv == Init => FdInv
<1> SUFFICES ASSUME Init PROVE FdInv
  OBVIOUS
<1>1. IsSeq(<<>>) /\ DOMAIN <<>> = {}
  <2>1. <<>> \in Seq({})
    BY EmptySeq
  <2>2. DOMAIN <<>> = {}
    BY EmptySeq, LenProperties
  <2> QED
    BY <2>1, <2>2, SeqIs
<1>2. Shape
  BY <1>1, FeedBounds DEF Init, Shape
<1>3. Wires
  BY DEF Init, Wires
<1>4. Known
  BY DEF Init, Known
<1>5. Filed
  BY <1>1 DEF Init, Filed
<1>6. \A f \in Feeds : Places(f) = {}
  BY <1>1, FeedIs DEF Init, Places, Records
<1>7. Rising
  BY <1>6 DEF Rising
<1>8. Owed
  BY DEF Init, Owed, OnWires
<1>9. Faithful
  <2>1. \A f : Delivered(f) = {}
    BY DEF Init, Delivered
  <2>2. \A f \in Configured : f \in Feeds
    BY DEF Configured
  <2> QED
    BY <1>6, <2>1, <2>2 DEF Faithful
<1> QED
  BY <1>2, <1>3, <1>4, <1>5, <1>7, <1>8, <1>9 DEF FdInv

\* Of what is on its way, where it is.
LEMMA OnWiresIs ==
  ASSUME NEW d
  PROVE  d \in OnWires <=> \E l \in up : \E i \in DOMAIN wire[l] : \E a \in DOMAIN wire[l][i].items :
                             d = [feed |-> wire[l][i].feed, item |-> wire[l][i].items[a]]
BY DEF OnWires, Carried

\* What is on a wire is news of a feed that its stream serves.
LEMMA OnWiresServed ==
  ASSUME Wires, NEW l \in up, NEW i \in DOMAIN wire[l], NEW a \in DOMAIN wire[l][i].items
  PROVE  Served(l, wire[l][i].feed) /\ Batch(wire[l][i].feed, wire[l][i].items)
<1>1. Entry(l, wire[l][i])
  BY DEF Wires
<1>2. DOMAIN <<>> = {}
  BY EmptySeq, LenProperties
<1> QED
  BY <1>1, <1>2 DEF Entry

\* A step that leaves the stores and what they know as they were.
LEMMA FilesKept ==
  ASSUME FdInv, conn' = conn, store' = store,
         \A f \in Feeds : \A n \in Nat : Passed(f, n) => Passed(f, n)'
  PROVE  Filed' /\ Rising'
<1> USE DEF FdInv
<1>2. \A f : Places(f)' = Places(f) /\ Records(f)' = Records(f)
  BY ConnKept DEF Places, Records
<1>3. Filed'
  BY <1>2 DEF Filed
<1>4. Rising'
  <2>1. ASSUME NEW f \in Feeds, NEW k \in Places(f)
        PROVE  /\ Records(f)[k].product = ProductOf(f)
               /\ \A n : n = Records(f)[k].id => Passed(f, n)'
               /\ \A j \in Places(f) : j < k => Records(f)[j].id < Records(f)[k].id
    <3>1. Passed(f, Records(f)[k].id)
      BY DEF Rising
    <3>2. Records(f)[k].id \in Nat
      BY <3>1 DEF Passed, Shape
    <3>3. \A n : n = Records(f)[k].id => Passed(f, n)'
      BY <3>1, <3>2
    <3> QED
      BY <3>3 DEF Rising
  <2> QED
    BY <1>2, <2>1, ConnKept DEF Rising, Passed, Ahead
<1> QED
  BY <1>3, <1>4

\* What is known stays known, and passed.
LEMMA KnownKept ==
  ASSUME FdInv, conn' = conn, \A f \in Feeds : \A n \in Nat : Passed(f, n) => Passed(f, n)',
         NEW l \in Labels, NEW k \in seen[l]
  PROVE  l \in Running' /\ \E f \in Feeds : /\ Served(l, f)' /\ k.kind = f.kind
                                            /\ k.sym = StoreSymbol(f)' /\ Passed(f, k.id)'
<1> USE DEF FdInv
<1>1. PICK f \in Feeds : Served(l, f) /\ k.kind = f.kind /\ k.sym = StoreSymbol(f) /\ Passed(f, k.id)
  BY DEF Known
<1>2. l \in Running /\ k.id \in Nat
  BY <1>1 DEF Known, Passed, Shape
<1>3. Passed(f, k.id)'
  BY <1>1, <1>2
<1>4. Running' = Running /\ Served(l, f)' /\ StoreSymbol(f)' = StoreSymbol(f)
  BY <1>1, ConnKept
<1> QED
  BY <1>1, <1>2, <1>3, <1>4

LEMMA StoresKept ==
  ASSUME FdInv, conn' = conn, seen' = seen, store' = store,
         \A f \in Feeds : \A n \in Nat : Passed(f, n) => Passed(f, n)'
  PROVE  Known' /\ Filed' /\ Rising'
<1>1. Known'
  BY KnownKept DEF Known
<1> QED
  BY <1>1, FilesKept

-----------------------------------------------------------------------------
(* The steps, one by one.                                                  *)

\* What the stores owe is as before, once delivered.
LEMMA FaithKept ==
  ASSUME FdInv, conn' = conn, store' = store,
         \A f \in Configured : Delivered(f)' = Delivered(f)
  PROVE  Faithful'
<1>1. \A f : Places(f)' = Places(f) /\ Records(f)' = Records(f)
  BY ConnKept DEF Places, Records
<1>2. Configured' = Configured /\ \A f, item : MessageOf(f, item)' = MessageOf(f, item)
  BY ConnKept
<1> QED
  BY <1>1, <1>2 DEF FdInv, Faithful

\* A connection made: its wire has the answer to the subscription.
LEMMA ConnectKeeps ==
  ASSUME FdInv, NEW l \in Labels, Connect(l)
  PROVE  FdInv'
<1>1. conn' = conn /\ counts' = counts /\ seen' = seen /\ store' = store /\ due' = due
  BY DEF Connect
<1>2. conn \in Configs /\ l \in Running /\ l \notin up /\ up' = up \cup {l}
  BY DEF FdInv, Shape, Connect
<1> DEFINE e == [frame |-> IF SbeUrl(Stream(l)) THEN SbeControl ELSE Control, feed |-> <<>>, items |-> <<>>]
<1>3. wire' = [wire EXCEPT ![l] = <<e>>]
  BY DEF Connect
<1>4. e.feed = <<>> /\ e.items = <<>> /\ DOMAIN e.items = {}
  <2>1. DOMAIN <<>> = {}
    BY EmptySeq, LenProperties
  <2> QED
    BY <2>1
<1>5. Parse(Stream(l), e.frame) = <<>>
  BY <1>2, ControlParsed
<1> HIDE DEF e
<1>6. \A m \in Labels : wire'[m] = IF m = l THEN <<e>> ELSE wire[m]
  BY <1>3 DEF FdInv, Shape
<1>7. \A m \in up : m \in Labels /\ m # l /\ wire'[m] = wire[m]
  <2>1. Running \subseteq Labels
    BY <1>2, RunningIs DEF Active
  <2> QED
    BY <1>2, <1>6, <2>1 DEF FdInv, Shape
<1>8. wire'[l] = <<e>> /\ DOMAIN wire'[l] = {1} /\ wire'[l][1] = e
  BY <1>6
<1>9. Shape'
  <2>1. IsSeq(<<e>>)
    <3>1. <<e>> \in Seq({e})
      OBVIOUS
    <3> QED
      BY <3>1, SeqIs
  <2>2. up' \subseteq Running'
    BY <1>1, <1>2, ConnKept DEF FdInv, Shape
  <2>3. breaks' = breaks
    BY DEF Connect
  <2>4. wire' = [m \in Labels |-> wire'[m]]
    BY <1>3 DEF FdInv, Shape
  <2>5. \A m \in Labels : IsSeq(wire'[m]) /\ (m \notin up' => wire'[m] = <<>>)
    BY <1>2, <1>6, <2>1 DEF FdInv, Shape
  <2> QED
    BY <1>1, <2>2, <2>3, <2>4, <2>5 DEF FdInv, Shape
<1>10. \A f \in Feeds : \A n \in Nat : Passed(f, n) => Passed(f, n)'
  BY <1>1, <1>2, <1>4, <1>7, <1>8 DEF Passed, Ahead
<1>11. Wires'
  <2>1. \A m \in up : \A i \in DOMAIN wire[m] : Entry(m, wire[m][i]) => Entry(m, wire[m][i])'
    <3>1. \A f, items : Batch(f, items)' <=> Batch(f, items)
      BY <1>1 DEF Batch
    <3>2. /\ \A k, f : Served(k, f)' <=> Served(k, f)
          /\ \A k, frame : Parse(Stream(k), frame)' = Parse(Stream(k), frame)
          /\ \A f, items : MessagesOf(f, items)' = MessagesOf(f, items)
      BY <1>1, ConnKept
    <3> QED
      BY <1>7, <3>1, <3>2 DEF Entry
  <2>2. ASSUME NEW x, x = e PROVE Entry(l, x)'
    <3>1. x.feed = <<>> /\ x.items = <<>> /\ Parse(Stream(l), x.frame) = <<>>
      BY <1>4, <1>5, <2>2
    <3>2. Parse(Stream(l), x.frame)' = Parse(Stream(l), x.frame)
      BY <1>1, ConnKept
    <3> QED
      BY <3>1, <3>2 DEF Entry
  <2>3. Entry(l, wire[l][1])'
    BY <1>8, <2>2
  <2>4. \A m \in up' : m = l \/ m \in up
    BY <1>2
  <2>5. \A m \in up : \A i \in DOMAIN wire[m] : Entry(m, wire[m][i])
    BY DEF FdInv, Wires
  <2>6. \A m \in up' : \A i \in DOMAIN wire'[m] : Entry(m, wire[m][i])'
    BY <1>7, <1>8, <2>1, <2>3, <2>4, <2>5
  <2>7. \A m \in up' : \A i, j \in DOMAIN wire'[m] : i < j => m \in up
    BY <1>8, <2>4
  <2> QED
    BY <1>7, <2>6, <2>7 DEF FdInv, Wires
<1>12. OnWires' = OnWires
  <2>1. ASSUME NEW d
        PROVE  d \in OnWires' <=> d \in OnWires
    <3>1. d \in OnWires' <=> \E m \in up' : \E i \in DOMAIN wire'[m] : \E a \in DOMAIN wire'[m][i].items :
                               d = [feed |-> wire'[m][i].feed, item |-> wire'[m][i].items[a]]
      BY DEF OnWires, Carried
    <3> QED
      BY <1>2, <1>4, <1>7, <1>8, <3>1, OnWiresIs
  <2> QED
    BY <2>1
<1>13. Owed'
  BY <1>1, <1>12 DEF FdInv, Owed
<1>14. Faithful'
  <2>1. \A f \in Configured : Delivered(f)' = Delivered(f)
    BY <1>1, <1>12 DEF Delivered
  <2> QED
    BY <1>1, <2>1, FaithKept
<1> QED
  BY <1>1, <1>9, <1>10, <1>11, <1>13, <1>14, StoresKept DEF FdInv

\* A connection lost: what was on its wire is no longer due.
LEMMA BreakKeeps ==
  ASSUME FdInv, NEW l \in Labels, Break(l)
  PROVE  FdInv'
<1>1. conn' = conn /\ counts' = counts /\ seen' = seen /\ store' = store
  BY DEF Break
<1>2. conn \in Configs /\ l \in up /\ up' = up \ {l} /\ up \subseteq Running /\ breaks' \in 0 .. MaxBreaks
  BY FeedBounds DEF FdInv, Shape, Break
<1>3. wire' = [wire EXCEPT ![l] = <<>>]
  BY DEF Break
<1> DEFINE lost == UNION {Carried(wire[l][i]) : i \in DOMAIN wire[l]}
<1>4. due' = due \ lost
  BY DEF Break
<1>5. \A m \in Labels : wire'[m] = IF m = l THEN <<>> ELSE wire[m]
  BY <1>3 DEF FdInv, Shape
<1>6. \A m \in up : m \in Labels
  BY <1>2, RunningIs DEF Active
<1>7. \A m \in up' : m \in up /\ m # l /\ m \in Labels /\ wire'[m] = wire[m]
  BY <1>2, <1>5, <1>6
<1>8. Shape'
  <2>1. IsSeq(<<>>)
    <3>1. <<>> \in Seq({})
      BY EmptySeq
    <3> QED
      BY <3>1, SeqIs
  <2>2. up' \subseteq Running'
    BY <1>1, <1>2, ConnKept
  <2>3. wire' = [m \in Labels |-> wire'[m]]
    BY <1>3 DEF FdInv, Shape
  <2>4. \A m \in Labels : IsSeq(wire'[m]) /\ (m \notin up' => wire'[m] = <<>>)
    BY <1>2, <1>5, <2>1 DEF FdInv, Shape
  <2> QED
    BY <1>1, <1>2, <2>2, <2>3, <2>4 DEF FdInv, Shape
<1>9. \A f \in Feeds : \A n \in Nat : Passed(f, n) => Passed(f, n)'
  BY <1>1, <1>7 DEF Passed, Ahead
<1>10. Wires'
  <2>1. \A m \in up' : \A i \in DOMAIN wire[m] : Entry(m, wire[m][i]) => Entry(m, wire[m][i])'
    <3>1. \A f, items : Batch(f, items)' <=> Batch(f, items)
      BY <1>1 DEF Batch
    <3>2. /\ \A k, f : Served(k, f)' <=> Served(k, f)
          /\ \A k, frame : Parse(Stream(k), frame)' = Parse(Stream(k), frame)
          /\ \A f, items : MessagesOf(f, items)' = MessagesOf(f, items)
      BY <1>1, ConnKept
    <3> QED
      BY <1>7, <3>1, <3>2 DEF Entry
  <2> QED
    BY <1>7, <2>1 DEF FdInv, Wires
<1>11. ASSUME NEW d
       PROVE  /\ d \in lost <=> \E i \in DOMAIN wire[l] : \E a \in DOMAIN wire[l][i].items :
                                   d = [feed |-> wire[l][i].feed, item |-> wire[l][i].items[a]]
              /\ d \in OnWires' <=> \E m \in up : m # l /\ \E i \in DOMAIN wire[m] : \E a \in DOMAIN wire[m][i].items :
                                   d = [feed |-> wire[m][i].feed, item |-> wire[m][i].items[a]]
  <2>1. d \in OnWires' <=> \E m \in up' : \E i \in DOMAIN wire'[m] : \E a \in DOMAIN wire'[m][i].items :
                              d = [feed |-> wire'[m][i].feed, item |-> wire'[m][i].items[a]]
    BY DEF OnWires, Carried
  <2> QED
    BY <1>2, <1>7, <2>1 DEF Carried
<1> HIDE DEF lost
<1>12. OnWires = OnWires' \cup lost
  BY <1>2, <1>11, OnWiresIs
<1>13. OnWires' \cap lost = {}
  <2> SUFFICES ASSUME NEW d \in OnWires', d \in lost PROVE FALSE
    OBVIOUS
  <2>1. Wires
    BY DEF FdInv
  <2>2. PICK m \in up : m # l /\ \E i \in DOMAIN wire[m] : \E a \in DOMAIN wire[m][i].items :
                                   d = [feed |-> wire[m][i].feed, item |-> wire[m][i].items[a]]
    BY <1>11
  <2>3. Served(m, d.feed)
    BY <2>1, <2>2, OnWiresServed
  <2>4. Served(l, d.feed)
    BY <1>2, <1>11, <2>1, OnWiresServed
  <2> QED
    BY <1>2, <2>2, <2>3, <2>4, OneLabel
<1>14. Owed'
  BY <1>1, <1>4, <1>12, <1>13 DEF FdInv, Owed
<1>15. Faithful'
  <2>1. due' \ OnWires' = due \ OnWires
    BY <1>4, <1>12
  <2>2. \A f \in Configured : Delivered(f)' = Delivered(f)
    BY <2>1 DEF Delivered
  <2> QED
    BY <1>1, <2>2, FaithKept
<1> QED
  BY <1>1, <1>8, <1>9, <1>10, <1>14, <1>15, StoresKept DEF FdInv

To(feed) == {l \in up : Serves(Stream(l), feed) # {}}

New(feed, items) == {[feed |-> feed, item |-> items[i]] : i \in DOMAIN items}

\* News of a feed, as it is put on the wires.
Told(feed, items, entry) ==
  /\ IsSeq(items) /\ items # <<>> /\ (feed.kind = "bbo" => Len(items) = 1)
  /\ \A i \in DOMAIN items : items[i].id = counts[feed] + i
  /\ counts' = [counts EXCEPT ![feed] = @ + Len(items)]
  /\ wire' = [m \in Labels |-> IF m \in To(feed) THEN Append(wire[m], entry[m]) ELSE wire[m]]
  /\ \A m \in To(feed) : /\ entry[m].feed = feed /\ entry[m].items = items
                         /\ Parse(Stream(m), entry[m].frame) = MessagesOf(feed, items)
  /\ due' = IF To(feed) # {} \/ up = Running THEN due \cup New(feed, items) ELSE due
  /\ conn' = conn /\ up' = up /\ seen' = seen /\ store' = store /\ breaks' = breaks

\* What Publish does, without its choices.
LEMMA PublishTells ==
  ASSUME Shape, NEW feed \in Feeds, Publish(feed)
  PROVE  \E items, entry : Told(feed, items, entry)
<1>1. PICK size \in BatchSizes(feed), sides \in SideSets(feed), depth \in DepthsOf(feed), extra \in Extras :
        LET items == [i \in 1 .. size |-> Item(feed, counts[feed] + i, sides, depth)]
            to == {l \in up : Serves(Stream(l), feed) # {}}
        IN  /\ counts' = [counts EXCEPT ![feed] = @ + size]
            /\ wire' = [l \in Labels |->
                 IF l \notin to THEN wire[l]
                 ELSE Append(wire[l], [frame |-> FrameFor(Stream(l), feed, items, extra),
                                       feed |-> feed, items |-> items])]
            /\ due' = IF to # {} \/ up = Running
                      THEN due \cup {[feed |-> feed, item |-> items[i]] : i \in 1 .. size}
                      ELSE due
  BY ZenonT(60) DEF Publish
<1> DEFINE items == Fresh(feed, counts[feed], size, sides, depth)
           entry == [m \in To(feed) |-> [frame |-> FrameFor(Stream(m), feed, items, extra),
                                         feed |-> feed, items |-> items]]
<1>2. counts[feed] \in Nat
  BY DEF Shape
<1>3. size \in Nat /\ size >= 1 /\ (feed.kind = "bbo" => size = 1)
  BY Batches
<1>4. /\ IsSeq(items) /\ Len(items) = size /\ DOMAIN items = 1 .. size
      /\ \A i \in 1 .. size : items[i].id = counts[feed] + i
  BY <1>2, <1>3, FreshIs
<1>5. \A m \in To(feed) : Parse(Stream(m), FrameFor(Stream(m), feed, items, extra)) = MessagesOf(feed, items)
  <2> SUFFICES ASSUME NEW m \in To(feed)
               PROVE  Parse(Stream(m), FrameFor(Stream(m), feed, items, extra)) = MessagesOf(feed, items)
    OBVIOUS
  <2>1. m \in Running /\ Serves(Stream(m), feed) # {} /\ conn \in Configs
    BY DEF To, Shape
  <2>2. extra \in Nat
    BY FeedBounds
  <2>3. Sold(feed)
    BY DEF Publish, Wanted
  <2> QED
    BY <1>2, <2>1, <2>2, <2>3, Parsed
<1>6. /\ counts' = [counts EXCEPT ![feed] = @ + size]
      /\ wire' = [l \in Labels |->
                 IF l \notin To(feed) THEN wire[l]
                 ELSE Append(wire[l], [frame |-> FrameFor(Stream(l), feed, items, extra),
                                       feed |-> feed, items |-> items])]
      /\ due' = IF To(feed) # {} \/ up = Running
                THEN due \cup {[feed |-> feed, item |-> items[i]] : i \in 1 .. size}
                ELSE due
  BY <1>1 DEF To, Fresh
<1> HIDE DEF items
<1>7. items # <<>>
  BY <1>3, <1>4, EmptySeq
<1>8. wire' = [m \in Labels |-> IF m \in To(feed) THEN Append(wire[m], entry[m]) ELSE wire[m]]
  BY <1>6
<1>9. due' = IF To(feed) # {} \/ up = Running THEN due \cup New(feed, items) ELSE due
  BY <1>4, <1>6 DEF New
<1>10. conn' = conn /\ up' = up /\ seen' = seen /\ store' = store /\ breaks' = breaks
  BY DEF Publish
<1>11. \A m \in To(feed) : /\ entry[m].feed = feed /\ entry[m].items = items
                           /\ Parse(Stream(m), entry[m].frame) = MessagesOf(feed, items)
  BY <1>5
<1> HIDE DEF entry
<1>12. Told(feed, items, entry)
  BY <1>3, <1>4, <1>6, <1>7, <1>8, <1>9, <1>10, <1>11 DEF Told
<1> QED
  BY <1>12

\* News published: a frame at the end of the wires that serve the feed.
LEMMA PublishKeeps ==
  ASSUME FdInv, NEW feed \in Feeds, Publish(feed)
  PROVE  FdInv'
<1> USE DEF FdInv
<1>1. PICK items, entry : Told(feed, items, entry)
  BY PublishTells
<1> DEFINE n == Len(items)
<1>2. n \in Nat /\ n # 0 /\ DOMAIN items = 1 .. n
  BY <1>1, SeqFacts DEF Told
<1>3. conn \in Configs /\ up \subseteq Running /\ Running \subseteq Labels /\ counts \in [Feeds -> Nat]
  <2>1. conn \in Configs /\ up \subseteq Running /\ counts \in [Feeds -> Nat]
    BY DEF Shape
  <2> QED
    BY <2>1, RunningIs DEF Active
<1>4. /\ conn' = conn /\ up' = up /\ seen' = seen /\ store' = store /\ breaks' = breaks
      /\ counts' \in [Feeds -> Nat] /\ counts'[feed] = counts[feed] + n
      /\ \A f \in Feeds : f # feed => counts'[f] = counts[f]
  BY <1>1, <1>2, <1>3 DEF Told
<1>5. \A i \in 1 .. n : items[i].id = counts[feed] + i /\ items[i].id \in 1 .. counts'[feed]
  BY <1>1, <1>2, <1>3, <1>4 DEF Told
<1>6. To(feed) \subseteq up
  BY DEF To
<1>7. \A m \in Labels : wire'[m] = IF m \in To(feed) THEN Append(wire[m], entry[m]) ELSE wire[m]
  BY <1>1 DEF Told
<1>8. \A m \in Labels : IsSeq(wire[m]) /\ Len(wire[m]) \in Nat /\ DOMAIN wire[m] = 1 .. Len(wire[m])
  BY SeqFacts DEF Shape
<1>9. \A m \in To(feed) : /\ entry[m].feed = feed /\ entry[m].items = items
                          /\ Parse(Stream(m), entry[m].frame) = MessagesOf(feed, items)
  BY <1>1 DEF Told
<1> HIDE DEF n
<1>10. \A m \in Labels : /\ IsSeq(wire'[m]) /\ \A i \in 1 .. Len(wire[m]) : wire'[m][i] = wire[m][i]
                         /\ DOMAIN wire'[m] = IF m \in To(feed) THEN 1 .. Len(wire[m]) + 1 ELSE 1 .. Len(wire[m])
                         /\ m \in To(feed) => wire'[m][Len(wire[m]) + 1] = entry[m]
  <2> SUFFICES ASSUME NEW m \in Labels
               PROVE  /\ IsSeq(wire'[m]) /\ \A i \in 1 .. Len(wire[m]) : wire'[m][i] = wire[m][i]
                      /\ DOMAIN wire'[m] = IF m \in To(feed) THEN 1 .. Len(wire[m]) + 1 ELSE 1 .. Len(wire[m])
                      /\ m \in To(feed) => wire'[m][Len(wire[m]) + 1] = entry[m]
    OBVIOUS
  <2>1. IsSeq(wire[m]) /\ Len(wire[m]) \in Nat /\ DOMAIN wire[m] = 1 .. Len(wire[m])
    BY <1>8
  <2>2. CASE m \in To(feed)
    <3> DEFINE w == Append(wire[m], entry[m])
    <3>1. /\ IsSeq(w) /\ Len(w) = Len(wire[m]) + 1
          /\ \A i \in 1 .. Len(wire[m]) : w[i] = wire[m][i]
          /\ w[Len(wire[m]) + 1] = entry[m]
      BY <2>1, SeqFacts
    <3>2. wire'[m] = w
      BY <1>7, <2>2
    <3> HIDE DEF w
    <3>3. DOMAIN w = 1 .. Len(w)
      BY <3>1, SeqFacts
    <3> QED
      BY <2>2, <3>1, <3>2, <3>3
  <2>3. CASE m \notin To(feed)
    BY <1>7, <2>1, <2>3
  <2> QED
    BY <2>2, <2>3
<1>11. Shape'
  <2>1. wire' = [m \in Labels |-> wire'[m]]
    BY <1>1 DEF Told
  <2>2. \A m \in Labels : IsSeq(wire'[m]) /\ (m \notin up' => wire'[m] = <<>>)
    BY <1>4, <1>6, <1>7, <1>10 DEF Shape
  <2>3. Running' = Running
    BY <1>4, ConnKept
  <2> QED
    BY <1>3, <1>4, <2>1, <2>2, <2>3 DEF Shape
<1>12. \A f \in Feeds : \A k \in Nat : Passed(f, k) => Passed(f, k)'
  <2> SUFFICES ASSUME NEW f \in Feeds, NEW k \in Nat, Passed(f, k)
               PROVE  Passed(f, k)'
    OBVIOUS
  <2>1. k \in 1 .. counts[f] /\ k \in 1 .. counts'[f]
    BY <1>2, <1>3, <1>4 DEF Passed
  <2>2. ASSUME NEW m \in up, NEW i \in DOMAIN wire'[m], wire'[m][i].feed = f,
               NEW a \in DOMAIN wire'[m][i].items
        PROVE  k < wire'[m][i].items[a].id
    <3>1. CASE i \in 1 .. Len(wire[m])
      BY <1>3, <1>8, <1>10, <2>2, <3>1 DEF Passed, Ahead
    <3>2. CASE i \notin 1 .. Len(wire[m])
      <4>1. m \in To(feed) /\ wire'[m][i] = entry[m]
        BY <1>3, <1>8, <1>10, <3>2
      <4>2. f = feed /\ wire'[m][i].items = items
        BY <1>9, <2>2, <4>1
      <4> QED
        BY <1>2, <1>3, <1>5, <2>1, <4>2
    <3> QED
      BY <3>1, <3>2
  <2> QED
    BY <1>4, <2>1, <2>2 DEF Passed, Ahead
<1>13. \A m \in up : \A i \in DOMAIN wire'[m] : Entry(m, wire[m][i])'
  <2> SUFFICES ASSUME NEW m \in up, NEW i \in DOMAIN wire'[m], NEW x, x = wire'[m][i]
               PROVE  Entry(m, x)'
    OBVIOUS
  <2>1. /\ \A k, f : Served(k, f)' <=> Served(k, f)
        /\ \A k, frame : Parse(Stream(k), frame)' = Parse(Stream(k), frame)
        /\ \A f, its : MessagesOf(f, its)' = MessagesOf(f, its)
    BY <1>4, ConnKept
  <2>2. CASE i \in 1 .. Len(wire[m])
    <3>1. x = wire[m][i] /\ i \in DOMAIN wire[m]
      BY <1>3, <1>8, <1>10, <2>2
    <3>2. Entry(m, x)
      BY <3>1 DEF Wires
    <3>3. \A f \in Feeds : \A its : Batch(f, its) => Batch(f, its)'
      BY <1>2, <1>3, <1>4 DEF Batch
    <3> QED
      BY <2>1, <3>2, <3>3 DEF Entry, Served
  <2>3. CASE i \notin 1 .. Len(wire[m])
    <3>1. m \in To(feed) /\ x = entry[m]
      BY <1>3, <1>8, <1>10, <2>3
    <3>2. x.feed = feed /\ x.items = items /\ Parse(Stream(m), x.frame) = MessagesOf(feed, items)
      BY <1>9, <3>1
    <3>3. Served(m, feed)
      BY <3>1 DEF To, Served
    <3>4. Batch(feed, items)'
      <4>1. IsSeq(items) /\ items # <<>> /\ (feed.kind = "bbo" => Len(items) = 1)
        BY <1>1 DEF Told
      <4>2. \A j, k \in DOMAIN items : j < k => items[j].id < items[k].id
        BY <1>2, <1>3, <1>5
      <4> QED
        BY <1>2, <1>5, <4>1, <4>2 DEF Batch
    <3> QED
      BY <2>1, <3>2, <3>3, <3>4 DEF Entry
  <2> QED
    BY <2>2, <2>3
<1>14. Wires'
  <2>1. ASSUME NEW m \in up, NEW i \in DOMAIN wire'[m], NEW j \in DOMAIN wire'[m], i < j,
               wire'[m][i].feed = wire'[m][j].feed,
               NEW a \in DOMAIN wire'[m][i].items, NEW b \in DOMAIN wire'[m][j].items
        PROVE  wire'[m][i].items[a].id < wire'[m][j].items[b].id
    <3>1. i \in DOMAIN wire[m] /\ wire'[m][i] = wire[m][i]
      BY <1>3, <1>8, <1>10, <2>1
    <3>2. CASE j \in 1 .. Len(wire[m])
      <4>1. j \in DOMAIN wire[m] /\ wire'[m][j] = wire[m][j]
        BY <1>3, <1>8, <1>10, <3>2
      <4> QED
        BY <2>1, <3>1, <4>1 DEF Wires
    <3>3. CASE j \notin 1 .. Len(wire[m])
      <4>1. m \in To(feed) /\ wire'[m][j] = entry[m]
        BY <1>3, <1>8, <1>10, <3>3
      <4>2. wire[m][i].feed = feed /\ wire'[m][j].items = items
        BY <1>9, <2>1, <3>1, <4>1
      <4>3. Batch(feed, wire[m][i].items)
        <5>1. Batch(wire[m][i].feed, wire[m][i].items)
          BY <3>1, <2>1, OnWiresServed
        <5> QED
          BY <4>2, <5>1
      <4>4. wire[m][i].items[a].id \in 1 .. counts[feed]
        BY <2>1, <3>1, <4>3 DEF Batch
      <4> QED
        BY <1>2, <1>3, <1>5, <2>1, <3>1, <4>2, <4>4
    <3> QED
      BY <3>2, <3>3
  <2> QED
    BY <1>4, <1>13, <2>1 DEF Wires
<1>15. OnWires' = IF To(feed) # {} THEN OnWires \cup New(feed, items) ELSE OnWires
  <2>1. ASSUME NEW d
        PROVE  d \in OnWires' <=> d \in OnWires \/ (To(feed) # {} /\ d \in New(feed, items))
    <3>1. d \in OnWires' <=> \E m \in up : \E i \in DOMAIN wire'[m] : \E a \in DOMAIN wire'[m][i].items :
                               d = [feed |-> wire'[m][i].feed, item |-> wire'[m][i].items[a]]
      BY <1>4 DEF OnWires, Carried
    <3>2. ASSUME NEW m \in up, NEW i \in DOMAIN wire'[m], NEW a \in DOMAIN wire'[m][i].items,
                 d = [feed |-> wire'[m][i].feed, item |-> wire'[m][i].items[a]]
          PROVE  d \in OnWires \/ (To(feed) # {} /\ d \in New(feed, items))
      <4>1. CASE i \in 1 .. Len(wire[m])
        <5>1. i \in DOMAIN wire[m] /\ wire'[m][i] = wire[m][i]
          BY <1>3, <1>8, <1>10, <4>1
        <5> QED
          BY <3>2, <5>1, OnWiresIs
      <4>2. CASE i \notin 1 .. Len(wire[m])
        <5>1. m \in To(feed) /\ wire'[m][i] = entry[m]
          BY <1>3, <1>8, <1>10, <4>2
        <5> QED
          BY <1>9, <3>2, <5>1 DEF New
      <4> QED
        BY <4>1, <4>2
    <3>3. ASSUME d \in OnWires
          PROVE  \E m \in up : \E i \in DOMAIN wire'[m] : \E a \in DOMAIN wire'[m][i].items :
                   d = [feed |-> wire'[m][i].feed, item |-> wire'[m][i].items[a]]
      <4>1. PICK m \in up : \E i \in DOMAIN wire[m] : \E a \in DOMAIN wire[m][i].items :
                   d = [feed |-> wire[m][i].feed, item |-> wire[m][i].items[a]]
        BY <3>3, OnWiresIs
      <4>2. \A i \in DOMAIN wire[m] : i \in DOMAIN wire'[m] /\ wire'[m][i] = wire[m][i]
        BY <1>3, <1>8, <1>10
      <4> QED
        BY <4>1, <4>2
    <3>4. ASSUME NEW m \in To(feed), d \in New(feed, items)
          PROVE  \E i \in DOMAIN wire'[m] : \E a \in DOMAIN wire'[m][i].items :
                   d = [feed |-> wire'[m][i].feed, item |-> wire'[m][i].items[a]]
      <4>1. m \in Labels /\ Len(wire[m]) + 1 \in DOMAIN wire'[m] /\ wire'[m][Len(wire[m]) + 1] = entry[m]
        BY <1>3, <1>6, <1>8, <1>10
      <4> QED
        BY <1>9, <3>4, <4>1 DEF New
    <3> QED
      BY <1>6, <3>1, <3>2, <3>3, <3>4
  <2> QED
    BY <2>1
<1>16. \A d \in New(feed, items) : d.feed = feed /\ d.item.id \in 1 .. counts'[feed] /\ d.item.id > counts[feed]
  BY <1>2, <1>3, <1>5 DEF New
<1>17. New(feed, items) \cap due = {}
  BY <1>3, <1>16 DEF Owed
<1>18. due' = IF To(feed) # {} \/ up = Running THEN due \cup New(feed, items) ELSE due
  BY <1>1 DEF Told
<1>19. Owed'
  <2>1. OnWires' \subseteq due'
    BY <1>15, <1>18 DEF Owed
  <2>2. \A d \in due' : d \in due \/ d \in New(feed, items)
    BY <1>18
  <2>3. \A d \in due : d.feed \in Feeds /\ d.item.id \in 1 .. counts[d.feed]
    BY DEF Owed
  <2>4. \A d \in due' : d.feed \in Feeds /\ d.item.id \in 1 .. counts'[d.feed]
    BY <1>2, <1>3, <1>4, <1>16, <2>2, <2>3
  <2>5. \A d, e \in New(feed, items) : d.item.id = e.item.id => d = e
    BY <1>2, <1>3, <1>5 DEF New
  <2>6. \A d, e \in due : d.feed = e.feed /\ d.item.id = e.item.id => d = e
    BY DEF Owed
  <2>7. ASSUME NEW d \in due', NEW e \in due', d.feed = e.feed, d.item.id = e.item.id
        PROVE  d = e
    BY <1>3, <1>16, <2>2, <2>3, <2>5, <2>6, <2>7
  <2> QED
    BY <2>1, <2>4, <2>7 DEF Owed
<1>20. Faithful'
  <2> SUFFICES ASSUME NEW f \in Configured PROVE Delivered(f)' = Delivered(f)
    BY <1>4, FaithKept
  <2>1. CASE To(feed) # {} \/ up # Running
    <3>1. due' \ OnWires' = due \ OnWires
      BY <1>15, <1>17, <1>18, <2>1
    <3> QED
      BY <3>1 DEF Delivered
  <2>2. CASE To(feed) = {} /\ up = Running
    <3>1. f # feed
      <4> SUFFICES ASSUME f = feed PROVE FALSE
        OBVIOUS
      <4>1. LabelFor(f) \in Active /\ Serves(StreamAt(LabelFor(f)), f) # {}
        BY <1>3, ConfiguredServed
      <4>2. LabelFor(f) \in Running /\ Stream(LabelFor(f)) = StreamAt(LabelFor(f))
        BY <1>3, <4>1, RunningIs
      <4> QED
        BY <2>2, <4>1, <4>2 DEF To
    <3>2. due' = due \cup New(feed, items) /\ OnWires' = OnWires
      BY <1>15, <1>18, <2>2
    <3>3. {e \in due' \ OnWires' : e.feed = f} = {e \in due \ OnWires : e.feed = f}
      BY <1>16, <3>1, <3>2
    <3> QED
      BY <3>3 DEF Delivered
  <2> QED
    BY <2>1, <2>2
<1> QED
  BY <1>4, <1>11, <1>12, <1>14, <1>19, <1>20, StoresKept

\* The store of its kind is one of the stream's, and has the feed's symbol.
Kept(l, feed) == <<feed.market, feed.kind>> \in Stream(l).names /\ StoreSymbol(feed) \in Stream(l).symbols

\* A message goes into the store of its feed, if the stream keeps it, and no other.
LEMMA IntoIs ==
  ASSUME conn \in Configs, NEW l \in Running, NEW feed, Served(l, feed), NEW n \in StoreNames
  PROVE  Into(Stream(l), feed.kind, StoreSymbol(feed), n) <=> Kept(l, feed) /\ n = <<feed.market, feed.kind>>
<1>1. l \in Active /\ Stream(l) = StreamAt(l)
  BY RunningIs
<1>2. feed.market = MarketOf(l)
  BY ServedAt
<1>3. n = <<n[1], n[2]>>
  BY DEF StoreNames
<1>4. n \in Stream(l).names => n[1] = feed.market
  BY <1>1, <1>2, NamesAre
<1> QED
  BY <1>3, <1>4 DEF Into, Kept

LEMMA MessageIs ==
  ASSUME NEW feed, NEW item
  PROVE  LET m == MessageOf(feed, item)
         IN  m.kind = feed.kind /\ m.sym = StoreSymbol(feed) /\ m.product = ProductOf(feed)
             /\ m.id = item.id /\ m.body = Expected(feed, item)
BY DEF MessageOf, Msg

Messages(e) == [i \in DOMAIN e.items |-> MessageOf(e.feed, e.items[i])]

\* A frame taken from a wire: not market data, or a quote with one side, or
\* all its messages are new.
Taken(l, e) ==
  /\ conn' = conn /\ up' = up /\ counts' = counts /\ breaks' = breaks /\ due' = due
  /\ wire' = [wire EXCEPT ![l] = Tail(@)]
  /\ \/ /\ seen' = seen /\ store' = store
        /\ e.items # <<>> => Served(l, e.feed) /\ Batch(e.feed, e.items) /\ ~ Whole(e.feed, e.items[1])
     \/ /\ Served(l, e.feed) /\ Batch(e.feed, e.items) /\ Whole(e.feed, e.items[1])
        /\ seen' = [seen EXCEPT ![l] = @ \cup {Heard(Messages(e)[i]) : i \in DOMAIN e.items}]
        /\ store' = [n \in StoreNames |->
                       IF Kept(l, e.feed) /\ n = <<e.feed.market, e.feed.kind>>
                       THEN store[n] \o Messages(e) ELSE store[n]]

LEMMA HandledNone ==
  ASSUME NEW stream, NEW base
  PROVE  HandleAll(stream, base, <<>>) = base
<1> DEFINE acc == [k \in {0} |-> base]
<1>1. DOMAIN <<>> = 1 .. 0
  BY EmptySeq, LenProperties
<1>2. acc[0] = base /\ \A k \in 1 .. 0 : acc[k] = Handle(stream, acc[k - 1], <<>>[k])
  OBVIOUS
<1> HIDE DEF acc
<1>3. HandleAll(stream, base, <<>>) = acc[0]
  BY <1>1, <1>2, FoldIs
<1> QED
  BY <1>2, <1>3

\* A frame delivered is new as a whole, or says nothing.
LEMMA DeliverTakes ==
  ASSUME FdInv, NEW l \in Labels, Deliver(l)
  PROVE  l \in up /\ wire[l] # <<>> /\ Taken(l, wire[l][1])
<1> USE DEF FdInv
<1> DEFINE e == wire[l][1]
           base == [seen |-> seen[l], store |-> store]
           after == HandleAll(Stream(l), base, Parse(Stream(l), e.frame))
<1>1. /\ l \in up /\ l \in Running /\ conn \in Configs /\ wire[l] # <<>>
      /\ IsSeq(wire[l])
  BY DEF Deliver, Shape
<1>2. 1 \in DOMAIN wire[l] /\ Head(wire[l]) = wire[l][1]
  BY <1>1, SeqFacts
<1>3. /\ conn' = conn /\ up' = up /\ counts' = counts /\ breaks' = breaks /\ due' = due
      /\ wire' = [wire EXCEPT ![l] = Tail(@)]
  BY DEF Deliver
<1>4. seen' = [seen EXCEPT ![l] = after.seen] /\ store' = after.store
  BY <1>2 DEF Deliver
<1>5. Entry(l, e)
  BY <1>1, <1>2 DEF Wires
<1>6. seen = [seen EXCEPT ![l] = seen[l]]
  BY DEF Shape
<1>8. ASSUME Parse(Stream(l), e.frame) = <<>>
      PROVE  seen' = seen /\ store' = store
  <2>1. after = base
    BY <1>8, HandledNone
  <2> HIDE DEF after
  <2> QED
    BY <1>4, <1>6, <2>1
<1> HIDE DEF after
<1>9. CASE e.feed = <<>> /\ e.items = <<>> /\ Parse(Stream(l), e.frame) = <<>>
  <2> HIDE DEF e
  <2> QED
    BY <1>1, <1>3, <1>8, <1>9 DEF Taken, e
<1>10. CASE /\ Served(l, e.feed) /\ Batch(e.feed, e.items)
            /\ Parse(Stream(l), e.frame) = MessagesOf(e.feed, e.items)
  <2>1. CASE ~ Whole(e.feed, e.items[1])
    <3>1. Parse(Stream(l), e.frame) = <<>>
      BY <1>10, <2>1 DEF MessagesOf
    <3> QED
      BY <1>1, <1>3, <1>8, <1>10, <2>1, <3>1 DEF Taken
  <2>2. CASE Whole(e.feed, e.items[1])
    <3> DEFINE N == Len(e.items)
               m == Messages(e)
               kind == e.feed.kind
               sym == StoreSymbol(e.feed)
    <3>1. IsSeq(e.items) /\ N \in Nat /\ DOMAIN e.items = 1 .. N
      BY <1>10, SeqFacts DEF Batch
    <3>2. Parse(Stream(l), e.frame) = m
      BY <1>10, <2>2 DEF MessagesOf, Messages
    <3>3. m = [i \in 1 .. N |-> m[i]] /\ \A i \in 1 .. N : m[i] = MessageOf(e.feed, e.items[i])
      BY <3>1 DEF Messages
    <3>4. \A i \in 1 .. N : m[i].kind = kind /\ m[i].sym = sym /\ m[i].id = e.items[i].id
      <4> SUFFICES ASSUME NEW i \in 1 .. N
                   PROVE  m[i].kind = kind /\ m[i].sym = sym /\ m[i].id = e.items[i].id
        OBVIOUS
      <4> DEFINE f == e.feed
                 it == e.items[i]
      <4>1. m[i] = MessageOf(f, it)
        BY <3>3
      <4> HIDE DEF f, it, m
      <4>2. m[i].kind = f.kind /\ m[i].sym = StoreSymbol(f) /\ m[i].id = it.id
        BY ONLY <4>1, MessageIs
      <4> QED
        BY <4>2 DEF f, it
    <3>5. e.feed \in Feeds
      BY <1>10 DEF Served
    <3>6. \A i \in 1 .. N : e.items[i].id \in Nat
      BY <1>10, <3>1, <3>5 DEF Batch, Shape
    <3>7. \A i, j \in 1 .. N : i < j => e.items[i].id < e.items[j].id
      BY <1>10, <3>1 DEF Batch
    <3>8. \A k \in seen[l] : k.kind = kind /\ k.sym = sym =>
            k.id \in Nat /\ \A i \in 1 .. N : k.id < e.items[i].id
      <4> SUFFICES ASSUME NEW k \in seen[l], k.kind = kind, k.sym = sym
                   PROVE  k.id \in Nat /\ \A i \in 1 .. N : k.id < e.items[i].id
        OBVIOUS
      <4>1. PICK f \in Feeds : /\ Served(l, f) /\ k.kind = f.kind
                               /\ k.sym = StoreSymbol(f) /\ Passed(f, k.id)
        BY DEF Known
      <4>2. f = e.feed
        BY <1>1, <1>10, <4>1, OneFeed
      <4>3. k.id \in Nat
        BY <4>1 DEF Passed, Shape
      <4>4. Ahead(e.feed, k.id)
        BY <4>1, <4>2 DEF Passed
      <4> QED
        BY <1>1, <1>2, <3>1, <4>3, <4>4 DEF Ahead
    <3>9. store = [n \in StoreNames |-> store[n]] /\ \A n \in StoreNames : IsSeq(store[n])
      BY DEF Shape
    <3> DEFINE S == {m[i] : i \in 1 .. N}
    <3>10. m \in [1 .. N -> S]
      BY <3>3
    <3>11. \A i \in 1 .. N : m[i].kind = kind /\ m[i].sym = sym /\ m[i].id \in Nat
      BY <3>4, <3>6
    <3>12. \A i, j \in 1 .. N : i < j => m[i].id < m[j].id
      BY <3>4, <3>7
    <3>13. \A k \in seen[l] : k.kind = kind /\ k.sym = sym =>
             k.id \in Nat /\ \A i \in 1 .. N : k.id < m[i].id
      BY <3>4, <3>8
    <3> HIDE DEF m, N, kind, sym, S
    <3>21. N \in Nat /\ Stores(store)
      BY <3>1, <3>9 DEF Stores
    <3>22. Unheard(seen[l], kind, sym, m, N)
      BY <3>11, <3>12, <3>13 DEF Unheard
    <3>23. HandleAll(Stream(l), base, m) = Handed(Stream(l), seen[l], store, kind, sym, m, N)
      BY ONLY <3>10, <3>21, <3>22, Handled
    <3>14. HandleAll(Stream(l), base, m)
             = [seen  |-> seen[l] \cup {Heard(m[j]) : j \in 1 .. N},
                store |-> [n \in StoreNames |->
                             IF Into(Stream(l), kind, sym, n) THEN store[n] \o m ELSE store[n]]]
      BY <3>23 DEF Handed
    <3>15. \A n \in StoreNames : Into(Stream(l), kind, sym, n)
                                   <=> Kept(l, e.feed) /\ n = <<e.feed.market, e.feed.kind>>
      BY <1>1, <1>10, IntoIs DEF kind, sym
    <3>16. after = HandleAll(Stream(l), base, m)
      BY <3>2 DEF after
    <3> HIDE DEF base
    <3>17. after.seen = seen[l] \cup {Heard(m[j]) : j \in 1 .. N}
      BY <3>14, <3>16
    <3>18. after.store = [n \in StoreNames |->
                            IF Into(Stream(l), kind, sym, n) THEN store[n] \o m ELSE store[n]]
      BY <3>14, <3>16
    <3>19. seen' = [seen EXCEPT ![l] = @ \cup {Heard(Messages(e)[i]) : i \in DOMAIN e.items}]
      BY <1>4, <3>1, <3>17 DEF m
    <3>20. store' = [n \in StoreNames |->
                       IF Kept(l, e.feed) /\ n = <<e.feed.market, e.feed.kind>>
                       THEN store[n] \o Messages(e) ELSE store[n]]
      BY <1>4, <3>15, <3>18 DEF m
    <3> HIDE DEF e
    <3> QED
      BY <1>1, <1>3, <1>10, <2>2, <3>19, <3>20 DEF Taken, e
  <2> QED
    BY <2>1, <2>2
<1> QED
  BY <1>5, <1>9, <1>10 DEF Entry

Taking(l) == FdInv /\ l \in up /\ wire[l] # <<>> /\ Taken(l, wire[l][1])

\* The wire without its first frame.
LEMMA Moves ==
  ASSUME NEW l \in Labels, Taking(l)
  PROVE  /\ wire' = [m \in Labels |-> wire'[m]]
         /\ \A m \in Labels : IsSeq(wire'[m]) /\ (m # l => wire'[m] = wire[m])
         /\ 1 \in DOMAIN wire[l]
         /\ \A i \in DOMAIN wire'[l] : i \in Nat /\ i > 0 /\ i + 1 \in DOMAIN wire[l] /\ wire'[l][i] = wire[l][i + 1]
         /\ \A i \in DOMAIN wire[l] : i = 1 \/ \E j \in DOMAIN wire'[l] : i = j + 1
<1>1. /\ wire = [m \in Labels |-> wire[m]] /\ \A m \in Labels : IsSeq(wire[m])
      /\ wire' = [wire EXCEPT ![l] = Tail(@)] /\ wire[l] # <<>>
  BY DEF Taking, FdInv, Shape, Taken
<1> DEFINE w == wire[l]
           v == Tail(wire[l])
<1>2. /\ Len(w) \in Nat /\ Len(w) # 0 /\ DOMAIN w = 1 .. Len(w)
      /\ IsSeq(v) /\ Len(v) = Len(w) - 1 /\ \A i \in 1 .. Len(w) - 1 : v[i] = w[i + 1]
  BY <1>1, SeqFacts
<1>3. wire'[l] = v /\ \A m \in Labels : m # l => wire'[m] = wire[m]
  BY <1>1
<1>4. wire' = [m \in Labels |-> wire'[m]]
  BY <1>1
<1> HIDE DEF v, w
<1>5. DOMAIN v = 1 .. Len(w) - 1
  BY <1>2, SeqFacts
<1>6. \A i \in DOMAIN v : i \in Nat /\ i > 0 /\ i + 1 \in DOMAIN w /\ v[i] = w[i + 1]
  BY <1>2, <1>5
<1>7. \A i \in DOMAIN w : i = 1 \/ \E j \in DOMAIN v : i = j + 1
  <2> SUFFICES ASSUME NEW i \in 1 .. Len(w), i # 1
               PROVE  \E j \in DOMAIN v : i = j + 1
    BY <1>2
  <2>1. i - 1 \in DOMAIN v /\ i = (i - 1) + 1
    BY <1>2, <1>5
  <2> QED
    BY <2>1
<1>8. 1 \in DOMAIN w
  BY <1>2
<1>9. \A m \in Labels : IsSeq(wire'[m]) /\ (m # l => wire'[m] = wire[m])
  BY <1>1, <1>2, <1>3
<1>10. /\ \A i \in DOMAIN wire'[l] : i \in Nat /\ i > 0 /\ i + 1 \in DOMAIN wire[l] /\ wire'[l][i] = wire[l][i + 1]
       /\ \A i \in DOMAIN wire[l] : i = 1 \/ \E j \in DOMAIN wire'[l] : i = j + 1
  BY <1>3, <1>6, <1>7 DEF w
<1> QED
  BY <1>4, <1>8, <1>9, <1>10 DEF w

LEMMA TakingIs ==
  ASSUME NEW l \in Labels, Taking(l)
  PROVE  /\ FdInv /\ conn \in Configs /\ l \in up /\ up \subseteq Running /\ Running \subseteq Labels
         /\ conn' = conn /\ up' = up /\ counts' = counts /\ breaks' = breaks /\ due' = due
         /\ counts \in [Feeds -> Nat]
<1>1. /\ FdInv /\ conn \in Configs /\ l \in up /\ up \subseteq Running /\ counts \in [Feeds -> Nat]
      /\ conn' = conn /\ up' = up /\ counts' = counts /\ breaks' = breaks /\ due' = due
  BY DEF Taking, FdInv, Shape, Taken
<1> QED
  BY <1>1, RunningIs DEF Active

\* What was ahead of the wires still is, and the frame taken is now passed.
LEMMA StillPassed ==
  ASSUME NEW l \in Labels, Taking(l), NEW f \in Feeds, NEW n \in Nat, Passed(f, n)
  PROVE  Passed(f, n)'
<1>1. n \in 1 .. counts'[f]
  BY TakingIs DEF Passed
<1>2. ASSUME NEW m \in up, NEW i \in DOMAIN wire'[m], wire'[m][i].feed = f, NEW a \in DOMAIN wire'[m][i].items
      PROVE  n < wire'[m][i].items[a].id
  <2>1. \E j \in DOMAIN wire[m] : wire'[m][i] = wire[m][j]
    BY TakingIs, Moves
  <2>2. PICK j \in DOMAIN wire[m] : wire'[m][i] = wire[m][j]
    BY <2>1
  <2> QED
    BY <1>2, <2>2 DEF Passed, Ahead
<1> QED
  BY <1>1, <1>2, TakingIs DEF Passed, Ahead

\* The ids of the frame that is taken are below all that is left of its feed.
LEMMA NowPassed ==
  ASSUME NEW l \in Labels, Taking(l), Served(l, wire[l][1].feed), Batch(wire[l][1].feed, wire[l][1].items),
         NEW b \in DOMAIN wire[l][1].items, NEW f, f = wire[l][1].feed, NEW x, x = wire[l][1].items[b].id
  PROVE  x \in Nat /\ Passed(f, x)'
<1> DEFINE e == wire[l][1]
<1>1. f \in Feeds /\ x \in 1 .. counts[f] /\ x \in Nat
  BY TakingIs DEF Served, Batch
<1>2. 1 \in DOMAIN wire[l] /\ Wires
  BY Moves, TakingIs DEF FdInv
<1>3. ASSUME NEW m \in up, NEW i \in DOMAIN wire'[m], wire'[m][i].feed = f, NEW a \in DOMAIN wire'[m][i].items
      PROVE  x < wire'[m][i].items[a].id
  <2>1. CASE m = l
    <3>1. i \in Nat /\ i > 0 /\ i + 1 \in DOMAIN wire[l] /\ wire'[l][i] = wire[l][i + 1]
      BY <2>1, Moves
    <3>2. 1 < i + 1
      BY <3>1
    <3> QED
      BY <1>2, <1>3, <2>1, <3>1, <3>2 DEF Wires
  <2>2. CASE m # l
    <3>1. wire'[m] = wire[m] /\ m \in Running /\ l \in Running /\ conn \in Configs
      BY <2>2, Moves, TakingIs
    <3>2. Served(m, wire[m][i].feed)
      BY <1>2, <1>3, <3>1, OnWiresServed
    <3>3. Served(m, f)
      BY <1>3, <3>1, <3>2
    <3> QED
      BY <2>2, <3>1, <3>3, OneLabel
  <2> QED
    BY <2>1, <2>2
<1> QED
  BY <1>1, <1>3, TakingIs DEF Passed, Ahead

LEMMA DeliverWires ==
  ASSUME NEW l \in Labels, Taking(l)
  PROVE  Wires'
<1>1. ASSUME NEW m \in up, NEW i \in DOMAIN wire'[m], NEW x, x = wire'[m][i]
      PROVE  Entry(m, x)'
  <2>1. \E j \in DOMAIN wire[m] : wire'[m][i] = wire[m][j]
    BY TakingIs, Moves
  <2>2. Entry(m, x)
    BY <1>1, <2>1, TakingIs DEF FdInv, Wires
  <2>3. /\ \A k, f : Served(k, f)' <=> Served(k, f)
        /\ \A k, frame : Parse(Stream(k), frame)' = Parse(Stream(k), frame)
        /\ \A f, items : MessagesOf(f, items)' = MessagesOf(f, items)
    BY ConnKept, TakingIs
  <2>4. \A f, items : Batch(f, items)' <=> Batch(f, items)
    BY TakingIs DEF Batch
  <2> QED
    BY <2>2, <2>3, <2>4 DEF Entry
<1>2. \A m \in up : \A i \in DOMAIN wire'[m] : Entry(m, wire[m][i])'
  BY <1>1
<1>3. ASSUME NEW m \in up, NEW i \in DOMAIN wire'[m], NEW j \in DOMAIN wire'[m], i < j,
             wire'[m][i].feed = wire'[m][j].feed,
             NEW a \in DOMAIN wire'[m][i].items, NEW b \in DOMAIN wire'[m][j].items
      PROVE  wire'[m][i].items[a].id < wire'[m][j].items[b].id
  <2>1. Wires /\ m \in Labels
    BY TakingIs DEF FdInv
  <2>2. CASE m = l
    <3>1. /\ i \in Nat /\ i + 1 \in DOMAIN wire[m] /\ wire'[m][i] = wire[m][i + 1]
          /\ j \in Nat /\ j + 1 \in DOMAIN wire[m] /\ wire'[m][j] = wire[m][j + 1]
      BY <2>2, Moves
    <3>2. i + 1 < j + 1
      BY <1>3, <3>1
    <3> QED
      BY <1>3, <2>1, <3>1, <3>2 DEF Wires
  <2>3. CASE m # l
    <3>1. wire'[m] = wire[m]
      BY <2>1, <2>3, Moves
    <3> QED
      BY <1>3, <2>1, <3>1 DEF Wires
  <2> QED
    BY <2>2, <2>3
<1>4. up' = up
  BY TakingIs
<1> QED
  BY <1>2, <1>3, <1>4 DEF Wires

\* The news of the frame have left the wires.
LEMMA Leaves ==
  ASSUME NEW l \in Labels, Taking(l), NEW d
  PROVE  /\ d \in OnWires' => d \in OnWires
         /\ d \in OnWires /\ d \notin OnWires' <=>
              \E a \in DOMAIN wire[l][1].items : d = [feed |-> wire[l][1].feed, item |-> wire[l][1].items[a]]
<1> DEFINE e == wire[l][1]
<1>1. /\ 1 \in DOMAIN wire[l] /\ l \in up /\ Wires /\ conn \in Configs
      /\ up \subseteq Running /\ Running \subseteq Labels
  BY Moves, TakingIs DEF FdInv
<1>2. d \in OnWires' <=> \E m \in up : \E i \in DOMAIN wire'[m] : \E a \in DOMAIN wire'[m][i].items :
                           d = [feed |-> wire'[m][i].feed, item |-> wire'[m][i].items[a]]
  BY TakingIs DEF OnWires, Carried
<1>3. ASSUME d \in OnWires'
      PROVE  \E m \in up : \E i \in DOMAIN wire[m] : \E a \in DOMAIN wire[m][i].items :
               (m # l \/ 1 < i) /\ d = [feed |-> wire[m][i].feed, item |-> wire[m][i].items[a]]
  <2>11. PICK m \in up : \E i \in DOMAIN wire'[m] : \E a \in DOMAIN wire'[m][i].items :
         d = [feed |-> wire'[m][i].feed, item |-> wire'[m][i].items[a]]
    BY <1>2, <1>3
  <2>12. PICK i \in DOMAIN wire'[m] : \E a \in DOMAIN wire'[m][i].items :
         d = [feed |-> wire'[m][i].feed, item |-> wire'[m][i].items[a]]
    BY <2>11
  <2>1. PICK a \in DOMAIN wire'[m][i].items :
         d = [feed |-> wire'[m][i].feed, item |-> wire'[m][i].items[a]]
    BY <2>12
  <2>2. CASE m = l
    <3>1. i \in Nat /\ i > 0 /\ i + 1 \in DOMAIN wire[m] /\ wire'[m][i] = wire[m][i + 1]
      BY <2>1, <2>2, Moves
    <3>2. 1 < i + 1
      BY <3>1
    <3> QED
      BY <2>1, <3>1, <3>2
  <2>3. CASE m # l
    <3>1. wire'[m] = wire[m]
      BY <1>1, <2>3, Moves
    <3> QED
      BY <2>1, <2>3, <3>1
  <2> QED
    BY <2>2, <2>3
<1>4. d \in OnWires' => d \in OnWires
  BY <1>3, OnWiresIs
<1>5. ASSUME d \in OnWires, d \notin OnWires'
      PROVE  \E a \in DOMAIN e.items : d = [feed |-> e.feed, item |-> e.items[a]]
  <2>11. PICK m \in up : \E i \in DOMAIN wire[m] : \E a \in DOMAIN wire[m][i].items :
         d = [feed |-> wire[m][i].feed, item |-> wire[m][i].items[a]]
    BY <1>5, OnWiresIs
  <2>12. PICK i \in DOMAIN wire[m] : \E a \in DOMAIN wire[m][i].items :
         d = [feed |-> wire[m][i].feed, item |-> wire[m][i].items[a]]
    BY <2>11
  <2>1. PICK a \in DOMAIN wire[m][i].items :
         d = [feed |-> wire[m][i].feed, item |-> wire[m][i].items[a]]
    BY <2>12
  <2>2. m = l
    <3> SUFFICES ASSUME m # l PROVE FALSE
      OBVIOUS
    <3>1. wire'[m] = wire[m]
      BY <1>1, Moves
    <3> QED
      BY <1>2, <1>5, <2>1, <3>1
  <2>3. i = 1
    <3> SUFFICES ASSUME i # 1 PROVE FALSE
      OBVIOUS
    <3>1. PICK j \in DOMAIN wire'[l] : i = j + 1
      BY <2>1, <2>2, Moves
    <3>2. wire'[l][j] = wire[l][i]
      BY <3>1, Moves
    <3> QED
      BY <1>1, <1>2, <1>5, <2>1, <2>2, <3>1, <3>2
  <2> QED
    BY <2>1, <2>2, <2>3
<1>6. ASSUME NEW a \in DOMAIN e.items, d = [feed |-> e.feed, item |-> e.items[a]]
      PROVE  d \in OnWires /\ d \notin OnWires'
  <2>1. d \in OnWires
    BY <1>1, <1>6, OnWiresIs
  <2>2. Served(l, e.feed) /\ Batch(e.feed, e.items)
    BY <1>1, <1>6, OnWiresServed
  <2>3. e.items[a].id \in Nat
    BY <2>2, TakingIs DEF Batch, Served
  <2>4. ASSUME d \in OnWires' PROVE FALSE
    <3>11. PICK m \in up : \E i \in DOMAIN wire[m] : \E b \in DOMAIN wire[m][i].items :
           (m # l \/ 1 < i) /\ d = [feed |-> wire[m][i].feed, item |-> wire[m][i].items[b]]
      BY <1>3, <2>4
    <3>12. PICK i \in DOMAIN wire[m] : \E b \in DOMAIN wire[m][i].items :
           (m # l \/ 1 < i) /\ d = [feed |-> wire[m][i].feed, item |-> wire[m][i].items[b]]
      BY <3>11
    <3>1. PICK b \in DOMAIN wire[m][i].items :
           (m # l \/ 1 < i) /\ d = [feed |-> wire[m][i].feed, item |-> wire[m][i].items[b]]
      BY <3>12
    <3>2. wire[m][i].feed = e.feed /\ wire[m][i].items[b] = e.items[a]
      BY <1>6, <3>1
    <3>3. Served(m, e.feed)
      <4>1. Served(m, wire[m][i].feed)
        BY <1>1, <3>1, OnWiresServed
      <4> QED
        BY <3>2, <4>1
    <3>4. m = l
      BY <1>1, <2>2, <3>3, OneLabel
    <3>5. e.items[a].id < wire[m][i].items[b].id
      BY <1>1, <1>6, <3>1, <3>2, <3>4 DEF Wires
    <3> QED
      BY <2>3, <3>2, <3>5
  <2> QED
    BY <2>1, <2>4
<1> QED
  BY <1>4, <1>5, <1>6

\* What is delivered grows by the news of the frame.
LEMMA Delivers ==
  ASSUME NEW l \in Labels, Taking(l), NEW g, NEW item
  PROVE  item \in Delivered(g)' <=>
           item \in Delivered(g) \/ (g = wire[l][1].feed /\ \E a \in DOMAIN wire[l][1].items : item = wire[l][1].items[a])
<1> DEFINE e == wire[l][1]
<1>1. \A d \in due : d.feed \in Feeds
  BY TakingIs DEF FdInv, Owed
<1>2. OnWires \subseteq due /\ due' = due
  BY TakingIs DEF FdInv, Owed
<1>3. ASSUME NEW d
      PROVE  d \in due' \ OnWires' <=> d \in due \ OnWires \/ \E a \in DOMAIN e.items : d = [feed |-> e.feed, item |-> e.items[a]]
  <2>1. /\ d \in OnWires' => d \in OnWires
        /\ d \in OnWires /\ d \notin OnWires' <=> \E a \in DOMAIN e.items : d = [feed |-> e.feed, item |-> e.items[a]]
    BY Leaves
  <2> QED
    BY <1>2, <2>1
<1>4. item \in Delivered(g)' <=> \E d \in due' \ OnWires' : d.feed = g /\ item = d.item
  BY DEF Delivered
<1>5. item \in Delivered(g) <=> \E d \in due \ OnWires : d.feed = g /\ item = d.item
  BY DEF Delivered
<1> HIDE DEF e
<1>6. (\E d \in due' \ OnWires' : d.feed = g /\ item = d.item)
        <=> (\E d \in due \ OnWires : d.feed = g /\ item = d.item)
            \/ (g = e.feed /\ \E a \in DOMAIN e.items : item = e.items[a])
  <2>1. ASSUME NEW d \in due' \ OnWires', d.feed = g, item = d.item, d \notin due \ OnWires
        PROVE  g = e.feed /\ \E a \in DOMAIN e.items : item = e.items[a]
    BY <1>3, <2>1
  <2>2. ASSUME NEW a \in DOMAIN e.items, g = e.feed, item = e.items[a]
        PROVE  \E d \in due' \ OnWires' : d.feed = g /\ item = d.item
    <3> DEFINE d == [feed |-> e.feed, item |-> e.items[a]]
    <3>1. d \in due' \ OnWires'
      BY <1>3
    <3>2. d.feed = g /\ item = d.item
      BY <2>2
    <3> QED
      BY <3>1, <3>2
  <2>3. ASSUME NEW d \in due \ OnWires
        PROVE  d \in due' \ OnWires'
    BY <1>3
  <2> QED
    BY <2>1, <2>2, <2>3
<1> QED
  BY <1>4, <1>5, <1>6 DEF e

\* A feed's records after messages were written, if they were its own.
Grown(g, items, own) ==
  /\ \A k \in Places(g) : /\ k \in 1 .. Len(Records(g)) /\ k \in Places(g)'
                          /\ Records(g)'[k] = Records(g)[k]
  /\ \A k \in Places(g)' : k \in Places(g) \/ (own /\ \E i \in DOMAIN items : k = Len(Records(g)) + i)
  /\ own => \A i \in DOMAIN items : /\ Len(Records(g)) + i \in Places(g)'
                                    /\ Records(g)'[Len(Records(g)) + i] = MessageOf(g, items[i])

Writes(l, f, items) ==
  store' = [n \in StoreNames |->
              IF Kept(l, f) /\ n = <<f.market, f.kind>>
              THEN store[n] \o [i \in DOMAIN items |-> MessageOf(f, items[i])] ELSE store[n]]

LEMMA MessagesSeq ==
  ASSUME NEW f, NEW items, IsSeq(items)
  PROVE  LET ms == [i \in DOMAIN items |-> MessageOf(f, items[i])]
         IN  IsSeq(ms) /\ Len(ms) = Len(items) /\ DOMAIN items = 1 .. Len(items) /\ Len(items) \in Nat
<1> DEFINE n == Len(items)
           mess(i) == MessageOf(f, items[i])
           S == {mess(i) : i \in 1 .. n}
           ms == [i \in 1 .. n |-> mess(i)]
<1>1. n \in Nat /\ DOMAIN items = 1 .. n
  BY SeqFacts
<1>2. \A i \in 1 .. n : mess(i) \in S
  OBVIOUS
<1> HIDE DEF n, mess, S
<1>3. ms \in Seq(S) /\ Len(ms) = n
  BY <1>1, <1>2, IsASeq
<1>4. IsSeq(ms)
  <2> HIDE DEF ms
  <2> QED
    BY <1>3, SeqIs
<1> HIDE DEF ms
<1>5. [i \in DOMAIN items |-> MessageOf(f, items[i])] = ms
  BY <1>1 DEF ms, mess
<1> QED
  BY <1>1, <1>3, <1>4, <1>5 DEF n

\* The stores after a write, place by place.
LEMMA WriteIs ==
  ASSUME Shape, NEW l, NEW f, NEW items, IsSeq(items), Writes(l, f, items), NEW n \in StoreNames
  PROVE  /\ IsSeq(store[n]) /\ Len(store[n]) \in Nat /\ DOMAIN store[n] = 1 .. Len(store[n])
         /\ IsSeq(store'[n])
         /\ \A k \in DOMAIN store[n] : k \in DOMAIN store'[n] /\ store'[n][k] = store[n][k]
         /\ \A k \in DOMAIN store'[n] : k \in DOMAIN store[n] \/
              (Kept(l, f) /\ n = <<f.market, f.kind>> /\ \E i \in DOMAIN items : k = Len(store[n]) + i)
         /\ Kept(l, f) /\ n = <<f.market, f.kind>> =>
              \A i \in DOMAIN items : /\ Len(store[n]) + i \in DOMAIN store'[n]
                                      /\ store'[n][Len(store[n]) + i] = MessageOf(f, items[i])
<1> DEFINE ms == [i \in DOMAIN items |-> MessageOf(f, items[i])]
           s == store[n]
           here == Kept(l, f) /\ n = <<f.market, f.kind>>
<1>1. IsSeq(s) /\ Len(s) \in Nat /\ DOMAIN s = 1 .. Len(s)
  BY SeqFacts DEF Shape
<1>2. IsSeq(ms) /\ Len(ms) = Len(items) /\ DOMAIN items = 1 .. Len(items) /\ Len(items) \in Nat
  BY MessagesSeq
<1>3. store'[n] = IF here THEN s \o ms ELSE s
  BY DEF Writes
<1>4. \A i \in DOMAIN items : ms[i] = MessageOf(f, items[i])
  OBVIOUS
<1> HIDE DEF ms, s
<1>5. /\ IsSeq(s \o ms) /\ Len(s \o ms) = Len(s) + Len(items)
      /\ \A i \in 1 .. Len(s) : (s \o ms)[i] = s[i]
      /\ \A i \in 1 .. Len(items) : (s \o ms)[Len(s) + i] = ms[i]
  <2>1. IsSeq(s) /\ IsSeq(ms)
    BY <1>1, <1>2
  <2>2. /\ IsSeq(s \o ms) /\ Len(s \o ms) = Len(s) + Len(ms)
        /\ \A i \in 1 .. Len(s) : (s \o ms)[i] = s[i]
        /\ \A i \in 1 .. Len(ms) : (s \o ms)[Len(s) + i] = ms[i]
    BY ONLY <2>1, Joined
  <2>3. Len(ms) = Len(items)
    BY <1>2
  <2> QED
    BY ONLY <2>2, <2>3
<1>6. DOMAIN (s \o ms) = 1 .. Len(s) + Len(items)
  BY <1>5, SeqFacts
<1>7. CASE here
  <2> DEFINE t == s \o ms
  <2>1. store'[n] = t
    BY <1>3, <1>7
  <2>2. /\ IsSeq(t) /\ DOMAIN t = 1 .. Len(s) + Len(items)
        /\ \A i \in 1 .. Len(s) : t[i] = s[i]
        /\ \A i \in 1 .. Len(items) : t[Len(s) + i] = MessageOf(f, items[i])
    BY <1>2, <1>4, <1>5, <1>6
  <2> HIDE DEF t, here
  <2>3. \A k \in DOMAIN s : k \in DOMAIN t /\ t[k] = s[k]
    BY <1>1, <1>2, <2>2
  <2>4. \A k \in DOMAIN t : k \in DOMAIN s \/ \E i \in DOMAIN items : k = Len(s) + i
    <3> SUFFICES ASSUME NEW k \in DOMAIN t, k \notin DOMAIN s
                 PROVE  \E i \in DOMAIN items : k = Len(s) + i
      OBVIOUS
    <3>1. k - Len(s) \in 1 .. Len(items) /\ k = Len(s) + (k - Len(s))
      BY <1>1, <1>2, <2>2
    <3> QED
      BY <1>2, <3>1
  <2>5. \A i \in DOMAIN items : Len(s) + i \in DOMAIN t /\ t[Len(s) + i] = MessageOf(f, items[i])
    BY <1>1, <1>2, <2>2
  <2> QED
    BY <1>1, <1>7, <2>1, <2>2, <2>3, <2>4, <2>5 DEF s, here
<1>8. CASE ~ here
  BY <1>1, <1>3, <1>8 DEF s
<1> QED
  BY <1>7, <1>8

\* A write adds to one feed's records, and moves none.
LEMMA Grows ==
  ASSUME FdInv, NEW l, NEW f \in Feeds, NEW items, IsSeq(items), Writes(l, f, items), conn' = conn,
         NEW g \in Feeds
  PROVE  Grown(g, items, g = f /\ Kept(l, f))
<1> DEFINE n == <<g.market, g.kind>>
           sym == StoreSymbol(g)
           own == g = f /\ Kept(l, f)
<1>1. n \in StoreNames /\ Shape
  BY FeedIs DEF FdInv
<1>2. Records(g) = store[n] /\ Records(g)' = store'[n]
  BY DEF Records
<1>3. StoreSymbol(g)' = sym
  BY ConnKept
<1>4. \A k : k \in Places(g) <=> k \in DOMAIN store[n] /\ store[n][k].sym = sym
  BY <1>2 DEF Places
<1>5. \A k : k \in Places(g)' <=> k \in DOMAIN store'[n] /\ store'[n][k].sym = sym
  BY <1>2, <1>3 DEF Places
<1>6. /\ Len(store[n]) \in Nat /\ DOMAIN store[n] = 1 .. Len(store[n])
      /\ \A k \in DOMAIN store[n] : k \in DOMAIN store'[n] /\ store'[n][k] = store[n][k]
      /\ \A k \in DOMAIN store'[n] : k \in DOMAIN store[n] \/
           (Kept(l, f) /\ n = <<f.market, f.kind>> /\ \E i \in DOMAIN items : k = Len(store[n]) + i)
      /\ Kept(l, f) /\ n = <<f.market, f.kind>> =>
           \A i \in DOMAIN items : /\ Len(store[n]) + i \in DOMAIN store'[n]
                                   /\ store'[n][Len(store[n]) + i] = MessageOf(f, items[i])
  BY <1>1, WriteIs
<1>7. \A i : MessageOf(f, items[i]).sym = StoreSymbol(f)
  BY DEF MessageOf, Msg
<1>8. ASSUME n = <<f.market, f.kind>>, StoreSymbol(f) = sym
      PROVE  g = f
  <2>1. g.pair = f.pair
    BY <1>8, PairOf
  <2>2. g.market = f.market /\ g.kind = f.kind
    BY <1>8
  <2> QED
    BY <2>1, <2>2, FeedsEqual
<1>9. own => n = <<f.market, f.kind>> /\ StoreSymbol(f) = sym /\ Kept(l, f) /\ g = f
  OBVIOUS
<1> HIDE DEF n, sym
<1>10. \A k \in Places(g) : k \in 1 .. Len(store[n]) /\ k \in Places(g)' /\ store'[n][k] = store[n][k]
  BY <1>4, <1>5, <1>6
<1>11. ASSUME NEW k \in Places(g)', k \notin Places(g)
       PROVE  own /\ \E i \in DOMAIN items : k = Len(store[n]) + i
  <2>1. k \in DOMAIN store'[n] /\ store'[n][k].sym = sym /\ k \notin DOMAIN store[n]
    BY <1>4, <1>5, <1>6, <1>11
  <2>2. Kept(l, f) /\ n = <<f.market, f.kind>>
    BY <1>6, <2>1
  <2>3. PICK i \in DOMAIN items : k = Len(store[n]) + i
    BY <1>6, <2>1
  <2>4. store'[n][k] = MessageOf(f, items[i])
    BY <1>6, <2>2, <2>3
  <2>5. StoreSymbol(f) = sym
    BY <1>7, <2>1, <2>4
  <2> QED
    BY <1>8, <2>2, <2>3, <2>5
<1>12. ASSUME own, NEW i \in DOMAIN items
       PROVE  /\ Len(store[n]) + i \in Places(g)'
              /\ store'[n][Len(store[n]) + i] = MessageOf(g, items[i])
  <2>1. /\ Len(store[n]) + i \in DOMAIN store'[n]
        /\ store'[n][Len(store[n]) + i] = MessageOf(f, items[i])
    BY <1>6, <1>9, <1>12
  <2>2. MessageOf(f, items[i]).sym = sym /\ g = f
    BY <1>7, <1>9, <1>12
  <2> QED
    BY <1>5, <2>1, <2>2
<1> HIDE DEF own
<1>13. Grown(g, items, own)
  BY <1>2, <1>10, <1>11, <1>12 DEF Grown
<1> QED
  BY <1>13 DEF own

\* A frame whose messages are handed to the stores.
Written(l, f, items) ==
  /\ Taking(l) /\ f = wire[l][1].feed /\ items = wire[l][1].items
  /\ Served(l, f) /\ Batch(f, items) /\ Whole(f, items[1]) /\ Writes(l, f, items)
  /\ seen' = [seen EXCEPT ![l] = @ \cup {Heard(MessageOf(f, items[i])) : i \in DOMAIN items}]

LEMMA WrittenIs ==
  ASSUME NEW l \in Labels, NEW f, NEW items, Written(l, f, items)
  PROVE  /\ Taking(l) /\ FdInv /\ conn' = conn /\ conn \in Configs /\ l \in Running /\ f \in Feeds
         /\ Served(l, f) /\ IsSeq(items) /\ DOMAIN items = 1 .. Len(items) /\ Len(items) \in Nat
         /\ Writes(l, f, items)
         /\ \A i \in DOMAIN items : items[i].id \in Nat /\ Passed(f, items[i].id)' /\ Whole(f, items[i])
         /\ \A i, j \in DOMAIN items : i < j => items[i].id < items[j].id
<1>1. /\ Taking(l) /\ Served(l, f) /\ Batch(f, items) /\ Whole(f, items[1]) /\ Writes(l, f, items)
      /\ f = wire[l][1].feed /\ items = wire[l][1].items
  BY DEF Written
<1>2. FdInv /\ conn' = conn /\ conn \in Configs /\ l \in Running /\ f \in Feeds
  BY <1>1, TakingIs DEF Served
<1>3. /\ IsSeq(items) /\ (f.kind = "bbo" => Len(items) = 1)
      /\ \A i, j \in DOMAIN items : i < j => items[i].id < items[j].id
  BY <1>1 DEF Batch
<1>4. DOMAIN items = 1 .. Len(items) /\ Len(items) \in Nat
  BY <1>3, SeqFacts
<1>5. ASSUME NEW i \in DOMAIN items
      PROVE  items[i].id \in Nat /\ Passed(f, items[i].id)'
  <2>1. i \in DOMAIN wire[l][1].items /\ Served(l, wire[l][1].feed) /\ Batch(wire[l][1].feed, wire[l][1].items)
    BY <1>1
  <2>2. ASSUME NEW x, x = items[i].id
        PROVE  x \in Nat /\ Passed(f, x)'
    BY <1>1, <2>1, <2>2, NowPassed
  <2> QED
    BY <2>2
<1>6. \A i \in DOMAIN items : Whole(f, items[i])
  BY <1>1, <1>3, <1>4 DEF Whole
<1> QED
  BY <1>1, <1>2, <1>3, <1>4, <1>5, <1>6

\* The stores stay sorted by feed, and rising.
LEMMA WrittenFiles ==
  ASSUME NEW l \in Labels, NEW f, NEW items, Written(l, f, items)
  PROVE  Filed' /\ Rising'
<1> DEFINE own(g) == g = f /\ Kept(l, f)
<1>1. /\ FdInv /\ conn' = conn /\ conn \in Configs /\ f \in Feeds /\ IsSeq(items) /\ Writes(l, f, items)
      /\ Taking(l) /\ DOMAIN items = 1 .. Len(items) /\ Len(items) \in Nat
      /\ \A i \in DOMAIN items : items[i].id \in Nat /\ Passed(f, items[i].id)' /\ Whole(f, items[i])
      /\ \A i, j \in DOMAIN items : i < j => items[i].id < items[j].id
  BY WrittenIs
<1>2. \A g \in Feeds : Grown(g, items, own(g))
  BY <1>1, Grows
<1>3. Shape /\ Filed /\ Rising
  BY <1>1 DEF FdInv
<1>4. Filed'
  <2> SUFFICES ASSUME NEW n \in StoreNames, NEW k, k \in DOMAIN store'[n]
               PROVE  \E g \in Feeds : n = <<g.market, g.kind>> /\ k \in Places(g)'
    BY DEF Filed
  <2>1. \/ k \in DOMAIN store[n]
        \/ Kept(l, f) /\ n = <<f.market, f.kind>> /\ \E i \in DOMAIN items : k = Len(store[n]) + i
    BY <1>1, <1>3, WriteIs
  <2>2. CASE k \in DOMAIN store[n]
    <3>1. PICK g \in Feeds : n = <<g.market, g.kind>> /\ k \in Places(g)
      BY <1>3, <2>2 DEF Filed
    <3>2. k \in Places(g)'
      BY <1>2, <3>1 DEF Grown
    <3> QED
      BY <3>1, <3>2
  <2>3. CASE Kept(l, f) /\ n = <<f.market, f.kind>> /\ \E i \in DOMAIN items : k = Len(store[n]) + i
    <3>1. Records(f) = store[n] /\ own(f)
      BY <2>3 DEF Records
    <3>2. k \in Places(f)'
      BY <1>1, <1>2, <2>3, <3>1 DEF Grown
    <3> QED
      BY <1>1, <2>3, <3>2
  <2> QED
    BY <2>1, <2>2, <2>3
<1>5. Rising'
  <2> SUFFICES ASSUME NEW g \in Feeds, NEW k, k \in Places(g)'
               PROVE  /\ Records(g)'[k].product = ProductOf(g) /\ Passed(g, Records(g)[k].id)'
                      /\ \A j \in Places(g)' : j < k => Records(g)'[j].id < Records(g)'[k].id
    BY <1>1, ConnKept DEF Rising
  <2> DEFINE L == Len(Records(g))
  <2>1. Grown(g, items, own(g))
    BY <1>2
  <2>2. L \in Nat /\ \A j \in Places(g) : j \in 1 .. L
    <3>1. L \in Nat
      BY <1>3, FeedIs, SeqFacts DEF Shape, Records
    <3> QED
      BY <2>1, <3>1 DEF Grown
  <2>3. ASSUME NEW x, x = Records(g)'[k].id, Passed(g, x)'
        PROVE  Passed(g, Records(g)[k].id)'
    BY <2>3 DEF Passed, Ahead
  <2>4. CASE k \in Places(g)
    <3>1. Records(g)'[k] = Records(g)[k]
      BY <2>1, <2>4 DEF Grown
    <3>2. Records(g)[k].product = ProductOf(g) /\ Passed(g, Records(g)[k].id)
      BY <1>3, <2>4 DEF Rising
    <3>3. Records(g)[k].id \in Nat
      BY <1>3, <3>2 DEF Passed, Shape
    <3>4. ASSUME NEW x, x = Records(g)[k].id PROVE Passed(g, x)'
      BY <1>1, <3>2, <3>3, <3>4, StillPassed
    <3>5. Passed(g, Records(g)[k].id)'
      BY <2>3, <3>1, <3>4
    <3>6. ASSUME NEW j, j \in Places(g)', j < k
          PROVE  Records(g)'[j].id < Records(g)'[k].id
      <4>1. j \in Places(g)
        <5>1. ASSUME NEW i \in DOMAIN items, j = L + i PROVE FALSE
          <6>1. i \in 1 .. Len(items) /\ k \in 1 .. L
            BY <1>1, <2>2, <2>4
          <6> QED
            BY <1>1, <2>2, <3>6, <5>1, <6>1
        <5> QED
          BY <2>1, <3>6, <5>1 DEF Grown
      <4>2. Records(g)'[j] = Records(g)[j]
        BY <2>1, <4>1 DEF Grown
      <4> QED
        BY <1>3, <2>4, <3>1, <3>6, <4>1, <4>2 DEF Rising
    <3> QED
      BY <3>1, <3>2, <3>5, <3>6
  <2>5. CASE k \notin Places(g)
    <3>1. own(g) /\ \E i \in DOMAIN items : k = L + i
      BY <2>1, <2>5 DEF Grown
    <3>2. PICK i \in DOMAIN items : k = L + i
      BY <3>1
    <3>3. g = f /\ \A j \in DOMAIN items : Records(g)'[L + j] = MessageOf(g, items[j])
      BY <2>1, <3>1 DEF Grown
    <3>4. Records(g)'[k] = MessageOf(f, items[i])
      BY <3>2, <3>3
    <3>5. Records(g)'[k].product = ProductOf(g) /\ Records(g)'[k].id = items[i].id
      BY <3>3, <3>4 DEF MessageOf, Msg
    <3>6. Passed(f, items[i].id)' /\ items[i].id \in Nat
      BY <1>1
    <3>7. Passed(g, Records(g)[k].id)'
      BY <2>3, <3>3, <3>5, <3>6
    <3>8. ASSUME NEW j, j \in Places(g)', j < k
          PROVE  Records(g)'[j].id < Records(g)'[k].id
      <4>1. CASE j \in Places(g)
        <5>1. Records(g)'[j] = Records(g)[j]
          BY <2>1, <4>1 DEF Grown
        <5>2. Passed(f, Records(g)[j].id)
          BY <1>3, <3>3, <4>1 DEF Rising
        <5>3. 1 \in DOMAIN wire[l] /\ l \in up /\ f = wire[l][1].feed /\ items = wire[l][1].items
          BY <1>1, Moves, TakingIs DEF Written
        <5>4. Records(g)[j].id < items[i].id
          BY <5>2, <5>3 DEF Passed, Ahead
        <5> QED
          BY <3>5, <5>1, <5>4
      <4>2. CASE j \notin Places(g)
        <5>1. \E h \in DOMAIN items : j = L + h
          BY <2>1, <3>8, <4>2 DEF Grown
        <5>2. PICK h \in DOMAIN items : j = L + h
          BY <5>1
        <5>3. Records(g)'[j] = MessageOf(g, items[h])
          BY <3>3, <5>2
        <5>4. Records(g)'[j].id = items[h].id
          BY <5>3 DEF MessageOf, Msg
        <5>5. h < i
          <6>1. h \in 1 .. Len(items) /\ i \in 1 .. Len(items)
            BY <1>1
          <6> QED
            BY <1>1, <2>2, <3>2, <3>8, <5>2, <6>1
        <5> QED
          BY <1>1, <3>5, <5>4, <5>5
      <4> QED
        BY <4>1, <4>2
    <3> QED
      BY <3>5, <3>7, <3>8
  <2> QED
    BY <2>4, <2>5
<1> QED
  BY <1>4, <1>5

\* What has become known was passed.
LEMMA WrittenKnown ==
  ASSUME NEW l \in Labels, NEW f, NEW items, Written(l, f, items)
  PROVE  Known'
<1>1. /\ FdInv /\ conn' = conn /\ l \in Running /\ f \in Feeds /\ Served(l, f) /\ Taking(l)
      /\ \A i \in DOMAIN items : items[i].id \in Nat /\ Passed(f, items[i].id)'
  BY WrittenIs
<1>2. \A g \in Feeds : \A n \in Nat : Passed(g, n) => Passed(g, n)'
  BY <1>1, StillPassed
<1>3. seen' = [seen EXCEPT ![l] = @ \cup {Heard(MessageOf(f, items[i])) : i \in DOMAIN items}]
  BY DEF Written
<1> SUFFICES ASSUME NEW m \in Labels, NEW k, k \in seen'[m]
             PROVE  m \in Running' /\ \E g \in Feeds : /\ Served(m, g)' /\ k.kind = g.kind
                                                       /\ k.sym = StoreSymbol(g)' /\ Passed(g, k.id)'
  BY DEF Known
<1>4. CASE k \in seen[m]
  BY <1>1, <1>2, <1>4, KnownKept
<1>5. CASE k \notin seen[m]
  <2>1. m = l /\ \E i \in DOMAIN items : k = Heard(MessageOf(f, items[i]))
    BY <1>1, <1>3, <1>5 DEF FdInv, Shape
  <2>2. PICK i \in DOMAIN items : k = Heard(MessageOf(f, items[i]))
    BY <2>1
  <2>3. k.kind = f.kind /\ k.sym = StoreSymbol(f) /\ k.id = items[i].id
    BY <2>2 DEF Heard, MessageOf, Msg
  <2>4. Passed(f, k.id)'
    BY <1>1, <2>3
  <2>5. Running' = Running /\ Served(l, f)' /\ StoreSymbol(f)' = StoreSymbol(f)
    BY <1>1, ConnKept
  <2> QED
    BY <1>1, <2>1, <2>3, <2>4, <2>5
<1> QED
  BY <1>4, <1>5

\* A configured feed is kept by the one stream that serves it.
LEMMA ConfiguredKept ==
  ASSUME conn \in Configs, NEW g \in Configured, NEW l \in Running, Served(l, g)
  PROVE  Kept(l, g)
<1> DEFINE m == LabelFor(g)
<1>1. /\ m \in Active /\ Serves(StreamAt(m), g) # {}
      /\ <<g.market, g.kind>> \in StreamAt(m).names /\ StoreSymbol(g) \in StreamAt(m).symbols
  BY ConfiguredServed
<1> HIDE DEF m
<1>2. m \in Running /\ Stream(m) = StreamAt(m)
  BY <1>1, RunningIs
<1>3. Served(m, g)
  BY <1>1, <1>2 DEF Served, Configured
<1>4. l = m
  BY <1>2, <1>3, OneLabel
<1> QED
  BY <1>1, <1>2, <1>4 DEF Kept

\* The records of a configured feed are its delivered news, those of the frame included.
LEMMA WrittenFaith ==
  ASSUME NEW l \in Labels, NEW f, NEW items, Written(l, f, items)
  PROVE  Faithful'
<1>1. /\ FdInv /\ conn' = conn /\ conn \in Configs /\ l \in Running /\ f \in Feeds /\ Served(l, f)
      /\ IsSeq(items) /\ Writes(l, f, items) /\ Taking(l)
      /\ \A i \in DOMAIN items : Whole(f, items[i])
  BY WrittenIs
<1>2. f = wire[l][1].feed /\ items = wire[l][1].items
  BY DEF Written
<1>3. Configured' = Configured /\ \A h, item : MessageOf(h, item)' = MessageOf(h, item)
  BY <1>1, ConnKept
<1> SUFFICES ASSUME NEW g \in Configured
             PROVE  /\ \A item \in Delivered(g)' : Whole(g, item) =>
                         \E k \in Places(g)' : Records(g)'[k].id = item.id
                    /\ \A k \in Places(g)' : \E item \in Delivered(g)' :
                         Whole(g, item) /\ Records(g)'[k] = MessageOf(g, item)
  BY <1>3 DEF Faithful
<1> DEFINE own == g = f /\ Kept(l, f)
           L == Len(Records(g))
<1>4. g \in Feeds
  BY DEF Configured
<1>5. own <=> g = f
  BY <1>1, ConfiguredKept
<1>6. Grown(g, items, own)
  BY <1>1, <1>4, Grows
<1>7. \A item : item \in Delivered(g)' <=>
        item \in Delivered(g) \/ (g = f /\ \E a \in DOMAIN items : item = items[a])
  BY <1>1, <1>2, Delivers
<1>8. /\ \A item \in Delivered(g) : Whole(g, item) => \E k \in Places(g) : Records(g)[k].id = item.id
      /\ \A k \in Places(g) : \E item \in Delivered(g) : Whole(g, item) /\ Records(g)[k] = MessageOf(g, item)
  BY <1>1 DEF FdInv, Faithful
<1> HIDE DEF own
<1>9. ASSUME NEW item \in Delivered(g)', Whole(g, item)
      PROVE  \E k \in Places(g)' : Records(g)'[k].id = item.id
  <2>1. CASE item \in Delivered(g)
    <3>1. PICK k \in Places(g) : Records(g)[k].id = item.id
      BY <1>8, <1>9, <2>1
    <3> QED
      BY <1>6, <3>1 DEF Grown
  <2>2. CASE item \notin Delivered(g)
    <3>1. g = f /\ \E a \in DOMAIN items : item = items[a]
      BY <1>7, <1>9, <2>2
    <3>2. PICK a \in DOMAIN items : item = items[a]
      BY <3>1
    <3>3. L + a \in Places(g)' /\ Records(g)'[L + a] = MessageOf(g, items[a])
      BY <1>5, <1>6, <3>1 DEF Grown
    <3>4. Records(g)'[L + a].id = item.id
      BY <3>2, <3>3 DEF MessageOf, Msg
    <3> QED
      BY <3>3, <3>4
  <2> QED
    BY <2>1, <2>2
<1>10. ASSUME NEW k, k \in Places(g)'
       PROVE  \E item \in Delivered(g)' : Whole(g, item) /\ Records(g)'[k] = MessageOf(g, item)
  <2>1. CASE k \in Places(g)
    <3>1. PICK item \in Delivered(g) : Whole(g, item) /\ Records(g)[k] = MessageOf(g, item)
      BY <1>8, <2>1
    <3>2. Records(g)'[k] = Records(g)[k]
      BY <1>6, <2>1 DEF Grown
    <3> QED
      BY <1>7, <3>1, <3>2
  <2>2. CASE k \notin Places(g)
    <3>1. own /\ \E i \in DOMAIN items : k = L + i
      BY <1>6, <1>10, <2>2 DEF Grown
    <3>2. PICK i \in DOMAIN items : k = L + i
      BY <3>1
    <3>3. Records(g)'[k] = MessageOf(g, items[i])
      BY <1>6, <3>1, <3>2 DEF Grown
    <3>4. Whole(g, items[i]) /\ items[i] \in Delivered(g)'
      BY <1>1, <1>5, <1>7, <3>1
    <3> QED
      BY <3>3, <3>4
  <2> QED
    BY <2>1, <2>2
<1> QED
  BY <1>9, <1>10

\* A frame that gives no messages.
LEMMA SilentFaith ==
  ASSUME NEW l \in Labels, Taking(l), store' = store,
         wire[l][1].items # <<>> => /\ Batch(wire[l][1].feed, wire[l][1].items)
                                    /\ ~ Whole(wire[l][1].feed, wire[l][1].items[1])
  PROVE  Faithful'
<1>1. FdInv /\ conn' = conn
  BY TakingIs
<1>2. /\ Configured' = Configured /\ \A h, item : MessageOf(h, item)' = MessageOf(h, item)
      /\ \A f : StoreSymbol(f)' = StoreSymbol(f)
  BY <1>1, ConnKept
<1>3. \A f : Places(f)' = Places(f) /\ Records(f)' = Records(f)
  BY <1>2 DEF Places, Records
<1>4. ASSUME NEW f, NEW items, f = wire[l][1].feed, items = wire[l][1].items, NEW a \in DOMAIN items
      PROVE  ~ Whole(f, items[a])
  <2>1. items # <<>>
    <3>1. DOMAIN <<>> = {}
      BY EmptySeq, LenProperties
    <3> QED
      BY <1>4, <3>1
  <2>2. Batch(f, items) /\ ~ Whole(f, items[1])
    BY <1>4, <2>1
  <2>3. IsSeq(items) /\ Len(items) = 1
    BY <2>2 DEF Batch, Whole
  <2>4. a = 1
    BY <1>4, <2>3, SeqFacts
  <2> QED
    BY <2>2, <2>4
<1>5. ASSUME NEW g, NEW item, Whole(g, item)
      PROVE  item \in Delivered(g)' <=> item \in Delivered(g)
  <2>1. ASSUME g = wire[l][1].feed, NEW a \in DOMAIN wire[l][1].items, item = wire[l][1].items[a]
        PROVE  FALSE
    <3>1. ASSUME NEW items, items = wire[l][1].items PROVE ~ Whole(g, items[a])
      BY <1>4, <2>1, <3>1
    <3> QED
      BY <1>5, <2>1, <3>1
  <2> QED
    BY <2>1, Delivers
<1> QED
  BY <1>1, <1>2, <1>3, <1>5 DEF FdInv, Faithful

LEMMA DeliverShape ==
  ASSUME NEW l \in Labels, Taking(l), NEW s, store' = s, s = [n \in StoreNames |-> s[n]],
         \A n \in StoreNames : IsSeq(s[n]), seen' = [m \in Labels |-> seen'[m]]
  PROVE  Shape'
<1>1. /\ FdInv /\ conn' = conn /\ up' = up /\ counts' = counts /\ breaks' = breaks /\ l \in up
      /\ conn \in Configs /\ up \subseteq Running
  BY TakingIs
<1>2. Running' = Running
  BY <1>1, ConnKept
<1>3. wire' = [m \in Labels |-> wire'[m]] /\ \A m \in Labels : IsSeq(wire'[m]) /\ (m # l => wire'[m] = wire[m])
  BY Moves
<1>4. \A m \in Labels : m \notin up' => wire'[m] = <<>>
  BY <1>1, <1>3 DEF FdInv, Shape
<1>5. store' = [n \in StoreNames |-> store'[n]] /\ \A n \in StoreNames : IsSeq(store'[n])
  OBVIOUS
<1> QED
  BY <1>1, <1>2, <1>3, <1>4, <1>5 DEF FdInv, Shape

\* A frame delivered.
LEMMA DeliverKeeps ==
  ASSUME FdInv, NEW l \in Labels, Deliver(l)
  PROVE  FdInv'
<1> DEFINE e == wire[l][1]
<1>1. Taking(l)
  BY DeliverTakes DEF Taking
<1>2. conn' = conn /\ counts' = counts /\ due' = due /\ Shape
  BY <1>1, TakingIs DEF FdInv
<1>3. Wires'
  BY <1>1, DeliverWires
<1>4. Owed'
  <2>1. OnWires' \subseteq OnWires
    BY <1>1, Leaves
  <2> QED
    BY <1>2, <2>1 DEF FdInv, Owed
<1>5. CASE /\ seen' = seen /\ store' = store
           /\ e.items # <<>> => Served(l, e.feed) /\ Batch(e.feed, e.items) /\ ~ Whole(e.feed, e.items[1])
  <2>1. Known' /\ Filed' /\ Rising'
    BY <1>1, <1>2, <1>5, StillPassed, StoresKept
  <2>2. Faithful'
    BY <1>1, <1>5, SilentFaith
  <2>3. store = [n \in StoreNames |-> store[n]] /\ \A n \in StoreNames : IsSeq(store[n])
    BY <1>2 DEF Shape
  <2>4. seen' = [m \in Labels |-> seen'[m]]
    BY <1>2, <1>5 DEF Shape
  <2>5. Shape'
    BY <1>1, <1>5, <2>3, <2>4, DeliverShape
  <2> QED
    BY <1>3, <1>4, <2>1, <2>2, <2>5 DEF FdInv
<1>6. CASE /\ Served(l, e.feed) /\ Batch(e.feed, e.items) /\ Whole(e.feed, e.items[1])
           /\ seen' = [seen EXCEPT ![l] = @ \cup {Heard(Messages(e)[i]) : i \in DOMAIN e.items}]
           /\ store' = [n \in StoreNames |->
                          IF Kept(l, e.feed) /\ n = <<e.feed.market, e.feed.kind>>
                          THEN store[n] \o Messages(e) ELSE store[n]]
  <2> SUFFICES ASSUME NEW f, NEW items, f = e.feed, items = e.items
               PROVE  FdInv'
    OBVIOUS
  <2>1. Messages(e) = [i \in DOMAIN items |-> MessageOf(f, items[i])]
    BY DEF Messages
  <2>2. {Heard(Messages(e)[i]) : i \in DOMAIN e.items} = {Heard(MessageOf(f, items[i])) : i \in DOMAIN items}
    BY <2>1
  <2>3. Writes(l, f, items)
    BY <1>6, <2>1 DEF Writes
  <2>4. seen' = [seen EXCEPT ![l] = @ \cup {Heard(MessageOf(f, items[i])) : i \in DOMAIN items}]
    BY <1>6, <2>2
  <2>5. Written(l, f, items)
    BY <1>1, <1>6, <2>3, <2>4 DEF Written
  <2>6. Known' /\ Filed' /\ Rising' /\ Faithful'
    BY <2>5, WrittenKnown, WrittenFiles, WrittenFaith
  <2>7. IsSeq(items)
    BY <2>5, WrittenIs
  <2>8. \A n \in StoreNames : IsSeq(store'[n])
    BY <1>2, <2>3, <2>7, WriteIs
  <2>9. store' = [n \in StoreNames |-> store'[n]]
    BY <2>3 DEF Writes
  <2>10. seen' = [m \in Labels |-> seen'[m]]
    BY <1>2, <2>4 DEF Shape
  <2>11. Shape'
    <3>1. ASSUME NEW s, s = store' PROVE Shape'
      BY <1>1, <2>8, <2>9, <2>10, <3>1, DeliverShape
    <3> QED
      BY <3>1
  <2> QED
    BY <1>3, <1>4, <2>6, <2>11 DEF FdInv
<1>7. Taken(l, e)
  BY <1>1 DEF Taking
<1> HIDE DEF e
<1> QED
  BY <1>5, <1>6, <1>7 DEF Taken

LEMMA NextFdInv == FdInv /\ [Next]_vars => FdInv'
<1> SUFFICES ASSUME FdInv, [Next]_vars PROVE FdInv'
  OBVIOUS
<1>1. CASE UNCHANGED vars
  <2>1. UNCHANGED <<conn, up, wire, counts, seen, store, breaks, due>>
    BY <1>1 DEF vars
  <2>2. ASSUME NEW f \in Feeds, NEW n \in Nat, Passed(f, n) PROVE Passed(f, n)'
    BY <2>1, <2>2 DEF Passed, Ahead
  <2>3. Known' /\ Filed' /\ Rising'
    BY <2>1, <2>2, StoresKept
  <2>4. OnWires' = OnWires
    BY <2>1 DEF OnWires, Carried
  <2>5. Faithful'
    <3>1. \A f \in Configured : Delivered(f)' = Delivered(f)
      BY <2>1, <2>4 DEF Delivered
    <3> QED
      BY <2>1, <3>1, FaithKept
  <2>6. Owed'
    BY <2>1, <2>4 DEF FdInv, Owed
  <2>7. Shape'
    <3>1. Running' = Running
      BY <2>1, ConnKept
    <3> QED
      BY <2>1, <3>1 DEF FdInv, Shape
  <2>8. Wires'
    <3>1. \A l, e : Entry(l, e)' <=> Entry(l, e)
      <4>1. \A f, items : Batch(f, items)' <=> Batch(f, items)
        BY <2>1 DEF Batch
      <4>2. /\ \A k, f : Served(k, f)' <=> Served(k, f)
            /\ \A k, frame : Parse(Stream(k), frame)' = Parse(Stream(k), frame)
            /\ \A f, items : MessagesOf(f, items)' = MessagesOf(f, items)
        BY <2>1, ConnKept
      <4> QED
        BY <4>1, <4>2 DEF Entry
    <3>2. ASSUME NEW l, NEW i, Entry(l, wire[l][i]) PROVE Entry(l, wire[l][i])'
      <4>1. ASSUME NEW x, x = wire[l][i] PROVE Entry(l, x)'
        BY <3>1, <3>2, <4>1
      <4>2. wire'[l][i] = wire[l][i]
        BY <2>1
      <4> QED
        BY <4>1, <4>2 DEF Entry
    <3> QED
      BY <2>1, <3>2 DEF FdInv, Wires
  <2> QED
    BY <2>3, <2>5, <2>6, <2>7, <2>8 DEF FdInv
<1>2. ASSUME NEW l \in Labels, Connect(l) PROVE FdInv'
  BY <1>2, ConnectKeeps
<1>3. ASSUME NEW l \in Labels, Break(l) PROVE FdInv'
  BY <1>3, BreakKeeps
<1>4. ASSUME NEW l \in Labels, Deliver(l) PROVE FdInv'
  BY <1>4, DeliverKeeps
<1>5. ASSUME NEW feed \in Feeds, Publish(feed) PROVE FdInv'
  BY <1>5, PublishKeeps
<1> QED
  BY <1>1, <1>2, <1>3, <1>4, <1>5 DEF Next

(* FdInv is an invariant: the frames on a wire parse to the messages of    *)
(* their news and ids rise along it; what is known and what is stored has  *)
(* been passed by all that is on its way; a store has one copy of each     *)
(* news that was delivered, and nothing else.                              *)
THEOREM FdInvariance == Spec => []FdInv
BY InitFdInv, NextFdInv, PTL DEF Spec

(* The variables have their types.                                         *)
THEOREM FdTypeCorrect == Spec => []FdTypeOK
<1>1. FdInv => FdTypeOK
  <2> SUFFICES ASSUME FdInv PROVE FdTypeOK
    OBVIOUS
  <2> USE DEF FdInv
  <2>1. \A l \in Labels : \A i \in DOMAIN wire[l] : wire[l][i].feed \in Feeds \cup {<<>>}
    <3> SUFFICES ASSUME NEW l \in Labels, NEW i \in DOMAIN wire[l]
                 PROVE  wire[l][i].feed \in Feeds \cup {<<>>}
      OBVIOUS
    <3>1. CASE l \in up
      <4>1. Entry(l, wire[l][i])
        BY <3>1 DEF Wires
      <4> QED
        BY <4>1 DEF Entry, Served
    <3>2. CASE l \notin up
      <4>1. DOMAIN <<>> = {}
        BY EmptySeq, LenProperties
      <4> QED
        BY <3>2, <4>1 DEF Shape
    <3> QED
      BY <3>1, <3>2
  <2> QED
    BY <2>1 DEF Shape, FdTypeOK
<1> QED
  BY <1>1, FdInvariance, PTL

(* A record is in the store of the market and kind its news is from, with  *)
(* that market's product type wherever the frame tells it, and its id was  *)
(* given: whatever pairs and spellings the configuration has, and whatever *)
(* kinds of Binance futures frames carry "ps".                             *)
THEOREM OnItsMarketHolds == Spec => []OnItsMarket
<1>1. FdInv => OnItsMarket
  <2> SUFFICES ASSUME FdInv, NEW n \in StoreNames, NEW k \in DOMAIN store[n]
               PROVE  LET r == store[n][k]
                      IN  \E feed \in Feeds :
                            /\ feed.market = n[1] /\ feed.kind = n[2]
                            /\ feed.pair = r.sym.pair /\ r.id <= counts[feed]
                            /\ Unmarked(feed) \/ r.product = feed.market
    BY DEF OnItsMarket
  <2>1. PICK f \in Feeds : n = <<f.market, f.kind>> /\ k \in Places(f)
    BY DEF FdInv, Filed
  <2>2. Records(f) = store[n] /\ store[n][k].sym = StoreSymbol(f)
    BY <2>1 DEF Records, Places
  <2>3. store[n][k].product = ProductOf(f) /\ Passed(f, store[n][k].id)
    BY <2>1, <2>2 DEF FdInv, Rising
  <2>4. store[n][k].id <= counts[f]
    BY <2>3 DEF Passed, FdInv, Shape
  <2>5. f.pair = store[n][k].sym.pair
    BY <2>2, PairOf
  <2>6. Unmarked(f) \/ store[n][k].product = f.market
    BY <2>3 DEF ProductOf
  <2> QED
    BY <2>1, <2>4, <2>5, <2>6
<1> QED
  BY <1>1, FdInvariance, PTL

(* Every trade and aggregate delivered for a configured symbol is in its   *)
(* store, once, oldest first, however many trades a frame has.             *)
THEOREM EveryTradeOnceHolds == Spec => []EveryTradeOnce
<1>1. FdInv => EveryTradeOnce
  <2> SUFFICES ASSUME FdInv, NEW f \in Configured, f.kind \in {"trade", "agg"}
               PROVE  /\ {Records(f)[k].id : k \in Places(f)} = {i.id : i \in Delivered(f)}
                      /\ \A j, k \in Places(f) : j < k => Records(f)[j].id < Records(f)[k].id
    BY DEF EveryTradeOnce
  <2>1. f \in Feeds /\ \A item : Whole(f, item)
    BY DEF Configured, Whole
  <2>2. \A item \in Delivered(f) : \E k \in Places(f) : Records(f)[k].id = item.id
    BY <2>1 DEF FdInv, Faithful
  <2>3. \A k \in Places(f) : \E item \in Delivered(f) : Records(f)[k].id = item.id
    <3> SUFFICES ASSUME NEW k \in Places(f)
                 PROVE  \E item \in Delivered(f) : Records(f)[k].id = item.id
      OBVIOUS
    <3>1. PICK item \in Delivered(f) : Records(f)[k] = MessageOf(f, item)
      BY DEF FdInv, Faithful
    <3> QED
      BY <3>1 DEF MessageOf, Msg
  <2>4. \A j, k \in Places(f) : j < k => Records(f)[j].id < Records(f)[k].id
    BY <2>1 DEF FdInv, Rising
  <2> QED
    BY <2>2, <2>3, <2>4
<1> QED
  BY <1>1, FdInvariance, PTL

\* The news of a feed, by id.
LEMMA OneOfAnId ==
  ASSUME FdInv, NEW f, NEW i \in Delivered(f), NEW j \in Delivered(f)
  PROVE  i.id \in Nat /\ (i.id = j.id => i = j)
<1>1. PICK d \in due : d.feed = f /\ d.item = i
  BY DEF Delivered
<1>2. PICK e \in due : e.feed = f /\ e.item = j
  BY DEF Delivered
<1>3. d.feed \in Feeds /\ d.item.id \in 1 .. counts[d.feed] /\ (d.item.id = e.item.id => d = e)
  BY <1>1, <1>2 DEF FdInv, Owed
<1> QED
  BY <1>1, <1>2, <1>3 DEF FdInv, Shape

(* The newest record of a configured symbol is the newest news delivered,  *)
(* with its body as the exchange sent it, whatever the depths and the      *)
(* lengths of SBE blocks; Bybit's depth, sent in differences, is left to   *)
(* OrderBook.                                                              *)
THEOREM ShowsNewestHolds == Spec => []ShowsNewest
<1>1. FdInv => ShowsNewest
  <2> SUFFICES ASSUME FdInv, NEW f \in Configured,
                      {i \in Delivered(f) : Whole(f, i)} # {}
               PROVE  LET told   == {i \in Delivered(f) : Whole(f, i)}
                          newest == CHOOSE i \in told : \A j \in told : j.id <= i.id
                          shown  == Records(f)[Max(Places(f))]
                      IN  Places(f) # {} /\ shown.id = newest.id /\ shown.body = Expected(f, newest)
    BY DEF ShowsNewest
  <2> DEFINE told == {i \in Delivered(f) : Whole(f, i)}
             newest == CHOOSE i \in told : \A j \in told : j.id <= i.id
             m == Max(Places(f))
             r == Records(f)
  <2>1. /\ \A i \in told : \E k \in Places(f) : r[k].id = i.id
        /\ \A k \in Places(f) : \E i \in told : r[k] = MessageOf(f, i)
    BY DEF FdInv, Faithful
  <2>2. f \in Feeds
    BY DEF Configured
  <2>3. \A j, k \in Places(f) : j < k => r[j].id < r[k].id
    BY <2>2 DEF FdInv, Rising
  <2>4. Len(r) \in Nat /\ Places(f) \in SUBSET (1 .. Len(r))
    <3>1. IsSeq(r)
      BY <2>2, FeedIs DEF FdInv, Shape, Records
    <3>2. Len(r) \in Nat /\ DOMAIN r = 1 .. Len(r)
      BY <3>1, SeqFacts
    <3> QED
      BY <3>2 DEF Places
  <2>5. Places(f) # {}
    BY <2>1
  <2>6. m \in Places(f) /\ \A k \in Places(f) : m >= k
    BY <2>4, <2>5, MaxUpTo
  <2>7. \A i, j \in told : i.id \in Nat /\ (i.id = j.id => i = j)
    BY OneOfAnId
  <2> HIDE DEF told, m, r
  <2>8. PICK x \in told : r[m] = MessageOf(f, x)
    BY <2>1, <2>6
  <2>9. r[m].id = x.id /\ r[m].body = Expected(f, x)
    BY <2>8 DEF MessageOf, Msg
  <2>10. ASSUME NEW j \in told PROVE j.id <= x.id
    <3>1. PICK k \in Places(f) : r[k].id = j.id
      BY <2>1
    <3>2. k \in Nat /\ m \in Nat /\ (k = m \/ k < m)
      BY <2>4, <2>6
    <3>3. j.id \in Nat /\ x.id \in Nat
      BY <2>7
    <3> QED
      BY <2>3, <2>6, <2>9, <3>1, <3>2, <3>3
  <2>11. newest \in told /\ \A j \in told : j.id <= newest.id
    BY <2>10
  <2> HIDE DEF newest
  <2>12. newest = x
    <3>1. newest.id \in Nat /\ x.id \in Nat /\ x.id <= newest.id /\ newest.id <= x.id
      BY <2>7, <2>10, <2>11
    <3>2. newest.id = x.id
      BY <3>1
    <3> QED
      BY <2>7, <2>11, <3>2
  <2> QED
    BY <2>5, <2>9, <2>12 DEF newest, told, m, r
<1> QED
  BY <1>1, FdInvariance, PTL

=============================================================================

--------------------------- MODULE WsClientProofs ---------------------------
(***************************************************************************)
(* Proofs about the two WebSocket clients of k4-core/src/ws.               *)
(*                                                                         *)
(* Part one, WsConnection, for a channel of any size and any number of     *)
(* messages and reconnects: what send() accepted is written in that order, *)
(* and what waits in the channel is still to come.                         *)
(*                                                                         *)
(* Part two, Redundant, for any number of connections, any histogram and   *)
(* any latencies: one task for each place, collectors that summarise the   *)
(* samples of their place, and the slowest connection replaced.  The sums  *)
(* are folds, and what a fold computes is proved by induction: a set of    *)
(* naturals has a least member, so a least counterexample is enough.       *)
(***************************************************************************)
EXTENDS WsConnection, Redundant, SequenceTheorems, FiniteSetTheorems, TLAPS

-----------------------------------------------------------------------------
(* Part one: the connection.                                               *)

\* The messages that the task has taken from the channel are 1 .. Taken.
Taken == sent - Len(outbound)

Queued == /\ Len(outbound) <= sent
          /\ \A i \in 1 .. Len(outbound) : outbound[i] = Taken + i
InHand == pc = "writing" => /\ writing = Taken /\ writing \in 1 .. MaxSends
                            /\ \A j \in 1 .. Len(wire) : wire[j] < writing
Written == \A j \in 1 .. Len(wire) : wire[j] <= Taken

(* A message is in one place: on the wire, in the task's hand, or queued.  *)
IInv == TypeOK /\ Queued /\ InHand /\ Written /\ WireInOrder

LEMMA InitIInv == Init => IInv
<1> SUFFICES ASSUME Init PROVE IInv
  OBVIOUS
<1>1. TypeOK
  <2>1. outbound = <<>> /\ wire = <<>> /\ Len(<<>>) = 0
    BY DEF Init
  <2>2. outbound \in Seq(1 .. MaxSends) /\ wire \in Seq(1 .. MaxSends)
    BY <2>1
  <2>3. backoff \in BaseWait .. MaxWait /\ Len(outbound) <= OutCap
    BY <2>1, WsBounds DEF Init
  <2>4. sent \in 0 .. MaxSends /\ writing \in 0 .. MaxSends /\ frames \in 0 .. MaxFrames
    BY WsBounds DEF Init
  <2> QED
    BY <2>2, <2>3, <2>4 DEF Init, TypeOK, Awaits
<1>2. Len(outbound) = 0 /\ Len(wire) = 0
  BY DEF Init
<1> QED
  BY <1>1, <1>2 DEF Init, IInv, Queued, InHand, Written, WireInOrder, Taken

-----------------------------------------------------------------------------
(* What a step does to the messages.                                       *)

\* A step that moves no message; it does not come to write one either.
Still == UNCHANGED <<sent, outbound, wire>>

LEMMA StillKeeps ==
  ASSUME IInv, TypeOK', Still, pc' # "writing"
  PROVE  IInv'
BY DEF Still, IInv, Queued, InHand, Written, WireInOrder, Taken

LEMMA UnchangedKeeps == IInv /\ UNCHANGED vars => IInv'
BY DEF IInv, vars, taskvars, ownervars, TypeOK, Queued, InHand, Written, WireInOrder, Taken

\* The owner moves on: only its own variables change.
LEMMA OwnerKeeps ==
  ASSUME IInv, UNCHANGED <<taskvars, sent>>,
         owner' \in {"running", "stopping", "stopped", "gone"},
         shutdown' \in {"no", "signalled", "dropped"}
  PROVE  IInv'
BY DEF taskvars, IInv, TypeOK, Queued, InHand, Written, WireInOrder, Taken

LEMMA SendKeeps == ASSUME IInv, Send PROVE IInv'
<1> USE DEF IInv, Send
<1>1. /\ outbound \in Seq(1 .. MaxSends) /\ sent' \in 1 .. MaxSends /\ Len(outbound) \in Nat
      /\ sent \in Nat /\ OutCap \in Nat /\ MaxSends \in Nat
  BY WsBounds DEF TypeOK
<1>2. /\ outbound' \in Seq(1 .. MaxSends) /\ Len(outbound') = Len(outbound) + 1
      /\ \A i \in 1 .. Len(outbound) : outbound'[i] = outbound[i]
      /\ outbound'[Len(outbound) + 1] = sent + 1
  BY <1>1
<1>3. TypeOK'
  BY <1>1, <1>2 DEF TypeOK
<1>4. Taken' = Taken
  BY <1>1, <1>2 DEF Taken
<1>5. Queued'
  <2>1. ASSUME NEW i \in 1 .. Len(outbound') PROVE outbound'[i] = Taken' + i
    <3>1. CASE i = Len(outbound) + 1
      BY <1>1, <1>2, <1>4, <3>1 DEF Taken
    <3>2. CASE i # Len(outbound) + 1
      <4>1. i \in 1 .. Len(outbound)
        BY <1>1, <1>2, <2>1, <3>2
      <4> QED
        BY <1>2, <1>4, <4>1 DEF Queued
    <3> QED
      BY <3>1, <3>2
  <2> QED
    BY <1>1, <1>2, <2>1 DEF Queued
<1>6. InHand' /\ Written' /\ WireInOrder'
  BY <1>4 DEF InHand, Written, WireInOrder
<1> QED
  BY <1>3, <1>5, <1>6

LEMMA TakeKeeps == ASSUME IInv, TakeOutbound PROVE IInv'
<1> USE DEF IInv, TakeOutbound, Goto, ownervars
<1>1. /\ outbound \in Seq(1 .. MaxSends) /\ outbound # <<>> /\ Len(outbound) \in Nat
      /\ sent \in Nat /\ OutCap \in Nat
  BY WsBounds DEF TypeOK
<1>2. /\ outbound' \in Seq(1 .. MaxSends) /\ Len(outbound') = Len(outbound) - 1
      /\ \A i \in 1 .. Len(outbound') : outbound'[i] = outbound[i + 1]
      /\ Len(outbound) >= 1
  BY <1>1, HeadTailProperties, EmptySeq
<1>3. writing' = outbound[1] /\ writing' \in 1 .. MaxSends
  <2>1. writing' = outbound[1]
    BY <1>1 DEF TypeOK
  <2>2. 1 \in 1 .. Len(outbound) /\ outbound \in Seq(1 .. MaxSends)
    BY <1>1, <1>2
  <2>3. outbound[1] \in 1 .. MaxSends
    BY <2>2, ElementOfSeq, Zenon
  <2> QED
    BY <2>1, <2>3
<1>4. TypeOK'
  BY <1>1, <1>2, <1>3 DEF TypeOK, Awaits
<1>5. Taken' = Taken + 1 /\ Taken \in Nat
  BY <1>1, <1>2 DEF Taken, Queued
<1>6. Queued'
  BY <1>1, <1>2, <1>5 DEF Queued
<1>7. writing' = Taken' /\ writing' \in 1 .. MaxSends
  BY <1>1, <1>2, <1>5, <1>3 DEF Queued
<1>8. wire \in Seq(1 .. MaxSends) /\ \A j \in 1 .. Len(wire) : wire[j] \in Nat /\ wire[j] < Taken'
  <2>1. wire \in Seq(1 .. MaxSends)
    BY DEF TypeOK
  <2>2. \A j \in 1 .. Len(wire) : wire[j] \in 1 .. MaxSends
    BY <2>1, ElementOfSeq
  <2> QED
    BY <1>5, <2>1, <2>2, WsBounds DEF Written
<1>9. InHand' /\ Written' /\ WireInOrder'
  BY <1>5, <1>7, <1>8 DEF InHand, Written, WireInOrder
<1> QED
  BY <1>4, <1>6, <1>9

LEMMA WrittenKeeps == ASSUME IInv, MessageWritten PROVE IInv'
<1> USE DEF IInv, MessageWritten, Goto, ownervars
<1>1. /\ wire \in Seq(1 .. MaxSends) /\ Len(wire) \in Nat /\ writing \in 0 .. MaxSends
      /\ sent \in Nat /\ Len(outbound) \in Nat /\ MaxSends \in Nat
  BY WsBounds DEF TypeOK
<1>2. writing = Taken /\ \A j \in 1 .. Len(wire) : wire[j] < writing
  BY DEF InHand
<1>3. writing \in 1 .. MaxSends
  BY DEF InHand
<1>4. /\ wire' \in Seq(1 .. MaxSends) /\ Len(wire') = Len(wire) + 1
      /\ \A j \in 1 .. Len(wire) : wire'[j] = wire[j]
      /\ wire'[Len(wire) + 1] = writing
  BY <1>1, <1>3
<1>5. TypeOK'
  BY <1>1, <1>4 DEF TypeOK, Awaits
<1>6. Taken' = Taken /\ Queued' /\ InHand'
  BY DEF Taken, Queued, InHand
<1>7. \A j \in 1 .. Len(wire') : j \in 1 .. Len(wire) \/ j = Len(wire) + 1
  BY <1>1, <1>4
<1>8. Written'
  BY <1>2, <1>4, <1>6, <1>7, <1>1 DEF Written
<1>9. WireInOrder'
  <2>1. ASSUME NEW i \in 1 .. Len(wire'), NEW j \in 1 .. Len(wire'), i < j
        PROVE  wire'[i] < wire'[j]
    <3>1. i \in 1 .. Len(wire)
      BY <1>1, <1>4, <2>1
    <3>2. CASE j \in 1 .. Len(wire)
      BY <1>4, <2>1, <3>1, <3>2 DEF WireInOrder
    <3>3. CASE j = Len(wire) + 1
      BY <1>2, <1>4, <3>1, <3>3
    <3> QED
      BY <1>7, <3>2, <3>3
  <2> QED
    BY <2>1 DEF WireInOrder
<1> QED
  BY <1>5, <1>6, <1>8, <1>9

-----------------------------------------------------------------------------
(* The other steps of the task.                                            *)

LEMMA ConnectKeeps == ASSUME IInv, Top \/ Connecting \/ Subscribing \/ Waiting PROVE IInv'
<1> USE DEF Goto, GotoOnly, ownervars
<1>1. Still /\ pc' # "writing"
  BY DEF Still, Top, Connecting, Connected, ConnectFails, Subscribing, SubscribeSent,
         SubscribeFails, Waiting, WaitOver, WaitCut
<1>2. TypeOK'
  <2>1. /\ pc' \in Awaits
        /\ UNCHANGED <<shutdown, owner, sent, outbound, wire, writing, frames>>
        /\ ticked' \in BOOLEAN /\ pinged' \in BOOLEAN
    BY DEF IInv, TypeOK, Awaits, Top, Connecting, Connected, ConnectFails, Subscribing,
           SubscribeSent, SubscribeFails, Waiting, WaitOver, WaitCut
  <2>2. backoff' \in BaseWait .. MaxWait
    BY WsBounds DEF IInv, TypeOK, Top, Connecting, Connected, ConnectFails, Subscribing,
                    SubscribeSent, SubscribeFails, Waiting, WaitOver, WaitCut
  <2> QED
    BY <2>1, <2>2 DEF IInv, TypeOK
<1> QED
  BY <1>1, <1>2, StillKeeps DEF IInv

LEMMA ServeKeeps ==
  ASSUME IInv, ShutdownSeen \/ ReadFrame \/ ReadPing \/ ReadEnds \/ IntervalTick
                 \/ PongWritten \/ WriteFails \/ Closed
  PROVE  IInv'
<1> USE DEF Goto, GotoOnly, ownervars
<1>1. Still /\ pc' # "writing"
  BY DEF Still, ShutdownSeen, ReadFrame, ReadPing, ReadEnds, IntervalTick, PongWritten,
         WriteFails, Closed
<1>2. TypeOK'
  <2>1. /\ pc' \in Awaits /\ UNCHANGED <<backoff, shutdown, owner, sent, outbound, wire, pinged>>
        /\ ticked' \in BOOLEAN
    BY DEF IInv, TypeOK, Awaits, ShutdownSeen, ReadFrame, ReadPing, ReadEnds, IntervalTick,
           PongWritten, WriteFails, Closed
  <2>2. frames' \in 0 .. MaxFrames /\ writing' \in 0 .. MaxSends
    BY WsBounds DEF IInv, TypeOK, ShutdownSeen, ReadFrame, ReadPing, ReadEnds, IntervalTick,
                    PongWritten, WriteFails, Closed
  <2> QED
    BY <2>1, <2>2 DEF IInv, TypeOK
<1> QED
  BY <1>1, <1>2, StillKeeps DEF IInv

LEMMA NextIInv == IInv /\ [Next]_vars => IInv'
<1> SUFFICES ASSUME IInv, [Next]_vars PROVE IInv'
  OBVIOUS
<1>1. CASE UNCHANGED vars
  BY <1>1, UnchangedKeeps
<1>2. CASE CallStop \/ StopReturns \/ DropConnection
  <2>1. /\ UNCHANGED <<taskvars, sent>> /\ owner' \in {"running", "stopping", "stopped", "gone"}
        /\ shutdown' \in {"no", "signalled", "dropped"}
    BY <1>2 DEF CallStop, StopReturns, DropConnection, IInv, TypeOK
  <2> QED
    BY <2>1, OwnerKeeps
<1>3. CASE Send
  BY <1>3, SendKeeps
<1>4. CASE Task
  BY <1>4, ConnectKeeps, ServeKeeps, TakeKeeps, WrittenKeeps DEF Task, Serving, Writing
<1> QED
  BY <1>1, <1>2, <1>3, <1>4 DEF Next, Owner

-----------------------------------------------------------------------------
\* The invariant of WsConnection, which the theorems below rest on.
THEOREM Invariance == Spec => []IInv
BY InitIInv, NextIInv, PTL DEF Spec

(* Every variable keeps its type; the channel keeps its capacity.          *)
THEOREM TypeCorrect == Spec => []TypeOK
<1>1. IInv => TypeOK
  BY DEF IInv
<1> QED
  BY <1>1, Invariance, PTL

(* client.rs:217-224: messages are written in the order they were sent, at *)
(* most once each, over any number of reconnects.                          *)
THEOREM SentInOrder == Spec => []WireInOrder
<1>1. IInv => WireInOrder
  BY DEF IInv
<1> QED
  BY <1>1, Invariance, PTL

(* client.rs:119-151: reconnecting leaves the channel alone, so what waits *)
(* there is exactly what was accepted last, and none of it was written.    *)
THEOREM QueueSurvives == Spec => []QueuedAfterWire
<1>1. ASSUME IInv, NEW i \in 1 .. Len(outbound), NEW j \in 1 .. Len(wire)
      PROVE  wire[j] < outbound[i]
  <2>1. /\ wire[j] <= Taken /\ outbound[i] = Taken + i /\ i > 0
        /\ Taken \in Int /\ wire[j] \in Int /\ i \in Int
    <3>1. wire \in Seq(1 .. MaxSends) /\ outbound \in Seq(1 .. MaxSends) /\ sent \in Nat
      BY <1>1, WsBounds DEF IInv, TypeOK
    <3>2. wire[j] \in 1 .. MaxSends
      BY <3>1, ElementOfSeq
    <3> QED
      BY <1>1, <3>1, <3>2 DEF IInv, Queued, Written, Taken
  <2> QED
    BY <2>1
<1>2. IInv => QueuedAfterWire
  BY <1>1 DEF QueuedAfterWire, IInv, Queued, Taken
<1> QED
  BY <1>2, Invariance, PTL

-----------------------------------------------------------------------------
(* Part two: the redundant client.  First, sums of latencies.              *)

\* A set of naturals has a least member.
LEMMA Least ==
  ASSUME NEW T \in SUBSET Nat, T # {}
  PROVE  \E x \in T : \A y \in T : x <= y
<1>1. PICK x \in T : \A y \in T : ~ (<<y, x>> \in OpToRel(<, Nat))
  BY NatLessThanWellFounded, WFMin
<1>2. \A y \in T : ~ (y < x)
  BY <1>1 DEF OpToRel
<1> QED
  BY <1>2

LEMMA MinNat ==
  ASSUME NEW T \in SUBSET Nat, T # {}
  PROVE  Min(T) \in T /\ \A y \in T : Min(T) <= y
BY Least DEF Min

\* A bounded one has a greatest.
LEMMA Greatest ==
  ASSUME NEW T \in SUBSET Nat, T # {}, NEW n \in Nat, \A y \in T : y <= n
  PROVE  \E x \in T : \A y \in T : x >= y
<1> DEFINE U == {m \in Nat : \A y \in T : y <= m}
<1>1. U \in SUBSET Nat /\ U # {}
  OBVIOUS
<1>2. PICK m \in U : \A v \in U : m <= v
  BY <1>1, Least
<1>3. m \in T
  <2> SUFFICES ASSUME m \notin T PROVE FALSE
    OBVIOUS
  <2>1. \A y \in T : y < m
    BY <1>2
  <2>2. m # 0
    <3>1. PICK y \in T : y < m
      BY <2>1
    <3>2. y \in Nat
      OBVIOUS
    <3> QED
      BY <3>1, <3>2
  <2>3. m - 1 \in U
    BY <2>1, <2>2
  <2> QED
    BY <1>2, <2>3
<1> QED
  BY <1>2, <1>3

LEMMA MaxNat ==
  ASSUME NEW T \in SUBSET Nat, T # {}, NEW n \in Nat, \A y \in T : y <= n
  PROVE  Max(T) \in T /\ \A y \in T : Max(T) >= y
BY Greatest DEF Max

\* h sums u over the sets of positions up to n, from the last one down: the
\* function that Total, a fold from the left, chooses.
Adds(h, u, n) ==
  h = [T \in SUBSET (1 .. n) |-> IF T = {} THEN 0 ELSE h[T \ {Max(T)}] + u[Max(T)]]

LEMMA MaxUpTo ==
  ASSUME NEW n \in Nat, NEW T \in SUBSET (1 .. n), T # {}
  PROVE  Max(T) \in T /\ \A y \in T : Max(T) >= y
<1>1. T \in SUBSET Nat /\ \A y \in T : y <= n
  OBVIOUS
<1> QED
  BY <1>1, MaxNat

LEMMA MaxIs ==
  ASSUME NEW n \in Nat, NEW T \in SUBSET (1 .. n), NEW m \in T, \A y \in T : y <= m
  PROVE  Max(T) = m
<1>1. Max(T) \in T /\ \A y \in T : Max(T) >= y
  BY MaxUpTo
<1>2. Max(T) >= m /\ Max(T) <= m
  BY <1>1
<1>4. Max(T) \in 1 .. n /\ m \in 1 .. n
  BY <1>1
<1>3. Max(T) = m
  BY <1>2, <1>4
<1> QED
  BY <1>3

\* There is such a function, by its extension from n to n + 1 ...
LEMMA AddsExists ==
  ASSUME NEW n \in Nat, NEW u \in [1 .. n -> Nat]
  PROVE  \E h \in [SUBSET (1 .. n) -> Nat] : Adds(h, u, n)
<1> DEFINE Good(k) == \E h \in [SUBSET (1 .. k) -> Nat] : Adds(h, u, k)
           Bad == {k \in 0 .. n : ~ Good(k)}
<1> SUFFICES ASSUME ~ Good(n) PROVE FALSE
  OBVIOUS
<1>1. PICK k \in Bad : \A j \in Bad : k <= j
  <2> HIDE DEF Good
  <2>1. Bad \in SUBSET Nat /\ n \in Bad
    OBVIOUS
  <2> QED
    BY <2>1, Least
<1>2. k # 0
  <2> SUFFICES Good(0)
    BY <1>1
  <2> DEFINE h == [T \in SUBSET (1 .. 0) |-> 0]
  <2>1. SUBSET (1 .. 0) = {{}}
    OBVIOUS
  <2>2. h \in [SUBSET (1 .. 0) -> Nat]
    OBVIOUS
  <2>3. h = [T \in SUBSET (1 .. 0) |-> IF T = {} THEN 0 ELSE h[T \ {Max(T)}] + u[Max(T)]]
    BY <2>1
  <2> QED
    BY <2>2, <2>3 DEF Adds
<1> DEFINE i == k - 1
<1>3. i \in 0 .. n /\ k \in 1 .. n /\ k = i + 1 /\ i \in Nat
  BY <1>1, <1>2
<1>4. Good(i)
  <2>1. i < k
    BY <1>3
  <2> HIDE DEF Good
  <2>2. i \notin Bad
    BY <1>1, <1>3, <2>1
  <2> QED
    BY <1>3, <2>2
<1>5. PICK h \in [SUBSET (1 .. i) -> Nat] : Adds(h, u, i)
  BY <1>4
<1> HIDE DEF i
<1> DEFINE g == [T \in SUBSET (1 .. k) |-> IF k \in T THEN h[T \ {k}] + u[k] ELSE h[T]]
<1>6. \A T \in SUBSET (1 .. k) : /\ k \in T => T \ {k} \in SUBSET (1 .. i)
                                /\ k \notin T => T \in SUBSET (1 .. i)
  <2> SUFFICES ASSUME NEW T \in SUBSET (1 .. k)
               PROVE  /\ k \in T => T \ {k} \in SUBSET (1 .. i)
                      /\ k \notin T => T \in SUBSET (1 .. i)
    OBVIOUS
  <2>1. \A y \in T : y # k => y \in 1 .. i
    BY <1>3
  <2> QED
    BY <2>1
<1>7. g \in [SUBSET (1 .. k) -> Nat]
  BY <1>3, <1>6
<1>8. ASSUME NEW T \in SUBSET (1 .. k)
      PROVE  g[T] = IF T = {} THEN 0 ELSE g[T \ {Max(T)}] + u[Max(T)]
  <2>1. CASE k \in T
    <3>1. Max(T) = k
      <4>1. k \in Nat /\ \A y \in T : y <= k
        BY <1>3
      <4> QED
        BY <2>1, <4>1, MaxIs
    <3>2. T \ {k} \in SUBSET (1 .. k) /\ k \notin T \ {k}
      OBVIOUS
    <3>3. g[T \ {k}] = h[T \ {k}]
      BY <3>2
    <3> QED
      BY <2>1, <3>1, <3>3
  <2>2. CASE k \notin T
    <3>1. g[T] = h[T] /\ T \in SUBSET (1 .. i)
      BY <2>2, <1>6
    <3>2. h[T] = IF T = {} THEN 0 ELSE h[T \ {Max(T)}] + u[Max(T)]
      BY <3>1, <1>5 DEF Adds
    <3>3. T \ {Max(T)} \in SUBSET (1 .. k) /\ k \notin T \ {Max(T)}
      BY <2>2
    <3> QED
      BY <3>1, <3>2, <3>3
  <2> QED
    BY <2>1, <2>2
<1>9. Adds(g, u, k)
  BY <1>8 DEF Adds
<1> HIDE DEF g
<1> QED
  BY <1>1, <1>7, <1>9

\* ... and two of them agree where their samples do: the least n at which they
\* differ would make them differ at n - 1.
LEMMA AddsUnique ==
  ASSUME NEW n \in Nat, NEW m \in Nat, n <= m, NEW u, NEW v, NEW f, NEW g,
         Adds(f, u, n), Adds(g, v, m), \A i \in 1 .. n : u[i] = v[i]
  PROVE  f[1 .. n] = g[1 .. n]
<1> DEFINE Good(k) == \A T \in SUBSET (1 .. k) : f[T] = g[T]
           Bad == {k \in 0 .. n : ~ Good(k)}
<1> SUFFICES ASSUME ~ Good(n) PROVE FALSE
  OBVIOUS
<1>1. PICK k \in Bad : \A j \in Bad : k <= j
  <2> HIDE DEF Good
  <2>1. Bad \in SUBSET Nat /\ n \in Bad
    OBVIOUS
  <2> QED
    BY <2>1, Least
<1>2. PICK T \in SUBSET (1 .. k) : f[T] # g[T]
  BY <1>1
<1>3. T \in SUBSET (1 .. n) /\ T \in SUBSET (1 .. m)
  BY <1>1
<1>4. T # {}
  BY <1>2, <1>3 DEF Adds
<1>5. Max(T) \in T /\ \A y \in T : Max(T) >= y
  BY <1>3, <1>4, MaxUpTo
<1>6. Max(T) = k
  <2> SUFFICES ASSUME Max(T) # k PROVE FALSE
    OBVIOUS
  <2>0. Max(T) \in 1 .. k /\ k \in 0 .. n
    BY <1>1, <1>5
  <2>1. k - 1 \in 0 .. n
    BY <2>0
  <2>2. ASSUME NEW y \in T PROVE y \in 1 .. k - 1
    <3>1. y \in 1 .. k /\ y <= Max(T)
      BY <1>5
    <3> QED
      BY <3>1, <2>0
  <2> QED
    BY <1>1, <1>2, <2>1, <2>2
<1>7. k \in 1 .. n /\ k - 1 \in 0 .. n /\ T \ {k} \in SUBSET (1 .. k - 1)
  BY <1>1, <1>5, <1>6
<1>8. f[T \ {k}] = g[T \ {k}]
  BY <1>1, <1>7
<1>9. f[T] = f[T \ {k}] + u[k]
  BY <1>3, <1>4, <1>6 DEF Adds
<1>10. g[T] = g[T \ {k}] + v[k]
  BY <1>3, <1>4, <1>6 DEF Adds
<1> QED
  BY <1>2, <1>7, <1>8, <1>9, <1>10

\* A window of samples, and their latencies.
IsWindow(w) == w \in Seq(Nat)
Samples(w) == [i \in 1 .. Len(w) |-> w[i]]

LEMMA TotalAdds ==
  ASSUME NEW w, IsWindow(w)
  PROVE  \E h \in [SUBSET (1 .. Len(w)) -> Nat] : Adds(h, Samples(w), Len(w)) /\ Total(w) = h[1 .. Len(w)]
<1> DEFINE P(g) == g = [s \in SUBSET (DOMAIN w) |-> IF s = {} THEN 0 ELSE g[s \ {Max(s)}] + w[Max(s)]]
<1>1. Total(w) = (CHOOSE g : P(g))[DOMAIN w]
  BY DEF Total, FoldLeft, MapThenFoldSet
<1>2. DOMAIN w = 1 .. Len(w) /\ Len(w) \in Nat /\ Samples(w) \in [1 .. Len(w) -> Nat]
  <2>1. \A i \in 1 .. Len(w) : w[i] \in Nat
    BY ElementOfSeq DEF IsWindow
  <2> QED
    BY <2>1 DEF IsWindow, Samples
<1>3. ASSUME NEW T \in SUBSET (1 .. Len(w)), T # {} PROVE w[Max(T)] = Samples(w)[Max(T)]
  BY <1>3, <1>2, MaxUpTo DEF Samples
<1>4. ASSUME NEW g PROVE P(g) <=> Adds(g, Samples(w), Len(w))
  BY <1>2, <1>3 DEF Adds
<1>5. PICK h \in [SUBSET (1 .. Len(w)) -> Nat] : Adds(h, Samples(w), Len(w))
  BY <1>2, AddsExists
<1>6. P(h)
  BY <1>4, <1>5
<1> HIDE DEF P
<1>7. P(CHOOSE g : P(g))
  BY <1>6
<1>8. Adds(CHOOSE g : P(g), Samples(w), Len(w))
  BY <1>4, <1>7
<1>9. (CHOOSE g : P(g))[1 .. Len(w)] = h[1 .. Len(w)]
  BY <1>8, <1>5, <1>2, AddsUnique
<1> QED
  BY <1>1, <1>2, <1>5, <1>9

LEMMA TotalEmpty == Total(<<>>) = 0
<1>1. IsWindow(<<>>) /\ Len(<<>>) = 0
  BY DEF IsWindow
<1>2. PICK h : Adds(h, Samples(<<>>), 0) /\ Total(<<>>) = h[1 .. 0]
  BY <1>1, TotalAdds
<1> QED
  BY <1>2 DEF Adds

LEMMA TotalNat ==
  ASSUME NEW w, IsWindow(w)
  PROVE  Total(w) \in Nat
<1>1. PICK h \in [SUBSET (1 .. Len(w)) -> Nat] : Total(w) = h[1 .. Len(w)]
  BY TotalAdds
<1> QED
  BY <1>1

\* What record_latency adds to the sum.
LEMMA TotalAppend ==
  ASSUME NEW w, IsWindow(w), NEW s \in Nat
  PROVE  Total(Append(w, s)) = Total(w) + s
<1> DEFINE v == Append(w, s)
           n == Len(w)
<1>1. n \in Nat /\ IsWindow(v) /\ Len(v) = n + 1 /\ v[n + 1] = s /\ \A i \in 1 .. n : v[i] = w[i]
  BY DEF IsWindow
<1> HIDE DEF v, n
<1>2. PICK f : Adds(f, Samples(w), n) /\ Total(w) = f[1 .. n]
  BY TotalAdds DEF n
<1>3. PICK g : Adds(g, Samples(v), n + 1) /\ Total(v) = g[1 .. n + 1]
  BY <1>1, TotalAdds
<1>4. \A i \in 1 .. n : Samples(w)[i] = Samples(v)[i]
  BY <1>1 DEF Samples, n
<1>5. f[1 .. n] = g[1 .. n]
  BY <1>1, <1>2, <1>3, <1>4, AddsUnique
<1>6. Max(1 .. n + 1) = n + 1
  <2>1. 1 .. n + 1 \in SUBSET (1 .. n + 1) /\ n + 1 \in 1 .. n + 1 /\ n + 1 \in Nat
    BY <1>1
  <2>2. \A y \in 1 .. n + 1 : y <= n + 1
    BY <1>1
  <2> QED
    BY <2>1, <2>2, MaxIs
<1>7. (1 .. n + 1) \ {n + 1} = 1 .. n /\ 1 .. n + 1 # {}
  BY <1>1
<1>8. g[1 .. n + 1] = g[1 .. n] + Samples(v)[n + 1]
  BY <1>3, <1>6, <1>7 DEF Adds
<1>9. Samples(v)[n + 1] = s
  BY <1>1 DEF Samples
<1> QED
  BY <1>2, <1>3, <1>5, <1>8, <1>9 DEF v

-----------------------------------------------------------------------------
(* Bins and what they count.                                               *)

LEMMA BinAssumptions ==
  /\ BinWidth \in Nat /\ BinWidth > 0 /\ NumBins \in Nat /\ NumBins > 0
  /\ Latencies \in SUBSET Nat /\ Latencies # {}
BY RedundantAssumption, LatenciesAssumption

LEMMA BinType == ASSUME NEW us \in Nat PROVE Bin(us) \in Bins /\ Bin(us) \in Nat
<1>1. us \div BinWidth \in Nat
  BY BinAssumptions
<1> QED
  BY <1>1, BinAssumptions DEF Bin, Bins

\* A longer latency is in no lower bin.
LEMMA DivMonotone ==
  ASSUME NEW a \in Nat, NEW b \in Nat, a <= b, NEW d \in Nat, d > 0
  PROVE  a \div d <= b \div d
<1> DEFINE p == a \div d
           q == b \div d
<1>1. p \in Nat /\ q \in Nat /\ d * p <= a /\ b < d * (q + 1)
  OBVIOUS
<1> HIDE DEF p, q
<1> SUFFICES ASSUME q + 1 <= p PROVE FALSE
  BY <1>1 DEF p, q
<1>2. d * (q + 1) <= d * p
  BY <1>1
<1> QED
  BY <1>1, <1>2

LEMMA BinMonotone ==
  ASSUME NEW u \in Nat, NEW v \in Nat, u <= v
  PROVE  Bin(u) <= Bin(v)
<1>1. u \div BinWidth <= v \div BinWidth
  BY DivMonotone, BinAssumptions
<1>2. u \div BinWidth \in Nat /\ v \div BinWidth \in Nat
  BY BinAssumptions
<1> QED
  BY <1>1, <1>2, BinAssumptions DEF Bin

\* h sums f over the subsets of S, in any order: the function that Percentile's
\* sum over the bins chooses.
Sums(h, f, S) ==
  h = [T \in SUBSET S |-> IF T = {} THEN 0
                          ELSE f[CHOOSE x \in T : TRUE] + h[T \ {CHOOSE x \in T : TRUE}]]

LEMMA SumsUnique ==
  ASSUME NEW S, IsFiniteSet(S), NEW f, NEW g, NEW h, Sums(g, f, S), Sums(h, f, S)
  PROVE  g[S] = h[S]
<1> DEFINE Bad == {n \in Nat : \E T \in SUBSET S : Cardinality(T) = n /\ g[T] # h[T]}
<1> SUFFICES ASSUME g[S] # h[S] PROVE FALSE
  OBVIOUS
<1>1. PICK n \in Bad : \A m \in Bad : n <= m
  <2>1. Cardinality(S) \in Bad
    BY FS_CardinalityType
  <2>2. Bad \in SUBSET Nat /\ Bad # {}
    BY <2>1
  <2> QED
    BY <2>2, Least
<1>2. PICK T \in SUBSET S : Cardinality(T) = n /\ g[T] # h[T]
  BY <1>1
<1> DEFINE x == CHOOSE y \in T : TRUE
<1>3. T # {}
  BY <1>2 DEF Sums
<1>4. x \in T
  BY <1>3
<1>5. g[T] = f[x] + g[T \ {x}] /\ h[T] = f[x] + h[T \ {x}]
  BY <1>3 DEF Sums
<1> HIDE DEF x
<1>6. IsFiniteSet(T)
  BY FS_Subset
<1>7. Cardinality(T \ {x}) = n - 1 /\ Cardinality(T \ {x}) \in Nat
  BY <1>2, <1>4, <1>6, FS_RemoveElement, FS_CardinalityType
<1>8. T \ {x} \in SUBSET S /\ g[T \ {x}] # h[T \ {x}]
  BY <1>2, <1>5
<1>9. n - 1 \in Bad /\ n \in Nat
  BY <1>7, <1>8
<1> QED
  BY <1>1, <1>9

\* Positions whose value lies in a set.
At(v, n, T) == {j \in 1 .. n : v[j] \in T}

LEMMA AtFinite ==
  ASSUME NEW v, NEW n \in Nat, NEW T
  PROVE  IsFiniteSet(At(v, n, T)) /\ Cardinality(At(v, n, T)) \in Nat
<1>1. IsFiniteSet(1 .. n)
  BY FS_Interval
<1>2. At(v, n, T) \in SUBSET (1 .. n)
  BY DEF At
<1> QED
  BY <1>1, <1>2, FS_Subset, FS_CardinalityType

\* Counting positions is such a sum.
LEMMA Counts ==
  ASSUME NEW v, NEW n \in Nat, NEW S, NEW f,
         \A x \in S : f[x] = Cardinality(At(v, n, {x}))
  PROVE  Sums([T \in SUBSET S |-> Cardinality(At(v, n, T))], f, S)
<1> DEFINE h == [T \in SUBSET S |-> Cardinality(At(v, n, T))]
<1> SUFFICES ASSUME NEW T \in SUBSET S
             PROVE  h[T] = IF T = {} THEN 0
                           ELSE f[CHOOSE x \in T : TRUE] + h[T \ {CHOOSE x \in T : TRUE}]
  BY DEF Sums
<1>1. CASE T = {}
  <2>1. At(v, n, T) = {}
    BY <1>1 DEF At
  <2> QED
    BY <1>1, <2>1, FS_EmptySet
<1>2. CASE T # {}
  <2>1. PICK x : x = (CHOOSE y \in T : TRUE)
    OBVIOUS
  <2>2. x \in T /\ x \in S
    BY <1>2, <2>1
  <2>3. /\ At(v, n, T) = At(v, n, {x}) \cup At(v, n, T \ {x})
        /\ At(v, n, {x}) \cap At(v, n, T \ {x}) = {}
    BY <2>2 DEF At
  <2>4. Cardinality(At(v, n, T)) = Cardinality(At(v, n, {x})) + Cardinality(At(v, n, T \ {x}))
    <3>1. Cardinality(At(v, n, {x}) \cup At(v, n, T \ {x}))
            = Cardinality(At(v, n, {x})) + Cardinality(At(v, n, T \ {x}))
                - Cardinality(At(v, n, {x}) \cap At(v, n, T \ {x}))
      <4>1. IsFiniteSet(At(v, n, {x})) /\ IsFiniteSet(At(v, n, T \ {x}))
        BY AtFinite
      <4> QED
        BY <4>1, FS_Union
    <3>2. Cardinality(At(v, n, {x}) \cap At(v, n, T \ {x})) = 0
      BY <2>3, FS_EmptySet
    <3>3. /\ Cardinality(At(v, n, {x})) \in Nat
          /\ Cardinality(At(v, n, T \ {x})) \in Nat
      BY AtFinite
    <3>4. Cardinality(At(v, n, T)) = Cardinality(At(v, n, {x}) \cup At(v, n, T \ {x}))
      BY <2>3
    <3> QED
      BY <3>1, <3>2, <3>3, <3>4
  <2>5. f[x] = Cardinality(At(v, n, {x})) /\ h[T \ {x}] = Cardinality(At(v, n, T \ {x}))
    BY <2>2
  <2>6. h[T] = f[x] + h[T \ {x}]
    BY <2>4, <2>5
  <2> HIDE DEF h
  <2> QED
    BY <1>2, <2>1, <2>6
<1> QED
  BY <1>1, <1>2

\* The bins of the samples in a window.
BinsOf(w) == [j \in 1 .. Len(w) |-> Bin(w[j])]
Counted(c, w) == \A b \in Bins : c.bins[b] = Cardinality(At(BinsOf(w), Len(w), {b}))

\* The bins up to b count the samples in them.
LEMMA BinsUpTo ==
  ASSUME NEW c, NEW w, IsWindow(w), Counted(c, w), NEW b \in Bins
  PROVE  MapThenSumSet(LAMBDA i : c.bins[i], 0 .. b) = Cardinality(At(BinsOf(w), Len(w), 0 .. b))
<1> DEFINE P(g) == g = [s \in SUBSET (0 .. b) |->
                          IF s = {} THEN 0
                          ELSE c.bins[CHOOSE x \in s : TRUE] + g[s \ {CHOOSE x \in s : TRUE}]]
           h == [T \in SUBSET (0 .. b) |-> Cardinality(At(BinsOf(w), Len(w), T))]
<1>1. MapThenSumSet(LAMBDA i : c.bins[i], 0 .. b) = (CHOOSE g : P(g))[0 .. b]
  BY DEF MapThenSumSet, MapThenFoldSet
<1>2. 0 .. b \in SUBSET Bins /\ IsFiniteSet(0 .. b) /\ Len(w) \in Nat
  BY BinAssumptions, FS_Interval DEF Bins, IsWindow
<1>3. \A x \in 0 .. b : c.bins[x] = Cardinality(At(BinsOf(w), Len(w), {x}))
  BY <1>2 DEF Counted
<1>4. Sums(h, c.bins, 0 .. b)
  BY <1>2, <1>3, Counts
<1>5. \A g : P(g) <=> Sums(g, c.bins, 0 .. b)
  BY DEF Sums
<1> HIDE DEF P
<1>6. Sums(CHOOSE g : P(g), c.bins, 0 .. b)
  <2>1. P(h)
    BY <1>4, <1>5
  <2> HIDE DEF h
  <2>2. P(CHOOSE g : P(g))
    BY <2>1
  <2> QED
    BY <2>2, <1>5
<1>7. (CHOOSE g : P(g))[0 .. b] = h[0 .. b]
  BY <1>2, <1>4, <1>6, SumsUnique
<1>8. 0 .. b \in SUBSET (0 .. b)
  OBVIOUS
<1> QED
  BY <1>1, <1>7, <1>8

-----------------------------------------------------------------------------
(* Percentiles.                                                            *)

\* The samples in a window that are at most u.
Below(w, u) == {j \in 1 .. Len(w) : w[j] <= u}

LEMMA BelowFinite ==
  ASSUME NEW w, IsWindow(w), NEW u
  PROVE  /\ IsFiniteSet(Below(w, u)) /\ Cardinality(Below(w, u)) \in Nat
         /\ Cardinality(1 .. Len(w)) = Len(w) /\ IsFiniteSet(1 .. Len(w)) /\ Len(w) \in Nat
<1>1. Len(w) \in Nat
  BY DEF IsWindow
<1>2. IsFiniteSet(1 .. Len(w)) /\ Cardinality(1 .. Len(w)) = Len(w)
  <2>1. 1 \in Int /\ Len(w) \in Int
    BY <1>1
  <2>2. /\ IsFiniteSet(1 .. Len(w))
        /\ Cardinality(1 .. Len(w)) = IF 1 > Len(w) THEN 0 ELSE Len(w) - 1 + 1
    BY <2>1, FS_Interval
  <2> QED
    BY <2>2, <1>1
<1>3. Below(w, u) \in SUBSET (1 .. Len(w))
  BY DEF Below
<1> QED
  BY <1>1, <1>2, <1>3, FS_Subset, FS_CardinalityType

LEMMA SampleType ==
  ASSUME NEW w, IsWindow(w)
  PROVE  /\ \A j \in 1 .. Len(w) : w[j] \in Nat
         /\ DOMAIN w = 1 .. Len(w) /\ Len(w) \in Nat
         /\ ToSet(w) = {w[j] : j \in 1 .. Len(w)}
<1>1. DOMAIN w = 1 .. Len(w) /\ Len(w) \in Nat
  BY DEF IsWindow
<1>2. \A j \in 1 .. Len(w) : w[j] \in Nat
  BY ElementOfSeq DEF IsWindow
<1> QED
  BY <1>1, <1>2 DEF ToSet

\* A greatest sample.
LEMMA Slowest ==
  ASSUME NEW w, IsWindow(w), NEW J \in SUBSET (1 .. Len(w)), J # {},
         NEW n \in Nat, \A j \in J : w[j] <= n
  PROVE  \E j \in J : \A i \in J : w[i] <= w[j]
<1> DEFINE T == {w[j] : j \in J}
<1>1. T \in SUBSET Nat /\ T # {}
  <2>1. \A j \in J : w[j] \in Nat
    BY SampleType
  <2> QED
    BY <2>1
<1>2. \A y \in T : y <= n
  OBVIOUS
<1>3. PICK m \in T : \A y \in T : m >= y
  BY <1>1, <1>2, Greatest
<1>4. PICK j \in J : m = w[j]
  BY <1>3
<1>5. \A i \in J : w[i] \in T
  OBVIOUS
<1> HIDE DEF T
<1>6. \A i \in J : w[i] <= m
  BY <1>3, <1>5, SampleType
<1> QED
  BY <1>4, <1>6

\* The sample of a rank: the least up to which so many samples lie.
LEMMA RankSample ==
  ASSUME NEW w, IsWindow(w), NEW n \in Nat, \A j \in 1 .. Len(w) : w[j] <= n,
         NEW k \in 1 .. Len(w)
  PROVE  /\ OfRank(w, k) \in Nat
         /\ Cardinality(Below(w, OfRank(w, k))) >= k
         /\ \A j \in 1 .. Len(w) : Cardinality(Below(w, w[j])) >= k => OfRank(w, k) <= w[j]
<1> DEFINE R == {t \in ToSet(w) : Cardinality({j \in DOMAIN w : w[j] <= t}) >= k}
           V == {s : s \in R}
<1>1. ASSUME NEW x
      PROVE  x \in V <=> \E j \in 1 .. Len(w) : x = w[j] /\ Cardinality(Below(w, x)) >= k
  <2>1. \A t : {j \in DOMAIN w : w[j] <= t} = Below(w, t)
    BY SampleType DEF Below
  <2>2. \A t : t \in ToSet(w) <=> \E j \in 1 .. Len(w) : t = w[j]
    BY SampleType
  <2>3. \A t : t \in R <=> (\E j \in 1 .. Len(w) : t = w[j]) /\ Cardinality(Below(w, t)) >= k
    BY <2>1, <2>2
  <2> HIDE DEF R
  <2> QED
    BY <2>3
<1>2. V \in SUBSET Nat
  <2>1. \A j \in 1 .. Len(w) : w[j] \in Nat
    BY SampleType
  <2> HIDE DEF V
  <2> QED
    BY <1>1, <2>1
<1>3. V # {}
  <2>1. PICK j \in 1 .. Len(w) : \A i \in 1 .. Len(w) : w[i] <= w[j]
    BY Slowest
  <2>2. Below(w, w[j]) = 1 .. Len(w)
    BY <2>1 DEF Below
  <2>3. Cardinality(Below(w, w[j])) >= k
    BY <2>2, BelowFinite
  <2> HIDE DEF V
  <2> QED
    BY <2>3, <1>1
<1>4. OfRank(w, k) = Min(V)
  BY DEF OfRank
<1> HIDE DEF V
<1>5. Min(V) \in V /\ \A y \in V : Min(V) <= y
  BY <1>2, <1>3, MinNat
<1> QED
  BY <1>1, <1>2, <1>4, <1>5

\* The first bin that so many samples do not lie beyond is the bin of the
\* sample of that rank: up to that sample enough of them lie, and were they all
\* in lower bins then the greatest of those would have the rank already.
LEMMA PercentileIs ==
  ASSUME NEW c, NEW w, IsWindow(w), Counted(c, w), c.count = Len(w),
         NEW n \in Nat, \A j \in 1 .. Len(w) : w[j] <= n,
         NEW num, NEW den, RankAt(w, num, den) \in 1 .. Len(w)
  PROVE  Percentile(c, num, den) = Bin(OfRank(w, RankAt(w, num, den))) * BinWidth
<1> DEFINE k == RankAt(w, num, den)
           u == OfRank(w, k)
           reached == {b \in Bins : MapThenSumSet(LAMBDA i : c.bins[i], 0 .. b) >= k}
           InBins(b) == At(BinsOf(w), Len(w), 0 .. b)
<1>1. Percentile(c, num, den) = IF reached = {} THEN c.max ELSE Min(reached) * BinWidth
  BY DEF Percentile, RankAt
<1>2. ASSUME NEW b \in Bins PROVE b \in reached <=> Cardinality(InBins(b)) >= k
  BY BinsUpTo
<1>3. reached \in SUBSET Bins /\ Bins \in SUBSET Nat
  <2>1. Bins \in SUBSET Nat
    BY BinAssumptions DEF Bins
  <2> QED
    BY <2>1
<1>4. /\ u \in Nat
      /\ Cardinality(Below(w, u)) >= k
      /\ \A j \in 1 .. Len(w) : Cardinality(Below(w, w[j])) >= k => u <= w[j]
  BY RankSample
<1>k. k \in 1 .. Len(w)
  OBVIOUS
<1> HIDE DEF reached, u, k
<1>5. ASSUME NEW b \in Bins
      PROVE  InBins(b) = {j \in 1 .. Len(w) : Bin(w[j]) <= b}
  <2>1. \A j \in 1 .. Len(w) : BinsOf(w)[j] = Bin(w[j]) /\ Bin(w[j]) \in Nat
    BY SampleType, BinType DEF BinsOf
  <2>2. b \in Nat
    BY <1>3
  <2> QED
    BY <2>1, <2>2 DEF At
<1>6. ASSUME NEW b \in Bins
      PROVE  InBins(b) \in SUBSET (1 .. Len(w)) /\ IsFiniteSet(InBins(b)) /\ Cardinality(InBins(b)) \in Nat
  <2>1. InBins(b) \in SUBSET (1 .. Len(w)) /\ Len(w) \in Nat
    BY SampleType DEF At
  <2>2. IsFiniteSet(InBins(b)) /\ Cardinality(InBins(b)) \in Nat
    BY <2>1, AtFinite
  <2> QED
    BY <2>1, <2>2
<1> HIDE DEF InBins
<1>7. Bin(u) \in Bins
  BY <1>4, BinType
<1>8. Bin(u) \in reached
  <2>1. Below(w, u) \in SUBSET InBins(Bin(u))
    BY <1>4, <1>5, <1>7, SampleType, BinMonotone DEF Below
  <2>2. Cardinality(Below(w, u)) <= Cardinality(InBins(Bin(u)))
    BY <2>1, <1>6, <1>7, FS_Subset
  <2>3. Cardinality(InBins(Bin(u))) >= k
    BY <2>2, <1>4, <1>6, <1>7, <1>k, BelowFinite
  <2> QED
    BY <2>3, <1>2, <1>7
<1>9. ASSUME NEW b \in reached PROVE Bin(u) <= b
  <2>1. b \in Bins /\ b \in Nat /\ Bin(u) \in Nat /\ Cardinality(InBins(b)) >= k
    BY <1>2, <1>3, <1>4, BinType
  <2> SUFFICES ASSUME b < Bin(u) PROVE FALSE
    BY <2>1
  <2>2. InBins(b) # {}
    <3>1. Cardinality(InBins(b)) # 0
      BY <2>1, <1>6, <1>k
    <3> QED
      BY <3>1, FS_EmptySet
  <2>3. \A j \in InBins(b) : w[j] < u
    <3> SUFFICES ASSUME NEW j \in InBins(b), ~ (w[j] < u) PROVE FALSE
      OBVIOUS
    <3>1. w[j] \in Nat /\ Bin(w[j]) <= b /\ Bin(w[j]) \in Nat
      BY <1>5, <2>1, SampleType, BinType
    <3>2. Bin(u) <= Bin(w[j])
      BY <3>1, <1>4, BinMonotone
    <3> QED
      BY <3>1, <3>2, <2>1
  <2>4. \A j \in InBins(b) : w[j] <= u
    BY <2>3, <1>4, <1>6, <2>1, SampleType
  <2>5. PICK j \in InBins(b) : \A i \in InBins(b) : w[i] <= w[j]
    BY <2>1, <2>2, <2>4, <1>4, <1>6, Slowest
  <2>6. j \in 1 .. Len(w) /\ InBins(b) \in SUBSET Below(w, w[j])
    BY <2>1, <2>5, <1>6 DEF Below
  <2>7. Cardinality(InBins(b)) <= Cardinality(Below(w, w[j]))
    BY <2>6, BelowFinite, FS_Subset
  <2>8. Cardinality(Below(w, w[j])) >= k
    BY <2>1, <2>7, <1>6, <1>k, BelowFinite
  <2>9. u <= w[j]
    BY <2>6, <2>8, <1>4
  <2> QED
    BY <2>3, <2>6, <2>9, <1>4, SampleType
<1>10. Min(reached) = Bin(u)
  <2>1. reached \in SUBSET Nat /\ reached # {}
    BY <1>3, <1>8
  <2>2. Min(reached) \in reached /\ Min(reached) <= Bin(u)
    BY <2>1, <1>8, MinNat
  <2>3. Bin(u) <= Min(reached)
    BY <2>2, <1>9
  <2>4. Min(reached) \in Nat /\ Bin(u) \in Nat
    BY <2>1, <2>2, <1>8
  <2> QED
    BY <2>2, <2>3, <2>4
<1> QED
  BY <1>1, <1>8, <1>10 DEF u, k

LEMMA Ranks ==
  ASSUME NEW w, IsWindow(w), w # <<>>, NEW p \in {<<1, 2>>, <<9, 10>>, <<99, 100>>}
  PROVE  RankAt(w, p[1], p[2]) \in 1 .. Len(w)
<1>1. Len(w) \in Nat /\ Len(w) # 0
  BY EmptySeq DEF IsWindow
<1>2. CASE p = <<1, 2>>
  <2>1. (Len(w) * 1 + 2 - 1) \div 2 \in 1 .. Len(w)
    BY <1>1
  <2> QED
    BY <1>2, <2>1 DEF RankAt
<1>3. CASE p = <<9, 10>>
  <2>1. (Len(w) * 9 + 10 - 1) \div 10 \in 1 .. Len(w)
    BY <1>1
  <2> QED
    BY <1>3, <2>1 DEF RankAt
<1>4. CASE p = <<99, 100>>
  <2>1. (Len(w) * 99 + 100 - 1) \div 100 \in 1 .. Len(w)
    BY <1>1
  <2> QED
    BY <1>4, <2>1 DEF RankAt
<1> QED
  BY <1>2, <1>3, <1>4

-----------------------------------------------------------------------------
(* Averages, compared by products.                                         *)

LEMMA TimesMonotone ==
  ASSUME NEW x \in Nat, NEW y \in Nat, NEW z \in Nat
  PROVE  /\ x <= y => x * z <= y * z
         /\ x < y /\ z > 0 => x * z < y * z
         /\ x > 0 /\ y > 0 => x * y > 0
         /\ x * y \in Nat
OBVIOUS

\* From a/b < c/d or a/b <= c/d, and c/d <= e/f.
LEMMA AveragesOrdered ==
  ASSUME NEW a \in Nat, NEW b \in Nat, NEW c \in Nat, NEW d \in Nat, NEW e \in Nat, NEW f \in Nat,
         b > 0, d > 0, f > 0, c * f <= e * d
  PROVE  /\ a * d < c * b => a * f < e * b
         /\ a * d <= c * b => a * f <= e * b
<1>1. (c * f) * b <= (e * d) * b
  BY TimesMonotone
<1>2. /\ (a * d) * f = (a * f) * d /\ (c * b) * f = (c * f) * b /\ (e * d) * b = (e * b) * d
      /\ a * d \in Nat /\ c * b \in Nat /\ a * f \in Nat /\ e * b \in Nat
      /\ (a * f) * d \in Nat /\ (e * b) * d \in Nat /\ (c * b) * f \in Nat
  OBVIOUS
<1>3. ASSUME a * d < c * b PROVE a * f < e * b
  <2>1. (a * d) * f < (c * b) * f
    BY <1>2, <1>3, TimesMonotone
  <2>2. (a * f) * d < (e * b) * d
    BY <2>1, <1>1, <1>2
  <2>3. e * b <= a * f => (e * b) * d <= (a * f) * d
    BY <1>2, TimesMonotone
  <2> QED
    BY <2>2, <2>3, <1>2
<1>4. ASSUME a * d <= c * b PROVE a * f <= e * b
  <2>1. (a * d) * f <= (c * b) * f
    BY <1>2, <1>4, TimesMonotone
  <2>2. (a * f) * d <= (e * b) * d
    BY <2>1, <1>1, <1>2
  <2>3. e * b < a * f => (e * b) * d < (a * f) * d
    BY <1>2, TimesMonotone
  <2> QED
    BY <2>2, <2>3, <1>2
<1> QED
  BY <1>3, <1>4

\* Among collectors that are not all at zero one has the highest average, and
\* the first of these is above every earlier one.
Highs(s, n, m) == {i \in 1 .. m : s[i] > 0 /\ \A j \in 1 .. m : s[j] * n[i] <= s[i] * n[j]}

LEMMA HighestExists ==
  ASSUME NEW K \in Nat, NEW s \in [1 .. K -> Nat], NEW n \in [1 .. K -> Nat],
         \A i \in 1 .. K : s[i] > 0 => n[i] > 0,
         NEW one \in 1 .. K, s[one] > 0
  PROVE  Highs(s, n, K) # {}
<1> DEFINE Good(m) == (\E i \in 1 .. m : s[i] > 0) => Highs(s, n, m) # {}
           Bad == {m \in 0 .. K : ~ Good(m)}
<1> SUFFICES ASSUME ~ Good(K) PROVE FALSE
  OBVIOUS
<1>1. PICK m \in Bad : \A j \in Bad : m <= j
  <2> HIDE DEF Good
  <2>1. Bad \in SUBSET Nat /\ K \in Bad
    OBVIOUS
  <2> QED
    BY <2>1, Least
<1>2. m \in 1 .. K /\ (\E i \in 1 .. m : s[i] > 0) /\ Highs(s, n, m) = {}
  BY <1>1
<1> DEFINE l == m - 1
<1>3. l \in 0 .. K /\ l < m /\ \A i : i \in 1 .. m <=> i \in 1 .. l \/ i = m
  BY <1>2
<1>4. Good(l)
  <2> HIDE DEF Good, l
  <2> QED
    BY <1>1, <1>3
<1> HIDE DEF l
<1>5. \A i \in 1 .. m : s[i] \in Nat /\ n[i] \in Nat
  BY <1>2
<1>6. CASE \E i \in 1 .. l : s[i] > 0
  <2>1. PICK h \in Highs(s, n, l) : TRUE
    BY <1>6, <1>4
  <2>2. h \in 1 .. l /\ s[h] > 0 /\ \A j \in 1 .. l : s[j] * n[h] <= s[h] * n[j]
    BY <2>1 DEF Highs
  <2>3. /\ h \in 1 .. m /\ h \in 1 .. K /\ n[h] > 0
        /\ s[h] \in Nat /\ n[h] \in Nat /\ s[m] \in Nat /\ n[m] \in Nat
    <3>1. h \in 1 .. m /\ h \in 1 .. K /\ m \in 1 .. m
      BY <2>2, <1>2, <1>3
    <3>2. s[h] > 0 => n[h] > 0
      BY <3>1
    <3> QED
      BY <3>1, <3>2, <2>2, <1>5
  <2>4. CASE s[m] * n[h] <= s[h] * n[m]
    <3>1. h \in Highs(s, n, m)
      BY <2>2, <2>3, <2>4, <1>3 DEF Highs
    <3> QED
      BY <3>1, <1>2
  <2>5. CASE s[h] * n[m] < s[m] * n[h]
    <3>1. s[m] > 0 /\ n[m] > 0
      <4>1. s[m] # 0
        <5>1. s[m] * n[h] \in Nat /\ s[h] * n[m] \in Nat
          BY <2>3, TimesMonotone
        <5>2. s[m] = 0 => s[m] * n[h] = 0
          BY <2>3
        <5> QED
          BY <5>1, <5>2, <2>5
      <4>2. s[m] > 0
        BY <4>1, <2>3
      <4>3. s[m] > 0 => n[m] > 0
        BY <1>2
      <4> QED
        BY <4>2, <4>3
    <3>2. ASSUME NEW j \in 1 .. l PROVE s[j] * n[m] <= s[m] * n[j]
      <4>1. s[j] \in Nat /\ n[j] \in Nat /\ s[j] * n[h] <= s[h] * n[j]
        BY <2>2, <1>3, <1>5
      <4>2. CASE n[j] > 0
        <5>1. s[h] * n[m] <= s[m] * n[h]
          <6>1. s[m] * n[h] \in Nat /\ s[h] * n[m] \in Nat
            BY <2>3, TimesMonotone
          <6> QED
            BY <6>1, <2>5
        <5> QED
          BY <4>1, <4>2, <2>3, <3>1, <5>1, AveragesOrdered
      <4>3. CASE n[j] = 0
        <5>1. j \in 1 .. K
          BY <1>2, <1>3
        <5>3. s[j] > 0 => n[j] > 0
          BY <5>1
        <5>2. s[j] = 0
          BY <4>1, <4>3, <5>3
        <5> QED
          BY <5>2, <2>3, <4>1, <4>3
      <4> QED
        BY <4>1, <4>2, <4>3
    <3>4. s[m] * n[m] <= s[m] * n[m]
      BY <2>3
    <3>5. \A j \in 1 .. m : s[j] * n[m] <= s[m] * n[j]
      BY <3>2, <3>4, <1>3
    <3>6. m \in 1 .. m
      BY <1>2
    <3>3. m \in Highs(s, n, m)
      BY <3>1, <3>5, <3>6 DEF Highs
    <3> QED
      BY <3>3, <1>2
  <2> QED
    BY <2>3, <2>4, <2>5, TimesMonotone
<1>7. CASE ~ \E i \in 1 .. l : s[i] > 0
  <2>1. s[m] > 0 /\ s[m] \in Nat /\ n[m] \in Nat
    BY <1>7, <1>2, <1>3
  <2>2. ASSUME NEW j \in 1 .. m PROVE s[j] * n[m] <= s[m] * n[j]
    <3>1. CASE j = m
      BY <3>1, <2>1
    <3>2. CASE j \in 1 .. l
      <4>1. s[j] = 0 /\ n[j] \in Nat
        BY <3>2, <1>7, <1>3, <1>5
      <4>2. s[j] * n[m] = 0 /\ s[m] * n[j] >= 0
        BY <4>1, <2>1, TimesMonotone
      <4> QED
        BY <4>2
    <3> QED
      BY <3>1, <3>2, <1>3
  <2>3. m \in Highs(s, n, m)
    BY <2>1, <2>2, <1>2 DEF Highs
  <2> QED
    BY <2>3, <1>2
<1> QED
  BY <1>6, <1>7

LEMMA FirstHighest ==
  ASSUME NEW K \in Nat, NEW s \in [1 .. K -> Nat], NEW n \in [1 .. K -> Nat],
         \A i \in 1 .. K : s[i] > 0 => n[i] > 0,
         NEW one \in 1 .. K, s[one] > 0
  PROVE  \E i \in 1 .. K :
           /\ s[i] > 0 /\ \A j \in 1 .. K : s[j] * n[i] <= s[i] * n[j]
           /\ \A j \in 1 .. i - 1 : n[j] > 0 => s[i] * n[j] > s[j] * n[i]
<1>1. PICK i \in Highs(s, n, K) : \A j \in Highs(s, n, K) : i <= j
  <2>1. Highs(s, n, K) \in SUBSET Nat
    BY DEF Highs
  <2>2. Highs(s, n, K) # {}
    BY HighestExists
  <2> QED
    BY <2>1, <2>2, Least
<1>2. i \in 1 .. K /\ s[i] > 0 /\ s[i] \in Nat /\ n[i] \in Nat /\ n[i] > 0
      /\ \A j \in 1 .. K : s[j] * n[i] <= s[i] * n[j]
  BY <1>1 DEF Highs
<1>3. ASSUME NEW j \in 1 .. i - 1, n[j] > 0 PROVE s[i] * n[j] > s[j] * n[i]
  <2>1. j \in 1 .. K /\ j \notin Highs(s, n, K) /\ s[j] \in Nat /\ n[j] \in Nat
    BY <1>1, <1>2
  <2>2. CASE s[j] = 0
    <3>1. s[i] * n[j] > 0 /\ s[j] * n[i] = 0
      BY <2>2, <1>2, <1>3, <2>1, TimesMonotone
    <3> QED
      BY <3>1
  <2>3. CASE s[j] > 0
    <3>1. PICK k \in 1 .. K : ~ (s[k] * n[j] <= s[j] * n[k])
      BY <2>1, <2>3 DEF Highs
    <3>a. s[k] \in Nat /\ n[k] \in Nat /\ s[k] * n[i] <= s[i] * n[k]
      BY <1>2
    <3>b. s[k] * n[j] \in Nat /\ s[j] * n[k] \in Nat
      BY <3>a, <2>1, TimesMonotone
    <3>2. s[k] \in Nat /\ n[k] \in Nat /\ s[j] * n[k] < s[k] * n[j] /\ s[k] * n[i] <= s[i] * n[k]
      BY <3>1, <3>a, <3>b
    <3>3. n[k] > 0
      <4>1. s[k] # 0
        <5>1. s[k] = 0 => s[k] * n[j] = 0
          BY <2>1
        <5> QED
          BY <5>1, <3>2, <3>b
      <4> QED
        BY <4>1, <3>2
    <3> QED
      BY <3>2, <3>3, <1>2, <1>3, <2>1, AveragesOrdered
  <2> QED
    BY <2>1, <2>2, <2>3
<1> QED
  BY <1>2, <1>3

-----------------------------------------------------------------------------
(* The invariant.                                                          *)

\* The extremes of the samples, or those of a new collector.
InRange(c, w) ==
  /\ \A j \in 1 .. Len(w) : c.min <= w[j] /\ w[j] <= c.max
  /\ IF w = <<>> THEN c.min = Highest /\ c.max = 0
     ELSE \E i, j \in 1 .. Len(w) : c.min = w[i] /\ c.max = w[j]

\* What a collector holds of the samples in its window.
Holds(c, w) == /\ c.count = Len(w) /\ c.sum = Total(w)
               /\ Counted(c, w) /\ InRange(c, w)

\* No connection is held twice or made again.
Shape ==
  /\ IsInjective(conns) /\ Len(conns) \in {0, ConnCount}
  /\ tasks \subseteq ToSet(conns)
  /\ \A i \in DOMAIN conns : conns[i] < nextId
  /\ \A id \in told : id < nextId

\* Which task is awaited, which run on, and which have been told to stop.
Stopping ==
  \/ op = NoOp /\ tasks = ToSet(conns) /\ told \cap ToSet(conns) = {}
  \/ /\ op.name \in {"evaluate", "stop"} /\ op.idx \in DOMAIN conns
     /\ \A j \in DOMAIN conns :
          /\ j > op.idx \/ (op.name = "evaluate" /\ j # op.idx) =>
               conns[j] \in tasks /\ conns[j] \notin told
          /\ j < op.idx /\ op.name = "stop" => conns[j] \notin tasks

\* Each collector summarises its window.
Summary == \A i \in Indices : Holds(collectors[i], window[i])

\* The place that is being replaced was judged by the samples still there.
HighestAverage(i) == /\ Total(window[i]) > 0
              /\ \A j \in Indices : Total(window[j]) * Len(window[i]) <= Total(window[i]) * Len(window[j])
Judged == op.name = "evaluate" => HighestAverage(op.idx)

(* The inductive invariant.  That one task runs for each place needs to   *)
(* know which one a call awaits; that the slowest is replaced, that the    *)
(* samples it was judged by stay while its end is awaited.                 *)
RdInv == RdTypeOK /\ Shape /\ Stopping /\ Summary /\ Judged

-----------------------------------------------------------------------------
(* Collectors and windows.                                                 *)

LEMMA HighestIs == Highest \in Nat /\ \A us \in Latencies : us \in Nat /\ us < Highest
<1>1. PICK m \in Latencies : \A us \in Latencies : m >= us
  BY LatenciesAssumption
<1>2. Max(Latencies) \in Latencies /\ \A us \in Latencies : Max(Latencies) >= us
  BY <1>1 DEF Max
<1>3. Latencies \in SUBSET Nat
  BY LatenciesAssumption
<1>4. Max(Latencies) \in Nat /\ \A us \in Latencies : us \in Nat
  BY <1>2, <1>3
<1> QED
  BY <1>2, <1>4 DEF Highest

LEMMA OfTwo ==
  ASSUME NEW a \in Nat, NEW b \in Nat
  PROVE  /\ Min({a, b}) = IF a <= b THEN a ELSE b
         /\ Max({a, b}) = IF a >= b THEN a ELSE b
<1>1. Min({a, b}) \in {a, b} /\ \A y \in {a, b} : Min({a, b}) <= y
  <2>1. {a, b} \in SUBSET Nat /\ {a, b} # {}
    OBVIOUS
  <2> QED
    BY <2>1, MinNat
<1>2. Max({a, b}) \in {a, b} /\ \A y \in {a, b} : Max({a, b}) >= y
  <2>1. {a, b} \in SUBSET Nat /\ {a, b} # {} /\ a + b \in Nat /\ \A y \in {a, b} : y <= a + b
    OBVIOUS
  <2> QED
    BY <2>1, MaxNat
<1>3. Min({a, b}) = IF a <= b THEN a ELSE b
  BY <1>1
<1>4. Max({a, b}) = IF a >= b THEN a ELSE b
  BY <1>2
<1> QED
  BY <1>3, <1>4

Collector == [bins : [Bins -> Nat], count : Nat, sum : Nat,
              min : Latencies \cup {Highest}, max : Latencies \cup {0}]

LEMMA WindowType ==
  ASSUME NEW w \in Seq(Latencies)
  PROVE  IsWindow(w) /\ \A j \in 1 .. Len(w) : w[j] \in Latencies /\ w[j] <= Highest
<1>1. \A j \in 1 .. Len(w) : w[j] \in Latencies
  BY ElementOfSeq
<1>2. \A s \in Latencies : s \in Nat /\ s <= Highest
  BY HighestIs
<1>4. Latencies \subseteq Nat
  BY <1>2
<1>5. w \in Seq(Nat)
  BY <1>4, SeqMonotonic
<1> QED
  BY <1>1, <1>2, <1>5 DEF IsWindow

LEMMA NewCollectorHolds == NewCollector \in Collector /\ Holds(NewCollector, <<>>)
<1>1. NewCollector \in Collector
  BY DEF NewCollector, Collector
<1>2. Len(<<>>) = 0 /\ <<>> \in Seq(Latencies)
  OBVIOUS
<1>3. Counted(NewCollector, <<>>)
  <2>1. \A b \in Bins : At(BinsOf(<<>>), 0, {b}) = {}
    BY DEF At
  <2> QED
    BY <1>2, <2>1, FS_EmptySet DEF Counted, NewCollector
<1>4. InRange(NewCollector, <<>>)
  BY <1>2 DEF InRange, NewCollector
<1> QED
  BY <1>1, <1>2, <1>3, <1>4, TotalEmpty DEF Holds, NewCollector

LEMMA RecordHolds ==
  ASSUME NEW c \in Collector, NEW w \in Seq(Latencies), Holds(c, w), NEW s \in Latencies
  PROVE  RecordIn(c, s) \in Collector /\ Holds(RecordIn(c, s), Append(w, s))
<1> DEFINE d == RecordIn(c, s)
           v == Append(w, s)
           n == Len(w)
           us == s
<1>1. /\ n \in Nat /\ v \in Seq(Latencies) /\ Len(v) = n + 1 /\ v[n + 1] = s
      /\ \A j \in 1 .. n : v[j] = w[j]
      /\ v # <<>>
  OBVIOUS
<1>2. us \in Latencies /\ us \in Nat /\ us < Highest
  BY HighestIs
<1>3. c.min \in Nat /\ c.max \in Nat /\ c.count \in Nat /\ c.sum \in Nat /\ c.bins \in [Bins -> Nat]
      /\ c.min \in Latencies \cup {Highest} /\ c.max \in Latencies \cup {0}
  BY HighestIs DEF Collector
<1>4. Min({c.min, us}) = (IF c.min <= us THEN c.min ELSE us)
  BY <1>2, <1>3, OfTwo
<1>5. Max({c.max, us}) = (IF c.max >= us THEN c.max ELSE us)
  BY <1>2, <1>3, OfTwo
<1>6. Bin(us) \in Bins
  BY <1>2, BinType
<1>7. /\ d.bins = [c.bins EXCEPT ![Bin(us)] = @ + 1] /\ d.count = c.count + 1 /\ d.sum = c.sum + us
      /\ d.min = (IF c.min <= us THEN c.min ELSE us) /\ d.max = (IF c.max >= us THEN c.max ELSE us)
  BY <1>4, <1>5 DEF RecordIn
<1>8. d \in Collector
  <2>1. d.bins \in [Bins -> Nat] /\ d.count \in Nat /\ d.sum \in Nat
    <3>1. [c.bins EXCEPT ![Bin(us)] = @ + 1] \in [Bins -> Nat]
      BY <1>3, <1>6
    <3>2. c.count + 1 \in Nat /\ c.sum + us \in Nat
      BY <1>2, <1>3
    <3> QED
      BY <1>7, <3>1, <3>2
  <2>2. d.min \in Latencies \cup {Highest} /\ d.max \in Latencies \cup {0}
    BY <1>2, <1>3, <1>7
  <2>3. d = [bins |-> d.bins, count |-> d.count, sum |-> d.sum, min |-> d.min, max |-> d.max]
    BY DEF RecordIn
  <2> HIDE DEF d
  <2> QED
    BY <2>1, <2>2, <2>3 DEF Collector
<1>9. IsWindow(w) /\ \A j \in 1 .. n : w[j] \in Nat
  BY WindowType, HighestIs
<1> HIDE DEF d, v, n, us
<1>10. d.count = Len(v) /\ d.sum = Total(v)
  <2>1. Total(v) = Total(w) + us
    BY <1>2, <1>9, TotalAppend DEF v, us
  <2> QED
    BY <1>1, <1>7, <2>1 DEF Holds, n
<1>11. Counted(d, v)
  <2> SUFFICES ASSUME NEW b \in Bins
               PROVE  d.bins[b] = Cardinality(At(BinsOf(v), n + 1, {b}))
    BY <1>1 DEF Counted
  <2> DEFINE A == At(BinsOf(w), n, {b})
  <2>1. c.bins[b] = Cardinality(A) /\ IsFiniteSet(A) /\ n + 1 \notin A
    <3>1. c.bins[b] = Cardinality(A)
      BY DEF Holds, Counted, n
    <3>2. IsFiniteSet(A)
      BY <1>1, AtFinite
    <3>3. n + 1 \notin A
      BY <1>1 DEF At
    <3> QED
      BY <3>1, <3>2, <3>3
  <2>2. BinsOf(v)[n + 1] = Bin(us) /\ \A j \in 1 .. n : BinsOf(v)[j] = BinsOf(w)[j]
    BY <1>1 DEF BinsOf, us, n
  <2>3. CASE b = Bin(us)
    <3>1. At(BinsOf(v), n + 1, {b}) = A \cup {n + 1}
      BY <2>2, <2>3, <1>1 DEF At
    <3>2. Cardinality(A \cup {n + 1}) = Cardinality(A) + 1
      BY <2>1, FS_AddElement
    <3> QED
      BY <2>1, <2>3, <3>1, <3>2, <1>3, <1>6, <1>7
  <2>4. CASE b # Bin(us)
    <3>1. At(BinsOf(v), n + 1, {b}) = A
      BY <2>2, <2>4, <1>1 DEF At
    <3> QED
      BY <2>1, <2>4, <3>1, <1>3, <1>6, <1>7
  <2> QED
    BY <2>3, <2>4
<1>12. InRange(d, v)
  <2>1. \A j \in 1 .. n : c.min <= v[j] /\ v[j] <= c.max /\ v[j] \in Nat
    BY <1>1, <1>9 DEF Holds, InRange, n
  <2>2. v[n + 1] = us /\ n + 1 \in 1 .. n + 1
    BY <1>1 DEF us
  <2>3. \A j \in 1 .. n + 1 : d.min <= v[j] /\ v[j] <= d.max
    <3> TAKE j \in 1 .. n + 1
    <3>1. CASE j = n + 1
      BY <3>1, <2>2, <1>2, <1>3, <1>7
    <3>2. CASE j \in 1 .. n
      BY <3>2, <2>1, <1>2, <1>3, <1>7
    <3> QED
      BY <3>1, <3>2, <1>1
  <2>4. \E i \in 1 .. n + 1 : d.min = v[i]
    <3>1. CASE c.min <= us
      <4>1. w # <<>>
        BY <3>1, <1>2, <1>3, HighestIs DEF Holds, InRange
      <4>2. PICK i \in 1 .. n : c.min = w[i]
        BY <4>1 DEF Holds, InRange, n
      <4>3. i \in 1 .. n + 1 /\ d.min = v[i]
        BY <4>2, <3>1, <1>1, <1>7
      <4> QED
        BY <4>3
    <3>2. CASE ~ (c.min <= us)
      BY <3>2, <2>2, <1>7
    <3> QED
      BY <3>1, <3>2
  <2>5. \E j \in 1 .. n + 1 : d.max = v[j]
    <3>1. CASE c.max >= us /\ w # <<>>
      <4>2. PICK i \in 1 .. n : c.max = w[i]
        BY <3>1 DEF Holds, InRange, n
      <4>3. i \in 1 .. n + 1 /\ d.max = v[i]
        BY <4>2, <3>1, <1>1, <1>7
      <4> QED
        BY <4>3
    <3>2. CASE ~ (c.max >= us)
      BY <3>2, <2>2, <1>7
    <3>3. CASE w = <<>>
      <4>1. c.max = 0
        BY <3>3 DEF Holds, InRange
      <4>2. d.max = us
        BY <4>1, <1>2, <1>7
      <4> QED
        BY <4>2, <2>2
    <3> QED
      BY <3>1, <3>2, <3>3
  <2> QED
    BY <2>3, <2>4, <2>5, <1>1 DEF InRange
<1> QED
  BY <1>8, <1>10, <1>11, <1>12 DEF Holds, d, v

-----------------------------------------------------------------------------
(* The steps of the client.                                                *)

\* The type invariant, with its records named.
LEMMA TypeIs ==
  RdTypeOK <=>
    /\ conns \in Seq(0 .. MaxIds - 1)
    /\ collectors \in [Indices -> Collector]
    /\ nextId \in 0 .. MaxIds
    /\ tasks \subseteq 0 .. MaxIds - 1 /\ told \subseteq 0 .. MaxIds - 1
    /\ op \in [name : {"none", "evaluate", "stop"}, idx : 0 .. ConnCount]
    /\ recorded \in 0 .. MaxSamples
    /\ window \in [Indices -> Seq(Latencies)]
BY DEF RdTypeOK, Collector

LEMMA ConnsShape ==
  ASSUME RdTypeOK
  PROVE  /\ Len(conns) \in Nat /\ DOMAIN conns = 1 .. Len(conns)
         /\ \A i \in DOMAIN conns : conns[i] \in 0 .. MaxIds - 1
         /\ \A id : id \in ToSet(conns) <=> \E i \in DOMAIN conns : id = conns[i]
         /\ ConnCount \in Nat /\ MaxIds \in Nat
<1>1. conns \in Seq(0 .. MaxIds - 1)
  BY DEF RdTypeOK
<1>2. Len(conns) \in Nat /\ DOMAIN conns = 1 .. Len(conns)
  BY <1>1
<1>3. \A i \in DOMAIN conns : conns[i] \in 0 .. MaxIds - 1
  BY <1>1, <1>2, ElementOfSeq
<1> QED
  BY <1>2, <1>3, RedundantAssumption DEF ToSet

LEMMA InitRdInv == RdInit => RdInv
<1> SUFFICES ASSUME RdInit PROVE RdInv
  OBVIOUS
<1>1. conns = <<>> /\ Len(conns) = 0 /\ DOMAIN conns = {} /\ ToSet(conns) = {}
  BY DEF RdInit, ToSet
<1>2. \A i \in Indices : collectors[i] = NewCollector /\ window[i] = <<>>
  BY DEF RdInit
<1>3. RdTypeOK
  <2>1. collectors \in [Indices -> Collector] /\ window \in [Indices -> Seq(Latencies)]
    BY NewCollectorHolds DEF RdInit
  <2>2. op \in [name : {"none", "evaluate", "stop"}, idx : 0 .. ConnCount]
    BY RedundantAssumption DEF RdInit, NoOp
  <2>3. conns \in Seq(0 .. MaxIds - 1)
    BY RedundantAssumption DEF RdInit
  <2>4. nextId \in 0 .. MaxIds /\ recorded \in 0 .. MaxSamples /\ tasks = {} /\ told = {}
    BY RedundantAssumption DEF RdInit
  <2> QED
    BY <2>1, <2>2, <2>3, <2>4, TypeIs
<1>4. Shape
  BY <1>1 DEF RdInit, Shape, IsInjective
<1>5. Stopping
  BY <1>1 DEF RdInit, Stopping
<1>6. Summary
  BY <1>2, NewCollectorHolds DEF Summary
<1>8. Judged
  BY DEF RdInit, NoOp, Judged
<1> QED
  BY <1>3, <1>4, <1>5, <1>6, <1>8 DEF RdInv

\* A step that leaves the collectors and the judgement alone.
LEMMA SamplesStay ==
  ASSUME Summary, Judged, UNCHANGED <<collectors, window>>,
         op' = op \/ op'.name # "evaluate"
  PROVE  Summary' /\ Judged'
BY DEF Summary, Judged, HighestAverage

LEMMA StartKeeps == RdInv /\ Start => RdInv'
<1> SUFFICES ASSUME RdInv, Start PROVE RdInv'
  OBVIOUS
<1> USE DEF RdInv
<1>1. /\ conns = <<>> /\ conns' = [i \in Indices |-> nextId + i - 1] /\ Indices = 1 .. ConnCount
      /\ ConnCount \in Nat /\ MaxIds \in Nat /\ nextId \in 0 .. MaxIds /\ nextId + ConnCount <= MaxIds
      /\ nextId' = nextId + ConnCount /\ op = NoOp /\ DOMAIN conns = {} /\ ToSet(conns) = {}
  BY RedundantAssumption DEF Start, samplevars, RdTypeOK, Indices, ToSet
<1>2. \A i \in 1 .. ConnCount : conns'[i] = nextId + i - 1 /\ conns'[i] \in 0 .. MaxIds - 1
                                /\ conns'[i] < nextId' /\ conns'[i] >= nextId
  BY <1>1
<1>3. conns' \in Seq(0 .. MaxIds - 1) /\ Len(conns') = ConnCount /\ DOMAIN conns' = 1 .. ConnCount
  <2>1. conns' \in [1 .. ConnCount -> 0 .. MaxIds - 1]
    BY <1>1, <1>2
  <2> QED
    BY <2>1, <1>1
<1>4. ToSet(conns)' = {conns'[i] : i \in 1 .. ConnCount}
  BY <1>3 DEF ToSet
<1>5. tasks = {} /\ tasks' = ToSet(conns)' /\ tasks' \subseteq 0 .. MaxIds - 1
  <2>1. tasks = {}
    BY <1>1 DEF Shape
  <2>2. tasks' = ToSet(conns)'
    BY <2>1 DEF Start, samplevars, ToSet
  <2> QED
    BY <1>2, <1>4, <2>1, <2>2
<1>6. RdTypeOK'
  <2>1. nextId' \in 0 .. MaxIds
    BY <1>1 DEF Start, samplevars, RdTypeOK
  <2> QED
    BY <1>3, <1>5, <2>1 DEF Start, samplevars, RdTypeOK, Indices
<1>7. Shape'
  <2>1. IsInjective(conns)'
    BY <1>1, <1>2, <1>3 DEF IsInjective
  <2>2. \A id \in told' : id < nextId'
    <3>1. \A id \in told : id \in Nat /\ id < nextId
      BY DEF RdTypeOK, Shape
    <3> QED
      BY <1>1, <3>1 DEF Start, samplevars
  <2> QED
    BY <2>1, <2>2, <1>2, <1>3, <1>5 DEF Shape
<1>8. Stopping'
  <2>1. told' \cap ToSet(conns)' = {}
    <3>1. told' = told /\ \A id \in told : id \in Nat /\ id < nextId
      BY DEF Start, samplevars, RdTypeOK, Shape
    <3>2. \A id \in ToSet(conns)' : id >= nextId
      BY <1>2, <1>4
    <3> QED
      BY <3>1, <3>2, <1>1
  <2> QED
    BY <2>1, <1>1, <1>5 DEF Start, samplevars, Stopping
<1>9. Summary' /\ Judged'
  BY <1>1 DEF Start, samplevars, Summary, Judged, NoOp
<1> QED
  BY <1>6, <1>7, <1>8, <1>9

LEMMA RecordKeeps ==
  ASSUME RdInv, NEW i \in Indices, NEW us \in Latencies, RecordLatency(i, us)
  PROVE  RdInv'
<1> USE DEF RdInv
<1>1. /\ UNCHANGED <<conns, nextId, op, tasks, told>> /\ op = NoOp
      /\ collectors' = [collectors EXCEPT ![i] = RecordIn(collectors[i], us)]
      /\ window' = [window EXCEPT ![i] = Append(window[i], us)]
  BY DEF RecordLatency
<1>2. recorded' \in 0 .. MaxSamples
  BY RedundantAssumption DEF RecordLatency, RdTypeOK
<1>3. collectors \in [Indices -> Collector] /\ window \in [Indices -> Seq(Latencies)]
  BY TypeIs
<1>4. /\ RecordIn(collectors[i], us) \in Collector /\ Append(window[i], us) \in Seq(Latencies)
      /\ Holds(RecordIn(collectors[i], us), Append(window[i], us))
  <2>1. Holds(collectors[i], window[i]) /\ collectors[i] \in Collector /\ window[i] \in Seq(Latencies)
    BY <1>3 DEF Summary
  <2> QED
    BY <2>1, RecordHolds
<1>5. RdTypeOK'
  <2>1. collectors' \in [Indices -> Collector] /\ window' \in [Indices -> Seq(Latencies)]
    BY <1>1, <1>3, <1>4
  <2> QED
    BY <1>1, <1>2, <2>1 DEF RdTypeOK, Collector
<1>6. Shape' /\ Stopping'
  BY <1>1 DEF Shape, Stopping
<1>7. Summary'
  BY <1>1, <1>3, <1>4 DEF Summary
<1>8. Judged'
  BY <1>1 DEF Judged, NoOp
<1> QED
  BY <1>5, <1>6, <1>7, <1>8

\* The one that evaluate_and_reset picks has the highest average ...
LEMMA WorstIs ==
  ASSUME RdInv, NEW i \in Worst
  PROVE  i \in Indices /\ HighestAverage(i)
<1>1. i \in Indices /\ collectors[i].sum > 0
      /\ \A j \in Indices : ~ Slower(collectors[j], collectors[i])
  BY DEF Worst
<1>2. \A j \in Indices : /\ collectors[j].sum = Total(window[j]) /\ collectors[j].count = Len(window[j])
                         /\ collectors[j].sum \in Nat /\ collectors[j].count \in Nat
  BY TypeIs DEF RdInv, Summary, Holds, Collector
<1>3. ASSUME NEW j \in Indices
      PROVE  Total(window[j]) * Len(window[i]) <= Total(window[i]) * Len(window[j])
  <2>1. ~ (collectors[j].sum * collectors[i].count > collectors[i].sum * collectors[j].count)
    BY <1>1 DEF Slower
  <2>2. collectors[j].sum * collectors[i].count \in Nat /\ collectors[i].sum * collectors[j].count \in Nat
    BY <1>1, <1>2, TimesMonotone
  <2> QED
    BY <1>1, <1>2, <2>1, <2>2
<1> QED
  BY <1>1, <1>2, <1>3 DEF HighestAverage

\* ... and it picks none only where nothing above zero was recorded.
LEMMA NoneWorst ==
  ASSUME RdInv, Worst = {}
  PROVE  \A j \in Indices : Total(window[j]) = 0
<1> SUFFICES ASSUME NEW one \in Indices, Total(window[one]) # 0 PROVE FALSE
  OBVIOUS
<1> DEFINE s == [i \in 1 .. ConnCount |-> collectors[i].sum]
           n == [i \in 1 .. ConnCount |-> collectors[i].count]
<1>1. \A j \in Indices : /\ collectors[j].sum = Total(window[j]) /\ collectors[j].count = Len(window[j])
                         /\ collectors[j].sum \in Nat /\ collectors[j].count \in Nat
  BY TypeIs DEF RdInv, Summary, Holds, Collector
<1>2. ConnCount \in Nat /\ Indices = 1 .. ConnCount
  BY RedundantAssumption DEF Indices
<1>3. s \in [1 .. ConnCount -> Nat] /\ n \in [1 .. ConnCount -> Nat]
  BY <1>1, <1>2
<1>4. \A i \in 1 .. ConnCount : s[i] > 0 => n[i] > 0
  <2> TAKE i \in 1 .. ConnCount
  <2>1. collectors[i].count # 0 \/ window[i] = <<>>
    BY <1>1, <1>2, TypeIs, EmptySeq DEF RdInv
  <2> QED
    BY <1>1, <1>2, <2>1, TotalEmpty
<1>5. one \in 1 .. ConnCount /\ s[one] > 0
  BY <1>1, <1>2
<1>6. PICK i \in 1 .. ConnCount :
        /\ s[i] > 0 /\ \A j \in 1 .. ConnCount : s[j] * n[i] <= s[i] * n[j]
        /\ \A j \in 1 .. i - 1 : n[j] > 0 => s[i] * n[j] > s[j] * n[i]
  BY <1>2, <1>3, <1>4, <1>5, FirstHighest
<1>7. i \in Indices /\ collectors[i].sum > 0
  BY <1>2, <1>6
<1>8. ASSUME NEW j \in Indices PROVE ~ Slower(collectors[j], collectors[i])
  <2>1. s[j] * n[i] \in Nat /\ s[i] * n[j] \in Nat /\ s[j] * n[i] <= s[i] * n[j]
    BY <1>2, <1>3, <1>6, TimesMonotone
  <2>2. /\ collectors[j].sum * collectors[i].count = s[j] * n[i]
        /\ collectors[i].sum * collectors[j].count = s[i] * n[j]
    BY <1>2
  <2> HIDE DEF s, n
  <2> QED
    BY <2>1, <2>2 DEF Slower
<1>9. ASSUME NEW j \in 1 .. i - 1, collectors[j].count > 0 PROVE Slower(collectors[i], collectors[j])
  <2>1. j \in 1 .. ConnCount
    BY <1>2
  <2> QED
    BY <2>1, <1>6, <1>9 DEF Slower
<1>10. i \in Worst
  BY <1>7, <1>8, <1>9 DEF Worst
<1> QED
  BY <1>10

\* A call begins to await: one more connection is told to stop.
LEMMA EvaluateKeeps == ASSUME RdInv, NEW i \in Indices, Evaluate(i) PROVE RdInv'
<1> USE DEF RdInv
<1>1. UNCHANGED <<conns, collectors, nextId, tasks, recorded, window>>
      /\ op = NoOp /\ op' = [name |-> "evaluate", idx |-> i] /\ told' = told \cup {conns[i]}
      /\ i \in Worst /\ Len(conns) > 1
  BY DEF Evaluate, samplevars
<1>2. i \in DOMAIN conns /\ i \in 0 .. ConnCount /\ conns[i] \in 0 .. MaxIds - 1
  BY <1>1, ConnsShape DEF Shape, Indices
<1>3. RdTypeOK'
  BY <1>1, <1>2 DEF RdTypeOK
<1>4. Shape'
  BY <1>1, <1>2 DEF Shape
<1>5. Stopping'
  <2>1. tasks = ToSet(conns) /\ told \cap ToSet(conns) = {}
    BY <1>1 DEF Stopping, NoOp
  <2>2. ASSUME NEW j \in DOMAIN conns, j # i PROVE conns[j] \in tasks /\ conns[j] \notin told'
    <3>1. conns[j] # conns[i]
      BY <1>2, <2>2 DEF Shape, IsInjective
    <3> QED
      BY <2>1, <3>1, <1>1, ConnsShape
  <2>3. \A j \in DOMAIN conns : j > i => j # i
    BY <1>2, ConnsShape
  <2> QED
    BY <1>1, <1>2, <2>2, <2>3 DEF Stopping
<1>6. HighestAverage(i)
  BY <1>1, WorstIs
<1>7. Summary' /\ Judged'
  BY <1>1, <1>6 DEF Summary, Judged, HighestAverage
<1> QED
  BY <1>3, <1>4, <1>5, <1>7

LEMMA EvaluateNoneKeeps == RdInv /\ EvaluateNone => RdInv'
<1> SUFFICES ASSUME RdInv, EvaluateNone PROVE RdInv'
  OBVIOUS
<1> USE DEF RdInv
<1>1. UNCHANGED <<conns, nextId, op, tasks, told, recorded>> /\ op = NoOp
  BY DEF EvaluateNone
<1>2. \A i \in Indices : collectors'[i] = NewCollector /\ window'[i] = <<>>
  BY DEF EvaluateNone
<1>3. RdTypeOK'
  <2>1. collectors' \in [Indices -> Collector] /\ window' \in [Indices -> Seq(Latencies)]
    BY NewCollectorHolds DEF EvaluateNone
  <2> QED
    BY <1>1, <2>1 DEF RdTypeOK, Collector
<1>4. Shape' /\ Stopping'
  BY <1>1 DEF Shape, Stopping
<1>5. Summary'
  BY <1>2, NewCollectorHolds DEF Summary
<1>7. Judged'
  BY <1>1 DEF Judged, NoOp
<1> QED
  BY <1>3, <1>4, <1>5, <1>7

LEMMA ReplaceKeeps == RdInv /\ Replace => RdInv'
<1> SUFFICES ASSUME RdInv, Replace PROVE RdInv'
  OBVIOUS
<1> USE DEF RdInv
<1> DEFINE x == op.idx
<1>1. /\ op.name = "evaluate" /\ conns[x] \notin tasks /\ nextId < MaxIds
      /\ collectors' = [collectors EXCEPT ![x] = NewCollector]
      /\ window' = [window EXCEPT ![x] = <<>>]
      /\ conns' = [conns EXCEPT ![x] = nextId]
      /\ tasks' = tasks \cup {nextId} /\ nextId' = nextId + 1 /\ op' = NoOp
      /\ UNCHANGED <<told, recorded>>
  BY DEF Replace
<1>2. /\ x \in DOMAIN conns
      /\ \A j \in DOMAIN conns : j # x => conns[j] \in tasks /\ conns[j] \notin told
  BY <1>1 DEF Stopping, NoOp
<1>3. Len(conns) \in Nat /\ DOMAIN conns = 1 .. Len(conns) /\ DOMAIN conns \subseteq Indices
  BY ConnsShape DEF Shape, Indices
<1> HIDE DEF x
<1>0. conns \in Seq(0 .. MaxIds - 1) /\ nextId \in 0 .. MaxIds - 1 /\ MaxIds \in Nat
      /\ nextId \in Nat /\ nextId' \in 0 .. MaxIds /\ tasks \subseteq 0 .. MaxIds - 1
  <2>1. conns \in Seq(0 .. MaxIds - 1) /\ nextId \in 0 .. MaxIds /\ tasks \subseteq 0 .. MaxIds - 1
    BY TypeIs
  <2> QED
    BY <2>1, <1>1, RedundantAssumption
<1>4. /\ conns' \in Seq(0 .. MaxIds - 1) /\ Len(conns') = Len(conns) /\ DOMAIN conns' = DOMAIN conns
      /\ \A j \in DOMAIN conns : conns'[j] = IF j = x THEN nextId ELSE conns[j]
  <2>1. conns \in Seq(0 .. MaxIds - 1) /\ nextId \in 0 .. MaxIds - 1 /\ x \in 1 .. Len(conns)
    BY <1>0, <1>2, <1>3
  <2>2. conns' \in Seq(0 .. MaxIds - 1) /\ Len(conns') = Len(conns)
    BY <1>1, <2>1, ExceptSeq
  <2> QED
    BY <1>1, <1>2, <2>2
<1>5. /\ nextId \in 0 .. MaxIds - 1 /\ nextId \in Nat
      /\ \A j \in DOMAIN conns : conns[j] < nextId /\ conns[j] \in Nat
  <2>1. \A j \in DOMAIN conns : conns[j] \in Nat
    BY ConnsShape
  <2> QED
    BY <2>1, <1>0 DEF Shape
<1>6. RdTypeOK'
  <2>1. collectors' \in [Indices -> Collector] /\ window' \in [Indices -> Seq(Latencies)]
    <3>1. collectors \in [Indices -> Collector] /\ window \in [Indices -> Seq(Latencies)]
      BY TypeIs
    <3>2. NewCollector \in Collector /\ <<>> \in Seq(Latencies)
      BY NewCollectorHolds
    <3>3. collectors' \in [Indices -> Collector]
      BY <1>1, <3>1, <3>2
    <3>4. window' \in [Indices -> Seq(Latencies)]
      BY <1>1, <3>1, <3>2
    <3> QED
      BY <3>3, <3>4
  <2>2. op' \in [name : {"none", "evaluate", "stop"}, idx : 0 .. ConnCount]
    BY <1>1, RedundantAssumption DEF NoOp
  <2>3. nextId' \in 0 .. MaxIds /\ tasks' \subseteq 0 .. MaxIds - 1
    BY <1>0, <1>1
  <2> QED
    BY <1>1, <1>4, <2>1, <2>2, <2>3 DEF RdTypeOK, Collector
<1>7. tasks' = ToSet(conns)'
  <2>1. ToSet(conns)' = {conns'[j] : j \in DOMAIN conns}
    BY <1>4 DEF ToSet
  <2>2. ASSUME NEW id \in tasks' PROVE id \in ToSet(conns)'
    <3>1. CASE id = nextId
      BY <3>1, <2>1, <1>2, <1>4
    <3>2. CASE id \in tasks
      <4>1. PICK j \in DOMAIN conns : id = conns[j]
        BY <3>2, ConnsShape DEF Shape
      <4>2. j # x
        BY <4>1, <3>2, <1>1
      <4> QED
        BY <4>1, <4>2, <2>1, <1>4
    <3> QED
      BY <3>1, <3>2, <1>1
  <2>3. \A j \in DOMAIN conns : conns'[j] \in tasks'
    BY <1>1, <1>2, <1>4
  <2> QED
    BY <2>1, <2>2, <2>3
<1>8. Shape'
  <2>1. IsInjective(conns)'
    <3> SUFFICES ASSUME NEW a \in DOMAIN conns, NEW b \in DOMAIN conns, conns'[a] = conns'[b] PROVE a = b
      BY <1>4 DEF IsInjective
    <3>1. conns[a] = conns[b] => a = b
      BY DEF Shape, IsInjective
    <3> QED
      BY <3>1, <1>4, <1>5
  <2>2. \A id \in told' : id < nextId'
    <3>1. \A id \in told : id \in Nat /\ id < nextId
      BY DEF RdTypeOK, Shape
    <3> QED
      BY <1>1, <1>5, <3>1
  <2>3. \A j \in DOMAIN conns' : conns'[j] < nextId'
    BY <1>1, <1>4, <1>5
  <2> QED
    BY <2>1, <2>2, <2>3, <1>4, <1>7 DEF Shape
<1>9. Stopping'
  <2>1. \A j \in DOMAIN conns : conns'[j] \notin told
    <3>1. nextId \notin told
      BY <1>5 DEF Shape
    <3> QED
      BY <3>1, <1>2, <1>4
  <2>2. told' \cap ToSet(conns)' = {}
    BY <2>1, <1>1, <1>4 DEF ToSet
  <2> QED
    BY <2>2, <1>1, <1>7 DEF Stopping
<1>10. Summary'
  <2> SUFFICES ASSUME NEW i \in Indices PROVE Holds(collectors'[i], window'[i])
    BY DEF Summary
  <2>1. collectors'[i] = (IF i = x THEN NewCollector ELSE collectors[i])
        /\ window'[i] = (IF i = x THEN <<>> ELSE window[i])
    BY <1>1 DEF RdTypeOK
  <2> QED
    BY <2>1, NewCollectorHolds DEF Summary
<1>12. Judged'
  BY <1>1 DEF Judged, NoOp
<1> QED
  BY <1>6, <1>8, <1>9, <1>10, <1>12

LEMMA StopKeeps == RdInv /\ Stop => RdInv'
<1> SUFFICES ASSUME RdInv, Stop PROVE RdInv'
  OBVIOUS
<1> USE DEF RdInv
<1>1. UNCHANGED <<conns, collectors, nextId, tasks, recorded, window>>
      /\ op = NoOp /\ op' = [name |-> "stop", idx |-> 1] /\ told' = told \cup {conns[1]} /\ conns # <<>>
  BY DEF Stop, samplevars
<1>2. 1 \in DOMAIN conns /\ 1 \in 0 .. ConnCount /\ conns[1] \in 0 .. MaxIds - 1
  <2>1. Len(conns) # 0
    BY <1>1, EmptySeq, TypeIs
  <2> QED
    BY <2>1, ConnsShape DEF Shape
<1>3. RdTypeOK'
  BY <1>1, <1>2 DEF RdTypeOK
<1>4. Shape'
  BY <1>1, <1>2 DEF Shape
<1>5. Stopping'
  <2>1. tasks = ToSet(conns) /\ told \cap ToSet(conns) = {}
    BY <1>1 DEF Stopping, NoOp
  <2>2. ASSUME NEW j \in DOMAIN conns, j # 1 PROVE conns[j] \in tasks /\ conns[j] \notin told'
    <3>1. conns[j] # conns[1]
      BY <1>2, <2>2 DEF Shape, IsInjective
    <3> QED
      BY <2>1, <3>1, <1>1, ConnsShape
  <2>3. \A j \in DOMAIN conns : (j > 1 => j # 1) /\ ~ (j < 1)
    BY ConnsShape
  <2> QED
    BY <1>1, <1>2, <2>2, <2>3 DEF Stopping
<1>6. Summary' /\ Judged'
  BY <1>1, SamplesStay
<1> QED
  BY <1>3, <1>4, <1>5, <1>6

LEMMA StopNextKeeps == RdInv /\ StopNext => RdInv'
<1> SUFFICES ASSUME RdInv, StopNext PROVE RdInv'
  OBVIOUS
<1> USE DEF RdInv
<1> DEFINE x == op.idx
<1>1. UNCHANGED <<conns, collectors, nextId, tasks, recorded, window>>
      /\ op.name = "stop" /\ conns[x] \notin tasks /\ x < Len(conns)
      /\ op' = [op EXCEPT !.idx = @ + 1] /\ told' = told \cup {conns[x + 1]}
  BY DEF StopNext, samplevars
<1>2. /\ x \in DOMAIN conns
      /\ \A j \in DOMAIN conns : /\ j > x => conns[j] \in tasks /\ conns[j] \notin told
                                 /\ j < x => conns[j] \notin tasks
  BY <1>1 DEF Stopping, NoOp
<1>3. op' = [name |-> "stop", idx |-> x + 1]
  BY <1>1 DEF RdTypeOK
<1> HIDE DEF x
<1>4. x + 1 \in DOMAIN conns /\ x + 1 \in 0 .. ConnCount /\ conns[x + 1] \in 0 .. MaxIds - 1 /\ x \in Nat
  BY <1>1, <1>2, ConnsShape DEF Shape
<1>5. RdTypeOK'
  <2>1. op' \in [name : {"none", "evaluate", "stop"}, idx : 0 .. ConnCount]
    BY <1>3, <1>4
  <2>2. told' \subseteq 0 .. MaxIds - 1
    BY <1>1, <1>4 DEF RdTypeOK
  <2> QED
    BY <1>1, <2>1, <2>2 DEF RdTypeOK
<1>6. Shape'
  BY <1>1, <1>4 DEF Shape
<1>7. Stopping'
  <2>1. ASSUME NEW j \in DOMAIN conns, j > x + 1 PROVE conns[j] \in tasks /\ conns[j] \notin told'
    <3>1. conns[j] # conns[x + 1] /\ j > x
      BY <1>4, <2>1, ConnsShape DEF Shape, IsInjective
    <3> QED
      BY <3>1, <1>1, <1>2
  <2>2. ASSUME NEW j \in DOMAIN conns, j < x + 1 PROVE conns[j] \notin tasks
    <3>1. j < x \/ j = x
      BY <2>2, <1>4, ConnsShape
    <3> QED
      BY <3>1, <1>1, <1>2
  <2> QED
    BY <2>1, <2>2, <1>1, <1>3, <1>4 DEF Stopping
<1>8. Summary' /\ Judged'
  BY <1>1, <1>3, SamplesStay
<1> QED
  BY <1>5, <1>6, <1>7, <1>8

LEMMA StoppedKeeps == RdInv /\ Stopped => RdInv'
<1> SUFFICES ASSUME RdInv, Stopped PROVE RdInv'
  OBVIOUS
<1> USE DEF RdInv
<1>1. UNCHANGED <<collectors, nextId, tasks, told, recorded, window>>
      /\ op.name = "stop" /\ conns[op.idx] \notin tasks /\ op.idx = Len(conns)
      /\ op' = NoOp /\ conns' = <<>>
  BY DEF Stopped, samplevars
<1>2. DOMAIN conns' = {} /\ Len(conns') = 0 /\ ToSet(conns)' = {}
  BY <1>1 DEF ToSet
<1>3. tasks = {}
  <2>1. \A j \in DOMAIN conns : j < op.idx \/ j = op.idx
    BY <1>1, ConnsShape
  <2>2. \A j \in DOMAIN conns : conns[j] \notin tasks
    BY <2>1, <1>1 DEF Stopping, NoOp
  <2> QED
    BY <2>2, ConnsShape DEF Shape
<1>4. RdTypeOK'
  <2>1. op' \in [name : {"none", "evaluate", "stop"}, idx : 0 .. ConnCount]
    BY <1>1, RedundantAssumption DEF NoOp
  <2>2. conns' \in Seq(0 .. MaxIds - 1)
    BY <1>1
  <2> QED
    BY <1>1, <2>1, <2>2 DEF RdTypeOK
<1>5. Shape'
  BY <1>1, <1>2, <1>3 DEF Shape, IsInjective
<1>6. Stopping'
  BY <1>1, <1>2, <1>3 DEF Stopping
<1>7. Summary' /\ Judged'
  BY <1>1 DEF Summary, Judged, NoOp
<1> QED
  BY <1>4, <1>5, <1>6, <1>7

LEMMA TaskEndsKeeps == ASSUME RdInv, NEW id \in tasks, TaskEnds(id) PROVE RdInv'
<1> USE DEF RdInv
<1>1. UNCHANGED <<conns, collectors, nextId, op, told, recorded, window>>
      /\ id \in tasks /\ id \in told /\ tasks' = tasks \ {id}
  BY DEF TaskEnds, samplevars
<1>2. id \in ToSet(conns)
  BY <1>1 DEF Shape
<1>3. op # NoOp
  BY <1>1, <1>2 DEF Stopping, NoOp
<1>4. Stopping'
  <2>1. ASSUME NEW j \in DOMAIN conns, conns[j] \in tasks, conns[j] \notin told PROVE conns[j] \in tasks'
    BY <2>1, <1>1
  <2> QED
    BY <2>1, <1>1, <1>3 DEF Stopping
<1>5. RdTypeOK' /\ Shape'
  BY <1>1 DEF RdTypeOK, Shape
<1>6. Summary' /\ Judged'
  BY <1>1, SamplesStay
<1> QED
  BY <1>4, <1>5, <1>6

LEMMA NextRdInv == RdInv /\ [RdNext]_rdvars => RdInv'
<1> SUFFICES ASSUME RdInv, [RdNext]_rdvars PROVE RdInv'
  OBVIOUS
<1>1. CASE UNCHANGED rdvars
  <2>1. UNCHANGED <<conns, collectors, nextId, tasks, told, op, recorded, window>>
    BY <1>1 DEF rdvars, samplevars
  <2>2. RdTypeOK' /\ Shape' /\ Stopping'
    BY <2>1 DEF RdInv, RdTypeOK, Shape, Stopping
  <2> QED
    BY <2>1, <2>2, SamplesStay DEF RdInv
<1>2. CASE \E i \in Indices : Evaluate(i)
  BY <1>2, EvaluateKeeps
<1>3. CASE \E id \in tasks : TaskEnds(id)
  BY <1>3, TaskEndsKeeps
<1>4. CASE \E i \in Indices : \E us \in Latencies : RecordLatency(i, us)
  BY <1>4, RecordKeeps
<1> QED
  BY <1>1, <1>2, <1>3, <1>4, StartKeeps, EvaluateNoneKeeps, ReplaceKeeps, StopKeeps,
     StopNextKeeps, StoppedKeeps DEF RdNext

(* In every reachable state the inductive invariant holds.                 *)
THEOREM RdInvariance == RdSpec => []RdInv
<1> QED
  BY InitRdInv, NextRdInv, PTL DEF RdSpec

(* The client and its collectors keep their types.                         *)
THEOREM RdTypeCorrect == RdSpec => []RdTypeOK
<1>1. RdInv => RdTypeOK
  BY DEF RdInv
<1> QED
  BY <1>1, RdInvariance, PTL

LEMMA OneTask == RdInv => OneTaskPerPlace
<1> SUFFICES ASSUME RdInv PROVE OneTaskPerPlace
  OBVIOUS
<1>1. op = NoOp => tasks = ToSet(conns)
  BY DEF RdInv, Stopping, NoOp
<1> QED
  BY <1>1 DEF RdInv, Shape, OneTaskPerPlace

(* For any number of connections: between calls the tasks that run are     *)
(* those of the connections the client holds, no id is used twice, and a   *)
(* replaced connection has ended before its replacement starts.            *)
THEOREM OneTaskPerPlaceHolds == RdSpec => []OneTaskPerPlace
<1> QED
  BY OneTask, RdInvariance, PTL

LEMMA Summarised == RdInv => WindowSummarised
<1> SUFFICES ASSUME RdInv, NEW i \in Indices
             PROVE  LET c == collectors[i]
                        w == window[i]
                    IN  /\ c.count = Len(w) /\ c.sum = Total(w)
                        /\ w # <<>> =>
                             /\ c.min = Min(ToSet(w)) /\ c.max = Max(ToSet(w))
                             /\ \A p \in {<<1, 2>>, <<9, 10>>, <<99, 100>>} :
                                  Percentile(c, p[1], p[2]) = Bin(OfRank(w, RankAt(w, p[1], p[2]))) * BinWidth
  BY DEF WindowSummarised
<1> DEFINE c == collectors[i]
           w == window[i]
<1>1. Holds(c, w) /\ w \in Seq(Latencies)
  BY TypeIs DEF RdInv, Summary
<1> HIDE DEF c, w
<1>3. IsWindow(w) /\ \A j \in 1 .. Len(w) : w[j] <= Highest /\ w[j] \in Nat
  BY <1>1, WindowType, HighestIs
<1>4. c.count = Len(w) /\ c.sum = Total(w) /\ Counted(c, w) /\ InRange(c, w)
  BY <1>1 DEF Holds
<1>5. ASSUME w # <<>> PROVE c.min = Min(ToSet(w)) /\ c.max = Max(ToSet(w))
  <2> DEFINE T == ToSet(w)
  <2>1. \A x : x \in T <=> \E j \in 1 .. Len(w) : x = w[j]
    BY <1>3, SampleType
  <2>2. T \in SUBSET Nat /\ c.min \in T /\ c.max \in T /\ \A y \in T : c.min <= y /\ y <= c.max
    <3> HIDE DEF T
    <3> QED
      BY <2>1, <1>3, <1>4, <1>5 DEF InRange
  <2> HIDE DEF T
  <2>3. Min(T) \in T /\ \A y \in T : Min(T) <= y
    BY <2>2, MinNat
  <2>4. Max(T) \in T /\ \A y \in T : Max(T) >= y
    BY <2>2, MaxNat
  <2>5. c.min = Min(T)
    <3>1. c.min <= Min(T) /\ Min(T) <= c.min /\ c.min \in Nat /\ Min(T) \in Nat
      BY <2>2, <2>3
    <3> QED
      BY <3>1
  <2>6. c.max = Max(T)
    <3>1. Max(T) <= c.max /\ c.max <= Max(T) /\ c.max \in Nat /\ Max(T) \in Nat
      BY <2>2, <2>4
    <3> QED
      BY <3>1
  <2> QED
    BY <2>5, <2>6 DEF T
<1>6. ASSUME w # <<>>, NEW p \in {<<1, 2>>, <<9, 10>>, <<99, 100>>}
      PROVE  Percentile(c, p[1], p[2]) = Bin(OfRank(w, RankAt(w, p[1], p[2]))) * BinWidth
  <2>1. RankAt(w, p[1], p[2]) \in 1 .. Len(w)
    BY <1>3, <1>6, Ranks
  <2>2. Highest \in Nat /\ \A j \in 1 .. Len(w) : w[j] <= Highest
    BY <1>3, HighestIs
  <2>3. \A num, den : RankAt(w, num, den) \in 1 .. Len(w) =>
          Percentile(c, num, den) = Bin(OfRank(w, RankAt(w, num, den))) * BinWidth
    BY <2>2, <1>3, <1>4, PercentileIs
  <2> QED
    BY <2>1, <2>3
<1> QED
  BY <1>4, <1>5, <1>6 DEF c, w

(* For any histogram and any latencies: count, sum, minimum and maximum    *)
(* are those of the samples recorded there since the last reset, and the   *)
(* percentiles are the bins of the samples of that rank.                   *)
THEOREM WindowSummarisedHolds == RdSpec => []WindowSummarised
<1> QED
  BY Summarised, RdInvariance, PTL

\* What SlowestReplaced asks of a step.
SlowestStep ==
  \A i \in Indices :
    /\ i \in DOMAIN conns /\ i \in DOMAIN conns' /\ conns'[i] # conns[i] =>
         /\ Total(window[i]) > 0
         /\ \A j \in Indices :
              Total(window[j]) * Len(window[i]) <= Total(window[i]) * Len(window[j])
    /\ i \in DOMAIN conns /\ conns' = conns /\ collectors'[i].count < collectors[i].count =>
         \A j \in Indices : Total(window[j]) = 0

LEMMA Replaced == RdInv /\ [RdNext]_rdvars => SlowestStep
<1> SUFFICES ASSUME RdInv, [RdNext]_rdvars PROVE SlowestStep
  OBVIOUS
<1>1. CASE collectors' = collectors /\ conns' = conns
  <2>1. \A i \in Indices : collectors[i].count \in Nat
    BY TypeIs DEF RdInv, Collector
  <2> QED
    BY <1>1, <2>1 DEF SlowestStep
<1>2. CASE Start
  <2>1. conns = <<>>
    BY <1>2 DEF Start
  <2> QED
    BY <2>1 DEF SlowestStep
<1>3. CASE Stopped
  <2>1. conns' = <<>> /\ collectors' = collectors
    BY <1>3 DEF Stopped, samplevars
  <2>2. \A i \in Indices : collectors[i].count \in Nat
    BY TypeIs DEF RdInv, Collector
  <2> QED
    BY <2>1, <2>2 DEF SlowestStep
<1>4. CASE \E k \in Indices : \E us \in Latencies : RecordLatency(k, us)
  <2>0. PICK k \in Indices : \E us \in Latencies : RecordLatency(k, us)
    BY <1>4
  <2>3. PICK us \in Latencies : RecordLatency(k, us)
    BY <2>0
  <2>1. conns' = conns /\ collectors' = [collectors EXCEPT ![k] = RecordIn(collectors[k], us)]
    BY <2>3 DEF RecordLatency
  <2>2. ASSUME NEW i \in Indices PROVE ~ (collectors'[i].count < collectors[i].count)
    <3>1. collectors[i].count \in Nat /\ collectors \in [Indices -> Collector]
      BY TypeIs DEF RdInv, Collector
    <3>2. collectors'[i].count \in {collectors[i].count, collectors[i].count + 1}
      BY <2>1, <3>1 DEF RecordIn
    <3> QED
      BY <3>1, <3>2
  <2> QED
    BY <2>1, <2>2 DEF SlowestStep
<1>5. CASE EvaluateNone
  <2>1. conns' = conns /\ Worst = {}
    BY <1>5 DEF EvaluateNone
  <2>2. \A j \in Indices : Total(window[j]) = 0
    BY <2>1, NoneWorst
  <2> QED
    BY <2>1, <2>2 DEF SlowestStep
<1>6. CASE Replace
  <2>1. op.name = "evaluate" /\ conns' = [conns EXCEPT ![op.idx] = nextId]
    BY <1>6 DEF Replace
  <2>2. HighestAverage(op.idx)
    BY <2>1 DEF RdInv, Judged
  <2>3. op.idx \in DOMAIN conns
    BY <2>1 DEF RdInv, Stopping, NoOp
  <2>4. conns' # conns
    <3>1. conns[op.idx] < nextId /\ conns[op.idx] \in Nat
      BY <2>3, ConnsShape DEF RdInv, Shape
    <3>2. conns'[op.idx] = nextId
      BY <2>1, <2>3
    <3> QED
      BY <3>1, <3>2
  <2>5. \A i \in DOMAIN conns : i # op.idx => conns'[i] = conns[i]
    BY <2>1
  <2> QED
    BY <2>2, <2>4, <2>5 DEF SlowestStep, HighestAverage
<1>7. CASE Stop \/ StopNext \/ \E i \in Indices : Evaluate(i)
  BY <1>7, <1>1 DEF Stop, StopNext, Evaluate, samplevars
<1>8. CASE \E id \in tasks : TaskEnds(id)
  BY <1>8, <1>1 DEF TaskEnds, samplevars
<1>9. CASE UNCHANGED rdvars
  BY <1>9, <1>1 DEF rdvars, samplevars
<1> QED
  BY <1>2, <1>3, <1>4, <1>5, <1>6, <1>7, <1>8, <1>9 DEF RdNext

(* For any number of connections and samples: only a connection whose      *)
(* average was the highest, and above zero, is replaced, and samples of a  *)
(* connection that stays are thrown away only where all of them were zero. *)
THEOREM SlowestReplacedHolds == RdSpec => SlowestReplaced
<1>1. RdInv /\ [RdNext]_rdvars => SlowestStep
  BY Replaced
<1>2. RdSpec => [][SlowestStep]_rdvars
  BY <1>1, RdInvariance, PTL DEF RdSpec
<1> QED
  BY <1>2 DEF SlowestReplaced, SlowestStep

=============================================================================

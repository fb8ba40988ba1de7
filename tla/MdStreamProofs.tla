--------------------------- MODULE MdStreamProofs ---------------------------
(***************************************************************************)
(* Proofs about MdStream for every set of symbols, every channel capacity  *)
(* and every behaviour of the exchange.                                    *)
(***************************************************************************)
EXTENDS MdStream, SequenceTheorems, TLAPS

(* A store that is deduplicated by id is increasing and ends with the id   *)
(* its dedup has recorded.                                                 *)
StoreInv ==
  \A k \in Stores, s \in Symbols : ById(k) =>
    /\ Latest(k, s) = last_ids[k][s]
    /\ \A i \in 1 .. Len(shm[k][s]) : shm[k][s][i] <= last_ids[k][s]

(* An id that entered the channel is still in it, or recorded or           *)
(* superseded by the dedup of its kind and symbol.                         *)
ChannelInv ==
  /\ \A k \in Kinds, s \in AllSymbols : ById(k) =>
       \A id \in enqueued[k][s] :
         \/ id <= last_ids[k][s]
         \/ \E i \in 1 .. Len(channel) : channel[i] = [kind |-> k, sym |-> s, id |-> id]
  /\ \A i \in 1 .. Len(channel) : channel[i].id \in enqueued[channel[i].kind][channel[i].sym]

(* The table holds the hash of the last trade forwarded for each slot: a   *)
(* forwarded trade is in its slot, or one with another hash came after it. *)
TableInv ==
  \A m \in 1 .. Len(trades) :
    \/ table[TableSlot(trades[m])] = Hash[trades[m]]
    \/ \E n \in (m + 1) .. Len(trades) : /\ TableSlot(trades[n]) = TableSlot(trades[m])
                                         /\ Hash[trades[n]] # Hash[trades[m]]

(* The sender goes between two frames, the thread after the sender.        *)
ClosedInv == /\ ws = "closed" => frame = <<>>
             /\ worker = "exited" => ws = "closed" /\ channel = <<>>

IInv == /\ TypeOK /\ StoreInv /\ RecordsIncrease /\ NothingInvented
        /\ ChannelInv /\ TableInv /\ RepeatedOnlyAfterEviction /\ ClosedInv

-----------------------------------------------------------------------------
LEMMA FramesType == \A msgs \in Frames : msgs \in Seq(Message) /\ Len(msgs) <= FrameLen
<1> SUFFICES ASSUME NEW n \in 1 .. FrameLen, NEW msgs \in [1 .. n -> Message]
             PROVE  msgs \in Seq(Message) /\ Len(msgs) <= FrameLen
  BY DEF Frames
<1> QED BY BoundsAssumption

LEMMA TailType ==
  ASSUME NEW S, NEW q \in Seq(S), q # <<>>
  PROVE  /\ Head(q) \in S
         /\ Tail(q) \in Seq(S)
         /\ Len(Tail(q)) = Len(q) - 1
         /\ \A i \in 1 .. Len(Tail(q)) : Tail(q)[i] = q[i + 1]
         /\ q[1] = Head(q) /\ Len(q) >= 1
OBVIOUS

LEMMA AppendType ==
  ASSUME NEW S, NEW q \in Seq(S), NEW x \in S
  PROVE  /\ Append(q, x) \in Seq(S)
         /\ Len(Append(q, x)) = Len(q) + 1
         /\ \A i \in 1 .. Len(q) : Append(q, x)[i] = q[i]
         /\ Append(q, x)[Len(q) + 1] = x
OBVIOUS

LEMMA SlotType == \A id \in Ids : TableSlot(id) \in 0 .. TableSize - 1 /\ Hash[id] \in Nat
BY TableAssumption DEF TableSlot

LEMMA InitIInv == Init => IInv
<1> SUFFICES ASSUME Init PROVE IInv
  OBVIOUS
<1>1. TypeOK
  BY BoundsAssumption, CapacityAssumption, TableAssumption DEF Init, TypeOK, Ids
<1>2. StoreInv /\ RecordsIncrease /\ NothingInvented
  <2>1. \A k \in Stores, s \in Symbols : shm[k][s] = <<>> /\ last_ids[k][s] = 0
    BY StoresAssumption DEF Init, AllSymbols
  <2> QED BY <2>1 DEF StoreInv, RecordsIncrease, NothingInvented, Latest
<1>3. ChannelInv /\ TableInv /\ RepeatedOnlyAfterEviction /\ ClosedInv
  BY DEF Init, ChannelInv, TableInv, RepeatedOnlyAfterEviction, ClosedInv
<1> QED BY <1>1, <1>2, <1>3 DEF IInv

(* Steps of the callback leave the dedup thread's state alone.             *)
LEMMA ReceiveFrameStep ==
  ASSUME IInv, NEW msgs \in Frames, ReceiveFrame(msgs)
  PROVE  IInv'
<1> USE DEF IInv, ReceiveFrame, dedupvars
<1>1. TypeOK'
  BY FramesType, BoundsAssumption DEF TypeOK
<1>2. StoreInv' /\ RecordsIncrease' /\ NothingInvented'
  BY DEF StoreInv, RecordsIncrease, NothingInvented, Latest
<1>3. ChannelInv' /\ TableInv' /\ RepeatedOnlyAfterEviction'
  BY DEF ChannelInv, TableInv, RepeatedOnlyAfterEviction
<1>4. ClosedInv'
  BY DEF ClosedInv
<1> QED BY <1>1, <1>2, <1>3, <1>4

LEMMA OfferStep ==
  ASSUME IInv, Offer
  PROVE  IInv'
<1> USE DEF IInv
<1> DEFINE m == Head(frame)
<1>0. /\ m \in Message /\ frame' = Tail(frame) /\ frame # <<>>
      /\ UNCHANGED <<frames, ws, worker, last_ids, table, shm, trades>>
  BY TailType DEF Offer, dedupvars, TypeOK
<1>a. m.kind \in Kinds /\ m.sym \in AllSymbols /\ m.id \in Ids
      /\ m = [kind |-> m.kind, sym |-> m.sym, id |-> m.id]
  BY <1>0 DEF Message
<1>b. frame' \in Seq(Message) /\ Len(frame') <= FrameLen
  BY <1>0, TailType, BoundsAssumption DEF TypeOK
<1>c. StoreInv' /\ RecordsIncrease' /\ TableInv' /\ RepeatedOnlyAfterEviction'
  BY <1>0 DEF StoreInv, RecordsIncrease, Latest, TableInv, RepeatedOnlyAfterEviction
<1>d. ClosedInv'
  BY <1>0 DEF ClosedInv
<1>1. CASE UNCHANGED <<channel, enqueued>>
  <2>1. TypeOK'
    BY <1>0, <1>b, <1>1 DEF TypeOK
  <2>2. ChannelInv' /\ NothingInvented'
    BY <1>0, <1>1 DEF ChannelInv, NothingInvented
  <2> QED BY <2>1, <2>2, <1>c, <1>d
<1>2. CASE /\ Len(channel) < ChanCap
           /\ channel' = Append(channel, m)
           /\ enqueued' = [enqueued EXCEPT ![m.kind][m.sym] = @ \cup {m.id}]
  <2>1. /\ channel' \in Seq(Message) /\ Len(channel') = Len(channel) + 1
        /\ \A i \in 1 .. Len(channel) : channel'[i] = channel[i]
        /\ channel'[Len(channel) + 1] = m
    BY <1>2, <1>0, AppendType DEF TypeOK
  <2>2. /\ enqueued' \in [Kinds -> [AllSymbols -> SUBSET Ids]]
        /\ \A k \in Kinds, s \in AllSymbols :
             enqueued'[k][s] = IF k = m.kind /\ s = m.sym
                               THEN enqueued[k][s] \cup {m.id} ELSE enqueued[k][s]
    BY <1>2, <1>a DEF TypeOK
  <2>3. TypeOK'
    BY <1>0, <1>b, <1>2, <2>1, <2>2, CapacityAssumption DEF TypeOK
  <2>4. NothingInvented'
    <3>1. \A k \in Stores, s \in Symbols : enqueued[k][s] \subseteq enqueued'[k][s]
      BY <2>2, StoresAssumption DEF AllSymbols
    <3>2. shm' = shm
      BY <1>0
    <3> QED BY <3>1, <3>2 DEF NothingInvented
  <2>5. ASSUME NEW k \in Kinds, NEW s \in AllSymbols, ById(k), NEW id \in enqueued'[k][s]
        PROVE  \/ id <= last_ids[k][s]
               \/ \E i \in 1 .. Len(channel') : channel'[i] = [kind |-> k, sym |-> s, id |-> id]
    <3>1. CASE id \in enqueued[k][s]
      <4>1. CASE id <= last_ids[k][s]
        BY <4>1
      <4>2. CASE \E i \in 1 .. Len(channel) : channel[i] = [kind |-> k, sym |-> s, id |-> id]
        <5>1. PICK i \in 1 .. Len(channel) : channel[i] = [kind |-> k, sym |-> s, id |-> id]
          BY <4>2
        <5>2. i \in 1 .. Len(channel') /\ channel'[i] = [kind |-> k, sym |-> s, id |-> id]
          BY <5>1, <2>1 DEF TypeOK
        <5> QED BY <5>2
      <4> QED BY <3>1, <2>5, <4>1, <4>2 DEF ChannelInv
    <3>2. CASE id \notin enqueued[k][s]
      <4>1. k = m.kind /\ s = m.sym /\ id = m.id
        BY ZenonT(40), <3>2, <2>2, <2>5
      <4>2. Len(channel) + 1 \in 1 .. Len(channel')
        BY <2>1 DEF TypeOK
      <4> QED BY <4>1, <4>2, <2>1, <1>a
    <3> QED BY <3>1, <3>2
  <2>6. ASSUME NEW i \in 1 .. Len(channel')
        PROVE  channel'[i].id \in enqueued'[channel'[i].kind][channel'[i].sym]
    <3>1. CASE i \in 1 .. Len(channel)
      <4>1. channel[i] \in Message /\ channel[i].id \in enqueued[channel[i].kind][channel[i].sym]
        BY <3>1 DEF TypeOK, ChannelInv
      <4>2. channel[i].kind \in Kinds /\ channel[i].sym \in AllSymbols
        BY <4>1 DEF Message
      <4>3. enqueued[channel[i].kind][channel[i].sym]
              \subseteq enqueued'[channel[i].kind][channel[i].sym]
        BY <4>2, <2>2
      <4> QED BY <4>1, <4>3, <3>1, <2>1
    <3>2. CASE i = Len(channel) + 1
      BY <3>2, <2>1, <2>2, <1>a
    <3> QED BY <3>1, <3>2, <2>1 DEF TypeOK
  <2>7. ChannelInv'
    BY <2>5, <2>6, <1>0 DEF ChannelInv, ById
  <2> QED BY <2>3, <2>4, <2>7, <1>c, <1>d
<1> QED BY <1>1, <1>2 DEF Offer

LEMMA DropSenderStep ==
  ASSUME IInv, DropSender
  PROVE  IInv'
<1> USE DEF IInv, DropSender, dedupvars
<1>1. TypeOK' /\ ClosedInv'
  BY DEF TypeOK, ClosedInv
<1>2. StoreInv' /\ RecordsIncrease' /\ NothingInvented'
  BY DEF StoreInv, RecordsIncrease, NothingInvented, Latest
<1>3. ChannelInv' /\ TableInv' /\ RepeatedOnlyAfterEviction'
  BY DEF ChannelInv, TableInv, RepeatedOnlyAfterEviction
<1> QED BY <1>1, <1>2, <1>3

(* The message the dedup thread takes off the channel.                     *)
LEMMA TakenMessage ==
  ASSUME IInv, channel # <<>>, channel' = Tail(channel), UNCHANGED enqueued
  PROVE  /\ Head(channel) \in Message
         /\ channel' \in Seq(Message) /\ Len(channel') = Len(channel) - 1
         /\ \A i \in 1 .. Len(channel') : channel'[i] = channel[i + 1]
         /\ channel[1] = Head(channel) /\ Len(channel) >= 1
         /\ Head(channel).id \in enqueued[Head(channel).kind][Head(channel).sym]
         /\ \A i \in 1 .. Len(channel') :
              channel'[i].id \in enqueued'[channel'[i].kind][channel'[i].sym]
<1>1. channel \in Seq(Message)
  BY DEF IInv, TypeOK
<1>2. /\ Head(channel) \in Message
      /\ channel' \in Seq(Message) /\ Len(channel') = Len(channel) - 1
      /\ \A i \in 1 .. Len(channel') : channel'[i] = channel[i + 1]
      /\ channel[1] = Head(channel) /\ Len(channel) >= 1
  BY <1>1, TailType
<1>3. \A i \in 1 .. Len(channel) : channel[i].id \in enqueued[channel[i].kind][channel[i].sym]
  BY DEF IInv, ChannelInv
<1>4. Len(channel) \in Nat
  BY <1>1
<1>5. ASSUME NEW i \in 1 .. Len(channel')
      PROVE  channel'[i].id \in enqueued'[channel'[i].kind][channel'[i].sym]
  BY <1>2, <1>3, <1>4
<1>6. Head(channel).id \in enqueued[Head(channel).kind][Head(channel).sym]
  BY <1>2, <1>3, <1>4
<1> QED BY <1>2, <1>5, <1>6

(* A channel that loses its head keeps every id that is not the head's,    *)
(* and the head's is covered once its dedup has reached it.                *)
LEMMA ChannelLosesHead ==
  ASSUME IInv, channel # <<>>, channel' = Tail(channel), UNCHANGED enqueued,
         \A k \in Kinds, s \in AllSymbols :
           /\ last_ids[k][s] \in Nat /\ last_ids'[k][s] \in Nat
           /\ ById(k) => last_ids[k][s] <= last_ids'[k][s],
         ById(Head(channel).kind) =>
           Head(channel).id <= last_ids'[Head(channel).kind][Head(channel).sym]
  PROVE  ChannelInv'
<1> SUFFICES ASSUME NEW k \in Kinds, NEW s \in AllSymbols, ById(k), NEW id \in enqueued[k][s]
             PROVE  \/ id <= last_ids'[k][s]
                    \/ \E i \in 1 .. Len(channel') :
                         channel'[i] = [kind |-> k, sym |-> s, id |-> id]
  BY TakenMessage DEF ChannelInv, ById
<1>1. CASE id <= last_ids[k][s]
  <2>1. id \in Nat
    BY DEF IInv, TypeOK, Ids
  <2> QED BY <1>1, <2>1
<1>2. CASE \E i \in 1 .. Len(channel) : channel[i] = [kind |-> k, sym |-> s, id |-> id]
  <2>1. PICK i \in 1 .. Len(channel) : channel[i] = [kind |-> k, sym |-> s, id |-> id]
    BY <1>2
  <2>2. CASE i = 1
    <3>1. Head(channel) = [kind |-> k, sym |-> s, id |-> id]
      BY <2>1, <2>2, TakenMessage
    <3> QED BY <3>1
  <2>3. CASE i # 1
    <3>1. Len(channel) \in Nat /\ Len(channel') = Len(channel) - 1
      BY TakenMessage DEF IInv, TypeOK
    <3>2. i - 1 \in 1 .. Len(channel')
      BY <2>3, <3>1
    <3>3. channel'[i - 1] = channel[(i - 1) + 1]
      BY <3>2, TakenMessage
    <3>4. (i - 1) + 1 = i
      BY <3>1
    <3>5. channel'[i - 1] = [kind |-> k, sym |-> s, id |-> id]
      BY <3>3, <3>4, <2>1
    <3> QED BY <3>2, <3>5
  <2> QED BY <2>2, <2>3
<1> QED BY <1>1, <1>2 DEF IInv, ChannelInv

LEMMA DropDuplicateStep ==
  ASSUME IInv, DropDuplicate
  PROVE  IInv'
<1> USE DEF IInv, wsvars, dedupvars
<1>0. /\ channel # <<>> /\ channel' = Tail(channel)
      /\ ~IsNew(Head(channel)) /\ worker = "running"
      /\ UNCHANGED <<frames, frame, ws, worker, last_ids, table, shm, trades, enqueued>>
  BY DEF DropDuplicate
<1>1. Head(channel) \in Message
  BY <1>0, TakenMessage
<1>2. TypeOK'
  BY <1>0, TakenMessage, CapacityAssumption DEF TypeOK
<1>3. StoreInv' /\ RecordsIncrease' /\ NothingInvented'
  BY <1>0 DEF StoreInv, RecordsIncrease, NothingInvented, Latest
<1>4. TableInv' /\ RepeatedOnlyAfterEviction' /\ ClosedInv'
  BY <1>0 DEF TableInv, RepeatedOnlyAfterEviction, ClosedInv
<1>5. \A k \in Kinds, s \in AllSymbols :
        last_ids[k][s] \in Nat /\ last_ids'[k][s] \in Nat /\ last_ids[k][s] <= last_ids'[k][s]
  BY <1>0 DEF TypeOK, Ids
<1>6. ById(Head(channel).kind) =>
        Head(channel).id <= last_ids'[Head(channel).kind][Head(channel).sym]
  BY <1>0, <1>1, <1>5 DEF IsNew, UsesTable, ById, Message, Ids
<1>7. ChannelInv'
  BY <1>0, <1>5, <1>6, ChannelLosesHead
<1> QED BY <1>2, <1>3, <1>4, <1>7

LEMMA ForwardStep ==
  ASSUME IInv, Forward
  PROVE  IInv'
<1> DEFINE m == Head(channel)
<1>0. /\ channel # <<>> /\ channel' = Tail(channel)
      /\ IsNew(m) /\ Record(m) /\ Publish(m)
      /\ UNCHANGED <<frames, frame, ws, worker, enqueued>>
      /\ worker = "running"
  BY DEF Forward, wsvars
<1>1. /\ m \in Message /\ m.kind \in Kinds /\ m.sym \in AllSymbols /\ m.id \in Ids
      /\ m.id \in enqueued[m.kind][m.sym]
      /\ channel' \in Seq(Message) /\ Len(channel') = Len(channel) - 1
  BY <1>0, TakenMessage DEF Message
<1>t. /\ last_ids \in [Kinds -> [AllSymbols -> Ids]]
      /\ shm \in [Stores -> [Symbols -> Seq(Ids)]]
      /\ table \in [0 .. TableSize - 1 -> Nat]
      /\ trades \in Seq(Ids)
  BY DEF IInv, TypeOK
<1>2. /\ shm' \in [Stores -> [Symbols -> Seq(Ids)]]
      /\ \A k \in Stores, s \in Symbols :
           shm'[k][s] = IF k = m.kind /\ s = m.sym THEN Append(shm[k][s], m.id) ELSE shm[k][s]
  <2>1. CASE m.kind \in Stores /\ m.sym \in Symbols
    <3>1. shm' = [shm EXCEPT ![m.kind][m.sym] = Append(@, m.id)]
      BY <1>0, <2>1 DEF Publish
    <3>2. Append(shm[m.kind][m.sym], m.id) \in Seq(Ids)
      BY <1>1, <1>t, <2>1
    <3> QED BY <3>1, <3>2, <1>t, <2>1
  <2>2. CASE ~(m.kind \in Stores /\ m.sym \in Symbols)
    BY <1>0, <1>t, <2>2 DEF Publish
  <2> QED BY <2>1, <2>2
<1>4. NothingInvented'
  <2> SUFFICES ASSUME NEW k \in Stores, NEW s \in Symbols, NEW i \in 1 .. Len(shm'[k][s])
               PROVE  shm'[k][s][i] \in enqueued[k][s]
    BY <1>0 DEF NothingInvented
  <2>1. shm[k][s] \in Seq(Ids)
    BY <1>t
  <2>2. \A j \in 1 .. Len(shm[k][s]) : shm[k][s][j] \in enqueued[k][s]
    BY DEF IInv, NothingInvented
  <2>3. CASE k = m.kind /\ s = m.sym
    <3>1. shm'[k][s] = Append(shm[k][s], m.id)
      BY <1>2, <2>3
    <3>2. /\ Len(shm'[k][s]) = Len(shm[k][s]) + 1
          /\ \A j \in 1 .. Len(shm[k][s]) : shm'[k][s][j] = shm[k][s][j]
          /\ shm'[k][s][Len(shm[k][s]) + 1] = m.id
      BY <3>1, <2>1, <1>1, AppendType
    <3>3. m.id \in enqueued[k][s]
      BY <1>1, <2>3
    <3> HIDE DEF m
    <3> QED BY <3>2, <3>3, <2>1, <2>2
  <2>4. CASE ~(k = m.kind /\ s = m.sym)
    BY <1>2, <2>2, <2>4
  <2> QED BY <2>3, <2>4
<1>5. ClosedInv'
  BY <1>0 DEF IInv, ClosedInv
<1>6. CASE UsesTable(m)
  <2>0. /\ Custom /\ m.kind = "trade"
        /\ table' = [table EXCEPT ![TableSlot(m.id)] = Hash[m.id]]
        /\ trades' = Append(trades, m.id)
        /\ last_ids' = last_ids
        /\ table[TableSlot(m.id)] # Hash[m.id]
    BY <1>0, <1>6 DEF UsesTable, Record, IsNew
  <2>1. TableSlot(m.id) \in 0 .. TableSize - 1 /\ Hash[m.id] \in Nat
    BY <1>1, SlotType
  <2>2. /\ trades' \in Seq(Ids) /\ Len(trades') = Len(trades) + 1
        /\ \A i \in 1 .. Len(trades) : trades'[i] = trades[i]
        /\ trades'[Len(trades) + 1] = m.id
        /\ Len(trades) \in Nat
    BY <2>0, <1>1, <1>t, AppendType
  <2>3. TypeOK'
    BY <1>0, <1>1, <1>t, <1>2, <2>0, <2>1, <2>2, CapacityAssumption DEF IInv, TypeOK
  <2>4. StoreInv' /\ RecordsIncrease'
    <3>1. \A k \in Stores, s \in Symbols : ById(k) => shm'[k][s] = shm[k][s]
      BY <1>2, <2>0 DEF ById
    <3> QED BY <3>1, <2>0 DEF IInv, StoreInv, RecordsIncrease, Latest, ById
  <2>5. ChannelInv'
    <3>1. \A k \in Kinds, s \in AllSymbols :
            last_ids[k][s] \in Nat /\ last_ids'[k][s] \in Nat /\ last_ids[k][s] <= last_ids'[k][s]
      BY <1>t, <2>0 DEF Ids
    <3>2. ~ById(m.kind)
      BY <2>0 DEF ById
    <3> QED BY <1>0, <3>1, <3>2, ChannelLosesHead
  <2>6. TableInv'
    <3> SUFFICES ASSUME NEW i \in 1 .. Len(trades')
                 PROVE  \/ table'[TableSlot(trades'[i])] = Hash[trades'[i]]
                        \/ \E n \in (i + 1) .. Len(trades') :
                             /\ TableSlot(trades'[n]) = TableSlot(trades'[i])
                             /\ Hash[trades'[n]] # Hash[trades'[i]]
      BY DEF TableInv
    <3>1. CASE i = Len(trades) + 1
      BY <3>1, <2>0, <2>1, <2>2, <1>t
    <3>2. CASE i \in 1 .. Len(trades) /\ table[TableSlot(trades[i])] = Hash[trades[i]]
      <4>1. CASE TableSlot(trades[i]) = TableSlot(m.id)
        <5>1. Hash[m.id] # Hash[trades[i]]
          BY <3>2, <4>1, <2>0
        <5>2. Len(trades) + 1 \in (i + 1) .. Len(trades')
          BY <2>2, <3>2
        <5> QED BY <5>1, <5>2, <4>1, <2>2, <3>2
      <4>2. CASE TableSlot(trades[i]) # TableSlot(m.id)
        <5>1. trades[i] \in Ids
          BY <3>2, <1>t
        <5>2. TableSlot(trades[i]) \in 0 .. TableSize - 1
          BY <5>1, SlotType
        <5> QED BY <5>2, <4>2, <2>0, <2>1, <2>2, <3>2, <1>t
      <4> QED BY <4>1, <4>2
    <3>3. CASE i \in 1 .. Len(trades) /\ table[TableSlot(trades[i])] # Hash[trades[i]]
      <4>1. PICK n \in (i + 1) .. Len(trades) :
              /\ TableSlot(trades[n]) = TableSlot(trades[i])
              /\ Hash[trades[n]] # Hash[trades[i]]
        BY <3>3 DEF IInv, TableInv
      <4>2. n \in 1 .. Len(trades) /\ n \in (i + 1) .. Len(trades')
        BY <2>2, <3>3
      <4> QED BY <4>1, <4>2, <2>2, <3>3
    <3> QED BY <3>1, <3>2, <3>3, <2>2
  <2>7. RepeatedOnlyAfterEviction'
    <3> SUFFICES ASSUME NEW i \in 1 .. Len(trades'), NEW j \in 1 .. Len(trades'),
                        i < j, trades'[i] = trades'[j]
                 PROVE  \E n \in (i + 1) .. (j - 1) :
                          /\ TableSlot(trades'[n]) = TableSlot(trades'[i])
                          /\ Hash[trades'[n]] # Hash[trades'[i]]
      BY DEF RepeatedOnlyAfterEviction
    <3>1. i \in 1 .. Len(trades) /\ i \in Nat /\ j \in Nat
      BY <2>2
    <3>2. \E n \in (i + 1) .. (j - 1) :
            /\ n \in 1 .. Len(trades)
            /\ TableSlot(trades[n]) = TableSlot(trades[i])
            /\ Hash[trades[n]] # Hash[trades[i]]
      <4>1. CASE j = Len(trades) + 1
        <5>1. trades[i] = m.id
          BY <3>1, <4>1, <2>2
        <5>2. table[TableSlot(trades[i])] # Hash[trades[i]]
          BY <5>1, <2>0
        <5>3. PICK n \in (i + 1) .. Len(trades) :
                /\ TableSlot(trades[n]) = TableSlot(trades[i])
                /\ Hash[trades[n]] # Hash[trades[i]]
          BY <5>2, <3>1 DEF IInv, TableInv
        <5>4. n \in 1 .. Len(trades) /\ n \in (i + 1) .. (j - 1)
          BY <3>1, <4>1, <2>2
        <5> QED BY <5>3, <5>4
      <4>2. CASE j \in 1 .. Len(trades)
        <5>1. trades[i] = trades[j]
          BY <3>1, <4>2, <2>2
        <5>2. PICK n \in (i + 1) .. (j - 1) :
                /\ TableSlot(trades[n]) = TableSlot(trades[i])
                /\ Hash[trades[n]] # Hash[trades[i]]
          BY <5>1, <3>1, <4>2 DEF IInv, RepeatedOnlyAfterEviction
        <5>3. n \in 1 .. Len(trades)
          BY <3>1, <4>2
        <5> QED BY <5>2, <5>3
      <4> QED BY <4>1, <4>2, <2>2
    <3> QED BY <3>1, <3>2, <2>2
  <2> QED BY <2>3, <2>4, <2>5, <2>6, <2>7, <1>4, <1>5 DEF IInv
<1>7. CASE ~UsesTable(m)
  <2>0. /\ last_ids' = [last_ids EXCEPT ![m.kind][m.sym] = m.id]
        /\ table' = table /\ trades' = trades
        /\ m.id > last_ids[m.kind][m.sym]
        /\ ById(m.kind)
    BY <1>0, <1>7 DEF UsesTable, Record, IsNew, ById
  <2>1. \A k \in Kinds, s \in AllSymbols :
          last_ids'[k][s] = IF k = m.kind /\ s = m.sym THEN m.id ELSE last_ids[k][s]
    BY <2>0, <1>t, <1>1
  <2>2. TypeOK'
    BY <1>0, <1>1, <1>t, <1>2, <2>0, CapacityAssumption DEF IInv, TypeOK
  <2>3. ASSUME NEW k \in Stores, NEW s \in Symbols, ById(k)
        PROVE  /\ Latest(k, s)' = last_ids'[k][s]
               /\ \A i \in 1 .. Len(shm'[k][s]) : shm'[k][s][i] <= last_ids'[k][s]
               /\ \A i, j \in 1 .. Len(shm'[k][s]) : i < j => shm'[k][s][i] < shm'[k][s][j]
    <3>1. k \in Kinds /\ s \in AllSymbols /\ shm[k][s] \in Seq(Ids)
          /\ last_ids[k][s] \in Nat /\ m.id \in Nat
      BY <1>t, <1>1, StoresAssumption DEF AllSymbols, Ids
    <3>2. /\ Latest(k, s) = last_ids[k][s]
          /\ \A i \in 1 .. Len(shm[k][s]) : shm[k][s][i] <= last_ids[k][s]
          /\ \A i, j \in 1 .. Len(shm[k][s]) : i < j => shm[k][s][i] < shm[k][s][j]
      BY <2>3 DEF IInv, StoreInv, RecordsIncrease
    <3>3. CASE k = m.kind /\ s = m.sym
      <4> DEFINE q == shm[k][s]
      <4>1. /\ shm'[k][s] = Append(q, m.id) /\ last_ids'[k][s] = m.id
            /\ last_ids[k][s] < m.id
        <5>1. shm'[k][s] = Append(q, m.id)
          BY <1>2, <3>3
        <5>2. last_ids'[k][s] = m.id
          BY <2>1, <3>1, <3>3
        <5> QED BY <5>1, <5>2, <2>0, <3>3
      <4> HIDE DEF m
      <4>2. /\ Len(shm'[k][s]) = Len(q) + 1 /\ Len(q) \in Nat
            /\ \A i \in 1 .. Len(q) : shm'[k][s][i] = q[i] /\ q[i] \in Nat /\ q[i] < m.id
            /\ shm'[k][s][Len(q) + 1] = m.id
        <5>1. /\ Len(shm'[k][s]) = Len(q) + 1
              /\ \A i \in 1 .. Len(q) : shm'[k][s][i] = q[i]
              /\ shm'[k][s][Len(q) + 1] = m.id
          BY <4>1, <3>1, <1>1, AppendType
        <5>2. Len(q) \in Nat /\ \A i \in 1 .. Len(q) : q[i] \in Nat
          <6>1. q \in Seq(Ids) /\ Ids \subseteq Nat
            BY <3>1 DEF Ids
          <6>2. Len(q) \in Nat /\ \A i \in 1 .. Len(q) : q[i] \in Ids
            BY <3>1
          <6> QED BY <6>1, <6>2
        <5>3. \A i \in 1 .. Len(q) : q[i] < m.id
          BY <5>2, <4>1, <3>1, <3>2
        <5> QED BY <5>1, <5>2, <5>3
      <4>3. Latest(k, s)' = m.id
        <5>1. Len(shm'[k][s]) = Len(q) + 1 /\ Len(q) \in Nat
          BY <4>2
        <5>2. shm'[k][s] # <<>>
          BY <5>1
        <5> QED BY <5>1, <5>2, <4>2 DEF Latest
      <4>4. \A i \in 1 .. Len(shm'[k][s]) : shm'[k][s][i] <= m.id
        BY SMTT(30), <4>2, <3>1
      <4>5. ASSUME NEW i \in 1 .. Len(shm'[k][s]), NEW j \in 1 .. Len(shm'[k][s]), i < j
            PROVE  shm'[k][s][i] < shm'[k][s][j]
        <5>1. i \in 1 .. Len(q)
          BY <4>5, <4>2
        <5>2. CASE j \in 1 .. Len(q)
          BY <4>5, <5>1, <5>2, <4>2, <3>2
        <5>3. CASE j = Len(q) + 1
          BY <5>1, <5>3, <4>2
        <5> QED BY <5>2, <5>3, <4>2
      <4> QED BY <4>1, <4>3, <4>4, <4>5
    <3>4. CASE ~(k = m.kind /\ s = m.sym)
      BY <1>2, <2>1, <3>1, <3>2, <3>4 DEF Latest
    <3> QED BY <3>3, <3>4
  <2>4. StoreInv' /\ RecordsIncrease'
    BY <2>3 DEF StoreInv, RecordsIncrease, ById
  <2>5. ChannelInv'
    <3>1. \A k \in Kinds, s \in AllSymbols :
            last_ids[k][s] \in Nat /\ last_ids'[k][s] \in Nat /\ last_ids[k][s] <= last_ids'[k][s]
      BY <1>1, <1>t, <2>0, <2>1 DEF Ids
    <3>2. m.id <= last_ids'[m.kind][m.sym]
      BY <1>1, <2>1, <3>1 DEF Ids
    <3> QED BY <1>0, <3>1, <3>2, ChannelLosesHead
  <2>6. TableInv' /\ RepeatedOnlyAfterEviction'
    BY <2>0 DEF IInv, TableInv, RepeatedOnlyAfterEviction
  <2> QED BY <2>2, <2>4, <2>5, <2>6, <1>4, <1>5 DEF IInv
<1> QED BY <1>6, <1>7

LEMMA ExitStep ==
  ASSUME IInv, Exit \/ UNCHANGED vars
  PROVE  IInv'
<1>1. /\ UNCHANGED <<frames, frame, channel, ws, last_ids, table, shm, enqueued, trades>>
      /\ worker' = worker \/ (worker' = "exited" /\ channel = <<>> /\ ws = "closed")
  BY DEF Exit, vars, wsvars, dedupvars
<1>2. TypeOK'
  BY <1>1 DEF IInv, TypeOK
<1>3. StoreInv' /\ RecordsIncrease' /\ NothingInvented'
  BY <1>1 DEF IInv, StoreInv, RecordsIncrease, NothingInvented, Latest
<1>4. ChannelInv' /\ TableInv' /\ RepeatedOnlyAfterEviction'
  BY <1>1 DEF IInv, ChannelInv, TableInv, RepeatedOnlyAfterEviction
<1>5. ClosedInv'
  BY <1>1 DEF IInv, ClosedInv
<1> QED BY <1>2, <1>3, <1>4, <1>5 DEF IInv

LEMMA NextIInv == IInv /\ [Next]_vars => IInv'
<1> SUFFICES ASSUME IInv, [Next]_vars PROVE IInv'
  OBVIOUS
<1>1. ASSUME NEW msgs \in Frames, ReceiveFrame(msgs) PROVE IInv'
  BY <1>1, ReceiveFrameStep
<1>2. CASE Offer
  BY <1>2, OfferStep
<1>3. CASE DropSender
  BY <1>3, DropSenderStep
<1>4. CASE Forward
  BY <1>4, ForwardStep
<1>5. CASE DropDuplicate
  BY <1>5, DropDuplicateStep
<1>6. CASE Exit \/ UNCHANGED vars
  BY <1>6, ExitStep
<1> QED BY <1>1, <1>2, <1>3, <1>4, <1>5, <1>6 DEF Next, Dedup

LEMMA ShownFromIInv == IInv => ShmShowsNewestEnqueued
<1> SUFFICES ASSUME IInv, NEW k \in Stores, NEW s \in Symbols, ById(k), ~Waiting(k, s),
                    NEW id \in enqueued[k][s]
             PROVE  id <= Latest(k, s)
  BY DEF ShmShowsNewestEnqueued
<1>1. k \in Kinds /\ s \in AllSymbols
  BY StoresAssumption DEF AllSymbols
<1>2. \/ id <= last_ids[k][s]
      \/ \E i \in 1 .. Len(channel) : channel[i] = [kind |-> k, sym |-> s, id |-> id]
  BY <1>1 DEF IInv, ChannelInv
<1>3. ~ \E i \in 1 .. Len(channel) : channel[i] = [kind |-> k, sym |-> s, id |-> id]
  BY DEF Waiting
<1> QED BY <1>2, <1>3 DEF IInv, StoreInv

-----------------------------------------------------------------------------
THEOREM Invariance == Spec => []IInv
BY InitIInv, NextIInv, PTL DEF Spec

(* Every variable keeps its type; no queue exceeds its capacity.           *)
THEOREM TypeCorrect == Spec => []TypeOK
<1>1. IInv => TypeOK
  BY DEF IInv
<1> QED BY <1>1, Invariance, PTL

(* Shared memory never goes back, whatever the exchange repeats.           *)
THEOREM ShmNeverGoesBack == Spec => []RecordsIncrease
<1>1. IInv => RecordsIncrease
  BY DEF IInv
<1> QED BY <1>1, Invariance, PTL

(* No update that got into the channel is hidden by another.               *)
THEOREM NewestIsShown == Spec => []ShmShowsNewestEnqueued
BY Invariance, ShownFromIInv, PTL

(* Everything in shared memory was received.                               *)
THEOREM ShmOnlyReceived == Spec => []NothingInvented
<1>1. IInv => NothingInvented
  BY DEF IInv
<1> QED BY <1>1, Invariance, PTL

(* The trade table lets a trade through twice only after an eviction, for  *)
(* every table size and every hash function.                               *)
THEOREM RepeatsAreEvictions == Spec => []RepeatedOnlyAfterEviction
<1>1. IInv => RepeatedOnlyAfterEviction
  BY DEF IInv
<1> QED BY <1>1, Invariance, PTL

(* The dedup thread ends with nothing left in its channel.                 *)
THEOREM ExitIsDrained == Spec => []ExitDrained
<1>1. IInv => ExitDrained
  BY DEF IInv, ClosedInv, ExitDrained
<1> QED BY <1>1, Invariance, PTL

-----------------------------------------------------------------------------
(* A slot of the table is empty or holds the hash of a forwarded trade.    *)
Filled ==
  \A n \in 0 .. TableSize - 1 :
    table[n] = 0 \/ \E i \in 1 .. Len(trades) : table[n] = Hash[trades[i]]

LEMMA FilledStep == IInv /\ Filled /\ [Next]_vars => Filled'
<1> SUFFICES ASSUME IInv, Filled, [Next]_vars PROVE Filled'
  OBVIOUS
<1>1. CASE UNCHANGED <<table, trades>>
  BY <1>1 DEF Filled
<1>2. CASE Forward
  <2> DEFINE m == Head(channel)
  <2>1. m \in Message /\ Record(m)
    <3>1. channel \in Seq(Message) /\ channel # <<>> /\ Record(m)
      BY <1>2 DEF IInv, TypeOK, Forward
    <3> QED
      BY <3>1, TailType
  <2> HIDE DEF m
  <2>2. m.id \in Ids /\ trades \in Seq(Ids) /\ table \in [0 .. TableSize - 1 -> Nat]
    BY <2>1 DEF Message, IInv, TypeOK
  <2>3. CASE ~UsesTable(m)
    BY <2>1, <2>3, <1>1 DEF Record
  <2>4. CASE UsesTable(m)
    <3>1. /\ table' = [table EXCEPT ![TableSlot(m.id)] = Hash[m.id]]
          /\ trades' = Append(trades, m.id)
      BY <2>1, <2>4 DEF Record
    <3>2. /\ Len(trades') = Len(trades) + 1 /\ Len(trades) \in Nat
          /\ \A i \in 1 .. Len(trades) : trades'[i] = trades[i]
          /\ trades'[Len(trades) + 1] = m.id
      BY <3>1, <2>2, AppendType
    <3>3. ASSUME NEW n \in 0 .. TableSize - 1
          PROVE  table'[n] = 0 \/ \E i \in 1 .. Len(trades') : table'[n] = Hash[trades'[i]]
      <4>1. CASE n = TableSlot(m.id)
        <5>1. table'[n] = Hash[m.id]
          BY <4>1, <3>1, <2>2
        <5>2. Len(trades) + 1 \in 1 .. Len(trades')
          BY <3>2
        <5> QED
          BY <5>1, <5>2, <3>2
      <4>2. CASE n # TableSlot(m.id)
        <5>1. table'[n] = table[n]
          BY <4>2, <3>1, <2>2
        <5>2. table[n] = 0 \/ \E i \in 1 .. Len(trades) : table[n] = Hash[trades[i]]
          BY DEF Filled
        <5>3. ASSUME NEW i \in 1 .. Len(trades)
              PROVE  i \in 1 .. Len(trades') /\ trades'[i] = trades[i]
          BY <3>2
        <5> QED
          BY <5>1, <5>2, <5>3
      <4> QED
        BY <4>1, <4>2
    <3> QED
      BY <3>3 DEF Filled
  <2> QED
    BY <2>3, <2>4
<1>3. CASE (\E msgs \in Frames : ReceiveFrame(msgs)) \/ Offer \/ DropSender
           \/ DropDuplicate \/ Exit \/ UNCHANGED vars
  BY <1>1, <1>3
     DEF ReceiveFrame, Offer, DropSender, DropDuplicate, Exit, dedupvars, vars
<1> QED
  BY <1>2, <1>3 DEF Next, Dedup

(* A trade the table refuses has the hash of a trade forwarded before, or  *)
(* hash 0 (UuidDedup, dedup.rs): no fresh trade is lost to an occupied     *)
(* slot, whatever the table's size and the hash.                           *)
THEOREM FreshTradesPass == Spec => FreshTradeForwarded
<1>1. Init => Filled
  BY DEF Init, Filled
<1>2. IInv /\ Filled =>
        ((DropDuplicate /\ UsesTable(Head(channel)) /\ Hash[Head(channel).id] # 0) =>
           \E i \in 1 .. Len(trades) : Hash[trades[i]] = Hash[Head(channel).id])
  <2> SUFFICES ASSUME IInv, Filled, DropDuplicate, UsesTable(Head(channel)),
                      Hash[Head(channel).id] # 0
               PROVE  \E i \in 1 .. Len(trades) : Hash[trades[i]] = Hash[Head(channel).id]
    OBVIOUS
  <2>1. Head(channel) \in Message
    BY TailType DEF IInv, TypeOK, DropDuplicate
  <2> DEFINE n == TableSlot(Head(channel).id)
  <2>2. n \in 0 .. TableSize - 1
    BY <2>1, SlotType DEF Message
  <2>3. table[n] = Hash[Head(channel).id]
    BY DEF DropDuplicate, IsNew
  <2> HIDE DEF n
  <2> QED
    BY <2>2, <2>3 DEF Filled
<1> QED
  BY <1>1, <1>2, FilledStep, InitIInv, NextIInv, PTL DEF Spec, FreshTradeForwarded

=============================================================================

------------------------------ MODULE MdStream ------------------------------
(***************************************************************************)
(* One market-data stream of GenericMd: the WebSocket callback parses a    *)
(* frame and offers each message to a bounded channel (ws_helper.rs), and  *)
(* the dedup thread takes them off, drops what it has seen and writes the  *)
(* rest to shared memory (dedup_worker.rs).  `udp` is None: GenericMd is   *)
(* made without it and nothing sets it.  Prices are left out: a            *)
(* message is its kind, its symbol and the id that deduplication reads     *)
(* (update_id, agg_trade_id or trade_id).                                  *)
(***************************************************************************)
EXTENDS Naturals, Sequences

CONSTANTS Kinds,      \* kinds of message; "trade" is the one with a custom dedup
          Symbols,    \* StreamDef.symbols, the index of every store
          Others,     \* symbols the exchange may send that are not configured
          Stores,     \* kinds whose ShmNames entry is Some
          MaxId,      \* bound: ids are 0 .. MaxId (0: an id the exchange left at 0)
          MaxFrames,  \* bound: frames the exchange sends
          FrameLen,   \* bound: messages parsed from one frame
          ChanCap,    \* capacity of the dedup channel (8192 in the code)
          Custom,     \* custom_trade_dedup is Some: the Bybit futures stream
          TableSize,  \* UUID_TABLE_SIZE, a power of two
          Hash        \* xxHash64 of a trade id's decimal text

AllSymbols == Symbols \cup Others
Ids == 0 .. MaxId

ASSUME BoundsAssumption == MaxId \in Nat /\ MaxFrames \in Nat /\ FrameLen \in Nat
ASSUME CapacityAssumption == ChanCap \in Nat \ {0}
ASSUME StoresAssumption == Stores \subseteq Kinds
ASSUME FlagsAssumption == Custom \in BOOLEAN
ASSUME TableAssumption == TableSize \in Nat \ {0} /\ Hash \in [Ids -> Nat]

Message == [kind : Kinds, sym : AllSymbols, id : Ids]

VARIABLES frames,     \* frames delivered so far
          frame,      \* parsed messages the callback has still to offer
          channel,    \* the crossbeam channel
          ws,         \* "open", or "closed" once the callback's sender is dropped
          worker,     \* "running", or "exited" once recv() has failed
          last_ids,   \* the UpdateIdDedup of each kind; absent is 0
          table,      \* UuidDedup.table
          shm,        \* per store and symbol, the ids written, in order
          enqueued,   \* history: ids try_send accepted
          trades      \* history: ids the custom dedup accepted

wsvars == <<frames, frame, ws>>
dedupvars == <<last_ids, table, shm, trades>>
vars == <<frames, frame, channel, ws, worker, last_ids, table, shm, enqueued, trades>>

TypeOK ==
  /\ frames \in 0 .. MaxFrames
  /\ frame \in Seq(Message) /\ Len(frame) <= FrameLen
  /\ channel \in Seq(Message) /\ Len(channel) <= ChanCap
  /\ ws \in {"open", "closed"}
  /\ worker \in {"running", "exited"}
  /\ last_ids \in [Kinds -> [AllSymbols -> Ids]]
  /\ table \in [0 .. TableSize - 1 -> Nat]
  /\ shm \in [Stores -> [Symbols -> Seq(Ids)]]
  /\ enqueued \in [Kinds -> [AllSymbols -> SUBSET Ids]]
  /\ trades \in Seq(Ids)

\* start() has spawned both tasks.
Init ==
  /\ frames = 0 /\ frame = <<>> /\ channel = <<>>
  /\ ws = "open" /\ worker = "running"
  /\ last_ids = [k \in Kinds |-> [s \in AllSymbols |-> 0]]
  /\ table = [i \in 0 .. TableSize - 1 |-> 0]
  /\ shm = [k \in Stores |-> [s \in Symbols |-> <<>>]]
  /\ enqueued = [k \in Kinds |-> [s \in AllSymbols |-> {}]]
  /\ trades = <<>>

-----------------------------------------------------------------------------
(* The callback.  What the exchange sends is not constrained: it repeats,  *)
(* reorders and restarts its ids, above all across a reconnect.            *)

ReceiveFrame(msgs) ==
  /\ ws = "open" /\ frame = <<>> /\ frames < MaxFrames
  /\ frame' = msgs
  /\ frames' = frames + 1
  /\ UNCHANGED <<channel, ws, worker, enqueued, dedupvars>>

\* Variant: a full channel makes room by dropping what waits longest.
Offer_DropOldest ==
  /\ frame # <<>>
  /\ frame' = Tail(frame)
  /\ channel' = Append(IF Len(channel) < ChanCap THEN channel ELSE Tail(channel), Head(frame))
  /\ enqueued' = [enqueued EXCEPT ![Head(frame).kind][Head(frame).sym] = @ \cup {Head(frame).id}]
  /\ UNCHANGED <<frames, ws, worker, dedupvars>>

\* try_send: a message that finds the channel full is dropped and only logged.
\* The receiver outlives every sender (Exit), so it is never disconnected.
Offer ==
  /\ frame # <<>>
  /\ frame' = Tail(frame)
  /\ IF Len(channel) < ChanCap
     THEN /\ channel' = Append(channel, Head(frame))
          /\ enqueued' = [enqueued EXCEPT ![Head(frame).kind][Head(frame).sym] = @ \cup {Head(frame).id}]
     ELSE UNCHANGED <<channel, enqueued>>
  /\ UNCHANGED <<frames, ws, worker, dedupvars>>

\* The connection loop returns between two frames and drops its callback,
\* and with it the last sender of the channel.
DropSender ==
  /\ ws = "open" /\ frame = <<>>
  /\ ws' = "closed"
  /\ UNCHANGED <<frames, frame, channel, worker, enqueued, dedupvars>>

-----------------------------------------------------------------------------
(* The dedup thread.                                                       *)

TableSlot(id) == Hash[id] % TableSize

UsesTable(m) == Custom /\ m.kind = "trade"

\* Variant: an id equal to the last one passes.
IsNew_OrEqual(m) ==
  IF UsesTable(m) THEN table[TableSlot(m.id)] # Hash[m.id]
                  ELSE m.id >= last_ids[m.kind][m.sym]

\* Variant: the table is not consulted.
IsNew_IgnoreTable(m) ==
  IF UsesTable(m) THEN Hash[m.id] # 0
                  ELSE m.id > last_ids[m.kind][m.sym]

\* Variant: an occupied slot is taken for a duplicate.
IsNew_OccupiedSlot(m) ==
  IF UsesTable(m) THEN table[TableSlot(m.id)] = 0
                  ELSE m.id > last_ids[m.kind][m.sym]

IsNew(m) ==
  IF UsesTable(m) THEN table[TableSlot(m.id)] # Hash[m.id]
                  ELSE m.id > last_ids[m.kind][m.sym]

Record(m) ==
  IF UsesTable(m)
  THEN /\ table' = [table EXCEPT ![TableSlot(m.id)] = Hash[m.id]]
       /\ trades' = Append(trades, m.id)
       /\ UNCHANGED last_ids
  ELSE /\ last_ids' = [last_ids EXCEPT ![m.kind][m.sym] = m.id]
       /\ UNCHANGED <<table, trades>>

\* write() ignores a symbol the store was not created for.
Publish(m) ==
  shm' = IF m.kind \in Stores /\ m.sym \in Symbols
         THEN [shm EXCEPT ![m.kind][m.sym] = Append(@, m.id)]
         ELSE shm

Forward ==
  /\ worker = "running" /\ channel # <<>>
  /\ IsNew(Head(channel))
  /\ channel' = Tail(channel)
  /\ Record(Head(channel))
  /\ Publish(Head(channel))
  /\ UNCHANGED <<wsvars, worker, enqueued>>

DropDuplicate ==
  /\ worker = "running" /\ channel # <<>>
  /\ ~IsNew(Head(channel))
  /\ channel' = Tail(channel)
  /\ UNCHANGED <<wsvars, worker, enqueued, dedupvars>>

\* recv() fails once the channel is disconnected and empty.
Exit ==
  /\ worker = "running" /\ channel = <<>> /\ ws = "closed"
  /\ worker' = "exited"
  /\ UNCHANGED <<wsvars, channel, enqueued, dedupvars>>

-----------------------------------------------------------------------------
Frames == UNION {[1 .. n -> Message] : n \in 1 .. FrameLen}

Dedup == Forward \/ DropDuplicate \/ Exit

Next == (\E msgs \in Frames : ReceiveFrame(msgs)) \/ Offer \/ DropSender \/ Dedup

\* The callback does not wait between two messages of a frame, and the dedup
\* thread has a thread of its own that sleeps only on an empty channel.
Fairness == WF_vars(Offer) /\ WF_vars(Dedup)

Spec == Init /\ [][Next]_vars
FairSpec == Spec /\ Fairness

-----------------------------------------------------------------------------
ById(k) == ~(Custom /\ k = "trade")

\* The id of the newest record of a symbol in shared memory, 0 if there is none.
Latest(k, s) == IF shm[k][s] = <<>> THEN 0 ELSE shm[k][s][Len(shm[k][s])]

Waiting(k, s) == \E i \in 1 .. Len(channel) : channel[i].kind = k /\ channel[i].sym = s

(* What one kind's store says of a symbol never goes back: the records are *)
(* in strictly increasing order of id, so no update is written twice.      *)
RecordsIncrease ==
  \A k \in Stores, s \in Symbols : ById(k) =>
    \A i, j \in 1 .. Len(shm[k][s]) : i < j => shm[k][s][i] < shm[k][s][j]

(* Once nothing waits in the channel, the newest record in shared memory   *)
(* is the greatest id that ever got into the channel: neither another      *)
(* symbol or kind nor a message dropped on the way hides it.               *)
ShmShowsNewestEnqueued ==
  \A k \in Stores, s \in Symbols : ById(k) /\ ~Waiting(k, s) =>
    \A id \in enqueued[k][s] : id <= Latest(k, s)

(* Everything in shared memory came through the channel.                   *)
NothingInvented ==
  \A k \in Stores, s \in Symbols : \A i \in 1 .. Len(shm[k][s]) :
    shm[k][s][i] \in enqueued[k][s]

(* A trade is forwarded a second time only if another trade took its slot  *)
(* of the table meanwhile (the replacement dedup.rs:83-86 admits).         *)
RepeatedOnlyAfterEviction ==
  \A i, j \in 1 .. Len(trades) : (i < j /\ trades[i] = trades[j]) =>
    \E m \in (i + 1) .. (j - 1) :
      /\ TableSlot(trades[m]) = TableSlot(trades[i])
      /\ Hash[trades[m]] # Hash[trades[i]]

(* A trade never forwarded is refused only if its hash is 0, the value of  *)
(* an empty slot, or is that of a trade forwarded before.                  *)
FreshTradeForwarded ==
  [][(DropDuplicate /\ UsesTable(Head(channel)) /\ Hash[Head(channel).id] # 0) =>
       \E i \in 1 .. Len(trades) : Hash[trades[i]] = Hash[Head(channel).id]]_vars

(* Stopping loses nothing: the thread ends with its channel drained.       *)
ExitDrained == worker = "exited" => channel = <<>>

(* Whatever entered the channel is in shared memory in the end, or         *)
(* something newer is.                                                     *)
EnqueuedShown ==
  \A k \in Stores, s \in Symbols, id \in Ids :
    (ById(k) /\ id \in enqueued[k][s]) ~> (Latest(k, s) >= id)

=============================================================================

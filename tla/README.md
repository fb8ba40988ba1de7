# Verification of k4 (satrin-feed-rs)

TLA+ models of the crypto gateway under `src/crates`, from the exchanges'
frames to shared memory and from a strategy's orders to the exchange, the TLC
configurations that check them, and TLAPS proofs about most of them. Paths
below are relative to `src/crates`.

## 1. The system

```
 exchange --TLS--> WsConnection --callback--> parser --try_send--> channel(8192)
                                                                      |
                              dedup thread (one per stream) <---------+
                               |  UpdateIdDedup x 4, or UuidDedup for trades
                               +--> ShmMdStore per kind --> readers in other processes

 UDP socket --> UdpReceiver --> ShmMdStore per kind           (UdpMd, a module of its own)

 strategy --> BinanceTd --> SpotClient --channel(64)--> WebSocket API task --> exchange
                       \--> FuturesClient (REST), listen-key refresh tasks

 runner (main) --> init_shm, start, stop of each module; Ctrl-C; the runtime's end
```

| Component (source) | State | Operations | Talks to |
|---|---|---|---|
| Shared-memory ring, `k4-core/src/shm.rs` | per symbol an atomic `current_index` and `buffer_size` records | `create`, `write`, `read_latest`, drop | one writing thread, readers through the mapping |
| Dedup, `k4-core/src/dedup.rs` | last id per symbol; table of 2^16 trade-id hashes | `check_and_update`, `check_and_insert` | called by the dedup thread |
| Dedup thread, `k4-md/src/dedup_worker.rs` | four dedups, the stores | receive, filter, write | channel in; rings out |
| WebSocket helpers, `k4-md/src/ws_helper.rs` | the channel's sender, inside the callback | parse a frame, `try_send` each message | connection in, channel out |
| Pipeline and runner, `k4-md/src/pipeline.rs`, `registry.rs`, `k4-runner/src/main.rs` | streams, stores, task handles; names in `/dev/shm` that outlive the process | `init_shm`, `start`, `stop`, Ctrl-C | owns the two above |
| Connection, `k4-core/src/ws/client.rs` | backoff, outbound channel, shutdown watch | `start`, `send`, `stop`, the connection loop | socket, owner, callback |
| Redundant client, `ws/redundant.rs`, `latency.rs` | connections, latency windows | `start`, `record_latency`, `evaluate_and_reset`, `stop` | several connections |
| UDP, `k4-core/src/udp.rs`, `k4-md/src/udp` | the receiver's eight stores; a sender that nothing constructs (`GenericMd::new` sets `udp: None`, `pipeline.rs:112`) | bind, receive and dispatch, `stop` | network |
| Order book, `k4-md/src/bybit/order_book.rs`, `bybit/mod.rs` | two sorted sides per symbol | `set_snapshot`, `update`, `get_depth5` | the depth parser |
| Parsers and builders, `k4-md/src/{binance,okx,bitget,bybit}`, `k4-core/src/config.rs` | none | config to streams and subscriptions, frame to messages | called by callback and registry |
| Spot order channel, `k4-td/src/binance/spot.rs` | `ws_api`, `pending`, request channel, task handle | `ws_place_order`, `ws_cancel_order`, `request`, `ensure_ws_api`, `shutdown` | trading session, exchange |
| Trading session, `k4-td/src/binance/mod.rs`, `futures.rs` | clients, listen keys, refresh tasks | `login`, orders, cancels, queries, `stop` | both clients, event channel |
| Symbol mapper, `symbol_mapper.rs` | two name maps | load, look up | trading session |

What is hard in it, and what each part must therefore get right:

* *Ring.* Readers race with the writer on plain memory, with one atomic index
  between them. A reader must get the record it was directed to unless it was
  overtaken by a whole ring, and never something older.
* *Stream.* Exchanges repeat, reorder and restart ids; a full channel drops
  the newest message; the table forgets. Shared memory must never go back, the
  newest message that got in must be shown, and stopping must drain.
* *UDP.* Loss, repetition and reordering, with no defence in the receiver.
* *Connection.* `stop()` or a dropped handle at any await of the loop;
  connects and writes without a timeout; order of outbound messages over
  reconnects; the backoff.
* *Life.* Regions are unlinked, opened, sized and initialised in steps that
  may fail, under names that a process before may still write to; blocking
  threads that no abort reaches; a UDP address that may still be bound.
* *Parsers.* One symbol in four spellings, from the config through the
  subscription and the frame to the store; trades in either order; binary
  groups longer than what is read of them.
* *Redundant client.* Calls that await the end of a task; samples that name a
  place and not a connection, so that a late one counts for the replacement.
* *Order book.* Long sequences of inserts, removals and trims, state that
  outlives a connection, levels applied one by one to a full book.
* *Order channel.* Answers out of order, calls that time out while their
  request is still queued, a connection that dies or hangs under waiting calls.
* *Orders.* Requests that are rejected, given up or carried out late, while
  orders fill, positions open and close, and other operations run.
* *Session.* Logins that fail half-way and are tried again; refresh tasks that
  hold a lock across a request while `stop` wants it; a failing DELETE; a
  creation that is carried out after its login gave up on it.

`PROJECT.json` lists every hazard at its line, with the properties that cover
it or the reason none does yet.

## 2. Modules

| Module | Models | Composes |
|---|---|---|
| `LatestRecord` | what a store of latest records promises (abstract) | |
| `ShmRing` | `write`, `read_latest` word by word | refines `LatestRecord`, but for overtaken reads |
| `MdStream` | callback, channel, dedup thread, stores of one stream | |
| `Gateway` | processes, modules, streams, regions and their names | a stream is a small `MdStream`, a region a `ShmRing` |
| `FeedFormats` | configuration, streams, subscriptions; external: the exchanges' frames | |
| `FeedParsers` | the JSON and SBE parsers | extends `FeedFormats` |
| `Feeds` | connections, frames, parsers, dedup, stores | extends `FeedParsers` |
| `WsConnection` | the connection loop and its owner | |
| `Redundant` | the redundant client, its latency windows and histograms | its tasks are `WsConnection`s |
| `OrderBook` | the Bybit book against a venue | |
| `RemoteCall` | what a request to the exchange promises (abstract) | |
| `WsApi` | the spot order channel | refines `RemoteCall` |
| `TdOrders` | the order operations and queries of `BinanceTd` | its requests are `RemoteCall`s |
| `TdSession` | login, listen-key refresh, stop of `BinanceTd` | |
| `XProofs` | proofs about `X`: `ShmRing`, `MdStream`, `Gateway`, `Feeds`, `OrderBook`, `WsApi` | |
| `TdProofs` | proofs about `TdSession` and `TdOrders` | |
| `WsClientProofs` | proofs about `WsConnection` and `Redundant` | |
| `MC_*` | the values of the constants that a cfg cannot write | |

A definition named `X_Something` just before a definition `X` is a variant:
the code with one plausible mistake in it. No specification uses one;
PROJECT.json says which property notices which.

### ShmRing and LatestRecord

A record is identified by its position in the sequence of writes for its
symbol; a memory word holds the position of the record it came from. `write`
is `BeginWrite` (load the index), one `StoreWord` per word in any order
(`ptr::write` promises none) and `PublishIndex` (the Release store).
`read_latest` is `LoadIndex` or `ReadNone` (the Acquire load) and one
`CopyWord` per word. Steps interleave as on one sequentially consistent
memory; with the Release/Acquire pair on the index the only accesses this
orders more strongly than the machine are those of a reader that is being
overtaken. There is one writer, as in the code (the store moves into the dedup
thread).

`LatestRecord` has no ring: a read begins on the newest record and ends with
exactly it, which is what `shm.rs:219-221` says of concurrent readers. The
mapping takes the index for the publication and the last `CopyWord` for the end
of the read. The ring does not implement it: a reader that the writer overtakes
by a whole ring ends with a torn record. `ImplementsUnlessLapped` says that this
is the only step that is none of `LatestRecord`'s (`LappedRead`), `CopyNeverOlder`
what even such a copy cannot contain, and `ReadersSeeOneSnapshot` is the
comment without the exception, which fails.

### MdStream

A message is a kind, a symbol and the id that deduplication reads. `frames` and
`frame` are the socket and the callback's loop, `ReceiveFrame` and `Offer` its
steps; `Forward`, `DropDuplicate` and `Exit` are the rounds of
`run_dedup_loop`, each a whole iteration (nothing else touches what it uses).
What the exchange sends is any sequence of ids, 0 included. The custom trade
dedup is one table for the whole stream, indexed by the hash of the id; a hash
of 0 equals an empty slot, as in the code. `DropSender` is the end of the
connection task, which drops the callback and with it the only sender; it is
enabled between frames because the task can only end at an await. `abort()` of
the dedup thread does nothing, since a blocking task that has started is not
cancelled.

### Gateway

`main.rs` makes three passes over its modules: create them (a connection with
an unknown exchange is logged and skipped), `init_shm` of each, `start` of
each; the first failure ends it. `pc` is the pass, `done` and `at` how far it
is. `ShmMdStore::create` is three steps per store, `Unlink`, `Open` and
`Initialise`, with `CreateFails` in between: a region is an inode, so unlinking
a name leaves it to those who have it mapped, `map` is what a process writes
to and `dir` what a name leads to. `Start` gives the live streams of a module a
source (connection task and callback, or the UDP receiver) and, but for UDP, a
worker; a UDP module needs its address, which another process may hold.

`StopModule` aborts: a source ends at its next await, a worker that has begun
does not notice, one that still waits for its thread never runs (`Aborted`).
`Return` is the end of `main`, after which the runtime drops the tasks
(`SourceEnds`) and waits for the workers, which end when they have drained a
channel without senders (`Dedup`, `WorkerEnds`, `Exited`). `Crash` may come at
any time. The next process may be launched as soon as the one before was told
to stop, so that one still drains while the other creates.

### Feeds

`FeedFormats` follows a configuration section to the symbols, stores and
subscriptions of each `build()` (`effective_symbols`, the spellings of
`to_okx_inst_id` and `to_okx_swap_inst_id`, lower case for Binance), and says
what the exchange sends for a subscription. A symbol is a pair and its
spelling. `FeedParsers` has the parser of each exchange; an SBE frame is a body
of some length with values at byte offsets, so that a parser that miscounts
reads garbage, the next group's header or nothing. `Feeds` composes the two
with a wire that keeps its order and loses all when it breaks (`Break`), the
check for repeated ids, and the stores. What a feed says is its number; a depth
has levels. `due` is history: the news that must have arrived once nothing is
on a wire.

`product_from_ps` tells Binance's markets apart by a `"ps"` field. Nothing in
the repository says which frames have one, and none in its tests does (the one
at `json_parser.rs:196`, say): `PsKinds` are the kinds whose futures frames do,
any set of them, and `OnItsMarket` claims the product type of a record only
where its frame is not one of the others (`Unmarked`), which are taken for
spot's. The store is the right one all the same, since a stream has the stores
of its own market. Bybit's `orderbook.50` tells differences to a book: the feed
is subscribed here, but none of its frames is sent, and its parser and book are
`OrderBook`.

External and assumed: an OKX trades frame has one trade; Bitget's trades come
newest first. `Publish` also sends what no stream subscribed although all are
connected, so a missing subscription is noticed.

### Redundant

`Start`, `RecordLatency`, `Evaluate` (up to the await of the worst connection's
end), `Replace` (the rest), `EvaluateNone`, and `Stop`, `StopNext`, `Stopped`,
one connection at a time. The collector is the histogram with count, sum and
extremes, and `Percentile` its walk over the bins. Nothing in the repository
constructs the client, so its user is external: it records any latency at any
index whenever no other call has the client. `record_latency` does not know
whose sample it is given, so one that is recorded late counts for the
replacement, or for the next start, and `evaluate_and_reset` may replace a
connection for what another one did: `SlowestReplaced` and `WindowSummarised`
speak of what was recorded at a place. `evaluate_and_reset` resets only the place
it replaces, so the samples of another place go back over earlier evaluations,
and `stop` keeps the collectors. It looks at neither `reset_on_hb` nor
`reset_threshold`.

### WsConnection

`pc` is the await the task is at; between two awaits it is not interrupted.
`connect_ws` and every write succeed, fail or never end. `shutdown` is the watch
channel: `changed()` is ready when the flag was set or the sender is gone, but
only `*borrow()` at the top tells the two apart. The ping branch never fires, so
the interval's tick is the only step of that future. `wire` is history.

### OrderBook

The venue has a book of its own, shows its `N` best levels per side, and sends
a snapshot after each subscription and the changed levels of its window after
that, in an order of its choice. The code's side is `Receive` (a message is
parsed; a snapshot clears the book) and one `Apply` per level, in the code's
order; sorting a snapshot is inserting its levels one by one. Prices are
integers in ticks, and `Eps` says how far apart two prices must be to differ
(`PRICE_EPS` is 1e-10, below any tick the venue has: `Eps = 1`).

### WsApi and RemoteCall

A call is a fresh id. Its awaits are the mutex of `ensure_ws_api` (`Enter`; the
call that connects holds it all the while, and the connect may never end), the
`send` into the bounded channel, outside of any time limit, and the five-second
wait for its oneshot. The task's awaits are the select, a request's write and a
pong's. An answer is matched by id. `Decide` is the exchange. A write that fails
or is aborted may have got through, so `sent` may or may not grow. `Shutdown`
needs `&mut self`, so no call is in progress when it runs.

`RemoteCall` is what a caller may count on: a request is carried out at most
once, an `ok` means that it was, `refused` that it never will be, and one that
was given up may be carried out later. `ImplementsRemoteCall` shows `WsApi` to
be that.

### TdOrders

An operation is `Begin` (the client is looked up; without one it is an error,
or an account a query passes over), then for each request in turn `Ask` and
`Resume`, which is the code from the answer to the next request or the return:
`Single` for insert, cancel and a futures cancel-all, `SpotListed` and
`SpotCancelled` for the spot cancel-all (list, then cancel one by one, each
result ignored), `Collected` for the queries, account by account. Requests are
`RemoteCall`s; the exchange, external, carries them out or rejects them
(`Accept`, `Reject`) and fills orders as it pleases. Every order is for one lot,
bought or sold (`SideOf`): an account has a position in a symbol while the buys
and the sells that filled differ in number, so an opposite fill closes it, and
the listing, or `parse_position`, which skips zero, has it no more
(`PositionsIn`). `held` and `seen` are history: the positions there all the time
since an operation was called, and at any time since. Over REST a rejection is an
error status; over the WebSocket API any answer is an `Ok`, and `insert_order`
does not find the order id in it. IOC and FOK orders are sent as GTC limit orders
by the code; the model does not tell them apart.

### TdSession

`login` and `stop` take `&mut self`, so there is one owner, at the await that
`owner` and `step` name: a POST per enabled account in the order of the code
(`KeyCreated`, `CreateFails`), the exchange-info request (`InfoAnswered`), and
in `stop` a shutdown per account: `NoClient`, or `ClientShutDown` (the spot
client's task is aborted, the lock of the listen key taken, the DELETE sent) and
`DeleteAnswered`. `deadline` is the instant that `timeout_at` compares; the
exchange-info request does not look at it. No request has a timeout of its own:
the exchange info, a PUT and a DELETE may never be answered. A client is the
pair of its account and the login that made it, so that a second login has
clients of its own. The three blocks of `login`, one per account type, are one
action with the account as a parameter.

Each client has a refresh task. `Tick` takes the client's `listen_key` mutex and
sends the PUT; the mutex is free again with the answer (`KeepaliveAnswered`), or
when the runtime drops the aborted task (`Cancelled`). `Report` is the code from
the answer back to the sleep: it has no await, so a task that is aborted there
still runs it. The exchange is external and has one listen key per account; a
POST that fails or times out may have made it, or may make it later (`late`,
`LateCreate`), after the DELETE of a `stop` that followed too (`revived`).
Whether a spot client has an order connection, and whether that has ended, is
all that is kept of `WsApi`. Orders are placed between `login` and `stop`, as
`k4-td/src/lib.rs:26-33` describes a module's life (`TdOrders`).

## 3. Runs

| Run | Question | Bounds | Properties (all hold, but for those of `shm_snapshot` and `ws_ping`) |
|---|---|---|---|
| `shm_ring` | what may a racing reader see; does the ring implement `LatestRecord` | 2 symbols and an unknown one, 1 reader, ring of 2, 2 words, 4 records per symbol | `RecentRecordsIntact`, `CopyIntactUnlessLapped`, `CopyNeverOlder`, `ImplementsUnlessLapped` |
| `shm_snapshot` | "concurrent readers always see a consistent snapshot" (`shm.rs:219-221`) | the same | `ReadersSeeOneSnapshot` is violated: a reader held up for a whole ring copies words of two records |
| `md_stream` | order, completeness and end of a stream | 2 frames of up to 2 messages, ids 0..3, channel of 2, table of 2 slots | `RecordsIncrease`, `ShmShowsNewestEnqueued`, `RepeatedOnlyAfterEviction`, `FreshTradeForwarded`, `EnqueuedShown` |
| `gateway` | what do readers, and the next process, find; does a process start whole and end drained | 2 processes, a module with a symbol-less and a live stream, an unknown exchange, a UDP module, 1 message per source | `NamesServed`, `AllOrNothing`, `NothingLeftBehind`, `MappedNeverReset`, `StopEnds` |
| `feeds` | does what is configured reach its store | 5 configurations, `PsKinds` agg and trade, 2 news, 2 trades in a frame, 1 lost connection, depths of 2 and 1 or 7 and 6 levels, SBE blocks 0 or 3 bytes longer than their fields | `ShowsNewest`, `EveryTradeOnce`, `OnItsMarket` |
| `ws_connection` | stop, drop, order of messages | 3 messages, channel of 2, waits 1, 2, 4, 5 | `WireInOrder`, `QueuedAfterWire`, `StopCompletes`, `DropEndsTask` |
| `ws_ping` | "Sends periodic ping messages" (`client.rs:7`) | nothing sent | `PeriodicPing` is violated: none is ever sent |
| `redundant` | whose samples, which connection is replaced, how many run | 2 connections, 4 ids, 3 bins of width 2, latencies 0, 1, 3, 9, 5 samples at any place | `OneTaskPerPlace`, `WindowSummarised`, `SlowestReplaced` |
| `order_book` | is the book sorted, current, uncrossed | 3 prices, window of 2, Depth5 of 1, 1 message on its way | `SidesSorted`, `OnlyVenueLevels`, `MissingOnlyTrimmed`, `NeverCrossed` |
| `ws_api` | whose answer, how often sent, does every call end | 3 calls, channel of 1 | `SentOnce`, `ImplementsRemoteCall`, `CallsReturn` |
| `orders` | what is an `Ok` worth; what do cancel-all and the queries miss | 2 spot orders and 2 futures orders that close each other's position, any 2 of 8 operations side by side | `FuturesOkIsDone`, `CancelAllMissesNone`, `QuerySeesStanding` |
| `td_session` | is a logged-in session refreshed; does stop end refreshing and delete the keys; do both return | 2 accounts, 2 logins, stop at any time | `LoggedInIsRefreshed`, `KeysDeleted`, `NoKeepaliveAfterStop`, `OperationsReturn` |

Why the bounds are enough to be interesting: a ring of two slots with four
records wraps twice, so a reader is overtaken while copying, and two words are
the fewest that can be torn. A two-message channel overflows inside one frame of
two; ids 0..3 over a table of two slots collide, evict and include the hash 0.
Two processes are the fewest of which one drains while the other creates, and
every pair of the code's modules (two stores of one stream, two modules, one
that is skipped) is there. The five configurations have each exchange with both
markets, both ways to list futures symbols, a symbol that OKX's spelling leaves
alone and one that is already hyphenated; two kinds of futures frames have the
`"ps"` field and two have not; seven levels are more than the five that are kept
and two are fewer. Three outbound messages overfill a channel of two while one
is written. The waits 1, 2, 4, 5 double and reach the cap by capping. The
latencies fall into the first bin (one is 0, which `evaluate_and_reset` never
takes for the worst), another and beyond the last; four ids are two
replacements, or a stop and a second start. Three prices are one more than the
book's window, so that trims happen, and the middle price has two volumes, so
that updates happen. Three calls with room for one in the channel have one
waiting to hand over, one queued and one written. Two operations are the fewest
that meet; cancel-all on spot has two orders to go through, or, called for
another symbol, to leave alone; two futures orders, a buy and a sell, open a
position and close it. Two accounts are the fewest of which one can fail after
the other has succeeded, and two logins give a retry.

`CHECK_DEADLOCK FALSE` is set where the system really stops (a stopped
connection, an exited process, all calls made) or a bound of the model is
used up (the venue with full wire). The ring is checked for deadlock.

### Fairness, and why the code has it

* `MdStream`: `WF(Offer)`, the callback runs through a frame without an await;
  `WF(Dedup)`, the dedup thread has a thread of its own and blocks only on an
  empty channel. Nothing is assumed of the exchange.
* `Gateway`: `main` goes on through `stop` and returns (no await in there);
  tasks are dropped once the runtime shuts down; a blocking task that waits for
  its thread is then cancelled; the workers that run go on, and the runtime
  waits for them. Nothing is assumed of the sources, of the operating system or
  of a process that is not told to stop.
* `WsConnection`: weak fairness on what the process does by itself (the runtime
  polls the task and the owner, the backoff's sleep ends, the interval elapses).
  Strong fairness on `ShutdownSeen`: `tokio::select!` picks a random ready
  branch, so one that is ready at every visit is taken in the end. Strong
  fairness on `WaitCut`: when a wait starts with the watch changed, that branch
  is ready at once and the sleep is not. Nothing is assumed of the peer:
  `connect_async` and the writes have no timeout and are outside of every
  `select!`, so each may never end, and `stop()` with it. `StopCompletes` says
  that one await on the socket that never ends (`Hangs`) is all that can keep
  `stop()`. A dropped handle has one more way not to be noticed: when every
  connect succeeds and every subscribe message fails, the loop starts over
  without looking at the watch's sender (`NeverSubscribes`, `client.rs:155`).
* `WsApi`: strong fairness on the mutex of `ws_api` and on the channel, which
  serve those who wait in turn, and on `Take` (random `select!`); weak fairness
  on the closed channel and on the end of the wait, whose timer runs. Nothing is
  assumed of connects and writes. `CallsReturn` says that a call ends unless,
  from some point on, it is queued for the connection or for the channel behind a
  connect or a write that has not ended (`Blocked`); once it has handed its
  request over it always ends.
* `TdSession`: login's timer fires and ends the POST that is under way; the owner
  takes a lock that is free; per client the runtime polls what is ready
  (`Report`) and drops what was aborted (`Cancelled`). Nothing is assumed of the
  exchange, since `reqwest::Client::new()` has no timeout. `OperationsReturn`
  says that `login` and `stop` return unless the exchange info (`mod.rs:246`, not
  under the deadline) or a DELETE is never answered, though every PUT may hang
  with the lock held.

The other modules state no fairness and no liveness.

## 4. Proofs

All theorems hold for every value of the constants that satisfies the named
assumptions of the modules, among them: sizes and capacities positive, bounds
natural, `Stores \subseteq Kinds`, `Hash \in [Ids -> Nat]`, no two stores of a
configuration with one name (`NamesAssumption`; nothing in the code prevents
it, and the second then unlinks the first), finitely many prices, all natural.
They follow one plan: an inductive invariant, a lemma that the initial states
have it, one lemma per action, one that collects them, `Invariance`, and the
theorems as its consequences.

*Ring* (`TypeCorrect`, `RecordsStayIntact`, `UnlappedCopyIsWhole`,
`CopiesNeverOlder`, `RingImplementsUnlessLapped`). `RecentRecordsIntact` is not
inductive: it says nothing of a write in progress, half of whose words are
stored. `IInv` adds that the writer's `next` is one past the published index,
that words already stored hold `next`, that all other words of the slot still
hold the record that was there, and for each reader that what it has copied is
what memory held at or after its `LoadIndex`. The arithmetic it rests on is one
lemma, `SlotsDiffer`: two positions less than `Size` apart have different
slots. The refinement uses `IInv` on both sides of a step: the word that
completes an untouched copy must make it whole; that it is untouched is the
negation of `LappedRead`'s guard.

*Stream* (`TypeCorrect`, `ShmNeverGoesBack`, `NewestIsShown`, `ShmOnlyReceived`,
`RepeatsAreEvictions`, `FreshTradesPass`, `ExitIsDrained`). Order and
completeness need the link the code keeps implicitly: per kind and symbol,
`last_ids` is the id of the newest record and bounds every accepted id that no
longer waits, and every waiting id was enqueued. For the table: the last trade
accepted into a slot is the one whose hash is in it, and a slot that is not
empty holds the hash of a forwarded trade (`Filled`). `ExitDrained` needs that
after the thread's exit nobody can refill the channel: the sender is gone and
the callback is not within a frame.

*Gateway* (`TypeCorrect`, `NamesLeadToLast`, `StartsWhole`, `QueuesAreDrained`,
`MappedStays`), for any number of processes and modules. `Life` says that two
processes may run but only the last creates, and what each phase implies;
`Store` ties a store to its region: it is ready exactly if it is `done`, its
name leads nowhere between unlink and open, and what a process maps it made
itself (`Owned`). A worker that has ended without a crash has drained its
queue, unless it never ran.

*Connection* (`TypeCorrect`, `SentInOrder`, `QueueSurvives`). What was taken
out of the queue is exactly the messages up to `sent - Len(outbound)`
(`Queued`); the one being written is the last of them (`InHand`), and nothing
on the wire is later (`Written`).

*Redundant client* (`RdTypeCorrect`, `OneTaskPerPlaceHolds`,
`WindowSummarisedHolds`, `SlowestReplacedHolds`; in `WsClientProofs`), for any
number of connections and samples. `Stopping` says how far `stop` has come and
which tasks have not been told to end while a call awaits one (`OneTaskPerPlace`
alone says nothing of that await). `Summary` ties each histogram to the samples
of its window: every bin holds those that fall into it, beside count, sum and
extremes. That the code's walk over the bins then ends in the bin of the sample
of that rank (`PercentileIs`) is two inductions, over the samples and over the
bins. `Judged` keeps over the await what `Evaluate` found. `LatenciesAssumption`
says that there is a greatest latency, for `max`.

*Feeds* (`FdInvariance`, `FdTypeCorrect`, `OnItsMarketHolds`,
`EveryTradeOnceHolds`, `ShowsNewestHolds`), for any configurations, any pairs
(those OKX's spelling does not know included), any depths, any number of trades
in a frame and any length of SBE blocks. Three parts, each on its own. `Parsed`:
the frame that an exchange sends for some news of a feed gives exactly that
feed's messages (`MessagesOf`), however the parser of that stream goes about it;
the SBE part rests on no two fields of a frame sharing an offset (`SpreadAt`,
`OverLeft`, `OverRight`) and on the end of a group, levels beyond the fifth
included (`DepthParsed`). `OneServes` and `ConfiguredServed`: no two streams of a
configuration serve the same feed, the store of a configured feed belongs to a
stream that serves it and has the symbol spelled as that stream's frames do.
`FdInv`: each frame on a wire is one the parser understands and ids rise along a
wire (`Wires`); what the dedup table has, and what a store has, is passed by all
that is on its way (`Known`, `Rising`), so a frame taken is new as a whole; all on
the wires is `due` and ids tell news apart (`Owed`); the store of a configured
feed has each delivered news once and nothing else (`Faithful`). `ProductIs` says
which product type a parser reads from the frame of a feed, whatever `PsKinds`
are. What Bybit's book shows of a window is not claimed here: `ShowsNewest` is
about the feeds that are sold as they are shown. `ShowsNewest`
says nothing of the wires, and of the table only what it lets through: it is far
from inductive. `ConfigsAssumption` says what a configuration looks like, and
that OKX's spot section names no swaps: with one there, its frames would be
futures' by their symbol and sit in a spot store. `SymbolBytesAssumption` and
`FeedBounds` give the numbers their types.

*Order book* (`TypeCorrect`, `BookStaysSorted`; for `Eps = 1`, as `PRICE_EPS` is
below any tick, `VenueLevelsOnly`, `OnlyTrimmedMissing`, `DepthNeverCrossed`).
The code only ever sees messages, so the properties need to know what those
say. Three parts: what the list operations do (the position of an insertion
exists because a set of naturals has a least member; insert, remove and trim
keep a side sorted); the shape of a snapshot and of a delta; and `Knows`: the
book `Tracks` one past window of the venue (all its levels, but for those
trimmed, and nothing else once the message in hand is applied), the messages on
the wire lead from that window to the present one, and the last Depth5 is the
top of a book that tracked a window, which was not crossed.

*Order channel* (`TypeCorrect`, `OkIsDecided`, `OrdersSentOnce`,
`RefusalsAreSafe`, `ChannelImplementsRemoteCall`), for any number of calls. A
request is in one place at most, the channel, the writer's hand or the
exchange (`PlaceInv`), and every answer is about a request that was decided
(`AnswerInv`); a call that was refused is in none of them.

*Orders* (`TypeCorrect`, `FuturesOkIsTrue`, `CancelAllIsComplete`,
`QueriesSeeStanding`), for any orders and operations. `IInv` says of each
operation that what it awaits is one of its requests and still in `todo`
(`Asking`), what has become of an order whose placing or closing was accepted
(`Placing`, `Closing`), that the book only moves on since the call (`Aging`),
what a listing says of the moment it was made (`Lists`), that the positions of
now are among those seen since the call and hold those held ever since
(`Standing`), that a spot cancel-all has tried what it no longer has to do
(`SpotSweeps`), and what a query has collected (`Queries`). These and the
session's are in `TdProofs`.

*Session* (`TdTypeCorrect`, `LoginServesAll`, `StopSilencesAll`,
`StopDeletesKeys`), for any list of accounts. `LoggedInIsRefreshed` needs what
an unfinished login has already made (`LoggingIn`); `NoKeepaliveAfterStop` that
`stop` has told the tasks of every login, those of replaced clients included, to
end (`Aborting`); `KeysDeleted` what `stop` has done up to its step
(`Deleting`). A creation that is carried out late is the one way in which a key
comes back, and `KeysDeleted` says so.

Only model-checked: liveness (`EnqueuedShown`, `StopEnds`, `StopCompletes`,
`DropEndsTask`, `CallsReturn`, `OperationsReturn`), which the prover does not
handle. Every other property that holds in a run is stated by a theorem. Folds and
recursive functions are in reach all the same: the library's induction theorems
take an operator that no installed prover can be given, so the proofs look at
the least index at which the claim fails (`Least`, `FoldIs`, `PercentileIs`).
`OkWasDecided`, `RefusedNeverSent`, `ExitDrained` and `NothingInvented` are
proved and have no run.

## 5. Findings

Two violation runs, see `PROJECT.json`:

* `ws_ping`: the keep-alive that `client.rs:7` announces is never sent. The ping
  branch of the `select!` is a future that loops over the interval and never
  completes.
* `shm_snapshot`: `shm.rs:219-221` says that "concurrent readers always see a
  consistent snapshot". A reader that is held up between the load of the index
  and the end of its copy, while the writer goes once round the ring, returns
  words of two records, and nothing in `read_latest` notices.

Other statements of the repository that the code does not keep. But for the
receiver's, each is visible in a model, whose properties say what holds instead:

* `k4-td/src/lib.rs:46`, "Returns the exchange-assigned order ID on success":
  on spot `insert_order` returns 0 for every order, and a rejected order is an `Ok`
  too, since the answer's status is not looked at and its `orderId` is inside
  `"result"` (`binance/mod.rs:294`; `TdOrders`, `OrderId` and `Successful`).
  `FuturesOkIsDone` is about the futures accounts for that reason.
* `k4-td/src/lib.rs:55`, "Cancel all open orders for a given account and symbol",
  and the log line at `binance/mod.rs:359`, "all orders cancelled": on spot the
  results of the single cancels are ignored, so all may have failed, or never have
  left, and the call is still an `Ok` (`SpotCancelled`). `CancelAllMissesNone`
  promises no more of spot than that every order was tried.
* `k4-td/src/lib.rs:41`, "`true` if login succeeded within the given `timeout`":
  the exchange-info request is not under the deadline, so `login` may return `true`
  long after it, or never return (`binance/mod.rs:246`; `InfoAnswered`).
* `k4-td/src/binance/spot.rs:56`, "Send a request and await the response (with
  timeout)": the `send` into the channel is before the timeout (`spot.rs:64`;
  `HandOver`), and so is the connect.
* `k4-md/src/udp/mod.rs:4-5`, "No deduplication is needed because the sending
  module already performs dedup before forwarding": a datagram that comes twice is
  written twice, and one that comes late makes a store go back until the next
  update of its symbol (`udp/mod.rs:147`). The program constructs no sender, so
  no run has one.
* `k4-core/src/ws/redundant.rs:67`, "reset the slowest connection if
  configured": the configuration is not looked at (`Evaluate`). And
  `redundant.rs:122`, "Reset all latency collectors for the next evaluation
  period", is reached only when no connection is replaced (`EvaluateNone`).

And behaviour that no document speaks of but that a reader of the code should
know of:

* A level trimmed by an insertion is gone until the venue mentions it, even if a
  removal in the same delta makes room (`order_book.rs:118`, `trimmed`).
* Once the order connection's task has ended, `ws_api` stays, and every later
  call is refused (`spot.rs:248`).
* A second `login` replaces the clients; the order connection of a replaced one
  stays open after `stop` (`binance/mod.rs:155`, `ws`).
* A listen key whose creation login gave up on may be made after `stop` has
  deleted the account's key, and then lives on (`binance/mod.rs:152`,
  `LateCreate`).
* A PUT that is never answered leaves its refresh task waiting for it: the key
  is refreshed no more and nothing says so (`binance/mod.rs:416`; `sending`).
* A Binance futures frame without a `"ps"` field is told to be spot's
  (`json_parser.rs:81`; `Unmarked`), and so are the frames in the parser's own
  tests.
* After a failed subscribe the connection loop connects again without any wait
  (`ws/client.rs:155`, `SubscribeFails`).
* `redun_conn_count` is parsed and read by nothing.

## 6. Plan

Done, in this order: `LatestRecord` and `ShmRing` with the refinement;
`MdStream`; `WsConnection`; `OrderBook`; `WsApi`; `TdSession`; the
life of processes and regions (`Gateway`); configuration, parsers and their
exchanges (`FeedFormats`, `FeedParsers`, `Feeds`); the redundant client
(`Redundant`); the order operations (`RemoteCall`, `TdOrders`); proofs about all
of them.

Left, most useful first:

1. A reader that attaches to a region at any moment of `create`, once the
   repository has one.
2. Composition of `Gateway`'s streams with `MdStream` by refinement instead of
   by the correspondence of their actions.
3. A venue that restarts its sequence, once the code says how it means to treat
   one.

## 7. Not modelled, and why

* `UdpSender`, which the program never constructs, and what the receiver does with
  a datagram, a write to the store of its kind and product type. `Gateway` has the
  receiver's address, stores and task.
* `symbol_mapper.rs`: `login` fills its two maps and nothing reads them.
* Logging, time, CPU affinity and error types: wrappers of the operating system
  and data, without concurrent state.
* Request signing and the formatting of numbers: functions from data to data
  that no property looks into. Prices, volumes and times of a message are one
  token, the news they tell; malformed numbers are left out.
* Reading and defaulting of the configuration file.
* A reader in another process that attaches while a region is being made: the
  repository has readers in tests only. In `ShmRing` readers are attached.
* A second `start()` of one module object: the runner starts each once.
* Panics, among them the remainder by zero of a ring with `buffer_size` 0
  (`md_size` 0 in the configuration, which nothing checks).
* Id 0, which `UpdateIdDedup` never accepts, is modelled; what an exchange
  means by a sequence that restarts low is not, since nothing promises how the
  code treats it.

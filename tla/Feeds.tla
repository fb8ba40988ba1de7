-------------------------------- MODULE Feeds --------------------------------
(***************************************************************************)
(* A market-data module from its configuration to its stores: the streams  *)
(* that build() makes (FeedFormats) connect and subscribe, the exchange    *)
(* sends a frame for each news of a feed that is subscribed, and a frame   *)
(* delivered goes through the stream's parser (FeedParsers), the check for *)
(* repeated ids and the store of its kind.  The connection, the channel    *)
(* and the worker in between are modules WsConnection and MdStream; here   *)
(* they are a wire that keeps its order and loses all when it breaks.      *)
(* Bybit's order book, the one feed told in differences, is module         *)
(* OrderBook: it is subscribed here, and no frame of it is sent.           *)
(***************************************************************************)
EXTENDS FeedParsers

CONSTANTS Configs,     \* connection configurations to choose from
          Depths,      \* numbers of levels in a depth: [bid, ask]
          Extras,      \* bytes by which the blocks of an SBE group may be longer
          MaxBatch,    \* bound: trades in a frame
          MaxNews,     \* bound: news of all feeds
          MaxBreaks    \* bound: connections lost

\* The spot section of an OKX configuration names no swaps.
ASSUME ConfigsAssumption ==
  /\ Configs \subseteq Configuration
  /\ \A c \in Configs : c.exchange = "okx" => \A s \in SpotSymbols(c.spot) : s.swap = 0

ASSUME FeedBounds ==
  /\ Depths \subseteq [{"bid", "ask"} -> Nat] /\ Extras \subseteq Nat
  /\ MaxBatch \in Nat \ {0} /\ MaxNews \in Nat /\ MaxBreaks \in Nat

Labels == {"binance_spot_json", "binance_spot_sbe", "binance_ubase", "okx_spot", "okx_swap",
           "bitget_spot", "bitget_futures", "bybit_spot", "bybit_futures"}
StoreNames == Markets \X Kinds

VARIABLES
  conn,    \* the connection's configuration
  up,      \* labels of the streams that are connected
  wire,    \* per label, frames on their way: [frame, feed, items]
  counts,  \* per feed, the ids given so far
  seen,    \* per label, the ids the dedup table has seen: [kind, sym, id]
  store,   \* per store, the records written to it, oldest first
  breaks,  \* connections lost so far
  due      \* history: [feed, item] that the stores must have got, once delivered

vars == <<conn, up, wire, counts, seen, store, breaks, due>>

Stream(label) == CHOOSE st \in Streams(conn) : st.label = label
Running == {st.label : st \in Streams(conn)}

FdTypeOK ==
  /\ conn \in Configs
  /\ up \subseteq Running
  /\ \A l \in Labels : \A i \in DOMAIN wire[l] : wire[l][i].feed \in Feeds \cup {<<>>}
  /\ counts \in [Feeds -> Nat]
  /\ DOMAIN seen = Labels /\ DOMAIN store = StoreNames
  /\ breaks \in 0 .. MaxBreaks

Init ==
  /\ conn \in Configs
  /\ up = {} /\ wire = [l \in Labels |-> <<>>] /\ counts = [f \in Feeds |-> 0]
  /\ seen = [l \in Labels |-> {}] /\ store = [n \in StoreNames |-> <<>>]
  /\ breaks = 0 /\ due = {}

SbeUrl(stream) == stream.url = "binance_sbe"

Connect(l) ==
  /\ l \in Running \ up
  /\ up' = up \cup {l}
  /\ wire' = [wire EXCEPT ![l] =
       <<[frame |-> IF SbeUrl(Stream(l)) THEN SbeControl ELSE Control, feed |-> <<>>, items |-> <<>>]>>]
  /\ UNCHANGED <<conn, counts, seen, store, breaks, due>>

Carried(entry) == {[feed |-> entry.feed, item |-> entry.items[i]] : i \in DOMAIN entry.items}
OnWires == UNION {UNION {Carried(wire[l][i]) : i \in DOMAIN wire[l]} : l \in up}

Break(l) ==
  /\ l \in up /\ breaks < MaxBreaks
  /\ up' = up \ {l} /\ breaks' = breaks + 1
  /\ wire' = [wire EXCEPT ![l] = <<>>]
  /\ due' = due \ UNION {Carried(wire[l][i]) : i \in DOMAIN wire[l]}
  /\ UNCHANGED <<conn, counts, seen, store>>

-----------------------------------------------------------------------------
(* External: what the exchange may tell of a feed at once.                 *)

BatchSizes(feed) ==
  IF /\ feed.kind = "trade" /\ conn.exchange # "okx"
     /\ ~(conn.exchange = "binance" /\ feed.market = "futures")
  THEN 1 .. MaxBatch ELSE {1}
SideSets(feed) ==
  IF feed.kind = "bbo" /\ conn.exchange # "binance" THEN {{"bid", "ask"}, {"ask"}}
  ELSE {{"bid", "ask"}}
DepthsOf(feed) ==
  CASE feed.kind # "depth5" -> {[bid |-> 0, ask |-> 0]}
    [] feed.kind = "depth5" /\ conn.exchange = "binance" /\ feed.market = "spot" -> Depths
    [] OTHER -> {[side \in {"bid", "ask"} |-> Min({5, d[side]})] : d \in Depths}
Sold(feed) ==
  /\ feed.kind = "agg" => conn.exchange = "binance"
  /\ feed.kind = "depth5" => conn.exchange # "bybit"

\* Markets and pairs that nobody configured are left out.
Section(market) ==
  IF market = "spot" THEN conn.spot ELSE IF conn.exchange = "okx" THEN conn.swap ELSE conn.futures
Given(market) ==
  IF Section(market) = <<>> THEN {}
  ELSE SymbolsOf(Section(market)[1].symbols) \cup SymbolsOf(Section(market)[1].ubase)
Wanted(feed) == Sold(feed) /\ \E s \in Given(feed.market) : s.pair = feed.pair

FrameFor(stream, feed, items, extra) ==
  IF SbeUrl(stream) THEN SbeFrame(feed, items, extra)
  ELSE JsonFrame(stream.url, CHOOSE sub \in Serves(stream, feed) : TRUE, feed, items)

\* A stream that is connected gets what it subscribed; what no stream carries
\* although all are connected should have been subscribed.
Publish(feed) ==
  /\ Wanted(feed) /\ FoldSet(LAMBDA f, n : n + counts[f], 0, Feeds) < MaxNews
  /\ \E size \in BatchSizes(feed), sides \in SideSets(feed), depth \in DepthsOf(feed), extra \in Extras :
       LET items == [i \in 1 .. size |-> Item(feed, counts[feed] + i, sides, depth)]
           to == {l \in up : Serves(Stream(l), feed) # {}}
       IN  /\ extra \in {0} \/ \E l \in to : SbeUrl(Stream(l)) /\ feed.kind # "bbo"
           /\ counts' = [counts EXCEPT ![feed] = @ + size]
           /\ wire' = [l \in Labels |->
                IF l \notin to THEN wire[l]
                ELSE Append(wire[l], [frame |-> FrameFor(Stream(l), feed, items, extra),
                                      feed |-> feed, items |-> items])]
           /\ due' = IF to # {} \/ up = Running
                     THEN due \cup {[feed |-> feed, item |-> items[i]] : i \in 1 .. size}
                     ELSE due
  /\ UNCHANGED <<conn, up, seen, store, breaks>>

-----------------------------------------------------------------------------
\* A UUID is known or not; other ids must rise.
Repeated(stream, known, msg) ==
  \E k \in known : /\ k.kind = msg.kind /\ k.sym = msg.sym
                   /\ IF stream.uuid /\ msg.kind = "trade" THEN k.id = msg.id ELSE k.id >= msg.id

\* Dedup worker and ShmMdStore::write: [known ids, stores] after a message.
Handle(stream, acc, msg) ==
  IF Repeated(stream, acc.seen, msg) THEN acc
  ELSE [seen  |-> acc.seen \cup {[kind |-> msg.kind, sym |-> msg.sym, id |-> msg.id]},
        store |-> [n \in StoreNames |->
           IF n \in stream.names /\ n[2] = msg.kind /\ msg.sym \in stream.symbols
           THEN Append(acc.store[n], msg) ELSE acc.store[n]]]

HandleAll(stream, acc, msgs) == FoldLeft(LAMBDA a, msg : Handle(stream, a, msg), acc, msgs)

Deliver(l) ==
  /\ l \in up /\ wire[l] # <<>>
  /\ wire' = [wire EXCEPT ![l] = Tail(@)]
  /\ LET after == HandleAll(Stream(l), [seen |-> seen[l], store |-> store],
                            Parse(Stream(l), Head(wire[l]).frame))
     IN  seen' = [seen EXCEPT ![l] = after.seen] /\ store' = after.store
  /\ UNCHANGED <<conn, up, counts, breaks, due>>

Next == \/ \E l \in Labels : Connect(l) \/ Break(l) \/ Deliver(l)
        \/ \E feed \in Feeds : Publish(feed)

Spec == Init /\ [][Next]_vars

-----------------------------------------------------------------------------
\* The spelling under which the store has a pair.
StoreSymbol(feed) ==
  IF conn.exchange = "okx" THEN VenueSymbol("okx", feed.market, feed.pair) ELSE Plain(feed.pair)

\* The symbols that count: "ubase_symbols" where there are no "symbols".
Effective(market) ==
  IF market = "spot" THEN SpotSymbols(conn.spot)
  ELSE IF conn.exchange = "okx" THEN SpotSymbols(conn.swap) ELSE EffectiveSymbols(conn.futures)

\* The feeds for which the configuration has a store: the kind is named, and
\* the pair is spelled BTCUSDT, for OKX also BTC-USDT.
Configured == {feed \in Feeds :
  /\ Sold(feed) /\ Section(feed.market) # <<>> /\ feed.kind \in Section(feed.market)[1].names
  /\ \E s \in Effective(feed.market) :
       /\ s.pair = feed.pair /\ ~s.lower /\ s.swap = 0
       /\ s.hyphen => conn.exchange = "okx"
       /\ conn.exchange = "okx" => s.pair \notin OddPairs}

\* The records of a feed: their places in the store of its kind.
Records(feed) == store[<<feed.market, feed.kind>>]
Places(feed) == {k \in DOMAIN Records(feed) : Records(feed)[k].sym = StoreSymbol(feed)}
Delivered(feed) == {d.item : d \in {e \in due \ OnWires : e.feed = feed}}
Whole(feed, item) == feed.kind = "bbo" => TwoSided(item.body)
Expected(feed, item) == IF feed.kind = "depth5" THEN FillDepth5(item.body) ELSE item.body

\* Parsed as spot, whatever its market: a Binance futures frame without "ps".
Unmarked(feed) ==
  conn.exchange = "binance" /\ feed.market = "futures" /\ feed.kind \notin PsKinds

(* The store of every configured kind and symbol shows the newest news of  *)
(* that feed that was not lost with a connection (of a quote, the newest   *)
(* with both sides), with the best five levels of each side: what is       *)
(* subscribed is what the exchange sends under that name, in a frame that  *)
(* the stream's parser reads, and the store has the symbol as the frame    *)
(* has it.  Bybit's depth, told in differences, is not among the feeds     *)
(* sold here.                                                              *)
ShowsNewest ==
  \A feed \in Configured :
    LET told == {i \in Delivered(feed) : Whole(feed, i)} IN
    told # {} =>
      LET newest == CHOOSE i \in told : \A j \in told : j.id <= i.id
          shown  == Records(feed)[Max(Places(feed))]
      IN  Places(feed) # {} /\ shown.id = newest.id /\ shown.body = Expected(feed, newest)

(* Trades come several in a frame, in either order, with numbers or with   *)
(* UUIDs; every one is written, once, oldest first.                        *)
EveryTradeOnce ==
  \A feed \in Configured :
    feed.kind \in {"trade", "agg"} =>
      /\ {Records(feed)[k].id : k \in Places(feed)} = {i.id : i \in Delivered(feed)}
      /\ \A j, k \in Places(feed) : j < k => Records(feed)[j].id < Records(feed)[k].id

(* Every record is in the store of the market, kind and pair its news is   *)
(* from, and its product type, by which a UDP receiver chooses the store,  *)
(* is that market's: unless it came in a Binance futures frame without the *)
(* "ps" field, of whose product nothing is claimed.                        *)
OnItsMarket ==
  \A n \in StoreNames : \A k \in DOMAIN store[n] :
    LET r == store[n][k] IN
    \E feed \in Feeds :
      /\ feed.market = n[1] /\ feed.kind = n[2]
      /\ feed.pair = r.sym.pair /\ r.id <= counts[feed]
      /\ Unmarked(feed) \/ r.product = feed.market

=============================================================================

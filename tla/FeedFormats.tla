----------------------------- MODULE FeedFormats -----------------------------
(***************************************************************************)
(* What the modules of an exchange ask of it, and what it sends: the       *)
(* connection's configuration (k4-core/src/config.rs and the config.rs of  *)
(* each exchange), the streams that each build() makes of it, their        *)
(* subscriptions, and, external to the program, the frames that the        *)
(* exchange sends for a subscription.                                      *)
(*                                                                         *)
(* A symbol is a pair in a certain spelling.  An Option is a sequence of   *)
(* which only the first element counts.  The SHM name of a store is        *)
(* <<market, kind>>.                                                       *)
(***************************************************************************)
EXTENDS Naturals, Sequences, FiniteSets, SequencesExt

CONSTANTS Pairs,     \* currency pairs
          OddPairs,  \* those whose quote currency to_okx_inst_id does not know
          PsKinds    \* kinds whose frames on Binance's futures have a "ps" field:
                     \* nothing in the repository says which

ASSUME PairsAssumption == OddPairs \subseteq Pairs

Kinds == {"bbo", "agg", "trade", "depth5"}
Markets == {"spot", "futures"}
Exchanges == {"binance", "okx", "bitget", "bybit"}

\* BTCUSDT, btcusdt, BTC-USDT and BTC-USDT-SWAP
Plain(p) == [pair |-> p, lower |-> FALSE, hyphen |-> FALSE, swap |-> 0]
Lower(s) == [s EXCEPT !.lower = TRUE]
Hyphen(s) == [s EXCEPT !.hyphen = TRUE]
Swap(s) == [s EXCEPT !.swap = @ + 1]
NoSymbol == [pair |-> "", lower |-> FALSE, hyphen |-> FALSE, swap |-> 0]

Symbol == [pair : Pairs, lower : BOOLEAN, hyphen : BOOLEAN, swap : Nat]

-----------------------------------------------------------------------------
(* Configuration.  A section is an Option of what one lists.               *)

Option(S) == Seq(S)
Listed == [symbols : Option(SUBSET Symbol), ubase : Option(SUBSET Symbol), names : SUBSET Kinds]
Configuration ==
  [exchange : Exchanges, spot : Option(Listed), futures : Option(Listed), swap : Option(Listed)]

SymbolsOf(option) == IF option = <<>> THEN {} ELSE option[1]

SpotSymbols(section) == IF section = <<>> THEN {} ELSE SymbolsOf(section[1].symbols)

\* FuturesConfig::effective_symbols
EffectiveSymbols(section) ==
  IF section = <<>> THEN {}
  ELSE SymbolsOf(IF section[1].symbols # <<>> THEN section[1].symbols ELSE section[1].ubase)

\* A section as a module uses it: its symbols, and the stores of its kinds.
Extract(section, symbols, market, kinds) ==
  [symbols |-> symbols,
   names |-> IF section = <<>> THEN {} ELSE {market} \X (section[1].names \cap kinds)]

\* to_okx_inst_id leaves what has a hyphen, and what has no quote it knows.
ToOkxInstId(s) ==
  IF s.hyphen \/ s.swap > 0 \/ s.lower \/ s.pair \in OddPairs THEN s ELSE Hyphen(s)

ToOkxSwapInstId(s) == Swap(ToOkxInstId(s))

NoAgg == {"bbo", "trade", "depth5"}

BinanceConfig(conn) ==
  [spot  |-> Extract(conn.spot, SpotSymbols(conn.spot), "spot", Kinds),
   ubase |-> Extract(conn.futures, EffectiveSymbols(conn.futures), "futures", Kinds)]

\* The swap section instead of futures; no "ubase_symbols" there.
OkxConfig(conn) ==
  [spot |-> Extract(conn.spot, {ToOkxInstId(s) : s \in SpotSymbols(conn.spot)}, "spot", NoAgg),
   swap |-> Extract(conn.swap, {ToOkxSwapInstId(s) : s \in SpotSymbols(conn.swap)}, "futures", NoAgg)]

BitgetConfig(conn) ==
  [spot    |-> Extract(conn.spot, SpotSymbols(conn.spot), "spot", NoAgg),
   futures |-> Extract(conn.futures, EffectiveSymbols(conn.futures), "futures", NoAgg)]

BybitConfig(conn) ==
  [spot    |-> Extract(conn.spot, SpotSymbols(conn.spot), "spot", NoAgg),
   futures |-> Extract(conn.futures, EffectiveSymbols(conn.futures), "futures", NoAgg)]

-----------------------------------------------------------------------------
(* Subscriptions: sets of [type, channel, sym].                            *)

Subscribe(type, channels, symbols) ==
  [type : {type}, channel : channels, sym : symbols]

SpotJsonSubscribe(symbols) == Subscribe("", {"aggTrade"}, {Lower(s) : s \in symbols})
SpotSbeSubscribe(symbols) ==
  Subscribe("", {"bestBidAsk", "trade", "depth20"}, {Lower(s) : s \in symbols})
UbaseSubscribe(symbols) ==
  Subscribe("", {"aggTrade", "bookTicker", "trade", "depth5@100ms"}, {Lower(s) : s \in symbols})
OkxSubscribe(symbols) == Subscribe("", {"bbo-tbt", "trades", "books5"}, symbols)
BitgetSpotSubscribe(symbols) == Subscribe("SPOT", {"books1", "trade", "books5"}, symbols)
BitgetFuturesSubscribe(symbols) ==
  Subscribe("USDT-FUTURES", {"books1", "trade", "books5"}, symbols)
BybitSubscribe(symbols) == Subscribe("", {"publicTrade", "orderbook.1", "orderbook.50"}, symbols)

-----------------------------------------------------------------------------
(* The streams of each exchange: label, the place it connects to, its      *)
(* subscription, its stores, their symbols, and whether trades go through  *)
(* the UUID table.  A section without symbols has no stream.               *)

StreamOf(label, url, subs, names, symbols) ==
  IF symbols = {} THEN {}
  ELSE {[label |-> label, url |-> url, subs |-> subs, names |-> names,
         symbols |-> symbols, uuid |-> label = "bybit_futures"]}

BinanceStreams(conn) ==
  LET cfg == BinanceConfig(conn)
      agg == {"spot"} \X {"agg"}
  IN  StreamOf("binance_spot_json", "binance_spot", SpotJsonSubscribe(cfg.spot.symbols),
               cfg.spot.names \cap agg, cfg.spot.symbols)
      \cup StreamOf("binance_spot_sbe", "binance_sbe", SpotSbeSubscribe(cfg.spot.symbols),
               cfg.spot.names \ agg, cfg.spot.symbols)
      \cup StreamOf("binance_ubase", "binance_futures", UbaseSubscribe(cfg.ubase.symbols),
               cfg.ubase.names, cfg.ubase.symbols)

OkxStreams(conn) ==
  LET cfg == OkxConfig(conn)
  IN  StreamOf("okx_spot", "okx", OkxSubscribe(cfg.spot.symbols), cfg.spot.names, cfg.spot.symbols)
      \cup StreamOf("okx_swap", "okx", OkxSubscribe(cfg.swap.symbols), cfg.swap.names, cfg.swap.symbols)

BitgetStreams(conn) ==
  LET cfg == BitgetConfig(conn)
  IN  StreamOf("bitget_spot", "bitget", BitgetSpotSubscribe(cfg.spot.symbols),
               cfg.spot.names, cfg.spot.symbols)
      \cup StreamOf("bitget_futures", "bitget", BitgetFuturesSubscribe(cfg.futures.symbols),
               cfg.futures.names, cfg.futures.symbols)

BybitStreams(conn) ==
  LET cfg == BybitConfig(conn)
  IN  StreamOf("bybit_spot", "bybit_spot", BybitSubscribe(cfg.spot.symbols),
               cfg.spot.names, cfg.spot.symbols)
      \cup StreamOf("bybit_futures", "bybit_linear", BybitSubscribe(cfg.futures.symbols),
               cfg.futures.names, cfg.futures.symbols)

Streams(conn) ==
  CASE conn.exchange = "binance" -> BinanceStreams(conn)
    [] conn.exchange = "okx" -> OkxStreams(conn)
    [] conn.exchange = "bitget" -> BitgetStreams(conn)
    [] conn.exchange = "bybit" -> BybitStreams(conn)

-----------------------------------------------------------------------------
(* External: the exchanges.  A feed is the news of one kind about one pair *)
(* on one market.                                                          *)

Feeds == [market : Markets, kind : Kinds, pair : Pairs]

KindOfChannel(channel) ==
  CASE channel = "aggTrade" -> "agg"
    [] channel \in {"bestBidAsk", "bookTicker", "bbo-tbt", "books1", "orderbook.1"} -> "bbo"
    [] channel \in {"trade", "trades", "publicTrade"} -> "trade"
    [] channel \in {"depth20", "depth5@100ms", "books5", "orderbook.50"} -> "depth5"

\* The symbol by which an exchange knows a pair, in a subscription.
VenueSymbol(url, market, pair) ==
  CASE url = "okx" -> IF market = "spot" THEN Hyphen(Plain(pair)) ELSE Swap(Hyphen(Plain(pair)))
    [] url \in {"binance_spot", "binance_sbe", "binance_futures"} -> Lower(Plain(pair))
    [] OTHER -> Plain(pair)

MarketsAt(url, type) ==
  CASE url = "okx" -> Markets
    [] url = "bitget" -> IF type = "SPOT" THEN {"spot"} ELSE {"futures"}
    [] url \in {"binance_futures", "bybit_linear"} -> {"futures"}
    [] OTHER -> {"spot"}

Serves(stream, feed) == {sub \in stream.subs :
  /\ KindOfChannel(sub.channel) = feed.kind
  /\ feed.market \in MarketsAt(stream.url, sub.type)
  /\ sub.sym = VenueSymbol(stream.url, feed.market, feed.pair)}

\* News number n of a feed: what a trade, a quote or a level of it says.
News(feed, n) == [feed |-> feed, n |-> n]

\* A JSON frame: tag is the event type, channel or topic, mark the "ps" field
\* or the instType, data the items, each with an id and a body.
Json(tag, sym, mark, data) == [tag |-> tag, sym |-> sym, mark |-> mark, data |-> data]

Item(feed, n, sides, levels) ==
  [id |-> n,
   body |-> CASE feed.kind \in {"trade", "agg"} -> News(feed, n)
              [] feed.kind = "bbo" -> [side \in sides |-> News(feed, n)]
              [] OTHER -> [side \in {"bid", "ask"} |-> [i \in 1 .. levels[side] |-> <<i, News(feed, n)>>]]]

EventType == [agg |-> "aggTrade", bbo |-> "bookTicker", trade |-> "trade", depth5 |-> "depthUpdate"]

JsonFrame(url, sub, feed, items) ==
  CASE url \in {"binance_spot", "binance_futures"} ->
         Json(EventType[feed.kind], Plain(feed.pair),
              IF feed.market = "futures" /\ feed.kind \in PsKinds THEN "ps" ELSE "", items)
    [] url = "bitget" /\ feed.kind = "trade" ->
         Json(sub.channel, sub.sym, sub.type, Reverse(items))
    [] OTHER -> Json(sub.channel, sub.sym, sub.type, items)

\* The answer to a subscription, or a pong.
Control == Json("", NoSymbol, "", <<>>)

=============================================================================

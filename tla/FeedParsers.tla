----------------------------- MODULE FeedParsers -----------------------------
(***************************************************************************)
(* The parsers of k4-md: JSON frames of Binance, OKX, Bitget and Bybit,    *)
(* and Binance's binary (SBE) frames.  Each takes a frame to a sequence of *)
(* market-data messages, empty for what is not market data.                *)
(*                                                                         *)
(* A JSON value is modelled once parsed; prices, volumes and times are one *)
(* token, the news they tell.  An SBE frame is [template, len, at, size]:  *)
(* its body has length len, the value that begins at offset o is at[o],    *)
(* and the length or number that begins there size[o].  Mantissa and       *)
(* exponent are one value; times are left out.                             *)
(***************************************************************************)
EXTENDS FeedFormats, FiniteSetsExt

CONSTANT SymbolBytes   \* length of a symbol

ASSUME SymbolBytesAssumption == SymbolBytes \in Nat

Msg(kind, sym, product, id, body) ==
  [kind |-> kind, sym |-> sym, product |-> product, id |-> id, body |-> body]

Take(s, n) == SubSeq(s, 1, Min({n, Len(s)}))

\* fill_depth5_levels
FillDepth5(body) == [side \in {"bid", "ask"} |-> Take(body[side], 5)]

TwoSided(body) == {"bid", "ask"} \subseteq DOMAIN body

\* One item of a quote, trade or depth channel; a quote needs both sides.
ParseItem(kind, sym, product, item) ==
  CASE kind = "bbo" /\ ~TwoSided(item.body) -> <<>>
    [] kind = "depth5" -> <<Msg(kind, sym, product, item.id, FillDepth5(item.body))>>
    [] OTHER -> <<Msg(kind, sym, product, item.id, item.body)>>

\* Variant: the market is not looked at.
ProductFromPs_Spot(frame) == "spot"

ProductFromPs(frame) == IF frame.mark = "ps" THEN "futures" ELSE "spot"

BinanceKind == [aggTrade |-> "agg", bookTicker |-> "bbo", trade |-> "trade", depthUpdate |-> "depth5"]

\* The fields of a bookTicker are always there.
ParseBinance(frame) ==
  IF frame.tag \notin DOMAIN BinanceKind THEN <<>>
  ELSE ParseItem(BinanceKind[frame.tag], frame.sym, ProductFromPs(frame), frame.data[1])

ProductFromInstId(s) == IF s.swap > 0 THEN "futures" ELSE "spot"

OkxKind ==
  [channel \in {"bbo-tbt", "trades", "books5"} |->
     CASE channel = "bbo-tbt" -> "bbo" [] channel = "trades" -> "trade" [] OTHER -> "depth5"]

\* Only the first item of data is looked at.
ParseOkx(frame) ==
  IF frame.tag \notin DOMAIN OkxKind \/ frame.data = <<>> THEN <<>>
  ELSE ParseItem(OkxKind[frame.tag], frame.sym, ProductFromInstId(frame.sym), frame.data[1])

ProductFromInstType(frame) ==
  CASE frame.mark = "USDT-FUTURES" -> "futures"
    [] frame.mark = "COIN-FUTURES" -> "coin_margin"
    [] OTHER -> "spot"

\* Variant: in the order of the message.
BitgetTrades_AsSent(data) == data

\* Newest first in the message.
BitgetTrades(data) == Reverse(data)

BitgetKind == [books1 |-> "bbo", trade |-> "trade", books5 |-> "depth5"]

ParseBitget(frame) ==
  LET items == CASE frame.tag = "trade" -> BitgetTrades(frame.data)
                 [] frame.tag \in {"books1", "books5"} -> Take(frame.data, 1)
                 [] OTHER -> <<>>
  IN  FlattenSeq([i \in DOMAIN items |->
        ParseItem(BitgetKind[frame.tag], frame.sym, ProductFromInstType(frame), items[i])])

BybitKind ==
  [topic \in {"publicTrade", "orderbook.1"} |-> IF topic = "publicTrade" THEN "trade" ELSE "bbo"]

\* A numeric trade id is taken as it is, a UUID hashed.  An orderbook.50
\* message, a snapshot or a delta for the local book, is module OrderBook's:
\* no frame of this model is one.
ParseBybit(frame, product) ==
  LET items == IF frame.tag \in DOMAIN BybitKind THEN frame.data ELSE <<>>
  IN  FlattenSeq([i \in DOMAIN items |->
        ParseItem(BybitKind[frame.tag], frame.sym, product, items[i])])

-----------------------------------------------------------------------------
(* SBE.  Past the end of a frame the readers would panic: "garbage" stands *)
(* for that, and no frame of the model gets there.                         *)

Read(frame, offset) == IF offset \in DOMAIN frame.at THEN frame.at[offset] ELSE "garbage"

ReadSize(frame, offset) == IF offset \in DOMAIN frame.size THEN frame.size[offset] ELSE 0

\* VarString8; another value is no symbol that is known.
ReadSymbol(frame, offset) ==
  IF offset < frame.len /\ offset \in DOMAIN frame.at THEN frame.at[offset] ELSE NoSymbol

BbaMinBody == 51

ParseBestBidAsk(frame) ==
  IF frame.len < BbaMinBody THEN <<>>
  ELSE <<Msg("bbo", ReadSymbol(frame, 50), "spot", Read(frame, 8),
             [side \in {"bid", "ask"} |-> Read(frame, IF side = "bid" THEN 18 ELSE 34)])>>

TradesRootSize == 18
TradesGroupHeaderSize == 6

ParseTrades(frame) ==
  LET block == ReadSize(frame, TradesRootSize)
      num   == ReadSize(frame, TradesRootSize + 2)
      start == TradesRootSize + TradesGroupHeaderSize
      end   == start + block * num
      Entry(i) == start + (i - 1) * block
  IN  IF frame.len < start \/ end > frame.len THEN <<>>
      ELSE [i \in 1 .. num |-> Msg("trade", ReadSymbol(frame, end), "spot",
                                   Read(frame, Entry(i)), Read(frame, Entry(i) + 8))]

DepthRootSize == 18
DepthGroupHeaderSize == 4

\* Variant: the levels beyond the fifth are not skipped.
GroupEnd_NoSkip(frame, offset) ==
  LET num == ReadSize(frame, offset + 2)
  IN  offset + DepthGroupHeaderSize + Min({5, num}) * ReadSize(frame, offset)

\* Of the group whose header is at offset: the levels that are read, at most
\* five and none past the end, and where the group ends.
GroupLevels(frame, offset) ==
  LET block == ReadSize(frame, offset)
      first == offset + DepthGroupHeaderSize
      fit   == {i \in 1 .. Min({5, ReadSize(frame, offset + 2)}) : first + i * block <= frame.len}
  IN  [i \in fit |-> Read(frame, first + (i - 1) * block)]

GroupEnd(frame, offset) ==
  LET num == ReadSize(frame, offset + 2)
      skipped == num - Min({5, num})
  IN  offset + DepthGroupHeaderSize
        + (Len(GroupLevels(frame, offset)) + skipped) * ReadSize(frame, offset)

\* A frame that ends before the asks is passed on as far as it goes, without
\* its symbol.
ParseDepth(frame) ==
  LET asks == GroupEnd(frame, DepthRootSize)
  IN  IF frame.len < DepthRootSize + DepthGroupHeaderSize THEN <<>>
      ELSE IF asks + DepthGroupHeaderSize > frame.len
      THEN <<Msg("depth5", NoSymbol, "spot", Read(frame, 8),
                 [side \in {"bid", "ask"} |->
                    IF side = "bid" THEN GroupLevels(frame, DepthRootSize) ELSE <<>>])>>
      ELSE <<Msg("depth5", ReadSymbol(frame, GroupEnd(frame, asks)), "spot", Read(frame, 8),
                 [side \in {"bid", "ask"} |->
                    GroupLevels(frame, IF side = "bid" THEN DepthRootSize ELSE asks)])>>

ParseSbe(frame) ==
  CASE frame.template = 10001 -> ParseBestBidAsk(frame)
    [] frame.template = 10000 -> ParseTrades(frame)
    [] frame.template = 10002 -> ParseDepth(frame)
    [] OTHER -> <<>>

-----------------------------------------------------------------------------
(* External: how Binance lays out its binary frames, after the layouts     *)
(* that sbe_parser.rs quotes.  The blocks of a group may be longer than    *)
(* their fields.                                                           *)

SbeControl == [template |-> 0, len |-> 0, at |-> <<>>, size |-> <<>>]

ValueAt(offset, value) == [o \in {offset} |-> value]
Over(f, g) == [o \in DOMAIN f \cup DOMAIN g |-> IF o \in DOMAIN f THEN f[o] ELSE g[o]]

EncodeBba(sym, item) ==
  [template |-> 10001, len |-> 50 + 1 + SymbolBytes, size |-> <<>>,
   at |-> [o \in {8, 18, 34, 50} |->
             CASE o = 8 -> item.id [] o = 18 -> item.body["bid"]
               [] o = 34 -> item.body["ask"] [] OTHER -> sym]]

\* entry[i] at offset start + (i - 1) * block
Spread(entries, start, block) ==
  [o \in {start + (i - 1) * block : i \in DOMAIN entries} |-> entries[(o - start) \div block + 1]]

EncodeTrades(sym, items, block) ==
  LET end == 24 + Len(items) * block IN
  [template |-> 10000, len |-> end + 1 + SymbolBytes,
   size |-> Over(ValueAt(18, block), ValueAt(20, Len(items))),
   at |-> Over(ValueAt(end, sym),
               Over(Spread([i \in DOMAIN items |-> items[i].id], 24, block),
                    Spread([i \in DOMAIN items |-> items[i].body], 32, block)))]

EncodeDepth(sym, item, block) ==
  LET bids == item.body["bid"]
      asks == item.body["ask"]
      second == 22 + Len(bids) * block
      end    == second + 4 + Len(asks) * block
  IN  [template |-> 10002, len |-> end + 1 + SymbolBytes,
       size |-> Over(Over(ValueAt(18, block), ValueAt(20, Len(bids))),
                     Over(ValueAt(second, block), ValueAt(second + 2, Len(asks)))),
       at |-> Over(Over(ValueAt(8, item.id), ValueAt(end, sym)),
                   Over(Spread(bids, 22, block), Spread(asks, second + 4, block)))]

SbeFrame(feed, items, extra) ==
  LET sym == Plain(feed.pair) IN
  CASE feed.kind = "bbo" -> EncodeBba(sym, items[1])
    [] feed.kind = "trade" -> EncodeTrades(sym, items, 25 + extra)
    [] OTHER -> EncodeDepth(sym, items[1], 16 + extra)

-----------------------------------------------------------------------------
\* What the parser of a stream makes of a frame.
Parse(stream, frame) ==
  CASE stream.url = "binance_sbe" -> ParseSbe(frame)
    [] stream.url \in {"binance_spot", "binance_futures"} -> ParseBinance(frame)
    [] stream.url = "okx" -> ParseOkx(frame)
    [] stream.url = "bitget" -> ParseBitget(frame)
    [] stream.url = "bybit_spot" -> ParseBybit(frame, "spot")
    [] stream.url = "bybit_linear" -> ParseBybit(frame, "futures")

=============================================================================

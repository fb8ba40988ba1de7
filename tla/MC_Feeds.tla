------------------------------ MODULE MC_Feeds -------------------------------
(* Each exchange with both markets; one pair has a quote currency that     *)
(* to_okx_inst_id does not know.                                           *)
EXTENDS Feeds

MCPairs == {"btc_usdt", "btc_tusd"}
MCOddPairs == {"btc_tusd"}
Usdt == {Plain("btc_usdt")}
Both == {Plain(p) : p \in MCPairs}

Sect(symbols, ubase, names) == <<[symbols |-> symbols, ubase |-> ubase, names |-> names]>>
MCConn(exchange, spot, futures, swap) ==
  [exchange |-> exchange, spot |-> spot, futures |-> futures, swap |-> swap]

MCConfigs == {
  MCConn("binance", Sect(<<Usdt>>, <<>>, Kinds), Sect(<<>>, <<Usdt>>, Kinds), <<>>),
  MCConn("binance", <<>>, Sect(<<>>, <<Both>>, {"bbo", "trade"}), <<>>),
  MCConn("okx", Sect(<<Both>>, <<>>, Kinds), <<>>, Sect(<<{Hyphen(Plain("btc_usdt"))}>>, <<>>, Kinds)),
  MCConn("bitget", Sect(<<Usdt>>, <<>>, Kinds), Sect(<<Usdt>>, <<>>, Kinds), <<>>),
  MCConn("bybit", Sect(<<Usdt>>, <<>>, {"trade", "depth5"}), Sect(<<Usdt>>, <<>>, Kinds), <<>>) }

MCDepths == {[bid |-> 2, ask |-> 1], [bid |-> 7, ask |-> 6]}
=============================================================================

---------------------------- MODULE MC_MdStream ----------------------------
(* Small instances of MdStream: a full channel, ids that repeat and go     *)
(* back, a symbol that is not configured, and a two-slot trade table.      *)
EXTENDS MdStream

CONSTANTS btc, xrp

OneSymbol == {btc}
NotListed == {xrp}
BboOnly == {"bbo"}
BboAndTrade == {"bbo", "trade"}

\* Ids 1 and 3 share a slot of a two-slot table, 2 and 4 the other; no
\* hash is 0 but that of id 0.
HashById == [id \in 0 .. MaxId |-> id]
=============================================================================

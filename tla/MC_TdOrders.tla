---------------------------- MODULE MC_TdOrders ----------------------------
(* Two spot orders of one symbol, and two futures orders, which close each *)
(* other's position; a cancel of all spot orders of the symbol and one of  *)
(* another symbol; an account without a client.                            *)
EXTENDS TdOrders

CONSTANTS s1, s2, u1, u2, x, y

MC_AccountOf == [o \in Orders |-> IF o \in {u1, u2} THEN "ubase" ELSE "spot"]
MC_SymbolOf == [o \in Orders |-> x]
MC_SideOf == [o \in Orders |-> IF o = u2 THEN "SELL" ELSE "BUY"]

Insert(o) == [kind |-> "insert", order |-> o]
Cancel(o) == [kind |-> "cancel", order |-> o]
CancelAll(a, s) == [kind |-> "cancel_all", account |-> a, symbol |-> s]
Query(w) == [kind |-> "query", what |-> w]

MC_Ops == {Insert(s1), Insert(u1), Cancel(u1)} \cup {CancelAll("spot", s) : s \in {x, y}}
            \cup {CancelAll("ubase", x)}
            \cup {Query(w) : w \in {"orders", "positions"}}
=============================================================================

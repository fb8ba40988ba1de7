---------------------------- MODULE MC_OrderBook ----------------------------
(* A small instance of OrderBook: a book of two levels a side, one more    *)
(* price than fits, and a price whose volume may change.                   *)
EXTENDS OrderBook

TwoInTheMiddle == [p \in Prices |-> IF p = 2 THEN {1, 2} ELSE {1}]
=============================================================================

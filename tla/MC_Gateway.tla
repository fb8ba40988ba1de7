------------------------------ MODULE MC_Gateway ------------------------------
(* One WebSocket module whose first stream has no symbols, a connection    *)
(* of an exchange nobody knows, and the UDP module.                        *)
EXTENDS Gateway

MCConfig == <<
  [exchange |-> "ws", streams |-> << [names |-> <<"z">>, symbols |-> FALSE],
                                     [names |-> <<"a", "b">>, symbols |-> TRUE] >>],
  [exchange |-> "unknown", streams |-> << [names |-> <<"y">>, symbols |-> TRUE] >>],
  [exchange |-> "udp", streams |-> << [names |-> <<"c">>, symbols |-> TRUE] >>] >>
MCNames == {"a", "b", "c", "y", "z"}
===============================================================================

---------------------------- MODULE MC_ShmRing -----------------------------
(* Small instances of ShmRing for TLC.  Readers share nothing with each    *)
(* other, so one reader that reads again and again races the writer in     *)
(* every way; two symbols let the writer leave the one being read.         *)
EXTENDS ShmRing

CONSTANTS r1, btc, eth, xrp, hi, lo

OneReader == {r1}
TwoSymbols == {btc, eth}
NotListed == {xrp}
TwoWords == {hi, lo}
=============================================================================

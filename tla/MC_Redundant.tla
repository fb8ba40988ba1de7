----------------------------- MODULE MC_Redundant -----------------------------
(* Latencies in the first bin (one of them zero), in another, and above    *)
(* the range of the histogram.                                             *)
EXTENDS Redundant

MCLatencies == {0, 1, 3, 9}
===============================================================================

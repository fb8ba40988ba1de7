---------------------------- MODULE MC_TdSession ----------------------------
(* Instances of TdSession for TLC. *)
EXTENDS TdSession

CONSTANTS spot, ubase, cbase

SpotAndUBase == {spot, ubase}
BothEnabled == <<spot, ubase>>

=============================================================================

------------------------------- MODULE MCPing -------------------------------
(***************************************************************************)
(* Small instances of the pings.  Requests are interchangeable.  One key   *)
(* may fill several slots, and a slot may be empty.                        *)
(***************************************************************************)
EXTENDS Ping, TLC

SlotKeys == <<"k1", "unset", "k1">>

PingSymmetry == Permutations(Pings)
=============================================================================

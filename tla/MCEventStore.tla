---------------------------- MODULE MCEventStore ----------------------------
(* Instances of EventStore for TLC. *)
EXTENDS Replay, TLC

CONSTANTS btc, eth, ada

\* The ids of btc and eth hash to the same lock key.
TwoKeys == (btc :> 1) @@ (eth :> 1) @@ (ada :> 2)
=============================================================================

------------------------------ MODULE MCServer ------------------------------
(* Instances of Server for TLC. *)
EXTENDS Server

\* Each version refers to the one before, as the outbox table does to the events.
RefersToPrevious == [v \in Versions |-> IF v > 1 THEN {v - 1} ELSE {}]
=============================================================================

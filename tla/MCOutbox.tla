------------------------------ MODULE MCOutbox ------------------------------
(* Instances of OutboxPublisher for TLC. *)
EXTENDS OutboxPublisher

DistinctKeys == [c \in Coins |-> c]
=============================================================================

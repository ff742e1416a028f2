--------------------------- MODULE MCSubscription ---------------------------
(* Instance of Subscription for TLC. *)
EXTENDS Subscription

DistinctKeys == [c \in Coins |-> c]
=============================================================================

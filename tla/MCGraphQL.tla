----------------------------- MODULE MCGraphQL -----------------------------
(* Instance of GraphQLExecutor for TLC. *)
EXTENDS GraphQLExecutor, TLC

CONSTANTS c1, c2, c3, btc, eth, list, one

Asking(k1, k2, k3) == (c1 :> k1) @@ (c2 :> k2) @@ (c3 :> k3)

\* The element of marketSummary repeats a key of the list, or has another limit.
TwoQueries ==
  LET btc100 == [coin_id |-> btc, limit |-> 100]
      eth100 == [coin_id |-> eth, limit |-> 100]
      btc10 == [coin_id |-> btc, limit |-> 10]
  IN  {Asking(btc100, eth100, btc100), Asking(btc100, eth100, btc10)}

Parents == (c1 :> list) @@ (c2 :> list) @@ (c3 :> one)
=============================================================================

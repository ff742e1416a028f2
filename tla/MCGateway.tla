----------------------------- MODULE MCGateway -----------------------------
(* Instance of Gateway for TLC. *)
EXTENDS Gateway, TLC

CONSTANTS client, h1, h2, btc, eth

\* Both requests come from one address.
OneClient == [q \in Requests |-> client]

\* What they ask for overlaps.
Overlapping == h1 :> {eth} @@ h2 :> {btc, eth}
=============================================================================

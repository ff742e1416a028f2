-------------------------- MODULE MCCoinGeckoClient --------------------------
(* Instances of CoinGeckoClient for TLC. *)
EXTENDS CoinGeckoClient
=============================================================================

-------------------------------- MODULE Replay --------------------------------
(* The whole history of an aggregate, as LoadEvents returns it. *)
EXTENDS EventStore, FiniteSets

\* All rows of the aggregate, ORDER BY version.
LoadEvents(c) ==
  CHOOSE s \in [1..Cardinality(Rows(c)) -> Rows(c)] :
    /\ \A e \in Rows(c) : \E i \in DOMAIN s : s[i] = e
    /\ \A i, j \in DOMAIN s : i < j => s[i].version < s[j].version

\* Apply, from the first event to the last.
Replayed(c) ==
  LET loaded == LoadEvents(c)
      agg[i \in 0..Len(loaded)] ==
        IF i = 0 THEN NewMarketAggregate ELSE Apply(agg[i - 1], loaded[i])
  IN  agg[Len(loaded)]

\* Hydrating from the latest event alone gives the aggregate that replaying every
\* event of LoadEvents gives.
HydrationEqualsReplay == \A c \in Coins : Replayed(c) = Hydrate(c)
================================================================================

----------------------------- MODULE HistoryCache -----------------------------
(***************************************************************************)
(* The price histories of one limit on one instance: GetPriceHistories     *)
(* reads several coins with one query.  Its cache entries are those of     *)
(* GetPriceHistory, which fills them one at a time.  Nobody deletes them;  *)
(* they end with their TTL.  Queries go to the read pool, which may be a   *)
(* replica that follows the table.  The history of a coin is abstracted to *)
(* the number of changes of it that are seen, 0 if the coin has no rows.   *)
(***************************************************************************)
EXTENDS Integers, FiniteSetsExt

CONSTANTS
  Readers,            \* callers of GetPriceHistories
  Coins,
  CoinsOf,            \* coins each caller asks for
  HasRows,            \* coins with rows from the beginning
  None,               \* no entry, not in a map
  MaxRows,            \* sum of all histories (bound)
  MaxHistoryFaults    \* how many calls may fail (bound)

ASSUME HistoryAssumption ==
  /\ CoinsOf \in [Readers -> (SUBSET Coins) \ {{}}]
  /\ HasRows \subseteq Coins /\ None \notin Nat
  /\ MaxRows \in Nat \ {0} /\ MaxHistoryFaults \in Nat

ASSUME NoneAssumption == \A s \in SUBSET Coins : s # None

VARIABLES
  rows,           \* history of each coin
  replica,        \* what the read pool shows of it
  stored,         \* entries in Redis
  hpc,            \* where each caller is
  left,           \* coins its present loop has still to treat
  misses,         \* coins it has missed
  result,         \* coins in the map it builds
  fetched,        \* the map of the flight it leads
  filler,         \* observed: key of the flight that has set an entry
  historyFaults   \* failed calls so far

store == <<rows, replica, stored, filler>>
callers == <<hpc, left, misses, result, fetched>>
historyVars == <<store, callers, historyFaults>>

NoMap == [c \in Coins |-> None]
InFlight == {"checking", "filling"}
-----------------------------------------------------------------------------
\* Earlier requests may have left entries.
HistoryInit ==
  /\ rows = [c \in Coins |-> IF c \in HasRows THEN 1 ELSE 0]
  /\ replica = rows
  /\ stored \in {m \in [Coins -> {None, 1}] : \A c \in Coins \ HasRows : m[c] = None}
  /\ hpc = [u \in Readers |-> "idle"]
  /\ left = [u \in Readers |-> {}]
  /\ misses = [u \in Readers |-> {}]
  /\ result = [u \in Readers |-> {}]
  /\ fetched = [u \in Readers |-> NoMap]
  /\ filler = NoMap
  /\ historyFaults = 0

HistoryFault == historyFaults < MaxHistoryFaults /\ historyFaults' = historyFaults + 1

\* The projector adds a price point, or the pruner removes old ones and leaves some.
ChangeRows(c) ==
  /\ MapThenSumSet(LAMBDA d : rows[d], Coins) < MaxRows
  /\ rows' = [rows EXCEPT ![c] = @ + 1]
  /\ UNCHANGED <<replica, stored, filler, callers, historyFaults>>

Replicate ==
  /\ replica # rows
  /\ replica' = rows
  /\ UNCHANGED <<rows, stored, filler, callers, historyFaults>>

\* Set without a TTL.
NeverExpires(c) == FALSE /\ UNCHANGED historyVars

\* The 30 seconds of the entry are over.
Expire(c) ==
  /\ stored[c] # None
  /\ stored' = [stored EXCEPT ![c] = None]
  /\ filler' = [filler EXCEPT ![c] = None]
  /\ UNCHANGED <<rows, replica, callers, historyFaults>>

\* A caller comes with its coins.
Get(u) ==
  /\ hpc[u] = "idle"
  /\ hpc' = [hpc EXCEPT ![u] = "looking"]
  /\ left' = [left EXCEPT ![u] = CoinsOf[u]]
  /\ UNCHANGED <<store, misses, result, fetched, historyFaults>>

Hit(c) == stored[c] # None /\ UNCHANGED historyFaults

\* No entry, or Get fails.
Miss(c) == (stored[c] = None /\ UNCHANGED historyFaults) \/ HistoryFault

\* One round of the first loop.
Look(u, c) ==
  /\ hpc[u] = "looking" /\ c \in left[u]
  /\ \/ Hit(c) /\ result' = [result EXCEPT ![u] = @ \cup {c}] /\ UNCHANGED misses
     \/ Miss(c) /\ misses' = [misses EXCEPT ![u] = @ \cup {c}] /\ UNCHANGED result
  /\ left' = [left EXCEPT ![u] = @ \ {c}]
  /\ hpc' = [hpc EXCEPT ![u] =
       IF left'[u] # {} THEN "looking" ELSE IF misses'[u] = {} THEN "done" ELSE "missed"]
  /\ UNCHANGED <<store, fetched>>

\* The key does not name the coins.
LimitKey(u) == {}

\* sf:histories:limit:sortedMisses.
Key(u) == misses[u]

Flying(u) == \E v \in Readers : hpc[v] \in InFlight /\ Key(v) = Key(u)

\* sf.Do runs the function, whose second look begins.
LeadFlight(u) ==
  /\ hpc[u] = "missed" /\ ~Flying(u)
  /\ hpc' = [hpc EXCEPT ![u] = "checking"]
  /\ left' = [left EXCEPT ![u] = misses[u]]
  /\ UNCHANGED <<store, misses, result, fetched, historyFaults>>

JoinFlight(u) ==
  /\ hpc[u] = "missed" /\ Flying(u)
  /\ hpc' = [hpc EXCEPT ![u] = "waiting"]
  /\ UNCHANGED <<store, left, misses, result, fetched, historyFaults>>

\* The function does not look into the cache again.
CheckNothing(u, c) ==
  /\ hpc[u] = "checking" /\ c \in left[u]
  /\ left' = [left EXCEPT ![u] = @ \ {c}]
  /\ UNCHANGED <<store, hpc, misses, result, fetched, historyFaults>>

\* One round of the second look; what it misses is what fetched lacks.
Check(u, c) ==
  /\ hpc[u] = "checking" /\ c \in left[u]
  /\ \/ Hit(c) /\ fetched' = [fetched EXCEPT ![u][c] = stored[c]]
     \/ Miss(c) /\ UNCHANGED fetched
  /\ left' = [left EXCEPT ![u] = @ \ {c}]
  /\ UNCHANGED <<store, hpc, misses, result>>

StillMisses(u) == {c \in misses[u] : fetched[u][c] = None}

\* The query returns nothing for a coin without rows.
Returned(u) == {c \in StillMisses(u) : replica[c] > 0}

Queries(u) == hpc[u] = "checking" /\ left[u] = {} /\ StillMisses(u) # {}

QueryRows(u) ==
  /\ Queries(u)
  /\ hpc' = [hpc EXCEPT ![u] = "filling"]
  /\ left' = [left EXCEPT ![u] = Returned(u)]
  /\ fetched' = [fetched EXCEPT ![u] =
       [c \in Coins |-> IF c \in Returned(u) THEN replica[c] ELSE @[c]]]
  /\ UNCHANGED <<store, misses, result, historyFaults>>

\* Set, for one coin; a failure is only logged.
Fill(u, c) ==
  /\ hpc[u] = "filling" /\ c \in left[u]
  /\ \/ /\ stored' = [stored EXCEPT ![c] = fetched[u][c]]
        /\ filler' = [filler EXCEPT ![c] = Key(u)]
        /\ UNCHANGED historyFaults
     \/ HistoryFault /\ UNCHANGED <<stored, filler>>
  /\ left' = [left EXCEPT ![u] = @ \ {c}]
  /\ UNCHANGED <<rows, replica, hpc, misses, result, fetched>>

\* Only the leader gets the result.
LeaderOnly(u) == {u}

\* Leader and followers of a flight.
Passengers(u) == {u} \cup {v \in Readers : hpc[v] = "waiting" /\ Key(v) = Key(u)}

\* Every passenger merges the map of the flight into its own.
Land(u) ==
  /\ \/ hpc[u] = "checking" /\ left[u] = {} /\ StillMisses(u) = {}
     \/ hpc[u] = "filling" /\ left[u] = {}
  /\ hpc' = [v \in Readers |-> IF v \in Passengers(u) THEN "done" ELSE hpc[v]]
  /\ result' = [v \in Readers |->
       IF v \in Passengers(u) THEN result[v] \cup {c \in Coins : fetched[u][c] # None} ELSE result[v]]
  /\ fetched' = [fetched EXCEPT ![u] = NoMap]
  /\ UNCHANGED <<store, left, misses, historyFaults>>

\* The query fails: every passenger returns the error.
QueryFails(u) ==
  /\ Queries(u)
  /\ HistoryFault
  /\ hpc' = [v \in Readers |-> IF v \in Passengers(u) THEN "failed" ELSE hpc[v]]
  /\ fetched' = [fetched EXCEPT ![u] = NoMap]
  /\ UNCHANGED <<store, left, misses, result>>

Return(u) ==
  /\ hpc[u] \in {"done", "failed"}
  /\ hpc' = [hpc EXCEPT ![u] = "idle"]
  /\ misses' = [misses EXCEPT ![u] = {}]
  /\ result' = [result EXCEPT ![u] = {}]
  /\ UNCHANGED <<store, left, fetched, historyFaults>>

Read(u) ==
  \/ LeadFlight(u) \/ JoinFlight(u) \/ QueryRows(u) \/ Land(u)
  \/ \E c \in Coins : Look(u, c) \/ Check(u, c) \/ Fill(u, c)
-----------------------------------------------------------------------------
\* Every variable has a value of its type; a key has one leader at a time, and nobody
\* waits for a flight that has landed.
HistoryTypeOK ==
  /\ rows \in [Coins -> Nat] /\ replica \in [Coins -> Nat] /\ stored \in [Coins -> Nat \cup {None}]
  /\ hpc \in [Readers -> {"idle", "looking", "missed", "waiting", "done", "failed"} \cup InFlight]
  /\ left \in [Readers -> SUBSET Coins] /\ misses \in [Readers -> SUBSET Coins]
  /\ result \in [Readers -> SUBSET Coins]
  /\ fetched \in [Readers -> [Coins -> Nat \cup {None}]]
  /\ filler \in [Coins -> {None} \cup SUBSET Coins] /\ historyFaults \in 0..MaxHistoryFaults
  /\ \A u \in Readers : hpc[u] = "waiting" => Flying(u)
  /\ \A u, v \in Readers :
       hpc[u] \in InFlight /\ hpc[v] \in InFlight /\ Key(u) = Key(v) => u = v

\* A caller that returns without error has an entry for every coin it asked for that has
\* rows, whether it hit, led a flight or waited for one that another caller began for its
\* own misses (cached_repo.go:144).
AnswerIsComplete ==
  \A u \in Readers : hpc[u] = "done" => CoinsOf[u] \cap HasRows \subseteq result[u]

\* Batches with different sets query the same coin side by side (cached_repo.go:144), but
\* no flight queries a coin whose entry an earlier flight of the same key has set, unless a
\* call failed: the second look spares that.
QueryOncePerKey ==
  [][\A u \in Readers : QueryRows(u) =>
       historyFaults > 0 \/ \A c \in Returned(u) : filler[c] # Key(u)]_historyVars

\* A value that is out of date, set by a slow flight or read from a replica that lags, does
\* not stay in the cache: once the rows stop changing every entry shows them or is absent for
\* good (Cache.Set gives each a TTL).  Requests come once here; that requests which keep
\* coming fill in the current row at last is CacheConverges of QueryCache.
HistoriesConverge == <>[](\A c \in Coins : stored[c] \in {None, rows[c]})
================================================================================

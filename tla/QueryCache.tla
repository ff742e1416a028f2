------------------------------- MODULE QueryCache -------------------------------
(***************************************************************************)
(* The query side of one cache key: the requests of all instances that     *)
(* read it through CachedRepository, whose misses the singleflight group   *)
(* of each instance coalesces, and the projector that changes the row      *)
(* behind it and then deletes the key.  GetMarketSummary,                  *)
(* GetMarketSummaries and GetPriceHistory all have this shape.  Only the   *)
(* key of GetMarketSummary is ever deleted; the others behave like one     *)
(* whose every Delete fails.  A cache hit changes nothing and is no step.  *)
(* Requests query the read pool, which may be a replica that follows the   *)
(* table.                                                                  *)
(* Values are the successive contents of the row, which exists:            *)
(* GetMarketSummary answers for a missing row with an error, and errors    *)
(* are not cached, so every flight for it queries the table.               *)
(***************************************************************************)
EXTENDS Integers

CONSTANTS
  Readers,          \* requests, each repeated for ever
  Instances,        \* processes
  InstanceOf,       \* the process that serves each request
  None,             \* no entry, no flight
  MaxUpdates,       \* how often the row changes (bound)
  MaxCacheFaults    \* how many calls may fail (bound)

ASSUME CacheAssumption ==
  /\ InstanceOf \in [Readers -> Instances]
  /\ None \notin Readers \cup Nat
  /\ MaxUpdates \in Nat /\ MaxCacheFaults \in Nat

VARIABLES
  row,          \* content of the read table
  replica,      \* what the read pool shows of it
  projecting,   \* the row has changed and Project has not yet deleted the key
  cached,       \* the entry in Redis
  rpc,          \* where each request is
  seen,         \* what it has read from the table
  flight,       \* the leader of each instance's flight for the key
  queries,      \* queries of each instance since the entry was last removed
  cacheFaults   \* failed calls so far

cacheVars == <<row, replica, projecting, cached, rpc, seen, flight, queries, cacheFaults>>

InFlight == {"leading", "querying", "filling"}
-----------------------------------------------------------------------------
CacheInit ==
  /\ row = 0 /\ replica = 0 /\ projecting = FALSE /\ cached = None
  /\ rpc = [r \in Readers |-> "idle"]
  /\ seen = [r \in Readers |-> 0]
  /\ flight = [i \in Instances |-> None]
  /\ queries = [i \in Instances |-> 0]
  /\ cacheFaults = 0

CacheFault == cacheFaults < MaxCacheFaults /\ cacheFaults' = cacheFaults + 1

\* The entry goes and the count of queries starts again.
Remove == cached' = None /\ queries' = [i \in Instances |-> 0]

\* The projector writes the read tables.
ChangeRow ==
  /\ ~projecting /\ row < MaxUpdates
  /\ row' = row + 1 /\ projecting' = TRUE
  /\ UNCHANGED <<replica, cached, rpc, seen, flight, queries, cacheFaults>>

\* Project deletes the key.
Delete ==
  /\ projecting
  /\ projecting' = FALSE
  /\ Remove
  /\ UNCHANGED <<row, replica, rpc, seen, flight, cacheFaults>>

\* The replica applies the next change.
Replicate ==
  /\ replica < row
  /\ replica' = replica + 1
  /\ UNCHANGED <<row, projecting, cached, rpc, seen, flight, queries, cacheFaults>>

\* The failure is only logged.
DeleteFails ==
  /\ projecting
  /\ CacheFault
  /\ projecting' = FALSE
  /\ UNCHANGED <<row, replica, cached, rpc, seen, flight, queries>>

\* The entry was set without a TTL.
NeverExpires ==
  /\ cached # None /\ FALSE
  /\ UNCHANGED cacheVars

\* The TTL of the entry is over.
Expire ==
  /\ cached # None
  /\ Remove
  /\ UNCHANGED <<row, replica, projecting, rpc, seen, flight, cacheFaults>>

\* Get finds nothing, or fails, which counts as a miss.
Miss ==
  \/ cached = None /\ UNCHANGED cacheFaults
  \/ CacheFault

GetMisses(r) ==
  /\ rpc[r] = "idle"
  /\ Miss
  /\ rpc' = [rpc EXCEPT ![r] = "missed"]
  /\ UNCHANGED <<row, replica, projecting, cached, seen, flight, queries>>

\* sf.Do starts a flight for the key.
LeadFlight(r) ==
  /\ rpc[r] = "missed"
  /\ flight[InstanceOf[r]] = None
  /\ flight' = [flight EXCEPT ![InstanceOf[r]] = r]
  /\ rpc' = [rpc EXCEPT ![r] = "leading"]
  /\ UNCHANGED <<row, replica, projecting, cached, seen, queries, cacheFaults>>

\* sf.Do waits for the flight that is under way.
JoinFlight(r) ==
  /\ rpc[r] = "missed"
  /\ flight[InstanceOf[r]] # None
  /\ rpc' = [rpc EXCEPT ![r] = "waiting"]
  /\ UNCHANGED <<row, replica, projecting, cached, seen, flight, queries, cacheFaults>>

\* The flight ends: its leader and all who wait return the same value or error.
Land(r) ==
  /\ flight' = [flight EXCEPT ![InstanceOf[r]] = None]
  /\ rpc' = [q \in Readers |->
       IF q = r \/ (rpc[q] = "waiting" /\ InstanceOf[q] = InstanceOf[r]) THEN "idle" ELSE rpc[q]]
  /\ seen' = [seen EXCEPT ![r] = 0]

\* The second look into the cache finds what another flight has set.
DoubleCheckHits(r) ==
  /\ rpc[r] = "leading"
  /\ cached # None
  /\ Land(r)
  /\ UNCHANGED <<row, replica, projecting, cached, queries, cacheFaults>>

\* The flight queries the table without a second look.
QueryUnchecked(r) ==
  /\ rpc[r] = "leading"
  /\ rpc' = [rpc EXCEPT ![r] = "querying"]
  /\ queries' = [queries EXCEPT ![InstanceOf[r]] = @ + 1]
  /\ UNCHANGED <<row, replica, projecting, cached, seen, flight, cacheFaults>>

DoubleCheckMisses(r) ==
  /\ rpc[r] = "leading"
  /\ Miss
  /\ rpc' = [rpc EXCEPT ![r] = "querying"]
  /\ queries' = [queries EXCEPT ![InstanceOf[r]] = @ + 1]
  /\ UNCHANGED <<row, replica, projecting, cached, seen, flight>>

QueryRow(r) ==
  /\ rpc[r] = "querying"
  /\ rpc' = [rpc EXCEPT ![r] = "filling"]
  /\ seen' = [seen EXCEPT ![r] = replica]
  /\ UNCHANGED <<row, replica, projecting, cached, flight, queries, cacheFaults>>

Set(r) ==
  /\ rpc[r] = "filling"
  /\ cached' = seen[r]
  /\ Land(r)
  /\ UNCHANGED <<row, replica, projecting, queries, cacheFaults>>

\* The query fails, which nobody caches, or Set fails, which is only logged.
\* The leader's context governs both, for all who wait.
QueryOrSetFails(r) ==
  /\ rpc[r] \in {"querying", "filling"}
  /\ CacheFault
  /\ Land(r)
  /\ UNCHANGED <<row, replica, projecting, cached, queries>>

Serve(r) ==
  \/ LeadFlight(r) \/ JoinFlight(r) \/ DoubleCheckHits(r) \/ DoubleCheckMisses(r)
  \/ QueryRow(r) \/ Set(r)

CacheNext ==
  \/ ChangeRow \/ Replicate \/ Delete \/ DeleteFails \/ Expire
  \/ \E r \in Readers : GetMisses(r) \/ Serve(r) \/ QueryOrSetFails(r)

CacheSpec == CacheInit /\ [][CacheNext]_cacheVars

\* A request that has begun goes on, the projector finishes its event, the replica
\* follows, and every entry has a TTL.  Nothing makes a request come or the row change.
FairCacheSpec ==
  /\ CacheSpec
  /\ WF_cacheVars(Delete) /\ WF_cacheVars(Replicate) /\ WF_cacheVars(Expire)
  /\ \A r \in Readers : WF_cacheVars(Serve(r))
-----------------------------------------------------------------------------
\* Every variable has a value of its type; the leader of a flight is the one
\* request of its instance inside the function, and nobody waits for a flight
\* that has ended.
CacheTypeOK ==
  /\ row \in 0..MaxUpdates /\ replica \in 0..row /\ projecting \in BOOLEAN /\ cached \in 0..MaxUpdates \cup {None}
  /\ rpc \in [Readers -> {"idle", "missed", "waiting"} \cup InFlight]
  /\ seen \in [Readers -> 0..MaxUpdates]
  /\ flight \in [Instances -> Readers \cup {None}]
  /\ queries \in [Instances -> Nat] /\ cacheFaults \in 0..MaxCacheFaults
  /\ \A r \in Readers :
       /\ rpc[r] \in InFlight <=> flight[InstanceOf[r]] = r
       /\ rpc[r] = "waiting" => flight[InstanceOf[r]] # None

\* README.md:66: a surge of misses costs "exactly 1 query".  Between two
\* removals of the entry an instance queries the table once, and once more for
\* each failed call, however its requests interleave with the flights.
OneQueryPerSurge == \A i \in Instances : queries[i] <= 1 + cacheFaults

\* Neither a lost invalidation nor a fill with a value read before it, or after it from
\* a replica that lags (main.go:64), lasts, however often the requests come:
\* once the row stops changing, the entry is the row's content or absent for good.
CacheConverges == <>[](cached \in {None, row})

================================================================================

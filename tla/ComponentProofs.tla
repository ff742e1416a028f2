--------------------------- MODULE ComponentProofs ---------------------------
(***************************************************************************)
(* Proofs about the four components that stand alone.                      *)
(*                                                                         *)
(* The CoinGecko client: its fetch loop with the circuit breaker, for any  *)
(* threshold, number of attempts and answers.                              *)
(*                                                                         *)
(* The cached repository: for any requests, instances, changes of the row  *)
(* and failures.  OneQueryPerSurge is not inductive: a flight that is      *)
(* about to query must know that the query before it has left an entry or  *)
(* has been paid for by a failure, which is what QueryIsUsed says.         *)
(*                                                                         *)
(* The dataloader, for any calls, keys and limits, and the execution of a  *)
(* GraphQL query with any fields and elements.                             *)
(***************************************************************************)
EXTENDS CoinGeckoClient, QueryCache, GraphQLExecutor, TLAPS

\* A backoff follows an attempt that was not the last.
AttemptLeft == cpc = "wait" => attempt < Attempts

ClientInv == ClientTypeOK /\ CounterIsStreak /\ AttemptLeft
-----------------------------------------------------------------------------
\* Recording an answer keeps the breaker's part of the invariant.
LEMMA RecordKeepsInv ==
  ASSUME ClientInv, Succeed \/ FailRequest
  PROVE  ClientInv'
<1> USE ClientAssumption DEF ClientInv
<1>1. ASSUME Succeed PROVE ClientInv'
  <2>1. /\ cooled' = FALSE /\ halfOpenInFlight' = FALSE
        /\ cpc' = "idle" /\ attempt' = 0 /\ streak' = 0 /\ unreported' = unreported
    BY <1>1, Zenon DEF Succeed, RecordSuccess
  <2>2. failures' \in 0..Threshold /\ successes' \in 0..1 /\ state' \in {"Closed", "HalfOpen"}
    BY <1>1 DEF Succeed, RecordSuccess, ClientTypeOK
  <2>3. state' = "Closed" => failures' = 0
    BY <1>1, Zenon DEF Succeed, RecordSuccess
  <2>4. 0 \in 0..Attempts /\ 0 \in 0..Threshold /\ 0 < Threshold
    OBVIOUS
  <2>5. ClientTypeOK'
    BY <2>1, <2>2, <2>4, Zenon DEF ClientTypeOK
  <2>6. QED
    BY <2>1, <2>3, <2>4, <2>5, Zenon DEF CounterIsStreak, AttemptLeft
<1>2. ASSUME FailRequest PROVE ClientInv'
  <2>1. /\ cooled' = FALSE /\ halfOpenInFlight' = FALSE /\ successes' = successes
        /\ cpc' = AfterFailure /\ attempt' = (IF cpc' = "idle" THEN 0 ELSE attempt)
        /\ unreported' = unreported
    BY <1>2, Zenon DEF FailRequest, RecordFailure
  <2>2. /\ failures' \in 0..Threshold /\ streak' \in 0..Threshold
        /\ state' \in {"Closed", "Open"} /\ CounterIsStreak'
    BY <1>2 DEF FailRequest, RecordFailure, ClientTypeOK, CounterIsStreak
  <2>3. cpc' \in {"idle", "wait"} /\ attempt' \in 0..Attempts /\ AttemptLeft'
    BY <2>1 DEF AfterFailure, ClientTypeOK, AttemptLeft
  <2>4. QED
    BY <2>1, <2>2, <2>3, Zenon DEF ClientTypeOK
<1>3. QED
  BY <1>1, <1>2, Zenon

\* Every step of the goroutine and of the clock preserves the invariant.
LEMMA ClientNextInv == ClientInv /\ [ClientNext]_clientVars => ClientInv'
<1> SUFFICES ASSUME ClientInv, [ClientNext]_clientVars PROVE ClientInv'
  BY Zenon
<1> USE ClientAssumption DEF ClientInv, breaker
<1>1. ASSUME FetchMarketData \/ Refuse \/ Retry \/ Cancel PROVE ClientInv'
  BY <1>1
  DEF FetchMarketData, Refuse, Retry, Cancel, ClientTypeOK, CounterIsStreak, AttemptLeft
<1>2. ASSUME ClientError PROVE ClientInv'
  <2>1. unreported' \in BOOLEAN
    BY <1>2, Zenon DEF ClientError
  <2>2. cpc' = "idle" /\ attempt' = 0 /\ UNCHANGED <<breaker, streak>>
    BY <1>2, Zenon DEF ClientError
  <2>3. QED
    BY <2>1, <2>2 DEF ClientTypeOK, CounterIsStreak, AttemptLeft
<1>3. ASSUME Allow PROVE ClientInv'
  BY <1>3, Zenon DEF Allow, Admit, ClientTypeOK, CounterIsStreak, AttemptLeft
<1>4. ASSUME Cooldown PROVE ClientInv'
  BY <1>4, Zenon DEF Cooldown, ClientTypeOK, CounterIsStreak, AttemptLeft
<1>5. CASE UNCHANGED clientVars
  BY <1>5, Zenon DEF clientVars, ClientTypeOK, CounterIsStreak, AttemptLeft
<1>6. QED
  BY <1>1, <1>2, <1>3, <1>4, <1>5, RecordKeepsInv, Zenon DEF ClientNext, Call
-----------------------------------------------------------------------------
\* The inductive invariant of the fetch loop.
THEOREM ClientInvariant == ClientSpec => []ClientInv
<1>1. ClientInit => ClientInv
  <2>1. 0 \in 0..Attempts /\ 0 \in 0..Threshold /\ 0 < Threshold /\ 0 \in 0..1
    BY ClientAssumption
  <2>2. QED
    BY <2>1, Zenon DEF ClientInit, ClientInv, ClientTypeOK, CounterIsStreak, AttemptLeft
<1>2. QED
  BY <1>1, ClientNextInv, PTL DEF ClientSpec

\* For every threshold the closed breaker counts exactly the failures since the
\* last success, so it opens at the threshold-th one and at no other.
THEOREM BreakerCountsFailures == ClientSpec => []CounterIsStreak
<1>1. ClientInv => CounterIsStreak
  BY Zenon DEF ClientInv
<1>2. QED
  BY <1>1, ClientInvariant, PTL

\* Type correctness of the client and its breaker: attempts and counters stay within their
\* bounds whatever the API answers (executeWithRetry, RecordFailure, RecordSuccess).
THEOREM ClientTypeCorrect == ClientSpec => []ClientTypeOK
<1>1. ClientInv => ClientTypeOK
  BY Zenon DEF ClientInv
<1>2. QED
  BY <1>1, ClientInvariant, PTL
-----------------------------------------------------------------------------
\* The function of instance i's flight is between its query and its end.
Querying(i) == \E r \in Readers : InstanceOf[r] = i /\ rpc[r] \in {"querying", "filling"}

\* A query beyond the failures so far is still under way or has left an entry.
QueryIsUsed ==
  \A i \in Instances : queries[i] > cacheFaults => cached # None \/ Querying(i)

CacheInv == CacheTypeOK /\ OneQueryPerSurge /\ QueryIsUsed
-----------------------------------------------------------------------------
\* A step of the projector, the TTL or the replica keeps the invariant.
LEMMA RemoveKeepsInv ==
  ASSUME CacheInv, ChangeRow \/ Delete \/ DeleteFails \/ Expire \/ Replicate
  PROVE  CacheInv'
<1> USE CacheAssumption DEF CacheInv
<1>1. UNCHANGED <<rpc, seen, flight>>
  BY Zenon DEF ChangeRow, Delete, DeleteFails, Expire, Replicate
<1>2. row' \in 0..MaxUpdates /\ replica' \in 0..row' /\ cacheFaults' \in 0..MaxCacheFaults
  BY DEF ChangeRow, Delete, DeleteFails, Expire, Replicate, CacheFault, CacheTypeOK
<1>3. projecting' \in BOOLEAN
  BY Zenon DEF ChangeRow, Delete, DeleteFails, Expire, Replicate, CacheTypeOK
<1>4. \/ cached' = cached /\ queries' = queries
      \/ cached' = None /\ queries' = [i \in Instances |-> 0]
  BY Zenon DEF ChangeRow, Delete, DeleteFails, Expire, Replicate, Remove
<1>5. cacheFaults' >= cacheFaults /\ cacheFaults \in Nat /\ cacheFaults' \in Nat
  BY DEF ChangeRow, Delete, DeleteFails, Expire, Replicate, CacheFault, CacheTypeOK
<1>6. CacheTypeOK'
  BY <1>1, <1>2, <1>3, <1>4 DEF CacheTypeOK
<1>7. OneQueryPerSurge' /\ QueryIsUsed'
  BY <1>1, <1>4, <1>5 DEF OneQueryPerSurge, QueryIsUsed, Querying, CacheTypeOK
<1>8. QED
  BY <1>6, <1>7, Zenon

\* A step of a request before its query keeps the invariant.
LEMMA EnterKeepsInv ==
  ASSUME CacheInv, NEW r \in Readers, GetMisses(r) \/ LeadFlight(r) \/ JoinFlight(r)
  PROVE  CacheInv'
<1> USE CacheAssumption DEF CacheInv
<1>1. UNCHANGED <<row, replica, projecting, cached, seen, queries>>
  BY Zenon DEF GetMisses, LeadFlight, JoinFlight
<1>2. cacheFaults' \in 0..MaxCacheFaults /\ cacheFaults' >= cacheFaults /\ cacheFaults \in Nat
  BY DEF GetMisses, LeadFlight, JoinFlight, Miss, CacheFault, CacheTypeOK
<1>3. CacheTypeOK'
  <2>1. rpc' \in [Readers -> {"idle", "missed", "waiting"} \cup InFlight]
    BY Zenon DEF GetMisses, LeadFlight, JoinFlight, CacheTypeOK, InFlight
  <2>2. flight' \in [Instances -> Readers \cup {None}]
    BY Zenon DEF GetMisses, LeadFlight, JoinFlight, CacheTypeOK
  <2>3. \A q \in Readers : /\ rpc'[q] \in InFlight <=> flight'[InstanceOf[q]] = q
                           /\ rpc'[q] = "waiting" => flight'[InstanceOf[q]] # None
    BY DEF GetMisses, LeadFlight, JoinFlight, CacheTypeOK, InFlight
  <2>4. QED
    BY <1>1, <1>2, <2>1, <2>2, <2>3, Zenon DEF CacheTypeOK
<1>4. \A i \in Instances : Querying(i) => Querying(i)'
  BY Zenon DEF GetMisses, LeadFlight, JoinFlight, Querying, CacheTypeOK
<1>5. OneQueryPerSurge' /\ QueryIsUsed'
  BY <1>1, <1>2, <1>4 DEF OneQueryPerSurge, QueryIsUsed, CacheTypeOK
<1>6. QED
  BY <1>3, <1>5, Zenon

\* The leader's query keeps the invariant: its second look found no entry, so
\* every query before it has been paid for.
LEMMA QueryKeepsInv ==
  ASSUME CacheInv, NEW r \in Readers, DoubleCheckMisses(r) \/ QueryRow(r)
  PROVE  CacheInv'
<1> USE CacheAssumption DEF CacheInv
<1> DEFINE i == InstanceOf[r]
<1>1. /\ UNCHANGED <<row, replica, projecting, cached, flight>>
      /\ rpc[r] \in {"leading", "querying"} /\ flight[i] = r
      /\ rpc' \in {[rpc EXCEPT ![r] = "querying"], [rpc EXCEPT ![r] = "filling"]}
  BY Zenon DEF DoubleCheckMisses, QueryRow, CacheTypeOK, InFlight
<1>2. cacheFaults' \in 0..MaxCacheFaults /\ cacheFaults' >= cacheFaults /\ cacheFaults \in Nat
  BY DEF DoubleCheckMisses, QueryRow, Miss, CacheFault, CacheTypeOK
<1>3. seen' \in [Readers -> 0..MaxUpdates] /\ queries' \in [Instances -> Nat]
  BY DEF DoubleCheckMisses, QueryRow, CacheTypeOK
<1>4. CacheTypeOK'
  <2>1. rpc' \in [Readers -> {"idle", "missed", "waiting"} \cup InFlight]
    BY <1>1, Zenon DEF CacheTypeOK, InFlight
  <2>2. \A q \in Readers : /\ rpc'[q] \in InFlight <=> flight'[InstanceOf[q]] = q
                           /\ rpc'[q] = "waiting" => flight'[InstanceOf[q]] # None
    BY <1>1 DEF CacheTypeOK, InFlight
  <2>3. QED
    BY <1>1, <1>2, <1>3, <2>1, <2>2, Zenon DEF CacheTypeOK
<1>5. Querying(i)' /\ \A j \in Instances : Querying(j) => Querying(j)'
  BY <1>1, Zenon DEF Querying, CacheTypeOK
<1>6. \A j \in Instances \ {i} : queries'[j] = queries[j]
  BY Zenon DEF DoubleCheckMisses, QueryRow, CacheTypeOK
<1>7. queries'[i] <= 1 + cacheFaults'
  <2>1. ASSUME DoubleCheckMisses(r), cached = None, cacheFaults' = cacheFaults
        PROVE  queries'[i] <= 1 + cacheFaults'
    <3>1. ~Querying(i)
      <4>1. \A q \in Readers : InstanceOf[q] = i /\ rpc[q] \in InFlight => q = r
        BY <1>1, Zenon DEF CacheTypeOK
      <4>2. rpc[r] = "leading"
        BY <2>1, Zenon DEF DoubleCheckMisses
      <4>3. QED
        BY <4>1, <4>2, Zenon DEF Querying, InFlight
    <3>2. queries[i] <= cacheFaults
      BY <2>1, <3>1 DEF QueryIsUsed, CacheTypeOK
    <3>3. QED
      BY <1>2, <2>1, <3>2 DEF DoubleCheckMisses, CacheTypeOK
  <2>2. ASSUME DoubleCheckMisses(r), CacheFault PROVE queries'[i] <= 1 + cacheFaults'
    BY <2>2 DEF DoubleCheckMisses, CacheFault, OneQueryPerSurge, CacheTypeOK
  <2>3. ASSUME QueryRow(r) PROVE queries'[i] <= 1 + cacheFaults'
    BY <2>3, Zenon DEF QueryRow, OneQueryPerSurge
  <2>4. QED
    BY <2>1, <2>2, <2>3, Zenon DEF DoubleCheckMisses, Miss
<1>8. OneQueryPerSurge' /\ QueryIsUsed'
  BY <1>1, <1>2, <1>5, <1>6, <1>7 DEF OneQueryPerSurge, QueryIsUsed, CacheTypeOK
<1>9. QED
  BY <1>4, <1>8, Zenon

\* The end of a flight keeps the invariant: it leaves an entry, or a failure.
LEMMA LandKeepsInv ==
  ASSUME CacheInv, NEW r \in Readers, DoubleCheckHits(r) \/ Set(r) \/ QueryOrSetFails(r)
  PROVE  CacheInv'
<1> USE CacheAssumption DEF CacheInv
<1> DEFINE i == InstanceOf[r]
<1>1. /\ UNCHANGED <<row, replica, projecting, queries>> /\ Land(r) /\ rpc[r] \in InFlight
      /\ cached' \in {cached, seen[r]}
  BY Zenon DEF DoubleCheckHits, Set, QueryOrSetFails, InFlight
<1>2. /\ cacheFaults' \in 0..MaxCacheFaults /\ cacheFaults \in Nat
      /\ cacheFaults' >= cacheFaults
  BY DEF DoubleCheckHits, Set, QueryOrSetFails, CacheFault, CacheTypeOK
<1>3. flight[i] = r /\ i \in Instances
  BY <1>1, Zenon DEF CacheTypeOK
<1>4. /\ flight' = [flight EXCEPT ![i] = None] /\ rpc'[r] = "idle"
      /\ \A q \in Readers : rpc'[q] = rpc[q] \/ rpc'[q] = "idle"
      /\ \A q \in Readers : InstanceOf[q] # i => rpc'[q] = rpc[q]
      /\ \A q \in Readers : InstanceOf[q] = i => rpc'[q] # "waiting"
  BY <1>1, Zenon DEF Land, CacheTypeOK
<1>5. CacheTypeOK'
  <2>1. /\ rpc' \in [Readers -> {"idle", "missed", "waiting"} \cup InFlight]
        /\ seen' \in [Readers -> 0..MaxUpdates]
    BY <1>1 DEF Land, CacheTypeOK
  <2>2. cached' \in 0..MaxUpdates \cup {None} /\ flight' \in [Instances -> Readers \cup {None}]
    BY <1>1, <1>4 DEF CacheTypeOK
  <2>3. \A q \in Readers : rpc'[q] \in InFlight <=> flight'[InstanceOf[q]] = q
    <3>1. ASSUME NEW q \in Readers, InstanceOf[q] = i PROVE rpc'[q] \notin InFlight /\ flight'[i] # q
      BY <1>3, <1>4, <3>1 DEF CacheTypeOK, InFlight
    <3>2. QED
      BY <1>4, <3>1, Zenon DEF CacheTypeOK
  <2>4. \A q \in Readers : rpc'[q] = "waiting" => flight'[InstanceOf[q]] # None
    BY <1>4, Zenon DEF CacheTypeOK
  <2>5. QED
    BY <1>1, <1>2, <2>1, <2>2, <2>3, <2>4, Zenon DEF CacheTypeOK
<1>6. OneQueryPerSurge'
  BY <1>1, <1>2 DEF OneQueryPerSurge, CacheTypeOK
<1>7. QueryIsUsed'
  <2>1. ASSUME DoubleCheckHits(r) \/ Set(r) PROVE cached' # None
    BY <2>1 DEF DoubleCheckHits, Set, CacheTypeOK
  <2>2. ASSUME QueryOrSetFails(r) PROVE \A j \in Instances : ~(queries'[j] > cacheFaults')
    BY <1>1, <2>2 DEF QueryOrSetFails, CacheFault, OneQueryPerSurge, CacheTypeOK
  <2>3. QED
    BY <2>1, <2>2, Zenon DEF QueryIsUsed
<1>8. QED
  BY <1>5, <1>6, <1>7, Zenon

\* Every step of the projector, the clock and the requests preserves the invariant.
LEMMA CacheNextInv == CacheInv /\ [CacheNext]_cacheVars => CacheInv'
<1> SUFFICES ASSUME CacheInv, [CacheNext]_cacheVars PROVE CacheInv'
  BY Zenon
<1>1. CASE UNCHANGED cacheVars
  BY <1>1, Zenon DEF cacheVars, CacheInv, CacheTypeOK, OneQueryPerSurge, QueryIsUsed, Querying
<1>2. CASE CacheNext
  BY <1>2, RemoveKeepsInv, EnterKeepsInv, QueryKeepsInv, LandKeepsInv, Zenon DEF CacheNext, Serve
<1>3. QED
  BY <1>1, <1>2, Zenon
-----------------------------------------------------------------------------
\* The inductive invariant of the query side.
THEOREM CacheInvariant == CacheSpec => []CacheInv
<1>1. CacheInit => CacheInv
  <2> SUFFICES ASSUME CacheInit PROVE CacheInv
    BY Zenon
  <2>1. projecting \in BOOLEAN
    BY Zenon DEF CacheInit
  <2>2. \A r \in Readers : rpc[r] = "idle" /\ flight[InstanceOf[r]] = None /\ r # None
    BY CacheAssumption, Zenon DEF CacheInit
  <2>3. CacheTypeOK
    BY CacheAssumption, <2>1, <2>2 DEF CacheInit, CacheTypeOK, InFlight
  <2>4. OneQueryPerSurge /\ QueryIsUsed
    BY DEF CacheInit, OneQueryPerSurge, QueryIsUsed
  <2>5. QED
    BY <2>3, <2>4, Zenon DEF CacheInv
<1>2. QED
  BY <1>1, CacheNextInv, PTL DEF CacheSpec

\* However many requests miss at once, an instance queries the table once
\* between two removals of the entry, and once more for each failed call.
THEOREM SurgeCostsOneQuery == CacheSpec => []OneQueryPerSurge
<1>1. CacheInv => OneQueryPerSurge
  BY Zenon DEF CacheInv
<1>2. QED
  BY <1>1, CacheInvariant, PTL

\* Type correctness of the query side, and one flight at a time per instance (sf.Do).
THEOREM CacheTypeCorrect == CacheSpec => []CacheTypeOK
<1>1. CacheInv => CacheTypeOK
  BY Zenon DEF CacheInv
<1>2. QED
  BY <1>1, CacheInvariant, PTL
-----------------------------------------------------------------------------
\* dl.keys are the keys of the registered calls, and a dispatch sleeps exactly
\* while there are any.
KeysAreWanted ==
  /\ keys = {want[c] : c \in listeners}
  /\ keys = {} => \A d \in Calls : dpc[d] # "sleeping"

\* A channel is registered by a call that has left "ready", in one place only,
\* and is empty until it is sent to.
RegisteredOnce ==
  /\ \A c \in listeners : lpc[c] # "ready" /\ ch[c] = "empty"
  /\ \A d \in Calls : \A c \in lis[d] : lpc[c] # "ready" /\ c \notin listeners
  /\ \A d, e \in Calls : d # e => lis[d] \cap lis[e] = {}
  /\ \A c \in Calls : lpc[c] = "ready" => dpc[c] = "none" /\ ch[c] = "empty"

\* What a dispatch distributes without an error has been answered by a query.
DistributesGood ==
  \A d \in Calls : ~failed[d] => group[d] \subseteq good /\ \A c \in Sending(d) : want[c] \in good

LoaderInv ==
  /\ LoaderTypeOK /\ KeysAreWanted /\ RegisteredOnce /\ DistributesGood
  /\ NoCallStranded /\ SendNeverBlocks /\ PointsComeFromQueries
-----------------------------------------------------------------------------
LEMMA LoaderInitInv == LoaderInit => LoaderInv
<1> SUFFICES ASSUME LoaderInit PROVE LoaderInv
  BY Zenon
<1> USE LoaderAssumption DEF LoaderInit
<1>1. LoaderTypeOK
  BY Zenon DEF LoaderTypeOK
<1>2. KeysAreWanted /\ RegisteredOnce /\ DistributesGood
  BY Zenon DEF KeysAreWanted, RegisteredOnce, DistributesGood, Sending
<1>3. NoCallStranded /\ SendNeverBlocks /\ PointsComeFromQueries
  BY Zenon DEF NoCallStranded, SendNeverBlocks, PointsComeFromQueries
<1>4. QED
  BY <1>1, <1>2, <1>3, Zenon DEF LoaderInv

\* A call that returns, from the cache, its channel or its context, disturbs
\* neither the loader nor a dispatch.
LEMMA ReturnKeepsInv ==
  ASSUME LoaderInv, NEW c \in Calls, LoadCached(c) \/ Select(c)
  PROVE  LoaderInv'
<1> USE DEF LoaderInv
<1>1. /\ UNCHANGED <<cache, keys, listeners, want, done, dpc, todo, group, lis, failed, good>>
      /\ lpc' = [lpc EXCEPT ![c] = "returned"]
      /\ ch' \in {ch, [ch EXCEPT ![c] = "empty"]}
  BY Zenon DEF LoadCached, Select, Receive, ContextDone, Return, loader, dispatchVars
<1>2. \E r \in {"points", "error", "cancelled"} :
        answer' = [answer EXCEPT ![c] = r] /\ (r = "points" => want[c] \in good)
  BY Zenon DEF LoadCached, Select, Receive, ContextDone, Return, LoaderTypeOK, PointsComeFromQueries
<1>3. LoaderTypeOK'
  BY <1>1, <1>2 DEF LoaderTypeOK
<1>4. KeysAreWanted' /\ DistributesGood'
  BY <1>1, Zenon DEF KeysAreWanted, DistributesGood, Sending
<1>5. RegisteredOnce' /\ SendNeverBlocks'
  BY <1>1 DEF RegisteredOnce, SendNeverBlocks, LoaderTypeOK
<1>6. NoCallStranded'
  BY <1>1 DEF NoCallStranded, LoaderTypeOK
<1>7. PointsComeFromQueries'
  BY <1>1, <1>2 DEF PointsComeFromQueries, LoaderTypeOK
<1>8. QED
  BY <1>3, <1>4, <1>5, <1>6, <1>7, Zenon

\* A call registers; if it is the first it starts the only sleeping dispatch.
LEMMA ListenKeepsInv ==
  ASSUME LoaderInv, NEW c \in Calls, LoadListens(c)
  PROVE  LoaderInv'
<1> USE DEF LoaderInv
<1>1. /\ UNCHANGED <<cache, want, answer, done, ch, todo, group, lis, failed, good>>
      /\ lpc[c] = "ready" /\ lpc' = [lpc EXCEPT ![c] = "waiting"]
      /\ listeners' = listeners \cup {c} /\ keys' = keys \cup {want[c]}
      /\ dpc' = [dpc EXCEPT ![c] = IF keys = {} THEN "sleeping" ELSE @]
  BY Zenon DEF LoadListens
<1>2. dpc[c] = "none" /\ ch[c] = "empty"
  BY <1>1, Zenon DEF RegisteredOnce
<1>3. LoaderTypeOK'
  BY <1>1, <1>2 DEF LoaderTypeOK
<1>4. KeysAreWanted'
  BY <1>1, Zenon DEF KeysAreWanted
<1>5. RegisteredOnce'
  BY <1>1, <1>2 DEF RegisteredOnce, LoaderTypeOK
<1>6. DistributesGood' /\ SendNeverBlocks' /\ PointsComeFromQueries'
  BY <1>1, Zenon DEF DistributesGood, Sending, SendNeverBlocks, PointsComeFromQueries
<1>7. NoCallStranded'
  <2>1. \A d \in Calls : d # c => dpc'[d] = dpc[d]
    BY <1>1, Zenon DEF LoaderTypeOK
  <2>2. CASE keys = {}
    BY <1>1, <1>2, <2>1, <2>2, SMTT(40) DEF NoCallStranded, KeysAreWanted, LoaderTypeOK
  <2>3. CASE keys # {}
    <3>1. listeners # {} /\ dpc' = dpc
      BY <1>1, <2>3, Zenon DEF KeysAreWanted, LoaderTypeOK
    <3>2. QED
      BY <1>1, <3>1 DEF NoCallStranded, LoaderTypeOK
  <2>4. QED
    BY <2>2, <2>3, Zenon
<1>8. QED
  BY <1>3, <1>4, <1>5, <1>6, <1>7, Zenon

\* The sleeping dispatch takes all keys and listeners; no other dispatch has them.
LEMMA TakeKeepsInv ==
  ASSUME LoaderInv, NEW d \in Calls, TakeKeys(d)
  PROVE  LoaderInv'
<1> USE DEF LoaderInv
<1>1. /\ UNCHANGED <<cache, want, lpc, answer, done, ch, group, failed, good>>
      /\ dpc[d] = "sleeping" /\ dpc' = [dpc EXCEPT ![d] = "running"]
      /\ todo' = [todo EXCEPT ![d] = keys] /\ lis' = [lis EXCEPT ![d] = listeners]
      /\ keys' = {} /\ listeners' = {}
  BY Zenon DEF TakeKeys, callVars
<1>2. LoaderTypeOK'
  BY <1>1, Zenon DEF LoaderTypeOK
<1>3. \A e \in Calls : e # d => dpc[e] # "sleeping"
  BY <1>1, Zenon DEF NoCallStranded
<1>4. KeysAreWanted'
  BY <1>1, <1>3, Zenon DEF KeysAreWanted, LoaderTypeOK
<1>5. RegisteredOnce' /\ SendNeverBlocks'
  BY <1>1 DEF RegisteredOnce, SendNeverBlocks, LoaderTypeOK
<1>6. DistributesGood'
  <2>1. Sending(d)' = {}
    BY <1>1, Zenon DEF Sending, KeysAreWanted, LoaderTypeOK
  <2>2. \A e \in Calls : e # d => Sending(e)' = Sending(e)
    BY <1>1, Zenon DEF Sending, LoaderTypeOK
  <2>3. QED
    BY <1>1, <2>1, <2>2, Zenon DEF DistributesGood
<1>7. NoCallStranded'
  BY <1>1, <1>3 DEF NoCallStranded, LoaderTypeOK
<1>8. PointsComeFromQueries'
  BY <1>1, Zenon DEF PointsComeFromQueries
<1>9. QED
  BY <1>2, <1>4, <1>5, <1>6, <1>7, <1>8, Zenon

\* A query moves one limit's keys on; nobody is being sent to meanwhile.
LEMMA BatchQueryKeepsInv ==
  ASSUME LoaderInv, NEW d \in Calls, NEW l \in Limits, QueryGroup(d, l)
  PROVE  LoaderInv'
<1> USE DEF LoaderInv
<1> DEFINE g == Group(d, l)
<1>1. /\ UNCHANGED <<cache, keys, listeners, want, lpc, answer, done, ch, dpc, lis>>
      /\ dpc[d] = "running" /\ group[d] = {} /\ Sending(d) = {}
      /\ todo' = [todo EXCEPT ![d] = @ \ g] /\ group' = [group EXCEPT ![d] = g]
      /\ \/ failed' = [failed EXCEPT ![d] = FALSE] /\ good' = good \cup g
         \/ failed' = [failed EXCEPT ![d] = TRUE] /\ good' = good
  BY Zenon DEF QueryGroup, loader, callVars
<1>2. g \subseteq todo[d]
  BY Zenon DEF Group
<1> HIDE DEF g
<1>3. LoaderTypeOK'
  BY <1>1, <1>2, ZenonT(40) DEF LoaderTypeOK
<1>4. KeysAreWanted' /\ RegisteredOnce' /\ SendNeverBlocks' /\ NoCallStranded'
  BY <1>1, SMTT(40) DEF KeysAreWanted, RegisteredOnce, SendNeverBlocks, NoCallStranded
<1>5. PointsComeFromQueries'
  BY <1>1, Zenon DEF PointsComeFromQueries
<1>6. DistributesGood'
  <2>1. Sending(d)' = {}
    BY <1>1, <1>2, Zenon DEF Sending, LoaderTypeOK
  <2>2. ~failed'[d] => group'[d] \subseteq good'
    BY <1>1, Zenon DEF LoaderTypeOK
  <2>3. \A e \in Calls : e # d => /\ Sending(e)' = Sending(e) /\ group'[e] = group[e]
                                  /\ failed'[e] = failed[e]
    BY <1>1 DEF Sending, LoaderTypeOK
  <2>4. good \subseteq good' /\ want' = want
    BY <1>1, Zenon
  <2>5. QED
    BY <2>1, <2>2, <2>3, <2>4, Zenon DEF DistributesGood
<1>7. QED
  BY <1>3, <1>4, <1>5, <1>6, Zenon

\* A key leaves the group for the cache and its listeners.
LEMMA CacheKeepsInv ==
  ASSUME LoaderInv, NEW d \in Calls, NEW k \in DataloaderKey, CachePoints(d, k)
  PROVE  LoaderInv'
<1> USE DEF LoaderInv
<1>1. /\ UNCHANGED <<keys, listeners, want, lpc, answer, done, ch, dpc, todo, lis, failed, good>>
      /\ dpc[d] = "running" /\ k \in group[d] /\ Sending(d) = {}
      /\ group' = [group EXCEPT ![d] = @ \ {k}]
      /\ cache' = IF failed[d] THEN cache ELSE cache \cup {k}
  BY Zenon DEF CachePoints, callVars
<1>2. ~failed[d] => k \in good
  BY <1>1, Zenon DEF DistributesGood
<1>3. LoaderTypeOK'
  BY <1>1, Zenon DEF LoaderTypeOK
<1>4. KeysAreWanted' /\ RegisteredOnce' /\ SendNeverBlocks' /\ NoCallStranded'
  BY <1>1, SMTT(40) DEF KeysAreWanted, RegisteredOnce, SendNeverBlocks, NoCallStranded
<1>5. PointsComeFromQueries'
  BY <1>1, <1>2, Zenon DEF PointsComeFromQueries
<1>6. DistributesGood'
  <2>1. \A c \in Sending(d)' : want[c] = k
    BY <1>1, Zenon DEF Sending, LoaderTypeOK
  <2>2. \A e \in Calls : e # d => Sending(e)' = Sending(e) /\ group'[e] = group[e]
    BY <1>1, Zenon DEF Sending, LoaderTypeOK
  <2>3. group'[d] \subseteq group[d]
    BY <1>1, Zenon DEF LoaderTypeOK
  <2>4. QED
    BY <1>1, <1>2, <2>1, <2>2, <2>3, Zenon DEF DistributesGood
<1>7. QED
  BY <1>3, <1>4, <1>5, <1>6, Zenon

\* A listener gets its result and is forgotten.
LEMMA SendKeepsInv ==
  ASSUME LoaderInv, NEW d \in Calls, NEW c \in Calls, Send(d, c)
  PROVE  LoaderInv'
<1> USE DEF LoaderInv
<1>1. /\ UNCHANGED <<cache, keys, listeners, want, lpc, answer, done, dpc, todo, group, failed, good>>
      /\ dpc[d] = "running" /\ c \in lis[d] /\ c \in Sending(d)
      /\ ch' = [ch EXCEPT ![c] = IF failed[d] THEN "error" ELSE "points"]
      /\ lis' = [lis EXCEPT ![d] = @ \ {c}]
  BY Zenon DEF Send, Sending, loader, callVars
<1>2. c \notin listeners /\ lpc[c] # "ready" /\ \A e \in Calls : c \notin lis'[e]
  BY <1>1, Zenon DEF RegisteredOnce, LoaderTypeOK
<1>3. LoaderTypeOK'
  BY <1>1, Zenon DEF LoaderTypeOK
<1>4. KeysAreWanted'
  BY <1>1, Zenon DEF KeysAreWanted
<1>5. \A e \in Calls : lis'[e] \subseteq lis[e] /\ Sending(e)' \subseteq Sending(e)
  BY <1>1, Zenon DEF Sending, LoaderTypeOK
<1>6. \A a \in Calls : a # c => ch'[a] = ch[a]
  BY <1>1, Zenon DEF LoaderTypeOK
<1>7. RegisteredOnce'
  BY <1>1, <1>2, <1>5, <1>6 DEF RegisteredOnce, LoaderTypeOK
<1>8. SendNeverBlocks'
  BY <1>2, <1>5, <1>6, Zenon DEF SendNeverBlocks
<1>9. DistributesGood'
  BY <1>1, <1>5, Zenon DEF DistributesGood
<1>10. NoCallStranded'
  <2>1. ch'[c] # "empty"
    BY <1>1, Zenon DEF LoaderTypeOK
  <2>2. \A a, e \in Calls : a # c /\ a \in lis[e] => a \in lis'[e]
    BY <1>1, Zenon DEF LoaderTypeOK
  <2>3. QED
    BY <1>1, <1>6, <2>1, <2>2, Zenon DEF NoCallStranded
<1>11. PointsComeFromQueries'
  <2>1. ch'[c] = "points" => want[c] \in good
    BY <1>1 DEF DistributesGood, LoaderTypeOK
  <2>2. QED
    BY <1>1, <1>6, <2>1, Zenon DEF PointsComeFromQueries
<1>12. QED
  BY <1>3, <1>4, <1>7, <1>8, <1>9, <1>10, <1>11, Zenon

\* A dispatch that ends has answered all its listeners.
LEMMA FinishKeepsInv ==
  ASSUME LoaderInv, NEW d \in Calls, Finish(d)
  PROVE  LoaderInv'
<1> USE DEF LoaderInv
<1>1. /\ UNCHANGED <<cache, keys, listeners, want, lpc, answer, done, ch, todo, group, lis, good>>
      /\ dpc[d] = "running" /\ todo[d] = {} /\ group[d] = {} /\ Sending(d) = {}
      /\ dpc' = [dpc EXCEPT ![d] = "over"] /\ failed' = [failed EXCEPT ![d] = FALSE]
  BY Zenon DEF Finish, loader, callVars
<1>2. lis[d] = {}
  BY <1>1, Zenon DEF Sending
<1>3. LoaderTypeOK'
  BY <1>1, <1>2, Zenon DEF LoaderTypeOK
<1>4. KeysAreWanted' /\ RegisteredOnce' /\ SendNeverBlocks' /\ PointsComeFromQueries'
  <2>1. KeysAreWanted' /\ SendNeverBlocks' /\ PointsComeFromQueries'
    <3>1. \A c \in Calls : dpc'[c] = "sleeping" => dpc[c] = "sleeping"
      BY <1>1, Zenon DEF LoaderTypeOK
    <3>2. KeysAreWanted'
      BY <1>1, <3>1, Zenon DEF KeysAreWanted
    <3>3. SendNeverBlocks' /\ PointsComeFromQueries'
      BY <1>1, Zenon DEF SendNeverBlocks, PointsComeFromQueries
    <3>4. QED
      BY <3>2, <3>3, Zenon
  <2>2. lpc[d] # "ready" /\ \A c \in Calls : c # d => dpc'[c] = dpc[c]
    BY <1>1, Zenon DEF RegisteredOnce, LoaderTypeOK
  <2>3. RegisteredOnce'
    BY <1>1, <2>2, Zenon DEF RegisteredOnce
  <2>4. QED
    BY <2>1, <2>3, Zenon
<1>5. NoCallStranded'
  BY <1>1, <1>2 DEF NoCallStranded, LoaderTypeOK
<1>6. DistributesGood'
  BY <1>1, <1>2, SMTT(40) DEF DistributesGood, Sending, LoaderTypeOK
<1>7. QED
  BY <1>3, <1>4, <1>5, <1>6, Zenon

\* Every step of the calls and of the dispatches preserves the invariant.
LEMMA LoaderNextInv == LoaderInv /\ [LoaderNext]_loaderVars => LoaderInv'
<1> SUFFICES ASSUME LoaderInv, [LoaderNext]_loaderVars PROVE LoaderInv'
  BY Zenon
<1>1. ASSUME NEW c \in Calls, LoadCached(c) \/ LoadListens(c) \/ Select(c) PROVE LoaderInv'
  BY <1>1, ReturnKeepsInv, ListenKeepsInv, Zenon
<1>2. ASSUME NEW d \in Calls, Dispatch(d) PROVE LoaderInv'
  BY <1>2, TakeKeepsInv, BatchQueryKeepsInv, CacheKeepsInv, SendKeepsInv, FinishKeepsInv, Zenon DEF Dispatch
<1>3. ASSUME CancelRequest \/ UNCHANGED loaderVars PROVE LoaderInv'
  <2>1. /\ UNCHANGED <<cache, keys, listeners, want, lpc, answer, ch>>
        /\ UNCHANGED <<dpc, todo, group, lis, failed, good>> /\ (done' = done \/ done' = TRUE)
    BY <1>3, Zenon DEF CancelRequest, loaderVars, loader, callVars, dispatchVars
  <2>2. LoaderTypeOK'
    BY <2>1, Zenon DEF LoaderInv, LoaderTypeOK
  <2>3. KeysAreWanted' /\ RegisteredOnce' /\ DistributesGood'
    BY <2>1, Zenon DEF LoaderInv, KeysAreWanted, RegisteredOnce, DistributesGood, Sending
  <2>4. NoCallStranded' /\ SendNeverBlocks' /\ PointsComeFromQueries'
    BY <2>1, Zenon DEF LoaderInv, NoCallStranded, SendNeverBlocks, PointsComeFromQueries
  <2>5. QED
    BY <2>2, <2>3, <2>4, Zenon DEF LoaderInv
<1>4. QED
  BY <1>1, <1>2, <1>3, Zenon DEF LoaderNext
-----------------------------------------------------------------------------
\* The inductive invariant of the dataloader.
THEOREM LoaderInvariant == LoaderSpec => []LoaderInv
  BY LoaderInitInv, LoaderNextInv, PTL DEF LoaderSpec

\* However calls and dispatches interleave, a waiting call is where a dispatch
\* will find it, and at most one dispatch collects keys at a time.
THEOREM EveryCallHasADispatch == LoaderSpec => []NoCallStranded
<1>1. LoaderInv => NoCallStranded
  BY Zenon DEF LoaderInv
<1>2. QED
  BY <1>1, LoaderInvariant, PTL

\* A dispatch never waits for a caller, present or gone: each channel is sent to
\* once and has room for it.
THEOREM DispatchNeverWaits == LoaderSpec => []SendNeverBlocks
<1>1. LoaderInv => SendNeverBlocks
  BY Zenon DEF LoaderInv
<1>2. QED
  BY <1>1, LoaderInvariant, PTL

\* No failed query is ever cached or returned as a history.
THEOREM FailuresAreNotCached == LoaderSpec => []PointsComeFromQueries
<1>1. LoaderInv => PointsComeFromQueries
  BY Zenon DEF LoaderInv
<1>2. QED
  BY <1>1, LoaderInvariant, PTL

\* Type correctness of the calls and dispatches of one request (Load, dispatch).
THEOREM LoaderTypeCorrect == LoaderSpec => []LoaderTypeOK
<1>1. LoaderInv => LoaderTypeOK
  BY Zenon DEF LoaderInv
<1>2. QED
  BY <1>1, LoaderInvariant, PTL
-----------------------------------------------------------------------------
(* The execution of a query *)

\* What a dispatch has to query or to distribute is wanted by a call that it has to
\* answer, and while the request is not cancelled that call waits.
WorkIsAwaited ==
  /\ \A d \in Calls : \A k \in todo[d] \cup group[d] : \E c \in lis[d] : want[c] = k
  /\ ~done => /\ \A c \in listeners : lpc[c] = "waiting"
              /\ \A d \in Calls : \A c \in lis[d] : lpc[c] = "waiting"

\* An answer for each history that was loaded, and an error for each that could not be.
CallErrors ==
  \A c \in Calls :
    /\ answer[c] = "none" <=> lpc[c] # "returned"
    /\ c \in errors <=> Failed(c)
    /\ lpc[c] = "waiting" => fpc[ParentOf[c]] = "marshalling"

\* A field is null because its resolver failed or, when all its elements are there, one of them.
FieldErrors ==
  \A f \in Fields :
    /\ f \in errors => fpc[f] = "null"
    /\ fpc[f] = "null" => f \in errors \/ \E c \in Calls : ParentOf[c] = f /\ Failed(c)
    /\ fpc[f] = "null" /\ f \notin errors => \A c \in Calls : ParentOf[c] = f => lpc[c] = "returned"

\* The data of the response.
NullResponse ==
  response # "none" => (response = "null" <=> \E f \in Fields : f \notin Nullable /\ fpc[f] = "null")

\* The errors recorded so far, and the nulls they have caused.
ErrorsAreExact == CallErrors /\ FieldErrors /\ NullResponse

ExecutorInv == LoaderInv /\ ExecutorTypeOK /\ WorkIsAwaited /\ ErrorsAreExact
-----------------------------------------------------------------------------
LEMMA ExecutorInitInv == ExecutorInit => ExecutorInv
<1> SUFFICES ASSUME ExecutorInit PROVE ExecutorInv
  BY Zenon
<1>1. LoaderInv
  BY LoaderInitInv, Zenon DEF ExecutorInit
<1>2. ExecutorTypeOK
  BY ExecutorAssumption, Zenon DEF ExecutorInit, LoaderInit, ExecutorTypeOK
<1>3. WorkIsAwaited
  BY Zenon DEF ExecutorInit, LoaderInit, WorkIsAwaited
<1>4. ErrorsAreExact
  BY ExecutorAssumption, Zenon
  DEF ExecutorInit, LoaderInit, ErrorsAreExact, CallErrors, FieldErrors, NullResponse, Failed
<1>5. QED
  BY <1>1, <1>2, <1>3, <1>4, Zenon DEF ExecutorInv

\* Every step of an execution is one of the dataloader or leaves it alone.
LEMMA ExecutorStepsLoad == [GraphQLNext]_graphqlVars => [LoaderNext]_loaderVars
  BY Zenon DEF GraphQLNext, Run, Execute, Resolve, FinishField, Element, Respond, LoaderNext, graphqlVars

\* Steps that complete no field and no element.
LEMMA ErrorsUnchanged ==
  ASSUME ErrorsAreExact, UNCHANGED <<lpc, answer, fpc, errors>>
  PROVE  CallErrors' /\ FieldErrors'
<1>1. lpc' = lpc /\ answer' = answer /\ fpc' = fpc /\ errors' = errors
  BY Zenon
<1>2. CallErrors'
  BY <1>1, Zenon DEF ErrorsAreExact, CallErrors, Failed
<1>3. FieldErrors'
  BY <1>1, SMTT(40) DEF ErrorsAreExact, FieldErrors, Failed
<1>4. QED
  BY <1>2, <1>3, Zenon

\* The steps of a root field.
LEMMA ExecuteKeepsInv ==
  ASSUME ExecutorInv, NEW f \in Fields, Execute(f)
  PROVE  ExecutorTypeOK' /\ WorkIsAwaited' /\ ErrorsAreExact'
<1> USE DEF ExecutorInv
<1>1. /\ UNCHANGED <<cache, keys, listeners, want, lpc, answer, done, ch>>
      /\ UNCHANGED <<dpc, todo, group, lis, failed, good, response>>
  BY Zenon DEF Execute, Resolve, FinishField, loaderVars, loader, callVars, dispatchVars
<1>a. response = "none" /\ fpc[f] \notin {"value", "null"} /\ f \notin errors /\ f \notin Calls
  BY ExecutorAssumption, Zenon
  DEF Execute, Resolve, FinishField, ExecutorTypeOK, ErrorsAreExact, FieldErrors
<1>b. NullResponse'
  BY <1>1, <1>a, Zenon DEF NullResponse
<1>2. WorkIsAwaited'
  BY <1>1, Zenon DEF WorkIsAwaited
<1>3. CASE Resolve(f)
  <2>1. ExecutorTypeOK'
    BY <1>1, <1>3, ExecutorAssumption, SMTT(40) DEF Resolve, ExecutorTypeOK, Complete, IsNull
  <2>2. ErrorsAreExact'
    <3>1. /\ fpc[f] = "resolving" /\ fpc \in [Fields -> {"resolving", "marshalling", "value", "null"}]
          /\ \/ fpc' = [fpc EXCEPT ![f] = "marshalling"] /\ errors' = errors
             \/ fpc' = [fpc EXCEPT ![f] = "null"] /\ errors' = errors \cup {f}
      BY <1>3, Zenon DEF Resolve, ExecutorTypeOK
    <3>2. ParentOf \in [Calls -> Fields]
      BY ExecutorAssumption, Zenon
    <3>3. CallErrors'
      BY <1>1, <1>a, <3>1, <3>2, ZenonT(40) DEF CallErrors, ErrorsAreExact, Failed
    <3>4. FieldErrors'
      BY <1>1, <1>a, <3>1 DEF FieldErrors, ErrorsAreExact, Failed
    <3>5. QED
      BY <1>b, <3>3, <3>4, Zenon DEF ErrorsAreExact
  <2>3. QED
    BY <1>2, <2>1, <2>2, Zenon
<1>4. CASE FinishField(f)
  <2>1. ExecutorTypeOK'
    BY <1>1, <1>4, ExecutorAssumption, Zenon DEF FinishField, ExecutorTypeOK, Complete, IsNull, Elements
  <2>2. ErrorsAreExact'
    <3>1. /\ fpc \in [Fields -> {"resolving", "marshalling", "value", "null"}] /\ errors' = errors
          /\ \A c \in Calls : ParentOf[c] = f => lpc[c] = "returned"
          /\ \/ fpc' = [fpc EXCEPT ![f] = "value"]
             \/ /\ fpc' = [fpc EXCEPT ![f] = "null"]
                /\ \E c \in Calls : ParentOf[c] = f /\ lpc[c] = "returned" /\ answer[c] # "points"
      BY <1>4, Zenon DEF FinishField, ExecutorTypeOK, Elements, Complete, IsNull
    <3>2. ParentOf \in [Calls -> Fields]
      BY ExecutorAssumption, Zenon
    <3>3. \A c \in Calls : lpc[c] = "returned" /\ answer[c] # "points" => Failed(c)
      BY Zenon DEF CallErrors, ErrorsAreExact, Failed, LoaderInv, LoaderTypeOK
    <3>4. CallErrors'
      BY <1>1, <3>1, <3>2, Zenon DEF CallErrors, ErrorsAreExact, Failed
    <3>5. FieldErrors'
      BY <1>1, <1>a, <3>1, <3>3, SMTT(40) DEF FieldErrors, ErrorsAreExact, Failed
    <3>6. QED
      BY <1>b, <3>4, <3>5, Zenon DEF ErrorsAreExact
  <2>3. QED
    BY <1>2, <2>1, <2>2, Zenon
<1>5. QED
  BY <1>3, <1>4, Zenon DEF Execute

\* The steps of an element's goroutine.
LEMMA ElementKeepsInv ==
  ASSUME ExecutorInv, NEW c \in Calls, Element(c)
  PROVE  ExecutorTypeOK' /\ WorkIsAwaited' /\ ErrorsAreExact'
<1> USE DEF ExecutorInv
<1>1. /\ UNCHANGED <<cache, want, done, todo, group, lis, failed, good, fpc, response>>
      /\ fpc[ParentOf[c]] = "marshalling" /\ lpc[c] # "returned"
      /\ errors' = IF lpc'[c] = "returned" /\ answer'[c] # "points" THEN errors \cup {c} ELSE errors
  BY Zenon DEF Element, CompleteElement, LoadCached, LoadListens, Select, Receive, ContextDone, Return,
         loader, callVars, dispatchVars
<1>2. \/ /\ lpc' = [lpc EXCEPT ![c] = "waiting"] /\ answer' = answer
         /\ listeners' = listeners \cup {c}
      \/ /\ lpc' = [lpc EXCEPT ![c] = "returned"] /\ listeners' = listeners
         /\ answer' \in {[answer EXCEPT ![c] = r] : r \in {"points", "error", "cancelled"}}
         /\ ~done => c \notin listeners /\ \A d \in Calls : c \notin lis[d]
  <2>1. CASE LoadListens(c)
    BY <2>1, Zenon DEF LoadListens
  <2>2. CASE LoadCached(c)
    BY <2>2, Zenon DEF LoadCached, Return, loader, LoaderInv, RegisteredOnce
  <2>3. CASE Receive(c)
    <3>1. ch[c] \in {"points", "error"} /\ c \notin listeners /\ \A d \in Calls : c \notin lis[d]
      BY <2>3, Zenon DEF Receive, LoaderInv, LoaderTypeOK, RegisteredOnce, SendNeverBlocks
    <3>2. QED
      BY <2>3, <3>1, Zenon DEF Receive, Return, loader
  <2>4. CASE ContextDone(c)
    BY <2>4, Zenon DEF ContextDone, Return, loader
  <2>5. QED
    BY <2>1, <2>2, <2>3, <2>4, Zenon DEF Element, Select
<1>3. lpc \in [Calls -> {"ready", "waiting", "returned"}] /\ answer \in [Calls -> {"none", "points", "error", "cancelled"}]
  BY Zenon DEF LoaderInv, LoaderTypeOK
<1>4. ParentOf[c] \in Fields /\ ParentOf[c] \notin errors /\ c \notin Fields /\ response = "none"
  <2>1. ParentOf[c] \in Fields /\ c \notin Fields
    BY ExecutorAssumption, Zenon
  <2>2. QED
    BY <1>1, <2>1, ZenonT(40) DEF ExecutorTypeOK, ErrorsAreExact, FieldErrors
<1>a. \A d \in Calls : d # c => lpc'[d] = lpc[d] /\ answer'[d] = answer[d]
  BY <1>2, <1>3, Zenon
<1>b. ParentOf \in [Calls -> Fields] /\ Calls \cap Fields = {}
  BY ExecutorAssumption, Zenon
<1>5. ExecutorTypeOK'
  <2>1. errors' \subseteq Calls \cup Fields
    BY <1>1, Zenon DEF ExecutorTypeOK
  <2>2. ASSUME NEW d \in Calls
        PROVE  /\ lpc'[d] # "ready" => fpc[ParentOf[d]] # "resolving" /\ ParentOf[d] \notin errors'
               /\ fpc[ParentOf[d]] = "value" => lpc'[d] = "returned" /\ answer'[d] = "points"
    <3>1. ParentOf[d] # c
      BY <1>b, Zenon
    <3>2. CASE d = c
      BY <1>1, <1>4, <3>1, <3>2, Zenon
    <3>3. CASE d # c
      BY <1>1, <1>a, <3>1, <3>3, SMTT(40) DEF ExecutorTypeOK, Complete, IsNull
    <3>4. QED
      BY <3>2, <3>3, Zenon
  <2>3. QED
    BY <1>1, <2>1, <2>2, Zenon DEF ExecutorTypeOK, Complete, IsNull
<1>6. WorkIsAwaited'
  <2>1. listeners \subseteq Calls /\ \A d \in Calls : lis[d] \subseteq Calls
    BY Zenon DEF LoaderInv, LoaderTypeOK
  <2>2. ASSUME ~done
        PROVE  /\ \A e \in listeners' : lpc'[e] = "waiting"
               /\ \A d \in Calls : \A e \in lis[d] : lpc'[e] = "waiting"
    <3>1. /\ \A e \in listeners : lpc[e] = "waiting"
          /\ \A d \in Calls : \A e \in lis[d] : lpc[e] = "waiting"
      BY <2>2, Zenon DEF WorkIsAwaited
    <3>2. CASE lpc'[c] = "waiting" /\ listeners' = listeners \cup {c}
      BY <1>a, <2>1, <3>1, <3>2, Zenon
    <3>3. CASE listeners' = listeners /\ c \notin listeners /\ \A d \in Calls : c \notin lis[d]
      BY <1>a, <2>1, <3>1, <3>3, Zenon
    <3>4. QED
      BY <1>2, <1>3, <2>2, <3>2, <3>3, Zenon
  <2>3. want' = want /\ todo' = todo /\ group' = group /\ lis' = lis /\ done' = done
    BY <1>1, Zenon
  <2>4. \A d \in Calls : \A k \in todo[d] \cup group[d] : \E e \in lis[d] : want[e] = k
    BY Zenon DEF WorkIsAwaited
  <2>5. QED
    BY <2>2, <2>3, <2>4, Zenon DEF WorkIsAwaited
<1>7. ErrorsAreExact'
  <2>1. \/ lpc'[c] = "waiting" /\ answer'[c] = "none" /\ errors' = errors /\ c \notin errors
        \/ /\ lpc'[c] = "returned" /\ answer'[c] \in {"points", "error", "cancelled"}
           /\ errors' = IF answer'[c] # "points" THEN errors \cup {c} ELSE errors
           /\ c \notin errors
    <3>1. answer[c] = "none" /\ c \notin errors
      BY <1>1, Zenon DEF ErrorsAreExact, CallErrors, Failed
    <3>2. QED
      BY <1>1, <1>2, <1>3, <3>1, Zenon
  <2>2. CallErrors'
    <3>1. ASSUME NEW d \in Calls
          PROVE  /\ answer'[d] = "none" <=> lpc'[d] # "returned"
                 /\ d \in errors' <=> Failed(d)'
                 /\ lpc'[d] = "waiting" => fpc[ParentOf[d]] = "marshalling"
      <4>1. CASE d = c
        BY <1>1, <2>1, <4>1, Zenon DEF Failed
      <4>2. CASE d # c
        BY <1>1, <1>a, <4>2, Zenon DEF ErrorsAreExact, CallErrors, Failed
      <4>3. QED
        BY <4>1, <4>2, Zenon
    <3>2. QED
      BY <1>1, <3>1, Zenon DEF CallErrors
  <2>3. FieldErrors'
    <3>1. ASSUME NEW f \in Fields
          PROVE  /\ f \in errors' <=> f \in errors
                 /\ fpc[f] = "null" => f # ParentOf[c]
      BY <1>1, <1>4, Zenon
    <3>2. QED
      BY <1>1, <1>a, <3>1, SMTT(40) DEF ErrorsAreExact, FieldErrors, Failed
  <2>4. NullResponse'
    BY <1>1, <1>4, Zenon DEF NullResponse
  <2>5. QED
    BY <2>2, <2>3, <2>4, Zenon DEF ErrorsAreExact
<1>8. QED
  BY <1>5, <1>6, <1>7, Zenon

\* The steps of a dispatch.
LEMMA DispatchKeepsInv ==
  ASSUME ExecutorInv, NEW d \in Calls, Dispatch(d), UNCHANGED executorVars
  PROVE  ExecutorTypeOK' /\ WorkIsAwaited' /\ ErrorsAreExact'
<1> USE DEF ExecutorInv
<1>1. UNCHANGED <<want, lpc, answer, done, fpc, errors, response>>
  BY Zenon DEF Dispatch, TakeKeys, Finish, QueryGroup, CachePoints, Send, callVars, executorVars
<1>2. ExecutorTypeOK' /\ ErrorsAreExact'
  <2>1. ExecutorTypeOK'
    BY <1>1, Zenon DEF ExecutorTypeOK, Complete, IsNull
  <2>2. CallErrors' /\ FieldErrors'
    BY <1>1, ErrorsUnchanged, Zenon
  <2>3. NullResponse'
    BY <1>1, Zenon DEF ErrorsAreExact, NullResponse
  <2>4. QED
    BY <2>1, <2>2, <2>3, Zenon DEF ErrorsAreExact
<1>3. WorkIsAwaited'
  <2> USE DEF LoaderInv, LoaderTypeOK
  <2>1. CASE TakeKeys(d)
    BY <1>1, <2>1, SMTT(40) DEF TakeKeys, WorkIsAwaited, KeysAreWanted
  <2>2. ASSUME NEW l \in Limits, QueryGroup(d, l) PROVE WorkIsAwaited'
    BY <1>1, <2>2, SMTT(40) DEF QueryGroup, Group, WorkIsAwaited, loader
  <2>3. ASSUME NEW k \in DataloaderKey, CachePoints(d, k) PROVE WorkIsAwaited'
    BY <1>1, <2>3, SMTT(40) DEF CachePoints, WorkIsAwaited
  <2>4. ASSUME NEW c \in Calls, Send(d, c) PROVE WorkIsAwaited'
    BY <1>1, <2>4, SMTT(40) DEF Send, Sending, WorkIsAwaited, loader
  <2>5. CASE Finish(d)
    BY <1>1, <2>5, SMTT(40) DEF Finish, WorkIsAwaited, loader
  <2>6. QED
    BY <2>1, <2>2, <2>3, <2>4, <2>5, Zenon DEF Dispatch
<1>4. QED
  BY <1>2, <1>3, Zenon

\* The response, the cancellation, and steps that change nothing.
LEMMA RespondKeepsInv ==
  ASSUME ExecutorInv,
         Respond \/ (CancelRequest /\ UNCHANGED executorVars) \/ UNCHANGED graphqlVars
  PROVE  ExecutorTypeOK' /\ WorkIsAwaited' /\ ErrorsAreExact'
<1> USE DEF ExecutorInv
<1>1. /\ UNCHANGED <<keys, listeners, want, lpc, answer, todo, group, lis, fpc, errors>>
      /\ done' = done \/ done' = TRUE
  BY Zenon DEF Respond, CancelRequest, graphqlVars, executorVars, loaderVars, loader, callVars, dispatchVars
<1>2. WorkIsAwaited'
  BY <1>1, Zenon DEF WorkIsAwaited
<1>3. ExecutorTypeOK'
  BY <1>1, Zenon DEF Respond, CancelRequest, graphqlVars, executorVars, ExecutorTypeOK, Complete, IsNull
<1>4. ErrorsAreExact'
  <2>1. CallErrors' /\ FieldErrors'
    BY <1>1, ErrorsUnchanged, Zenon
  <2>2. NullResponse'
    <3>1. CASE Respond
      <4>1. response' = "null" <=> \E f \in Fields : f \notin Nullable /\ fpc[f] = "null"
        BY <3>1, Zenon DEF Respond, Required
      <4>2. QED
        BY <1>1, <4>1, Zenon DEF NullResponse
    <3>2. CASE UNCHANGED executorVars
      BY <3>2, Zenon DEF executorVars, ErrorsAreExact, NullResponse
    <3>3. QED
      BY <3>1, <3>2, Zenon DEF graphqlVars
  <2>3. QED
    BY <2>1, <2>2, Zenon DEF ErrorsAreExact
<1>5. QED
  BY <1>2, <1>3, <1>4, Zenon

\* Every step of an execution preserves the invariant.
LEMMA ExecutorNextInv == ExecutorInv /\ [GraphQLNext]_graphqlVars => ExecutorInv'
<1> SUFFICES ASSUME ExecutorInv, [GraphQLNext]_graphqlVars PROVE ExecutorInv'
  BY Zenon
<1>1. LoaderInv'
  BY ExecutorStepsLoad, LoaderNextInv, Zenon DEF ExecutorInv
<1>2. ExecutorTypeOK' /\ WorkIsAwaited' /\ ErrorsAreExact'
  BY ExecuteKeepsInv, ElementKeepsInv, DispatchKeepsInv, RespondKeepsInv, Zenon DEF GraphQLNext, Run
<1>3. QED
  BY <1>1, <1>2, Zenon DEF ExecutorInv
-----------------------------------------------------------------------------
\* The inductive invariant of the execution.
THEOREM ExecutorInvariant == GraphQLSpec => []ExecutorInv
  BY ExecutorInitInv, ExecutorNextInv, PTL DEF GraphQLSpec

\* What is proved of the dataloader alone holds of it below the executor.
THEOREM ExecutorUsesLoader == GraphQLSpec => LoaderSpec
<1>1. ExecutorInit => LoaderInit
  BY Zenon DEF ExecutorInit
<1>2. QED
  BY <1>1, ExecutorStepsLoad, PTL DEF GraphQLSpec, LoaderSpec

\* Fields have their values after their elements, the response after the fields.
THEOREM ExecutorTypeCorrect == GraphQLSpec => []ExecutorTypeOK
<1>1. ExecutorInv => ExecutorTypeOK
  BY Zenon DEF ExecutorInv
<1>2. QED
  BY <1>1, ExecutorInvariant, PTL

\* For every query the response has exactly the errors of its resolvers, and nulls where
\* the schema puts them, in whatever order the goroutines run.
THEOREM ResponseIsExact == GraphQLSpec => []ResponseFollowsResolvers
<1>1. ExecutorInv => ResponseFollowsResolvers
  <2> SUFFICES ASSUME ExecutorInv, response # "none" PROVE ResponseFollowsResolvers
    BY Zenon DEF ResponseFollowsResolvers
  <2> DEFINE broken == {f \in Fields : f \in errors \/ \E c \in Elements(f) : Failed(c)}
  <2>1. errors \cap Calls = {c \in Calls : Failed(c)}
    BY Zenon DEF ExecutorInv, ErrorsAreExact, CallErrors
  <2>2. {f \in Fields : fpc[f] = "null"} = broken
    <3>1. ASSUME NEW f \in Fields, fpc[f] = "null" PROVE f \in broken
      BY <3>1, Zenon DEF ExecutorInv, ErrorsAreExact, FieldErrors, Elements
    <3>2. ASSUME NEW f \in Fields, f \in broken PROVE fpc[f] = "null"
      BY <3>2, SMTT(40) DEF ExecutorInv, ErrorsAreExact, FieldErrors, ExecutorTypeOK, Elements, Failed, Complete, IsNull
    <3>3. QED
      BY <3>1, <3>2, Zenon
  <2>3. response = "null" <=> \E f \in broken : f \notin Nullable
    BY <2>2, Zenon DEF ExecutorInv, ErrorsAreExact, NullResponse
  <2>4. ASSUME NEW c \in Calls, ParentOf[c] \notin broken PROVE answer[c] = "points" /\ want[c] \in good
    <3>1. fpc[ParentOf[c]] = "value"
      BY <2>2, <2>4, ExecutorAssumption, Zenon DEF ExecutorInv, ExecutorTypeOK
    <3>2. answer[c] = "points"
      BY <3>1, Zenon DEF ExecutorInv, ExecutorTypeOK, Complete, IsNull
    <3>3. QED
      BY <3>2, Zenon DEF ExecutorInv, LoaderInv, PointsComeFromQueries
  <2>5. QED
    BY <2>1, <2>2, <2>3, <2>4, Zenon DEF ResponseFollowsResolvers
<1>2. QED
  BY <1>1, ExecutorInvariant, PTL

\* No dispatch has work left when an uncancelled query is answered.
THEOREM ResponseLeavesNoWork == GraphQLSpec => []QuietAfterResponse
<1>1. ExecutorInv => QuietAfterResponse
  <2> SUFFICES ASSUME ExecutorInv, response # "none", ~done, NEW d \in Calls
               PROVE  dpc[d] # "sleeping" /\ todo[d] = {} /\ group[d] = {} /\ lis[d] = {}
    BY Zenon DEF QuietAfterResponse
  <2>1. \A c \in Calls : lpc[c] # "waiting"
    BY ExecutorAssumption, Zenon DEF ExecutorInv, ErrorsAreExact, CallErrors, ExecutorTypeOK
  <2>2. listeners = {} /\ lis[d] = {}
    BY <2>1 DEF ExecutorInv, WorkIsAwaited, LoaderInv, LoaderTypeOK
  <2>3. todo[d] = {} /\ group[d] = {}
    BY <2>2, Zenon DEF ExecutorInv, WorkIsAwaited
  <2>4. dpc[d] # "sleeping"
    BY <2>2, Zenon DEF ExecutorInv, LoaderInv, KeysAreWanted
  <2>5. QED
    BY <2>2, <2>3, <2>4, Zenon
<1>2. QED
  BY <1>1, ExecutorInvariant, PTL
================================================================================

----------------------------- MODULE GatewayProofs -----------------------------
(* Proofs about the rate limiter and the history cache, alone and composed, for any *)
(* requests, clients and coins. *)
EXTENDS Gateway, TLAPS

\* A client's last request is as old as the lastSeen of its entry, or a request is on
\* its way to write lastSeen.
SeenInTime ==
  \A c \in Clients : ips[c] # NoLimiter =>
    \/ age[c] <= used[c]
    \/ \E q \in Requests :
         /\ ClientOf[q] = c
         /\ lpc[q] = "create" \/ (lpc[q] = "refresh" /\ lim[q] = ips[c])

LimiterInv == LimiterTypeOK /\ SeenInTime

\* The steps of the limiter.
LimiterNext == Sweep \/ Tick \/ \E q \in Requests : Limit(q) \/ Answer(q)
-----------------------------------------------------------------------------
LEMMA LimiterInitInv == LimiterInit => LimiterInv
  BY LimiterAssumption DEF LimiterInit, LimiterInv, LimiterTypeOK, SeenInTime, New, Expired

\* A new entry has a limiter that nobody else has.
LEMMA NewLimiterIsFresh ==
  ASSUME NEW c \in Clients, NEW q \in Requests, NewLimiter(c, q)
  PROVE  \E l \in Limiters \ InUse :
           /\ ips' = [ips EXCEPT ![c] = l]
           /\ lim' = [lim EXCEPT ![q] = l]
           /\ tokens' = [tokens EXCEPT ![l] = Burst]
  BY Zenon DEF NewLimiter

\* The steps of one request.
LEMMA LimitKeepsInv ==
  ASSUME LimiterInv, NEW q \in Requests, Limit(q) \/ Answer(q)
  PROVE  LimiterInv'
<1> DEFINE c == ClientOf[q]
<1> USE LimiterAssumption DEF LimiterInv, New, Expired
<1>1. c \in Clients
  BY Zenon
<1>2. CASE LookUp(q)
  <2>1. LimiterTypeOK'
    BY <1>1, <1>2 DEF LookUp, Goes, LimiterTypeOK
  <2>2. SeenInTime'
    BY <1>1, <1>2 DEF LookUp, Goes, LimiterTypeOK, SeenInTime, Racing
  <2>3. QED
    BY <2>1, <2>2, Zenon
<1>3. CASE Refresh(q)
  <2>1. LimiterTypeOK'
    BY <1>1, <1>3 DEF Refresh, Goes, LimiterTypeOK
  <2>2. SeenInTime'
    BY <1>1, <1>3 DEF Refresh, Goes, LimiterTypeOK, SeenInTime
  <2>3. QED
    BY <2>1, <2>2, Zenon
<1>4. CASE Create(q)
  <2>1. CASE ips[c] # NoLimiter
    <3>1. /\ lim' = [lim EXCEPT ![q] = ips[c]] /\ UNCHANGED <<ips, tokens, used>>
          /\ age' = [age EXCEPT ![c] = 0] /\ lpc' = [lpc EXCEPT ![q] = "allow"]
      BY <1>4, <2>1, Zenon DEF Create, Goes
    <3>2. LimiterTypeOK'
      BY <1>1, <2>1, <3>1 DEF LimiterTypeOK
    <3>3. SeenInTime'
      BY <1>1, <2>1, <3>1 DEF LimiterTypeOK, SeenInTime
    <3>4. QED
      BY <3>2, <3>3, Zenon
  <2>2. CASE ips[c] = NoLimiter
    <3>1. PICK l \in Limiters \ InUse :
            /\ ips' = [ips EXCEPT ![c] = l]
            /\ lim' = [lim EXCEPT ![q] = l]
            /\ tokens' = [tokens EXCEPT ![l] = Burst]
      BY <1>1, <1>4, <2>2, NewLimiterIsFresh, Zenon DEF Create
    <3>2. age' = [age EXCEPT ![c] = 0] /\ lpc' = [lpc EXCEPT ![q] = "allow"] /\ used' = used
      BY <1>4, Zenon DEF Create, Goes
    <3>3. LimiterTypeOK'
      BY <1>1, <3>1, <3>2 DEF LimiterTypeOK, InUse
    <3>4. SeenInTime'
      BY <1>1, <3>1, <3>2 DEF LimiterTypeOK, SeenInTime, InUse
    <3>5. QED
      BY <3>3, <3>4, Zenon
  <2>3. QED
    BY <2>1, <2>2, Zenon
<1>5. CASE Admit(q) \/ Reject(q) \/ Answer(q)
  <2>1. LimiterTypeOK'
    BY <1>5 DEF Admit, Reject, Answer, Goes, LimiterTypeOK
  <2>2. SeenInTime'
    BY <1>5 DEF Admit, Reject, Answer, Goes, LimiterTypeOK, SeenInTime
  <2>3. QED
    BY <2>1, <2>2, Zenon
<1>6. QED
  BY <1>2, <1>3, <1>4, <1>5, Zenon DEF Limit

\* Every step of the limiter preserves the invariant.
LEMMA LimiterNextInv == LimiterInv /\ [LimiterNext]_limiterVars => LimiterInv'
<1> SUFFICES ASSUME LimiterInv, [LimiterNext]_limiterVars PROVE LimiterInv'
  BY Zenon
<1> USE LimiterAssumption DEF LimiterInv, New, Expired
<1>1. CASE Sweep
  <2>1. LimiterTypeOK'
    BY <1>1 DEF Sweep, LimiterTypeOK
  <2>2. SeenInTime'
    BY <1>1 DEF Sweep, LimiterTypeOK, SeenInTime
  <2>3. QED
    BY <2>1, <2>2, Zenon
<1>2. CASE Tick
  <2>1. LimiterTypeOK'
    BY <1>2 DEF Tick, Older, LimiterTypeOK
  <2>2. SeenInTime'
    BY <1>2 DEF Tick, Older, LimiterTypeOK, SeenInTime
  <2>3. QED
    BY <2>1, <2>2, Zenon
<1>3. CASE UNCHANGED limiterVars
  BY <1>3, Zenon DEF limiterVars, LimiterTypeOK, SeenInTime
<1>4. QED
  BY <1>1, <1>2, <1>3, LimitKeepsInv, Zenon DEF LimiterNext

\* An entry changes only when it is swept, and then nobody has used it for maxAge or a
\* request is on its way to write lastSeen.
LEMMA BucketStays ==
  ASSUME LimiterInv, [LimiterNext]_limiterVars, NEW c \in Clients,
         ips[c] # NoLimiter, ips'[c] # ips[c]
  PROVE  /\ ips'[c] = NoLimiter
         /\ \/ used[c] = Expired
            \/ \E q \in Requests : ClientOf[q] = c /\ lpc[q] \in {"refresh", "create"}
<1> USE LimiterAssumption DEF LimiterInv
<1>1. CASE Sweep
  <2>1. ips'[c] = NoLimiter /\ age[c] = Expired
    BY <1>1, Zenon DEF Sweep, LimiterTypeOK
  <2>2. QED
    BY <2>1 DEF SeenInTime, LimiterTypeOK, New, Expired
<1>2. ASSUME NEW q \in Requests, Limit(q) \/ Answer(q) PROVE FALSE
  <2>1. CASE Create(q)
    <3>1. CASE ips[ClientOf[q]] = NoLimiter
      <4>1. PICK l \in Limiters \ InUse : ips' = [ips EXCEPT ![ClientOf[q]] = l]
        BY <2>1, <3>1, NewLimiterIsFresh, Zenon DEF Create
      <4>2. QED
        BY <3>1, <4>1, Zenon DEF LimiterTypeOK
    <3>2. QED
      BY <2>1, <3>1, Zenon DEF Create
  <2>2. QED
    BY <1>2, <2>1, Zenon DEF Limit, LookUp, Refresh, Admit, Reject, Answer
<1>3. CASE Tick \/ UNCHANGED limiterVars
  BY <1>3, Zenon DEF Tick, limiterVars
<1>4. QED
  BY <1>1, <1>2, <1>3, Zenon DEF LimiterNext
-----------------------------------------------------------------------------
\* The two halves of HistoryTypeOK.
HistoryTypes ==
  /\ rows \in [Coins -> Nat] /\ replica \in [Coins -> Nat] /\ stored \in [Coins -> Nat \cup {None}]
  /\ hpc \in [Readers -> {"idle", "looking", "missed", "waiting", "done", "failed"} \cup InFlight]
  /\ left \in [Readers -> SUBSET Coins] /\ misses \in [Readers -> SUBSET Coins]
  /\ result \in [Readers -> SUBSET Coins]
  /\ fetched \in [Readers -> [Coins -> Nat \cup {None}]]
  /\ filler \in [Coins -> {None} \cup SUBSET Coins] /\ historyFaults \in 0..MaxHistoryFaults

OneFlightPerKey ==
  /\ \A u \in Readers : hpc[u] = "waiting" => Flying(u)
  /\ \A u, v \in Readers :
       hpc[u] \in InFlight /\ hpc[v] \in InFlight /\ Key(u) = Key(v) => u = v

\* What a caller has asked for is in its map, missed or still to be looked up; the map of
\* a flight whose query has been made has every missed coin with rows.
MapsAreComplete ==
  /\ \A c \in HasRows : rows[c] > 0 /\ replica[c] > 0
  /\ \A u \in Readers :
       /\ hpc[u] = "looking" => CoinsOf[u] \subseteq left[u] \cup misses[u] \cup result[u]
       /\ hpc[u] \in {"missed", "waiting"} \cup InFlight => CoinsOf[u] \subseteq misses[u] \cup result[u]
       /\ hpc[u] = "filling" => \A c \in misses[u] \cap HasRows : fetched[u][c] # None

HistoryInv == HistoryTypeOK /\ MapsAreComplete /\ AnswerIsComplete

\* The steps of the cache.
HistoryNext ==
  \/ Replicate \/ \E c \in Coins : ChangeRows(c) \/ Expire(c)
  \/ \E u \in Readers : Get(u) \/ Read(u) \/ QueryFails(u) \/ Return(u)
-----------------------------------------------------------------------------
LEMMA HistoryTypeSplit == HistoryTypeOK <=> HistoryTypes /\ OneFlightPerKey
  BY Zenon DEF HistoryTypeOK, HistoryTypes, OneFlightPerKey

LEMMA HistoryInitInv == HistoryInit => HistoryInv
<1> SUFFICES ASSUME HistoryInit PROVE HistoryInv
  BY Zenon
<1> USE HistoryAssumption DEF HistoryInit, NoMap, InFlight
<1>1. rows \in [Coins -> Nat] /\ replica \in [Coins -> Nat] /\ stored \in [Coins -> Nat \cup {None}]
  OBVIOUS
<1>2. fetched \in [Readers -> [Coins -> Nat \cup {None}]] /\ filler \in [Coins -> {None} \cup SUBSET Coins]
  <2>1. NoMap \in [Coins -> Nat \cup {None}]
    BY Zenon
  <2>2. NoMap \in [Coins -> {None} \cup SUBSET Coins]
    BY Zenon
  <2>3. QED
    BY <2>1, <2>2, Zenon
<1>3. HistoryTypes
  BY <1>1, <1>2 DEF HistoryTypes
<1>4. OneFlightPerKey
  BY Zenon DEF OneFlightPerKey
<1>5. MapsAreComplete /\ AnswerIsComplete
  BY DEF MapsAreComplete, AnswerIsComplete
<1>6. QED
  BY <1>3, <1>4, <1>5, HistoryTypeSplit, Zenon DEF HistoryInv

\* The table, its replica and the end of an entry.
LEMMA StoreKeepsInv ==
  ASSUME HistoryInv, Replicate \/ \E c \in Coins : ChangeRows(c) \/ Expire(c)
  PROVE  HistoryInv'
<1> USE HistoryAssumption, HistoryTypeSplit DEF HistoryInv
<1>1. UNCHANGED <<hpc, left, misses, result, fetched, historyFaults>>
  BY Zenon DEF Replicate, ChangeRows, Expire, callers
<1>2. HistoryTypes' /\ \A d \in HasRows : rows'[d] > 0 /\ replica'[d] > 0
  <2>1. CASE Replicate
    BY <1>1, <2>1, Zenon DEF Replicate, HistoryTypes, MapsAreComplete
  <2>2. ASSUME NEW c \in Coins, ChangeRows(c)
        PROVE  HistoryTypes' /\ \A d \in HasRows : rows'[d] > 0 /\ replica'[d] > 0
    BY <1>1, <2>2 DEF ChangeRows, HistoryTypes, MapsAreComplete
  <2>3. ASSUME NEW c \in Coins, Expire(c)
        PROVE  HistoryTypes' /\ \A d \in HasRows : rows'[d] > 0 /\ replica'[d] > 0
    <3>1. stored' \in [Coins -> Nat \cup {None}] /\ filler' \in [Coins -> {None} \cup SUBSET Coins]
      BY <2>3, Zenon DEF Expire, HistoryTypes
    <3>2. QED
      BY <1>1, <2>3, <3>1 DEF Expire, HistoryTypes, MapsAreComplete
  <2>4. QED
    BY <2>1, <2>2, <2>3, Zenon
<1>3. OneFlightPerKey'
  BY <1>1, Zenon DEF OneFlightPerKey, Flying, Key
<1>4. MapsAreComplete'
  BY <1>1, <1>2, Zenon DEF MapsAreComplete
<1>5. AnswerIsComplete'
  BY <1>1, Zenon DEF AnswerIsComplete
<1>6. HistoryTypeOK'
  BY <1>2, <1>3, Zenon DEF HistoryTypeOK, HistoryTypes, OneFlightPerKey
<1>7. QED
  BY <1>4, <1>5, <1>6, Zenon

\* A caller comes, or has returned.
LEMMA CallKeepsInv ==
  ASSUME HistoryInv, NEW u \in Readers, Get(u) \/ Return(u)
  PROVE  HistoryInv'
<1> USE HistoryAssumption, HistoryTypeSplit DEF HistoryInv, InFlight, store
<1>1. HistoryTypes'
  BY ZenonT(40) DEF Get, Return, HistoryTypes
<1>2. /\ UNCHANGED <<rows, replica, fetched>>
      /\ \A v \in Readers \ {u} : /\ hpc'[v] = hpc[v] /\ misses'[v] = misses[v]
                                  /\ left'[v] = left[v] /\ result'[v] = result[v]
      /\ \/ hpc'[u] = "idle"
         \/ hpc'[u] = "looking" /\ left'[u] = CoinsOf[u]
      /\ hpc[u] \notin {"waiting"} \cup InFlight
  BY Zenon DEF Get, Return, HistoryTypes
<1>3. OneFlightPerKey'
  BY <1>2 DEF OneFlightPerKey, Flying, Key
<1>4. MapsAreComplete' /\ AnswerIsComplete'
  BY <1>2 DEF MapsAreComplete, AnswerIsComplete
<1>5. HistoryTypeOK'
  BY <1>1, <1>3, Zenon DEF HistoryTypeOK, HistoryTypes, OneFlightPerKey
<1>6. QED
  BY <1>4, <1>5, Zenon

\* One round of the first loop.
LEMMA LookKeepsInv ==
  ASSUME HistoryInv, NEW u \in Readers, NEW c \in Coins, Look(u, c)
  PROVE  HistoryInv'
<1> USE HistoryAssumption, HistoryTypeSplit DEF HistoryInv, InFlight, store
<1>1. /\ hpc[u] = "looking" /\ c \in left[u]
      /\ left' = [left EXCEPT ![u] = @ \ {c}]
      /\ hpc' = [hpc EXCEPT ![u] =
           IF left'[u] # {} THEN "looking" ELSE IF misses'[u] = {} THEN "done" ELSE "missed"]
      /\ \/ result' = [result EXCEPT ![u] = @ \cup {c}] /\ misses' = misses
         \/ misses' = [misses EXCEPT ![u] = @ \cup {c}] /\ result' = result
      /\ UNCHANGED <<rows, replica, stored, filler, fetched>>
  BY Zenon DEF Look
<1>2. historyFaults' \in 0..MaxHistoryFaults
  BY DEF Look, Hit, Miss, HistoryFault, HistoryTypes
<1>3. HistoryTypes'
  <2> HIDE HistoryAssumption, HistoryTypeSplit DEF HistoryInv, InFlight, store
  <2>a. /\ left \in [Readers -> SUBSET Coins] /\ misses \in [Readers -> SUBSET Coins]
        /\ result \in [Readers -> SUBSET Coins]
    BY HistoryTypeSplit, Zenon DEF HistoryInv, HistoryTypes
  <2>b. left' = [left EXCEPT ![u] = @ \ {c}]
    BY <1>1, Zenon
  <2>c. misses' = misses \/ misses' = [misses EXCEPT ![u] = @ \cup {c}]
    BY <1>1, Zenon
  <2>d. result' = result \/ result' = [result EXCEPT ![u] = @ \cup {c}]
    BY <1>1, Zenon
  <2>1. left' \in [Readers -> SUBSET Coins] /\ misses' \in [Readers -> SUBSET Coins]
    <3>1. left' \in [Readers -> SUBSET Coins]
      BY <2>a, <2>b, Zenon
    <3>2. misses' \in [Readers -> SUBSET Coins]
      BY <2>a, <2>c
    <3>3. QED
      BY <3>1, <3>2, Zenon
  <2>2. result' \in [Readers -> SUBSET Coins]
    BY <2>a, <2>d
  <2> USE HistoryAssumption, HistoryTypeSplit DEF HistoryInv, InFlight, store
  <2>3. hpc' \in [Readers -> {"idle", "looking", "missed", "waiting", "done", "failed"} \cup InFlight]
    BY <1>1, Zenon DEF HistoryTypes
  <2>4. QED
    BY <1>1, <1>2, <2>1, <2>2, <2>3, Zenon DEF HistoryTypes
<1>4. OneFlightPerKey'
  <2>1. \A v \in Readers \ {u} : hpc'[v] = hpc[v] /\ misses'[v] = misses[v]
    BY <1>1, Zenon DEF HistoryTypes
  <2>2. hpc[u] = "looking" /\ hpc'[u] \in {"looking", "done", "missed"}
    BY <1>1, Zenon DEF HistoryTypes
  <2>3. QED
    BY <2>1, <2>2 DEF OneFlightPerKey, Flying, Key
<1>5. /\ \A v \in Readers \ {u} : hpc'[v] = hpc[v] /\ misses'[v] = misses[v] /\ result'[v] = result[v] /\ left'[v] = left[v]
      /\ CoinsOf[u] \subseteq left'[u] \cup misses'[u] \cup result'[u]
      /\ hpc'[u] \in {"looking", "done", "missed"}
      /\ hpc'[u] # "looking" => left'[u] = {}
      /\ hpc'[u] = "done" => misses'[u] = {}
  BY <1>1 DEF HistoryTypes, MapsAreComplete
<1>6. MapsAreComplete'
  BY <1>1, <1>5 DEF HistoryTypes, MapsAreComplete
<1>7. AnswerIsComplete'
  BY <1>1, <1>5, Zenon DEF AnswerIsComplete
<1>8. HistoryTypeOK'
  BY <1>3, <1>4, Zenon DEF HistoryTypeOK, HistoryTypes, OneFlightPerKey
<1>9. QED
  BY <1>6, <1>7, <1>8, Zenon

\* A flight begins, is joined, and makes its second look.
LEMMA FlightKeepsInv ==
  ASSUME HistoryInv, NEW u \in Readers,
         LeadFlight(u) \/ JoinFlight(u) \/ \E c \in Coins : Check(u, c)
  PROVE  HistoryInv'
<1> USE HistoryAssumption, HistoryTypeSplit DEF HistoryInv, InFlight, store
<1>1. CASE LeadFlight(u)
  <2>1. HistoryTypes'
    BY <1>1, Zenon DEF LeadFlight, HistoryTypes
  <2>2. OneFlightPerKey'
    BY <1>1 DEF LeadFlight, HistoryTypes, OneFlightPerKey, Flying, Key
  <2>3. MapsAreComplete' /\ AnswerIsComplete'
    BY <1>1, Zenon DEF LeadFlight, HistoryTypes, MapsAreComplete, AnswerIsComplete
  <2>4. QED
    BY <2>1, <2>2, <2>3, Zenon DEF HistoryTypeOK, HistoryTypes, OneFlightPerKey
<1>2. CASE JoinFlight(u)
  <2>1. HistoryTypes'
    BY <1>2, Zenon DEF JoinFlight, HistoryTypes
  <2>2. OneFlightPerKey'
    BY <1>2, Zenon DEF JoinFlight, HistoryTypes, OneFlightPerKey, Flying, Key
  <2>3. MapsAreComplete' /\ AnswerIsComplete'
    BY <1>2, Zenon DEF JoinFlight, HistoryTypes, MapsAreComplete, AnswerIsComplete
  <2>4. QED
    BY <2>1, <2>2, <2>3, Zenon DEF HistoryTypeOK, HistoryTypes, OneFlightPerKey
<1>3. ASSUME NEW c \in Coins, Check(u, c) PROVE HistoryInv'
  <2>1. /\ hpc[u] = "checking" /\ left' = [left EXCEPT ![u] = @ \ {c}]
        /\ fetched' \in {fetched, [fetched EXCEPT ![u][c] = stored[c]]}
        /\ UNCHANGED <<rows, replica, stored, filler, hpc, misses, result>>
    BY <1>3, Zenon DEF Check
  <2>2. historyFaults' \in 0..MaxHistoryFaults
    BY <1>3 DEF Check, Hit, Miss, HistoryFault, HistoryTypes
  <2>3. HistoryTypes'
    <3>1. [fetched EXCEPT ![u][c] = stored[c]] \in [Readers -> [Coins -> Nat \cup {None}]]
      BY Zenon DEF HistoryTypes
    <3>2. fetched' \in [Readers -> [Coins -> Nat \cup {None}]]
      BY <2>1, <3>1, Zenon DEF HistoryTypes
    <3>3. left' \in [Readers -> SUBSET Coins]
      BY <2>1, Zenon DEF HistoryTypes
    <3>4. QED
      BY <2>1, <2>2, <3>2, <3>3, Zenon DEF HistoryTypes
  <2>4. OneFlightPerKey'
    BY <2>1, Zenon DEF OneFlightPerKey, Flying, Key
  <2>5. \A v \in Readers : hpc[v] = "filling" => fetched'[v] = fetched[v]
    BY <2>1, Zenon DEF HistoryTypes
  <2>6. MapsAreComplete' /\ AnswerIsComplete'
    <3>1. MapsAreComplete'
      BY <2>1, <2>5 DEF HistoryTypes, MapsAreComplete
    <3>2. AnswerIsComplete'
      BY <2>1, Zenon DEF AnswerIsComplete
    <3>3. QED
      BY <3>1, <3>2, Zenon
  <2>7. QED
    BY <2>3, <2>4, <2>6, Zenon DEF HistoryTypeOK, HistoryTypes, OneFlightPerKey
<1>4. QED
  BY <1>1, <1>2, <1>3, Zenon

\* A flight queries the table and fills the cache.
LEMMA QueryKeepsHistoryInv ==
  ASSUME HistoryInv, NEW u \in Readers, QueryRows(u) \/ \E c \in Coins : Fill(u, c)
  PROVE  HistoryInv'
<1> USE HistoryAssumption, HistoryTypeSplit DEF HistoryInv, InFlight, store
<1>1. CASE QueryRows(u)
  <2>1. /\ hpc[u] = "checking" /\ hpc' = [hpc EXCEPT ![u] = "filling"]
        /\ left' = [left EXCEPT ![u] = Returned(u)]
        /\ fetched' = [fetched EXCEPT ![u] =
             [c \in Coins |-> IF c \in Returned(u) THEN replica[c] ELSE fetched[u][c]]]
        /\ UNCHANGED <<rows, replica, stored, filler, misses, result, historyFaults>>
    BY <1>1, Zenon DEF QueryRows, Queries
  <2>2. Returned(u) \subseteq Coins
    BY Zenon DEF Returned, StillMisses, HistoryTypes
  <2>3. HistoryTypes'
    BY <2>1, <2>2, Zenon DEF HistoryTypes
  <2>4. OneFlightPerKey'
    BY <2>1 DEF HistoryTypes, OneFlightPerKey, Flying, Key
  <2>5. \A c \in misses[u] \cap HasRows : fetched'[u][c] # None
    BY <2>1 DEF HistoryTypes, MapsAreComplete, Returned, StillMisses
  <2>6. MapsAreComplete' /\ AnswerIsComplete'
    <3>1. /\ hpc'[u] = "filling"
          /\ \A v \in Readers \ {u} : /\ hpc'[v] = hpc[v] /\ left'[v] = left[v]
                                      /\ fetched'[v] = fetched[v]
      BY <2>1, Zenon DEF HistoryTypes
    <3>2. MapsAreComplete'
      <4>1. UNCHANGED <<rows, replica, misses, result>> /\ hpc[u] = "checking"
        BY <2>1, Zenon
      <4>2. \A v \in Readers : v = u \/ v \in Readers \ {u}
        BY Zenon
      <4>3. QED
        BY <2>5, <3>1, <4>1, <4>2 DEF MapsAreComplete
    <3>3. AnswerIsComplete'
      BY <2>1, <3>1, Zenon DEF AnswerIsComplete
    <3>4. QED
      BY <3>2, <3>3, Zenon
  <2>7. QED
    BY <2>3, <2>4, <2>6, Zenon DEF HistoryTypeOK, HistoryTypes, OneFlightPerKey
<1>2. ASSUME NEW c \in Coins, Fill(u, c) PROVE HistoryInv'
  <2>1. /\ left' = [left EXCEPT ![u] = @ \ {c}]
        /\ stored' \in {stored, [stored EXCEPT ![c] = fetched[u][c]]}
        /\ filler' \in {filler, [filler EXCEPT ![c] = misses[u]]}
        /\ UNCHANGED <<rows, replica, hpc, misses, result, fetched>>
        /\ hpc[u] = "filling"
    BY <1>2, Zenon DEF Fill, Key
  <2>2. historyFaults' \in 0..MaxHistoryFaults
    BY <1>2 DEF Fill, HistoryFault, HistoryTypes
  <2>3. HistoryTypes'
    <3>1. stored' \in [Coins -> Nat \cup {None}]
      <4>1. fetched[u][c] \in Nat \cup {None}
        BY DEF HistoryTypes
      <4>2. [stored EXCEPT ![c] = fetched[u][c]] \in [Coins -> Nat \cup {None}]
        BY <4>1, Zenon DEF HistoryTypes
      <4>3. QED
        BY <2>1, <4>2, Zenon DEF HistoryTypes
    <3>2. filler' \in [Coins -> {None} \cup SUBSET Coins]
      <4>1. misses[u] \in {None} \cup SUBSET Coins
        BY Zenon DEF HistoryTypes
      <4>2. [filler EXCEPT ![c] = misses[u]] \in [Coins -> {None} \cup SUBSET Coins]
        BY <4>1, Zenon DEF HistoryTypes
      <4>3. QED
        BY <2>1, <4>2, Zenon DEF HistoryTypes
    <3>3. left' \in [Readers -> SUBSET Coins]
      BY <2>1, Zenon DEF HistoryTypes
    <3>4. QED
      BY <2>1, <2>2, <3>1, <3>2, <3>3, Zenon DEF HistoryTypes
  <2>4. OneFlightPerKey'
    BY <2>1, Zenon DEF OneFlightPerKey, Flying, Key
  <2>5. MapsAreComplete' /\ AnswerIsComplete'
    BY <2>1 DEF HistoryTypes, MapsAreComplete, AnswerIsComplete
  <2>6. QED
    BY <2>3, <2>4, <2>5, Zenon DEF HistoryTypeOK, HistoryTypes, OneFlightPerKey
<1>3. QED
  BY <1>1, <1>2, Zenon

\* A flight lands: its passengers, and nobody else, leave it.
LEMMA LandKeepsInv ==
  ASSUME HistoryInv, NEW u \in Readers, Land(u)
  PROVE  HistoryInv'
<1> USE HistoryAssumption, HistoryTypeSplit DEF HistoryInv, InFlight, store
<1>1. /\ hpc[u] \in InFlight
      /\ hpc' = [v \in Readers |-> IF v \in Passengers(u) THEN "done" ELSE hpc[v]]
      /\ result' = [v \in Readers |-> IF v \in Passengers(u)
           THEN result[v] \cup {c \in Coins : fetched[u][c] # None} ELSE result[v]]
      /\ fetched' = [fetched EXCEPT ![u] = NoMap]
      /\ UNCHANGED <<rows, replica, stored, filler, left, misses, historyFaults>>
  BY Zenon DEF Land
<1>2. HistoryTypes'
  <2>1. NoMap \in [Coins -> Nat \cup {None}]
    BY Zenon DEF NoMap
  <2>2. fetched' \in [Readers -> [Coins -> Nat \cup {None}]]
    BY <1>1, <2>1, Zenon DEF HistoryTypes
  <2>3. result' \in [Readers -> SUBSET Coins]
    BY <1>1, Zenon DEF HistoryTypes
  <2>4. QED
    BY <1>1, <2>2, <2>3, Zenon DEF HistoryTypes
<1>3. OneFlightPerKey'
  BY <1>1, Zenon DEF HistoryTypes, OneFlightPerKey, Flying, Key, Passengers
<1>4. \A c \in misses[u] \cap HasRows : fetched[u][c] # None
  BY Zenon DEF Land, StillMisses, MapsAreComplete
<1>5. AnswerIsComplete'
  <2>1. SUFFICES ASSUME NEW v \in Passengers(u)
                 PROVE  CoinsOf[v] \cap HasRows \subseteq result'[v]
    BY <1>1, Zenon DEF HistoryTypes, AnswerIsComplete
  <2>2. v \in Readers /\ misses[v] = misses[u] /\ hpc[v] \in {"waiting", "checking", "filling"}
    BY <1>1, Zenon DEF Passengers, Key
  <2>3. CoinsOf[v] \cap HasRows \subseteq result[v] \cup misses[v]
    BY <2>2, Zenon DEF MapsAreComplete
  <2>4. QED
    BY <1>1, <1>4, <2>2, <2>3, Zenon
<1>6. MapsAreComplete'
  BY <1>1, Zenon DEF HistoryTypes, MapsAreComplete, Passengers
<1>7. QED
  BY <1>2, <1>3, <1>5, <1>6, Zenon DEF HistoryTypeOK, HistoryTypes, OneFlightPerKey

\* A query that fails ends the flight, too.
LEMMA QueryFailsKeepsInv ==
  ASSUME HistoryInv, NEW u \in Readers, QueryFails(u)
  PROVE  HistoryInv'
<1> USE HistoryAssumption, HistoryTypeSplit DEF HistoryInv, InFlight, store
<1>1. /\ hpc[u] \in InFlight
      /\ hpc' = [v \in Readers |-> IF v \in Passengers(u) THEN "failed" ELSE hpc[v]]
      /\ fetched' = [fetched EXCEPT ![u] = NoMap]
      /\ UNCHANGED <<rows, replica, stored, filler, left, misses, result>>
  BY Zenon DEF QueryFails, Queries
<1>2. HistoryTypes'
  <2>1. NoMap \in [Coins -> Nat \cup {None}]
    BY Zenon DEF NoMap
  <2>2. fetched' \in [Readers -> [Coins -> Nat \cup {None}]]
    BY <1>1, <2>1, Zenon DEF HistoryTypes
  <2>3. historyFaults' \in 0..MaxHistoryFaults
    BY DEF QueryFails, HistoryFault, HistoryTypes
  <2>4. QED
    BY <1>1, <2>2, <2>3, Zenon DEF HistoryTypes
<1>3. OneFlightPerKey'
  BY <1>1, Zenon DEF HistoryTypes, OneFlightPerKey, Flying, Key, Passengers
<1>4. MapsAreComplete' /\ AnswerIsComplete'
  BY <1>1, Zenon DEF HistoryTypes, MapsAreComplete, AnswerIsComplete, Passengers
<1>5. QED
  BY <1>2, <1>3, <1>4, Zenon DEF HistoryTypeOK, HistoryTypes, OneFlightPerKey

LEMMA HistoryNextInv == HistoryInv /\ [HistoryNext]_historyVars => HistoryInv'
<1> SUFFICES ASSUME HistoryInv, [HistoryNext]_historyVars PROVE HistoryInv'
  BY Zenon
<1>1. CASE Replicate \/ \E c \in Coins : ChangeRows(c) \/ Expire(c)
  BY <1>1, StoreKeepsInv, Zenon
<1>2. ASSUME NEW u \in Readers, Get(u) \/ Return(u) PROVE HistoryInv'
  BY <1>2, CallKeepsInv, Zenon
<1>3. ASSUME NEW u \in Readers, Read(u) PROVE HistoryInv'
  BY <1>3, LookKeepsInv, FlightKeepsInv, QueryKeepsHistoryInv, LandKeepsInv, Zenon DEF Read
<1>4. ASSUME NEW u \in Readers, QueryFails(u) PROVE HistoryInv'
  BY <1>4, QueryFailsKeepsInv, Zenon
<1>5. CASE UNCHANGED historyVars
  BY <1>5, SMTT(40) DEF historyVars, store, callers, HistoryInv, HistoryTypeOK, MapsAreComplete,
     AnswerIsComplete, Flying, Key, InFlight
<1>6. QED
  BY <1>1, <1>2, <1>3, <1>4, <1>5, Zenon DEF HistoryNext
-----------------------------------------------------------------------------
\* An entry that a flight has set is there until it expires, and a flight fills with what
\* its query returned.
FilledIsStored ==
  /\ \A c \in Coins : filler[c] # None => stored[c] # None
  /\ \A u \in Readers : hpc[u] = "filling" => \A c \in left[u] : fetched[u][c] # None

\* Without failures, a coin that the second look has missed has no entry of the flight's key:
\* there was none when it looked, and the key has no other leader that could have set it since.
CheckedIsUnfilled ==
  historyFaults = 0 =>
    \A u \in Readers : hpc[u] = "checking" =>
      \A c \in StillMisses(u) \ left[u] : filler[c] # Key(u)

SecondLook == FilledIsStored /\ CheckedIsUnfilled

LEMMA SecondLookInit == HistoryInit => SecondLook
  BY Zenon DEF HistoryInit, SecondLook, FilledIsStored, CheckedIsUnfilled, NoMap

\* A step that touches neither the entries nor what the leaders hold.
LEMMA OtherKeepsSecondLook ==
  ASSUME HistoryTypes, SecondLook, UNCHANGED <<stored, filler>>, historyFaults' \in Nat,
         historyFaults \in Nat, historyFaults' >= historyFaults,
         \A v \in Readers : hpc'[v] \in InFlight =>
           \/ /\ hpc'[v] = hpc[v] /\ left'[v] = left[v]
              /\ misses'[v] = misses[v] /\ fetched'[v] = fetched[v]
           \/ hpc'[v] = "checking" /\ left'[v] = misses'[v]
  PROVE  SecondLook'
<1>1. historyFaults' = 0 => historyFaults = 0
  OBVIOUS
<1>2. FilledIsStored'
  BY Zenon DEF SecondLook, FilledIsStored, InFlight
<1>3. ASSUME historyFaults' = 0, NEW v \in Readers, hpc'[v] = "checking",
             NEW c \in StillMisses(v)' \ left'[v]
      PROVE  filler'[c] # misses'[v]
  BY <1>1, <1>3, Zenon DEF SecondLook, CheckedIsUnfilled, InFlight, StillMisses, Key
<1>4. CheckedIsUnfilled'
  BY <1>3, Zenon DEF CheckedIsUnfilled, Key
<1>5. QED
  BY <1>2, <1>4, Zenon DEF SecondLook

\* One round of the second look.
LEMMA CheckKeepsSecondLook ==
  ASSUME HistoryTypes, SecondLook, NEW u \in Readers, NEW c \in Coins, Check(u, c)
  PROVE  SecondLook'
<1>1. /\ hpc[u] = "checking" /\ UNCHANGED <<stored, filler, hpc, misses>>
      /\ left' = [left EXCEPT ![u] = @ \ {c}]
      /\ \/ stored[c] # None /\ UNCHANGED historyFaults /\ fetched' = [fetched EXCEPT ![u][c] = stored[c]]
         \/ stored[c] = None /\ UNCHANGED historyFaults /\ UNCHANGED fetched
         \/ historyFaults' = historyFaults + 1 /\ UNCHANGED fetched
  BY Zenon DEF Check, Hit, Miss, HistoryFault, store
<1>2. FilledIsStored'
  BY <1>1 DEF SecondLook, FilledIsStored, HistoryTypes
<1>3. ASSUME historyFaults' = 0, NEW v \in Readers, hpc'[v] = "checking",
             NEW d \in StillMisses(v)' \ left'[v]
      PROVE  filler'[d] # misses'[v]
  <2>1. historyFaults \in Nat /\ historyFaults = 0 /\ historyFaults' # historyFaults + 1
    BY <1>1, <1>3 DEF HistoryTypes
  <2>2. CASE v = u /\ d = c
    <3>1. stored[c] = None
      BY <1>1, <1>3, <2>1, <2>2 DEF StillMisses, HistoryTypes
    <3>2. filler[c] = None /\ misses[u] \in SUBSET Coins
      BY <3>1, Zenon DEF SecondLook, FilledIsStored, HistoryTypes
    <3>3. QED
      BY <1>1, <2>2, <3>2, NoneAssumption, Zenon
  <2>3. CASE ~(v = u /\ d = c)
    <3>1. d \in StillMisses(v) \ left[v]
      BY <1>1, <1>3, <2>3 DEF StillMisses, HistoryTypes
    <3>2. QED
      BY <1>1, <1>3, <2>1, <3>1, Zenon DEF SecondLook, CheckedIsUnfilled, Key
  <2>4. QED
    BY <2>2, <2>3, Zenon
<1>4. CheckedIsUnfilled'
  BY <1>3, Zenon DEF CheckedIsUnfilled, Key
<1>5. QED
  BY <1>2, <1>4, Zenon DEF SecondLook

\* The query, and one Set after it.
LEMMA FillKeepsSecondLook ==
  ASSUME HistoryTypes, OneFlightPerKey, SecondLook, NEW u \in Readers,
         QueryRows(u) \/ \E c \in Coins : Fill(u, c)
  PROVE  SecondLook'
<1>1. CASE QueryRows(u)
  <2>1. /\ UNCHANGED <<stored, filler, misses, historyFaults>> /\ hpc' = [hpc EXCEPT ![u] = "filling"]
        /\ left' = [left EXCEPT ![u] = Returned(u)]
        /\ fetched' = [fetched EXCEPT ![u] =
             [c \in Coins |-> IF c \in Returned(u) THEN replica[c] ELSE @[c]]]
    BY <1>1, Zenon DEF QueryRows, store
  <2>2. \A c \in Returned(u) : c \in Coins /\ replica[c] # None
    BY HistoryAssumption DEF Returned, StillMisses, HistoryTypes
  <2>3. \A c \in left'[u] : fetched'[u][c] # None
    <3>1. left'[u] = Returned(u)
      BY <2>1, Zenon DEF HistoryTypes
    <3>2. fetched'[u] = [c \in Coins |-> IF c \in Returned(u) THEN replica[c] ELSE fetched[u][c]]
      BY <2>1, Zenon DEF HistoryTypes
    <3>3. QED
      BY <2>2, <3>1, <3>2, Zenon
  <2>4. \A v \in Readers \ {u} : hpc'[v] = hpc[v] /\ left'[v] = left[v] /\ fetched'[v] = fetched[v]
    BY <2>1, Zenon DEF HistoryTypes
  <2>5. FilledIsStored'
    <3>1. stored' = stored /\ filler' = filler
      BY <2>1, Zenon
    <3>2. ASSUME NEW v \in Readers, hpc'[v] = "filling", NEW c \in left'[v] PROVE fetched'[v][c] # None
      BY <2>3, <2>4, <3>2, Zenon DEF SecondLook, FilledIsStored
    <3>3. QED
      BY <3>1, <3>2, Zenon DEF SecondLook, FilledIsStored
  <2>6. hpc'[u] = "filling"
    BY <2>1, Zenon DEF HistoryTypes
  <2>7. CheckedIsUnfilled'
    BY <2>1, <2>4, <2>6 DEF SecondLook, CheckedIsUnfilled, StillMisses, Key
  <2>8. QED
    BY <2>5, <2>7, Zenon DEF SecondLook
<1>2. ASSUME NEW c \in Coins, Fill(u, c) PROVE SecondLook'
  <2>1. /\ hpc[u] = "filling" /\ c \in left[u] /\ UNCHANGED <<hpc, misses, fetched>>
        /\ left' = [left EXCEPT ![u] = @ \ {c}]
        /\ \/ /\ stored' = [stored EXCEPT ![c] = fetched[u][c]]
              /\ filler' = [filler EXCEPT ![c] = misses[u]]
              /\ UNCHANGED historyFaults
           \/ historyFaults' = historyFaults + 1 /\ UNCHANGED <<stored, filler>>
    BY <1>2, Zenon DEF Fill, HistoryFault, Key
  <2>2. fetched[u][c] # None
    BY <2>1, Zenon DEF SecondLook, FilledIsStored
  <2>3. FilledIsStored'
    BY <2>1, <2>2, SMTT(40) DEF SecondLook, FilledIsStored, HistoryTypes
  <2>4. ASSUME historyFaults' = 0, NEW v \in Readers, hpc'[v] = "checking",
               NEW d \in StillMisses(v)' \ left'[v]
        PROVE  filler'[d] # misses'[v]
    <3>1. historyFaults \in Nat /\ historyFaults = 0 /\ historyFaults' # historyFaults + 1
      BY <2>1, <2>4, SMTT(40) DEF HistoryTypes
    <3>2. v # u /\ left'[v] = left[v] /\ d \in StillMisses(v) \ left[v]
      BY <2>1, <2>4, Zenon DEF StillMisses, HistoryTypes
    <3>3. filler[d] # misses[v]
      BY <2>1, <2>4, <3>1, <3>2, Zenon DEF SecondLook, CheckedIsUnfilled, Key
    <3>4. misses[u] # misses[v]
      BY <2>1, <2>4, <3>2, Zenon DEF OneFlightPerKey, InFlight, Key
    <3>5. filler \in [Coins -> {None} \cup SUBSET Coins] /\ misses' = misses
      BY <2>1, Zenon DEF HistoryTypes
    <3>6. filler' = filler \/ filler' = [filler EXCEPT ![c] = misses[u]]
      BY <2>1, Zenon
    <3>7. d \in Coins
      BY <3>2, Zenon DEF StillMisses, HistoryTypes
    <3>8. QED
      BY <3>3, <3>4, <3>5, <3>6, <3>7, Zenon
  <2>5. CheckedIsUnfilled'
    BY <2>4, Zenon DEF CheckedIsUnfilled, Key
  <2>6. QED
    BY <2>3, <2>5, Zenon DEF SecondLook
<1>3. QED
  BY <1>1, <1>2, Zenon

\* Every step of the cache.
LEMMA SecondLookNext ==
  ASSUME HistoryInv, SecondLook, [HistoryNext]_historyVars
  PROVE  SecondLook'
<1> USE HistoryTypeSplit DEF HistoryInv
<1>1. historyFaults \in Nat
  BY HistoryAssumption DEF HistoryTypes
<1>2. ASSUME NEW c \in Coins, Expire(c) PROVE SecondLook'
  <2>1. /\ UNCHANGED <<hpc, left, misses, fetched, historyFaults>>
        /\ stored' = [stored EXCEPT ![c] = None] /\ filler' = [filler EXCEPT ![c] = None]
    BY <1>2, Zenon DEF Expire, callers
  <2>2. \A d \in Coins : filler'[d] = None \/ (filler'[d] = filler[d] /\ stored'[d] = stored[d])
    BY <2>1, Zenon DEF HistoryTypes
  <2>3. FilledIsStored'
    BY <2>1, <2>2, Zenon DEF SecondLook, FilledIsStored
  <2>4. ASSUME historyFaults' = 0, NEW v \in Readers, hpc'[v] = "checking",
               NEW d \in StillMisses(v)' \ left'[v]
        PROVE  filler'[d] # misses'[v]
    <3>1. d \in StillMisses(v) \ left[v] /\ d \in Coins
      BY <2>1, <2>4, Zenon DEF StillMisses, HistoryTypes
    <3>2. filler[d] # misses[v]
      BY <2>1, <2>4, <3>1, Zenon DEF SecondLook, CheckedIsUnfilled, Key
    <3>3. misses[v] \in SUBSET Coins
      BY Zenon DEF HistoryTypes
    <3>4. QED
      BY <2>1, <2>2, <3>1, <3>2, <3>3, NoneAssumption, Zenon
  <2>5. CheckedIsUnfilled'
    BY <2>4, Zenon DEF CheckedIsUnfilled, Key
  <2>6. QED
    BY <2>3, <2>5, Zenon DEF SecondLook
<1>3. CASE \/ Replicate \/ \E c \in Coins : ChangeRows(c)
           \/ UNCHANGED historyVars
  <2>1. UNCHANGED <<stored, filler, hpc, left, misses, fetched, historyFaults>>
    BY <1>3, Zenon DEF Replicate, ChangeRows, historyVars, store, callers
  <2>2. QED
    BY <2>1, Zenon DEF SecondLook, FilledIsStored, CheckedIsUnfilled, StillMisses, Key
<1>4. ASSUME NEW u \in Readers,
             \/ Get(u) \/ LeadFlight(u) \/ JoinFlight(u) \/ Land(u) \/ QueryFails(u) \/ Return(u)
             \/ \E c \in Coins : Look(u, c)
      PROVE  SecondLook'
  <2>1. UNCHANGED <<stored, filler>>
    BY <1>4, Zenon DEF Get, LeadFlight, JoinFlight, Land, QueryFails, Return, Look, store
  <2>2. historyFaults' \in Nat /\ historyFaults' >= historyFaults
    <3>1. historyFaults' = historyFaults \/ historyFaults' = historyFaults + 1
      <4>1. CASE Get(u) \/ LeadFlight(u) \/ JoinFlight(u) \/ Land(u) \/ Return(u)
        BY <4>1, Zenon DEF Get, LeadFlight, JoinFlight, Land, Return
      <4>2. CASE QueryFails(u)
        BY <4>2, Zenon DEF QueryFails, HistoryFault
      <4>3. ASSUME NEW c \in Coins, Look(u, c)
            PROVE  historyFaults' = historyFaults \/ historyFaults' = historyFaults + 1
        BY <4>3, Zenon DEF Look, Hit, Miss, HistoryFault
      <4>4. QED
        BY <1>4, <4>1, <4>2, <4>3, Zenon
    <3>2. QED
      BY <1>1, <3>1
  <2>3. \A v \in Readers : hpc'[v] \in InFlight =>
           \/ /\ hpc'[v] = hpc[v] /\ left'[v] = left[v]
              /\ misses'[v] = misses[v] /\ fetched'[v] = fetched[v]
           \/ hpc'[v] = "checking" /\ left'[v] = misses'[v]
    <3>1. CASE Get(u) \/ JoinFlight(u) \/ Return(u)
      BY <3>1, Zenon DEF Get, JoinFlight, Return, HistoryTypes, InFlight
    <3>2. CASE LeadFlight(u)
      BY <3>2, Zenon DEF LeadFlight, HistoryTypes
    <3>3. CASE Land(u)
      BY <3>3, Zenon DEF Land, HistoryTypes, InFlight, Passengers
    <3>4. CASE QueryFails(u)
      BY <3>4, Zenon DEF QueryFails, HistoryTypes, InFlight, Passengers
    <3>5. ASSUME NEW c \in Coins, Look(u, c)
          PROVE  /\ hpc'[u] \notin InFlight /\ UNCHANGED fetched
                 /\ \A v \in Readers \ {u} : /\ hpc'[v] = hpc[v] /\ left'[v] = left[v]
                                             /\ misses'[v] = misses[v]
      BY <3>5, Zenon DEF Look, HistoryTypes, InFlight
    <3>6. QED
      BY <1>4, <3>1, <3>2, <3>3, <3>4, <3>5, Zenon
  <2>4. QED
    BY <1>1, <2>1, <2>2, <2>3, OtherKeepsSecondLook, Zenon
<1>5. ASSUME NEW u \in Readers, Read(u) PROVE SecondLook'
  BY <1>4, <1>5, CheckKeepsSecondLook, FillKeepsSecondLook, Zenon DEF Read
<1>6. QED
  BY <1>2, <1>3, <1>4, <1>5, Zenon DEF HistoryNext

\* A query of a coin whose entry was set under the same key has paid for a failure.
LEMMA QueryOnce ==
  ASSUME HistoryInv, SecondLook, NEW u \in Readers, QueryRows(u)
  PROVE  historyFaults > 0 \/ \A c \in Returned(u) : filler[c] # Key(u)
<1>1. historyFaults = 0 \/ historyFaults > 0
  BY HistoryAssumption, HistoryTypeSplit DEF HistoryInv, HistoryTypes
<1>2. hpc[u] = "checking" /\ left[u] = {}
  BY Zenon DEF QueryRows, Queries
<1>3. QED
  BY <1>1, <1>2, Zenon DEF SecondLook, CheckedIsUnfilled, Returned
-----------------------------------------------------------------------------
\* A step of the gateway is a step, or no step, of each of its two parts.
LEMMA GatewayStep ==
  [GatewayNext]_gatewayVars => [LimiterNext]_limiterVars /\ [HistoryNext]_historyVars
<1> SUFFICES ASSUME [GatewayNext]_gatewayVars
             PROVE  [LimiterNext]_limiterVars /\ [HistoryNext]_historyVars
  BY Zenon
<1> USE GatewayAssumption DEF LimiterNext, HistoryNext
<1>1. ASSUME NEW u \in Requests,
             PassLimiter(u) \/ Handle(u) \/ ReadHistories(u) \/ ReadFails(u) \/ Respond(u)
      PROVE  [LimiterNext]_limiterVars /\ [HistoryNext]_historyVars
  BY <1>1, Zenon DEF PassLimiter, Handle, ReadHistories, ReadFails, Respond
<1>2. CASE (Sweep \/ Tick) /\ UNCHANGED historyVars
  BY <1>2, Zenon
<1>3. CASE (Replicate \/ \E c \in Coins : ChangeRows(c) \/ Expire(c)) /\ UNCHANGED limiterVars
  BY <1>3, Zenon
<1>4. CASE UNCHANGED gatewayVars
  BY <1>4, Zenon DEF gatewayVars
<1>5. QED
  BY <1>1, <1>2, <1>3, <1>4, Zenon DEF GatewayNext

LEMMA GatewayInvariant == GatewaySafety => [](LimiterInv /\ HistoryInv)
<1>1. GatewayInit => LimiterInv /\ HistoryInv
  BY LimiterInitInv, HistoryInitInv, Zenon DEF GatewayInit
<1>2. LimiterInv /\ HistoryInv /\ [GatewayNext]_gatewayVars => (LimiterInv /\ HistoryInv)'
  BY GatewayStep, LimiterNextInv, HistoryNextInv, Zenon
<1>3. QED
  BY <1>1, <1>2, PTL DEF GatewaySafety

\* The limiter keeps its types whatever the handlers behind it do, and no limiter serves
\* two clients (IPRateLimiter, handler.go).
THEOREM LimiterTypeCorrect == GatewaySafety => []LimiterTypeOK
<1>1. LimiterInv => LimiterTypeOK
  BY Zenon DEF LimiterInv
<1>2. QED
  BY <1>1, GatewayInvariant, PTL

\* Any number of requests of a client look up, create and refresh its entry side by side,
\* and the sweeper runs between any two steps: a bucket is lost only by a client that was
\* silent for the sweeper's interval or has a request between two critical sections of
\* GetLimiter (handler.go).
THEOREM BucketIsKept == GatewaySafety => ClientKeepsBucket
<1>1. LimiterInv /\ [GatewayNext]_gatewayVars =>
      [\A c \in Clients : ips[c] # NoLimiter /\ ips'[c] # ips[c] =>
         /\ ips'[c] = NoLimiter
         /\ \/ used[c] = Expired
            \/ \E q \in Requests : ClientOf[q] = c /\ lpc[q] \in {"refresh", "create"}]_limiterVars
  BY GatewayStep, BucketStays, Zenon
<1>2. QED
  BY <1>1, GatewayInvariant, PTL DEF GatewaySafety, ClientKeepsBucket

\* The variables of GetPriceHistories keep their types, a key has at most one leader, and
\* nobody waits for a flight that has landed (cached_repo.go).
THEOREM HistoryTypeCorrect == GatewaySafety => []HistoryTypeOK
<1>1. HistoryInv => HistoryTypeOK
  BY Zenon DEF HistoryInv
<1>2. QED
  BY <1>1, GatewayInvariant, PTL

\* Whatever hits, flights of overlapping batches and expiries come in between, a caller that
\* returns without error has every coin with rows it asked for (cached_repo.go).
THEOREM AnswersAreComplete == GatewaySafety => []AnswerIsComplete
<1>1. HistoryInv => AnswerIsComplete
  BY Zenon DEF HistoryInv
<1>2. QED
  BY <1>1, GatewayInvariant, PTL

\* Flights with the same misses follow each other, flights with other misses run beside them,
\* and entries expire at any time: without a failed call no flight queries a coin whose entry
\* an earlier flight of its key has set, because the second look finds it (cached_repo.go).
THEOREM SecondLookSparesQueries == GatewaySafety => QueryOncePerKey
<1>1. GatewayInit => SecondLook
  BY SecondLookInit, Zenon DEF GatewayInit
<1>2. HistoryInv /\ SecondLook /\ [GatewayNext]_gatewayVars => SecondLook'
  BY GatewayStep, SecondLookNext, Zenon
<1>3. HistoryInv /\ SecondLook =>
      [\A u \in Readers : QueryRows(u) =>
         historyFaults > 0 \/ \A c \in Returned(u) : filler[c] # Key(u)]_historyVars
  BY QueryOnce, Zenon
<1>4. QED
  BY <1>1, <1>2, <1>3, GatewayInvariant, PTL DEF GatewaySafety, QueryOncePerKey
================================================================================

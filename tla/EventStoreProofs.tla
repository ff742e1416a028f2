--------------------------- MODULE EventStoreProofs ---------------------------
(***************************************************************************)
(* Proofs about EventStore for any coins, sessions, hash function and      *)
(* sequence bound.  The inductive invariant StoreInv adds to the safety    *)
(* properties what makes them inductive: a session past the lock owns the  *)
(* lock of its aggregate, so nobody else can change that aggregate's rows  *)
(* between its version check and its commit.                               *)
(***************************************************************************)
EXTENDS Replay, FiniteSetTheorems, TLAPS, WellFoundedInduction

InTx(w) == pc[w] \in {"locked", "checked", "inserted", "ready"}
Checked(w) == pc[w] \in {"checked", "inserted", "ready"}

\* A session inside its transaction holds the advisory lock of its aggregate.
HoldsLock == \A w \in Writers : InTx(w) => lock[LockKey[coin[w]]] = w

\* Once checked, the version to append stays the one after the current version.
VersionIsNext ==
  \A w \in Writers :
    /\ pc[w] # "idle" => version[w] > 0
    /\ Checked(w) => version[w] = CurrentVersion(coin[w]) + 1

\* A transaction holds at most its one row, with an id issued after every id of
\* the aggregate's committed rows.
TxRow ==
  \A w \in Writers :
    /\ pc[w] \notin {"inserted", "ready"} => txEvents[w] = {}
    /\ \A e \in txEvents[w] :
         /\ e.aggregate_id = coin[w] /\ e.version = version[w]
         /\ e.id <= eventsSeq
         /\ \A f \in Rows(coin[w]) : f.id < e.id
         /\ \A f \in txEvents[w] : f = e
    /\ pc[w] \in {"inserted", "ready"} => txEvents[w] # {}

\* Committed ids have been issued, and the current version is a number.
Issued ==
  /\ \A e \in events : e.id <= eventsSeq
  /\ \A c \in Coins : CurrentVersion(c) \in Nat

StoreInv ==
  /\ StoreTypeOK /\ HoldsLock /\ VersionIsNext /\ TxRow /\ Issued
  /\ GaplessVersions /\ IdsFollowVersions
-----------------------------------------------------------------------------
\* A nonempty set of natural numbers has a smallest element.
LEMMA SmallestExists ==
  ASSUME NEW S, S \subseteq Nat, S # {}
  PROVE  \E m \in S : \A n \in S : m <= n
<1>1. IsWellFoundedOn(OpToRel(<, Nat), Nat)
  BY NatLessThanWellFounded, Zenon
<1>2. \A x, y \in Nat : <<x, y>> \in OpToRel(<, Nat) <=> x < y
  BY Zenon DEF OpToRel
<1>3. ASSUME NEW R, IsWellFoundedOn(R, Nat), \A x, y \in Nat : <<x, y>> \in R <=> x < y
      PROVE  \E m \in S : \A n \in S : m <= n
  <2>1. IsWellFoundedOn(R, Nat)
    BY <1>3, Zenon
  <2>2. PICK m \in S : \A n \in S : ~(<<n, m>> \in R)
    BY <2>1, WFMin, Zenon
  <2>3. \A n \in S : ~(n < m)
    BY <1>3, <2>2, Zenon
  <2>4. QED
    BY <2>3
<1>4. QED
  BY <1>1, <1>2, <1>3, Zenon

\* The largest element of 1..n together with 0 is n.
LEMMA MaxOfPrefix == \A n \in Nat : Max({0} \cup 1..n) = n
<1>1. SUFFICES ASSUME NEW n \in Nat PROVE Max({0} \cup 1..n) = n
  BY Zenon
<1>2. n \in {0} \cup 1..n /\ \A y \in {0} \cup 1..n : n >= y
  OBVIOUS
<1>3. ASSUME NEW x \in {0} \cup 1..n, \A y \in {0} \cup 1..n : x >= y PROVE x = n
  BY <1>2, <1>3
<1>4. QED
  BY <1>2, <1>3, Zenon DEF Max

\* With gapless versions, hydrating from GetLatestEvent yields the current version.
LEMMA HydratedVersion ==
  ASSUME GaplessVersions, Issued, StoreTypeOK, NEW c \in Coins
  PROVE  Hydrate(c).version = CurrentVersion(c)
<1> DEFINE n == CurrentVersion(c)
<1>1. n \in Nat /\ {e.version : e \in Rows(c)} = 1..n
  BY Zenon DEF GaplessVersions, Issued
<1>2. CASE Rows(c) = {}
  <2>1. n = 0
    BY <1>1, <1>2
  <2>2. QED
    BY <1>2, <2>1, Zenon DEF Hydrate, NewMarketAggregate
<1>3. CASE Rows(c) # {}
  <2>1. PICK e \in Rows(c) : e.version = n
    BY <1>1, <1>3
  <2>2. \A f \in Rows(c) : f.version <= e.version
    BY <1>1, <2>1
  <2>3. GetLatestEvent(c) \in Rows(c) /\ \A f \in Rows(c) : f.version <= GetLatestEvent(c).version
    BY <2>2, Zenon DEF GetLatestEvent
  <2>4. GetLatestEvent(c).version = n
    <3>1. GetLatestEvent(c).version \in 1..n
      BY <1>1, <2>3, Zenon
    <3>2. QED
      BY <1>1, <2>1, <2>3, <3>1
  <2>5. QED
    BY <1>3, <2>4, Zenon DEF Hydrate, Apply
<1>4. QED
  BY <1>2, <1>3, Zenon

\* Sessions inside their transaction on the same aggregate are the same session.
LEMMA LockExcludes ==
  ASSUME HoldsLock, NEW u \in Writers, NEW w \in Writers, InTx(u), InTx(w), coin[u] = coin[w]
  PROVE  u = w
  BY Zenon DEF HoldsLock

\* A step that leaves the events table alone leaves every reading of it alone.
LEMMA SameRows ==
  ASSUME events' = events
  PROVE  /\ \A c \in Coins : Rows(c)' = Rows(c) /\ CurrentVersion(c)' = CurrentVersion(c)
         /\ GaplessVersions => GaplessVersions'
         /\ IdsFollowVersions => IdsFollowVersions'
<1>1. \A c \in Coins : Rows(c)' = Rows(c)
  BY Zenon DEF Rows
<1>2. \A c \in Coins : CurrentVersion(c)' = CurrentVersion(c)
  BY <1>1, Zenon DEF CurrentVersion
<1>3. GaplessVersions => GaplessVersions'
  BY <1>1, <1>2 DEF GaplessVersions
<1>4. QED
  BY <1>1, <1>2, <1>3, Zenon DEF IdsFollowVersions

\* Ending a transaction without committing keeps the invariant.
LEMMA EndTxKeepsInv ==
  ASSUME StoreInv, NEW w \in Writers, EndTx(w), UNCHANGED tables
  PROVE  StoreInv'
<1> USE DEF StoreInv
<1>1. AnyCoin \in Coins
  BY StoreAssumption, Zenon DEF AnyCoin
<1>2. events' = events /\ eventsSeq' = eventsSeq
  BY Zenon DEF tables
<1>3. StoreTypeOK'
  BY <1>1, Zenon DEF StoreTypeOK, EndTx, tables
<1>4. HoldsLock'
  <2>1. SUFFICES ASSUME NEW u \in Writers, InTx(u)' PROVE (lock[LockKey[coin[u]]] = u)'
    BY Zenon DEF HoldsLock
  <2>2. u # w /\ InTx(u) /\ coin'[u] = coin[u]
    BY <2>1, Zenon DEF InTx, EndTx, StoreTypeOK
  <2>3. lock[LockKey[coin[u]]] = u /\ LockKey[coin[u]] \in LockKeys
    BY <2>2, Zenon DEF HoldsLock, LockKeys, StoreTypeOK
  <2>4. QED
    BY <2>2, <2>3, Zenon DEF EndTx
<1>5. VersionIsNext'
  BY <1>2, SameRows, Zenon DEF VersionIsNext, EndTx, StoreTypeOK, Checked
<1>6. TxRow'
  BY <1>2, SameRows DEF TxRow, EndTx, StoreTypeOK
<1>7. Issued' /\ GaplessVersions' /\ IdsFollowVersions'
  BY <1>2, SameRows, Zenon DEF Issued
<1>8. QED
  BY <1>3, <1>4, <1>5, <1>6, <1>7, Zenon

\* Committing appends exactly the next version of one aggregate.
LEMMA CommitAppends ==
  ASSUME StoreInv, NEW w \in Writers, Commit(w), NEW c \in Coins, coin[w] = c
  PROVE  \E e \in Event :
           /\ txEvents[w] = {e} /\ events' = events \cup {e}
           /\ e.aggregate_id = c /\ e.version = CurrentVersion(c) + 1
           /\ e.id <= eventsSeq /\ \A f \in Rows(c) : f.id < e.id
           /\ \A d \in Coins : Rows(d)' = IF d = c THEN Rows(d) \cup {e} ELSE Rows(d)
           /\ \A d \in Coins : CurrentVersion(d)' =
                IF d = c THEN CurrentVersion(d) + 1 ELSE CurrentVersion(d)
<1> USE DEF StoreInv
<1> DEFINE n == CurrentVersion(c)
<1>1. pc[w] = "ready" /\ events' = events \cup txEvents[w]
  BY Zenon DEF Commit, StoreTypeOK
<1>2. PICK e \in txEvents[w] : TRUE
  BY <1>1, Zenon DEF TxRow
<1>3. e \in Event /\ txEvents[w] = {e}
  BY <1>1, <1>2 DEF TxRow, StoreTypeOK
<1>4. e.aggregate_id = c /\ e.id <= eventsSeq /\ \A f \in Rows(c) : f.id < e.id
  BY <1>1, <1>2, Zenon DEF TxRow
<1>5. n \in Nat /\ e.version = n + 1
  BY <1>1, <1>2, Zenon DEF TxRow, VersionIsNext, Checked, Issued
<1>6. \A d \in Coins : Rows(d)' = IF d = c THEN Rows(d) \cup {e} ELSE Rows(d)
  BY <1>1, <1>3, <1>4, Zenon DEF Rows
<1>7. \A d \in Coins \ {c} : CurrentVersion(d)' = CurrentVersion(d)
  BY <1>6, Zenon DEF CurrentVersion
<1>8. CurrentVersion(c)' = n + 1
  <2>1. {f.version : f \in Rows(c)} = 1..n
    BY <1>1, Zenon DEF GaplessVersions
  <2>2. {f.version : f \in Rows(c) \cup {e}} = {f.version : f \in Rows(c)} \cup {e.version}
    BY Zenon
  <2>3. {f.version : f \in Rows(c) \cup {e}} = 1..(n + 1)
    BY <1>5, <2>1, <2>2
  <2>4. CurrentVersion(c)' = Max({0} \cup 1..(n + 1))
    <3>1. Max({0} \cup {f.version : f \in Rows(c)})' = Max({0} \cup {f.version : f \in Rows(c) \cup {e}})
      BY <1>1, <1>6, Zenon
    <3>2. QED
      BY <2>3, <3>1, <1>1, <1>6, Zenon DEF CurrentVersion
  <2>5. QED
    BY <1>5, <2>4, MaxOfPrefix
<1>9. QED
  BY <1>1, <1>3, <1>4, <1>5, <1>6, <1>7, <1>8, Zenon

\* The commit keeps the invariant: only the lock holder's aggregate grows.
LEMMA CommitKeepsInv ==
  ASSUME StoreInv, NEW w \in Writers, Commit(w)
  PROVE  StoreInv'
<1> USE DEF StoreInv
<1>1. PICK c \in Coins : coin[w] = c
  BY Zenon DEF StoreTypeOK
<1>2. PICK e \in Event :
        /\ txEvents[w] = {e} /\ events' = events \cup {e}
        /\ e.aggregate_id = c /\ e.version = CurrentVersion(c) + 1
        /\ e.id <= eventsSeq /\ \A f \in Rows(c) : f.id < e.id
        /\ \A d \in Coins : Rows(d)' = IF d = c THEN Rows(d) \cup {e} ELSE Rows(d)
        /\ \A d \in Coins : CurrentVersion(d)' =
             IF d = c THEN CurrentVersion(d) + 1 ELSE CurrentVersion(d)
  BY <1>1, CommitAppends
<1>3. AnyCoin \in Coins
  BY StoreAssumption, Zenon DEF AnyCoin
<1>4. StoreTypeOK'
  BY <1>2, <1>3, Zenon DEF StoreTypeOK, Commit, EndTx
<1>5. \A u \in Writers \ {w} :
        /\ pc'[u] = pc[u] /\ coin'[u] = coin[u] /\ version'[u] = version[u]
        /\ txEvents'[u] = txEvents[u]
        /\ InTx(u) => coin[u] # c
  <2>1. InTx(w)
    BY Zenon DEF Commit, InTx
  <2>2. QED
    BY <1>1, <2>1, LockExcludes, Zenon DEF Commit, EndTx, StoreTypeOK
<1>6. pc'[w] = "idle" /\ txEvents'[w] = {} /\ eventsSeq' = eventsSeq
  BY Zenon DEF Commit, EndTx, StoreTypeOK
<1>7. HoldsLock'
  <2>1. SUFFICES ASSUME NEW u \in Writers, InTx(u)' PROVE (lock[LockKey[coin[u]]] = u)'
    BY Zenon DEF HoldsLock
  <2>2. u # w /\ InTx(u) /\ coin'[u] = coin[u]
    BY <1>5, <1>6, <2>1, Zenon DEF InTx
  <2>3. lock[LockKey[coin[u]]] = u /\ LockKey[coin[u]] \in LockKeys
    BY <2>2, Zenon DEF HoldsLock, LockKeys, StoreTypeOK
  <2>4. QED
    BY <2>2, <2>3, Zenon DEF Commit, EndTx
<1>8. VersionIsNext'
  <2>1. SUFFICES ASSUME NEW u \in Writers
                 PROVE  /\ pc'[u] # "idle" => version'[u] > 0
                        /\ Checked(u)' => version'[u] = CurrentVersion(coin[u])' + 1
    BY Zenon DEF VersionIsNext
  <2>2. CASE u = w
    BY <1>6, <2>2, Zenon DEF Checked
  <2>3. CASE u # w
    <3>1. Checked(u)' => Checked(u) /\ InTx(u)
      BY <1>5, <2>3, Zenon DEF Checked, InTx
    <3>2. PICK d \in Coins : coin[u] = d /\ coin'[u] = d
      BY <1>5, <2>3, Zenon DEF StoreTypeOK
    <3>3. InTx(u) => CurrentVersion(d)' = CurrentVersion(d)
      BY <1>2, <1>5, <2>3, <3>2, Zenon
    <3>4. CurrentVersion(coin[u])' = CurrentVersion(d)' /\ CurrentVersion(coin[u]) = CurrentVersion(d)
      BY <3>2, Zenon DEF CurrentVersion, Rows
    <3>5. QED
      BY <1>5, <2>3, <3>1, <3>2, <3>3, <3>4, Zenon DEF VersionIsNext
  <2>4. QED
    BY <2>2, <2>3, Zenon
<1>9. TxRow'
  <2>1. ASSUME NEW u \in Writers \ {w}, NEW f \in txEvents[u] PROVE Rows(coin[u])' = Rows(coin[u])
    <3>1. InTx(u)
      BY <2>1, Zenon DEF TxRow, InTx
    <3>2. PICK d \in Coins : coin[u] = d /\ coin'[u] = d
      BY <1>5, Zenon DEF StoreTypeOK
    <3>3. Rows(d)' = Rows(d)
      BY <1>2, <1>5, <3>1, <3>2, Zenon
    <3>4. QED
      BY <3>2, <3>3, Zenon DEF Rows
  <2>2. QED
    BY <1>5, <1>6, <2>1 DEF TxRow
<1>10. Issued'
  BY <1>2, <1>6 DEF Issued
<1>11. GaplessVersions'
  <2>1. SUFFICES ASSUME NEW d \in Coins
                 PROVE  /\ {f.version : f \in Rows(d)'} = 1..CurrentVersion(d)'
                        /\ \A f, g \in Rows(d)' : f.version = g.version => f = g
    BY Zenon DEF GaplessVersions
  <2>2. /\ CurrentVersion(d) \in Nat
        /\ {f.version : f \in Rows(d)} = 1..CurrentVersion(d)
        /\ \A f, g \in Rows(d) : f.version = g.version => f = g
    BY Zenon DEF GaplessVersions, Issued
  <2>3. CASE d = c
    <3>1. {f.version : f \in Rows(d) \cup {e}} = {f.version : f \in Rows(d)} \cup {e.version}
      BY Zenon
    <3>2. {f.version : f \in Rows(d)} \cup {e.version} = 1..(CurrentVersion(d) + 1)
      BY <1>2, <2>2, <2>3
    <3>3. \A f \in Rows(d) : f.version # e.version
      <4>1. \A f \in Rows(d) : f.version \in 1..CurrentVersion(d)
        BY <2>2, Zenon
      <4>2. e.version \notin 1..CurrentVersion(d)
        BY <1>2, <2>2, <2>3
      <4>3. QED
        BY <4>1, <4>2, Zenon
    <3>4. QED
      BY <1>2, <2>2, <2>3, <3>1, <3>2, <3>3
  <2>4. CASE d # c
    BY <1>2, <2>2, <2>4
  <2>5. QED
    BY <2>3, <2>4, Zenon
<1>12. IdsFollowVersions'
  <2>1. SUFFICES ASSUME NEW f \in events', NEW g \in events',
                        f.aggregate_id = g.aggregate_id, f.version < g.version
                 PROVE  f.id < g.id
    BY Zenon DEF IdsFollowVersions
  <2>2. \A h \in Rows(c) : h.version \in 1..CurrentVersion(c)
    BY DEF GaplessVersions
  <2>3. e.version = CurrentVersion(c) + 1 /\ CurrentVersion(c) \in Nat
    BY <1>2, Zenon DEF Issued
  <2>4. CASE f \in events /\ g \in events
    BY <2>1, <2>4, Zenon DEF IdsFollowVersions
  <2>5. CASE f \in events /\ g = e
    BY <1>2, <2>1, <2>5, Zenon DEF Rows
  <2>6. CASE f = e /\ g \in events
    <3>1. g \in Rows(c)
      BY <1>2, <2>1, <2>6, Zenon DEF Rows
    <3>2. QED
      BY <2>1, <2>2, <2>3, <2>6, <3>1
  <2>7. CASE f = e /\ g = e
    BY <2>1, <2>3, <2>7
  <2>8. QED
    BY <1>2, <2>4, <2>5, <2>6, <2>7, Zenon
<1>13. QED
  BY <1>4, <1>7, <1>8, <1>9, <1>10, <1>11, <1>12, Zenon

\* The initial state satisfies the invariant.
LEMMA InitInv == StoreInit => StoreInv
<1> SUFFICES ASSUME StoreInit PROVE StoreInv
  BY Zenon
<1> USE DEF StoreInit
<1>1. AnyCoin \in Coins
  BY StoreAssumption, Zenon DEF AnyCoin
<1>2. StoreTypeOK
  BY <1>1, StoreAssumption DEF StoreTypeOK
<1>3. \A c \in Coins : Rows(c) = {}
  BY Zenon DEF Rows
<1>4. \A c \in Coins : CurrentVersion(c) = 0
  <2>1. \A c \in Coins : {0} \cup {e.version : e \in Rows(c)} = {0} \cup 1..0
    BY <1>3
  <2>2. QED
    BY <2>1, MaxOfPrefix, Zenon DEF CurrentVersion
<1>5. HoldsLock /\ VersionIsNext /\ TxRow /\ IdsFollowVersions
  BY Zenon DEF HoldsLock, VersionIsNext, TxRow, IdsFollowVersions, InTx, Checked
<1>6. Issued /\ GaplessVersions
  BY <1>3, <1>4 DEF Issued, GaplessVersions
<1>7. QED
  BY <1>2, <1>5, <1>6, Zenon DEF StoreInv

\* A step of one session that commits nothing and keeps its transaction open.
LEMMA StepKeepsInv ==
  ASSUME StoreInv, NEW w \in Writers,
         \/ \E c \in Coins : ProcessMarketData(w, c)
         \/ AcquireLock(w) \/ VersionMatches(w) \/ InsertEvent(w) \/ InsertOutbox(w)
  PROVE  StoreInv'
<1> USE DEF StoreInv
<1>1. events' = events
  BY Zenon DEF ProcessMarketData, AcquireLock, VersionMatches, InsertEvent, InsertOutbox, tables
<1>2. GaplessVersions' /\ IdsFollowVersions'
        /\ \A c \in Coins : Rows(c)' = Rows(c) /\ CurrentVersion(c)' = CurrentVersion(c)
  BY <1>1, SameRows, Zenon
<1>3. CASE \E c \in Coins : ProcessMarketData(w, c)
  <2>1. PICK c \in Coins : ProcessMarketData(w, c)
    BY <1>3, Zenon
  <2>2. version' = [version EXCEPT ![w] = CurrentVersion(c) + 1] /\ CurrentVersion(c) \in Nat
    BY <2>1, HydratedVersion, Zenon DEF ProcessMarketData, HandleCommand, Issued
  <2>3. StoreTypeOK'
    BY <2>1, <2>2 DEF StoreTypeOK, ProcessMarketData, Goto, tables
  <2>4. HoldsLock' /\ VersionIsNext' /\ TxRow' /\ Issued'
    BY <1>1, <1>2, <2>1, <2>2, SMTT(30)
    DEF StoreTypeOK, HoldsLock, InTx, Checked, VersionIsNext, TxRow, Issued, ProcessMarketData,
        Goto, tables
  <2>5. QED
    BY <1>2, <2>3, <2>4, Zenon
<1>4. CASE AcquireLock(w)
  <2>1. StoreTypeOK'
    BY <1>4, Zenon DEF StoreTypeOK, AcquireLock, Goto, tables
  <2>2. HoldsLock'
    BY <1>4, StoreAssumption DEF HoldsLock, InTx, AcquireLock, Goto, StoreTypeOK, LockKeys
  <2>3. VersionIsNext' /\ TxRow' /\ Issued'
    BY <1>1, <1>2, <1>4, SMTT(30)
    DEF StoreTypeOK, Checked, VersionIsNext, TxRow, Issued, AcquireLock, Goto, tables
  <2>4. QED
    BY <1>2, <2>1, <2>2, <2>3, Zenon
<1>5. CASE VersionMatches(w)
  <2>1. StoreTypeOK'
    BY <1>5, Zenon DEF StoreTypeOK, VersionMatches, Goto, tables
  <2>2. HoldsLock' /\ TxRow' /\ Issued'
    BY <1>1, <1>2, <1>5
    DEF StoreTypeOK, HoldsLock, InTx, TxRow, Issued, VersionMatches, Goto, tables
  <2>3. VersionIsNext'
    <3>1. version[w] \in Nat /\ version[w] > 0
      BY <1>5, Zenon DEF VersionMatches, Goto, VersionIsNext, StoreTypeOK
    <3>2. version[w] = CurrentVersion(coin[w]) + 1
      BY <1>5, <3>1 DEF VersionMatches, Conflict, ExpectedVersion, Issued, StoreTypeOK
    <3>3. QED
      BY <1>1, <1>2, <1>5, <3>2, Zenon
      DEF StoreTypeOK, Checked, VersionIsNext, VersionMatches, Goto, tables
  <2>4. QED
    BY <1>2, <2>1, <2>2, <2>3, Zenon
<1>6. CASE InsertEvent(w)
  <2>1. eventsSeq \in Nat /\ eventsSeq' = eventsSeq + 1 /\ eventsSeq < MaxSerial
    BY <1>6 DEF InsertEvent, StoreTypeOK
  <2>2. StoreTypeOK'
    BY <1>6, <2>1, StoreAssumption DEF StoreTypeOK, InsertEvent, Goto, NextVal, Event
  <2>3. HoldsLock' /\ VersionIsNext'
    BY <1>1, <1>2, <1>6
    DEF StoreTypeOK, HoldsLock, InTx, Checked, VersionIsNext, InsertEvent, Goto
  <2>4. Issued'
    BY <1>1, <1>2, <2>1 DEF Issued, StoreTypeOK, Event
  <2>5. TxRow'
    <3> DEFINE row == [id |-> eventsSeq + 1, aggregate_id |-> coin[w], version |-> version[w]]
    <3>1. txEvents'[w] = {row} /\ pc'[w] = "inserted" /\ coin' = coin /\ version' = version
      BY <1>6, Zenon DEF InsertEvent, Goto, NextVal, StoreTypeOK
    <3>2. \A f \in Rows(coin[w]) : f.id < row.id
      BY <2>1 DEF Rows, Issued, StoreTypeOK, Event
    <3>3. \A u \in Writers \ {w} : txEvents'[u] = txEvents[u] /\ pc'[u] = pc[u]
      BY <1>6, Zenon DEF InsertEvent, Goto, StoreTypeOK
    <3>4. \A u \in Writers : Rows(coin[u])' = Rows(coin[u])
      BY <1>1, <3>1, Zenon DEF Rows
    <3>5. \A u \in Writers : \A e \in txEvents[u] : e.id <= eventsSeq'
      BY <2>1 DEF TxRow, StoreTypeOK, Event
    <3>6. row.id <= eventsSeq'
      BY <2>1
    <3> HIDE DEF row
    <3>7. row.aggregate_id = coin[w] /\ row.version = version[w]
      BY Zenon DEF row
    <3>8. QED
      BY <3>1, <3>2, <3>3, <3>4, <3>5, <3>6, <3>7 DEF TxRow
  <2>6. QED
    BY <1>2, <2>2, <2>3, <2>4, <2>5, Zenon
<1>7. CASE InsertOutbox(w)
  <2>1. StoreTypeOK'
    BY <1>7 DEF StoreTypeOK, InsertOutbox, Goto, NextVal, Event, OutboxRow
  <2>2. HoldsLock' /\ VersionIsNext' /\ TxRow' /\ Issued'
    BY <1>1, <1>2, <1>7, SMTT(30)
    DEF StoreTypeOK, HoldsLock, InTx, Checked, VersionIsNext, TxRow, Issued, InsertOutbox, Goto
  <2>3. QED
    BY <1>2, <2>1, <2>2, Zenon
<1>8. QED
  BY <1>3, <1>4, <1>5, <1>6, <1>7, Zenon

\* Every step of the write side preserves the invariant.
LEMMA NextInv == StoreInv /\ [StoreNext]_storeVars => StoreInv'
<1>1. ASSUME StoreInv, NEW w \in Writers, NEW c \in Coins, ProcessMarketData(w, c) PROVE StoreInv'
  BY <1>1, StepKeepsInv, Zenon
<1>2. ASSUME StoreInv, NEW w \in Writers, AppendEvents(w) PROVE StoreInv'
  <2>1. CASE AcquireLock(w) \/ VersionMatches(w) \/ InsertEvent(w) \/ InsertOutbox(w)
    BY <1>2, <2>1, StepKeepsInv, Zenon
  <2>2. CASE VersionConflict(w) \/ InsertFails(w)
    BY <1>2, <2>2, EndTxKeepsInv, Zenon DEF VersionConflict, InsertFails
  <2>3. CASE Commit(w)
    BY <1>2, <2>3, CommitKeepsInv, Zenon
  <2>4. QED
    BY <1>2, <2>1, <2>2, <2>3, Zenon DEF AppendEvents
<1>3. ASSUME StoreInv, NEW w \in Writers, Abort(w) PROVE StoreInv'
  BY <1>3, EndTxKeepsInv, Zenon DEF Abort
<1>4. ASSUME StoreInv, UNCHANGED storeVars PROVE StoreInv'
  <2>1. events' = events
    BY <1>4, Zenon DEF storeVars, tables
  <2>2. QED
    BY <1>4, <2>1, SameRows, SMTT(30)
    DEF StoreInv, StoreTypeOK, HoldsLock, VersionIsNext, TxRow, Issued, InTx, Checked, storeVars,
        tables, sessions
<1>5. QED
  BY <1>1, <1>2, <1>3, <1>4, Zenon DEF StoreNext

\* The invariant leaves nothing for the unique index to catch.
LEMMA InvExcludesCollisions == StoreInv => InsertNeverCollides
<1> SUFFICES ASSUME StoreInv, NEW w \in Writers, pc[w] = "checked", Taken(w) PROVE FALSE
  BY Zenon DEF InsertNeverCollides
<1> USE DEF StoreInv
<1>1. version[w] = CurrentVersion(coin[w]) + 1 /\ CurrentVersion(coin[w]) \in Nat /\ coin[w] \in Coins
  BY Zenon DEF VersionIsNext, Checked, Issued, StoreTypeOK
<1>2. \A e \in Rows(coin[w]) : e.version \in 1..CurrentVersion(coin[w])
  BY <1>1, SMTT(30) DEF GaplessVersions
<1>3. \A e \in events : ~(e.aggregate_id = coin[w] /\ e.version = version[w])
  BY <1>1, <1>2 DEF Rows
<1>4. PICK u \in Writers \ {w} : \E e \in txEvents[u] : e.aggregate_id = coin[w]
  BY <1>3, Zenon DEF Taken
<1>5. InTx(u) /\ InTx(w) /\ coin[u] = coin[w]
  BY <1>4, Zenon DEF TxRow, InTx
<1>6. QED
  BY <1>4, <1>5, LockExcludes, Zenon
-----------------------------------------------------------------------------
\* The inductive invariant holds in every state of the write side.
THEOREM StoreInvariant == StoreSpec => []StoreInv
  BY InitInv, NextInv, PTL DEF StoreSpec

\* Type correctness of the event store, its sequences, locks and sessions.
THEOREM TypeCorrect == StoreSpec => []StoreTypeOK
<1>1. StoreInv => StoreTypeOK
  BY Zenon DEF StoreInv
<1>2. QED
  BY <1>1, StoreInvariant, PTL

\* However many sessions call AppendEvents, whatever they abort, and whichever
\* aggregate ids collide in the hash, each aggregate's committed versions are
\* 1..n, each once.
THEOREM VersionsAreGapless == StoreSpec => []GaplessVersions
<1>1. StoreInv => GaplessVersions
  BY Zenon DEF StoreInv
<1>2. QED
  BY <1>1, StoreInvariant, PTL

\* Reading the events of an aggregate by id reads them in version order.
THEOREM IdOrderIsVersionOrder == StoreSpec => []IdsFollowVersions
<1>1. StoreInv => IdsFollowVersions
  BY Zenon DEF StoreInv
<1>2. QED
  BY <1>1, StoreInvariant, PTL

\* With the advisory lock and the version check in place the insert never meets
\* the unique index on (aggregate_id, version).
THEOREM UniqueIndexNeverFires == StoreSpec => []InsertNeverCollides
  BY InvExcludesCollisions, StoreInvariant, PTL
-----------------------------------------------------------------------------
(* The event store implements EventLog *)

\* The id of an uncommitted row is neither in the table nor in another transaction.
FreshIds ==
  \A w \in Writers : \A e \in txEvents[w] :
    /\ \A f \in events : f.id # e.id
    /\ \A u \in Writers \ {w} : \A f \in txEvents[u] : f.id # e.id

\* Ids come from one sequence, so FreshIds is preserved.
LEMMA NextFresh == StoreInv /\ FreshIds /\ [StoreNext]_storeVars => FreshIds'
<1> USE DEF StoreInv
<1>1. ASSUME StoreInv, FreshIds, NEW w \in Writers, EndTx(w), events' = events PROVE FreshIds'
  BY <1>1 DEF FreshIds, EndTx, StoreTypeOK
<1>2. ASSUME StoreInv, FreshIds, events' = events, txEvents' = txEvents PROVE FreshIds'
  BY <1>2, Zenon DEF FreshIds
<1>3. ASSUME StoreInv, FreshIds, NEW w \in Writers, InsertEvent(w) PROVE FreshIds'
  <2> DEFINE row == [id |-> eventsSeq + 1, aggregate_id |-> coin[w], version |-> version[w]]
  <2>1. events' = events /\ txEvents' = [txEvents EXCEPT ![w] = {row}] /\ eventsSeq \in Nat
    BY <1>3 DEF InsertEvent, NextVal, StoreTypeOK
  <2>2. \A f \in events : f.id \in Nat /\ f.id <= eventsSeq
    BY <1>3, Zenon DEF Issued, StoreTypeOK, Event
  <2>3. \A u \in Writers : \A f \in txEvents[u] : f.id \in Nat /\ f.id <= eventsSeq
    BY <1>3 DEF TxRow, StoreTypeOK, Event
  <2>4. (\A f \in events : f.id # row.id) /\ \A u \in Writers : \A f \in txEvents[u] : f.id # row.id
    BY <2>1, <2>2, <2>3
  <2> HIDE DEF row
  <2>5. QED
    BY <1>3, <2>1, <2>4 DEF FreshIds, StoreTypeOK
<1>4. ASSUME StoreInv, FreshIds, NEW w \in Writers, Commit(w) PROVE FreshIds'
  BY <1>4 DEF FreshIds, Commit, EndTx, StoreTypeOK
<1>5. QED
  BY <1>1, <1>2, <1>3, <1>4, Zenon
  DEF StoreNext, AppendEvents, ProcessMarketData, AcquireLock, VersionMatches, VersionConflict,
      InsertFails, InsertOutbox, Abort, storeVars, tables, sessions

\* The row LogOf picks for a version, if the aggregate has it, is the row itself.
LEMMA LogEntry ==
  ASSUME GaplessVersions, NEW c \in Coins, NEW e \in Rows(c)
  PROVE  (CHOOSE f \in Rows(c) : f.version = e.version) = e
  BY Zenon DEF GaplessVersions

\* A function on 1..n with natural values is a sequence of length n.
LEMMA SeqOfNats ==
  ASSUME NEW n \in Nat, NEW s, s = [v \in 1..n |-> s[v]], \A v \in 1..n : s[v] \in Nat
  PROVE  s \in Seq(Nat) /\ Len(s) = n
<1>1. s \in [1..n -> Nat]
  BY Zenon
<1>2. QED
  BY <1>1

\* A commit appends its event's id to the log of its aggregate.
LEMMA CommitAppendsToLog ==
  ASSUME StoreInv, StoreInv', FreshIds, NEW w \in Writers, Commit(w)
  PROVE  Log!Next
<1> USE DEF StoreInv
<1>1. PICK c \in Coins : coin[w] = c
  BY Zenon DEF StoreTypeOK
<1>2. PICK e \in Event :
        /\ txEvents[w] = {e} /\ events' = events \cup {e}
        /\ e.aggregate_id = c /\ e.version = CurrentVersion(c) + 1
        /\ e.id <= eventsSeq /\ \A f \in Rows(c) : f.id < e.id
        /\ \A d \in Coins : Rows(d)' = IF d = c THEN Rows(d) \cup {e} ELSE Rows(d)
        /\ \A d \in Coins : CurrentVersion(d)' =
             IF d = c THEN CurrentVersion(d) + 1 ELSE CurrentVersion(d)
  BY <1>1, CommitAppends
<1> DEFINE n == CurrentVersion(c)
           log == [d \in Coins |-> LogOf(d)]
<1>3. n \in Nat /\ e.id \in 1..MaxSerial
  BY <1>2, StoreAssumption DEF Issued, StoreTypeOK, Event
<1>4. \A d \in Coins : \A v \in 1..CurrentVersion(d) :
        \E f \in Rows(d) : f.version = v /\ LogOf(d)[v] = f.id
  <2>1. ASSUME NEW d \in Coins, NEW v \in 1..CurrentVersion(d)
        PROVE  \E f \in Rows(d) : f.version = v /\ LogOf(d)[v] = f.id
    <3>1. PICK f \in Rows(d) : f.version = v
      BY <2>1 DEF GaplessVersions
    <3>2. QED
      BY <2>1, <3>1, LogEntry, Zenon DEF LogOf, LogOfRows
  <2>2. QED
    BY <2>1, Zenon
<1>5. \A d \in Coins \ {c} : LogOf(d)' = LogOf(d)
  BY <1>2, Zenon DEF LogOf
<1>6. LogOf(c)' = Append(LogOf(c), e.id)
  <2>1. LogOf(c)' = [v \in 1..(n + 1) |-> (CHOOSE f \in Rows(c)' : f.version = v).id]
    BY <1>2, Zenon DEF LogOf, LogOfRows
  <2>2. ASSUME NEW v \in 1..n PROVE LogOf(c)'[v] = LogOf(c)[v]
    <3>1. PICK f \in Rows(c) : f.version = v /\ LogOf(c)[v] = f.id
      BY <1>4, <2>2, Zenon
    <3>2. (CHOOSE g \in Rows(c)' : g.version = v) = f
      BY <1>2, <3>1, Zenon DEF GaplessVersions
    <3>3. QED
      BY <1>3, <2>1, <2>2, <3>1, <3>2
  <2>3. LogOf(c)'[n + 1] = e.id
    <3>1. e \in Rows(c)'
      BY <1>2, Zenon
    <3>2. (CHOOSE g \in Rows(c)' : g.version = n + 1) = e
      BY <1>2, <3>1 DEF GaplessVersions
    <3>3. QED
      BY <1>3, <2>1, <3>2
  <2>4. LogOf(c) \in Seq(Nat) /\ Len(LogOf(c)) = n /\ LogOf(c)' \in Seq(Nat) /\ Len(LogOf(c)') = n + 1
    <3>1. \A v \in 1..n : LogOf(c)[v] \in Nat
      BY <1>4 DEF Rows, StoreTypeOK, Event
    <3>2. \A v \in 1..(n + 1) : LogOf(c)'[v] \in Nat
      BY <1>2, <1>3, <2>2, <2>3, <3>1 DEF Event
    <3>3. LogOf(c) = [v \in 1..n |-> LogOf(c)[v]] /\ LogOf(c)' = [v \in 1..(n + 1) |-> LogOf(c)'[v]]
      BY <2>1 DEF LogOf, LogOfRows
    <3> HIDE DEF n
    <3>4. QED
      BY <1>3, <3>1, <3>2, <3>3, SeqOfNats
  <2>5. QED
    BY <1>2, <1>3, <2>2, <2>3, <2>4 DEF Event
<1>7. Log!AppendEvent(c, e.id)
  <2>1. log' = [log EXCEPT ![c] = Append(@, e.id)]
    BY <1>5, <1>6, Zenon
  <2>2. \A d \in Coins : log[d] = LogOf(d) /\ DOMAIN LogOf(d) = 1..CurrentVersion(d)
    BY Zenon DEF LogOf, LogOfRows
  <2>3. \A v \in DOMAIN log[c] : log[c][v] < e.id
    <3>1. \A v \in 1..CurrentVersion(c) : LogOf(c)[v] < e.id
      BY <1>2, <1>4
    <3>2. QED
      BY <2>2, <3>1, Zenon
  <2>4. \A f \in events : f.id # e.id
    BY <1>2, Zenon DEF FreshIds
  <2>5. ~Log!Used(e.id)
    <3>1. \A d \in Coins : \A v \in 1..CurrentVersion(d) : LogOf(d)[v] # e.id
      BY <1>4, <2>4 DEF Rows
    <3>2. QED
      BY <2>2, <3>1, Zenon DEF Log!Used
  <2>6. QED
    BY <2>1, <2>3, <2>5, Zenon DEF Log!AppendEvent
<1>8. QED
  BY <1>3, <1>7, Zenon DEF Log!Next

\* Rows become visible by a commit only.
LEMMA OnlyCommitAddsEvents ==
  [StoreNext]_storeVars => events' = events \/ \E w \in Writers : Commit(w)
<1>1. ASSUME NEW w \in Writers, NEW c \in Coins, ProcessMarketData(w, c) PROVE events' = events
  BY <1>1, Zenon DEF ProcessMarketData, tables
<1>2. ASSUME NEW w \in Writers, AcquireLock(w) \/ VersionMatches(w) \/ VersionConflict(w) PROVE events' = events
  BY <1>2, Zenon DEF AcquireLock, VersionMatches, VersionConflict, tables
<1>3. ASSUME NEW w \in Writers, InsertEvent(w) \/ InsertFails(w) \/ InsertOutbox(w) PROVE events' = events
  BY <1>3, Zenon DEF InsertEvent, InsertFails, InsertOutbox, tables
<1>4. ASSUME NEW w \in Writers, Abort(w) PROVE events' = events
  BY <1>4, Zenon DEF Abort, tables
<1>5. UNCHANGED storeVars => events' = events
  BY Zenon DEF storeVars, tables
<1>6. QED
  BY <1>1, <1>2, <1>3, <1>4, <1>5, Zenon DEF StoreNext, AppendEvents

\* No two committed rows have the same id.
UniqueIds == \A e, f \in events : e.id = f.id => e = f

\* A commit adds a row whose id is fresh.
LEMMA NextUnique == StoreInv /\ FreshIds /\ UniqueIds /\ [StoreNext]_storeVars => UniqueIds'
<1> SUFFICES ASSUME StoreInv, FreshIds, UniqueIds, [StoreNext]_storeVars PROVE UniqueIds'
  BY Zenon
<1>1. CASE events' = events
  BY <1>1, Zenon DEF UniqueIds
<1>2. ASSUME NEW w \in Writers, Commit(w) PROVE UniqueIds'
  <2>1. PICK c \in Coins : coin[w] = c
    BY Zenon DEF StoreInv, StoreTypeOK
  <2>2. PICK e \in Event : txEvents[w] = {e} /\ events' = events \cup {e}
    BY <1>2, <2>1, CommitAppends, Zenon
  <2>3. \A f \in events : f.id # e.id
    BY <2>2, Zenon DEF FreshIds
  <2>4. QED
    BY <2>2, <2>3, Zenon DEF UniqueIds
<1>3. QED
  BY <1>1, <1>2, OnlyCommitAddsEvents, Zenon

\* The empty table encodes empty logs.
LEMMA LogInit == StoreInit => Log!Init /\ FreshIds
<1> SUFFICES ASSUME StoreInit PROVE Log!Init /\ FreshIds
  BY Zenon
<1>1. \A c \in Coins : CurrentVersion(c) = 0
  <2>1. \A c \in Coins : {0} \cup {e.version : e \in Rows(c)} = {0} \cup 1..0
    BY DEF StoreInit, Rows
  <2>2. QED
    BY <2>1, MaxOfPrefix, Zenon DEF CurrentVersion
<1>2. \A c \in Coins : LogOf(c) = <<>>
  BY <1>1 DEF LogOf, LogOfRows
<1>3. QED
  BY <1>2, Zenon DEF Log!Init, FreshIds, StoreInit

\* A step that leaves the events table alone leaves the logs alone.
LEMMA LogStutter ==
  ASSUME events' = events
  PROVE  [c \in Coins |-> LogOf(c)]' = [c \in Coins |-> LogOf(c)]
  BY SameRows, Zenon DEF LogOf

\* A step of the sessions is an append to one log, or changes no log.
LEMMA LogStep ==
  StoreInv /\ StoreInv' /\ FreshIds /\ [StoreNext]_storeVars =>
    [Log!Next]_([c \in Coins |-> LogOf(c)])
<1> SUFFICES ASSUME StoreInv, StoreInv', FreshIds, [StoreNext]_storeVars
             PROVE  Log!Next \/ [c \in Coins |-> LogOf(c)]' = [c \in Coins |-> LogOf(c)]
  BY Zenon
<1>1. CASE events' = events
  BY <1>1, LogStutter, Zenon
<1>2. ASSUME NEW w \in Writers, Commit(w) PROVE Log!Next
  BY <1>2, CommitAppendsToLog, Zenon
<1>3. QED
  BY <1>1, <1>2, OnlyCommitAddsEvents, Zenon

\* Every behaviour of AppendEvents' transactions is a behaviour of one atomic
\* append-only log per aggregate.
THEOREM StoreImplementsLog == StoreSpec => ImplementsLog
  BY LogInit, LogStep, StoreInvariant, NextFresh, PTL DEF StoreSpec, ImplementsLog, Log!Spec
-----------------------------------------------------------------------------
(* The event row and the outbox row *)

\* The outbox rows of a transaction are those of its events.
TxOutboxRows ==
  \A w \in Writers :
    /\ pc[w] = "ready" => \A e \in txEvents[w] : \E o \in txOutbox[w] : o.event_id = e.id
    /\ \A o \in txOutbox[w] :
         /\ \E e \in txEvents[w] : e.id = o.event_id
         /\ \A q \in txOutbox[w] : q = o
    /\ pc[w] # "ready" => txOutbox[w] = {}

\* A step of a session other than a commit touches only its own transaction.
LEMMA SessionKeepsTxOutbox ==
  ASSUME StoreInv, TxOutboxRows, StoreNext, UNCHANGED <<events, outbox>>
  PROVE  TxOutboxRows'
<1>1. ASSUME NEW w \in Writers, EndTx(w) PROVE TxOutboxRows'
  BY <1>1, Zenon DEF TxOutboxRows, EndTx, StoreInv, StoreTypeOK
<1>2. ASSUME NEW w \in Writers, InsertEvent(w) PROVE TxOutboxRows'
  BY <1>2 DEF TxOutboxRows, InsertEvent, Goto, StoreInv, StoreTypeOK
<1>3. ASSUME NEW w \in Writers, InsertOutbox(w) PROVE TxOutboxRows'
  <2>1. PICK e \in txEvents[w] : txEvents[w] = {e}
    BY <1>3 DEF InsertOutbox, Goto, StoreInv, TxRow
  <2>2. PICK o : o.event_id = e.id /\ txOutbox'[w] = {o}
    <3>1. txOutbox'[w] = {[id |-> NextVal(outboxSeq), event_id |-> e.id]}
      BY <1>3, <2>1, Zenon DEF InsertOutbox, StoreInv, StoreTypeOK
    <3>2. QED
      BY <3>1, Zenon
  <2>3. /\ txEvents' = txEvents /\ pc'[w] = "ready"
        /\ \A u \in Writers \ {w} : pc'[u] = pc[u] /\ txOutbox'[u] = txOutbox[u]
    BY <1>3, Zenon DEF InsertOutbox, Goto, StoreInv, StoreTypeOK
  <2>4. SUFFICES ASSUME NEW u \in Writers
                 PROVE  /\ pc'[u] = "ready" =>
                             \A f \in txEvents[u] : \E q \in txOutbox'[u] : q.event_id = f.id
                        /\ \A q \in txOutbox'[u] :
                             /\ \E f \in txEvents[u] : f.id = q.event_id
                             /\ \A r \in txOutbox'[u] : r = q
                        /\ pc'[u] # "ready" => txOutbox'[u] = {}
    BY <2>3, Zenon DEF TxOutboxRows
  <2>5. CASE u = w
    BY <2>1, <2>2, <2>3, <2>5, Zenon
  <2>6. CASE u # w
    BY <2>3, <2>6, SMTT(40) DEF TxOutboxRows
  <2>7. QED
    BY <2>5, <2>6, Zenon
<1>4. ASSUME NEW w \in Writers,
             \/ \E c \in Coins : ProcessMarketData(w, c)
             \/ AcquireLock(w) \/ VersionMatches(w)
      PROVE  TxOutboxRows'
  BY <1>4, SMTT(40)
  DEF TxOutboxRows, ProcessMarketData, AcquireLock, VersionMatches, Goto, StoreInv, StoreTypeOK
<1>5. QED
  BY <1>1, <1>2, <1>3, <1>4, Zenon
  DEF StoreNext, AppendEvents, VersionConflict, InsertFails, Commit, Abort

\* The two inserts of AppendEvents take effect together or not at all, for any number of
\* sessions, wherever a transaction is aborted.
THEOREM EventAndOutboxRowCommitTogether == StoreSpec => []OutboxIsTransactional
<1> DEFINE Inv == TxOutboxRows /\ OutboxIsTransactional
<1>1. StoreInit => Inv
  BY Zenon DEF StoreInit, TxOutboxRows, OutboxIsTransactional
<1>2. ASSUME StoreInv, FreshIds, Inv, [StoreNext]_storeVars PROVE Inv'
  <2>1. CASE \E w \in Writers : Commit(w)
    <3>1. PICK w \in Writers : Commit(w)
      BY <2>1, Zenon
    <3>2. /\ events' = events \cup txEvents[w] /\ outbox' = outbox \cup txOutbox[w]
          /\ pc[w] = "ready" /\ pc'[w] = "idle" /\ txEvents'[w] = {} /\ txOutbox'[w] = {}
          /\ \A u \in Writers \ {w} :
               pc'[u] = pc[u] /\ txEvents'[u] = txEvents[u] /\ txOutbox'[u] = txOutbox[u]
      BY <1>2, <3>1, Zenon DEF Commit, EndTx, StoreInv, StoreTypeOK
    <3>3. TxOutboxRows'
      BY <1>2, <3>2 DEF TxOutboxRows
    <3>4. \A o \in txOutbox[w] : \A q \in outbox : o.event_id # q.event_id
      BY <1>2 DEF TxOutboxRows, FreshIds, OutboxIsTransactional
    <3>5. OutboxIsTransactional'
      BY <1>2, <3>2, <3>4 DEF TxOutboxRows, OutboxIsTransactional
    <3>6. QED
      BY <3>3, <3>5, Zenon
  <2>2. CASE StoreNext /\ UNCHANGED <<events, outbox>>
    BY <1>2, <2>2, SessionKeepsTxOutbox, Zenon DEF OutboxIsTransactional
  <2>3. CASE UNCHANGED storeVars
    BY <1>2, <2>3, Zenon DEF storeVars, tables, sessions, TxOutboxRows, OutboxIsTransactional
  <2>4. QED
    BY <1>2, <2>1, <2>2, <2>3, Zenon
    DEF StoreNext, AppendEvents, ProcessMarketData, AcquireLock, VersionMatches, VersionConflict,
        InsertEvent, InsertFails, InsertOutbox, Abort, tables
<1>3. StoreInit => FreshIds
  BY Zenon DEF StoreInit, FreshIds
<1> HIDE DEF Inv
<1>4. StoreSpec => []Inv
  BY <1>1, <1>2, <1>3, StoreInvariant, NextFresh, PTL DEF StoreSpec
<1>5. Inv => OutboxIsTransactional
  BY Zenon DEF Inv
<1>6. QED
  BY <1>4, <1>5, PTL
-----------------------------------------------------------------------------
\* An aggregate has as many rows as versions, and LoadEvents ends with the latest.
LEMMA LoadedHistory ==
  ASSUME StoreInv, NEW c \in Coins
  PROVE  LET n == CurrentVersion(c)  h == LoadEvents(c) IN
         /\ n \in Nat /\ h \in Seq(Rows(c)) /\ Len(h) = n
         /\ n = 0 <=> Rows(c) = {}
         /\ n > 0 => h[n] = GetLatestEvent(c)
<1> DEFINE n == CurrentVersion(c)
           R == Rows(c)
           row == [v \in 1..n |-> CHOOSE e \in R : e.version = v]
           Sorted(s) == /\ \A e \in R : \E i \in DOMAIN s : s[i] = e
                        /\ \A i, j \in DOMAIN s : i < j => s[i].version < s[j].version
<1>1. /\ n \in Nat /\ {e.version : e \in R} = 1..n
      /\ \A e, f \in R : e.version = f.version => e = f
  BY Zenon DEF StoreInv, GaplessVersions, Issued
<1> HIDE DEF n, R
<1>2. row \in [1..n -> R] /\ \A v \in 1..n : row[v].version = v
  <2>1. \A v \in 1..n : \E e \in R : e.version = v
    BY <1>1, Zenon
  <2>2. QED
    BY <2>1, Zenon
<1> HIDE DEF row
<1>3. \A e \in R : e.version \in 1..n /\ row[e.version] = e
  BY <1>1, <1>2, Zenon
<1>4. Sorted(row)
  BY <1>1, <1>2, <1>3, Zenon
<1>5. Cardinality(R) = n
  <2>1. row \in Bijection(1..n, R)
    BY <1>1, <1>2, <1>3 DEF Bijection, Injection, Surjection, IsInjective
  <2>2. QED
    BY <1>1, <2>1, FS_CountingElements, Zenon DEF ExistsBijection
<1> DEFINE h == LoadEvents(c)
<1>6. h \in [1..n -> R] /\ Sorted(h)
  <2>1. h = CHOOSE s \in [1..n -> R] : Sorted(s)
    BY <1>5, Zenon DEF LoadEvents, R
  <2> HIDE DEF h, Sorted
  <2>2. QED
    BY <1>2, <1>4, <2>1, Zenon
<1> HIDE DEF h
<1>7. h \in Seq(R) /\ Len(h) = n
  BY <1>1, <1>6
<1>8. n = 0 <=> R = {}
  BY <1>1
<1>9. ASSUME n > 0 PROVE h[n] = GetLatestEvent(c)
  <2>1. row[n] \in R /\ \A f \in R : f.version <= row[n].version
    BY <1>1, <1>2, <1>3, <1>9
  <2>2. GetLatestEvent(c) \in R /\ \A f \in R : f.version <= GetLatestEvent(c).version
    BY <2>1, Zenon DEF GetLatestEvent, R
  <2>3. PICK i \in 1..n : h[i] = GetLatestEvent(c)
    BY <1>6, <2>2, Zenon
  <2>a. n \in 1..n /\ DOMAIN h = 1..n
    BY <1>1, <1>6, <1>9
  <2>b. h[n] \in R /\ h[i] \in R
    BY <1>6, <2>a, Zenon
  <2>4. h[n] \in R /\ h[n].version \in Nat /\ h[i].version \in Nat
    BY <1>1, <1>3, <2>b
  <2>5. i = n \/ h[i].version < h[n].version
    <3>1. i = n \/ i < n
      BY <1>1
    <3>2. \A j, l \in 1..n : j < l => h[j].version < h[l].version
      BY <1>6, <2>a, Zenon
    <3>3. QED
      BY <2>a, <3>1, <3>2, Zenon
  <2>6. QED
    BY <2>2, <2>3, <2>4, <2>5
<1>10. QED
  BY <1>1, <1>7, <1>8, <1>9, Zenon DEF n, R, h

\* Apply replaces every field, so the loop over the history ends with its last event.
LEMMA ReplayIsLastEvent ==
  ASSUME NEW c \in Coins, LoadEvents(c) \in Seq(Rows(c))
  PROVE  LET h == LoadEvents(c) IN
         Replayed(c) = IF Len(h) = 0 THEN NewMarketAggregate ELSE Apply(NewMarketAggregate, h[Len(h)])
<1> DEFINE h == LoadEvents(c)
           k == Len(h)
           Round(agg, i) == IF i = 0 THEN NewMarketAggregate ELSE Apply(agg[i - 1], h[i])
           Loop(agg) == agg = [i \in 0..k |-> Round(agg, i)]
           last == [i \in 0..k |-> IF i = 0 THEN NewMarketAggregate ELSE Apply(NewMarketAggregate, h[i])]
           agg == CHOOSE f : Loop(f)
<1>1. k \in Nat
  OBVIOUS
<1>2. \A f, i : Round(f, i) = IF i = 0 THEN NewMarketAggregate ELSE Apply(NewMarketAggregate, h[i])
  BY Zenon DEF Apply
<1>3. Replayed(c) = agg[k]
  BY Zenon DEF Replayed
<1> HIDE DEF Round, h, k
<1>4. Loop(last)
  BY <1>2, Zenon
<1>5. Loop(agg)
  <2> HIDE DEF Loop, last
  <2>1. QED
    BY <1>4, Zenon
<1> HIDE DEF agg
<1>6. agg[k] = Round(agg, k)
  BY <1>1, <1>5
<1>7. QED
  BY <1>2, <1>3, <1>6, Zenon DEF k, h

\* Hydrating from the latest event (ProcessMarketData) gives what replaying the whole
\* history of LoadEvents gives, after any appends, conflicts and aborts.
THEOREM HydrationIsReplay == StoreSpec => []HydrationEqualsReplay
<1>1. StoreInv => HydrationEqualsReplay
  <2> SUFFICES ASSUME StoreInv, NEW c \in Coins PROVE Replayed(c) = Hydrate(c)
    BY Zenon DEF HydrationEqualsReplay
  <2> DEFINE n == CurrentVersion(c)
             h == LoadEvents(c)
  <2>1. /\ n \in Nat /\ h \in Seq(Rows(c)) /\ Len(h) = n
        /\ n = 0 <=> Rows(c) = {}
        /\ n > 0 => h[n] = GetLatestEvent(c)
    BY LoadedHistory, Zenon
  <2>2. Replayed(c) = IF Len(h) = 0 THEN NewMarketAggregate ELSE Apply(NewMarketAggregate, h[Len(h)])
    BY <2>1, ReplayIsLastEvent, Zenon
  <2> HIDE DEF n, h
  <2>3. QED
    BY <2>1, <2>2 DEF Hydrate
<1>2. QED
  BY <1>1, StoreInvariant, PTL
=============================================================================

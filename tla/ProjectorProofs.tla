---------------------------- MODULE ProjectorProofs ----------------------------
(***************************************************************************)
(* Proofs about the projector daemons for any coins, daemons, limits and   *)
(* failures, on top of the invariant of the event store.  What polling by  *)
(* id relies on is that ids become visible in order; that holds when one   *)
(* session at a time appends, and SingleWriter is the assumption of every  *)
(* theorem that needs it.                                                  *)
(***************************************************************************)
EXTENDS Projector, EventStoreProofs, FiniteSetTheorems

\* One session appends: the write side runs in one process and one goroutine.
SingleWriter == \A u, w \in Writers : u = w

\* The table is finite, and a row that commits later has a larger id.
VisibleInOrder ==
  /\ IsFiniteSet(events)
  /\ \A e, f \in events : e.id = f.id => e = f
  /\ \A w \in Writers : \A e \in txEvents[w] : \A f \in events : f.id < e.id

\* A position in the log is the id of a committed event, or nothing yet.
Position(n) == n = 0 \/ \E e \in events : e.id = n

Positions ==
  /\ Position(checkpoint)
  /\ \A p \in Projectors : Position(lastID[p])
  /\ \A i \in EventIds : history[i] > 0 => Position(i)

\* A daemon has dealt with every committed event up to its position.
BehindIsProjected ==
  \A p \in Projectors : \A e \in events : e.id <= lastID[p] => Projected(e)

\* Its batch holds the committed events that follow, without a gap.
BatchHasNoGap ==
  \A p \in Projectors : \A b \in batch[p] :
    /\ lastID[p] < b.id
    /\ \A e \in events : lastID[p] < e.id /\ e.id < b.id => e \in batch[p]

\* Project returns without an error only after both writes.
CurrentIsWritten ==
  \A p \in Projectors : jpc[p] = "invalidate" => history[Current(p).id] > 0

ProjectorInv ==
  /\ VisibleInOrder /\ Positions /\ BehindIsProjected /\ BatchHasNoGap /\ CurrentIsWritten
  /\ CheckpointCoversProjected /\ ProjectedIsPrefix
-----------------------------------------------------------------------------
\* What the types of the store say about one event.
LEMMA EventFields ==
  ASSUME StoreInv, NEW e \in events
  PROVE  e.id \in EventIds /\ e.aggregate_id \in Coins
  BY StoreAssumption DEF StoreInv, StoreTypeOK, Issued, Event, EventIds

\* The record the loop works on is the first of the batch.
LEMMA CurrentIsFirst ==
  ASSUME StoreInv, ProjectorTypeOK, NEW p \in Projectors, batch[p] # {}
  PROVE  /\ Current(p) \in batch[p] /\ Current(p) \in events
         /\ \A f \in batch[p] : Current(p).id <= f.id
         /\ Current(p).id \in EventIds /\ Current(p).aggregate_id \in Coins
<1>1. batch[p] \subseteq events
  BY Zenon DEF ProjectorTypeOK
<1>2. \A e \in batch[p] : e.id \in Nat
  BY <1>1, EventFields DEF EventIds
<1>3. {e.id : e \in batch[p]} \subseteq Nat /\ {e.id : e \in batch[p]} # {}
  BY <1>2, Zenon
<1>4. PICK m \in {e.id : e \in batch[p]} : \A n \in {e.id : e \in batch[p]} : m <= n
  BY <1>3, SmallestExists, Zenon
<1>5. \E e \in batch[p] : \A f \in batch[p] : e.id <= f.id
  BY <1>4, Zenon
<1>6. Current(p) \in batch[p] /\ \A f \in batch[p] : Current(p).id <= f.id
  BY <1>5, Zenon DEF Current
<1>7. QED
  BY <1>1, <1>6, EventFields, Zenon

\* A poll that finds new events returns at least one.
LEMMA FetchFindsOne ==
  ASSUME StoreInv, NEW id \in Nat, NEW n \in Nat \ {0}, NewerThan(id) # {}
  PROVE  GetNewEvents(id, n) # {}
<1>1. \A e \in NewerThan(id) : e.id \in Nat
  BY EventFields DEF NewerThan, EventIds
<1>2. {e.id : e \in NewerThan(id)} \subseteq Nat /\ {e.id : e \in NewerThan(id)} # {}
  BY <1>1, Zenon
<1>3. PICK m \in {e.id : e \in NewerThan(id)} : \A k \in {e.id : e \in NewerThan(id)} : m <= k
  BY <1>2, SmallestExists, Zenon
<1>4. PICK e \in NewerThan(id) : e.id = m
  BY <1>3, Zenon
<1>5. {f \in NewerThan(id) : f.id < e.id} = {}
  <2>1. \A f \in NewerThan(id) : f.id \in Nat /\ e.id \in Nat /\ e.id <= f.id
    BY <1>1, <1>3, <1>4, Zenon
  <2>2. \A f \in NewerThan(id) : ~(f.id < e.id)
    BY <2>1
  <2>3. QED
    BY <2>2, Zenon
<1>6. Cardinality({f \in NewerThan(id) : f.id < e.id}) < n
  <2>1. Cardinality({f \in NewerThan(id) : f.id < e.id}) = 0
    BY <1>5, FS_EmptySet, Zenon
  <2>2. 0 < n
    OBVIOUS
  <2>3. QED
    BY <2>1, <2>2, Zenon
<1>7. QED
  BY <1>6, Zenon DEF GetNewEvents

\* ORDER BY id ASC LIMIT n returns the next events without a gap.
LEMMA FetchHasNoGap ==
  ASSUME StoreInv, IsFiniteSet(events), NEW id \in Nat, NEW n \in Nat \ {0}
  PROVE  /\ GetNewEvents(id, n) \subseteq NewerThan(id)
         /\ \A b \in GetNewEvents(id, n) : \A e \in NewerThan(id) :
              e.id < b.id => e \in GetNewEvents(id, n)
<1> DEFINE Before(e) == {f \in NewerThan(id) : f.id < e.id}
<1>1. \A e \in events : e.id \in Nat
  BY EventFields DEF EventIds
<1>2. \A e \in NewerThan(id) : e \in events
  BY Zenon DEF NewerThan
<1>3. \A e \in NewerThan(id) : IsFiniteSet(Before(e)) /\ Cardinality(Before(e)) \in Nat
  <2>1. SUFFICES ASSUME NEW e \in NewerThan(id)
                 PROVE  IsFiniteSet(Before(e)) /\ Cardinality(Before(e)) \in Nat
    BY Zenon
  <2>2. Before(e) \in SUBSET events
    BY <1>2, Zenon
  <2>3. IsFiniteSet(Before(e))
    BY <2>2, FS_Subset, Zenon
  <2>4. QED
    BY <2>3, FS_CardinalityType, Zenon
<1>4. ASSUME NEW b \in GetNewEvents(id, n), NEW e \in NewerThan(id), e.id < b.id
      PROVE  e \in GetNewEvents(id, n)
  <2>1. b \in NewerThan(id) /\ Cardinality(Before(b)) < n
    BY Zenon DEF GetNewEvents
  <2>2. Before(e) \in SUBSET Before(b)
    BY <1>1, <1>2, <1>4, <2>1
  <2>3. Cardinality(Before(e)) <= Cardinality(Before(b))
    BY <1>3, <2>1, <2>2, FS_Subset, Zenon
  <2>4. Cardinality(Before(e)) \in Nat /\ Cardinality(Before(b)) \in Nat
    BY <1>3, <2>1, Zenon
  <2>5. Cardinality(Before(e)) < n
    <3> HIDE DEF Before
    <3>1. QED
      BY <2>1, <2>3, <2>4
  <2>6. QED
    BY <2>5, Zenon DEF GetNewEvents
<1>5. QED
  BY <1>4, Zenon DEF GetNewEvents
-----------------------------------------------------------------------------
(* Type correctness, for any number of writers *)

\* Moving past a record keeps the types: the loop ends when the batch does.
LEMMA NextRecordType ==
  ASSUME StoreInv, ProjectorTypeOK, NEW p \in Projectors, batch[p] # {}, NextRecord(p),
         UNCHANGED <<storeVars, readTables, failures>>
  PROVE  ProjectorTypeOK'
<1> USE DEF readTables, storeVars, tables, sessions
<1> DEFINE rec == Current(p)
<1>1. rec \in batch[p] /\ rec.id \in EventIds
  BY CurrentIsFirst, Zenon
<1>2. /\ lastID' = [lastID EXCEPT ![p] = rec.id] /\ batch' = [batch EXCEPT ![p] = @ \ {rec}]
      /\ progressed' = [progressed EXCEPT ![p] = TRUE]
      /\ jpc' = [jpc EXCEPT ![p] = IF batch[p] = {rec} THEN "save" ELSE "project"]
  BY Zenon DEF NextRecord
<1> HIDE DEF rec
<1>3. batch' \in [Projectors -> SUBSET events'] /\ lastID' \in [Projectors -> 0..MaxSerial]
  BY <1>1, <1>2 DEF ProjectorTypeOK, EventIds
<1>4. \A q \in Projectors : jpc'[q] \in {"project", "history", "invalidate"} <=> batch'[q] # {}
  BY <1>1, <1>2, Zenon DEF ProjectorTypeOK
<1>5. QED
  BY <1>2, <1>3, <1>4, Zenon DEF ProjectorTypeOK

\* The statements of Project, and the break after one fails, keep the types.
LEMMA WriteType ==
  ASSUME StoreInv, ProjectorTypeOK, NEW p \in Projectors, batch[p] # {},
         UNCHANGED <<storeVars, checkpoint, lastID, progressed>>,
         UNCHANGED history \/ WriteHistory(p), UNCHANGED summary \/ WriteSummary(p),
         UNCHANGED failures \/ Failure,
         \/ batch' = batch /\ jpc' = [jpc EXCEPT ![p] = "history"]
         \/ batch' = batch /\ jpc' = [jpc EXCEPT ![p] = "invalidate"]
         \/ Break(p)
  PROVE  ProjectorTypeOK'
<1> USE DEF storeVars, tables, sessions
<1>1. Current(p).id \in EventIds /\ Current(p).aggregate_id \in Coins
  BY CurrentIsFirst, Zenon
<1>2. history' \in [EventIds -> Nat] /\ summary' \in [Coins -> 0..MaxSerial]
  <2>1. history' \in [EventIds -> Nat]
    BY <1>1 DEF WriteHistory, ProjectorTypeOK
  <2>2. Current(p).id \in 0..MaxSerial
    BY <1>1 DEF EventIds
  <2>3. summary' \in [Coins -> 0..MaxSerial]
    BY <1>1, <2>2, Zenon DEF WriteSummary, ProjectorTypeOK
  <2>4. QED
    BY <2>1, <2>3, Zenon
<1>3. failures' \in 0..MaxFailures
  BY ProjectorAssumption DEF Failure, ProjectorTypeOK
<1>4. /\ jpc' \in [Projectors -> {"down", "dead", "poll", "project", "history", "invalidate", "save"}]
      /\ batch' \in [Projectors -> SUBSET events']
      /\ \A q \in Projectors : jpc'[q] \in {"project", "history", "invalidate"} <=> batch'[q] # {}
  BY Zenon DEF Break, ProjectorTypeOK
<1>5. QED
  BY <1>2, <1>3, <1>4, Zenon DEF ProjectorTypeOK

\* Starting, polling, saving and restarting keep the types.
LEMMA PositionType ==
  ASSUME StoreInv, ProjectorTypeOK, NEW p \in Projectors,
         \/ Start(p) \/ StartFails(p) \/ Poll(p)
         \/ UpdateLastEventID(p) \/ UpdateLastEventIDFails(p) \/ Restart(p)
  PROVE  ProjectorTypeOK'
<1> USE DEF readTables, storeVars, tables, sessions
<1>1. UNCHANGED <<events, summary, history>>
  BY Zenon DEF Start, StartFails, Poll, UpdateLastEventID, UpdateLastEventIDFails, Restart
<1>2. failures' \in 0..MaxFailures
  BY ProjectorAssumption
  DEF Start, StartFails, Poll, UpdateLastEventID, UpdateLastEventIDFails, Restart, Failure,
      ProjectorTypeOK
<1>3. lastID' \in [Projectors -> 0..MaxSerial] /\ checkpoint' \in 0..MaxSerial
  BY StoreAssumption
  DEF Start, StartFails, Poll, UpdateLastEventID, UpdateLastEventIDFails, Restart, Greatest,
      ProjectorTypeOK
<1>4. /\ jpc' \in [Projectors -> {"down", "dead", "poll", "project", "history", "invalidate", "save"}]
      /\ progressed' \in [Projectors -> BOOLEAN]
  BY Zenon DEF Start, StartFails, Poll, UpdateLastEventID, UpdateLastEventIDFails, Restart, ProjectorTypeOK
<1>5. /\ batch' \in [Projectors -> SUBSET events]
      /\ \A q \in Projectors : jpc'[q] \in {"project", "history", "invalidate"} <=> batch'[q] # {}
  <2>1. CASE Poll(p)
    <3>1. /\ GetNewEvents(lastID[p], FetchLimit) # {}
          /\ GetNewEvents(lastID[p], FetchLimit) \subseteq events
      <4>1. lastID[p] \in Nat /\ NewerThan(lastID[p]) # {} /\ FetchLimit \in Nat \ {0}
        BY <2>1, ProjectorAssumption DEF Poll, ProjectorTypeOK
      <4>2. QED
        BY <4>1, FetchFindsOne, Zenon DEF GetNewEvents, NewerThan
    <3>2. QED
      BY <2>1, <3>1, Zenon DEF Poll, ProjectorTypeOK
  <2>2. CASE ~Poll(p)
    BY <2>2 DEF Start, StartFails, UpdateLastEventID, UpdateLastEventIDFails, Restart, ProjectorTypeOK
  <2>3. QED
    BY <2>1, <2>2, Zenon
<1>6. QED
  BY <1>1, <1>2, <1>3, <1>4, <1>5, Zenon DEF ProjectorTypeOK

\* Every step of a session or a daemon keeps the types.
LEMMA ProjectorNextType ==
  ASSUME StoreInv, ProjectorTypeOK, [ProjectorNext]_allVars
  PROVE  ProjectorTypeOK'
<1>1. CASE [StoreNext]_storeVars /\ UNCHANGED projectorVars
  <2>1. events \subseteq events'
    BY <1>1, Zenon
    DEF StoreNext, AppendEvents, ProcessMarketData, AcquireLock, VersionMatches, VersionConflict,
        InsertEvent, InsertFails, InsertOutbox, Commit, Abort, storeVars, tables
  <2>2. QED
    BY <1>1, <2>1, Zenon DEF ProjectorTypeOK, projectorVars, readTables, daemonVars
<1>2. ASSUME NEW p \in Projectors, Proceed(p) \/ Fail(p) PROVE ProjectorTypeOK'
  <2>1. ASSUME Skip(p) \/ Invalidate(p) PROVE ProjectorTypeOK'
    BY <2>1, NextRecordType, Zenon DEF Skip, Invalidate, ProjectorTypeOK
  <2>2. ASSUME UpdateMarketSummary(p) \/ AddPriceHistory(p) PROVE ProjectorTypeOK'
    BY <2>2, WriteType, Zenon DEF UpdateMarketSummary, AddPriceHistory, ProjectorTypeOK
  <2>3. ASSUME SummaryRejected(p) \/ UpdateMarketSummaryFails(p) \/ AddPriceHistoryFails(p)
        PROVE  ProjectorTypeOK'
    BY <2>3, WriteType, Zenon
    DEF SummaryRejected, UpdateMarketSummaryFails, AddPriceHistoryFails, Break, readTables,
        ProjectorTypeOK
  <2>4. QED
    BY <1>2, <2>1, <2>2, <2>3, PositionType, Zenon DEF Proceed, Fail
<1>3. QED
  BY <1>1, <1>2, Zenon DEF ProjectorNext, allVars
-----------------------------------------------------------------------------
\* A commit makes one event visible, beyond every position.
LEMMA CommitIsBeyond ==
  ASSUME StoreInv, ProjectorTypeOK, ProjectorInv, SingleWriter, NEW w \in Writers, Commit(w)
  PROVE  \E e \in Event :
           /\ events' = events \cup {e} /\ e.id \in EventIds
           /\ \A f \in events : f.id < e.id
           /\ checkpoint < e.id /\ history[e.id] = 0
           /\ \A p \in Projectors : lastID[p] < e.id
           /\ \A u \in Writers : txEvents'[u] = {}
<1> USE DEF ProjectorInv
<1>1. PICK c \in Coins : coin[w] = c
  BY Zenon DEF StoreInv, StoreTypeOK
<1>2. PICK e \in Event : txEvents[w] = {e} /\ events' = events \cup {e} /\ e.id <= eventsSeq
  BY <1>1, CommitAppends, Zenon
<1>3. \A f \in events : f.id < e.id
  BY <1>2, Zenon DEF VisibleInOrder
<1>4. e.id \in EventIds
  BY <1>2, StoreAssumption DEF StoreInv, StoreTypeOK, Event, EventIds
<1>5. \A n : Position(n) => n < e.id
  BY <1>3, <1>4 DEF Position, EventIds
<1>6. checkpoint < e.id /\ \A p \in Projectors : lastID[p] < e.id
  BY <1>5, Zenon DEF Positions
<1>7. history[e.id] = 0
  <2>1. ~Position(e.id)
    BY <1>4, <1>5 DEF EventIds
  <2>2. history[e.id] \in Nat /\ ~(history[e.id] > 0)
    BY <1>4, <2>1, Zenon DEF Positions, ProjectorTypeOK
  <2>3. QED
    BY <2>2
<1>8. \A u \in Writers : txEvents'[u] = {}
  BY Zenon DEF Commit, EndTx, SingleWriter, StoreInv, StoreTypeOK
<1>9. QED
  BY <1>2, <1>3, <1>4, <1>6, <1>7, <1>8, Zenon

\* A commit keeps the invariant: no daemon has yet looked as far as its event.
LEMMA CommitKeepsProjectorInv ==
  ASSUME StoreInv, ProjectorTypeOK, ProjectorInv, SingleWriter, NEW w \in Writers, Commit(w), UNCHANGED projectorVars
  PROVE  ProjectorInv'
<1> USE DEF ProjectorInv
<1> USE DEF projectorVars, readTables, daemonVars
<1>1. PICK e \in Event :
        /\ events' = events \cup {e} /\ e.id \in EventIds
        /\ \A f \in events : f.id < e.id
        /\ checkpoint < e.id /\ history[e.id] = 0
        /\ \A p \in Projectors : lastID[p] < e.id
        /\ \A u \in Writers : txEvents'[u] = {}
  BY CommitIsBeyond, Zenon
<1>2. e.id \in Nat /\ \A f \in events : f.id \in Nat
  BY <1>1, EventFields DEF EventIds
<1>3. VisibleInOrder'
  <2>1. IsFiniteSet(events')
    BY <1>1, FS_AddElement, Zenon DEF VisibleInOrder
  <2>2. \A f, g \in events' : f.id = g.id => f = g
    BY <1>1, <1>2 DEF VisibleInOrder
  <2>3. QED
    BY <1>1, <2>1, <2>2, Zenon DEF VisibleInOrder
<1>4. Positions'
  BY <1>1, Zenon DEF Positions, Position
<1>5. BehindIsProjected' /\ CheckpointCoversProjected'
  <2>1. checkpoint \in Nat /\ \A p \in Projectors : lastID[p] \in Nat
    BY DEF ProjectorTypeOK
  <2>2. QED
    BY <1>1, <1>2, <2>1 DEF BehindIsProjected, CheckpointCoversProjected, Projected
<1>6. BatchHasNoGap'
  <2>1. \A p \in Projectors : batch[p] \subseteq events
    BY Zenon DEF ProjectorTypeOK
  <2>2. \A p \in Projectors : \A b \in batch[p] : ~(e.id < b.id)
    BY <1>1, <1>2, <2>1
  <2>3. QED
    BY <1>1, <2>2, Zenon DEF BatchHasNoGap
<1>7. CurrentIsWritten'
  BY Zenon DEF CurrentIsWritten, Current
<1>8. ProjectedIsPrefix'
  BY <1>1, <1>2 DEF ProjectedIsPrefix, Projected
<1>9. QED
  BY <1>3, <1>4, <1>5, <1>6, <1>7, <1>8, Zenon

\* A step of the session that commits nothing is invisible to the daemons.
LEMMA SessionKeepsProjectorInv ==
  ASSUME StoreInv, ProjectorTypeOK, ProjectorInv, SingleWriter, StoreNext, events' = events, UNCHANGED projectorVars
  PROVE  ProjectorInv'
<1> USE DEF ProjectorInv
<1> USE DEF projectorVars, readTables, daemonVars
<1>1. /\ Positions' /\ BehindIsProjected' /\ BatchHasNoGap'
      /\ CurrentIsWritten' /\ CheckpointCoversProjected' /\ ProjectedIsPrefix'
  BY DEF Positions, Position, BehindIsProjected, BatchHasNoGap, CurrentIsWritten,
         Current, CheckpointCoversProjected, ProjectedIsPrefix, Projected
<1>2. VisibleInOrder'
  <2>1. ASSUME NEW w \in Writers, EndTx(w) PROVE VisibleInOrder'
    BY <2>1, Zenon DEF VisibleInOrder, EndTx, StoreInv, StoreTypeOK
  <2>2. ASSUME NEW w \in Writers, InsertEvent(w) PROVE VisibleInOrder'
    <3> DEFINE row == [id |-> eventsSeq + 1, aggregate_id |-> coin[w], version |-> version[w]]
    <3>1. txEvents' = [txEvents EXCEPT ![w] = {row}]
      BY <2>2, Zenon DEF InsertEvent, NextVal
    <3>2. \A f \in events : f.id < row.id
      BY DEF StoreInv, StoreTypeOK, Issued, Event
    <3> HIDE DEF row
    <3>3. QED
      BY <3>1, <3>2, Zenon DEF VisibleInOrder, StoreInv, StoreTypeOK
  <2>3. CASE txEvents' = txEvents
    BY <2>3, Zenon DEF VisibleInOrder
  <2>4. QED
    BY <2>1, <2>2, <2>3, Zenon
    DEF StoreNext, AppendEvents, ProcessMarketData, AcquireLock, VersionMatches, VersionConflict,
        InsertFails, InsertOutbox, Commit, Abort
<1>3. QED
  BY <1>1, <1>2, Zenon
-----------------------------------------------------------------------------
\* Start, StartFails and Restart put a daemon without a batch at a position that
\* is covered: the checkpoint, or the beginning.
LEMMA StartKeepsProjectorInv ==
  ASSUME StoreInv, ProjectorTypeOK, ProjectorInv, NEW p \in Projectors,
         Start(p) \/ StartFails(p) \/ Restart(p)
  PROVE  ProjectorInv'
<1> USE DEF ProjectorInv, readTables, storeVars, tables, sessions
<1>1. /\ UNCHANGED <<events, txEvents, checkpoint, summary, history>>
      /\ jpc'[p] \in {"down", "dead", "poll"} /\ batch'[p] = {}
      /\ lastID'[p] \in {0, checkpoint, lastID[p]}
  BY Zenon DEF Start, StartFails, Restart, ProjectorTypeOK
<1>2. \A q \in Projectors \ {p} : jpc'[q] = jpc[q] /\ batch'[q] = batch[q] /\ lastID'[q] = lastID[q]
  BY Zenon DEF Start, StartFails, Restart, ProjectorTypeOK
<1>3. \A e \in events : ~(e.id <= 0)
  BY EventFields DEF EventIds
<1>4. Positions'
  BY <1>1, <1>2, SMTT(30) DEF Positions, Position
<1>5. BehindIsProjected'
  <2>1. SUFFICES ASSUME NEW q \in Projectors, NEW e \in events, e.id <= lastID'[q]
                 PROVE  Projected(e)
    BY <1>1, Zenon DEF BehindIsProjected, Projected
  <2>2. CASE q = p
    BY <1>1, <1>3, <2>1, <2>2, Zenon DEF BehindIsProjected, CheckpointCoversProjected
  <2>3. CASE q # p
    BY <1>2, <2>1, <2>3, Zenon DEF BehindIsProjected
  <2>4. QED
    BY <2>2, <2>3, Zenon
<1>6. BatchHasNoGap' /\ VisibleInOrder'
  BY <1>1, <1>2, Zenon DEF BatchHasNoGap, VisibleInOrder
<1>7. CurrentIsWritten'
  BY <1>1, <1>2, SMTT(30) DEF CurrentIsWritten, Current
<1>8. CheckpointCoversProjected' /\ ProjectedIsPrefix'
  BY <1>1, Zenon DEF CheckpointCoversProjected, ProjectedIsPrefix, Projected
<1>9. QED
  BY <1>4, <1>5, <1>6, <1>7, <1>8, Zenon

\* Poll fetches the events that follow the position.
LEMMA PollKeepsProjectorInv ==
  ASSUME StoreInv, ProjectorTypeOK, ProjectorInv, NEW p \in Projectors, Poll(p)
  PROVE  ProjectorInv'
<1> USE DEF ProjectorInv, readTables, storeVars, tables, sessions
<1> DEFINE fetched == GetNewEvents(lastID[p], FetchLimit)
<1>1. /\ UNCHANGED <<events, txEvents, checkpoint, summary, history, lastID>>
      /\ jpc' = [jpc EXCEPT ![p] = "project"] /\ batch' = [batch EXCEPT ![p] = fetched]
      /\ lastID[p] \in Nat
  BY DEF Poll, ProjectorTypeOK
<1>2. /\ fetched \subseteq NewerThan(lastID[p])
      /\ \A b \in fetched : \A e \in NewerThan(lastID[p]) : e.id < b.id => e \in fetched
  BY <1>1, FetchHasNoGap, ProjectorAssumption, Zenon DEF VisibleInOrder
<1> HIDE DEF fetched
<1>3. fetched \subseteq events /\ \A b \in fetched : lastID[p] < b.id
  BY <1>1, <1>2, EventFields, Zenon DEF NewerThan, EventIds
<1>4. BatchHasNoGap'
  <2>1. \A b \in fetched : \A e \in events : lastID[p] < e.id /\ e.id < b.id => e \in fetched
    BY <1>1, <1>2, EventFields, Zenon DEF NewerThan, EventIds
  <2>2. QED
    BY <1>1, <1>3, <2>1, Zenon DEF BatchHasNoGap, ProjectorTypeOK
<1>5. CurrentIsWritten'
  BY <1>1 DEF CurrentIsWritten, Current, ProjectorTypeOK
<1>6. VisibleInOrder' /\ Positions' /\ BehindIsProjected' /\ CheckpointCoversProjected' /\ ProjectedIsPrefix'
  BY <1>1, Zenon DEF VisibleInOrder, Positions, Position, BehindIsProjected, CheckpointCoversProjected,
              ProjectedIsPrefix, Projected
<1>7. QED
  BY <1>4, <1>5, <1>6, Zenon

\* The loop moves past a record that has been skipped or written.
LEMMA NextRecordKeepsProjectorInv ==
  ASSUME StoreInv, ProjectorTypeOK, ProjectorInv, NEW p \in Projectors, batch[p] # {}, Projected(Current(p)),
         NextRecord(p), UNCHANGED <<storeVars, readTables, failures>>
  PROVE  ProjectorInv'
<1> USE DEF ProjectorInv, readTables, storeVars, tables, sessions
<1> DEFINE rec == Current(p)
<1>1. /\ rec \in batch[p] /\ rec \in events /\ rec.id \in EventIds
      /\ \A f \in batch[p] : rec.id <= f.id
  BY CurrentIsFirst, Zenon
<1>2. /\ lastID' = [lastID EXCEPT ![p] = rec.id] /\ batch' = [batch EXCEPT ![p] = @ \ {rec}]
      /\ jpc' = [jpc EXCEPT ![p] = IF batch[p] = {rec} THEN "save" ELSE "project"]
  BY Zenon DEF NextRecord
<1>3. Projected(rec)
  BY Zenon
<1> HIDE DEF rec
<1>4. \A f \in batch[p] : f \in events /\ f.id \in Nat /\ (f # rec => rec.id < f.id)
  <2>1. batch[p] \subseteq events
    BY Zenon DEF ProjectorTypeOK
  <2>2. \A f \in batch[p] : f.id \in Nat
    BY <2>1, EventFields DEF EventIds
  <2>3. \A f \in batch[p] : f.id = rec.id => f = rec
    BY <1>1, <2>1, Zenon DEF VisibleInOrder
  <2>4. QED
    BY <1>1, <2>1, <2>2, <2>3
<1>5. Positions'
  BY <1>1, <1>2, Zenon DEF Positions, Position, ProjectorTypeOK
<1>6. BehindIsProjected'
  <2>1. ASSUME NEW e \in events, e.id <= rec.id PROVE Projected(e)
    <3>1. e.id \in Nat /\ lastID[p] \in Nat /\ rec.id \in Nat
      BY <1>1, EventFields DEF EventIds, ProjectorTypeOK
    <3>2. CASE e.id <= lastID[p]
      BY <3>2, Zenon DEF BehindIsProjected
    <3>3. CASE e.id = rec.id
      BY <1>1, <1>3, <3>3, Zenon DEF VisibleInOrder
    <3>4. CASE lastID[p] < e.id /\ e.id < rec.id
      <4>1. e \in batch[p]
        BY <1>1, <3>4, Zenon DEF BatchHasNoGap
      <4>2. QED
        BY <1>1, <3>1, <3>4, <4>1, SMTT(30)
    <3>5. QED
      BY <2>1, <3>1, <3>2, <3>3, <3>4
  <2>2. QED
    BY <1>2, <2>1, Zenon DEF BehindIsProjected, Projected, ProjectorTypeOK
<1>7. BatchHasNoGap'
  <2>1. ASSUME NEW b \in batch[p] \ {rec}
        PROVE  /\ rec.id < b.id
               /\ \A e \in events : rec.id < e.id /\ e.id < b.id => e \in batch[p] \ {rec}
    <3>1. rec.id < b.id
      BY <1>4, Zenon
    <3>2. ASSUME NEW e \in events, rec.id < e.id, e.id < b.id PROVE e \in batch[p] \ {rec}
      <4>1. lastID[p] < rec.id
        BY <1>1, Zenon DEF BatchHasNoGap
      <4>2. lastID[p] < e.id /\ e # rec
        BY <1>1, <3>2, <4>1, EventFields DEF EventIds, ProjectorTypeOK
      <4>3. QED
        BY <3>2, <4>2, Zenon DEF BatchHasNoGap
    <3>3. QED
      BY <3>1, <3>2, Zenon
  <2>2. QED
    BY <1>2, <2>1, Zenon DEF BatchHasNoGap, ProjectorTypeOK
<1>8. CurrentIsWritten'
  BY <1>2, SMTT(40) DEF CurrentIsWritten, Current, ProjectorTypeOK
<1>9. VisibleInOrder' /\ CheckpointCoversProjected' /\ ProjectedIsPrefix'
  BY Zenon DEF VisibleInOrder, CheckpointCoversProjected, ProjectedIsPrefix, Projected
<1>10. QED
  BY <1>5, <1>6, <1>7, <1>8, <1>9, Zenon

\* A row of price_history is written after those of every earlier event.
LEMMA WriteHistoryKeepsPrefix ==
  ASSUME StoreInv, ProjectorTypeOK, ProjectorInv, NEW p \in Projectors, batch[p] # {}, WriteHistory(p),
         events' = events
  PROVE  /\ history' \in [EventIds -> Nat] /\ history'[Current(p).id] > 0
         /\ \A i \in EventIds : history'[i] >= history[i]
         /\ \A i \in EventIds : history'[i] > 0 => Position(i)
         /\ ProjectedIsPrefix'
<1> USE DEF ProjectorInv
<1> DEFINE rec == Current(p)
<1>1. /\ rec \in batch[p] /\ rec \in events /\ rec.id \in EventIds
      /\ \A f \in batch[p] : rec.id <= f.id
  BY CurrentIsFirst, Zenon
<1>2. history' = [history EXCEPT ![rec.id] = @ + 1]
  BY Zenon DEF WriteHistory
<1> HIDE DEF rec
<1>3. /\ history' \in [EventIds -> Nat] /\ history'[rec.id] > 0
      /\ \A i \in EventIds : history'[i] >= history[i]
      /\ \A i \in EventIds \ {rec.id} : history'[i] = history[i]
  BY <1>1, <1>2 DEF ProjectorTypeOK
<1>4. \A i \in EventIds : history'[i] > 0 => Position(i)
  BY <1>1, <1>3, Zenon DEF Positions, Position
<1>5. ASSUME NEW e \in events, e.id < rec.id PROVE Projected(e)
  <2>1. e.id \in Nat /\ lastID[p] \in Nat /\ rec.id \in Nat
    BY <1>1, EventFields DEF EventIds, ProjectorTypeOK
  <2>2. CASE e.id <= lastID[p]
    BY <2>2, Zenon DEF BehindIsProjected
  <2>3. CASE lastID[p] < e.id
    <3>1. e \in batch[p]
      BY <1>1, <1>5, <2>3, Zenon DEF BatchHasNoGap
    <3>2. QED
      BY <1>1, <1>5, <2>1, <3>1
  <2>4. QED
    BY <2>1, <2>2, <2>3
<1>6. \A e \in events : Projected(e) => Projected(e)'
  BY <1>3, EventFields, Zenon DEF Projected, ProjectorTypeOK
<1>7. ProjectedIsPrefix'
  <2>1. SUFFICES ASSUME NEW e \in events, NEW f \in events, e.id < f.id, history'[f.id] > 0
                 PROVE  Projected(e)'
    BY Zenon DEF ProjectedIsPrefix
  <2>2. CASE f.id = rec.id
    BY <1>5, <1>6, <2>1, <2>2, Zenon
  <2>3. CASE f.id # rec.id
    BY <1>3, <1>6, <2>1, <2>3, EventFields, Zenon DEF ProjectedIsPrefix
  <2>4. QED
    BY <2>2, <2>3, Zenon
<1>8. QED
  BY <1>3, <1>4, <1>7, Zenon DEF rec

\* A statement of Project, or the break after a failed one, keeps the position.
LEMMA WriteKeepsProjectorInv ==
  ASSUME StoreInv, ProjectorTypeOK, ProjectorInv, NEW p \in Projectors, batch[p] # {},
         UNCHANGED <<storeVars, checkpoint, lastID>>,
         UNCHANGED history \/ WriteHistory(p),
         \/ batch' = batch /\ jpc' = [jpc EXCEPT ![p] = "history"]
         \/ batch' = batch /\ jpc' = [jpc EXCEPT ![p] = "invalidate"] /\ WriteHistory(p)
         \/ Break(p)
  PROVE  ProjectorInv'
<1> USE DEF ProjectorInv, storeVars, tables, sessions
<1>1. /\ history' \in [EventIds -> Nat]
      /\ \A i \in EventIds : history'[i] >= history[i]
      /\ \A i \in EventIds : history'[i] > 0 => Position(i)
      /\ WriteHistory(p) => history'[Current(p).id] > 0
      /\ ProjectedIsPrefix'
  <2>1. CASE WriteHistory(p)
    BY <2>1, WriteHistoryKeepsPrefix, Zenon
  <2>2. CASE UNCHANGED history /\ ~WriteHistory(p)
    BY <2>2 DEF Positions, ProjectedIsPrefix, Projected, ProjectorTypeOK
  <2>3. QED
    BY <2>1, <2>2, Zenon
<1>2. /\ \A q \in Projectors \ {p} : jpc'[q] = jpc[q] /\ batch'[q] = batch[q]
      /\ batch'[p] = batch[p] \/ batch'[p] = {}
      /\ jpc'[p] = "invalidate" => WriteHistory(p) /\ batch'[p] = batch[p]
  BY Zenon DEF Break, ProjectorTypeOK
<1>3. \A e \in events : Projected(e) => Projected(e)'
  BY <1>1, EventFields, SMTT(30) DEF Projected, ProjectorTypeOK
<1>4. VisibleInOrder' /\ Positions'
  BY <1>1, Zenon DEF VisibleInOrder, Positions, Position
<1>5. BehindIsProjected' /\ CheckpointCoversProjected'
  BY <1>3, Zenon DEF BehindIsProjected, CheckpointCoversProjected
<1>6. BatchHasNoGap'
  BY <1>2, Zenon DEF BatchHasNoGap
<1>7. CurrentIsWritten'
  <2>1. SUFFICES ASSUME NEW q \in Projectors, jpc'[q] = "invalidate"
                 PROVE  history'[Current(q)'.id] > 0
    BY Zenon DEF CurrentIsWritten
  <2>2. batch'[q] = batch[q] /\ Current(q)' = Current(q)
    BY <1>2, <2>1, Zenon DEF Current
  <2>3. CASE q = p
    BY <1>1, <1>2, <2>1, <2>2, <2>3, Zenon
  <2>4. CASE q # p
    <3>1. jpc[q] = "invalidate" /\ batch[q] # {} /\ history[Current(q).id] > 0
      BY <1>2, <2>1, <2>4, Zenon DEF CurrentIsWritten, ProjectorTypeOK
    <3>2. Current(q).id \in EventIds
      BY <3>1, CurrentIsFirst, Zenon
    <3>3. QED
      BY <1>1, <2>2, <3>1, <3>2 DEF ProjectorTypeOK
  <2>5. QED
    BY <2>3, <2>4, Zenon
<1>8. QED
  BY <1>1, <1>4, <1>5, <1>6, <1>7, Zenon

\* Saving moves the checkpoint to the position of a daemon, or leaves it.
LEMMA SaveKeepsProjectorInv ==
  ASSUME StoreInv, ProjectorTypeOK, ProjectorInv, NEW p \in Projectors,
         UpdateLastEventID(p) \/ UpdateLastEventIDFails(p)
  PROVE  ProjectorInv'
<1> USE DEF ProjectorInv, readTables, storeVars, tables, sessions
<1>1. /\ UNCHANGED <<events, txEvents, summary, history, lastID, batch>>
      /\ jpc' = [jpc EXCEPT ![p] = "poll"]
      /\ checkpoint' \in {checkpoint, lastID[p]}
  BY Zenon DEF UpdateLastEventID, UpdateLastEventIDFails, Greatest
<1>2. Positions' /\ CheckpointCoversProjected'
  BY <1>1, Zenon DEF Positions, Position, CheckpointCoversProjected, BehindIsProjected, Projected
<1>3. VisibleInOrder' /\ BehindIsProjected' /\ BatchHasNoGap' /\ ProjectedIsPrefix'
  BY <1>1, Zenon DEF VisibleInOrder, BehindIsProjected, BatchHasNoGap, ProjectedIsPrefix, Projected
<1>4. CurrentIsWritten'
  BY <1>1, SMTT(40) DEF CurrentIsWritten, Current, ProjectorTypeOK
<1>5. QED
  BY <1>2, <1>3, <1>4, Zenon

\* The invariant holds initially: nothing is committed and nobody has started.
LEMMA ProjectorInitInv == ProjectorInit => StoreInv /\ ProjectorTypeOK /\ ProjectorInv
<1> SUFFICES ASSUME ProjectorInit PROVE StoreInv /\ ProjectorTypeOK /\ ProjectorInv
  BY Zenon
<1>1. StoreInv
  BY InitInv, Zenon DEF ProjectorInit
<1>2. ProjectorTypeOK
  BY ProjectorAssumption, StoreAssumption DEF ProjectorInit, ProjectorTypeOK
<1>3. events = {} /\ IsFiniteSet(events) /\ \A w \in Writers : txEvents[w] = {}
  BY FS_EmptySet, Zenon DEF ProjectorInit, StoreInit
<1>4. ProjectorInv
  BY <1>3, SMTT(40)
  DEF ProjectorInit, ProjectorInv, VisibleInOrder, Positions, Position, BehindIsProjected,
      BatchHasNoGap, CurrentIsWritten, CheckpointCoversProjected, ProjectedIsPrefix
<1>5. QED
  BY <1>1, <1>2, <1>4, Zenon

\* A daemon reads the events table and writes nothing that a session reads.
LEMMA DaemonLeavesSessions == [ProjectorNext]_allVars => [StoreNext]_storeVars
  BY Zenon DEF ProjectorNext, Proceed, Fail, Start, StartFails, Poll, Skip, UpdateMarketSummary,
         UpdateMarketSummaryFails, SummaryRejected, AddPriceHistory, AddPriceHistoryFails, Invalidate,
         UpdateLastEventID, UpdateLastEventIDFails, Restart, allVars

\* The sessions keep their invariant.
LEMMA ProjectorNextStore == StoreInv /\ [ProjectorNext]_allVars => StoreInv'
  BY DaemonLeavesSessions, NextInv, Zenon

\* Beside any number of projector daemons the sessions behave as they do alone: what is
\* proved of the event store (Store.AppendEvents) holds of the composition.
THEOREM ProjectorUsesStore == ProjectorSpec => StoreSpec
<1>1. ProjectorInit => StoreInit
  BY Zenon DEF ProjectorInit
<1>2. QED
  BY <1>1, DaemonLeavesSessions, PTL DEF ProjectorSpec, StoreSpec

\* The daemons read one atomic append-only log per aggregate.
THEOREM ProjectorReadsLog == ProjectorSpec => ImplementsLog
  BY ProjectorUsesStore, StoreImplementsLog, PTL

\* With one writer every step preserves the invariant.
LEMMA ProjectorNextInv ==
  ASSUME SingleWriter, StoreInv, ProjectorTypeOK, ProjectorInv, [ProjectorNext]_allVars
  PROVE  ProjectorInv'
<1>1. CASE StoreNext /\ UNCHANGED projectorVars
  <2>1. ASSUME NEW w \in Writers, Commit(w) PROVE ProjectorInv'
    BY <1>1, <2>1, CommitKeepsProjectorInv, Zenon
  <2>2. CASE events' = events
    BY <1>1, <2>2, SessionKeepsProjectorInv, Zenon
  <2>3. QED
    BY <1>1, <2>1, <2>2, OnlyCommitAddsEvents, Zenon
<1>2. ASSUME NEW p \in Projectors, Proceed(p) \/ Fail(p) PROVE ProjectorInv'
  <2>1. ASSUME Skip(p) PROVE ProjectorInv'
    BY <2>1, NextRecordKeepsProjectorInv, Zenon DEF Skip, Projected, ProjectorTypeOK
  <2>2. ASSUME Invalidate(p) PROVE ProjectorInv'
    <3>1. jpc[p] = "invalidate" /\ NextRecord(p) /\ UNCHANGED <<storeVars, readTables, failures>>
      BY <2>2, Zenon DEF Invalidate
    <3>2. batch[p] # {}
      BY <3>1, Zenon DEF ProjectorTypeOK
    <3>3. Projected(Current(p))
      BY <3>1, Zenon DEF Projected, ProjectorInv, CurrentIsWritten
    <3>4. QED
      BY <3>1, <3>2, <3>3, NextRecordKeepsProjectorInv, Zenon
  <2>3. ASSUME UpdateMarketSummary(p) \/ AddPriceHistory(p) PROVE ProjectorInv'
    BY <2>3, WriteKeepsProjectorInv, Zenon DEF UpdateMarketSummary, AddPriceHistory, ProjectorTypeOK
  <2>4. ASSUME SummaryRejected(p) \/ UpdateMarketSummaryFails(p) \/ AddPriceHistoryFails(p)
        PROVE  ProjectorInv'
    BY <2>4, WriteKeepsProjectorInv, Zenon
    DEF SummaryRejected, UpdateMarketSummaryFails, AddPriceHistoryFails, Break, readTables,
        ProjectorTypeOK
  <2>5. QED
    BY <1>2, <2>1, <2>2, <2>3, <2>4, StartKeepsProjectorInv, PollKeepsProjectorInv,
       SaveKeepsProjectorInv, Zenon DEF Proceed, Fail
<1>3. CASE UNCHANGED allVars
  <2>1. /\ events' = events /\ txEvents' = txEvents /\ summary' = summary /\ history' = history
        /\ checkpoint' = checkpoint /\ lastID' = lastID /\ batch' = batch /\ jpc' = jpc
    BY <1>3, Zenon DEF allVars, projectorVars, readTables, daemonVars, storeVars, tables, sessions
  <2>2. VisibleInOrder' /\ Positions'
    BY <2>1, Zenon DEF ProjectorInv, VisibleInOrder, Positions, Position
  <2>3. BehindIsProjected' /\ BatchHasNoGap'
    BY <2>1, Zenon DEF ProjectorInv, BehindIsProjected, BatchHasNoGap, Projected
  <2>4. CurrentIsWritten'
    BY <2>1, Zenon DEF ProjectorInv, CurrentIsWritten, Current
  <2>5. CheckpointCoversProjected' /\ ProjectedIsPrefix'
    BY <2>1, Zenon DEF ProjectorInv, CheckpointCoversProjected, ProjectedIsPrefix, Projected
  <2>6. QED
    BY <2>2, <2>3, <2>4, <2>5, Zenon DEF ProjectorInv
<1>4. QED
  BY <1>1, <1>2, <1>3, Zenon DEF ProjectorNext
-----------------------------------------------------------------------------
LEMMA ProjectorTypeInv == ProjectorSpec => [](StoreInv /\ ProjectorTypeOK)
  BY ProjectorInitInv, ProjectorNextStore, ProjectorNextType, PTL DEF ProjectorSpec

\* Type correctness of the daemons and the read tables, for any number of writers:
\* a daemon inside its loop (Projector.Start) always has a record to work on.
THEOREM ProjectorTypeCorrect == ProjectorSpec => []ProjectorTypeOK
  BY ProjectorTypeInv, PTL

\* GREATEST keeps the shared checkpoint from moving back, however many daemons
\* start, lag, fail and restart, and however many sessions append.
THEOREM CheckpointIsMonotonic == ProjectorSpec => CheckpointNeverMovesBack
<1>1. ProjectorTypeOK /\ [ProjectorNext]_allVars => [checkpoint' >= checkpoint]_allVars
  <2> SUFFICES ASSUME ProjectorTypeOK, ProjectorNext PROVE checkpoint' >= checkpoint
    BY Zenon
  <2>1. checkpoint \in Nat /\ lastID \in [Projectors -> Nat]
    BY StoreAssumption DEF ProjectorTypeOK
  <2>2. ASSUME NEW p \in Projectors, UpdateLastEventID(p) PROVE checkpoint' >= checkpoint
    BY <2>1, <2>2 DEF UpdateLastEventID, Greatest
  <2>3. checkpoint' = checkpoint \/ \E p \in Projectors : UpdateLastEventID(p)
    BY Zenon DEF ProjectorNext, Proceed, Fail, Start, StartFails, Poll, Skip, UpdateMarketSummary,
           UpdateMarketSummaryFails, SummaryRejected, AddPriceHistory, AddPriceHistoryFails,
           Invalidate, UpdateLastEventIDFails, Restart, readTables, projectorVars
  <2>4. QED
    BY <2>1, <2>2, <2>3
<1>2. QED
  BY <1>1, ProjectorTypeInv, PTL DEF ProjectorSpec, CheckpointNeverMovesBack

\* The inductive invariant of one writer and any number of daemons.
THEOREM ProjectorInvariant ==
  ASSUME SingleWriter
  PROVE  ProjectorSpec => []ProjectorInv
  BY ProjectorInitInv, ProjectorNextInv, ProjectorTypeInv, PTL DEF ProjectorSpec

\* With one writer no event is left behind the checkpoint: an instance that
\* restarts from it misses nothing.
THEOREM NothingLeftBehind ==
  ASSUME SingleWriter
  PROVE  ProjectorSpec => []CheckpointCoversProjected
<1>1. ProjectorInv => CheckpointCoversProjected
  BY Zenon DEF ProjectorInv
<1>2. QED
  BY <1>1, ProjectorInvariant, PTL

\* With one writer events reach the read tables in the order of their ids.
THEOREM ProjectionFollowsTheLog ==
  ASSUME SingleWriter
  PROVE  ProjectorSpec => []ProjectedIsPrefix
<1>1. ProjectorInv => ProjectedIsPrefix
  BY Zenon DEF ProjectorInv
<1>2. QED
  BY <1>1, ProjectorInvariant, PTL
-----------------------------------------------------------------------------
(* One daemon never leaves a summary behind its position *)

SingleDaemon == \A p, q \in Projectors : p = q

\* The summary of its coin shows the event or a later one.
Shown(e) == e.aggregate_id \in Unknown \/ summary[e.aggregate_id] >= e.id

\* What holds up to the position of a daemon holds up to the checkpoint as well: the one
\* daemon goes on from the checkpoint, so it never works behind it.
SummaryInv ==
  /\ \A e \in events : e.id <= checkpoint => Shown(e)
  /\ \A p \in Projectors : \A e \in events : e.id <= lastID[p] => Shown(e)
  /\ \A p \in Projectors : jpc[p] \notin {"down", "dead"} => checkpoint <= lastID[p]
  /\ \A p \in Projectors : jpc[p] \in {"history", "invalidate"} => Shown(Current(p))

\* A commit is beyond the checkpoint and every position.
LEMMA CommitKeepsSummaries ==
  ASSUME StoreInv, ProjectorTypeOK, ProjectorInv, SingleWriter, SummaryInv,
         NEW w \in Writers, Commit(w), UNCHANGED projectorVars
  PROVE  SummaryInv'
<1>1. PICK e \in Event :
        /\ events' = events \cup {e} /\ e.id \in EventIds /\ checkpoint < e.id
        /\ \A p \in Projectors : lastID[p] < e.id
  BY CommitIsBeyond, Zenon
<1>2. UNCHANGED <<jpc, lastID, batch, checkpoint, summary>>
  BY Zenon DEF projectorVars, readTables, daemonVars
<1>3. checkpoint \in Nat /\ (\A p \in Projectors : lastID[p] \in Nat) /\ e.id \in Nat
  BY <1>1 DEF ProjectorTypeOK, EventIds
<1>4. \A f : Shown(f)' <=> Shown(f)
  BY <1>2, Zenon DEF Shown
<1>5. /\ \A f \in events' : f.id <= checkpoint' => Shown(f)'
      /\ \A p \in Projectors : \A f \in events' : f.id <= lastID'[p] => Shown(f)'
  <2>1. ~(e.id <= checkpoint) /\ \A p \in Projectors : ~(e.id <= lastID[p])
    BY <1>1, <1>3
  <2>2. ASSUME NEW f \in events', f.id <= checkpoint PROVE Shown(f)
    BY <1>1, <2>1, <2>2, Zenon DEF SummaryInv
  <2>3. ASSUME NEW p \in Projectors, NEW f \in events', f.id <= lastID[p] PROVE Shown(f)
    BY <1>1, <2>1, <2>3, Zenon DEF SummaryInv
  <2>4. QED
    BY <1>2, <1>4, <2>2, <2>3, Zenon
<1>6. \A p \in Projectors : Current(p)' = Current(p)
  BY <1>2, Zenon DEF Current
<1>7. QED
  BY <1>2, <1>4, <1>5, <1>6, Zenon DEF SummaryInv

\* The upsert replaces the summary of a coin by a later event than any the daemon is past.
LEMMA UpsertKeepsSummaries ==
  ASSUME StoreInv, ProjectorTypeOK, ProjectorInv, SingleDaemon, SummaryInv,
         NEW p \in Projectors, jpc[p] = "project", WriteSummary(p), events' = events
  PROVE  /\ \A e \in events : e.id <= checkpoint => Shown(e)'
         /\ \A q \in Projectors : \A e \in events : e.id <= lastID[q] => Shown(e)'
         /\ summary'[Current(p).aggregate_id] >= Current(p).id
<1> DEFINE rec == Current(p)
<1>1. batch[p] # {}
  BY Zenon DEF ProjectorTypeOK
<1>2. rec \in batch[p] /\ rec \in events /\ rec.id \in EventIds /\ rec.aggregate_id \in Coins
  BY <1>1, CurrentIsFirst, Zenon
<1>3. summary' = [summary EXCEPT ![rec.aggregate_id] = rec.id]
  BY Zenon DEF WriteSummary
<1> HIDE DEF rec
<1>4. lastID[p] < rec.id /\ checkpoint <= lastID[p]
  BY <1>2, Zenon DEF ProjectorInv, BatchHasNoGap, SummaryInv
<1>5. /\ \A e \in events : e.id \in Nat /\ e.aggregate_id \in Coins
      /\ rec.id \in Nat /\ lastID[p] \in Nat /\ checkpoint \in Nat
  BY <1>2, EventFields DEF EventIds, ProjectorTypeOK
<1>6. ASSUME NEW e \in events, Shown(e), e.id <= rec.id
      PROVE  e.aggregate_id \in Unknown \/ summary'[e.aggregate_id] >= e.id
  <2>1. CASE e.aggregate_id = rec.aggregate_id
    BY <1>2, <1>3, <1>5, <1>6, <2>1, Zenon DEF ProjectorTypeOK
  <2>2. CASE e.aggregate_id # rec.aggregate_id
    BY <1>2, <1>3, <1>5, <1>6, <2>2, Zenon DEF ProjectorTypeOK, Shown
  <2>3. QED
    BY <2>1, <2>2, Zenon
<1>7. \A e \in events : e.id <= lastID[p] => Shown(e) /\ e.id <= rec.id
  BY <1>4, <1>5, SMTT(40) DEF SummaryInv
<1>8. \A e \in events : e.id <= checkpoint => e.id <= lastID[p]
  BY <1>4, <1>5
<1>9. summary'[rec.aggregate_id] >= rec.id
  BY <1>2, <1>3, <1>5 DEF ProjectorTypeOK
<1>10. QED
  <2>1. \A e \in events : e.id <= lastID[p] => Shown(e)'
    BY <1>6, <1>7, Zenon DEF Shown
  <2>2. QED
    BY <1>8, <1>9, <2>1, Zenon DEF SingleDaemon, rec

\* A daemon moves on from a record that is skipped or shown.
LEMMA NextRecordKeepsSummaries ==
  ASSUME StoreInv, ProjectorTypeOK, ProjectorInv, SummaryInv, SingleDaemon,
         NEW p \in Projectors, jpc[p] \in {"project", "invalidate"}, Shown(Current(p)),
         NextRecord(p), UNCHANGED <<storeVars, readTables, failures>>
  PROVE  SummaryInv'
<1> DEFINE rec == Current(p)
<1>1. batch[p] # {}
  BY Zenon DEF ProjectorTypeOK
<1>2. /\ rec \in batch[p] /\ rec \in events /\ rec.id \in EventIds
      /\ \A f \in batch[p] : rec.id <= f.id
  BY <1>1, CurrentIsFirst, Zenon
<1>3. /\ lastID' = [lastID EXCEPT ![p] = rec.id]
      /\ jpc' = [jpc EXCEPT ![p] = IF batch[p] = {rec} THEN "save" ELSE "project"]
  BY Zenon DEF NextRecord
<1>4. Shown(rec)
  BY Zenon
<1>5. UNCHANGED <<events, checkpoint, summary>>
  BY Zenon DEF storeVars, tables, readTables
<1> HIDE DEF rec
<1>6. lastID[p] < rec.id /\ checkpoint <= lastID[p]
  BY <1>2, Zenon DEF ProjectorInv, BatchHasNoGap, SummaryInv
<1>7. /\ \A e \in events : e.id \in Nat
      /\ rec.id \in Nat /\ lastID[p] \in Nat /\ checkpoint \in Nat
  BY <1>2, EventFields DEF EventIds, ProjectorTypeOK
<1>8. ASSUME NEW e \in events, e.id <= rec.id PROVE Shown(e)
  <2>1. CASE e.id <= lastID[p]
    BY <2>1, Zenon DEF SummaryInv
  <2>2. CASE e.id = rec.id
    BY <1>2, <1>4, <2>2, Zenon DEF ProjectorInv, VisibleInOrder
  <2>3. CASE lastID[p] < e.id /\ e.id < rec.id
    <3>1. e \in batch[p]
      BY <1>2, <2>3, Zenon DEF ProjectorInv, BatchHasNoGap
    <3>2. QED
      BY <1>2, <1>7, <2>3, <3>1, SMTT(40)
  <2>4. e.id <= lastID[p] \/ e.id = rec.id \/ (lastID[p] < e.id /\ e.id < rec.id)
    BY <1>7, <1>8, SMTT(40)
  <2>5. QED
    BY <2>1, <2>2, <2>3, <2>4, Zenon
<1>9. \A q \in Projectors : q = p
  BY Zenon DEF SingleDaemon
<1>10. lastID'[p] = rec.id /\ jpc'[p] \in {"save", "project"}
  BY <1>3, Zenon DEF ProjectorTypeOK
<1>11. \A e \in events : Shown(e)' <=> Shown(e)
  BY <1>5, Zenon DEF Shown
<1>12. \A e \in events' : e.id <= checkpoint' => Shown(e)'
  BY <1>5, <1>11, Zenon DEF SummaryInv
<1>13. \A q \in Projectors : \A e \in events' : e.id <= lastID'[q] => Shown(e)'
  BY <1>5, <1>8, <1>9, <1>10, <1>11, Zenon
<1>14. \A q \in Projectors : checkpoint' <= lastID'[q] /\ jpc'[q] \notin {"history", "invalidate"}
  BY <1>5, <1>6, <1>7, <1>9, <1>10, SMTT(40)
<1>15. QED
  BY <1>12, <1>13, <1>14, Zenon DEF SummaryInv

\* A statement of Project, or the break after a failed one.
LEMMA WriteKeepsSummaries ==
  ASSUME StoreInv, ProjectorTypeOK, ProjectorInv, SummaryInv, SingleDaemon,
         NEW p \in Projectors, jpc[p] \in {"project", "history"},
         UNCHANGED <<storeVars, checkpoint, lastID>>,
         UNCHANGED summary \/ (jpc[p] = "project" /\ WriteSummary(p)),
         \/ batch' = batch /\ jpc' = [jpc EXCEPT ![p] = "history"] /\ WriteSummary(p)
         \/ batch' = batch /\ jpc' = [jpc EXCEPT ![p] = "invalidate"] /\ jpc[p] = "history"
         \/ Break(p)
  PROVE  SummaryInv'
<1>1. UNCHANGED <<events, checkpoint, lastID>>
  BY Zenon DEF storeVars, tables
<1>2. \A q \in Projectors : q = p
  BY Zenon DEF SingleDaemon
<1>3. /\ \A e \in events : e.id <= checkpoint => Shown(e)'
      /\ \A q \in Projectors : \A e \in events : e.id <= lastID[q] => Shown(e)'
  <2>1. CASE UNCHANGED summary
    BY <2>1, Zenon DEF SummaryInv, Shown
  <2>2. CASE jpc[p] = "project" /\ WriteSummary(p)
    BY <1>1, <2>2, UpsertKeepsSummaries, Zenon
  <2>3. QED
    BY <2>1, <2>2, Zenon
<1>4. checkpoint' <= lastID'[p]
  BY <1>1, Zenon DEF SummaryInv
<1>5. jpc'[p] \in {"history", "invalidate"} => Shown(Current(p))'
  <2>1. CASE batch' = batch /\ jpc[p] = "project" /\ WriteSummary(p)
    <3>1. summary'[Current(p).aggregate_id] >= Current(p).id
      BY <1>1, <2>1, UpsertKeepsSummaries, Zenon
    <3>2. Current(p)' = Current(p)
      BY <2>1, Zenon DEF Current
    <3>3. QED
      BY <3>1, <3>2, Zenon DEF Shown
  <2>2. CASE batch' = batch /\ jpc[p] = "history" /\ UNCHANGED summary
    BY <2>2, Zenon DEF SummaryInv, Shown, Current
  <2>3. CASE Break(p)
    BY <2>3, Zenon DEF Break, ProjectorTypeOK
  <2>4. CASE batch' = batch /\ jpc[p] = "project" /\ UNCHANGED summary
    BY <2>1, <2>3, <2>4, Zenon
  <2>5. QED
    BY <2>1, <2>2, <2>3, <2>4, Zenon
<1>6. QED
  BY <1>1, <1>2, <1>3, <1>4, <1>5, Zenon DEF SummaryInv

\* A daemon starts at the checkpoint, polls, saves its position, fails or restarts.
LEMMA PositionKeepsSummaries ==
  ASSUME StoreInv, ProjectorTypeOK, ProjectorInv, SummaryInv, SingleDaemon, NEW p \in Projectors,
         \/ Start(p) \/ StartFails(p) \/ Poll(p) \/ Restart(p)
         \/ UpdateLastEventID(p) \/ UpdateLastEventIDFails(p)
  PROVE  SummaryInv'
<1>1. UNCHANGED <<events, summary>>
  BY Zenon DEF Start, StartFails, Poll, Restart, UpdateLastEventID, UpdateLastEventIDFails, readTables,
         storeVars, tables
<1>2. \A q \in Projectors : q = p
  BY Zenon DEF SingleDaemon
<1>3. \A e \in events : (Shown(e)' <=> Shown(e)) /\ e.id \in Nat /\ e.id # 0
  BY <1>1, EventFields, SMTT(40) DEF Shown, EventIds
<1>4. checkpoint \in Nat /\ lastID[p] \in Nat
  BY DEF ProjectorTypeOK
<1>5. /\ jpc'[p] \notin {"history", "invalidate"}
      /\ checkpoint' = checkpoint \/ checkpoint' = lastID[p]
      /\ lastID'[p] \in {lastID[p], checkpoint, 0}
      /\ jpc'[p] \notin {"down", "dead"} => checkpoint' <= lastID'[p]
  <2>1. CASE Start(p)
    BY <1>4, <2>1, SMTT(40) DEF Start, readTables, ProjectorTypeOK
  <2>2. CASE StartFails(p) \/ Restart(p)
    BY <2>2, Zenon DEF StartFails, Restart, readTables, ProjectorTypeOK
  <2>3. CASE Poll(p) \/ UpdateLastEventIDFails(p)
    BY <2>3, Zenon DEF Poll, UpdateLastEventIDFails, readTables, ProjectorTypeOK, SummaryInv
  <2>4. CASE UpdateLastEventID(p)
    BY <1>4, <2>4, SMTT(40) DEF UpdateLastEventID, Greatest, ProjectorTypeOK, SummaryInv
  <2>5. QED
    BY <2>1, <2>2, <2>3, <2>4, Zenon
<1>6. \A e \in events : e.id <= checkpoint \/ e.id <= lastID[p] => Shown(e)
  BY Zenon DEF SummaryInv
<1>7. \A e \in events' : e.id <= checkpoint' \/ e.id <= lastID'[p] => Shown(e)'
  BY <1>1, <1>3, <1>4, <1>5, <1>6, SMTT(40)
<1>8. QED
  BY <1>2, <1>5, <1>7, Zenon DEF SummaryInv

\* Every step of the one writer and the one daemon keeps the summaries up.
LEMMA SummaryNextInv ==
  ASSUME SingleWriter, SingleDaemon, StoreInv, ProjectorTypeOK, ProjectorInv, SummaryInv,
         [ProjectorNext]_allVars
  PROVE  SummaryInv'
<1>1. ASSUME UNCHANGED <<events, jpc, lastID, batch, checkpoint, summary>> PROVE SummaryInv'
  BY <1>1, Zenon DEF SummaryInv, Shown, Current
<1>2. CASE StoreNext /\ UNCHANGED projectorVars
  <2>1. ASSUME NEW w \in Writers, Commit(w) PROVE SummaryInv'
    BY <1>2, <2>1, CommitKeepsSummaries, Zenon
  <2>2. CASE events' = events
    BY <1>1, <1>2, <2>2, Zenon DEF projectorVars, readTables, daemonVars
  <2>3. QED
    BY <1>2, <2>1, <2>2, OnlyCommitAddsEvents, Zenon
<1>3. ASSUME NEW p \in Projectors, Proceed(p) \/ Fail(p) PROVE SummaryInv'
  <2>1. ASSUME Skip(p) PROVE SummaryInv'
    BY <2>1, NextRecordKeepsSummaries, Zenon DEF Skip, Shown
  <2>2. ASSUME Invalidate(p) PROVE SummaryInv'
    <3>1. jpc[p] = "invalidate" /\ Shown(Current(p))
      BY <2>2, Zenon DEF Invalidate, SummaryInv
    <3>2. QED
      BY <2>2, <3>1, NextRecordKeepsSummaries, Zenon DEF Invalidate
  <2>3. ASSUME UpdateMarketSummary(p) PROVE SummaryInv'
    BY <2>3, WriteKeepsSummaries, Zenon DEF UpdateMarketSummary
  <2>4. ASSUME AddPriceHistory(p) PROVE SummaryInv'
    <3>1. /\ jpc[p] = "history" /\ UNCHANGED <<storeVars, checkpoint, lastID>>
          /\ UNCHANGED summary /\ batch' = batch /\ jpc' = [jpc EXCEPT ![p] = "invalidate"]
      BY <2>4, Zenon DEF AddPriceHistory
    <3>2. jpc[p] \in {"project", "history"}
      BY <3>1, Zenon
    <3>3. QED
      BY <3>1, <3>2, WriteKeepsSummaries, Zenon
  <2>5. ASSUME jpc[p] \in {"project", "history"}, UNCHANGED <<storeVars, checkpoint>>, Break(p),
               UNCHANGED summary \/ (jpc[p] = "project" /\ WriteSummary(p))
        PROVE  SummaryInv'
    <3>1. UNCHANGED <<storeVars, checkpoint, lastID>>
      BY <2>5, Zenon DEF Break
    <3>2. QED
      BY <2>5, <3>1, WriteKeepsSummaries, Zenon
  <2>6. ASSUME SummaryRejected(p) PROVE SummaryInv'
    <3>1. /\ jpc[p] \in {"project", "history"} /\ Break(p)
          /\ UNCHANGED <<storeVars, checkpoint>> /\ UNCHANGED summary
      BY <2>6, Zenon DEF SummaryRejected, readTables
    <3>2. QED
      BY <2>5, <3>1, Zenon
  <2>7. ASSUME UpdateMarketSummaryFails(p) \/ AddPriceHistoryFails(p) PROVE SummaryInv'
    <3>1. /\ jpc[p] \in {"project", "history"} /\ Break(p) /\ UNCHANGED <<storeVars, checkpoint>>
          /\ UNCHANGED summary \/ (jpc[p] = "project" /\ WriteSummary(p))
      BY <2>7, Zenon DEF UpdateMarketSummaryFails, AddPriceHistoryFails
    <3>2. QED
      BY <2>5, <3>1, Zenon
  <2>8. QED
    BY <1>3, <2>1, <2>2, <2>3, <2>4, <2>6, <2>7, PositionKeepsSummaries, SMTT(40) DEF Proceed, Fail
<1>4. CASE UNCHANGED allVars
  BY <1>1, <1>4, Zenon DEF allVars, projectorVars, readTables, daemonVars, storeVars, tables
<1>5. QED
  BY <1>2, <1>3, <1>4, Zenon DEF ProjectorNext

\* With one writer and one daemon a replay after a crash or a failed save starts at the
\* checkpoint, so no summary falls back behind an event that the checkpoint covers.
THEOREM SummariesKeepUp ==
  ASSUME SingleWriter, SingleDaemon
  PROVE  ProjectorSpec => []SummaryNotBehindCheckpoint
<1>1. ProjectorInit => SummaryInv
  BY Zenon DEF ProjectorInit, StoreInit, SummaryInv
<1>2. StoreInv /\ ProjectorTypeOK /\ ProjectorInv /\ SummaryInv /\ [ProjectorNext]_allVars => SummaryInv'
  BY SummaryNextInv, Zenon
<1>3. SummaryInv => SummaryNotBehindCheckpoint
  BY Zenon DEF SummaryInv, Shown, SummaryNotBehindCheckpoint
<1>4. QED
  BY <1>1, <1>2, <1>3, ProjectorTypeInv, ProjectorInvariant, PTL DEF ProjectorSpec
-----------------------------------------------------------------------------
(* How often an event is written to price_history *)

\* The daemon will not write the event again in this life: it has gone past it, or has
\* just written it.
Past(p, id) == id <= lastID[p] \/ (jpc[p] = "invalidate" /\ id = Current(p).id)

PastDaemons(id) == {p \in Projectors : Past(p, id)}

Counted == \A id \in EventIds : history[id] <= failures + Cardinality(PastDaemons(id))

\* A daemon works on events after its position, and starts from none.
Ahead ==
  \A p \in Projectors :
    /\ \A b \in batch[p] : lastID[p] < b.id
    /\ jpc[p] \in {"down", "dead"} => lastID[p] = 0

\* What one daemon adds to a count or takes from it.
LEMMA CountOfDaemons ==
  ASSUME NEW P, IsFiniteSet(P), NEW A \in SUBSET P, NEW B \in SUBSET P, NEW x \in P, A \ {x} \subseteq B
  PROVE  /\ Cardinality(A) \in Nat /\ Cardinality(B) \in Nat
         /\ Cardinality(A) <= Cardinality(B) + 1
         /\ (x \in A => x \in B) => Cardinality(A) <= Cardinality(B)
         /\ x \notin A /\ x \in B => Cardinality(A) + 1 <= Cardinality(B)
<1>1. IsFiniteSet(A) /\ IsFiniteSet(B)
  BY FS_Subset, Zenon
<1>2. Cardinality(A) \in Nat /\ Cardinality(B) \in Nat
  BY <1>1, FS_CardinalityType, Zenon
<1>3. ASSUME x \in A => x \in B PROVE Cardinality(A) <= Cardinality(B)
  <2>1. A \in SUBSET B
    BY <1>3, Zenon
  <2>2. QED
    BY <1>1, <2>1, FS_Subset, Zenon
<1>4. Cardinality(A) <= Cardinality(B) + 1
  <2>1. A \in SUBSET (B \cup {x})
    BY Zenon
  <2>2. IsFiniteSet(B \cup {x}) /\ Cardinality(B \cup {x}) \in {Cardinality(B), Cardinality(B) + 1}
    BY <1>1, FS_AddElement, Zenon
  <2>3. Cardinality(A) <= Cardinality(B \cup {x})
    BY <2>1, <2>2, FS_Subset, Zenon
  <2>4. QED
    BY <1>2, <2>2, <2>3
<1>5. ASSUME x \notin A, x \in B PROVE Cardinality(A) + 1 <= Cardinality(B)
  <2>1. A \cup {x} \in SUBSET B
    BY <1>5, Zenon
  <2>2. Cardinality(A \cup {x}) = Cardinality(A) + 1
    BY <1>1, <1>5, FS_AddElement, Zenon
  <2>3. QED
    BY <1>1, <2>1, <2>2, FS_Subset
<1>6. QED
  BY <1>2, <1>3, <1>4, <1>5, Zenon

OthersStay(p) ==
  \A q \in Projectors \ {p} : lastID'[q] = lastID[q] /\ jpc'[q] = jpc[q] /\ batch'[q] = batch[q]

\* The count survives a step of one daemon that writes an event it is not past, or pays
\* with a failure for a write or for losing its position.
LEMMA CountedStep ==
  ASSUME IsFiniteSet(Projectors), ProjectorTypeOK, Counted, NEW p \in Projectors, OthersStay(p),
         failures' \in Nat, failures <= failures',
         \A id \in EventIds :
           \/ history'[id] = history[id] /\ (Past(p, id) => Past(p, id)')
           \/ history'[id] = history[id] /\ failures' = failures + 1
           \/ /\ history'[id] = history[id] + 1 /\ failures' = failures + 1
              /\ Past(p, id) => Past(p, id)'
           \/ history'[id] = history[id] + 1 /\ ~Past(p, id) /\ Past(p, id)'
  PROVE  Counted'
<1> SUFFICES ASSUME NEW id \in EventIds
             PROVE  history'[id] <= failures' + Cardinality(PastDaemons(id)')
  BY Zenon DEF Counted, EventIds
<1> DEFINE A == PastDaemons(id)
           B == PastDaemons(id)'
<1>1. A \in SUBSET Projectors /\ B \in SUBSET Projectors
  BY Zenon DEF PastDaemons
<1>2. A \ {p} \subseteq B
  <2>1. \A q \in Projectors \ {p} : Past(q, id) => Past(q, id)'
    BY Zenon DEF OthersStay, Past, Current
  <2>2. QED
    BY <2>1, Zenon DEF PastDaemons
<1>3. (p \in A <=> Past(p, id)) /\ (p \in B <=> Past(p, id)')
  BY Zenon DEF PastDaemons
<1>4. history[id] <= failures + Cardinality(A)
  BY Zenon DEF Counted
<1>5. history[id] \in Nat /\ failures \in Nat
  BY DEF ProjectorTypeOK
<1> HIDE DEF A, B
<1>6. /\ Cardinality(A) \in Nat /\ Cardinality(B) \in Nat
      /\ Cardinality(A) <= Cardinality(B) + 1
      /\ (p \in A => p \in B) => Cardinality(A) <= Cardinality(B)
      /\ p \notin A /\ p \in B => Cardinality(A) + 1 <= Cardinality(B)
  BY <1>1, <1>2, CountOfDaemons, Zenon
<1>7. \/ history'[id] = history[id] /\ (p \in A => p \in B)
      \/ history'[id] = history[id] /\ failures' = failures + 1
      \/ history'[id] = history[id] + 1 /\ failures' = failures + 1 /\ (p \in A => p \in B)
      \/ history'[id] = history[id] + 1 /\ p \notin A /\ p \in B
  BY <1>3, Zenon
<1>8. QED
  BY <1>4, <1>5, <1>6, <1>7 DEF B
\* Going on to the next record leaves the record behind, and only the record.
LEMMA NextRecordCounts ==
  ASSUME IsFiniteSet(Projectors), StoreInv, UniqueIds, ProjectorTypeOK, Ahead, Counted,
         NEW p \in Projectors, batch[p] # {}, NextRecord(p), UNCHANGED <<history, failures>>
  PROVE  Ahead' /\ Counted'
<1> DEFINE rec == Current(p)
<1>1. /\ rec \in batch[p] /\ rec.id \in Nat /\ lastID[p] \in Nat /\ lastID[p] < rec.id
      /\ \A f \in batch[p] : f \in events /\ f.id \in Nat /\ rec.id <= f.id
  BY CurrentIsFirst, EventFields DEF ProjectorTypeOK, Ahead, EventIds
<1>2. \A f \in batch[p] \ {rec} : rec.id < f.id
  <2>1. \A f \in batch[p] \ {rec} : f.id # rec.id
    BY <1>1, Zenon DEF UniqueIds
  <2>2. QED
    BY <1>1, <2>1
<1>3. /\ lastID'[p] = rec.id /\ batch'[p] = batch[p] \ {rec} /\ jpc'[p] \in {"save", "project"}
      /\ OthersStay(p)
  BY Zenon DEF NextRecord, OthersStay, ProjectorTypeOK
<1>4. Ahead'
  BY <1>2, <1>3, Zenon DEF Ahead, OthersStay
<1>5. \A id \in EventIds : Past(p, id) => Past(p, id)'
  BY <1>1, <1>3 DEF Past, EventIds
<1>6. failures \in Nat /\ failures <= failures /\ failures' = failures /\ history' = history
  BY DEF ProjectorTypeOK
<1>7. QED
  BY <1>3, <1>4, <1>5, <1>6, CountedStep, Zenon

\* A daemon that fails or breaks off keeps its position, and the failure pays for a row
\* that was written all the same.
LEMMA BreakCounts ==
  ASSUME IsFiniteSet(Projectors), StoreInv, ProjectorTypeOK, Ahead, Counted, NEW p \in Projectors,
         jpc[p] \in {"project", "history"}, Break(p),
         \/ UNCHANGED <<history, failures>>
         \/ Failure /\ (UNCHANGED history \/ WriteHistory(p))
  PROVE  Ahead' /\ Counted'
<1>1. lastID' = lastID /\ batch'[p] = {} /\ jpc'[p] \in {"save", "poll"} /\ OthersStay(p)
  BY Zenon DEF Break, OthersStay, ProjectorTypeOK
<1>2. Ahead'
  BY <1>1, Zenon DEF Ahead, OthersStay
<1>3. \A id \in EventIds : Past(p, id) => Past(p, id)'
  BY <1>1, Zenon DEF Past
<1>4. failures \in Nat /\ failures' \in Nat /\ failures <= failures'
  BY DEF ProjectorTypeOK, Failure
<1>5. \A id \in EventIds :
        \/ history'[id] = history[id]
        \/ history'[id] = history[id] + 1 /\ failures' = failures + 1
  BY Zenon DEF ProjectorTypeOK, Failure, WriteHistory
<1>6. QED
  BY <1>1, <1>2, <1>3, <1>4, <1>5, CountedStep, Zenon

\* The insert of AddPriceHistory is the daemon's one row for the event.
LEMMA InsertCounts ==
  ASSUME IsFiniteSet(Projectors), StoreInv, ProjectorTypeOK, Ahead, Counted, NEW p \in Projectors,
         AddPriceHistory(p)
  PROVE  Ahead' /\ Counted'
<1> DEFINE rec == Current(p)
<1>1. /\ jpc[p] = "history" /\ jpc' = [jpc EXCEPT ![p] = "invalidate"]
      /\ lastID' = lastID /\ batch' = batch /\ failures' = failures
      /\ history' = [history EXCEPT ![rec.id] = @ + 1]
  BY Zenon DEF AddPriceHistory, WriteHistory
<1>2. jpc'[p] = "invalidate" /\ OthersStay(p) /\ batch[p] # {} /\ Current(p)' = rec
  BY <1>1, Zenon DEF OthersStay, Current, ProjectorTypeOK
<1>3. rec.id \in EventIds /\ rec.id \in Nat /\ lastID[p] \in Nat /\ lastID[p] < rec.id
  BY <1>2, CurrentIsFirst DEF Ahead, EventIds, ProjectorTypeOK
<1>4. Ahead'
  BY <1>1, <1>2, Zenon DEF Ahead, OthersStay
<1>5. \A id \in EventIds : id = rec.id => ~Past(p, id) /\ Past(p, id)'
  BY <1>1, <1>2, <1>3 DEF Past
<1>6. \A id \in EventIds : Past(p, id) => Past(p, id)'
  BY <1>1, <1>2, Zenon DEF Past
<1> HIDE DEF rec
<1>7. \A id \in EventIds : history'[id] = IF id = rec.id THEN history[id] + 1 ELSE history[id]
  BY <1>1, <1>3, Zenon DEF ProjectorTypeOK
<1>8. failures \in Nat /\ failures' \in Nat /\ failures <= failures'
  BY <1>1 DEF ProjectorTypeOK
<1>9. ASSUME NEW id \in EventIds
      PROVE  \/ history'[id] = history[id] /\ (Past(p, id) => Past(p, id)')
             \/ history'[id] = history[id] + 1 /\ ~Past(p, id) /\ Past(p, id)'
  <2>1. CASE id = rec.id
    BY <1>5, <1>7, <2>1, Zenon
  <2>2. CASE id # rec.id
    BY <1>6, <1>7, <2>2, Zenon
  <2>3. QED
    BY <2>1, <2>2, Zenon
<1>10. QED
  BY <1>2, <1>4, <1>8, <1>9, CountedStep, Zenon

\* Starting, polling and saving write no row; a restart forgets the position for a failure.
LEMMA PositionCounts ==
  ASSUME IsFiniteSet(Projectors), ProjectorTypeOK, Ahead, Counted, NEW p \in Projectors,
         \/ Start(p) \/ StartFails(p) \/ Poll(p) \/ Restart(p)
         \/ UpdateMarketSummary(p) \/ UpdateLastEventID(p) \/ UpdateLastEventIDFails(p)
  PROVE  Ahead' /\ Counted'
<1>1. history' = history /\ OthersStay(p)
  BY Zenon DEF Start, StartFails, Poll, Restart, UpdateMarketSummary, UpdateLastEventID,
         UpdateLastEventIDFails, OthersStay, readTables, ProjectorTypeOK
<1>2. failures \in Nat /\ failures' \in Nat /\ failures <= failures'
  BY DEF Start, StartFails, Poll, Restart, UpdateMarketSummary, UpdateLastEventID,
         UpdateLastEventIDFails, Failure, ProjectorTypeOK
<1>3. /\ \A b \in batch'[p] : lastID'[p] < b.id
      /\ jpc'[p] \in {"down", "dead"} => lastID'[p] = 0
      /\ failures' = failures + 1 \/ \A id \in EventIds : Past(p, id) => Past(p, id)'
  <2>1. CASE Start(p)
    <3>1. /\ jpc[p] = "down" /\ jpc'[p] = "poll" /\ batch' = batch /\ batch[p] = {} /\ lastID[p] = 0
      BY <2>1, ZenonT(40) DEF Start, Ahead, ProjectorTypeOK
    <3>2. \A id \in EventIds : ~Past(p, id)
      <4>1. \A id \in EventIds : ~(id <= 0)
        BY DEF EventIds
      <4>2. jpc[p] # "invalidate"
        BY <3>1, Zenon
      <4>3. QED
        BY <3>1, <4>1, <4>2, Zenon DEF Past
    <3>3. QED
      BY <3>1, <3>2, Zenon
  <2>2. CASE Poll(p)
    <3>1. /\ jpc[p] = "poll" /\ jpc'[p] = "project" /\ lastID' = lastID
          /\ batch'[p] = GetNewEvents(lastID[p], FetchLimit)
      BY <2>2, Zenon DEF Poll, ProjectorTypeOK
    <3>2. QED
      BY <3>1, Zenon DEF Past, GetNewEvents, NewerThan
  <2>3. CASE Restart(p)
    BY <2>3, Zenon DEF Restart, Failure, ProjectorTypeOK
  <2>4. CASE StartFails(p) \/ UpdateLastEventIDFails(p)
    BY <2>4, Zenon DEF StartFails, UpdateLastEventIDFails, Failure, Ahead, ProjectorTypeOK
  <2>5. CASE UpdateMarketSummary(p) \/ UpdateLastEventID(p)
    <3>1. /\ jpc[p] \in {"project", "save"} /\ jpc'[p] \in {"history", "poll"}
          /\ lastID' = lastID /\ batch' = batch
      BY <2>5, Zenon DEF UpdateMarketSummary, UpdateLastEventID, ProjectorTypeOK
    <3>2. QED
      BY <3>1, Zenon DEF Past, Ahead
  <2>6. QED
    BY <2>1, <2>2, <2>3, <2>4, <2>5, Zenon
<1>4. Ahead'
  BY <1>1, <1>3, Zenon DEF Ahead, OthersStay
<1>5. QED
  BY <1>1, <1>2, <1>3, <1>4, CountedStep, Zenon

\* Every step of the sessions and the daemons keeps the count.
LEMMA CountedNext ==
  ASSUME IsFiniteSet(Projectors), StoreInv, UniqueIds, ProjectorTypeOK, Ahead, Counted,
         [ProjectorNext]_allVars
  PROVE  Ahead' /\ Counted'
<1>1. ASSUME UNCHANGED <<jpc, lastID, batch, history, failures>> PROVE Ahead' /\ Counted'
  BY <1>1, Zenon DEF Ahead, Counted, PastDaemons, Past, Current
<1>2. CASE UNCHANGED projectorVars
  BY <1>1, <1>2, Zenon DEF projectorVars, readTables, daemonVars
<1>3. ASSUME NEW p \in Projectors, Proceed(p) \/ Fail(p) PROVE Ahead' /\ Counted'
  <2>1. ASSUME Skip(p) \/ Invalidate(p) PROVE Ahead' /\ Counted'
    <3>1. NextRecord(p) /\ UNCHANGED <<history, failures>> /\ jpc[p] \in {"project", "invalidate"}
      BY <2>1, Zenon DEF Skip, Invalidate, readTables
    <3>2. batch[p] # {}
      BY <3>1, Zenon DEF ProjectorTypeOK
    <3>3. QED
      BY <3>1, <3>2, NextRecordCounts, Zenon
  <2>2. ASSUME SummaryRejected(p) \/ UpdateMarketSummaryFails(p) \/ AddPriceHistoryFails(p)
        PROVE  Ahead' /\ Counted'
    <3>1. /\ jpc[p] \in {"project", "history"} /\ Break(p)
          /\ \/ UNCHANGED <<history, failures>>
             \/ Failure /\ (UNCHANGED history \/ WriteHistory(p))
      BY <2>2, Zenon DEF SummaryRejected, UpdateMarketSummaryFails, AddPriceHistoryFails, readTables
    <3>2. QED
      BY <3>1, BreakCounts, Zenon
  <2>3. QED
    BY <1>3, <2>1, <2>2, InsertCounts, PositionCounts, Zenon DEF Proceed, Fail
<1>4. QED
  BY <1>2, <1>3, Zenon DEF ProjectorNext, allVars

\* For any number of sessions and instances an event has at most one row of price_history
\* per instance and one per failure (Project inserts without a key that would refuse a
\* second row): without failures one daemon writes each event once.
THEOREM FailuresLimitRepeats ==
  ASSUME IsFiniteSet(Projectors)
  PROVE  ProjectorSpec => []RepeatsNeedFailures
<1> DEFINE Inv == StoreInv /\ FreshIds /\ UniqueIds /\ ProjectorTypeOK /\ Ahead /\ Counted
<1>1. ProjectorInit => Inv
  <2> SUFFICES ASSUME ProjectorInit PROVE Inv
    BY Zenon
  <2>1. StoreInv /\ ProjectorTypeOK
    BY ProjectorInitInv, Zenon
  <2>2. FreshIds /\ UniqueIds
    BY LogInit, Zenon DEF ProjectorInit, StoreInit, UniqueIds
  <2>3. Ahead
    BY Zenon DEF ProjectorInit, Ahead
  <2>4. Counted
    <3>1. \A id \in EventIds : history[id] = 0 /\ failures = 0
      BY Zenon DEF ProjectorInit
    <3>2. \A id \in EventIds : Cardinality(PastDaemons(id)) \in Nat
      BY FS_Subset, FS_CardinalityType, Zenon DEF PastDaemons
    <3>3. QED
      BY <3>1, <3>2 DEF Counted
  <2>5. QED
    BY <2>1, <2>2, <2>3, <2>4, Zenon
<1>2. Inv /\ [ProjectorNext]_allVars => Inv'
  BY DaemonLeavesSessions, NextInv, NextFresh, NextUnique, ProjectorNextType, CountedNext, Zenon
<1>3. Inv => RepeatsNeedFailures
  <2> SUFFICES ASSUME Inv, NEW id \in EventIds
               PROVE  history[id] <= Cardinality(Projectors) + failures
    BY Zenon DEF RepeatsNeedFailures
  <2>1. PastDaemons(id) \in SUBSET Projectors
    BY Zenon DEF PastDaemons
  <2>2. /\ Cardinality(PastDaemons(id)) <= Cardinality(Projectors)
        /\ Cardinality(PastDaemons(id)) \in Nat /\ Cardinality(Projectors) \in Nat
    BY <2>1, FS_Subset, FS_CardinalityType, Zenon
  <2>3. history[id] \in Nat /\ failures \in Nat /\ history[id] <= failures + Cardinality(PastDaemons(id))
    BY DEF ProjectorTypeOK, Counted
  <2>4. QED
    BY <2>2, <2>3
<1>4. QED
  BY <1>1, <1>2, <1>3, PTL DEF ProjectorSpec
================================================================================

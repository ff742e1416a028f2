------------------------ MODULE OutboxPublisherProofs ------------------------
(***************************************************************************)
(* Proofs about OutboxPublisher for any number of sessions and daemons,    *)
(* any batch limit and any number of failures.                             *)
(***************************************************************************)
EXTENDS OutboxPublisher, EventStoreProofs, FiniteSetTheorems

\* FOR UPDATE SKIP LOCKED never gives a row to two daemons.
BatchesDisjoint ==
  \A p, q \in Publishers : p # q => records[p] \cap records[q] = {}

\* Redis has received what a daemon believes it has published.
SentIsPublished == \A p \in Publishers : \A o \in sent[p] : o.event_id \in Published

\* The foreign key of outbox_events, and one row per event.
OutboxRowsMatchEvents ==
  /\ \A o \in outbox : \E e \in events : e.id = o.event_id
  /\ \A o, q \in outbox : o.event_id = q.event_id => o = q

\* Redis receives nothing but committed events.
PublishedIsCommitted == \A id \in Published : \E e \in events : e.id = id

OutboxInv ==
  /\ DaemonTypeOK /\ BatchShape /\ BatchesDisjoint /\ SentIsPublished
  /\ TxOutboxRows /\ OutboxRowsMatchEvents /\ NoEventLost /\ PublishedIsCommitted

\* While nothing has failed, a published event whose row is still there is in the
\* batch of the daemon that published it.
FaultFree ==
  faults = 0 =>
    /\ ZeroDuplicates
    /\ \A o \in outbox : o.event_id \in Published => \E p \in Publishers : o \in sent[p]
-----------------------------------------------------------------------------
\* publishBatch publishes a row of its batch that it has not yet published,
\* the one with the smallest id.
LEMMA NextUnsentIsFirst ==
  ASSUME DaemonTypeOK, BatchShape, NEW p \in Publishers, records[p] # sent[p]
  PROVE  /\ NextUnsent(p) \in records[p] \ sent[p]
         /\ \A q \in records[p] \ sent[p] : NextUnsent(p).id <= q.id
<1> DEFINE rows == records[p] \ sent[p]
           ids == {o.id : o \in rows}
<1>1. rows # {} /\ rows \subseteq OutboxRow
  BY Zenon DEF BatchShape, DaemonTypeOK
<1>2. ids # {} /\ ids \subseteq Nat
  BY <1>1, Zenon DEF OutboxRow
<1>3. PICK m \in ids : \A n \in ids : m <= n
  BY <1>2, SmallestExists, Zenon
<1>4. \E o \in rows : \A q \in rows : o.id <= q.id
  BY <1>3, Zenon
<1>5. QED
  BY <1>4, Zenon DEF NextUnsent

\* What Append does to the published ids.
LEMMA PublishedGrows ==
  ASSUME channel \in Seq(Nat \ {0}), NEW id \in Nat \ {0}, channel' = Append(channel, id)
  PROVE  /\ channel' \in Seq(Nat \ {0})
         /\ Published' = Published \cup {id}
         /\ ZeroDuplicates /\ id \notin Published => ZeroDuplicates'
<1>1. channel' \in Seq(Nat \ {0}) /\ Len(channel') = Len(channel) + 1 /\ Len(channel) \in Nat
  OBVIOUS
<1>2. DOMAIN channel = 1..Len(channel) /\ DOMAIN channel' = 1..(Len(channel) + 1)
  BY <1>1
<1>3. channel'[Len(channel) + 1] = id /\ \A i \in DOMAIN channel : channel'[i] = channel[i]
  BY <1>1, <1>2
<1>4. Published' = Published \cup {id}
  BY <1>1, <1>2, <1>3 DEF Published
<1>5. ASSUME ZeroDuplicates, id \notin Published PROVE ZeroDuplicates'
  <2>1. \A i \in DOMAIN channel : channel[i] # id
    BY <1>5, Zenon DEF Published
  <2>2. \A i \in DOMAIN channel' : i \in DOMAIN channel \/ i = Len(channel) + 1
    BY <1>1, <1>2
  <2>3. QED
    BY <1>3, <1>5, <2>1, <2>2 DEF ZeroDuplicates
<1>6. QED
  BY <1>1, <1>4, <1>5, Zenon

\* A daemon's step leaves the sessions and the events alone and adds no outbox row.
LEMMA DaemonKeepsStoreInv ==
  ASSUME StoreInv, FreshIds, events' = events, eventsSeq' = eventsSeq, outboxSeq' = outboxSeq,
         sessions' = sessions, outbox' \subseteq outbox
  PROVE  StoreInv' /\ FreshIds'
<1> USE DEF StoreInv, sessions
<1>1. StoreTypeOK'
  BY Zenon DEF StoreTypeOK
<1>2. GaplessVersions' /\ IdsFollowVersions' /\ Issued' /\ VersionIsNext' /\ TxRow'
  BY SameRows DEF Issued, VersionIsNext, TxRow, Checked, StoreTypeOK
<1>3. HoldsLock' /\ FreshIds'
  BY Zenon DEF HoldsLock, InTx, FreshIds
<1>4. QED
  BY <1>1, <1>2, <1>3, Zenon

\* A commit adds an event together with its outbox row; the daemons see neither.
LEMMA CommitKeepsOutboxInv ==
  ASSUME StoreInv, FreshIds, OutboxInv, FaultFree, NEW w \in Writers, Commit(w),
         UNCHANGED publisherVars
  PROVE  OutboxInv' /\ FaultFree'
<1> USE DEF OutboxInv
<1>1. /\ events' = events \cup txEvents[w] /\ outbox' = outbox \cup txOutbox[w]
      /\ pc[w] = "ready" /\ pc'[w] = "idle" /\ txEvents'[w] = {} /\ txOutbox'[w] = {}
      /\ \A u \in Writers \ {w} :
           pc'[u] = pc[u] /\ txEvents'[u] = txEvents[u] /\ txOutbox'[u] = txOutbox[u]
  BY Zenon DEF Commit, EndTx, StoreInv, StoreTypeOK
<1>2. /\ ppc' = ppc /\ records' = records /\ sent' = sent /\ channel' = channel /\ faults' = faults
      /\ Published' = Published /\ (ZeroDuplicates <=> ZeroDuplicates')
  BY Zenon DEF publisherVars, Published, ZeroDuplicates
<1>3. DaemonTypeOK' /\ BatchShape' /\ BatchesDisjoint' /\ SentIsPublished'
  BY <1>1, <1>2, Zenon DEF DaemonTypeOK, BatchShape, BatchesDisjoint, SentIsPublished
<1>4. TxOutboxRows'
  BY <1>1 DEF TxOutboxRows
<1>5. NoEventLost'
  BY <1>1, <1>2 DEF NoEventLost, TxOutboxRows
<1>6. \A o \in txOutbox[w] : \A e \in events : e.id # o.event_id
  BY DEF TxOutboxRows, FreshIds
<1>7. OutboxRowsMatchEvents'
  <2>1. \A o \in outbox' : \E e \in events' : e.id = o.event_id
    BY <1>1 DEF OutboxRowsMatchEvents, TxOutboxRows
  <2>2. \A o, q \in outbox' : o.event_id = q.event_id => o = q
    BY <1>1, <1>6 DEF OutboxRowsMatchEvents, TxOutboxRows
  <2>3. QED
    BY <2>1, <2>2, Zenon DEF OutboxRowsMatchEvents
<1>8. PublishedIsCommitted'
  BY <1>1, <1>2, Zenon DEF PublishedIsCommitted
<1>9. FaultFree'
  BY <1>1, <1>2, <1>6, Zenon DEF FaultFree, PublishedIsCommitted
<1>10. QED
  BY <1>3, <1>4, <1>5, <1>7, <1>8, <1>9, Zenon

\* A step of a session other than a commit touches only its own transaction.
LEMMA SessionKeepsOutboxInv ==
  ASSUME StoreInv, OutboxInv, FaultFree, StoreNext, UNCHANGED <<events, outbox>>,
         UNCHANGED publisherVars
  PROVE  OutboxInv' /\ FaultFree'
<1> USE DEF OutboxInv
<1>1. DaemonTypeOK' /\ BatchShape' /\ BatchesDisjoint' /\ SentIsPublished'
        /\ OutboxRowsMatchEvents' /\ NoEventLost' /\ PublishedIsCommitted' /\ FaultFree'
  BY DEF DaemonTypeOK, BatchShape, BatchesDisjoint, SentIsPublished, OutboxRowsMatchEvents,
         NoEventLost, PublishedIsCommitted, FaultFree, Published, ZeroDuplicates, publisherVars
<1>2. TxOutboxRows'
  BY SessionKeepsTxOutbox, Zenon
<1>3. QED
  BY <1>1, <1>2, Zenon

\* Selecting a batch takes rows nobody holds.
LEMMA SelectKeepsOutboxInv ==
  ASSUME StoreInv, OutboxInv, FaultFree, NEW p \in Publishers, SelectBatch(p)
  PROVE  OutboxInv' /\ FaultFree'
<1> USE DEF OutboxInv
<1>1. /\ storeVars' = storeVars /\ sent' = sent /\ channel' = channel /\ faults' = faults
      /\ ppc' = [ppc EXCEPT ![p] = "publishing"]
      /\ records' = [records EXCEPT ![p] = FirstRows(Unlocked(p), BatchLimit)]
      /\ ppc[p] = "idle"
  BY Zenon DEF SelectBatch
<1>2. FirstRows(Unlocked(p), BatchLimit) \subseteq outbox
        /\ \A q \in Publishers : FirstRows(Unlocked(p), BatchLimit) \cap records[q] = {}
  BY Zenon DEF FirstRows, Unlocked, LockedRows
<1>3. outbox \subseteq OutboxRow /\ sent[p] = {}
  BY <1>1, Zenon DEF StoreInv, StoreTypeOK, BatchShape
<1>4. DaemonTypeOK' /\ BatchShape' /\ BatchesDisjoint'
  BY <1>1, <1>2, <1>3 DEF DaemonTypeOK, BatchShape, BatchesDisjoint, storeVars, tables
<1>5. SentIsPublished' /\ TxOutboxRows' /\ OutboxRowsMatchEvents' /\ NoEventLost'
        /\ PublishedIsCommitted' /\ FaultFree'
  BY <1>1 DEF SentIsPublished, TxOutboxRows, OutboxRowsMatchEvents, NoEventLost,
              PublishedIsCommitted, FaultFree, Published, ZeroDuplicates, storeVars, tables, sessions
<1>6. QED
  BY <1>4, <1>5, Zenon

\* A message reaches Redis; the daemon may or may not learn of it.
LEMMA ReceiveKeepsOutboxInv ==
  ASSUME StoreInv, OutboxInv, FaultFree, NEW p \in Publishers, Publish(p) \/ PublishFails(p)
  PROVE  OutboxInv' /\ FaultFree'
<1> USE DEF OutboxInv
<1> DEFINE o == NextUnsent(p)
<1>1. o \in records[p] \ sent[p] /\ o \in outbox /\ o \in OutboxRow /\ o.event_id \in Nat \ {0}
  <2>1. o \in records[p] \ sent[p]
    BY NextUnsentIsFirst, Zenon DEF Publish, PublishFails
  <2>2. QED
    BY <2>1 DEF BatchShape, DaemonTypeOK, OutboxRow
<1> HIDE DEF o
<1>2. storeVars' = storeVars /\ records' = records
  BY Zenon DEF Publish, PublishFails
<1>3. TxOutboxRows' /\ OutboxRowsMatchEvents' /\ BatchesDisjoint'
  BY <1>2 DEF TxOutboxRows, OutboxRowsMatchEvents, BatchesDisjoint, storeVars, tables, sessions
<1>4. CASE channel' = channel /\ PublishFails(p)
  <2>1. DaemonTypeOK' /\ BatchShape'
    BY <1>2, <1>4, PublisherAssumption
    DEF DaemonTypeOK, BatchShape, PublishFails, Fault, storeVars, tables
  <2>2. SentIsPublished' /\ NoEventLost' /\ PublishedIsCommitted'
    BY <1>2, <1>4
    DEF SentIsPublished, NoEventLost, PublishedIsCommitted, Published, PublishFails, storeVars, tables
  <2>3. faults' # 0
    BY <1>4 DEF PublishFails, Fault, DaemonTypeOK
  <2>4. QED
    BY <1>3, <2>1, <2>2, <2>3, Zenon DEF FaultFree
<1>5. CASE channel' = Append(channel, o.event_id)
  <2>1. /\ channel' \in Seq(Nat \ {0}) /\ Published' = Published \cup {o.event_id}
        /\ ZeroDuplicates /\ o.event_id \notin Published => ZeroDuplicates'
    BY <1>1, <1>5, PublishedGrows, Zenon DEF DaemonTypeOK
  <2>2. DaemonTypeOK' /\ BatchShape'
    <3>1. outbox' = outbox /\ faults' \in 0..MaxFaults
      BY <1>2, PublisherAssumption DEF DaemonTypeOK, Publish, PublishFails, Fault, storeVars, tables
    <3>2. sent' \in {sent, [sent EXCEPT ![p] = @ \cup {o}]}
      BY Zenon DEF Publish, PublishFails, o
    <3>3. ppc[p] = "publishing" /\ ppc' \in {ppc, [ppc EXCEPT ![p] = "deleting"]}
      BY Zenon DEF Publish, PublishFails
    <3>4. DaemonTypeOK'
      <4>1. ppc' \in [Publishers -> {"idle", "publishing", "deleting"}]
        BY <3>3, Zenon DEF DaemonTypeOK
      <4>2. sent' \in [Publishers -> SUBSET OutboxRow]
        BY <1>1, <3>2 DEF DaemonTypeOK
      <4>3. QED
        BY <1>2, <2>1, <3>1, <4>1, <4>2, Zenon DEF DaemonTypeOK
    <3>5. BatchShape'
      BY <1>1, <1>2, <3>1, <3>2, <3>3 DEF DaemonTypeOK, BatchShape
    <3>6. QED
      BY <3>4, <3>5, Zenon
  <2>3. SentIsPublished'
    BY <2>1, ZenonT(30) DEF SentIsPublished, Publish, PublishFails, DaemonTypeOK, o
  <2>4. NoEventLost'
    BY <1>2, <2>1, Zenon DEF NoEventLost, storeVars, tables
  <2>5. PublishedIsCommitted'
    BY <1>1, <1>2, <2>1, Zenon DEF PublishedIsCommitted, OutboxRowsMatchEvents, storeVars, tables
  <2>6. FaultFree'
    <3>1. CASE PublishFails(p)
      BY <3>1 DEF PublishFails, Fault, DaemonTypeOK, FaultFree
    <3>2. CASE Publish(p)
      <4>1. faults' = faults /\ sent' = [sent EXCEPT ![p] = @ \cup {o}] /\ outbox' = outbox
        BY <1>2, <3>2, Zenon DEF Publish, o, storeVars, tables
      <4>2. faults = 0 => o.event_id \notin Published
        <5>1. \A q \in Publishers : o \notin sent[q]
          BY <1>1, Zenon DEF BatchShape, BatchesDisjoint
        <5>2. QED
          BY <1>1, <5>1, Zenon DEF FaultFree
      <4>3. \A r \in outbox : r.event_id = o.event_id => r = o
        BY <1>1, Zenon DEF OutboxRowsMatchEvents
      <4>4. QED
        BY <2>1, <4>1, <4>2, <4>3, Zenon DEF FaultFree, DaemonTypeOK
    <3>3. QED
      BY <3>1, <3>2, Zenon
  <2>7. QED
    BY <1>3, <2>2, <2>3, <2>4, <2>5, <2>6, Zenon
<1>6. QED
  BY <1>4, <1>5, Zenon DEF Publish, PublishFails, o

\* Moving on to the DELETE changes only the daemon's program counter.
LEMMA AllPublishedKeepsOutboxInv ==
  ASSUME OutboxInv, FaultFree, NEW p \in Publishers, PublishedAll(p)
  PROVE  OutboxInv' /\ FaultFree'
<1> USE DEF OutboxInv
<1>1. /\ storeVars' = storeVars /\ records' = records /\ sent' = sent
      /\ channel' = channel /\ faults' = faults
      /\ ppc[p] = "publishing" /\ ppc' = [ppc EXCEPT ![p] = "deleting"]
  BY Zenon DEF PublishedAll
<1>2. DaemonTypeOK' /\ BatchShape'
  BY <1>1, Zenon DEF DaemonTypeOK, BatchShape, storeVars, tables
<1>3. BatchesDisjoint' /\ SentIsPublished' /\ TxOutboxRows' /\ OutboxRowsMatchEvents'
        /\ NoEventLost' /\ PublishedIsCommitted' /\ FaultFree'
  BY <1>1 DEF BatchesDisjoint, SentIsPublished, TxOutboxRows, OutboxRowsMatchEvents, NoEventLost,
              PublishedIsCommitted, FaultFree, Published, ZeroDuplicates, storeVars, tables, sessions
<1>4. QED
  BY <1>2, <1>3, Zenon

\* A batch ends: committed, only published rows go; rolled back, no row goes.
LEMMA EndKeepsOutboxInv ==
  ASSUME OutboxInv, FaultFree, NEW p \in Publishers, DeleteAndCommit(p) \/ RollbackBatch(p)
  PROVE  OutboxInv' /\ FaultFree'
<1> USE DEF OutboxInv
<1>1. /\ events' = events /\ sessions' = sessions /\ channel' = channel
      /\ ppc' = [ppc EXCEPT ![p] = "idle"]
      /\ records' = [records EXCEPT ![p] = {}] /\ sent' = [sent EXCEPT ![p] = {}]
  BY Zenon DEF DeleteAndCommit, RollbackBatch, EndBatch
<1>2. outbox' \subseteq outbox /\ outbox \ outbox' \subseteq sent[p]
  BY Zenon DEF DeleteAndCommit, RollbackBatch
<1>3. Published' = Published /\ (ZeroDuplicates <=> ZeroDuplicates')
  BY <1>1, Zenon DEF Published, ZeroDuplicates
<1>4. DaemonTypeOK'
  BY <1>1, PublisherAssumption DEF DaemonTypeOK, DeleteAndCommit, RollbackBatch, Fault
<1>5. BatchShape'
  <2>1. \A q \in Publishers \ {p} : records[q] \cap sent[p] = {}
    BY Zenon DEF BatchShape, BatchesDisjoint
  <2>2. QED
    BY <1>1, <1>2, <2>1, Zenon DEF BatchShape, DaemonTypeOK
<1>6. BatchesDisjoint' /\ SentIsPublished'
  BY <1>1, <1>3, Zenon DEF BatchesDisjoint, SentIsPublished, DaemonTypeOK
<1>7. TxOutboxRows' /\ OutboxRowsMatchEvents' /\ PublishedIsCommitted'
  BY <1>1, <1>2, <1>3 DEF TxOutboxRows, OutboxRowsMatchEvents, PublishedIsCommitted, sessions
<1>8. NoEventLost'
  BY <1>1, <1>2, <1>3, Zenon DEF NoEventLost, SentIsPublished
<1>9. FaultFree'
  <2>1. CASE RollbackBatch(p)
    BY <2>1 DEF RollbackBatch, Fault, DaemonTypeOK, FaultFree
  <2>2. CASE DeleteAndCommit(p)
    <3>1. outbox' = outbox \ sent[p] /\ faults' = faults
      BY <2>2, Zenon DEF DeleteAndCommit
    <3>2. QED
      BY <1>1, <1>3, <3>1, Zenon DEF FaultFree, DaemonTypeOK
  <2>3. QED
    BY <2>1, <2>2, Zenon
<1>10. QED
  BY <1>4, <1>5, <1>6, <1>7, <1>8, <1>9, Zenon

PipelineInv == StoreInv /\ FreshIds /\ OutboxInv /\ FaultFree

\* The initial state satisfies the invariant.
LEMMA OutboxInitInv == OutboxInit => PipelineInv
<1> SUFFICES ASSUME OutboxInit PROVE PipelineInv
  BY Zenon
<1>1. StoreInv
  BY InitInv, Zenon DEF OutboxInit
<1>2. FreshIds /\ TxOutboxRows /\ OutboxRowsMatchEvents /\ NoEventLost
  BY Zenon DEF OutboxInit, StoreInit, FreshIds, TxOutboxRows, OutboxRowsMatchEvents, NoEventLost
<1>3. DaemonTypeOK /\ BatchShape /\ BatchesDisjoint /\ SentIsPublished
  BY PublisherAssumption DEF OutboxInit, DaemonTypeOK, BatchShape, BatchesDisjoint, SentIsPublished
<1>4. PublishedIsCommitted /\ FaultFree
  BY DEF OutboxInit, StoreInit, PublishedIsCommitted, FaultFree, Published, ZeroDuplicates
<1>5. QED
  BY <1>1, <1>2, <1>3, <1>4, Zenon DEF PipelineInv, OutboxInv

\* Every step of a session or a daemon preserves the invariant.
LEMMA OutboxNextInv == PipelineInv /\ [OutboxNext]_outboxVars => PipelineInv'
<1> SUFFICES ASSUME PipelineInv, [OutboxNext]_outboxVars PROVE PipelineInv'
  BY Zenon
<1> USE DEF PipelineInv
<1>1. CASE StoreNext /\ UNCHANGED publisherVars
  <2>1. StoreInv' /\ FreshIds'
    BY <1>1, NextInv, NextFresh, Zenon
  <2>2. ASSUME NEW w \in Writers, Commit(w) PROVE OutboxInv' /\ FaultFree'
    BY <1>1, <2>2, CommitKeepsOutboxInv, Zenon
  <2>3. CASE UNCHANGED <<events, outbox>>
    BY <1>1, <2>1, <2>3, SessionKeepsOutboxInv, Zenon
  <2>4. QED
    BY <1>1, <2>1, <2>2, <2>3, Zenon
    DEF StoreNext, AppendEvents, ProcessMarketData, AcquireLock, VersionMatches, VersionConflict,
        InsertEvent, InsertFails, InsertOutbox, Abort, tables
<1>2. ASSUME NEW p \in Publishers, PublishBatch(p) \/ PublishFails(p) \/ RollbackBatch(p)
      PROVE  PipelineInv'
  <2>1. OutboxInv' /\ FaultFree'
    BY <1>2, SelectKeepsOutboxInv, ReceiveKeepsOutboxInv, AllPublishedKeepsOutboxInv,
       EndKeepsOutboxInv, Zenon DEF PublishBatch
  <2>2. /\ events' = events /\ eventsSeq' = eventsSeq /\ outboxSeq' = outboxSeq
        /\ sessions' = sessions /\ outbox' \subseteq outbox
    BY <1>2, Zenon DEF PublishBatch, SelectBatch, Publish, PublishedAll, DeleteAndCommit, PublishFails,
                RollbackBatch, EndBatch, storeVars, tables
  <2>3. QED
    BY <2>1, <2>2, DaemonKeepsStoreInv, Zenon
<1>3. CASE UNCHANGED outboxVars
  <2>1. StoreInv' /\ FreshIds'
    BY <1>3, NextInv, NextFresh, Zenon DEF outboxVars
  <2>2. OutboxInv' /\ FaultFree'
    BY <1>3, SMTT(30)
    DEF OutboxInv, DaemonTypeOK, BatchShape, BatchesDisjoint, SentIsPublished, TxOutboxRows,
        OutboxRowsMatchEvents, NoEventLost, PublishedIsCommitted, FaultFree, Published,
        ZeroDuplicates, outboxVars, publisherVars, storeVars, tables, sessions
  <2>3. QED
    BY <2>1, <2>2, Zenon
<1>4. QED
  BY <1>1, <1>2, <1>3, Zenon DEF OutboxNext
-----------------------------------------------------------------------------
\* The inductive invariant of sessions and daemons together.
THEOREM PipelineInvariant == OutboxSpec => []PipelineInv
  BY OutboxInitInv, OutboxNextInv, PTL DEF OutboxSpec

\* Type correctness of the outbox daemons.
THEOREM OutboxTypeCorrect == OutboxSpec => []OutboxTypeOK
<1>1. PipelineInv => OutboxTypeOK
  BY Zenon DEF PipelineInv, OutboxInv, OutboxTypeOK
<1>2. QED
  BY <1>1, PipelineInvariant, PTL

\* No committed event is lost on its way to Redis: whatever crashes, aborts and
\* failures interleave, it has been published or its outbox row is still there.
THEOREM OutboxLosesNothing == OutboxSpec => []NoEventLost
<1>1. PipelineInv => NoEventLost
  BY Zenon DEF PipelineInv, OutboxInv
<1>2. QED
  BY <1>1, PipelineInvariant, PTL

\* While nothing has failed, any number of concurrent daemons publish each event at
\* most once: the part of README.md:60 that the row locks do guarantee.
THEOREM NoDuplicatesWithoutFaults == OutboxSpec => [](faults = 0 => ZeroDuplicates)
<1>1. PipelineInv => (faults = 0 => ZeroDuplicates)
  BY Zenon DEF PipelineInv, FaultFree
<1>2. QED
  BY <1>1, PipelineInvariant, PTL

\* Publishing, deleting outbox rows and failing leave the logs alone: sessions and outbox
\* daemons together still implement one atomic append-only log per aggregate.
THEOREM OutboxImplementsLog == OutboxSpec => ImplementsLog
<1>1. OutboxInit => Log!Init
  BY LogInit, Zenon DEF OutboxInit
<1>2. PipelineInv /\ PipelineInv' /\ [OutboxNext]_outboxVars => [Log!Next]_([c \in Coins |-> LogOf(c)])
  <2> SUFFICES ASSUME PipelineInv, PipelineInv', [OutboxNext]_outboxVars
               PROVE  [Log!Next]_([c \in Coins |-> LogOf(c)])
    BY Zenon
  <2>1. CASE [StoreNext]_storeVars
    <3>1. StoreInv /\ StoreInv' /\ FreshIds
      BY Zenon DEF PipelineInv
    <3>2. QED
      BY <2>1, <3>1, LogStep, Zenon
  <2>2. CASE events' = events
    BY <2>2, LogStutter, Zenon
  <2>3. [StoreNext]_storeVars \/ events' = events
    BY Zenon
    DEF OutboxNext, PublishBatch, SelectBatch, Publish, PublishedAll, DeleteAndCommit, PublishFails,
        RollbackBatch, EndBatch, outboxVars, storeVars, tables
  <2>4. QED
    BY <2>1, <2>2, <2>3, Zenon
<1>3. QED
  BY <1>1, <1>2, PipelineInvariant, PTL DEF OutboxSpec, ImplementsLog, Log!Spec
-----------------------------------------------------------------------------
(* How often an event is published *)

Waiting(o) == o \in outbox /\ \A p \in Publishers : o \notin sent[p]

\* An event is received at most once more than there were failures, and not even that
\* often while its row waits to be published.
Counted ==
  \A id \in Nat \ {0} :
    /\ Times(id) \in Nat /\ Times(id) <= 1 + faults
    /\ (\E o \in outbox : Waiting(o) /\ o.event_id = id) => Times(id) <= faults

\* What Append does to the number of times an id was received.
LEMMA TimesGrows ==
  ASSUME channel \in Seq(Nat \ {0}), NEW x \in Nat \ {0}, channel' = Append(channel, x),
         NEW id \in Nat \ {0}
  PROVE  Times(id)' = IF id = x THEN Times(id) + 1 ELSE Times(id)
<1> DEFINE n == Len(channel)
           old == {i \in DOMAIN channel : channel[i] = id}
           new == {i \in DOMAIN channel' : channel'[i] = id}
<1>1. /\ n \in Nat /\ DOMAIN channel = 1..n /\ DOMAIN channel' = 1..(n + 1)
      /\ channel'[n + 1] = x /\ \A i \in 1..n : channel'[i] = channel[i]
  OBVIOUS
<1>2. IsFiniteSet(old)
  <2>1. IsFiniteSet(1..n) /\ old \in SUBSET (1..n)
    BY <1>1, FS_Interval
  <2>2. QED
    BY <2>1, FS_Subset, Zenon
<1>3. n + 1 \notin old /\ new = IF id = x THEN old \cup {n + 1} ELSE old
  BY <1>1
<1>4. Cardinality(new) = IF id = x THEN Cardinality(old) + 1 ELSE Cardinality(old)
  BY <1>2, <1>3, FS_AddElement, Zenon
<1>5. QED
  BY <1>4, Zenon DEF Times

\* An id that Redis never received was received zero times.
LEMMA TimesOfUnpublished ==
  ASSUME NEW id, id \notin Published
  PROVE  Times(id) = 0
<1>1. {i \in DOMAIN channel : channel[i] = id} = {}
  BY Zenon DEF Published
<1>2. QED
  BY <1>1, FS_EmptySet, Zenon DEF Times

\* A message that is received is one of a waiting row.
LEMMA ReceiveCounts ==
  ASSUME PipelineInv, Counted, NEW p \in Publishers, records[p] # sent[p],
         channel' = Append(channel, NextUnsent(p).event_id), NEW id \in Nat \ {0}
  PROVE  /\ Times(id)' \in Nat
         /\ id = NextUnsent(p).event_id => Times(id)' <= 1 + faults
         /\ id # NextUnsent(p).event_id => Times(id)' = Times(id)
<1> DEFINE o == NextUnsent(p)
<1>1. o \in records[p] \ sent[p] /\ channel \in Seq(Nat \ {0}) /\ faults \in Nat
  BY NextUnsentIsFirst DEF PipelineInv, OutboxInv, DaemonTypeOK
<1>2. o \in outbox /\ Waiting(o)
  BY <1>1, Zenon DEF PipelineInv, OutboxInv, BatchShape, BatchesDisjoint, Waiting
<1>3. o.event_id \in Nat \ {0}
  BY <1>2, Zenon DEF PipelineInv, StoreInv, StoreTypeOK, OutboxRow
<1> HIDE DEF o
<1>4. Times(id)' = IF id = o.event_id THEN Times(id) + 1 ELSE Times(id)
  BY <1>1, <1>3, TimesGrows, Zenon DEF o
<1>5. Times(id) \in Nat /\ (id = o.event_id => Times(id) <= faults)
  BY <1>2, Zenon DEF Counted
<1>6. QED
  BY <1>1, <1>4, <1>5 DEF o

LEMMA CountedNext ==
  ASSUME PipelineInv, Counted, [OutboxNext]_outboxVars
  PROVE  Counted'
<1> USE DEF PipelineInv, OutboxInv
<1>1. faults \in Nat
  BY DEF DaemonTypeOK
<1>2. ASSUME channel' = channel, faults' \in Nat, faults' >= faults,
             \A r \in outbox' : Waiting(r)' => r \in outbox /\ Waiting(r)
      PROVE  Counted'
  BY <1>1, <1>2 DEF Counted, Times
<1>3. CASE StoreNext /\ UNCHANGED publisherVars
  <2>1. ASSUME NEW w \in Writers, Commit(w) PROVE Counted'
    <3>1. /\ outbox' = outbox \cup txOutbox[w] /\ sent' = sent /\ faults' = faults
          /\ \A id : Times(id)' = Times(id)
      BY <1>3, <2>1, Zenon DEF Commit, publisherVars, Times
    <3>2. \A r \in txOutbox[w] : r.event_id \notin Published
      BY DEF TxOutboxRows, FreshIds, PublishedIsCommitted
    <3>3. \A r \in txOutbox[w] : Times(r.event_id) = 0
      BY <3>2, TimesOfUnpublished, Zenon
    <3>4. QED
      BY <1>1, <3>1, <3>3 DEF Counted, Waiting
  <2>2. CASE UNCHANGED outbox
    BY <1>1, <1>2, <1>3, <2>2 DEF publisherVars, Waiting
  <2>3. QED
    BY <1>3, <2>1, <2>2, Zenon
    DEF StoreNext, AppendEvents, ProcessMarketData, AcquireLock, VersionMatches, VersionConflict,
        InsertEvent, InsertFails, InsertOutbox, Abort, tables
<1>4. ASSUME NEW p \in Publishers, SelectBatch(p) \/ PublishedAll(p) PROVE Counted'
  BY <1>1, <1>2, <1>4 DEF SelectBatch, PublishedAll, storeVars, tables, Waiting
<1>5. ASSUME NEW p \in Publishers, Publish(p) PROVE Counted'
  <2>1. /\ records[p] # sent[p] /\ channel' = Append(channel, NextUnsent(p).event_id)
        /\ sent' = [sent EXCEPT ![p] = @ \cup {NextUnsent(p)}]
        /\ faults' = faults /\ outbox' = outbox
    BY <1>5, Zenon DEF Publish, storeVars, tables
  <2>2. NextUnsent(p) \in outbox
    BY <2>1, NextUnsentIsFirst, Zenon DEF BatchShape
  <2>3. \A r \in outbox : Waiting(r)' => Waiting(r) /\ r # NextUnsent(p)
    BY <2>1, Zenon DEF Waiting, DaemonTypeOK
  <2>4. \A r \in outbox : Waiting(r)' => r.event_id # NextUnsent(p).event_id
    BY <2>2, <2>3, Zenon DEF OutboxRowsMatchEvents
  <2>5. QED
    BY <1>1, <2>1, <2>3, <2>4, ReceiveCounts, Zenon DEF Counted
<1>6. ASSUME NEW p \in Publishers, PublishFails(p) PROVE Counted'
  <2>1. /\ records[p] # sent[p] /\ sent' = sent /\ outbox' = outbox /\ faults' = faults + 1
        /\ channel' = channel \/ channel' = Append(channel, NextUnsent(p).event_id)
    BY <1>6, Zenon DEF PublishFails, Fault, storeVars, tables
  <2>2. \A id \in Nat \ {0} : Times(id)' \in Nat /\ Times(id)' <= 1 + faults
    <3>1. CASE channel' = channel
      BY <3>1, Zenon DEF Counted, Times
    <3>2. CASE channel' = Append(channel, NextUnsent(p).event_id)
      BY <2>1, <3>2, ReceiveCounts, Zenon DEF Counted
    <3>3. QED
      BY <2>1, <3>1, <3>2, Zenon
  <2>3. QED
    BY <1>1, <2>1, <2>2 DEF Counted
<1>7. ASSUME NEW p \in Publishers, DeleteAndCommit(p) PROVE Counted'
  <2>1. /\ outbox' = outbox \ sent[p] /\ sent' = [sent EXCEPT ![p] = {}]
        /\ channel' = channel /\ faults' = faults
    BY <1>7, Zenon DEF DeleteAndCommit, EndBatch
  <2>2. \A r \in outbox' : Waiting(r)' => r \in outbox /\ Waiting(r)
    BY <2>1, Zenon DEF Waiting, DaemonTypeOK
  <2>3. QED
    BY <1>1, <1>2, <2>1, <2>2
<1>8. ASSUME NEW p \in Publishers, RollbackBatch(p) PROVE Counted'
  <2>1. channel' = channel /\ faults' = faults + 1
    BY <1>8, Zenon DEF RollbackBatch, EndBatch, Fault
  <2>2. \A id : Times(id)' = Times(id)
    BY <2>1, Zenon DEF Times
  <2>3. QED
    BY <1>1, <2>1, <2>2 DEF Counted
<1>9. CASE UNCHANGED outboxVars
  BY <1>1, <1>2, <1>9 DEF outboxVars, publisherVars, storeVars, tables, Waiting
<1>10. QED
  BY <1>3, <1>4, <1>5, <1>6, <1>7, <1>8, <1>9, Zenon DEF OutboxNext, PublishBatch

\* For any number of daemons and sessions, Redis receives committed events only, and each
\* at most once more than publishBatch has failed.
THEOREM FailuresLimitDuplicates == OutboxSpec => []DuplicatesNeedFaults
<1>1. OutboxInit => Counted
  <2> SUFFICES ASSUME OutboxInit PROVE Counted
    BY Zenon
  <2>1. Published = {} /\ faults = 0
    BY DEF OutboxInit, Published
  <2>2. QED
    BY <2>1, TimesOfUnpublished DEF Counted
<1>2. PipelineInv /\ Counted => DuplicatesNeedFaults
  <2> SUFFICES ASSUME PipelineInv, Counted, NEW id \in Published
               PROVE  (\E e \in events : e.id = id) /\ Times(id) <= 1 + faults
    BY Zenon DEF DuplicatesNeedFaults
  <2>1. id \in Nat \ {0}
    BY DEF PipelineInv, OutboxInv, DaemonTypeOK, Published
  <2>2. QED
    BY <2>1, Zenon DEF PipelineInv, OutboxInv, PublishedIsCommitted, Counted
<1>3. QED
  BY <1>1, <1>2, CountedNext, PipelineInvariant, PTL DEF OutboxSpec
-----------------------------------------------------------------------------
(* One daemon publishes in version order *)

SinglePublisher == \A p, q \in Publishers : p = q

\* The row q is of an earlier version of the same aggregate as the row o.
Before(q, o) ==
  \E e, f \in events :
    /\ e.id = q.event_id /\ f.id = o.event_id
    /\ e.aggregate_id = f.aggregate_id /\ e.version < f.version

\* Ids of outbox rows come from one sequence, and a row that waits for its commit under
\* the lock of its aggregate has a larger one than the aggregate's committed rows.
RowIds ==
  /\ IsFiniteSet(outbox) /\ \A o \in outbox : o.id <= outboxSeq
  /\ \A w \in Writers : \A o \in txOutbox[w] :
       /\ o.id <= outboxSeq
       /\ \A q \in outbox :
            (\E e \in events : e.id = q.event_id /\ e.aggregate_id = coin[w]) => q.id < o.id

\* So row ids follow versions, and a batch leaves no earlier version of its rows out.
RowsFollowVersions == \A o, q \in outbox : Before(q, o) => q.id < o.id

BatchIsClosed ==
  \A p \in Publishers : \A o \in records[p], q \in outbox : Before(q, o) => q \in records[p]

OrderInv == UniqueIds /\ RowIds /\ RowsFollowVersions /\ BatchIsClosed /\ PublishedInVersionOrder

\* A commit adds the next version of its aggregate, with its row.
LEMMA CommitAddsNext ==
  ASSUME PipelineInv, UniqueIds, NEW w \in Writers, Commit(w)
  PROVE  \E e \in Event, r \in OutboxRow :
           /\ events' = events \cup {e} /\ outbox' = outbox \cup {r}
           /\ r.event_id = e.id /\ e.aggregate_id = coin[w] /\ r \in txOutbox[w]
           /\ \A f \in events :
                f.id # e.id /\ (f.aggregate_id = e.aggregate_id => f.version < e.version)
           /\ UniqueIds'
<1> USE DEF PipelineInv, OutboxInv, StoreInv
<1>1. PICK c \in Coins : coin[w] = c
  BY Zenon DEF StoreTypeOK
<1>2. PICK e \in Event :
        /\ txEvents[w] = {e} /\ events' = events \cup {e}
        /\ e.aggregate_id = c /\ e.version = CurrentVersion(c) + 1
  BY <1>1, CommitAppends
<1>3. PICK r \in OutboxRow : r.event_id = e.id /\ txOutbox[w] = {r}
  BY <1>2 DEF TxOutboxRows, Commit, StoreTypeOK
<1>4. outbox' = outbox \cup {r}
  BY <1>3, Zenon DEF Commit
<1>5. CurrentVersion(c) \in Nat /\ \A f \in Rows(c) : f.version \in 1..CurrentVersion(c)
  BY <1>1, SMTT(30) DEF GaplessVersions, Issued
<1>6. \A f \in events : f.aggregate_id = e.aggregate_id => f.version < e.version
  BY <1>2, <1>5 DEF Rows
<1>7. \A f \in events : f.id # e.id
  BY <1>2, Zenon DEF FreshIds
<1>8. UniqueIds'
  BY <1>2, <1>7, Zenon DEF UniqueIds
<1>9. QED
  BY <1>1, <1>2, <1>3, <1>4, <1>6, <1>7, <1>8, Zenon

\* A commit does not reorder the rows that are there.
LEMMA CommitKeepsOrder ==
  ASSUME PipelineInv, OrderInv, NEW w \in Writers, Commit(w), UNCHANGED publisherVars
  PROVE  OrderInv'
<1> USE DEF PipelineInv, OutboxInv, OrderInv
<1>1. PICK e \in Event, r \in OutboxRow :
        /\ events' = events \cup {e} /\ outbox' = outbox \cup {r}
        /\ r.event_id = e.id /\ e.aggregate_id = coin[w] /\ r \in txOutbox[w]
        /\ \A f \in events :
             f.id # e.id /\ (f.aggregate_id = e.aggregate_id => f.version < e.version)
        /\ UniqueIds'
  BY CommitAddsNext, Zenon
<1>2. /\ records' = records /\ channel' = channel /\ outboxSeq' = outboxSeq
      /\ \A id : id \in Published' <=> id \in Published
  BY Zenon DEF publisherVars, Commit, Published
<1>3. /\ e.version \in Nat /\ e.id \in Nat /\ r.id \in Nat
      /\ \A f \in events : f.version \in Nat /\ f.id \in Nat
      /\ \A q \in outbox : q.id \in Nat /\ \E f \in events : f.id = q.event_id
  BY Zenon DEF StoreInv, StoreTypeOK, Event, OutboxRow, OutboxRowsMatchEvents
<1>4. \A q \in outbox : q.event_id # e.id
  BY <1>1, <1>3, Zenon
<1>5. \A o, q \in outbox : Before(q, o)' => Before(q, o)
  BY <1>1, <1>4, Zenon DEF Before
<1>6. \A q \in outbox' : ~Before(r, q)'
  <2> SUFFICES ASSUME NEW q \in outbox', NEW x \in events', NEW y \in events',
                      x.id = r.event_id, x.aggregate_id = y.aggregate_id, x.version < y.version
               PROVE  FALSE
    BY Zenon DEF Before
  <2>1. x = e
    BY <1>1, Zenon
  <2>2. QED
    BY <1>1, <1>3, <2>1
<1>7. \A q \in outbox : Before(q, r)' => q.id < r.id
  <2> SUFFICES ASSUME NEW q \in outbox, NEW x \in events', NEW y \in events',
                      x.id = q.event_id, y.id = r.event_id, x.aggregate_id = y.aggregate_id
               PROVE  q.id < r.id
    BY Zenon DEF Before
  <2>1. x \in events /\ y = e
    BY <1>1, <1>4, Zenon
  <2>2. QED
    BY <1>1, <2>1, Zenon DEF RowIds
<1>8. RowsFollowVersions'
  BY <1>1, <1>5, <1>6, <1>7 DEF RowsFollowVersions
<1>9. BatchIsClosed'
  BY <1>1, <1>2, <1>5, <1>6, SMTT(40) DEF BatchIsClosed, BatchShape
<1>10. RowIds'
  <2>1. IsFiniteSet(outbox')
    BY <1>1, FS_AddElement, Zenon DEF RowIds
  <2>2. \A o \in outbox' : o.id <= outboxSeq'
    BY <1>1, <1>2, Zenon DEF RowIds
  <2>3. \A u \in Writers : \A o \in txOutbox'[u] : o.id <= outboxSeq'
    BY <1>2, Zenon DEF RowIds, Commit, EndTx, StoreInv, StoreTypeOK
  <2>4. ASSUME NEW u \in Writers, NEW o \in txOutbox'[u], NEW q \in outbox', NEW x \in events',
               x.id = q.event_id, x.aggregate_id = coin'[u]
        PROVE  q.id < o.id
    <3>1. u # w /\ coin'[u] = coin[u] /\ txOutbox'[u] = txOutbox[u] /\ pc[u] = "ready"
      BY <2>4, Zenon DEF Commit, EndTx, StoreInv, StoreTypeOK, TxOutboxRows
    <3>2. coin[u] # coin[w]
      BY <3>1, LockExcludes, Zenon DEF Commit, InTx, StoreInv
    <3>3. x \in events /\ q \in outbox
      BY <1>1, <1>4, <2>4, <3>1, <3>2, Zenon
    <3>4. QED
      BY <2>4, <3>1, <3>3, Zenon DEF RowIds
  <2>5. QED
    BY <2>1, <2>2, <2>3, <2>4, Zenon DEF RowIds
<1>11. PublishedInVersionOrder'
  <2> SUFFICES ASSUME NEW x \in events', NEW y \in events', x.aggregate_id = y.aggregate_id,
                      x.version < y.version, NEW j \in DOMAIN channel, channel[j] = y.id
               PROVE  \E i \in 1..j : channel[i] = x.id
    BY <1>2, Zenon DEF PublishedInVersionOrder
  <2>1. y \in events
    BY <1>1, Zenon DEF PublishedIsCommitted, Published
  <2>2. x \in events
    BY <1>1, <1>3, <2>1
  <2>3. QED
    BY <2>1, <2>2, Zenon DEF PublishedInVersionOrder
<1>12. QED
  BY <1>1, <1>8, <1>9, <1>10, <1>11, Zenon

\* Any other step of a session leaves the tables alone; a row it inserts gets a new id.
LEMMA SessionKeepsOrder ==
  ASSUME PipelineInv, OrderInv, StoreNext, UNCHANGED <<events, outbox>>, UNCHANGED publisherVars
  PROVE  OrderInv'
<1> USE DEF PipelineInv, OutboxInv, OrderInv
<1>1. UniqueIds' /\ RowsFollowVersions' /\ BatchIsClosed' /\ PublishedInVersionOrder'
  <2>1. UniqueIds' /\ PublishedInVersionOrder'
    BY DEF UniqueIds, PublishedInVersionOrder, publisherVars
  <2>2. RowsFollowVersions' /\ BatchIsClosed'
    BY SMTT(40) DEF RowsFollowVersions, BatchIsClosed, Before, publisherVars
  <2>3. QED
    BY <2>1, <2>2, Zenon
<1>2. outboxSeq \in Nat
  BY Zenon DEF StoreInv, StoreTypeOK
<1>3. \A o \in outbox : o.id \in Nat
  BY Zenon DEF StoreInv, StoreTypeOK, OutboxRow
<1>4. ASSUME NEW w \in Writers,
             \A u \in Writers \ {w} : txOutbox'[u] = txOutbox[u] /\ coin'[u] = coin[u],
             outboxSeq' = outboxSeq \/ outboxSeq' = outboxSeq + 1,
             \/ txOutbox'[w] = txOutbox[w] /\ coin'[w] = coin[w]
             \/ \A o \in txOutbox'[w] : o.id = outboxSeq + 1 /\ outboxSeq' = outboxSeq + 1
      PROVE  RowIds'
  <2>1. \A u \in Writers : \A o \in txOutbox[u] : o.id \in Nat
    BY DEF StoreInv, StoreTypeOK, OutboxRow
  <2>2. ASSUME NEW u \in Writers, NEW o \in txOutbox'[u]
        PROVE  /\ o.id <= outboxSeq'
               /\ \A q \in outbox :
                    (\E e \in events : e.id = q.event_id /\ e.aggregate_id = coin'[u]) => q.id < o.id
    <3>1. CASE txOutbox'[u] = txOutbox[u] /\ coin'[u] = coin[u]
      BY <1>2, <1>4, <2>1, <2>2, <3>1, SMTT(40) DEF RowIds
    <3>2. CASE o.id = outboxSeq + 1 /\ outboxSeq' = outboxSeq + 1
      BY <1>2, <1>3, <3>2 DEF RowIds
    <3>3. QED
      BY <1>4, <2>2, <3>1, <3>2, Zenon
  <2>3. \A o \in outbox : o.id <= outboxSeq'
    BY <1>2, <1>3, <1>4 DEF RowIds
  <2>4. QED
    BY <2>2, <2>3, Zenon DEF RowIds
<1>5. ASSUME NEW w \in Writers, \E c \in Coins : ProcessMarketData(w, c) PROVE RowIds'
  <2>1. txOutbox' = txOutbox /\ txOutbox[w] = {} /\ outboxSeq' = outboxSeq
    BY <1>5, Zenon DEF ProcessMarketData, Goto, TxOutboxRows, tables
  <2>2. \A u \in Writers \ {w} : coin'[u] = coin[u]
    BY <1>5, Zenon DEF ProcessMarketData, StoreInv, StoreTypeOK
  <2>3. QED
    BY <1>4, <2>1, <2>2, Zenon
<1>6. ASSUME NEW w \in Writers, EndTx(w), outboxSeq' = outboxSeq PROVE RowIds'
  <2>1. txOutbox'[w] = {} /\ \A u \in Writers \ {w} : txOutbox'[u] = txOutbox[u] /\ coin'[u] = coin[u]
    BY <1>6, Zenon DEF EndTx, StoreInv, StoreTypeOK
  <2>2. QED
    BY <1>4, <1>6, <2>1, Zenon
<1>7. ASSUME NEW w \in Writers, InsertOutbox(w) PROVE RowIds'
  <2>1. /\ \A u \in Writers \ {w} : txOutbox'[u] = txOutbox[u] /\ coin'[u] = coin[u]
        /\ outboxSeq' = outboxSeq + 1 /\ \A o \in txOutbox'[w] : o.id = outboxSeq + 1
    BY <1>7, SMTT(40) DEF InsertOutbox, NextVal, StoreInv, StoreTypeOK
  <2>2. QED
    BY <1>4, <2>1, Zenon
<1>8. ASSUME NEW w \in Writers, AcquireLock(w) \/ VersionMatches(w) \/ InsertEvent(w) PROVE RowIds'
  <2>1. txOutbox' = txOutbox /\ coin' = coin /\ outboxSeq' = outboxSeq
    BY <1>8, Zenon DEF AcquireLock, VersionMatches, InsertEvent, tables
  <2>2. QED
    BY <1>4, <2>1, Zenon
<1>9. RowIds'
  BY <1>5, <1>6, <1>7, <1>8, Zenon
  DEF StoreNext, AppendEvents, VersionConflict, InsertFails, Commit, Abort, tables
<1>10. QED
  BY <1>1, <1>9, Zenon

\* A batch of the only daemon begins with the first rows of the table, and a message is
\* sent when every earlier version has been.
LEMMA DaemonKeepsOrder ==
  ASSUME SinglePublisher, PipelineInv, OrderInv, NEW p \in Publishers,
         PublishBatch(p) \/ PublishFails(p) \/ RollbackBatch(p)
  PROVE  OrderInv'
<1> USE DEF PipelineInv, OutboxInv, OrderInv
<1>1. events' = events /\ txOutbox' = txOutbox /\ coin' = coin /\ outboxSeq' = outboxSeq
        /\ outbox' \subseteq outbox
  BY Zenon DEF PublishBatch, SelectBatch, Publish, PublishedAll, DeleteAndCommit, PublishFails,
         RollbackBatch, EndBatch, storeVars, tables, sessions
<1>2. UniqueIds' /\ RowsFollowVersions' /\ \A o, q : Before(q, o)' <=> Before(q, o)
  BY <1>1, Zenon DEF UniqueIds, RowsFollowVersions, Before
<1>3. RowIds'
  BY <1>1, FS_Subset, ZenonT(40) DEF RowIds
<1>4. BatchIsClosed'
  <2>1. CASE SelectBatch(p)
    <3>1. outbox' = outbox /\ records' = [records EXCEPT ![p] = FirstRows(Unlocked(p), BatchLimit)]
      BY <2>1, Zenon DEF SelectBatch, storeVars, tables
    <3>2. Unlocked(p) = outbox
      BY <2>1, Zenon DEF SelectBatch, SinglePublisher, Unlocked, LockedRows, BatchShape
    <3>3. ASSUME NEW o \in FirstRows(outbox, BatchLimit), NEW q \in outbox, q.id < o.id
          PROVE  q \in FirstRows(outbox, BatchLimit)
      <4> DEFINE below(r) == {s \in outbox : s.id < r.id}
      <4>1. \A r \in outbox : r.id \in Nat
        BY Zenon DEF StoreInv, StoreTypeOK, OutboxRow
      <4>2. o \in outbox /\ Cardinality(below(o)) < BatchLimit
        BY <3>3, Zenon DEF FirstRows
      <4>3. below(q) \subseteq below(o) /\ below(o) \subseteq outbox
        BY <3>3, <4>1, <4>2
      <4>4. IsFiniteSet(below(o)) /\ IsFiniteSet(below(q))
              /\ Cardinality(below(q)) <= Cardinality(below(o))
        BY <4>3, FS_Subset, Zenon DEF RowIds
      <4>5. Cardinality(below(q)) \in Nat /\ Cardinality(below(o)) \in Nat
        BY <4>4, FS_CardinalityType, Zenon
      <4> HIDE DEF below
      <4>6. Cardinality(below(q)) < BatchLimit
        BY <4>2, <4>4, <4>5, PublisherAssumption
      <4>7. QED
        BY <4>6, Zenon DEF FirstRows, below
    <3>4. \A o \in FirstRows(outbox, BatchLimit), q \in outbox :
            Before(q, o) => q \in FirstRows(outbox, BatchLimit)
      BY <3>3, Zenon DEF RowsFollowVersions, FirstRows
    <3>5. records'[p] = FirstRows(outbox, BatchLimit) /\ \A q \in Publishers : q = p
      BY <3>1, <3>2, Zenon DEF DaemonTypeOK, SinglePublisher
    <3>6. QED
      BY <1>2, <3>1, <3>4, <3>5, Zenon DEF BatchIsClosed
  <2>2. CASE records' = records /\ outbox' = outbox
    BY <1>2, <2>2, Zenon DEF BatchIsClosed
  <2>3. CASE DeleteAndCommit(p) \/ RollbackBatch(p)
    <3>1. \A q \in Publishers : records'[q] = {}
      BY <2>3, Zenon DEF DeleteAndCommit, RollbackBatch, EndBatch, DaemonTypeOK, SinglePublisher
    <3>2. QED
      BY <3>1, Zenon DEF BatchIsClosed
  <2>4. Publish(p) \/ PublishedAll(p) \/ PublishFails(p) => records' = records /\ outbox' = outbox
    BY Zenon DEF Publish, PublishedAll, PublishFails, storeVars, tables
  <2>5. QED
    BY <2>1, <2>2, <2>3, <2>4, Zenon DEF PublishBatch
<1>5. PublishedInVersionOrder'
  <2>1. CASE channel' = channel
    <3>1. PublishedInVersionOrder /\ events' = events
      BY <1>1, Zenon
    <3> DEFINE Ordered(rows, ch) ==
                 \A e, f \in rows :
                   e.aggregate_id = f.aggregate_id /\ e.version < f.version =>
                     \A j \in DOMAIN ch : ch[j] = f.id => \E i \in 1..j : ch[i] = e.id
    <3>2. (PublishedInVersionOrder <=> Ordered(events, channel))
          /\ (PublishedInVersionOrder' <=> Ordered(events', channel'))
      BY Zenon DEF PublishedInVersionOrder
    <3> HIDE DEF Ordered
    <3>3. QED
      BY <2>1, <3>1, <3>2, Zenon
  <2>2. CASE records[p] # sent[p] /\ channel' = Append(channel, NextUnsent(p).event_id)
    <3> DEFINE o == NextUnsent(p)
    <3>1. o \in records[p] \ sent[p] /\ \A q \in records[p] \ sent[p] : o.id <= q.id
      BY <2>2, NextUnsentIsFirst, Zenon
    <3>2. o \in outbox /\ o.event_id \in Nat \ {0} /\ o.id \in Nat /\ \A q \in outbox : q.id \in Nat
      BY <3>1, Zenon DEF BatchShape, StoreInv, StoreTypeOK, OutboxRow
    <3> HIDE DEF o
    <3>3. channel \in Seq(Nat \ {0}) /\ channel' = Append(channel, o.event_id)
      BY <2>2, Zenon DEF DaemonTypeOK, o
    <3>4. /\ Len(channel) \in Nat
          /\ DOMAIN channel = 1..Len(channel) /\ DOMAIN channel' = 1..(Len(channel) + 1)
          /\ channel'[Len(channel) + 1] = o.event_id
          /\ \A i \in DOMAIN channel : channel'[i] = channel[i]
      BY <3>2, <3>3
    <3>5. ASSUME NEW e \in events, NEW f \in events, e.aggregate_id = f.aggregate_id,
                 e.version < f.version, o.event_id = f.id
          PROVE  e.id \in Published
      <4>1. ASSUME NEW q \in outbox, q.event_id = e.id PROVE e.id \in Published
        <5>1. Before(q, o)
          BY <3>5, <4>1, Zenon DEF Before
        <5>2. q \in records[p] /\ q.id < o.id
          BY <3>1, <3>2, <5>1, Zenon DEF BatchIsClosed, RowsFollowVersions
        <5>3. q \in sent[p]
          BY <3>1, <3>2, <5>2
        <5>4. QED
          BY <4>1, <5>3, Zenon DEF SentIsPublished
      <4>2. QED
        BY <4>1, Zenon DEF NoEventLost
    <3>6. SUFFICES ASSUME NEW e \in events, NEW f \in events, e.aggregate_id = f.aggregate_id,
                          e.version < f.version, NEW j \in DOMAIN channel', channel'[j] = f.id
                   PROVE  \E i \in 1..j : channel'[i] = e.id
      BY <1>1, Zenon DEF PublishedInVersionOrder
    <3>7. CASE j \in DOMAIN channel
      <4>1. PICK i \in 1..j : channel[i] = e.id
        BY <3>4, <3>6, <3>7 DEF PublishedInVersionOrder
      <4>2. QED
        BY <3>4, <3>7, <4>1
    <3>8. CASE j = Len(channel) + 1
      <4>1. PICK i \in DOMAIN channel : channel[i] = e.id
        BY <3>4, <3>5, <3>6, <3>8, Zenon DEF Published
      <4>2. QED
        BY <3>4, <3>8, <4>1
    <3>9. QED
      BY <3>4, <3>7, <3>8, SMTT(40)
  <2>3. QED
    BY <2>1, <2>2, Zenon
    DEF PublishBatch, SelectBatch, Publish, PublishedAll, DeleteAndCommit, PublishFails,
        RollbackBatch, EndBatch
<1>6. QED
  BY <1>2, <1>3, <1>4, <1>5, Zenon

\* With one daemon, and any number of sessions, rollbacks, lost answers and restarts, Redis
\* receives no event of an aggregate before all its earlier versions.
THEOREM VersionOrderReachesRedis ==
  ASSUME SinglePublisher
  PROVE  OutboxSpec => []PublishedInVersionOrder
<1>1. OutboxInit => OrderInv
  <2> SUFFICES ASSUME OutboxInit PROVE OrderInv
    BY Zenon
  <2>1. IsFiniteSet(outbox)
    BY FS_EmptySet, Zenon DEF OutboxInit, StoreInit
  <2>2. QED
    BY <2>1, Zenon
    DEF OutboxInit, StoreInit, OrderInv, UniqueIds, RowIds, RowsFollowVersions, BatchIsClosed,
        PublishedInVersionOrder
<1>2. PipelineInv /\ OrderInv /\ [OutboxNext]_outboxVars => OrderInv'
  <2> SUFFICES ASSUME PipelineInv, OrderInv, [OutboxNext]_outboxVars PROVE OrderInv'
    BY Zenon
  <2>1. CASE StoreNext /\ UNCHANGED publisherVars
    <3>1. ASSUME NEW w \in Writers, Commit(w) PROVE OrderInv'
      BY <2>1, <3>1, CommitKeepsOrder, Zenon
    <3>2. CASE UNCHANGED <<events, outbox>>
      BY <2>1, <3>2, SessionKeepsOrder, Zenon
    <3>3. QED
      BY <2>1, <3>1, <3>2, Zenon
      DEF StoreNext, AppendEvents, ProcessMarketData, AcquireLock, VersionMatches, VersionConflict,
          InsertEvent, InsertFails, InsertOutbox, Abort, tables
  <2>2. ASSUME NEW p \in Publishers, PublishBatch(p) \/ PublishFails(p) \/ RollbackBatch(p)
        PROVE  OrderInv'
    BY SinglePublisher, <2>2, DaemonKeepsOrder, Zenon
  <2>3. CASE UNCHANGED outboxVars
    <3>1. UNCHANGED <<events, outbox, outboxSeq, coin, txOutbox, records, channel>>
      BY <2>3, Zenon DEF outboxVars, publisherVars, storeVars, tables, sessions
    <3>2. UniqueIds' /\ RowIds'
      BY <3>1, ZenonT(40) DEF OrderInv, UniqueIds, RowIds
    <3>3. RowsFollowVersions' /\ BatchIsClosed'
      BY <3>1 DEF OrderInv, RowsFollowVersions, BatchIsClosed, Before
    <3>4. PublishedInVersionOrder'
      BY <3>1 DEF OrderInv, PublishedInVersionOrder
    <3>5. QED
      BY <3>2, <3>3, <3>4, Zenon DEF OrderInv
  <2>4. QED
    BY <2>1, <2>2, <2>3, Zenon DEF OutboxNext
<1>3. OrderInv => PublishedInVersionOrder
  BY Zenon DEF OrderInv
<1>4. QED
  BY <1>1, <1>2, <1>3, PipelineInvariant, PTL DEF OutboxSpec
=============================================================================

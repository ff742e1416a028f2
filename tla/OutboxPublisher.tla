---------------------------- MODULE OutboxPublisher ----------------------------
(***************************************************************************)
(* The outbox daemons of all instances, composed with the sessions that    *)
(* fill the outbox.  A daemon's publishBatch is one database transaction:  *)
(* it locks a batch of rows, publishes their payloads to the Redis channel *)
(* one by one, deletes the published rows and commits.  Redis takes no     *)
(* part in the transaction.                                                *)
(***************************************************************************)
EXTENDS EventStore

CONSTANTS
  Publishers,   \* outbox daemons, one per instance
  BatchLimit,   \* LIMIT of the batch query (100 in the code)
  MaxFaults     \* how many failures a behaviour may contain (bound)

ASSUME PublisherAssumption == BatchLimit \in Nat \ {0} /\ MaxFaults \in Nat

VARIABLES
  ppc,       \* where each daemon is in publishBatch
  records,   \* rows its open transaction holds FOR UPDATE
  sent,      \* publishedIDs: those it has published
  channel,   \* event ids in the order in which Redis received them
  faults     \* failures so far

publisherVars == <<ppc, records, sent, channel, faults>>
outboxVars == <<storeVars, publisherVars>>
-----------------------------------------------------------------------------
OutboxInit ==
  /\ StoreInit
  /\ ppc = [p \in Publishers |-> "idle"]
  /\ records = [p \in Publishers |-> {}]
  /\ sent = [p \in Publishers |-> {}]
  /\ channel = <<>>
  /\ faults = 0

Fault == faults < MaxFaults /\ faults' = faults + 1

LockedRows == UNION {records[p] : p \in Publishers}

WithoutSkipLocked(p) == outbox

\* The rows FOR UPDATE SKIP LOCKED may return.
Unlocked(p) == outbox \ LockedRows

\* The rows of S with the n smallest ids: ORDER BY id ASC LIMIT n.
FirstRows(S, n) == {o \in S : Cardinality({q \in S : q.id < o.id}) < n}

\* An empty result ends publishBatch without a trace.
SelectBatch(p) ==
  /\ ppc[p] = "idle"
  /\ Unlocked(p) # {}
  /\ ppc' = [ppc EXCEPT ![p] = "publishing"]
  /\ records' = [records EXCEPT ![p] = FirstRows(Unlocked(p), BatchLimit)]
  /\ UNCHANGED <<storeVars, sent, channel, faults>>

\* LIFO instead of the order of ids.
LastUnsent(p) == CHOOSE o \in records[p] \ sent[p] : \A q \in records[p] \ sent[p] : q.id <= o.id

NextUnsent(p) == CHOOSE o \in records[p] \ sent[p] : \A q \in records[p] \ sent[p] : o.id <= q.id

Publish(p) ==
  /\ ppc[p] = "publishing"
  /\ records[p] # sent[p]
  /\ channel' = Append(channel, NextUnsent(p).event_id)
  /\ sent' = [sent EXCEPT ![p] = @ \cup {NextUnsent(p)}]
  /\ UNCHANGED <<storeVars, ppc, records, faults>>

\* Publish returns an error and the loop breaks.  Redis may have received the
\* message all the same.
PublishFails(p) ==
  /\ ppc[p] = "publishing"
  /\ records[p] # sent[p]
  /\ Fault
  /\ ppc' = [ppc EXCEPT ![p] = "deleting"]
  /\ channel' \in {channel, Append(channel, NextUnsent(p).event_id)}
  /\ UNCHANGED <<storeVars, records, sent>>

PublishedAll(p) ==
  /\ ppc[p] = "publishing"
  /\ records[p] = sent[p]
  /\ ppc' = [ppc EXCEPT ![p] = "deleting"]
  /\ UNCHANGED <<storeVars, records, sent, channel, faults>>

\* publishBatch is over: its row locks are released.
EndBatch(p) ==
  /\ ppc' = [ppc EXCEPT ![p] = "idle"]
  /\ records' = [records EXCEPT ![p] = {}]
  /\ sent' = [sent EXCEPT ![p] = {}]
  /\ UNCHANGED <<events, eventsSeq, outboxSeq, sessions, channel>>

\* The whole batch is deleted although the loop broke half way.
DeleteWholeBatch(p) ==
  /\ ppc[p] = "deleting"
  /\ outbox' = outbox \ records[p]
  /\ EndBatch(p)
  /\ UNCHANGED faults

\* The transaction commits and the row locks stay until the next batch.
DeleteKeepsRowLocks(p) ==
  /\ ppc[p] = "deleting"
  /\ outbox' = outbox \ sent[p]
  /\ ppc' = [ppc EXCEPT ![p] = "idle"]
  /\ sent' = [sent EXCEPT ![p] = {}]
  /\ UNCHANGED <<events, eventsSeq, outboxSeq, sessions, channel, records, faults>>

DeleteAndCommit(p) ==
  /\ ppc[p] = "deleting"
  /\ outbox' = outbox \ sent[p]
  /\ EndBatch(p)
  /\ UNCHANGED faults

\* The DELETE or the COMMIT fails, the context is cancelled or the process dies:
\* the rows stay, whatever has been published.
RollbackBatch(p) ==
  /\ ppc[p] # "idle"
  /\ Fault
  /\ EndBatch(p)
  /\ UNCHANGED outbox

PublishBatch(p) ==
  SelectBatch(p) \/ Publish(p) \/ PublishedAll(p) \/ DeleteAndCommit(p)

OutboxNext ==
  \/ StoreNext /\ UNCHANGED publisherVars
  \/ \E p \in Publishers : PublishBatch(p) \/ PublishFails(p) \/ RollbackBatch(p)

OutboxSpec == OutboxInit /\ [][OutboxNext]_outboxVars

\* A daemon polls for ever, so a step of publishBatch that can be taken is taken.
FairOutboxSpec == OutboxSpec /\ \A p \in Publishers : WF_outboxVars(PublishBatch(p))
-----------------------------------------------------------------------------
(* Properties *)

DaemonTypeOK ==
  /\ ppc \in [Publishers -> {"idle", "publishing", "deleting"}]
  /\ records \in [Publishers -> SUBSET OutboxRow]
  /\ sent \in [Publishers -> SUBSET OutboxRow]
  /\ channel \in Seq(Nat \ {0})
  /\ faults \in 0..MaxFaults

\* A daemon's batch is locked in the outbox, and is empty between two batches.
BatchShape ==
  \A p \in Publishers :
    /\ sent[p] \subseteq records[p] /\ records[p] \subseteq outbox
    /\ ppc[p] = "idle" => records[p] = {}

\* Every variable of the daemons holds a value of its type: in particular each
\* publishBatch starts with no row and no published id of the one before.
OutboxTypeOK == DaemonTypeOK /\ BatchShape

Published == {channel[i] : i \in DOMAIN channel}
Times(id) == Cardinality({i \in DOMAIN channel : channel[i] = id})

\* A committed event waits in the outbox until Redis has received it: no crash,
\* failed publish or failed commit loses one.
NoEventLost ==
  \A e \in events : e.id \in Published \/ \E o \in outbox : o.event_id = e.id

\* Redis receives nothing but committed events, and each at most once more than
\* there were failures: without failures concurrent daemons publish no duplicates.
DuplicatesNeedFaults ==
  \A id \in Published : (\E e \in events : e.id = id) /\ Times(id) <= 1 + faults

\* What README.md:60 promises of FOR UPDATE SKIP LOCKED: concurrent workers publish
\* no event twice.
ZeroDuplicates == \A i, j \in DOMAIN channel : channel[i] = channel[j] => i = j

\* With one daemon an aggregate's events reach Redis in version order: none is
\* received before every earlier version has been received.
PublishedInVersionOrder ==
  \A e, f \in events :
    e.aggregate_id = f.aggregate_id /\ e.version < f.version =>
      \A j \in DOMAIN channel : channel[j] = f.id => \E i \in 1..j : channel[i] = e.id

\* Every committed event is eventually published and every row eventually leaves
\* the outbox, if failures are finitely many.
EventuallyPublished ==
  \A id \in 1..MaxSerial :
    (\E e \in events : e.id = id) ~> (id \in Published /\ \A o \in outbox : o.event_id # id)
=============================================================================

------------------------------- MODULE Projector -------------------------------
(***************************************************************************)
(* The projector daemons of all instances, composed with the sessions that *)
(* append events.  A daemon polls the events table after the last id it    *)
(* has seen, applies each event to the read tables with separate           *)
(* autocommit statements, and saves its position in one checkpoint row     *)
(* that all instances share.  A row of market_summaries is the id of the   *)
(* event it shows; price_history counts the rows each event has produced.  *)
(* The cache entry that Project also deletes belongs to the query side.    *)
(***************************************************************************)
EXTENDS EventStore

CONSTANTS
  Projectors,    \* projector daemons, one per instance
  FetchLimit,    \* limit of GetNewEvents (100 in the code)
  Unknown,       \* aggregates whose events deserializeEvent refuses
  Rejected,      \* aggregates whose payload the columns of market_summaries refuse
  MaxFailures    \* how many failures a behaviour may contain (bound)

ASSUME ProjectorAssumption ==
  /\ FetchLimit \in Nat \ {0} /\ MaxFailures \in Nat
  /\ Unknown \subseteq Coins /\ Rejected \subseteq Coins

VARIABLES
  jpc,          \* where each daemon is
  lastID,       \* its position
  batch,        \* events it has fetched and not yet finished
  progressed,   \* processedCount > 0
  checkpoint,   \* projector_checkpoints.last_event_id, 0 without a row
  summary,      \* market_summaries: the event each coin shows, 0 without a row
  history,      \* price_history: how many rows each event has
  failures      \* failures so far

readTables == <<checkpoint, summary, history>>
daemonVars == <<jpc, lastID, batch, progressed>>
projectorVars == <<readTables, daemonVars, failures>>
allVars == <<storeVars, projectorVars>>

EventIds == 1..MaxSerial
-----------------------------------------------------------------------------
ProjectorInit ==
  /\ StoreInit
  /\ jpc = [p \in Projectors |-> "down"]
  /\ lastID = [p \in Projectors |-> 0]
  /\ batch = [p \in Projectors |-> {}]
  /\ progressed = [p \in Projectors |-> FALSE]
  /\ checkpoint = 0
  /\ summary = [c \in Coins |-> 0]
  /\ history = [i \in EventIds |-> 0]
  /\ failures = 0

Failure == failures < MaxFailures /\ failures' = failures + 1

\* The checkpoint is ignored.
StartAnew(p) ==
  /\ jpc[p] = "down"
  /\ jpc' = [jpc EXCEPT ![p] = "poll"]
  /\ lastID' = [lastID EXCEPT ![p] = 0]
  /\ UNCHANGED <<storeVars, readTables, batch, progressed, failures>>

\* GetLastEventID, or no row.
Start(p) ==
  /\ jpc[p] = "down"
  /\ jpc' = [jpc EXCEPT ![p] = "poll"]
  /\ lastID' = [lastID EXCEPT ![p] = checkpoint]
  /\ UNCHANGED <<storeVars, readTables, batch, progressed, failures>>

\* The checkpoint cannot be read: the daemon returns and nobody starts it again.
StartFails(p) ==
  /\ jpc[p] = "down"
  /\ Failure
  /\ jpc' = [jpc EXCEPT ![p] = "dead"]
  /\ UNCHANGED <<storeVars, readTables, lastID, batch, progressed>>

\* The comparison is off by one: the last record is fetched again.
NotOlderThan(id) == {e \in events : e.id >= id}

NewerThan(id) == {e \in events : e.id > id}

\* The LIMIT without its ORDER BY: any rows may come back, here the newest.
GetNewestEvents(id, n) ==
  {e \in NewerThan(id) : Cardinality({f \in NewerThan(id) : f.id > e.id}) < n}

GetNewEvents(id, n) ==
  {e \in NewerThan(id) : Cardinality({f \in NewerThan(id) : f.id < e.id}) < n}

\* A failed or an empty query only changes the polling interval.
Poll(p) ==
  /\ jpc[p] = "poll"
  /\ NewerThan(lastID[p]) # {}
  /\ jpc' = [jpc EXCEPT ![p] = "project"]
  /\ batch' = [batch EXCEPT ![p] = GetNewEvents(lastID[p], FetchLimit)]
  /\ progressed' = [progressed EXCEPT ![p] = FALSE]
  /\ UNCHANGED <<storeVars, readTables, lastID, failures>>

Current(p) == CHOOSE e \in batch[p] : \A f \in batch[p] : e.id <= f.id

\* lastID = rec.ID; processedCount++; go on with the next record.
NextRecord(p) ==
  /\ lastID' = [lastID EXCEPT ![p] = Current(p).id]
  /\ progressed' = [progressed EXCEPT ![p] = TRUE]
  /\ batch' = [batch EXCEPT ![p] = @ \ {Current(p)}]
  /\ jpc' = [jpc EXCEPT ![p] = IF batch[p] = {Current(p)} THEN "save" ELSE "project"]

Skip(p) ==
  /\ jpc[p] = "project"
  /\ Current(p).aggregate_id \in Unknown
  /\ NextRecord(p)
  /\ UNCHANGED <<storeVars, readTables, failures>>

WriteSummary(p) == summary' = [summary EXCEPT ![Current(p).aggregate_id] = Current(p).id]

WriteHistory(p) == history' = [history EXCEPT ![Current(p).id] = @ + 1]

UpdateMarketSummary(p) ==
  /\ jpc[p] = "project"
  /\ Current(p).aggregate_id \notin Unknown \cup Rejected
  /\ WriteSummary(p)
  /\ jpc' = [jpc EXCEPT ![p] = "history"]
  /\ UNCHANGED <<storeVars, checkpoint, history, lastID, batch, progressed, failures>>

AddPriceHistory(p) ==
  /\ jpc[p] = "history"
  /\ WriteHistory(p)
  /\ jpc' = [jpc EXCEPT ![p] = "invalidate"]
  /\ UNCHANGED <<storeVars, checkpoint, summary, lastID, batch, progressed, failures>>

\* The cache entry is deleted or the failure is logged; either way Project succeeds.
Invalidate(p) ==
  /\ jpc[p] = "invalidate"
  /\ NextRecord(p)
  /\ UNCHANGED <<storeVars, readTables, failures>>

\* The failed record is counted as done.
BreakPastRecord(p) ==
  /\ lastID' = [lastID EXCEPT ![p] = Current(p).id]
  /\ jpc' = [jpc EXCEPT ![p] = "save"]
  /\ batch' = [batch EXCEPT ![p] = {}]
  /\ progressed' = [progressed EXCEPT ![p] = TRUE]

\* Project returned an error: leave the loop, keep lastID.
Break(p) ==
  /\ jpc' = [jpc EXCEPT ![p] = IF progressed[p] THEN "save" ELSE "poll"]
  /\ batch' = [batch EXCEPT ![p] = {}]
  /\ UNCHANGED <<lastID, progressed>>

\* The upsert fails; the row may have been written all the same.
UpdateMarketSummaryFails(p) ==
  /\ jpc[p] = "project"
  /\ Current(p).aggregate_id \notin Unknown \cup Rejected
  /\ Failure
  /\ WriteSummary(p) \/ UNCHANGED summary
  /\ Break(p)
  /\ UNCHANGED <<storeVars, checkpoint, history>>

\* The payload does not fit the columns, now or at any retry.
SummaryRejected(p) ==
  /\ jpc[p] = "project"
  /\ Current(p).aggregate_id \in Rejected \ Unknown
  /\ Break(p)
  /\ UNCHANGED <<storeVars, readTables, failures>>

\* The insert fails; the row may have been written all the same.
AddPriceHistoryFails(p) ==
  /\ jpc[p] = "history"
  /\ Failure
  /\ WriteHistory(p) \/ UNCHANGED history
  /\ Break(p)
  /\ UNCHANGED <<storeVars, checkpoint, summary>>

Greatest(p) == IF lastID[p] > checkpoint THEN lastID[p] ELSE checkpoint

\* With a cancelled context the save runs under a context of its own.
UpdateLastEventID(p) ==
  /\ jpc[p] = "save"
  /\ checkpoint' = Greatest(p)
  /\ jpc' = [jpc EXCEPT ![p] = "poll"]
  /\ UNCHANGED <<storeVars, summary, history, lastID, batch, progressed, failures>>

\* The error is only logged: the daemon goes on from lastID.
UpdateLastEventIDFails(p) ==
  /\ jpc[p] = "save"
  /\ Failure
  /\ jpc' = [jpc EXCEPT ![p] = "poll"]
  /\ UNCHANGED <<storeVars, readTables, lastID, batch, progressed>>

\* The process stops or dies anywhere and a new one takes its place.
Restart(p) ==
  /\ jpc[p] # "down"
  /\ Failure
  /\ jpc' = [jpc EXCEPT ![p] = "down"]
  /\ lastID' = [lastID EXCEPT ![p] = 0]
  /\ batch' = [batch EXCEPT ![p] = {}]
  /\ progressed' = [progressed EXCEPT ![p] = FALSE]
  /\ UNCHANGED <<storeVars, readTables>>

\* The steps a daemon takes when nothing fails.
Proceed(p) ==
  \/ Start(p) \/ Poll(p) \/ Skip(p) \/ UpdateMarketSummary(p) \/ SummaryRejected(p)
  \/ AddPriceHistory(p) \/ Invalidate(p) \/ UpdateLastEventID(p)

Fail(p) ==
  \/ StartFails(p) \/ UpdateMarketSummaryFails(p) \/ AddPriceHistoryFails(p)
  \/ UpdateLastEventIDFails(p) \/ Restart(p)

ProjectorNext ==
  \/ StoreNext /\ UNCHANGED projectorVars
  \/ \E p \in Projectors : Proceed(p) \/ Fail(p)

ProjectorSpec == ProjectorInit /\ [][ProjectorNext]_allVars

\* A running daemon keeps taking its next step: the loop has no other wait
\* than its timer.  Nothing makes a writer append.
ProjectorFairness == \A p \in Projectors : WF_allVars(Proceed(p))

FairProjectorSpec == ProjectorSpec /\ ProjectorFairness
-----------------------------------------------------------------------------
\* Every variable of the daemons and of the read tables stays in its domain;
\* in particular a daemon inside its loop always has a record to work on.
ProjectorTypeOK ==
  /\ jpc \in [Projectors -> {"down", "dead", "poll", "project", "history", "invalidate", "save"}]
  /\ lastID \in [Projectors -> 0..MaxSerial]
  /\ batch \in [Projectors -> SUBSET events]
  /\ progressed \in [Projectors -> BOOLEAN]
  /\ checkpoint \in 0..MaxSerial
  /\ summary \in [Coins -> 0..MaxSerial]
  /\ history \in [EventIds -> Nat]
  /\ failures \in 0..MaxFailures
  /\ \A p \in Projectors : jpc[p] \in {"project", "history", "invalidate"} <=> batch[p] # {}

\* The event has reached price_history, or was one the projector skips.
Projected(e) == e.aggregate_id \in Unknown \/ history[e.id] > 0

\* Start resumes behind the checkpoint and never looks back, so every
\* committed event up to the checkpoint must have been projected or skipped.
CheckpointCoversProjected == \A e \in events : e.id <= checkpoint => Projected(e)

\* The loop breaks at the first event that fails, so an event is projected
\* only after every committed event with a smaller id, whatever fails or
\* restarts and however many instances run.
ProjectedIsPrefix ==
  \A e, f \in events : e.id < f.id /\ history[f.id] > 0 => Projected(e)

\* With one daemon a replay after a crash starts behind the checkpoint, so a
\* summary row never falls back to an event older than the checkpoint says.
SummaryNotBehindCheckpoint ==
  \A e \in events :
    e.id <= checkpoint /\ e.aggregate_id \notin Unknown => summary[e.aggregate_id] >= e.id

\* Nothing in price_history stops Project from inserting an event's row again.  Each
\* instance inserts it once, and once more only for a failure: a save that is lost, an
\* insert reported as failed or a restart.
RepeatsNeedFailures == \A id \in EventIds : history[id] <= Cardinality(Projectors) + failures

\* UpdateLastEventID takes the GREATEST of the row and the daemon's position:
\* no instance, restarted or behind, ever moves the shared checkpoint back.
CheckpointNeverMovesBack == [][checkpoint' >= checkpoint]_allVars

\* The events before the first one that the summary table rejects: that one is
\* retried for ever, and everything behind it waits.
Unblocked ==
  {e \in events : \A f \in events : f.id <= e.id => f.aggregate_id \notin Rejected \ Unknown}

\* Once appends and failures stop, the read tables show every event that no
\* rejected event blocks and the newest of each coin, unless the daemon ended at
\* its start for want of a checkpoint.
ReadModelsConverge ==
  <>[] \/ \E p \in Projectors : jpc[p] = "dead"
       \/ \A e \in Unblocked :
            Projected(e) /\ (e.aggregate_id \notin Unknown => summary[e.aggregate_id] >= e.id)
================================================================================

------------------------------ MODULE EventStore ------------------------------
(***************************************************************************)
(* The write side: database sessions that run Processor.ProcessMarketData  *)
(* and, inside it, Store.AppendEvents.  A session is one call in flight;   *)
(* one aggregator goroutine has one at a time, and several instances (or   *)
(* the two pods of a rolling update) have several.                         *)
(*                                                                         *)
(* Rows carry the columns that decide control flow.  The payload is        *)
(* written once, with the row, so the row's id stands for it.  Statements  *)
(* run at READ COMMITTED: each sees the rows committed before it started.  *)
(***************************************************************************)
EXTENDS Integers, FiniteSetsExt, Sequences

CONSTANTS
  Coins,      \* aggregate ids
  Writers,    \* sessions that append
  LockKey,    \* the fnv64a hash of each aggregate id: collisions are allowed
  NoWriter,   \* an advisory lock that nobody holds
  MaxSerial   \* how many ids a BIGSERIAL column can issue (bound)

ASSUME StoreAssumption ==
  /\ Coins # {}
  /\ LockKey = [c \in Coins |-> LockKey[c]]
  /\ NoWriter \notin Writers
  /\ MaxSerial \in Nat

VARIABLES
  events,      \* committed rows of the events table
  outbox,      \* committed rows of the outbox_events table
  eventsSeq,   \* how many ids the sequence of events.id has issued
  outboxSeq,   \* how many ids the sequence of outbox_events.id has issued
  lock,        \* holder of each transaction-level advisory lock
  pc,          \* where each session is
  coin,        \* the aggregate it writes to
  version,     \* the version of the event it wants to append
  txEvents,    \* event rows its open transaction has inserted
  txOutbox     \* outbox rows its open transaction has inserted

tables == <<events, outbox, eventsSeq, outboxSeq>>
sessions == <<lock, pc, coin, version, txEvents, txOutbox>>
storeVars == <<tables, sessions>>

\* Stands for the local variables of a session that has no call in flight.
AnyCoin == CHOOSE c \in Coins : TRUE

LockKeys == {LockKey[c] : c \in Coins}
Event == [id : Nat \ {0}, aggregate_id : Coins, version : Nat]
OutboxRow == [id : Nat \ {0}, event_id : Nat \ {0}]
-----------------------------------------------------------------------------
(* Reading an aggregate *)

Rows(c) == {e \in events : e.aggregate_id = c}

\* The row LIMIT 1 returns when ORDER BY version has lost its DESC.
GetOldestEvent(c) == CHOOSE e \in Rows(c) : \A f \in Rows(c) : f.version >= e.version

GetLatestEvent(c) == CHOOSE e \in Rows(c) : \A f \in Rows(c) : f.version <= e.version

NewMarketAggregate == [version |-> 0, state |-> 0]

\* Every field is replaced by the event's payload, which the row's id stands for.
Apply(agg, e) == [version |-> e.version, state |-> e.id]

Hydrate(c) ==
  IF Rows(c) = {} THEN NewMarketAggregate ELSE Apply(NewMarketAggregate, GetLatestEvent(c))

ReuseVersion(agg) == agg.version

\* The version HandleCommand gives the new event.
HandleCommand(agg) == agg.version + 1

\* COALESCE(MAX(version), 0)
CurrentVersion(c) == Max({0} \cup {e.version : e \in Rows(c)})

\* A sequence with CACHE 2: sessions hand out ids from private blocks.
CachedNextVal(n) == IF n % 2 = 0 THEN n + 2 ELSE n

\* The id a BIGSERIAL column gives after n ids have been issued.
NextVal(n) == n + 1
-----------------------------------------------------------------------------
StoreInit ==
  /\ events = {} /\ outbox = {}
  /\ eventsSeq = 0 /\ outboxSeq = 0
  /\ lock = [k \in LockKeys |-> NoWriter]
  /\ pc = [w \in Writers |-> "idle"]
  /\ coin = [w \in Writers |-> AnyCoin]
  /\ version = [w \in Writers |-> 0]
  /\ txEvents = [w \in Writers |-> {}]
  /\ txOutbox = [w \in Writers |-> {}]

Goto(w, from, to) == pc[w] = from /\ pc' = [pc EXCEPT ![w] = to]

\* A session-level pg_advisory_lock would survive the end of the transaction.
EndTxKeepsLock(w) ==
  /\ pc' = [pc EXCEPT ![w] = "idle"]
  /\ txEvents' = [txEvents EXCEPT ![w] = {}]
  /\ txOutbox' = [txOutbox EXCEPT ![w] = {}]
  /\ coin' = [coin EXCEPT ![w] = AnyCoin]
  /\ version' = [version EXCEPT ![w] = 0]
  /\ UNCHANGED lock

\* The transaction of w ends: its private rows go and its lock is released.
EndTx(w) ==
  /\ pc' = [pc EXCEPT ![w] = "idle"]
  /\ lock' = [k \in LockKeys |-> IF lock[k] = w THEN NoWriter ELSE lock[k]]
  /\ txEvents' = [txEvents EXCEPT ![w] = {}]
  /\ txOutbox' = [txOutbox EXCEPT ![w] = {}]
  /\ coin' = [coin EXCEPT ![w] = AnyCoin]
  /\ version' = [version EXCEPT ![w] = 0]

ExpectedVersion(w) == version[w] - 1

Conflict(w) == ExpectedVersion(w) >= 0 /\ CurrentVersion(coin[w]) # ExpectedVersion(w)

\* The UNIQUE(aggregate_id, version) index holds, or will hold, the key of w's row.
Taken(w) ==
  \E e \in events \cup UNION {txEvents[u] : u \in Writers \ {w}} :
    e.aggregate_id = coin[w] /\ e.version = version[w]

-----------------------------------------------------------------------------
(* ProcessMarketData and AppendEvents, one action per statement *)

\* Load and hydrate the aggregate, handle the command, call AppendEvents.  An
\* empty coin id or a negative price is refused here and changes nothing.
ProcessMarketData(w, c) ==
  /\ Goto(w, "idle", "begin")
  /\ coin' = [coin EXCEPT ![w] = c]
  /\ version' = [version EXCEPT ![w] = HandleCommand(Hydrate(c))]
  /\ UNCHANGED <<tables, lock, txEvents, txOutbox>>

\* The advisory lock is not taken.
BeginUnlocked(w) ==
  /\ Goto(w, "begin", "locked")
  /\ UNCHANGED <<tables, lock, coin, version, txEvents, txOutbox>>

\* Begin, then wait for pg_advisory_xact_lock.
AcquireLock(w) ==
  /\ Goto(w, "begin", "locked")
  /\ lock[LockKey[coin[w]]] = NoWriter
  /\ lock' = [lock EXCEPT ![LockKey[coin[w]]] = w]
  /\ UNCHANGED <<tables, coin, version, txEvents, txOutbox>>

VersionMatches(w) ==
  /\ Goto(w, "locked", "checked")
  /\ ~Conflict(w)
  /\ UNCHANGED <<tables, lock, coin, version, txEvents, txOutbox>>

\* ErrConcurrencyConflict: the deferred rollback ends the transaction.
VersionConflict(w) ==
  /\ pc[w] = "locked"
  /\ Conflict(w)
  /\ EndTx(w)
  /\ UNCHANGED tables

\* An insert whose key another session holds waits for it or fails with 23505;
\* InsertNeverCollides says that neither ever happens.
InsertEvent(w) ==
  /\ Goto(w, "checked", "inserted")
  /\ eventsSeq < MaxSerial
  /\ ~Taken(w)
  /\ eventsSeq' = eventsSeq + 1
  /\ txEvents' = [txEvents EXCEPT ![w] =
       {[id |-> NextVal(eventsSeq), aggregate_id |-> coin[w], version |-> version[w]]}]
  /\ UNCHANGED <<events, outbox, outboxSeq, lock, coin, version, txOutbox>>

\* The sequence of events.id is exhausted: the INSERT fails.
InsertFails(w) ==
  /\ pc[w] = "checked"
  /\ eventsSeq = MaxSerial
  /\ EndTx(w)
  /\ UNCHANGED tables

\* The outbox row is forgotten, or written after the transaction.
SkipOutbox(w) ==
  /\ Goto(w, "inserted", "ready")
  /\ outboxSeq' = outboxSeq + 1
  /\ UNCHANGED <<events, outbox, eventsSeq, lock, coin, version, txEvents, txOutbox>>

InsertOutbox(w) ==
  /\ Goto(w, "inserted", "ready")
  /\ outboxSeq' = outboxSeq + 1
  /\ txOutbox' = [txOutbox EXCEPT ![w] =
       {[id |-> NextVal(outboxSeq), event_id |-> e.id] : e \in txEvents[w]}]
  /\ UNCHANGED <<events, outbox, eventsSeq, lock, coin, version, txEvents>>

\* The server commits.  The caller may still see an error; it only logs it.
Commit(w) ==
  /\ pc[w] = "ready"
  /\ events' = events \cup txEvents[w]
  /\ outbox' = outbox \cup txOutbox[w]
  /\ EndTx(w)
  /\ UNCHANGED <<eventsSeq, outboxSeq>>

\* Any statement fails, the context is cancelled or the process dies: the
\* transaction is rolled back.  Sequence values are not given back.
Abort(w) ==
  /\ pc[w] # "idle"
  /\ EndTx(w)
  /\ UNCHANGED tables

AppendEvents(w) ==
  \/ AcquireLock(w) \/ VersionMatches(w) \/ VersionConflict(w)
  \/ InsertEvent(w) \/ InsertFails(w) \/ InsertOutbox(w) \/ Commit(w)

StoreNext ==
  \E w \in Writers :
    \/ \E c \in Coins : ProcessMarketData(w, c)
    \/ AppendEvents(w)
    \/ Abort(w)

StoreSpec == StoreInit /\ [][StoreNext]_storeVars

\* A session that can run keeps running, and PostgreSQL grants a lock to its
\* waiters in the order in which they asked.
StoreFairness ==
  \A w \in Writers : WF_storeVars(AppendEvents(w)) /\ SF_storeVars(AcquireLock(w))

FairStoreSpec == StoreSpec /\ StoreFairness
-----------------------------------------------------------------------------
(* Properties *)

\* Every table and session variable holds a value of its type.
StoreTypeOK ==
  /\ events \subseteq Event /\ outbox \subseteq OutboxRow
  /\ eventsSeq \in 0..MaxSerial /\ outboxSeq \in Nat
  /\ lock \in [LockKeys -> Writers \cup {NoWriter}]
  /\ pc \in [Writers -> {"idle", "begin", "locked", "checked", "inserted", "ready"}]
  /\ coin \in [Writers -> Coins] /\ version \in [Writers -> Nat]
  /\ txEvents \in [Writers -> SUBSET Event]
  /\ txOutbox \in [Writers -> SUBSET OutboxRow]

\* The committed events of each aggregate have the versions 1, 2, ..., n, each
\* exactly once, whatever sessions AppendEvents interleaves or aborts.
GaplessVersions ==
  \A c \in Coins :
    /\ {e.version : e \in Rows(c)} = 1..CurrentVersion(c)
    /\ \A e, f \in Rows(c) : e.version = f.version => e = f

\* Within an aggregate a later version has a larger id, so a reader that follows
\* ids (GetNewEvents) sees the aggregate's events in version order.
IdsFollowVersions ==
  \A e, f \in events : e.aggregate_id = f.aggregate_id /\ e.version < f.version => e.id < f.id

\* The advisory lock and the version check leave nothing for the unique index to
\* catch: AppendEvents never meets error 23505 and never waits for another
\* session's row.
InsertNeverCollides == \A w \in Writers : pc[w] = "checked" => ~Taken(w)

\* A committed event has its outbox row and an outbox row has its event: the two
\* inserts of AppendEvents take effect together or not at all.
OutboxIsTransactional ==
  /\ \A e \in events : \E o \in outbox : o.event_id = e.id
  /\ \A o \in outbox : \E e \in events : e.id = o.event_id
  /\ \A o, q \in outbox : o.event_id = q.event_id => o = q

\* The log of an aggregate as its rows encode it: the id of each version.
LogOfRows(rows, n) == [v \in 1..n |-> (CHOOSE e \in rows : e.version = v).id]
LogOf(c) == LogOfRows(Rows(c), CurrentVersion(c))

Log == INSTANCE EventLog WITH log <- [c \in Coins |-> LogOf(c)], Ids <- 1..MaxSerial

\* The transactions of AppendEvents implement an atomic append to one append-only
\* log per aggregate: a commit appends one event, every other step changes nothing.
ImplementsLog == Log!Spec

\* Every call of AppendEvents returns: no session waits for an advisory lock for
\* ever, and none is left holding one.
AppendTerminates == \A w \in Writers : pc[w] # "idle" ~> pc[w] = "idle"
=============================================================================

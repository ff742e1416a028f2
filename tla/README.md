# Verification of the market-data CQRS backend

TLA+ models of the Go service in `src/`, checked by TLC on small instances and
proved by TLAPS for every value of their constants.

## 1. The system

One process (`cmd/server/main.go`) polls CoinGecko, appends what it fetches to
an event log in PostgreSQL, relays the log to Redis Pub/Sub through an outbox,
projects it into read tables, and answers gRPC and GraphQL queries through a
Redis cache. Nothing elects a leader: every instance runs every daemon, and
during the rolling update of `k8s/app.yaml` two instances overlap.

| Component | State | Operations | Talks to |
|---|---|---|---|
| Aggregator (`internal/aggregator`) | none between polls | `Start`, `fetchAndProcess`, `ProcessMarketData` | CoinGecko client, event store |
| CoinGecko client (`coingecko/client.go`) | circuit breaker | `FetchMarketData`, `executeWithRetry`, `Allow`, `RecordFailure`, `RecordSuccess` | external API |
| Market aggregate (`internal/domain`) | version, last payload | `Apply`, `HandleCommand` | |
| Event store (`eventstore/store.go`) | `events`, `outbox_events`, their id sequences, advisory locks | `AppendEvents`, `GetLatestEvent`, `LoadEvents`, `Subscribe` | PostgreSQL, Redis |
| Outbox publisher (`eventstore/outbox.go`) | row locks of the open batch | `Start`, `publishBatch` | PostgreSQL, Redis channel |
| Projector (`internal/projection`) | position, checkpoint row, `market_summaries`, `price_history` | `Start`, `Project`, `GetNewEvents`, `UpdateLastEventID`, `PrunePriceHistory` | PostgreSQL, cache |
| Query cache (`internal/query`, `internal/cache`) | Redis entries, flights of the singleflight group | `GetMarketSummary`, `GetMarketSummaries`, `GetPriceHistory`, `GetPriceHistories` | Redis, read tables |
| Dataloader (`api/graphql/dataloader.go`) | keys, listeners, results of one request | `Load`, `dispatch` | query cache |
| GraphQL execution (`generated.go`, `schema.resolvers.go`) | field values, errors | root fields, list elements, response | dataloader, query service |
| Subscriptions (`Subscribe`, `StreamMarketUpdates`, `MarketPriceUpdated`) | bounded channels | reconnect, forward, filter | Redis channel |
| Rate limiter (`api/handler.go`) | limiter per client | `GetLimiter`, sweeper | |
| Migrations (`internal/database`) | `schema_migrations` | `RunMigrations`, `RollbackMigrations` | PostgreSQL |
| Start and shutdown (`cmd/server/main.go`) | context, wait group, servers | `handleGracefulShutdown` | all daemons |

What makes it hard: transactions interleave and abort, sequence ids are drawn
before commit, Redis takes no part in any transaction, a process may stop
between any two statements, an error may be reported for a statement that took
effect, and two instances of each daemon may run at once. `PROJECT.json` lists
each such hazard at its line.

## 2. Modules

| Module | Models |
|---|---|
| `EventStore` | the sessions that run `ProcessMarketData` and `AppendEvents`, one action per SQL statement |
| `Replay` | `LoadEvents`, the whole history of an aggregate |
| `EventLog` | the abstract promise: one atomic append-only log per aggregate |
| `OutboxPublisher` | `EventStore` composed with any number of outbox daemons and the Redis channel |
| `Subscription` | `OutboxPublisher` composed with one subscriber: its link to Redis, its two goroutines and its client |
| `Projector` | `EventStore` composed with any number of projector daemons, the checkpoint and the read tables |
| `CoinGeckoClient` | the fetch loop with retry and circuit breaker |
| `QueryCache` | the requests for one cache key on several instances, the projector's change and invalidation of the row, and a read replica that lags |
| `HistoryCache` | the callers of the multi-key `GetPriceHistories`, with a read replica that lags |
| `RateLimiter` | `GetLimiter`, the middleware and the sweeper |
| `Gateway` | `RateLimiter` composed with `HistoryCache`: a request from the middleware to its histories |
| `Dataloader` | the calls of `Load` and the `dispatch` goroutines of one GraphQL request |
| `GraphQLExecutor` | `Dataloader` composed with the concurrent execution of the query's fields |
| `Migrations` | `RunMigrations` and `RollbackMigrations` of several processes on one database |
| `Server` | `Migrations` composed with the server processes, from `run()` to their exit |
| `*Proofs`, `MessageSequences` | theorems and proofs (section 4) |
| `MC*` | values of the constants for TLC |

**Event store.** A session is one call in flight. `ProcessMarketData` reads the
latest event and computes the next version; `AcquireLock`, `VersionMatches` or
`VersionConflict`, `InsertEvent`, `InsertOutbox` and `Commit` are the statements
of `AppendEvents`. Uncommitted rows are private (`txEvents`, `txOutbox`).
`Abort` is any failed statement, cancelled context or crash; as in PostgreSQL it
gives no sequence value back. The payload of an event is written once with its
row and is represented by the row's id. Advisory-lock keys are a function
`LockKey` of the aggregate that need not be injective, since the code hashes.
`~Taken` in `InsertEvent` stands for the unique index; that it never delays or
refuses an insert is the invariant `InsertNeverCollides`.

**Outbox.** `SelectBatch` locks the first unlocked rows, `Publish` sends one
message, `PublishFails` breaks the loop and may have delivered the message all
the same, `DeleteAndCommit` deletes what was published, `RollbackBatch` is every
failure that undoes the transaction. `channel` records all that Redis received.

**Subscription.** `accepted` is what Redis has sent over the link. The goroutine
of `Subscribe` (`Connect`, `TakeMessage`, `SendEvent`, `SeeClosed`, `Reconnect`,
`EndFeed`) moves messages from the Redis client's buffer `inbox` through `held`
to `feed`; the forwarder (`TakeEvent`, `SendSummary`, `EndForwarder`), which is
the loop of `StreamMarketUpdates` or the goroutine of `MarketPriceUpdated`,
moves the wanted ones through `carried` to `out`; `ClientReads` delivers.
`Deliver` says what a publication does to the subscriber: nothing when the link
is down or the inbox full, as with Redis Pub/Sub and go-redis.

**Projector.** `Start` loads the checkpoint, `Poll` fetches a batch, `Skip`
passes an event that `deserializeEvent` refuses (coins in `Unknown`),
`UpdateMarketSummary`, `AddPriceHistory` and `Invalidate` are the three steps of
`Project`, `Break` leaves the loop, `UpdateLastEventID` saves the position.
`Rejected` coins have payloads that the columns refuse at every attempt.
`Restart` is a stop or crash anywhere. `market_summaries` holds the id of the
event shown and `price_history` counts the rows written for each event.

**CoinGecko client.** One goroutine sends all requests. The breaker compares
time only with its cooldown, so time is the flag `cooled`. Two observers:
`streak` counts retryable failures since the last success, `unreported` says
that a half-open probe ended with a status that the breaker is not told of.

**Query cache.** `GetMisses`, `LeadFlight` or `JoinFlight`, the double check,
`QueryRow`, `Set` and `Land` follow one request through `sf.Do`. `ChangeRow` and
`Delete` are the projector's, which writes to the write pool; `QueryRow` reads the
read pool (`main.go:64`), which shows `replica`, and `Replicate` brings that up to
the row one change at a time. A key that `Project` does not delete (those of
`GetMarketSummaries` and `GetPriceHistory`) behaves like one whose every
`Delete` fails. The row is assumed to exist; a missing row is answered with an
error, which is never cached, so every flight for it reaches the table.

**Histories and rate limiter.** `HistoryCache` follows a caller through its
first look at every coin, the flight for the set of its misses (that set is the
singleflight key), the second look, one query and one `Set` per coin. Histories
are abstracted to the number of changes seen. `filler` observes under which key
an entry was set. `RateLimiter` has one action per critical section of
`GetLimiter`, with the sweeper between any two; time is an age with the values
the code tells apart. `Gateway` lets each request pass the limiter once and then
read.

**GraphQL.** `LoadCached` and `LoadListens` are the locked part of `Load`,
`Receive` and `ContextDone` its `select`. A dispatch goroutine, named after the
call that started it, runs `TakeKeys`, then for each limit `QueryGroup`, for
each key of the group `CachePoints` and for each listener `Send`, which waits
while the channel's one slot is full. `want` is what the calls ask for, chosen
at the start; `good` observes the keys that some query has answered.
`GraphQLExecutor` adds the root fields (`Resolve`, `FinishField`), their
elements, which call `Load`, and `Respond`; a null in a required field makes the
enclosing value null.

**Processes.** `Migrations` takes each version through the check outside a
transaction and then through the transaction one statement at a time:
`CreateTables` or `TablesFound`, `CreateIndexes`, `InsertRow` for an upgrade,
`DropTables`, `DeleteRow` for a rollback, and `CommitVersion`. `work` is what the
open transaction has changed and nobody else sees yet. Each statement waits for
what PostgreSQL makes it wait for: `CREATE TABLE IF NOT EXISTS` looks at a table
that it can see, also one that is being dropped, without a lock; `CREATE INDEX IF
NOT EXISTS` locks its table until the commit (`Shares`); `DROP TABLE` waits for
those locks; a row of `schema_migrations` waits for another transaction's
uncommitted insert or delete (`RowLocked`). The tables of one version are one
object, and `Indexed` are the versions that index each of them. `overlapped` and
`swallowed` observe that an upgrade ran together with a rollback and that an
error was taken for a missing table. `Server` follows `run()`: pools and clients
are opened one by one, migrations run, daemons and servers start, a signal
cancels, the daemons are awaited, the servers are stopped under their timeouts
and the deferred closes run; every step may fail, and a process may be killed
and started again.

## 3. Runs

| Run | Properties | Bounds | Distinct states |
|---|---|---|---|
| `event_store` | `GaplessVersions`, `InsertNeverCollides`, `OutboxIsTransactional`, `HydrationEqualsReplay`, `ImplementsLog`, `AppendTerminates` | 3 coins, two with one lock key, 2 sessions, 3 ids | 46,976 |
| `outbox` | `NoEventLost`, `DuplicatesNeedFaults`, `EventuallyPublished` | 1 coin, 1 session, 3 ids, 2 daemons, batches of 2, 2 failures | 105,800 |
| `projector` | `CheckpointCoversProjected`, `ProjectedIsPrefix`, `RepeatsNeedFailures` | 2 coins (one undecodable), 1 session, 3 ids, 2 daemons, batches of 2, 1 failure | 316,080 |
| `projector_single` | `SummaryNotBehindCheckpoint`, `ReadModelsConverge` | 2 coins (one rejected), 1 session, 1 daemon, 3 failures | 86,038 |
| `coingecko_client` | `CounterIsStreak`, `FetchReturns`, `ClosesWhenHealthy` | the code's threshold 3 and 3 attempts, every answer | 154 |
| `query_cache` | `OneQueryPerSurge`, `CacheConverges` | 3 requests on 2 instances, 2 row changes, a lagging replica, 2 failures | 74,781 |
| `live_updates` | `FeedIsExact`, `PublishedInVersionOrder`, `CommitReachesClient`, `SubscriptionEnds` | 2 coins (one wanted), 1 session, 2 ids, 1 daemon without failures, buffers of 1, 1 lost link | 151,188 |
| `graphql` | `ResponseFollowsResolvers`, `QuietAfterResponse`, `DispatchEnds`, `QueryAnswered` | a list and a nullable field, 3 calls, 2 coins, 2 limits | 199,670 |
| `server` | `ServerTypeOK`, `RecordMatchesSchema`, `AppliedWithoutGap`, `RollbackLeavesNothing`, `DaemonsKeepTheirPools`, `CallsKeepTheirPool`, `ShutdownCompletes`, `EveryInstanceServes` | 1 instance, `migrate up` and `migrate down`, 2 versions (the first indexed, the second referring to it and not indexed), 2 daemons, 1 HTTP request, 1 stream, 1 failure on each side | 211,883 |
| `gateway` | `AnswerIsComplete`, `ClientKeepsBucket`, `QueryOncePerKey`, `HistoriesConverge`, `RequestsAnswered` | 1 client, 2 requests for overlapping batches, 2 limiters, a burst of 1, one coin with rows and one without, 1 failure | 192,498 |

The bounds (`MaxSerial`, `MaxFaults`, `MaxFailures`, `MaxUpdates`,
`MaxCacheFaults`, `MaxRows`, `MaxHistoryFaults`, `MaxLinkFaults`,
`MaxMigrationFaults`, `MaxServerFaults`) cap counters that the code leaves open.
Several coins separate what is per aggregate from what is global, and a shared
lock key what is per key; two sessions or daemons race; three ids give one
aggregate two versions beside another's event and make a batch of two overflow;
buffers of one fill at once; of the two migrations the first is indexed like 001
and 003, the second has no index like 004 and refers to an earlier one like 003; one failure per repeated effect is what the
counting properties (`1 + faults`) tell apart. The proofs remove the bounds from
every safety property. Only `projector` uses symmetry (of the daemons);
it checks invariants, for which that is sound. Deadlock is checked everywhere but
in the CoinGecko runs, where cancellation ends the service, and in `graphql`,
where the request ends.

`live_updates` has no undecodable event and no failing daemon, which would take
TLC beyond its time; `FeedIsExact` is proved with both.

Some properties hold only up to what the code gives up on, and say so.
`ReadModelsConverge` promises the read tables everything before the first event
that a column rejects: the daemon retries such an event for ever and nothing
behind it is projected. It also excepts a daemon that ended because it could not
load its checkpoint, as `RollbackLeavesNothing` excepts a rollback that took an
error for a missing table. `RecordMatchesSchema` promises less once an upgrade
overlaps a rollback (below). `CacheConverges` promises the current row only
eventually: a flight may set a value that it read before an invalidation, or
after it from a replica that lags, and that value stays until the TTL ends.
`HistoriesConverge` says as much of the histories, where each request comes only
once. `ShutdownCompletes` says that a shutdown ends, not when. `CommitReachesClient` excepts what Redis
got while the link was down or the buffer full: Pub/Sub keeps nothing.

**Disagreements.** Two runs state what a comment or test says and show a
behaviour of the code that breaks it; `PROJECT.json` quotes the lines.

| Run | Property | What happens |
|---|---|---|
| `projector_skipped` | `CheckpointCoversProjected` | two sessions commit against the order of their ids and the checkpoint passes the one that commits late |
| `coingecko_stuck` | `ProbesAgain` | a half-open probe answered with another 4xx status keeps its slot for ever |

Read off the models without a run of their own, against the repository's
`README.md`:

- line 62, version collisions from 15% to 0%: the version is hydrated before the
  lock is taken, so a session that waited is refused (`VersionConflict`) and its
  observation is dropped;
- line 60, zero duplicates: a message is published before the transaction that
  deletes its row commits, so a failure in between publishes it again. Proved
  instead: no duplicates while nothing fails, and never more than one per failure;
- line 78, termination within 5 seconds: `wg.Wait` has no limit, and after it come
  up to 10 seconds for `httpServer.Shutdown` and 5 for the gRPC server
  (`main.go:291-318`). Checked instead: the shutdown ends;
- line 194, "inside transactions": `Project` writes the summary and the history
  row as two statements, so a reader can see the first without the second.

One more, of the code alone: an upgrade of 004 that finds its table there (another
upgrade has committed it after this one's check) holds no lock on
`projector_checkpoints`, which has no index. If a rollback that is dropping the
table commits before the upgrade's `INSERT`, the version ends up recorded without
its table, and no later upgrade repairs that. In 002 `market_summaries` has no
index either, and the same can happen up to the index on `price_history`. The
first conjunct of `RecordMatchesSchema` says that 001 and 003 are safe from it.

**Fairness.** `AppendEvents` steps are weakly fair (a session with a
runnable statement runs) and the lock is strongly fair, because PostgreSQL
queues waiters. Outbox and projector daemons are weakly fair in the steps they
take when nothing fails, because their loops wait only on timers; failures are
never fair and are finitely many. The CoinGecko loop and time are weakly fair,
because every request has a timeout. In the caches a started request, the
projector's delete, the expiry of an entry and the replication are weakly fair
(every `Set` has a TTL). Both goroutines of a subscription, its reading client
and the reconnection of the Redis client are weakly fair. In a GraphQL request
every goroutine that can run does: the dispatch's sleep ends and its query has a
timeout of its own. A server process that can take a step of `run()`, a daemon
that was told to stop, a running query and a migration go on, and Kubernetes
starts a process that has exited. Appends, requests, subscriptions, signals and
changes of a row are never forced.

## 4. Proofs

The theorems hold for every set of aggregates, sessions, daemons, instances,
callers and requests and every bound. The named assumptions of the modules
(`StoreAssumption`, `PublisherAssumption`, `SubscriptionAssumption`,
`ProjectorAssumption`, `ClientAssumption`, `CacheAssumption`,
`LoaderAssumption`, `ExecutorAssumption`, `LimiterAssumption`,
`HistoryAssumption`, `NoneAssumption`, `GatewayAssumption`, `MigrationAssumption`,
`ServerAssumption`) say that the constants have their types, that capacities,
limits, threshold and attempts are positive, and that a migration refers only to
earlier ones; which migrations have indexes is left open. Some theorems need more, and say so in their statement:
`SingleWriter`, `SingleDaemon` and `SinglePublisher` below, and for
`FailuresLimitRepeats`, which counts daemons, that they are finitely many.

**`EventStoreProofs`.** `StoreInv` adds to types and gapless versions what the
sessions know: a session beyond `AcquireLock` holds the lock of its aggregate's
key, one beyond the version check has the version after the current one, its
private row carries that version and an id above every committed id of its
aggregate, and no id exceeds the sequence. Mutual exclusion by the lock
(`LockExcludes`) keeps a commit from disturbing another session's knowledge,
even when keys collide. It gives `TypeCorrect`, `VersionsAreGapless`,
`IdOrderIsVersionOrder` and `UniqueIndexNeverFires`. With the uniqueness of ids
(`FreshIds`), `StoreImplementsLog` maps every commit to one append of `EventLog`
and every other step to a stutter. `EventAndOutboxRowCommitTogether` needs that
a session's private outbox row is that of its private event. `HydrationIsReplay`
has two parts: `Apply` replaces every field of the aggregate, so the replay ends
with what its last event alone gives (`ReplayIsLastEvent`), and since versions
are gapless the last event of `LoadEvents` is the row with the current version
(`LoadedHistory`).

**`OutboxPublisherProofs`.** `PipelineInv` extends `StoreInv` over the daemons:
batches are disjoint parts of the outbox, what is marked sent is in the channel,
and an event that is in the channel without a failure is marked sent or gone
from the outbox. It gives `OutboxTypeCorrect`, `OutboxLosesNothing` and
`NoDuplicatesWithoutFaults`. `FailuresLimitDuplicates` counts: `Counted` says
that an event was received at most `1 + faults` times, and at most `faults` times
while its row still waits, so that the next copy is covered.
`VersionOrderReachesRedis` assumes `SinglePublisher`, one daemon: `OrderInv` says
that the ids of outbox rows follow the versions of an aggregate, because both
are drawn under its lock, and that a batch contains every earlier version of its
rows that is still in the outbox. Two daemons skip each other's locked rows and
keep no order. `OutboxImplementsLog`: the daemons leave the events table alone, so
the refinement of `EventLog` survives them.

**`SubscriptionProofs`, `MessageSequences`.** `LiveUsesOutbox`: a system with a
subscriber is one of sessions and outbox daemons, so their theorems hold in it
(`LiveLosesNothing`, `LiveVersionOrder`, `LiveImplementsLog`). `LiveInv` adds the types of the
buffers, which goroutine runs in which state of the context and of the link, and
that what came over the link was published; it gives `LiveTypeCorrect`.
`FeedLosesNothing` proves `FeedIsExact` from `Exact`: the concatenation of all
buffers between the link and the client is a subsequence of what came over the
link that leaves out nothing wanted, and up to the forwarder it has only wanted
events. A step hands a message on (the concatenation stays), takes one out
that nobody wants, or appends one at both ends. `MessageSequences` has the lemmas
on sequences for the three.

**`ProjectorProofs`.** `ProjectorUsesStore`: sessions with daemons around them are
sessions, so the store's theorems hold and what the daemons poll is an
append-only log (`ProjectorReadsLog`). `ProjectorTypeCorrect` and
`CheckpointIsMonotonic` hold for any number of sessions. `NothingLeftBehind` and `ProjectionFollowsTheLog`
assume `SingleWriter`: at most one session writes at a time, which is what one
aggregator goroutine does; the run `projector_skipped` shows that the
assumption is needed. `ProjectorInv` says that rows become visible in the
order of ids, that everything up to a daemon's position is projected, that a
batch has no gap after the position, and that the record being invalidated has
its history row. `SummariesKeepUp` assumes `SingleDaemon` as well: `SummaryInv`
says that a running daemon is never behind the checkpoint and that every event
up to its position, and the one it has just upserted, is shown. A second daemon
that is behind writes older events over newer ones. `FailuresLimitRepeats`, for any
number of sessions, counts the rows of an event in `price_history`: `Counted` says
that there are at most as many as failures so far and daemons past the event
together, where a daemon is past an event that is not ahead of its position or
that it has just inserted. `Ahead` says that a batch is ahead of the position, so
an insert makes one more daemon pass. An insert reported as failed may leave a row
without the daemon passing, and a restart forgets the position; either is itself
a failure.

**`ComponentProofs`.** Four components that stand alone.
*CoinGecko client:* `BreakerCountsFailures` and `ClientTypeCorrect`, from the
types, the property itself and the fact that a backoff follows an attempt that
was not the last. *Query cache:* `SurgeCostsOneQuery` and `CacheTypeCorrect`;
`QueryIsUsed` makes the first inductive: a query beyond the failures so far is
still under way or has left an entry, so a flight that is about to query finds
the entry or follows a failure that pays for its query. *Dataloader:*
`EveryCallHasADispatch`, `DispatchNeverWaits`, `FailuresAreNotCached` and
`LoaderTypeCorrect`; `LoaderInv` adds that `dl.keys` are the keys of the
registered calls and that a dispatch sleeps only while there are some
(`KeysAreWanted`), that a channel is registered in one place and empty there
(`RegisteredOnce`), and that what a dispatch distributes without an error has
been answered by a query (`DistributesGood`). *Execution:* `ExecutorUsesLoader`
carries these over to a query; `ResponseIsExact` and `ResponseLeavesNoWork` follow
from `ErrorsAreExact` (which errors and nulls there are so far, for calls, fields
and the response) and
`WorkIsAwaited` (all that a dispatch has to do is awaited by a call).

**`GatewayProofs`.** Every step of the gateway is a step, or no step, of each
part (`GatewayStep`). `BucketIsKept` rests on `SeenInTime`: an entry's `lastSeen`
is as recent as the client's last request, or a request is on its way to write
it. `AnswersAreComplete` rests on `MapsAreComplete`: what a caller asked for is
in its map, missed, or still to be looked up. `SecondLookSparesQueries` proves
`QueryOncePerKey` from `SecondLook`: an entry that a flight has set is there until
it expires, and a coin that a flight's second look has missed has no entry of
the flight's key, since a key has one leader at a time.

**`ServerProofs`.** `MigrationInv` says where each migrating process stands: an
upgrade has a suffix of the files before it and has applied the rest, a rollback
has a prefix that covers what is applied, until the two kinds overlap. Its part
`TransactionInv` is about open transactions: changes belong to one (`WorkInside`).
`TableLocks`, which every overlap leaves intact: one transaction at most creates or
drops the tables of a version, nobody drops tables that the `CREATE INDEX` of
another holds, those tables are there or about to be, and who drops such tables
drops their row. `StatementsSeen`, until upgrades and rollbacks overlap: tables
that an upgrade found, and tables or rows that a rollback did not find, are still
so at its commit. The lemmas `StatementKeepsTransactions`,
`UpgradeCommitKeepsTransactions` and `RollbackCommitKeepsTransactions` show that
neither a statement nor a commit of one process takes away what another relies
on. It gives `SchemaIsRecorded`, `NoVersionIsSkipped` and `RollbackIsComplete`. `ProcessInv`
ties resources, daemons and calls of an instance to the place that `run()` has
reached and gives `ServerTypeCorrect`, `DaemonsHavePools` and `CallsHavePool`.

These invariants are proved and not listed in a run: `StoreTypeOK`,
`IdsFollowVersions`, `OutboxTypeOK`, `ProjectorTypeOK`,
`CheckpointNeverMovesBack`, `ClientTypeOK`, `CacheTypeOK`, `LoaderTypeOK`,
`NoCallStranded`, `SendNeverBlocks`, `PointsComeFromQueries`, `ExecutorTypeOK`,
`LimiterTypeOK`, `HistoryTypeOK`, `LiveTypeOK`.

Only model-checked are the liveness properties, which are out of the prover's
reach; every safety property that a passing run checks has a theorem.

## 5. Not modelled

- gRPC query handlers and interceptors: each calls the query service once and
  maps its result; the interceptors have no state but one token bucket.
- Configuration, logging, tracing, metrics and the health check.
- Generated gRPC code and models; of `generated.go` introspection, scalar fields,
  arguments, complexity and deferral.
- Which rows the pruner deletes: it is a daemon in `Server` and a change of rows
  in `HistoryCache`.
- The age of an observation (`aggregator/service.go:55`): a delayed instance may
  append an older observation as a newer version, and the code does not compare
  them.

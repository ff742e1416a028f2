-------------------------------- MODULE Server --------------------------------
(***************************************************************************)
(* The server process, from run() to its exit, composed with the schema    *)
(* migrations it applies at its start.  Instances start, serve, are told   *)
(* to stop, fail and are started again; instances share nothing but the    *)
(* database, which cmd/migrate may change meanwhile.  An instance has its  *)
(* two connection pools and its Redis client, the background daemons of    *)
(* startBackgroundDaemons, and calls: HTTP requests and gRPC calls, which  *)
(* use the read pool while they run a query.                               *)
(***************************************************************************)
EXTENDS Migrations, Sequences

CONSTANTS
  Instances,        \* server processes; the other upgrades are cmd/migrate up
  SkipMigrations,   \* instances configured with SKIP_MIGRATIONS=true
  Daemons,          \* outbox publisher, projector, aggregator, pruner
  Projector,        \* the one whose Start may return before it is told to
  Requests,         \* slots for HTTP requests
  Rpcs,             \* slots for gRPC calls and streams
  MaxServerFaults   \* how many failures and kills there may be (bound)

Calls == Requests \cup Rpcs

ASSUME ServerAssumption ==
  /\ Instances \subseteq Ups /\ SkipMigrations \subseteq Instances /\ Projector \in Daemons
  /\ Requests \cap Rpcs = {} /\ MaxServerFaults \in Nat

VARIABLES
  spc,            \* where run() is
  open,           \* pools and clients that are open
  running,        \* daemons the WaitGroup counts
  cancelled,      \* cancel() has been called
  listening,      \* ListenAndServe runs
  calls,          \* state of each call
  timedOut,       \* observed: a shutdown timeout has expired
  serverFaults    \* failures and kills so far

serverVars == <<spc, open, running, cancelled, listening, calls, timedOut, serverFaults>>
systemVars == <<migrationVars, serverVars>>

\* The order in which initDatabases opens them.
Resources == <<"write", "read", "redis">>
AllResources == {"write", "read", "redis"}

NextResource(i) == Resources[Cardinality(open[i]) + 1]

NoCalls == [c \in Calls |-> "none"]
-----------------------------------------------------------------------------
ServerInit ==
  /\ MigrationInit
  /\ spc = [i \in Instances |-> "exited"]
  /\ open = [i \in Instances |-> {}]
  /\ running = [i \in Instances |-> {}]
  /\ cancelled = [i \in Instances |-> FALSE]
  /\ listening = [i \in Instances |-> FALSE]
  /\ calls = [i \in Instances |-> NoCalls]
  /\ timedOut = [i \in Instances |-> FALSE]
  /\ serverFaults = 0

ServerFault == serverFaults < MaxServerFaults /\ serverFaults' = serverFaults + 1

At(i, pc) == spc[i] = pc

Goto(i, pc) == spc' = [spc EXCEPT ![i] = pc]

\* The process is started: run() makes its context and calls initDatabases.
StartProcess(i) ==
  /\ At(i, "exited")
  /\ Goto(i, IF i \in SkipMigrations THEN "opening" ELSE "migrating")
  /\ UNCHANGED <<migrationVars, open, running, cancelled, listening, calls, timedOut, serverFaults>>

\* RunMigrations, step by step.
RunMigrationStep(i) ==
  /\ At(i, "migrating")
  /\ MigrationStep(i)
  /\ UNCHANGED serverVars

ReturnFromMigrations(i) ==
  /\ At(i, "migrating")
  /\ Leave(i)
  /\ Goto(i, IF mpc[i] = "done" THEN "opening" ELSE "exited")
  /\ UNCHANGED <<open, running, cancelled, listening, calls, timedOut, serverFaults>>

\* The next pool or client is created and answers its ping.
Open(i) ==
  /\ At(i, "opening")
  /\ open' = [open EXCEPT ![i] = @ \cup {NextResource(i)}]
  /\ Goto(i, IF open'[i] = AllResources THEN "starting" ELSE "opening")
  /\ UNCHANGED <<migrationVars, running, cancelled, listening, calls, timedOut, serverFaults>>

\* Only what failed last is closed.
OpenFailsKeepsEarlier(i) ==
  /\ At(i, "opening")
  /\ ServerFault
  /\ Goto(i, "exited")
  /\ UNCHANGED <<migrationVars, open, running, cancelled, listening, calls, timedOut>>

\* A DSN cannot be parsed, a pool not created, or a ping fails: initDatabases closes
\* this one and those before it, and run() returns the error.
OpenFails(i) ==
  /\ At(i, "opening")
  /\ ServerFault
  /\ open' = [open EXCEPT ![i] = {}]
  /\ Goto(i, "exited")
  /\ UNCHANGED <<migrationVars, running, cancelled, listening, calls, timedOut>>

StartBackgroundDaemons(i) ==
  /\ At(i, "starting")
  /\ running' = [running EXCEPT ![i] = Daemons]
  /\ Goto(i, "listening")
  /\ UNCHANGED <<migrationVars, open, cancelled, listening, calls, timedOut, serverFaults>>

\* startServers: both servers run and run() waits for a signal.
StartServers(i) ==
  /\ At(i, "listening")
  /\ listening' = [listening EXCEPT ![i] = TRUE]
  /\ Goto(i, "serving")
  /\ UNCHANGED <<migrationVars, open, running, cancelled, calls, timedOut, serverFaults>>

\* The gRPC port is taken: run() returns and leaves the daemons running.
StartServersFails(i) ==
  /\ At(i, "listening")
  /\ ServerFault
  /\ Goto(i, "returning")
  /\ UNCHANGED <<migrationVars, open, running, cancelled, listening, calls, timedOut>>

\* ListenAndServe fails; the error is logged and the process goes on without HTTP.
ListenAndServeFails(i) ==
  /\ At(i, "serving") /\ listening[i]
  /\ ServerFault
  /\ listening' = [listening EXCEPT ![i] = FALSE]
  /\ UNCHANGED <<migrationVars, spc, open, running, cancelled, calls, timedOut>>

\* The checkpoint cannot be read: the projector returns and is not started again.
ProjectorReturns(i) ==
  /\ Projector \in running[i]
  /\ ServerFault
  /\ running' = [running EXCEPT ![i] = @ \ {Projector}]
  /\ UNCHANGED <<migrationVars, spc, open, cancelled, listening, calls, timedOut>>

\* Requests arrive until Shutdown closes the listener, RPCs until GracefulStop does.
Accepts(i, c) ==
  IF c \in Requests THEN listening[i] /\ spc[i] \in {"serving", "waiting"}
  ELSE spc[i] \in {"serving", "waiting", "draining"}

SetCall(i, c, s) ==
  /\ calls' = [calls EXCEPT ![i][c] = s]
  /\ UNCHANGED <<migrationVars, spc, open, running, cancelled, listening, timedOut, serverFaults>>

Accept(i, c) == Accepts(i, c) /\ calls[i][c] = "none" /\ SetCall(i, c, "active")

\* Close of the read pool has been called: it gives out no more connections.
Closing(i) == At(i, "returning") /\ "redis" \notin open[i]

\* A query of the call takes a connection of the read pool.
Query(i, c) ==
  /\ calls[i][c] = "active"
  /\ "read" \in open[i] /\ ~Closing(i)
  /\ SetCall(i, c, "querying")

QueryEnds(i, c) == calls[i][c] = "querying" /\ SetCall(i, c, "active")

\* The handler returns; nothing forces one whose client is slow, or a stream, to.
CallEnds(i, c) == calls[i][c] = "active" /\ SetCall(i, c, "none")

\* SIGINT or SIGTERM: the context is cancelled.
Signal(i) ==
  /\ At(i, "serving")
  /\ cancelled' = [cancelled EXCEPT ![i] = TRUE]
  /\ Goto(i, "waiting")
  /\ UNCHANGED <<migrationVars, open, running, listening, calls, timedOut, serverFaults>>

\* A daemon sees the cancelled context and returns.
DaemonStops(i, d) ==
  /\ cancelled[i] /\ d \in running[i]
  /\ running' = [running EXCEPT ![i] = @ \ {d}]
  /\ UNCHANGED <<migrationVars, spc, open, cancelled, listening, calls, timedOut, serverFaults>>

\* The shutdown does not wait for the daemons.
WaitForNoDaemon(i) ==
  /\ At(i, "waiting")
  /\ Goto(i, "draining")
  /\ UNCHANGED <<migrationVars, open, running, cancelled, listening, calls, timedOut, serverFaults>>

\* wg.Wait() returns; Shutdown closes the HTTP listener.
WaitForDaemons(i) ==
  /\ At(i, "waiting") /\ running[i] = {}
  /\ Goto(i, "draining")
  /\ UNCHANGED <<migrationVars, open, running, cancelled, listening, calls, timedOut, serverFaults>>

Idle(i, C) == \A c \in C : calls[i][c] = "none"

\* Shutdown returns although requests are left.
ShutdownHTTPAtOnce(i) ==
  /\ At(i, "draining")
  /\ listening' = [listening EXCEPT ![i] = FALSE]
  /\ Goto(i, "stopping")
  /\ UNCHANGED <<migrationVars, open, running, cancelled, calls, timedOut, serverFaults>>

\* Shutdown returns when no request is left ...
ShutdownHTTP(i) ==
  /\ At(i, "draining") /\ Idle(i, Requests)
  /\ listening' = [listening EXCEPT ![i] = FALSE]
  /\ Goto(i, "stopping")
  /\ UNCHANGED <<migrationVars, open, running, cancelled, calls, timedOut, serverFaults>>

\* ... or after 10 seconds; the requests that are left go on.
ShutdownTimesOut(i) ==
  /\ At(i, "draining") /\ ~Idle(i, Requests)
  /\ listening' = [listening EXCEPT ![i] = FALSE]
  /\ timedOut' = [timedOut EXCEPT ![i] = TRUE]
  /\ Goto(i, "stopping")
  /\ UNCHANGED <<migrationVars, open, running, cancelled, calls, serverFaults>>

GracefulStop(i) ==
  /\ At(i, "stopping") /\ Idle(i, Rpcs)
  /\ Goto(i, "returning")
  /\ UNCHANGED <<migrationVars, open, running, cancelled, listening, calls, timedOut, serverFaults>>

\* There is no timer beside GracefulStop.
NeverForceStop(i) == FALSE /\ UNCHANGED systemVars

\* After 5 seconds Stop cancels the calls that are left, whose handlers go on until
\* they notice.
ForceStop(i) ==
  /\ At(i, "stopping") /\ ~Idle(i, Rpcs)
  /\ timedOut' = [timedOut EXCEPT ![i] = TRUE]
  /\ Goto(i, "returning")
  /\ UNCHANGED <<migrationVars, open, running, cancelled, listening, calls, serverFaults>>

\* The deferred Close calls in reverse order.  Close of the read pool waits for the
\* connections that queries hold.
CloseNext(i) ==
  /\ At(i, "returning") /\ open[i] # {}
  /\ LET r == Resources[Cardinality(open[i])] IN
       /\ r = "read" => \A c \in Calls : calls[i][c] # "querying"
       /\ open' = [open EXCEPT ![i] = @ \ {r}]
  /\ UNCHANGED <<migrationVars, spc, running, cancelled, listening, calls, timedOut, serverFaults>>

\* Process i is gone with its goroutines.
Gone(i) ==
  /\ Goto(i, "exited")
  /\ running' = [running EXCEPT ![i] = {}]
  /\ cancelled' = [cancelled EXCEPT ![i] = FALSE]
  /\ listening' = [listening EXCEPT ![i] = FALSE]
  /\ calls' = [calls EXCEPT ![i] = NoCalls]
  /\ timedOut' = [timedOut EXCEPT ![i] = FALSE]

\* The deferred cancel(), which comes last, and the end of main().
Exit(i) ==
  /\ At(i, "returning") /\ open[i] = {}
  /\ Gone(i)
  /\ UNCHANGED <<migrationVars, open, serverFaults>>

\* The process dies: by SIGKILL, or by a signal before it listens for signals.  While it
\* migrates, this is MigrationFails.
Kill(i) ==
  /\ spc[i] \notin {"exited", "migrating"}
  /\ ServerFault
  /\ Gone(i)
  /\ open' = [open EXCEPT ![i] = {}]
  /\ UNCHANGED migrationVars
-----------------------------------------------------------------------------
\* What run() does next, unless a call fails; Close of a pool waits for queries only.
Run(i) ==
  \/ RunMigrationStep(i) \/ ReturnFromMigrations(i) \/ Open(i)
  \/ StartBackgroundDaemons(i) \/ StartServers(i) \/ WaitForDaemons(i)
  \/ ShutdownHTTP(i) \/ ShutdownTimesOut(i) \/ GracefulStop(i) \/ ForceStop(i)
  \/ CloseNext(i) \/ Exit(i)

Serve(i) ==
  \E c \in Calls : Accept(i, c) \/ Query(i, c) \/ QueryEnds(i, c) \/ CallEnds(i, c)

Breaks(i) ==
  OpenFails(i) \/ StartServersFails(i) \/ ListenAndServeFails(i) \/ ProjectorReturns(i) \/ Kill(i)

\* cmd/migrate up, any number of times, and cmd/migrate down, once.
MigrateCommand(m) ==
  /\ MigrationStep(m) \/ (m \in Ups /\ Leave(m))
  /\ UNCHANGED serverVars

ServerNext ==
  \/ \E i \in Instances :
       \/ StartProcess(i) \/ Run(i) \/ Serve(i) \/ Breaks(i) \/ Signal(i)
       \/ \E d \in Daemons : DaemonStops(i, d)
  \/ \E m \in Migrators \ Instances : MigrateCommand(m)

\* The orchestrator starts a process that has exited, run() goes on, a daemon checks its
\* context, a query ends.  Neither calls, signals nor clients owe anything.
ServerFairness ==
  /\ \A i \in Instances :
       /\ WF_systemVars(StartProcess(i)) /\ WF_systemVars(Run(i))
       /\ \A d \in Daemons : WF_systemVars(DaemonStops(i, d))
       /\ \A c \in Calls : WF_systemVars(QueryEnds(i, c))
  /\ \A m \in Migrators \ Instances : WF_systemVars(Migrate(m) /\ UNCHANGED serverVars)

ServerSpec == ServerInit /\ [][ServerNext]_systemVars /\ ServerFairness
-----------------------------------------------------------------------------
\* The processes have values of their types; in particular a process that has
\* exited has closed everything it opened, whichever step of its start failed.
ServerTypeOK ==
  /\ MigrationTypeOK
  /\ spc \in [Instances -> {"exited", "migrating", "opening", "starting", "listening",
                            "serving", "waiting", "draining", "stopping", "returning"}]
  /\ open \in [Instances -> SUBSET AllResources]
  /\ running \in [Instances -> SUBSET Daemons]
  /\ cancelled \in [Instances -> BOOLEAN] /\ listening \in [Instances -> BOOLEAN]
  /\ calls \in [Instances -> [Calls -> {"none", "active", "querying"}]]
  /\ timedOut \in [Instances -> BOOLEAN] /\ serverFaults \in 0..MaxServerFaults
  /\ \A i \in Instances : At(i, "exited") => open[i] = {}

\* A rollback that reports success has removed every version, unless it ran together
\* with an upgrade or took an error for a missing table (migration.go:108).
RollbackLeavesNothing ==
  [][\A m \in Downs : mpc[m] # "done" /\ mpc'[m] = "done" =>
       applied' = {} \/ overlapped' \/ swallowed']_systemVars

\* No daemon works on closed pools: a signal stops them before anything is closed.
\* The one exception is a start that failed after the daemons were started.
DaemonsKeepTheirPools ==
  \A i \in Instances : running[i] # {} =>
    open[i] = AllResources \/ (At(i, "returning") /\ ~cancelled[i])

\* The read pool is not closed under a call that began before the shutdown, unless one
\* of the two shutdown timeouts has expired.
CallsKeepTheirPool ==
  \A i \in Instances, c \in Calls :
    calls[i][c] # "none" => "read" \in open[i] \/ timedOut[i]

\* README.md:78 promises an end even with long-lived connections: neither streams, slow
\* clients nor queries under way hold up a shutdown for ever.  That is all this says; the
\* "within 5 seconds" of that line is not what the code does, which waits for the daemons
\* without a limit, then up to 10 seconds for HTTP and 5 for gRPC (main.go:291-318).
ShutdownCompletes == \A i \in Instances : At(i, "waiting") ~> At(i, "exited")

\* Instances that start together fail on each other's migrations at most for a while:
\* each comes to serve, if failures are finitely many and it is started again.
EveryInstanceServes == \A i \in Instances : At(i, "exited") ~> At(i, "serving")
================================================================================

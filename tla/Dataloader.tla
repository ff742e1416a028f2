------------------------------ MODULE Dataloader ------------------------------
(***************************************************************************)
(* The price-history dataloader of one GraphQL request: the resolvers'     *)
(* calls of Load and the dispatch goroutines they start.  A dispatch is    *)
(* named after the call that started it.  What the points are is left out: *)
(* a result is "points" or "error".  dl.keys and the listeners of a key    *)
(* are slices; here they are sets, so the order in which a dispatch serves *)
(* them is open.                                                           *)
(***************************************************************************)
CONSTANTS
  Calls,    \* calls of Load in the request
  Coins,
  Limits,
  Wants     \* what the calls may ask for: functions from calls to keys

DataloaderKey == [coin_id : Coins, limit : Limits]

ASSUME LoaderAssumption == Wants \subseteq [Calls -> DataloaderKey]

VARIABLES
  want,        \* the key each call asks for
  lpc,         \* where a call is
  answer,      \* what it has returned
  ch,          \* its channel, of capacity one
  done,        \* the context of the request is cancelled
  cache,       \* keys of dl.cache
  keys,        \* dl.keys
  listeners,   \* dl.listeners: the calls whose channels are registered
  dpc,         \* where a dispatch is
  todo,        \* its keys that are not queried yet
  group,       \* keys of its last query that are not distributed yet
  lis,         \* its listeners that are not answered yet
  failed,      \* err of its last query, FALSE before and after its loop
  good         \* observed: keys that some query has answered

loader == <<cache, keys, listeners>>
callVars == <<want, lpc, answer, done>>
dispatchVars == <<dpc, todo, group, lis, failed, good>>
loaderVars == <<loader, callVars, ch, dispatchVars>>
-----------------------------------------------------------------------------
LoaderInit ==
  /\ want \in Wants
  /\ lpc = [c \in Calls |-> "ready"] /\ answer = [c \in Calls |-> "none"]
  /\ ch = [c \in Calls |-> "empty"] /\ done = FALSE
  /\ cache = {} /\ keys = {} /\ listeners = {}
  /\ dpc = [d \in Calls |-> "none"]
  /\ todo = [d \in Calls |-> {}] /\ group = [d \in Calls |-> {}] /\ lis = [d \in Calls |-> {}]
  /\ failed = [d \in Calls |-> FALSE] /\ good = {}

Return(c, result) ==
  /\ lpc' = [lpc EXCEPT ![c] = "returned"]
  /\ answer' = [answer EXCEPT ![c] = result]
  /\ UNCHANGED <<want, done>>

LoadCached(c) ==
  /\ lpc[c] = "ready" /\ want[c] \in cache
  /\ Return(c, "points")
  /\ UNCHANGED <<loader, ch, dispatchVars>>

\* The call registers; the first one since the last dispatch starts another.
LoadListens(c) ==
  /\ lpc[c] = "ready" /\ want[c] \notin cache
  /\ lpc' = [lpc EXCEPT ![c] = "waiting"]
  /\ listeners' = listeners \cup {c}
  /\ keys' = keys \cup {want[c]}
  /\ dpc' = [dpc EXCEPT ![c] = IF keys = {} THEN "sleeping" ELSE @]
  /\ UNCHANGED <<cache, want, answer, done, ch, todo, group, lis, failed, good>>

Receive(c) ==
  /\ lpc[c] = "waiting" /\ ch[c] # "empty"
  /\ Return(c, ch[c])
  /\ ch' = [ch EXCEPT ![c] = "empty"]
  /\ UNCHANGED <<loader, dispatchVars>>

\* The call leaves; its channel stays registered.
ContextDone(c) ==
  /\ lpc[c] = "waiting" /\ done
  /\ Return(c, "cancelled")
  /\ UNCHANGED <<loader, ch, dispatchVars>>

\* The client goes away.
CancelRequest ==
  /\ ~done
  /\ done' = TRUE
  /\ UNCHANGED <<loader, want, lpc, answer, ch, dispatchVars>>
-----------------------------------------------------------------------------
\* dl.listeners is not replaced.
TakeKeysKeepsListeners(d) ==
  /\ dpc[d] = "sleeping"
  /\ dpc' = [dpc EXCEPT ![d] = "running"]
  /\ todo' = [todo EXCEPT ![d] = keys] /\ lis' = [lis EXCEPT ![d] = listeners]
  /\ keys' = {}
  /\ UNCHANGED <<cache, listeners, callVars, ch, group, failed, good>>

\* The sleep is over: dispatch takes what has been registered.
TakeKeys(d) ==
  /\ dpc[d] = "sleeping"
  /\ dpc' = [dpc EXCEPT ![d] = "running"]
  /\ todo' = [todo EXCEPT ![d] = keys] /\ lis' = [lis EXCEPT ![d] = listeners]
  /\ keys' = {} /\ listeners' = {}
  /\ UNCHANGED <<cache, callVars, ch, group, failed, good>>

\* The listeners of the key that is being distributed.
Sending(d) == {c \in lis[d] : want[c] \notin todo[d] \cup group[d]}

Group(d, l) == {k \in todo[d] : k.limit = l}

\* GetPriceHistories for all coins with one limit, under a context of its own;
\* Go ranges over the limits in any order.
QueryGroup(d, l) ==
  /\ dpc[d] = "running" /\ group[d] = {} /\ Sending(d) = {}
  /\ Group(d, l) # {}
  /\ todo' = [todo EXCEPT ![d] = @ \ Group(d, l)]
  /\ group' = [group EXCEPT ![d] = Group(d, l)]
  /\ \/ failed' = [failed EXCEPT ![d] = FALSE] /\ good' = good \cup Group(d, l)
     \/ failed' = [failed EXCEPT ![d] = TRUE] /\ good' = good
  /\ UNCHANGED <<loader, callVars, ch, dpc, lis>>

CachePoints(d, k) ==
  /\ dpc[d] = "running" /\ k \in group[d] /\ Sending(d) = {}
  /\ group' = [group EXCEPT ![d] = @ \ {k}]
  /\ cache' = IF failed[d] THEN cache ELSE cache \cup {k}
  /\ UNCHANGED <<keys, listeners, callVars, ch, dpc, todo, lis, failed, good>>

\* Only results without an error are sent.
SendPointsOnly(d, c) ==
  /\ dpc[d] = "running" /\ c \in Sending(d)
  /\ ch[c] = "empty"
  /\ ch' = IF failed[d] THEN ch ELSE [ch EXCEPT ![c] = "points"]
  /\ lis' = [lis EXCEPT ![d] = @ \ {c}]
  /\ UNCHANGED <<loader, callVars, dpc, todo, group, failed, good>>

\* A send waits while the channel is full.
Send(d, c) ==
  /\ dpc[d] = "running" /\ c \in Sending(d)
  /\ ch[c] = "empty"
  /\ ch' = [ch EXCEPT ![c] = IF failed[d] THEN "error" ELSE "points"]
  /\ lis' = [lis EXCEPT ![d] = @ \ {c}]
  /\ UNCHANGED <<loader, callVars, dpc, todo, group, failed, good>>

Finish(d) ==
  /\ dpc[d] = "running" /\ todo[d] = {} /\ group[d] = {} /\ Sending(d) = {}
  /\ dpc' = [dpc EXCEPT ![d] = "over"]
  /\ failed' = [failed EXCEPT ![d] = FALSE]
  /\ UNCHANGED <<loader, callVars, ch, todo, group, lis, good>>
-----------------------------------------------------------------------------
Dispatch(d) ==
  \/ TakeKeys(d) \/ Finish(d)
  \/ \E l \in Limits : QueryGroup(d, l)
  \/ \E k \in DataloaderKey : CachePoints(d, k)
  \/ \E c \in Calls : Send(d, c)

Select(c) == Receive(c) \/ ContextDone(c)

LoaderNext ==
  \/ \E c \in Calls : LoadCached(c) \/ LoadListens(c) \/ Select(c) \/ Dispatch(c)
  \/ CancelRequest

LoaderSpec == LoaderInit /\ [][LoaderNext]_loaderVars
-----------------------------------------------------------------------------
\* Types, and: only a running dispatch holds keys or listeners.
LoaderTypeOK ==
  /\ want \in [Calls -> DataloaderKey]
  /\ lpc \in [Calls -> {"ready", "waiting", "returned"}]
  /\ answer \in [Calls -> {"none", "points", "error", "cancelled"}]
  /\ ch \in [Calls -> {"empty", "points", "error"}]
  /\ done \in BOOLEAN
  /\ cache \subseteq DataloaderKey /\ keys \subseteq DataloaderKey /\ listeners \subseteq Calls
  /\ dpc \in [Calls -> {"none", "sleeping", "running", "over"}]
  /\ todo \in [Calls -> SUBSET DataloaderKey] /\ group \in [Calls -> SUBSET DataloaderKey]
  /\ lis \in [Calls -> SUBSET Calls]
  /\ failed \in [Calls -> BOOLEAN] /\ good \subseteq DataloaderKey
  /\ \A d \in Calls : dpc[d] # "running" => todo[d] = {} /\ group[d] = {} /\ lis[d] = {}

\* A call that waits with an empty channel is registered where a dispatch will
\* find it: with the loader, and then exactly one dispatch is asleep, or with a
\* running dispatch.  So no interleaving of Load with dispatch, which decide by
\* len(dl.keys) who starts a goroutine, leaves a call behind.
NoCallStranded ==
  /\ \A c \in Calls : lpc[c] = "waiting" /\ ch[c] = "empty" =>
       c \in listeners \/ \E d \in Calls : dpc[d] = "running" /\ c \in lis[d]
  /\ listeners # {} => \E d \in Calls : dpc[d] = "sleeping"
  /\ \A d, e \in Calls : dpc[d] = "sleeping" /\ dpc[e] = "sleeping" => d = e

\* No channel is sent to twice: its single slot is free when a dispatch holds
\* it, so a call that was cancelled and never receives does not stop the dispatch.
SendNeverBlocks == \A d, c \in Calls : c \in lis[d] => ch[c] = "empty"

\* A history, cached or sent, comes from a query that succeeded: a failed batch
\* is neither cached nor handed to anyone, now or later, as an empty history.
PointsComeFromQueries ==
  /\ cache \subseteq good
  /\ \A c \in Calls : answer[c] = "points" \/ ch[c] = "points" => want[c] \in good

\* Every dispatch ends, also when all its callers are gone: no goroutine leaks.
DispatchEnds == <>[](\A d \in Calls : dpc[d] \in {"none", "over"})
=============================================================================

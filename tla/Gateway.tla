-------------------------------- MODULE Gateway --------------------------------
(***************************************************************************)
(* The path of HTTP requests from RateLimitMiddleware to the cache.  Each  *)
(* request comes at most once; Readers are those whose resolvers read      *)
(* price histories.                                                        *)
(***************************************************************************)
EXTENDS RateLimiter, HistoryCache

ASSUME GatewayAssumption == Readers \subseteq Requests

gatewayVars == <<limiterVars, historyVars>>
-----------------------------------------------------------------------------
GatewayInit == LimiterInit /\ HistoryInit

PassLimiter(u) == Limit(u) /\ UNCHANGED historyVars

\* next.ServeHTTP, which resolves the query.
Handle(u) ==
  /\ u \in Readers /\ lpc[u] = "admitted"
  /\ Get(u)
  /\ UNCHANGED limiterVars

ReadHistories(u) == u \in Readers /\ Read(u) /\ UNCHANGED limiterVars

ReadFails(u) == u \in Readers /\ QueryFails(u) /\ UNCHANGED limiterVars

\* The handler returns its result or error, and the middleware after it.
Respond(u) ==
  /\ Answer(u)
  /\ IF u \in Readers THEN Return(u) ELSE UNCHANGED historyVars

Progress(u) == (lpc[u] # "idle" /\ PassLimiter(u)) \/ Handle(u) \/ ReadHistories(u) \/ Respond(u)

GatewayNext ==
  \/ \E u \in Requests :
       PassLimiter(u) \/ Handle(u) \/ ReadHistories(u) \/ ReadFails(u) \/ Respond(u)
  \/ (Sweep \/ Tick) /\ UNCHANGED historyVars
  \/ (Replicate \/ \E c \in Coins : ChangeRows(c) \/ Expire(c)) /\ UNCHANGED limiterVars

GatewaySafety == GatewayInit /\ [][GatewayNext]_gatewayVars

\* A request that has come goes on, entries have a TTL and the replica follows.  Nothing
\* makes a request come.
GatewaySpec ==
  /\ GatewaySafety
  /\ \A u \in Requests : WF_gatewayVars(Progress(u))
  /\ WF_gatewayVars(Replicate /\ UNCHANGED limiterVars)
  /\ \A c \in Coins : WF_gatewayVars(Expire(c) /\ UNCHANGED limiterVars)
-----------------------------------------------------------------------------
\* Every request that comes is answered: refused by the limiter, with an error, or with
\* its histories, whether it leads a flight or follows one.
RequestsAnswered == \A u \in Requests : lpc[u] # "idle" ~> lpc[u] = "answered"
================================================================================

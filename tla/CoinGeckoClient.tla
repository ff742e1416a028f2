---------------------------- MODULE CoinGeckoClient ----------------------------
(***************************************************************************)
(* The aggregator's fetch loop: the polling goroutine of aggregator.Service*)
(* calls FetchMarketData, which tries a request up to Attempts times, each *)
(* time with the permission of the circuit breaker.  The breaker measures  *)
(* time only against its cooldown, so its clock is the flag "cooled".      *)
(***************************************************************************)
EXTENDS Integers

CONSTANTS
  Threshold,   \* failures that open the breaker (3 in NewHTTPClient)
  Attempts,    \* requests one call may send (3 in executeWithRetry)
  Answers      \* what the API may answer: "ok", "retryable", "client_error"

ASSUME ClientAssumption ==
  /\ Threshold \in Nat \ {0} /\ Attempts \in Nat \ {0}
  /\ Answers \subseteq {"ok", "retryable", "client_error"}

VARIABLES
  state,              \* state of the breaker
  failures,           \* failures counted in the closed state
  successes,          \* successes counted in the half-open state
  cooled,             \* time.Since(lastActivity) > cooldown
  halfOpenInFlight,   \* the half-open probe is taken
  cpc,                \* where the goroutine is
  attempt,            \* i in executeWithRetry
  streak,             \* observed: retryable failures since the last success, up to Threshold
  unreported          \* observed: some half-open probe has ended without a record

breaker == <<state, failures, successes, cooled, halfOpenInFlight>>
clientVars == <<breaker, cpc, attempt, streak, unreported>>
-----------------------------------------------------------------------------
ClientInit ==
  /\ state = "Closed" /\ failures = 0 /\ successes = 0
  /\ cooled = FALSE /\ halfOpenInFlight = FALSE
  /\ cpc = "idle" /\ attempt = 0 /\ streak = 0 /\ unreported = FALSE

\* The poll interval has passed: fetchAndProcess calls FetchMarketData.
FetchMarketData ==
  /\ cpc = "idle"
  /\ cpc' = "ask" /\ attempt' = 1
  /\ UNCHANGED <<breaker, streak, unreported>>

\* Allow returns true.
Admit ==
  \/ state = "Closed" /\ UNCHANGED breaker
  \/ /\ state = "Open" /\ cooled
     /\ state' = "HalfOpen" /\ cooled' = FALSE /\ halfOpenInFlight' = TRUE
     /\ UNCHANGED <<failures, successes>>
  \/ /\ state = "HalfOpen" /\ ~halfOpenInFlight
     /\ halfOpenInFlight' = TRUE
     /\ UNCHANGED <<state, failures, successes, cooled>>

Refuses ==
  \/ state = "Open" /\ ~cooled
  \/ state = "HalfOpen" /\ halfOpenInFlight

Allow ==
  /\ cpc = "ask"
  /\ Admit
  /\ cpc' = "request"
  /\ UNCHANGED <<attempt, streak, unreported>>

\* The call returns an error at once.
Refuse ==
  /\ cpc = "ask"
  /\ Refuses
  /\ cpc' = "idle" /\ attempt' = 0
  /\ UNCHANGED <<breaker, streak, unreported>>

\* One goroutine sends every request, so the breaker is closed or half-open here.
RecordFailure ==
  /\ cooled' = FALSE /\ halfOpenInFlight' = FALSE
  /\ failures' = IF state = "Closed" THEN failures + 1 ELSE failures
  /\ state' = IF state = "Closed" /\ failures' < Threshold THEN "Closed" ELSE "Open"
  /\ UNCHANGED successes

\* Closing forgets to clear the failures that opened the breaker.
RecordSuccessKeepsFailures ==
  /\ cooled' = FALSE /\ halfOpenInFlight' = FALSE
  /\ \/ state = "Closed" /\ failures' = 0 /\ UNCHANGED <<state, successes>>
     \/ state = "HalfOpen" /\ successes = 0 /\ successes' = 1 /\ UNCHANGED <<state, failures>>
     \/ state = "HalfOpen" /\ successes > 0 /\ state' = "Closed" /\ successes' = 0 /\ UNCHANGED failures

\* The probe slot is not given back.
RecordSuccessKeepsProbe ==
  /\ cooled' = FALSE /\ UNCHANGED halfOpenInFlight
  /\ \/ state = "Closed" /\ failures' = 0 /\ UNCHANGED <<state, successes>>
     \/ state = "HalfOpen" /\ successes = 0 /\ successes' = 1 /\ UNCHANGED <<state, failures>>
     \/ state = "HalfOpen" /\ successes > 0 /\ state' = "Closed" /\ failures' = 0 /\ successes' = 0

\* Two successes close a half-open breaker; they need not be consecutive.
RecordSuccess ==
  /\ cooled' = FALSE /\ halfOpenInFlight' = FALSE
  /\ \/ state = "Closed" /\ failures' = 0 /\ UNCHANGED <<state, successes>>
     \/ state = "HalfOpen" /\ successes + 1 < 2 /\ successes' = successes + 1 /\ UNCHANGED <<state, failures>>
     \/ state = "HalfOpen" /\ successes + 1 >= 2 /\ state' = "Closed" /\ failures' = 0 /\ successes' = 0

\* Status 200.
Succeed ==
  /\ cpc = "request" /\ "ok" \in Answers
  /\ RecordSuccess
  /\ cpc' = "idle" /\ attempt' = 0
  /\ streak' = 0 /\ UNCHANGED unreported

AfterFailure == IF attempt = Attempts THEN "idle" ELSE "wait"

\* Status 429 or 5xx, a connection error, a timeout or a cancelled context.
FailRequest ==
  /\ cpc = "request" /\ "retryable" \in Answers
  /\ RecordFailure
  /\ cpc' = AfterFailure
  /\ attempt' = IF cpc' = "idle" THEN 0 ELSE attempt
  /\ streak' = IF streak < Threshold THEN streak + 1 ELSE streak
  /\ UNCHANGED unreported

\* Any other status: the call returns and tells the breaker nothing.
ClientError ==
  /\ cpc = "request" /\ "client_error" \in Answers
  /\ cpc' = "idle" /\ attempt' = 0
  /\ unreported' = (unreported \/ state = "HalfOpen")
  /\ UNCHANGED <<breaker, streak>>

\* The attempt is not counted.
RetryUncounted ==
  /\ cpc = "wait"
  /\ cpc' = "ask"
  /\ UNCHANGED <<breaker, attempt, streak, unreported>>

\* The backoff is over.
Retry ==
  /\ cpc = "wait"
  /\ cpc' = "ask" /\ attempt' = attempt + 1
  /\ UNCHANGED <<breaker, streak, unreported>>

\* The context is cancelled between calls or during a backoff; the service ends.
Cancel ==
  /\ cpc \in {"idle", "wait"}
  /\ cpc' = "stopped" /\ attempt' = 0
  /\ UNCHANGED <<breaker, streak, unreported>>

Cooldown ==
  /\ ~cooled
  /\ cooled' = TRUE
  /\ UNCHANGED <<state, failures, successes, halfOpenInFlight, cpc, attempt, streak, unreported>>

Call == FetchMarketData \/ Allow \/ Refuse \/ Succeed \/ FailRequest \/ ClientError \/ Retry

ClientNext == Call \/ Cancel \/ Cooldown

\* The goroutine has no wait but its timers, every request has a timeout, and
\* time passes.
ClientSpec ==
  ClientInit /\ [][ClientNext]_clientVars /\ WF_clientVars(Call) /\ WF_clientVars(Cooldown)
-----------------------------------------------------------------------------
\* Breaker, goroutine and counters stay in their ranges: the failure counter
\* never passes the threshold and the success counter never reaches two.
ClientTypeOK ==
  /\ state \in {"Closed", "Open", "HalfOpen"}
  /\ failures \in 0..Threshold /\ successes \in 0..1
  /\ cooled \in BOOLEAN /\ halfOpenInFlight \in BOOLEAN
  /\ cpc \in {"idle", "ask", "request", "wait", "stopped"}
  /\ attempt \in 0..Attempts /\ streak \in 0..Threshold /\ unreported \in BOOLEAN

\* While the breaker is closed its counter is exactly the number of failed
\* requests since the last success, over all calls and after any number of
\* openings and closings; so it opens neither early nor late.
CounterIsStreak == state = "Closed" => failures = streak /\ failures < Threshold

\* client_test.go:83-86: once the cooldown has passed, a tripped breaker lets a
\* request through; while the service runs it never stays silent for good.
ProbesAgain == state # "Closed" ~> cpc \in {"request", "stopped"}

\* Once requests stop failing, the breaker closes and stays so, unless a probe
\* that was answered with another 4xx status has blocked it.
ClosesWhenHealthy ==
  <>[][~FailRequest]_clientVars => <>[](state = "Closed" \/ cpc = "stopped" \/ unreported)

\* Every call of FetchMarketData returns, whatever the API answers: the retry
\* loop is bounded.
FetchReturns == cpc = "ask" ~> cpc \in {"idle", "stopped"}
================================================================================

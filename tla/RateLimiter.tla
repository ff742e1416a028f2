------------------------------ MODULE RateLimiter ------------------------------
(***************************************************************************)
(* The rate limiter of the HTTP server.  GetLimiter looks a client up      *)
(* under the read lock, and creates or refreshes its entry under the write *)
(* lock; the sweeper removes old entries in between.  A limiter            *)
(* is a token bucket; one that no entry and no request refers to any more  *)
(* is free to stand for the next one that is made.  Time is counted in     *)
(* ages: an entry is new, older than the second after which it is          *)
(* refreshed, or older than maxAge.  A tick is long enough to refill.      *)
(***************************************************************************)
EXTENDS Integers

CONSTANTS
  Requests,    \* HTTP requests
  Clients,     \* remote addresses
  ClientOf,    \* address of each request
  Limiters,    \* limiters that may exist at a time (bound)
  NoLimiter,
  Burst        \* capacity of a bucket

ASSUME LimiterAssumption ==
  ClientOf \in [Requests -> Clients] /\ NoLimiter \notin Limiters /\ Burst \in Nat \ {0}

VARIABLES
  ips,      \* limiter of each client's entry
  age,      \* age of its lastSeen
  tokens,   \* tokens in each bucket
  used,     \* observed: age of the client's last request
  lpc,      \* where each request is in the middleware
  lim       \* the limiter it has got

limiterVars == <<ips, age, tokens, used, lpc, lim>>

\* In between, an entry is old enough to be refreshed.
New == 0
Expired == 2
-----------------------------------------------------------------------------
LimiterInit ==
  /\ ips = [c \in Clients |-> NoLimiter]
  /\ age = [c \in Clients |-> New]
  /\ tokens = [l \in Limiters |-> Burst]
  /\ used = [c \in Clients |-> New]
  /\ lpc = [q \in Requests |-> "idle"]
  /\ lim = [q \in Requests |-> NoLimiter]

InUse == {ips[c] : c \in Clients} \cup {lim[q] : q \in Requests}

\* rate.NewLimiter for the entry of c.
NewLimiter(c, q) ==
  LET l == CHOOSE l \in Limiters : l \notin InUse IN
  /\ Limiters \ InUse # {}
  /\ ips' = [ips EXCEPT ![c] = l]
  /\ lim' = [lim EXCEPT ![q] = l]
  /\ tokens' = [tokens EXCEPT ![l] = Burst]

Goes(q, pc) == lpc' = [lpc EXCEPT ![q] = pc]

\* Another request is about to write lastSeen of this entry, which is read without lock:
\* the comparison may then come out either way.
Racing(q) ==
  \E r \in Requests \ {q} :
    /\ ClientOf[r] = ClientOf[q]
    /\ lpc[r] = "create" \/ (lpc[r] = "refresh" /\ lim[r] = ips[ClientOf[q]])

\* GetLimiter under the read lock.
LookUp(q) ==
  LET c == ClientOf[q] IN
  /\ lpc[q] = "idle"
  /\ lim' = [lim EXCEPT ![q] = ips[c]]
  /\ \/ ips[c] = NoLimiter /\ Goes(q, "create")
     \/ ips[c] # NoLimiter /\ (age[c] # New \/ Racing(q)) /\ Goes(q, "refresh")
     \/ ips[c] # NoLimiter /\ (age[c] = New \/ Racing(q)) /\ Goes(q, "allow")
  /\ used' = [used EXCEPT ![c] = New]
  /\ UNCHANGED <<ips, age, tokens>>

\* lastSeen is never written after the creation.
NeverRefresh(q) ==
  /\ lpc[q] = "refresh"
  /\ Goes(q, "allow")
  /\ UNCHANGED <<ips, age, tokens, used, lim>>

\* lastSeen of the entry that was found, which may no longer be in the map.
Refresh(q) ==
  LET c == ClientOf[q] IN
  /\ lpc[q] = "refresh"
  /\ age' = [age EXCEPT ![c] = IF ips[c] = lim[q] THEN New ELSE @]
  /\ Goes(q, "allow")
  /\ UNCHANGED <<ips, tokens, used, lim>>

\* Under the write lock: a new entry, or the one another request has made meanwhile.
Create(q) ==
  LET c == ClientOf[q] IN
  /\ lpc[q] = "create"
  /\ \/ ips[c] # NoLimiter /\ lim' = [lim EXCEPT ![q] = ips[c]] /\ UNCHANGED <<ips, tokens>>
     \/ ips[c] = NoLimiter /\ NewLimiter(c, q)
  /\ age' = [age EXCEPT ![c] = New]
  /\ Goes(q, "allow")
  /\ UNCHANGED used

\* Allow takes a token.
Admit(q) ==
  /\ lpc[q] = "allow" /\ tokens[lim[q]] > 0
  /\ tokens' = [tokens EXCEPT ![lim[q]] = @ - 1]
  /\ lim' = [lim EXCEPT ![q] = NoLimiter]
  /\ Goes(q, "admitted")
  /\ UNCHANGED <<ips, age, used>>

\* Too Many Requests.
Reject(q) ==
  /\ lpc[q] = "allow" /\ tokens[lim[q]] = 0
  /\ lim' = [lim EXCEPT ![q] = NoLimiter]
  /\ Goes(q, "answered")
  /\ UNCHANGED <<ips, age, tokens, used>>

\* next.ServeHTTP has returned.
Answer(q) ==
  /\ lpc[q] = "admitted"
  /\ Goes(q, "answered")
  /\ UNCHANGED <<ips, age, tokens, used, lim>>

\* The ticker of the sweeper: every entry older than maxAge goes, under the write lock.
Sweep ==
  LET gone == {c \in Clients : ips[c] # NoLimiter /\ age[c] = Expired} IN
  /\ gone # {}
  /\ ips' = [c \in Clients |-> IF c \in gone THEN NoLimiter ELSE ips[c]]
  /\ age' = [c \in Clients |-> IF c \in gone THEN New ELSE age[c]]
  /\ UNCHANGED <<tokens, used, lpc, lim>>

Older(a) == IF a < Expired THEN a + 1 ELSE a

Tick ==
  /\ age' = [c \in Clients |-> IF ips[c] # NoLimiter THEN Older(age[c]) ELSE age[c]]
  /\ used' = [c \in Clients |-> Older(used[c])]
  /\ tokens' = [l \in Limiters |-> Burst]
  /\ UNCHANGED <<ips, lpc, lim>>

Limit(q) == LookUp(q) \/ Refresh(q) \/ Create(q) \/ Admit(q) \/ Reject(q)
-----------------------------------------------------------------------------
\* Every variable has a value of its type; a request that
\* goes on has a bucket, and no bucket serves two clients.
LimiterTypeOK ==
  /\ ips \in [Clients -> Limiters \cup {NoLimiter}] /\ age \in [Clients -> New..Expired]
  /\ used \in [Clients -> New..Expired] /\ tokens \in [Limiters -> 0..Burst]
  /\ lpc \in [Requests -> {"idle", "refresh", "create", "allow", "admitted", "answered"}]
  /\ lim \in [Requests -> Limiters \cup {NoLimiter}]
  /\ \A q \in Requests : lpc[q] \in {"refresh", "allow"} => lim[q] # NoLimiter
  /\ \A c, d \in Clients : ips[c] = ips[d] => c = d \/ ips[c] = NoLimiter

\* A client keeps its bucket, and with it the tokens it has spent, however its first
\* requests race to create the entry (the second look under the write lock), until no
\* request of it has come for maxAge.  Only the sweeper then takes the entry, or earlier
\* while a request that has looked the client up has not yet written lastSeen (handler.go:102).
\* Up to a second: a request within a second of lastSeen leaves it, and the ages do not
\* tell the two apart.
ClientKeepsBucket ==
  [][\A c \in Clients : ips[c] # NoLimiter /\ ips'[c] # ips[c] =>
       /\ ips'[c] = NoLimiter
       /\ \/ used[c] = Expired
          \/ \E q \in Requests : ClientOf[q] = c /\ lpc[q] \in {"refresh", "create"}]_limiterVars

================================================================================

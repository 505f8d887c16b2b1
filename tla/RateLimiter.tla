------------------------------ MODULE RateLimiter ------------------------------
(***************************************************************************)
(* The token buckets that limit registration and login                     *)
(* (middleware/rate_limiter.go).  A request is limited under the mutex, so *)
(* it is one action; time passes in ticks, Minute of which are a minute.   *)
(* log is a history variable: when each client's requests were let through. *)
(***************************************************************************)
EXTENDS Integers, Sequences

CONSTANTS
  Client,              \* client addresses
  RateLimitPerMinute,  \* the configured limit
  Minute,              \* ticks in a minute
  Horizon              \* bound of the model: time stops here

ASSUME RateAssumption ==
  RateLimitPerMinute \in Int /\ Minute \in Nat \ {0} /\ Horizon \in Nat

VARIABLES
  clock,   \* time.Now(), read under the mutex
  bucket,  \* tokens and lastFill of each client's bucket
  known,   \* the clients that have a bucket
  log      \* history: when the requests that were let through arrived

vars == <<clock, bucket, known, log>>

\* NewRateLimiter: the default when the configured limit is not positive.
PerMin == IF RateLimitPerMinute <= 0 THEN 120 ELSE RateLimitPerMinute
Capacity == PerMin

TypeOK ==
  /\ clock \in Nat
  /\ bucket \in [Client -> [tokens : 0..Capacity, lastFill : Nat]]
  /\ known \subseteq Client
  /\ log \in [Client -> Seq(Nat)]

Init ==
  /\ clock = 0
  /\ bucket = [ip \in Client |-> [tokens |-> 0, lastFill |-> 0]]
  /\ known = {}
  /\ log = [ip \in Client |-> <<>>]

AtMost(n, limit) == IF n > limit THEN limit ELSE n

\* Whole minutes since the last request of the client.
IdleMinutes(ip) == (clock - bucket[ip].lastFill) \div Minute

\* Mutant: a client that was idle gets its tokens on top of what it has left.
RefilledUncapped(ip) ==
  IF ip \in known THEN bucket[ip].tokens + IdleMinutes(ip) * PerMin ELSE Capacity

\* Mutant: a new bucket is empty.
RefilledFromEmpty(ip) ==
  IF ip \in known THEN AtMost(bucket[ip].tokens + IdleMinutes(ip) * PerMin, Capacity) ELSE 0

\* The tokens of the bucket, with those it regained; a new bucket is full.
Refilled(ip) ==
  IF ip \in known THEN AtMost(bucket[ip].tokens + IdleMinutes(ip) * PerMin, Capacity)
  ELSE Capacity

\* Mutant: the time of the last refill is not set.
FillWithoutTime(ip, tokens) ==
  /\ bucket' = [bucket EXCEPT ![ip].tokens = tokens]
  /\ known' = known \cup {ip}
  /\ UNCHANGED clock

\* lastFill is set by every request, whether or not it regained a token.
Fill(ip, tokens) ==
  /\ bucket' = [bucket EXCEPT ![ip] = [tokens |-> tokens, lastFill |-> clock]]
  /\ known' = known \cup {ip}
  /\ UNCHANGED clock

Pass(ip) ==
  /\ Refilled(ip) > 0
  /\ Fill(ip, Refilled(ip) - 1)
  /\ log' = [log EXCEPT ![ip] = Append(@, clock)]

\* Status 429.
Reject(ip) == Refilled(ip) <= 0 /\ Fill(ip, Refilled(ip)) /\ UNCHANGED log

Tick == clock < Horizon /\ clock' = clock + 1 /\ UNCHANGED <<bucket, known, log>>

Next == Tick \/ \E ip \in Client : Pass(ip) \/ Reject(ip)

Spec == Init /\ [][Next]_vars

-----------------------------------------------------------------------------

\* However a client spaces its requests, PerMin + 1 of those let through span
\* at least a minute (rate_limiter.go:45-56): the bucket cannot be refilled
\* early, nor carry over more than Capacity tokens.
AtMostPerMinute ==
  \A ip \in Client : \A i \in 1..(Len(log[ip]) - PerMin) :
    log[ip][i + PerMin] - log[ip][i] >= Minute

\* A client is turned away only after it was let through PerMin times, and only
\* when it asked less than a minute before.
RejectsOnlyTheBusy ==
  [][\A ip \in Client : Reject(ip) =>
       Len(log[ip]) >= PerMin /\ clock - bucket[ip].lastFill < Minute]_vars

(* The inductive invariant behind them, proved in RateLimiterProofs.       *)

\* How many requests were let through since the bucket was last full.
Spent(ip) == Capacity - bucket[ip].tokens

\* The requests let through before the bucket was last filled are a minute
\* older than those it has let through since.
BucketInv ==
  \A ip \in Client :
    LET n == Len(log[ip]) IN
    /\ ip \notin known => n = 0
    /\ ip \in known =>
         /\ bucket[ip].lastFill <= clock
         /\ Spent(ip) \in 1..n
         /\ \A i \in 1..n : log[ip][i] <= bucket[ip].lastFill
         /\ \A i, j \in 1..n : i <= n - Spent(ip) /\ j > n - Spent(ip)
                                => log[ip][j] - log[ip][i] >= Minute

Inductive == TypeOK /\ BucketInv /\ AtMostPerMinute
=============================================================================

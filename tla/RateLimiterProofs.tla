--------------------------- MODULE RateLimiterProofs ---------------------------
(***************************************************************************)
(* Proofs about RateLimiter, for any limit, any clients and any clock.     *)
(***************************************************************************)
EXTENDS RateLimiter, SequenceTheorems, TLAPS

USE RateAssumption

\* The limit is a positive number of requests.
LEMMA PerMinPositive == PerMin \in Nat \ {0}
  BY DEF PerMin

\* A longer interval spans a minute if a shorter one within it does.
LEMMA LongerSpans ==
  ASSUME NEW s \in Nat, NEW t \in Nat, NEW b \in Nat, NEW c \in Nat,
         s <= t, b <= c, b - t >= Minute
  PROVE  c - s >= Minute
  BY RateAssumption

\* A bucket regains nothing before a minute has passed and everything after.
LEMMA RefilledCases ==
  ASSUME TypeOK, BucketInv, NEW ip \in Client
  PROVE  /\ Refilled(ip) \in 0..Capacity
         /\ ip \notin known => Refilled(ip) = Capacity
         /\ ip \in known /\ clock - bucket[ip].lastFill < Minute
              => Refilled(ip) = bucket[ip].tokens
         /\ ip \in known /\ clock - bucket[ip].lastFill >= Minute
              => Refilled(ip) = Capacity
<1>1. CASE ip \notin known
  BY <1>1, PerMinPositive DEF Refilled, Capacity
<1>2. CASE ip \in known
  <2> DEFINE e == clock - bucket[ip].lastFill
             t == bucket[ip].tokens
  <2>1. e \in Nat /\ t \in 0..Capacity /\ IdleMinutes(ip) = e \div Minute
    BY <1>2 DEF TypeOK, BucketInv, IdleMinutes
  <2>2. /\ IdleMinutes(ip) \in Nat
        /\ e < Minute => IdleMinutes(ip) = 0
        /\ e >= Minute => IdleMinutes(ip) >= 1
    <3> HIDE DEF e, t
    <3> QED
      BY <2>1
  <2>3. /\ IdleMinutes(ip) * PerMin \in Nat
        /\ IdleMinutes(ip) = 0 => IdleMinutes(ip) * PerMin = 0
        /\ IdleMinutes(ip) >= 1 => IdleMinutes(ip) * PerMin >= PerMin
    <3>1. \A k, p \in Nat : /\ k * p \in Nat
                            /\ k = 0 => k * p = 0
                            /\ k >= 1 => k * p >= p
      OBVIOUS
    <3> QED
      BY <2>2, <3>1, PerMinPositive
  <2>4. Refilled(ip) = IF t + IdleMinutes(ip) * PerMin > Capacity THEN Capacity
                       ELSE t + IdleMinutes(ip) * PerMin
    BY <1>2 DEF Refilled, AtMost
  <2> HIDE DEF t
  <2>5. CASE e < Minute
    BY <1>2, <2>1, <2>2, <2>3, <2>4, <2>5, PerMinPositive DEF t, Capacity
  <2>6. CASE e >= Minute
    BY <1>2, <2>1, <2>2, <2>3, <2>4, <2>6, PerMinPositive DEF t, Capacity
  <2> QED
    BY <2>1, <2>5, <2>6
<1> QED
  BY <1>1, <1>2

LEMMA InitInductive == Init => Inductive
  BY PerMinPositive DEF Init, Inductive, TypeOK, BucketInv, AtMostPerMinute, Capacity

\* A rejected client keeps its empty bucket.
LEMMA RejectKeeps ==
  ASSUME Inductive, NEW ip \in Client, Reject(ip)
  PROVE  /\ Inductive'
         /\ Len(log[ip]) >= PerMin /\ clock - bucket[ip].lastFill < Minute
<1> USE DEF Inductive
<1>1. /\ ip \in known /\ clock - bucket[ip].lastFill < Minute
      /\ Refilled(ip) = bucket[ip].tokens /\ bucket[ip].tokens = 0
  BY RefilledCases, PerMinPositive DEF Reject, Capacity, TypeOK
<1>2. Len(log[ip]) >= PerMin
  BY <1>1, PerMinPositive DEF BucketInv, Spent, Capacity, TypeOK
<1>3. /\ bucket' = [bucket EXCEPT ![ip] = [tokens |-> bucket[ip].tokens, lastFill |-> clock]]
      /\ known' = known /\ clock' = clock /\ log' = log
  BY <1>1 DEF Reject, Fill
<1>4. TypeOK'
  BY <1>3 DEF TypeOK
<1>5. BucketInv'
  <2>1. \A x \in Client : /\ bucket'[x].tokens = bucket[x].tokens
                          /\ bucket'[x].lastFill = IF x = ip THEN clock ELSE bucket[x].lastFill
    BY <1>3 DEF TypeOK
  <2>2. \A x \in Client : Spent(x)' = Spent(x)
    BY <2>1 DEF Spent, Capacity, PerMin
  <2>3. \A i \in 1..Len(log[ip]) : log[ip][i] <= clock
    <3>1. log[ip] \in Seq(Nat) /\ clock \in Nat /\ bucket[ip].lastFill \in Nat
      BY DEF TypeOK
    <3>2. \A i \in 1..Len(log[ip]) : log[ip][i] \in Nat
      BY <3>1
    <3>3. /\ bucket[ip].lastFill <= clock
          /\ \A i \in 1..Len(log[ip]) : log[ip][i] <= bucket[ip].lastFill
      BY <1>1 DEF BucketInv
    <3> QED
      BY <3>1, <3>2, <3>3
  <2>4. clock \in Nat
    BY DEF TypeOK
  <2> QED
    BY <1>3, <2>1, <2>2, <2>3, <2>4 DEF BucketInv
<1> QED
  BY <1>1, <1>2, <1>3, <1>4, <1>5 DEF AtMostPerMinute

\* A request that is let through: the log grows by the present moment.
LEMMA PassKeeps == ASSUME Inductive, NEW ip \in Client, Pass(ip) PROVE Inductive'
<1> USE DEF Inductive
<1> DEFINE n == Len(log[ip])
           tokens == Refilled(ip) - 1
<1>1. n \in Nat /\ log[ip] \in Seq(Nat) /\ clock \in Nat
  BY DEF TypeOK
<1>2. tokens \in 0..(Capacity - 1)
  BY RefilledCases, PerMinPositive DEF Pass, Capacity
<1>3. /\ bucket' = [bucket EXCEPT ![ip] = [tokens |-> tokens, lastFill |-> clock]]
      /\ known' = known \cup {ip} /\ clock' = clock
      /\ log' = [log EXCEPT ![ip] = Append(log[ip], clock)]
  BY DEF Pass, Fill
<1>4. /\ log'[ip] \in Seq(Nat) /\ Len(log'[ip]) = n + 1
      /\ \A i \in 1..n : log'[ip][i] = log[ip][i]
      /\ log'[ip][n + 1] = clock
  <2>1. log'[ip] = Append(log[ip], clock)
    BY <1>3 DEF TypeOK
  <2> QED
    BY <1>1, <2>1, AppendProperties
<1>5. bucket'[ip] = [tokens |-> tokens, lastFill |-> clock] /\ ip \in known'
  BY <1>3 DEF TypeOK
<1>6. \A i \in 1..n : log[ip][i] \in Nat /\ log[ip][i] <= clock
  <2>1. \A i \in 1..n : log[ip][i] \in Nat
    BY <1>1
  <2> QED
    BY <1>1, <2>1 DEF BucketInv, TypeOK
<1>7. TypeOK'
  BY <1>1, <1>2, <1>3, <1>4, PerMinPositive DEF TypeOK, Capacity
<1> HIDE DEF n, tokens
<1> DEFINE s == Capacity - tokens
<1>8. /\ s \in 1..(n + 1) /\ s <= Capacity /\ Capacity = PerMin
      /\ \A i, j \in 1..(n + 1) : i <= n + 1 - s /\ j > n + 1 - s
           => log'[ip][j] - log'[ip][i] >= Minute
  <2>1. s \in 1..Capacity /\ Capacity \in Nat /\ Capacity = PerMin
    BY <1>2, PerMinPositive DEF Capacity
  <2>2. CASE ip \notin known
    <3>1. n = 0 /\ tokens = Capacity - 1
      BY <2>2, RefilledCases DEF BucketInv, n, tokens
    <3>2. s = 1
      BY <2>1, <3>1
    <3> HIDE DEF s
    <3>3. ~\E i \in 1..(n + 1) : i <= n + 1 - s
      BY <3>1, <3>2
    <3>4. s \in 1..(n + 1) /\ s <= Capacity
      BY <2>1, <3>1, <3>2
    <3> QED
      BY <2>1, <3>3, <3>4
  <2>3. CASE ip \in known /\ clock - bucket[ip].lastFill >= Minute
    <3>1. tokens = Capacity - 1
      BY <2>3, RefilledCases DEF tokens
    <3>2. s = 1
      BY <2>1, <3>1
    <3>3. \A i \in 1..n : clock - log[ip][i] >= Minute
      <4>1. bucket[ip].lastFill \in Nat /\ \A i \in 1..n : log[ip][i] <= bucket[ip].lastFill
        BY <2>3 DEF BucketInv, TypeOK, n
      <4>2. ASSUME NEW i \in 1..n PROVE clock - log[ip][i] >= Minute
        <5>1. log[ip][i] \in Nat /\ log[ip][i] <= bucket[ip].lastFill
          BY <1>6, <4>1
        <5>2. clock <= clock
          BY <1>1
        <5> QED
          BY <1>1, <2>3, <4>1, <5>1, <5>2, LongerSpans
      <4> QED
        BY <4>2
    <3> HIDE DEF s
    <3>4. ASSUME NEW i \in 1..(n + 1), NEW j \in 1..(n + 1), i <= n, j > n
          PROVE  log'[ip][j] - log'[ip][i] >= Minute
      <4>1. j = n + 1 /\ i \in 1..n
        BY <1>1, <3>4
      <4> QED
        BY <1>4, <3>3, <4>1
    <3> QED
      BY <1>1, <2>1, <3>2, <3>4
  <2>4. CASE ip \in known /\ clock - bucket[ip].lastFill < Minute
    <3> DEFINE o == Spent(ip)
    <3>1. tokens = bucket[ip].tokens - 1 /\ bucket[ip].tokens \in 0..Capacity
      BY <2>4, RefilledCases DEF tokens, TypeOK
    <3>2. /\ o \in 1..n
          /\ \A i, j \in 1..n : i <= n - o /\ j > n - o => log[ip][j] - log[ip][i] >= Minute
      BY <2>4 DEF BucketInv, n
    <3>3. s = o + 1
      BY <2>1, <3>1 DEF Spent
    <3> HIDE DEF s, o
    <3>4. ASSUME NEW i \in 1..(n + 1), NEW j \in 1..(n + 1), i <= n - o, j > n - o
          PROVE  log'[ip][j] - log'[ip][i] >= Minute
      <4>1. i \in 1..n /\ n \in 1..n /\ n > n - o
        BY <1>1, <3>2, <3>4
      <4>2. log[ip][n] - log[ip][i] >= Minute
        BY <3>2, <3>4, <4>1
      <4>3. CASE j = n + 1
        <5>1. clock - log[ip][i] >= Minute
          <6>1. /\ log[ip][n] \in Nat /\ log[ip][n] <= clock
                /\ log[ip][i] \in Nat /\ log[ip][i] <= log[ip][i]
            BY <1>6, <4>1
          <6> QED
            BY <1>1, <4>2, <6>1, LongerSpans
        <5> QED
          BY <1>4, <4>1, <4>3, <5>1
      <4>4. CASE j # n + 1
        <5>1. j \in 1..n
          BY <1>1, <4>4
        <5> QED
          BY <1>4, <3>2, <3>4, <4>1, <5>1
      <4> QED
        BY <4>3, <4>4
    <3> QED
      BY <1>1, <2>1, <3>2, <3>3, <3>4
  <2>5. ip \notin known \/ clock - bucket[ip].lastFill >= Minute
          \/ clock - bucket[ip].lastFill < Minute
    BY DEF TypeOK
  <2> QED
    BY <2>1, <2>2, <2>3, <2>4, <2>5
<1>9. BucketInv'
  <2> SUFFICES ASSUME NEW x \in Client
               PROVE  LET m == Len(log'[x]) IN
                      /\ x \notin known' => m = 0
                      /\ x \in known' =>
                           /\ bucket'[x].lastFill <= clock'
                           /\ Spent(x)' \in 1..m
                           /\ \A i \in 1..m : log'[x][i] <= bucket'[x].lastFill
                           /\ \A i, j \in 1..m : i <= m - Spent(x)' /\ j > m - Spent(x)'
                                => log'[x][j] - log'[x][i] >= Minute
    BY DEF BucketInv
  <2>1. CASE x = ip
    <3>1. ASSUME NEW i \in 1..(n + 1) PROVE log'[ip][i] <= clock
      <4>1. CASE i \in 1..n
        BY <1>4, <1>6, <4>1
      <4>2. CASE i = n + 1
        BY <1>1, <1>4, <4>2
      <4> QED
        BY <1>1, <4>1, <4>2
    <3>2. s = Capacity' - bucket'[ip].tokens /\ bucket'[ip].lastFill = clock
      BY <1>5, <1>8 DEF Capacity, PerMin
    <3>3. /\ s \in 1..(n + 1)
          /\ \A i, j \in 1..(n + 1) : i <= n + 1 - s /\ j > n + 1 - s
               => log'[ip][j] - log'[ip][i] >= Minute
      BY <1>8
    <3> HIDE DEF s
    <3>4. /\ Len(log'[x]) = n + 1 /\ x \in known' /\ log'[x] = log'[ip]
          /\ bucket'[x].lastFill = clock /\ Spent(x)' = s
      BY <1>4, <1>5, <2>1, <3>2 DEF Spent
    <3>5. clock' = clock
      BY <1>3
    <3> DEFINE top == n + 1
    <3>6. \A i, j \in 1..top : i <= top - s /\ j > top - s => log'[ip][j] - log'[ip][i] >= Minute
      BY <1>1, <3>3
    <3>7. Len(log'[x]) = top /\ s \in 1..top /\ \A i \in 1..top : log'[ip][i] <= clock
      BY <3>1, <3>3, <3>4
    <3>8. clock <= clock'
      BY <1>1, <3>5
    <3> HIDE DEF top
    <3> QED
      BY <3>4, <3>6, <3>7, <3>8
  <2>2. CASE x # ip
    <3>1. /\ log'[x] = log[x] /\ bucket'[x] = bucket[x] /\ (x \in known' <=> x \in known)
          /\ clock' = clock
      BY <1>3, <2>2 DEF TypeOK
    <3> QED
      BY <3>1 DEF BucketInv, Spent
  <2> QED
    BY <2>1, <2>2
<1>10. AtMostPerMinute'
  <2> SUFFICES ASSUME NEW x \in Client, NEW i \in 1..(Len(log'[x]) - PerMin)
               PROVE  log'[x][i + PerMin] - log'[x][i] >= Minute
    BY DEF AtMostPerMinute
  <2>1. CASE x = ip /\ i + PerMin = n + 1
    <3>1. i \in 1..(n + 1) /\ n + 1 \in 1..(n + 1)
      BY <1>1, <1>4, <2>1, PerMinPositive
    <3>2. i <= n + 1 - s /\ n + 1 > n + 1 - s
      <4> HIDE DEF s
      <4> QED
        BY <1>1, <1>8, <2>1, <3>1, PerMinPositive
    <3> HIDE DEF s
    <3>3. log'[ip][n + 1] - log'[ip][i] >= Minute
      BY <1>8, <3>1, <3>2
    <3> QED
      BY <2>1, <3>3
  <2>2. CASE x = ip /\ i + PerMin # n + 1
    <3>1. i \in 1..(n - PerMin) /\ i \in 1..n /\ i + PerMin \in 1..n
      BY <1>1, <1>4, <2>2, PerMinPositive
    <3> QED
      BY <1>4, <2>2, <3>1 DEF AtMostPerMinute, n
  <2>3. CASE x # ip
    <3>1. log'[x] = log[x]
      BY <1>3, <2>3 DEF TypeOK
    <3> QED
      BY <3>1 DEF AtMostPerMinute
  <2> QED
    BY <2>1, <2>2, <2>3
<1> QED
  BY <1>7, <1>9, <1>10

\* The inductive invariant of the buckets holds in every reachable state.
THEOREM InductiveCorrect == Spec => []Inductive
<1>1. Inductive /\ [Next]_vars => Inductive'
  <2> SUFFICES ASSUME Inductive, [Next]_vars PROVE Inductive'
    OBVIOUS
  <2>1. ASSUME Tick PROVE Inductive'
    <3>1. TypeOK'
      BY <2>1 DEF Tick, Inductive, TypeOK
    <3>2. BucketInv'
      BY <2>1 DEF Tick, Inductive, TypeOK, BucketInv, Spent
    <3>3. AtMostPerMinute'
      BY <2>1 DEF Tick, Inductive, AtMostPerMinute
    <3> QED
      BY <3>1, <3>2, <3>3 DEF Inductive
  <2>2. CASE UNCHANGED vars
    BY <2>2 DEF vars, Inductive, TypeOK, BucketInv, AtMostPerMinute, Spent
  <2> QED
    BY <2>1, <2>2, PassKeeps, RejectKeeps DEF Next
<1> QED
  BY <1>1, InitInductive, PTL DEF Spec

\* However a client spaces its requests, PerMin + 1 of those that
\* rate_limiter.go:45-56 lets through span at least a minute.
THEOREM NeverMoreThanPerMinute == Spec => []AtMostPerMinute
<1>1. Inductive => AtMostPerMinute
  BY DEF Inductive
<1> QED
  BY <1>1, InductiveCorrect, PTL

\* A client is turned away only after PerMin requests went through, and only
\* when it asked less than a minute before.
THEOREM OnlyTheBusyRejected == Spec => RejectsOnlyTheBusy
<1>1. Inductive /\ [Next]_vars =>
        [\A ip \in Client : Reject(ip) =>
           Len(log[ip]) >= PerMin /\ clock - bucket[ip].lastFill < Minute]_vars
  BY RejectKeeps
<1> QED
  BY <1>1, InductiveCorrect, PTL DEF Spec, RejectsOnlyTheBusy
===============================================================================

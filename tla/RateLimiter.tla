---------------------------- MODULE RateLimiter ----------------------------
(* The three rate-limiting strategies of one (API, API key) pair            *)
(* (app/services/rate_limit).  A strategy is a Lua script that Redis runs   *)
(* as one step; two of them are given the time by the gateway process that  *)
(* calls them, which reads its clock before the script is sent.  The model  *)
(* keeps these two moments apart.  A tick is the unit of Redis's PEXPIRE    *)
(* and of the stamps; tokens are counted in fractions of 1/Window.          *)
EXTENDS Integers, FiniteSets, FiniteSetsExt

CONSTANTS
    Procs,          \* gateway tasks that may be checking at the same time
    Requests,       \* rule.requests
    WindowSeconds,  \* rule.window_seconds
    Burst,          \* rule.burst, 0 when it is not set
    TickRate,       \* ticks in a second
    MaxDelay,       \* bound: ticks from reading the clock to running the script
    MaxTime,        \* bound: the last tick of the model
    MaxChecks       \* bound: how many scripts run

ASSUME RateLimiterAssumption ==
    /\ IsFiniteSet(Procs)
    /\ Requests \in Nat \ {0} /\ WindowSeconds \in Nat \ {0} /\ TickRate \in Nat \ {0}
    /\ Burst \in Nat /\ MaxDelay \in Nat /\ MaxTime \in Nat /\ MaxChecks \in Nat

VARIABLES
    algorithm, \* rule.algorithm
    clock,     \* now, for Redis and for the gateway processes
    sent,      \* sent[p]: the time p has stamped on the script it sent, or Idle
    fixed,     \* the key rl:fw: of the fixed window
    sliding,   \* the key rl:sw: of the sliding window
    bucket,    \* the key rl:tb: of the token bucket
    \* What only the properties read:
    checks,    \* scripts run so far
    admits,    \* the requests admitted: their number, stamp and time
    last,      \* the last answer given
    newest,    \* the latest stamp of a script that ran
    ordered    \* the scripts ran in the order of their stamps

vars == <<algorithm, clock, sent, fixed, sliding, bucket, checks, admits, last, newest, ordered>>

Algorithms == {"fixed_window", "sliding_window", "token_bucket"}
Idle == -1
Window == WindowSeconds * TickRate
Capacity == (IF Burst # 0 THEN Burst ELSE Requests) * Window
BucketTtl == (Capacity \div Requests) + TickRate

(* The keys, absent.  A key lives while the clock is before `until`. *)
NoFixed == [count |-> 0, until |-> 0]
NoSliding == [log |-> {}, until |-> 0]
NoBucket == [tokens |-> Capacity, ts |-> 0, until |-> 0]

CeilDiv(a, b) == -((-a) \div b)

-----------------------------------------------------------------------------
(* The scripts: the key they leave, their verdict and the ticks to wait. *)

Verdict(key, allowed, retry) == [key |-> key, allowed |-> allowed, retry |-> retry]

(* Faulty variant: PEXPIRE is given seconds, less than a tick. *)
FixedWindowUnscaled(key, now) ==
    LET current == key.count + 1
        until == IF current = 1 THEN now + 1 ELSE key.until
        allowed == current <= Requests
    IN  Verdict([count |-> current, until |-> until], allowed,
                IF allowed THEN 0 ELSE until - now)

(* INCR, PEXPIRE on the first, PTTL. *)
FixedWindow(key, now) ==
    LET current == key.count + 1
        until == IF current = 1 THEN now + Window ELSE key.until
        allowed == current <= Requests
    IN  Verdict([count |-> current, until |-> until], allowed,
                IF allowed THEN 0 ELSE until - now)

(* Faulty variant: `count <= limit`. *)
SlidingWindowLate(key, stamp, member, now) ==
    LET log == {e \in key.log : e.score > stamp - Window}
    IN  IF Cardinality(log) <= Requests
        THEN Verdict([log |-> log \cup {[score |-> stamp, member |-> member]},
                      until |-> now + Window], TRUE, 0)
        ELSE Verdict([key EXCEPT !.log = log], FALSE,
                     Min({e.score : e \in log}) + Window - stamp)

(* ZREMRANGEBYSCORE, ZCARD, then ZADD and PEXPIRE or the oldest score. *)
SlidingWindow(key, stamp, member, now) ==
    LET log == {e \in key.log : e.score > stamp - Window}
    IN  IF Cardinality(log) < Requests
        THEN Verdict([log |-> log \cup {[score |-> stamp, member |-> member]},
                      until |-> now + Window], TRUE, 0)
        ELSE Verdict([key EXCEPT !.log = log], FALSE,
                     Min({e.score : e \in log}) + Window - stamp)

(* Faulty variant: an idle bucket fills beyond its capacity. *)
RefilledUncapped(key, stamp) ==
    LET ts == IF key.until = 0 THEN stamp ELSE key.ts
    IN  key.tokens + Max({0, stamp - ts}) * Requests

(* Faulty variant: a stamp before ts takes tokens away. *)
RefilledNegative(key, stamp) ==
    LET ts == IF key.until = 0 THEN stamp ELSE key.ts
    IN  Min({Capacity, key.tokens + (stamp - ts) * Requests})

(* The tokens at `stamp`; an absent bucket is full. *)
Refilled(key, stamp) ==
    LET ts == IF key.until = 0 THEN stamp ELSE key.ts
    IN  Min({Capacity, key.tokens + Max({0, stamp - ts}) * Requests})

(* HMGET, refill, take a token if there is one, HSET, PEXPIRE. *)
TokenBucket(key, stamp, now) ==
    LET tokens == Refilled(key, stamp)
        allowed == tokens >= Window
    IN  Verdict([tokens |-> IF allowed THEN tokens - Window ELSE tokens,
                 ts |-> stamp, until |-> now + BucketTtl],
                allowed,
                IF allowed THEN 0 ELSE CeilDiv(Window - tokens, Requests))

(* Faulty variant: rounds the wait down. *)
FloorSeconds(ticks) == Max({0, ticks \div TickRate})

(* _ms_to_seconds_ceil *)
SecondsCeil(ticks) == Max({0, CeilDiv(ticks, TickRate)})

-----------------------------------------------------------------------------
Init ==
    /\ algorithm \in Algorithms
    /\ clock = 0
    /\ sent = [p \in Procs |-> Idle]
    /\ fixed = NoFixed
    /\ sliding = NoSliding
    /\ bucket = NoBucket
    /\ checks = 0
    /\ admits = {}
    /\ last = [allowed |-> TRUE, at |-> 0, retryAfter |-> 0]
    /\ newest = 0
    /\ ordered = TRUE

(* check reads time.time() and sends the script. *)
Send(p) ==
    /\ sent[p] = Idle
    /\ checks + Cardinality({q \in Procs : sent[q] # Idle}) < MaxChecks
    /\ sent' = [sent EXCEPT ![p] = clock]
    /\ UNCHANGED <<algorithm, clock, fixed, sliding, bucket, checks, admits, last, newest, ordered>>

(* Redis has run p's script, and check returns its RateLimitResult. *)
Answer(p, v) ==
    /\ sent' = [sent EXCEPT ![p] = Idle]
    /\ checks' = checks + 1
    /\ admits' = IF v.allowed
                 THEN admits \cup {[number |-> checks, stamp |-> sent[p], at |-> clock]}
                 ELSE admits
    /\ last' = [allowed |-> v.allowed, at |-> clock, retryAfter |-> SecondsCeil(v.retry)]
    /\ newest' = Max({newest, sent[p]})
    /\ ordered' = (ordered /\ newest <= sent[p])
    /\ UNCHANGED <<algorithm, clock>>

EvalFixed(p) ==
    /\ algorithm = "fixed_window" /\ sent[p] # Idle
    /\ LET v == FixedWindow(fixed, clock)
       IN  fixed' = v.key /\ Answer(p, v)
    /\ UNCHANGED <<sliding, bucket>>

EvalSliding(p) ==
    /\ algorithm = "sliding_window" /\ sent[p] # Idle
    /\ LET v == SlidingWindow(sliding, sent[p], checks, clock)
       IN  sliding' = v.key /\ Answer(p, v)
    /\ UNCHANGED <<fixed, bucket>>

EvalBucket(p) ==
    /\ algorithm = "token_bucket" /\ sent[p] # Idle
    /\ LET v == TokenBucket(bucket, sent[p], clock)
       IN  bucket' = v.key /\ Answer(p, v)
    /\ UNCHANGED <<fixed, sliding>>

(* A key whose TTL has run out at time t is gone. *)
KeyAt(key, absent, t) == IF key.until <= t THEN absent ELSE key

Tick ==
    /\ clock < MaxTime
    /\ \A p \in Procs : sent[p] # Idle => clock - sent[p] < MaxDelay
    /\ clock' = clock + 1
    /\ fixed' = KeyAt(fixed, NoFixed, clock')
    /\ sliding' = KeyAt(sliding, NoSliding, clock')
    /\ bucket' = KeyAt(bucket, NoBucket, clock')
    /\ UNCHANGED <<algorithm, sent, checks, admits, last, newest, ordered>>

Next ==
    \/ Tick
    \/ \E p \in Procs : Send(p) \/ EvalFixed(p) \/ EvalSliding(p) \/ EvalBucket(p)

Spec == Init /\ [][Next]_vars

-----------------------------------------------------------------------------
(* The types of all variables. *)
TypeOK ==
    /\ algorithm \in Algorithms
    /\ clock \in 0..MaxTime
    /\ sent \in [Procs -> 0..MaxTime \cup {Idle}]
    /\ fixed.count \in Nat /\ fixed.until \in Nat
    /\ \A e \in sliding.log : e.score \in 0..MaxTime /\ e.member \in Nat
    /\ sliding.until \in Nat
    /\ bucket.tokens \in 0..Capacity /\ bucket.ts \in 0..MaxTime /\ bucket.until \in Nat
    /\ checks \in 0..MaxChecks
    /\ \A a \in admits : a.number \in Nat /\ a.stamp \in 0..MaxTime /\ a.at \in 0..MaxTime
    /\ last.allowed \in BOOLEAN /\ last.at \in Nat /\ last.retryAfter \in Nat
    /\ newest \in 0..MaxTime /\ ordered \in BOOLEAN

(* "Fixed window: ... allows bursts at window edges": never more than two   *)
(* windows' worth in any Window ticks, however the requests fall.           *)
FixedWindowBurst ==
    algorithm = "fixed_window" =>
        \A t \in 0..MaxTime :
            Cardinality({a \in admits : a.at \in t..(t + Window - 1)}) <= 2 * Requests

(* The sliding log forgets an admitted request only once the stamp of some  *)
(* request is a window later.  As scripts arrive up to MaxDelay late, what  *)
(* the limiter guarantees is the limit in any Window - MaxDelay ticks.      *)
SlidingWindowLimit ==
    algorithm = "sliding_window" =>
        \A t \in 0..MaxTime :
            Cardinality({a \in admits : a.stamp \in t..(t + Window - MaxDelay - 1)}) <= Requests

(* In any span of time a token bucket admits its capacity and what it is    *)
(* refilled in that span, at most.                                          *)
BucketRate ==
    algorithm = "token_bucket" =>
        \A t \in 0..MaxTime : \A u \in t..MaxTime :
            Cardinality({a \in admits : a.stamp \in t..u}) * Window
                <= Capacity + (u - t) * Requests

(* That holds, expiry of the key included, as long as Redis has run the     *)
(* scripts in the order of their stamps.                                    *)
BucketRateInOrder == ordered => BucketRate

(* The answer of each script at time t, on the keys as they will be then if *)
(* no other request comes.                                                  *)
AdmitsAt(t) ==
    CASE algorithm = "fixed_window" ->
            FixedWindow(KeyAt(fixed, NoFixed, t), t).allowed
      [] algorithm = "sliding_window" ->
            SlidingWindow(KeyAt(sliding, NoSliding, t), t, checks, t).allowed
      [] algorithm = "token_bucket" ->
            TokenBucket(KeyAt(bucket, NoBucket, t), t, t).allowed

(* A caller who was refused and waits the retry_after it was given is       *)
(* admitted if nobody else has called since.                                *)
RetryAfterSuffices ==
    ~last.allowed =>
        LET t == last.at + last.retryAfter * TickRate
        IN  \A d \in {0, 1} : t + d >= clock => AdmitsAt(t + d)
=============================================================================

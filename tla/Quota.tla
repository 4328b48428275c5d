------------------------------- MODULE Quota -------------------------------
(* The quota counters of one API key (app/services/quota.py), as they live  *)
(* in Redis: one counter per period and calendar bucket, and its expiry.    *)
(* Time is in ticks, TickRate to the second, so that the truncation of a    *)
(* TTL to whole seconds is visible.  A key that is absent and a key that    *)
(* holds 0 are the same to INCR and DECR and are not told apart: see        *)
(* SetExpiry for the one command to which they differ.                      *)
EXTENDS Integers

CONSTANTS
    Limit,      \* quotas of the API: a function from its periods to max_requests
    TickRate,   \* ticks in a second
    DaySeconds, \* seconds in a day
    MonthDays,  \* days in a month
    StartTime,  \* the tick at which the model starts
    MaxTime     \* bound: the last tick of the model

Periods == DOMAIN Limit

ASSUME QuotaAssumption ==
    /\ Periods \subseteq {"daily", "monthly"}
    /\ \A p \in Periods : Limit[p] \in Nat \ {0}
    /\ TickRate \in Nat \ {0}
    /\ DaySeconds \in Nat \ {0}
    /\ MonthDays \in Nat \ {0}
    /\ MaxTime \in Nat
    /\ StartTime \in 0..MaxTime

VARIABLES
    clock,   \* now, in ticks since the first midnight
    counter, \* counter[p][b]: the value of quota:<key>:<p>:<b>
    expiry   \* expiry[p][b]: the tick at which that key expires, or NoTtl

quotaVars == <<clock, counter, expiry>>

(* What Redis answers to TTL for a key without expiry. *)
NoTtl == -1

Times == 0..MaxTime

DayTicks == DaySeconds * TickRate
Buckets == 0..(MaxTime \div DayTicks)
PeriodTicks(p) == IF p = "daily" THEN DayTicks ELSE MonthDays * DayTicks

(* The bucket part of the Redis key: the calendar day or month of `now`. *)
BucketOf(p, now) == now \div PeriodTicks(p)

(* The first tick after bucket b. *)
PeriodEnd(p, b) == (b + 1) * PeriodTicks(p)

(* The instant the TTL is computed to: 23:59:59 of the day, or the first    *)
(* instant of the next month.                                               *)
TtlTarget(p, now) ==
    PeriodEnd(p, BucketOf(p, now)) - (IF p = "daily" THEN TickRate ELSE 0)

(* max(1, int((end - now).total_seconds())) *)
TtlSeconds(p, now) ==
    LET whole == (TtlTarget(p, now) - now) \div TickRate
    IN  IF whole < 1 THEN 1 ELSE whole

QuotaInit ==
    /\ clock = StartTime
    /\ counter = [p \in Periods |-> [b \in Buckets |-> 0]]
    /\ expiry = [p \in Periods |-> [b \in Buckets |-> NoTtl]]

(* Faulty variant: a counter that DECR cannot take below zero. *)
AddToClamped(p, b, n) ==
    counter' = [counter EXCEPT ![p][b] = IF @ + n < 0 THEN 0 ELSE @ + n]

(* INCR and DECR by one. *)
AddTo(p, b, n) == counter' = [counter EXCEPT ![p][b] = @ + n]

(* Faulty variant: the TTL in seconds is taken for ticks. *)
SetExpiryInTicks(p, b, seconds) ==
    expiry' = [expiry EXCEPT ![p][b] = clock + seconds]

(* Faulty variant: the TTL is the distance from an instant to now. *)
SetExpiryBackwards(p, b, seconds) ==
    expiry' = [expiry EXCEPT ![p][b] = seconds * TickRate - clock]

(* EXPIRE key ttl: counted by Redis from the moment it runs the command.    *)
(* It does nothing to a key that is absent, which one without TTL that      *)
(* holds 0 may be.                                                          *)
SetExpiry(p, b, seconds) ==
    \/ expiry' = [expiry EXCEPT ![p][b] = clock + seconds * TickRate]
    \/ counter[p][b] = 0 /\ expiry[p][b] = NoTtl /\ UNCHANGED expiry

Expired(p, b, now) == expiry[p][b] # NoTtl /\ expiry[p][b] <= now

(* Faulty variant: off by one. *)
ExceededByTwo(p, used) == used > Limit[p] + 1

(* QuotaCheck.exceeded *)
Exceeded(p, used) == used > Limit[p]

(* Time passes; Redis drops the keys whose TTL has run out. *)
Tick ==
    /\ clock < MaxTime
    /\ clock' = clock + 1
    /\ counter' = [p \in Periods |-> [b \in Buckets |->
                      IF Expired(p, b, clock') THEN 0 ELSE counter[p][b]]]
    /\ expiry' = [p \in Periods |-> [b \in Buckets |->
                      IF Expired(p, b, clock') THEN NoTtl ELSE expiry[p][b]]]

QuotaTypeOK ==
    /\ clock \in Times
    /\ counter \in [Periods -> [Buckets -> Int]]
    /\ expiry \in [Periods -> [Buckets -> Nat \cup {NoTtl}]]
=============================================================================

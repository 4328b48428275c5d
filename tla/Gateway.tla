------------------------------ MODULE Gateway ------------------------------
(* The request pipeline of the gateway for the requests of one API key      *)
(* (app/api/gateway.py, app/services/gateway.py) over the quota counters of *)
(* module Quota: authenticate, resolve the version, rate limit, consume one *)
(* unit of every quota, forward upstream, give the units back when the      *)
(* request is not served, record the outcome in the request's transaction.  *)
(* Every await is a step, so requests interleave between any two Redis      *)
(* commands; a request can die, and a Redis call can fail, at any of them.  *)
EXTENDS Quota, FiniteSets

CONSTANT Reqs   \* the requests, each one task of some gateway process

ASSUME ReqsAssumption == IsFiniteSet(Reqs)

VARIABLES
    pc,       \* pc[r]: where request r is
    todo,     \* todo[r]: periods of list_for_api not yet consumed
    call,     \* call[r]: the period of the consume or rollback in progress and
              \* the `now` it has read, or NoCall
    consumed, \* consumed[r]: the list `consumed`, periods to give back on failure
    \* What only the properties read:
    unit,     \* unit[r][p]: where the unit r was charged lives, or Nowhere
    epoch,    \* epoch[p][b]: how often the key of bucket b has expired
    strayed,  \* strayed[p][b]: units given back to this key that it never gave out
    abandoned \* the counters <<p, b>> whose EXPIRE was never sent: the request that
              \* had to send it was aborted after its INCR

reqVars == <<pc, todo, call, consumed>>
ghostVars == <<unit, epoch, strayed, abandoned>>
vars == <<quotaVars, reqVars, ghostVars>>

Nowhere == [bucket |-> -1, epoch |-> -1, ok |-> FALSE]

(* Why proxy can answer before any quota is touched: authenticate, the slug *)
(* and version checks of handle, and _enforce_rate_limit.                   *)
Rejections == {"missing_api_key", "invalid_api_key", "api_disabled",
               "key_api_mismatch", "version_not_found", "rate_limited"}

Ended == {"rejected", "refused", "served", "unlogged", "aborted"}
Steps == {"new", "quota", "incr", "expire", "forward", "undo", "decr", "record"}

NoCall == [period |-> "none", now |-> 0]

Init ==
    /\ QuotaInit
    /\ pc = [r \in Reqs |-> "new"]
    /\ todo = [r \in Reqs |-> {}]
    /\ call = [r \in Reqs |-> NoCall]
    /\ consumed = [r \in Reqs |-> {}]
    /\ unit = [r \in Reqs |-> [p \in Periods |-> Nowhere]]
    /\ epoch = [p \in Periods |-> [b \in Buckets |-> 0]]
    /\ strayed = [p \in Periods |-> [b \in Buckets |-> 0]]
    /\ abandoned = {}

Goto(r, l) == pc' = [pc EXCEPT ![r] = l]

(* authenticate, version lookup and _enforce_rate_limit, which leave the    *)
(* quotas alone, and the query of list_for_api.                             *)
Admit(r) ==
    /\ pc[r] = "new"
    /\ \E answer \in Rejections \cup {"ok"} :
          IF answer = "ok"
          THEN /\ Goto(r, IF Periods = {} THEN "forward" ELSE "quota")
               /\ todo' = [todo EXCEPT ![r] = Periods]
          ELSE Goto(r, "rejected") /\ UNCHANGED todo
    /\ UNCHANGED <<quotaVars, call, consumed, ghostVars>>

(* A Redis call of r for period p: its bucket and TTL follow from the clock *)
(* as read here, before the command is sent.                                *)
BeginCall(r, p) == call' = [call EXCEPT ![r] = [period |-> p, now |-> clock]]
EndCall(r) == call' = [call EXCEPT ![r] = NoCall]

CallPeriod(r) == call[r].period
CallBucket(r) == BucketOf(call[r].period, call[r].now)

(* QuotaEnforcer.consume starts.  The query gives the quotas no order, so   *)
(* any of them may be next.                                                 *)
BeginConsume(r) ==
    /\ pc[r] = "quota"
    /\ \E p \in todo[r] :
          /\ BeginCall(r, p)
          /\ todo' = [todo EXCEPT ![r] = @ \ {p}]
    /\ Goto(r, "incr")
    /\ UNCHANGED <<quotaVars, consumed, ghostVars>>

(* Faulty variant: the quota that is exceeded is not noted. *)
CheckedAppendLate(r, used) ==
    LET over == Exceeded(CallPeriod(r), used)
    IN  /\ consumed' = [consumed EXCEPT ![r] = IF over THEN @ ELSE @ \cup {CallPeriod(r)}]
        /\ Goto(r, IF over THEN (IF consumed[r] = {} THEN "refused" ELSE "undo")
                   ELSE IF todo[r] = {} THEN "forward" ELSE "quota")
        /\ EndCall(r)

(* Faulty variant: return inside the loop, after the first quota. *)
CheckedFirstOnly(r, used) ==
    /\ consumed' = [consumed EXCEPT ![r] = @ \cup {CallPeriod(r)}]
    /\ Goto(r, IF Exceeded(CallPeriod(r), used) THEN "undo" ELSE "forward")
    /\ EndCall(r)

(* consume has returned: note the period, and stop at the first quota that  *)
(* is exceeded.                                                             *)
Checked(r, used) ==
    /\ consumed' = [consumed EXCEPT ![r] = @ \cup {CallPeriod(r)}]
    /\ Goto(r, IF Exceeded(CallPeriod(r), used) THEN "undo"
               ELSE IF todo[r] = {} THEN "forward" ELSE "quota")
    /\ EndCall(r)

(* A unit of the key of bucket b as it is now. *)
UnitOf(p, b, ok) == [bucket |-> b, epoch |-> epoch[p][b], ok |-> ok]

(* Faulty variant: no EXPIRE after the first INCR. *)
IncrForever(r) ==
    LET p == CallPeriod(r)
        b == CallBucket(r)
        used == counter[p][b] + 1
    IN  /\ pc[r] = "incr"
        /\ AddTo(p, b, 1)
        /\ unit' = [unit EXCEPT ![r][p] = UnitOf(p, b, ~Exceeded(p, used))]
        /\ Checked(r, used)
        /\ UNCHANGED <<clock, expiry, todo, epoch, strayed, abandoned>>

(* INCR; its reply is checked at once unless it is 1, which needs an EXPIRE *)
(* first.                                                                   *)
Incr(r) ==
    LET p == CallPeriod(r)
        b == CallBucket(r)
        used == counter[p][b] + 1
    IN  /\ pc[r] = "incr"
        /\ AddTo(p, b, 1)
        /\ unit' = [unit EXCEPT ![r][p] = UnitOf(p, b, ~Exceeded(p, used))]
        /\ IF used = 1
           THEN Goto(r, "expire") /\ UNCHANGED <<consumed, call>>
           ELSE Checked(r, used)
        /\ UNCHANGED <<clock, expiry, todo, epoch, strayed, abandoned>>

Expire(r) ==
    LET p == CallPeriod(r)
    IN  /\ pc[r] = "expire"
        /\ SetExpiry(p, CallBucket(r), TtlSeconds(p, call[r].now))
        /\ Checked(r, 1)
        /\ UNCHANGED <<clock, counter, todo, ghostVars>>

(* _forward: an answer of the upstream, whatever its status, is an outcome; *)
(* a timeout or a transport error gives the units back.                     *)
Forward(r) ==
    /\ pc[r] = "forward"
    /\ \/ Goto(r, "record")
       \/ Goto(r, IF consumed[r] = {} THEN "refused" ELSE "undo")
    /\ UNCHANGED <<quotaVars, todo, call, consumed, ghostVars>>

(* QuotaEnforcer.rollback starts and reads the clock again: the bucket it   *)
(* will decrement is that of now, not the one that was incremented.         *)
(* The list is in the order of consumption, which is any order.             *)
BeginUndo(r) ==
    /\ pc[r] = "undo"
    /\ \E p \in consumed[r] : BeginCall(r, p)
    /\ Goto(r, "decr")
    /\ UNCHANGED <<quotaVars, todo, consumed, ghostVars>>

(* The key of bucket b, as it is now, gave out the unit r is charged. *)
OwnUnit(r, p, b) ==
    unit[r][p].bucket = b /\ unit[r][p].epoch = epoch[p][b]

(* Faulty variant: the rollback loop does not end with its last period. *)
DecrNoEnd(r) ==
    LET p == CallPeriod(r)
        b == CallBucket(r)
    IN  /\ pc[r] = "decr"
        /\ AddTo(p, b, -1)
        /\ unit' = [unit EXCEPT ![r][p] = IF OwnUnit(r, p, b) THEN Nowhere ELSE @]
        /\ consumed' = [consumed EXCEPT ![r] = @ \ {p}]
        /\ Goto(r, "undo")
        /\ EndCall(r)
        /\ UNCHANGED <<clock, expiry, todo, epoch, strayed, abandoned>>

(* DECR: gives the unit back to whichever bucket the call has named. *)
Decr(r) ==
    LET p == CallPeriod(r)
        b == CallBucket(r)
    IN  /\ pc[r] = "decr"
        /\ AddTo(p, b, -1)
        /\ IF OwnUnit(r, p, b)
           THEN /\ unit' = [unit EXCEPT ![r][p] = Nowhere]
                /\ UNCHANGED strayed
           ELSE /\ strayed' = [strayed EXCEPT ![p][b] = @ + 1]
                /\ UNCHANGED unit
        /\ consumed' = [consumed EXCEPT ![r] = @ \ {p}]
        /\ Goto(r, IF consumed[r] = {p} THEN "refused" ELSE "undo")
        /\ EndCall(r)
        /\ UNCHANGED <<clock, expiry, todo, epoch, abandoned>>

(* RequestLogService.record and the commit of get_session succeed or fail   *)
(* as one: log row, usage row and outbox event, or none of them.            *)
Record(r) ==
    /\ pc[r] = "record"
    /\ \E l \in {"served", "unlogged"} : Goto(r, l)
    /\ UNCHANGED <<quotaVars, todo, call, consumed, ghostVars>>

(* The task is cancelled, its process dies, or a Redis command raises       *)
(* outside _forward: nothing catches that, and what was consumed stays      *)
(* consumed.  A command whose reply is lost has run before this step.       *)
Abort(r) ==
    /\ pc[r] \in Steps \ {"new"}
    /\ Goto(r, "aborted")
    /\ todo' = [todo EXCEPT ![r] = {}]
    /\ consumed' = [consumed EXCEPT ![r] = {}]
    /\ EndCall(r)
    /\ abandoned' = IF pc[r] = "expire" THEN abandoned \cup {<<CallPeriod(r), CallBucket(r)>>}
                    ELSE abandoned
    /\ UNCHANGED <<quotaVars, unit, epoch, strayed>>

(* Time passes.  A key that expires starts a new epoch of its bucket. *)
Elapse ==
    /\ Tick
    /\ epoch' = [p \in Periods |-> [b \in Buckets |->
                    epoch[p][b] + (IF Expired(p, b, clock') THEN 1 ELSE 0)]]
    /\ strayed' = [p \in Periods |-> [b \in Buckets |->
                    IF Expired(p, b, clock') THEN 0 ELSE strayed[p][b]]]
    /\ abandoned' = {k \in abandoned : ~Expired(k[1], k[2], clock')}
    /\ UNCHANGED <<reqVars, unit>>

Step(r) ==
    \/ Admit(r) \/ BeginConsume(r) \/ Incr(r) \/ Expire(r) \/ Forward(r)
    \/ BeginUndo(r) \/ Decr(r) \/ Record(r)

Next == Elapse \/ \E r \in Reqs : Step(r) \/ Abort(r)

Spec == Init /\ [][Next]_vars

(* Every call a request awaits ends.  The upstream's has a timeout          *)
(* (gateway_upstream_timeout_seconds); those of Redis and the database have *)
(* none, and are assumed to be answered or to fail, which is Abort.         *)
FairSpec == Spec /\ \A r \in Reqs : WF_vars(Step(r))

-----------------------------------------------------------------------------
Labels == Steps \cup Ended
Units == [bucket : Buckets \cup {-1}, epoch : Nat \cup {-1}, ok : BOOLEAN]

Calls == [period : Periods \cup {"none"}, now : Times]

(* The types of all variables. *)
TypeOK ==
    /\ QuotaTypeOK
    /\ pc \in [Reqs -> Labels]
    /\ todo \in [Reqs -> SUBSET Periods]
    /\ call \in [Reqs -> Calls]
    /\ consumed \in [Reqs -> SUBSET Periods]
    /\ unit \in [Reqs -> [Periods -> Units]]
    /\ epoch \in [Periods -> [Buckets -> Nat]]
    /\ strayed \in [Periods -> [Buckets -> Nat]]
    /\ abandoned \subseteq Periods \X Buckets

(* The requests whose unit the key of bucket b still counts. *)
Charged(p, b) == {r \in Reqs : OwnUnit(r, p, b)}

(* The requests that passed every quota check. *)
Passed == {r \in Reqs : pc[r] \in {"forward", "record", "served", "unlogged"}}

(* A Redis counter is the number of requests it is charged for, less the    *)
(* units that rollback gave back to it although it never gave them out.  No *)
(* interleaving of consume and rollback loses or doubles a unit.            *)
CounterAccounts ==
    \A p \in Periods, b \in Buckets :
        counter[p][b] = Cardinality(Charged(p, b)) - strayed[p][b]

(* As long as a counter key lives, the requests let through on it are at    *)
(* most max_requests, plus one for every unit of another bucket (or of an   *)
(* expired key) that a late rollback gave back to it.                       *)
CapPerCounter ==
    \A p \in Periods, b \in Buckets :
        Cardinality(Charged(p, b) \cap Passed) <= Limit[p] + strayed[p][b]

(* A request refused by a quota, or that the upstream never answered, does  *)
(* not stay charged in any quota of the current day or month.               *)
RefusedHoldsNothing ==
    \A r \in Reqs : pc[r] \in {"rejected", "refused"} =>
        \A p \in Periods : r \notin Charged(p, BucketOf(p, clock))

(* Every request the upstream answered was charged in every quota, and      *)
(* within each, also if its log could not be written.                       *)
AnsweredIsCharged ==
    \A r \in Reqs : pc[r] \in {"record", "served", "unlogged"} =>
        \A p \in Periods : unit[r][p].bucket # -1 /\ unit[r][p].ok

(* However its calls are delayed, a counter with a TTL outlives its period  *)
(* but for the last two seconds of a day and the last second of a month.    *)
ForgetWindow ==
    \A p \in Periods, b \in Buckets :
        expiry[p][b] # NoTtl =>
            expiry[p][b] > PeriodEnd(p, b) - (IF p = "daily" THEN 2 ELSE 1) * TickRate

(* A counter that would stay in Redis for ever is the work of a request     *)
(* that was aborted between INCR and EXPIRE of this very counter, or of a   *)
(* stray rollback to it, never of an interleaving of requests that run to   *)
(* their end or are aborted elsewhere.                                      *)
UntimedOnlyAfterFault ==
    \A p \in Periods, b \in Buckets :
        counter[p][b] # 0 /\ expiry[p][b] = NoTtl =>
            \/ <<p, b>> \in abandoned
            \/ strayed[p][b] > 0
            \/ \E r \in Reqs : /\ pc[r] = "expire" /\ CallPeriod(r) = p
                              /\ CallBucket(r) = b

(* Every request ends: the rollback loop and the quota loop terminate. *)
EveryRequestEnds == \A r \in Reqs : <>(pc[r] \in Ended)

(* services/quota.py: "Quotas cap total requests per API key over a         *)
(* calendar period (daily/monthly)."  The requests served on the units of   *)
(* one calendar bucket are at most max_requests.                            *)
CalendarCap ==
    \A p \in Periods, b \in Buckets :
        Cardinality({r \in Reqs : pc[r] = "served" /\ unit[r][p].bucket = b}) <= Limit[p]
=============================================================================

--------------------------- MODULE GatewayProofs ---------------------------
(* What holds of Gateway for every set of requests, every quota and every   *)
(* calendar.  The inductive invariant says, beside the types, that a        *)
(* counter is the number of units charged on it less the strays, that the   *)
(* units within the limit never exceed it, and where a request stands with  *)
(* each of its units.                                                       *)
EXTENDS Gateway, FiniteSetTheorems, TLAPS

-----------------------------------------------------------------------------
(* The calendar. *)

(* A period lasts at least a tick. *)
LEMMA PeriodPositive ==
    ASSUME NEW p \in Periods
    PROVE  PeriodTicks(p) \in Nat \ {0} /\ DayTicks \in Nat \ {0}
<1>1. DayTicks \in Nat \ {0}
  BY QuotaAssumption DEF DayTicks
<1>2. MonthDays * DayTicks \in Nat \ {0}
  BY <1>1, QuotaAssumption
<1> QED
  BY <1>1, <1>2 DEF PeriodTicks

(* Every tick of the model falls into a bucket that the counters have. *)
LEMMA BucketInRange ==
    ASSUME NEW p \in Periods, NEW t \in Times
    PROVE  BucketOf(p, t) \in Buckets
<1>1. DayTicks \in Nat \ {0} /\ MonthDays \in Nat \ {0}
  BY PeriodPositive, QuotaAssumption
<1>2. t \in Nat /\ MaxTime \in Nat /\ t <= MaxTime
  BY QuotaAssumption DEF Times
<1>3. t \div DayTicks \in Nat /\ t \div DayTicks <= MaxTime \div DayTicks
  <2> DEFINE D == DayTicks
  <2> HIDE DEF D
  <2>1. ASSUME D \in Nat \ {0}
        PROVE  t \div D \in Nat /\ t \div D <= MaxTime \div D
    BY <1>2, <2>1
  <2> QED BY <1>1, <2>1 DEF D
<1>4. t \div (MonthDays * DayTicks) \in Nat
      /\ t \div (MonthDays * DayTicks) <= t \div DayTicks
  <2> DEFINE D == DayTicks
             M == MonthDays
             q == t \div (M * D)
             s == t \div D
  <2>1. M * D \in Nat \ {0} BY <1>1
  <2>2. q \in Nat /\ q * (M * D) <= t BY <2>1, <1>2
  <2>3. s \in Nat /\ t < (s + 1) * D BY <1>1, <1>2
  <2>4. q * D <= q * (M * D) BY <1>1, <2>2
  <2>5. q * D < (s + 1) * D BY <2>2, <2>3, <2>4, <1>1, <1>2
  <2>6. q <= s BY <2>5, <2>2, <2>3, <1>1
  <2> QED BY <2>2, <2>6
<1>5. MaxTime \div DayTicks \in Nat
  BY <1>1, <1>2
<1> QED
  BY <1>1, <1>3, <1>4, <1>5 DEF BucketOf, PeriodTicks, Buckets

(* A key that EXPIRE is told to keep for TtlSeconds(p, t), at t or later,   *)
(* lives until the last two seconds of its day or the last of its month.    *)
LEMMA TtlReach ==
    ASSUME NEW p \in Periods, NEW t \in Nat, NEW now \in Nat, t <= now
    PROVE  /\ TtlSeconds(p, t) \in Nat
           /\ now + TtlSeconds(p, t) * TickRate \in Nat
           /\ now + TtlSeconds(p, t) * TickRate
                > PeriodEnd(p, BucketOf(p, t)) - (IF p = "daily" THEN 2 ELSE 1) * TickRate
<1> DEFINE P == PeriodEnd(p, BucketOf(p, t))
           R == TickRate
           whole == (TtlTarget(p, t) - t) \div R
<1>1. R \in Nat \ {0} /\ PeriodTicks(p) \in Nat \ {0}
  BY PeriodPositive, QuotaAssumption
<1>2. P \in Int
  BY <1>1 DEF PeriodEnd, BucketOf
<1>3. TtlTarget(p, t) \in Int /\ TtlTarget(p, t) >= P - (IF p = "daily" THEN R ELSE 0)
  BY <1>1, <1>2 DEF TtlTarget
<1>4. whole \in Int /\ whole * R > TtlTarget(p, t) - t - R
  <2> DEFINE d == TtlTarget(p, t) - t
  <2>1. d \in Int BY <1>3
  <2> HIDE DEF d
  <2>2. d \div R \in Int /\ (d \div R) * R > d - R
    BY <2>1, <1>1
  <2> QED BY <2>2 DEF d
<1>5. TtlSeconds(p, t) = IF whole < 1 THEN 1 ELSE whole
  BY DEF TtlSeconds
<1>6. TtlSeconds(p, t) \in Nat /\ TtlSeconds(p, t) * R \in Nat
      /\ TtlSeconds(p, t) * R >= whole * R
  <2>1. CASE whole < 1
    <3>1. whole * R <= R BY <2>1, <1>4, <1>1
    <3> QED BY <3>1, <2>1, <1>4, <1>5, <1>1
  <2>2. CASE whole >= 1
    <3>1. whole \in Nat /\ whole * R \in Nat BY <2>2, <1>4, <1>1
    <3> QED BY <3>1, <2>2, <1>5
  <2> QED BY <2>1, <2>2, <1>4
<1> HIDE DEF whole, P
<1>7. t + TtlSeconds(p, t) * R > P - (IF p = "daily" THEN R ELSE 0) - R
  <2> DEFINE a == TtlSeconds(p, t) * R
             w == whole * R
  <2>1. a \in Nat /\ w \in Int BY <1>6, <1>4, <1>1
  <2>2. a >= w /\ w > TtlTarget(p, t) - t - R BY <1>6, <1>4
  <2> HIDE DEF a, w
  <2>3. t + a > P - (IF p = "daily" THEN R ELSE 0) - R
    BY <2>1, <2>2, <1>3, <1>2, <1>1
  <2> QED BY <2>3 DEF a
<1>8. (IF p = "daily" THEN R ELSE 0) + R = (IF p = "daily" THEN 2 ELSE 1) * R
  BY <1>1
<1> QED
  <2> DEFINE a == TtlSeconds(p, t) * R
             k == (IF p = "daily" THEN 2 ELSE 1) * R
             j == IF p = "daily" THEN R ELSE 0
  <2>1. a \in Nat /\ k \in Int /\ j \in Int /\ j + R = k BY <1>6, <1>8, <1>1
  <2>2. t + a > P - j - R BY <1>7
  <2> HIDE DEF a, k, j
  <2>3. now + a \in Nat /\ now + a > P - k BY <2>1, <2>2, <1>2, <1>1
  <2> QED BY <2>3, <1>6 DEF a, k, P

-----------------------------------------------------------------------------
(* The inductive invariant. *)

(* The units that were within the limit when they were charged. *)
Within(p, b) == {r \in Charged(p, b) : unit[r][p].ok}

WithinCap ==
    \A p \in Periods, b \in Buckets :
        Cardinality(Within(p, b)) <= Limit[p] + strayed[p][b]

(* No unit is of a later epoch than its key. *)
EpochOrder ==
    \A r \in Reqs, p \in Periods, b \in Buckets :
        unit[r][p].bucket = b => unit[r][p].epoch <= epoch[p][b]

(* A Redis call in progress has a period and read the clock earlier. *)
CallOK ==
    \A r \in Reqs :
        /\ pc[r] \in {"incr", "expire", "decr"} => call[r].period \in Periods
        /\ call[r].now <= clock

(* A quota still to be consumed is not charged yet. *)
Uncharged ==
    \A r \in Reqs, p \in Periods :
        \/ pc[r] = "new"
        \/ pc[r] \in {"quota", "incr", "expire"} /\ p \in todo[r]
        \/ pc[r] = "incr" /\ p = call[r].period
        => unit[r][p] = Nowhere

(* A quota left behind by a request that goes on is charged and within the  *)
(* limit.                                                                   *)
Cleared ==
    \A r \in Reqs, p \in Periods :
        \/ pc[r] \in {"quota", "expire"} /\ p \notin todo[r]
        \/ pc[r] = "incr" /\ p \notin todo[r] /\ p # call[r].period
        \/ pc[r] \in {"forward", "record", "served", "unlogged"}
        => unit[r][p].bucket # -1 /\ unit[r][p].ok

(* What a request has noted, and that a call in progress is not in todo. *)
CallNotTodo ==
    \A r \in Reqs :
        pc[r] \in {"incr", "expire"} => call[r].period \notin todo[r]

Inv ==
    /\ TypeOK
    /\ CounterAccounts
    /\ WithinCap
    /\ EpochOrder
    /\ CallOK
    /\ Uncharged
    /\ Cleared
    /\ CallNotTodo
    /\ ForgetWindow

USE DEF Nowhere, NoCall, NoTtl

(* The accounting of the counters reads only these four variables. *)
LEMMA QuietAccounts ==
    ASSUME Inv, UNCHANGED <<counter, unit, epoch, strayed>>
    PROVE  CounterAccounts' /\ WithinCap' /\ EpochOrder'
<1>1. \A p, b : Charged(p, b)' = Charged(p, b) /\ Within(p, b)' = Within(p, b)
  BY DEF Charged, Within, OwnUnit
<1>2. CounterAccounts'
  BY <1>1 DEF Inv, CounterAccounts
<1>3. WithinCap'
  BY <1>1 DEF Inv, WithinCap
<1>4. EpochOrder'
  BY DEF Inv, EpochOrder
<1> QED
  BY <1>2, <1>3, <1>4

(* The charged requests are finitely many. *)
LEMMA ChargedFinite ==
    ASSUME NEW p, NEW b
    PROVE  /\ IsFiniteSet(Charged(p, b)) /\ Cardinality(Charged(p, b)) \in Nat
           /\ IsFiniteSet(Within(p, b)) /\ Cardinality(Within(p, b)) \in Nat
           /\ Cardinality(Within(p, b)) <= Cardinality(Charged(p, b))
<1>1. Charged(p, b) \in SUBSET Reqs /\ Within(p, b) \in SUBSET Charged(p, b)
  BY DEF Charged, Within
<1>2. IsFiniteSet(Charged(p, b))
  BY <1>1, FS_Subset, ReqsAssumption
<1>3. IsFiniteSet(Within(p, b)) /\ Cardinality(Within(p, b)) <= Cardinality(Charged(p, b))
  BY <1>1, <1>2, FS_Subset
<1> QED
  BY <1>2, <1>3, FS_CardinalityType
(* Inv holds initially. *)
LEMMA InitInv == Init => Inv
<1> SUFFICES ASSUME Init PROVE Inv
  OBVIOUS
<1> USE DEF Init, QuotaInit
<1>1. TypeOK
  <2>1. QuotaTypeOK
    BY QuotaAssumption DEF QuotaTypeOK, Times
  <2>2. pc \in [Reqs -> Labels] /\ todo \in [Reqs -> SUBSET Periods]
        /\ consumed \in [Reqs -> SUBSET Periods]
    BY DEF Labels, Steps
  <2>3. NoCall \in Calls
    BY QuotaAssumption DEF Calls, Times
  <2>4. call \in [Reqs -> Calls]
    BY <2>3
  <2>5. Nowhere \in Units
    BY DEF Units
  <2>6. unit \in [Reqs -> [Periods -> Units]]
    BY <2>5
  <2>7. epoch \in [Periods -> [Buckets -> Nat]] /\ strayed \in [Periods -> [Buckets -> Nat]]
    OBVIOUS
  <2> QED
    BY <2>1, <2>2, <2>4, <2>6, <2>7 DEF TypeOK
<1>2. \A p \in Periods, b \in Buckets : Charged(p, b) = {} /\ Within(p, b) = {}
  BY DEF Charged, Within, OwnUnit, Buckets
<1> DEFINE none == Cardinality({})
<1>0. none = 0
  BY FS_EmptySet
<1>3. CounterAccounts
  <2> SUFFICES ASSUME NEW p \in Periods, NEW b \in Buckets
               PROVE  counter[p][b] = none - strayed[p][b]
    BY <1>2 DEF CounterAccounts
  <2> HIDE DEF none
  <2> QED BY <1>0
<1>4. WithinCap
  <2> SUFFICES ASSUME NEW p \in Periods, NEW b \in Buckets
               PROVE  none <= Limit[p] + strayed[p][b]
    BY <1>2 DEF WithinCap
  <2> HIDE DEF none
  <2> QED BY <1>0, QuotaAssumption
<1>5. EpochOrder /\ ForgetWindow
  BY DEF EpochOrder, ForgetWindow
<1>6. CallOK /\ Uncharged /\ Cleared /\ CallNotTodo
  BY QuotaAssumption DEF CallOK, Uncharged, Cleared, CallNotTodo
<1> QED
  BY <1>1, <1>3, <1>4, <1>5, <1>6 DEF Inv

(* Inv is preserved by authenticate to list_for_api. *)
LEMMA AdmitInv ==
    ASSUME Inv, NEW r \in Reqs, Admit(r)
    PROVE  Inv'
<1> USE DEF Inv, Admit, Goto, quotaVars, ghostVars
<1>1. TypeOK'
  <2>1. PICK l \in {"forward", "quota", "rejected"} : pc' = [pc EXCEPT ![r] = l]
    BY Zenon
  <2>2. pc' \in [Reqs -> Labels]
    BY <2>1 DEF TypeOK, Labels, Steps, Ended
  <2>3. todo' \in [Reqs -> SUBSET Periods]
    BY DEF TypeOK
  <2> QED
    BY <2>2, <2>3 DEF TypeOK, QuotaTypeOK
<1>2. CounterAccounts' /\ WithinCap' /\ EpochOrder'
  BY QuietAccounts
<1>3. CallOK' /\ CallNotTodo' /\ ForgetWindow'
  BY DEF TypeOK, CallOK, CallNotTodo, ForgetWindow, PeriodEnd
<1>4. Uncharged'
  BY DEF TypeOK, Uncharged
<1>5. Cleared'
  BY DEF TypeOK, Cleared
<1> QED
  BY <1>1, <1>2, <1>3, <1>4, <1>5 DEF Inv

(* Inv is preserved by the start of consume. *)
LEMMA BeginConsumeInv ==
    ASSUME Inv, NEW r \in Reqs, BeginConsume(r)
    PROVE  Inv'
<1> USE DEF Inv, BeginConsume, BeginCall, Goto, quotaVars, ghostVars
<1>1. TypeOK'
  BY DEF TypeOK, QuotaTypeOK, Labels, Steps, Ended, Calls
<1>2. CounterAccounts' /\ WithinCap' /\ EpochOrder'
  BY QuietAccounts
<1>3. CallOK' /\ CallNotTodo' /\ ForgetWindow'
  BY DEF TypeOK, QuotaTypeOK, Times, CallOK, CallNotTodo, ForgetWindow, PeriodEnd
<1>4. Uncharged'
  BY DEF TypeOK, Uncharged
<1>5. Cleared'
  BY DEF TypeOK, Cleared
<1> QED
  BY <1>1, <1>2, <1>3, <1>4, <1>5 DEF Inv

(* Inv is preserved by _forward. *)
LEMMA ForwardInv ==
    ASSUME Inv, NEW r \in Reqs, Forward(r)
    PROVE  Inv'
<1> USE DEF Inv, Forward, Goto, quotaVars, ghostVars
<1>1. TypeOK'
  BY DEF TypeOK, QuotaTypeOK, Labels, Steps, Ended
<1>2. CounterAccounts' /\ WithinCap' /\ EpochOrder'
  BY QuietAccounts
<1>3. CallOK' /\ CallNotTodo' /\ ForgetWindow'
  BY DEF TypeOK, CallOK, CallNotTodo, ForgetWindow, PeriodEnd
<1>4. Uncharged'
  BY DEF TypeOK, Uncharged
<1>5. Cleared'
  BY DEF TypeOK, Cleared
<1> QED
  BY <1>1, <1>2, <1>3, <1>4, <1>5 DEF Inv

(* Inv is preserved by the start of rollback. *)
LEMMA BeginUndoInv ==
    ASSUME Inv, NEW r \in Reqs, BeginUndo(r)
    PROVE  Inv'
<1> USE DEF Inv, BeginUndo, BeginCall, Goto, quotaVars, ghostVars
<1>1. TypeOK'
  BY DEF TypeOK, QuotaTypeOK, Labels, Steps, Ended, Calls
<1>2. CounterAccounts' /\ WithinCap' /\ EpochOrder'
  BY QuietAccounts
<1>3. CallOK' /\ CallNotTodo' /\ ForgetWindow'
  BY DEF TypeOK, QuotaTypeOK, Times, CallOK, CallNotTodo, ForgetWindow, PeriodEnd
<1>4. Uncharged'
  BY DEF TypeOK, Uncharged
<1>5. Cleared'
  BY DEF TypeOK, Cleared
<1> QED
  BY <1>1, <1>2, <1>3, <1>4, <1>5 DEF Inv

(* Inv is preserved by the log write and its commit. *)
LEMMA RecordInv ==
    ASSUME Inv, NEW r \in Reqs, Record(r)
    PROVE  Inv'
<1> USE DEF Inv, Record, Goto, quotaVars, ghostVars
<1>1. TypeOK'
  BY DEF TypeOK, QuotaTypeOK, Labels, Steps, Ended
<1>2. CounterAccounts' /\ WithinCap' /\ EpochOrder'
  BY QuietAccounts
<1>3. CallOK' /\ CallNotTodo' /\ ForgetWindow'
  BY DEF TypeOK, CallOK, CallNotTodo, ForgetWindow, PeriodEnd
<1>4. Uncharged'
  BY DEF TypeOK, Uncharged
<1>5. Cleared'
  BY DEF TypeOK, Cleared
<1> QED
  BY <1>1, <1>2, <1>3, <1>4, <1>5 DEF Inv

(* Inv is preserved by a cancelled or crashed request. *)
LEMMA AbortInv ==
    ASSUME Inv, NEW r \in Reqs, Abort(r)
    PROVE  Inv'
<1>0. abandoned' \subseteq Periods \X Buckets
  <2>0. abandoned \subseteq Periods \X Buckets
    BY DEF Inv, TypeOK
  <2>1. CASE pc[r] = "expire"
    <3>1. CallPeriod(r) \in Periods /\ call[r].now \in Times
      BY <2>1 DEF Inv, CallOK, CallPeriod, TypeOK, Calls
    <3>2. CallBucket(r) \in Buckets
      BY <3>1, BucketInRange DEF CallBucket, CallPeriod
    <3>3. abandoned' = abandoned \cup {<<CallPeriod(r), CallBucket(r)>>}
      BY <2>1 DEF Abort
    <3> QED BY <2>0, <3>1, <3>2, <3>3
  <2>2. CASE pc[r] # "expire"
    BY <2>0, <2>2 DEF Abort
  <2> QED BY <2>1, <2>2
<1> USE DEF Inv, Abort, EndCall, Goto, quotaVars
<1>1. TypeOK'
  <2>1. /\ QuotaTypeOK' /\ pc' \in [Reqs -> Labels] /\ todo' \in [Reqs -> SUBSET Periods]
        /\ call' \in [Reqs -> Calls] /\ consumed' \in [Reqs -> SUBSET Periods]
        /\ UNCHANGED <<unit, epoch, strayed, clock>>
    BY QuotaAssumption DEF TypeOK, QuotaTypeOK, Labels, Steps, Ended, Calls, Times
  <2> QED BY <1>0, <2>1 DEF TypeOK
<1>2. CounterAccounts' /\ WithinCap' /\ EpochOrder'
  BY QuietAccounts
<1>3. CallOK' /\ CallNotTodo' /\ ForgetWindow'
  BY DEF TypeOK, QuotaTypeOK, Times, CallOK, CallNotTodo, ForgetWindow, PeriodEnd
<1>4. Uncharged'
  BY DEF TypeOK, Uncharged, Steps
<1>5. Cleared'
  BY DEF TypeOK, Cleared, Steps
<1> QED
  BY <1>1, <1>2, <1>3, <1>4, <1>5 DEF Inv

(* The steps that change a counter or a unit. *)

(* Inv is preserved by INCR. *)
LEMMA IncrInv ==
    ASSUME Inv, NEW r \in Reqs, Incr(r)
    PROVE  Inv'
<1> DEFINE p == CallPeriod(r)
           b == CallBucket(r)
           used == counter[p][b] + 1
           u == UnitOf(p, b, ~Exceeded(p, used))
<1> USE DEF Inv
<1>1. p \in Periods /\ b \in Buckets /\ call[r].now \in Times
  <2>1. p \in Periods /\ call[r].now \in Times
    BY DEF Incr, CallOK, CallPeriod, TypeOK, Calls
  <2> QED BY <2>1, BucketInRange DEF CallBucket, CallPeriod
<1>2. used \in Int /\ epoch[p][b] \in Nat /\ Limit[p] \in Nat \ {0} /\ strayed[p][b] \in Nat
  <2> HIDE DEF p, b
  <2>1. counter[p][b] \in Int /\ epoch[p][b] \in Nat /\ strayed[p][b] \in Nat
    BY <1>1 DEF TypeOK, QuotaTypeOK
  <2> QED BY <2>1, <1>1, QuotaAssumption
<1>3. /\ counter' = [counter EXCEPT ![p][b] = used]
      /\ unit' = [unit EXCEPT ![r][p] = u]
      /\ UNCHANGED <<clock, expiry, todo, epoch, strayed, abandoned>>
      /\ pc[r] = "incr"
  BY DEF Incr, AddTo
<1>4. \/ /\ used = 1 /\ pc' = [pc EXCEPT ![r] = "expire"] /\ UNCHANGED <<consumed, call>>
      \/ /\ consumed' = [consumed EXCEPT ![r] = @ \cup {p}]
         /\ call' = [call EXCEPT ![r] = NoCall]
         /\ used # 1
         /\ \/ Exceeded(p, used) /\ pc' = [pc EXCEPT ![r] = "undo"]
            \/ ~Exceeded(p, used) /\ todo[r] = {} /\ pc' = [pc EXCEPT ![r] = "forward"]
            \/ ~Exceeded(p, used) /\ todo[r] # {} /\ pc' = [pc EXCEPT ![r] = "quota"]
  BY DEF Incr, Checked, Goto, EndCall
<1>5. u = [bucket |-> b, epoch |-> epoch[p][b], ok |-> ~Exceeded(p, used)]
  BY DEF UnitOf
<1>6. u \in Units /\ u.bucket = b /\ u.epoch = epoch[p][b] /\ (u.ok <=> ~(used > Limit[p]))
  <2> HIDE DEF u, p, b, used
  <2>1. (~Exceeded(p, used)) \in BOOLEAN
    BY DEF Exceeded
  <2>2. u \in Units
    BY <1>5, <1>1, <1>2, <2>1 DEF Units
  <2>3. u.ok = (~Exceeded(p, used))
    BY <1>5
  <2> QED
    BY <1>5, <2>2, <2>3 DEF Exceeded
<1>7. unit[r][p] = Nowhere
  BY <1>1, <1>3 DEF Uncharged, CallPeriod
<1>8. u.bucket # -1
  BY <1>6, <1>1 DEF Buckets
<1> HIDE DEF p, b, used, u
<1>9. TypeOK'
  <2>1. QuotaTypeOK'
    BY <1>1, <1>2, <1>3 DEF TypeOK, QuotaTypeOK
  <2>2. pc' \in [Reqs -> Labels]
    BY <1>4 DEF TypeOK, Labels, Steps
  <2>3. NoCall \in Calls
    BY QuotaAssumption DEF Calls, Times
  <2>4. call' \in [Reqs -> Calls] /\ consumed' \in [Reqs -> SUBSET Periods]
    <3>1. call' \in [Reqs -> Calls]
      BY <1>4, <2>3 DEF TypeOK
    <3>2. consumed[r] \cup {p} \in SUBSET Periods
      BY <1>1 DEF TypeOK
    <3>3. consumed' = consumed \/ consumed' = [consumed EXCEPT ![r] = consumed[r] \cup {p}]
      BY <1>4
    <3>4. consumed' \in [Reqs -> SUBSET Periods]
      BY <3>2, <3>3 DEF TypeOK
    <3> QED BY <3>1, <3>4
  <2>5. unit' \in [Reqs -> [Periods -> Units]]
    BY <1>3, <1>1, <1>6 DEF TypeOK
  <2> QED
    BY <2>1, <2>2, <2>4, <2>5, <1>3 DEF TypeOK
<1>10. \A q \in Periods, c \in Buckets :
          /\ q = p /\ c = b => /\ Charged(q, c)' = Charged(q, c) \cup {r}
                              /\ r \notin Charged(q, c)
                              /\ Within(q, c)' = Within(q, c) \cup (IF u.ok THEN {r} ELSE {})
                              /\ r \notin Within(q, c)
          /\ ~(q = p /\ c = b) => /\ Charged(q, c)' = Charged(q, c)
                                 /\ Within(q, c)' = Within(q, c)
  <2> SUFFICES ASSUME NEW q \in Periods, NEW c \in Buckets
               PROVE  /\ q = p /\ c = b => /\ Charged(q, c)' = Charged(q, c) \cup {r}
                                          /\ r \notin Charged(q, c)
                                          /\ Within(q, c)' = Within(q, c) \cup (IF u.ok THEN {r} ELSE {})
                                          /\ r \notin Within(q, c)
                      /\ ~(q = p /\ c = b) => /\ Charged(q, c)' = Charged(q, c)
                                             /\ Within(q, c)' = Within(q, c)
    OBVIOUS
  <2>1. c # -1 BY DEF Buckets
  <2>2. \A x \in Reqs : unit'[x][q] = IF x = r /\ q = p THEN u ELSE unit[x][q]
    BY <1>1, <1>3 DEF TypeOK
  <2> QED
    BY <2>1, <2>2, <1>3, <1>6, <1>7 DEF Charged, Within, OwnUnit
<1>11. CounterAccounts'
  <2> SUFFICES ASSUME NEW q \in Periods, NEW c \in Buckets
               PROVE  counter'[q][c] = Cardinality(Charged(q, c)') - strayed[q][c]
    BY <1>3 DEF CounterAccounts
  <2>1. counter[q][c] = Cardinality(Charged(q, c)) - strayed[q][c]
    BY DEF CounterAccounts
  <2>2. CASE q = p /\ c = b
    <3>1. Cardinality(Charged(q, c)') = Cardinality(Charged(q, c)) + 1
      BY <2>2, <1>10, ChargedFinite, FS_AddElement
    <3> QED
      BY <3>1, <2>1, <2>2, <1>1, <1>2, <1>3, ChargedFinite DEF TypeOK, QuotaTypeOK, used
  <2>3. CASE ~(q = p /\ c = b)
    BY <2>1, <2>3, <1>10, <1>1, <1>3 DEF TypeOK, QuotaTypeOK
  <2> QED BY <2>2, <2>3
<1>12. WithinCap'
  <2> SUFFICES ASSUME NEW q \in Periods, NEW c \in Buckets
               PROVE  Cardinality(Within(q, c)') <= Limit[q] + strayed[q][c]
    BY <1>3 DEF WithinCap
  <2>1. Cardinality(Within(q, c)) <= Limit[q] + strayed[q][c]
    BY DEF WithinCap
  <2>2. CASE q = p /\ c = b /\ u.ok
    <3>1. Cardinality(Within(q, c)') = Cardinality(Within(q, c)) + 1
      BY <2>2, <1>10, ChargedFinite, FS_AddElement
    <3>2. counter[q][c] = Cardinality(Charged(q, c)) - strayed[q][c]
      BY DEF CounterAccounts
    <3>3. counter[q][c] + 1 <= Limit[q]
      BY <2>2, <1>6, <1>2 DEF used
    <3> QED
      BY <3>1, <3>2, <3>3, <2>2, <1>2, ChargedFinite
  <2>3. CASE ~(q = p /\ c = b /\ u.ok)
    <3>1. Within(q, c)' = Within(q, c)
      BY <2>3, <1>10
    <3> QED BY <3>1, <2>1
  <2> QED BY <2>2, <2>3
<1>13. EpochOrder'
  <2> SUFFICES ASSUME NEW x \in Reqs, NEW q \in Periods, NEW c \in Buckets,
                      unit'[x][q].bucket = c
               PROVE  unit'[x][q].epoch <= epoch[q][c]
    BY <1>3 DEF EpochOrder
  <2>1. unit'[x][q] = IF x = r /\ q = p THEN u ELSE unit[x][q]
    BY <1>1, <1>3 DEF TypeOK
  <2> QED
    BY <2>1, <1>6, <1>2 DEF EpochOrder
<1>14. CallOK'
  BY <1>3, <1>4 DEF CallOK, TypeOK, QuotaTypeOK, Times
<1>15. Uncharged'
  BY <1>1, <1>3, <1>4, <1>6 DEF Uncharged, TypeOK, CallNotTodo, p, CallPeriod
<1>16. Cleared'
  <2> SUFFICES ASSUME NEW x \in Reqs, NEW q \in Periods,
                      \/ pc'[x] \in {"quota", "expire"} /\ q \notin todo[x]
                      \/ pc'[x] = "incr" /\ q \notin todo[x] /\ q # call'[x].period
                      \/ pc'[x] \in {"forward", "record", "served", "unlogged"}
               PROVE  unit'[x][q].bucket # -1 /\ unit'[x][q].ok
    BY <1>3 DEF Cleared
  <2>1. unit'[x][q] = IF x = r /\ q = p THEN u ELSE unit[x][q]
    BY <1>1, <1>3 DEF TypeOK
  <2>2. CASE x # r
    <3>1. pc'[x] = pc[x] /\ call'[x] = call[x]
      BY <2>2, <1>4 DEF TypeOK
    <3> QED BY <3>1, <2>1, <2>2 DEF Cleared
  <2>3. CASE x = r
    <3>1. ~(used > Limit[p])
      <4>1. pc'[r] # "undo"
        BY <2>3
      <4>2. used = 1 \/ ~Exceeded(p, used)
        BY <4>1, <1>4 DEF TypeOK
      <4> QED BY <4>2, <1>2 DEF Exceeded
    <3>2. q \notin todo[r]
      BY <2>3, <1>4 DEF TypeOK
    <3>3. CASE q = p
      BY <3>1, <3>3, <2>1, <2>3, <1>6, <1>8
    <3>4. CASE q # p
      BY <3>2, <3>4, <2>1, <2>3, <1>3 DEF Cleared, p, CallPeriod
    <3> QED BY <3>3, <3>4
  <2> QED BY <2>2, <2>3
<1>17. CallNotTodo'
  BY <1>3, <1>4 DEF CallNotTodo, TypeOK
<1>18. ForgetWindow'
  BY <1>3 DEF ForgetWindow, PeriodEnd
<1> QED
  BY <1>9, <1>11, <1>12, <1>13, <1>14, <1>15, <1>16, <1>17, <1>18 DEF Inv

(* Inv is preserved by EXPIRE. *)
LEMMA ExpireInv ==
    ASSUME Inv, NEW r \in Reqs, Expire(r)
    PROVE  Inv'
<1> DEFINE p == CallPeriod(r)
           b == CallBucket(r)
           until == clock + TtlSeconds(p, call[r].now) * TickRate
<1> USE DEF Inv
<1>1. p \in Periods /\ b \in Buckets /\ call[r].now \in Times /\ call[r].now <= clock
  <2>1. p \in Periods /\ call[r].now \in Times /\ call[r].now <= clock
    BY DEF Expire, CallOK, CallPeriod, TypeOK, Calls
  <2> QED BY <2>1, BucketInRange DEF CallBucket, CallPeriod
<1>2. /\ expiry' = [expiry EXCEPT ![p][b] = until] \/ expiry' = expiry
      /\ UNCHANGED <<clock, counter, todo, unit, epoch, strayed, abandoned>>
      /\ pc[r] = "expire"
      /\ consumed' = [consumed EXCEPT ![r] = @ \cup {p}]
      /\ call' = [call EXCEPT ![r] = NoCall]
  BY DEF Expire, SetExpiry, Checked, EndCall, ghostVars
<1>3. \/ todo[r] = {} /\ pc' = [pc EXCEPT ![r] = "forward"]
      \/ todo[r] # {} /\ pc' = [pc EXCEPT ![r] = "quota"]
  <2> HIDE DEF p
  <2>1. ~Exceeded(p, 1)
    BY <1>1, QuotaAssumption DEF Exceeded
  <2> QED BY <2>1 DEF Expire, Checked, Goto, p
<1>4. /\ until \in Nat
      /\ until > PeriodEnd(p, b) - (IF p = "daily" THEN 2 ELSE 1) * TickRate
  <2> HIDE DEF p
  <2>1. clock \in Nat /\ call[r].now \in Nat
    BY <1>1 DEF TypeOK, QuotaTypeOK, Times
  <2>2. b = BucketOf(p, call[r].now)
    BY DEF p, CallBucket, CallPeriod
  <2> QED BY <1>1, <2>1, <2>2, TtlReach
<1> HIDE DEF p, b, until
<1>5. TypeOK'
  <2>1. QuotaTypeOK'
    <3>1. expiry' \in [Periods -> [Buckets -> Nat \cup {NoTtl}]]
      <4>1. CASE expiry' = expiry
        BY <4>1 DEF TypeOK, QuotaTypeOK
      <4>2. CASE expiry' = [expiry EXCEPT ![p][b] = until]
        BY <4>2, <1>1, <1>4 DEF TypeOK, QuotaTypeOK
      <4> QED BY <4>1, <4>2, <1>2
    <3> QED BY <3>1, <1>2 DEF TypeOK, QuotaTypeOK
  <2>2. pc' \in [Reqs -> Labels]
    BY <1>3 DEF TypeOK, Labels, Steps
  <2>3. NoCall \in Calls
    BY QuotaAssumption DEF Calls, Times
  <2>4. call' \in [Reqs -> Calls]
    BY <1>2, <2>3 DEF TypeOK
  <2>5. consumed[r] \cup {p} \in SUBSET Periods
    BY <1>1 DEF TypeOK
  <2>6. consumed' \in [Reqs -> SUBSET Periods]
    BY <1>2, <2>5 DEF TypeOK
  <2> QED
    BY <2>1, <2>2, <2>4, <2>6, <1>2 DEF TypeOK
<1>6. CounterAccounts' /\ WithinCap' /\ EpochOrder'
  BY <1>2, QuietAccounts
<1>7. CallOK' /\ CallNotTodo'
  BY <1>2, <1>3 DEF CallOK, CallNotTodo, TypeOK, QuotaTypeOK, Times
<1>8. Uncharged'
  BY <1>2, <1>3 DEF Uncharged, TypeOK
<1>9. Cleared'
  BY <1>2, <1>3 DEF Cleared, TypeOK
<1>10. ForgetWindow'
  <2> SUFFICES ASSUME NEW q \in Periods, NEW c \in Buckets, expiry'[q][c] # NoTtl
               PROVE  expiry'[q][c] > PeriodEnd(q, c) - (IF q = "daily" THEN 2 ELSE 1) * TickRate
    BY DEF ForgetWindow, PeriodEnd
  <2>1. \/ expiry'[q][c] = IF q = p /\ c = b THEN until ELSE expiry[q][c]
        \/ expiry'[q][c] = expiry[q][c]
    BY <1>1, <1>2 DEF TypeOK, QuotaTypeOK
  <2> QED
    BY <2>1, <1>4 DEF ForgetWindow
<1> QED
  BY <1>5, <1>6, <1>7, <1>8, <1>9, <1>10 DEF Inv

(* Inv is preserved by DECR. *)
LEMMA DecrInv ==
    ASSUME Inv, NEW r \in Reqs, Decr(r)
    PROVE  Inv'
<1> DEFINE p == CallPeriod(r)
           b == CallBucket(r)
<1> USE DEF Inv
<1>1. p \in Periods /\ b \in Buckets
  <2>1. p \in Periods /\ call[r].now \in Times
    BY DEF Decr, CallOK, CallPeriod, TypeOK, Calls
  <2> QED BY <2>1, BucketInRange DEF CallBucket, CallPeriod
<1>2. /\ counter' = [counter EXCEPT ![p][b] = @ + (-1)]
      /\ UNCHANGED <<clock, expiry, todo, epoch, abandoned>>
      /\ pc[r] = "decr"
      /\ consumed' = [consumed EXCEPT ![r] = @ \ {p}]
      /\ call' = [call EXCEPT ![r] = NoCall]
      /\ pc' = [pc EXCEPT ![r] = "refused"] \/ pc' = [pc EXCEPT ![r] = "undo"]
  BY DEF Decr, AddTo, EndCall, Goto
<1>3. \/ /\ OwnUnit(r, p, b)
         /\ unit' = [unit EXCEPT ![r][p] = Nowhere]
         /\ strayed' = strayed
      \/ /\ strayed' = [strayed EXCEPT ![p][b] = @ + 1]
         /\ unit' = unit
  BY DEF Decr
<1> HIDE DEF p, b
<1>4. counter[p][b] \in Int /\ strayed[p][b] \in Nat /\ Limit[p] \in Nat
  BY <1>1, QuotaAssumption DEF TypeOK, QuotaTypeOK
<1>5. TypeOK'
  <2>1. QuotaTypeOK'
    BY <1>1, <1>2, <1>4 DEF TypeOK, QuotaTypeOK
  <2>2. pc' \in [Reqs -> Labels]
    BY <1>2 DEF TypeOK, Labels, Steps, Ended
  <2>3. NoCall \in Calls /\ Nowhere \in Units
    BY QuotaAssumption DEF Calls, Times, Units
  <2>4. call' \in [Reqs -> Calls] /\ consumed' \in [Reqs -> SUBSET Periods]
    BY <1>2, <2>3 DEF TypeOK
  <2>5. unit' \in [Reqs -> [Periods -> Units]] /\ strayed' \in [Periods -> [Buckets -> Nat]]
    <3>1. CASE unit' = [unit EXCEPT ![r][p] = Nowhere] /\ strayed' = strayed
      BY <3>1, <2>3, <1>1 DEF TypeOK
    <3>2. CASE unit' = unit /\ strayed' = [strayed EXCEPT ![p][b] = @ + 1]
      BY <3>2, <1>1, <1>4 DEF TypeOK
    <3> QED BY <3>1, <3>2, <1>3
  <2> QED
    BY <2>1, <2>2, <2>4, <2>5, <1>2 DEF TypeOK
<1>6. \A x \in Reqs, q \in Periods : unit'[x][q] = unit[x][q] \/ x = r
  BY <1>3, <1>1 DEF TypeOK
<1>7. ASSUME NEW q \in Periods, NEW c \in Buckets
      PROVE  /\ counter'[q][c] = Cardinality(Charged(q, c)') - strayed'[q][c]
             /\ Cardinality(Within(q, c)') <= Limit[q] + strayed'[q][c]
  <2>1. /\ counter[q][c] = Cardinality(Charged(q, c)) - strayed[q][c]
        /\ Cardinality(Within(q, c)) <= Limit[q] + strayed[q][c]
    BY DEF CounterAccounts, WithinCap
  <2>2. c # -1 /\ strayed[q][c] \in Nat /\ counter[q][c] \in Int /\ Limit[q] \in Nat
    <3>1. c # -1 BY DEF Buckets
    <3>2. strayed[q][c] \in Nat BY DEF TypeOK
    <3>3. counter[q][c] \in Int BY DEF TypeOK, QuotaTypeOK
    <3> QED BY <3>1, <3>2, <3>3, QuotaAssumption
  <2>3. CASE unit' = unit
    <3>1. Charged(q, c)' = Charged(q, c) /\ Within(q, c)' = Within(q, c)
      BY <2>3, <1>2 DEF Charged, Within, OwnUnit
    <3>2. CASE OwnUnit(r, p, b) /\ unit' = [unit EXCEPT ![r][p] = Nowhere]
      <4>1. unit[r][p].bucket = b /\ unit'[r][p].bucket = -1
        BY <3>2, <1>1 DEF OwnUnit, TypeOK
      <4> QED BY <4>1, <2>3, <1>1 DEF Buckets
    <3>3. CASE strayed' = [strayed EXCEPT ![p][b] = @ + 1]
      <4>1. strayed'[q][c] = IF q = p /\ c = b THEN strayed[q][c] + 1 ELSE strayed[q][c]
        BY <3>3, <1>1 DEF TypeOK
      <4>2. counter'[q][c] = IF q = p /\ c = b THEN counter[q][c] - 1 ELSE counter[q][c]
        BY <1>1, <1>2 DEF TypeOK, QuotaTypeOK
      <4> QED BY <4>1, <4>2, <3>1, <2>1, <2>2, ChargedFinite
    <3> QED BY <3>2, <3>3, <1>3
  <2>4. CASE OwnUnit(r, p, b) /\ unit' = [unit EXCEPT ![r][p] = Nowhere] /\ strayed' = strayed
    <3>1. \A x \in Reqs : unit'[x][q] = IF x = r /\ q = p THEN Nowhere ELSE unit[x][q]
      BY <2>4, <1>1 DEF TypeOK
    <3>2. /\ Charged(q, c)' = IF q = p /\ c = b THEN Charged(q, c) \ {r} ELSE Charged(q, c)
          /\ q = p /\ c = b => r \in Charged(q, c)
          /\ Within(q, c)' \in SUBSET Within(q, c)
      BY <3>1, <2>2, <2>4, <1>2 DEF Charged, Within, OwnUnit
    <3>3. counter'[q][c] = IF q = p /\ c = b THEN counter[q][c] - 1 ELSE counter[q][c]
      BY <1>1, <1>2 DEF TypeOK, QuotaTypeOK
    <3>4. Cardinality(Charged(q, c)') = IF q = p /\ c = b THEN Cardinality(Charged(q, c)) - 1
                                                         ELSE Cardinality(Charged(q, c))
      BY <3>2, ChargedFinite, FS_RemoveElement
    <3>5. Cardinality(Within(q, c)') <= Cardinality(Within(q, c))
          /\ Cardinality(Within(q, c)') \in Nat
      BY <3>2, ChargedFinite, FS_Subset, FS_CardinalityType
    <3> QED
      BY <3>3, <3>4, <3>5, <2>1, <2>2, <2>4, ChargedFinite
  <2> QED BY <2>3, <2>4, <1>3
<1>8. CounterAccounts' /\ WithinCap'
  BY <1>7 DEF CounterAccounts, WithinCap
<1>9. EpochOrder'
  <2> SUFFICES ASSUME NEW x \in Reqs, NEW q \in Periods, NEW c \in Buckets,
                      unit'[x][q].bucket = c
               PROVE  unit'[x][q].epoch <= epoch[q][c]
    BY <1>2 DEF EpochOrder
  <2>1. unit'[x][q] = unit[x][q] \/ unit'[x][q] = Nowhere
    <3>1. CASE unit' = [unit EXCEPT ![r][p] = Nowhere]
      BY <3>1, <1>1 DEF TypeOK
    <3> QED BY <3>1, <1>3
  <2>2. c # -1
    BY DEF Buckets
  <2> QED BY <2>1, <2>2 DEF EpochOrder
<1>10. CallOK' /\ CallNotTodo' /\ ForgetWindow'
  BY <1>2 DEF CallOK, CallNotTodo, ForgetWindow, PeriodEnd, TypeOK, QuotaTypeOK, Times
<1>11. Uncharged'
  BY <1>2, <1>6 DEF Uncharged, TypeOK
<1>12. Cleared'
  BY <1>2, <1>6 DEF Cleared, TypeOK
<1> QED
  BY <1>5, <1>8, <1>9, <1>10, <1>11, <1>12 DEF Inv

(* Inv is preserved by the passing of time and the expiry of keys. *)
LEMMA ElapseInv ==
    ASSUME Inv, Elapse
    PROVE  Inv'
<1> DEFINE gone(p, b) == Expired(p, b, clock')
<1> USE DEF Inv
<1>1. clock' \in Times /\ clock' = clock + 1 /\ clock \in Times
  BY QuotaAssumption DEF Elapse, Tick, TypeOK, QuotaTypeOK, Times
<1>2. UNCHANGED <<pc, todo, call, consumed, unit>>
  BY DEF Elapse, reqVars
<1>3. ASSUME NEW p \in Periods, NEW b \in Buckets
      PROVE  /\ counter'[p][b] = IF gone(p, b) THEN 0 ELSE counter[p][b]
             /\ expiry'[p][b] = IF gone(p, b) THEN NoTtl ELSE expiry[p][b]
             /\ epoch'[p][b] = epoch[p][b] + (IF gone(p, b) THEN 1 ELSE 0)
             /\ strayed'[p][b] = IF gone(p, b) THEN 0 ELSE strayed[p][b]
  BY DEF Elapse, Tick
<1> HIDE DEF gone
<1>4. /\ counter' = [p \in Periods |-> [b \in Buckets |-> counter'[p][b]]]
      /\ expiry' = [p \in Periods |-> [b \in Buckets |-> expiry'[p][b]]]
      /\ epoch' = [p \in Periods |-> [b \in Buckets |-> epoch'[p][b]]]
      /\ strayed' = [p \in Periods |-> [b \in Buckets |-> strayed'[p][b]]]
  BY DEF Elapse, Tick
<1>5. ASSUME NEW p \in Periods, NEW b \in Buckets
      PROVE  /\ counter[p][b] \in Int /\ expiry[p][b] \in Nat \cup {NoTtl}
             /\ epoch[p][b] \in Nat /\ strayed[p][b] \in Nat
  BY DEF TypeOK, QuotaTypeOK
<1>6. TypeOK'
  <2>1. /\ counter' \in [Periods -> [Buckets -> Int]]
        /\ expiry' \in [Periods -> [Buckets -> Nat \cup {NoTtl}]]
    <3>1. \A p \in Periods, b \in Buckets :
             counter'[p][b] \in Int /\ expiry'[p][b] \in Nat \cup {NoTtl}
      BY <1>3, <1>5
    <3> QED BY <3>1, <1>4
  <2>2. /\ epoch' \in [Periods -> [Buckets -> Nat]]
        /\ strayed' \in [Periods -> [Buckets -> Nat]]
    <3>1. \A p \in Periods, b \in Buckets : epoch'[p][b] \in Nat /\ strayed'[p][b] \in Nat
      BY <1>3, <1>5
    <3> QED BY <3>1, <1>4
  <2>3. abandoned' \subseteq Periods \X Buckets
    BY DEF TypeOK, Elapse
  <2> QED BY <2>1, <2>2, <2>3, <1>1, <1>2 DEF TypeOK, QuotaTypeOK
<1>7. ASSUME NEW p \in Periods, NEW b \in Buckets
      PROVE  /\ Charged(p, b)' = IF gone(p, b) THEN {} ELSE Charged(p, b)
             /\ Within(p, b)' = IF gone(p, b) THEN {} ELSE Within(p, b)
  <2>1. \A x \in Reqs : unit[x][p].bucket = b => unit[x][p].epoch <= epoch[p][b]
    BY DEF EpochOrder
  <2>2. CASE gone(p, b)
    <3>1. epoch'[p][b] = epoch[p][b] + 1
      BY <2>2, <1>3
    <3>2. \A x \in Reqs : unit[x][p].epoch \in Int
      BY DEF TypeOK, Units
    <3>3. \A x \in Reqs : ~(unit[x][p].bucket = b /\ unit[x][p].epoch = epoch'[p][b])
      BY <2>1, <3>1, <3>2, <1>5
    <3> QED BY <3>3, <2>2, <1>2 DEF Charged, Within, OwnUnit
  <2>3. CASE ~gone(p, b)
    <3>1. epoch'[p][b] = epoch[p][b]
      BY <2>3, <1>3, <1>5
    <3> QED BY <3>1, <2>3, <1>2 DEF Charged, Within, OwnUnit
  <2> QED BY <2>2, <2>3
<1>8. CounterAccounts' /\ WithinCap'
  <2> SUFFICES ASSUME NEW p \in Periods, NEW b \in Buckets
               PROVE  /\ counter'[p][b] = Cardinality(Charged(p, b)') - strayed'[p][b]
                      /\ Cardinality(Within(p, b)') <= Limit[p] + strayed'[p][b]
    BY DEF CounterAccounts, WithinCap
  <2>1. CASE gone(p, b)
    <3>1. Cardinality(Charged(p, b)') = 0 /\ Cardinality(Within(p, b)') = 0
      BY <2>1, <1>7, FS_EmptySet
    <3> QED BY <3>1, <2>1, <1>3, QuotaAssumption
  <2>2. CASE ~gone(p, b)
    BY <2>2, <1>3, <1>7 DEF CounterAccounts, WithinCap
  <2> QED BY <2>1, <2>2
<1>9. EpochOrder'
  <2> SUFFICES ASSUME NEW x \in Reqs, NEW p \in Periods, NEW b \in Buckets,
                      unit[x][p].bucket = b
               PROVE  unit[x][p].epoch <= epoch'[p][b]
    BY <1>2 DEF EpochOrder
  <2>1. unit[x][p].epoch <= epoch[p][b] /\ unit[x][p].epoch \in Int
    <3>1. unit[x][p] \in Units
      BY DEF TypeOK
    <3> QED BY <3>1 DEF EpochOrder, Units
  <2> QED BY <2>1, <1>3, <1>5
<1>10. CallOK'
  <2>1. \A x \in Reqs : call[x].now \in Int /\ call[x].now <= clock
    BY DEF CallOK, TypeOK, Calls, Times
  <2> QED BY <2>1, <1>1, <1>2 DEF CallOK, Times
<1>11. CallNotTodo' /\ Uncharged' /\ Cleared'
  BY <1>2 DEF CallNotTodo, Uncharged, Cleared
<1>12. ForgetWindow'
  <2> SUFFICES ASSUME NEW p \in Periods, NEW b \in Buckets, expiry'[p][b] # NoTtl
               PROVE  expiry'[p][b] > PeriodEnd(p, b) - (IF p = "daily" THEN 2 ELSE 1) * TickRate
    BY DEF ForgetWindow, PeriodEnd
  <2> QED BY <1>3 DEF ForgetWindow
<1> QED
  BY <1>6, <1>8, <1>9, <1>10, <1>11, <1>12 DEF Inv

(* The invariant survives every step. *)
LEMMA NextInv == Inv /\ [Next]_vars => Inv'
<1> SUFFICES ASSUME Inv, [Next]_vars PROVE Inv'
  OBVIOUS
<1>1. CASE Elapse
  BY <1>1, ElapseInv
<1>2. ASSUME NEW r \in Reqs, Step(r) PROVE Inv'
  BY <1>2, AdmitInv, BeginConsumeInv, IncrInv, ExpireInv, ForwardInv,
     BeginUndoInv, DecrInv, RecordInv DEF Step
<1>3. ASSUME NEW r \in Reqs, Abort(r) PROVE Inv'
  BY <1>3, AbortInv
<1>4. CASE UNCHANGED vars
  <2>1. UNCHANGED <<clock, counter, expiry, pc, todo, call, consumed, unit, epoch, strayed, abandoned>>
    BY <1>4 DEF vars, quotaVars, reqVars, ghostVars
  <2>2. CounterAccounts' /\ WithinCap' /\ EpochOrder'
    BY <2>1, QuietAccounts
  <2>3. TypeOK'
    BY <2>1 DEF Inv, TypeOK, QuotaTypeOK
  <2>4. CallOK' /\ CallNotTodo' /\ Uncharged' /\ Cleared' /\ ForgetWindow'
    BY <2>1 DEF Inv, CallOK, CallNotTodo, Uncharged, Cleared, ForgetWindow, PeriodEnd
  <2> QED BY <2>2, <2>3, <2>4 DEF Inv
<1> QED
  BY <1>1, <1>2, <1>3, <1>4 DEF Next

(* The inductive invariant holds in every reachable state. *)
LEMMA Invariance == Spec => []Inv
  BY InitInv, NextInv, PTL DEF Spec

-----------------------------------------------------------------------------
(* What a request that is not served has given back. *)

(* The unit of r can no longer be charged in the current period: it is of   *)
(* an earlier one, or its key has expired, or there is none.                *)
Settled(r, p) ==
    \/ unit[r][p].bucket < BucketOf(p, clock)
    \/ \E b \in Buckets : unit[r][p].bucket = b /\ unit[r][p].epoch < epoch[p][b]

(* A unit is of the current bucket or of an earlier one, and rollback names *)
(* no earlier bucket than the unit's.                                       *)
UnitPast ==
    \A r \in Reqs, p \in Periods : unit[r][p].bucket <= BucketOf(p, clock)
DecrPast ==
    \A r \in Reqs : pc[r] = "decr" => unit[r][call[r].period].bucket <= CallBucket(r)

(* Where a request can be that has not been let through for good. *)
Pending == {"new", "quota", "incr", "expire", "forward", "undo", "decr", "rejected", "refused"}

(* What is not in `consumed`, and not about to be, is settled. *)
Returned ==
    \A r \in Reqs, p \in Periods :
        pc[r] \in Pending /\ p \notin consumed[r] /\ ~(pc[r] = "expire" /\ p = call[r].period)
            => Settled(r, p)

EmptyHanded ==
    \A r \in Reqs : pc[r] \in {"new", "rejected", "refused"} => consumed[r] = {}

HoldInv == UnitPast /\ DecrPast /\ Returned /\ EmptyHanded

(* Buckets follow the clock. *)
LEMMA BucketMonotone ==
    ASSUME NEW p \in Periods, NEW s \in Nat, NEW t \in Nat, s <= t
    PROVE  BucketOf(p, s) \in Nat /\ BucketOf(p, t) \in Nat /\ BucketOf(p, s) <= BucketOf(p, t)
<1> DEFINE D == PeriodTicks(p)
<1>1. D \in Nat \ {0}
  BY PeriodPositive
<1> HIDE DEF D
<1>2. s \div D \in Nat /\ t \div D \in Nat /\ s \div D <= t \div D
  BY <1>1
<1> QED BY <1>2 DEF BucketOf, D

(* A step of request r alone, at one instant. *)
LEMMA HoldStep ==
    ASSUME HoldInv, NEW r \in Reqs, UNCHANGED <<clock, epoch>>,
           \A x \in Reqs : x # r =>
               /\ pc'[x] = pc[x] /\ consumed'[x] = consumed[x]
               /\ call'[x] = call[x] /\ unit'[x] = unit[x],
           \A p \in Periods : unit'[r][p].bucket <= BucketOf(p, clock),
           pc'[r] = "decr" => unit'[r][call'[r].period].bucket <= CallBucket(r)',
           \A p \in Periods :
               pc'[r] \in Pending /\ p \notin consumed'[r]
                 /\ ~(pc'[r] = "expire" /\ p = call'[r].period) => Settled(r, p)',
           pc'[r] \in {"new", "rejected", "refused"} => consumed'[r] = {}
    PROVE  HoldInv'
<1>1. ASSUME NEW x \in Reqs, x # r PROVE CallBucket(x)' = CallBucket(x)
  BY <1>1 DEF CallBucket, BucketOf, PeriodTicks, DayTicks
<1>2. ASSUME NEW x \in Reqs, x # r, NEW p \in Periods PROVE Settled(x, p)' <=> Settled(x, p)
  BY <1>2 DEF Settled, BucketOf, PeriodTicks, DayTicks
<1>3. UnitPast'
  <2> SUFFICES ASSUME NEW x \in Reqs, NEW p \in Periods
               PROVE  unit'[x][p].bucket <= BucketOf(p, clock)
    BY DEF UnitPast, BucketOf, PeriodTicks, DayTicks
  <2> QED BY DEF HoldInv, UnitPast
<1>4. DecrPast'
  BY <1>1 DEF HoldInv, DecrPast
<1>5. Returned'
  <2> SUFFICES ASSUME NEW x \in Reqs, NEW p \in Periods,
                      pc'[x] \in Pending, p \notin consumed'[x],
                      ~(pc'[x] = "expire" /\ p = call'[x].period)
               PROVE  Settled(x, p)'
    BY DEF Returned, Pending
  <2>1. CASE x = r
    BY <2>1
  <2>2. CASE x # r
    <3>1. Settled(x, p)
      BY <2>2 DEF HoldInv, Returned
    <3> QED BY <2>2, <3>1, <1>2
  <2> QED BY <2>1, <2>2
<1>6. EmptyHanded'
  BY DEF HoldInv, EmptyHanded
<1> QED BY <1>3, <1>4, <1>5, <1>6 DEF HoldInv


(* Nobody holds anything at the start. *)
LEMMA InitHold == Init => HoldInv
<1> SUFFICES ASSUME Init PROVE HoldInv
  OBVIOUS
<1>1. clock \in Times /\ clock \in Nat
  BY QuotaAssumption DEF Init, QuotaInit, Times
<1>2. ASSUME NEW r \in Reqs, NEW p \in Periods
      PROVE  unit[r][p].bucket < BucketOf(p, clock) /\ unit[r][p].bucket <= BucketOf(p, clock)
  <2>1. unit[r][p].bucket = -1
    BY DEF Init
  <2>2. BucketOf(p, clock) \in Nat
    BY <1>1, BucketMonotone
  <2> QED BY <2>1, <2>2
<1> QED BY <1>2 DEF Init, HoldInv, UnitPast, DecrPast, Returned, EmptyHanded, Settled

(* HoldInv is preserved by the steps that leave the units alone. *)
LEMMA QuietHold ==
    ASSUME Inv, HoldInv, NEW r \in Reqs,
           \/ Admit(r) \/ BeginConsume(r) \/ Expire(r) \/ Forward(r)
           \/ BeginUndo(r) \/ Record(r) \/ Abort(r)
    PROVE  HoldInv'
<1> USE DEF ghostVars, quotaVars
<1>1. UNCHANGED <<clock, unit, epoch>>
  BY DEF Admit, BeginConsume, Expire, Forward, BeginUndo, Record, Abort
<1>2. /\ pc \in [Reqs -> Labels] /\ consumed \in [Reqs -> SUBSET Periods]
      /\ call \in [Reqs -> Calls] /\ clock \in Nat
  BY DEF Inv, TypeOK, QuotaTypeOK, Times
<1>3. PICK l : pc' = [pc EXCEPT ![r] = l]
  BY DEF Admit, BeginConsume, Expire, Checked, Forward, BeginUndo, Record, Abort, Goto
<1>4. PICK S : consumed' = [consumed EXCEPT ![r] = S]
  <2>1. consumed = [consumed EXCEPT ![r] = consumed[r]]
    BY <1>2
  <2> QED BY <2>1 DEF Admit, BeginConsume, Expire, Checked, Forward, BeginUndo, Record, Abort
<1>5. PICK k : call' = [call EXCEPT ![r] = k]
  <2>1. call = [call EXCEPT ![r] = call[r]]
    BY <1>2
  <2> QED BY <2>1 DEF Admit, BeginConsume, Expire, Checked, Forward, BeginUndo, Record, Abort,
                      BeginCall, EndCall
<1>6. pc'[r] = l /\ consumed'[r] = S /\ call'[r] = k
  BY <1>2, <1>3, <1>4, <1>5
<1>7. \A x \in Reqs : x # r =>
        /\ pc'[x] = pc[x] /\ consumed'[x] = consumed[x] /\ call'[x] = call[x] /\ unit'[x] = unit[x]
  BY <1>1, <1>2, <1>3, <1>4, <1>5
<1>8. \A p \in Periods : unit'[r][p].bucket <= BucketOf(p, clock)
  BY <1>1 DEF HoldInv, UnitPast
<1>9. ASSUME pc'[r] = "decr" PROVE unit'[r][call'[r].period].bucket <= CallBucket(r)'
  <2>1. BeginUndo(r)
    BY <1>2, <1>9 DEF Admit, BeginConsume, Expire, Checked, Forward, Record, Abort, Goto
  <2>2. PICK p \in consumed[r] : call' = [call EXCEPT ![r] = [period |-> p, now |-> clock]]
    BY <2>1 DEF BeginUndo, BeginCall
  <2>3. p \in Periods /\ call'[r].period = p /\ call'[r].now = clock
    BY <1>2, <2>2
  <2>4. CallBucket(r)' = BucketOf(p, clock)
    BY <2>3 DEF CallBucket, BucketOf, PeriodTicks, DayTicks
  <2> QED BY <1>8, <2>3, <2>4
<1>10. ASSUME NEW p \in Periods, pc'[r] \in Pending, p \notin consumed'[r],
              ~(pc'[r] = "expire" /\ p = call'[r].period)
       PROVE  Settled(r, p)'
  <2>1. pc[r] \in Pending
    BY <1>2, <1>10 DEF Admit, BeginConsume, Expire, Forward, BeginUndo, Record, Abort, Goto, Pending
  <2>2. p \notin consumed[r] /\ ~(pc[r] = "expire" /\ p = call[r].period)
    <3>1. CASE Expire(r)
      BY <1>2, <1>10, <3>1 DEF Expire, Checked, CallPeriod
    <3>2. CASE ~Expire(r) /\ ~Abort(r)
      <4>1. consumed' = consumed /\ pc[r] # "expire"
        BY <3>2 DEF Admit, BeginConsume, Forward, BeginUndo, Record
      <4> QED BY <1>10, <4>1
    <3>3. CASE Abort(r)
      BY <1>2, <1>10, <3>3 DEF Abort, Goto, Pending
    <3> QED BY <3>1, <3>2, <3>3
  <2>3. Settled(r, p)
    BY <2>1, <2>2 DEF HoldInv, Returned
  <2> QED BY <1>1, <2>3 DEF Settled, BucketOf, PeriodTicks, DayTicks
<1>11. ASSUME pc'[r] \in {"new", "rejected", "refused"} PROVE consumed'[r] = {}
  <2>1. \/ Admit(r) /\ consumed' = consumed
        \/ Forward(r) /\ consumed' = consumed /\ consumed[r] = {}
    <3>1. ~Abort(r) /\ ~Record(r) /\ ~BeginUndo(r) /\ ~BeginConsume(r) /\ ~Expire(r)
      BY <1>2, <1>11 DEF Abort, Record, BeginUndo, BeginConsume, Expire, Checked, Goto
    <3>2. ASSUME Forward(r) PROVE consumed' = consumed /\ consumed[r] = {}
      BY <1>2, <1>11, <3>2 DEF Forward, Goto
    <3> QED BY <3>1, <3>2 DEF Admit
  <2>2. Admit(r) => consumed[r] = {}
    BY DEF Admit, HoldInv, EmptyHanded
  <2> QED BY <2>1, <2>2
<1> QED BY <1>1, <1>7, <1>8, <1>9, <1>10, <1>11, HoldStep

(* HoldInv is preserved by INCR: its unit is noted, or will be after EXPIRE.*)
LEMMA IncrHold ==
    ASSUME Inv, HoldInv, NEW r \in Reqs, Incr(r)
    PROVE  HoldInv'
<1> DEFINE p == CallPeriod(r)
           b == CallBucket(r)
           u == UnitOf(p, b, ~Exceeded(p, counter[p][b] + 1))
<1>1. p \in Periods /\ call[r].now \in Nat /\ clock \in Nat /\ call[r].now <= clock
  BY DEF Incr, Inv, CallOK, CallPeriod, TypeOK, QuotaTypeOK, Calls, Times
<1>2. b = BucketOf(p, call[r].now) /\ u.bucket = b
  BY DEF CallBucket, CallPeriod, UnitOf
<1>3. /\ unit' = [unit EXCEPT ![r][p] = u] /\ UNCHANGED <<clock, epoch>> /\ pc[r] = "incr"
  BY DEF Incr
<1>4. \/ pc' = [pc EXCEPT ![r] = "expire"] /\ UNCHANGED <<consumed, call>>
      \/ /\ consumed' = [consumed EXCEPT ![r] = @ \cup {p}]
         /\ call' = [call EXCEPT ![r] = NoCall]
         /\ \/ pc' = [pc EXCEPT ![r] = "undo"]
            \/ pc' = [pc EXCEPT ![r] = "forward"]
            \/ pc' = [pc EXCEPT ![r] = "quota"]
  BY DEF Incr, Checked, Goto, EndCall
<1>5. call[r].period = p
  BY DEF CallPeriod
<1> HIDE DEF p, b, u
<1>6. /\ pc \in [Reqs -> Labels] /\ consumed \in [Reqs -> SUBSET Periods]
      /\ call \in [Reqs -> Calls] /\ unit \in [Reqs -> [Periods -> Units]]
  BY DEF Inv, TypeOK
<1>7. \A x \in Reqs : x # r =>
        /\ pc'[x] = pc[x] /\ consumed'[x] = consumed[x] /\ call'[x] = call[x] /\ unit'[x] = unit[x]
  BY <1>3, <1>4, <1>6
<1>8. unit'[r][p] = u /\ \A q \in Periods : q # p => unit'[r][q] = unit[r][q]
  BY <1>1, <1>3, <1>6
<1>9. \A q \in Periods : unit'[r][q].bucket <= BucketOf(q, clock)
  <2>1. b <= BucketOf(p, clock)
    BY <1>1, <1>2, BucketMonotone
  <2> QED BY <1>2, <1>8, <2>1 DEF HoldInv, UnitPast
<1>10. pc'[r] \notin {"decr", "new", "rejected", "refused"}
  BY <1>4, <1>6
<1>11. ASSUME NEW q \in Periods, q \notin consumed'[r], ~(pc'[r] = "expire" /\ q = call'[r].period)
       PROVE  Settled(r, q)'
  <2>1. q # p /\ q \notin consumed[r]
    BY <1>4, <1>5, <1>6, <1>11
  <2>2. Settled(r, q)
    BY <1>3, <2>1 DEF HoldInv, Returned, Pending
  <2> QED BY <1>3, <1>8, <2>1, <2>2 DEF Settled, BucketOf, PeriodTicks, DayTicks
<1> QED BY <1>3, <1>7, <1>9, <1>10, <1>11, HoldStep

(* HoldInv is preserved by DECR: it gives back the unit, or the unit is of  *)
(* an earlier bucket or of an expired key.                                  *)
LEMMA DecrHold ==
    ASSUME Inv, HoldInv, NEW r \in Reqs, Decr(r)
    PROVE  HoldInv'
<1> DEFINE p == CallPeriod(r)
           b == CallBucket(r)
<1>1. /\ p \in Periods /\ b \in Buckets /\ b \in Nat
      /\ clock \in Nat /\ b <= BucketOf(p, clock) /\ BucketOf(p, clock) \in Nat
  <2>1. /\ p \in Periods /\ call[r].now \in Times /\ call[r].now \in Nat
        /\ clock \in Nat /\ call[r].now <= clock
    BY DEF Decr, Inv, CallOK, CallPeriod, TypeOK, QuotaTypeOK, Calls, Times
  <2> QED BY <2>1, BucketInRange, BucketMonotone DEF CallBucket, CallPeriod
<1>2. /\ UNCHANGED <<clock, epoch>> /\ pc[r] = "decr"
      /\ consumed' = [consumed EXCEPT ![r] = @ \ {p}]
      /\ call' = [call EXCEPT ![r] = NoCall]
      /\ \/ pc' = [pc EXCEPT ![r] = "refused"] /\ consumed[r] = {p}
         \/ pc' = [pc EXCEPT ![r] = "undo"]
  BY DEF Decr, EndCall, Goto
<1>3. \/ unit' = [unit EXCEPT ![r][p] = Nowhere]
      \/ ~OwnUnit(r, p, b) /\ unit' = unit
  BY DEF Decr
<1>4. unit[r][p].bucket <= b
  BY <1>2 DEF HoldInv, DecrPast, CallPeriod
<1> HIDE DEF p, b
<1>5. /\ pc \in [Reqs -> Labels] /\ consumed \in [Reqs -> SUBSET Periods]
      /\ call \in [Reqs -> Calls] /\ unit \in [Reqs -> [Periods -> Units]]
      /\ epoch \in [Periods -> [Buckets -> Nat]]
  BY DEF Inv, TypeOK
<1>6. \A x \in Reqs : x # r =>
        /\ pc'[x] = pc[x] /\ consumed'[x] = consumed[x] /\ call'[x] = call[x] /\ unit'[x] = unit[x]
  BY <1>2, <1>3, <1>5
<1>7. /\ \A q \in Periods : q # p => unit'[r][q] = unit[r][q]
      /\ unit'[r][p] = Nowhere \/ (~OwnUnit(r, p, b) /\ unit'[r][p] = unit[r][p])
  BY <1>1, <1>3, <1>5
<1>8. unit[r][p].bucket \in Int /\ unit[r][p].epoch \in Int /\ epoch[p][b] \in Nat
  <2>1. unit[r][p] \in Units
    BY <1>1, <1>5
  <2>2. unit[r][p].bucket \in Int /\ unit[r][p].epoch \in Int
    BY <2>1 DEF Units, Buckets
  <2>3. epoch[p][b] \in Nat
    BY <1>1, <1>5
  <2> QED BY <2>2, <2>3
<1>9. /\ unit'[r][p].bucket <= BucketOf(p, clock)
      /\ \/ unit'[r][p].bucket < BucketOf(p, clock)
         \/ unit'[r][p].bucket = b /\ unit'[r][p].epoch < epoch[p][b]
  <2>1. CASE unit'[r][p] = Nowhere
    BY <1>1, <2>1
  <2>2. CASE unit'[r][p] = unit[r][p] /\ unit[r][p].bucket # b
    BY <1>1, <1>4, <1>8, <2>2
  <2>3. CASE unit'[r][p] = unit[r][p] /\ unit[r][p].bucket = b /\ unit[r][p].epoch # epoch[p][b]
    <3>1. unit[r][p].epoch <= epoch[p][b]
      BY <1>1, <2>3 DEF Inv, EpochOrder
    <3> QED BY <1>1, <1>8, <2>3, <3>1
  <2> QED BY <1>7, <2>1, <2>2, <2>3 DEF OwnUnit
<1>10. \A q \in Periods : unit'[r][q].bucket <= BucketOf(q, clock)
  BY <1>7, <1>9 DEF HoldInv, UnitPast
<1>11. pc'[r] # "decr" /\ pc'[r] # "expire" /\ (pc'[r] \in {"new", "rejected", "refused"} => consumed'[r] = {})
  BY <1>2, <1>5
<1>12. ASSUME NEW q \in Periods, q \notin consumed'[r] PROVE Settled(r, q)'
  <2>1. CASE q = p
    BY <1>1, <1>2, <1>9, <2>1 DEF Settled, BucketOf, PeriodTicks, DayTicks
  <2>2. CASE q # p
    <3>1. Settled(r, q)
      BY <1>2, <1>5, <1>12, <2>2 DEF HoldInv, Returned, Pending
    <3> QED BY <1>2, <1>7, <2>2, <3>1 DEF Settled, BucketOf, PeriodTicks, DayTicks
  <2> QED BY <2>1, <2>2
<1> QED BY <1>2, <1>6, <1>10, <1>11, <1>12, HoldStep

(* HoldInv is preserved by time. *)
LEMMA ElapseHold ==
    ASSUME Inv, HoldInv, Elapse
    PROVE  HoldInv'
<1>1. clock \in Nat /\ clock' = clock + 1 /\ UNCHANGED <<pc, call, consumed, unit>>
  BY DEF Elapse, Tick, reqVars, Inv, TypeOK, QuotaTypeOK, Times
<1>2. ASSUME NEW p \in Periods
      PROVE  /\ BucketOf(p, clock) \in Nat /\ BucketOf(p, clock)' \in Nat
             /\ BucketOf(p, clock) <= BucketOf(p, clock)'
  <2>1. BucketOf(p, clock) \in Nat /\ BucketOf(p, clock') \in Nat
        /\ BucketOf(p, clock) <= BucketOf(p, clock')
    BY <1>1, BucketMonotone
  <2> QED BY <2>1 DEF BucketOf, PeriodTicks, DayTicks
<1>3. ASSUME NEW p \in Periods, NEW b \in Buckets
      PROVE  epoch[p][b] \in Nat /\ epoch'[p][b] \in Nat /\ epoch[p][b] <= epoch'[p][b]
  <2>1. epoch[p][b] \in Nat
    BY DEF Inv, TypeOK
  <2>2. epoch'[p][b] = epoch[p][b] + (IF Expired(p, b, clock') THEN 1 ELSE 0)
    BY DEF Elapse
  <2> QED BY <2>1, <2>2
<1>4. ASSUME NEW r \in Reqs, NEW p \in Periods
      PROVE  unit[r][p].bucket \in Int /\ unit[r][p].epoch \in Int
  <2>1. unit[r][p] \in Units
    BY DEF Inv, TypeOK
  <2> QED BY <2>1 DEF Units, Buckets
<1>5. UnitPast'
  <2> SUFFICES ASSUME NEW r \in Reqs, NEW p \in Periods
               PROVE  unit[r][p].bucket <= BucketOf(p, clock)'
    BY <1>1 DEF UnitPast
  <2>1. unit[r][p].bucket <= BucketOf(p, clock)
    BY DEF HoldInv, UnitPast
  <2> QED BY <1>2, <1>4, <2>1
<1>6. DecrPast'
  BY <1>1 DEF HoldInv, DecrPast, CallBucket, BucketOf, PeriodTicks, DayTicks
<1>7. ASSUME NEW r \in Reqs, NEW p \in Periods, Settled(r, p) PROVE Settled(r, p)'
  <2>1. CASE unit[r][p].bucket < BucketOf(p, clock)
    <3>1. unit'[r][p].bucket < BucketOf(p, clock)'
      BY <2>1, <1>1, <1>2, <1>4
    <3> QED BY <3>1 DEF Settled
  <2>2. ASSUME NEW b \in Buckets, unit[r][p].bucket = b, unit[r][p].epoch < epoch[p][b]
        PROVE  Settled(r, p)'
    <3>1. unit'[r][p].bucket = b /\ unit'[r][p].epoch < epoch'[p][b]
      BY <2>2, <1>1, <1>3, <1>4
    <3>2. b \in Buckets'
      BY DEF Buckets, DayTicks
    <3> QED BY <3>1, <3>2 DEF Settled
  <2> QED BY <1>7, <2>1, <2>2 DEF Settled
<1>8. Returned'
  <2> SUFFICES ASSUME NEW r \in Reqs, NEW p \in Periods,
                      pc'[r] \in Pending, p \notin consumed'[r],
                      ~(pc'[r] = "expire" /\ p = call'[r].period)
               PROVE  Settled(r, p)'
    BY DEF Returned, Pending
  <2>1. Settled(r, p)
    BY <1>1 DEF HoldInv, Returned
  <2> QED BY <1>7, <2>1
<1>9. EmptyHanded'
  BY <1>1 DEF HoldInv, EmptyHanded
<1> QED BY <1>5, <1>6, <1>8, <1>9 DEF HoldInv

(* HoldInv holds in every reachable state. *)
LEMMA HoldInvariance == Spec => []HoldInv
<1>1. Inv /\ HoldInv /\ [Next]_vars => HoldInv'
  <2> SUFFICES ASSUME Inv, HoldInv, [Next]_vars PROVE HoldInv'
    OBVIOUS
  <2>1. ASSUME NEW r \in Reqs, Step(r) \/ Abort(r) PROVE HoldInv'
    BY <2>1, QuietHold, IncrHold, DecrHold DEF Step
  <2>2. CASE UNCHANGED vars
    <3>1. UNCHANGED <<clock, pc, call, consumed, unit, epoch>>
      BY <2>2 DEF vars, quotaVars, reqVars, ghostVars
    <3> QED BY <3>1 DEF HoldInv, UnitPast, DecrPast, Returned, EmptyHanded, Settled,
                        CallBucket, BucketOf, PeriodTicks, DayTicks
  <2> QED BY <2>1, <2>2, ElapseHold DEF Next
<1> QED BY <1>1, InitHold, Invariance, PTL DEF Spec

-----------------------------------------------------------------------------
(* Which counters have no TTL. *)

(* The request that waits to set the expiry of a counter. *)
Expiring(p, b) == \E r \in Reqs : pc[r] = "expire" /\ CallPeriod(r) = p /\ CallBucket(r) = b

(* UntimedOnlyAfterFault is preserved while no counter changes, no expiry   *)
(* goes, and every request that waits for EXPIRE still does.                *)
LEMMA UntimedKept ==
    ASSUME UntimedOnlyAfterFault, UNCHANGED <<counter, expiry, strayed>>,
           \A p \in Periods, b \in Buckets :
              Expiring(p, b) => <<p, b>> \in abandoned' \/ Expiring(p, b)',
           abandoned \subseteq abandoned'
    PROVE  UntimedOnlyAfterFault'
<1> SUFFICES ASSUME NEW p \in Periods, NEW b \in Buckets,
                    counter[p][b] # 0, expiry[p][b] = NoTtl
             PROVE  <<p, b>> \in abandoned' \/ strayed[p][b] > 0 \/ Expiring(p, b)'
  BY DEF UntimedOnlyAfterFault, Expiring, Buckets, DayTicks
<1> QED BY DEF UntimedOnlyAfterFault, Expiring

(* A request that does not move keeps waiting for the same counter. *)
LEMMA ExpiringKept ==
    ASSUME NEW r \in Reqs, pc[r] # "expire",
           \A x \in Reqs : x # r => pc'[x] = pc[x] /\ call'[x] = call[x],
           NEW p, NEW b, Expiring(p, b)
    PROVE  Expiring(p, b)'
<1>1. PICK x \in Reqs : pc[x] = "expire" /\ CallPeriod(x) = p /\ CallBucket(x) = b
  BY DEF Expiring
<1>2. pc'[x] = "expire" /\ call'[x] = call[x]
  BY <1>1
<1>3. CallPeriod(x)' = p /\ CallBucket(x)' = b
  BY <1>1, <1>2 DEF CallPeriod, CallBucket, BucketOf, PeriodTicks, DayTicks
<1> QED BY <1>2, <1>3 DEF Expiring

(* UntimedOnlyAfterFault is preserved by the steps that leave the counters  *)
(* alone.                                                                   *)
LEMMA QuietUntimed ==
    ASSUME Inv, UntimedOnlyAfterFault, NEW r \in Reqs,
           \/ Admit(r) \/ BeginConsume(r) \/ Forward(r) \/ BeginUndo(r) \/ Record(r) \/ Abort(r)
    PROVE  UntimedOnlyAfterFault'
<1> USE DEF ghostVars, quotaVars
<1>1. UNCHANGED <<counter, expiry, strayed>> /\ abandoned \subseteq abandoned'
  BY DEF Admit, BeginConsume, Forward, BeginUndo, Record, Abort
<1>2. pc \in [Reqs -> Labels] /\ call \in [Reqs -> Calls]
  BY DEF Inv, TypeOK
<1>3. CASE Abort(r)
  <2>1. \A x \in Reqs : x # r => pc'[x] = pc[x] /\ call'[x] = call[x]
    BY <1>2, <1>3 DEF Abort, Goto, EndCall
  <2>2. ASSUME NEW p \in Periods, NEW b \in Buckets, Expiring(p, b)
        PROVE  <<p, b>> \in abandoned' \/ Expiring(p, b)'
    <3>1. PICK x \in Reqs : pc[x] = "expire" /\ CallPeriod(x) = p /\ CallBucket(x) = b
      BY <2>2 DEF Expiring
    <3>2. CASE x = r
      <4>1. abandoned' = abandoned \cup {<<CallPeriod(r), CallBucket(r)>>}
        BY <1>3, <3>1, <3>2 DEF Abort
      <4> QED BY <3>1, <3>2, <4>1
    <3>3. CASE x # r
      <4>1. pc'[x] = "expire" /\ call'[x] = call[x]
        BY <2>1, <3>1, <3>3
      <4>2. CallPeriod(x)' = p /\ CallBucket(x)' = b
        BY <3>1, <4>1 DEF CallPeriod, CallBucket, BucketOf, PeriodTicks, DayTicks
      <4> QED BY <4>1, <4>2 DEF Expiring
    <3> QED BY <3>2, <3>3
  <2> QED BY <1>1, <2>2, UntimedKept
<1>4. CASE ~Abort(r)
  <2>1. pc[r] # "expire" /\ \A x \in Reqs : x # r => pc'[x] = pc[x] /\ call'[x] = call[x]
    BY <1>2, <1>4 DEF Admit, BeginConsume, Forward, BeginUndo, Record, Goto, BeginCall
  <2>2. \A p \in Periods, b \in Buckets : Expiring(p, b) => Expiring(p, b)'
    BY <2>1, ExpiringKept
  <2> QED BY <1>1, <2>2, UntimedKept
<1> QED BY <1>3, <1>4

(* UntimedOnlyAfterFault is preserved by INCR: the first one goes on to set *)
(* the expiry.                                                              *)
LEMMA IncrUntimed ==
    ASSUME Inv, UntimedOnlyAfterFault, NEW r \in Reqs, Incr(r)
    PROVE  UntimedOnlyAfterFault'
<1> SUFFICES ASSUME NEW q \in Periods, NEW c \in Buckets,
                    counter'[q][c] # 0, expiry'[q][c] = NoTtl
             PROVE  <<q, c>> \in abandoned' \/ strayed'[q][c] > 0 \/ Expiring(q, c)'
  BY DEF UntimedOnlyAfterFault, Expiring, Buckets, DayTicks
<1> DEFINE p == CallPeriod(r)
           b == CallBucket(r)
           used == counter[p][b] + 1
<1>1. p \in Periods /\ b \in Buckets
  <2>1. p \in Periods /\ call[r].now \in Times
    BY DEF Incr, Inv, CallOK, CallPeriod, TypeOK, Calls
  <2> QED BY <2>1, BucketInRange DEF CallBucket, CallPeriod
<1>2. /\ counter' = [counter EXCEPT ![p][b] = used]
      /\ UNCHANGED <<expiry, strayed, abandoned>> /\ pc[r] = "incr"
  BY DEF Incr, AddTo
<1>3. \/ used = 1 /\ pc' = [pc EXCEPT ![r] = "expire"] /\ call' = call
      \/ used # 1
  BY DEF Incr, Goto
<1>4. /\ pc \in [Reqs -> Labels] /\ call \in [Reqs -> Calls]
      /\ counter \in [Periods -> [Buckets -> Int]]
  BY DEF Inv, TypeOK, QuotaTypeOK
<1>5. \A x \in Reqs : x # r => pc'[x] = pc[x] /\ call'[x] = call[x]
  BY <1>4 DEF Incr, Checked, Goto, EndCall
<1>6. Expiring(q, c) => Expiring(q, c)'
  BY <1>2, <1>5, ExpiringKept
<1>7. ASSUME q = p, c = b, used = 1 PROVE Expiring(q, c)'
  <2>1. pc'[r] = "expire" /\ call' = call
    BY <1>3, <1>4, <1>7
  <2>2. CallPeriod(r)' = p /\ CallBucket(r)' = b
    BY <2>1 DEF CallPeriod, CallBucket, BucketOf, PeriodTicks, DayTicks
  <2> QED BY <1>7, <2>1, <2>2 DEF Expiring
<1> HIDE DEF p, b, used
<1>8. CASE q = p /\ c = b /\ used = 1
  BY <1>7, <1>8
<1>9. CASE ~(q = p /\ c = b /\ used = 1)
  <2>1. counter[q][c] # 0
    BY <1>1, <1>2, <1>4, <1>9 DEF used
  <2>2. <<q, c>> \in abandoned \/ strayed[q][c] > 0 \/ Expiring(q, c)
    BY <1>2, <2>1 DEF UntimedOnlyAfterFault, Expiring
  <2> QED BY <1>2, <1>6, <2>2
<1> QED BY <1>8, <1>9

(* UntimedOnlyAfterFault is preserved by EXPIRE, also when it finds no key. *)
LEMMA ExpireUntimed ==
    ASSUME Inv, UntimedOnlyAfterFault, NEW r \in Reqs, Expire(r)
    PROVE  UntimedOnlyAfterFault'
<1> SUFFICES ASSUME NEW q \in Periods, NEW c \in Buckets,
                    counter'[q][c] # 0, expiry'[q][c] = NoTtl
             PROVE  <<q, c>> \in abandoned' \/ strayed'[q][c] > 0 \/ Expiring(q, c)'
  BY DEF UntimedOnlyAfterFault, Expiring, Buckets, DayTicks
<1> DEFINE p == CallPeriod(r)
           b == CallBucket(r)
           until == clock + TtlSeconds(p, call[r].now) * TickRate
<1>1. /\ p \in Periods /\ b \in Buckets
      /\ call[r].now \in Nat /\ clock \in Nat /\ call[r].now <= clock
  <2>1. p \in Periods /\ call[r].now \in Times /\ clock \in Times /\ call[r].now <= clock
    BY DEF Expire, Inv, CallOK, CallPeriod, TypeOK, QuotaTypeOK, Calls
  <2> QED BY <2>1, BucketInRange DEF CallBucket, CallPeriod, Times
<1>2. \/ expiry' = [expiry EXCEPT ![p][b] = until]
      \/ counter[p][b] = 0 /\ expiry' = expiry
  BY DEF Expire, SetExpiry
<1>3. UNCHANGED <<counter, strayed, abandoned>>
  BY DEF Expire, ghostVars
<1>4. until \in Nat
  <2> HIDE DEF p
  <2> QED BY <1>1, TtlReach
<1>5. \A x \in Reqs : x # r => pc'[x] = pc[x] /\ call'[x] = call[x]
  BY DEF Expire, Checked, Goto, EndCall, Inv, TypeOK
<1>6. CallPeriod(r) = p /\ CallBucket(r) = b
  OBVIOUS
<1> HIDE DEF p, b, until
<1>7. expiry \in [Periods -> [Buckets -> Nat \cup {NoTtl}]]
  BY DEF Inv, TypeOK, QuotaTypeOK
<1>8. ~(q = p /\ c = b)
  <2>1. CASE expiry' = [expiry EXCEPT ![p][b] = until]
    BY <1>1, <1>4, <1>7, <2>1
  <2>2. CASE counter[p][b] = 0
    BY <1>3, <2>2
  <2> QED BY <1>2, <2>1, <2>2
<1>9. expiry[q][c] = NoTtl
  BY <1>1, <1>2, <1>7, <1>8
<1>10. <<q, c>> \in abandoned \/ strayed[q][c] > 0 \/ Expiring(q, c)
  BY <1>3, <1>9 DEF UntimedOnlyAfterFault, Expiring
<1>11. ASSUME Expiring(q, c) PROVE Expiring(q, c)'
  <2>1. PICK x \in Reqs : pc[x] = "expire" /\ CallPeriod(x) = q /\ CallBucket(x) = c
    BY <1>11 DEF Expiring
  <2>2. x # r
    BY <1>6, <1>8, <2>1
  <2>3. pc'[x] = "expire" /\ call'[x] = call[x]
    BY <1>5, <2>1, <2>2
  <2>4. CallPeriod(x)' = q /\ CallBucket(x)' = c
    BY <2>1, <2>3 DEF CallPeriod, CallBucket, BucketOf, PeriodTicks, DayTicks
  <2> QED BY <2>3, <2>4 DEF Expiring
<1> QED BY <1>3, <1>10, <1>11

(* UntimedOnlyAfterFault is preserved by DECR: one from zero is a stray.    *)
LEMMA DecrUntimed ==
    ASSUME Inv, UntimedOnlyAfterFault, NEW r \in Reqs, Decr(r)
    PROVE  UntimedOnlyAfterFault'
<1> SUFFICES ASSUME NEW q \in Periods, NEW c \in Buckets,
                    counter'[q][c] # 0, expiry'[q][c] = NoTtl
             PROVE  <<q, c>> \in abandoned' \/ strayed'[q][c] > 0 \/ Expiring(q, c)'
  BY DEF UntimedOnlyAfterFault, Expiring, Buckets, DayTicks
<1> DEFINE p == CallPeriod(r)
           b == CallBucket(r)
<1>1. p \in Periods /\ b \in Buckets
  <2>1. p \in Periods /\ call[r].now \in Times
    BY DEF Decr, Inv, CallOK, CallPeriod, TypeOK, Calls
  <2> QED BY <2>1, BucketInRange DEF CallBucket, CallPeriod
<1>2. /\ counter' = [counter EXCEPT ![p][b] = @ + (-1)]
      /\ UNCHANGED <<expiry, abandoned>> /\ pc[r] = "decr"
      /\ strayed' = strayed \/ strayed' = [strayed EXCEPT ![p][b] = @ + 1]
  BY DEF Decr, AddTo
<1>3. \A x \in Reqs : x # r => pc'[x] = pc[x] /\ call'[x] = call[x]
  BY DEF Decr, Goto, EndCall, Inv, TypeOK
<1> HIDE DEF p, b
<1>4. /\ counter \in [Periods -> [Buckets -> Int]] /\ strayed \in [Periods -> [Buckets -> Nat]]
  BY DEF Inv, TypeOK, QuotaTypeOK
<1>5. Expiring(q, c) => Expiring(q, c)'
  BY <1>2, <1>3, ExpiringKept
<1>6. CASE counter[q][c] = 0
  <2>1. counter'[q][c] < 0
    BY <1>1, <1>2, <1>4, <1>6
  <2>2. Inv'
    BY DecrInv
  <2>3. c \in Buckets' /\ q \in Periods'
    BY DEF Buckets, DayTicks, Periods
  <2>4. counter'[q][c] = Cardinality(Charged(q, c)') - strayed'[q][c]
    BY <2>2, <2>3 DEF Inv, CounterAccounts
  <2>5. strayed'[q][c] \in Nat
    BY <2>2, <2>3 DEF Inv, TypeOK
  <2>6. Cardinality(Charged(q, c)') \in Nat
    <3>1. Charged(q, c)' \in SUBSET Reqs
      BY DEF Charged
    <3> QED BY <3>1, FS_Subset, FS_CardinalityType, ReqsAssumption
  <2> QED BY <2>1, <2>4, <2>5, <2>6
<1>7. CASE counter[q][c] # 0
  <2>1. <<q, c>> \in abandoned \/ strayed[q][c] > 0 \/ Expiring(q, c)
    BY <1>2, <1>7 DEF UntimedOnlyAfterFault, Expiring
  <2>2. strayed[q][c] > 0 => strayed'[q][c] > 0
    BY <1>1, <1>2, <1>4
  <2> QED BY <1>2, <1>5, <2>1, <2>2
<1> QED BY <1>6, <1>7

(* UntimedOnlyAfterFault is preserved by time. *)
LEMMA ElapseUntimed ==
    ASSUME Inv, UntimedOnlyAfterFault, Elapse
    PROVE  UntimedOnlyAfterFault'
<1> SUFFICES ASSUME NEW q \in Periods, NEW c \in Buckets,
                    counter'[q][c] # 0, expiry'[q][c] = NoTtl
             PROVE  <<q, c>> \in abandoned' \/ strayed'[q][c] > 0 \/ Expiring(q, c)'
  BY DEF UntimedOnlyAfterFault, Expiring, Buckets, DayTicks
<1>1. UNCHANGED <<pc, call>>
  BY DEF Elapse, reqVars
<1> DEFINE gone == Expired(q, c, clock')
<1>2. /\ counter'[q][c] = IF gone THEN 0 ELSE counter[q][c]
      /\ expiry'[q][c] = IF gone THEN NoTtl ELSE expiry[q][c]
      /\ strayed'[q][c] = IF gone THEN 0 ELSE strayed[q][c]
      /\ <<q, c>> \in abandoned /\ ~gone => <<q, c>> \in abandoned'
  BY DEF Elapse, Tick
<1> HIDE DEF gone
<1>3. /\ counter[q][c] # 0 /\ expiry[q][c] = NoTtl /\ strayed'[q][c] = strayed[q][c]
      /\ <<q, c>> \in abandoned => <<q, c>> \in abandoned'
  BY <1>2
<1>4. <<q, c>> \in abandoned \/ strayed[q][c] > 0 \/ Expiring(q, c)
  BY <1>3 DEF UntimedOnlyAfterFault, Expiring
<1>5. Expiring(q, c) => Expiring(q, c)'
  BY <1>1 DEF Expiring, CallPeriod, CallBucket, BucketOf, PeriodTicks, DayTicks
<1> QED BY <1>1, <1>3, <1>4, <1>5

-----------------------------------------------------------------------------
(* The counters, the requests and their units always have their types. *)
THEOREM TypeCorrect == Spec => []TypeOK
<1>1. Inv => TypeOK
  BY DEF Inv
<1> QED
  BY Invariance, <1>1, PTL

(* However the INCRs and DECRs of any number of requests interleave, and    *)
(* whatever aborts, a Redis counter is the number of requests it is charged *)
(* for, less the strays.                                                    *)
THEOREM CountersAccount == Spec => []CounterAccounts
<1>1. Inv => CounterAccounts
  BY DEF Inv
<1> QED
  BY Invariance, <1>1, PTL

(* _enforce_quota lets at most max_requests requests through during the     *)
(* life of a counter key, plus one for every stray rollback.                *)
THEOREM QuotaCap == Spec => []CapPerCounter
<1>1. ASSUME Inv PROVE CapPerCounter
  <2> SUFFICES ASSUME NEW p \in Periods, NEW b \in Buckets
               PROVE  Cardinality(Charged(p, b) \cap Passed) <= Limit[p] + strayed[p][b]
    BY DEF CapPerCounter
  <2>1. Charged(p, b) \cap Passed \in SUBSET Within(p, b)
    BY <1>1 DEF Inv, Cleared, Within, Passed, Charged
  <2>2. Cardinality(Charged(p, b) \cap Passed) <= Cardinality(Within(p, b))
        /\ Cardinality(Charged(p, b) \cap Passed) \in Nat
    BY <2>1, ChargedFinite, FS_Subset, FS_CardinalityType
  <2>3. Cardinality(Within(p, b)) <= Limit[p] + strayed[p][b]
    BY <1>1 DEF Inv, WithinCap
  <2>4. Limit[p] \in Nat /\ strayed[p][b] \in Nat
    BY <1>1, QuotaAssumption DEF Inv, TypeOK
  <2> QED BY <2>2, <2>3, <2>4, ChargedFinite
<1> QED
  BY Invariance, <1>1, PTL

(* A request is answered by the upstream only if every quota was charged    *)
(* and within its limit, whether its log is written or not.                 *)
THEOREM AnsweredCharged == Spec => []AnsweredIsCharged
<1>1. Inv => AnsweredIsCharged
  BY DEF Inv, Cleared, AnsweredIsCharged
<1> QED
  BY Invariance, <1>1, PTL

(* The TTL of consume keeps a counter until the last two seconds of its day *)
(* or the last second of its month, however late EXPIRE runs.               *)
THEOREM CounterLifetime == Spec => []ForgetWindow
<1>1. Inv => ForgetWindow
  BY DEF Inv
<1> QED
  BY Invariance, <1>1, PTL

(* _enforce_quota and _forward: whoever is refused, or gets no answer from  *)
(* upstream, is charged in no quota of the current period, however long the *)
(* rollback took and whatever expired or began meanwhile.                   *)
THEOREM RefusedUncharged == Spec => []RefusedHoldsNothing
<1>1. ASSUME Inv, HoldInv PROVE RefusedHoldsNothing
  <2> SUFFICES ASSUME NEW r \in Reqs, pc[r] \in {"rejected", "refused"}, NEW p \in Periods
               PROVE  ~OwnUnit(r, p, BucketOf(p, clock))
    BY DEF RefusedHoldsNothing, Charged
  <2>1. Settled(r, p)
    BY <1>1 DEF HoldInv, Returned, EmptyHanded, Pending
  <2>2. unit[r][p].bucket \in Int /\ unit[r][p].epoch \in Int
    <3>1. unit[r][p] \in Units
      BY <1>1 DEF Inv, TypeOK
    <3> QED BY <3>1 DEF Units, Buckets
  <2>3. CASE unit[r][p].bucket < BucketOf(p, clock)
    <3>1. BucketOf(p, clock) \in Nat
      BY <1>1, BucketMonotone DEF Inv, TypeOK, QuotaTypeOK, Times
    <3> QED BY <2>2, <2>3, <3>1 DEF OwnUnit
  <2>4. ASSUME NEW b \in Buckets, unit[r][p].bucket = b, unit[r][p].epoch < epoch[p][b]
        PROVE  ~OwnUnit(r, p, BucketOf(p, clock))
    <3>1. epoch[p][b] \in Nat
      BY <1>1 DEF Inv, TypeOK
    <3> QED BY <2>2, <2>4, <3>1 DEF OwnUnit
  <2> QED BY <2>1, <2>3, <2>4 DEF Settled
<1> QED BY <1>1, Invariance, HoldInvariance, PTL

(* consume: INCR and EXPIRE are two commands, and still a counter is left   *)
(* without a TTL only by a request that died before the EXPIRE of this      *)
(* counter, or by a stray rollback to it.                                   *)
THEOREM CountersTimed == Spec => []UntimedOnlyAfterFault
<1>1. Init => UntimedOnlyAfterFault
  BY DEF Init, QuotaInit, UntimedOnlyAfterFault
<1>2. Inv /\ UntimedOnlyAfterFault /\ [Next]_vars => UntimedOnlyAfterFault'
  <2> SUFFICES ASSUME Inv, UntimedOnlyAfterFault, [Next]_vars PROVE UntimedOnlyAfterFault'
    OBVIOUS
  <2>1. ASSUME NEW r \in Reqs, Step(r) \/ Abort(r) PROVE UntimedOnlyAfterFault'
    BY <2>1, QuietUntimed, IncrUntimed, ExpireUntimed, DecrUntimed DEF Step
  <2>2. CASE UNCHANGED vars
    <3>1. UNCHANGED <<clock, counter, expiry, pc, call, strayed, abandoned>>
      BY <2>2 DEF vars, quotaVars, reqVars, ghostVars
    <3> QED BY <3>1 DEF UntimedOnlyAfterFault, CallPeriod, CallBucket, BucketOf, PeriodTicks,
                        DayTicks, Buckets
  <2> QED BY <2>1, <2>2, ElapseUntimed DEF Next
<1> QED BY <1>1, <1>2, Invariance, PTL DEF Spec
=============================================================================

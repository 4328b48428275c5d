------------------------- MODULE RateLimiterProofs -------------------------
(* What holds of RateLimiter for any limit, window, burst, tick and delay,  *)
(* and any number of gateway tasks.  The inductive invariant has, for each  *)
(* strategy, what its key still knows of the requests admitted: the fixed   *)
(* window those of the window and, as far as a span can reach back, those   *)
(* before it; the sliding window every one that is not yet a window old;    *)
(* the bucket, that its tokens and all it has admitted since any moment are *)
(* within its capacity and its refill since then.                           *)
EXTENDS RateLimiter, FiniteSetTheorems, NaturalsInduction, WellFoundedInduction, TLAPS

USE RateLimiterAssumption

AdmitRecs == [number : Nat, stamp : 0..MaxTime, at : 0..MaxTime]
LogRecs == [score : 0..MaxTime, member : Nat]

(* The keys are records; one that is absent is as good as new. *)
KeysOK ==
    /\ fixed \in [count : Nat, until : Nat] /\ (fixed.until = 0 <=> fixed.count = 0)
    /\ sliding \in [log : SUBSET LogRecs, until : Nat] /\ IsFiniteSet(sliding.log)
    /\ bucket \in [tokens : 0..Capacity, ts : 0..MaxTime, until : Nat]
    /\ bucket.until = 0 => bucket = NoBucket

Pending == {q \in Procs : sent[q] # Idle}

(* A script runs at most MaxDelay after its stamp, a request is admitted    *)
(* once, and nothing has happened in the future.                            *)
TimesOK ==
    /\ algorithm \in Algorithms /\ clock \in 0..MaxTime
    /\ sent \in [Procs -> 0..MaxTime \cup {Idle}]
    /\ checks \in Nat /\ checks + Cardinality(Pending) <= MaxChecks
    /\ newest \in 0..MaxTime /\ ordered \in BOOLEAN
    /\ \A p \in Procs : sent[p] # Idle => clock - MaxDelay <= sent[p] /\ sent[p] <= clock
    /\ admits \subseteq AdmitRecs /\ IsFiniteSet(admits)
    /\ \A a \in admits : /\ a.number < checks
                         /\ a.stamp <= clock /\ a.stamp <= newest /\ a.at <= clock
    /\ \A a, b \in admits : a.number = b.number => a = b
    /\ last \in [allowed : BOOLEAN, at : Nat, retryAfter : Nat]

Within(t, u) == {a \in admits : a.at >= t /\ a.at <= u}

(* The window that is open began at fixed.until - Window. *)
FixedOK ==
    algorithm = "fixed_window" =>
        IF fixed.until = 0
        THEN /\ \A a \in admits : a.at < clock
             /\ Cardinality(Within(clock - Window + 1, clock - 1)) <= Requests
        ELSE LET start == fixed.until - Window
             IN  /\ start <= clock /\ clock < fixed.until
                 /\ Cardinality(Within(start, clock)) <= Requests
                 /\ Cardinality(Within(start, clock)) <= fixed.count
                 /\ Cardinality(Within(start - Window + 1, start - 1)) <= Requests

(* The log has every admitted request that is not yet a window old. *)
SlidingOK ==
    algorithm = "sliding_window" =>
        /\ Cardinality(sliding.log) <= Requests
        /\ sliding.until <= clock + Window
        /\ \A e \in sliding.log : e.score + Window <= sliding.until
        /\ \A a \in admits : \/ a.stamp + Window <= clock
                             \/ [score |-> a.stamp, member |-> a.number] \in sliding.log

(* When a caller that was refused may come again. *)
ComeBack == last.at + last.retryAfter * TickRate

(* What the strategy has at that moment. *)
RetryOK ==
    ~last.allowed =>
        CASE algorithm = "fixed_window" -> fixed.until <= ComeBack
          [] algorithm = "sliding_window" ->
                sliding.log = {} \/ \E e \in sliding.log : e.score + Window <= ComeBack
          [] algorithm = "token_bucket" ->
                bucket.until = 0 \/ /\ bucket.ts <= ComeBack
                                    /\ bucket.tokens + (ComeBack - bucket.ts) * Requests >= Window

Inv ==
    /\ KeysOK /\ TimesOK
    /\ FixedOK /\ FixedWindowBurst /\ SlidingOK /\ SlidingWindowLimit /\ RetryOK

-----------------------------------------------------------------------------
(* The constants. *)
LEMMA Constants ==
    /\ Window \in Nat /\ Window >= 1 /\ Window >= TickRate
    /\ Capacity \in Nat /\ Capacity >= Window
    /\ BucketTtl \in Nat /\ BucketTtl >= 1
    /\ Requests \in Nat /\ Requests >= 1 /\ TickRate \in Nat /\ TickRate >= 1
    /\ MaxTime \in Nat /\ MaxDelay \in Nat
<1>1. Window \in Nat /\ Window >= 1 /\ Window >= TickRate
  BY DEF Window
<1>2. PICK w \in Nat : w = Window /\ w >= 1
  BY <1>1
<1>3. PICK b \in Nat : b = (IF Burst # 0 THEN Burst ELSE Requests) /\ b >= 1
  OBVIOUS
<1>4. b * w \in Nat /\ b * w >= w
  BY <1>2, <1>3
<1>5. Capacity = b * w
  BY <1>2, <1>3 DEF Capacity
<1>6. PICK c \in Nat : c = Capacity
  BY <1>4, <1>5
<1>7. c \div Requests \in Nat
  OBVIOUS
<1>8. BucketTtl = (c \div Requests) + TickRate
  BY <1>6 DEF BucketTtl
<1> QED BY <1>1, <1>2, <1>4, <1>5, <1>7, <1>8

(* The greater of two. *)
LEMMA MaxPair ==
    ASSUME NEW a \in Int, NEW b \in Int
    PROVE  Max({a, b}) = IF a >= b THEN a ELSE b
  BY DEF Max

(* The lesser of two. *)
LEMMA MinPair ==
    ASSUME NEW a \in Int, NEW b \in Int
    PROVE  Min({a, b}) = IF a <= b THEN a ELSE b
  BY DEF Min

(* CeilDiv rounds up. *)
LEMMA CeilUp ==
    ASSUME NEW a \in Int, NEW b \in Nat \ {0}
    PROVE  CeilDiv(a, b) \in Int /\ CeilDiv(a, b) * b >= a /\ (a >= 0 => CeilDiv(a, b) >= 0)
<1>1. PICK q \in Int : q = (-a) \div b /\ q * b <= -a /\ (a >= 0 => q <= 0)
  OBVIOUS
<1>2. (-q) * b = -(q * b)
  OBVIOUS
<1> QED BY <1>1, <1>2 DEF CeilDiv

(* _ms_to_seconds_ceil: the whole seconds are at least the ticks. *)
LEMMA SecondsEnough ==
    ASSUME NEW x \in Int
    PROVE  SecondsCeil(x) \in Nat /\ SecondsCeil(x) * TickRate >= x
<1>1. PICK c \in Int : c = CeilDiv(x, TickRate) /\ c * TickRate >= x
  BY CeilUp
<1>2. SecondsCeil(x) = IF 0 >= c THEN 0 ELSE c
  BY <1>1, MaxPair DEF SecondsCeil
<1>3. c <= 0 => c * TickRate <= 0
  OBVIOUS
<1> QED BY <1>1, <1>2, <1>3

(* A set of times that is not empty has a least one. *)
LEMMA LeastTime ==
    ASSUME NEW S \in SUBSET Nat, S # {}
    PROVE  Min(S) \in S /\ \A x \in S : Min(S) <= x
<1> DEFINE R == OpToRel(<, Nat)
<1>1. IsWellFoundedOn(R, Nat)
  BY NatLessThanWellFounded
<1>2. PICK x \in S : \A y \in S : ~(<<y, x>> \in R)
  <2> HIDE DEF R
  <2> QED BY <1>1, WFMin
<1>3. \A y \in S : <<y, x>> \in R <=> y < x
  BY DEF OpToRel
<1> HIDE DEF R
<1>4. ASSUME NEW y \in S PROVE x <= y
  <2>1. ~(y < x)
    BY <1>2, <1>3
  <2>2. x \in Nat /\ y \in Nat
    OBVIOUS
  <2> QED BY <2>1, <2>2
<1> QED BY <1>4 DEF Min

(* Inv holds initially. *)
LEMMA InitInv == Init => Inv
<1> SUFFICES ASSUME Init PROVE Inv
  OBVIOUS
<1> USE Constants
<1>1. /\ algorithm \in Algorithms /\ clock = 0 /\ sent = [p \in Procs |-> Idle]
      /\ fixed = NoFixed /\ sliding = NoSliding /\ bucket = NoBucket
      /\ checks = 0 /\ admits = {} /\ newest = 0 /\ ordered = TRUE
      /\ last = [allowed |-> TRUE, at |-> 0, retryAfter |-> 0]
  BY DEF Init
<1>3. KeysOK
  <2>1. NoFixed \in [count : Nat, until : Nat] /\ NoFixed.until = 0 /\ NoFixed.count = 0
    BY DEF NoFixed
  <2>2. NoSliding \in [log : SUBSET LogRecs, until : Nat] /\ IsFiniteSet(NoSliding.log)
    BY FS_EmptySet DEF NoSliding
  <2>3. NoBucket \in [tokens : 0..Capacity, ts : 0..MaxTime, until : Nat]
    BY DEF NoBucket
  <2> QED BY <1>1, <2>1, <2>2, <2>3 DEF KeysOK
<1>4. TimesOK
  <2>1. Pending = {}
    BY <1>1 DEF Pending
  <2> QED BY <1>1, <2>1, FS_EmptySet DEF TimesOK, Idle
<1>5. \A S : S \subseteq admits => Cardinality(S) = 0
  BY <1>1, FS_EmptySet
<1>6. FixedOK /\ FixedWindowBurst
  <2>1. \A t, u : Cardinality(Within(t, u)) = 0
    BY <1>5 DEF Within
  <2>2. fixed.until = 0
    BY <1>1 DEF NoFixed
  <2>3. FixedOK
    BY <1>1, <2>1, <2>2 DEF FixedOK
  <2>4. \A t \in 0..MaxTime : Cardinality({a \in admits : a.at \in t..(t + Window - 1)}) = 0
    BY <1>5
  <2>5. FixedWindowBurst
    BY <2>4 DEF FixedWindowBurst
  <2> QED BY <2>3, <2>5
<1>7. SlidingOK /\ SlidingWindowLimit
  <2>1. sliding.log = {} /\ sliding.until = 0
    BY <1>1 DEF NoSliding
  <2>2. SlidingOK
    BY <1>1, <2>1, FS_EmptySet DEF SlidingOK
  <2>3. \A t \in 0..MaxTime :
          Cardinality({a \in admits : a.stamp \in t..(t + Window - MaxDelay - 1)}) = 0
    BY <1>5
  <2> QED BY <2>2, <2>3 DEF SlidingWindowLimit
<1>8. RetryOK
  BY <1>1 DEF RetryOK
<1> QED BY <1>3, <1>4, <1>6, <1>7, <1>8 DEF Inv

(* Inv gives the types. *)
LEMMA InvTypes == Inv => TypeOK
<1> SUFFICES ASSUME Inv PROVE TypeOK
  OBVIOUS
<1>1. KeysOK /\ TimesOK
  BY DEF Inv
<1>2. checks \in 0..MaxChecks
  <2>1. Pending \subseteq Procs
    BY DEF Pending
  <2>2. Cardinality(Pending) \in Nat
    BY <2>1, FS_Subset, FS_CardinalityType
  <2> QED BY <1>1, <2>2 DEF TimesOK
<1>3. /\ fixed.count \in Nat /\ fixed.until \in Nat
      /\ \A e \in sliding.log : e.score \in 0..MaxTime /\ e.member \in Nat
      /\ sliding.until \in Nat
      /\ bucket.tokens \in 0..Capacity /\ bucket.ts \in 0..MaxTime /\ bucket.until \in Nat
  BY <1>1 DEF KeysOK, LogRecs
<1>4. /\ \A a \in admits : a.number \in Nat /\ a.stamp \in 0..MaxTime /\ a.at \in 0..MaxTime
      /\ last.allowed \in BOOLEAN /\ last.at \in Nat /\ last.retryAfter \in Nat
  BY <1>1 DEF TimesOK, AdmitRecs
<1> QED BY <1>1, <1>2, <1>3, <1>4 DEF TypeOK, TimesOK

-----------------------------------------------------------------------------
(* Whether the request with answer v is new among the admitted ones. *)
Admitted(p, v) ==
    \/ v.allowed = FALSE /\ admits' = admits
    \/ /\ v.allowed = TRUE
       /\ \E n \in AdmitRecs : /\ n.number = checks /\ n.stamp = sent[p] /\ n.at = clock
                               /\ admits' = admits \cup {n}

(* A script has been answered, whatever its strategy. *)
LEMMA AnswerTimes ==
    ASSUME TimesOK, NEW p \in Procs, sent[p] # Idle, NEW v, v.allowed \in BOOLEAN, v.retry \in Int,
           Answer(p, v)
    PROVE  /\ TimesOK' /\ Admitted(p, v)
           /\ sent[p] \in 0..MaxTime /\ clock - MaxDelay <= sent[p] /\ sent[p] <= clock
           /\ last'.allowed = v.allowed /\ last'.at = clock
           /\ last'.retryAfter = SecondsCeil(v.retry)
<1> USE Constants
<1>1. /\ sent' = [sent EXCEPT ![p] = Idle] /\ checks' = checks + 1
      /\ admits' = IF v.allowed
                   THEN admits \cup {[number |-> checks, stamp |-> sent[p], at |-> clock]}
                   ELSE admits
      /\ last' = [allowed |-> v.allowed, at |-> clock, retryAfter |-> SecondsCeil(v.retry)]
      /\ newest' = Max({newest, sent[p]})
      /\ ordered' = (ordered /\ newest <= sent[p])
      /\ UNCHANGED <<algorithm, clock>>
  BY DEF Answer
<1>2. /\ sent \in [Procs -> 0..MaxTime \cup {Idle}] /\ clock \in 0..MaxTime
      /\ checks \in Nat /\ newest \in 0..MaxTime
  BY DEF TimesOK
<1>3. PICK s \in 0..MaxTime : s = sent[p] /\ clock - MaxDelay <= s /\ s <= clock
  BY <1>2 DEF TimesOK
<1>4. newest' \in 0..MaxTime /\ newest <= newest' /\ s <= newest'
  <2>1. newest' = IF newest >= s THEN newest ELSE s
    BY <1>1, <1>2, <1>3, MaxPair
  <2> QED BY <1>2, <2>1
<1>5. PICK n : n = [number |-> checks, stamp |-> s, at |-> clock]
  OBVIOUS
<1>6. n \in AdmitRecs /\ n.number = checks /\ n.stamp = s /\ n.at = clock
  BY <1>2, <1>5 DEF AdmitRecs
<1>7. \/ v.allowed = FALSE /\ admits' = admits
      \/ v.allowed = TRUE /\ admits' = admits \cup {n}
  BY <1>1, <1>3, <1>5
<1>8. Admitted(p, v)
  BY <1>3, <1>6, <1>7 DEF Admitted
<1>9. last' \in [allowed : BOOLEAN, at : Nat, retryAfter : Nat]
  BY <1>1, <1>2, SecondsEnough
<1>10. /\ sent' \in [Procs -> 0..MaxTime \cup {Idle}]
       /\ checks' \in Nat /\ checks' + Cardinality(Pending') <= MaxChecks
  <2>1. Pending' = Pending \ {p} /\ p \in Pending /\ Pending \subseteq Procs
    BY <1>1, <1>2 DEF Pending
  <2>2. IsFiniteSet(Pending)
    BY <2>1, FS_Subset
  <2>3. Cardinality(Pending') = Cardinality(Pending) - 1 /\ Cardinality(Pending) \in Nat
    BY <2>1, <2>2, FS_RemoveElement, FS_CardinalityType
  <2>4. checks + Cardinality(Pending) <= MaxChecks
    BY DEF TimesOK
  <2>5. checks' \in Nat /\ checks' + Cardinality(Pending') <= MaxChecks
    BY <1>1, <1>2, <2>3, <2>4
  <2> QED BY <1>1, <1>2, <2>5
<1>11. /\ admits' \subseteq AdmitRecs /\ IsFiniteSet(admits')
  <2>1. admits \subseteq AdmitRecs /\ IsFiniteSet(admits)
    BY DEF TimesOK
  <2> QED BY <1>6, <1>7, <2>1, FS_AddElement
<1>12. \A a \in admits : /\ a.number < checks /\ a.number \in Nat /\ a.stamp \in Nat
                         /\ a.stamp <= clock /\ a.stamp <= newest /\ a.at <= clock
  BY DEF TimesOK, AdmitRecs
<1>13. \A a \in admits' : /\ a.number < checks'
                          /\ a.stamp <= clock' /\ a.stamp <= newest' /\ a.at <= clock'
  <2> SUFFICES ASSUME NEW a \in admits'
               PROVE  /\ a.number < checks + 1
                      /\ a.stamp <= clock /\ a.stamp <= newest' /\ a.at <= clock
    BY <1>1
  <2>1. CASE a \in admits
    BY <1>2, <1>4, <1>12, <2>1
  <2>2. CASE a = n
    BY <1>2, <1>3, <1>4, <1>6, <2>2
  <2> QED BY <1>7, <2>1, <2>2
<1>14. \A a, b \in admits' : a.number = b.number => a = b
  <2>1. \A a, b \in admits : a.number = b.number => a = b
    BY DEF TimesOK
  <2>2. \A a \in admits : a.number # n.number
    BY <1>2, <1>6, <1>12
  <2> QED BY <1>7, <2>1, <2>2
<1>15. \A q \in Procs : sent'[q] # Idle => clock' - MaxDelay <= sent'[q] /\ sent'[q] <= clock'
  BY <1>1, <1>2 DEF TimesOK
<1>16. ordered' \in BOOLEAN /\ algorithm' \in Algorithms /\ clock' \in 0..MaxTime
  BY <1>1 DEF TimesOK
<1>17. TimesOK'
  BY <1>4, <1>9, <1>10, <1>11, <1>13, <1>14, <1>15, <1>16 DEF TimesOK
<1> QED BY <1>1, <1>3, <1>8, <1>17

(* A part of a part of a finite set has no more elements. *)
LEMMA Part ==
    ASSUME NEW A, IsFiniteSet(A), NEW S, S \subseteq A, NEW T, T \subseteq S
    PROVE  /\ IsFiniteSet(S) /\ IsFiniteSet(T)
           /\ Cardinality(S) \in Nat /\ Cardinality(T) \in Nat
           /\ Cardinality(T) <= Cardinality(S)
<1>1. IsFiniteSet(S)
  BY FS_Subset
<1> QED BY <1>1, FS_Subset, FS_CardinalityType

(* One more element is at most one more. *)
LEMMA OneMore ==
    ASSUME NEW A, IsFiniteSet(A), NEW S, S \subseteq A, NEW x, NEW T, T \subseteq S \cup {x}
    PROVE  Cardinality(T) <= Cardinality(S) + 1
<1>1. IsFiniteSet(S) /\ Cardinality(S) \in Nat
  BY FS_Subset, FS_CardinalityType
<1>2. IsFiniteSet(S \cup {x}) /\ Cardinality(S \cup {x}) <= Cardinality(S) + 1
  BY <1>1, FS_AddElement
<1>3. Cardinality(T) <= Cardinality(S \cup {x}) /\ Cardinality(T) \in Nat
  BY <1>2, FS_Subset, FS_CardinalityType
<1>4. Cardinality(S \cup {x}) \in Nat
  BY <1>2, FS_CardinalityType
<1> QED BY <1>1, <1>2, <1>3, <1>4

(* What two parts cover is at most their sum. *)
LEMMA TwoParts ==
    ASSUME NEW A, IsFiniteSet(A), NEW S, S \subseteq A, NEW T, T \subseteq A,
           NEW U, U \subseteq S \cup T
    PROVE  Cardinality(U) <= Cardinality(S) + Cardinality(T)
<1>1. /\ IsFiniteSet(S) /\ Cardinality(S) \in Nat /\ IsFiniteSet(T) /\ Cardinality(T) \in Nat
      /\ IsFiniteSet(S \cap T) /\ Cardinality(S \cap T) \in Nat
  <2>1. IsFiniteSet(S) /\ IsFiniteSet(T) /\ IsFiniteSet(S \cap T)
    BY FS_Subset
  <2> QED BY <2>1, FS_CardinalityType
<1>2. /\ IsFiniteSet(S \cup T)
      /\ Cardinality(S \cup T) = Cardinality(S) + Cardinality(T) - Cardinality(S \cap T)
  BY <1>1, FS_Union
<1>3. Cardinality(U) <= Cardinality(S \cup T) /\ Cardinality(U) \in Nat
  BY <1>2, FS_Subset, FS_CardinalityType
<1> QED BY <1>1, <1>2, <1>3

-----------------------------------------------------------------------------
(* The fixed window. *)

(* The window that is open has at most its limit, and so has what a span    *)
(* can reach of the one before: together they bound every span.             *)
LEMMA BurstFromWindow ==
    ASSUME TimesOK, TimesOK', FixedOK', fixed'.until # 0, fixed'.until \in Nat, FixedWindowBurst,
           algorithm = "fixed_window", UNCHANGED algorithm, clock \in Nat, clock' = clock,
           \A a \in admits' : a \in admits \/ a.at = clock
    PROVE  FixedWindowBurst'
<1> USE Constants
<1>1. PICK s : s = fixed'.until - Window
  OBVIOUS
<1>2. PICK c \in Nat : c = clock
  OBVIOUS
<1>3. /\ s \in Int /\ s <= c
      /\ Cardinality(Within(s, c)') <= Requests
      /\ Cardinality(Within(s - Window + 1, s - 1)') <= Requests
  BY <1>1, <1>2 DEF FixedOK
<1>4. SUFFICES ASSUME NEW t \in 0..MaxTime
               PROVE  Cardinality({a \in admits' : a.at \in t..(t + Window - 1)}) <= 2 * Requests
  BY DEF FixedWindowBurst
<1>5. IsFiniteSet(admits') /\ admits' \subseteq AdmitRecs /\ \A a \in admits' : a.at <= c
  BY <1>2 DEF TimesOK
<1>6. \A a \in admits' : a.at \in Nat
  BY <1>5 DEF AdmitRecs
<1>7. CASE c \in t..(t + Window - 1)
  <2>1. {a \in admits' : a.at \in t..(t + Window - 1)}
          \subseteq Within(s, c)' \cup Within(s - Window + 1, s - 1)'
    <3> SUFFICES ASSUME NEW a \in admits', a.at \in t..(t + Window - 1)
                 PROVE  \/ a.at >= s /\ a.at <= c
                        \/ a.at >= s - Window + 1 /\ a.at <= s - 1
      BY DEF Within
    <3> QED BY <1>3, <1>5, <1>6, <1>7
  <2>2. Within(s, c)' \subseteq admits' /\ Within(s - Window + 1, s - 1)' \subseteq admits'
    BY DEF Within
  <2>3. PICK S : S = Within(s, c)'
    OBVIOUS
  <2>4. PICK T : T = Within(s - Window + 1, s - 1)'
    OBVIOUS
  <2>5. PICK U : U = {a \in admits' : a.at \in t..(t + Window - 1)}
    OBVIOUS
  <2>6. /\ Cardinality(U) <= Cardinality(S) + Cardinality(T)
        /\ Cardinality(U) \in Nat /\ Cardinality(S) \in Nat /\ Cardinality(T) \in Nat
    <3>1. S \subseteq admits' /\ T \subseteq admits' /\ U \subseteq admits' /\ U \subseteq S \cup T
      BY <2>1, <2>2, <2>3, <2>4, <2>5
    <3>2. Cardinality(U) <= Cardinality(S) + Cardinality(T)
      BY <1>5, <3>1, TwoParts
    <3> QED BY <1>5, <3>1, <3>2, FS_Subset, FS_CardinalityType
  <2>7. Cardinality(S) <= Requests /\ Cardinality(T) <= Requests
    BY <1>3, <2>3, <2>4
  <2> QED BY <2>5, <2>6, <2>7
<1>8. CASE c \notin t..(t + Window - 1)
  <2>1. PICK U : U = {a \in admits' : a.at \in t..(t + Window - 1)}
    OBVIOUS
  <2>2. PICK S : S = {a \in admits : a.at \in t..(t + Window - 1)}
    OBVIOUS
  <2>3. U \subseteq S /\ U \subseteq admits'
    BY <1>2, <1>8, <2>1, <2>2
  <2>4. Cardinality(S) <= 2 * Requests
    BY <2>2 DEF FixedWindowBurst
  <2>5. IsFiniteSet(admits) /\ S \subseteq admits
    BY <2>2 DEF TimesOK
  <2>6. /\ Cardinality(U) <= Cardinality(S)
        /\ Cardinality(U) \in Nat /\ Cardinality(S) \in Nat
    BY <2>3, <2>5, Part
  <2> QED BY <2>1, <2>4, <2>6
<1> QED BY <1>7, <1>8

(* Inv is preserved by the script of the fixed window. *)
LEMMA EvalFixedInv ==
    ASSUME Inv, NEW p \in Procs, EvalFixed(p)
    PROVE  Inv'
<1> USE Constants
<1>1. PICK v : v = FixedWindow(fixed, clock)
  OBVIOUS
<1>2. /\ algorithm = "fixed_window" /\ sent[p] # Idle /\ fixed' = v.key /\ Answer(p, v)
      /\ UNCHANGED <<sliding, bucket>>
  BY <1>1 DEF EvalFixed
<1>3. UNCHANGED <<algorithm, clock>>
  BY <1>2 DEF Answer
<1>4. KeysOK /\ TimesOK /\ FixedOK /\ FixedWindowBurst
  BY DEF Inv
<1>5. PICK k \in Nat : k = fixed.count
  BY <1>4 DEF KeysOK
<1>6. PICK f \in Nat : f = fixed.until
  BY <1>4 DEF KeysOK
<1>7. PICK c \in Nat : c = clock
  BY <1>4 DEF TimesOK
<1>8. PICK u \in Nat : u = (IF k + 1 = 1 THEN c + Window ELSE f)
  OBVIOUS
<1>9. /\ v.key = [count |-> k + 1, until |-> u]
      /\ v.allowed = (k + 1 <= Requests)
      /\ v.retry = IF k + 1 <= Requests THEN 0 ELSE u - c
  BY <1>1, <1>5, <1>6, <1>7, <1>8 DEF FixedWindow, Verdict
<1>10. v.allowed \in BOOLEAN /\ v.retry \in Int
  BY <1>9
<1>11. /\ TimesOK' /\ Admitted(p, v)
       /\ last'.allowed = v.allowed /\ last'.at = clock
       /\ last'.retryAfter = SecondsCeil(v.retry)
  BY <1>2, <1>4, <1>10, AnswerTimes
<1>12. fixed' \in [count : Nat, until : Nat] /\ fixed'.count = k + 1 /\ fixed'.until = u
  BY <1>2, <1>9
<1>13. (f = 0 <=> k = 0) /\ u # 0
  BY <1>4, <1>5, <1>6, <1>8 DEF KeysOK
<1>14. KeysOK'
  BY <1>2, <1>4, <1>12, <1>13 DEF KeysOK
<1>15. \/ v.allowed = FALSE /\ admits' = admits
       \/ /\ v.allowed = TRUE
          /\ \E n : n.at = c /\ admits' = admits \cup {n}
  BY <1>7, <1>11 DEF Admitted
<1>16. \A a \in admits' : a \in admits \/ a.at = clock
  BY <1>7, <1>15
<1>17. /\ admits \subseteq AdmitRecs /\ admits' \subseteq AdmitRecs
       /\ IsFiniteSet(admits) /\ IsFiniteSet(admits')
       /\ \A a \in admits : a.at <= c
  BY <1>4, <1>7, <1>11 DEF TimesOK
<1>18. FixedOK'
  <2>1. PICK s \in Int : s = u - Window
    OBVIOUS
  <2>2. PICK S : S = Within(s, c)
    OBVIOUS
  <2>3. PICK T : T = Within(s, c)'
    OBVIOUS
  <2>4. PICK A : A = Within(s - Window + 1, s - 1)
    OBVIOUS
  <2>5. PICK B : B = Within(s - Window + 1, s - 1)'
    OBVIOUS
  <2>6. /\ S \subseteq admits /\ A \subseteq admits
        /\ Cardinality(S) \in Nat /\ Cardinality(A) \in Nat
    <3>1. S \subseteq admits /\ A \subseteq admits
      BY <2>2, <2>4 DEF Within
    <3> QED BY <1>17, <3>1, Part
  <2>7. s <= c /\ c < u /\ Cardinality(A) <= Requests
        /\ Cardinality(S) <= k /\ Cardinality(S) <= Requests
    <3>1. CASE k = 0
      <4>1. u = c + Window /\ f = 0
        BY <1>8, <1>13, <3>1
      <4>2. s = c
        BY <2>1, <4>1
      <4>3. /\ \A a \in admits : a.at < c
            /\ Cardinality(Within(c - Window + 1, c - 1)) <= Requests
        BY <1>2, <1>4, <1>6, <1>7, <4>1 DEF FixedOK
      <4>4. S = {}
        <5>1. \A a \in admits : ~(a.at >= c)
          BY <1>17, <4>3 DEF AdmitRecs
        <5> QED BY <2>2, <4>2, <5>1 DEF Within
      <4>5. Cardinality(S) = 0
        BY <4>4, FS_EmptySet
      <4> QED BY <2>4, <3>1, <4>1, <4>2, <4>3, <4>5
    <3>2. CASE k # 0
      <4>1. u = f /\ f # 0
        BY <1>8, <1>13, <3>2
      <4> QED BY <1>2, <1>4, <1>5, <1>6, <1>7, <2>1, <2>2, <2>4, <4>1 DEF FixedOK
    <3> QED BY <3>1, <3>2
  <2>8. B \subseteq A
    <3> SUFFICES ASSUME NEW a \in admits', a.at >= s - Window + 1, a.at <= s - 1
                 PROVE  a \in admits
      BY <2>4, <2>5 DEF Within
    <3>1. a.at # c
      BY <2>7, <1>17 DEF AdmitRecs
    <3> QED BY <1>7, <1>16, <3>1
  <2>9. Cardinality(B) <= Requests
    <3>1. Cardinality(B) <= Cardinality(A) /\ Cardinality(B) \in Nat
      BY <1>17, <2>6, <2>8, Part
    <3> QED BY <2>6, <2>7, <3>1
  <2>10. Cardinality(T) <= Requests /\ Cardinality(T) <= k + 1
    <3>1. CASE v.allowed = FALSE /\ admits' = admits
      <4>1. T = S
        BY <2>2, <2>3, <3>1 DEF Within
      <4> QED BY <2>6, <2>7, <4>1
    <3>2. CASE v.allowed = TRUE /\ \E n : n.at = c /\ admits' = admits \cup {n}
      <4>1. PICK n : admits' = admits \cup {n}
        BY <3>2
      <4>2. T \subseteq S \cup {n} /\ T \subseteq admits'
        BY <2>2, <2>3, <4>1 DEF Within
      <4>3. Cardinality(T) <= Cardinality(S) + 1
        BY <1>17, <2>6, <4>2, OneMore
      <4>4. Cardinality(T) \in Nat
        BY <1>17, <4>2, Part
      <4>5. k + 1 <= Requests
        BY <1>9, <3>2
      <4> QED BY <2>6, <2>7, <4>3, <4>4, <4>5
    <3> QED BY <1>15, <3>1, <3>2
  <2>11. fixed'.until = u /\ fixed'.count = k + 1 /\ clock' = c /\ u - Window = s
    BY <1>3, <1>7, <1>12, <2>1
  <2>12. Within(s, clock)' = T
    BY <2>3, <2>11 DEF Within
  <2> QED BY <1>13, <2>5, <2>7, <2>9, <2>10, <2>11, <2>12 DEF FixedOK
<1>19. FixedWindowBurst'
  BY <1>2, <1>3, <1>4, <1>7, <1>11, <1>12, <1>13, <1>16, <1>18, BurstFromWindow
<1>20. RetryOK'
  <2>1. ASSUME ~last'.allowed PROVE u <= last'.at + last'.retryAfter * TickRate
    <3>1. v.retry = u - c
      BY <1>9, <1>11, <2>1
    <3>2. PICK x \in Nat : x = SecondsCeil(v.retry) /\ x * TickRate >= v.retry
      BY <1>10, SecondsEnough
    <3>3. last'.at = c /\ last'.retryAfter = x
      BY <1>7, <1>11, <3>2
    <3>4. x * TickRate \in Nat
      OBVIOUS
    <3> QED BY <3>1, <3>2, <3>3, <3>4
  <2> QED BY <1>2, <1>3, <1>12, <2>1 DEF RetryOK, ComeBack
<1>21. SlidingOK' /\ SlidingWindowLimit'
  BY <1>2, <1>3 DEF SlidingOK, SlidingWindowLimit
<1> QED BY <1>11, <1>14, <1>18, <1>19, <1>20, <1>21 DEF Inv

-----------------------------------------------------------------------------
(* The sliding window. *)

(* The entry of the log for an admitted request. *)
Entry(a) == [score |-> a.stamp, member |-> a.number]

(* Requests admitted have each an entry of their own. *)
LEMMA EntriesCount ==
    ASSUME TimesOK, NEW U, U \subseteq admits, NEW L, IsFiniteSet(L), \A a \in U : Entry(a) \in L
    PROVE  Cardinality(U) <= Cardinality(L)
<1> DEFINE g == [a \in U |-> Entry(a)]
<1>1. \A a, b \in U : Entry(a) = Entry(b) => a = b
  <2> SUFFICES ASSUME NEW a \in U, NEW b \in U, Entry(a) = Entry(b) PROVE a = b
    OBVIOUS
  <2>1. a.number = b.number
    BY DEF Entry
  <2> QED BY <2>1 DEF TimesOK
<1>2. g \in Injection(U, L)
  <2>1. g \in [U -> L]
    OBVIOUS
  <2>2. \A a, b \in U : g[a] = g[b] => a = b
    BY <1>1
  <2> QED BY <2>1, <2>2 DEF Injection, IsInjective
<1> HIDE DEF g
<1> QED BY <1>2, FS_Injection

(* Inv is preserved by the script of the sliding window. *)
LEMMA EvalSlidingInv ==
    ASSUME Inv, NEW p \in Procs, EvalSliding(p)
    PROVE  Inv'
<1> USE Constants
<1>1. PICK v : v = SlidingWindow(sliding, sent[p], checks, clock)
  OBVIOUS
<1>2. /\ algorithm = "sliding_window" /\ sent[p] # Idle /\ sliding' = v.key /\ Answer(p, v)
      /\ UNCHANGED <<fixed, bucket>>
  BY <1>1 DEF EvalSliding
<1>3. UNCHANGED <<algorithm, clock>>
  BY <1>2 DEF Answer
<1>4. KeysOK /\ TimesOK /\ SlidingOK /\ SlidingWindowLimit
  BY DEF Inv
<1>5. PICK c \in 0..MaxTime : c = clock
  BY <1>4 DEF TimesOK
<1>6. PICK st \in 0..MaxTime : st = sent[p] /\ c - MaxDelay <= st /\ st <= c
  <2>1. sent[p] \in 0..MaxTime \cup {Idle}
    BY <1>4 DEF TimesOK
  <2> QED BY <1>2, <1>4, <1>5, <2>1 DEF TimesOK
<1>7. PICK old \in SUBSET LogRecs : old = sliding.log /\ IsFiniteSet(old)
  BY <1>4 DEF KeysOK
<1>8. PICK u \in Nat : u = sliding.until
  BY <1>4 DEF KeysOK
<1>9. PICK log : log = {e \in old : e.score > st - Window}
  OBVIOUS
<1>10. /\ log \subseteq old /\ log \subseteq LogRecs /\ IsFiniteSet(log)
       /\ Cardinality(log) \in Nat /\ Cardinality(log) <= Requests
  <2>1. log \subseteq old
    BY <1>9
  <2>2. /\ IsFiniteSet(log) /\ Cardinality(log) \in Nat
        /\ Cardinality(log) <= Cardinality(old) /\ Cardinality(old) \in Nat
    BY <1>7, <2>1, Part
  <2>3. Cardinality(old) <= Requests
    BY <1>2, <1>4, <1>7 DEF SlidingOK
  <2> QED BY <1>7, <2>1, <2>2, <2>3
<1>11. PICK x : x = [score |-> st, member |-> checks]
  OBVIOUS
<1>12. x \in LogRecs /\ x.score = st
  BY <1>4, <1>11 DEF LogRecs, TimesOK
<1>13. v = IF Cardinality(log) < Requests
           THEN Verdict([log |-> log \cup {x}, until |-> c + Window], TRUE, 0)
           ELSE Verdict([sliding EXCEPT !.log = log], FALSE,
                        Min({e.score : e \in log}) + Window - st)
  BY <1>1, <1>5, <1>6, <1>7, <1>9, <1>11 DEF SlidingWindow
<1>14. \A a \in admits : /\ a.number \in Nat /\ a.stamp \in Nat
                         /\ a.stamp + Window <= c \/ Entry(a) \in old
  <2>1. \A a \in admits : a.number \in Nat /\ a.stamp \in Nat
    BY <1>4 DEF TimesOK, AdmitRecs
  <2>2. \A a \in admits : a.stamp + Window <= c \/ Entry(a) \in old
    BY <1>2, <1>4, <1>5, <1>7 DEF SlidingOK, Entry
  <2> QED BY <2>1, <2>2
<1>15. \A e \in old : e.score \in Nat /\ e.score + Window <= u
  BY <1>2, <1>4, <1>7, <1>8 DEF SlidingOK, LogRecs
<1>16. u <= c + Window
  BY <1>2, <1>4, <1>5, <1>8 DEF SlidingOK
<1>17. \A a \in admits : a.stamp + Window <= c \/ Entry(a) \in log
  <2> SUFFICES ASSUME NEW a \in admits, ~(a.stamp + Window <= c) PROVE Entry(a) \in log
    OBVIOUS
  <2>1. Entry(a) \in old /\ Entry(a).score = a.stamp
    BY <1>14 DEF Entry
  <2>2. a.stamp > st - Window
    BY <1>6, <1>14
  <2> QED BY <1>9, <2>1, <2>2
<1>18. FixedOK' /\ FixedWindowBurst'
  BY <1>2, <1>3 DEF FixedOK, FixedWindowBurst
<1>19. CASE Cardinality(log) < Requests
  <2>1. /\ v.key = [log |-> log \cup {x}, until |-> c + Window]
        /\ v.allowed = TRUE /\ v.retry = 0
    BY <1>13, <1>19 DEF Verdict
  <2>2. TimesOK' /\ Admitted(p, v) /\ last'.allowed = TRUE
    <3>0. v.allowed \in BOOLEAN
      BY <2>1, Zenon
    <3>1. v.retry \in Int
      BY <2>1
    <3>2. TimesOK' /\ Admitted(p, v) /\ last'.allowed = v.allowed
      BY <1>2, <1>4, <3>0, <3>1, AnswerTimes
    <3> QED BY <2>1, <3>2
  <2>3. PICK n \in AdmitRecs : /\ n.number = checks /\ n.stamp = st /\ n.at = clock
                               /\ admits' = admits \cup {n}
    BY <1>6, <2>1, <2>2 DEF Admitted
  <2>4. /\ sliding' \in [log : SUBSET LogRecs, until : Nat]
        /\ sliding'.log = log \cup {x} /\ sliding'.until = c + Window
    BY <1>2, <1>10, <1>12, <2>1
  <2>5. /\ IsFiniteSet(log \cup {x}) /\ Cardinality(log \cup {x}) <= Requests
    <3>1. /\ IsFiniteSet(log \cup {x})
          /\ Cardinality(log \cup {x}) = IF x \in log THEN Cardinality(log) ELSE Cardinality(log) + 1
      BY <1>10, FS_AddElement
    <3> QED BY <1>10, <1>19, <3>1
  <2>6. KeysOK'
    BY <1>2, <1>4, <2>4, <2>5 DEF KeysOK
  <2>7. SlidingOK'
    <3>1. \A e \in sliding'.log : e.score + Window <= sliding'.until
      BY <1>6, <1>10, <1>12, <1>15, <1>16, <2>4
    <3>2. \A a \in admits' : a.stamp + Window <= clock' \/ Entry(a) \in sliding'.log
      <4>1. Entry(n) = x
        BY <1>11, <2>3 DEF Entry
      <4> QED BY <1>3, <1>5, <1>17, <2>3, <2>4, <4>1
    <3> QED BY <1>3, <1>5, <2>4, <2>5, <3>1, <3>2 DEF SlidingOK, Entry
  <2>8. SlidingWindowLimit'
    <3> SUFFICES ASSUME NEW t \in 0..MaxTime
                 PROVE  Cardinality({a \in admits' : a.stamp \in t..(t + Window - MaxDelay - 1)})
                            <= Requests
      BY DEF SlidingWindowLimit
    <3>1. PICK h \in Int : h = t + Window - MaxDelay - 1
      OBVIOUS
    <3>2. PICK U : U = {a \in admits : a.stamp \in t..h}
      OBVIOUS
    <3>3. PICK W : W = {a \in admits' : a.stamp \in t..h}
      OBVIOUS
    <3>4. U \subseteq admits /\ IsFiniteSet(admits) /\ Cardinality(U) \in Nat /\ Cardinality(U) <= Requests
      <4>1. U \subseteq admits /\ IsFiniteSet(admits)
        BY <1>4, <3>2 DEF TimesOK
      <4>2. Cardinality(U) <= Requests
        BY <1>2, <1>4, <3>1, <3>2 DEF SlidingWindowLimit
      <4> QED BY <4>1, <4>2, Part
    <3>5. CASE st \in t..h
      <4>1. \A a \in U : Entry(a) \in log
        <5> SUFFICES ASSUME NEW a \in U PROVE ~(a.stamp + Window <= c)
          BY <1>17, <3>2
        <5> QED BY <1>6, <1>14, <3>1, <3>2, <3>5
      <4>2. Cardinality(U) <= Cardinality(log)
        BY <1>4, <1>10, <3>4, <4>1, EntriesCount
      <4>3. W \subseteq U \cup {n} /\ W \subseteq admits'
        BY <2>3, <3>2, <3>3
      <4>4. Cardinality(W) <= Cardinality(U) + 1
        BY <3>4, <4>3, OneMore
      <4>5. Cardinality(W) \in Nat
        BY <2>2, <4>3, Part DEF TimesOK
      <4> QED BY <1>10, <1>19, <3>1, <3>3, <3>4, <4>2, <4>4, <4>5
    <3>6. CASE st \notin t..h
      <4>1. W = U
        BY <2>3, <3>2, <3>3, <3>6
      <4> QED BY <3>1, <3>3, <3>4, <4>1
    <3> QED BY <3>5, <3>6
  <2>9. RetryOK'
    BY <2>2 DEF RetryOK
  <2> QED BY <1>18, <2>2, <2>6, <2>7, <2>8, <2>9 DEF Inv
<1>20. CASE ~(Cardinality(log) < Requests)
  <2>1. /\ v.key = [sliding EXCEPT !.log = log] /\ v.allowed = FALSE
        /\ v.retry = Min({e.score : e \in log}) + Window - st
    BY <1>13, <1>20 DEF Verdict
  <2>2. PICK e \in log : e.score = Min({i.score : i \in log})
    <3>1. log # {}
      BY <1>20, FS_EmptySet
    <3>2. {i.score : i \in log} \subseteq Nat /\ {i.score : i \in log} # {}
      BY <1>10, <1>15, <3>1
    <3>3. Min({i.score : i \in log}) \in {i.score : i \in log}
      BY <3>2, LeastTime
    <3> QED BY <3>3
  <2>3. PICK m \in Nat : m = e.score
    BY <1>10, <1>15
  <2>4. v.retry = m + Window - st
    BY <2>1, <2>2, <2>3
  <2>5. /\ TimesOK' /\ Admitted(p, v) /\ last'.allowed = FALSE
        /\ last'.at = clock /\ last'.retryAfter = SecondsCeil(v.retry)
    <3>0. v.allowed \in BOOLEAN
      BY <2>1, Zenon
    <3>1. v.retry \in Int
      BY <2>4
    <3>2. /\ TimesOK' /\ Admitted(p, v) /\ last'.allowed = v.allowed
          /\ last'.at = clock /\ last'.retryAfter = SecondsCeil(v.retry)
      BY <1>2, <1>4, <3>0, <3>1, AnswerTimes
    <3> QED BY <2>1, <3>2
  <2>6. admits' = admits
    BY <2>1, <2>5 DEF Admitted
  <2>7. /\ sliding' \in [log : SUBSET LogRecs, until : Nat]
        /\ sliding'.log = log /\ sliding'.until = u
    BY <1>2, <1>4, <1>8, <1>10, <2>1 DEF KeysOK
  <2>8. KeysOK'
    BY <1>2, <1>4, <1>10, <2>7 DEF KeysOK
  <2>9. SlidingOK'
    <3>1. \A a \in admits' : a.stamp + Window <= clock' \/ Entry(a) \in sliding'.log
      BY <1>3, <1>5, <1>17, <2>6, <2>7
    <3> QED BY <1>3, <1>5, <1>10, <1>15, <1>16, <2>7, <3>1 DEF SlidingOK, Entry
  <2>10. SlidingWindowLimit'
    BY <1>3, <1>4, <2>6 DEF SlidingWindowLimit
  <2>11. RetryOK'
    <3>1. PICK y \in Nat : y = SecondsCeil(v.retry) /\ y * TickRate >= m + Window - st
      BY <2>4, SecondsEnough
    <3>2. last'.at = c /\ last'.retryAfter = y
      BY <1>5, <2>5, <3>1
    <3>3. e.score + Window <= ComeBack'
      <4>1. y * TickRate \in Nat
        OBVIOUS
      <4> QED BY <1>6, <2>3, <3>1, <3>2, <4>1 DEF ComeBack
    <3> QED BY <1>2, <1>3, <2>7, <3>3 DEF RetryOK
  <2> QED BY <1>18, <2>5, <2>8, <2>9, <2>10, <2>11 DEF Inv
<1> QED BY <1>19, <1>20

-----------------------------------------------------------------------------
(* The token bucket. *)

BucketRecs == [tokens : 0..Capacity, ts : 0..MaxTime, until : Nat]

(* Products are monotone. *)
LEMMA Grows ==
    ASSUME NEW x \in Int, NEW y \in Int, x <= y, NEW m \in Nat
    PROVE  x * m <= y * m /\ x * m \in Int /\ y * m \in Int /\ (y - x) * m = y * m - x * m
  OBVIOUS

(* What a bucket has at time t: all it had and its refill, up to Capacity. *)
LEMMA RefilledAt ==
    ASSUME NEW b \in BucketRecs, b.until = 0 => b.tokens = Capacity, NEW t \in Nat
    PROVE  /\ Refilled(b, t) \in 0..Capacity
           /\ b.until = 0 => Refilled(b, t) = Capacity
           /\ b.until # 0 /\ b.ts <= t =>
                Refilled(b, t) = IF Capacity <= b.tokens + (t - b.ts) * Requests THEN Capacity
                                 ELSE b.tokens + (t - b.ts) * Requests
<1> USE Constants
<1>1. PICK k \in 0..Capacity : k = b.tokens
  BY DEF BucketRecs
<1>2. PICK ts \in Nat : ts = IF b.until = 0 THEN t ELSE b.ts
  BY DEF BucketRecs
<1>3. PICK m \in Nat : m = Max({0, t - ts}) /\ m = IF 0 >= t - ts THEN 0 ELSE t - ts
  <2>1. Max({0, t - ts}) = IF 0 >= t - ts THEN 0 ELSE t - ts
    BY MaxPair
  <2> QED BY <2>1
<1>4. PICK g \in Nat : g = m * Requests
  OBVIOUS
<1>5. Refilled(b, t) = Min({Capacity, k + g})
  BY <1>1, <1>2, <1>3, <1>4 DEF Refilled
<1>6. Refilled(b, t) = IF Capacity <= k + g THEN Capacity ELSE k + g
  BY <1>5, MinPair
<1>7. b.until # 0 /\ b.ts <= t => g = (t - b.ts) * Requests
  <2> SUFFICES ASSUME b.until # 0, b.ts <= t PROVE g = (t - b.ts) * Requests
    OBVIOUS
  <2>1. ts = b.ts /\ ts <= t
    BY <1>2
  <2>2. m = t - ts
    <3>1. m = IF 0 >= t - ts THEN 0 ELSE t - ts
      BY <1>3
    <3> QED BY <2>1, <3>1
  <2> QED BY <1>4, <2>1, <2>2
<1>8. b.until = 0 => k = Capacity
  BY <1>1
<1>9. b.until = 0 => Refilled(b, t) = Capacity
  BY <1>6, <1>8
<1>10. Refilled(b, t) \in 0..Capacity
  BY <1>6
<1> QED BY <1>1, <1>6, <1>7, <1>9, <1>10

(* What the script of the token bucket does. *)
LEMMA BucketScript ==
    ASSUME KeysOK, TimesOK, NEW p \in Procs, EvalBucket(p),
           NEW k, k = Refilled(bucket, sent[p])
    PROVE  /\ k \in 0..Capacity /\ TimesOK'
           /\ sent[p] \in 0..MaxTime /\ clock - MaxDelay <= sent[p] /\ sent[p] <= clock
           /\ UNCHANGED <<algorithm, clock, fixed, sliding>>
           /\ bucket' \in BucketRecs /\ bucket'.ts = sent[p]
           /\ bucket'.until = clock + BucketTtl /\ bucket'.until # 0
           /\ \/ /\ k >= Window /\ bucket'.tokens = k - Window /\ last'.allowed = TRUE
                 /\ \E n \in AdmitRecs : n.stamp = sent[p] /\ admits' = admits \cup {n}
              \/ /\ k < Window /\ bucket'.tokens = k /\ last'.allowed = FALSE
                 /\ last'.at = clock
                 /\ last'.retryAfter = SecondsCeil(CeilDiv(Window - k, Requests))
                 /\ admits' = admits
<1> USE Constants
<1>1. PICK v : v = TokenBucket(bucket, sent[p], clock)
  OBVIOUS
<1>2. /\ algorithm = "token_bucket" /\ sent[p] # Idle /\ bucket' = v.key /\ Answer(p, v)
      /\ UNCHANGED <<fixed, sliding>>
  BY <1>1 DEF EvalBucket
<1>3. UNCHANGED <<algorithm, clock>>
  BY <1>2 DEF Answer
<1>4. PICK c \in 0..MaxTime : c = clock
  BY DEF TimesOK
<1>5. PICK st \in 0..MaxTime : st = sent[p]
  BY <1>2 DEF TimesOK
<1>6. k \in 0..Capacity
  <2>1. bucket \in BucketRecs /\ (bucket.until = 0 => bucket.tokens = Capacity)
    BY DEF KeysOK, BucketRecs, NoBucket
  <2> QED BY <1>5, <2>1, RefilledAt
<1>7. /\ v.key = [tokens |-> IF k >= Window THEN k - Window ELSE k,
                  ts |-> st, until |-> c + BucketTtl]
      /\ v.allowed = (k >= Window)
      /\ v.retry = IF k >= Window THEN 0 ELSE CeilDiv(Window - k, Requests)
  BY <1>1, <1>4, <1>5 DEF TokenBucket, Verdict
<1>8. v.allowed \in BOOLEAN
  BY <1>7
<1>9. v.retry \in Int
  <2>1. Window - k \in Int
    BY <1>6
  <2>2. CeilDiv(Window - k, Requests) \in Int
    BY <2>1, CeilUp
  <2> QED BY <1>7, <2>2
<1>10. /\ TimesOK' /\ Admitted(p, v)
       /\ sent[p] \in 0..MaxTime /\ clock - MaxDelay <= sent[p] /\ sent[p] <= clock
       /\ last'.allowed = v.allowed /\ last'.at = clock
       /\ last'.retryAfter = SecondsCeil(v.retry)
  BY <1>2, <1>8, <1>9, AnswerTimes
<1>11. PICK left \in 0..Capacity : left = IF k >= Window THEN k - Window ELSE k
  BY <1>6
<1>12. /\ bucket' \in BucketRecs /\ bucket'.ts = st /\ bucket'.tokens = left
       /\ bucket'.until = c + BucketTtl
  BY <1>2, <1>7, <1>11 DEF BucketRecs
<1>13. CASE k >= Window
  <2>1. v.allowed = TRUE
    BY <1>7, <1>13
  <2>2. \E n \in AdmitRecs : n.stamp = sent[p] /\ admits' = admits \cup {n}
    BY <1>10, <2>1 DEF Admitted
  <2>3. last'.allowed = TRUE
    BY <1>10, <2>1
  <2> QED BY <1>2, <1>3, <1>4, <1>5, <1>6, <1>10, <1>11, <1>12, <1>13, <2>2, <2>3
<1>14. CASE ~(k >= Window)
  <2>1. v.allowed = FALSE /\ v.retry = CeilDiv(Window - k, Requests)
    <3>1. ~v.allowed
      BY <1>7, <1>14
    <3>2. v.retry = CeilDiv(Window - k, Requests)
      BY <1>7, <1>14
    <3> QED BY <1>8, <3>1, <3>2
  <2>2. admits' = admits /\ last'.allowed = FALSE
    BY <1>10, <2>1 DEF Admitted
  <2>3. k < Window
    BY <1>6, <1>14
  <2> QED BY <1>2, <1>3, <1>4, <1>5, <1>6, <1>10, <1>11, <1>12, <1>14, <2>1, <2>2, <2>3
<1> QED BY <1>13, <1>14

(* Inv is preserved by the script of the token bucket. *)
LEMMA EvalBucketInv ==
    ASSUME Inv, NEW p \in Procs, EvalBucket(p)
    PROVE  Inv'
<1> USE Constants
<1>1. KeysOK /\ TimesOK /\ algorithm = "token_bucket"
  BY DEF Inv, EvalBucket
<1>2. PICK k : k = Refilled(bucket, sent[p])
  OBVIOUS
<1>3. /\ k \in 0..Capacity /\ TimesOK'
      /\ sent[p] \in 0..MaxTime /\ sent[p] <= clock
      /\ UNCHANGED <<algorithm, clock, fixed, sliding>>
      /\ bucket' \in BucketRecs /\ bucket'.ts = sent[p] /\ bucket'.until # 0
      /\ last'.allowed = TRUE \/ /\ bucket'.tokens = k /\ k < Window /\ last'.at = clock
                                 /\ last'.retryAfter = SecondsCeil(CeilDiv(Window - k, Requests))
  BY <1>1, <1>2, BucketScript
<1>4. KeysOK'
  BY <1>1, <1>3 DEF KeysOK, BucketRecs
<1>5. RetryOK'
  <2> SUFFICES ASSUME ~last'.allowed
               PROVE  /\ bucket'.ts <= ComeBack'
                      /\ bucket'.tokens + (ComeBack' - bucket'.ts) * Requests >= Window
    BY <1>1, <1>3 DEF RetryOK
  <2>1. PICK c \in Nat : c = clock
    BY <1>1 DEF TimesOK
  <2>2. PICK st \in Nat : st = sent[p] /\ st <= c
    BY <1>3, <2>1
  <2>3. PICK r \in Int : r = CeilDiv(Window - k, Requests) /\ r * Requests >= Window - k
    <3>1. Window - k \in Int
      BY <1>3
    <3> QED BY <3>1, CeilUp
  <2>4. PICK y \in Nat : y = SecondsCeil(r) /\ y * TickRate >= r
    BY SecondsEnough
  <2>5. PICK z \in Nat : z = c + y * TickRate
    OBVIOUS
  <2>6. ComeBack' = z
    BY <1>3, <2>1, <2>3, <2>4, <2>5 DEF ComeBack
  <2>7. st <= z /\ r <= z - st /\ z - st \in Int
    <3>1. y * TickRate \in Nat
      OBVIOUS
    <3> QED BY <2>2, <2>4, <2>5, <3>1
  <2>8. (z - st) * Requests >= Window - k /\ (z - st) * Requests \in Int
    <3>1. r * Requests <= (z - st) * Requests /\ r * Requests \in Int
          /\ (z - st) * Requests \in Int
      BY <2>7, Grows
    <3> QED BY <1>3, <2>3, <3>1
  <2>9. bucket'.ts = st /\ bucket'.tokens = k
    BY <1>3, <2>2
  <2> QED BY <1>3, <2>6, <2>7, <2>8, <2>9
<1>6. FixedOK' /\ FixedWindowBurst' /\ SlidingOK' /\ SlidingWindowLimit'
  BY <1>1, <1>3 DEF FixedOK, FixedWindowBurst, SlidingOK, SlidingWindowLimit
<1> QED BY <1>3, <1>4, <1>5, <1>6 DEF Inv

-----------------------------------------------------------------------------
(* Inv is preserved by sending a script. *)
LEMMA SendInv ==
    ASSUME Inv, NEW p \in Procs, Send(p)
    PROVE  Inv'
<1> USE Constants
<1>1. /\ sent[p] = Idle /\ sent' = [sent EXCEPT ![p] = clock]
      /\ checks + Cardinality(Pending) < MaxChecks
      /\ UNCHANGED <<algorithm, clock, fixed, sliding, bucket, checks, admits, last, newest, ordered>>
  BY DEF Send, Pending
<1>2. TimesOK /\ sent \in [Procs -> 0..MaxTime \cup {Idle}] /\ clock \in 0..MaxTime
  BY DEF Inv, TimesOK
<1>3. checks' \in Nat /\ checks' + Cardinality(Pending') <= MaxChecks
  <2>1. Pending \subseteq Procs /\ Pending' \subseteq Procs /\ Pending' \subseteq Pending \cup {p}
    BY <1>1, <1>2 DEF Pending
  <2>2. Cardinality(Pending') <= Cardinality(Pending) + 1
    BY <2>1, OneMore
  <2>3. Cardinality(Pending') \in Nat /\ Cardinality(Pending) \in Nat
    BY <2>1, Part
  <2>4. checks \in Nat
    BY <1>2 DEF TimesOK
  <2> QED BY <1>1, <2>2, <2>3, <2>4
<1>4. sent' \in [Procs -> 0..MaxTime \cup {Idle}]
  BY <1>1, <1>2
<1>5. \A q \in Procs : sent'[q] # Idle => clock' - MaxDelay <= sent'[q] /\ sent'[q] <= clock'
  <2> SUFFICES ASSUME NEW q \in Procs, sent'[q] # Idle
               PROVE  clock - MaxDelay <= sent'[q] /\ sent'[q] <= clock
    BY <1>1
  <2>1. CASE q = p
    BY <1>1, <1>2, <2>1
  <2>2. CASE q # p
    BY <1>1, <1>2, <2>2 DEF TimesOK
  <2> QED BY <2>1, <2>2
<1>6. TimesOK'
  BY <1>1, <1>2, <1>3, <1>4, <1>5 DEF TimesOK
<1>7. KeysOK'
  BY <1>1 DEF Inv, KeysOK
<1>8. FixedOK' /\ FixedWindowBurst' /\ SlidingOK' /\ SlidingWindowLimit'
  BY <1>1 DEF Inv, FixedOK, FixedWindowBurst, SlidingOK, SlidingWindowLimit, Within
<1>9. RetryOK'
  BY <1>1 DEF Inv, RetryOK, ComeBack
<1> QED BY <1>6, <1>7, <1>8, <1>9 DEF Inv

(* Inv is preserved by time and the expiry of the keys. *)
LEMMA TickInv ==
    ASSUME Inv, Tick
    PROVE  Inv'
<1> USE Constants
<1>1. /\ clock < MaxTime /\ clock' = clock + 1
      /\ \A p \in Procs : sent[p] # Idle => clock - sent[p] < MaxDelay
      /\ fixed' = KeyAt(fixed, NoFixed, clock')
      /\ sliding' = KeyAt(sliding, NoSliding, clock')
      /\ bucket' = KeyAt(bucket, NoBucket, clock')
      /\ UNCHANGED <<algorithm, sent, checks, admits, last, newest, ordered>>
  BY DEF Tick
<1>2. TimesOK /\ KeysOK
  BY DEF Inv
<1>3. PICK c \in 0..MaxTime : c = clock /\ clock' = c + 1 /\ c + 1 \in 0..MaxTime
  BY <1>1, <1>2 DEF TimesOK
<1>4. TimesOK'
  <2>1. \A p \in Procs : sent[p] # Idle => c + 1 - MaxDelay <= sent[p] /\ sent[p] <= c + 1
    <3> SUFFICES ASSUME NEW p \in Procs, sent[p] # Idle
                 PROVE  c + 1 - MaxDelay <= sent[p] /\ sent[p] <= c + 1
      OBVIOUS
    <3>1. sent[p] \in 0..MaxTime /\ c - sent[p] < MaxDelay /\ sent[p] <= c
      BY <1>1, <1>2, <1>3 DEF TimesOK
    <3> QED BY <3>1
  <2>2. \A a \in admits : a.stamp \in Nat /\ a.at \in Nat /\ a.stamp <= c /\ a.at <= c
    BY <1>2, <1>3 DEF TimesOK, AdmitRecs
  <2>3. \A a \in admits : a.stamp <= c + 1 /\ a.at <= c + 1
    BY <2>2
  <2>4. Pending' = Pending
    BY <1>1 DEF Pending
  <2> QED BY <1>1, <1>2, <1>3, <2>1, <2>3, <2>4 DEF TimesOK
<1>5. /\ \/ fixed' = NoFixed /\ fixed.until <= c + 1
         \/ fixed' = fixed /\ ~(fixed.until <= c + 1)
      /\ \/ sliding' = NoSliding /\ sliding.until <= c + 1
         \/ sliding' = sliding
      /\ \/ bucket' = NoBucket
         \/ bucket' = bucket
  BY <1>1, <1>3 DEF KeyAt
<1>6. /\ NoFixed.until = 0 /\ NoFixed.count = 0 /\ NoFixed \in [count : Nat, until : Nat]
      /\ NoSliding.log = {} /\ NoSliding.until = 0
      /\ NoSliding \in [log : SUBSET LogRecs, until : Nat]
      /\ NoBucket.until = 0 /\ NoBucket \in [tokens : 0..Capacity, ts : 0..MaxTime, until : Nat]
  BY DEF NoFixed, NoSliding, NoBucket
<1>7. KeysOK'
  BY <1>2, <1>5, <1>6, FS_EmptySet DEF KeysOK
<1>8. FixedOK'
  <2> SUFFICES ASSUME algorithm = "fixed_window" PROVE FixedOK'
    BY <1>1 DEF FixedOK
  <2>1. PICK u \in Nat : u = fixed.until
    BY <1>2 DEF KeysOK
  <2>2. /\ admits' = admits /\ IsFiniteSet(admits) /\ algorithm' = algorithm
        /\ \A a \in admits : a.at \in Nat /\ a.at <= c
    BY <1>1, <1>2, <1>3 DEF TimesOK, AdmitRecs
  <2>3. \A t, w : Within(t, w)' = Within(t, w) /\ Within(t, w) \subseteq admits
    BY <2>2 DEF Within
  <2>4. \A a \in admits : a.at < c + 1
    BY <2>2
  <2>5. CASE u = 0
    <3>1. fixed'.until = 0
      BY <1>5, <1>6, <2>1, <2>5
    <3>2. /\ \A a \in admits : a.at < c
          /\ Cardinality(Within(c - Window + 1, c - 1)) <= Requests
      BY <1>3, <2>1, <2>5 DEF Inv, FixedOK
    <3>3. Within(c + 1 - Window + 1, c + 1 - 1) \subseteq Within(c - Window + 1, c - 1)
      BY <2>2, <3>2 DEF Within
    <3>4. Cardinality(Within(c + 1 - Window + 1, c + 1 - 1)) <= Requests
      <4>1. PICK S : S = Within(c - Window + 1, c - 1)
        OBVIOUS
      <4>2. PICK T : T = Within(c + 1 - Window + 1, c + 1 - 1)
        OBVIOUS
      <4>3. /\ Cardinality(T) <= Cardinality(S)
            /\ Cardinality(S) \in Nat /\ Cardinality(T) \in Nat
        BY <2>2, <2>3, <3>3, <4>1, <4>2, Part
      <4> QED BY <3>2, <4>1, <4>2, <4>3
    <3>5. Within(clock - Window + 1, clock - 1)' = Within(c + 1 - Window + 1, c + 1 - 1)
      BY <1>3, <2>2 DEF Within
    <3> QED BY <1>3, <2>2, <2>4, <3>1, <3>4, <3>5 DEF FixedOK
  <2>6. ASSUME u # 0
        PROVE  /\ u - Window <= c /\ c < u
               /\ Cardinality(Within(u - Window, c)) <= Requests
               /\ Cardinality(Within(u - Window, c)) <= fixed.count
               /\ Cardinality(Within(u - Window - Window + 1, u - Window - 1)) <= Requests
    BY <1>3, <2>1, <2>6 DEF Inv, FixedOK
  <2>7. CASE u # 0 /\ u <= c + 1
    <3>1. fixed'.until = 0
      BY <1>5, <1>6, <2>1, <2>7
    <3>2. u = c + 1
      BY <2>6, <2>7
    <3>3. Within(c + 1 - Window + 1, c + 1 - 1) \subseteq Within(u - Window, c)
      BY <2>2, <3>2 DEF Within
    <3>4. Cardinality(Within(c + 1 - Window + 1, c + 1 - 1)) <= Requests
      <4>1. PICK S : S = Within(u - Window, c)
        OBVIOUS
      <4>2. PICK T : T = Within(c + 1 - Window + 1, c + 1 - 1)
        OBVIOUS
      <4>3. /\ Cardinality(T) <= Cardinality(S)
            /\ Cardinality(S) \in Nat /\ Cardinality(T) \in Nat
        BY <2>2, <2>3, <3>3, <4>1, <4>2, Part
      <4> QED BY <2>6, <2>7, <4>1, <4>2, <4>3
    <3>5. Within(clock - Window + 1, clock - 1)' = Within(c + 1 - Window + 1, c + 1 - 1)
      BY <1>3, <2>2 DEF Within
    <3> QED BY <1>3, <2>2, <2>4, <3>1, <3>4, <3>5 DEF FixedOK
  <2>8. CASE u # 0 /\ ~(u <= c + 1)
    <3>1. fixed' = fixed
      BY <1>5, <2>1, <2>8
    <3>2. Within(u - Window, c + 1) = Within(u - Window, c)
      <4>1. \A a \in admits : a.at <= c + 1 <=> a.at <= c
        BY <2>2
      <4> QED BY <4>1 DEF Within
    <3>3. u - Window <= c + 1 /\ c + 1 < u
      BY <2>6, <2>8
    <3>4. /\ Cardinality(Within(u - Window, clock)') <= Requests
          /\ Cardinality(Within(u - Window, clock)') <= fixed'.count
      <4>1. Within(u - Window, clock)' = Within(u - Window, c)
        BY <1>3, <2>2, <3>2 DEF Within
      <4> QED BY <2>6, <2>8, <3>1, <4>1
    <3>5. Cardinality(Within(u - Window - Window + 1, u - Window - 1)') <= Requests
      BY <2>3, <2>6, <2>8
    <3>6. u = fixed'.until /\ clock' = c + 1
      BY <1>3, <2>1, <3>1
    <3> QED BY <2>8, <3>3, <3>4, <3>5, <3>6 DEF FixedOK
  <2> QED BY <2>5, <2>7, <2>8
<1>9. SlidingOK'
  <2> SUFFICES ASSUME algorithm = "sliding_window" PROVE SlidingOK'
    BY <1>1 DEF SlidingOK
  <2>1. /\ Cardinality(sliding.log) <= Requests /\ sliding.until <= c + Window
        /\ \A e \in sliding.log : e.score + Window <= sliding.until
        /\ \A a \in admits : \/ a.stamp + Window <= c
                             \/ [score |-> a.stamp, member |-> a.number] \in sliding.log
    BY <1>3 DEF Inv, SlidingOK
  <2>2. PICK u \in Nat : u = sliding.until
    BY <1>2 DEF KeysOK
  <2>3. \A a \in admits : a.stamp \in Nat /\ a.number \in Nat
    BY <1>2 DEF TimesOK, AdmitRecs
  <2>4. CASE sliding' = sliding
    BY <1>1, <1>3, <2>1, <2>2, <2>3, <2>4 DEF SlidingOK
  <2>5. CASE sliding' = NoSliding /\ u <= c + 1
    <3>1. \A a \in admits : a.stamp + Window <= c + 1
      <4> SUFFICES ASSUME NEW a \in admits, ~(a.stamp + Window <= c) PROVE a.stamp + Window <= c + 1
        BY <2>3
      <4>1. PICK e \in sliding.log : e = [score |-> a.stamp, member |-> a.number]
        BY <2>1
      <4>2. a.stamp + Window <= u
        BY <2>1, <2>2, <4>1
      <4> QED BY <2>3, <2>5, <4>2
    <3> QED BY <1>1, <1>3, <1>6, <2>5, <3>1, FS_EmptySet DEF SlidingOK
  <2> QED BY <1>5, <2>2, <2>4, <2>5
<1>10. RetryOK'
  <2> SUFFICES ASSUME ~last.allowed PROVE RetryOK'
    BY <1>1 DEF RetryOK
  <2>1. RetryOK /\ ComeBack' = ComeBack /\ ComeBack \in Nat /\ algorithm \in Algorithms
    <3>1. last.at \in Nat /\ last.retryAfter \in Nat /\ last.retryAfter * TickRate \in Nat
      BY <1>2 DEF TimesOK
    <3>2. ComeBack \in Nat
      BY <3>1 DEF ComeBack
    <3> QED BY <1>1, <1>2, <3>2 DEF Inv, ComeBack, TimesOK
  <2>2. CASE algorithm = "fixed_window"
    BY <1>1, <1>5, <1>6, <2>1, <2>2 DEF RetryOK
  <2>3. CASE algorithm = "sliding_window"
    BY <1>1, <1>5, <1>6, <2>1, <2>3 DEF RetryOK
  <2>4. CASE algorithm = "token_bucket"
    BY <1>1, <1>5, <1>6, <2>1, <2>4 DEF RetryOK
  <2> QED BY <2>1, <2>2, <2>3, <2>4 DEF Algorithms
<1>11. FixedWindowBurst' /\ SlidingWindowLimit'
  BY <1>1 DEF Inv, FixedWindowBurst, SlidingWindowLimit
<1> QED BY <1>4, <1>7, <1>8, <1>9, <1>10, <1>11 DEF Inv

(* Inv is preserved by every step. *)
LEMMA NextInv == Inv /\ [Next]_vars => Inv'
<1> SUFFICES ASSUME Inv, [Next]_vars PROVE Inv'
  OBVIOUS
<1>1. CASE UNCHANGED vars
  <2>1. /\ UNCHANGED <<algorithm, clock, sent, fixed, sliding, bucket>>
        /\ UNCHANGED <<checks, admits, last, newest, ordered>>
    BY <1>1 DEF vars
  <2>2. KeysOK' /\ TimesOK'
    BY <2>1 DEF Inv, KeysOK, TimesOK, Pending
  <2>3. FixedOK' /\ FixedWindowBurst' /\ SlidingOK' /\ SlidingWindowLimit'
    BY <2>1 DEF Inv, FixedOK, FixedWindowBurst, SlidingOK, SlidingWindowLimit, Within
  <2>4. RetryOK'
    BY <2>1 DEF Inv, RetryOK, ComeBack
  <2> QED BY <2>2, <2>3, <2>4 DEF Inv
<1> QED BY <1>1, TickInv, SendInv, EvalFixedInv, EvalSlidingInv, EvalBucketInv DEF Next

(* Inv holds in every state the limiter reaches. *)
LEMMA Invariance == Spec => []Inv
  BY InitInv, NextInv, PTL DEF Spec

(* The types of the three keys and the answers; a bucket is never beyond    *)
(* its capacity nor below zero, whatever the order of the stamps.           *)
THEOREM LimiterTypes == Spec => []TypeOK
  BY Invariance, InvTypes, PTL

(* The fixed window (strategies.py) admits two windows' worth in any        *)
(* Window ticks at most.                                                    *)
THEOREM FixedBurstBounded == Spec => []FixedWindowBurst
<1>1. Inv => FixedWindowBurst
  BY DEF Inv
<1> QED BY <1>1, Invariance, PTL

(* The sliding window (strategies.py) keeps its limit in any                *)
(* Window - MaxDelay ticks of stamps, however late and out of order the     *)
(* scripts run.                                                             *)
THEOREM SlidingLimitKept == Spec => []SlidingWindowLimit
<1>1. Inv => SlidingWindowLimit
  BY DEF Inv
<1> QED BY <1>1, Invariance, PTL

-----------------------------------------------------------------------------
(* The bucket has a token at T when its tokens and its refill reach one. *)
LEMMA BucketAdmits ==
    ASSUME KeysOK, NEW T \in Nat,
           \/ bucket.until = 0
           \/ bucket.ts <= T /\ bucket.tokens + (T - bucket.ts) * Requests >= Window
    PROVE  TokenBucket(KeyAt(bucket, NoBucket, T), T, T).allowed
<1> USE Constants
<1>1. NoBucket \in BucketRecs /\ NoBucket.until = 0 /\ NoBucket.tokens = Capacity
  BY DEF NoBucket, BucketRecs
<1>2. PICK b : b = KeyAt(bucket, NoBucket, T)
  OBVIOUS
<1>3. b \in BucketRecs /\ (b.until = 0 => b.tokens = Capacity) /\ (b = NoBucket \/ b = bucket)
  BY <1>1, <1>2 DEF KeyAt, KeysOK, BucketRecs
<1>4. Refilled(b, T) >= Window
  <2>1. CASE b.until = 0
    BY <1>3, <2>1, RefilledAt
  <2>2. CASE b.until # 0
    <3>1. b = bucket /\ b.ts <= T /\ b.tokens + (T - b.ts) * Requests >= Window
      BY <1>1, <1>3, <2>2
    <3>2. Refilled(b, T) = IF Capacity <= b.tokens + (T - b.ts) * Requests THEN Capacity
                           ELSE b.tokens + (T - b.ts) * Requests
      BY <1>3, <2>2, <3>1, RefilledAt
    <3> QED BY <3>1, <3>2
  <2> QED BY <2>1, <2>2
<1> QED BY <1>2, <1>4 DEF TokenBucket, Verdict

(* The sliding window has room at T when its log is empty, or has an entry  *)
(* that is out of the window by then.                                       *)
LEMMA SlidingAdmits ==
    ASSUME KeysOK, Cardinality(sliding.log) <= Requests, NEW T \in Nat, NEW m,
           sliding.log = {} \/ \E e \in sliding.log : e.score + Window <= T
    PROVE  SlidingWindow(KeyAt(sliding, NoSliding, T), T, m, T).allowed
<1> USE Constants
<1>1. PICK k : k = KeyAt(sliding, NoSliding, T)
  OBVIOUS
<1>2. PICK log : log = {e \in k.log : e.score > T - Window}
  OBVIOUS
<1>3. /\ k.log = {} \/ k.log = sliding.log
      /\ IsFiniteSet(sliding.log) /\ sliding.log \subseteq LogRecs
  BY <1>1 DEF KeyAt, NoSliding, KeysOK
<1>4. Cardinality(log) < Requests
  <2>1. CASE log = {}
    BY <2>1, FS_EmptySet
  <2>2. CASE log # {}
    <3>1. k.log = sliding.log /\ sliding.log # {}
      BY <1>2, <1>3, <2>2
    <3>2. PICK e \in sliding.log : e.score + Window <= T
      BY <3>1
    <3>3. ~(e.score > T - Window)
      BY <1>3, <3>2 DEF LogRecs
    <3>4. log \subseteq sliding.log \ {e}
      BY <1>2, <3>1, <3>3
    <3>5. /\ IsFiniteSet(sliding.log \ {e})
          /\ Cardinality(sliding.log \ {e}) = Cardinality(sliding.log) - 1
      BY <1>3, FS_RemoveElement
    <3>6. Cardinality(log) <= Cardinality(sliding.log \ {e}) /\ IsFiniteSet(log)
      BY <3>4, <3>5, FS_Subset
    <3>7. Cardinality(log) \in Nat /\ Cardinality(sliding.log) \in Nat
      BY <1>3, <3>6, FS_CardinalityType
    <3> QED BY <3>5, <3>6, <3>7
  <2> QED BY <2>1, <2>2
<1> QED BY <1>1, <1>2, <1>4 DEF SlidingWindow, Verdict

(* The fixed window is open again at T when its key has expired by then. *)
LEMMA FixedAdmits ==
    ASSUME NEW T \in Nat, fixed.until <= T
    PROVE  FixedWindow(KeyAt(fixed, NoFixed, T), T).allowed
<1>1. KeyAt(fixed, NoFixed, T) = NoFixed /\ NoFixed.count + 1 = 1
  BY DEF KeyAt, NoFixed
<1>2. FixedWindow(NoFixed, T).allowed = (NoFixed.count + 1 <= Requests)
  BY DEF FixedWindow, Verdict
<1>3. NoFixed.count + 1 <= Requests
  BY <1>1
<1> QED BY <1>1, <1>2, <1>3, Zenon

(* Inv gives what a caller may expect that comes back. *)
LEMMA InvRetry == Inv => RetryAfterSuffices
<1> USE Constants
<1> SUFFICES ASSUME Inv, ~last.allowed, NEW d \in {0, 1}
             PROVE  AdmitsAt(ComeBack + d)
  BY DEF RetryAfterSuffices, ComeBack
<1>1. KeysOK /\ TimesOK /\ RetryOK /\ SlidingOK
  BY DEF Inv
<1>2. PICK c \in Nat : c = ComeBack
  <2>1. last.at \in Nat /\ last.retryAfter \in Nat /\ last.retryAfter * TickRate \in Nat
    BY <1>1 DEF TimesOK
  <2> QED BY <2>1 DEF ComeBack
<1>3. PICK T \in Nat : T = ComeBack + d /\ c <= T
  BY <1>2
<1>4. CASE algorithm = "fixed_window"
  <2>1. fixed.until <= c /\ fixed.until \in Nat
    BY <1>1, <1>2, <1>4 DEF RetryOK, KeysOK
  <2>2. FixedWindow(KeyAt(fixed, NoFixed, T), T).allowed
    BY <1>3, <2>1, FixedAdmits
  <2> QED BY <1>3, <1>4, <2>2 DEF AdmitsAt
<1>5. CASE algorithm = "sliding_window"
  <2>1. sliding.log = {} \/ \E e \in sliding.log : e.score + Window <= c
    BY <1>1, <1>2, <1>5 DEF RetryOK
  <2>2. \A e \in sliding.log : e.score \in Nat
    BY <1>1 DEF KeysOK, LogRecs
  <2>3. sliding.log = {} \/ \E e \in sliding.log : e.score + Window <= T
    BY <1>3, <2>1, <2>2
  <2>4. SlidingWindow(KeyAt(sliding, NoSliding, T), T, checks, T).allowed
    BY <1>1, <1>5, <2>3, SlidingAdmits DEF SlidingOK
  <2> QED BY <1>3, <1>5, <2>4 DEF AdmitsAt
<1>6. CASE algorithm = "token_bucket"
  <2>1. \/ bucket.until = 0
        \/ bucket.ts <= c /\ bucket.tokens + (c - bucket.ts) * Requests >= Window
    BY <1>1, <1>2, <1>6 DEF RetryOK
  <2>2. PICK k \in Nat, s \in Nat : k = bucket.tokens /\ s = bucket.ts
    BY <1>1 DEF KeysOK
  <2>3. /\ (c - s) * Requests <= (T - s) * Requests
        /\ (c - s) * Requests \in Int /\ (T - s) * Requests \in Int
    <3>1. c - s \in Int /\ T - s \in Int /\ c - s <= T - s
      BY <1>3
    <3> QED BY <3>1, Grows
  <2>4. \/ bucket.until = 0
        \/ s <= T /\ k + (T - s) * Requests >= Window
    BY <1>3, <2>1, <2>2, <2>3
  <2>5. TokenBucket(KeyAt(bucket, NoBucket, T), T, T).allowed
    BY <1>1, <2>2, <2>4, BucketAdmits
  <2> QED BY <1>3, <1>6, <2>5 DEF AdmitsAt
<1> QED BY <1>1, <1>4, <1>5, <1>6 DEF TimesOK, Algorithms

(* The retry_after of a refusal (RateLimitResult of strategies.py) is long  *)
(* enough: who waits it is admitted if nobody else has called.              *)
THEOREM RetryHonoured == Spec => []RetryAfterSuffices
  BY Invariance, InvRetry, PTL

-----------------------------------------------------------------------------
(* What a token bucket has admitted since t. *)
Since(t) == Cardinality({a \in admits : a.stamp >= t})

(* A key that is gone would be full at any stamp still to come: it lives a  *)
(* second longer than an empty bucket takes to fill, and no script is later *)
(* than that.                                                               *)
FullWhenExpired == Capacity <= (BucketTtl - MaxDelay) * Requests

(* The tokens and what was admitted since any moment are within the         *)
(* capacity and the refill since then.                                      *)
BucketOK ==
    algorithm = "token_bucket" /\ ordered =>
        IF bucket.until = 0
        THEN \A t \in 0..newest :
                Since(t) = 0 \/ Since(t) * Window <= (clock - MaxDelay - t) * Requests
        ELSE /\ bucket.ts = newest /\ newest + BucketTtl <= bucket.until
             /\ \A t \in 0..newest :
                   Since(t) * Window + bucket.tokens <= Capacity + (newest - t) * Requests

(* A delay of less than a second is short enough. *)
LEMMA ShortDelays == MaxDelay < TickRate => FullWhenExpired
<1> USE Constants
<1> SUFFICES ASSUME MaxDelay < TickRate PROVE FullWhenExpired
  OBVIOUS
<1>1. PICK c \in Nat : c = Capacity
  OBVIOUS
<1>2. PICK q \in Nat : q = c \div Requests
  OBVIOUS
<1>3. c <= (q + 1) * Requests
  BY <1>2
<1>4. q + 1 <= BucketTtl - MaxDelay /\ BucketTtl - MaxDelay \in Int
  BY <1>1, <1>2 DEF BucketTtl
<1>5. (q + 1) * Requests <= (BucketTtl - MaxDelay) * Requests
  <2>1. q + 1 \in Int /\ Requests \in Nat
    OBVIOUS
  <2>2. PICK z \in Int : z = BucketTtl - MaxDelay /\ q + 1 <= z
    BY <1>4
  <2> QED BY <2>1, <2>2, Grows
<1>6. (q + 1) * Requests \in Int /\ (BucketTtl - MaxDelay) * Requests \in Int
  BY <1>4
<1> QED BY <1>1, <1>3, <1>5, <1>6 DEF FullWhenExpired

(* What was admitted since t is counted by a number; nothing is after the   *)
(* newest stamp.                                                            *)
LEMMA SinceTypes ==
    ASSUME TimesOK, NEW t \in Nat
    PROVE  Since(t) \in Nat /\ (t > newest => Since(t) = 0)
<1>1. {a \in admits : a.stamp >= t} \subseteq admits /\ IsFiniteSet(admits)
  BY DEF TimesOK
<1>2. Since(t) \in Nat
  BY <1>1, FS_Subset, FS_CardinalityType DEF Since
<1>3. ASSUME t > newest PROVE Since(t) = 0
  <2>1. \A a \in admits : a.stamp \in Nat /\ a.stamp <= newest /\ newest \in Nat
    BY DEF TimesOK, AdmitRecs
  <2>2. {a \in admits : a.stamp >= t} = {}
    BY <1>3, <2>1
  <2> QED BY <2>2, FS_EmptySet DEF Since
<1> QED BY <1>2, <1>3

(* Before a script of the bucket has its answer: what was admitted since t  *)
(* and the k tokens at the stamp st.                                        *)
LEMMA TokensCover ==
    ASSUME Inv, BucketOK, algorithm = "token_bucket", ordered = TRUE,
           NEW st \in 0..MaxTime, clock - MaxDelay <= st, newest <= st,
           NEW k, k = Refilled(bucket, st), NEW t \in 0..st
    PROVE  Since(t) * Window + k <= Capacity + (st - t) * Requests
<1> USE Constants
<1>1. KeysOK /\ TimesOK
  BY DEF Inv
<1>2. bucket \in BucketRecs /\ (bucket.until = 0 => bucket.tokens = Capacity)
  BY <1>1 DEF KeysOK, BucketRecs, NoBucket
<1>3. /\ k \in 0..Capacity
      /\ bucket.until = 0 => k = Capacity
      /\ bucket.until # 0 /\ bucket.ts <= st =>
           k = IF Capacity <= bucket.tokens + (st - bucket.ts) * Requests THEN Capacity
               ELSE bucket.tokens + (st - bucket.ts) * Requests
  BY <1>2, RefilledAt
<1>4. PICK n \in Nat, c \in Nat : n = newest /\ c = clock
  BY <1>1 DEF TimesOK
<1>5. PICK s \in Nat : s = Since(t) /\ (t > n => s = 0)
  BY <1>1, <1>4, SinceTypes
<1>6. (st - t) * Requests \in Nat
  <2>1. st - t \in Nat
    OBVIOUS
  <2> QED BY <2>1
<1>7. CASE s = 0
  BY <1>3, <1>5, <1>6, <1>7
<1>8. CASE s # 0 /\ bucket.until = 0
  <2>1. t \in 0..newest
    BY <1>4, <1>5, <1>8
  <2>2. s * Window <= (c - MaxDelay - t) * Requests
    BY <1>4, <1>5, <1>8, <2>1 DEF BucketOK
  <2>3. /\ (c - MaxDelay - t) * Requests <= (st - t) * Requests
        /\ (c - MaxDelay - t) * Requests \in Int
    <3>1. c - MaxDelay - t \in Int /\ st - t \in Int /\ c - MaxDelay - t <= st - t
      BY <1>4
    <3> QED BY <3>1, Grows
  <2>4. s * Window \in Nat
    OBVIOUS
  <2> QED BY <1>3, <1>5, <1>6, <1>8, <2>2, <2>3, <2>4
<1>9. CASE s # 0 /\ bucket.until # 0
  <2>1. t \in 0..newest
    BY <1>4, <1>5, <1>9
  <2>2. PICK b \in Nat : b = bucket.tokens
    BY <1>2 DEF BucketRecs
  <2>3. bucket.ts = n /\ s * Window + b <= Capacity + (n - t) * Requests
    BY <1>4, <1>5, <1>9, <2>1, <2>2 DEF BucketOK
  <2>4. PICK g \in Int : g = (st - n) * Requests
    BY <1>4
  <2>5. PICK h \in Int : h = (n - t) * Requests
    BY <1>4
  <2>6. (st - t) * Requests = g + h
    <3>1. PICK x \in Int, y \in Int : x = st - n /\ y = n - t /\ st - t = x + y
      BY <1>4
    <3>2. (x + y) * Requests = x * Requests + y * Requests
      OBVIOUS
    <3> QED BY <2>4, <2>5, <3>1, <3>2
  <2>7. k <= b + g
    <3>1. k = IF Capacity <= b + g THEN Capacity ELSE b + g
      BY <1>3, <1>4, <1>9, <2>2, <2>3, <2>4
    <3> QED BY <3>1
  <2>8. s * Window \in Nat /\ k \in Nat
    BY <1>3
  <2> QED BY <1>5, <2>3, <2>5, <2>6, <2>7, <2>8
<1> QED BY <1>7, <1>8, <1>9

(* The script of the bucket keeps the rate. *)
LEMMA EvalBucketRate ==
    ASSUME Inv, Inv', BucketOK, BucketRateInOrder, NEW p \in Procs, EvalBucket(p)
    PROVE  BucketOK' /\ BucketRateInOrder'
<1> USE Constants
<1>1. KeysOK /\ TimesOK /\ TimesOK' /\ algorithm = "token_bucket"
  BY DEF Inv, EvalBucket
<1>2. PICK k : k = Refilled(bucket, sent[p])
  OBVIOUS
<1>3. /\ k \in 0..Capacity
      /\ sent[p] \in 0..MaxTime /\ clock - MaxDelay <= sent[p] /\ sent[p] <= clock
      /\ algorithm' = algorithm /\ clock' = clock
      /\ bucket'.ts = sent[p] /\ bucket'.until = clock + BucketTtl /\ bucket'.until # 0
      /\ \/ /\ k >= Window /\ bucket'.tokens = k - Window
            /\ \E n \in AdmitRecs : n.stamp = sent[p] /\ admits' = admits \cup {n}
         \/ bucket'.tokens = k /\ admits' = admits
  BY <1>1, <1>2, BucketScript
<1>4. newest' = Max({newest, sent[p]}) /\ ordered' = (ordered /\ newest <= sent[p])
  BY <1>2 DEF EvalBucket, Answer
<1> SUFFICES ASSUME ordered' = TRUE PROVE BucketOK' /\ BucketRate'
  BY <1>1 DEF BucketOK, BucketRateInOrder, TimesOK
<1>5. PICK st \in 0..MaxTime : st = sent[p]
  BY <1>3
<1>6. newest <= st /\ ordered = TRUE
  BY <1>1, <1>4, <1>5 DEF TimesOK
<1>7. newest' = st
  <2>1. newest \in Int /\ st \in Int
    BY <1>1 DEF TimesOK
  <2>2. newest' = IF newest >= st THEN newest ELSE st
    BY <1>4, <1>5, <2>1, MaxPair
  <2> QED BY <1>6, <2>1, <2>2
<1>8. PICK b \in Nat : b = bucket'.tokens
  BY <1>3
<1>9. PICK n : /\ admits' = admits \/ n.stamp = st
               /\ admits' = admits \/ admits' = admits \cup {n}
               /\ \/ admits' = admits /\ b = k
                  \/ b = k - Window
  BY <1>3, <1>5, <1>8
<1>10. ASSUME NEW t \in 0..st
       PROVE  Since(t)' * Window + b <= Capacity + (st - t) * Requests
  <2>1. Since(t) * Window + k <= Capacity + (st - t) * Requests
    BY <1>1, <1>2, <1>3, <1>5, <1>6, TokensCover
  <2>2. PICK s \in Nat, z \in Nat : s = Since(t) /\ z = Since(t)'
    <3>1. Since(t) \in Nat
      BY <1>1, SinceTypes
    <3>2. Since(t)' \in Nat
      <4>1. {a \in admits' : a.stamp >= t} \subseteq admits' /\ IsFiniteSet(admits')
        BY <1>1 DEF TimesOK
      <4> QED BY <4>1, FS_Subset, FS_CardinalityType DEF Since
    <3> QED BY <3>1, <3>2
  <2>3. (z = s /\ b = k) \/ (z <= s + 1 /\ b = k - Window)
    <3>1. CASE admits' = admits /\ b = k
      <4>1. Since(t)' = Since(t)
        BY <3>1 DEF Since
      <4> QED BY <2>2, <3>1, <4>1
    <3>2. CASE b = k - Window
      <4>1. PICK S, T : S = {a \in admits : a.stamp >= t} /\ T = {a \in admits' : a.stamp >= t}
        OBVIOUS
      <4>2. T \subseteq S \cup {n} /\ S \subseteq admits /\ IsFiniteSet(admits)
        BY <1>1, <1>9, <4>1 DEF TimesOK
      <4>3. Cardinality(T) <= Cardinality(S) + 1
        BY <4>2, OneMore
      <4> QED BY <2>2, <3>2, <4>1, <4>3 DEF Since
    <3> QED BY <1>9, <3>1, <3>2
  <2>4. z * Window + b <= s * Window + k
    <3>1. CASE z = s /\ b = k
      BY <3>1, <1>3
    <3>2. CASE z <= s + 1 /\ b = k - Window
      <4>1. z * Window <= (s + 1) * Window /\ (s + 1) * Window = s * Window + Window
        BY <3>2, Grows
      <4>2. z * Window \in Nat /\ s * Window \in Nat
        OBVIOUS
      <4> QED BY <1>3, <3>2, <4>1, <4>2
    <3> QED BY <2>3, <3>1, <3>2
  <2>5. z * Window \in Nat /\ s * Window \in Nat /\ (st - t) * Requests \in Int /\ k \in Nat
    BY <1>3
  <2> QED BY <2>1, <2>2, <2>4, <2>5
<1>11. BucketOK'
  <2>1. newest' + BucketTtl <= bucket'.until
    <3>1. clock \in Nat
      BY <1>1 DEF TimesOK
    <3> QED BY <1>3, <1>5, <1>7, <3>1
  <2>2. \A t \in 0..newest' :
          Since(t)' * Window + bucket'.tokens <= Capacity + (newest' - t) * Requests
    BY <1>7, <1>8, <1>10
  <2>3. bucket'.ts = newest' /\ bucket'.until # 0
    BY <1>3, <1>5, <1>7
  <2> QED BY <2>1, <2>2, <2>3 DEF BucketOK
<1>12. BucketRate'
  <2> SUFFICES ASSUME NEW t \in 0..MaxTime, NEW u \in t..MaxTime
               PROVE  Cardinality({a \in admits' : a.stamp \in t..u}) * Window
                          <= Capacity + (u - t) * Requests
    BY DEF BucketRate
  <2>1. PICK X : X = {a \in admits' : a.stamp \in t..u}
    OBVIOUS
  <2>2. /\ IsFiniteSet(admits') /\ IsFiniteSet(admits) /\ X \subseteq admits'
        /\ \A a \in admits' : a.stamp \in Nat /\ a.stamp <= st
    BY <1>1, <1>7, <2>1 DEF TimesOK, AdmitRecs
  <2>3. (u - t) * Requests \in Nat /\ u \in Nat /\ t \in Nat
    <3>1. u - t \in Nat
      OBVIOUS
    <3> QED BY <3>1
  <2>4. CASE t > st
    <3>1. X = {}
      BY <2>1, <2>2, <2>4
    <3>2. Cardinality(X) = 0
      BY <3>1, FS_EmptySet
    <3> QED BY <2>1, <2>3, <3>2
  <2>5. CASE t <= st /\ u < st
    <3>1. X \subseteq {a \in admits : a.stamp \in t..u}
      BY <1>9, <2>1, <2>3, <2>5
    <3>2. PICK Y : Y = {a \in admits : a.stamp \in t..u}
      OBVIOUS
    <3>3. Cardinality(X) <= Cardinality(Y) /\ Cardinality(X) \in Nat /\ Cardinality(Y) \in Nat
      BY <2>2, <3>1, <3>2, Part
    <3>4. Cardinality(Y) * Window <= Capacity + (u - t) * Requests
      BY <1>1, <1>6, <3>2 DEF BucketRateInOrder, BucketRate
    <3>5. PICK x \in Nat, y \in Nat : x = Cardinality(X) /\ y = Cardinality(Y) /\ x <= y
      BY <3>3
    <3>6. x * Window <= y * Window /\ x * Window \in Int /\ y * Window \in Int
      BY <3>5, Grows
    <3> QED BY <2>1, <2>3, <3>4, <3>5, <3>6
  <2>6. CASE t <= st /\ st <= u
    <3>1. PICK Y : Y = {a \in admits' : a.stamp >= t}
      OBVIOUS
    <3>2. X \subseteq Y /\ Y \subseteq admits'
      BY <2>1, <2>2, <3>1
    <3>3. Cardinality(X) <= Cardinality(Y) /\ Cardinality(X) \in Nat /\ Cardinality(Y) \in Nat
      BY <2>2, <3>2, Part
    <3>4. Cardinality(Y) * Window + b <= Capacity + (st - t) * Requests
      <4>1. Since(t)' = Cardinality(Y) /\ t \in 0..st
        BY <2>6, <3>1 DEF Since
      <4> QED BY <1>10, <4>1
    <3>5. PICK x \in Nat, y \in Nat : x = Cardinality(X) /\ y = Cardinality(Y) /\ x <= y
      BY <3>3
    <3>6. x * Window <= y * Window /\ x * Window \in Int /\ y * Window \in Int
      BY <3>5, Grows
    <3>7. (st - t) * Requests <= (u - t) * Requests /\ (st - t) * Requests \in Int
      <4>1. st - t \in Int /\ u - t \in Int /\ st - t <= u - t
        BY <2>6
      <4> QED BY <4>1, Grows
    <3> QED BY <2>1, <2>3, <3>4, <3>5, <3>6, <3>7
  <2> QED BY <2>4, <2>5, <2>6
<1> QED BY <1>11, <1>12

(* So does time: a key that expires held no more than is free to give. *)
LEMMA TickRateInv ==
    ASSUME FullWhenExpired, Inv, BucketOK, BucketRateInOrder, Tick
    PROVE  BucketOK' /\ BucketRateInOrder'
<1> USE Constants
<1>1. /\ clock' = clock + 1 /\ bucket' = KeyAt(bucket, NoBucket, clock')
      /\ algorithm' = algorithm /\ admits' = admits /\ newest' = newest /\ ordered' = ordered
  BY DEF Tick
<1>2. BucketRateInOrder'
  BY <1>1 DEF BucketRateInOrder, BucketRate
<1>3. KeysOK /\ TimesOK
  BY DEF Inv
<1>4. BucketOK'
  <2> SUFFICES ASSUME algorithm = "token_bucket", ordered PROVE BucketOK'
    BY <1>1 DEF BucketOK
  <2>1. \A t : Since(t)' = Since(t)
    BY <1>1 DEF Since
  <2>2. PICK c \in Nat, n \in Nat : c = clock /\ n = newest
    BY <1>3 DEF TimesOK
  <2>3. PICK w \in Nat : w = bucket.until
    BY <1>3 DEF KeysOK
  <2>4. CASE bucket' = bucket /\ w # 0
    BY <1>1, <2>1, <2>3, <2>4 DEF BucketOK
  <2>5. CASE bucket'.until = 0
    <3> SUFFICES ASSUME NEW t \in 0..n
                 PROVE  Since(t) = 0 \/ Since(t) * Window <= (c + 1 - MaxDelay - t) * Requests
      BY <1>1, <2>1, <2>2, <2>5 DEF BucketOK
    <3>1. PICK s \in Nat : s = Since(t) /\ s * Window \in Nat
      <4>1. PICK z \in Nat : z = Since(t)
        BY <1>3, SinceTypes
      <4> QED BY <4>1
    <3>2. CASE w = 0
      <4>1. s = 0 \/ s * Window <= (c - MaxDelay - t) * Requests
        BY <2>2, <2>3, <3>1, <3>2 DEF BucketOK
      <4>2. /\ (c - MaxDelay - t) * Requests <= (c + 1 - MaxDelay - t) * Requests
            /\ (c - MaxDelay - t) * Requests \in Int
            /\ (c + 1 - MaxDelay - t) * Requests \in Int
        <5>1. PICK x \in Int, y \in Int : /\ x = c - MaxDelay - t /\ y = c + 1 - MaxDelay - t
                                          /\ x <= y
          OBVIOUS
        <5> QED BY <5>1, Grows
      <4> QED BY <3>1, <4>1, <4>2
    <3>3. CASE w # 0
      <4>1. w <= c + 1
        <5>1. CASE bucket.until <= clock'
          BY <1>1, <2>2, <2>3, <5>1
        <5>2. CASE ~(bucket.until <= clock')
          BY <1>1, <2>3, <2>5, <3>3, <5>2 DEF KeyAt
        <5> QED BY <5>1, <5>2
      <4>2. PICK k \in Nat : k = bucket.tokens
        BY <1>3 DEF KeysOK
      <4>3. n + BucketTtl <= w /\ s * Window + k <= Capacity + (n - t) * Requests
        BY <2>2, <2>3, <3>1, <3>3, <4>2 DEF BucketOK
      <4>4. PICK x \in Int, y \in Int, z \in Int :
              /\ x = BucketTtl - MaxDelay /\ y = n - t /\ z = c + 1 - MaxDelay - t
              /\ x + y <= z
        BY <4>1, <4>3
      <4>5. /\ (x + y) * Requests <= z * Requests
            /\ (x + y) * Requests = x * Requests + y * Requests
            /\ x * Requests \in Int /\ y * Requests \in Int /\ z * Requests \in Int
        <5>1. (x + y) * Requests = x * Requests + y * Requests
              /\ x * Requests \in Int /\ y * Requests \in Int
          OBVIOUS
        <5> QED BY <4>4, <5>1, Grows
      <4>6. Capacity <= x * Requests
        BY <4>4 DEF FullWhenExpired
      <4> QED BY <3>1, <4>2, <4>3, <4>4, <4>5, <4>6
    <3> QED BY <3>2, <3>3
  <2>6. bucket' = bucket \/ bucket'.until = 0
    BY <1>1 DEF KeyAt, NoBucket
  <2> QED BY <2>3, <2>4, <2>5, <2>6
<1> QED BY <1>2, <1>4

(* The rate is kept by every step. *)
LEMMA NextRate ==
    ASSUME FullWhenExpired
    PROVE  Inv /\ Inv' /\ BucketOK /\ BucketRateInOrder /\ [Next]_vars
               => BucketOK' /\ BucketRateInOrder'
<1> SUFFICES ASSUME Inv, Inv', BucketOK, BucketRateInOrder, [Next]_vars
             PROVE  BucketOK' /\ BucketRateInOrder'
  OBVIOUS
<1>1. ASSUME UNCHANGED <<algorithm, clock, bucket, admits, newest, ordered>>
      PROVE  BucketOK' /\ BucketRateInOrder'
  BY <1>1 DEF BucketOK, BucketRateInOrder, BucketRate, Since
<1>2. CASE UNCHANGED vars
  BY <1>1, <1>2 DEF vars
<1>3. ASSUME NEW p \in Procs, Send(p) PROVE BucketOK' /\ BucketRateInOrder'
  BY <1>1, <1>3 DEF Send
<1>4. ASSUME NEW p \in Procs, EvalFixed(p) \/ EvalSliding(p)
      PROVE  BucketOK' /\ BucketRateInOrder'
  <2>1. algorithm' # "token_bucket"
    BY <1>4 DEF EvalFixed, EvalSliding, Answer
  <2> QED BY <2>1 DEF BucketOK, BucketRateInOrder, BucketRate
<1> QED BY <1>2, <1>3, <1>4, TickRateInv, EvalBucketRate DEF Next

(* The token bucket (strategies.py) keeps its rate over any span of stamps, *)
(* expiry of its key included, while Redis runs the scripts in the order of *)
(* their stamps, if a script is never later than the second the key         *)
(* outlives its refill.                                                     *)
THEOREM BucketRateKept ==
    ASSUME FullWhenExpired
    PROVE  Spec => []BucketRateInOrder
<1>1. Init => BucketOK /\ BucketRateInOrder
  <2> SUFFICES ASSUME Init PROVE BucketOK /\ BucketRate
    BY DEF BucketRateInOrder
  <2> USE Constants
  <2>1. admits = {} /\ bucket.until = 0 /\ newest = 0
    BY DEF Init, NoBucket
  <2>2. \A S : S \subseteq admits => Cardinality(S) = 0
    BY <2>1, FS_EmptySet
  <2>3. BucketOK
    BY <2>1, <2>2 DEF BucketOK, Since
  <2>4. ASSUME NEW t \in 0..MaxTime, NEW u \in t..MaxTime
        PROVE  Cardinality({a \in admits : a.stamp \in t..u}) * Window
                   <= Capacity + (u - t) * Requests
    <3>1. Cardinality({a \in admits : a.stamp \in t..u}) = 0
      BY <2>2
    <3>2. u - t \in Nat
      OBVIOUS
    <3>3. (u - t) * Requests \in Nat
      BY <3>2
    <3> QED BY <3>1, <3>3
  <2> QED BY <2>3, <2>4 DEF BucketRate
<1>2. Inv /\ Inv' /\ BucketOK /\ BucketRateInOrder /\ [Next]_vars
         => BucketOK' /\ BucketRateInOrder'
  BY NextRate
<1> QED BY <1>1, <1>2, Invariance, PTL DEF Spec
=============================================================================

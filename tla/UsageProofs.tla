---------------------------- MODULE UsageProofs ----------------------------
(* What holds of Usage for any number of requests, keys, workers, days and  *)
(* crashes, whatever the sizes and the status codes.  Sums are reasoned     *)
(* about as the sizes of disjoint sets.  The inductive invariant says what  *)
(* usage and a rollup's rows are made of, that two rollups never have locks *)
(* or rows on the same day, and that nothing can spoil the row of a day     *)
(* once a rollup of the next day has covered it.                            *)
EXTENDS Usage, FiniteSetTheorems, NaturalsInduction, WellFoundedInduction, TLAPS

RequestRows == [at : {"new", "open", "answered", "logged", "failed"},
                created : Days, ended : Days]
UsageRows == [requests : 0..MaxRequests, errors : 0..MaxRequests]
Tasks == [at : {"idle", "delete", "insert", "commit"}, today : Days, target : Days,
          late : BOOLEAN, clean : BOOLEAN, sum : Rows, held : SUBSET Days,
          wrote : [Days -> Rows]]

Types ==
    /\ day \in 1..MaxDay /\ deleted \subseteq Deletable /\ covered \in BOOLEAN
    /\ req \in [Requests -> RequestRows]
    /\ usage \in [Keys -> [Days -> UsageRows]]
    /\ daily \in [Days -> Rows]
    /\ task \in [Workers -> Tasks]

(* A request is logged within a day of its first query, and ends no sooner  *)
(* than it begins.                                                          *)
RequestsOK ==
    \A r \in Requests :
        /\ req[r].at \in {"open", "answered"} =>
              req[r].created <= day /\ day <= req[r].created + 1
        /\ req[r].at \in {"answered", "logged"} => req[r].created <= req[r].ended

(* All request logs, and those of key k with a timestamp of day d. *)
Logged == {r \in Requests : req[r].at = "logged"}
UsedOn(k, d) == {r \in Logged : KeyOf[r] = k /\ req[r].ended = d}

(* The usage of a key is what its logs say; that of a key that has gone is  *)
(* gone.                                                                    *)
UsageOK ==
    \A k \in Keys :
        /\ ~Exists(k) => usage[k] = NoUsage
        /\ Exists(k) =>
              \A d \in Days :
                 /\ usage[k][d].requests = Cardinality(UsedOn(k, d))
                 /\ usage[k][d].errors = Cardinality({r \in UsedOn(k, d) : IsError(r)})

(* Task t has computed the sum of d and not yet inserted it; it has         *)
(* inserted it.                                                             *)
Current(t, d) == t.at = "insert" /\ t.target = d
Done(t, d) ==
    \/ d + 1 = t.today /\ t.target = t.today
    \/ d = t.today /\ t.at = "commit"

(* A rollup rebuilds yesterday and today, in this order, and has locks and  *)
(* rows only on what it has rebuilt.                                        *)
TaskOK(t) ==
    /\ t.at = "idle" => t = Sleeping
    /\ t.at # "idle" =>
          /\ t.today >= 1 /\ t.today <= day /\ day <= t.today + 1
          /\ t.target = t.today \/ (t.target + 1 = t.today /\ t.at # "commit")
          /\ \A d \in t.held : Current(t, d) \/ Done(t, d)
          /\ \A d \in Days : t.wrote[d] # NoRow => Done(t, d)

(* Rows are made of logs, and a row that is written fits its column. *)
RowOK(row, d) == row # NoRow => LogsOf(d) # {} /\ row.bytes <= Int4Max
TaskRows(t) ==
    /\ \A d \in Days : RowOK(t.wrote[d], d)
    /\ t.at = "insert" =>
          /\ t.sum # NoRow => LogsOf(t.target) # {}
          /\ t.sum.bytes <= Total(t.target).bytes

(* A rollup locks rows that exist, and inserts one where there is none or   *)
(* where it has deleted it; two rollups have nothing in common.             *)
LocksOK(t) ==
    \A d \in Days :
        /\ d \in t.held => daily[d] # NoRow
        /\ t.wrote[d] # NoRow => d \in t.held \/ daily[d] = NoRow
Apart(t, u) ==
    \A d \in Days :
        /\ ~(d \in t.held /\ d \in u.held)
        /\ ~(t.wrote[d] # NoRow /\ u.wrote[d] # NoRow)

(* A rollup that began today after the requests of earlier days had ended   *)
(* has all of yesterday.                                                    *)
Complete(t) ==
    t.clean /\ t.today = day =>
        /\ Overdue = {}
        /\ \A d \in Days : d + 1 = day =>
              /\ Current(t, d) => t.sum = Total(d)
              /\ Done(t, d) => t.wrote[d] = Total(d)

TasksOK ==
    \A w \in Workers :
        /\ TaskOK(task[w]) /\ TaskRows(task[w]) /\ LocksOK(task[w]) /\ Complete(task[w])
        /\ \A v \in Others(w) : Apart(task[w], task[v])

DailyOK == \A d \in Days : RowOK(daily[d], d)

(* What t does to the row of d, if anything, makes it the total. *)
Harmless(t, d) ==
    /\ t.wrote[d] # NoRow => t.wrote[d] = Total(d)
    /\ d \in t.held => IF Current(t, d) THEN t.sum = Total(d) ELSE t.wrote[d] = Total(d)

(* The row of d is its total, and stays so. *)
Settled(d) ==
    \/ OutOfRange(d) \/ OutOfRange(d + 1)
    \/ daily[d] = Total(d) /\ \A w \in Workers : Harmless(task[w], d)

Due(d) == d + 2 <= day \/ (d + 1 = day /\ covered)
SettledOK ==
    /\ covered => Overdue = {}
    /\ \A d \in Days : Due(d) => Settled(d)

Inv == Types /\ RequestsOK /\ UsageOK /\ DailyOK /\ TasksOK /\ SettledOK

-----------------------------------------------------------------------------
(* A set of numbers that is not empty has a least one. *)
LEMMA LeastNumber ==
    ASSUME NEW S \in SUBSET Nat, S # {}
    PROVE  \E x \in S : \A y \in S : x <= y
<1> DEFINE R == OpToRel(<, Nat)
<1>1. IsWellFoundedOn(R, Nat)
  BY NatLessThanWellFounded
<1>2. PICK x \in S : \A y \in S : ~(<<y, x>> \in R)
  <2> HIDE DEF R
  <2> QED BY <1>1, WFMin
<1>3. \A y \in S : <<y, x>> \in R <=> y < x
  BY DEF OpToRel
<1> HIDE DEF R
<1>4. \A y \in S : ~(y < x) /\ y \in Nat /\ x \in Nat
  BY <1>2, <1>3
<1> QED BY <1>4

(* The element a fold takes next, and the step it then makes. *)
Pick(s) == CHOOSE x \in s : TRUE
FoldStep(f, g, s) == IF s = {} THEN 0 ELSE f[Pick(s)] + g[s \ {Pick(s)}]

(* The recursive function inside SumFunctionOnSet. *)
IsFold(g, f, S) == g = [s \in SUBSET S |-> FoldStep(f, g, s)]
Fold(f, S) == CHOOSE g : IsFold(g, f, S)

(* A sum is what the fold yields for the whole set. *)
LEMMA SumIsFold ==
    ASSUME NEW f, NEW S
    PROVE  SumFunctionOnSet(f, S) = Fold(f, S)[S]
  BY DEF SumFunctionOnSet, FoldFunctionOnSet, MapThenFoldSet, Fold, IsFold, FoldStep, Pick

(* There is one function only that makes the steps of the fold: induction   *)
(* on the size of the sets, as the absence of a least counterexample.       *)
LEMMA FoldUnique ==
    ASSUME NEW f, NEW S, IsFiniteSet(S),
           NEW g, IsFold(g, f, S), NEW h, IsFold(h, f, S)
    PROVE  g = h
<1> DEFINE Bad == {n \in Nat : \E s \in SUBSET S : Cardinality(s) = n /\ g[s] # h[s]}
<1>1. Bad = {}
  <2> SUFFICES ASSUME Bad # {} PROVE FALSE
    OBVIOUS
  <2>1. PICK n \in Bad : \A m \in Bad : n <= m
    <3>1. Bad \in SUBSET Nat
      OBVIOUS
    <3> HIDE DEF Bad
    <3> QED BY <3>1, LeastNumber
  <2>2. PICK s \in SUBSET S : Cardinality(s) = n /\ g[s] # h[s]
    OBVIOUS
  <2>3. g[s] = FoldStep(f, g, s) /\ h[s] = FoldStep(f, h, s)
    BY DEF IsFold
  <2>4. s # {}
    BY <2>2, <2>3 DEF FoldStep
  <2>5. PICK x : x = Pick(s) /\ x \in s
    BY <2>4 DEF Pick
  <2>6. g[s] = f[x] + g[s \ {x}] /\ h[s] = f[x] + h[s \ {x}]
    BY <2>3, <2>4, <2>5 DEF FoldStep
  <2>7. s \ {x} \in SUBSET S /\ IsFiniteSet(s)
    BY FS_Subset
  <2>8. Cardinality(s \ {x}) = n - 1 /\ n - 1 \in Nat
    <3>1. Cardinality(s \ {x}) = Cardinality(s) - 1 /\ IsFiniteSet(s \ {x})
      BY <2>5, <2>7, FS_RemoveElement
    <3>2. Cardinality(s \ {x}) \in Nat
      BY <3>1, FS_CardinalityType
    <3> QED BY <2>2, <3>1, <3>2
  <2>9. g[s \ {x}] # h[s \ {x}]
    BY <2>2, <2>6
  <2>10. n - 1 \in Bad
    BY <2>7, <2>8, <2>9
  <2>11. n <= n - 1 /\ n \in Nat
    BY <2>1, <2>10
  <2> QED BY <2>11
<1>2. \A s \in SUBSET S : g[s] = h[s]
  <2> SUFFICES ASSUME NEW s \in SUBSET S, g[s] # h[s] PROVE FALSE
    OBVIOUS
  <2>1. Cardinality(s) \in Nat
    BY FS_Subset, FS_CardinalityType
  <2>2. Cardinality(s) \in Bad
    BY <2>1
  <2> QED BY <1>1, <2>2
<1> HIDE DEF Bad
<1>3. g = [s \in SUBSET S |-> g[s]] /\ h = [s \in SUBSET S |-> h[s]]
  BY DEF IsFold
<1> QED BY <1>2, <1>3

(* f[i] is the size of A[i], and these sets have nothing in common. *)
Sizes(f, A, S) ==
    \A i \in S :
        /\ IsFiniteSet(A[i]) /\ f[i] = Cardinality(A[i])
        /\ \A j \in S : i # j => A[i] \cap A[j] = {}
Whole(A, S) == UNION {A[i] : i \in S}

(* The sum of the sizes of sets with nothing in common is the size of their *)
(* union.                                                                   *)
LEMMA SumOfSizes ==
    ASSUME NEW S, IsFiniteSet(S), NEW A, NEW f, Sizes(f, A, S)
    PROVE  IsFiniteSet(Whole(A, S)) /\ SumFunctionOnSet(f, S) = Cardinality(Whole(A, S))
<1> DEFINE U(s) == UNION {A[i] : i \in s}
           h == [s \in SUBSET S |-> Cardinality(U(s))]
<1>0. /\ \A i \in S : IsFiniteSet(A[i]) /\ f[i] = Cardinality(A[i])
      /\ \A i, j \in S : i # j => A[i] \cap A[j] = {}
  BY DEF Sizes
<1>1. ASSUME NEW s \in SUBSET S, s # {}
      PROVE  LET x == Pick(s) IN
             x \in s /\ U(s) = A[x] \cup U(s \ {x}) /\ A[x] \cap U(s \ {x}) = {}
  <2>1. PICK x : x = Pick(s) /\ x \in s
    BY <1>1 DEF Pick
  <2>2. U(s) = A[x] \cup U(s \ {x})
    BY <2>1
  <2>3. A[x] \cap U(s \ {x}) = {}
    BY <1>0, <2>1
  <2> QED BY <2>1, <2>2, <2>3
<1>2. \A s \in SUBSET S : IsFiniteSet(U(s))
  <2> SUFFICES ASSUME NEW s \in SUBSET S PROVE IsFiniteSet(U(s))
    OBVIOUS
  <2>1. IsFiniteSet(s)
    BY FS_Subset
  <2>2. IsFiniteSet({A[i] : i \in s})
    <3>1. [i \in s |-> A[i]] \in Surjection(s, {A[i] : i \in s})
      BY DEF Surjection
    <3> QED BY <2>1, <3>1, FS_Surjection
  <2>3. \A T \in {A[i] : i \in s} : IsFiniteSet(T)
    BY <1>0
  <2> QED BY <2>2, <2>3, FS_UNION
<1>3. \A s \in SUBSET S : h[s] = FoldStep(f, h, s)
  <2> SUFFICES ASSUME NEW s \in SUBSET S PROVE h[s] = FoldStep(f, h, s)
    OBVIOUS
  <2>1. CASE s = {}
    <3>1. U(s) = {}
      BY <2>1
    <3>2. h[s] = 0
      BY <3>1, FS_EmptySet
    <3> QED BY <2>1, <3>2 DEF FoldStep
  <2>2. CASE s # {}
    <3>1. PICK x : x = Pick(s)
      OBVIOUS
    <3>2. x \in s /\ U(s) = A[x] \cup U(s \ {x}) /\ A[x] \cap U(s \ {x}) = {}
      BY <1>1, <2>2, <3>1
    <3>3. s \ {x} \in SUBSET S
      OBVIOUS
    <3>4. IsFiniteSet(A[x]) /\ IsFiniteSet(U(s \ {x})) /\ f[x] = Cardinality(A[x])
      BY <1>0, <1>2, <3>2, <3>3
    <3>5. PICK X, Y : X = A[x] /\ Y = U(s \ {x})
      OBVIOUS
    <3>6. Cardinality(X \cup Y) = Cardinality(X) + Cardinality(Y) - Cardinality(X \cap Y)
      BY <3>4, <3>5, FS_Union
    <3>7. Cardinality(X \cap Y) = 0 /\ Cardinality(X) \in Nat /\ Cardinality(Y) \in Nat
      <4>1. X \cap Y = {} /\ IsFiniteSet(X) /\ IsFiniteSet(Y)
        BY <3>2, <3>4, <3>5
      <4>2. Cardinality(X \cap Y) = 0
        BY <4>1, FS_EmptySet
      <4> HIDE DEF U
      <4> QED BY <4>1, <4>2, FS_CardinalityType
    <3>8. Cardinality(X \cup Y) = Cardinality(X) + Cardinality(Y)
      BY <3>6, <3>7
    <3>9. h[s] = f[x] + h[s \ {x}]
      BY <3>2, <3>3, <3>4, <3>5, <3>8
    <3> QED BY <2>2, <3>1, <3>9 DEF FoldStep
  <2> QED BY <2>1, <2>2
<1>4. h = [s \in SUBSET S |-> FoldStep(f, h, s)]
  BY <1>3
<1>5. PICK k : k = h
  OBVIOUS
<1>6. IsFold(k, f, S)
  <2> HIDE DEF h
  <2> QED BY <1>4, <1>5 DEF IsFold
<1>7. PICK g : g = Fold(f, S)
  OBVIOUS
<1>8. IsFold(g, f, S)
  BY <1>6, <1>7 DEF Fold
<1>9. g = k
  BY <1>6, <1>8, FoldUnique
<1>10. g[S] = Cardinality(U(S))
  BY <1>5, <1>9
<1> QED BY <1>2, <1>7, <1>10, SumIsFold DEF Whole

-----------------------------------------------------------------------------
USE UsageAssumption

(* There are finitely many requests. *)
LEMMA SomeRequests ==
    ASSUME NEW S \in SUBSET Requests
    PROVE  IsFiniteSet(S) /\ Cardinality(S) \in 0..MaxRequests
<1>1. IsFiniteSet(Requests) /\ Cardinality(Requests) = MaxRequests
  BY FS_Interval DEF Requests
<1>2. IsFiniteSet(S) /\ Cardinality(S) <= MaxRequests
  BY <1>1, FS_Subset
<1> QED BY <1>2, FS_CardinalityType

(* The bytes of request r, one by one. *)
ByteSet == [r \in Requests |-> {r} \X (1..BytesOf[r])]

(* The bytes of some requests are counted by a number; more requests have   *)
(* no fewer.                                                                *)
LEMMA BytesCounted ==
    ASSUME NEW S \in SUBSET Requests, NEW T \in SUBSET S
    PROVE  /\ SumFunctionOnSet(BytesOf, S) \in Nat /\ SumFunctionOnSet(BytesOf, T) \in Nat
           /\ SumFunctionOnSet(BytesOf, T) <= SumFunctionOnSet(BytesOf, S)
<1>1. PICK A : A = ByteSet
  OBVIOUS
<1>2. ASSUME NEW r \in Requests
      PROVE  IsFiniteSet(A[r]) /\ BytesOf[r] = Cardinality(A[r]) /\ \A x \in A[r] : x[1] = r
  <2>1. PICK n \in Nat : n = BytesOf[r]
    OBVIOUS
  <2>2. A[r] = {r} \X (1..n)
    BY <1>1, <2>1 DEF ByteSet
  <2>3. IsFiniteSet({r}) /\ Cardinality({r}) = 1
    BY FS_Singleton
  <2>4. IsFiniteSet(1..n) /\ Cardinality(1..n) = n
    <3>1. PICK a \in Int, b \in Int : a = 1 /\ b = n
      OBVIOUS
    <3>2. IsFiniteSet(a..b) /\ Cardinality(a..b) = IF a > b THEN 0 ELSE b - a + 1
      BY FS_Interval
    <3>3. a..b = 1..n /\ (IF a > b THEN 0 ELSE b - a + 1) = n
      BY <3>1
    <3> QED BY <3>2, <3>3
  <2>5. IsFiniteSet({r} \X (1..n)) /\ Cardinality({r} \X (1..n)) = Cardinality({r}) * Cardinality(1..n)
    BY <2>3, <2>4, FS_Product
  <2>6. Cardinality({r} \X (1..n)) = n
    BY <2>3, <2>4, <2>5
  <2> QED BY <2>1, <2>2, <2>5, <2>6
<1>3. \A i, j \in Requests : i # j => A[i] \cap A[j] = {}
  BY <1>2
<1>4. ASSUME NEW X \in SUBSET Requests
      PROVE  /\ IsFiniteSet(Whole(A, X))
             /\ SumFunctionOnSet(BytesOf, X) = Cardinality(Whole(A, X))
  <2>1. IsFiniteSet(X)
    BY SomeRequests
  <2>2. Sizes(BytesOf, A, X)
    BY <1>2, <1>3 DEF Sizes
  <2> QED BY <2>1, <2>2, SumOfSizes
<1>5. PICK U, V : U = Whole(A, S) /\ V = Whole(A, T)
  OBVIOUS
<1>6. V \subseteq U
  BY <1>5 DEF Whole
<1>7. IsFiniteSet(U) /\ SumFunctionOnSet(BytesOf, S) = Cardinality(U)
  BY <1>4, <1>5
<1>8. T \in SUBSET Requests
  OBVIOUS
<1>9. IsFiniteSet(V) /\ SumFunctionOnSet(BytesOf, T) = Cardinality(V)
  BY <1>4, <1>5, <1>8
<1> QED BY <1>6, <1>7, <1>9, FS_Subset, FS_CardinalityType

(* The totals are rows, and a day without logs has none. *)
LEMMA TotalRow ==
    ASSUME NEW d
    PROVE  /\ Total(d) \in Rows /\ (Total(d) = NoRow <=> LogsOf(d) = {})
           /\ Total(d).bytes = SumFunctionOnSet(BytesOf, LogsOf(d))
           /\ (OutOfRange(d) <=> Total(d).bytes > Int4Max)
           /\ NoRow \in Rows
<1>1. PICK S \in SUBSET Requests : S = LogsOf(d)
  BY DEF LogsOf, Logs
<1>2. PICK E \in SUBSET S : E = {r \in LogsOf(d) : IsError(r)}
  BY <1>1
<1>3. PICK b \in Nat : b = SumFunctionOnSet(BytesOf, S)
  BY BytesCounted
<1>4. Total(d) = [requests |-> Cardinality(S), errors |-> Cardinality(E), bytes |-> b]
  BY <1>1, <1>2, <1>3 DEF Total
<1>5. Cardinality(S) \in 0..MaxRequests /\ Cardinality(E) \in 0..MaxRequests /\ IsFiniteSet(S)
  BY SomeRequests
<1>6. Cardinality(S) = 0 <=> S = {}
  BY <1>5, FS_EmptySet
<1>7. S = {} => Cardinality(E) = 0 /\ b = 0
  <2> SUFFICES ASSUME S = {} PROVE Cardinality(E) = 0 /\ b = 0
    OBVIOUS
  <2>1. Cardinality(E) = 0
    BY FS_EmptySet
  <2>2. PICK A : A = [i \in S |-> {}]
    OBVIOUS
  <2>3. Sizes(BytesOf, A, S) /\ Whole(A, S) = {}
    BY DEF Sizes, Whole
  <2>4. SumFunctionOnSet(BytesOf, S) = Cardinality(Whole(A, S))
    BY <1>5, <2>3, SumOfSizes
  <2> QED BY <1>3, <2>1, <2>3, <2>4, FS_EmptySet
<1>8. Total(d) = NoRow <=> S = {}
  BY <1>4, <1>6, <1>7 DEF NoRow
<1>9. Total(d) \in Rows /\ Total(d).bytes = b /\ NoRow \in Rows
  BY <1>4, <1>5 DEF Rows, NoRow
<1>10. OutOfRange(d) <=> b > Int4Max
  BY <1>1, <1>3 DEF OutOfRange
<1>11. Total(d).bytes = SumFunctionOnSet(BytesOf, LogsOf(d))
  BY <1>1, <1>3, <1>9
<1>12. OutOfRange(d) <=> Total(d).bytes > Int4Max
  BY <1>9, <1>10
<1> QED BY <1>1, <1>8, <1>9, <1>11, <1>12

-----------------------------------------------------------------------------
(* A worker that sleeps has nothing. *)
LEMMA SleepingOK ==
    /\ Sleeping \in Tasks /\ TaskOK(Sleeping) /\ TaskRows(Sleeping)
    /\ LocksOK(Sleeping) /\ Complete(Sleeping)
    /\ \A u : Apart(Sleeping, u) /\ Apart(u, Sleeping)
    /\ \A d \in Days : Harmless(Sleeping, d)
<1>1. NoRow \in Rows /\ 0 \in Days
  BY TotalRow DEF Days
<1>2. Sleeping \in Tasks
  BY <1>1 DEF Sleeping, Tasks
<1>3. /\ Sleeping.at = "idle" /\ Sleeping.held = {} /\ Sleeping.clean = FALSE
      /\ \A d \in Days : Sleeping.wrote[d] = NoRow
  BY DEF Sleeping
<1>4. TaskOK(Sleeping) /\ TaskRows(Sleeping) /\ LocksOK(Sleeping)
  BY <1>3 DEF TaskOK, TaskRows, RowOK, LocksOK
<1>5. Complete(Sleeping)
  BY <1>3 DEF Complete
<1>6. \A u : Apart(Sleeping, u) /\ Apart(u, Sleeping)
  BY <1>3 DEF Apart
<1>7. \A d \in Days : Harmless(Sleeping, d)
  BY <1>3 DEF Harmless
<1> QED BY <1>2, <1>4, <1>5, <1>6, <1>7

(* Inv holds initially. *)
LEMMA InitInv == Init => Inv
<1> SUFFICES ASSUME Init PROVE Inv
  OBVIOUS
<1>1. /\ day = 1 /\ deleted = {} /\ req = [r \in Requests |-> Waiting]
      /\ usage = [k \in Keys |-> NoUsage]
      /\ daily = [d \in Days |-> NoRow] /\ task = [w \in Workers |-> Sleeping]
      /\ covered = FALSE
  BY DEF Init
<1>2. \A r \in Requests : req[r].at = "new" /\ req[r] = Waiting
  BY <1>1 DEF Waiting
<1>3. Types
  <2>1. NoRow \in Rows /\ 0 \in Days
    BY TotalRow DEF Days
  <2>2. req \in [Requests -> RequestRows]
    BY <1>1, <2>1 DEF Waiting, RequestRows
  <2>3. usage \in [Keys -> [Days -> UsageRows]]
    BY <1>1 DEF UsageRows, NoUsage
  <2>4. task \in [Workers -> Tasks] /\ daily \in [Days -> Rows]
    BY <1>1, <2>1, SleepingOK
  <2>5. day \in 1..MaxDay /\ deleted \subseteq Deletable
    BY <1>1
  <2>6. covered \in BOOLEAN
    BY <1>1
  <2> QED BY <2>2, <2>3, <2>4, <2>5, <2>6 DEF Types
<1>4. RequestsOK
  BY <1>2 DEF RequestsOK
<1>5. Logged = {}
  BY <1>2 DEF Logged
<1>6. UsageOK
  <2> SUFFICES ASSUME NEW k \in Keys, NEW d \in Days
               PROVE  /\ usage[k] = NoUsage /\ NoUsage[d].requests = Cardinality(UsedOn(k, d))
                      /\ NoUsage[d].errors = Cardinality({r \in UsedOn(k, d) : IsError(r)})
    BY <1>1 DEF UsageOK
  <2>1. UsedOn(k, d) = {} /\ {r \in UsedOn(k, d) : IsError(r)} = {}
    BY <1>5 DEF UsedOn
  <2>2. usage[k] = NoUsage /\ NoUsage[d].requests = 0 /\ NoUsage[d].errors = 0
    BY <1>1 DEF NoUsage
  <2>3. /\ Cardinality(UsedOn(k, d)) = 0
        /\ Cardinality({r \in UsedOn(k, d) : IsError(r)}) = 0
    BY <2>1, FS_EmptySet
  <2> QED BY <2>2, <2>3
<1>7. DailyOK
  BY <1>1 DEF DailyOK, RowOK
<1>8. TasksOK
  BY <1>1, SleepingOK DEF TasksOK, Others
<1>9. SettledOK
  <2>1. \A d \in Days : ~Due(d)
    BY <1>1 DEF Due, Days
  <2> QED BY <1>1, <2>1 DEF SettledOK
<1> QED BY <1>3, <1>4, <1>6, <1>7, <1>8, <1>9 DEF Inv

-----------------------------------------------------------------------------
(* No log is written, and none is changed. *)
SameLogs ==
    \A r \in Requests : /\ req'[r].at = "logged" <=> req[r].at = "logged"
                        /\ req[r].at = "logged" => req'[r] = req[r]

(* Then all that is counted stays. *)
LEMMA SameTotals ==
    ASSUME SameLogs
    PROVE  /\ Logs' = Logs
           /\ \A d : LogsOf(d)' = LogsOf(d) /\ Total(d)' = Total(d)
           /\ \A d : OutOfRange(d)' <=> OutOfRange(d)
           /\ \A k, d : UsedOn(k, d)' = UsedOn(k, d)
<1>1. Logs' = Logs /\ Logged' = Logged
  BY DEF Logs, Logged, SameLogs
<1>2. /\ \A r \in Logs : req'[r] = req[r]
      /\ \A r \in Logged : req'[r] = req[r]
  BY DEF Logs, Logged, SameLogs
<1>3. ASSUME NEW d
      PROVE  LogsOf(d)' = LogsOf(d) /\ Total(d)' = Total(d) /\ (OutOfRange(d)' <=> OutOfRange(d))
  <2>1. LogsOf(d)' = LogsOf(d)
    BY <1>1, <1>2 DEF LogsOf
  <2>2. Total(d)' = Total(d)
    BY <2>1 DEF Total
  <2>3. OutOfRange(d)' <=> OutOfRange(d)
    BY <2>1 DEF OutOfRange
  <2> QED BY <2>1, <2>2, <2>3
<1>4. ASSUME NEW k, NEW d PROVE UsedOn(k, d)' = UsedOn(k, d)
  BY <1>1, <1>2 DEF UsedOn
<1> QED BY <1>1, <1>3, <1>4

(* So does the usage, if nothing touches it. *)
LEMMA SameUsage ==
    ASSUME UsageOK, UNCHANGED <<usage, deleted>>, \A k, d : UsedOn(k, d)' = UsedOn(k, d)
    PROVE  UsageOK'
<1>1. \A k : Exists(k)' <=> Exists(k)
  BY DEF Exists
<1> SUFFICES ASSUME NEW k \in Keys
             PROVE  /\ ~Exists(k) => usage[k] = NoUsage
                    /\ Exists(k) =>
                          \A d \in Days :
                             /\ usage[k][d].requests = Cardinality(UsedOn(k, d))
                             /\ usage[k][d].errors = Cardinality({r \in UsedOn(k, d) : IsError(r)})
  BY <1>1 DEF UsageOK
<1> QED BY DEF UsageOK

(* A step that writes no log and leaves the rollups alone. *)
LEMMA RequestStep ==
    ASSUME Inv, UNCHANGED <<day, daily, task, covered>>, SameLogs,
           req' \in [Requests -> RequestRows], RequestsOK', Overdue' \subseteq Overdue,
           deleted' \subseteq Deletable,
           usage' \in [Keys -> [Days -> UsageRows]], UsageOK'
    PROVE  Inv'
<1>1. /\ Logs' = Logs
      /\ \A d : LogsOf(d)' = LogsOf(d) /\ Total(d)' = Total(d)
      /\ \A d : OutOfRange(d)' <=> OutOfRange(d)
      /\ \A k, d : UsedOn(k, d)' = UsedOn(k, d)
  BY SameTotals
<1>2. Types'
  BY DEF Inv, Types
<1>4. \A row, d : RowOK(row, d)' <=> RowOK(row, d)
  BY <1>1 DEF RowOK
<1>5. DailyOK'
  BY <1>4 DEF Inv, DailyOK, RowOK
<1>6. TasksOK'
  <2> SUFFICES ASSUME NEW w \in Workers
               PROVE  /\ TaskOK(task[w])' /\ TaskRows(task[w])'
                      /\ LocksOK(task[w])' /\ Complete(task[w])'
                      /\ \A v \in Others(w) : Apart(task[w], task[v])'
    BY DEF TasksOK
  <2>1. /\ TaskOK(task[w]) /\ TaskRows(task[w]) /\ LocksOK(task[w]) /\ Complete(task[w])
        /\ \A v \in Others(w) : Apart(task[w], task[v])
    BY DEF Inv, TasksOK
  <2>2. TaskOK(task[w])'
    BY <2>1 DEF TaskOK, Current, Done
  <2>3. TaskRows(task[w])'
    BY <1>1, <2>1 DEF TaskRows, RowOK
  <2>4. LocksOK(task[w])'
    BY <2>1 DEF LocksOK
  <2>5. Complete(task[w])'
    BY <1>1, <2>1 DEF Complete, Current, Done
  <2>6. \A v \in Others(w) : Apart(task[w], task[v])'
    BY <2>1 DEF Apart, Others
  <2> QED BY <2>2, <2>3, <2>4, <2>5, <2>6
<1>7. SettledOK'
  <2>1. \A d \in Days : Due(d)' <=> Due(d)
    BY DEF Due
  <2>2. \A d \in Days : Settled(d) => Settled(d)'
    BY <1>1 DEF Settled, Harmless, Current
  <2> QED BY <2>1, <2>2 DEF Inv, SettledOK
<1> QED BY <1>2, <1>5, <1>6, <1>7 DEF Inv

(* Inv is preserved by a request until it is logged. *)
LEMMA OpenInv ==
    ASSUME Inv, NEW r \in Requests, Open(r) \/ Answer(r) \/ Fail(r)
    PROVE  Inv'
<1>1. /\ Types /\ RequestsOK /\ UsageOK
      /\ UNCHANGED <<day, deleted, usage, daily, task, covered>>
      /\ day \in 1..MaxDay /\ day \in Days /\ deleted \subseteq Deletable
      /\ usage \in [Keys -> [Days -> UsageRows]] /\ req \in [Requests -> RequestRows]
  BY DEF Inv, Types, Open, Answer, Fail, Days
<1>2. PICK x \in RequestRows : /\ req' = [req EXCEPT ![r] = x] /\ req[r].at # "logged"
                        /\ x.at # "logged" /\ x.at # "new"
                        /\ \/ x.at = "open" /\ x.created = day
                           \/ /\ x.at = "answered" /\ x.created = req[r].created
                              /\ x.ended = day /\ req[r].at = "open"
                           \/ x.at = "failed"
  <2>0. PICK y \in RequestRows : y = req[r]
    BY <1>1
  <2>1. CASE Open(r)
    <3>1. PICK x : x = [y EXCEPT !.at = "open", !.created = day]
      OBVIOUS
    <3>2. x \in RequestRows /\ x.at = "open" /\ x.created = day
      BY <1>1, <3>1 DEF RequestRows
    <3>3. req' = [req EXCEPT ![r] = x] /\ y.at = "new"
      BY <2>0, <2>1, <3>1 DEF Open
    <3> QED BY <2>0, <3>2, <3>3
  <2>2. CASE Answer(r)
    <3>1. PICK x : x = [y EXCEPT !.at = "answered", !.ended = day]
      OBVIOUS
    <3>2. x \in RequestRows /\ x.at = "answered" /\ x.created = y.created /\ x.ended = day
      BY <1>1, <3>1 DEF RequestRows
    <3>3. req' = [req EXCEPT ![r] = x] /\ y.at = "open"
      BY <2>0, <2>2, <3>1 DEF Answer
    <3> QED BY <2>0, <3>2, <3>3
  <2>3. CASE Fail(r)
    <3>1. [Waiting EXCEPT !.at = "failed"] \in RequestRows /\ [Waiting EXCEPT !.at = "failed"].at = "failed"
      BY DEF Waiting, Days, RequestRows
    <3> QED BY <1>1, <2>3, <3>1 DEF Fail
  <2> QED BY <2>1, <2>2, <2>3
<1>3. req'[r] = x /\ \A q \in Requests : q # r => req'[q] = req[q]
  BY <1>1, <1>2
<1>4. SameLogs
  BY <1>2, <1>3 DEF SameLogs
<1>5. req' \in [Requests -> RequestRows]
  BY <1>1, <1>2
<1>6. /\ x.at \in {"open", "answered"} => x.created <= day /\ day <= x.created + 1
      /\ x.at \in {"answered", "logged"} => x.created <= x.ended
  <2>1. req[r].at = "open" => req[r].created <= day /\ day <= req[r].created + 1
    BY <1>1 DEF RequestsOK
  <2> QED BY <1>1, <1>2, <2>1
<1>7. RequestsOK'
  <2> SUFFICES ASSUME NEW q \in Requests
               PROVE  /\ req'[q].at \in {"open", "answered"} =>
                            req'[q].created <= day /\ day <= req'[q].created + 1
                      /\ req'[q].at \in {"answered", "logged"} => req'[q].created <= req'[q].ended
    BY <1>1 DEF RequestsOK
  <2>1. CASE q = r
    BY <1>3, <1>6, <2>1
  <2>2. CASE q # r
    BY <1>1, <1>3, <2>2 DEF RequestsOK
  <2> QED BY <2>1, <2>2
<1>8. Overdue' \subseteq Overdue
  <2> SUFFICES ASSUME NEW q \in Overdue' PROVE q \in Overdue
    OBVIOUS
  <2>1. q \in Requests /\ req'[q].at \in {"open", "answered"} /\ req'[q].created < day
    BY <1>1 DEF Overdue
  <2>2. CASE q = r
    <3>1. x.at # "failed" /\ x.created < day
      BY <1>3, <2>1, <2>2
    <3>2. ~(x.created = day)
      BY <1>1, <3>1 DEF RequestRows
    <3> QED BY <1>2, <2>1, <2>2, <3>1, <3>2 DEF Overdue
  <2>3. CASE q # r
    BY <1>3, <2>1, <2>3 DEF Overdue
  <2> QED BY <2>2, <2>3
<1>9. UsageOK'
  BY <1>1, <1>4, SameTotals, SameUsage
<1> QED BY <1>1, <1>4, <1>5, <1>7, <1>8, <1>9, RequestStep

(* Inv is preserved when an API is deleted. *)
LEMMA DeleteInv ==
    ASSUME Inv, NEW a \in Deletable, DeleteApi(a)
    PROVE  Inv'
<1>1. /\ deleted' = deleted \cup {a}
      /\ usage' = [k \in Keys |-> IF ApiOf[k] = a THEN NoUsage ELSE usage[k]]
      /\ UNCHANGED <<day, req, daily, task, covered>>
  BY DEF DeleteApi
<1>2. SameLogs /\ Overdue' = Overdue
  BY <1>1 DEF SameLogs, Overdue
<1>3. RequestsOK'
  BY <1>1 DEF Inv, RequestsOK
<1>4. usage' \in [Keys -> [Days -> UsageRows]]
  <2>1. NoUsage \in [Days -> UsageRows]
    BY DEF NoUsage, UsageRows
  <2> QED BY <1>1, <2>1 DEF Inv, Types
<1>5. UsageOK'
  <2> SUFFICES ASSUME NEW k \in Keys
               PROVE  /\ ~Exists(k)' => usage'[k] = NoUsage
                      /\ Exists(k)' =>
                            \A d \in Days :
                               /\ usage'[k][d].requests = Cardinality(UsedOn(k, d)')
                               /\ usage'[k][d].errors
                                    = Cardinality({r \in UsedOn(k, d)' : IsError(r)})
    BY DEF UsageOK
  <2>1. \A d : UsedOn(k, d)' = UsedOn(k, d)
    BY <1>2, SameTotals
  <2>2. CASE ApiOf[k] = a
    BY <1>1, <2>2 DEF Exists
  <2>3. CASE ApiOf[k] # a
    <3>1. usage'[k] = usage[k] /\ (Exists(k)' <=> Exists(k))
      BY <1>1, <2>3 DEF Exists
    <3> QED BY <2>1, <3>1 DEF Inv, UsageOK
  <2> QED BY <2>2, <2>3
<1>6. req' \in [Requests -> RequestRows] /\ deleted' \subseteq Deletable
  BY <1>1 DEF Inv, Types
<1> QED BY <1>1, <1>2, <1>3, <1>4, <1>5, <1>6, RequestStep

(* The effect of a new log. *)
LEMMA NewLog ==
    ASSUME Inv, NEW r \in Requests, Record(r)
    PROVE  /\ req[r].created <= day /\ day <= req[r].created + 1
           /\ req[r].created < day => r \in Overdue
           /\ Overdue' \subseteq Overdue
           /\ r \notin Logged /\ Logged' = Logged \cup {r}
           /\ \A q \in Logged' : /\ req'[q].created = req[q].created
                                 /\ req'[q].ended = req[q].ended
           /\ \A d : LogsOf(d) \subseteq LogsOf(d)' /\ LogsOf(d)' \subseteq Requests
           /\ \A d : d # req[r].created => Total(d)' = Total(d)
           /\ \A d : /\ Total(d).bytes \in Nat /\ Total(d)'.bytes \in Nat
                     /\ Total(d).bytes <= Total(d)'.bytes
           /\ \A d : OutOfRange(d) => OutOfRange(d)'
<1>1. /\ req[r].at = "answered" /\ req' = [req EXCEPT ![r].at = "logged"]
      /\ day' = day
  BY DEF Record
<1>2. /\ req \in [Requests -> RequestRows]
      /\ day \in 1..MaxDay
  BY DEF Inv, Types
<1>3. /\ req'[r].at = "logged"
      /\ \A q \in Requests : /\ q # r => req'[q] = req[q]
                             /\ req'[q].created = req[q].created
                             /\ req'[q].ended = req[q].ended
  BY <1>1, <1>2 DEF RequestRows
<1>4. req[r].created <= day /\ day <= req[r].created + 1 /\ (req[r].created < day => r \in Overdue)
  BY <1>1 DEF Inv, RequestsOK, Overdue
<1>5. r \notin Logged /\ Logged' = Logged \cup {r}
  BY <1>1, <1>3 DEF Logged
<1>6. Overdue' \subseteq Overdue
  BY <1>1, <1>3 DEF Overdue
<1>7. \A d : LogsOf(d) \subseteq LogsOf(d)' /\ LogsOf(d)' \subseteq Requests
  BY <1>1, <1>3 DEF LogsOf, Logs, Ours
<1>8. ASSUME NEW d, d # req[r].created PROVE Total(d)' = Total(d)
  <2>1. LogsOf(d)' = LogsOf(d)
    BY <1>1, <1>3, <1>8 DEF LogsOf, Logs, Ours
  <2> QED BY <2>1 DEF Total
<1>9. ASSUME NEW d
      PROVE  /\ Total(d).bytes \in Nat /\ Total(d)'.bytes \in Nat
             /\ Total(d).bytes <= Total(d)'.bytes
             /\ OutOfRange(d) => OutOfRange(d)'
  <2>1. PICK S \in SUBSET Requests : S = LogsOf(d)'
    BY <1>7
  <2>2. PICK T \in SUBSET S : T = LogsOf(d)
    BY <1>7, <2>1
  <2>3. PICK s \in Nat, t \in Nat : /\ s = SumFunctionOnSet(BytesOf, S)
                                    /\ t = SumFunctionOnSet(BytesOf, T) /\ t <= s
    BY BytesCounted
  <2>4. Total(d).bytes = t
    BY <2>2, <2>3 DEF Total
  <2>5. Total(d)'.bytes = s
    BY <2>1, <2>3 DEF Total
  <2>6. OutOfRange(d) => t > Int4Max
    BY <2>2, <2>3 DEF OutOfRange
  <2>7. s > Int4Max => OutOfRange(d)'
    BY <2>1, <2>3 DEF OutOfRange
  <2>8. t > Int4Max => s > Int4Max
    BY <2>3
  <2> QED BY <2>3, <2>4, <2>5, <2>6, <2>7, <2>8
<1>10. \A q \in Logged' : q \in Requests
  BY DEF Logged
<1> QED BY <1>3, <1>4, <1>5, <1>6, <1>7, <1>8, <1>9, <1>10

(* One more in a set of requests. *)
LEMMA CountOne ==
    ASSUME NEW S \in SUBSET Requests, NEW r \in Requests, r \notin S
    PROVE  Cardinality(S \cup {r}) = Cardinality(S) + 1
<1>1. IsFiniteSet(S)
  BY SomeRequests
<1> QED BY <1>1, FS_AddElement

(* Usage goes on to agree with the logs. *)
LEMMA RecordUsage ==
    ASSUME Inv, NEW r \in Requests, Record(r)
    PROVE  UsageOK' /\ usage' \in [Keys -> [Days -> UsageRows]]
<1>1. /\ r \notin Logged /\ Logged' = Logged \cup {r}
      /\ \A q \in Logged' : req'[q].ended = req[q].ended
  BY NewLog
<1>2. /\ usage \in [Keys -> [Days -> UsageRows]] /\ UsageOK
      /\ req \in [Requests -> RequestRows]
  BY DEF Inv, Types
<1>3. PICK h \in Keys, e \in Days : h = KeyOf[r] /\ e = req[r].ended
  BY <1>2 DEF RequestRows
<1>4. Exists(h) /\ deleted' = deleted /\ usage' = [usage EXCEPT ![h][e] = Incremented(usage[h][e], r)]
  BY <1>3 DEF Record
<1>5. ASSUME NEW k \in Keys, NEW d \in Days
      PROVE  /\ usage'[k][d] \in UsageRows
             /\ Exists(k) =>
                   /\ usage'[k][d].requests = Cardinality(UsedOn(k, d)')
                   /\ usage'[k][d].errors = Cardinality({q \in UsedOn(k, d)' : IsError(q)})
  <2>1. PICK S \in SUBSET Requests : S = UsedOn(k, d)
    BY DEF UsedOn, Logged
  <2>2. PICK T \in SUBSET Requests : T = UsedOn(k, d)'
    BY DEF UsedOn, Logged
  <2>3. PICK E \in SUBSET S : E = {q \in S : IsError(q)}
    OBVIOUS
  <2>4. PICK F \in SUBSET T : F = {q \in T : IsError(q)}
    OBVIOUS
  <2>5. r \notin S /\ r \notin E
    BY <1>1, <2>1 DEF UsedOn
  <2>6. PICK u \in UsageRows : u = usage[k][d]
    BY <1>2
  <2>7. Exists(k) => u.requests = Cardinality(S) /\ u.errors = Cardinality(E)
    BY <1>2, <2>1, <2>3, <2>6 DEF UsageOK
  <2>8. /\ Cardinality(S) \in Nat /\ Cardinality(T) \in 0..MaxRequests
        /\ Cardinality(E) \in Nat /\ Cardinality(F) \in 0..MaxRequests
    <3>1. S \in SUBSET Requests /\ T \in SUBSET Requests /\ E \in SUBSET Requests
          /\ F \in SUBSET Requests
      OBVIOUS
    <3> QED BY <3>1, SomeRequests
  <2>9. CASE k = h /\ d = e
    <3>1. T = S \cup {r}
      BY <1>1, <1>3, <2>1, <2>2, <2>9 DEF UsedOn
    <3>2. F = IF IsError(r) THEN E \cup {r} ELSE E
      BY <2>3, <2>4, <3>1
    <3>3. Cardinality(T) = Cardinality(S) + 1
      BY <2>5, <3>1, CountOne
    <3>4. Cardinality(F) = Cardinality(E) + (IF IsError(r) THEN 1 ELSE 0)
      <4>1. CASE IsError(r)
        <5>1. E \in SUBSET Requests /\ F = E \cup {r}
          BY <3>2, <4>1
        <5>2. Cardinality(F) = Cardinality(E) + 1
          BY <2>5, <5>1, CountOne
        <5> QED BY <4>1, <5>2
      <4>2. CASE ~IsError(r)
        BY <2>8, <3>2, <4>2
      <4> QED BY <4>1, <4>2
    <3>5. usage'[k][d] = [requests |-> u.requests + 1,
                          errors |-> u.errors + (IF IsError(r) THEN 1 ELSE 0)]
      BY <1>2, <1>4, <2>6, <2>9 DEF Incremented
    <3>6. /\ usage'[k][d].requests = Cardinality(T) /\ usage'[k][d].errors = Cardinality(F)
          /\ usage'[k][d] = [requests |-> Cardinality(T), errors |-> Cardinality(F)]
      BY <1>4, <2>7, <2>9, <3>3, <3>4, <3>5
    <3>7. usage'[k][d] \in UsageRows
      BY <2>8, <3>6 DEF UsageRows
    <3> QED BY <2>2, <2>4, <3>6, <3>7
  <2>10. CASE ~(k = h /\ d = e)
    <3>1. usage'[k][d] = u
      BY <1>2, <1>4, <2>6, <2>10
    <3>2. T = S
      BY <1>1, <1>3, <2>1, <2>2, <2>10 DEF UsedOn
    <3>3. F = E
      BY <2>3, <2>4, <3>2
    <3> QED BY <2>2, <2>4, <2>6, <2>7, <3>1, <3>2, <3>3
  <2> QED BY <2>9, <2>10
<1>6. UsageOK'
  <2>1. \A k \in Keys : Exists(k)' <=> Exists(k)
    BY <1>4 DEF Exists
  <2>2. \A k \in Keys : ~Exists(k) => usage'[k] = NoUsage
    BY <1>2, <1>4 DEF UsageOK
  <2> QED BY <1>5, <2>1, <2>2 DEF UsageOK
<1>7. \A k \in Keys : usage'[k] \in [Days -> UsageRows]
  <2> SUFFICES ASSUME NEW k \in Keys PROVE usage'[k] \in [Days -> UsageRows]
    OBVIOUS
  <2>1. usage'[k] = [d \in Days |-> usage'[k][d]]
    <3>1. CASE k = h
      BY <1>2, <1>4, <3>1
    <3>2. CASE k # h
      BY <1>2, <1>4, <3>2
    <3> QED BY <3>1, <3>2
  <2> QED BY <1>5, <2>1
<1>8. usage' = [k \in Keys |-> usage'[k]]
  BY <1>2, <1>4
<1> QED BY <1>6, <1>7, <1>8

(* Inv is preserved by a new log. *)
LEMMA RecordInv ==
    ASSUME Inv, NEW r \in Requests, Record(r)
    PROVE  Inv'
<1>1. /\ req[r].at = "answered" /\ req' = [req EXCEPT ![r].at = "logged"]
      /\ UNCHANGED <<day, deleted, daily, task, covered>>
  BY DEF Record
<1>2. /\ req \in [Requests -> RequestRows]
      /\ day \in 1..MaxDay /\ task \in [Workers -> Tasks]
  BY DEF Inv, Types
<1>3. PICK c \in Days : c = req[r].created /\ c \in Nat
  BY <1>2 DEF Days, RequestRows
<1>4. /\ c <= day /\ day <= c + 1 /\ (c < day => Overdue # {}) /\ Overdue' \subseteq Overdue
      /\ \A d : LogsOf(d) \subseteq LogsOf(d)'
      /\ \A d : d # c => Total(d)' = Total(d)
      /\ \A d : /\ Total(d).bytes \in Nat /\ Total(d)'.bytes \in Nat
                /\ Total(d).bytes <= Total(d)'.bytes
      /\ \A d : OutOfRange(d) => OutOfRange(d)'
  BY <1>3, NewLog
<1>5. UsageOK' /\ usage' \in [Keys -> [Days -> UsageRows]]
  BY RecordUsage
<1>6. Types'
  <2>1. req' \in [Requests -> RequestRows]
    BY <1>1, <1>2 DEF RequestRows
  <2> QED BY <1>1, <1>5, <2>1 DEF Inv, Types
<1>7. RequestsOK'
  <2> SUFFICES ASSUME NEW q \in Requests
               PROVE  /\ req'[q].at \in {"open", "answered"} =>
                            req'[q].created <= day /\ day <= req'[q].created + 1
                      /\ req'[q].at \in {"answered", "logged"} => req'[q].created <= req'[q].ended
    BY <1>1 DEF RequestsOK
  <2>1. /\ req[q].at \in {"open", "answered"} =>
              req[q].created <= day /\ day <= req[q].created + 1
        /\ req[q].at \in {"answered", "logged"} => req[q].created <= req[q].ended
    BY DEF Inv, RequestsOK
  <2>2. /\ req'[q].created = req[q].created /\ req'[q].ended = req[q].ended
        /\ q = r => req'[q].at = "logged" /\ req[q].at = "answered"
        /\ q # r => req'[q].at = req[q].at
    BY <1>1, <1>2 DEF RequestRows
  <2> QED BY <2>1, <2>2
<1>8. \A row, d : RowOK(row, d) => RowOK(row, d)'
  BY <1>4 DEF RowOK
<1>9. DailyOK'
  BY <1>1, <1>4 DEF Inv, DailyOK, RowOK
<1>10. \A d \in Days : d + 2 <= day \/ (d + 1 = day /\ Overdue = {}) => d # c
  BY <1>2, <1>3, <1>4 DEF Days
<1>11. TasksOK'
  <2> SUFFICES ASSUME NEW w \in Workers
               PROVE  /\ TaskOK(task[w])' /\ TaskRows(task[w])'
                      /\ LocksOK(task[w])' /\ Complete(task[w])'
                      /\ \A v \in Others(w) : Apart(task[w], task[v])'
    BY DEF TasksOK
  <2>1. /\ TaskOK(task[w]) /\ TaskRows(task[w]) /\ LocksOK(task[w]) /\ Complete(task[w])
        /\ \A v \in Others(w) : Apart(task[w], task[v])
    BY DEF Inv, TasksOK
  <2>2. TaskOK(task[w])'
    BY <1>1, <2>1 DEF TaskOK, Current, Done
  <2>3. TaskRows(task[w])'
    <3>1. PICK t \in Tasks : t = task[w] /\ t = task'[w]
      BY <1>1, <1>2
    <3>2. \A d \in Days : RowOK(t.wrote[d], d)'
      BY <1>8, <2>1, <3>1 DEF TaskRows
    <3>3. t.at = "insert" => /\ t.sum # NoRow => LogsOf(t.target)' # {}
                             /\ t.sum.bytes <= Total(t.target)'.bytes
      <4>1. t.at = "insert" => /\ t.sum # NoRow => LogsOf(t.target) # {}
                               /\ t.sum.bytes <= Total(t.target).bytes
        BY <2>1, <3>1 DEF TaskRows
      <4>2. t.sum.bytes \in Nat
        BY DEF Tasks, Rows
      <4> QED BY <1>4, <4>1, <4>2
    <3> QED BY <3>1, <3>2, <3>3 DEF TaskRows, RowOK
  <2>4. LocksOK(task[w])'
    BY <1>1, <2>1 DEF LocksOK
  <2>5. Complete(task[w])'
    <3>1. Overdue = {} => Overdue' = {}
      BY <1>4
    <3>2. \A d \in Days : d + 1 = day /\ Overdue = {} => Total(d)' = Total(d)
      BY <1>4, <1>10
    <3> QED BY <1>1, <2>1, <3>1, <3>2 DEF Complete, Current, Done
  <2>6. \A v \in Others(w) : Apart(task[w], task[v])'
    BY <1>1, <2>1 DEF Apart, Others
  <2> QED BY <2>2, <2>3, <2>4, <2>5, <2>6
<1>12. SettledOK'
  <2>1. \A d \in Days : Due(d)' <=> Due(d)
    BY <1>1 DEF Due
  <2>2. \A d \in Days : Due(d) => Total(d)' = Total(d)
    BY <1>4, <1>10 DEF Due, Inv, SettledOK
  <2>3. \A d \in Days : Due(d) /\ Settled(d) => Settled(d)'
    BY <1>1, <1>4, <2>2 DEF Settled, Harmless, Current
  <2> QED BY <1>1, <1>4, <2>1, <2>3 DEF Inv, SettledOK
<1> QED BY <1>5, <1>6, <1>7, <1>9, <1>11, <1>12 DEF Inv

-----------------------------------------------------------------------------
(* A task may become t. *)
Fits(w, t) ==
    /\ t \in Tasks /\ TaskOK(t) /\ TaskRows(t) /\ LocksOK(t) /\ Complete(t)
    /\ \A v \in Others(w) : Apart(t, task[v])
    /\ \A d \in Days : Due(d) => OutOfRange(d) \/ OutOfRange(d + 1) \/ Harmless(t, d)

(* A sleeping task fits always. *)
LEMMA SleepingFits == ASSUME NEW w PROVE Fits(w, Sleeping)
  BY SleepingOK DEF Fits

(* A step of a rollup that is not its commit. *)
LEMMA TaskStep ==
    ASSUME Inv, NEW w \in Workers, NEW t, Fits(w, t),
           task' = [task EXCEPT ![w] = t],
           UNCHANGED <<day, deleted, req, usage, daily>>,
           covered' \in BOOLEAN,
           covered' => covered \/ /\ Overdue = {}
                                  /\ \A d \in Days : d + 1 = day =>
                                        OutOfRange(d) \/ OutOfRange(d + 1)
    PROVE  Inv'
<1>1. /\ Logs' = Logs
      /\ \A d : LogsOf(d)' = LogsOf(d) /\ Total(d)' = Total(d)
      /\ \A d : OutOfRange(d)' <=> OutOfRange(d)
      /\ \A k, d : UsedOn(k, d)' = UsedOn(k, d)
  BY SameTotals DEF SameLogs
<1>2. /\ t \in Tasks /\ TaskOK(t) /\ TaskRows(t) /\ LocksOK(t) /\ Complete(t)
      /\ \A v \in Others(w) : Apart(t, task[v])
      /\ \A d \in Days : Due(d) => OutOfRange(d) \/ OutOfRange(d + 1) \/ Harmless(t, d)
  BY DEF Fits
<1>3. task \in [Workers -> Tasks]
  BY DEF Inv, Types
<1>4. task'[w] = t /\ \A v \in Workers : v # w => task'[v] = task[v]
  BY <1>3
<1>5. Overdue' = Overdue
  BY DEF Overdue
<1>6. Types'
  BY <1>2, <1>3 DEF Inv, Types
<1>7. RequestsOK' /\ UsageOK' /\ DailyOK'
  <2>1. UsageOK'
    BY <1>1, SameUsage DEF Inv
  <2> QED BY <1>1, <2>1 DEF Inv, RequestsOK, DailyOK, RowOK
<1>8. ASSUME NEW x
      PROVE  /\ TaskOK(x) => TaskOK(x)'
             /\ TaskRows(x) => TaskRows(x)'
             /\ LocksOK(x) => LocksOK(x)'
             /\ Complete(x) => Complete(x)'
             /\ \A d \in Days : Harmless(x, d) => Harmless(x, d)'
  <2>1. TaskOK(x) => TaskOK(x)'
    BY DEF TaskOK
  <2>2. TaskRows(x) => TaskRows(x)'
    BY <1>1 DEF TaskRows, RowOK
  <2>3. LocksOK(x) => LocksOK(x)'
    BY DEF LocksOK
  <2>4. Complete(x) => Complete(x)'
    BY <1>1, <1>5 DEF Complete
  <2>5. \A d \in Days : Harmless(x, d) => Harmless(x, d)'
    BY <1>1 DEF Harmless
  <2> QED BY <2>1, <2>2, <2>3, <2>4, <2>5
<1>9. ASSUME NEW v \in Workers
      PROVE  \E x : /\ x = task'[v]
                    /\ TaskOK(x) /\ TaskRows(x) /\ LocksOK(x) /\ Complete(x)
  <2>1. CASE v = w
    BY <1>2, <1>4, <2>1
  <2>2. CASE v # w
    BY <1>4, <2>2 DEF Inv, TasksOK
  <2> QED BY <2>1, <2>2
<1>10. TasksOK'
  <2> SUFFICES ASSUME NEW v \in Workers
               PROVE  /\ TaskOK(task[v])' /\ TaskRows(task[v])'
                      /\ LocksOK(task[v])' /\ Complete(task[v])'
                      /\ \A u \in Others(v) : Apart(task[v], task[u])'
    BY DEF TasksOK
  <2>1. PICK x : /\ x = task'[v]
                 /\ TaskOK(x) /\ TaskRows(x) /\ LocksOK(x) /\ Complete(x)
    BY <1>9
  <2>2. TaskOK(x)' /\ TaskRows(x)' /\ LocksOK(x)' /\ Complete(x)'
    BY <1>8, <2>1
  <2>3. TaskOK(task[v])'
    BY <2>1, <2>2 DEF TaskOK
  <2>4. TaskRows(task[v])'
    BY <2>1, <2>2 DEF TaskRows, RowOK
  <2>5. LocksOK(task[v])'
    BY <2>1, <2>2 DEF LocksOK
  <2>6. Complete(task[v])'
    BY <2>1, <2>2 DEF Complete
  <2>7. ASSUME NEW u \in Others(v) PROVE Apart(task[v], task[u])'
    <3>1. u \in Workers /\ u # v /\ v \in Others(u)
      BY DEF Others
    <3>2. CASE v = w
      <4>1. Apart(t, task[u])
        BY <1>2, <3>2
      <4>2. task'[v] = t /\ task'[u] = task[u]
        BY <1>4, <3>1, <3>2
      <4> QED BY <4>1, <4>2 DEF Apart
    <3>3. CASE u = w
      <4>1. Apart(t, task[v])
        BY <1>2, <3>1, <3>3
      <4>2. task'[u] = t /\ task'[v] = task[v]
        BY <1>4, <3>1, <3>3
      <4> QED BY <4>1, <4>2 DEF Apart
    <3>4. CASE v # w /\ u # w
      <4>1. Apart(task[v], task[u])
        BY DEF Inv, TasksOK
      <4>2. task'[u] = task[u] /\ task'[v] = task[v]
        BY <1>4, <3>1, <3>4
      <4> QED BY <4>1, <4>2 DEF Apart
    <3> QED BY <3>2, <3>3, <3>4
  <2> QED BY <2>3, <2>4, <2>5, <2>6, <2>7
<1>11. SettledOK'
  <2>1. covered' => Overdue' = {}
    BY <1>5 DEF Inv, SettledOK
  <2>2. ASSUME NEW d \in Days, Due(d)' PROVE Settled(d)'
    <3>1. OutOfRange(d) \/ OutOfRange(d + 1) \/ Due(d)
      BY <2>2 DEF Due
    <3>2. CASE OutOfRange(d) \/ OutOfRange(d + 1)
      BY <1>1, <3>2 DEF Settled
    <3>3. CASE Due(d) /\ ~OutOfRange(d) /\ ~OutOfRange(d + 1)
      <4>1. daily[d] = Total(d) /\ \A v \in Workers : Harmless(task[v], d)
        BY <3>3 DEF Inv, SettledOK, Settled
      <4>2. ASSUME NEW v \in Workers PROVE Harmless(task[v], d)'
        <5>1. PICK x : x = task'[v] /\ Harmless(x, d)
          <6>1. CASE v = w
            BY <1>2, <1>4, <3>3, <6>1
          <6>2. CASE v # w
            BY <1>4, <4>1, <6>2
          <6> QED BY <6>1, <6>2
        <5>2. Harmless(x, d)'
          BY <1>8, <5>1
        <5> QED BY <5>1, <5>2 DEF Harmless
      <4> QED BY <1>1, <4>1, <4>2 DEF Settled
    <3> QED BY <3>1, <3>2, <3>3
  <2> QED BY <2>1, <2>2 DEF SettledOK
<1> QED BY <1>6, <1>7, <1>10, <1>11 DEF Inv

(* A rollup that ends without a commit leaves nothing. *)
LEMMA CrashInv ==
    ASSUME Inv, NEW w \in Workers, Crash(w)
    PROVE  Inv'
<1>1. task' = [task EXCEPT ![w] = Sleeping] /\ UNCHANGED <<day, deleted, req, usage, daily, covered>>
  BY DEF Crash
<1>2. covered' \in BOOLEAN
  BY <1>1 DEF Inv, Types
<1> QED BY <1>1, <1>2, SleepingFits, TaskStep

(* A rollup begins with yesterday. *)
LEMMA StartInv ==
    ASSUME Inv, NEW w \in Workers, Start(w)
    PROVE  Inv'
<1>1. PICK t : t = [Sleeping EXCEPT !.at = "delete", !.today = day, !.target = day - 1,
                                    !.clean = (Overdue = {})]
  OBVIOUS
<1>2. task' = [task EXCEPT ![w] = t] /\ UNCHANGED <<day, deleted, req, usage, daily, covered>>
  BY <1>1 DEF Start
<1>3. day \in 1..MaxDay /\ day \in Days /\ day - 1 \in Days
      /\ covered \in BOOLEAN
  BY DEF Inv, Types, Days
<1>4. t \in Tasks
  BY <1>1, <1>3, SleepingOK DEF Tasks
<1>5. /\ t.at = "delete" /\ t.today = day /\ t.target = day - 1 /\ t.clean = (Overdue = {})
      /\ t.held = {} /\ \A d \in Days : t.wrote[d] = NoRow
  BY <1>1 DEF Sleeping
<1>6. TaskOK(t)
  BY <1>3, <1>5 DEF TaskOK
<1>7. TaskRows(t) /\ LocksOK(t) /\ \A v \in Others(w) : Apart(t, task[v])
  BY <1>5 DEF TaskRows, RowOK, LocksOK, Apart
<1>8. Complete(t)
  <2>1. ~(day - 1 = day)
    BY <1>3
  <2>2. \A d \in Days : ~Current(t, d) /\ ~Done(t, d)
    BY <1>5, <2>1 DEF Current, Done
  <2> QED BY <1>5, <2>2 DEF Complete
<1>9. \A d \in Days : Harmless(t, d)
  BY <1>5 DEF Harmless
<1>10. Fits(w, t)
  BY <1>4, <1>6, <1>7, <1>8, <1>9 DEF Fits
<1> QED BY <1>2, <1>3, <1>10, TaskStep

(* The row of the day is deleted and its total computed. *)
LEMMA RebuildInv ==
    ASSUME Inv, NEW w \in Workers, Rebuild(w)
    PROVE  Inv'
<1>1. task \in [Workers -> Tasks] /\ covered \in BOOLEAN
  BY DEF Inv, Types
<1>2. PICK x \in Tasks : x = task[w]
  BY <1>1
<1>3. PICK d \in Days : d = x.target
  BY DEF Tasks
<1>4. PICK h : h = IF daily[d] # NoRow /\ ~x.late THEN x.held \cup {d} ELSE x.held
  OBVIOUS
<1>5. PICK t : t = [x EXCEPT !.at = "insert", !.late = FALSE, !.held = h, !.sum = Total(d)]
  OBVIOUS
<1>6. /\ x.at = "delete" /\ \A v \in Others(w) : d \notin task[v].held
      /\ task' = [task EXCEPT ![w] = t] /\ UNCHANGED <<day, deleted, req, usage, daily, covered>>
  BY <1>2, <1>3, <1>4, <1>5 DEF Rebuild
<1>7. t \in Tasks
  <2>1. h \in SUBSET Days
    BY <1>4 DEF Tasks
  <2> QED BY <1>5, <2>1, TotalRow DEF Tasks
<1>8. /\ t.at = "insert" /\ t.held = h /\ t.sum = Total(d) /\ t.today = x.today
      /\ t.target = d /\ t.clean = x.clean /\ t.wrote = x.wrote
  BY <1>3, <1>5 DEF Tasks
<1>9. /\ TaskOK(x) /\ TaskRows(x) /\ LocksOK(x) /\ Complete(x)
      /\ \A v \in Others(w) : Apart(x, task[v])
  BY <1>2 DEF Inv, TasksOK
<1>10. \A e : ~Current(x, e) /\ (Done(t, e) <=> Done(x, e)) /\ (Current(t, e) <=> e = d)
  BY <1>3, <1>6, <1>8 DEF Current, Done
<1>11. x.held \subseteq h /\ h \subseteq x.held \cup {d} /\ (d \in h => d \in x.held \/ daily[d] # NoRow)
  BY <1>4
<1>12. TaskOK(t)
  BY <1>3, <1>6, <1>8, <1>9, <1>10, <1>11 DEF TaskOK
<1>13. TaskRows(t)
  <2>1. Total(d).bytes \in Nat /\ (Total(d) # NoRow => LogsOf(d) # {})
    BY TotalRow DEF Rows
  <2> QED BY <1>8, <1>9, <2>1 DEF TaskRows
<1>14. LocksOK(t)
  BY <1>8, <1>9, <1>11 DEF LocksOK
<1>15. Complete(t)
  BY <1>8, <1>9, <1>10 DEF Complete
<1>16. \A v \in Others(w) : Apart(t, task[v])
  BY <1>6, <1>8, <1>9, <1>11 DEF Apart
<1>17. ASSUME NEW e \in Days, Due(e) PROVE OutOfRange(e) \/ OutOfRange(e + 1) \/ Harmless(t, e)
  <2> SUFFICES ASSUME ~OutOfRange(e), ~OutOfRange(e + 1) PROVE Harmless(t, e)
    OBVIOUS
  <2>1. Harmless(x, e)
    BY <1>2, <1>17 DEF Inv, SettledOK, Settled
  <2>2. e \in t.held => IF e = d THEN t.sum = Total(e) ELSE t.wrote[e] = Total(e)
    BY <1>8, <1>10, <1>11, <2>1 DEF Harmless
  <2> QED BY <1>8, <1>10, <2>1, <2>2 DEF Harmless
<1>18. Fits(w, t)
  BY <1>7, <1>12, <1>13, <1>14, <1>15, <1>16, <1>17 DEF Fits
<1> QED BY <1>1, <1>6, <1>18, TaskStep

(* The row is inserted, or the rollup raises. *)
LEMMA InsertInv ==
    ASSUME Inv, NEW w \in Workers, Insert(w)
    PROVE  Inv'
<1>1. task \in [Workers -> Tasks] /\ covered \in BOOLEAN
      /\ day \in 1..MaxDay
  BY DEF Inv, Types
<1>2. PICK x \in Tasks : x = task[w]
  BY <1>1
<1>3. PICK d \in Days, row \in Rows : d = x.target /\ row = x.sum
  BY DEF Tasks
<1>4. /\ TaskOK(x) /\ TaskRows(x) /\ LocksOK(x) /\ Complete(x)
      /\ \A v \in Others(w) : Apart(x, task[v])
  BY <1>2 DEF Inv, TasksOK
<1>5. /\ x.at = "insert" /\ (row # NoRow => \A v \in Others(w) : task[v].wrote[d] = NoRow)
      /\ x.today \in Days /\ x.today >= 1 /\ x.today <= day
      /\ d = x.today \/ d + 1 = x.today
  BY <1>2, <1>3, <1>4 DEF Insert, TaskOK, Tasks
<1>6. CASE row # NoRow /\ (row.bytes > Int4Max \/ (daily[d] # NoRow /\ d \notin x.held))
  <2>1. Raise(w)
    BY <1>2, <1>3, <1>6 DEF Insert
  <2>2. /\ task' = [task EXCEPT ![w] = Sleeping] /\ UNCHANGED <<day, deleted, req, usage, daily>>
        /\ covered' = (covered \/ (x.clean /\ x.today = day /\ row.bytes > Int4Max))
    BY <1>2, <1>3, <2>1 DEF Raise, Fresh
  <2>3. ASSUME x.clean, x.today = day, row.bytes > Int4Max
        PROVE  /\ Overdue = {}
               /\ \A e \in Days : e + 1 = day => OutOfRange(e) \/ OutOfRange(e + 1)
    <3>1. Overdue = {}
      BY <1>4, <2>3 DEF Complete
    <3>2. PICK b \in Nat : b = Total(d).bytes
      BY TotalRow DEF Rows
    <3>3. row.bytes <= b /\ row.bytes \in Nat
      BY <1>3, <1>4, <1>5, <3>2 DEF TaskRows, Rows
    <3>4. OutOfRange(d)
      <4>1. b > Int4Max
        BY <2>3, <3>3
      <4> QED BY <3>2, <4>1, TotalRow
    <3>5. \A e \in Days : e + 1 = day => d = e \/ d = e + 1
      BY <1>1, <1>5, <2>3 DEF Days
    <3> QED BY <3>1, <3>4, <3>5
  <2>4. covered' \in BOOLEAN
    BY <2>2
  <2>5. covered' => covered \/ (x.clean /\ x.today = day /\ row.bytes > Int4Max)
    BY <2>2
  <2> QED BY <2>2, <2>3, <2>4, <2>5, SleepingFits, TaskStep
<1>7. CASE ~(row # NoRow /\ (row.bytes > Int4Max \/ (daily[d] # NoRow /\ d \notin x.held)))
  <2>1. PICK a : a = IF d = x.today THEN "commit" ELSE "delete"
    OBVIOUS
  <2>2. PICK t : t = [x EXCEPT !.wrote[d] = row, !.sum = NoRow, !.at = a, !.target = x.today]
    OBVIOUS
  <2>3. task' = [task EXCEPT ![w] = t] /\ UNCHANGED <<day, deleted, req, usage, daily, covered>>
    BY <1>2, <1>3, <1>7, <2>1, <2>2 DEF Insert
  <2>4. /\ t.at = a /\ t.target = x.today /\ t.today = x.today /\ t.clean = x.clean
        /\ t.held = x.held /\ t.wrote = [x.wrote EXCEPT ![d] = row] /\ x.wrote \in [Days -> Rows]
    BY <2>2 DEF Tasks
  <2>5. t \in Tasks
    <3>1. NoRow \in Rows /\ a \in {"idle", "delete", "insert", "commit"}
      BY <2>1, TotalRow
    <3> QED BY <1>5, <2>2, <3>1 DEF Tasks
  <2>6. t.wrote[d] = row /\ \A e \in Days : e # d => t.wrote[e] = x.wrote[e]
    BY <2>4
  <2>7. \A e : ~Current(t, e) /\ (Current(x, e) <=> e = d)
    BY <1>3, <1>5, <2>1, <2>4 DEF Current
  <2>8. Done(t, d) /\ \A e \in Days : Done(x, e) => Done(t, e)
    BY <1>5, <2>1, <2>4 DEF Done
  <2>9. \A e \in Days : e # d /\ e + 1 = x.today => Done(x, e)
    BY <1>3, <1>5 DEF Done, Days
  <2>10. TaskOK(t)
    <3>1. t.at # "idle" /\ x.at # "idle"
      BY <1>5, <2>1, <2>4
    <3>2. t.today >= 1 /\ t.today <= day /\ day <= t.today + 1 /\ t.target = t.today
      BY <1>4, <2>4, <3>1 DEF TaskOK
    <3>3. \A e \in t.held : Done(t, e)
      <4> SUFFICES ASSUME NEW e \in t.held PROVE Done(t, e)
        OBVIOUS
      <4>1. e \in x.held /\ e \in Days
        BY <2>4 DEF Tasks
      <4>2. Current(x, e) \/ Done(x, e)
        BY <1>4, <3>1, <4>1 DEF TaskOK
      <4> QED BY <2>7, <2>8, <4>1, <4>2
    <3>4. \A e \in Days : t.wrote[e] # NoRow => Done(t, e)
      BY <1>4, <2>6, <2>8, <3>1 DEF TaskOK
    <3> QED BY <3>1, <3>2, <3>3, <3>4 DEF TaskOK
  <2>11. TaskRows(t)
    <3>1. row # NoRow => LogsOf(d) # {} /\ row.bytes <= Int4Max
      <4>1. row # NoRow => LogsOf(d) # {}
        BY <1>3, <1>4, <1>5 DEF TaskRows
      <4>2. row # NoRow => ~(row.bytes > Int4Max) /\ row.bytes \in Nat
        BY <1>7 DEF Rows
      <4> QED BY <4>1, <4>2
    <3>2. \A e \in Days : RowOK(t.wrote[e], e)
      BY <1>4, <2>6, <3>1 DEF TaskRows, RowOK
    <3>3. t.at # "insert"
      BY <2>1, <2>4
    <3> QED BY <3>2, <3>3 DEF TaskRows
  <2>12. LocksOK(t)
    BY <1>4, <1>7, <2>4, <2>6 DEF LocksOK
  <2>13. Complete(t)
    <3> SUFFICES ASSUME t.clean, t.today = day
                 PROVE  /\ Overdue = {}
                        /\ \A e \in Days : e + 1 = day => t.wrote[e] = Total(e)
      BY <2>7 DEF Complete
    <3>1. x.clean /\ x.today = day
      BY <2>4
    <3>2. /\ Overdue = {}
          /\ \A e \in Days : e + 1 = day => /\ Current(x, e) => x.sum = Total(e)
                                            /\ Done(x, e) => x.wrote[e] = Total(e)
      BY <1>4, <3>1 DEF Complete
    <3> QED BY <1>3, <2>6, <2>7, <2>9, <3>1, <3>2
  <2>14. \A v \in Others(w) : Apart(t, task[v])
    BY <1>4, <1>5, <2>4, <2>6 DEF Apart
  <2>15. ASSUME NEW e \in Days, Due(e) PROVE OutOfRange(e) \/ OutOfRange(e + 1) \/ Harmless(t, e)
    <3> SUFFICES ASSUME ~OutOfRange(e), ~OutOfRange(e + 1) PROVE Harmless(t, e)
      OBVIOUS
    <3>1. Harmless(x, e) /\ daily[e] = Total(e)
      BY <1>2, <2>15 DEF Inv, SettledOK, Settled
    <3>2. CASE e # d
      BY <2>4, <2>6, <2>7, <3>1, <3>2 DEF Harmless
    <3>3. CASE e = d
      <4>1. d \in x.held => row = Total(d)
        BY <1>3, <2>7, <3>1, <3>3 DEF Harmless
      <4>2. d \notin x.held /\ row # NoRow => FALSE
        <5>1. row # NoRow => LogsOf(d) # {}
          BY <1>3, <1>4, <1>5 DEF TaskRows
        <5>2. Total(d) = NoRow => LogsOf(d) = {}
          BY TotalRow
        <5> QED BY <1>7, <3>1, <3>3, <5>1, <5>2
      <4> QED BY <2>4, <2>6, <2>7, <3>3, <4>1, <4>2 DEF Harmless
    <3> QED BY <3>2, <3>3
  <2>16. Fits(w, t)
    BY <2>5, <2>10, <2>11, <2>12, <2>13, <2>14, <2>15 DEF Fits
  <2> QED BY <1>1, <2>3, <2>16, TaskStep
<1> QED BY <1>6, <1>7

(* What the commit of a rollup that covers yesterday finds: the others have *)
(* neither a lock nor a row on it.                                          *)
LEMMA CoveredRow ==
    ASSUME Inv, NEW w \in Workers, NEW d \in Days, d + 1 = day,
           task[w].at = "commit", Fresh(w)
    PROVE  /\ task[w].wrote[d] = Total(d)
           /\ ~(d \in task[w].held \/ task[w].wrote[d] # NoRow) => daily[d] = Total(d)
           /\ \A v \in Others(w) : d \notin task[v].held /\ task[v].wrote[d] = NoRow
<1>1. PICK x : x = task[w]
  OBVIOUS
<1>2. /\ TaskOK(x) /\ LocksOK(x) /\ Complete(x) /\ \A v \in Others(w) : Apart(x, task[v])
  BY <1>1 DEF Inv, TasksOK
<1>3. x.at = "commit" /\ x.clean /\ x.today = day
  BY <1>1 DEF Fresh
<1>4. x.wrote[d] = Total(d)
  <2>1. x.target = x.today
    BY <1>2, <1>3 DEF TaskOK
  <2>2. Done(x, d)
    BY <1>3, <2>1 DEF Done
  <2> QED BY <1>2, <1>3, <2>2 DEF Complete
<1>5. Total(d) = NoRow <=> LogsOf(d) = {}
  BY TotalRow
<1>6. daily[d] # NoRow => LogsOf(d) # {}
  BY DEF Inv, DailyOK, RowOK
<1>7. x.wrote[d] = NoRow => daily[d] = Total(d)
  BY <1>4, <1>5, <1>6
<1>8. ASSUME NEW v \in Others(w) PROVE d \notin task[v].held /\ task[v].wrote[d] = NoRow
  <2>1. PICK y : y = task[v]
    OBVIOUS
  <2>2. TaskRows(y) /\ LocksOK(y) /\ Apart(x, y)
    BY <1>2, <2>1 DEF Inv, TasksOK, Others
  <2>3. y.wrote[d] = NoRow
    <3>1. y.wrote[d] # NoRow => LogsOf(d) # {}
      BY <2>2 DEF TaskRows, RowOK
    <3>2. ~(x.wrote[d] # NoRow /\ y.wrote[d] # NoRow)
      BY <2>2 DEF Apart
    <3> QED BY <1>4, <1>5, <3>1, <3>2
  <2>4. d \notin y.held
    <3>1. d \in y.held => daily[d] # NoRow /\ d \notin x.held
      BY <2>2 DEF LocksOK, Apart
    <3>2. x.wrote[d] # NoRow => d \in x.held \/ daily[d] = NoRow
      BY <1>2 DEF LocksOK
    <3> QED BY <1>4, <1>5, <1>6, <3>1, <3>2
  <2> QED BY <2>1, <2>3, <2>4
<1> QED BY <1>1, <1>4, <1>7, <1>8

(* Inv is preserved by the commit of a rollup. *)
LEMMA CommitInv ==
    ASSUME Inv, NEW w \in Workers, Commit(w)
    PROVE  Inv'
<1>1. /\ task \in [Workers -> Tasks] /\ daily \in [Days -> Rows] /\ covered \in BOOLEAN
      /\ day \in 1..MaxDay
  BY DEF Inv, Types
<1>2. PICK x \in Tasks : x = task[w] /\ x.wrote \in [Days -> Rows]
  BY <1>1 DEF Tasks
<1>3. PICK changed \in SUBSET Days : changed = {d \in Days : d \in x.held \/ x.wrote[d] # NoRow}
  OBVIOUS
<1>4. /\ x.at = "commit"
      /\ daily' = [d \in Days |-> IF d \in changed THEN x.wrote[d] ELSE daily[d]]
      /\ task' = [v \in Workers |->
            IF v = w THEN Sleeping
            ELSE [task[v] EXCEPT !.late = task[v].late \/ (task[v].at = "delete"
                                                /\ task[v].target \in changed)]]
      /\ covered' = (covered \/ Fresh(w))
      /\ UNCHANGED <<day, deleted, req, usage>>
  BY <1>2, <1>3 DEF Commit
<1>5. /\ Logs' = Logs
      /\ \A d : LogsOf(d)' = LogsOf(d) /\ Total(d)' = Total(d)
      /\ \A d : OutOfRange(d)' <=> OutOfRange(d)
      /\ \A k, d : UsedOn(k, d)' = UsedOn(k, d)
  BY <1>4, SameTotals DEF SameLogs
<1>6. Overdue' = Overdue
  BY <1>4 DEF Overdue
<1>7. task'[w] = Sleeping
  BY <1>4
<1>8. ASSUME NEW v \in Workers, v # w
      PROVE  /\ task'[v] \in Tasks
             /\ task'[v].at = task[v].at /\ task'[v].today = task[v].today
             /\ task'[v].target = task[v].target /\ task'[v].clean = task[v].clean
             /\ task'[v].sum = task[v].sum /\ task'[v].held = task[v].held
             /\ task'[v].wrote = task[v].wrote
             /\ task[v].at = "idle" => task'[v] = task[v]
  <2>1. PICK y \in Tasks : y = task[v]
    BY <1>1
  <2>2. PICK b \in BOOLEAN : b = (y.late \/ (y.at = "delete" /\ y.target \in changed))
    OBVIOUS
  <2>3. task'[v] = [y EXCEPT !.late = b]
    BY <1>4, <1>8, <2>1, <2>2
  <2>4. [y EXCEPT !.late = b] \in Tasks
    BY DEF Tasks
  <2>5. y.at = "idle" => [y EXCEPT !.late = b] = y
    <3> SUFFICES ASSUME y.at = "idle" PROVE [y EXCEPT !.late = b] = y
      OBVIOUS
    <3>1. y = Sleeping
      BY <2>1 DEF Inv, TasksOK, TaskOK
    <3>2. y.late = FALSE
      BY <3>1 DEF Sleeping
    <3>3. b = FALSE
      BY <2>2, <3>2
    <3> QED BY <3>2, <3>3 DEF Tasks
  <2> QED BY <2>1, <2>3, <2>4, <2>5 DEF Tasks
<1>9. Types'
  <2>1. task' \in [Workers -> Tasks]
    <3>1. \A v \in Workers : task'[v] \in Tasks
      BY <1>7, <1>8, SleepingOK
    <3>2. task' = [v \in Workers |-> task'[v]]
      BY <1>4
    <3> QED BY <3>1, <3>2
  <2>2. daily' \in [Days -> Rows]
    BY <1>1, <1>2, <1>4
  <2>3. covered' \in BOOLEAN
    BY <1>4
  <2> QED BY <1>4, <2>1, <2>2, <2>3 DEF Inv, Types
<1>10. RequestsOK' /\ UsageOK'
  <2>1. UsageOK'
    BY <1>4, <1>5, SameUsage DEF Inv
  <2> QED BY <1>4, <2>1 DEF Inv, RequestsOK
<1>11. /\ TaskOK(x) /\ TaskRows(x) /\ LocksOK(x) /\ Complete(x)
       /\ \A v \in Others(w) : Apart(x, task[v])
  BY <1>2 DEF Inv, TasksOK
<1>12. \A d \in Days : /\ d \in changed => daily'[d] = x.wrote[d]
                       /\ d \notin changed => daily'[d] = daily[d]
  BY <1>4
<1>13. DailyOK'
  <2> SUFFICES ASSUME NEW d \in Days
               PROVE  daily'[d] # NoRow => LogsOf(d)' # {} /\ daily'[d].bytes <= Int4Max
    BY DEF DailyOK, RowOK
  <2>1. daily[d] # NoRow => LogsOf(d) # {} /\ daily[d].bytes <= Int4Max
    BY DEF Inv, DailyOK, RowOK
  <2>2. x.wrote[d] # NoRow => LogsOf(d) # {} /\ x.wrote[d].bytes <= Int4Max
    BY <1>11 DEF TaskRows, RowOK
  <2> QED BY <1>5, <1>12, <2>1, <2>2
<1>14. ASSUME NEW v \in Workers, v # w
       PROVE  /\ TaskOK(task[v])' /\ TaskRows(task[v])'
              /\ LocksOK(task[v])' /\ Complete(task[v])'
  <2>1. PICK y : y = task[v]
    OBVIOUS
  <2>2. PICK z : z = task'[v]
    OBVIOUS
  <2>3. /\ z.at = y.at /\ z.today = y.today /\ z.target = y.target /\ z.clean = y.clean
        /\ z.sum = y.sum /\ z.held = y.held /\ z.wrote = y.wrote /\ (y.at = "idle" => z = y)
    BY <1>8, <1>14, <2>1, <2>2
  <2>4. /\ TaskOK(y) /\ TaskRows(y) /\ LocksOK(y) /\ Complete(y) /\ Apart(x, y)
    BY <1>11, <1>14, <2>1 DEF Inv, TasksOK, Others
  <2>5. \A d : (Current(z, d) <=> Current(y, d)) /\ (Done(z, d) <=> Done(y, d))
    BY <2>3 DEF Current, Done
  <2>6. TaskOK(task[v])'
    <3>1. TaskOK(z)'
      BY <1>4, <2>3, <2>4, <2>5 DEF TaskOK
    <3> QED BY <2>2, <3>1 DEF TaskOK
  <2>7. TaskRows(task[v])'
    <3>1. TaskRows(z)'
      BY <1>5, <2>3, <2>4 DEF TaskRows, RowOK
    <3> QED BY <2>2, <3>1 DEF TaskRows, RowOK
  <2>8. LocksOK(task[v])'
    <3> SUFFICES ASSUME NEW d \in Days
                 PROVE  /\ d \in z.held => daily'[d] # NoRow
                        /\ z.wrote[d] # NoRow => d \in z.held \/ daily'[d] = NoRow
      BY <2>2 DEF LocksOK
    <3>1. /\ d \in y.held => daily[d] # NoRow /\ d \notin x.held
          /\ y.wrote[d] # NoRow => (d \in y.held \/ daily[d] = NoRow) /\ x.wrote[d] = NoRow
          /\ d \in x.held => daily[d] # NoRow
      BY <1>11, <2>4 DEF LocksOK, Apart
    <3>2. CASE d \in changed
      BY <1>3, <1>12, <2>3, <3>1, <3>2
    <3>3. CASE d \notin changed
      BY <1>12, <2>3, <3>1, <3>3
    <3> QED BY <3>2, <3>3
  <2>9. Complete(task[v])'
    <3>1. Complete(z)'
      BY <1>4, <1>5, <1>6, <2>3, <2>4, <2>5 DEF Complete
    <3> QED BY <2>2, <3>1 DEF Complete
  <2> QED BY <2>6, <2>7, <2>8, <2>9
<1>15. TasksOK'
  <2>1. /\ task'[w].at = "idle" /\ task'[w].held = {} /\ task'[w].clean = FALSE
        /\ \A d \in Days : task'[w].wrote[d] = NoRow
    BY <1>7 DEF Sleeping
  <2>2. TaskOK(task[w])' /\ TaskRows(task[w])' /\ LocksOK(task[w])'
    BY <1>7, <2>1 DEF TaskOK, TaskRows, RowOK, LocksOK
  <2>3. Complete(task[w])'
    BY <2>1 DEF Complete
  <2>4. ASSUME NEW v \in Workers, NEW u \in Others(v) PROVE Apart(task[v], task[u])'
    <3>1. u \in Workers /\ u # v
      BY DEF Others
    <3>2. CASE v = w \/ u = w
      BY <2>1, <3>2 DEF Apart
    <3>3. CASE v # w /\ u # w
      <4>1. Apart(task[v], task[u])
        BY DEF Inv, TasksOK
      <4>2. /\ task'[v].held = task[v].held /\ task'[v].wrote = task[v].wrote
            /\ task'[u].held = task[u].held /\ task'[u].wrote = task[u].wrote
        BY <1>8, <3>1, <3>3
      <4> QED BY <4>1, <4>2 DEF Apart
    <3> QED BY <3>2, <3>3
  <2> QED BY <1>14, <2>2, <2>3, <2>4 DEF TasksOK, Others
<1>16. SettledOK'
  <2>1. covered' => Overdue' = {}
    <3>1. Fresh(w) => Overdue = {}
      BY <1>2, <1>11 DEF Fresh, Complete
    <3> QED BY <1>4, <1>6, <3>1 DEF Inv, SettledOK
  <2>2. ASSUME NEW d \in Days,
               daily'[d] = Total(d),
               \A v \in Others(w) : Harmless(task[v], d)
        PROVE  Settled(d)'
    <3>1. ASSUME NEW v \in Workers PROVE Harmless(task[v], d)'
      <4>1. CASE v = w
        <5>1. task'[v].held = {} /\ task'[v].wrote[d] = NoRow
          BY <1>7, <4>1 DEF Sleeping
        <5> QED BY <5>1 DEF Harmless
      <4>2. CASE v # w
        <5>1. /\ task'[v].at = task[v].at /\ task'[v].target = task[v].target
              /\ task'[v].sum = task[v].sum /\ task'[v].held = task[v].held
              /\ task'[v].wrote = task[v].wrote
          BY <1>8, <4>2
        <5>2. Harmless(task[v], d)
          BY <2>2, <4>2 DEF Others
        <5> QED BY <1>5, <5>1, <5>2 DEF Harmless, Current
      <4> QED BY <4>1, <4>2
    <3> QED BY <1>5, <2>2, <3>1 DEF Settled
  <2>3. ASSUME NEW d \in Days, Due(d)' PROVE Settled(d)'
    <3>1. Due(d) \/ (d + 1 = day /\ Fresh(w))
      BY <1>4, <2>3 DEF Due
    <3>2. CASE OutOfRange(d) \/ OutOfRange(d + 1)
      BY <1>5, <3>2 DEF Settled
    <3>3. CASE Due(d) /\ ~OutOfRange(d) /\ ~OutOfRange(d + 1)
      <4>1. daily[d] = Total(d) /\ \A v \in Workers : Harmless(task[v], d)
        BY <3>3 DEF Inv, SettledOK, Settled
      <4>2. d \in changed => x.wrote[d] = Total(d)
        <5>1. Harmless(x, d) /\ ~Current(x, d)
          BY <1>2, <1>4, <4>1 DEF Current
        <5> QED BY <1>3, <5>1 DEF Harmless
      <4>3. daily'[d] = Total(d)
        BY <1>12, <4>1, <4>2
      <4> QED BY <2>2, <4>1, <4>3 DEF Others
    <3>4. CASE d + 1 = day /\ Fresh(w)
      <4>1. /\ x.wrote[d] = Total(d)
            /\ ~(d \in x.held \/ x.wrote[d] # NoRow) => daily[d] = Total(d)
            /\ \A v \in Others(w) : d \notin task[v].held /\ task[v].wrote[d] = NoRow
        BY <1>2, <1>4, <3>4, CoveredRow
      <4>2. daily'[d] = Total(d)
        BY <1>3, <1>12, <4>1
      <4>3. \A v \in Others(w) : Harmless(task[v], d)
        BY <4>1 DEF Harmless
      <4> QED BY <2>2, <4>2, <4>3
    <3> QED BY <3>1, <3>2, <3>3, <3>4
  <2> QED BY <2>1, <2>3 DEF SettledOK
<1> QED BY <1>9, <1>10, <1>13, <1>15, <1>16 DEF Inv

(* Inv is preserved at midnight: what was due today is due from now on. *)
LEMMA MidnightInv ==
    ASSUME Inv, Midnight
    PROVE  Inv'
<1>1. /\ day \in 1..MaxDay /\ day < MaxDay /\ Overdue = {} /\ covered
      /\ \A w \in Workers : task[w].at # "idle" => task[w].today = day
      /\ day' = day + 1 /\ covered' = FALSE
      /\ UNCHANGED <<deleted, req, usage, daily, task>>
  BY DEF Inv, Types, Midnight
<1>2. /\ Logs' = Logs
      /\ \A d : LogsOf(d)' = LogsOf(d) /\ Total(d)' = Total(d)
      /\ \A d : OutOfRange(d)' <=> OutOfRange(d)
      /\ \A k, d : UsedOn(k, d)' = UsedOn(k, d)
  BY <1>1, SameTotals DEF SameLogs
<1>3. Types'
  <2>1. day' \in 1..MaxDay
    BY <1>1
  <2>2. covered' \in BOOLEAN
    BY <1>1
  <2> QED BY <1>1, <2>1, <2>2 DEF Inv, Types
<1>4. RequestsOK'
  <2> SUFFICES ASSUME NEW r \in Requests
               PROVE  /\ req[r].at \in {"open", "answered"} =>
                            req[r].created <= day' /\ day' <= req[r].created + 1
                      /\ req[r].at \in {"answered", "logged"} => req[r].created <= req[r].ended
    BY <1>1 DEF RequestsOK
  <2>1. req[r].created \in Days
    BY DEF Inv, Types, RequestRows
  <2>2. req[r].at \in {"open", "answered"} => ~(req[r].created < day) /\ req[r].created <= day
    BY <1>1 DEF Overdue, Inv, RequestsOK
  <2>3. req[r].at \in {"answered", "logged"} => req[r].created <= req[r].ended
    BY DEF Inv, RequestsOK
  <2> QED BY <1>1, <2>1, <2>2, <2>3 DEF Days
<1>5. UsageOK'
  BY <1>1, <1>2, SameUsage DEF Inv
<1>6. DailyOK'
  <2> SUFFICES ASSUME NEW d \in Days
               PROVE  daily[d] # NoRow => LogsOf(d) # {} /\ daily[d].bytes <= Int4Max
    BY <1>1, <1>2 DEF DailyOK, RowOK
  <2> QED BY DEF Inv, DailyOK, RowOK
<1>7. ASSUME NEW w \in Workers
      PROVE  /\ TaskOK(task[w])' /\ TaskRows(task[w])'
             /\ LocksOK(task[w])' /\ Complete(task[w])'
  <2>1. PICK x \in Tasks : x = task[w] /\ x = task'[w]
    BY <1>1 DEF Inv, Types
  <2>2. TaskOK(x) /\ TaskRows(x) /\ LocksOK(x)
    BY <2>1 DEF Inv, TasksOK
  <2>3. x.at # "idle" => x.today = day
    BY <1>1, <2>1
  <2>4. TaskOK(x)'
    BY <1>1, <2>2, <2>3 DEF TaskOK
  <2>5. TaskRows(x)'
    BY <1>2, <2>2 DEF TaskRows, RowOK
  <2>6. LocksOK(x)'
    BY <1>1, <2>2 DEF LocksOK
  <2>7. Complete(x)'
    <3>1. ~(x.clean /\ x.today = day + 1)
      <4>1. x.at = "idle" => ~x.clean
        BY <2>2 DEF TaskOK, Sleeping
      <4>2. x.at # "idle" => x.today # day + 1
        BY <1>1, <2>3
      <4> QED BY <4>1, <4>2
    <3> QED BY <1>1, <3>1 DEF Complete
  <2> QED BY <2>1, <2>4, <2>5, <2>6, <2>7 DEF TaskOK, TaskRows, RowOK, LocksOK, Complete
<1>8. TasksOK'
  <2>1. \A w \in Workers : \A v \in Others(w) : Apart(task[w], task[v])'
    BY <1>1 DEF Inv, TasksOK, Apart
  <2> QED BY <1>7, <2>1 DEF TasksOK, Others
<1>9. SettledOK'
  <2>1. ASSUME NEW d \in Days, Due(d)' PROVE Settled(d)'
    <3>1. Due(d)
      <4>1. d + 2 <= day + 1
        BY <1>1, <2>1 DEF Due
      <4> QED BY <1>1, <4>1 DEF Due, Days
    <3>2. Settled(d)
      BY <3>1 DEF Inv, SettledOK
    <3>3. ASSUME NEW w \in Workers, Harmless(task[w], d) PROVE Harmless(task[w], d)'
      BY <1>1, <1>2, <3>3 DEF Harmless, Current
    <3> QED BY <1>1, <1>2, <3>2, <3>3 DEF Settled
  <2> QED BY <1>1, <2>1 DEF SettledOK
<1> QED BY <1>3, <1>4, <1>5, <1>6, <1>8, <1>9 DEF Inv

(* Inv is preserved by every step. *)
LEMMA NextInv ==
    ASSUME Inv, [Next]_vars
    PROVE  Inv'
<1>1. ASSUME NEW r \in Requests, Open(r) \/ Answer(r) \/ Fail(r) PROVE Inv'
  BY <1>1, OpenInv
<1>2. ASSUME NEW r \in Requests, Record(r) PROVE Inv'
  BY <1>2, RecordInv
<1>3. ASSUME NEW w \in Workers, Start(w) PROVE Inv'
  BY <1>3, StartInv
<1>4. ASSUME NEW w \in Workers, Rebuild(w) PROVE Inv'
  BY <1>4, RebuildInv
<1>5. ASSUME NEW w \in Workers, Insert(w) PROVE Inv'
  BY <1>5, InsertInv
<1>6. ASSUME NEW w \in Workers, Commit(w) PROVE Inv'
  BY <1>6, CommitInv
<1>7. ASSUME NEW w \in Workers, Crash(w) PROVE Inv'
  BY <1>7, CrashInv
<1>8. ASSUME Midnight PROVE Inv'
  BY <1>8, MidnightInv
<1>9. ASSUME NEW a \in Deletable, DeleteApi(a) PROVE Inv'
  BY <1>9, DeleteInv
<1>10. ASSUME UNCHANGED vars PROVE Inv'
  <2>1. UNCHANGED <<day, deleted, req, usage, daily, task, covered>>
    BY <1>10 DEF vars
  <2>2. SameLogs /\ Overdue' = Overdue
    BY <2>1 DEF SameLogs, Overdue
  <2>3. RequestsOK'
    BY <2>1 DEF Inv, RequestsOK
  <2>4. UsageOK'
    BY <2>1, <2>2, SameTotals, SameUsage DEF Inv
  <2>5. /\ req' \in [Requests -> RequestRows] /\ deleted' \subseteq Deletable
        /\ usage' \in [Keys -> [Days -> UsageRows]]
    BY <2>1 DEF Inv, Types
  <2> QED BY <2>1, <2>2, <2>3, <2>4, <2>5, RequestStep
<1> QED
  BY <1>1, <1>2, <1>3, <1>4, <1>5, <1>6, <1>7, <1>8, <1>9, <1>10 DEF Next, Rollup

(* Inv holds in every state of every behaviour. *)
LEMMA Invariance == Spec => []Inv
<1>1. Init => Inv
  BY InitInv
<1>2. Inv /\ [Next]_vars => Inv'
  BY NextInv
<1> QED BY <1>1, <1>2, PTL DEF Spec

(* The types of all variables, sums in daily_usage within range, and no row *)
(* held by two rollups, in every reachable state.                           *)
THEOREM UsageTypes == Spec => []TypeOK
<1>1. Inv => TypeOK
  <2> SUFFICES ASSUME Inv PROVE TypeOK
    OBVIOUS
  <2>1. /\ day \in Days /\ deleted \subseteq Deletable
        /\ req \in [Requests -> [at : {"new", "open", "answered", "logged", "failed"},
                                 created : Days, ended : Days]]
    BY DEF Inv, Types, Days, RequestRows
  <2>2. covered \in BOOLEAN
    BY DEF Inv, Types
  <2>3. usage \in [Keys -> [Days -> [requests : 0..MaxRequests, errors : 0..MaxRequests]]]
    BY DEF Inv, Types, UsageRows
  <2>4. ASSUME NEW d \in Days PROVE daily[d] \in Rows /\ daily[d].bytes <= Int4Max
    <3>1. daily[d] \in Rows
      BY DEF Inv, Types
    <3>2. daily[d] = NoRow \/ daily[d].bytes <= Int4Max
      BY DEF Inv, DailyOK, RowOK
    <3>3. NoRow.bytes <= Int4Max
      BY DEF NoRow
    <3> QED BY <3>1, <3>2, <3>3
  <2>5. ASSUME NEW w \in Workers
        PROVE  /\ task[w].at \in {"idle", "delete", "insert", "commit"}
               /\ task[w].sum \in Rows
               /\ task[w].held \subseteq {d \in Days : daily[d] # NoRow}
               /\ \A v \in Others(w) : task[v].held \cap task[w].held = {}
    <3>1. PICK x \in Tasks : x = task[w]
      BY DEF Inv, Types
    <3>2. x.at \in {"idle", "delete", "insert", "commit"} /\ x.sum \in Rows /\ x.held \subseteq Days
      BY DEF Tasks
    <3>3. \A d \in Days : d \in x.held => daily[d] # NoRow
      BY <3>1 DEF Inv, TasksOK, LocksOK
    <3>4. \A v \in Others(w) : \A d \in Days : ~(d \in x.held /\ d \in task[v].held)
      BY <3>1 DEF Inv, TasksOK, Apart
    <3> QED BY <3>1, <3>2, <3>3, <3>4
  <2> QED BY <2>1, <2>2, <2>3, <2>4, <2>5 DEF TypeOK
<1> QED BY <1>1, Invariance, PTL

(* Two days later the row of a day is its total for good: whatever rollups  *)
(* overlapped, crashed or lost the race for a unique row, the rollup that   *)
(* covered the day left the right one and no later one can spoil it.        *)
THEOREM PastDaysFinal == Spec => []PastDaysComplete
<1>1. Inv => PastDaysComplete
  BY DEF Inv, SettledOK, Due, Settled, PastDaysComplete
<1> QED BY <1>1, Invariance, PTL

-----------------------------------------------------------------------------
(* f[i] is how many requests of S have the attribute i. *)
Counts(f, g, S, I) == \A i \in I : f[i] = Cardinality({r \in S : g[r] = i})

(* Requests counted by an attribute add up to all of them. *)
LEMMA CountedBy ==
    ASSUME NEW S \in SUBSET Requests, NEW I, IsFiniteSet(I), NEW g, \A r \in S : g[r] \in I,
           NEW f, Counts(f, g, S, I)
    PROVE  SumFunctionOnSet(f, I) = Cardinality(S)
<1>1. PICK A : A = [i \in I |-> {r \in S : g[r] = i}]
  OBVIOUS
<1>2. \A i \in I : A[i] = {r \in S : g[r] = i} /\ IsFiniteSet(A[i])
  <2> SUFFICES ASSUME NEW i \in I PROVE A[i] = {r \in S : g[r] = i} /\ IsFiniteSet(A[i])
    OBVIOUS
  <2>1. PICK T \in SUBSET Requests : T = {r \in S : g[r] = i}
    OBVIOUS
  <2> QED BY <1>1, <2>1, SomeRequests
<1>3. Sizes(f, A, I)
  BY <1>2 DEF Sizes, Counts
<1>4. Whole(A, I) = S
  BY <1>2 DEF Whole
<1> QED BY <1>3, <1>4, SumOfSizes

(* The classes of the breakdown: which codes each has, and that the fifth   *)
(* is that of errors.                                                       *)
InClass(s, c) == (c # 1 => s >= 100 * c) /\ (c # 5 => s <= 100 * c + 99)

LEMMA StatusClasses ==
    ASSUME NEW r \in Requests
    PROVE  /\ StatusClass(StatusOf[r]) \in 1..5
           /\ StatusClass(StatusOf[r]) = 5 <=> IsError(r)
           /\ \A c \in 1..5 : StatusClass(StatusOf[r]) = c <=> InClass(StatusOf[r], c)
<1>1. PICK s \in Nat : s = StatusOf[r]
  OBVIOUS
<1>2. StatusClass(s) \in 1..5
  BY DEF StatusClass
<1>3. StatusClass(s) = 5 <=> s >= 500
  BY DEF StatusClass
<1>4. ASSUME NEW c \in 1..5
      PROVE  StatusClass(s) = c <=> InClass(s, c)
  BY DEF StatusClass, InClass
<1> QED BY <1>1, <1>2, <1>3, <1>4 DEF IsError

(* The breakdown of some logs: its classes add up to the summary, the fifth  *)
(* holds the errors, and a search finds each.                               *)
LEMMA BreakdownAgrees ==
    ASSUME NEW rows \in SUBSET Requests
    PROVE  /\ SumFunctionOnSet(StatusBreakdown(rows), 1..5) = Summary(rows).requests
           /\ StatusBreakdown(rows)[5] = Summary(rows).errors
           /\ \A c \in 1..5 :
                 StatusBreakdown(rows)[c] = Search(rows, IF c = 1 THEN NoBound ELSE 100 * c,
                                                         IF c = 5 THEN NoBound ELSE 100 * c + 99)
<1>1. PICK S \in SUBSET Requests : S = rows
  OBVIOUS
<1>2. PICK g : g = [r \in Requests |-> StatusClass(StatusOf[r])]
  OBVIOUS
<1>3. PICK f : f = StatusBreakdown(rows)
  OBVIOUS
<1>4. \A c \in 1..5 : f[c] = Cardinality({r \in S : StatusClass(StatusOf[r]) = c})
  BY <1>1, <1>3 DEF StatusBreakdown
<1>5. SumFunctionOnSet(f, 1..5) = Cardinality(S)
  <2>1. IsFiniteSet(1..5)
    <3>1. PICK a \in Int, b \in Int : a = 1 /\ b = 5
      OBVIOUS
    <3>2. IsFiniteSet(a..b)
      BY FS_Interval
    <3> QED BY <3>1, <3>2
  <2>2. \A r \in S : g[r] \in 1..5
    BY <1>2, StatusClasses
  <2>3. Counts(f, g, S, 1..5)
    <3> SUFFICES ASSUME NEW c \in 1..5 PROVE f[c] = Cardinality({r \in S : g[r] = c})
      BY DEF Counts
    <3>1. {r \in S : g[r] = c} = {r \in S : StatusClass(StatusOf[r]) = c}
      BY <1>2
    <3> QED BY <1>4, <3>1
  <2> QED BY <2>1, <2>2, <2>3, CountedBy
<1>6. f[5] = Cardinality({r \in S : IsError(r)})
  <2>1. {r \in S : StatusClass(StatusOf[r]) = 5} = {r \in S : IsError(r)}
    BY StatusClasses
  <2>2. 5 \in 1..5
    OBVIOUS
  <2> QED BY <1>4, <2>1, <2>2
<1>7. ASSUME NEW c \in 1..5
      PROVE  f[c] = Search(rows, IF c = 1 THEN NoBound ELSE 100 * c,
                                 IF c = 5 THEN NoBound ELSE 100 * c + 99)
  <2>1. PICK least, most : /\ least = IF c = 1 THEN NoBound ELSE 100 * c
                           /\ most = IF c = 5 THEN NoBound ELSE 100 * c + 99
    OBVIOUS
  <2>2. \A s : /\ least # NoBound => s >= least
               /\ most # NoBound => s <= most
               <=> InClass(s, c)
    BY <2>1 DEF InClass, NoBound
  <2>3. \A r \in S : StatusClass(StatusOf[r]) = c
                        <=> /\ least # NoBound => StatusOf[r] >= least
                            /\ most # NoBound => StatusOf[r] <= most
    BY <2>2, StatusClasses
  <2>4. {r \in S : StatusClass(StatusOf[r]) = c}
          = {r \in S : /\ least # NoBound => StatusOf[r] >= least
                       /\ most # NoBound => StatusOf[r] <= most}
    BY <2>3
  <2> QED BY <1>1, <1>4, <2>1, <2>4 DEF Search
<1> QED BY <1>1, <1>3, <1>5, <1>6, <1>7 DEF Summary

(* The parts of a dashboard. *)
LEMMA DashboardParts ==
    ASSUME NEW days, NEW t, NEW limit, NEW report \in Dashboard(days, t, limit),
           NEW rows, rows = Scope(days, t)
    PROVE  /\ report.status = StatusBreakdown(rows)
           /\ report.summary.requests = Summary(rows).requests
           /\ report.summary.errors = Summary(rows).errors
           /\ report.keys \in TopKeys(days, limit)
<1>1. PICK top \in TopKeys(days, limit) :
        report = [summary |-> Headline(rows), status |-> StatusBreakdown(rows), keys |-> top]
  BY DEF Dashboard
<1> QED BY <1>1 DEF Headline

-----------------------------------------------------------------------------
(* The requests of a key that ended in a window. *)
EndedOf(k, days) == {r \in Logged : KeyOf[r] = k /\ req[r].ended >= SinceDate(days)}

(* The usage of a key in a window is what its logs of the window say, and   *)
(* nothing once it has gone.                                                *)
LEMMA KeyUsageCounts ==
    ASSUME Inv, NEW k \in Keys, NEW days \in Int,
           NEW S, S = IF Exists(k) THEN EndedOf(k, days) ELSE {}
    PROVE  KeyUsage(k, days) = [requests |-> Cardinality(S),
                                errors |-> Cardinality({r \in S : IsError(r)})]
<1>1. /\ \A r \in Requests : req[r].ended \in Days
      /\ day \in 1..MaxDay
  BY DEF Inv, Types, RequestRows
<1>2. PICK since \in Int : since = SinceDate(days)
  BY <1>1 DEF SinceDate
<1>3. S \in SUBSET Requests
  BY DEF EndedOf, Logged
<1>4. PICK E \in SUBSET Requests : E = {r \in S : IsError(r)}
  BY <1>3
<1>5. PICK g : g = [r \in Requests |-> req[r].ended]
  OBVIOUS
<1>6. PICK I \in SUBSET Days : I = {d \in Days : d >= since}
  OBVIOUS
<1>7. IsFiniteSet(I)
  <2>1. IsFiniteSet(Days)
    BY FS_Interval DEF Days
  <2> QED BY <2>1, FS_Subset
<1>8. \A r \in S : g[r] \in I
  BY <1>1, <1>2, <1>3, <1>5, <1>6 DEF EndedOf
<1>9. \A r \in E : g[r] \in I
  BY <1>4, <1>8
<1>10. PICK f : f = [d \in Days |-> usage[k][d].requests]
  OBVIOUS
<1>11. PICK e : e = [d \in Days |-> usage[k][d].errors]
  OBVIOUS
<1>12. ASSUME NEW d \in I
       PROVE  /\ f[d] = Cardinality({r \in S : g[r] = d})
              /\ e[d] = Cardinality({r \in E : g[r] = d})
  <2>1. {r \in E : g[r] = d} = {r \in {q \in S : g[q] = d} : IsError(r)}
    BY <1>4
  <2>2. CASE Exists(k)
    <3>1. {r \in S : g[r] = d} = UsedOn(k, d)
      BY <1>2, <1>5, <1>6, <2>2 DEF EndedOf, UsedOn, Logged
    <3>2. /\ usage[k][d].requests = Cardinality(UsedOn(k, d))
          /\ usage[k][d].errors = Cardinality({r \in UsedOn(k, d) : IsError(r)})
      BY <2>2 DEF Inv, UsageOK
    <3> QED BY <1>10, <1>11, <2>1, <3>1, <3>2
  <2>3. CASE ~Exists(k)
    <3>1. {r \in S : g[r] = d} = {} /\ {r \in E : g[r] = d} = {}
      BY <1>4, <2>3
    <3>2. usage[k] = NoUsage
      BY <2>3 DEF Inv, UsageOK
    <3>3. f[d] = 0 /\ e[d] = 0
      BY <1>10, <1>11, <3>2 DEF NoUsage
    <3> QED BY <3>1, <3>3, FS_EmptySet
  <2> QED BY <2>2, <2>3
<1>13. Counts(f, g, S, I) /\ Counts(e, g, E, I)
  BY <1>12 DEF Counts
<1>14. SumFunctionOnSet(f, I) = Cardinality(S)
  BY <1>3, <1>7, <1>8, <1>13, CountedBy
<1>15. SumFunctionOnSet(e, I) = Cardinality(E)
  BY <1>7, <1>9, <1>13, CountedBy
<1> QED BY <1>2, <1>4, <1>6, <1>10, <1>11, <1>14, <1>15 DEF KeyUsage

(* What a key of the API has in the summary, and all it has by its usage. *)
ScopeOf(k, rows) == {r \in rows : KeyOf[r] = k}

(* What ended in a window began in it or before it, and what began in it    *)
(* ended in it.                                                             *)
LEMMA WindowSplits ==
    ASSUME Inv, NEW k \in Keys, ApiOf[k] = Api, NEW days \in Int,
           NEW t, NEW rows, rows = Scope(days, t)
    PROVE  EndedOf(k, days) = ScopeOf(k, rows) \cup Early(k, days, rows)
<1>1. PICK since \in Int : since = SinceDate(days)
  BY DEF SinceDate, Inv, Types
<1>2. \A r \in Logged : /\ r \in Requests /\ req[r].created \in Days /\ req[r].ended \in Days
                        /\ req[r].created <= req[r].ended
                        /\ KeyOf[r] = k => r \in Logs
  BY DEF Inv, Types, RequestsOK, Logged, RequestRows, Logs, Ours
<1>3. Logs \subseteq Logged
  BY DEF Logs, Logged
<1>4. \A r \in rows : r \in Logs /\ req[r].created >= since
  <2>1. \A r \in Logs : req[r].created \in Int
    BY <1>2, <1>3 DEF Days
  <2> QED BY <1>1, <2>1 DEF Scope
<1>5. \A r \in rows : req[r].ended >= since
  BY <1>2, <1>3, <1>4 DEF Days
<1> QED BY <1>1, <1>2, <1>3, <1>4, <1>5 DEF EndedOf, ScopeOf, Early

(* A key the summary has seen has at least as much usage, if it is there. *)
LEMMA ActiveUsed ==
    ASSUME Inv, NEW days \in Int, NEW t, NEW rows, rows = Scope(days, t),
           NEW k \in ActiveKeys(rows), Exists(k)
    PROVE  /\ k \in Keys /\ KeyUsage(k, days).requests \in Nat
           /\ KeyUsage(k, days).requests > 0
           /\ Cardinality(ScopeOf(k, rows)) \in Nat
           /\ KeyUsage(k, days).requests >= Cardinality(ScopeOf(k, rows))
<1>1. PICK q \in rows : k = KeyOf[q]
  BY DEF ActiveKeys
<1>2. q \in Requests /\ ApiOf[k] = Api /\ k \in Keys
  BY <1>1 DEF Scope, Logs, Ours
<1>3. PICK S \in SUBSET Requests : S = EndedOf(k, days)
  BY DEF EndedOf, Logged
<1>4. PICK T \in SUBSET S : T = ScopeOf(k, rows)
  BY <1>2, <1>3, WindowSplits
<1>5. q \in T
  BY <1>1, <1>4 DEF ScopeOf
<1>6. KeyUsage(k, days).requests = Cardinality(S)
  <2>1. S = IF Exists(k) THEN EndedOf(k, days) ELSE {}
    BY <1>3
  <2>2. KeyUsage(k, days) = [requests |-> Cardinality(S),
                             errors |-> Cardinality({r \in S : IsError(r)})]
    BY <1>2, <2>1, KeyUsageCounts
  <2> QED BY <2>2
<1>7. IsFiniteSet(S) /\ Cardinality(S) \in Nat
  BY SomeRequests
<1>8. IsFiniteSet(T) /\ Cardinality(T) <= Cardinality(S)
  BY <1>7, FS_Subset
<1>9. Cardinality(T) \in Nat /\ Cardinality(T) # 0
  BY <1>5, <1>8, FS_CardinalityType, FS_EmptySet
<1> QED BY <1>2, <1>4, <1>6, <1>7, <1>8, <1>9

(* The reports agree, and differ only where their windows do, in every      *)
(* reachable state, however many keys, requests and APIs there are, whatever*)
(* is deleted and whatever codes the upstreams answer with.                 *)
THEOREM ReportsConsistent == Spec => []ReportsAgree
<1>1. ASSUME NEW days, NEW t, NEW limit, NEW report \in Dashboard(days, t, limit),
             NEW rows, rows = Scope(days, t)
      PROVE  StatusesAgree(rows, report)
  <2>1. rows \in SUBSET Requests
    BY <1>1 DEF Scope, Logs
  <2> QED BY <1>1, <2>1, DashboardParts, BreakdownAgrees DEF StatusesAgree
<1>2. ASSUME Inv, NEW days \in Windows, NEW t \in Times, NEW limit \in Limits,
             NEW report \in Dashboard(days, t, limit), NEW rows, rows = Scope(days, t)
      PROVE  KeysAgree(days, limit, rows, report)
  <2> SUFFICES /\ \A k \in Keys : ApiOf[k] = Api /\ Exists(k) =>
                     LET scope == ScopeOf(k, rows) \cup Early(k, days, rows)
                     IN  KeyUsage(k, days)
                           = [requests |-> Cardinality(scope),
                              errors |-> Cardinality({r \in scope : IsError(r)})]
               /\ \A k \in report.keys : Exists(k)
               /\ \A k \in ActiveKeys(rows) \ report.keys : Exists(k) =>
                     /\ Cardinality(report.keys) = limit
                     /\ \A j \in report.keys : KeyUsage(j, days).requests
                           >= Cardinality(ScopeOf(k, rows))
    BY DEF KeysAgree, ScopeOf
  <2>0. days \in Int /\ Inv /\ rows = Scope(days, t)
    BY <1>2
  <2>1. ASSUME NEW k \in Keys, ApiOf[k] = Api, Exists(k)
        PROVE  LET scope == ScopeOf(k, rows) \cup Early(k, days, rows)
               IN  KeyUsage(k, days) = [requests |-> Cardinality(scope),
                                        errors |-> Cardinality({r \in scope : IsError(r)})]
    <3>1. PICK S : S = EndedOf(k, days) /\ S = ScopeOf(k, rows) \cup Early(k, days, rows)
      BY <2>0, <2>1, WindowSplits
    <3>2. KeyUsage(k, days) = [requests |-> Cardinality(S),
                               errors |-> Cardinality({r \in S : IsError(r)})]
      BY <2>0, <2>1, <3>1, KeyUsageCounts
    <3> QED BY <3>1, <3>2
  <2>2. PICK top : top = report.keys /\ top \in TopKeys(days, limit)
    BY <1>2, DashboardParts
  <2>3. PICK used : used = {k \in Keys : KeyUsage(k, days).requests > 0}
    OBVIOUS
  <2>4. /\ top \subseteq used
        /\ Cardinality(top) = limit \/ (Cardinality(top) < limit /\ top = used)
        /\ \A k \in top, j \in used \ top :
              KeyUsage(k, days).requests >= KeyUsage(j, days).requests
    BY <2>2, <2>3 DEF TopKeys
  <2>5. ASSUME NEW k \in top PROVE k \in Keys /\ Exists(k) /\ KeyUsage(k, days).requests \in Nat
    <3>1. k \in Keys /\ KeyUsage(k, days).requests > 0
      BY <2>3, <2>4
    <3>2. PICK S \in SUBSET Requests : S = IF Exists(k) THEN EndedOf(k, days) ELSE {}
      BY DEF EndedOf, Logged
    <3>3. KeyUsage(k, days).requests = Cardinality(S)
      <4>1. KeyUsage(k, days) = [requests |-> Cardinality(S),
                                 errors |-> Cardinality({r \in S : IsError(r)})]
        BY <2>0, <3>1, <3>2, KeyUsageCounts
      <4> QED BY <4>1
    <3>4. ~Exists(k) => Cardinality(S) = 0
      BY <3>2, FS_EmptySet
    <3>5. Cardinality(S) \in Nat
      BY SomeRequests
    <3> QED BY <3>1, <3>3, <3>4, <3>5
  <2>6. ASSUME NEW k \in ActiveKeys(rows) \ top, Exists(k)
        PROVE  /\ Cardinality(top) = limit
               /\ \A j \in top : KeyUsage(j, days).requests >= Cardinality(ScopeOf(k, rows))
    <3>1. PICK n \in Nat, m \in Nat :
            /\ n = KeyUsage(k, days).requests /\ m = Cardinality(ScopeOf(k, rows))
            /\ n > 0 /\ n >= m /\ k \in Keys
      BY <2>0, <2>6, ActiveUsed
    <3>2. k \in used \ top
      BY <2>3, <2>6, <3>1
    <3>3. Cardinality(top) = limit
      BY <2>4, <3>2
    <3>4. \A j \in top : KeyUsage(j, days).requests >= n /\ KeyUsage(j, days).requests \in Nat
      BY <2>4, <2>5, <3>1, <3>2
    <3> QED BY <3>1, <3>3, <3>4
  <2> QED BY <2>1, <2>2, <2>5, <2>6
<1>3. Inv => ReportsAgree
  BY <1>1, <1>2 DEF ReportsAgree
<1> QED BY <1>3, Invariance, PTL
=============================================================================

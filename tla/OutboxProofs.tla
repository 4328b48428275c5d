---------------------------- MODULE OutboxProofs ----------------------------
(* What holds of Outbox for every set of events, any number of workers,     *)
(* every size and number of batches and any number of faults: the drain     *)
(* implements AtLeastOnce.  The inductive invariant says what a worker's    *)
(* transaction holds at each of its steps, and how often an event that no   *)
(* drain has stamped can have reached the sink.                             *)
EXTENDS Outbox, TLAPS

USE OutboxAssumption

(* What a worker has locked is pending; rows that are stamped are no longer *)
(* in the batch, and the sink has them.                                     *)
HeldPending ==
    \A w \in Workers :
        /\ \A e \in Locked(w) : row[e] = "pending"
        /\ \A e \in stamped[w] : e \notin batch[w] /\ delivered[e] >= 1

(* Where the transaction stands: it has a batch only while it delivers, and *)
(* between transactions nothing is left of the last one.                    *)
Stands ==
    \A w \in Workers :
        /\ pc[w] # "deliver" => batch[w] = {}
        /\ pc[w] = "idle" => stamped[w] = {} /\ batches[w] = 0
        /\ pc[w] = "deliver" => batches[w] < MaxBatches

(* The sink has an event that is neither published nor stamped only from    *)
(* transactions that were rolled back.                                      *)
Unstamped(e) == row[e] # "published" /\ \A w \in Workers : e \notin stamped[w]
CopiesUndone ==
    \A e \in Events :
        /\ delivered[e] <= 1 + undone[e]
        /\ Unstamped(e) => delivered[e] <= undone[e]

Inv == TypeOK /\ NoSharedRow /\ HeldPending /\ Stands /\ CopiesUndone

-----------------------------------------------------------------------------
(* The count of deliveries never exceeds its bound. *)
LEMMA MoreBounds ==
    ASSUME NEW n \in 0..MaxCopies
    PROVE  More(n) \in 0..MaxCopies /\ More(n) <= n + 1 /\ n <= More(n) /\ More(n) >= 1
  BY DEF More, MaxCopies

(* LIMIT takes rows of the query's result and no others. *)
LEMMA OldestSubset ==
    ASSUME NEW S
    PROVE  Oldest(S) \subseteq S
  BY DEF Oldest

(* Inv holds initially. *)
LEMMA InitInv == Init => Inv
<1> SUFFICES ASSUME Init PROVE Inv
  OBVIOUS
<1>1. TypeOK
  BY DEF Init, TypeOK, RowStates, Labels, MaxCopies
<1>2. NoSharedRow /\ HeldPending /\ Stands
  BY DEF Init, NoSharedRow, HeldPending, Stands, Locked
<1>3. CopiesUndone
  BY DEF Init, CopiesUndone
<1> QED
  BY <1>1, <1>2, <1>3 DEF Inv

(* Inv is preserved by the start of a business transaction. *)
LEMMA BeginInv ==
    ASSUME Inv, NEW e \in Events, Begin(e)
    PROVE  Inv'
<1> USE DEF Inv, Begin, workerVars, ghostVars
<1>1. TypeOK'
  BY DEF TypeOK, RowStates
<1>2. NoSharedRow' /\ Stands'
  BY DEF NoSharedRow, Stands, Locked
<1>3. HeldPending'
  BY DEF TypeOK, HeldPending, Locked
<1>4. CopiesUndone'
  BY DEF TypeOK, CopiesUndone, Unstamped
<1> QED
  BY <1>1, <1>2, <1>3, <1>4 DEF Inv

(* Inv is preserved by its end. *)
LEMMA EndInv ==
    ASSUME Inv, NEW e \in Events, End(e)
    PROVE  Inv'
<1> USE DEF Inv, End, workerVars, ghostVars
<1>0. PICK s \in {"pending", "discarded"} : row' = [row EXCEPT ![e] = s]
  OBVIOUS
<1>1. TypeOK'
  BY <1>0 DEF TypeOK, RowStates
<1>2. NoSharedRow' /\ Stands'
  BY DEF NoSharedRow, Stands, Locked
<1>3. HeldPending'
  BY <1>0 DEF TypeOK, HeldPending, Locked
<1>4. CopiesUndone'
  BY <1>0 DEF TypeOK, CopiesUndone, Unstamped
<1> QED
  BY <1>1, <1>2, <1>3, <1>4 DEF Inv

(* Inv is preserved by the start of a task. *)
LEMMA StartInv ==
    ASSUME Inv, NEW w \in Workers, Start(w)
    PROVE  Inv'
<1> USE DEF Inv, Start, writeVars, ghostVars
<1>1. TypeOK'
  BY DEF TypeOK, Labels
<1>2. NoSharedRow' /\ HeldPending'
  BY DEF NoSharedRow, HeldPending, Locked
<1>3. Stands'
  BY DEF TypeOK, Stands
<1>4. CopiesUndone'
  BY DEF CopiesUndone, Unstamped
<1> QED
  BY <1>1, <1>2, <1>3, <1>4 DEF Inv

(* Inv is preserved by the query: the rows it locks were in no other hands. *)
LEMMA SelectInv ==
    ASSUME Inv, NEW w \in Workers, Select(w)
    PROVE  Inv'
<1> USE DEF Inv, writeVars, ghostVars
<1>1. CopiesUndone'
  BY DEF Select, CopiesUndone, Unstamped
<1>2. CASE batches[w] < MaxBatches /\ Available(w) # {}
  <2> DEFINE S == Oldest(Available(w))
  <2>1. /\ S \subseteq Available(w)
        /\ batch' = [batch EXCEPT ![w] = S]
        /\ pc' = [pc EXCEPT ![w] = "deliver"]
        /\ UNCHANGED <<row, createdAt, starts, attempts, stamped, batches, delivered, failed,
                       undone, faults>>
    BY <1>2, OldestSubset DEF Select
  <2> HIDE DEF S
  <2>2. TypeOK'
    BY <2>1 DEF TypeOK, Labels, Available
  <2>3. NoSharedRow'
    BY <2>1 DEF TypeOK, NoSharedRow, Locked, Available
  <2>4. HeldPending'
    BY <2>1 DEF TypeOK, HeldPending, Locked, Available
  <2>5. Stands'
    BY <2>1, <1>2 DEF Select, TypeOK, Stands
  <2> QED
    BY <1>1, <2>2, <2>3, <2>4, <2>5 DEF Inv
<1>3. CASE ~(batches[w] < MaxBatches /\ Available(w) # {})
  <2>1. TypeOK'
    BY <1>3 DEF Select, TypeOK, Labels
  <2>2. NoSharedRow' /\ HeldPending'
    BY <1>3 DEF Select, NoSharedRow, HeldPending, Locked
  <2>3. Stands'
    BY <1>3 DEF Select, TypeOK, Stands
  <2> QED
    BY <1>1, <2>1, <2>2, <2>3 DEF Inv
<1> QED
  BY <1>2, <1>3

(* Inv is preserved by a delivery that the sink takes. *)
LEMMA DeliverInv ==
    ASSUME Inv, NEW w \in Workers, Deliver(w)
    PROVE  Inv'
<1> USE DEF Inv, Deliver, Received, writeVars
<1>1. TypeOK'
  <2>1. delivered' \in [Events -> 0..MaxCopies]
    BY MoreBounds DEF TypeOK
  <2>2. batches' \in [Workers -> 0..MaxBatches]
    BY DEF TypeOK, Stands
  <2> QED
    BY <2>1, <2>2 DEF TypeOK, Labels
<1>2. \A v \in Workers : Locked(v)' = Locked(v)
  BY DEF TypeOK, Locked
<1>3. NoSharedRow'
  BY <1>2 DEF NoSharedRow
<1>4. HeldPending'
  <2> SUFFICES ASSUME NEW v \in Workers
               PROVE  /\ \A e \in Locked(v)' : row'[e] = "pending"
                      /\ \A e \in stamped'[v] : e \notin batch'[v] /\ delivered'[e] >= 1
    BY DEF HeldPending
  <2>1. \A e \in Locked(v)' : row'[e] = "pending"
    BY <1>2 DEF HeldPending
  <2>2. \A e \in stamped'[v] : e \in Events /\ e \notin batch'[v]
    BY DEF TypeOK, HeldPending
  <2>3. \A e \in stamped'[v] : delivered'[e] >= 1
    <3> SUFFICES ASSUME NEW e \in stamped'[v] PROVE delivered'[e] >= 1
      OBVIOUS
    <3>1. e \in Events /\ delivered[e] \in 0..MaxCopies
      BY <2>2 DEF TypeOK
    <3>2. e \in batch[w] \/ delivered[e] >= 1
      BY DEF TypeOK, HeldPending
    <3> QED BY <3>1, <3>2, MoreBounds
  <2> QED BY <2>1, <2>2, <2>3
<1>5. Stands'
  BY DEF TypeOK, Stands
<1>6. CopiesUndone'
  <2> SUFFICES ASSUME NEW e \in Events
               PROVE  /\ delivered'[e] <= 1 + undone'[e]
                      /\ Unstamped(e)' => delivered'[e] <= undone'[e]
    BY DEF CopiesUndone
  <2>0. delivered[e] \in 0..MaxCopies /\ undone[e] \in Nat
    BY DEF TypeOK
  <2>1. CASE e \in batch[w]
    <3>1. Unstamped(e)
      <4>1. row[e] # "published"
        BY <2>1 DEF HeldPending, Locked
      <4>2. \A v \in Workers : e \notin stamped[v]
        BY <2>1 DEF HeldPending, NoSharedRow, Locked
      <4> QED BY <4>1, <4>2 DEF Unstamped
    <3>2. delivered[e] <= undone[e]
      BY <3>1 DEF CopiesUndone
    <3>3. ~Unstamped(e)'
      BY <2>1 DEF TypeOK, Unstamped
    <3> QED BY <3>2, <3>3, <2>0, <2>1, MoreBounds
  <2>2. CASE e \notin batch[w]
    BY <2>2 DEF TypeOK, CopiesUndone, Unstamped
  <2> QED BY <2>1, <2>2
<1> QED
  BY <1>1, <1>3, <1>4, <1>5, <1>6 DEF Inv

(* A rollback leaves nothing of worker w's transaction.                     *)
LEMMA RollbackHeld ==
    ASSUME Inv, NEW w \in Workers, Rollback(w), UNCHANGED row,
           \A e \in Events : delivered'[e] >= delivered[e] /\ delivered'[e] \in Nat
    PROVE  NoSharedRow' /\ HeldPending' /\ Stands'
<1> USE DEF Inv, Rollback
<1>1. \A v \in Workers : Locked(v)' = IF v = w THEN {} ELSE Locked(v)
  BY DEF TypeOK, Locked
<1>2. NoSharedRow'
  BY <1>1 DEF NoSharedRow
<1>3. HeldPending'
  <2> SUFFICES ASSUME NEW v \in Workers
               PROVE  /\ \A e \in Locked(v)' : row'[e] = "pending"
                      /\ \A e \in stamped'[v] : e \notin batch'[v] /\ delivered'[e] >= 1
    BY DEF HeldPending
  <2>1. \A e \in Locked(v)' : row'[e] = "pending"
    BY <1>1 DEF HeldPending
  <2>2. \A e \in stamped'[v] : e \notin batch'[v]
    BY DEF TypeOK, HeldPending
  <2>3. \A e \in stamped'[v] : delivered'[e] >= 1
    <3> SUFFICES ASSUME NEW e \in stamped'[v] PROVE delivered'[e] >= 1
      OBVIOUS
    <3>1. e \in stamped[v] /\ e \in Events
      BY DEF TypeOK
    <3>2. delivered[e] >= 1 /\ delivered[e] \in Nat
      BY <3>1 DEF HeldPending, TypeOK, MaxCopies
    <3> QED BY <3>1, <3>2
  <2> QED BY <2>1, <2>2, <2>3
<1>4. Stands'
  BY DEF TypeOK, Stands
<1> QED
  BY <1>2, <1>3, <1>4

(* Inv is preserved by a delivery that raises, whether or not the sink has  *)
(* the batch.                                                               *)
LEMMA DeliverFailsInv ==
    ASSUME Inv, NEW w \in Workers, DeliverFails(w)
    PROVE  Inv'
<1> USE DEF Inv, DeliverFails, writeVars
<1>0. PICK reached \in BOOLEAN : Received(IF reached THEN batch[w] ELSE {})
  OBVIOUS
<1>1. \A e \in Events :
         /\ delivered[e] \in 0..MaxCopies /\ undone[e] \in Nat
         /\ delivered'[e] \in 0..MaxCopies /\ delivered'[e] >= delivered[e]
         /\ delivered'[e] <= delivered[e] + (IF e \in batch[w] THEN 1 ELSE 0)
  BY <1>0, MoreBounds DEF Received, TypeOK
<1>2. TypeOK'
  <2>1. delivered' \in [Events -> 0..MaxCopies]
    BY <1>0, <1>1 DEF Received
  <2>2. failed' \in [Events -> Nat] /\ undone' \in [Events -> Nat] /\ faults' \in 0..MaxFaults
    BY DEF TypeOK, Rollback
  <2> QED
    BY <2>1, <2>2 DEF TypeOK, Rollback, Labels
<1>3. NoSharedRow' /\ HeldPending' /\ Stands'
  BY <1>1, RollbackHeld DEF MaxCopies
<1>4. CopiesUndone'
  <2> SUFFICES ASSUME NEW e \in Events
               PROVE  /\ delivered'[e] <= 1 + undone'[e]
                      /\ Unstamped(e)' => delivered'[e] <= undone'[e]
    BY DEF CopiesUndone
  <2>1. undone'[e] = undone[e] + (IF e \in Locked(w) THEN 1 ELSE 0)
    BY DEF Rollback
  <2>2. delivered[e] <= 1 + undone[e] /\ (Unstamped(e) => delivered[e] <= undone[e])
    BY DEF CopiesUndone
  <2>3. CASE e \in batch[w]
    <3>1. e \in Locked(w) BY <2>3 DEF Locked
    <3>2. Unstamped(e)
      <4>1. row[e] # "published"
        BY <3>1 DEF HeldPending
      <4>2. \A v \in Workers : e \notin stamped[v]
        BY <2>3, <3>1 DEF HeldPending, NoSharedRow, Locked
      <4> QED BY <4>1, <4>2 DEF Unstamped
    <3> QED BY <3>1, <3>2, <2>1, <2>2, <1>1
  <2>4. CASE e \notin batch[w] /\ e \in stamped[w]
    <3>1. e \in Locked(w) BY <2>4 DEF Locked
    <3> QED BY <3>1, <2>1, <2>2, <2>4, <1>1
  <2>5. CASE e \notin batch[w] /\ e \notin stamped[w]
    <3>1. Unstamped(e)' => Unstamped(e)
      BY <2>5 DEF TypeOK, Rollback, Unstamped
    <3> QED BY <3>1, <2>1, <2>2, <2>5, <1>1
  <2> QED BY <2>3, <2>4, <2>5
<1> QED
  BY <1>2, <1>3, <1>4 DEF Inv

(* Inv is preserved by the death of a worker. *)
LEMMA CrashInv ==
    ASSUME Inv, NEW w \in Workers, Crash(w)
    PROVE  Inv'
<1> USE DEF Inv, Crash, writeVars
<1>1. TypeOK'
  <2>1. undone' \in [Events -> Nat] /\ faults' \in 0..MaxFaults
    BY DEF TypeOK, Rollback
  <2> QED
    BY <2>1 DEF TypeOK, Rollback, Labels
<1>2. \A e \in Events : delivered[e] \in Nat /\ undone[e] \in Nat
  BY DEF TypeOK, MaxCopies
<1>3. NoSharedRow' /\ HeldPending' /\ Stands'
  BY <1>2, RollbackHeld
<1>4. CopiesUndone'
  <2> SUFFICES ASSUME NEW e \in Events
               PROVE  /\ delivered'[e] <= 1 + undone'[e]
                      /\ Unstamped(e)' => delivered'[e] <= undone'[e]
    BY DEF CopiesUndone
  <2>1. undone'[e] = undone[e] + (IF e \in Locked(w) THEN 1 ELSE 0)
    BY DEF Rollback
  <2>2. delivered[e] <= 1 + undone[e] /\ (Unstamped(e) => delivered[e] <= undone[e])
    BY DEF CopiesUndone
  <2>3. CASE e \in Locked(w)
    BY <2>1, <2>2, <2>3, <1>2
  <2>4. CASE e \notin Locked(w)
    <3>1. Unstamped(e)' => Unstamped(e)
      BY <2>4 DEF TypeOK, Rollback, Unstamped, Locked
    <3> QED BY <3>1, <2>1, <2>2, <2>4, <1>2
  <2> QED BY <2>3, <2>4
<1> QED
  BY <1>1, <1>3, <1>4 DEF Inv

(* Inv is preserved by the commit of a drain. *)
LEMMA CommitInv ==
    ASSUME Inv, NEW w \in Workers, Commit(w)
    PROVE  Inv'
<1> USE DEF Inv, Commit, ghostVars
<1>1. TypeOK'
  <2>1. row' \in [Events -> RowStates]
    BY DEF TypeOK, RowStates
  <2>2. attempts' \in [Events -> Nat]
    BY DEF TypeOK
  <2> QED
    BY <2>1, <2>2 DEF TypeOK, Labels
<1>2. \A v \in Workers : Locked(v)' = IF v = w THEN {} ELSE Locked(v)
  BY DEF TypeOK, Locked, Stands
<1>3. NoSharedRow'
  BY <1>2 DEF NoSharedRow
<1>4. HeldPending'
  <2> SUFFICES ASSUME NEW v \in Workers
               PROVE  /\ \A e \in Locked(v)' : row'[e] = "pending"
                      /\ \A e \in stamped'[v] : e \notin batch'[v] /\ delivered'[e] >= 1
    BY DEF HeldPending
  <2>1. \A e \in Locked(v)' : row'[e] = "pending"
    <3> SUFFICES ASSUME NEW e \in Locked(v)' PROVE row'[e] = "pending"
      OBVIOUS
    <3>1. v # w /\ e \in Locked(v)
      BY <1>2
    <3>2. e \in Events /\ e \notin stamped[w] /\ row[e] = "pending"
      BY <3>1 DEF TypeOK, Locked, NoSharedRow, HeldPending
    <3> QED BY <3>2
  <2>2. \A e \in stamped'[v] : e \notin batch'[v] /\ delivered'[e] >= 1
    BY DEF TypeOK, HeldPending
  <2> QED BY <2>1, <2>2
<1>5. Stands'
  BY DEF TypeOK, Stands
<1>6. CopiesUndone'
  BY DEF TypeOK, CopiesUndone, Unstamped
<1> QED
  BY <1>1, <1>3, <1>4, <1>5, <1>6 DEF Inv

(* The invariant survives every step. *)
LEMMA NextInv == Inv /\ [Next]_vars => Inv'
<1> SUFFICES ASSUME Inv, [Next]_vars PROVE Inv'
  OBVIOUS
<1>1. ASSUME NEW e \in Events, Begin(e) \/ End(e) PROVE Inv'
  BY <1>1, BeginInv, EndInv
<1>2. ASSUME NEW w \in Workers, Run(w) PROVE Inv'
  BY <1>2, StartInv, SelectInv, DeliverInv, CommitInv DEF Run
<1>3. ASSUME NEW w \in Workers, DeliverFails(w) \/ Crash(w) PROVE Inv'
  BY <1>3, DeliverFailsInv, CrashInv
<1>4. CASE UNCHANGED vars
  BY <1>4 DEF vars, writeVars, workerVars, ghostVars, Inv, TypeOK, NoSharedRow,
     HeldPending, Stands, CopiesUndone, Unstamped, Locked
<1> QED
  BY <1>1, <1>2, <1>3, <1>4 DEF Next

(* The inductive invariant holds in every reachable state. *)
LEMMA Invariance == Spec => []Inv
  BY InitInv, NextInv, PTL DEF Spec

-----------------------------------------------------------------------------
(* The rows and the state of every worker always have their types. *)
THEOREM OutboxTypes == Spec => []TypeOK
<1>1. Inv => TypeOK
  BY DEF Inv
<1> QED
  BY Invariance, <1>1, PTL

(* FOR UPDATE SKIP LOCKED keeps the drains of any number of workers apart.  *)
THEOREM DrainsDisjoint == Spec => []NoSharedRow
<1>1. Inv => NoSharedRow
  BY DEF Inv
<1> QED
  BY Invariance, <1>1, PTL

(* The sink receives an event once more than its drains were rolled back,   *)
(* at most, however many workers and batches there are.                     *)
THEOREM RedeliveryBounded == Spec => []RedeliveryOnlyAfterRollback
<1>1. Inv => RedeliveryOnlyAfterRollback
  BY DEF Inv, CopiesUndone, RedeliveryOnlyAfterRollback
<1> QED
  BY Invariance, <1>1, PTL
-----------------------------------------------------------------------------
(* The refinement of AtLeastOnce.  An event is queued while its row is      *)
(* pending and settled once it is published.                                *)
StateOf(e) ==
    CASE row[e] = "pending" -> "queued"
      [] row[e] = "published" -> "settled"
      [] OTHER -> "absent"
States == [e \in Events |-> StateOf(e)]

(* A step that leaves the rows and the sink alone is a stutter. *)
LEMMA ContractStutter ==
    ASSUME UNCHANGED <<row, delivered>>
    PROVE  UNCHANGED Contract!vars
  BY DEF Contract!vars

(* The business write that commits is Accept; one that starts or rolls back *)
(* is a stutter.                                                            *)
LEMMA EndAccepts ==
    ASSUME Inv, NEW e \in Events, Begin(e) \/ End(e)
    PROVE  [Contract!Next]_Contract!vars
<1> USE DEF Inv, TypeOK, ghostVars
<1>1. UNCHANGED delivered
  BY DEF Begin, End
<1>2. PICK s \in {"open", "pending", "discarded"} : row' = [row EXCEPT ![e] = s]
  BY DEF Begin, End
<1>3. row[e] \in {"none", "open"}
  BY DEF Begin, End
<1>4. CASE s = "pending"
  <2>1. States[e] = "absent" /\ States' = [States EXCEPT ![e] = "queued"]
    BY <1>2, <1>3, <1>4 DEF States, StateOf
  <2>2. Contract!Accept(e)
    BY <2>1, <1>1 DEF Contract!Accept, States, StateOf
  <2> QED BY <2>2 DEF Contract!Next
<1>5. CASE s # "pending"
  <2>1. States' = States
    BY <1>2, <1>3, <1>5 DEF States, StateOf
  <2> QED BY <2>1, <1>1 DEF Contract!vars, States, StateOf
<1> QED BY <1>4, <1>5

(* The sink is handed rows that are pending: Hand. *)
LEMMA DeliveryHands ==
    ASSUME Inv, NEW w \in Workers, NEW S \in {batch[w], {}}, Received(S), UNCHANGED row
    PROVE  [Contract!Next]_Contract!vars
<1>1. S \in SUBSET Events /\ \A e \in S : row[e] = "pending"
  BY DEF Inv, TypeOK, HeldPending, Locked
<1>2. \A e \in S : States[e] = "queued"
  BY <1>1 DEF States, StateOf
<1>3. States' = States
  BY DEF States, StateOf
<1>4. Contract!Hand(S)
  BY <1>1, <1>2, <1>3 DEF Contract!Hand, Contract!More, More, Received, States, StateOf
<1> QED BY <1>1, <1>4 DEF Contract!Next

(* The commit of a drain settles what it has stamped, which the sink has:   *)
(* Settle.                                                                  *)
LEMMA CommitSettles ==
    ASSUME Inv, NEW w \in Workers, Commit(w)
    PROVE  [Contract!Next]_Contract!vars
<1>0. PICK S : S = stamped[w]
  OBVIOUS
<1>1. S \in SUBSET Events /\ \A e \in S : row[e] = "pending" /\ delivered[e] >= 1
  BY <1>0 DEF Inv, TypeOK, HeldPending, Locked
<1>2. \A e \in S : States[e] = "queued" /\ delivered[e] > 0
  <2> SUFFICES ASSUME NEW e \in S PROVE States[e] = "queued" /\ delivered[e] > 0
    OBVIOUS
  <2>1. delivered[e] \in 0..MaxCopies
    BY <1>1 DEF Inv, TypeOK
  <2> QED BY <1>1, <2>1 DEF States, StateOf, MaxCopies
<1>3. States' = [e \in Events |-> IF e \in S THEN "settled" ELSE States[e]]
  BY <1>0, <1>1 DEF Commit, States, StateOf
<1>4. UNCHANGED delivered
  BY DEF Commit, ghostVars
<1>5. Contract!Settle(S)
  BY <1>1, <1>2, <1>3, <1>4 DEF Contract!Settle, States, StateOf
<1> QED BY <1>1, <1>5 DEF Contract!Next

(* Every step of the outbox is a step of AtLeastOnce, or changes nothing    *)
(* that its consumers see.                                                  *)
LEMMA StepRefines ==
    ASSUME Inv, [Next]_vars
    PROVE  [Contract!Next]_Contract!vars
<1>1. ASSUME NEW e \in Events, Begin(e) \/ End(e) PROVE [Contract!Next]_Contract!vars
  BY <1>1, EndAccepts
<1>2. ASSUME NEW w \in Workers, Start(w) \/ Select(w) \/ Crash(w)
      PROVE  [Contract!Next]_Contract!vars
  BY <1>2, ContractStutter DEF Start, Select, Crash, writeVars, ghostVars
<1>3. ASSUME NEW w \in Workers, Deliver(w) PROVE [Contract!Next]_Contract!vars
  BY <1>3, DeliveryHands DEF Deliver, writeVars
<1>4. ASSUME NEW w \in Workers, DeliverFails(w) PROVE [Contract!Next]_Contract!vars
  <2>0. PICK reached \in BOOLEAN : Received(IF reached THEN batch[w] ELSE {})
    BY <1>4 DEF DeliverFails
  <2>1. PICK S \in {batch[w], {}} : Received(S)
    BY <2>0
  <2> QED BY <1>4, <2>1, DeliveryHands DEF DeliverFails, writeVars
<1>5. ASSUME NEW w \in Workers, Commit(w) PROVE [Contract!Next]_Contract!vars
  BY <1>5, CommitSettles
<1>6. CASE UNCHANGED vars
  BY <1>6, ContractStutter DEF vars, writeVars, ghostVars
<1> QED
  BY <1>1, <1>2, <1>3, <1>4, <1>5, <1>6 DEF Next, Run

(* The drain implements at-least-once delivery: an event that was committed *)
(* is never lost, reaches the sink before it is stamped for good, and       *)
(* nothing else ever reaches it.                                            *)
THEOREM OutboxImplementsContract == Spec => ImplementsContract
<1>1. Init => Contract!Init
  BY DEF Init, Contract!Init
<1>2. Inv /\ [Next]_vars => [Contract!Next]_Contract!vars
  BY StepRefines
<1> QED
  BY Invariance, <1>1, <1>2, PTL DEF Spec, ImplementsContract, Contract!Spec
=============================================================================

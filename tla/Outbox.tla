------------------------------- MODULE Outbox -------------------------------
(* The transactional outbox: emit adds an event to the transaction of the   *)
(* business write; Celery workers drain the pending rows.  A drain is one   *)
(* transaction of up to MaxBatches batches (workers/tasks.py), each locked  *)
(* with FOR UPDATE SKIP LOCKED, handed to the sink, and stamped             *)
(* (services/telemetry/publisher.py).  Any exception, and any crash, rolls  *)
(* the whole transaction back (db/session.py).                              *)
EXTENDS Integers, FiniteSets

CONSTANTS
    Events,
    Workers,     \* Celery worker processes
    BatchSize,   \* rows of one drain_outbox call
    MaxBatches,  \* drain_outbox calls of one task
    MaxFaults    \* bound: failed deliveries and crashes

ASSUME OutboxAssumption ==
    /\ IsFiniteSet(Events)
    /\ BatchSize \in Nat \ {0}
    /\ MaxBatches \in Nat \ {0}
    /\ MaxFaults \in Nat

VARIABLES
    row,       \* row[e]: the committed state of e's row, or of the write that emits it
    createdAt, \* createdAt[e]: now() of that write's transaction
    starts,    \* transactions started: the clock of createdAt
    attempts,  \* attempts[e]: the committed column
    pc,        \* pc[w]: where worker w's task is
    batch,     \* batch[w]: rows selected by the current drain_outbox call
    stamped,   \* stamped[w]: rows stamped, not committed, by this transaction
    batches,   \* batches[w]: drain_outbox calls made by this task
    \* What only the properties read:
    delivered, \* delivered[e]: how often the sink has received e
    failed,    \* failed[e]: how often a delivery of e has raised
    undone,    \* undone[e]: transactions rolled back that had e locked
    faults     \* failed deliveries and crashes so far

writeVars == <<row, createdAt, starts>>
workerVars == <<pc, batch, stamped, batches>>
ghostVars == <<delivered, failed, undone, faults>>
vars == <<writeVars, attempts, workerVars, ghostVars>>

RowStates == {"none", "open", "discarded", "pending", "published"}
Labels == {"idle", "select", "deliver", "commit"}

(* Deliveries are counted up to this number. *)
MaxCopies == MaxFaults + 2
More(n) == IF n < MaxCopies THEN n + 1 ELSE n

Init ==
    /\ row = [e \in Events |-> "none"]
    /\ createdAt = [e \in Events |-> 0]
    /\ starts = 0
    /\ attempts = [e \in Events |-> 0]
    /\ pc = [w \in Workers |-> "idle"]
    /\ batch = [w \in Workers |-> {}]
    /\ stamped = [w \in Workers |-> {}]
    /\ batches = [w \in Workers |-> 0]
    /\ delivered = [e \in Events |-> 0]
    /\ failed = [e \in Events |-> 0]
    /\ undone = [e \in Events |-> 0]
    /\ faults = 0

-----------------------------------------------------------------------------
(* The business transaction that emits e.  created_at is the time it        *)
(* starts, so rows need not become visible in the order of created_at.      *)

Begin(e) ==
    /\ row[e] = "none"
    /\ row' = [row EXCEPT ![e] = "open"]
    /\ createdAt' = [createdAt EXCEPT ![e] = starts]
    /\ starts' = starts + 1
    /\ UNCHANGED <<attempts, workerVars, ghostVars>>

(* It commits, and the event with it, or it rolls back, and so does the     *)
(* event.                                                                   *)
End(e) ==
    /\ row[e] = "open"
    /\ \E s \in {"pending", "discarded"} : row' = [row EXCEPT ![e] = s]
    /\ UNCHANGED <<createdAt, starts, attempts, workerVars, ghostVars>>

-----------------------------------------------------------------------------
(* The drain. *)

(* Rows that worker w's transaction has locked. *)
Locked(w) == batch[w] \cup stamped[w]

(* Faulty variant: no SKIP LOCKED and no lock. *)
AvailableUnlocked(w) == {e \in Events : row[e] = "pending" /\ e \notin stamped[w]}

(* Faulty variant: the stamps are not flushed (the session has autoflush    *)
(* off), so that the next query still sees the rows as pending.             *)
AvailableUnflushed(w) ==
    {e \in Events : row[e] = "pending" /\ \A v \in Workers \ {w} : e \notin Locked(v)}

(* published_at IS NULL, as this transaction sees it, and not locked by     *)
(* another.                                                                 *)
Available(w) ==
    {e \in Events : /\ row[e] = "pending" /\ e \notin stamped[w]
                    /\ \A v \in Workers \ {w} : e \notin Locked(v)}

(* Faulty variant: LIMIT is off by one. *)
OldestLess(S) ==
    {e \in S : Cardinality({f \in S : createdAt[f] < createdAt[e]}) < BatchSize - 1}

(* ORDER BY created_at LIMIT batch_size *)
Oldest(S) ==
    {e \in S : Cardinality({f \in S : createdAt[f] < createdAt[e]}) < BatchSize}

Start(w) ==
    /\ pc[w] = "idle"
    /\ pc' = [pc EXCEPT ![w] = "select"]
    /\ UNCHANGED <<writeVars, attempts, batch, stamped, batches, ghostVars>>

(* Faulty variant: the task has no bound on its calls. *)
SelectEndless(w) ==
    /\ pc[w] = "select"
    /\ IF Available(w) # {}
       THEN /\ batch' = [batch EXCEPT ![w] = Oldest(Available(w))]
            /\ pc' = [pc EXCEPT ![w] = "deliver"]
       ELSE /\ pc' = [pc EXCEPT ![w] = "commit"]
            /\ UNCHANGED batch
    /\ UNCHANGED <<writeVars, attempts, stamped, batches, ghostVars>>

(* drain_outbox selects and locks; with no row, or after range(50), the     *)
(* task is done.                                                            *)
Select(w) ==
    /\ pc[w] = "select"
    /\ IF batches[w] < MaxBatches /\ Available(w) # {}
       THEN /\ batch' = [batch EXCEPT ![w] = Oldest(Available(w))]
            /\ pc' = [pc EXCEPT ![w] = "deliver"]
       ELSE /\ pc' = [pc EXCEPT ![w] = "commit"]
            /\ UNCHANGED batch
    /\ UNCHANGED <<writeVars, attempts, stamped, batches, ghostVars>>

Received(S) == delivered' = [e \in Events |-> IF e \in S THEN More(delivered[e]) ELSE delivered[e]]

(* The sink takes the batch; published_at and attempts are set and flushed. *)
Deliver(w) ==
    /\ pc[w] = "deliver"
    /\ Received(batch[w])
    /\ stamped' = [stamped EXCEPT ![w] = @ \cup batch[w]]
    /\ batch' = [batch EXCEPT ![w] = {}]
    /\ batches' = [batches EXCEPT ![w] = @ + 1]
    /\ pc' = [pc EXCEPT ![w] = "select"]
    /\ UNCHANGED <<writeVars, attempts, failed, undone, faults>>

(* The transaction is rolled back: nothing it wrote remains. *)
Rollback(w) ==
    /\ pc' = [pc EXCEPT ![w] = "idle"]
    /\ batch' = [batch EXCEPT ![w] = {}]
    /\ stamped' = [stamped EXCEPT ![w] = {}]
    /\ batches' = [batches EXCEPT ![w] = 0]
    /\ undone' = [e \in Events |-> undone[e] + (IF e \in Locked(w) THEN 1 ELSE 0)]
    /\ UNCHANGED attempts

(* deliver raises, and the sink may or may not have taken the batch.  The   *)
(* handler bumps attempts and raises on, out of session_scope, which rolls  *)
(* the bump back too.                                                       *)
DeliverFails(w) ==
    /\ pc[w] = "deliver"
    /\ faults < MaxFaults
    /\ \E reached \in BOOLEAN : Received(IF reached THEN batch[w] ELSE {})
    /\ failed' = [e \in Events |-> failed[e] + (IF e \in batch[w] THEN 1 ELSE 0)]
    /\ faults' = faults + 1
    /\ Rollback(w)
    /\ UNCHANGED writeVars

(* The worker dies; Postgres rolls its transaction back.  task_acks_late    *)
(* and the beat schedule run the task again.                                *)
Crash(w) ==
    /\ pc[w] # "idle"
    /\ faults < MaxFaults
    /\ faults' = faults + 1
    /\ Rollback(w)
    /\ UNCHANGED <<writeVars, delivered, failed>>

(* Faulty variant: the commit also stamps rows of other transactions. *)
CommitAll(w) ==
    /\ pc[w] = "commit"
    /\ row' = [e \in Events |-> IF row[e] = "pending" THEN "published" ELSE row[e]]
    /\ attempts' = attempts
    /\ pc' = [pc EXCEPT ![w] = "idle"]
    /\ stamped' = [stamped EXCEPT ![w] = {}]
    /\ batches' = [batches EXCEPT ![w] = 0]
    /\ UNCHANGED <<createdAt, starts, batch, ghostVars>>

(* session_scope commits. *)
Commit(w) ==
    /\ pc[w] = "commit"
    /\ row' = [e \in Events |-> IF e \in stamped[w] THEN "published" ELSE row[e]]
    /\ attempts' = [e \in Events |-> attempts[e] + (IF e \in stamped[w] THEN 1 ELSE 0)]
    /\ pc' = [pc EXCEPT ![w] = "idle"]
    /\ stamped' = [stamped EXCEPT ![w] = {}]
    /\ batches' = [batches EXCEPT ![w] = 0]
    /\ UNCHANGED <<createdAt, starts, batch, ghostVars>>

Run(w) == Start(w) \/ Select(w) \/ Deliver(w) \/ Commit(w)

Next ==
    \/ \E e \in Events : Begin(e) \/ End(e)
    \/ \E w \in Workers : Run(w) \/ DeliverFails(w) \/ Crash(w)

Spec == Init /\ [][Next]_vars

(* The beat schedule starts the task every ten seconds, and a running task  *)
(* goes on: the sink's answer has a timeout, SKIP LOCKED never waits, and   *)
(* the database is assumed to answer or to fail, which is Crash.            *)
FairSpec == Spec /\ \A w \in Workers : WF_vars(Run(w))

-----------------------------------------------------------------------------
(* The types of all variables. *)
TypeOK ==
    /\ row \in [Events -> RowStates]
    /\ createdAt \in [Events -> Nat]
    /\ starts \in Nat
    /\ attempts \in [Events -> Nat]
    /\ pc \in [Workers -> Labels]
    /\ batch \in [Workers -> SUBSET Events]
    /\ stamped \in [Workers -> SUBSET Events]
    /\ batches \in [Workers -> 0..MaxBatches]
    /\ delivered \in [Events -> 0..MaxCopies]
    /\ failed \in [Events -> Nat]
    /\ undone \in [Events -> Nat]
    /\ faults \in 0..MaxFaults

(* FOR UPDATE SKIP LOCKED: two workers never have the same row in hand, so  *)
(* no event is delivered by two drains at the same time.                    *)
NoSharedRow ==
    \A v, w \in Workers : v # w => Locked(v) \cap Locked(w) = {}

(* Only the roll back of a drain that held an event has it delivered again: *)
(* concurrent drains, and the many batches of one transaction, never do.    *)
RedeliveryOnlyAfterRollback ==
    \A e \in Events : delivered[e] <= 1 + undone[e]

(* Once the sink works again and workers stop dying (MaxFaults is reached   *)
(* or no more fault comes), every committed event is published.             *)
EventuallyPublished ==
    \A e \in Events : (row[e] = "pending") ~> (row[e] = "published")

(* The outbox as its consumers see it. *)
Contract == INSTANCE AtLeastOnce WITH
    state <- [e \in Events |-> CASE row[e] = "pending" -> "queued"
                                 [] row[e] = "published" -> "settled"
                                 [] OTHER -> "absent"],
    copies <- delivered

(* The drain implements at-least-once delivery: no event is lost, none is   *)
(* delivered before its business write has committed or after it was        *)
(* published.                                                               *)
ImplementsContract == Contract!Spec

(* services/telemetry/publisher.py: "Leave rows pending (published_at stays *)
(* NULL); bump attempts for observability."  A pending row's attempts tell  *)
(* how often its delivery has failed.                                       *)
AttemptsObservable ==
    \A e \in Events : row[e] = "pending" => attempts[e] >= failed[e]
=============================================================================

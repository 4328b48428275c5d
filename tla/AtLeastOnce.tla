---------------------------- MODULE AtLeastOnce ----------------------------
(* What the telemetry outbox promises its consumers: an event that was      *)
(* committed is handed over one or more times while it is queued, and is    *)
(* settled only after it was handed over.  Nothing else is ever handed      *)
(* over, and nothing settled comes back.                                    *)
EXTENDS Integers

CONSTANTS
    Events,
    MaxCopies   \* copies are counted up to this number

VARIABLES
    state,   \* state[e]: "absent", "queued" or "settled"
    copies   \* copies[e]: how often e was handed over

vars == <<state, copies>>

More(n) == IF n < MaxCopies THEN n + 1 ELSE n

Init ==
    /\ state = [e \in Events |-> "absent"]
    /\ copies = [e \in Events |-> 0]

Accept(e) ==
    /\ state[e] = "absent"
    /\ state' = [state EXCEPT ![e] = "queued"]
    /\ UNCHANGED copies

Hand(S) ==
    /\ \A e \in S : state[e] = "queued"
    /\ copies' = [e \in Events |-> IF e \in S THEN More(copies[e]) ELSE copies[e]]
    /\ UNCHANGED state

Settle(S) ==
    /\ \A e \in S : state[e] = "queued" /\ copies[e] > 0
    /\ state' = [e \in Events |-> IF e \in S THEN "settled" ELSE state[e]]
    /\ UNCHANGED copies

Next ==
    \/ \E e \in Events : Accept(e)
    \/ \E S \in SUBSET Events : Hand(S) \/ Settle(S)

Spec == Init /\ [][Next]_vars
=============================================================================

---------------------------- MODULE JobDelivery ----------------------------
(***************************************************************************)
(* What the transactional outbox promises the code that publishes into it: *)
(* a committed event is delivered at least once, and its settlement is     *)
(* final.  No workers, leases, attempts or clocks appear here; the module  *)
(* OutboxQueue, which has them all, is shown to implement this one.        *)
(***************************************************************************)
CONSTANT Events

VARIABLES
    phase,      \* phase[e]: what a reader of the outbox row learns about e
    delivered   \* delivered[e]: some run of e's handler has returned normally

vars == <<phase, delivered>>

Phases == {"absent", "queued", "processed", "failed"}

Init ==
    /\ phase = [e \in Events |-> "absent"]
    /\ delivered = [e \in Events |-> FALSE]

Publish(e) ==
    /\ phase[e] = "absent"
    /\ phase' = [phase EXCEPT ![e] = "queued"]
    /\ UNCHANGED delivered

\* At least once: a handler may return again, even for a settled event (a
\* worker whose lease ran out is still running it).
Deliver(e) ==
    /\ phase[e] # "absent"
    /\ delivered' = [delivered EXCEPT ![e] = TRUE]
    /\ UNCHANGED phase

Acknowledge(e) ==
    /\ phase[e] = "queued"
    /\ delivered[e]
    /\ phase' = [phase EXCEPT ![e] = "processed"]
    /\ UNCHANGED delivered

DeadLetter(e) ==
    /\ phase[e] = "queued"
    /\ phase' = [phase EXCEPT ![e] = "failed"]
    /\ UNCHANGED delivered

Next == \E e \in Events : Publish(e) \/ Deliver(e) \/ Acknowledge(e) \/ DeadLetter(e)

Spec == Init /\ [][Next]_vars
============================================================================

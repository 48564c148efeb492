---------------------------- MODULE OutboxQueue ----------------------------
(***************************************************************************)
(* The transactional outbox: publishers insert an outbox event and its     *)
(* background job in their own transaction (prisma-job-publisher.ts);      *)
(* worker processes claim, handle and settle them (process-outbox.ts,      *)
(* prisma-outbox-claimer.ts).  Every claimer method is one database        *)
(* transaction, hence one step; a worker is a sequential loop, so it has   *)
(* at most one handler running.                                            *)
(*                                                                         *)
(* Times are kept relative to the clock: lease is leaseUntil - now (-1     *)
(* once it is past) and delay is availableAt - now (0 once it is due), so  *)
(* that Tick is the passing of one unit of time and needs no last moment.  *)
(* ORDER BY availableAt, id is left open (any claimable row may be         *)
(* picked): SKIP LOCKED already lets a claim pass over the oldest row.     *)
(***************************************************************************)
EXTENDS Integers

CONSTANTS
    Events,        \* outbox rows of one job type
    Workers,       \* worker processes; workerId is a fresh uuid per process
    None,          \* SQL NULL in leaseOwner
    MaxAttempts,   \* background_jobs.maxAttempts (DEFAULT_JOB_MAX_ATTEMPTS)
    LeaseTicks,    \* WORKER_LEASE_MS
    BackoffBase,   \* WORKER_BACKOFF_BASE_MS
    BackoffMax,    \* WORKER_BACKOFF_MAX_MS
    MaxFaults      \* bound: crashes, lost settlements and overrun leases

ASSUME NoneAssumption == None \notin Workers
ASSUME AttemptsAssumption == MaxAttempts \in Nat \ {0}
ASSUME LeaseAssumption == LeaseTicks \in Nat
ASSUME BackoffAssumption == BackoffBase \in Nat \ {0} /\ BackoffMax \in Nat \ {0}
ASSUME FaultsAssumption == MaxFaults \in Nat

VARIABLES
    event,      \* outbox_events rows
    job,        \* background_jobs rows
    worker,     \* what each worker process is doing, and the row it read at the claim
    accepting,  \* accepting[w]: the process has not begun a graceful shutdown
    delivered,  \* history: some run of the handler has returned normally
    faults      \* how much of MaxFaults is used

vars == <<event, job, worker, accepting, delivered, faults>>

EventStatus == {"absent", "pending", "processing", "processed", "failed"}
JobStatus   == {"absent", "pending", "leased", "succeeded", "failed"}

\* "handling": the handler runs; "done": it returned, markProcessed is next;
\* "retryable", "fatal": it threw, and classifyJobFailure says which.
Stages == {"idle", "handling", "done", "retryable", "fatal"}

Event == [status: EventStatus, owner: Workers \cup {None}, lease: -1..LeaseTicks,
          delay: 0..BackoffMax, attempts: Nat]
Job == [status: JobStatus, owner: Workers \cup {None}, lease: -1..LeaseTicks,
        attempts: Nat]
Worker == [stage: Stages, ev: Events \cup {None}, attempt: Nat, left: -1..LeaseTicks]

Idle == [stage |-> "idle", ev |-> None, attempt |-> 0, left |-> -1]

Init ==
    /\ event = [e \in Events |-> [status |-> "absent", owner |-> None,
                                  lease |-> -1, delay |-> 0, attempts |-> 0]]
    /\ job = [e \in Events |-> [status |-> "absent", owner |-> None,
                                lease |-> -1, attempts |-> 0]]
    /\ worker = [w \in Workers |-> Idle]
    /\ accepting = [w \in Workers |-> TRUE]
    /\ delivered = [e \in Events |-> FALSE]
    /\ faults = 0

----------------------------------------------------------------------------
(* Backoff.  computeBackoffMs returns floor(x/2 + u * x/2) for a random u   *)
(* in [0, 1), where x is the capped exponential: the integers from x/2 up   *)
(* to x - 1.                                                                *)

Exponential(attempt) ==
    LET x == BackoffBase * 2^(attempt - 1)
    IN  IF x < BackoffMax THEN x ELSE BackoffMax

BackoffDelays(attempt) ==
    {d \in 0..BackoffMax : /\ Exponential(attempt) \div 2 <= d
                           /\ d < Exponential(attempt)}

----------------------------------------------------------------------------
(* Publishing.  All publishers pass availableAt = now.  The event and its   *)
(* job are one nested insert.                                               *)

Publish(e) ==
    /\ event[e].status = "absent"
    /\ event' = [event EXCEPT ![e] = [@ EXCEPT !.status = "pending"]]
    /\ job' = [job EXCEPT ![e] = [@ EXCEPT !.status = "pending"]]
    /\ UNCHANGED <<worker, accepting, delivered, faults>>

----------------------------------------------------------------------------
(* Claiming.                                                                *)

\* Variant: no recovery of expired leases.
ClaimableNoRecovery(e) ==
    event[e].delay = 0 /\ event[e].status = "pending"

\* Variant: any processing row may be taken over, expired or not.
ClaimableStealing(e) ==
    event[e].delay = 0 /\ event[e].status \in {"pending", "processing"}

\* Variant: the status filter is missing from the expired-lease branch.
ClaimableSettled(e) ==
    event[e].delay = 0 /\ event[e].status # "absent" /\ event[e].lease < 0

Claimable(e) ==
    /\ event[e].delay = 0
    /\ \/ event[e].status = "pending"
       \/ event[e].status = "processing" /\ event[e].lease < 0

\* processNext up to the handler: the shouldStop test and claimNextByType.
\* publish always inserts the job, so the claimer's create branch never runs.
Claim(w, e) ==
    /\ accepting[w]
    /\ worker[w].stage = "idle"
    /\ Claimable(e)
    /\ event' = [event EXCEPT ![e] =
                    [status |-> "processing", owner |-> w, lease |-> LeaseTicks,
                     delay |-> @.delay, attempts |-> @.attempts + 1]]
    /\ job' = [job EXCEPT ![e] =
                    [status |-> "leased", owner |-> w, lease |-> LeaseTicks,
                     attempts |-> @.attempts + 1]]
    /\ worker' = [worker EXCEPT ![w] =
                    [stage |-> "handling", ev |-> e,
                     attempt |-> event[e].attempts + 1, left |-> LeaseTicks]]
    /\ UNCHANGED <<accepting, delivered, faults>>

----------------------------------------------------------------------------
(* Handling and settling.                                                   *)

Stage(w, from, to) ==
    /\ worker[w].stage = from
    /\ worker' = [worker EXCEPT ![w] = [@ EXCEPT !.stage = to]]

HandlerReturns(w) ==
    /\ Stage(w, "handling", "done")
    /\ delivered' = [delivered EXCEPT ![worker[w].ev] = TRUE]
    /\ UNCHANGED <<event, job, accepting, faults>>

\* classifyJobFailure: external_service, rate_limit, conflict and unknown
\* errors are retryable, every other application error is not.
HandlerThrows(w) ==
    /\ \/ Stage(w, "handling", "retryable")
       \/ Stage(w, "handling", "fatal")
    /\ UNCHANGED <<event, job, accepting, delivered, faults>>

\* markProcessed is inside the try block: when its transaction fails the job
\* is handled as a retryable failure although the handler has returned.
MarkProcessedThrows(w) ==
    /\ faults < MaxFaults
    /\ Stage(w, "done", "retryable")
    /\ faults' = faults + 1
    /\ UNCHANGED <<event, job, accepting, delivered>>

\* The two guarded updateMany calls of a settlement.  Each one only touches
\* its row while this worker still owns it, and is silent otherwise.
SettleEvent(w, e, status, delay) ==
    event' = IF event[e].owner = w /\ event[e].status = "processing"
             THEN [event EXCEPT ![e] =
                      [status |-> status, owner |-> None, lease |-> -1,
                       delay |-> delay, attempts |-> @.attempts]]
             ELSE event

\* Variant: the job update is not conditional on the lease owner.
SettleJobUnowned(w, e, status) ==
    job' = IF job[e].status = "leased"
           THEN [job EXCEPT ![e] =
                    [status |-> status, owner |-> None, lease |-> -1,
                     attempts |-> @.attempts]]
           ELSE job

SettleJob(w, e, status) ==
    job' = IF job[e].owner = w /\ job[e].status = "leased"
           THEN [job EXCEPT ![e] =
                    [status |-> status, owner |-> None, lease |-> -1,
                     attempts |-> @.attempts]]
           ELSE job

\* Variant: neither update of markProcessed is conditional on the lease owner.
MarkProcessedUnowned(w) ==
    LET e == worker[w].ev
    IN  /\ worker[w].stage = "done"
        /\ event' = [event EXCEPT ![e] = [@ EXCEPT !.status = "processed",
                                                  !.owner = None, !.lease = -1]]
        /\ job' = [job EXCEPT ![e] = [@ EXCEPT !.status = "succeeded",
                                              !.owner = None, !.lease = -1]]
        /\ worker' = [worker EXCEPT ![w] = Idle]
        /\ UNCHANGED <<accepting, delivered, faults>>

MarkProcessed(w) ==
    LET e == worker[w].ev
    IN  /\ worker[w].stage = "done"
        /\ SettleEvent(w, e, "processed", event[e].delay)
        /\ SettleJob(w, e, "succeeded")
        /\ worker' = [worker EXCEPT ![w] = Idle]
        /\ UNCHANGED <<accepting, delivered, faults>>

\* Variant: off by one in the attempt budget.
TerminalLate(w) ==
    \/ worker[w].stage = "fatal"
    \/ worker[w].stage = "retryable" /\ worker[w].attempt > MaxAttempts

\* attemptCount is the value the claim returned, not the row's current one.
Terminal(w) ==
    \/ worker[w].stage = "fatal"
    \/ worker[w].stage = "retryable" /\ worker[w].attempt >= MaxAttempts

MarkDeadLettered(w) ==
    LET e == worker[w].ev
    IN  /\ Terminal(w)
        /\ SettleEvent(w, e, "failed", event[e].delay)
        /\ SettleJob(w, e, "failed")
        /\ worker' = [worker EXCEPT ![w] = Idle]
        /\ UNCHANGED <<accepting, delivered, faults>>

ScheduleRetry(w) ==
    LET e == worker[w].ev
    IN  /\ worker[w].stage = "retryable"
        /\ ~Terminal(w)
        /\ \E d \in BackoffDelays(worker[w].attempt) : SettleEvent(w, e, "pending", d)
        /\ SettleJob(w, e, "pending")
        /\ worker' = [worker EXCEPT ![w] = Idle]
        /\ UNCHANGED <<accepting, delivered, faults>>

----------------------------------------------------------------------------
(* Faults, shutdown and time.                                               *)

\* The process dies, or the settlement of a failure throws: processNext
\* rejects, the poll is logged as failed, and the row stays leased.
Crash(w) ==
    /\ worker[w].stage # "idle"
    /\ faults < MaxFaults
    /\ faults' = faults + 1
    /\ worker' = [worker EXCEPT ![w] = Idle]
    /\ UNCHANGED <<event, job, accepting, delivered>>

\* SIGTERM: acceptingWork becomes false; poller.stop waits for the poll that
\* is in flight, so a running handler still settles.
Shutdown(w) ==
    /\ accepting[w]
    /\ accepting' = [accepting EXCEPT ![w] = FALSE]
    /\ UNCHANGED <<event, job, worker, delivered, faults>>

\* A new process takes the place of one that has drained.
Restart(w) ==
    /\ ~accepting[w]
    /\ worker[w].stage = "idle"
    /\ accepting' = [accepting EXCEPT ![w] = TRUE]
    /\ UNCHANGED <<event, job, worker, delivered, faults>>

Down(n, floor) == IF n > floor THEN n - 1 ELSE floor

\* The lease of a handler that is still running is about to run out.
Overruns == {w \in Workers : worker[w].stage # "idle" /\ worker[w].left = 0}

\* One unit of time.  A tick that outlasts a running handler's lease uses up
\* a fault: once the budget is spent handlers finish within their lease.
Tick ==
    /\ Overruns # {} => faults < MaxFaults
    /\ faults' = IF Overruns # {} THEN faults + 1 ELSE faults
    /\ event' = [e \in Events |-> 
                    [status |-> event[e].status, owner |-> event[e].owner,
                     lease |-> Down(event[e].lease, -1),
                     delay |-> Down(event[e].delay, 0),
                     attempts |-> event[e].attempts]]
    /\ job' = [e \in Events |-> [job[e] EXCEPT !.lease = Down(@, -1)]]
    /\ worker' = [w \in Workers |-> [worker[w] EXCEPT !.left = Down(@, -1)]]
    /\ UNCHANGED <<accepting, delivered>>

----------------------------------------------------------------------------
WorkerStep(w) ==
    \/ \E e \in Events : Claim(w, e)
    \/ HandlerReturns(w) \/ HandlerThrows(w)
    \/ MarkProcessed(w) \/ MarkDeadLettered(w) \/ ScheduleRetry(w)
    \/ Restart(w)

Next ==
    \/ \E e \in Events : Publish(e)
    \/ \E w \in Workers : WorkerStep(w)
    \/ \E w \in Workers : MarkProcessedThrows(w) \/ Crash(w) \/ Shutdown(w)
    \/ Tick

Spec == Init /\ [][Next]_vars

\* The poller runs again after every poll and a drained process is replaced;
\* the clock advances.  A worker may be asked to stop again and again, so the
\* claim needs strong fairness: some worker's, of some event.
Fairness ==
    /\ WF_vars(Tick)
    /\ \A w \in Workers : WF_vars(WorkerStep(w))
    /\ SF_vars(\E w \in Workers, e \in Events : Claim(w, e))

FairSpec == Spec /\ Fairness

----------------------------------------------------------------------------
(* Properties.                                                              *)

\* The rows and the workers' local state stay in their enumerations, leases
\* and delays within the clock's horizon.
TypeOK ==
    /\ event \in [Events -> Event]
    /\ job \in [Events -> Job]
    /\ worker \in [Workers -> Worker]
    /\ accepting \in [Workers -> BOOLEAN]
    /\ delivered \in [Events -> BOOLEAN]
    /\ faults \in Nat

JobStatusOf ==
    [absent |-> "absent", pending |-> "pending", processing |-> "leased",
     processed |-> "succeeded", failed |-> "failed"]

\* The outbox row and its job row are written by separate conditional updates;
\* no interleaving of claims, stale settlements and crashes makes them
\* disagree on status, owner, lease or attempt count.
RowsAgree ==
    \A e \in Events :
        /\ job[e].status = JobStatusOf[event[e].status]
        /\ job[e].owner = event[e].owner
        /\ job[e].lease = event[e].lease
        /\ job[e].attempts = event[e].attempts

\* Two workers may run the handler of one event at once (at-least-once
\* delivery), but never both inside their leases: claimNextByType takes over a
\* processing row only after leaseUntil.
LeaseExclusive ==
    \A w1, w2 \in Workers :
        /\ w1 # w2
        /\ worker[w1].stage # "idle" /\ worker[w2].stage # "idle"
        /\ worker[w1].ev = worker[w2].ev
        => worker[w1].left < 0 \/ worker[w2].left < 0

\* A row that waits for another attempt still has one left: processNext
\* dead-letters, rather than reschedules, once attemptCount reaches
\* maxAttempts, also when earlier attempts were lost to crashes.
RetryHasBudget ==
    \A e \in Events : event[e].status = "pending" => event[e].attempts < MaxAttempts

\* A row leaves "processing" only through the worker of its latest claim, with
\* that attempt's own outcome: a worker whose lease was taken over settles
\* nothing, even when it finishes after the new owner started.
OnlyLatestAttemptSettles ==
    [][\A e \in Events :
          event[e].status = "processing" /\ event'[e].status # "processing" =>
             \E w \in Workers :
                /\ worker[w].ev = e
                /\ worker[w].attempt = event[e].attempts
                /\ worker'[w].stage = "idle"
                /\ event'[e].status = "processed" <=> worker[w].stage = "done"]_vars

\* The queue implements at-least-once delivery with final settlements: a row is
\* "processed" only after its handler returned, and processed and failed rows
\* are never claimed or rescheduled again.
Delivery ==
    INSTANCE JobDelivery WITH
        phase <- [e \in Events |->
                    IF event[e].status \in {"pending", "processing"} THEN "queued"
                    ELSE event[e].status]

DeliverySpec == Delivery!Spec

\* Every published event is settled, whatever the crashes, overrun leases and
\* shutdowns (finitely many faults): expired leases are recovered by the poll.
EventuallySettled ==
    \A e \in Events :
        event[e].status = "pending" ~> event[e].status \in {"processed", "failed"}

(* The inductive strengthening behind RowsAgree, LeaseExclusive,             *)
(* RetryHasBudget and OnlyLatestAttemptSettles: what a worker remembers of   *)
(* its claim, compared with the row.                                         *)

\* The row is owned exactly while it is processing, only a due row was
\* claimed, and only a claimed row has a lease.
RowsConsistent ==
    \A e \in Events :
        /\ event[e].status = "processing" <=> event[e].owner \in Workers
        /\ event[e].status = "absent" => event[e].attempts = 0
        /\ event[e].status # "processing" => event[e].lease = -1

\* A running attempt is either the latest one, and then its worker owns the
\* row with the very lease it was granted, or has been superseded, and then
\* its lease is over and the row belongs to somebody else or to nobody.
WorkersInStep ==
    \A w \in Workers : worker[w].stage # "idle" =>
        LET e == worker[w].ev
        IN  /\ e \in Events
            /\ event[e].status # "absent"
            /\ worker[w].attempt \in 1..event[e].attempts
            /\ worker[w].attempt = event[e].attempts =>
                   /\ event[e].status = "processing"
                   /\ event[e].owner = w
                   /\ event[e].lease = worker[w].left
            /\ worker[w].attempt # event[e].attempts =>
                   /\ event[e].owner # w
                   /\ worker[w].left = -1
            /\ worker[w].stage = "done" => delivered[e]

IInv ==
    /\ TypeOK
    /\ RowsAgree
    /\ RowsConsistent
    /\ WorkersInStep
    /\ RetryHasBudget
============================================================================

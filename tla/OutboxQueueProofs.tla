------------------------- MODULE OutboxQueueProofs -------------------------
(***************************************************************************)
(* Proofs about OutboxQueue for every number of events and workers and     *)
(* every budget: IInv is inductive, hence the safety properties of the     *)
(* queue hold, and the queue implements JobDelivery.                       *)
(***************************************************************************)
EXTENDS OutboxQueue, TLAPS

USE NoneAssumption, AttemptsAssumption, LeaseAssumption, BackoffAssumption,
    FaultsAssumption

\* The empty queue satisfies the inductive invariant.
LEMMA InitInv == Init => IInv
BY DEF Init, IInv, TypeOK, RowsAgree, RowsConsistent, WorkersInStep, RetryHasBudget,
       Event, Job, Worker, Idle, EventStatus, JobStatus, Stages, JobStatusOf

\* publishUnique (prisma-job-publisher.ts) inserts event and job together, both pending,
\* and keeps the inductive invariant.
LEMMA PublishInv ==
    ASSUME IInv, NEW x \in Events, Publish(x)
    PROVE  IInv'
<1> USE DEF IInv, Publish
<1>1. TypeOK'
  BY DEF TypeOK, Event, Job, EventStatus, JobStatus
<1>2. RowsAgree'
  BY DEF TypeOK, Event, Job, RowsAgree, JobStatusOf
<1>3. RowsConsistent'
  BY DEF TypeOK, Event, RowsConsistent
<1>4. WorkersInStep'
  BY DEF TypeOK, Event, Worker, RowsConsistent, WorkersInStep
<1>5. RetryHasBudget'
  BY DEF TypeOK, Event, RowsConsistent, RetryHasBudget
<1> QED BY <1>1, <1>2, <1>3, <1>4, <1>5

\* claimNextByType takes a due row, or one whose lease ran out, for one worker and keeps
\* the inductive invariant: the new attempt number supersedes every older one.
LEMMA ClaimInv ==
    ASSUME IInv, NEW v \in Workers, NEW x \in Events, Claim(v, x)
    PROVE  IInv'
<1> USE DEF IInv, Claim
<1>1. TypeOK'
  BY DEF TypeOK, Event, Job, Worker, EventStatus, JobStatus, Stages
<1>2. RowsAgree'
  BY DEF TypeOK, Event, Job, RowsAgree, JobStatusOf
<1>3. RowsConsistent'
  BY DEF TypeOK, Event, RowsConsistent
<1>4. WorkersInStep'
  BY DEF TypeOK, Event, Worker, RowsConsistent, WorkersInStep, Claimable
<1>5. RetryHasBudget'
  BY DEF TypeOK, Event, RetryHasBudget
<1> QED BY <1>1, <1>2, <1>3, <1>4, <1>5

\* The handler returning in processNext touches only the worker.
LEMMA HandlerReturnsInv ==
    ASSUME IInv, NEW v \in Workers, HandlerReturns(v)
    PROVE  IInv'
<1> USE DEF IInv, HandlerReturns, Stage
<1>1. TypeOK'
  BY DEF TypeOK, Event, Job, Worker, EventStatus, JobStatus, Stages, Idle,
         WorkersInStep
<1>2. RowsAgree'
  BY DEF TypeOK, Event, Job, RowsAgree, RowsConsistent, JobStatusOf
<1>3. RowsConsistent'
  BY DEF TypeOK, Event, RowsConsistent
<1>4. WorkersInStep'
  BY DEF TypeOK, Event, Worker, RowsConsistent, WorkersInStep, Idle
<1>5. RetryHasBudget'
  BY DEF TypeOK, Event, Worker, RowsConsistent, WorkersInStep, RetryHasBudget
<1> QED BY <1>1, <1>2, <1>3, <1>4, <1>5

\* The handler throwing in processNext touches only the worker and the fault budget.
LEMMA HandlerThrowsInv ==
    ASSUME IInv, NEW v \in Workers, HandlerThrows(v)
    PROVE  IInv'
<1> USE DEF IInv, HandlerThrows, Stage
<1>1. TypeOK'
  BY DEF TypeOK, Event, Job, Worker, EventStatus, JobStatus, Stages, Idle,
         WorkersInStep
<1>2. RowsAgree'
  BY DEF TypeOK, Event, Job, RowsAgree, RowsConsistent, JobStatusOf
<1>3. RowsConsistent'
  BY DEF TypeOK, Event, RowsConsistent
<1>4. WorkersInStep'
  <2>1. CASE Stage(v, "handling", "retryable")
    BY <2>1 DEF TypeOK, Worker, WorkersInStep
  <2>2. CASE Stage(v, "handling", "fatal")
    BY <2>2 DEF TypeOK, Worker, WorkersInStep
  <2> QED BY <2>1, <2>2
<1>5. RetryHasBudget'
  BY DEF TypeOK, Event, Worker, RowsConsistent, WorkersInStep, RetryHasBudget
<1> QED BY <1>1, <1>2, <1>3, <1>4, <1>5

\* A failing markProcessed is classified like a handler failure and writes no row.
LEMMA MarkProcessedThrowsInv ==
    ASSUME IInv, NEW v \in Workers, MarkProcessedThrows(v)
    PROVE  IInv'
<1> USE DEF IInv, MarkProcessedThrows, Stage
<1>1. TypeOK'
  BY DEF TypeOK, Event, Job, Worker, EventStatus, JobStatus, Stages, Idle,
         WorkersInStep
<1>2. RowsAgree'
  BY DEF TypeOK, Event, Job, RowsAgree, RowsConsistent, JobStatusOf
<1>3. RowsConsistent'
  BY DEF TypeOK, Event, RowsConsistent
<1>4. WorkersInStep'
  BY DEF TypeOK, Event, Worker, RowsConsistent, WorkersInStep, Idle
<1>5. RetryHasBudget'
  BY DEF TypeOK, Event, Worker, RowsConsistent, WorkersInStep, RetryHasBudget
<1> QED BY <1>1, <1>2, <1>3, <1>4, <1>5

\* markProcessed settles event and job together, under the worker's ownership.
LEMMA MarkProcessedInv ==
    ASSUME IInv, NEW v \in Workers, MarkProcessed(v)
    PROVE  IInv'
<1> USE DEF IInv, MarkProcessed, SettleEvent, SettleJob
<1>1. TypeOK'
  BY DEF TypeOK, Event, Job, Worker, EventStatus, JobStatus, Stages, Idle,
         WorkersInStep
<1>2. RowsAgree'
  BY DEF TypeOK, Event, Job, RowsAgree, RowsConsistent, JobStatusOf
<1>3. RowsConsistent'
  BY DEF TypeOK, Event, RowsConsistent
<1>4. WorkersInStep'
  BY DEF TypeOK, Event, Worker, RowsConsistent, WorkersInStep, Idle
<1>5. RetryHasBudget'
  BY DEF TypeOK, Event, Worker, RowsConsistent, WorkersInStep, RetryHasBudget
<1> QED BY <1>1, <1>2, <1>3, <1>4, <1>5

\* markDeadLettered settles event and job together, under the worker's ownership.
LEMMA MarkDeadLetteredInv ==
    ASSUME IInv, NEW v \in Workers, MarkDeadLettered(v)
    PROVE  IInv'
<1> USE DEF IInv, MarkDeadLettered, SettleEvent, SettleJob, Terminal
<1>1. TypeOK'
  BY DEF TypeOK, Event, Job, Worker, EventStatus, JobStatus, Stages, Idle,
         WorkersInStep
<1>2. RowsAgree'
  BY DEF TypeOK, Event, Job, RowsAgree, RowsConsistent, JobStatusOf
<1>3. RowsConsistent'
  BY DEF TypeOK, Event, RowsConsistent
<1>4. WorkersInStep'
  BY DEF TypeOK, Event, Worker, RowsConsistent, WorkersInStep, Idle
<1>5. RetryHasBudget'
  BY DEF TypeOK, Event, Worker, RowsConsistent, WorkersInStep, RetryHasBudget
<1> QED BY <1>1, <1>2, <1>3, <1>4, <1>5

\* scheduleRetry puts a row back only while the attempt has budget left.
LEMMA ScheduleRetryInv ==
    ASSUME IInv, NEW v \in Workers, ScheduleRetry(v)
    PROVE  IInv'
<1> USE DEF IInv, ScheduleRetry, SettleEvent, SettleJob, Terminal, BackoffDelays
<1>1. TypeOK'
  BY DEF TypeOK, Event, Job, Worker, EventStatus, JobStatus, Stages, Idle,
         WorkersInStep
<1>2. RowsAgree'
  BY DEF TypeOK, Event, Job, RowsAgree, RowsConsistent, JobStatusOf
<1>3. RowsConsistent'
  BY DEF TypeOK, Event, RowsConsistent
<1>4. WorkersInStep'
  BY DEF TypeOK, Event, Worker, RowsConsistent, WorkersInStep, Idle
<1>5. RetryHasBudget'
  BY DEF TypeOK, Event, Worker, RowsConsistent, WorkersInStep, RetryHasBudget
<1> QED BY <1>1, <1>2, <1>3, <1>4, <1>5

\* A worker process that dies leaves its rows leased; the invariant does not depend on
\* the worker being there.
LEMMA CrashInv ==
    ASSUME IInv, NEW v \in Workers, Crash(v)
    PROVE  IInv'
<1> USE DEF IInv, Crash
<1>1. TypeOK'
  BY DEF TypeOK, Event, Job, Worker, EventStatus, JobStatus, Stages, Idle,
         WorkersInStep
<1>2. RowsAgree'
  BY DEF TypeOK, Event, Job, RowsAgree, RowsConsistent, JobStatusOf
<1>3. RowsConsistent'
  BY DEF TypeOK, Event, RowsConsistent
<1>4. WorkersInStep'
  BY DEF TypeOK, Event, Worker, RowsConsistent, WorkersInStep, Idle
<1>5. RetryHasBudget'
  BY DEF TypeOK, Event, Worker, RowsConsistent, WorkersInStep, RetryHasBudget
<1> QED BY <1>1, <1>2, <1>3, <1>4, <1>5

\* A draining worker (apps/worker shutdown) stops claiming and changes no row.
LEMMA ShutdownInv ==
    ASSUME IInv, NEW v \in Workers, Shutdown(v)
    PROVE  IInv'
<1> USE DEF IInv, Shutdown
<1>1. TypeOK'
  BY DEF TypeOK, Event, Job, Worker, EventStatus, JobStatus, Stages, Idle,
         WorkersInStep
<1>2. RowsAgree'
  BY DEF TypeOK, Event, Job, RowsAgree, RowsConsistent, JobStatusOf
<1>3. RowsConsistent'
  BY DEF TypeOK, Event, RowsConsistent
<1>4. WorkersInStep'
  BY DEF TypeOK, Event, Worker, RowsConsistent, WorkersInStep, Idle
<1>5. RetryHasBudget'
  BY DEF TypeOK, Event, Worker, RowsConsistent, WorkersInStep, RetryHasBudget
<1> QED BY <1>1, <1>2, <1>3, <1>4, <1>5

\* A replaced worker process starts idle.
LEMMA RestartInv ==
    ASSUME IInv, NEW v \in Workers, Restart(v)
    PROVE  IInv'
<1> USE DEF IInv, Restart
<1>1. TypeOK'
  BY DEF TypeOK, Event, Job, Worker, EventStatus, JobStatus, Stages, Idle,
         WorkersInStep
<1>2. RowsAgree'
  BY DEF TypeOK, Event, Job, RowsAgree, RowsConsistent, JobStatusOf
<1>3. RowsConsistent'
  BY DEF TypeOK, Event, RowsConsistent
<1>4. WorkersInStep'
  BY DEF TypeOK, Event, Worker, RowsConsistent, WorkersInStep, Idle
<1>5. RetryHasBudget'
  BY DEF TypeOK, Event, Worker, RowsConsistent, WorkersInStep, RetryHasBudget
<1> QED BY <1>1, <1>2, <1>3, <1>4, <1>5

\* Time passing runs every lease and every worker's own remaining time down together,
\* so that a live lease still belongs to a worker that is within its time.
LEMMA TickInv ==
    ASSUME IInv, Tick
    PROVE  IInv'
<1> USE DEF IInv
<1>1. TypeOK'
  <2>1. (event \in [Events -> Event])'
    BY DEF TypeOK, Event, Tick, Down
  <2>2. (job \in [Events -> Job])'
    <3>1. \A r \in Job : Down(r.lease, -1) \in -1..LeaseTicks
      BY DEF Job, Down
    <3>2. \A r \in Job : [r EXCEPT !.lease = Down(r.lease, -1)] \in Job
      BY <3>1 DEF Job
    <3> QED BY <3>2 DEF TypeOK, Tick
  <2>3. (worker \in [Workers -> Worker])'
    <3>1. \A r \in Worker : Down(r.left, -1) \in -1..LeaseTicks
      BY DEF Worker, Down
    <3>2. \A r \in Worker : [r EXCEPT !.left = Down(r.left, -1)] \in Worker
      BY <3>1 DEF Worker
    <3> QED BY <3>2 DEF TypeOK, Tick
  <2>4. (faults \in Nat)'
    BY DEF TypeOK, Tick
  <2> QED BY <2>1, <2>2, <2>3, <2>4 DEF TypeOK, Tick
<1>2. \A e \in Events :
        /\ event'[e].status = event[e].status
        /\ event'[e].owner = event[e].owner
        /\ event'[e].attempts = event[e].attempts
        /\ event'[e].lease = Down(event[e].lease, -1)
  BY DEF TypeOK, Event, Tick
<1>3. \A e \in Events :
        /\ job'[e].status = job[e].status
        /\ job'[e].owner = job[e].owner
        /\ job'[e].attempts = job[e].attempts
        /\ job'[e].lease = Down(job[e].lease, -1)
  BY DEF TypeOK, Job, Tick
<1>4. \A w \in Workers :
        /\ worker'[w].stage = worker[w].stage
        /\ worker'[w].ev = worker[w].ev
        /\ worker'[w].attempt = worker[w].attempt
        /\ worker'[w].left = Down(worker[w].left, -1)
  BY DEF TypeOK, Worker, Tick
<1>5. delivered' = delivered
  BY DEF Tick
<1>6. RowsAgree'
  BY <1>2, <1>3 DEF RowsAgree
<1>7. RowsConsistent'
  BY <1>2 DEF RowsConsistent, Down
<1>8. WorkersInStep'
  BY <1>2, <1>4, <1>5 DEF WorkersInStep, Down
<1>9. RetryHasBudget'
  BY <1>2 DEF RetryHasBudget
<1> QED BY <1>1, <1>6, <1>7, <1>8, <1>9

\* Every step of the queue keeps the inductive invariant.
LEMMA NextInv == IInv /\ [Next]_vars => IInv'
<1> SUFFICES ASSUME IInv, [Next]_vars PROVE IInv'
  OBVIOUS
<1>1. CASE UNCHANGED vars
  BY <1>1 DEF vars, IInv, TypeOK, RowsAgree, RowsConsistent, WorkersInStep,
              RetryHasBudget
<1>2. CASE Next
  BY <1>2, PublishInv, ClaimInv, HandlerReturnsInv, HandlerThrowsInv,
     MarkProcessedThrowsInv, MarkProcessedInv, MarkDeadLetteredInv,
     ScheduleRetryInv, CrashInv, ShutdownInv, RestartInv, TickInv
     DEF Next, WorkerStep
<1> QED BY <1>1, <1>2

\* The inductive invariant: event and job rows agree, every worker's attempt is at most
\* the row's, and a row in processing with a live lease belongs to its latest attempt.
THEOREM OutboxInvariant == Spec => []IInv
BY InitInv, NextInv, PTL DEF Spec

\* Type correctness of the rows and of the workers' local state.
THEOREM OutboxTypeOK == Spec => []TypeOK
<1>1. IInv => TypeOK
  BY DEF IInv
<1> QED BY <1>1, OutboxInvariant, PTL

\* The outbox row and its background job never disagree.
THEOREM OutboxRowsAgree == Spec => []RowsAgree
<1>1. IInv => RowsAgree
  BY DEF IInv
<1> QED BY <1>1, OutboxInvariant, PTL

\* No two workers run the handler of one event inside their leases: of two
\* attempts at one event only the owner's is the latest, and the lease of a
\* superseded attempt is over.
THEOREM OutboxLeaseExclusive == Spec => []LeaseExclusive
<1>1. IInv => LeaseExclusive
  BY DEF IInv, TypeOK, Worker, WorkersInStep, LeaseExclusive
<1> QED BY <1>1, OutboxInvariant, PTL

\* A rescheduled row always has an attempt left.
THEOREM OutboxRetryHasBudget == Spec => []RetryHasBudget
<1>1. IInv => RetryHasBudget
  BY DEF IInv
<1> QED BY <1>1, OutboxInvariant, PTL

----------------------------------------------------------------------------
(* Settlement: only the two updateMany calls of the owner move a row out of *)
(* "processing".                                                            *)

SettledBy(w, e) ==
    /\ worker[w].ev = e
    /\ worker[w].attempt = event[e].attempts
    /\ worker'[w].stage = "idle"
    /\ event'[e].status = "processed" <=> worker[w].stage = "done"

\* What settleEvent does to a row that was not settled: the worker named on it, in its
\* latest attempt, decides the status.
LEMMA SettleStep ==
    ASSUME IInv, Next, NEW e \in Events,
           event[e].status = "processing", event'[e].status # "processing"
    PROVE  \E w \in Workers : SettledBy(w, e)
<1> USE DEF IInv, TypeOK, Event, Worker
<1>1. CASE \E x \in Events : Publish(x)
  BY <1>1 DEF Publish
<1>2. CASE Tick
  BY <1>2 DEF Tick
<1>3. ASSUME NEW v \in Workers,
             MarkProcessed(v) \/ MarkDeadLettered(v) \/ ScheduleRetry(v)
      PROVE  SettledBy(v, e)
  <2>1. worker[v].stage # "idle" /\ worker'[v].stage = "idle"
    BY <1>3 DEF MarkProcessed, MarkDeadLettered, ScheduleRetry, Terminal, Idle
  <2> DEFINE x == worker[v].ev
  <2>a. x \in Events
    BY <2>1 DEF WorkersInStep
  <2>b. \E status \in EventStatus, d \in 0..BackoffMax : SettleEvent(v, x, status, d)
    <3>1. CASE MarkProcessed(v)
      BY <3>1, <2>a DEF MarkProcessed, EventStatus
    <3>2. CASE MarkDeadLettered(v)
      BY <3>2, <2>a DEF MarkDeadLettered, EventStatus
    <3>3. CASE ScheduleRetry(v)
      BY <3>3, <2>a DEF ScheduleRetry, EventStatus, BackoffDelays
    <3> QED BY <1>3, <3>1, <3>2, <3>3
  <2>2. x = e /\ event[e].owner = v
    BY <2>a, <2>b DEF SettleEvent
  <2>3. worker[v].attempt = event[e].attempts
    BY <2>1, <2>2 DEF WorkersInStep
  <2>4. event'[e].status = "processed" <=> worker[v].stage = "done"
    BY <1>3, <2>2 DEF MarkProcessed, MarkDeadLettered, ScheduleRetry, SettleEvent,
                      Terminal
  <2> QED BY <2>1, <2>2, <2>3, <2>4 DEF SettledBy
<1>4. ASSUME NEW v \in Workers,
             \/ \E x \in Events : Claim(v, x)
             \/ HandlerReturns(v) \/ HandlerThrows(v) \/ Restart(v)
             \/ MarkProcessedThrows(v) \/ Crash(v) \/ Shutdown(v)
      PROVE  FALSE
  <2>1. ASSUME NEW x \in Events, Claim(v, x) PROVE FALSE
    BY <2>1 DEF Claim
  <2>2. CASE event' = event
    BY <2>2
  <2> QED
    BY <1>4, <2>1, <2>2 DEF HandlerReturns, HandlerThrows, Restart,
                            MarkProcessedThrows, Crash, Shutdown
<1> QED BY <1>1, <1>2, <1>3, <1>4 DEF Next, WorkerStep

\* Only the worker of the latest claim settles a row, with its own outcome.
THEOREM OutboxLatestAttempt == Spec => OnlyLatestAttemptSettles
<1> DEFINE A == \A e \in Events :
          event[e].status = "processing" /\ event'[e].status # "processing" =>
             \E w \in Workers :
                /\ worker[w].ev = e
                /\ worker[w].attempt = event[e].attempts
                /\ worker'[w].stage = "idle"
                /\ event'[e].status = "processed" <=> worker[w].stage = "done"
<1>1. IInv /\ [Next]_vars => [A]_vars
  BY SettleStep DEF SettledBy
<1>2. Spec => [][A]_vars
  BY <1>1, OutboxInvariant, PTL DEF Spec
<1> QED BY <1>2 DEF OnlyLatestAttemptSettles

----------------------------------------------------------------------------
(* Refinement: OutboxQueue implements JobDelivery.                          *)

PhaseOf(status) == IF status \in {"pending", "processing"} THEN "queued" ELSE status

Phase == [e \in Events |-> IF event[e].status \in {"pending", "processing"}
                           THEN "queued" ELSE event[e].status]

\* A step that changes the status of at most one row maps to a step of the
\* row's phase.
LEMMA PhaseStep ==
    ASSUME NEW x \in Events, event \in [Events -> Event], event' \in [Events -> Event],
           \A e \in Events \ {x} : event'[e].status = event[e].status
    PROVE  Phase' = [Phase EXCEPT ![x] = PhaseOf(event'[x].status)]
BY DEF Phase, PhaseOf

\* A step that keeps every row's status keeps every row's phase.
LEMMA SamePhase ==
    ASSUME event \in [Events -> Event], event' \in [Events -> Event],
           \A e \in Events : PhaseOf(event'[e].status) = PhaseOf(event[e].status)
    PROVE  Phase' = Phase
BY DEF Phase, PhaseOf

\* A settlement is an acknowledgement or a dead-lettering of the abstract delivery, or
\* changes no phase at all.
LEMMA SettleRefines ==
    ASSUME IInv, IInv', NEW v \in Workers, worker[v].stage # "idle",
           delivered' = delivered,
           NEW status \in {"pending", "processed", "failed"},
           status = "processed" => delivered[worker[v].ev],
           NEW d \in 0..BackoffMax, SettleEvent(v, worker[v].ev, status, d)
    PROVE  [Delivery!Next]_(Delivery!vars)
<1> USE DEF IInv, TypeOK
<1>1. PICK x \in Events : x = worker[v].ev
  BY DEF WorkersInStep
<1>2. CASE event' = event
  <2>1. Phase' = Phase
    BY <1>2, SamePhase
  <2> QED BY <2>1 DEF Delivery!vars, Phase
<1>3. CASE event[x].owner = v /\ event[x].status = "processing"
  <2>1. /\ event'[x].status = status
        /\ \A e \in Events \ {x} : event'[e].status = event[e].status
    BY <1>1, <1>3 DEF SettleEvent
  <2>2. Phase[x] = "queued"
    BY <1>1, <1>3 DEF Phase
  <2>3. Phase' = [Phase EXCEPT ![x] = PhaseOf(status)]
    BY <1>1, <2>1, PhaseStep
  <2>4. CASE status = "pending"
    <3>1. Phase' = Phase
      BY <2>2, <2>3, <2>4 DEF PhaseOf, Phase
    <3> QED BY <3>1 DEF Delivery!vars, Phase
  <2>5. CASE status = "processed"
    <3>1. Delivery!Acknowledge(x)
      BY <1>1, <2>2, <2>3, <2>5 DEF Delivery!Acknowledge, PhaseOf, Phase
    <3> QED BY <1>1, <3>1 DEF Delivery!Next
  <2>6. CASE status = "failed"
    <3>1. Delivery!DeadLetter(x)
      BY <2>2, <2>3, <2>6 DEF Delivery!DeadLetter, PhaseOf, Phase
    <3> QED BY <1>1, <3>1 DEF Delivery!Next
  <2> QED BY <2>4, <2>5, <2>6
<1> QED BY <1>1, <1>2, <1>3 DEF SettleEvent

\* Every step of the queue is a step of the abstract delivery or leaves its state alone.
LEMMA NextRefines ==
    ASSUME IInv, IInv', [Next]_vars
    PROVE  [Delivery!Next]_(Delivery!vars)
<1> USE DEF IInv, TypeOK
<1>1. CASE UNCHANGED vars
  BY <1>1 DEF vars, Delivery!vars
<1>2. ASSUME NEW x \in Events, Publish(x)
      PROVE  [Delivery!Next]_(Delivery!vars)
  <2>1. /\ event[x].status = "absent" /\ event'[x].status = "pending"
        /\ \A e \in Events \ {x} : event'[e].status = event[e].status
        /\ delivered' = delivered
    BY <1>2 DEF Publish, Event
  <2>2. Phase' = [Phase EXCEPT ![x] = PhaseOf("pending")]
    BY <2>1, PhaseStep
  <2>3. Delivery!Publish(x)
    BY <2>1, <2>2 DEF Delivery!Publish, PhaseOf, Phase
  <2> QED BY <2>3 DEF Delivery!Next
<1>3. ASSUME NEW v \in Workers, HandlerReturns(v)
      PROVE  [Delivery!Next]_(Delivery!vars)
  <2>1. PICK x \in Events : x = worker[v].ev
    BY <1>3 DEF HandlerReturns, Stage, WorkersInStep
  <2>2. /\ event[x].status # "absent" /\ event' = event
        /\ delivered' = [delivered EXCEPT ![x] = TRUE]
    BY <1>3, <2>1 DEF HandlerReturns, Stage, WorkersInStep
  <2>3. Delivery!Deliver(x)
    BY <2>1, <2>2 DEF Delivery!Deliver
  <2> QED BY <2>3 DEF Delivery!Next
<1>4. ASSUME delivered' = delivered,
             \A e \in Events : PhaseOf(event'[e].status) = PhaseOf(event[e].status)
      PROVE  [Delivery!Next]_(Delivery!vars)
  <2>1. Phase' = Phase
    BY <1>4, SamePhase
  <2> QED BY <1>4, <2>1 DEF Delivery!vars, Phase
<1>5. ASSUME NEW v \in Workers, NEW x \in Events, Claim(v, x)
      PROVE  [Delivery!Next]_(Delivery!vars)
  <2>1. \A e \in Events : PhaseOf(event'[e].status) = PhaseOf(event[e].status)
    BY <1>5 DEF Claim, Claimable, PhaseOf
  <2> QED BY <1>4, <1>5, <2>1 DEF Claim
<1>6. ASSUME NEW v \in Workers,
             \/ HandlerThrows(v) \/ Restart(v) \/ MarkProcessedThrows(v)
             \/ Crash(v) \/ Shutdown(v)
      PROVE  [Delivery!Next]_(Delivery!vars)
  <2>1. event' = event /\ delivered' = delivered
    BY <1>6 DEF HandlerThrows, Restart, MarkProcessedThrows, Crash, Shutdown
  <2> QED BY <1>4, <2>1
<1>7. ASSUME Tick
      PROVE  [Delivery!Next]_(Delivery!vars)
  BY <1>4, <1>7 DEF Tick
<1>8. ASSUME NEW v \in Workers, MarkProcessed(v)
      PROVE  [Delivery!Next]_(Delivery!vars)
  <2>1. PICK d \in 0..BackoffMax : SettleEvent(v, worker[v].ev, "processed", d)
    BY <1>8 DEF MarkProcessed, WorkersInStep, Event
  <2>2. worker[v].stage # "idle" /\ delivered[worker[v].ev] /\ delivered' = delivered
    BY <1>8 DEF MarkProcessed, WorkersInStep
  <2> QED BY <2>1, <2>2, SettleRefines
<1>9. ASSUME NEW v \in Workers, MarkDeadLettered(v)
      PROVE  [Delivery!Next]_(Delivery!vars)
  <2>1. worker[v].stage # "idle" /\ delivered' = delivered
    BY <1>9 DEF MarkDeadLettered, Terminal
  <2>2. PICK d \in 0..BackoffMax : SettleEvent(v, worker[v].ev, "failed", d)
    BY <1>9, <2>1 DEF MarkDeadLettered, WorkersInStep, Event
  <2> QED BY <2>1, <2>2, SettleRefines
<1>10. ASSUME NEW v \in Workers, ScheduleRetry(v)
       PROVE  [Delivery!Next]_(Delivery!vars)
  <2>1. PICK d \in 0..BackoffMax : SettleEvent(v, worker[v].ev, "pending", d)
    BY <1>10 DEF ScheduleRetry, BackoffDelays
  <2>2. worker[v].stage # "idle" /\ delivered' = delivered
    BY <1>10 DEF ScheduleRetry
  <2> QED BY <2>1, <2>2, SettleRefines
<1> QED
  BY <1>1, <1>2, <1>3, <1>5, <1>6, <1>7, <1>8, <1>9, <1>10 DEF Next, WorkerStep

\* The queue, with its leases, crashes and stale workers, implements
\* at-least-once delivery with final settlements.
THEOREM OutboxImplementsDelivery == Spec => DeliverySpec
<1>1. Init => Delivery!Init
  BY DEF Init, Delivery!Init
<1>2. IInv /\ IInv' /\ [Next]_vars => [Delivery!Next]_(Delivery!vars)
  BY NextRefines
<1> QED BY <1>1, <1>2, OutboxInvariant, PTL DEF Spec, DeliverySpec, Delivery!Spec
============================================================================

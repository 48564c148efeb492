---------------------------- MODULE Finalization ---------------------------
(***************************************************************************)
(* From signatures to the finalized artifact: every committed signature of *)
(* Signing publishes a flatten_signature job, and worker processes run     *)
(* flattenSignature for it, while signing goes on.  Both sides update the  *)
(* document row: completions, declines and voids conditionally on its      *)
(* version, flattening under a lease as well.                              *)
(*                                                                         *)
(* Of the outbox this module keeps what OutboxQueue shows: a queued job is *)
(* run by one worker at a time unless its lease is overrun, and only its   *)
(* latest attempt settles it.  A revision is the signatures it shows: how  *)
(* often each signer's fields were stamped on it.  A signer's fields are   *)
(* flattened together, so they are one flag.                               *)
(***************************************************************************)
EXTENDS Signing

CONSTANTS
    Workers,      \* worker processes
    Dead,         \* lease owner that is no longer running: workerId is fresh per process
    MaxAttempts,  \* background_jobs.maxAttempts
    MaxFaults     \* bound: failed flattenings, crashes and overrun leases

ASSUME OwnersAssumption == None \notin Workers /\ Dead \notin Workers /\ Dead # None
ASSUME BudgetAssumption == MaxAttempts \in Nat \ {0} /\ MaxFaults \in Nat

VARIABLES
    lease,      \* documents.leaseOwner, and whether leaseUntil is in the future
    revision,   \* documents.currentRevisionId: the stamps on that revision
    flattened,  \* signature_fields.flattenedRevisionId is set
    artifact,   \* finalized_artifacts: the stamps on the artifact
    job,        \* the k-th flatten job of signer s is <<s, k>>
    worker,     \* what each worker process does, and what it has read
    faults      \* how much of MaxFaults is used

flattenVars == <<lease, revision, flattened, artifact, job, worker, faults>>
vars == <<signingVars, flattenVars>>

\* A signer's duplicate submissions all begin before the first one commits.
Jobs == Signers \X (1..Cardinality(Requests))

\* A job is "queued", "processed" or "failed" (dead-lettered).  A worker is
\* "idle", has "loaded" its work, "claimed" the lease by the UPDATE, "leased" it
\* by the read after it, or its handler has "returned" or thrown a "retryable"
\* or "fatal" error.
Blank == [s \in Signers |-> 0]
Idle == [stage |-> "idle", job |-> None, attempt |-> 0, version |-> 0,
         base |-> Blank, pending |-> FALSE, complete |-> FALSE]
Free == [owner |-> None, live |-> FALSE]

FlattenInit ==
    /\ lease = Free
    /\ revision = Blank
    /\ flattened = [s \in Signers |-> FALSE]
    /\ artifact = None
    /\ job = [j \in Jobs |-> [status |-> "queued", attempts |-> 0]]
    /\ worker = [w \in Workers |-> Idle]
    /\ faults = 0

----------------------------------------------------------------------------
(* The document row, as flattening updates it.                              *)

LeaseAvailable(w) ==
    lease.owner = None \/ ~lease.live \/ lease.owner = w

\* Variant: what was read may be stale when the lease is taken.
ClaimableStale(w) ==
    /\ doc.state \in {"sent", "in_progress", "completed", "finalization_failed", "finalizing"}
    /\ LeaseAvailable(w)

Claimable(w) ==
    /\ doc.version = worker[w].version
    /\ doc.state \in {"sent", "in_progress", "completed", "finalization_failed", "finalizing"}
    /\ LeaseAvailable(w)

LeasedState ==
    IF doc.state \in {"completed", "finalization_failed"} THEN "finalizing"
    ELSE IF doc.state = "sent" THEN "in_progress"
    ELSE doc.state

\* documents.claimProcessingLease.
ClaimProcessingLease(w) ==
    /\ Claimable(w)
    /\ doc' = [state |-> LeasedState, version |-> doc.version + 1]
    /\ lease' = [owner |-> w, live |-> TRUE]

\* Variant: the commit does not test the lease owner.
HoldsLeaseUnowned(w) == doc.version = worker[w].version

\* The condition of documents.commitFlattenedRevision.
HoldsLease(w) == doc.version = worker[w].version /\ lease.owner = w

\* documents.commitFlattenedRevision: the state is not looked at.
CommitFlattenedRevision(w) ==
    /\ HoldsLease(w)
    /\ doc' = [state |-> IF worker[w].complete THEN "finalized" ELSE doc.state,
               version |-> doc.version + 1]
    /\ lease' = Free

\* documents.releaseProcessingLease.
ReleaseProcessingLease(w) ==
    IF lease.owner = w
    THEN /\ doc' = [state |-> doc.state, version |-> doc.version + 1]
         /\ lease' = Free
    ELSE UNCHANGED <<doc, lease>>

\* documents.markFinalizationFailed: a document that is not finalizing keeps
\* the lease until it runs out.
MarkFinalizationFailed(w) ==
    IF lease.owner = w /\ doc.state = "finalizing"
    THEN /\ doc' = [state |-> "finalization_failed", version |-> doc.version + 1]
         /\ lease' = Free
    ELSE UNCHANGED <<doc, lease>>

----------------------------------------------------------------------------
(* The worker.                                                              *)

Runs(w, j) == worker[w].stage # "idle" /\ worker[w].job = j

\* Something outside the bounds of normal operation, when flag holds.
Fault(flag) ==
    /\ flag => faults < MaxFaults
    /\ faults' = IF flag THEN faults + 1 ELSE faults

\* processNext claims the job and flattenSignature loads its work.  A document
\* that is finalized already makes the handler return.
LoadAuthorizedWork(w, j) ==
    LET s == j[1]
    IN  /\ worker[w].stage = "idle"
        /\ j[2] <= commits[s]
        /\ job[j].status = "queued"
        /\ Fault(\E v \in Workers : Runs(v, j))
        /\ job' = [job EXCEPT ![j].attempts = @ + 1]
        /\ worker' = [worker EXCEPT ![w] =
              [stage |-> IF doc.state = "finalized" THEN "returned" ELSE "loaded",
               job |-> j, attempt |-> job[j].attempts + 1, version |-> doc.version,
               base |-> Blank, pending |-> ~flattened[s],
               complete |-> \A t \in Signers : signer[t] = "signed"]]
        /\ UNCHANGED <<lease, revision, flattened, artifact, signingVars>>

TakeLease(w) ==
    /\ worker[w].stage = "loaded"
    /\ ClaimProcessingLease(w)
    /\ worker' = [worker EXCEPT ![w].stage = "claimed"]
    /\ UNCHANGED <<signer, session, commits, exchanges, request,
                   revision, flattened, artifact, job, faults>>

\* claimProcessingLease is not in a transaction: it returns the row as it is
\* read after the update, and the commit expects the version found there.
ReadLeased(w) ==
    /\ worker[w].stage = "claimed"
    /\ worker' = [worker EXCEPT ![w] =
            [@ EXCEPT !.stage = "leased", !.base = revision, !.version = doc.version]]
    /\ UNCHANGED <<lease, revision, flattened, artifact, job, faults, signingVars>>

\* That read or the audit event after it fails, outside the block that
\* releases the lease.
ReadLeasedFails(w) ==
    /\ worker[w].stage = "claimed"
    /\ Fault(TRUE)
    /\ worker' = [worker EXCEPT ![w].stage = "retryable"]
    /\ UNCHANGED <<lease, revision, flattened, artifact, job, signingVars>>

\* CONCURRENT_FINALIZATION: somebody else holds the lease or has changed the
\* document since it was read.
MissLease(w) ==
    /\ worker[w].stage = "loaded"
    /\ ~Claimable(w)
    /\ worker' = [worker EXCEPT ![w].stage = "retryable"]
    /\ UNCHANGED <<lease, revision, flattened, artifact, job, faults, signingVars>>

\* The revision that the flattener has written and uploaded.
Stamped(w) ==
    IF worker[w].pending THEN [worker[w].base EXCEPT ![worker[w].job[1]] = @ + 1]
    ELSE worker[w].base

\* Variant: the artifact is the revision before the stamp.
CommitFlatteningUnstamped(w) ==
    LET s == worker[w].job[1]
    IN  /\ worker[w].stage = "leased"
        /\ CommitFlattenedRevision(w)
        /\ revision' = Stamped(w)
        /\ flattened' = [flattened EXCEPT ![s] = TRUE]
        /\ artifact' = IF worker[w].complete THEN worker[w].base ELSE artifact
        /\ worker' = [worker EXCEPT ![w].stage = "returned"]
        /\ UNCHANGED <<signer, session, commits, exchanges, request, job, faults>>

\* The transaction that ends flattenSignature.
CommitFlattening(w) ==
    LET s == worker[w].job[1]
    IN  /\ worker[w].stage = "leased"
        /\ CommitFlattenedRevision(w)
        /\ revision' = Stamped(w)
        /\ flattened' = [flattened EXCEPT ![s] = TRUE]
        /\ artifact' = IF worker[w].complete /\ artifact = None THEN Stamped(w) ELSE artifact
        /\ worker' = [worker EXCEPT ![w].stage = "returned"]
        /\ UNCHANGED <<signer, session, commits, exchanges, request, job, faults>>

\* The transaction conflicts: CONCURRENT_FINALIZATION is retryable.
LoseLease(w) ==
    /\ worker[w].stage = "leased"
    /\ ~HoldsLease(w)
    /\ ReleaseProcessingLease(w)
    /\ worker' = [worker EXCEPT ![w].stage = "retryable"]
    /\ UNCHANGED <<signer, session, commits, exchanges, request,
                   revision, flattened, artifact, job, faults>>

\* Storage, the flattener or the database fails; or an integrity or validation
\* check does, which is not retried.
FlatteningFails(w) ==
    /\ worker[w].stage = "leased"
    /\ Fault(TRUE)
    /\ \/ /\ ReleaseProcessingLease(w)
          /\ worker' = [worker EXCEPT ![w].stage = "retryable"]
       \/ /\ MarkFinalizationFailed(w)
          /\ worker' = [worker EXCEPT ![w].stage = "fatal"]
    /\ UNCHANGED <<signer, session, commits, exchanges, request,
                   revision, flattened, artifact, job>>

\* processNext settles the job, unless a later attempt has taken it over.
SettledStatus(w) ==
    IF worker[w].stage = "returned" THEN "processed"
    ELSE IF worker[w].stage = "fatal" \/ worker[w].attempt >= MaxAttempts THEN "failed"
    ELSE "queued"

SettleJob(w) ==
    LET j == worker[w].job
    IN  /\ worker[w].stage \in {"returned", "retryable", "fatal"}
        /\ job' = IF job[j].attempts = worker[w].attempt
                  THEN [job EXCEPT ![j].status = SettledStatus(w)]
                  ELSE job
        /\ worker' = [worker EXCEPT ![w] = Idle]
        /\ UNCHANGED <<lease, revision, flattened, artifact, faults, signingVars>>

\* The process dies; its outbox and document leases stay behind.
Crash(w) ==
    /\ worker[w].stage # "idle"
    /\ Fault(TRUE)
    /\ worker' = [worker EXCEPT ![w] = Idle]
    /\ lease' = IF lease.owner = w THEN [owner |-> Dead, live |-> lease.live] ELSE lease
    /\ UNCHANGED <<revision, flattened, artifact, job, signingVars>>

\* leaseUntil passes, perhaps while the owner is still at work.
LeaseRunsOut ==
    /\ lease.live
    /\ Fault(\E w \in Workers : lease.owner = w /\ worker[w].stage \in {"claimed", "leased"})
    /\ lease' = [owner |-> lease.owner, live |-> FALSE]
    /\ UNCHANGED <<revision, flattened, artifact, job, worker, signingVars>>

----------------------------------------------------------------------------
WorkerStep(w) ==
    \/ \E j \in Jobs : LoadAuthorizedWork(w, j)
    \/ TakeLease(w) \/ MissLease(w) \/ ReadLeased(w) \/ ReadLeasedFails(w)
    \/ CommitFlattening(w) \/ LoseLease(w) \/ FlatteningFails(w)
    \/ SettleJob(w)

Next ==
    \/ SigningNext /\ UNCHANGED flattenVars
    \/ \E w \in Workers : WorkerStep(w) \/ Crash(w)
    \/ LeaseRunsOut

FullInit == Init /\ FlattenInit

Spec == FullInit /\ [][Next]_vars

\* The pollers keep running and the clock advances.
Fairness ==
    /\ \A w \in Workers : WF_vars(WorkerStep(w))
    /\ WF_vars(LeaseRunsOut)

----------------------------------------------------------------------------
(* Properties.                                                              *)

\* However workers crash, overrun their leases and run jobs twice, the current
\* revision shows exactly the signatures whose fields are marked flattened,
\* each of them once: no stamp is lost to a concurrent commit or repeated.  The
\* artifact of a finalized document is that revision, and everybody has signed.
RevisionShowsFlattened ==
    /\ \A s \in Signers : revision[s] = (IF flattened[s] THEN 1 ELSE 0)
    /\ doc.state = "finalized" => /\ artifact = revision
                                  /\ \A s \in Signers : signer[s] = "signed"

\* commitFlattenedRevision does not look at the state it overwrites; still no
\* worker that leased the document before it was finalized, or whose lease was
\* taken over, changes a finalized document: its state, content and artifact
\* stay.
FinalizedIsFinal ==
    [][doc.state = "finalized" =>
          /\ doc'.state = doc.state
          /\ revision' = revision
          /\ artifact' = artifact]_vars

\* A flatten job has used up its attempts and no other one is left to run.
RetriesUsedUp ==
    /\ \E j \in Jobs : j[2] <= commits[j[1]] /\ job[j].status = "failed"
    /\ \A j \in Jobs : j[2] <= commits[j[1]] => job[j].status # "queued"
    /\ \A w \in Workers : worker[w].stage = "idle"

\* What the reliability model says of transient errors: they are retried until
\* the attempt budget is used up, and then the document is finalization_failed.
ExhaustedIsFailed ==
    doc.state = "finalizing" /\ RetriesUsedUp ~> doc.state = "finalization_failed"

\* What the runbook says of a finalized document: every required signer has
\* signed and the last flatten has committed, so every signature is on it.
FinalizedShowsEverySignature ==
    doc.state = "finalized" => \A s \in Signers : artifact[s] > 0
============================================================================

------------------------------ MODULE Adapters ------------------------------
(***************************************************************************)
(* The repository ports have two implementations: the Prisma adapters that *)
(* production runs (prisma-tenant-repositories.ts) and the in-memory       *)
(* doubles that nearly every test of the application layer runs            *)
(* (memory-adapters.ts, memory-claimer.ts).  This module drives both with  *)
(* the same sequence of calls and compares what they return and what they  *)
(* store.  A test can only stand for production where the two agree; the   *)
(* calls on which they do not are named one by one.                        *)
(*                                                                         *)
(* A behaviour exercises one port at a time (the stores do not share       *)
(* rows), starting from a store without the row, and ends when the stores  *)
(* differ, as a test does.  A row is created under a fresh id.             *)
(* Results are "ok", the error kinds "conflict" and "not_found", and       *)
(* "unmapped": a unique index that Prisma reports as P2002, which no code  *)
(* turns into an application error.                                        *)
(***************************************************************************)
EXTENDS Naturals, Sequences, FiniteSets

CONSTANTS
    Owners,       \* workers
    Signers,      \* signers of one document
    Sessions,     \* signing sessions of one signer
    Appenders,    \* concurrent calls of the audit double's append
    Queued,       \* number of events in the outbox
    Null,         \* SQL NULL
    MaxRowVersion    \* bound on the version and attempt counters of a row

ASSUME NullAssumption == Null \notin Owners
ASSUME VersionAssumption == MaxRowVersion \in Nat \ {0}
ASSUME QueuedAssumption == Queued \in Nat

VARIABLES
    port,   \* the port this behaviour calls
    pg,     \* its rows in the database
    mem,    \* its rows in the double
    last,   \* the last call: its results and whether it is a known divergence
    audit   \* the audit double: its lock and its events

adapterVars == <<port, pg, mem, last, audit>>

Ok(row) == [row |-> row, result |-> "ok"]
Refuse(row, kind) == [row |-> row, result |-> kind]

\* updateMany with a where clause, and the error when it matched no row.
Update(row, where, new, kind) == IF where THEN Ok(new) ELSE Refuse(row, kind)

----------------------------------------------------------------------------
(* Documents.  The lease is "none", "live" or "past" (leaseUntil < now).   *)

NewDocument ==
    [state |-> "draft", mode |-> "ordered", inspection |-> "pending", revision |-> "none",
     owner |-> Null, lease |-> "none", attempts |-> 0, version |-> 1]
NoDocument == [NewDocument EXCEPT !.state = "absent", !.version = 0]

Open == {"sent", "in_progress"}
Voidable == {"draft", "prepared", "sent", "in_progress"}
Flattenable == {"sent", "in_progress", "completed", "finalization_failed", "finalizing"}

\* An update under the version alone, and one under the version and the state.
PgVersioned(d, v, new) ==
    Update(d, d # NoDocument /\ d.version = v,
           [new EXCEPT !.version = d.version + 1], "conflict")
PgDocument(d, v, states, new) ==
    Update(d, d.version = v /\ d.state \in states, [new EXCEPT !.version = d.version + 1], "conflict")

\* Variant: the double forgets to compare the version.
BumpDocumentBlind(d, v, allowed, new) ==
    IF d = NoDocument THEN Refuse(d, "not_found")
    ELSE IF ~allowed THEN Refuse(d, "conflict")
    ELSE Ok([new EXCEPT !.version = d.version + 1])

BumpDocument(d, v, allowed, new) ==
    IF d = NoDocument THEN Refuse(d, "not_found")
    ELSE IF d.version # v \/ ~allowed THEN Refuse(d, "conflict")
    ELSE Ok([new EXCEPT !.version = d.version + 1])

PgCreateDocument(d) == Ok(NewDocument)
MemCreateDocument(d) == Ok(NewDocument)

PgAttachSourceRevision(d, v) == PgVersioned(d, v, [d EXCEPT !.revision = "source"])
MemAttachSourceRevision(d, v) ==
    IF d = NoDocument THEN Refuse(d, "not_found")
    ELSE IF d.version # v THEN Refuse(d, "conflict")
    ELSE Ok([d EXCEPT !.revision = "source", !.version = d.version + 1])

PgSetInspectionStatus(d, v) == PgVersioned(d, v, [d EXCEPT !.inspection = "ready"])
MemSetInspectionStatus(d, v) ==
    IF d = NoDocument THEN Refuse(d, "not_found")
    ELSE IF d.version # v THEN Refuse(d, "conflict")
    ELSE Ok([d EXCEPT !.inspection = "ready", !.version = d.version + 1])

PgSetSigningMode(d, v) == PgVersioned(d, v, [d EXCEPT !.mode = "parallel"])
MemSetSigningMode(d, v) == BumpDocument(d, v, TRUE, [d EXCEPT !.mode = "parallel"])

PgSetPreparationState(d, v) == PgVersioned(d, v, [d EXCEPT !.state = "prepared"])
MemSetPreparationState(d, v) == BumpDocument(d, v, TRUE, [d EXCEPT !.state = "prepared"])

PgMarkSent(d, v) == PgVersioned(d, v, [d EXCEPT !.state = "sent"])
MemMarkSent(d, v) == BumpDocument(d, v, TRUE, [d EXCEPT !.state = "sent"])

PgMarkDeclined(d, v) == PgDocument(d, v, Open, [d EXCEPT !.state = "declined"])
MemMarkDeclined(d, v) == BumpDocument(d, v, d.state \in Open, [d EXCEPT !.state = "declined"])

PgMarkVoided(d, v) == PgDocument(d, v, Voidable, [d EXCEPT !.state = "voided"])
MemMarkVoided(d, v) == BumpDocument(d, v, d.state \in Voidable, [d EXCEPT !.state = "voided"])

PgMarkInProgress(d, v) == PgDocument(d, v, Open, [d EXCEPT !.state = "in_progress"])
MemMarkInProgress(d, v) ==
    BumpDocument(d, v, d.state \in Open, [d EXCEPT !.state = "in_progress"])

PgMarkCompleted(d, v) == PgDocument(d, v, Open, [d EXCEPT !.state = "completed"])
MemMarkCompleted(d, v) == BumpDocument(d, v, d.state \in Open, [d EXCEPT !.state = "completed"])

Claimed(d, o) ==
    LET next == CASE d.state \in {"completed", "finalization_failed"} -> "finalizing"
                  [] d.state = "sent" -> "in_progress"
                  [] OTHER -> d.state
    IN  [d EXCEPT !.state = next, !.owner = o, !.lease = "live",
                  !.attempts = d.attempts + (IF next = "finalizing" THEN 1 ELSE 0)]

PgClaimProcessingLease(d, v, o) ==
    IF d.lease = "live" /\ d.owner # o THEN Refuse(d, "conflict")
    ELSE PgDocument(d, v, Flattenable, Claimed(d, o))
MemClaimProcessingLease(d, v, o) ==
    BumpDocument(d, v, /\ ~(d.lease # "none" /\ d.lease # "past" /\ d.owner # o)
                       /\ d.state \in Flattenable, Claimed(d, o))

Unleased(d) == [d EXCEPT !.owner = Null, !.lease = "none"]
Committed(d, finalize) ==
    [Unleased(d) EXCEPT !.revision = "flattened",
                        !.state = IF finalize THEN "finalized" ELSE d.state]

\* The database does not look at the state, the double does.
PgCommitFlattenedRevision(d, v, o, finalize) ==
    Update(d, d.version = v /\ d.owner = o,
           [Committed(d, finalize) EXCEPT !.version = @ + 1], "conflict")
MemCommitFlattenedRevision(d, v, o, finalize) ==
    BumpDocument(d, v, /\ d.owner = o
                       /\ finalize => d.state \in {"finalizing", "completed"},
                 Committed(d, finalize))

\* The database wants the owner and the state, the double either.
PgMarkFinalizationFailed(d, o) ==
    IF d.owner = o /\ d.state = "finalizing"
    THEN Ok([Unleased(d) EXCEPT !.state = "finalization_failed", !.version = @ + 1])
    ELSE IF d = NoDocument THEN Refuse(d, "not_found") ELSE Ok(d)
MemMarkFinalizationFailed(d, o) ==
    IF d = NoDocument THEN Refuse(d, "not_found")
    ELSE IF d.owner # o /\ d.state # "finalizing" THEN Ok(d)
    ELSE Ok([Unleased(d) EXCEPT !.version = @ + 1,
                                !.state = IF d.state = "finalizing" THEN "finalization_failed"
                                          ELSE d.state])

PgReleaseProcessingLease(d, o) ==
    IF d.owner = o THEN Ok([Unleased(d) EXCEPT !.version = @ + 1]) ELSE Ok(d)
MemReleaseProcessingLease(d, o) ==
    IF d.owner # o THEN Ok(d) ELSE Ok([Unleased(d) EXCEPT !.version = @ + 1])

----------------------------------------------------------------------------
(* Upload sessions.                                                         *)

NoUpload == [status |-> "absent", revision |-> Null]
NewUpload == [status |-> "issued", revision |-> Null]

PgCreateUpload(u) == Ok(NewUpload)
MemCreateUpload(u) == Ok(NewUpload)

PgCompleteUpload(u) ==
    Update(u, u.status = "issued", [status |-> "completed", revision |-> "source"], "conflict")
MemCompleteUpload(u) ==
    IF u = NoUpload THEN Refuse(u, "not_found")
    ELSE Ok([status |-> "completed", revision |-> "source"])

PgMarkAbandoned(u) ==
    Update(u, u.status = "issued", [u EXCEPT !.status = "abandoned"], "conflict")
MemMarkAbandoned(u) ==
    IF u = NoUpload THEN Refuse(u, "not_found") ELSE Ok([u EXCEPT !.status = "abandoned"])

----------------------------------------------------------------------------
(* Signers and their fields.  A field is the set of what happened to it;   *)
(* {} is no field.                                                          *)

NoSigner == [status |-> "absent", version |-> 0]
NewSigner == [status |-> "pending", version |-> 1]
NewRoster == [signer |-> [s \in Signers |-> NoSigner], field |-> [s \in Signers |-> {}]]
Present(r) == {s \in Signers : r.signer[s] # NoSigner}
Fielded(r) == {s \in Signers : r.field[s] # {}}

\* The database removes the fields of the signers that go and updates nothing
\* but name, email and order of the ones that stay; the double has its fields
\* elsewhere and stores the signers it is given, all pending.
PgReplaceSigners(r, keep) ==
    Ok([signer |-> [s \in Signers |-> IF s \notin keep THEN NoSigner
                                      ELSE IF s \in Present(r) THEN r.signer[s] ELSE NewSigner],
        field |-> [s \in Signers |-> IF s \in keep THEN r.field[s] ELSE {}]])
MemReplaceSigners(r, keep) ==
    Ok([r EXCEPT !.signer = [s \in Signers |-> IF s \in keep THEN NewSigner ELSE NoSigner]])

MarkSigner(r, s, status) ==
    [r EXCEPT !.signer = [r.signer EXCEPT ![s] = [status |-> status, version |-> @.version + 1]]]

FieldEvent(r, s, event) == [r EXCEPT !.field = [r.field EXCEPT ![s] = @ \cup {event}]]

PgMarkSignerDeclined(r, s, v) ==
    Update(r, r.signer[s] = [status |-> "pending", version |-> v],
           MarkSigner(r, s, "declined"), "conflict")
MemMarkSignerDeclined(r, s, v) ==
    IF s \notin Present(r) THEN Refuse(r, "not_found")
    ELSE IF r.signer[s].version # v \/ r.signer[s].status # "pending" THEN Refuse(r, "conflict")
    ELSE Ok(MarkSigner(r, s, "declined"))

PgMarkSigned(r, s, v) ==
    IF r.signer[s].status = "signed" THEN Ok(r)
    ELSE Update(r, r.signer[s] = [status |-> "pending", version |-> v],
                MarkSigner(r, s, "signed"), "conflict")
MemMarkSigned(r, s, v) ==
    IF s \notin Present(r) THEN Refuse(r, "not_found")
    ELSE IF r.signer[s].status = "signed" THEN Ok(r)
    ELSE IF r.signer[s].version # v \/ r.signer[s].status # "pending" THEN Refuse(r, "conflict")
    ELSE Ok(MarkSigner(r, s, "signed"))

\* signature_fields.signerId is a foreign key; the double has none.
PgReplaceFields(r, f) ==
    IF f \subseteq Present(r)
    THEN Ok([r EXCEPT !.field = [s \in Signers |-> IF s \in f THEN {"placed"} ELSE {}]])
    ELSE Refuse(r, "unmapped")
MemReplaceFields(r, f) ==
    Ok([r EXCEPT !.field = [s \in Signers |-> IF s \in f THEN {"placed"} ELSE {}]])

PgCompleteField(r, s) ==
    Update(r, s \in Fielded(r), FieldEvent(r, s, "completed"), "not_found")
MemCompleteField(r, s) ==
    IF s \notin Fielded(r) THEN Refuse(r, "not_found")
    ELSE Ok(FieldEvent(r, s, "completed"))

PgMarkFlattened(r, s) ==
    Update(r, s \in Fielded(r), FieldEvent(r, s, "flattened"), "not_found")
MemMarkFlattened(r, s) ==
    IF s \notin Fielded(r) THEN Refuse(r, "not_found")
    ELSE Ok(FieldEvent(r, s, "flattened"))

----------------------------------------------------------------------------
(* Signing sessions of one signer.                                          *)

NoSession == [status |-> "absent", consumed |-> FALSE, presented |-> FALSE, version |-> 0]
NewSession == [status |-> "issued", consumed |-> FALSE, presented |-> FALSE, version |-> 1]
OpenStatus == {"issued", "active"}
WithStatus(r, i, status) == [r EXCEPT ![i] = [r[i] EXCEPT !.status = status]]
Presented(r, i) == [r EXCEPT ![i] = [r[i] EXCEPT !.status = "active", !.presented = TRUE]]
OpenSessions(r) == {i \in Sessions : r[i].status \in OpenStatus}

\* One open session per signer: a partial unique index, or a search.
PgCreateSession(r, i) ==
    IF OpenSessions(r) # {} THEN Refuse(r, "unmapped") ELSE Ok([r EXCEPT ![i] = NewSession])

MemCreateSession(r, i) ==
    IF OpenSessions(r) # {} THEN Refuse(r, "conflict") ELSE Ok([r EXCEPT ![i] = NewSession])

PgRevoke(r, i) ==
    Update(r, r[i].status \in OpenStatus, WithStatus(r, i, "revoked"), "conflict")
MemRevoke(r, i) ==
    IF r[i] = NoSession THEN Refuse(r, "not_found")
    ELSE IF r[i].status \notin OpenStatus THEN Refuse(r, "conflict")
    ELSE Ok(WithStatus(r, i, "revoked"))

PgMarkPresented(r, i) ==
    CASE r[i].status = "issued" -> Ok(Presented(r, i))
      [] r[i].status = "active" -> Ok(Presented(r, i))
      [] r[i] = NoSession -> Refuse(r, "not_found")
      [] OTHER -> Refuse(r, "conflict")
MemMarkPresented(r, i) ==
    IF r[i] = NoSession THEN Refuse(r, "not_found")
    ELSE IF r[i].status = "active" THEN Ok(Presented(r, i))
    ELSE IF r[i].status # "issued" THEN Refuse(r, "conflict")
    ELSE Ok(Presented(r, i))

PgMarkExpired(r, i) ==
    Update(r, r[i].status \in OpenStatus, WithStatus(r, i, "expired"), "conflict")
MemMarkExpired(r, i) ==
    IF r[i] = NoSession THEN Refuse(r, "not_found")
    ELSE IF r[i].status \notin OpenStatus THEN Refuse(r, "conflict")
    ELSE Ok(WithStatus(r, i, "expired"))

Rotated(x) == [status |-> "active", consumed |-> TRUE, presented |-> TRUE, version |-> x.version + 1]

PgConsumeAndRotate(r, i, v) ==
    Update(r, r[i].version = v /\ ~r[i].consumed /\ r[i].status \in OpenStatus,
           [r EXCEPT ![i] = Rotated(@)], "conflict")
MemConsumeAndRotate(r, i, v) ==
    IF r[i] = NoSession THEN Refuse(r, "not_found")
    ELSE IF r[i].version # v \/ r[i].consumed \/ r[i].status \notin OpenStatus
    THEN Refuse(r, "conflict") ELSE Ok([r EXCEPT ![i] = Rotated(@)])

PgMarkSessionCompleted(r, i) ==
    IF r[i].status = "completed" THEN Ok(r)
    ELSE Update(r, r[i].status \in OpenStatus, WithStatus(r, i, "completed"), "conflict")
MemMarkSessionCompleted(r, i) ==
    IF r[i] = NoSession THEN Refuse(r, "not_found")
    ELSE IF r[i].status = "completed" THEN Ok(r)
    ELSE IF r[i].status \notin OpenStatus THEN Refuse(r, "conflict")
    ELSE Ok(WithStatus(r, i, "completed"))

----------------------------------------------------------------------------
(* Rows with a unique key: the idempotency record of a request, the consent *)
(* of a session, the artifact of a document.                                *)

NewRecords == [idempotency |-> "none", consent |-> FALSE, artifact |-> FALSE]

PgCreateIdempotency(r) ==
    IF r.idempotency # "none" THEN Refuse(r, "unmapped")
    ELSE Ok([r EXCEPT !.idempotency = "begun"])
MemCreateIdempotency(r) ==
    IF r.idempotency # "none" THEN Refuse(r, "conflict")
    ELSE Ok([r EXCEPT !.idempotency = "begun"])

PgCompleteIdempotency(r) ==
    Update(r, r.idempotency # "none", [r EXCEPT !.idempotency = "answered"], "not_found")
MemCompleteIdempotency(r) ==
    IF r.idempotency = "none" THEN Refuse(r, "not_found")
    ELSE Ok([r EXCEPT !.idempotency = "answered"])

PgCreateConsent(r) ==
    IF r.consent THEN Refuse(r, "unmapped") ELSE Ok([r EXCEPT !.consent = TRUE])
MemCreateConsent(r) ==
    IF r.consent THEN Refuse(r, "conflict") ELSE Ok([r EXCEPT !.consent = TRUE])

PgCreateArtifact(r) ==
    IF r.artifact THEN Refuse(r, "unmapped") ELSE Ok([r EXCEPT !.artifact = TRUE])
MemCreateArtifact(r) ==
    IF r.artifact THEN Refuse(r, "conflict") ELSE Ok([r EXCEPT !.artifact = TRUE])

----------------------------------------------------------------------------
(* The outbox: events in the order of their insertion, each with its job.   *)
(* `at` ranks availableAt; every pending event is due.                      *)

Events == 1..Queued
NewEvent(e, hasJob) ==
    [status |-> "pending", owner |-> Null, lease |-> "none", attempts |-> 0, at |-> e,
     job |-> IF hasJob THEN "pending" ELSE "absent", jobOwner |-> Null, jobAttempts |-> 0]
NewQueue(hasJob) == [e \in Events |-> NewEvent(e, hasJob)]

Claimable(q) ==
    {e \in Events : q[e].status = "pending" \/ (q[e].status = "processing" /\ q[e].lease = "past")}
LastAt(q) == CHOOSE n \in {q[e].at : e \in Events} : \A e \in Events : q[e].at <= n

\* ORDER BY "availableAt" ASC, or the first of the array.
PgPick(q) == CHOOSE e \in Claimable(q) : \A f \in Claimable(q) : q[e].at <= q[f].at
MemPick(q) == CHOOSE e \in Claimable(q) : \A f \in Claimable(q) : e <= f

\* The job is created when there is none, with the attempts of the event in the
\* database and with its first one in the double.
Leased(x, o, first) ==
    [x EXCEPT !.status = "processing", !.owner = o, !.lease = "live", !.attempts = @ + 1,
              !.job = "leased", !.jobOwner = o,
              !.jobAttempts = IF x.job = "absent" THEN first ELSE x.jobAttempts + 1]

PgClaimNextByType(q, o) ==
    IF Claimable(q) = {} THEN Refuse(q, "none")
    ELSE Ok([q EXCEPT ![PgPick(q)] = Leased(@, o, @.attempts + 1)])
MemClaimNextByType(q, o) ==
    IF Claimable(q) = {} THEN Refuse(q, "none")
    ELSE Ok([q EXCEPT ![MemPick(q)] = Leased(@, o, 1)])

EventSettled(x, status, at) ==
    [x EXCEPT !.status = status, !.owner = Null, !.lease = "none", !.at = at]
JobSettled(x, status) == [x EXCEPT !.job = status, !.jobOwner = Null]
HoldsEvent(x, o) == x.status = "processing" /\ x.owner = o
HoldsJob(x, o) == x.job = "leased" /\ x.jobOwner = o

\* The database updates the event and the job one after the other, each under
\* its own where clause; the double looks at the job only after the event
\* matched, and a retry or dead letter does not look at the job's status.
PgSettle(x, o, status, job, at) ==
    LET y == IF HoldsEvent(x, o) THEN EventSettled(x, status, at) ELSE x
    IN  Ok(IF HoldsJob(x, o) THEN JobSettled(y, job) ELSE y)

\* Variant: the outcome of any worker is applied.
ApplyOutcomeAnyOwner(x, o, status, job, at) ==
    IF x.status # "processing" THEN Ok(x)
    ELSE Ok(JobSettled(EventSettled(x, status, at), job))

ApplyOutcome(x, o, status, job, at) ==
    IF ~HoldsEvent(x, o) THEN Ok(x)
    ELSE LET y == EventSettled(x, status, at)
         IN  Ok(IF x.jobOwner = o THEN JobSettled(y, job) ELSE y)

At(q, e, answer) == [row |-> [q EXCEPT ![e] = answer.row], result |-> answer.result]

PgMarkProcessed(q, e, o) == At(q, e, PgSettle(q[e], o, "processed", "succeeded", q[e].at))
MemMarkProcessed(q, e, o) ==
    At(q, e, LET x == q[e]
                 y == EventSettled(x, "processed", x.at)
             IN  IF ~HoldsEvent(x, o) THEN Ok(x)
                 ELSE Ok(IF HoldsJob(x, o) THEN JobSettled(y, "succeeded") ELSE y))

PgScheduleRetry(q, e, o) == At(q, e, PgSettle(q[e], o, "pending", "pending", LastAt(q) + 1))
MemScheduleRetry(q, e, o) == At(q, e, ApplyOutcome(q[e], o, "pending", "pending", LastAt(q) + 1))

PgMarkDeadLettered(q, e, o) == At(q, e, PgSettle(q[e], o, "failed", "failed", q[e].at))
MemMarkDeadLettered(q, e, o) == At(q, e, ApplyOutcome(q[e], o, "failed", "failed", q[e].at))

----------------------------------------------------------------------------
(* A unit of work whose second call throws: the database rolls back the     *)
(* first one, the double has no transaction.                                *)

PgRun(d, first) == Refuse(d, "thrown")
MemRun(d, first) == Refuse(first.row, "thrown")

----------------------------------------------------------------------------
(* The audit double: append takes a place in the document's promise chain   *)
(* and waits for everyone before it; it then checks the payload, reads the  *)
(* latest event, and stores its successor after an await.  Its gate opens   *)
(* however it ends.                                                         *)

NoLock == [chain |-> <<>>, pc |-> [a \in Appenders |-> "idle"],
           read |-> [a \in Appenders |-> 0], events |-> <<>>]
LatestEvent(x) == Len(x.events)
Goto(x, a, step) == [x.pc EXCEPT ![a] = step]

\* Variant: the chain is not waited for.
HeadOfChainNone(x, a) == \E i \in DOMAIN x.chain : x.chain[i] = a

HeadOfChain(x, a) ==
    \E i \in DOMAIN x.chain :
        x.chain[i] = a /\ \A j \in 1..(i - 1) : x.pc[x.chain[j]] = "done"

Enqueue(a) ==
    /\ port = "audit" /\ audit.pc[a] = "idle"
    /\ audit' = [audit EXCEPT !.chain = Append(@, a), !.pc = Goto(audit, a, "queued")]
    /\ UNCHANGED <<port, pg, mem, last>>

\* assertApprovedAuditPayload throws inside the lock.
RefusePayload(a) ==
    /\ port = "audit" /\ audit.pc[a] = "queued" /\ HeadOfChain(audit, a)
    /\ audit' = [audit EXCEPT !.pc = Goto(audit, a, "done")]
    /\ UNCHANGED <<port, pg, mem, last>>

FindLatest(a) ==
    /\ port = "audit" /\ audit.pc[a] = "queued" /\ HeadOfChain(audit, a)
    /\ audit' = [audit EXCEPT !.read = [@ EXCEPT ![a] = LatestEvent(audit)],
                              !.pc = Goto(audit, a, "read")]
    /\ UNCHANGED <<port, pg, mem, last>>

PushAndRelease(a) ==
    /\ port = "audit" /\ audit.pc[a] = "read"
    /\ audit' = [audit EXCEPT !.events = Append(@, [by |-> a, sequence |-> audit.read[a]]),
                              !.pc = Goto(audit, a, "done")]
    /\ UNCHANGED <<port, pg, mem, last>>

----------------------------------------------------------------------------
(* One call of a port, made on both adapters.                               *)

Call(known, p, m) ==
    /\ pg = mem
    /\ pg' = p.row /\ mem' = m.row
    /\ last' = [pg |-> p.result, mem |-> m.result, known |-> known]
    /\ UNCHANGED <<port, audit>>

\* The calls on documents whose outcome is decided by version and state alone.
DocumentCall(v) ==
    /\ port = "documents" /\ pg.version < MaxRowVersion
    /\ \/ pg = NoDocument /\ Call(FALSE, PgCreateDocument(pg), MemCreateDocument(mem))
       \/ Call(pg = NoDocument, PgAttachSourceRevision(pg, v), MemAttachSourceRevision(mem, v))
       \/ Call(pg = NoDocument, PgSetInspectionStatus(pg, v), MemSetInspectionStatus(mem, v))
       \/ Call(pg = NoDocument, PgSetSigningMode(pg, v), MemSetSigningMode(mem, v))
       \/ Call(pg = NoDocument, PgSetPreparationState(pg, v), MemSetPreparationState(mem, v))
       \/ Call(pg = NoDocument, PgMarkSent(pg, v), MemMarkSent(mem, v))
       \/ Call(pg = NoDocument, PgMarkDeclined(pg, v), MemMarkDeclined(mem, v))
       \/ Call(pg = NoDocument, PgMarkVoided(pg, v), MemMarkVoided(mem, v))
       \/ Call(pg = NoDocument, PgMarkInProgress(pg, v), MemMarkInProgress(mem, v))
       \/ Call(pg = NoDocument, PgMarkCompleted(pg, v), MemMarkCompleted(mem, v))
       \/ /\ pg # NoDocument /\ pg.version = v
          /\ Call(TRUE, PgRun(pg, PgMarkSent(pg, v)), MemRun(mem, MemMarkSent(mem, v)))

\* The calls of a worker on the document's processing lease.
LeaseCall(v, o) ==
    /\ port = "documents" /\ pg.version < MaxRowVersion
    /\ \/ Call(pg = NoDocument, PgClaimProcessingLease(pg, v, o), MemClaimProcessingLease(mem, v, o))
       \/ \E finalize \in BOOLEAN :
             Call(\/ pg = NoDocument
                  \/ /\ finalize /\ pg.version = v /\ pg.owner = o
                     /\ pg.state \notin {"finalizing", "completed"},
                  PgCommitFlattenedRevision(pg, v, o, finalize),
                  MemCommitFlattenedRevision(mem, v, o, finalize))
       \/ Call((pg.owner = o) # (pg.state = "finalizing"),
               PgMarkFinalizationFailed(pg, o), MemMarkFinalizationFailed(mem, o))
       \/ Call(FALSE, PgReleaseProcessingLease(pg, o), MemReleaseProcessingLease(mem, o))

UploadCall ==
    /\ port = "uploads"
    /\ \/ pg = NoUpload /\ Call(FALSE, PgCreateUpload(pg), MemCreateUpload(mem))
       \/ Call(pg.status # "issued", PgCompleteUpload(pg), MemCompleteUpload(mem))
       \/ Call(pg.status # "issued", PgMarkAbandoned(pg), MemMarkAbandoned(mem))

RosterCall ==
    /\ port = "signers"
    /\ \/ \E keep \in SUBSET Signers :
             Call(\/ Fielded(pg) \ keep # {}
                  \/ \E s \in Present(pg) \cap keep : pg.signer[s] # NewSigner,
                  PgReplaceSigners(pg, keep), MemReplaceSigners(mem, keep))
       \/ \E f \in SUBSET Signers :
             Call(~(f \subseteq Present(pg)), PgReplaceFields(pg, f), MemReplaceFields(mem, f))
       \/ \E s \in Signers, v \in {1, 2} :
             \/ Call(s \notin Present(pg), PgMarkSignerDeclined(pg, s, v), MemMarkSignerDeclined(mem, s, v))
             \/ Call(s \notin Present(pg), PgMarkSigned(pg, s, v), MemMarkSigned(mem, s, v))
       \/ \E s \in Signers :
             \/ Call(FALSE, PgCompleteField(pg, s), MemCompleteField(mem, s))
             \/ Call(FALSE, PgMarkFlattened(pg, s), MemMarkFlattened(mem, s))

SessionCall(i) ==
    /\ port = "sessions"
    /\ \/ /\ pg[i] = NoSession
          /\ Call(OpenSessions(pg) # {}, PgCreateSession(pg, i), MemCreateSession(mem, i))
       \/ Call(pg[i] = NoSession, PgRevoke(pg, i), MemRevoke(mem, i))
       \/ Call(FALSE, PgMarkPresented(pg, i), MemMarkPresented(mem, i))
       \/ Call(pg[i] = NoSession, PgMarkExpired(pg, i), MemMarkExpired(mem, i))
       \/ \E v \in {1, 2} :
             Call(pg[i] = NoSession, PgConsumeAndRotate(pg, i, v), MemConsumeAndRotate(mem, i, v))
       \/ Call(pg[i] = NoSession, PgMarkSessionCompleted(pg, i), MemMarkSessionCompleted(mem, i))

RecordCall ==
    /\ port = "records"
    /\ \/ Call(pg.idempotency # "none", PgCreateIdempotency(pg), MemCreateIdempotency(mem))
       \/ Call(FALSE, PgCompleteIdempotency(pg), MemCompleteIdempotency(mem))
       \/ Call(pg.consent, PgCreateConsent(pg), MemCreateConsent(mem))
       \/ Call(pg.artifact, PgCreateArtifact(pg), MemCreateArtifact(mem))

QueueCall(o) ==
    /\ port = "queue" /\ \A e \in Events : pg[e].attempts < MaxRowVersion
    /\ \/ Call(Claimable(pg) # {} /\ PgPick(pg) # MemPick(pg),
               PgClaimNextByType(pg, o), MemClaimNextByType(mem, o))
       \/ \E e \in Events :
             \/ Call(FALSE, PgMarkProcessed(pg, e, o), MemMarkProcessed(mem, e, o))
             \/ Call(FALSE, PgScheduleRetry(pg, e, o), MemScheduleRetry(mem, e, o))
             \/ Call(FALSE, PgMarkDeadLettered(pg, e, o), MemMarkDeadLettered(mem, e, o))

\* Time passes a lease of the document or of an event.
LeaseExpires ==
    /\ pg = mem
    /\ \/ /\ port = "documents" /\ pg.lease = "live"
          /\ pg' = [pg EXCEPT !.lease = "past"]
       \/ /\ port = "queue"
          /\ \E e \in Events : pg[e].lease = "live" /\ pg' = [pg EXCEPT ![e] = [pg[e] EXCEPT !.lease = "past"]]
    /\ mem' = pg'
    /\ UNCHANGED <<port, last, audit>>

\* Fresh stores for one port, as each test makes them.
Fresh(p, rows) == port = p /\ pg = rows /\ mem = rows

AdaptersInit ==
    /\ \/ Fresh("documents", NoDocument)
       \/ Fresh("uploads", NoUpload)
       \/ Fresh("signers", NewRoster)
       \/ Fresh("sessions", [i \in Sessions |-> NoSession])
       \/ Fresh("records", NewRecords)
       \/ \E hasJob \in BOOLEAN : Fresh("queue", NewQueue(hasJob))
       \/ Fresh("audit", Null)
    /\ last = [pg |-> "ok", mem |-> "ok", known |-> FALSE]
    /\ audit = NoLock

AdaptersNext ==
    \/ \E v \in 1..MaxRowVersion : DocumentCall(v)
    \/ \E v \in 1..MaxRowVersion, o \in Owners : LeaseCall(v, o)
    \/ UploadCall
    \/ RosterCall
    \/ \E i \in Sessions : SessionCall(i)
    \/ RecordCall
    \/ \E o \in Owners : QueueCall(o)
    \/ LeaseExpires
    \/ \E a \in Appenders : Enqueue(a) \/ RefusePayload(a) \/ FindLatest(a) \/ PushAndRelease(a)

AdaptersSpec == AdaptersInit /\ [][AdaptersNext]_adapterVars

----------------------------------------------------------------------------

\* After any sequence of calls of the ports above the double has answered as the
\* database did and holds the same rows, except after one of the calls marked as
\* known, on which they always differ: a versioned write of a document, or a
\* revocation, expiry, rotation or completion of a session, or a completion or
\* abandonment of an upload, that is not there (a conflict or not found); a
\* finalizing commit outside finalizing and completed; a failure mark by a worker
\* without the lease or in another state; the second completion or abandonment
\* of an upload; a roster replaced under its fields or signatures; a field or
\* mark for a signer that is not there; a second row for a unique key; a claim
\* after a retry; and a unit of work that throws after it wrote.  Appends that
\* overlap in the double number its events 0, 1, 2, ..., as those of the
\* database do: its promise chain covers the read of the latest event and the
\* store.
AdaptersAgree ==
    /\ (last.pg = last.mem /\ pg = mem) <=> ~last.known
    /\ \A i \in DOMAIN audit.events : audit.events[i].sequence = i - 1

============================================================================

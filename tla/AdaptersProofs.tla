--------------------------- MODULE AdaptersProofs --------------------------
(***************************************************************************)
(* Proofs about Adapters for any workers, signers, sessions, number of     *)
(* events, overlapping appends and bound on the versions.  Call by call, a *)
(* lemma says on which rows the two adapters give the same answer, and     *)
(* that the answer is a row again; the rows of the outbox need more than   *)
(* their type for that, and the audit double needs its promise chain.      *)
(***************************************************************************)
EXTENDS Adapters, WellFoundedInduction, TLAPS

USE NullAssumption, VersionAssumption, QueuedAssumption

----------------------------------------------------------------------------
(* The rows of each port.                                                  *)

DocumentStates ==
    {"absent", "draft", "prepared", "sent", "in_progress", "completed", "declined", "voided",
     "finalizing", "finalization_failed", "finalized"}

DocumentRows ==
    [state: DocumentStates, mode: {"ordered", "parallel"}, inspection: {"pending", "ready"},
     revision: {"none", "source", "flattened"}, owner: Owners \cup {Null},
     lease: {"none", "live", "past"}, attempts: Nat, version: Nat]

UploadRows == [status: {"absent", "issued", "completed", "abandoned"}, revision: {Null, "source"}]

\* A signer that is there has a version of at least 1.
SignerRows == {NoSigner} \cup [status: {"pending", "declined", "signed"}, version: Nat \ {0}]

Rosters ==
    [signer: [Signers -> SignerRows],
     field: [Signers -> SUBSET {"placed", "completed", "flattened"}]]

SessionRows ==
    [status: {"absent", "issued", "active", "completed", "revoked", "expired"},
     consumed: BOOLEAN, presented: BOOLEAN, version: Nat]

RecordRows == [idempotency: {"none", "begun", "answered"}, consent: BOOLEAN, artifact: BOOLEAN]

EventRows ==
    [status: {"pending", "processing", "processed", "failed"}, owner: Owners \cup {Null},
     lease: {"none", "live", "past"}, attempts: Nat, at: Nat,
     job: {"absent", "pending", "leased", "succeeded", "failed"},
     jobOwner: Owners \cup {Null}, jobAttempts: Nat]

\* An event and its job are leased together and to the same worker, and an event
\* that was never claimed is the only one that may have no job.
EventOK(x) ==
    /\ x.status = "processing" <=> x.job = "leased"
    /\ x.owner = x.jobOwner
    /\ x.job = "absent" => x.attempts = 0

Queues ==
    {q \in [Events -> EventRows] :
        /\ \A e \in Events : EventOK(q[e])
        /\ \E n \in Nat : \A e \in Events : q[e].at <= n}

RowsTyped ==
    /\ port = "documents" => pg \in DocumentRows
    /\ port = "uploads" => pg \in UploadRows
    /\ port = "signers" => pg \in Rosters
    /\ port = "sessions" => pg \in [Sessions -> SessionRows]
    /\ port = "records" => pg \in RecordRows
    /\ port = "queue" => pg \in Queues

----------------------------------------------------------------------------
(* The audit double.                                                       *)

AuditTyped ==
    audit \in [chain: Seq(Appenders), pc: [Appenders -> {"idle", "queued", "read", "done"}],
               read: [Appenders -> Nat], events: Seq([by: Appenders, sequence: Nat])]

\* Whoever has read the latest event heads the chain, and no event was stored
\* since.
ReaderHeadsChain ==
    \A a \in Appenders :
        audit.pc[a] = "read" => HeadOfChain(audit, a) /\ audit.read[a] = Len(audit.events)

Numbered == \A i \in DOMAIN audit.events : audit.events[i].sequence = i - 1

AuditInv == AuditTyped /\ ReaderHeadsChain /\ Numbered

Agreement == (last.pg = last.mem /\ pg = mem) <=> ~last.known

AdaptersInv == RowsTyped /\ Agreement /\ AuditInv

\* What a call has to answer: the same as the other side unless it is a known
\* divergence, and then something else.
Agrees(known, p, m) == (p.result = m.result /\ p.row = m.row) <=> ~known

----------------------------------------------------------------------------
(* Documents.                                                              *)

\* A conditional update of the database and the double's bumpDocument are the
\* same function of a row that is there, and report one that is not there
\* differently; the row that is stored has the next version.
LEMMA DocumentWrite ==
    ASSUME NEW d \in DocumentRows, NEW v, NEW states, "absent" \notin states,
           NEW new \in DocumentRows
    PROVE  /\ Agrees(d = NoDocument, PgDocument(d, v, states, new),
                     BumpDocument(d, v, d.state \in states, new))
           /\ PgDocument(d, v, states, new).row \in DocumentRows
<1>1. [new EXCEPT !.version = d.version + 1] \in DocumentRows
  BY DEF DocumentRows
<1>2. CASE d = NoDocument
  <2>1. d.state = "absent"
    BY <1>2 DEF NoDocument, NewDocument
  <2> QED
    BY <1>2, <2>1 DEF Agrees, PgDocument, BumpDocument, Update, Refuse
<1>3. CASE d # NoDocument
  <2>1. PgDocument(d, v, states, new) = BumpDocument(d, v, d.state \in states, new)
    BY <1>3 DEF PgDocument, BumpDocument, Update, Ok, Refuse
  <2> QED
    BY <1>1, <1>3, <2>1 DEF Agrees, PgDocument, Update, Ok, Refuse
<1> QED
  BY <1>2, <1>3

\* The same without a condition on the state.
LEMMA VersionWrite ==
    ASSUME NEW d \in DocumentRows, NEW v, NEW new \in DocumentRows
    PROVE  /\ Agrees(d = NoDocument, PgVersioned(d, v, new), BumpDocument(d, v, TRUE, new))
           /\ PgVersioned(d, v, new).row \in DocumentRows
<1>1. [new EXCEPT !.version = d.version + 1] \in DocumentRows
  BY DEF DocumentRows
<1>2. CASE d = NoDocument
  BY <1>2 DEF Agrees, PgVersioned, BumpDocument, Update, Refuse
<1>3. CASE d # NoDocument
  <2>1. PgVersioned(d, v, new) = BumpDocument(d, v, TRUE, new)
    BY <1>3 DEF BumpDocument, PgVersioned, Update, Ok, Refuse
  <2> QED
    BY <1>1, <1>3, <2>1 DEF Agrees, PgVersioned, Update, Ok, Refuse
<1> QED
  BY <1>2, <1>3

\* create.
LEMMA CreateDocumentAgrees ==
    ASSUME NEW d
    PROVE  /\ Agrees(FALSE, PgCreateDocument(d), MemCreateDocument(d))
           /\ PgCreateDocument(d).row \in DocumentRows
BY DEF Agrees, PgCreateDocument, MemCreateDocument, Ok, NewDocument, DocumentRows, DocumentStates

\* attachSourceRevision.
LEMMA AttachSourceRevisionAgrees ==
    ASSUME NEW d \in DocumentRows, NEW v
    PROVE  /\ Agrees(d = NoDocument, PgAttachSourceRevision(d, v), MemAttachSourceRevision(d, v))
           /\ PgAttachSourceRevision(d, v).row \in DocumentRows
<1>1. PICK n : n = [d EXCEPT !.revision = "source", !.version = d.version + 1]
  OBVIOUS
<1>2. n = [[d EXCEPT !.revision = "source"] EXCEPT !.version = d.version + 1]
  BY <1>1 DEF DocumentRows
<1>3. n \in DocumentRows
  <2>1. [d EXCEPT !.revision = "source"] \in DocumentRows
    BY DEF DocumentRows
  <2>2. PICK new \in DocumentRows : new = [d EXCEPT !.revision = "source"]
    BY <2>1
  <2>3. [new EXCEPT !.version = d.version + 1] \in DocumentRows
    BY DEF DocumentRows
  <2> QED
    BY <1>2, <2>2, <2>3
<1>4. PgAttachSourceRevision(d, v)
        = IF d # NoDocument /\ d.version = v THEN Ok(n) ELSE Refuse(d, "conflict")
  BY <1>2 DEF PgAttachSourceRevision, PgVersioned, Update
<1>5. MemAttachSourceRevision(d, v)
        = IF d = NoDocument THEN Refuse(d, "not_found")
          ELSE IF d.version = v THEN Ok(n) ELSE Refuse(d, "conflict")
  BY <1>1 DEF MemAttachSourceRevision
<1> QED
  BY <1>3, <1>4, <1>5 DEF Agrees, Ok, Refuse

\* setInspectionStatus.
LEMMA SetInspectionStatusAgrees ==
    ASSUME NEW d \in DocumentRows, NEW v
    PROVE  /\ Agrees(d = NoDocument, PgSetInspectionStatus(d, v), MemSetInspectionStatus(d, v))
           /\ PgSetInspectionStatus(d, v).row \in DocumentRows
<1>1. PICK n : n = [d EXCEPT !.inspection = "ready", !.version = d.version + 1]
  OBVIOUS
<1>2. n = [[d EXCEPT !.inspection = "ready"] EXCEPT !.version = d.version + 1]
  BY <1>1 DEF DocumentRows
<1>3. n \in DocumentRows
  <2>1. [d EXCEPT !.inspection = "ready"] \in DocumentRows
    BY DEF DocumentRows
  <2>2. PICK new \in DocumentRows : new = [d EXCEPT !.inspection = "ready"]
    BY <2>1
  <2>3. [new EXCEPT !.version = d.version + 1] \in DocumentRows
    BY DEF DocumentRows
  <2> QED
    BY <1>2, <2>2, <2>3
<1>4. PgSetInspectionStatus(d, v)
        = IF d # NoDocument /\ d.version = v THEN Ok(n) ELSE Refuse(d, "conflict")
  BY <1>2 DEF PgSetInspectionStatus, PgVersioned, Update
<1>5. MemSetInspectionStatus(d, v)
        = IF d = NoDocument THEN Refuse(d, "not_found")
          ELSE IF d.version = v THEN Ok(n) ELSE Refuse(d, "conflict")
  BY <1>1 DEF MemSetInspectionStatus
<1> QED
  BY <1>3, <1>4, <1>5 DEF Agrees, Ok, Refuse

\* setSigningMode.
LEMMA SetSigningModeAgrees ==
    ASSUME NEW d \in DocumentRows, NEW v
    PROVE  /\ Agrees(d = NoDocument, PgSetSigningMode(d, v), MemSetSigningMode(d, v))
           /\ PgSetSigningMode(d, v).row \in DocumentRows
<1>1. [d EXCEPT !.mode = "parallel"] \in DocumentRows
  BY DEF DocumentRows
<1> QED
  BY <1>1, VersionWrite DEF Agrees, PgSetSigningMode, MemSetSigningMode

\* setPreparationState.
LEMMA SetPreparationStateAgrees ==
    ASSUME NEW d \in DocumentRows, NEW v
    PROVE  /\ Agrees(d = NoDocument, PgSetPreparationState(d, v), MemSetPreparationState(d, v))
           /\ PgSetPreparationState(d, v).row \in DocumentRows
<1>1. [d EXCEPT !.state = "prepared"] \in DocumentRows
  BY DEF DocumentRows, DocumentStates
<1> QED
  BY <1>1, VersionWrite DEF Agrees, PgSetPreparationState, MemSetPreparationState

\* markSent.
LEMMA MarkSentAgrees ==
    ASSUME NEW d \in DocumentRows, NEW v
    PROVE  /\ Agrees(d = NoDocument, PgMarkSent(d, v), MemMarkSent(d, v))
           /\ PgMarkSent(d, v).row \in DocumentRows
<1>1. [d EXCEPT !.state = "sent"] \in DocumentRows
  BY DEF DocumentRows, DocumentStates
<1> QED
  BY <1>1, VersionWrite DEF Agrees, PgMarkSent, MemMarkSent

\* markDeclined.
LEMMA MarkDeclinedAgrees ==
    ASSUME NEW d \in DocumentRows, NEW v
    PROVE  /\ Agrees(d = NoDocument, PgMarkDeclined(d, v), MemMarkDeclined(d, v))
           /\ PgMarkDeclined(d, v).row \in DocumentRows
<1>1. [d EXCEPT !.state = "declined"] \in DocumentRows
  BY DEF DocumentRows, DocumentStates
<1> QED
  BY <1>1, DocumentWrite DEF PgMarkDeclined, MemMarkDeclined, Open

\* markVoided.
LEMMA MarkVoidedAgrees ==
    ASSUME NEW d \in DocumentRows, NEW v
    PROVE  /\ Agrees(d = NoDocument, PgMarkVoided(d, v), MemMarkVoided(d, v))
           /\ PgMarkVoided(d, v).row \in DocumentRows
<1>1. [d EXCEPT !.state = "voided"] \in DocumentRows
  BY DEF DocumentRows, DocumentStates
<1> QED
  BY <1>1, DocumentWrite DEF PgMarkVoided, MemMarkVoided, Voidable

\* markInProgress.
LEMMA MarkInProgressAgrees ==
    ASSUME NEW d \in DocumentRows, NEW v
    PROVE  /\ Agrees(d = NoDocument, PgMarkInProgress(d, v), MemMarkInProgress(d, v))
           /\ PgMarkInProgress(d, v).row \in DocumentRows
<1>1. [d EXCEPT !.state = "in_progress"] \in DocumentRows
  BY DEF DocumentRows, DocumentStates
<1> QED
  BY <1>1, DocumentWrite DEF PgMarkInProgress, MemMarkInProgress, Open

\* markCompleted.
LEMMA MarkCompletedAgrees ==
    ASSUME NEW d \in DocumentRows, NEW v
    PROVE  /\ Agrees(d = NoDocument, PgMarkCompleted(d, v), MemMarkCompleted(d, v))
           /\ PgMarkCompleted(d, v).row \in DocumentRows
<1>1. [d EXCEPT !.state = "completed"] \in DocumentRows
  BY DEF DocumentRows, DocumentStates
<1> QED
  BY <1>1, DocumentWrite DEF PgMarkCompleted, MemMarkCompleted, Open
\* claimProcessingLease.
LEMMA ClaimProcessingLeaseAgrees ==
    ASSUME NEW d \in DocumentRows, NEW v, NEW o \in Owners
    PROVE  /\ Agrees(d = NoDocument, PgClaimProcessingLease(d, v, o), MemClaimProcessingLease(d, v, o))
           /\ PgClaimProcessingLease(d, v, o).row \in DocumentRows
<1>1. PICK next : next = (CASE d.state \in {"completed", "finalization_failed"} -> "finalizing"
                            [] d.state = "sent" -> "in_progress"
                            [] OTHER -> d.state)
  OBVIOUS
<1>2. next \in DocumentStates
  BY <1>1 DEF DocumentRows, DocumentStates
<1>3. PICK n : n = d.attempts + (IF next = "finalizing" THEN 1 ELSE 0)
  OBVIOUS
<1>4. n \in Nat
  BY <1>3 DEF DocumentRows
<1>5. Claimed(d, o) = [d EXCEPT !.state = next, !.owner = o, !.lease = "live", !.attempts = n]
  BY <1>1, <1>3 DEF Claimed
<1>6. Claimed(d, o) \in DocumentRows
  BY <1>2, <1>4, <1>5 DEF DocumentRows
<1>7. PICK new \in DocumentRows : new = Claimed(d, o)
  BY <1>6
<1>8. d.lease \in {"none", "live", "past"}
  BY DEF DocumentRows
<1>9. CASE d.lease = "live" /\ d.owner # o
  <2>1. d # NoDocument
    BY <1>9 DEF NoDocument, NewDocument
  <2> QED
    BY <1>9, <2>1 DEF Agrees, PgClaimProcessingLease, MemClaimProcessingLease, BumpDocument, Refuse
<1>10. CASE ~(d.lease = "live" /\ d.owner # o)
  <2>1. PgClaimProcessingLease(d, v, o) = PgDocument(d, v, Flattenable, new)
    BY <1>7, <1>10 DEF PgClaimProcessingLease
  <2>2. MemClaimProcessingLease(d, v, o) = BumpDocument(d, v, d.state \in Flattenable, new)
    BY <1>7, <1>8, <1>10 DEF MemClaimProcessingLease, BumpDocument
  <2> QED
    BY <2>1, <2>2, DocumentWrite DEF Flattenable
<1> QED
  BY <1>9, <1>10

\* A row whose lease was given up is a row.
LEMMA UnleasedIsRow ==
    ASSUME NEW d \in DocumentRows
    PROVE  /\ Unleased(d) \in DocumentRows
           /\ Unleased(d).state = d.state
           /\ Unleased(d).version = d.version
BY DEF Unleased, DocumentRows

\* commitFlattenedRevision: the adapters differ where there is no document and
\* where the database finalizes one that is neither finalizing nor completed.
LEMMA CommitFlattenedRevisionAgrees ==
    ASSUME NEW d \in DocumentRows, NEW v, NEW o \in Owners, NEW finalize \in BOOLEAN
    PROVE  /\ Agrees(\/ d = NoDocument
                     \/ /\ finalize /\ d.version = v /\ d.owner = o
                        /\ d.state \notin {"finalizing", "completed"},
                     PgCommitFlattenedRevision(d, v, o, finalize),
                     MemCommitFlattenedRevision(d, v, o, finalize))
           /\ PgCommitFlattenedRevision(d, v, o, finalize).row \in DocumentRows
<1>1. PICK st : st = (IF finalize THEN "finalized" ELSE d.state)
  OBVIOUS
<1>2. st \in DocumentStates
  BY <1>1 DEF DocumentRows, DocumentStates
<1>3. PICK u \in DocumentRows : u = Unleased(d) /\ u.version = d.version
  BY UnleasedIsRow
<1>4. PICK c : c = [u EXCEPT !.revision = "flattened", !.state = st]
  OBVIOUS
<1>5. c \in DocumentRows /\ c.version = d.version
  BY <1>2, <1>3, <1>4 DEF DocumentRows
<1>6. Committed(d, finalize) = c
  BY <1>1, <1>3, <1>4 DEF Committed
<1>7. PICK n : n = [c EXCEPT !.version = d.version + 1]
  OBVIOUS
<1>8. n \in DocumentRows
  BY <1>5, <1>7 DEF DocumentRows
<1>9. PgCommitFlattenedRevision(d, v, o, finalize)
        = IF d.version = v /\ d.owner = o THEN Ok(n) ELSE Refuse(d, "conflict")
  BY <1>5, <1>6, <1>7 DEF PgCommitFlattenedRevision, Update
<1>10. MemCommitFlattenedRevision(d, v, o, finalize)
        = IF d = NoDocument THEN Refuse(d, "not_found")
          ELSE IF d.version # v \/ ~(d.owner = o /\ (finalize => d.state \in {"finalizing", "completed"}))
          THEN Refuse(d, "conflict") ELSE Ok(n)
  BY <1>6, <1>7 DEF MemCommitFlattenedRevision, BumpDocument
<1>11. d = NoDocument => d.owner # o
  BY DEF NoDocument, NewDocument
<1> QED
  BY <1>8, <1>9, <1>10, <1>11 DEF Agrees, Ok, Refuse

\* markFinalizationFailed: the adapters differ for a worker without the lease
\* and outside finalizing, if not both.
LEMMA MarkFinalizationFailedAgrees ==
    ASSUME NEW d \in DocumentRows, NEW o \in Owners
    PROVE  /\ Agrees((d.owner = o) # (d.state = "finalizing"),
                     PgMarkFinalizationFailed(d, o), MemMarkFinalizationFailed(d, o))
           /\ PgMarkFinalizationFailed(d, o).row \in DocumentRows
<1>1. PICK u \in DocumentRows : u = Unleased(d) /\ u.version = d.version /\ u.state = d.state
  BY UnleasedIsRow
<1>2. PICK st : st = (IF d.state = "finalizing" THEN "finalization_failed" ELSE d.state)
  OBVIOUS
<1>3. PICK m : m = [u EXCEPT !.version = u.version + 1, !.state = st]
  OBVIOUS
<1>4. PICK p : p = [u EXCEPT !.state = "finalization_failed", !.version = u.version + 1]
  OBVIOUS
<1>5. PgMarkFinalizationFailed(d, o)
        = IF d.owner = o /\ d.state = "finalizing" THEN Ok(p)
          ELSE IF d = NoDocument THEN Refuse(d, "not_found") ELSE Ok(d)
  BY <1>1, <1>4 DEF PgMarkFinalizationFailed
<1>6. MemMarkFinalizationFailed(d, o)
        = IF d = NoDocument THEN Refuse(d, "not_found")
          ELSE IF d.owner # o /\ d.state # "finalizing" THEN Ok(d) ELSE Ok(m)
  BY <1>1, <1>2, <1>3 DEF MemMarkFinalizationFailed
<1>7. p \in DocumentRows
  <2>1. u.version + 1 \in Nat /\ "finalization_failed" \in DocumentStates
    BY DEF DocumentRows, DocumentStates
  <2> QED
    BY <1>4, <2>1 DEF DocumentRows
<1>8. d.state = "finalizing" => p = m
  BY <1>2, <1>3, <1>4 DEF DocumentRows
<1>9. m.version = d.version + 1 /\ p.version = d.version + 1 /\ d.version \in Nat
  BY <1>1, <1>3, <1>4 DEF DocumentRows
<1>10. m # d /\ p # d
  BY <1>9
<1>11. d = NoDocument => d.owner # o /\ d.state # "finalizing"
  BY DEF NoDocument, NewDocument
<1> QED
  BY <1>5, <1>6, <1>7, <1>8, <1>10, <1>11 DEF Agrees, Ok, Refuse

\* releaseProcessingLease.
LEMMA ReleaseProcessingLeaseAgrees ==
    ASSUME NEW d \in DocumentRows, NEW o \in Owners
    PROVE  /\ Agrees(FALSE, PgReleaseProcessingLease(d, o), MemReleaseProcessingLease(d, o))
           /\ PgReleaseProcessingLease(d, o).row \in DocumentRows
<1>1. PICK u \in DocumentRows : u = Unleased(d)
  BY UnleasedIsRow
<1>2. [u EXCEPT !.version = @ + 1] \in DocumentRows
  BY DEF DocumentRows
<1> QED
  BY <1>1, <1>2 DEF Agrees, PgReleaseProcessingLease, MemReleaseProcessingLease, Ok

\* A unit of work that throws after its first call wrote: the adapters differ.
LEMMA RunAgrees ==
    ASSUME NEW d \in DocumentRows, NEW v, d # NoDocument, d.version = v
    PROVE  /\ Agrees(TRUE, PgRun(d, PgMarkSent(d, v)), MemRun(d, MemMarkSent(d, v)))
           /\ PgRun(d, PgMarkSent(d, v)).row \in DocumentRows
<1>1. PICK n : n = [[d EXCEPT !.state = "sent"] EXCEPT !.version = d.version + 1]
  OBVIOUS
<1>2. n.version = d.version + 1 /\ d.version \in Nat
  BY <1>1 DEF DocumentRows
<1>3. n # d
  BY <1>2
<1>4. MemMarkSent(d, v).row = n
  BY <1>1 DEF MemMarkSent, BumpDocument, Ok, Refuse
<1> QED
  BY <1>3, <1>4 DEF Agrees, PgRun, MemRun, Refuse

----------------------------------------------------------------------------
(* Upload sessions.                                                        *)

\* create.
LEMMA CreateUploadAgrees ==
    ASSUME NEW u
    PROVE  /\ Agrees(FALSE, PgCreateUpload(u), MemCreateUpload(u))
           /\ PgCreateUpload(u).row \in UploadRows
BY DEF Agrees, PgCreateUpload, MemCreateUpload, Ok, NewUpload, UploadRows

\* complete: a second completion is refused by the database only, and one of an
\* upload that is not there is reported differently.
LEMMA CompleteUploadAgrees ==
    ASSUME NEW u \in UploadRows
    PROVE  /\ Agrees(u.status # "issued", PgCompleteUpload(u), MemCompleteUpload(u))
           /\ PgCompleteUpload(u).row \in UploadRows
BY DEF Agrees, PgCompleteUpload, MemCompleteUpload, NoUpload, Update, Ok, Refuse, UploadRows

\* markAbandoned: the same.
LEMMA MarkAbandonedAgrees ==
    ASSUME NEW u \in UploadRows
    PROVE  /\ Agrees(u.status # "issued", PgMarkAbandoned(u), MemMarkAbandoned(u))
           /\ PgMarkAbandoned(u).row \in UploadRows
BY DEF Agrees, PgMarkAbandoned, MemMarkAbandoned, NoUpload, Update, Ok, Refuse, UploadRows

----------------------------------------------------------------------------
(* Rows with a unique key.                                                 *)

\* create of an idempotency record: the index is reported differently.
LEMMA CreateIdempotencyAgrees ==
    ASSUME NEW r \in RecordRows
    PROVE  /\ Agrees(r.idempotency # "none", PgCreateIdempotency(r), MemCreateIdempotency(r))
           /\ PgCreateIdempotency(r).row \in RecordRows
BY DEF Agrees, PgCreateIdempotency, MemCreateIdempotency, Ok, Refuse, RecordRows

\* complete of an idempotency record.
LEMMA CompleteIdempotencyAgrees ==
    ASSUME NEW r \in RecordRows
    PROVE  /\ Agrees(FALSE, PgCompleteIdempotency(r), MemCompleteIdempotency(r))
           /\ PgCompleteIdempotency(r).row \in RecordRows
BY DEF Agrees, PgCompleteIdempotency, MemCompleteIdempotency, Update, Ok, Refuse, RecordRows

\* create of a consent.
LEMMA CreateConsentAgrees ==
    ASSUME NEW r \in RecordRows
    PROVE  /\ Agrees(r.consent, PgCreateConsent(r), MemCreateConsent(r))
           /\ PgCreateConsent(r).row \in RecordRows
BY DEF Agrees, PgCreateConsent, MemCreateConsent, Ok, Refuse, RecordRows

\* create of an artifact.
LEMMA CreateArtifactAgrees ==
    ASSUME NEW r \in RecordRows
    PROVE  /\ Agrees(r.artifact, PgCreateArtifact(r), MemCreateArtifact(r))
           /\ PgCreateArtifact(r).row \in RecordRows
BY DEF Agrees, PgCreateArtifact, MemCreateArtifact, Ok, Refuse, RecordRows
----------------------------------------------------------------------------
(* Signers and their fields.                                               *)

\* replaceAll of the signers: the adapters differ where a removed signer has
\* fields or a kept one has changed since it was created.
LEMMA ReplaceSignersAgrees ==
    ASSUME NEW r \in Rosters, NEW keep \in SUBSET Signers
    PROVE  /\ Agrees(\/ Fielded(r) \ keep # {}
                     \/ \E s \in Present(r) \cap keep : r.signer[s] # NewSigner,
                     PgReplaceSigners(r, keep), MemReplaceSigners(r, keep))
           /\ PgReplaceSigners(r, keep).row \in Rosters
<1>1. PICK ps : ps = [s \in Signers |-> IF s \notin keep THEN NoSigner
                                        ELSE IF s \in Present(r) THEN r.signer[s] ELSE NewSigner]
  OBVIOUS
<1>2. PICK pf : pf = [s \in Signers |-> IF s \in keep THEN r.field[s] ELSE {}]
  OBVIOUS
<1>3. PICK ms : ms = [s \in Signers |-> IF s \in keep THEN NewSigner ELSE NoSigner]
  OBVIOUS
<1>4. PICK p : p = [signer |-> ps, field |-> pf]
  OBVIOUS
<1>5. PICK m : m = [r EXCEPT !.signer = ms]
  OBVIOUS
<1>6. PgReplaceSigners(r, keep) = Ok(p) /\ MemReplaceSigners(r, keep) = Ok(m)
  BY <1>1, <1>2, <1>3, <1>4, <1>5 DEF PgReplaceSigners, MemReplaceSigners
<1>7. m = [signer |-> ms, field |-> r.field]
  BY <1>5 DEF Rosters
<1>8. r.signer \in [Signers -> SignerRows] /\ r.field \in [Signers -> SUBSET {"placed", "completed", "flattened"}]
  BY DEF Rosters
<1>9. NewSigner \in SignerRows /\ NoSigner \in SignerRows
  BY DEF NewSigner, SignerRows
<1>10. p \in Rosters
  <2>1. ps \in [Signers -> SignerRows]
    BY <1>1, <1>8, <1>9
  <2>2. pf \in [Signers -> SUBSET {"placed", "completed", "flattened"}]
    BY <1>2, <1>8
  <2> QED
    BY <1>4, <2>1, <2>2 DEF Rosters
<1>11. p = m <=> (ps = ms /\ pf = r.field)
  BY <1>4, <1>7
<1>12. ps = ms <=> \A s \in Present(r) \cap keep : r.signer[s] = NewSigner
  <2>1. ps = ms => \A s \in Present(r) \cap keep : r.signer[s] = NewSigner
    BY <1>1, <1>3 DEF Present
  <2>2. (\A s \in Present(r) \cap keep : r.signer[s] = NewSigner)
            => \A s \in Signers : ps[s] = ms[s]
    BY <1>1, <1>3
  <2> QED
    BY <1>1, <1>3, <2>1, <2>2
<1>13. pf = r.field <=> Fielded(r) \ keep = {}
  <2>1. pf = r.field => Fielded(r) \ keep = {}
    BY <1>2 DEF Fielded
  <2>2. Fielded(r) \ keep = {} => \A s \in Signers : pf[s] = r.field[s]
    BY <1>2 DEF Fielded
  <2> QED
    BY <1>2, <1>8, <2>1, <2>2
<1> QED
  BY <1>6, <1>10, <1>11, <1>12, <1>13 DEF Agrees, Ok

\* replaceAll of the fields: a field of a signer that is not there breaks the
\* foreign key of the database only.
LEMMA ReplaceFieldsAgrees ==
    ASSUME NEW r \in Rosters, NEW f \in SUBSET Signers
    PROVE  /\ Agrees(~(f \subseteq Present(r)), PgReplaceFields(r, f), MemReplaceFields(r, f))
           /\ PgReplaceFields(r, f).row \in Rosters
<1>1. PICK fs : fs = [s \in Signers |-> IF s \in f THEN {"placed"} ELSE {}]
  OBVIOUS
<1>2. fs \in [Signers -> SUBSET {"placed", "completed", "flattened"}]
  BY <1>1
<1>3. PICK p : p = [r EXCEPT !.field = fs]
  OBVIOUS
<1>4. p \in Rosters
  BY <1>2, <1>3 DEF Rosters
<1>5. /\ PgReplaceFields(r, f) = IF f \subseteq Present(r) THEN Ok(p) ELSE Refuse(r, "unmapped")
      /\ MemReplaceFields(r, f) = Ok(p)
  BY <1>1, <1>3 DEF PgReplaceFields, MemReplaceFields
<1> QED
  BY <1>4, <1>5 DEF Agrees, Ok, Refuse

\* The row of a signer that is there: a status other than absent, a version.
LEMMA PresentSigner ==
    ASSUME NEW r \in Rosters, NEW s \in Signers
    PROVE  /\ s \in Present(r) => r.signer[s] \in [status: {"pending", "declined", "signed"},
                                                   version: Nat \ {0}]
           /\ s \notin Present(r) => r.signer[s] = NoSigner
BY DEF Rosters, SignerRows, Present

\* A marked signer leaves a roster.
LEMMA MarkSignerIsRoster ==
    ASSUME NEW r \in Rosters, NEW s \in Signers, s \in Present(r),
           NEW status \in {"declined", "signed"}
    PROVE  MarkSigner(r, s, status) \in Rosters
<1>1. PICK x : x = [status |-> status, version |-> r.signer[s].version + 1]
  OBVIOUS
<1>2. x \in SignerRows
  BY <1>1, PresentSigner DEF SignerRows
<1>3. PICK g : g = [r.signer EXCEPT ![s] = x]
  OBVIOUS
<1>4. g \in [Signers -> SignerRows]
  BY <1>2, <1>3 DEF Rosters
<1>5. MarkSigner(r, s, status) = [r EXCEPT !.signer = g]
  BY <1>1, <1>3 DEF MarkSigner
<1> QED
  BY <1>4, <1>5 DEF Rosters

\* markDeclined of a signer: the adapters differ for one that is not there.
LEMMA MarkSignerDeclinedAgrees ==
    ASSUME NEW r \in Rosters, NEW s \in Signers, NEW v
    PROVE  /\ Agrees(s \notin Present(r), PgMarkSignerDeclined(r, s, v), MemMarkSignerDeclined(r, s, v))
           /\ PgMarkSignerDeclined(r, s, v).row \in Rosters
<1>1. CASE s \notin Present(r)
  <2>1. r.signer[s] # [status |-> "pending", version |-> v]
    BY <1>1, PresentSigner DEF NoSigner
  <2> QED
    BY <1>1, <2>1 DEF Agrees, PgMarkSignerDeclined, MemMarkSignerDeclined, Update, Refuse
<1>2. CASE s \in Present(r)
  <2>1. r.signer[s] = [status |-> "pending", version |-> v]
            <=> r.signer[s].version = v /\ r.signer[s].status = "pending"
    BY <1>2, PresentSigner
  <2>2. PICK n \in Rosters : n = MarkSigner(r, s, "declined")
    BY <1>2, MarkSignerIsRoster
  <2> QED
    BY <1>2, <2>1, <2>2 DEF Agrees, PgMarkSignerDeclined, MemMarkSignerDeclined, Update, Ok, Refuse
<1> QED
  BY <1>1, <1>2

\* markSigned: the adapters differ for a signer that is not there.
LEMMA MarkSignedAgrees ==
    ASSUME NEW r \in Rosters, NEW s \in Signers, NEW v
    PROVE  /\ Agrees(s \notin Present(r), PgMarkSigned(r, s, v), MemMarkSigned(r, s, v))
           /\ PgMarkSigned(r, s, v).row \in Rosters
<1>1. CASE s \notin Present(r)
  <2>1. r.signer[s] # [status |-> "pending", version |-> v] /\ r.signer[s].status # "signed"
    BY <1>1, PresentSigner DEF NoSigner
  <2> QED
    BY <1>1, <2>1 DEF Agrees, PgMarkSigned, MemMarkSigned, Update, Refuse
<1>2. CASE s \in Present(r)
  <2>1. r.signer[s] = [status |-> "pending", version |-> v]
            <=> r.signer[s].version = v /\ r.signer[s].status = "pending"
    BY <1>2, PresentSigner
  <2>2. PICK n \in Rosters : n = MarkSigner(r, s, "signed")
    BY <1>2, MarkSignerIsRoster
  <2> QED
    BY <1>2, <2>1, <2>2 DEF Agrees, PgMarkSigned, MemMarkSigned, Update, Ok, Refuse
<1> QED
  BY <1>1, <1>2

\* An event of a field leaves a roster.
LEMMA FieldEventIsRoster ==
    ASSUME NEW r \in Rosters, NEW s \in Signers, NEW event \in {"completed", "flattened"}
    PROVE  FieldEvent(r, s, event) \in Rosters
<1>1. PICK x : x = r.field[s] \cup {event}
  OBVIOUS
<1>2. x \in SUBSET {"placed", "completed", "flattened"}
  BY <1>1 DEF Rosters
<1>3. PICK g : g = [r.field EXCEPT ![s] = x]
  OBVIOUS
<1>4. g \in [Signers -> SUBSET {"placed", "completed", "flattened"}]
  BY <1>2, <1>3 DEF Rosters
<1>5. FieldEvent(r, s, event) = [r EXCEPT !.field = g]
  BY <1>1, <1>3 DEF FieldEvent
<1> QED
  BY <1>4, <1>5 DEF Rosters

\* complete of a field.
LEMMA CompleteFieldAgrees ==
    ASSUME NEW r \in Rosters, NEW s \in Signers
    PROVE  /\ Agrees(FALSE, PgCompleteField(r, s), MemCompleteField(r, s))
           /\ PgCompleteField(r, s).row \in Rosters
BY FieldEventIsRoster DEF Agrees, PgCompleteField, MemCompleteField, Update, Ok, Refuse

\* markFlattened of a field.
LEMMA MarkFlattenedAgrees ==
    ASSUME NEW r \in Rosters, NEW s \in Signers
    PROVE  /\ Agrees(FALSE, PgMarkFlattened(r, s), MemMarkFlattened(r, s))
           /\ PgMarkFlattened(r, s).row \in Rosters
BY FieldEventIsRoster DEF Agrees, PgMarkFlattened, MemMarkFlattened, Update, Ok, Refuse
----------------------------------------------------------------------------
(* Signing sessions.                                                       *)

\* A session replaced by a session row leaves a table of sessions.
LEMMA SessionWrite ==
    ASSUME NEW r \in [Sessions -> SessionRows], NEW i \in Sessions
    PROVE  /\ \A x \in SessionRows : [r EXCEPT ![i] = x] \in [Sessions -> SessionRows]
           /\ \A status \in {"completed", "revoked", "expired"} :
                 WithStatus(r, i, status) \in [Sessions -> SessionRows]
           /\ Presented(r, i) \in [Sessions -> SessionRows]
<1>1. \A x \in SessionRows : [r EXCEPT ![i] = x] \in [Sessions -> SessionRows]
  OBVIOUS
<1>2. ASSUME NEW status \in {"completed", "revoked", "expired"}
      PROVE  WithStatus(r, i, status) \in [Sessions -> SessionRows]
  <2>1. [r[i] EXCEPT !.status = status] \in SessionRows
    BY DEF SessionRows
  <2> QED
    BY <1>1, <2>1 DEF WithStatus
<1>3. [r[i] EXCEPT !.status = "active", !.presented = TRUE] \in SessionRows
  BY DEF SessionRows
<1> QED
  BY <1>1, <1>2, <1>3 DEF Presented

\* create: a second open session is reported differently.
LEMMA CreateSessionAgrees ==
    ASSUME NEW r \in [Sessions -> SessionRows], NEW i \in Sessions
    PROVE  /\ Agrees(OpenSessions(r) # {}, PgCreateSession(r, i), MemCreateSession(r, i))
           /\ PgCreateSession(r, i).row \in [Sessions -> SessionRows]
<1>1. NewSession \in SessionRows
  BY DEF NewSession, SessionRows
<1>2. PICK n \in [Sessions -> SessionRows] : n = [r EXCEPT ![i] = NewSession]
  BY <1>1
<1> QED
  BY <1>2 DEF Agrees, PgCreateSession, MemCreateSession, Ok, Refuse

\* A session that is not there has a status of its own.
LEMMA NoSessionStatus ==
    ASSUME NEW x, x = NoSession
    PROVE  x.status = "absent"
BY DEF NoSession

\* revoke.
LEMMA RevokeAgrees ==
    ASSUME NEW r \in [Sessions -> SessionRows], NEW i \in Sessions
    PROVE  /\ Agrees(r[i] = NoSession, PgRevoke(r, i), MemRevoke(r, i))
           /\ PgRevoke(r, i).row \in [Sessions -> SessionRows]
BY SessionWrite, NoSessionStatus DEF Agrees, PgRevoke, MemRevoke, OpenStatus, Update, Ok, Refuse

\* markPresented.
LEMMA MarkPresentedAgrees ==
    ASSUME NEW r \in [Sessions -> SessionRows], NEW i \in Sessions
    PROVE  /\ Agrees(FALSE, PgMarkPresented(r, i), MemMarkPresented(r, i))
           /\ PgMarkPresented(r, i).row \in [Sessions -> SessionRows]
BY SessionWrite, NoSessionStatus DEF Agrees, PgMarkPresented, MemMarkPresented, OpenStatus, Update, Ok, Refuse

\* markExpired.
LEMMA MarkExpiredAgrees ==
    ASSUME NEW r \in [Sessions -> SessionRows], NEW i \in Sessions
    PROVE  /\ Agrees(r[i] = NoSession, PgMarkExpired(r, i), MemMarkExpired(r, i))
           /\ PgMarkExpired(r, i).row \in [Sessions -> SessionRows]
BY SessionWrite, NoSessionStatus DEF Agrees, PgMarkExpired, MemMarkExpired, OpenStatus, Update, Ok, Refuse

\* consumeAndRotate.
LEMMA ConsumeAndRotateAgrees ==
    ASSUME NEW r \in [Sessions -> SessionRows], NEW i \in Sessions, NEW v
    PROVE  /\ Agrees(r[i] = NoSession, PgConsumeAndRotate(r, i, v), MemConsumeAndRotate(r, i, v))
           /\ PgConsumeAndRotate(r, i, v).row \in [Sessions -> SessionRows]
<1>1. Rotated(r[i]) \in SessionRows
  BY DEF Rotated, SessionRows
<1>2. PICK n \in [Sessions -> SessionRows] : n = [r EXCEPT ![i] = Rotated(r[i])]
  BY <1>1
<1>3. PgConsumeAndRotate(r, i, v)
        = IF r[i].version = v /\ ~r[i].consumed /\ r[i].status \in OpenStatus
          THEN Ok(n) ELSE Refuse(r, "conflict")
  BY <1>2 DEF PgConsumeAndRotate, Update
<1>4. MemConsumeAndRotate(r, i, v)
        = IF r[i] = NoSession THEN Refuse(r, "not_found")
          ELSE IF r[i].version = v /\ ~r[i].consumed /\ r[i].status \in OpenStatus
          THEN Ok(n) ELSE Refuse(r, "conflict")
  BY <1>2 DEF MemConsumeAndRotate
<1>5. r[i] = NoSession => r[i].status \notin OpenStatus
  BY NoSessionStatus DEF OpenStatus
<1> QED
  BY <1>2, <1>3, <1>4, <1>5 DEF Agrees, Ok, Refuse

\* markCompleted.
LEMMA MarkSessionCompletedAgrees ==
    ASSUME NEW r \in [Sessions -> SessionRows], NEW i \in Sessions
    PROVE  /\ Agrees(r[i] = NoSession, PgMarkSessionCompleted(r, i), MemMarkSessionCompleted(r, i))
           /\ PgMarkSessionCompleted(r, i).row \in [Sessions -> SessionRows]
BY SessionWrite, NoSessionStatus DEF Agrees, PgMarkSessionCompleted, MemMarkSessionCompleted, OpenStatus, Update, Ok, Refuse

----------------------------------------------------------------------------
(* The outbox.                                                             *)

\* Every set of numbers that is not empty has a least element.
LEMMA LeastNumber ==
    ASSUME NEW T \in SUBSET Nat, T # {}
    PROVE  \E x \in T : \A y \in T : x <= y
<1>1. IsWellFoundedOn(OpToRel(<, Nat), Nat)
  BY NatLessThanWellFounded, Zenon
<1>2. PICK x \in T : \A y \in T : ~(<<y, x>> \in OpToRel(<, Nat))
  BY <1>1, WFMin, Zenon
<1>3. \A y \in T : ~(y < x)
  BY <1>2 DEF OpToRel
<1> QED
  BY <1>3

\* LastAt is the latest availableAt of the queue.
LEMMA LastAtIsLatest ==
    ASSUME NEW q \in Queues, NEW e0 \in Events
    PROVE  LastAt(q) \in Nat /\ \A e \in Events : q[e].at <= LastAt(q)
<1>1. \A e \in Events : q[e].at \in Nat
  BY DEF Queues, EventRows
<1>2. PICK U : U = {n \in Nat : \A e \in Events : q[e].at <= n}
  OBVIOUS
<1>3. U \in SUBSET Nat /\ U # {}
  BY <1>2 DEF Queues
<1>4. PICK n \in U : \A m \in U : n <= m
  BY <1>3, LeastNumber
<1>5. n \in {q[e].at : e \in Events}
  <2> SUFFICES ASSUME \A e \in Events : q[e].at # n
               PROVE  FALSE
    OBVIOUS
  <2>1. \A e \in Events : q[e].at <= n /\ q[e].at # n
    BY <1>2, <1>4
  <2>2. n \in Nat /\ q[e0].at \in Nat /\ q[e0].at < n
    BY <1>1, <1>2, <2>1
  <2>3. n - 1 \in Nat /\ \A e \in Events : q[e].at <= n - 1
    BY <1>1, <2>1, <2>2
  <2>4. n - 1 \in U
    BY <1>2, <2>3
  <2>5. n <= n - 1
    BY <1>4, <2>4
  <2> QED
    BY <2>2, <2>5
<1>6. \E k \in {q[e].at : e \in Events} : \A e \in Events : q[e].at <= k
  BY <1>2, <1>4, <1>5
<1>7. LastAt(q) \in {q[e].at : e \in Events} /\ \A e \in Events : q[e].at <= LastAt(q)
  BY <1>6 DEF LastAt
<1> QED
  BY <1>1, <1>7

\* The event that a claim picks is one of the queue.
LEMMA PicksAreClaimable ==
    ASSUME NEW q \in Queues, Claimable(q) # {}
    PROVE  PgPick(q) \in Claimable(q) /\ MemPick(q) \in Claimable(q)
<1>1. Claimable(q) \in SUBSET Events
  BY DEF Claimable
<1>2. Events \in SUBSET Nat
  BY DEF Events
<1>3. \A e \in Events : q[e].at \in Nat
  BY DEF Queues, EventRows
<1>4. PICK T : T = {q[e].at : e \in Claimable(q)}
  OBVIOUS
<1>5. T \in SUBSET Nat /\ T # {}
  BY <1>1, <1>3, <1>4
<1>6. PICK x \in T : \A y \in T : x <= y
  BY <1>5, LeastNumber
<1>7. \E e \in Claimable(q) : \A f \in Claimable(q) : q[e].at <= q[f].at
  BY <1>4, <1>6
<1>8. \E e \in Claimable(q) : \A f \in Claimable(q) : e <= f
  BY <1>1, <1>2, LeastNumber
<1> QED
  BY <1>7, <1>8 DEF PgPick, MemPick

\* An event replaced by a sound event leaves a queue.
LEMMA EventWrite ==
    ASSUME NEW q \in Queues, NEW e \in Events, NEW x \in EventRows, EventOK(x)
    PROVE  [q EXCEPT ![e] = x] \in Queues
<1>1. q \in [Events -> EventRows] /\ \A f \in Events : EventOK(q[f])
  BY DEF Queues
<1>2. PICK n \in Nat : \A f \in Events : q[f].at <= n
  BY DEF Queues
<1>3. PICK r : r = [q EXCEPT ![e] = x]
  OBVIOUS
<1>4. r \in [Events -> EventRows] /\ \A f \in Events : r[f] = IF f = e THEN x ELSE q[f]
  BY <1>1, <1>3
<1>5. \A f \in Events : EventOK(r[f])
  BY <1>1, <1>4
<1>6. \A f \in Events : q[f].at \in Nat /\ x.at \in Nat
  BY <1>1 DEF EventRows
<1>7. n + x.at \in Nat /\ \A f \in Events : r[f].at <= n + x.at
  BY <1>2, <1>4, <1>6
<1> QED
  BY <1>3, <1>4, <1>5, <1>7 DEF Queues

\* A claimed event is sound.
LEMMA LeasedIsSound ==
    ASSUME NEW x \in EventRows, NEW o \in Owners, NEW first \in Nat
    PROVE  /\ Leased(x, o, first) \in EventRows
           /\ EventOK(Leased(x, o, first))
           /\ Leased(x, o, first).attempts = x.attempts + 1
<1>1. PICK n : n = IF x.job = "absent" THEN first ELSE x.jobAttempts + 1
  OBVIOUS
<1>2. n \in Nat /\ x.attempts + 1 \in Nat
  BY <1>1 DEF EventRows
<1>3. PICK y : y = [x EXCEPT !.status = "processing", !.owner = o, !.lease = "live",
                             !.attempts = x.attempts + 1, !.job = "leased", !.jobOwner = o,
                             !.jobAttempts = n]
  OBVIOUS
<1>4. Leased(x, o, first) = y
  BY <1>1, <1>3 DEF Leased
<1>5. y \in EventRows
  BY <1>2, <1>3 DEF EventRows
<1>6. y.status = "processing" /\ y.job = "leased" /\ y.owner = o /\ y.jobOwner = o
  BY <1>3 DEF EventRows
<1>7. y.attempts = x.attempts + 1
  BY <1>3 DEF EventRows
<1> QED
  BY <1>4, <1>5, <1>6, <1>7 DEF EventOK

\* claimNextByType: the adapters differ where the earliest due event is not the
\* first of the array.
LEMMA ClaimNextByTypeAgrees ==
    ASSUME NEW q \in Queues, NEW o \in Owners
    PROVE  /\ Agrees(Claimable(q) # {} /\ PgPick(q) # MemPick(q),
                     PgClaimNextByType(q, o), MemClaimNextByType(q, o))
           /\ PgClaimNextByType(q, o).row \in Queues
<1>1. CASE Claimable(q) = {}
  BY <1>1 DEF Agrees, PgClaimNextByType, MemClaimNextByType, Refuse
<1>2. CASE Claimable(q) # {}
  <2>1. q \in [Events -> EventRows] /\ \A f \in Events : EventOK(q[f])
    BY DEF Queues
  <2>2. PICK e \in Events : e = PgPick(q)
    BY <1>2, PicksAreClaimable DEF Claimable
  <2>3. PICK m \in Events : m = MemPick(q)
    BY <1>2, PicksAreClaimable DEF Claimable
  <2>4. PICK x : x = Leased(q[e], o, q[e].attempts + 1)
    OBVIOUS
  <2>5. PICK y : y = Leased(q[m], o, 1)
    OBVIOUS
  <2>6. q[e] \in EventRows /\ q[e].attempts \in Nat /\ q[e].attempts + 1 \in Nat
    BY <2>1 DEF EventRows
  <2>7. x \in EventRows /\ EventOK(x) /\ x.attempts = q[e].attempts + 1
    BY <2>4, <2>6, LeasedIsSound
  <2>8. PICK p \in Queues : p = [q EXCEPT ![e] = x]
    BY <2>7, EventWrite
  <2>9. PICK r : r = [q EXCEPT ![m] = y]
    OBVIOUS
  <2>10. PgClaimNextByType(q, o) = Ok(p) /\ MemClaimNextByType(q, o) = Ok(r)
    BY <1>2, <2>2, <2>3, <2>4, <2>5, <2>8, <2>9 DEF PgClaimNextByType, MemClaimNextByType
  <2>11. e = m => p = r
    <3>1. q[e].job = "absent" => q[e].attempts + 1 = 1
      BY <2>1, <2>6 DEF EventOK
    <3>2. e = m => x = y
      BY <2>4, <2>5, <3>1 DEF Leased
    <3> QED
      BY <2>8, <2>9, <3>2
  <2>12. e # m => p # r
    <3>1. p[e] = x
      BY <2>1, <2>8
    <3>2. e # m => r[e] = q[e]
      BY <2>1, <2>9
    <3>3. x # q[e]
      BY <2>6, <2>7
    <3> QED
      BY <3>1, <3>2, <3>3
  <2> QED
    BY <1>2, <2>2, <2>3, <2>10, <2>11, <2>12 DEF Agrees, Ok
<1> QED
  BY <1>1, <1>2

\* Whoever holds a sound event holds its job, and the other way round.
LEMMA HoldsBoth ==
    ASSUME NEW x \in EventRows, EventOK(x), NEW o \in Owners
    PROVE  /\ HoldsEvent(x, o) <=> HoldsJob(x, o)
           /\ HoldsEvent(x, o) => x.jobOwner = o
BY DEF HoldsEvent, HoldsJob, EventOK, EventRows

\* An event that is settled with its job is sound, and the only outcome that the
\* database can store for its holder.
LEMMA SettledIsSound ==
    ASSUME NEW x \in EventRows, EventOK(x), NEW o \in Owners, NEW at \in Nat,
           NEW status \in {"pending", "processed", "failed"},
           NEW job \in {"pending", "succeeded", "failed"}
    PROVE  \E y \in EventRows :
              /\ EventOK(y)
              /\ y = JobSettled(EventSettled(x, status, at), job)
              /\ PgSettle(x, o, status, job, at) = IF HoldsEvent(x, o) THEN Ok(y) ELSE Ok(x)
              /\ ApplyOutcome(x, o, status, job, at) = IF HoldsEvent(x, o) THEN Ok(y) ELSE Ok(x)
<1>1. PICK z : z = [x EXCEPT !.status = status, !.owner = Null, !.lease = "none", !.at = at]
  OBVIOUS
<1>2. z = EventSettled(x, status, at)
  BY <1>1 DEF EventSettled
<1>3. z \in EventRows /\ z.status = status /\ z.owner = Null
  BY <1>1 DEF EventRows
<1>4. PICK y : y = [z EXCEPT !.job = job, !.jobOwner = Null]
  OBVIOUS
<1>5. y \in EventRows /\ y.status = status /\ y.owner = Null /\ y.job = job /\ y.jobOwner = Null
  BY <1>3, <1>4 DEF EventRows
<1>6. EventOK(y)
  BY <1>5 DEF EventOK
<1>7. y = JobSettled(EventSettled(x, status, at), job)
  BY <1>2, <1>4 DEF JobSettled
<1>8. PgSettle(x, o, status, job, at) = IF HoldsEvent(x, o) THEN Ok(y) ELSE Ok(x)
  BY <1>7, HoldsBoth DEF PgSettle
<1>9. ApplyOutcome(x, o, status, job, at) = IF HoldsEvent(x, o) THEN Ok(y) ELSE Ok(x)
  BY <1>7, HoldsBoth DEF ApplyOutcome
<1> QED
  BY <1>5, <1>6, <1>7, <1>8, <1>9

\* Answers about an event that are the same and sound make the same queue.
LEMMA AtAgrees ==
    ASSUME NEW q \in Queues, NEW e \in Events, NEW x \in EventRows, EventOK(x),
           NEW p, NEW m, p = Ok(x), m = Ok(x)
    PROVE  /\ Agrees(FALSE, At(q, e, p), At(q, e, m))
           /\ At(q, e, p).row \in Queues
<1>1. PICK n \in Queues : n = [q EXCEPT ![e] = x]
  BY EventWrite
<1>2. At(q, e, p) = [row |-> n, result |-> "ok"] /\ At(q, e, m) = [row |-> n, result |-> "ok"]
  BY <1>1 DEF At, Ok
<1> QED
  BY <1>1, <1>2 DEF Agrees

\* markProcessed.
LEMMA MarkProcessedAgrees ==
    ASSUME NEW q \in Queues, NEW e \in Events, NEW o \in Owners
    PROVE  /\ Agrees(FALSE, PgMarkProcessed(q, e, o), MemMarkProcessed(q, e, o))
           /\ PgMarkProcessed(q, e, o).row \in Queues
<1>1. PICK x \in EventRows : x = q[e] /\ EventOK(x) /\ x.at \in Nat
  BY DEF Queues, EventRows
<1>2. PICK y \in EventRows :
         /\ EventOK(y)
         /\ y = JobSettled(EventSettled(x, "processed", x.at), "succeeded")
         /\ PgSettle(x, o, "processed", "succeeded", x.at)
              = IF HoldsEvent(x, o) THEN Ok(y) ELSE Ok(x)
  <2>1. PICK at \in Nat : at = x.at
    BY <1>1
  <2>2. PICK status \in {"pending", "processed", "failed"} : status = "processed"
    OBVIOUS
  <2>3. PICK job \in {"pending", "succeeded", "failed"} : job = "succeeded"
    OBVIOUS
  <2>4. \E y \in EventRows :
           /\ EventOK(y)
           /\ y = JobSettled(EventSettled(x, status, at), job)
           /\ PgSettle(x, o, status, job, at) = IF HoldsEvent(x, o) THEN Ok(y) ELSE Ok(x)
           /\ ApplyOutcome(x, o, status, job, at) = IF HoldsEvent(x, o) THEN Ok(y) ELSE Ok(x)
    <3>1. EventOK(x)
      BY <1>1
    <3> QED
      BY <3>1, SettledIsSound
  <2> QED
    BY <2>1, <2>2, <2>3, <2>4
<1>3. PICK z \in EventRows : EventOK(z) /\ z = IF HoldsEvent(x, o) THEN y ELSE x
  BY <1>1, <1>2
<1>4. PICK m : m = IF ~HoldsEvent(x, o) THEN Ok(x)
                   ELSE Ok(IF HoldsJob(x, o)
                           THEN JobSettled(EventSettled(x, "processed", x.at), "succeeded")
                           ELSE EventSettled(x, "processed", x.at))
  OBVIOUS
<1>5. m = Ok(z)
  BY <1>1, <1>2, <1>3, <1>4, HoldsBoth
<1>6. PICK p : p = PgSettle(x, o, "processed", "succeeded", x.at)
  OBVIOUS
<1>7. p = Ok(z)
  BY <1>2, <1>3, <1>6
<1>8. /\ Agrees(FALSE, At(q, e, p), At(q, e, m))
      /\ At(q, e, p).row \in Queues
  BY <1>3, <1>5, <1>7, AtAgrees
<1>9. MemMarkProcessed(q, e, o) = At(q, e, m)
  BY <1>1, <1>4 DEF MemMarkProcessed
<1>10. PgMarkProcessed(q, e, o) = At(q, e, p)
  BY <1>1, <1>6 DEF PgMarkProcessed
<1> QED
  BY <1>8, <1>9, <1>10

\* What a retry and a dead letter have in common.
LEMMA OutcomeAgrees ==
    ASSUME NEW q \in Queues, NEW e \in Events, NEW o \in Owners, NEW at \in Nat,
           NEW status \in {"pending", "failed"}
    PROVE  /\ Agrees(FALSE, At(q, e, PgSettle(q[e], o, status, status, at)),
                            At(q, e, ApplyOutcome(q[e], o, status, status, at)))
           /\ At(q, e, PgSettle(q[e], o, status, status, at)).row \in Queues
<1>1. PICK x \in EventRows : x = q[e] /\ EventOK(x)
  BY DEF Queues
<1>2. PICK y \in EventRows :
         /\ EventOK(y)
         /\ PgSettle(x, o, status, status, at) = IF HoldsEvent(x, o) THEN Ok(y) ELSE Ok(x)
         /\ ApplyOutcome(x, o, status, status, at) = IF HoldsEvent(x, o) THEN Ok(y) ELSE Ok(x)
  BY <1>1, SettledIsSound
<1>3. PICK z \in EventRows : EventOK(z) /\ z = IF HoldsEvent(x, o) THEN y ELSE x
  BY <1>1, <1>2
<1>4. PICK p : p = PgSettle(q[e], o, status, status, at)
  OBVIOUS
<1>5. PICK m : m = ApplyOutcome(q[e], o, status, status, at)
  OBVIOUS
<1>6. p = Ok(z) /\ m = Ok(z)
  BY <1>1, <1>2, <1>3, <1>4, <1>5
<1>7. /\ Agrees(FALSE, At(q, e, p), At(q, e, m))
      /\ At(q, e, p).row \in Queues
  BY <1>3, <1>6, AtAgrees
<1> QED
  BY <1>4, <1>5, <1>7

\* scheduleRetry.
LEMMA ScheduleRetryAgrees ==
    ASSUME NEW q \in Queues, NEW e \in Events, NEW o \in Owners
    PROVE  /\ Agrees(FALSE, PgScheduleRetry(q, e, o), MemScheduleRetry(q, e, o))
           /\ PgScheduleRetry(q, e, o).row \in Queues
<1>1. PICK at \in Nat : at = LastAt(q) + 1
  BY LastAtIsLatest
<1> QED
  BY <1>1, OutcomeAgrees DEF PgScheduleRetry, MemScheduleRetry

\* markDeadLettered.
LEMMA MarkDeadLetteredAgrees ==
    ASSUME NEW q \in Queues, NEW e \in Events, NEW o \in Owners
    PROVE  /\ Agrees(FALSE, PgMarkDeadLettered(q, e, o), MemMarkDeadLettered(q, e, o))
           /\ PgMarkDeadLettered(q, e, o).row \in Queues
<1>1. PICK at \in Nat : at = q[e].at
  BY DEF Queues, EventRows
<1> QED
  BY <1>1, OutcomeAgrees DEF PgMarkDeadLettered, MemMarkDeadLettered
----------------------------------------------------------------------------
(* The inductive invariant, action by action.                              *)

\* A call whose answers agree as they should leaves the agreement, and touches
\* neither the port nor the audit double.
LEMMA CallKeepsAgreement ==
    ASSUME AuditInv, NEW known \in BOOLEAN, NEW p, NEW m,
           Call(known, p, m), Agrees(known, p, m)
    PROVE  Agreement' /\ AuditInv' /\ port' = port /\ pg' = p.row
<1>1. audit' = audit /\ port' = port /\ pg' = p.row /\ mem' = m.row
  BY DEF Call
<1>2. AuditInv'
  BY <1>1 DEF AuditInv, AuditTyped, ReaderHeadsChain, HeadOfChain, Numbered
<1>3. last'.pg = p.result /\ last'.mem = m.result /\ last'.known = known
  BY DEF Call
<1>4. (last'.pg = last'.mem /\ pg' = mem') <=> ~known
  BY <1>1, <1>3 DEF Agrees
<1>5. (last'.pg = last'.mem /\ pg' = mem') <=> ~last'.known
  BY <1>3, <1>4, Zenon
<1> QED
  BY <1>1, <1>2, <1>5 DEF Agreement

\* A port's rows stay typed if the new ones are.
LEMMA PortTyped ==
    ASSUME port' = port,
           \/ port = "documents" /\ pg' \in DocumentRows
           \/ port = "uploads" /\ pg' \in UploadRows
           \/ port = "signers" /\ pg' \in Rosters
           \/ port = "sessions" /\ pg' \in [Sessions -> SessionRows]
           \/ port = "records" /\ pg' \in RecordRows
           \/ port = "queue" /\ pg' \in Queues
    PROVE  RowsTyped'
BY DEF RowsTyped

\* Documents.
LEMMA DocumentCallKeeps ==
    ASSUME AdaptersInv, NEW v, DocumentCall(v)
    PROVE  AdaptersInv'
<1>1. port = "documents" /\ pg = mem /\ AuditInv
  BY DEF DocumentCall, Call, AdaptersInv
<1>2. PICK d \in DocumentRows : d = pg /\ d = mem
  BY <1>1 DEF AdaptersInv, RowsTyped
<1>3. \E known \in BOOLEAN : \E p, m :
         Call(known, p, m) /\ Agrees(known, p, m) /\ p.row \in DocumentRows
  <2>1. CASE Call(d = NoDocument, PgAttachSourceRevision(d, v), MemAttachSourceRevision(d, v))
    BY <2>1, AttachSourceRevisionAgrees, Zenon
  <2>2. CASE Call(d = NoDocument, PgSetInspectionStatus(d, v), MemSetInspectionStatus(d, v))
    BY <2>2, SetInspectionStatusAgrees, Zenon
  <2>3. CASE Call(d = NoDocument, PgSetSigningMode(d, v), MemSetSigningMode(d, v))
    BY <2>3, SetSigningModeAgrees, Zenon
  <2>4. CASE Call(d = NoDocument, PgSetPreparationState(d, v), MemSetPreparationState(d, v))
    BY <2>4, SetPreparationStateAgrees, Zenon
  <2>5. CASE Call(d = NoDocument, PgMarkSent(d, v), MemMarkSent(d, v))
    BY <2>5, MarkSentAgrees, Zenon
  <2>6. CASE Call(d = NoDocument, PgMarkDeclined(d, v), MemMarkDeclined(d, v))
    BY <2>6, MarkDeclinedAgrees, Zenon
  <2>7. CASE Call(d = NoDocument, PgMarkVoided(d, v), MemMarkVoided(d, v))
    BY <2>7, MarkVoidedAgrees, Zenon
  <2>8. CASE Call(d = NoDocument, PgMarkInProgress(d, v), MemMarkInProgress(d, v))
    BY <2>8, MarkInProgressAgrees, Zenon
  <2>9. CASE Call(d = NoDocument, PgMarkCompleted(d, v), MemMarkCompleted(d, v))
    BY <2>9, MarkCompletedAgrees, Zenon
  <2>10. ASSUME d # NoDocument, d.version = v,
                Call(TRUE, PgRun(pg, PgMarkSent(pg, v)), MemRun(mem, MemMarkSent(mem, v)))
         PROVE  \E known \in BOOLEAN : \E p, m :
                   Call(known, p, m) /\ Agrees(known, p, m) /\ p.row \in DocumentRows
    BY <1>2, <2>10, RunAgrees, Zenon
  <2>11. CASE Call(FALSE, PgCreateDocument(pg), MemCreateDocument(mem))
    BY <1>2, <2>11, CreateDocumentAgrees, Zenon
  <2> QED
    BY <1>2, <2>1, <2>2, <2>3, <2>4, <2>5, <2>6, <2>7, <2>8, <2>9, <2>10, <2>11 DEF DocumentCall
<1> QED
  BY <1>1, <1>3, CallKeepsAgreement, PortTyped DEF AdaptersInv

\* The processing lease.
LEMMA LeaseCallKeeps ==
    ASSUME AdaptersInv, NEW v, NEW o \in Owners, LeaseCall(v, o)
    PROVE  AdaptersInv'
<1>1. port = "documents" /\ pg = mem /\ AuditInv
  BY DEF LeaseCall, Call, AdaptersInv
<1>2. PICK d \in DocumentRows : d = pg /\ d = mem
  BY <1>1 DEF AdaptersInv, RowsTyped
<1>3. \E known \in BOOLEAN : \E p, m :
         Call(known, p, m) /\ Agrees(known, p, m) /\ p.row \in DocumentRows
  <2>1. CASE Call(d = NoDocument, PgClaimProcessingLease(d, v, o), MemClaimProcessingLease(d, v, o))
    BY <2>1, ClaimProcessingLeaseAgrees, Zenon
  <2>2. ASSUME NEW finalize \in BOOLEAN,
               Call(\/ pg = NoDocument
                    \/ /\ finalize /\ pg.version = v /\ pg.owner = o
                       /\ pg.state \notin {"finalizing", "completed"},
                    PgCommitFlattenedRevision(pg, v, o, finalize),
                    MemCommitFlattenedRevision(mem, v, o, finalize))
        PROVE  \E known \in BOOLEAN : \E p, m :
                  Call(known, p, m) /\ Agrees(known, p, m) /\ p.row \in DocumentRows
    <3>1. PICK known : known = (\/ d = NoDocument
                                \/ /\ finalize /\ d.version = v /\ d.owner = o
                                   /\ d.state \notin {"finalizing", "completed"})
      OBVIOUS
    <3>2. known \in BOOLEAN
      BY <3>1
    <3>3. Call(known, PgCommitFlattenedRevision(d, v, o, finalize), MemCommitFlattenedRevision(d, v, o, finalize))
      BY <1>2, <2>2, <3>1
    <3>4. Agrees(known, PgCommitFlattenedRevision(d, v, o, finalize), MemCommitFlattenedRevision(d, v, o, finalize)) /\ PgCommitFlattenedRevision(d, v, o, finalize).row \in DocumentRows
      BY <3>1, CommitFlattenedRevisionAgrees
    <3> QED
      BY <3>2, <3>3, <3>4, Zenon
  <2>3. CASE Call((pg.owner = o) # (pg.state = "finalizing"),
                  PgMarkFinalizationFailed(pg, o), MemMarkFinalizationFailed(mem, o))
    <3>1. PICK known : known = ((d.owner = o) # (d.state = "finalizing"))
      OBVIOUS
    <3>2. known \in BOOLEAN
      BY <3>1
    <3>3. Call(known, PgMarkFinalizationFailed(d, o), MemMarkFinalizationFailed(d, o))
      BY <1>2, <2>3, <3>1
    <3>4. Agrees(known, PgMarkFinalizationFailed(d, o), MemMarkFinalizationFailed(d, o)) /\ PgMarkFinalizationFailed(d, o).row \in DocumentRows
      BY <3>1, MarkFinalizationFailedAgrees
    <3> QED
      BY <3>2, <3>3, <3>4, Zenon
  <2>4. CASE Call(FALSE, PgReleaseProcessingLease(pg, o), MemReleaseProcessingLease(mem, o))
    BY <1>2, <2>4, ReleaseProcessingLeaseAgrees, Zenon
  <2> QED
    BY <1>2, <2>1, <2>2, <2>3, <2>4 DEF LeaseCall
<1> QED
  BY <1>1, <1>3, CallKeepsAgreement, PortTyped DEF AdaptersInv

\* Upload sessions.
LEMMA UploadCallKeeps ==
    ASSUME AdaptersInv, UploadCall
    PROVE  AdaptersInv'
<1>1. port = "uploads" /\ pg = mem /\ AuditInv
  BY DEF UploadCall, Call, AdaptersInv
<1>2. PICK u \in UploadRows : u = pg /\ u = mem
  BY <1>1 DEF AdaptersInv, RowsTyped
<1>3. \E known \in BOOLEAN : \E p, m :
         Call(known, p, m) /\ Agrees(known, p, m) /\ p.row \in UploadRows
  <2>1. CASE Call(pg.status # "issued", PgCompleteUpload(pg), MemCompleteUpload(mem))
    BY <1>2, <2>1, CompleteUploadAgrees, Zenon
  <2>2. CASE Call(pg.status # "issued", PgMarkAbandoned(pg), MemMarkAbandoned(mem))
    BY <1>2, <2>2, MarkAbandonedAgrees, Zenon
  <2>3. CASE Call(FALSE, PgCreateUpload(pg), MemCreateUpload(mem))
    BY <1>2, <2>3, CreateUploadAgrees, Zenon
  <2> QED
    BY <2>1, <2>2, <2>3 DEF UploadCall
<1> QED
  BY <1>1, <1>3, CallKeepsAgreement, PortTyped DEF AdaptersInv

\* Signers and fields.
LEMMA RosterCallKeeps ==
    ASSUME AdaptersInv, RosterCall
    PROVE  AdaptersInv'
<1>1. port = "signers" /\ pg = mem /\ AuditInv
  BY DEF RosterCall, Call, AdaptersInv
<1>2. PICK r \in Rosters : r = pg /\ r = mem
  BY <1>1 DEF AdaptersInv, RowsTyped
<1> DEFINE Sound == \E known \in BOOLEAN : \E p, m :
                       Call(known, p, m) /\ Agrees(known, p, m) /\ p.row \in Rosters
<1>3. Sound
  <2>1. ASSUME NEW keep \in SUBSET Signers,
               Call(\/ Fielded(pg) \ keep # {}
                    \/ \E s \in Present(pg) \cap keep : pg.signer[s] # NewSigner,
                    PgReplaceSigners(pg, keep), MemReplaceSigners(mem, keep))
        PROVE  Sound
    <3>1. PICK known : known = (\/ Fielded(r) \ keep # {}
                             \/ \E s \in Present(r) \cap keep : r.signer[s] # NewSigner)
      OBVIOUS
    <3>2. known \in BOOLEAN
      BY <3>1
    <3>3. Call(known, PgReplaceSigners(r, keep), MemReplaceSigners(r, keep))
      BY <1>2, <2>1, <3>1
    <3>4. Agrees(known, PgReplaceSigners(r, keep), MemReplaceSigners(r, keep)) /\ PgReplaceSigners(r, keep).row \in Rosters
      BY <3>1, ReplaceSignersAgrees
    <3> QED
      BY <3>2, <3>3, <3>4, Zenon
  <2>2. ASSUME NEW f \in SUBSET Signers,
               Call(~(f \subseteq Present(pg)), PgReplaceFields(pg, f), MemReplaceFields(mem, f))
        PROVE  Sound
    <3>1. PICK known : known = (~(f \subseteq Present(r)))
      OBVIOUS
    <3>2. known \in BOOLEAN
      BY <3>1
    <3>3. Call(known, PgReplaceFields(r, f), MemReplaceFields(r, f))
      BY <1>2, <2>2, <3>1
    <3>4. Agrees(known, PgReplaceFields(r, f), MemReplaceFields(r, f)) /\ PgReplaceFields(r, f).row \in Rosters
      BY <3>1, ReplaceFieldsAgrees
    <3> QED
      BY <3>2, <3>3, <3>4, Zenon
  <2>3. ASSUME NEW s \in Signers, NEW v \in {1, 2},
               Call(s \notin Present(pg), PgMarkSignerDeclined(pg, s, v), MemMarkSignerDeclined(mem, s, v))
        PROVE  Sound
    BY <1>2, <2>3, MarkSignerDeclinedAgrees, Zenon
  <2>4. ASSUME NEW s \in Signers, NEW v \in {1, 2},
               Call(s \notin Present(pg), PgMarkSigned(pg, s, v), MemMarkSigned(mem, s, v))
        PROVE  Sound
    BY <1>2, <2>4, MarkSignedAgrees, Zenon
  <2>5. ASSUME NEW s \in Signers, Call(FALSE, PgCompleteField(pg, s), MemCompleteField(mem, s))
        PROVE  Sound
    BY <1>2, <2>5, CompleteFieldAgrees, Zenon
  <2>6. ASSUME NEW s \in Signers, Call(FALSE, PgMarkFlattened(pg, s), MemMarkFlattened(mem, s))
        PROVE  Sound
    BY <1>2, <2>6, MarkFlattenedAgrees, Zenon
  <2> HIDE DEF Sound
  <2> QED
    BY <2>1, <2>2, <2>3, <2>4, <2>5, <2>6, Zenon DEF RosterCall
<1> QED
  BY <1>1, <1>3, CallKeepsAgreement, PortTyped DEF AdaptersInv

\* Signing sessions.
LEMMA SessionCallKeeps ==
    ASSUME AdaptersInv, NEW i \in Sessions, SessionCall(i)
    PROVE  AdaptersInv'
<1>1. port = "sessions" /\ pg = mem /\ AuditInv
  BY DEF SessionCall, Call, AdaptersInv
<1>2. PICK r \in [Sessions -> SessionRows] : r = pg /\ r = mem
  BY <1>1 DEF AdaptersInv, RowsTyped
<1> DEFINE Sound == \E known \in BOOLEAN : \E p, m :
                       /\ Call(known, p, m) /\ Agrees(known, p, m)
                       /\ p.row \in [Sessions -> SessionRows]
<1>3. Sound
  <2>1. CASE Call(OpenSessions(pg) # {}, PgCreateSession(pg, i), MemCreateSession(mem, i))
    BY <1>2, <2>1, CreateSessionAgrees, Zenon
  <2>2. CASE Call(pg[i] = NoSession, PgRevoke(pg, i), MemRevoke(mem, i))
    BY <1>2, <2>2, RevokeAgrees, Zenon
  <2>3. CASE Call(FALSE, PgMarkPresented(pg, i), MemMarkPresented(mem, i))
    BY <1>2, <2>3, MarkPresentedAgrees, Zenon
  <2>4. CASE Call(pg[i] = NoSession, PgMarkExpired(pg, i), MemMarkExpired(mem, i))
    BY <1>2, <2>4, MarkExpiredAgrees, Zenon
  <2>5. ASSUME NEW v \in {1, 2},
               Call(pg[i] = NoSession, PgConsumeAndRotate(pg, i, v), MemConsumeAndRotate(mem, i, v))
        PROVE  Sound
    <3>1. PICK known \in BOOLEAN : known = (r[i] = NoSession)
      OBVIOUS
    <3>2. Call(known, PgConsumeAndRotate(r, i, v), MemConsumeAndRotate(r, i, v))
      BY <1>2, <2>5, <3>1
    <3>3. /\ Agrees(known, PgConsumeAndRotate(r, i, v), MemConsumeAndRotate(r, i, v))
          /\ PgConsumeAndRotate(r, i, v).row \in [Sessions -> SessionRows]
      BY <3>1, ConsumeAndRotateAgrees
    <3> QED
      BY <3>2, <3>3, Zenon
  <2>6. CASE Call(pg[i] = NoSession, PgMarkSessionCompleted(pg, i), MemMarkSessionCompleted(mem, i))
    BY <1>2, <2>6, MarkSessionCompletedAgrees, Zenon
  <2> HIDE DEF Sound
  <2> QED
    BY <2>1, <2>2, <2>3, <2>4, <2>5, <2>6, Zenon DEF SessionCall
<1> QED
  BY <1>1, <1>3, CallKeepsAgreement, PortTyped DEF AdaptersInv

\* Records with a unique key.
LEMMA RecordCallKeeps ==
    ASSUME AdaptersInv, RecordCall
    PROVE  AdaptersInv'
<1>1. port = "records" /\ pg = mem /\ AuditInv
  BY DEF RecordCall, Call, AdaptersInv
<1>2. PICK r \in RecordRows : r = pg /\ r = mem
  BY <1>1 DEF AdaptersInv, RowsTyped
<1>3. \E known \in BOOLEAN : \E p, m :
         Call(known, p, m) /\ Agrees(known, p, m) /\ p.row \in RecordRows
  <2>1. CASE Call(pg.idempotency # "none", PgCreateIdempotency(pg), MemCreateIdempotency(mem))
    BY <1>2, <2>1, CreateIdempotencyAgrees, Zenon
  <2>2. CASE Call(FALSE, PgCompleteIdempotency(pg), MemCompleteIdempotency(mem))
    BY <1>2, <2>2, CompleteIdempotencyAgrees, Zenon
  <2>3. CASE Call(pg.consent, PgCreateConsent(pg), MemCreateConsent(mem))
    <3>1. r.consent \in BOOLEAN
      BY DEF RecordRows
    <3> QED
      BY <1>2, <2>3, <3>1, CreateConsentAgrees, Zenon
  <2>4. CASE Call(pg.artifact, PgCreateArtifact(pg), MemCreateArtifact(mem))
    <3>1. r.artifact \in BOOLEAN
      BY DEF RecordRows
    <3> QED
      BY <1>2, <2>4, <3>1, CreateArtifactAgrees, Zenon
  <2> QED
    BY <2>1, <2>2, <2>3, <2>4 DEF RecordCall
<1> QED
  BY <1>1, <1>3, CallKeepsAgreement, PortTyped DEF AdaptersInv

\* The outbox.
LEMMA QueueCallKeeps ==
    ASSUME AdaptersInv, NEW o \in Owners, QueueCall(o)
    PROVE  AdaptersInv'
<1>1. port = "queue" /\ pg = mem /\ AuditInv
  BY DEF QueueCall, Call, AdaptersInv
<1>2. PICK q \in Queues : q = pg /\ q = mem
  BY <1>1 DEF AdaptersInv, RowsTyped
<1> DEFINE Sound == \E known \in BOOLEAN : \E p, m :
                       Call(known, p, m) /\ Agrees(known, p, m) /\ p.row \in Queues
<1>3. Sound
  <2>1. CASE Call(Claimable(pg) # {} /\ PgPick(pg) # MemPick(pg),
                  PgClaimNextByType(pg, o), MemClaimNextByType(mem, o))
    BY <1>2, <2>1, ClaimNextByTypeAgrees, Zenon
  <2>2. ASSUME NEW e \in Events, Call(FALSE, PgMarkProcessed(pg, e, o), MemMarkProcessed(mem, e, o))
        PROVE  Sound
    BY <1>2, <2>2, MarkProcessedAgrees, Zenon
  <2>3. ASSUME NEW e \in Events, Call(FALSE, PgScheduleRetry(pg, e, o), MemScheduleRetry(mem, e, o))
        PROVE  Sound
    BY <1>2, <2>3, ScheduleRetryAgrees, Zenon
  <2>4. ASSUME NEW e \in Events,
               Call(FALSE, PgMarkDeadLettered(pg, e, o), MemMarkDeadLettered(mem, e, o))
        PROVE  Sound
    BY <1>2, <2>4, MarkDeadLetteredAgrees, Zenon
  <2> HIDE DEF Sound
  <2> QED
    BY <2>1, <2>2, <2>3, <2>4, Zenon DEF QueueCall
<1> QED
  BY <1>1, <1>3, CallKeepsAgreement, PortTyped DEF AdaptersInv
\* A lease that runs out, of a document or an event, runs out on both sides.
LEMMA LeaseExpiresKeeps ==
    ASSUME AdaptersInv, LeaseExpires
    PROVE  AdaptersInv'
<1>1. pg = mem /\ pg' = mem' /\ port' = port /\ last' = last /\ audit' = audit
  BY DEF LeaseExpires
<1>2. Agreement'
  BY <1>1 DEF AdaptersInv, Agreement
<1>3. AuditInv'
  BY <1>1 DEF AdaptersInv, AuditInv, AuditTyped, ReaderHeadsChain, HeadOfChain, Numbered
<1>4. RowsTyped'
  <2>1. CASE port = "documents" /\ pg' = [pg EXCEPT !.lease = "past"]
    <3>1. pg' \in DocumentRows
      BY <2>1 DEF AdaptersInv, RowsTyped, DocumentRows
    <3> QED
      BY <1>1, <2>1, <3>1, PortTyped
  <2>2. ASSUME port = "queue", NEW e \in Events,
               pg' = [pg EXCEPT ![e] = [pg[e] EXCEPT !.lease = "past"]]
        PROVE  RowsTyped'
    <3>1. PICK q \in Queues : q = pg
      BY <2>2 DEF AdaptersInv, RowsTyped
    <3>2. q[e] \in EventRows /\ EventOK(q[e])
      BY DEF Queues
    <3>3. PICK x : x = [q[e] EXCEPT !.lease = "past"]
      OBVIOUS
    <3>4. x \in EventRows /\ EventOK(x)
      BY <3>2, <3>3 DEF EventRows, EventOK
    <3>5. pg' \in Queues
      BY <2>2, <3>1, <3>3, <3>4, EventWrite
    <3> QED
      BY <1>1, <2>2, <3>5, PortTyped
  <2> QED
    BY <2>1, <2>2 DEF LeaseExpires
<1> QED
  BY <1>2, <1>3, <1>4 DEF AdaptersInv

----------------------------------------------------------------------------
(* The audit double.                                                       *)

\* The steps of an append leave the stores alone.
LEMMA AppendKeepsStores ==
    ASSUME RowsTyped, Agreement, UNCHANGED <<port, pg, mem, last>>
    PROVE  RowsTyped' /\ Agreement'
BY DEF RowsTyped, Agreement

\* Two appends are never between their read and their store together.
LEMMA OneReader ==
    ASSUME AuditInv, NEW a \in Appenders, NEW b \in Appenders,
           HeadOfChain(audit, a), HeadOfChain(audit, b),
           audit.pc[a] # "done", audit.pc[b] # "done"
    PROVE  a = b
<1>1. PICK i \in DOMAIN audit.chain :
         audit.chain[i] = a /\ \A j \in 1..(i - 1) : audit.pc[audit.chain[j]] = "done"
  BY DEF HeadOfChain
<1>2. PICK k \in DOMAIN audit.chain :
         audit.chain[k] = b /\ \A j \in 1..(k - 1) : audit.pc[audit.chain[j]] = "done"
  BY DEF HeadOfChain
<1>3. i \in Nat \ {0} /\ k \in Nat \ {0}
  BY DEF AuditInv, AuditTyped
<1>4. ~(i < k) /\ ~(k < i)
  BY <1>1, <1>2, <1>3
<1> QED
  BY <1>1, <1>2, <1>3, <1>4

\* An append that takes its place keeps the order of the others.
LEMMA EnqueueKeeps ==
    ASSUME AdaptersInv, NEW a \in Appenders, Enqueue(a)
    PROVE  AdaptersInv'
<1>1. AuditTyped /\ ReaderHeadsChain /\ Numbered /\ audit.pc[a] = "idle"
  BY DEF AdaptersInv, AuditInv, Enqueue
<1>2. PICK ch : ch = Append(audit.chain, a)
  OBVIOUS
<1>3. PICK pc : pc = [audit.pc EXCEPT ![a] = "queued"]
  OBVIOUS
<1>4. audit' = [audit EXCEPT !.chain = ch, !.pc = pc]
  BY <1>2, <1>3 DEF Enqueue, Goto
<1>5. /\ ch \in Seq(Appenders) /\ Len(ch) = Len(audit.chain) + 1
      /\ \A i \in DOMAIN audit.chain : i \in DOMAIN ch /\ ch[i] = audit.chain[i]
  BY <1>1, <1>2 DEF AuditTyped
<1>6. pc \in [Appenders -> {"idle", "queued", "read", "done"}]
  BY <1>1, <1>3 DEF AuditTyped
<1>7. AuditTyped'
  BY <1>1, <1>4, <1>5, <1>6 DEF AuditTyped
<1>8. /\ audit'.chain = ch /\ audit'.pc = pc
      /\ audit'.read = audit.read /\ audit'.events = audit.events
  BY <1>1, <1>4 DEF AuditTyped
<1>9. ReaderHeadsChain'
  <2> SUFFICES ASSUME NEW b \in Appenders, pc[b] = "read"
               PROVE  HeadOfChain(audit', b) /\ audit.read[b] = Len(audit.events)
    BY <1>8 DEF ReaderHeadsChain
  <2>1. audit.pc[b] = "read"
    BY <1>1, <1>3 DEF AuditTyped
  <2>2. PICK i \in DOMAIN audit.chain :
           audit.chain[i] = b /\ \A j \in 1..(i - 1) : audit.pc[audit.chain[j]] = "done"
    BY <1>1, <2>1 DEF ReaderHeadsChain, HeadOfChain
  <2>3. \A j \in 1..(i - 1) : j \in DOMAIN audit.chain /\ audit.chain[j] \in Appenders
    BY <1>1, <2>2 DEF AuditTyped
  <2>4. \A j \in 1..(i - 1) : pc[ch[j]] = "done"
    BY <1>1, <1>3, <1>5, <2>2, <2>3 DEF AuditTyped
  <2>5. HeadOfChain(audit', b)
    BY <1>5, <1>8, <2>2, <2>4 DEF HeadOfChain
  <2> QED
    BY <1>1, <2>1, <2>5 DEF ReaderHeadsChain
<1>10. Numbered'
  BY <1>1, <1>8 DEF Numbered
<1>11. RowsTyped' /\ Agreement'
  BY AppendKeepsStores DEF AdaptersInv, Enqueue
<1> QED
  BY <1>7, <1>9, <1>10, <1>11 DEF AdaptersInv, AuditInv

\* A head of the chain remains one when the step of an append that has not ended
\* changes.
LEMMA HeadStays ==
    ASSUME AuditTyped, NEW a \in Appenders, audit.pc[a] # "done",
           NEW b \in Appenders, HeadOfChain(audit, b), NEW step,
           audit'.chain = audit.chain, audit'.pc = Goto(audit, a, step)
    PROVE  HeadOfChain(audit', b)
<1>1. PICK i \in DOMAIN audit.chain :
         audit.chain[i] = b /\ \A j \in 1..(i - 1) : audit.pc[audit.chain[j]] = "done"
  BY DEF HeadOfChain
<1>2. \A j \in 1..(i - 1) : j \in DOMAIN audit.chain /\ audit.chain[j] \in Appenders
  BY <1>1 DEF AuditTyped
<1>3. \A j \in 1..(i - 1) : audit'.pc[audit.chain[j]] = "done"
  BY <1>1, <1>2 DEF AuditTyped, Goto
<1> QED
  BY <1>1, <1>3 DEF HeadOfChain

\* An append that is refused ends without an event.
LEMMA RefusePayloadKeeps ==
    ASSUME AdaptersInv, NEW a \in Appenders, RefusePayload(a)
    PROVE  AdaptersInv'
<1>1. AuditTyped /\ ReaderHeadsChain /\ Numbered /\ audit.pc[a] = "queued"
  BY DEF AdaptersInv, AuditInv, RefusePayload
<1>2. PICK pc : pc = Goto(audit, a, "done")
  OBVIOUS
<1>3. pc \in [Appenders -> {"idle", "queued", "read", "done"}]
  BY <1>1, <1>2 DEF AuditTyped, Goto
<1>4. audit' = [audit EXCEPT !.pc = pc]
  BY <1>2 DEF RefusePayload
<1>5. AuditTyped'
  BY <1>1, <1>3, <1>4 DEF AuditTyped
<1>6. /\ audit'.chain = audit.chain /\ audit'.pc = pc
      /\ audit'.read = audit.read /\ audit'.events = audit.events
  BY <1>1, <1>4 DEF AuditTyped
<1>7. ReaderHeadsChain'
  <2> SUFFICES ASSUME NEW b \in Appenders, pc[b] = "read"
               PROVE  HeadOfChain(audit', b) /\ audit.read[b] = Len(audit.events)
    BY <1>6 DEF ReaderHeadsChain
  <2>1. audit.pc[b] = "read"
    BY <1>1, <1>2 DEF AuditTyped, Goto
  <2>2. HeadOfChain(audit, b) /\ audit.read[b] = Len(audit.events)
    BY <1>1, <2>1 DEF ReaderHeadsChain
  <2> QED
    BY <1>1, <1>2, <1>6, <2>2, HeadStays
<1>8. Numbered'
  BY <1>1, <1>6 DEF Numbered
<1>9. RowsTyped' /\ Agreement'
  BY AppendKeepsStores DEF AdaptersInv, RefusePayload
<1> QED
  BY <1>5, <1>7, <1>8, <1>9 DEF AdaptersInv, AuditInv

\* An append reads the latest event at the head of the chain.
LEMMA FindLatestKeeps ==
    ASSUME AdaptersInv, NEW a \in Appenders, FindLatest(a)
    PROVE  AdaptersInv'
<1>1. /\ AuditTyped /\ ReaderHeadsChain /\ Numbered
      /\ audit.pc[a] = "queued" /\ HeadOfChain(audit, a)
  BY DEF AdaptersInv, AuditInv, FindLatest
<1>2. PICK pc : pc = Goto(audit, a, "read")
  OBVIOUS
<1>3. pc \in [Appenders -> {"idle", "queued", "read", "done"}]
  BY <1>1, <1>2 DEF AuditTyped, Goto
<1>4. PICK rd : rd = [audit.read EXCEPT ![a] = Len(audit.events)]
  OBVIOUS
<1>5. rd \in [Appenders -> Nat]
  BY <1>1, <1>4 DEF AuditTyped
<1>6. audit' = [audit EXCEPT !.read = rd, !.pc = pc]
  BY <1>2, <1>4 DEF FindLatest, LatestEvent
<1>7. AuditTyped'
  BY <1>1, <1>3, <1>5, <1>6 DEF AuditTyped
<1>8. /\ audit'.chain = audit.chain /\ audit'.pc = pc
      /\ audit'.read = rd /\ audit'.events = audit.events
  BY <1>1, <1>6 DEF AuditTyped
<1>9. ReaderHeadsChain'
  <2> SUFFICES ASSUME NEW b \in Appenders, pc[b] = "read"
               PROVE  HeadOfChain(audit', b) /\ rd[b] = Len(audit.events)
    BY <1>8 DEF ReaderHeadsChain
  <2>1. b # a => audit.pc[b] = "read"
    BY <1>1, <1>2 DEF AuditTyped, Goto
  <2>2. HeadOfChain(audit, b)
    BY <1>1, <2>1 DEF ReaderHeadsChain
  <2>3. HeadOfChain(audit', b)
    BY <1>1, <1>2, <1>8, <2>2, HeadStays
  <2>4. rd[b] = Len(audit.events)
    BY <1>1, <1>4, <2>1 DEF ReaderHeadsChain, AuditTyped
  <2> QED
    BY <2>3, <2>4
<1>10. Numbered'
  BY <1>1, <1>8 DEF Numbered
<1>11. RowsTyped' /\ Agreement'
  BY AppendKeepsStores DEF AdaptersInv, FindLatest
<1> QED
  BY <1>7, <1>9, <1>10, <1>11 DEF AdaptersInv, AuditInv

\* The event that an append stores has the next number, and nobody else has read.
LEMMA PushAndReleaseKeeps ==
    ASSUME AdaptersInv, NEW a \in Appenders, PushAndRelease(a)
    PROVE  AdaptersInv'
<1>1. AuditInv /\ AuditTyped /\ ReaderHeadsChain /\ Numbered /\ audit.pc[a] = "read"
  BY DEF AdaptersInv, AuditInv, PushAndRelease
<1>2. HeadOfChain(audit, a) /\ audit.read[a] = Len(audit.events)
  BY <1>1 DEF ReaderHeadsChain
<1>3. PICK pc : pc = Goto(audit, a, "done")
  OBVIOUS
<1>4. pc \in [Appenders -> {"idle", "queued", "read", "done"}]
  BY <1>1, <1>3 DEF AuditTyped, Goto
<1>5. PICK x : x = [by |-> a, sequence |-> audit.read[a]]
  OBVIOUS
<1>6. x \in [by: Appenders, sequence: Nat] /\ x.sequence = Len(audit.events)
  BY <1>1, <1>2, <1>5 DEF AuditTyped
<1>7. PICK ev : ev = Append(audit.events, x)
  OBVIOUS
<1>8. /\ ev \in Seq([by: Appenders, sequence: Nat])
      /\ Len(ev) = Len(audit.events) + 1
      /\ \A i \in DOMAIN ev : i \in 1..Len(ev)
      /\ \A i \in 1..Len(audit.events) : i \in DOMAIN audit.events /\ ev[i] = audit.events[i]
      /\ ev[Len(audit.events) + 1] = x
      /\ Len(audit.events) \in Nat
  BY <1>1, <1>6, <1>7 DEF AuditTyped
<1>9. audit' = [audit EXCEPT !.events = ev, !.pc = pc]
  BY <1>3, <1>5, <1>7 DEF PushAndRelease
<1>10. AuditTyped'
  BY <1>1, <1>4, <1>8, <1>9 DEF AuditTyped
<1>11. /\ audit'.chain = audit.chain /\ audit'.pc = pc
       /\ audit'.read = audit.read /\ audit'.events = ev
  BY <1>1, <1>9 DEF AuditTyped
<1>12. ReaderHeadsChain'
  <2>1. \A b \in Appenders : pc[b] # "read"
    <3> SUFFICES ASSUME NEW b \in Appenders, pc[b] = "read"
                 PROVE  FALSE
      OBVIOUS
    <3>1. b # a /\ audit.pc[b] = "read"
      BY <1>1, <1>3 DEF AuditTyped, Goto
    <3>2. HeadOfChain(audit, b)
      BY <1>1, <3>1 DEF ReaderHeadsChain
    <3> QED
      BY <1>1, <1>2, <3>1, <3>2, OneReader
  <2> QED
    BY <1>11, <2>1 DEF ReaderHeadsChain
<1>13. Numbered'
  <2> SUFFICES ASSUME NEW i \in DOMAIN ev
               PROVE  ev[i].sequence = i - 1
    BY <1>11 DEF Numbered
  <2>1. i \in 1..(Len(audit.events) + 1)
    BY <1>8
  <2>2. CASE i = Len(audit.events) + 1
    BY <1>6, <1>8, <2>2
  <2>3. CASE i \in 1..Len(audit.events)
    BY <1>1, <1>8, <2>3 DEF Numbered
  <2> QED
    BY <1>8, <2>1, <2>2, <2>3
<1>14. RowsTyped' /\ Agreement'
  BY AppendKeepsStores DEF AdaptersInv, PushAndRelease
<1> QED
  BY <1>10, <1>12, <1>13, <1>14 DEF AdaptersInv, AuditInv
----------------------------------------------------------------------------
(* The theorems.                                                           *)

\* Fresh stores satisfy the invariant, whichever port is called.
LEMMA InitEstablishes == AdaptersInit => AdaptersInv
<1> SUFFICES ASSUME AdaptersInit
             PROVE  AdaptersInv
  OBVIOUS
<1>1. last = [pg |-> "ok", mem |-> "ok", known |-> FALSE] /\ audit = NoLock /\ pg = mem
  BY DEF AdaptersInit, Fresh
<1>2. Agreement
  BY <1>1 DEF Agreement
<1>3. AuditInv
  BY <1>1 DEF NoLock, AuditInv, AuditTyped, ReaderHeadsChain, Numbered
<1>4. RowsTyped
  <2>1. CASE Fresh("documents", NoDocument)
    BY <2>1 DEF Fresh, NoDocument, NewDocument, RowsTyped, DocumentRows, DocumentStates
  <2>2. CASE Fresh("uploads", NoUpload)
    BY <2>2 DEF Fresh, NoUpload, RowsTyped, UploadRows
  <2>3. CASE Fresh("signers", NewRoster)
    BY <2>3 DEF Fresh, NewRoster, RowsTyped, Rosters, SignerRows
  <2>4. CASE Fresh("sessions", [i \in Sessions |-> NoSession])
    <3>1. NoSession \in SessionRows
      BY DEF NoSession, SessionRows
    <3> QED
      BY <2>4, <3>1 DEF Fresh, RowsTyped
  <2>5. CASE Fresh("records", NewRecords)
    BY <2>5 DEF Fresh, NewRecords, RowsTyped, RecordRows
  <2>6. ASSUME NEW hasJob \in BOOLEAN, Fresh("queue", NewQueue(hasJob))
        PROVE  RowsTyped
    <3>1. ASSUME NEW e \in Events
          PROVE  /\ NewEvent(e, hasJob) \in EventRows
                 /\ EventOK(NewEvent(e, hasJob))
                 /\ NewEvent(e, hasJob).at <= Queued
      <4>1. e \in Nat /\ e <= Queued
        BY DEF Events
      <4>2. CASE hasJob
        BY <4>1, <4>2 DEF NewEvent, EventRows, EventOK
      <4>3. CASE ~hasJob
        BY <4>1, <4>3 DEF NewEvent, EventRows, EventOK
      <4> QED
        BY <4>2, <4>3
    <3>2. NewQueue(hasJob) \in [Events -> EventRows]
      BY <3>1 DEF NewQueue
    <3>3. \A e \in Events : NewQueue(hasJob)[e] = NewEvent(e, hasJob)
      BY DEF NewQueue
    <3>4. NewQueue(hasJob) \in Queues
      BY <3>1, <3>2, <3>3 DEF Queues
    <3> QED
      BY <2>6, <3>4 DEF Fresh, RowsTyped
  <2>7. CASE Fresh("audit", Null)
    BY <2>7 DEF Fresh, RowsTyped
  <2> QED
    BY <2>1, <2>2, <2>3, <2>4, <2>5, <2>6, <2>7 DEF AdaptersInit
<1> QED
  BY <1>2, <1>3, <1>4 DEF AdaptersInv

\* Every call, every expiry and every step of an append keeps the invariant.
LEMMA NextKeeps == AdaptersInv /\ [AdaptersNext]_adapterVars => AdaptersInv'
<1> SUFFICES ASSUME AdaptersInv, [AdaptersNext]_adapterVars
             PROVE  AdaptersInv'
  OBVIOUS
<1>1. ASSUME NEW v \in 1..MaxRowVersion, DocumentCall(v)
      PROVE  AdaptersInv'
  BY <1>1, DocumentCallKeeps
<1>2. ASSUME NEW v \in 1..MaxRowVersion, NEW o \in Owners, LeaseCall(v, o)
      PROVE  AdaptersInv'
  BY <1>2, LeaseCallKeeps
<1>3. CASE UploadCall
  BY <1>3, UploadCallKeeps
<1>4. CASE RosterCall
  BY <1>4, RosterCallKeeps
<1>5. ASSUME NEW i \in Sessions, SessionCall(i)
      PROVE  AdaptersInv'
  BY <1>5, SessionCallKeeps
<1>6. CASE RecordCall
  BY <1>6, RecordCallKeeps
<1>7. ASSUME NEW o \in Owners, QueueCall(o)
      PROVE  AdaptersInv'
  BY <1>7, QueueCallKeeps
<1>8. CASE LeaseExpires
  BY <1>8, LeaseExpiresKeeps
<1>9. ASSUME NEW a \in Appenders,
             Enqueue(a) \/ RefusePayload(a) \/ FindLatest(a) \/ PushAndRelease(a)
      PROVE  AdaptersInv'
  BY <1>9, EnqueueKeeps, RefusePayloadKeeps, FindLatestKeeps, PushAndReleaseKeeps
<1>10. CASE UNCHANGED adapterVars
  <2>1. UNCHANGED <<port, pg, mem, last, audit>>
    BY <1>10 DEF adapterVars
  <2>2. RowsTyped' /\ Agreement'
    BY <2>1, AppendKeepsStores DEF AdaptersInv
  <2>3. AuditInv'
    BY <2>1 DEF AdaptersInv, AuditInv, AuditTyped, ReaderHeadsChain, HeadOfChain, Numbered
  <2> QED
    BY <2>2, <2>3 DEF AdaptersInv
<1> QED
  BY <1>1, <1>2, <1>3, <1>4, <1>5, <1>6, <1>7, <1>8, <1>9, <1>10 DEF AdaptersNext

\* The rows have their types, events and jobs of the outbox are leased together,
\* and whoever has read the latest audit event heads the promise chain.
THEOREM AdaptersInvariant == AdaptersSpec => []AdaptersInv
BY InitEstablishes, NextKeeps, PTL DEF AdaptersSpec

\* After any sequence of calls the in-memory double has answered as the database
\* and holds the same rows, except right after one of the named calls, on which
\* they always differ; and overlapping appends of the audit double leave a
\* gapless numbering.
THEOREM AdaptersAgreement == AdaptersSpec => []AdaptersAgree
<1>1. AdaptersInv => AdaptersAgree
  BY DEF AdaptersInv, Agreement, AuditInv, Numbered, AdaptersAgree
<1> QED
  BY <1>1, AdaptersInvariant, PTL
=============================================================================

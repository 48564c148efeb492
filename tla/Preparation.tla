---------------------------- MODULE Preparation ----------------------------
(***************************************************************************)
(* The preparation of one document: the upload of its source and the       *)
(* inspection of it, the replacement of its signers and of its fields, and *)
(* the send or the void that ends the preparation.                         *)
(*                                                                         *)
(* As in Signing, a request reads outside any transaction and commits one  *)
(* transaction afterwards.  Every transaction but one tests the version of *)
(* the document it has read: replaceDocumentFields tests it only when the  *)
(* document changes between draft and prepared.  Its transaction is two    *)
(* steps, because under READ COMMITTED the DELETE removes the rows that    *)
(* were committed when the statement started and not those that another    *)
(* replacement inserted meanwhile.                                         *)
(*                                                                         *)
(* Signers are numbered in the order their ids are generated; an id is     *)
(* never given out twice.  The signing mode and the routing orders are     *)
(* left out: assertSignerRouting checks them together, and one transaction *)
(* writes them together with the roster.                                   *)
(***************************************************************************)
EXTENDS Integers, FiniteSets

CONSTANTS
    Requests,    \* bound: requests and jobs in flight at once
    MaxSigners,  \* bound: signer ids generated
    MaxLayouts,  \* bound: replacements of the fields
    MaxVersion,  \* bound: no request is admitted beyond this version
    None         \* a request slot that is free; a value not read yet

ASSUME BoundsAssumption == {MaxSigners, MaxLayouts, MaxVersion} \subseteq Nat \ {0}

VARIABLES
    doc,      \* documents: state, version, inspectionStatus, currentRevisionId
    upload,   \* upload_sessions.status of the document's upload session
    signers,  \* the ids in signers
    ids,      \* how many signer ids were generated
    fields,   \* signature_fields: the layout each belongs to and its signer
    layouts,  \* how many times fields were inserted
    request   \* the requests in flight and what each of them has read

vars == <<doc, upload, signers, ids, fields, layouts, request>>

SignerIds == 1..MaxSigners
Fields == [layout: 1..MaxLayouts, signer: SignerIds]

\* The states of DOCUMENT_TRANSITIONS that preparation reaches.
States == {"draft", "prepared", "sent", "voided"}

\* DOCUMENT_TRANSITIONS between them.
CanTransition ==
    [draft |-> {"prepared", "sent", "voided"}, prepared |-> {"draft", "sent", "voided"},
     sent |-> {"voided"}, voided |-> {}]

Document == [state: States, version: Nat, revision: BOOLEAN,
             inspection: {"pending", "accepted", "rejected"}]

Ops == {"upload", "inspect", "signers", "fields", "send", "void"}

Request == [op: Ops, doc: Document, signers: (SUBSET SignerIds) \cup {None},
            fields: (SUBSET Fields) \cup {None}]

\* createDraftDocument.
Init ==
    /\ doc = [state |-> "draft", version |-> 1, revision |-> FALSE,
              inspection |-> "pending"]
    /\ upload = "issued"
    /\ signers = {} /\ ids = 0
    /\ fields = {} /\ layouts = 0
    /\ request = [r \in Requests |-> None]

----------------------------------------------------------------------------
(* Rules of the domain.                                                     *)

IsPreparationState(d) == d.state \in {"draft", "prepared"}

AssertReadyToSend(d) == IsPreparationState(d) /\ d.revision /\ d.inspection = "accepted"

EachSignerHasField(ss, fs) == \A s \in ss : \E f \in fs : f.signer = s

\* Variant: an unfinished inspection is good enough.
EnvelopeIsPreparedUninspected(d, ss, fs) ==
    d.inspection # "rejected" /\ d.revision /\ ss # {} /\ EachSignerHasField(ss, fs)

EnvelopeIsPrepared(d, ss, fs) ==
    d.inspection = "accepted" /\ d.revision /\ ss # {} /\ EachSignerHasField(ss, fs)

\* maybeMarkPrepared: the state it asks for.
PreparedState(d, ss, fs) == IF EnvelopeIsPrepared(d, ss, fs) THEN "prepared" ELSE "draft"

----------------------------------------------------------------------------
(* The conditional updates of the repositories.                             *)

\* Variant: the WHERE clause does not mention the version.
AtAnyVersion(read) == TRUE

\* expectedVersion.
AtVersion(read) == doc.version = read.version

AttachSourceRevision(read) ==
    /\ AtVersion(read)
    /\ doc' = [doc EXCEPT !.revision = TRUE, !.version = @ + 1]

\* Variant: an outcome is recorded whatever happened since the read.
SetInspectionStatusLate(read, outcome) ==
    doc' = [doc EXCEPT !.inspection = outcome, !.version = @ + 1]

SetInspectionStatus(read, outcome) ==
    /\ AtVersion(read)
    /\ doc' = [doc EXCEPT !.inspection = outcome, !.version = @ + 1]

\* setSigningMode, and setPreparationState when the state changes: each of
\* them counts the version up.
SetSigningModeAndState(read, state) ==
    /\ AtVersion(read)
    /\ doc' = [doc EXCEPT !.state = state,
                          !.version = @ + (IF state = doc.state THEN 1 ELSE 2)]

\* maybeMarkPrepared on its own.
MaybeMarkPrepared(read, state) ==
    IF state = read.state
    THEN UNCHANGED doc
    ELSE /\ AtVersion(read)
         /\ doc' = [doc EXCEPT !.state = state, !.version = @ + 1]

MarkSent(read) ==
    /\ AtVersion(read)
    /\ doc' = [doc EXCEPT !.state = "sent", !.version = @ + 1]

MarkVoided(read) ==
    /\ AtVersion(read)
    /\ "voided" \in CanTransition[doc.state]
    /\ doc' = [doc EXCEPT !.state = "voided", !.version = @ + 1]

CompleteUpload == upload = "issued" /\ upload' = "completed"

----------------------------------------------------------------------------
(* Reading.                                                                 *)

Free(r) == request[r] = None /\ doc.version <= MaxVersion

Load(r, op) ==
    /\ request' = [request EXCEPT ![r] =
                      [op |-> op, doc |-> doc, signers |-> None, fields |-> None]]
    /\ UNCHANGED <<doc, upload, signers, ids, fields, layouts>>

\* completeSourceUpload up to its transaction; a completed session replays.
LoadUpload(r) ==
    /\ Free(r)
    /\ upload = "issued"
    /\ doc.state = "draft" /\ ~doc.revision
    /\ Load(r, "upload")

\* inspectDocument up to its transaction.  The job is delivered at least once,
\* and there is none before the upload's transaction published it.
LoadInspect(r) ==
    /\ Free(r)
    /\ doc.revision /\ doc.inspection = "pending"
    /\ Load(r, "inspect")

\* replaceDocumentSigners reads the existing signers too; the version tells
\* whether they are still the same.
LoadSigners(r) ==
    /\ Free(r)
    /\ IsPreparationState(doc)
    /\ Load(r, "signers")

LoadFields(r) ==
    /\ Free(r)
    /\ IsPreparationState(doc) /\ doc.revision
    /\ Load(r, "fields")

LoadSend(r) ==
    /\ Free(r)
    /\ AssertReadyToSend(doc)
    /\ Load(r, "send")

LoadVoid(r) ==
    /\ Free(r)
    /\ "voided" \in CanTransition[doc.state]
    /\ Load(r, "void")

\* replaceDocumentFields and sendDocument read the roster after the document,
\* and sendDocument the fields.
ReadRoster(r) ==
    /\ request[r] # None
    /\ request[r].op \in {"fields", "send"} /\ request[r].signers = None
    /\ signers # {}
    /\ request[r].op = "send" => EnvelopeIsPrepared(request[r].doc, signers, fields)
    /\ request' = [request EXCEPT ![r].signers = signers]
    /\ UNCHANGED <<doc, upload, signers, ids, fields, layouts>>

\* The DELETE of signatureFields.replaceAll sees the rows committed by now.
DeleteFields(r) ==
    /\ request[r] # None
    /\ request[r].op = "fields" /\ request[r].signers # None /\ request[r].fields = None
    /\ request' = [request EXCEPT ![r].fields = fields]
    /\ UNCHANGED <<doc, upload, signers, ids, fields, layouts>>

----------------------------------------------------------------------------
(* Committing.                                                              *)

InFlight(r, op) == request[r] # None /\ request[r].op = op

Done(r) == request' = [request EXCEPT ![r] = None]

\* Every way a request ends without a commit: a check that fails, a
\* condition that matches no row, a foreign key, a crash.
Abort(r) ==
    /\ request[r] # None
    /\ Done(r)
    /\ UNCHANGED <<doc, upload, signers, ids, fields, layouts>>

CommitUpload(r) ==
    /\ InFlight(r, "upload")
    /\ AttachSourceRevision(request[r].doc)
    /\ CompleteUpload
    /\ Done(r)
    /\ UNCHANGED <<signers, ids, fields, layouts>>

\* Variant: the session is marked expired, a status no code writes.
AbandonUploadAsExpired ==
    /\ upload = "issued"
    /\ upload' = "expired"
    /\ UNCHANGED <<doc, signers, ids, fields, layouts, request>>

\* Variant: a session that was completed since it was listed is abandoned too.
AbandonUploadUnchecked ==
    /\ upload # "abandoned"
    /\ upload' = "abandoned"
    /\ UNCHANGED <<doc, signers, ids, fields, layouts, request>>

\* cleanupAbandonedUploads, for a session whose expiresAt is over.
AbandonUpload ==
    /\ upload = "issued"
    /\ upload' = "abandoned"
    /\ UNCHANGED <<doc, signers, ids, fields, layouts, request>>

CommitInspect(r, outcome) ==
    /\ InFlight(r, "inspect")
    /\ SetInspectionStatus(request[r].doc, outcome)
    /\ Done(r)
    /\ UNCHANGED <<upload, signers, ids, fields, layouts>>

\* signers.replaceAll deletes the fields of the signers that leave.
FieldsKept(ss) == {f \in fields : f.signer \in ss}

\* signature_fields_organizationId_signerId_fkey, ON DELETE RESTRICT: nobody is
\* deleted, or left out, to whom a field belongs.
SignerForeignKey(ss, fs) == \A f \in fs : f.signer \in ss

\* replaceDocumentSigners: some signers stay, n join.
CommitSigners(r, kept, n) ==
    LET roster == kept \cup (ids + 1)..(ids + n)
        d == request[r].doc
    IN  /\ InFlight(r, "signers")
        /\ roster # {} /\ ids + n <= MaxSigners
        /\ signers' = roster /\ ids' = ids + n
        /\ fields' = FieldsKept(roster)
        /\ SignerForeignKey(roster, fields')
        /\ SetSigningModeAndState(d, PreparedState(d, roster, FieldsKept(roster)))
        /\ Done(r)
        /\ UNCHANGED <<upload, layouts>>

\* replaceDocumentFields gives every signer it has read a field; the foreign
\* key rejects one that is gone.
CommitFields(r) ==
    LET q == request[r]
        new == {[layout |-> layouts + 1, signer |-> s] : s \in q.signers}
    IN  /\ InFlight(r, "fields") /\ q.fields # None
        /\ layouts < MaxLayouts
        /\ SignerForeignKey(signers, new)
        /\ fields' = (fields \ q.fields) \cup new
        /\ layouts' = layouts + 1
        /\ MaybeMarkPrepared(q.doc, PreparedState(q.doc, q.signers, new))
        /\ Done(r)
        /\ UNCHANGED <<upload, signers, ids>>

CommitSend(r) ==
    /\ InFlight(r, "send") /\ request[r].signers # None
    /\ MarkSent(request[r].doc)
    /\ Done(r)
    /\ UNCHANGED <<upload, signers, ids, fields, layouts>>

CommitVoid(r) ==
    /\ InFlight(r, "void")
    /\ MarkVoided(request[r].doc)
    /\ Done(r)
    /\ UNCHANGED <<upload, signers, ids, fields, layouts>>

----------------------------------------------------------------------------
Next ==
    \/ \E r \in Requests :
          \/ LoadUpload(r) \/ LoadInspect(r) \/ LoadSigners(r) \/ LoadFields(r)
          \/ LoadSend(r) \/ LoadVoid(r)
          \/ ReadRoster(r) \/ DeleteFields(r) \/ Abort(r)
          \/ CommitUpload(r) \/ CommitFields(r) \/ CommitSend(r) \/ CommitVoid(r)
          \/ \E outcome \in {"accepted", "rejected"} : CommitInspect(r, outcome)
          \/ \E kept \in SUBSET signers, n \in 0..MaxSigners : CommitSigners(r, kept, n)
    \/ AbandonUpload

Spec == Init /\ [][Next]_vars

----------------------------------------------------------------------------
(* Properties.                                                              *)

\* The rows stay in their enumerations, and every signer has an id that was
\* generated.
TypeOK ==
    /\ doc \in Document
    /\ upload \in {"issued", "completed", "abandoned"}
    /\ signers \subseteq 1..ids
    /\ ids \in 0..MaxSigners
    /\ fields \subseteq Fields
    /\ layouts \in 0..MaxLayouts
    /\ request \in [Requests -> Request \cup {None}]

\* A document that is prepared or sent has a source whose upload session is
\* completed and which the inspection accepted, although replacements and sends
\* judge that from a document they read while uploads, their clean-up and
\* repeated inspections were committing.
ReadyIsInspected ==
    doc.state \in {"prepared", "sent"} =>
        doc.revision /\ upload = "completed" /\ doc.inspection = "accepted"

\* The roster a document was sent with stays: a replacement of the signers
\* that is still in flight when the document is sent is rejected.
RosterFrozen ==
    [][~IsPreparationState(doc) => signers' = signers]_vars
============================================================================

------------------------- MODULE PreparationProofs -------------------------
(***************************************************************************)
(* Proofs about Preparation for every number of requests in flight and     *)
(* every bound: what a request read is what it changes, because each       *)
(* change of the document counts its version up.                           *)
(***************************************************************************)
EXTENDS Preparation, TLAPS

USE BoundsAssumption

----------------------------------------------------------------------------
(* The inductive invariant.                                                *)

\* What a request read is older than the document, or is the document.
SnapshotsByVersion ==
    \A r \in Requests :
        request[r] # None =>
            /\ request[r].doc.version <= doc.version
            /\ request[r].doc.version = doc.version => request[r].doc = doc

\* The checks that a handler made on the document it read.
ChecksMade ==
    \A r \in Requests :
        request[r] # None =>
            LET d == request[r].doc
            IN  /\ request[r].op = "upload" => d.state = "draft" /\ ~d.revision
                /\ request[r].op = "inspect" => d.revision /\ d.inspection = "pending"
                /\ request[r].op = "signers" => IsPreparationState(d)
                /\ request[r].op = "send" => AssertReadyToSend(d)
                /\ request[r].fields # None => request[r].signers # None

\* Only an upload that is completed is inspected.
UploadThenInspection ==
    /\ doc.revision => upload = "completed"
    /\ doc.inspection # "pending" => doc.revision

IInv ==
    /\ TypeOK
    /\ SnapshotsByVersion /\ ChecksMade
    /\ UploadThenInspection /\ ReadyIsInspected

----------------------------------------------------------------------------
(* Lemmas about requests.                                                  *)

\* expectedVersion: an update that tests the version finds the document as the
\* request read it.
LEMMA ReadIsCurrent ==
    ASSUME IInv, NEW r \in Requests, request[r] # None, AtVersion(request[r].doc)
    PROVE  request[r].doc = doc
BY DEF IInv, SnapshotsByVersion, AtVersion

\* A request that ends takes its snapshot along; the others' snapshots only grow
\* older when the version counts up.
LEMMA DoneFrame ==
    ASSUME IInv, NEW r \in Requests, Done(r),
           doc' # doc => doc'.version \in Nat /\ doc'.version > doc.version
    PROVE  /\ request' \in [Requests -> Request \cup {None}]
           /\ SnapshotsByVersion'
           /\ ChecksMade'
<1>1. request' = [request EXCEPT ![r] = None] /\ request \in [Requests -> Request \cup {None}]
  BY DEF Done, IInv, TypeOK
<1>2. \A q \in Requests : request'[q] # None => request'[q] = request[q]
  BY <1>1
<1>3. ASSUME NEW q \in Requests, request'[q] # None
      PROVE  /\ request'[q].doc.version <= doc'.version
             /\ request'[q].doc.version = doc'.version => request'[q].doc = doc'
  <2>1. request'[q] = request[q] /\ request[q] \in Request
    BY <1>1, <1>2, <1>3
  <2>2. request[q].doc.version \in Nat /\ doc.version \in Nat
    BY <2>1 DEF Request, Document, IInv, TypeOK
  <2>3. /\ request[q].doc.version <= doc.version
        /\ request[q].doc.version = doc.version => request[q].doc = doc
    BY <1>3, <2>1 DEF IInv, SnapshotsByVersion
  <2> QED BY <2>1, <2>2, <2>3
<1>4. SnapshotsByVersion'
  BY <1>3 DEF SnapshotsByVersion
<1>5. ChecksMade'
  BY <1>2 DEF ChecksMade, IInv, IsPreparationState, AssertReadyToSend
<1> QED BY <1>1, <1>4, <1>5

\* A read takes the document as it is.
LEMMA LoadInv ==
    ASSUME IInv, NEW r \in Requests, NEW op \in Ops, Load(r, op),
           op = "upload" => doc.state = "draft" /\ ~doc.revision,
           op = "inspect" => doc.revision /\ doc.inspection = "pending",
           op = "signers" => IsPreparationState(doc),
           op = "send" => AssertReadyToSend(doc)
    PROVE  IInv'
<1> USE DEF IInv
<1>1. /\ request' = [request EXCEPT ![r] =
                       [op |-> op, doc |-> doc, signers |-> None, fields |-> None]]
      /\ UNCHANGED <<doc, upload, signers, ids, fields, layouts>>
  BY DEF Load
<1>2. request'[r] = [op |-> op, doc |-> doc, signers |-> None, fields |-> None]
  BY <1>1 DEF TypeOK
<1>3. \A q \in Requests \ {r} : request'[q] = request[q]
  BY <1>1 DEF TypeOK
<1>4. TypeOK'
  <2>1. [op |-> op, doc |-> doc, signers |-> None, fields |-> None] \in Request
    BY DEF Request, TypeOK, Ops
  <2> QED BY <1>1, <2>1 DEF TypeOK
<1>5. SnapshotsByVersion'
  <2>1. doc.version \in Nat
    BY DEF TypeOK, Document
  <2> QED BY <1>1, <1>2, <1>3, <2>1 DEF SnapshotsByVersion
<1>6. ChecksMade'
  BY <1>2, <1>3 DEF ChecksMade, IsPreparationState, AssertReadyToSend
<1>7. UploadThenInspection' /\ ReadyIsInspected'
  BY <1>1 DEF UploadThenInspection, ReadyIsInspected
<1> QED BY <1>4, <1>5, <1>6, <1>7

----------------------------------------------------------------------------
(* Every action keeps the invariant.                                       *)

\* The draft that createDraftDocument leaves satisfies the inductive invariant.
LEMMA InitInv == Init => IInv
<1> SUFFICES ASSUME Init PROVE IInv
  OBVIOUS
<1> USE DEF Init
<1>1. TypeOK
  BY DEF TypeOK, Document, States
<1>2. SnapshotsByVersion /\ ChecksMade
  BY DEF SnapshotsByVersion, ChecksMade
<1>3. UploadThenInspection /\ ReadyIsInspected
  BY DEF UploadThenInspection, ReadyIsInspected
<1> QED BY <1>1, <1>2, <1>3 DEF IInv

\* Every handler reads the document and checks it before its transaction.
LEMMA ReadsInv ==
    ASSUME IInv, NEW r \in Requests,
           \/ LoadUpload(r) \/ LoadInspect(r) \/ LoadSigners(r) \/ LoadFields(r)
           \/ LoadSend(r) \/ LoadVoid(r)
    PROVE  IInv'
<1>1. CASE LoadUpload(r)
  BY <1>1, LoadInv DEF LoadUpload, Ops
<1>2. CASE LoadInspect(r)
  BY <1>2, LoadInv DEF LoadInspect, Ops
<1>3. CASE LoadSigners(r)
  BY <1>3, LoadInv DEF LoadSigners, Ops
<1>4. CASE LoadFields(r)
  BY <1>4, LoadInv DEF LoadFields, Ops
<1>5. CASE LoadSend(r)
  BY <1>5, LoadInv DEF LoadSend, Ops
<1>6. CASE LoadVoid(r)
  BY <1>6, LoadInv DEF LoadVoid, Ops
<1> QED BY <1>1, <1>2, <1>3, <1>4, <1>5, <1>6

\* replaceDocumentFields and sendDocument read the roster after the document.
LEMMA ReadRosterInv ==
    ASSUME IInv, NEW r \in Requests, ReadRoster(r)
    PROVE  IInv'
<1> USE DEF IInv
<1>1. /\ request' = [request EXCEPT ![r].signers = signers]
      /\ UNCHANGED <<doc, upload, signers, ids, fields, layouts>>
      /\ request[r] # None
  BY DEF ReadRoster
<1>2. request[r] \in Request
  BY <1>1 DEF TypeOK
<1>3. request'[r] = [op |-> request[r].op, doc |-> request[r].doc,
                     signers |-> signers, fields |-> request[r].fields]
  BY <1>1, <1>2 DEF TypeOK, Request
<1>4. \A q \in Requests \ {r} : request'[q] = request[q]
  BY <1>1 DEF TypeOK
<1>5. signers \in SUBSET SignerIds
  BY DEF TypeOK, SignerIds
<1>6. TypeOK'
  <2>1. request'[r] \in Request
    BY <1>2, <1>3, <1>5 DEF Request
  <2> QED BY <1>1, <2>1 DEF TypeOK
<1>7. SnapshotsByVersion'
  BY <1>1, <1>3, <1>4 DEF SnapshotsByVersion
<1>8. request[r].fields = None
  BY <1>1 DEF ReadRoster, ChecksMade
<1>9. ChecksMade'
  BY <1>1, <1>3, <1>4, <1>8 DEF ChecksMade, IsPreparationState, AssertReadyToSend
<1>10. UploadThenInspection' /\ ReadyIsInspected'
  BY <1>1 DEF UploadThenInspection, ReadyIsInspected
<1> QED BY <1>6, <1>7, <1>9, <1>10

\* The DELETE of replaceAll remembers the rows it saw.
LEMMA DeleteFieldsInv ==
    ASSUME IInv, NEW r \in Requests, DeleteFields(r)
    PROVE  IInv'
<1> USE DEF IInv
<1>1. /\ request' = [request EXCEPT ![r].fields = fields]
      /\ UNCHANGED <<doc, upload, signers, ids, fields, layouts>>
      /\ request[r] # None /\ request[r].signers # None
  BY DEF DeleteFields
<1>2. request[r] \in Request
  BY <1>1 DEF TypeOK
<1>3. request'[r] = [op |-> request[r].op, doc |-> request[r].doc,
                     signers |-> request[r].signers, fields |-> fields]
  BY <1>1, <1>2 DEF TypeOK, Request
<1>4. \A q \in Requests \ {r} : request'[q] = request[q]
  BY <1>1 DEF TypeOK
<1>5. TypeOK'
  <2>1. request'[r] \in Request
    BY <1>2, <1>3 DEF Request, TypeOK
  <2> QED BY <1>1, <2>1 DEF TypeOK
<1>6. SnapshotsByVersion'
  BY <1>1, <1>3, <1>4 DEF SnapshotsByVersion
<1>7. ChecksMade'
  BY <1>1, <1>3, <1>4 DEF ChecksMade, IsPreparationState, AssertReadyToSend
<1>8. UploadThenInspection' /\ ReadyIsInspected'
  BY <1>1 DEF UploadThenInspection, ReadyIsInspected
<1> QED BY <1>5, <1>6, <1>7, <1>8

\* A request that ends without a commit changes no row.
LEMMA AbortInv ==
    ASSUME IInv, NEW r \in Requests, Abort(r)
    PROVE  IInv'
<1> USE DEF IInv
<1>1. UNCHANGED <<doc, upload, signers, ids, fields, layouts>>
  BY DEF Abort
<1>2. /\ request' \in [Requests -> Request \cup {None}]
      /\ SnapshotsByVersion' /\ ChecksMade'
  <2>1. Done(r) /\ doc' = doc
    BY <1>1 DEF Abort
  <2> QED BY <2>1, DoneFrame
<1>3. TypeOK' /\ UploadThenInspection' /\ ReadyIsInspected'
  BY <1>1, <1>2 DEF TypeOK, UploadThenInspection, ReadyIsInspected
<1> QED BY <1>2, <1>3

\* cleanupAbandonedUploads takes a session whose upload did not complete: there
\* is no revision yet.
LEMMA AbandonUploadInv ==
    ASSUME IInv, AbandonUpload
    PROVE  IInv'
<1> USE DEF IInv
<1>1. /\ upload = "issued" /\ upload' = "abandoned"
      /\ UNCHANGED <<doc, signers, ids, fields, layouts, request>>
  BY DEF AbandonUpload
<1>2. TypeOK' /\ SnapshotsByVersion' /\ ChecksMade'
  BY <1>1 DEF TypeOK, SnapshotsByVersion, ChecksMade, IsPreparationState,
              AssertReadyToSend
<1>3. UploadThenInspection' /\ ReadyIsInspected'
  BY <1>1 DEF UploadThenInspection, ReadyIsInspected
<1> QED BY <1>2, <1>3

\* completeSourceUpload attaches the revision and completes the session in one
\* transaction.
LEMMA CommitUploadInv ==
    ASSUME IInv, NEW r \in Requests, CommitUpload(r)
    PROVE  IInv'
<1> USE DEF IInv
<1>1. /\ doc' = [doc EXCEPT !.revision = TRUE, !.version = @ + 1]
      /\ upload' = "completed"
      /\ UNCHANGED <<signers, ids, fields, layouts>>
      /\ request[r] # None /\ request[r].op = "upload"
      /\ request[r].doc = doc
  BY ReadIsCurrent DEF CommitUpload, AttachSourceRevision, CompleteUpload, InFlight
<1>2. /\ doc' \in Document /\ doc'.version > doc.version
      /\ doc'.revision /\ doc'.state = doc.state /\ doc'.inspection = doc.inspection
  <2>1. doc' = [state |-> doc.state, version |-> doc.version + 1,
                revision |-> TRUE, inspection |-> doc.inspection]
    BY <1>1 DEF TypeOK, Document
  <2>2. doc' \in Document /\ doc'.version > doc.version
    BY <2>1 DEF TypeOK, Document, States
  <2> QED BY <2>1, <2>2
<1>3. /\ request' \in [Requests -> Request \cup {None}]
      /\ SnapshotsByVersion' /\ ChecksMade'
  BY <1>2, DoneFrame DEF CommitUpload, Document
<1>4. TypeOK'
  BY <1>1, <1>2, <1>3 DEF TypeOK
<1>5. UploadThenInspection' /\ ReadyIsInspected'
  BY <1>1, <1>2 DEF UploadThenInspection, ReadyIsInspected
<1> QED BY <1>3, <1>4, <1>5

\* inspectDocument records an outcome only for a document that is still
\* pending, hence neither prepared nor sent.
LEMMA CommitInspectInv ==
    ASSUME IInv, NEW r \in Requests, NEW outcome \in {"accepted", "rejected"},
           CommitInspect(r, outcome)
    PROVE  IInv'
<1> USE DEF IInv
<1>1. /\ doc' = [doc EXCEPT !.inspection = outcome, !.version = @ + 1]
      /\ UNCHANGED <<upload, signers, ids, fields, layouts>>
      /\ request[r] # None /\ request[r].op = "inspect"
      /\ request[r].doc = doc
  BY ReadIsCurrent DEF CommitInspect, SetInspectionStatus, InFlight
<1>2. /\ doc' \in Document /\ doc'.version > doc.version
      /\ doc'.revision = doc.revision /\ doc'.state = doc.state /\ doc'.inspection = outcome
  <2>1. doc' = [state |-> doc.state, version |-> doc.version + 1,
                revision |-> doc.revision, inspection |-> outcome]
    BY <1>1 DEF TypeOK, Document
  <2>2. doc' \in Document /\ doc'.version > doc.version
    BY <2>1 DEF TypeOK, Document, States
  <2> QED BY <2>1, <2>2
<1>3. /\ request' \in [Requests -> Request \cup {None}]
      /\ SnapshotsByVersion' /\ ChecksMade'
  BY <1>2, DoneFrame DEF CommitInspect, Document
<1>4. TypeOK'
  BY <1>1, <1>2, <1>3 DEF TypeOK
<1>5. doc.revision /\ doc.inspection = "pending"
  BY <1>1 DEF ChecksMade
<1>6. UploadThenInspection' /\ ReadyIsInspected'
  BY <1>1, <1>2, <1>5 DEF UploadThenInspection, ReadyIsInspected
<1> QED BY <1>3, <1>4, <1>6

\* replaceDocumentSigners replaces the roster and judges the envelope on the document it has read, which is
\* the one it updates.
LEMMA CommitSignersInv ==
    ASSUME IInv, NEW r \in Requests, NEW kept \in SUBSET signers,
           NEW n \in 0..MaxSigners, CommitSigners(r, kept, n)
    PROVE  IInv' /\ IsPreparationState(doc)
<1> USE DEF IInv
<1> DEFINE roster == kept \cup (ids + 1)..(ids + n)
           state == PreparedState(doc, roster, FieldsKept(roster))
<1>1. request[r] # None /\ request[r].op = "signers" /\ request[r].doc = doc
  BY ReadIsCurrent DEF CommitSigners, SetSigningModeAndState, InFlight
<1>2. /\ doc' = [doc EXCEPT !.state = state,
                            !.version = @ + (IF state = doc.state THEN 1 ELSE 2)]
      /\ signers' = roster /\ ids' = ids + n /\ ids + n <= MaxSigners
      /\ fields' = FieldsKept(roster)
      /\ UNCHANGED <<upload, layouts>>
  BY <1>1 DEF CommitSigners, SetSigningModeAndState
<1>3. state \in {"draft", "prepared"}
  BY DEF PreparedState
<1>4. state = "prepared" => doc.inspection = "accepted" /\ doc.revision
  BY DEF PreparedState, EnvelopeIsPrepared
<1> HIDE DEF state
<1>5. /\ doc' \in Document /\ doc'.version > doc.version
      /\ doc'.revision = doc.revision /\ doc'.state = state
      /\ doc'.inspection = doc.inspection
  <2> DEFINE v == doc.version + (IF state = doc.state THEN 1 ELSE 2)
  <2>1. doc' = [state |-> state, version |-> v,
                revision |-> doc.revision, inspection |-> doc.inspection]
    BY <1>2 DEF TypeOK, Document
  <2>2. v \in Nat /\ v > doc.version
    BY DEF TypeOK, Document
  <2> HIDE DEF v
  <2>3. doc' \in Document
    BY <2>1, <2>2, <1>3 DEF TypeOK, Document, States
  <2> QED BY <2>1, <2>2, <2>3
<1>6. /\ request' \in [Requests -> Request \cup {None}]
      /\ SnapshotsByVersion' /\ ChecksMade'
  BY <1>5, DoneFrame DEF CommitSigners, Document
<1>7. TypeOK'
  <2>1. ids' \in 0..MaxSigners /\ signers' \subseteq 1..ids'
    BY <1>2 DEF TypeOK
  <2>2. fields' \subseteq Fields
    BY <1>2 DEF TypeOK, FieldsKept
  <2> QED BY <1>2, <1>5, <1>6, <2>1, <2>2 DEF TypeOK
<1>9. UploadThenInspection' /\ ReadyIsInspected'
  BY <1>2, <1>3, <1>4, <1>5 DEF UploadThenInspection, ReadyIsInspected
<1>10. IsPreparationState(doc)
  BY <1>1 DEF ChecksMade
<1> QED BY <1>6, <1>7, <1>9, <1>10

\* replaceDocumentFields inserts fields of signers that still exist, and tests
\* the version whenever the document changes between draft and prepared.
LEMMA CommitFieldsInv ==
    ASSUME IInv, NEW r \in Requests, CommitFields(r)
    PROVE  IInv'
<1> USE DEF IInv
<1> DEFINE q == request[r]
           new == {[layout |-> layouts + 1, signer |-> s] : s \in q.signers}
           state == PreparedState(q.doc, q.signers, new)
<1>1. /\ q # None /\ q.op = "fields" /\ q.fields # None
      /\ layouts < MaxLayouts /\ SignerForeignKey(signers, new)
      /\ fields' = (fields \ q.fields) \cup new
      /\ layouts' = layouts + 1
      /\ MaybeMarkPrepared(q.doc, state)
      /\ UNCHANGED <<upload, signers, ids>>
  BY DEF CommitFields, InFlight
<1>2. state \in {"draft", "prepared"}
  BY DEF PreparedState
<1>3. state = "prepared" => q.doc.inspection = "accepted" /\ q.doc.revision
  BY DEF PreparedState, EnvelopeIsPrepared
<1>4. \A f \in new : f.signer \in signers /\ f.layout = layouts + 1 /\ f \in Fields
  <2> SUFFICES ASSUME NEW s \in q.signers
               PROVE  s \in signers /\ [layout |-> layouts + 1, signer |-> s] \in Fields
    OBVIOUS
  <2>1. s \in signers /\ s \in SignerIds
    <3>1. PICK f \in new : f = [layout |-> layouts + 1, signer |-> s]
      OBVIOUS
    <3>2. f.signer \in signers
      BY <1>1 DEF SignerForeignKey
    <3>3. s \in signers
      BY <3>1, <3>2
    <3> QED BY <3>3 DEF TypeOK, SignerIds
  <2>2. layouts + 1 \in 1..MaxLayouts
    BY <1>1 DEF TypeOK
  <2> QED BY <2>1, <2>2 DEF Fields
<1> HIDE DEF state, new
<1>5. doc' # doc =>
         /\ doc' \in Document /\ doc'.version > doc.version
         /\ doc'.revision = doc.revision /\ doc'.inspection = doc.inspection
         /\ doc'.state = state /\ q.doc = doc
  <2>1. CASE state = q.doc.state
    BY <1>1, <2>1 DEF MaybeMarkPrepared
  <2>2. CASE state # q.doc.state
    <3>1. q.doc = doc /\ doc' = [doc EXCEPT !.state = state, !.version = @ + 1]
      BY <1>1, <2>2, ReadIsCurrent DEF MaybeMarkPrepared
    <3>2. doc' = [state |-> state, version |-> doc.version + 1,
                  revision |-> doc.revision, inspection |-> doc.inspection]
      BY <3>1 DEF TypeOK, Document
    <3>3. doc' \in Document /\ doc'.version > doc.version
      BY <3>2, <1>2 DEF TypeOK, Document, States
    <3> QED BY <3>1, <3>2, <3>3
  <2> QED BY <2>1, <2>2
<1>6. /\ request' \in [Requests -> Request \cup {None}]
      /\ SnapshotsByVersion' /\ ChecksMade'
  <2>1. doc' # doc => doc'.version \in Nat /\ doc'.version > doc.version
    BY <1>5 DEF Document
  <2> QED BY <2>1, DoneFrame DEF CommitFields
<1>7. TypeOK'
  <2>1. layouts' \in 0..MaxLayouts
    BY <1>1 DEF TypeOK
  <2>2. fields' \subseteq Fields
    BY <1>1, <1>4 DEF TypeOK
  <2> QED BY <1>1, <1>5, <1>6, <2>1, <2>2 DEF TypeOK
<1>9. UploadThenInspection' /\ ReadyIsInspected'
  <2>1. CASE doc' = doc
    BY <2>1, <1>1 DEF UploadThenInspection, ReadyIsInspected
  <2>2. CASE doc' # doc
    BY <2>2, <1>1, <1>2, <1>3, <1>5 DEF UploadThenInspection, ReadyIsInspected
  <2> QED BY <2>1, <2>2
<1> QED BY <1>6, <1>7, <1>9

\* sendDocument updates the document it has found ready to send.
LEMMA CommitSendInv ==
    ASSUME IInv, NEW r \in Requests, CommitSend(r)
    PROVE  IInv'
<1> USE DEF IInv
<1>1. /\ doc' = [doc EXCEPT !.state = "sent", !.version = @ + 1]
      /\ UNCHANGED <<upload, signers, ids, fields, layouts>>
      /\ request[r] # None /\ request[r].op = "send"
      /\ request[r].doc = doc
  BY ReadIsCurrent DEF CommitSend, MarkSent, InFlight
<1>2. /\ doc' \in Document /\ doc'.version > doc.version
      /\ doc'.revision = doc.revision /\ doc'.inspection = doc.inspection
  <2>1. doc' = [state |-> "sent", version |-> doc.version + 1,
                revision |-> doc.revision, inspection |-> doc.inspection]
    BY <1>1 DEF TypeOK, Document
  <2>2. doc' \in Document /\ doc'.version > doc.version
    BY <2>1 DEF TypeOK, Document, States
  <2> QED BY <2>1, <2>2
<1>3. /\ request' \in [Requests -> Request \cup {None}]
      /\ SnapshotsByVersion' /\ ChecksMade'
  BY <1>2, DoneFrame DEF CommitSend, Document
<1>4. TypeOK'
  BY <1>1, <1>2, <1>3 DEF TypeOK
<1>5. doc.revision /\ doc.inspection = "accepted"
  BY <1>1 DEF ChecksMade, AssertReadyToSend
<1>6. UploadThenInspection' /\ ReadyIsInspected'
  BY <1>1, <1>2, <1>5 DEF UploadThenInspection, ReadyIsInspected
<1> QED BY <1>3, <1>4, <1>6

\* voidDocument leaves everything but the state of the document.
LEMMA CommitVoidInv ==
    ASSUME IInv, NEW r \in Requests, CommitVoid(r)
    PROVE  IInv'
<1> USE DEF IInv
<1>1. /\ doc' = [doc EXCEPT !.state = "voided", !.version = @ + 1]
      /\ UNCHANGED <<upload, signers, ids, fields, layouts>>
  BY DEF CommitVoid, MarkVoided
<1>2. /\ doc' \in Document /\ doc'.version > doc.version /\ doc'.state = "voided"
      /\ doc'.revision = doc.revision /\ doc'.inspection = doc.inspection
  <2>1. doc' = [state |-> "voided", version |-> doc.version + 1,
                revision |-> doc.revision, inspection |-> doc.inspection]
    BY <1>1 DEF TypeOK, Document
  <2>2. doc' \in Document /\ doc'.version > doc.version
    BY <2>1 DEF TypeOK, Document, States
  <2> QED BY <2>1, <2>2
<1>3. /\ request' \in [Requests -> Request \cup {None}]
      /\ SnapshotsByVersion' /\ ChecksMade'
  BY <1>2, DoneFrame DEF CommitVoid, Document
<1>4. TypeOK'
  BY <1>1, <1>2, <1>3 DEF TypeOK
<1>5. UploadThenInspection' /\ ReadyIsInspected'
  BY <1>1, <1>2 DEF UploadThenInspection, ReadyIsInspected
<1> QED BY <1>3, <1>4, <1>5

\* Every step keeps the inductive invariant, and only a step from a document in
\* preparation changes the roster.
LEMMA NextInv ==
    ASSUME IInv, [Next]_vars
    PROVE  IInv' /\ (~IsPreparationState(doc) => signers' = signers)
<1>1. ASSUME NEW r \in Requests,
             \/ LoadUpload(r) \/ LoadInspect(r) \/ LoadSigners(r) \/ LoadFields(r)
             \/ LoadSend(r) \/ LoadVoid(r)
      PROVE  IInv' /\ signers' = signers
  <2>1. IInv'
    BY <1>1, ReadsInv
  <2>2. signers' = signers
    BY <1>1 DEF LoadUpload, LoadInspect, LoadSigners, LoadFields, LoadSend, LoadVoid, Load
  <2> QED BY <2>1, <2>2
<1>2. ASSUME NEW r \in Requests, ReadRoster(r) \/ DeleteFields(r) \/ Abort(r)
      PROVE  IInv' /\ signers' = signers
  BY <1>2, ReadRosterInv, DeleteFieldsInv, AbortInv DEF ReadRoster, DeleteFields, Abort
<1>3. ASSUME NEW r \in Requests, CommitUpload(r) \/ CommitSend(r) \/ CommitVoid(r)
      PROVE  IInv' /\ signers' = signers
  BY <1>3, CommitUploadInv, CommitSendInv, CommitVoidInv DEF CommitUpload, CommitSend, CommitVoid
<1>4. ASSUME NEW r \in Requests, CommitFields(r)
      PROVE  IInv' /\ signers' = signers
  BY <1>4, CommitFieldsInv DEF CommitFields
<1>5. ASSUME NEW r \in Requests, NEW outcome \in {"accepted", "rejected"},
             CommitInspect(r, outcome)
      PROVE  IInv' /\ signers' = signers
  BY <1>5, CommitInspectInv DEF CommitInspect
<1>6. ASSUME NEW r \in Requests, NEW kept \in SUBSET signers, NEW n \in 0..MaxSigners,
             CommitSigners(r, kept, n)
      PROVE  IInv' /\ IsPreparationState(doc)
  BY <1>6, CommitSignersInv
<1>7. CASE AbandonUpload
  BY <1>7, AbandonUploadInv DEF AbandonUpload
<1>8. CASE UNCHANGED vars
  BY <1>8 DEF vars, IInv, TypeOK, SnapshotsByVersion, ChecksMade, IsPreparationState,
              AssertReadyToSend, UploadThenInspection, ReadyIsInspected
<1> QED BY <1>1, <1>2, <1>3, <1>4, <1>5, <1>6, <1>7, <1>8 DEF Next

----------------------------------------------------------------------------
(* Theorems.                                                               *)

\* The inductive invariant holds in every reachable state.
THEOREM PreparationInvariant == Spec => []IInv
BY InitInv, NextInv, PTL DEF Spec

\* Rows and snapshots stay in their enumerations, and every signer's id was
\* generated.
THEOREM PreparationTypeOK == Spec => []TypeOK
<1>1. IInv => TypeOK
  BY DEF IInv
<1> QED BY <1>1, PreparationInvariant, PTL

\* A document that is prepared or sent has an uploaded source that the
\* inspection accepted.
THEOREM PreparationReadyIsInspected == Spec => []ReadyIsInspected
<1>1. IInv => ReadyIsInspected
  BY DEF IInv
<1> QED BY <1>1, PreparationInvariant, PTL

\* No replaceDocumentSigners that is in flight when the document is sent or
\* voided changes its roster.
THEOREM PreparationRosterFrozen == Spec => RosterFrozen
<1>1. IInv /\ [Next]_vars => [~IsPreparationState(doc) => signers' = signers]_vars
  BY NextInv
<1> QED BY <1>1, PreparationInvariant, PTL DEF Spec, RosterFrozen
============================================================================

------------------------------ MODULE Signing ------------------------------
(***************************************************************************)
(* The signing of one document: sending it, the signers' sessions, and the *)
(* requests of signers and of the sender that race on them.                *)
(*                                                                         *)
(* A request handler reads rows first, outside any transaction, and then   *)
(* commits one transaction whose updates are conditional (on the version   *)
(* or the status it expects).  A request is therefore two or three steps:  *)
(* it loads, it checks the roster, it commits.  A conditional update that  *)
(* matches no row throws and rolls the transaction back; Abort is every    *)
(* way a request ends without a commit: a failed check or condition, a     *)
(* deadlock victim, a crash of the API process.                            *)
(*                                                                         *)
(* The n-th session created for signer s is <<s, n>>.  Row versions of     *)
(* signers and sessions are left out: a signer's version changes exactly   *)
(* when its status does, a session's exactly when it is exchanged, and     *)
(* each update that tests them tests that column too.                      *)
(***************************************************************************)
EXTENDS Integers, FiniteSets

CONSTANTS
    Signers,       \* the roster, fixed by the preparation of the document
    Mode,          \* documents.signingMode: "parallel" or "ordered"
    Order,         \* signers.routingOrder
    Requests,      \* bound: requests in flight at once
    MaxSessions,   \* bound: sessions created for each signer
    None           \* no snapshot, no session, no roster

\* assertSignerRouting: parallel signers share order 1, ordered ones are
\* numbered consecutively from 1.
ASSUME RosterAssumption == IsFiniteSet(Signers) /\ Signers # {}
ASSUME RoutingAssumption ==
    /\ Mode \in {"parallel", "ordered"}
    /\ Order \in [Signers -> Nat \ {0}]
    /\ Mode = "parallel" => \A s \in Signers : Order[s] = 1
    /\ Mode = "ordered" => /\ \A s, t \in Signers : Order[s] = Order[t] => s = t
                           /\ {Order[s] : s \in Signers} = 1..Cardinality(Signers)
ASSUME SessionsAssumption == MaxSessions \in [Signers -> Nat \ {0}]

VARIABLES
    doc,       \* documents: state and version
    signer,    \* signers.status
    session,   \* signing_sessions, with whether a consent record refers to it
    commits,   \* completeSigning transactions committed per signer: each one
               \* appends a signer_signed event and publishes a flatten job
    exchanges, \* session_exchanged events per session
    request    \* the requests in flight and what each of them has read

signingVars == <<doc, signer, session, commits, exchanges, request>>

Sessions == UNION {{s} \X (1..MaxSessions[s]) : s \in Signers}

DocumentStates == {"draft", "prepared", "sent", "in_progress", "completed",
                   "finalizing", "finalization_failed", "finalized", "voided",
                   "expired", "declined"}
SignerStatus == {"pending", "signed", "declined"}
SessionStatus == {"none", "issued", "active", "completed", "expired", "revoked"}

Document == [state: DocumentStates, version: Nat]
Session == [status: SessionStatus, consumed: BOOLEAN, consent: BOOLEAN]

SignerOps == {"exchange", "view", "consent", "complete", "decline"}
Ops == SignerOps \cup {"send", "void", "rotate"}

Request == [op: Ops, sess: Sessions \cup {None}, signer: Signers \cup {None},
            doc: Document, roster: [Signers -> SignerStatus] \cup {None}]

\* DOCUMENT_TRANSITIONS.
Transitions ==
    [draft |-> {"prepared", "sent", "voided"},
     prepared |-> {"draft", "sent", "voided"},
     sent |-> {"in_progress", "completed", "voided", "expired", "declined"},
     in_progress |-> {"in_progress", "completed", "voided", "expired", "declined"},
     completed |-> {"finalizing"},
     finalizing |-> {"finalized", "finalization_failed"},
     finalization_failed |-> {"finalizing"},
     finalized |-> {}, voided |-> {}, expired |-> {}, declined |-> {}]

\* SIGNING_SESSION_TRANSITIONS; "none" is a row that has not been created.
SessionTransitions ==
    [none |-> {"issued"},
     issued |-> {"active", "expired", "revoked"},
     active |-> {"completed", "expired", "revoked"},
     completed |-> {}, expired |-> {}, revoked |-> {}]

Init ==
    /\ doc = [state |-> "prepared", version |-> 1]
    /\ signer = [s \in Signers |-> "pending"]
    /\ session = [x \in Sessions |->
                    [status |-> "none", consumed |-> FALSE, consent |-> FALSE]]
    /\ commits = [s \in Signers |-> 0]
    /\ exchanges = [x \in Sessions |-> 0]
    /\ request = [r \in Requests |-> None]

----------------------------------------------------------------------------
(* Rules of the domain.                                                     *)

\* isAvailableForSigning; the inspection is accepted before a document is
\* sent and a sent document is not inspected again.
IsAvailableForSigning(d) == d.state \in {"sent", "in_progress"}

Open(x) == session[x].status \in {"issued", "active"}

\* Variant: ordered routing is not enforced.
CanSignerActNowAnyOrder(s, roster) == TRUE

\* canSignerActNow for an actor that was read as pending.
CanSignerActNow(s, roster) ==
    Mode = "ordered" =>
        /\ \E t \in Signers : roster[t] = "pending" /\ Order[t] = Order[s]
        /\ \A t \in Signers : roster[t] = "pending" => Order[s] <= Order[t]

----------------------------------------------------------------------------
(* The conditional updates of the repositories.                             *)

UpdateDocument(read, from, to) ==
    /\ doc.version = read.version
    /\ doc.state \in from
    /\ doc' = [state |-> to, version |-> doc.version + 1]

\* Variant: sending tests neither the version nor the state.
MarkSentBlindly(read) ==
    doc' = [state |-> "sent", version |-> doc.version + 1]

\* Variant: the first signature leaves the document as it was sent.
MarkInProgressForgotten(read) == UpdateDocument(read, {"sent", "in_progress"}, read.state)

MarkSent(read)       == UpdateDocument(read, DocumentStates, "sent")
MarkVoided(read)     == UpdateDocument(read, {"draft", "prepared", "sent", "in_progress"}, "voided")
MarkDeclined(read)   == UpdateDocument(read, {"sent", "in_progress"}, "declined")
MarkInProgress(read) == UpdateDocument(read, {"sent", "in_progress"}, "in_progress")
MarkCompleted(read)  == UpdateDocument(read, {"sent", "in_progress"}, "completed")

\* signers.markSigned: a signer that is signed already is left alone.
MarkSigned(s) ==
    /\ signer[s] \in {"pending", "signed"}
    /\ signer' = [signer EXCEPT ![s] = "signed"]

MarkSignerDeclined(s) ==
    /\ signer[s] = "pending"
    /\ signer' = [signer EXCEPT ![s] = "declined"]

\* signingSessions.markPresented: an active session only gets a new timestamp.
MarkPresented(x) ==
    /\ Open(x)
    /\ session' = [session EXCEPT ![x].status = "active"]

\* Variant: the update does not test consumedAt.
ConsumeAndRotateAgain(x) ==
    /\ Open(x)
    /\ session' = [session EXCEPT ![x] =
                    [status |-> "active", consumed |-> TRUE, consent |-> session[x].consent]]
    /\ exchanges' = [exchanges EXCEPT ![x] = @ + 1]

\* signingSessions.consumeAndRotate: the link token's hash is replaced by the
\* session token's.
ConsumeAndRotate(x) ==
    /\ Open(x)
    /\ ~session[x].consumed
    /\ session' = [session EXCEPT ![x] =
                    [status |-> "active", consumed |-> TRUE, consent |-> session[x].consent]]
    /\ exchanges' = [exchanges EXCEPT ![x] = @ + 1]

\* Variant: a session that was closed meanwhile is completed all the same.
MarkSessionCompletedAlways(x) ==
    session' = [session EXCEPT ![x].status = "completed"]

\* signingSessions.markCompleted: a completed session is left alone.
MarkSessionCompleted(x) ==
    /\ Open(x) \/ session[x].status = "completed"
    /\ session' = [session EXCEPT ![x].status = "completed"]

\* Every open session among xs is revoked.
Revoked(xs) ==
    [x \in Sessions |-> IF x \in xs /\ Open(x)
                        THEN [status |-> "revoked", consumed |-> session[x].consumed,
                              consent |-> session[x].consent]
                        ELSE session[x]]

SessionsOf(s) == {x \in Sessions : x[1] = s}

\* The next session id of signer s, when the bound leaves one.
Fresh(x) ==
    /\ session[x].status = "none"
    /\ \A n \in 1..(x[2] - 1) : session[<<x[1], n>>].status # "none"

Issued == [status |-> "issued", consumed |-> FALSE, consent |-> FALSE]

----------------------------------------------------------------------------
(* Loading.                                                                 *)

Load(r, op, x, s) ==
    /\ request[r] = None
    /\ request' = [request EXCEPT ![r] =
                      [op |-> op, sess |-> x, signer |-> s, doc |-> doc, roster |-> None]]
    /\ UNCHANGED <<doc, signer, session, commits, exchanges>>

\* loadSignerSession.  The exchange presents the link token, which only finds
\* a session that was not exchanged; the other operations present the session
\* token.  completeSigning also accepts a completed session, and then returns
\* the earlier result because its signer is signed: nothing changes.
LoadSession(r, op, x) ==
    /\ op \in SignerOps
    /\ Open(x)
    /\ session[x].consumed <=> op # "exchange"
    /\ IsAvailableForSigning(doc)
    /\ op \in {"complete", "decline"} => signer[x[1]] = "pending"
    /\ op = "consent" => ~session[x].consent
    /\ Load(r, op, x, x[1])

\* sendDocument up to its transaction: assertReadyToSend.
LoadSend(r) ==
    /\ doc.state \in {"draft", "prepared"}
    /\ Load(r, "send", None, None)

\* voidDocument up to its transaction: assertDocumentTransition.
LoadVoid(r) ==
    /\ "voided" \in Transitions[doc.state]
    /\ Load(r, "void", None, None)

\* rotateSigningSession up to its transaction.
LoadRotate(r, s) ==
    /\ IsAvailableForSigning(doc)
    /\ Load(r, "rotate", None, s)

\* The session's expiresAt is over when a request presents it: whichever
\* handler reads it marks it expired and rejects the token.
ExpireOnRead(x) ==
    /\ Open(x)
    /\ session' = [session EXCEPT ![x].status = "expired"]
    /\ UNCHANGED <<doc, signer, commits, exchanges, request>>

\* Variant: the consent is not looked up.
CheckTurnWithoutConsent(r) ==
    /\ request[r] # None
    /\ request[r].op \in {"complete", "decline"}
    /\ request[r].roster = None
    /\ CanSignerActNow(request[r].signer, signer)
    /\ request' = [request EXCEPT ![r].roster = signer]
    /\ UNCHANGED <<doc, signer, session, commits, exchanges>>

\* completeSigning and declineToSign read the roster after the session, the
\* document and the signer.
CheckTurn(r) ==
    /\ request[r] # None
    /\ request[r].op \in {"complete", "decline"}
    /\ request[r].roster = None
    /\ CanSignerActNow(request[r].signer, signer)
    /\ request[r].op = "complete" => session[request[r].sess].consent
    /\ request' = [request EXCEPT ![r].roster = signer]
    /\ UNCHANGED <<doc, signer, session, commits, exchanges>>

----------------------------------------------------------------------------
(* Committing.                                                              *)

InFlight(r, op) == request[r] # None /\ request[r].op = op

Done(r) == request' = [request EXCEPT ![r] = None]

Abort(r) ==
    /\ request[r] # None
    /\ Done(r)
    /\ UNCHANGED <<doc, signer, session, commits, exchanges>>

\* sendDocument's transaction: one session and one invitation per signer.
CommitSend(r) ==
    /\ InFlight(r, "send")
    /\ MarkSent(request[r].doc)
    /\ \A x \in Sessions : ~Open(x)
    /\ session' = [x \in Sessions |-> IF Fresh(x) THEN Issued ELSE session[x]]
    /\ Done(r)
    /\ UNCHANGED <<signer, commits, exchanges>>

CommitExchange(r) ==
    /\ InFlight(r, "exchange")
    /\ ConsumeAndRotate(request[r].sess)
    /\ Done(r)
    /\ UNCHANGED <<doc, signer, commits>>

CommitViewed(r) ==
    /\ InFlight(r, "view")
    /\ MarkPresented(request[r].sess)
    /\ Done(r)
    /\ UNCHANGED <<doc, signer, commits, exchanges>>

\* The consent record is unique per session; the insert does not look at the
\* session's status again.
CommitConsent(r) ==
    /\ InFlight(r, "consent")
    /\ ~session[request[r].sess].consent
    /\ session' = [session EXCEPT ![request[r].sess].consent = TRUE]
    /\ Done(r)
    /\ UNCHANGED <<doc, signer, commits, exchanges>>

\* Variant: one other signature is enough.
AllRequiredSignedSome(q) ==
    \E s \in Signers \ {q.signer} : q.roster[s] = "signed"

\* allRequiredSigned on the roster with the actor counted as signed.
AllRequiredSigned(q) ==
    \A s \in Signers \ {q.signer} : q.roster[s] = "signed"

\* completeSigning's transaction.  Whether this signature is the last one is
\* decided from the roster read before it.
CommitComplete(r) ==
    LET q == request[r]
        last == AllRequiredSigned(q)
    IN  /\ InFlight(r, "complete")
        /\ q.roster # None
        /\ MarkSigned(q.signer)
        /\ MarkSessionCompleted(q.sess)
        /\ \/ last /\ MarkCompleted(q.doc)
           \/ ~last /\ q.doc.state = "sent" /\ MarkInProgress(q.doc)
           \/ ~last /\ q.doc.state # "sent" /\ UNCHANGED doc
        /\ commits' = [commits EXCEPT ![q.signer] = @ + 1]
        /\ Done(r)
        /\ UNCHANGED exchanges

CommitDecline(r) ==
    /\ InFlight(r, "decline")
    /\ request[r].roster # None
    /\ MarkSignerDeclined(request[r].signer)
    /\ MarkDeclined(request[r].doc)
    /\ session' = Revoked(Sessions)
    /\ Done(r)
    /\ UNCHANGED <<commits, exchanges>>

\* Variant: the sessions outlive the document.
CommitVoidOnly(r) ==
    /\ InFlight(r, "void")
    /\ MarkVoided(request[r].doc)
    /\ Done(r)
    /\ UNCHANGED <<signer, session, commits, exchanges>>

\* voidDocument's transaction.
CommitVoid(r) ==
    /\ InFlight(r, "void")
    /\ MarkVoided(request[r].doc)
    /\ session' = Revoked(Sessions)
    /\ Done(r)
    /\ UNCHANGED <<signer, commits, exchanges>>

\* rotateSigningSession's transaction: it tests nothing of the document.
CommitRotate(r) ==
    /\ InFlight(r, "rotate")
    /\ \E x \in SessionsOf(request[r].signer) :
          /\ Fresh(x)
          /\ session' = [Revoked(SessionsOf(request[r].signer)) EXCEPT ![x] = Issued]
    /\ Done(r)
    /\ UNCHANGED <<doc, signer, commits, exchanges>>

\* revokeSigningSession: only its conditional update depends on the state.
RevokeSession(x) ==
    /\ Open(x)
    /\ session' = Revoked({x})
    /\ UNCHANGED <<doc, signer, commits, exchanges, request>>

\* resolveSigningSession: the session is presented before the document is
\* looked at.
ResolveSession(x) ==
    /\ MarkPresented(x)
    /\ UNCHANGED <<doc, signer, commits, exchanges, request>>

----------------------------------------------------------------------------
SigningNext ==
    \/ \E r \in Requests :
          \/ LoadSend(r) \/ LoadVoid(r) \/ \E s \in Signers : LoadRotate(r, s)
          \/ \E op \in SignerOps, x \in Sessions : LoadSession(r, op, x)
          \/ CheckTurn(r) \/ Abort(r)
          \/ CommitSend(r) \/ CommitExchange(r) \/ CommitViewed(r)
          \/ CommitConsent(r) \/ CommitComplete(r) \/ CommitDecline(r)
          \/ CommitVoid(r) \/ CommitRotate(r)
    \/ \E x \in Sessions : ExpireOnRead(x) \/ RevokeSession(x) \/ ResolveSession(x)

SigningSpec == Init /\ [][SigningNext]_signingVars

----------------------------------------------------------------------------
(* Properties.                                                              *)

\* The columns and the requests' snapshots of them stay in their enumerations.
TypeOK ==
    /\ doc \in Document
    /\ signer \in [Signers -> SignerStatus]
    /\ session \in [Sessions -> Session]
    /\ commits \in [Signers -> Nat]
    /\ exchanges \in [Sessions -> Nat]
    /\ request \in [Requests -> Request \cup {None}]

\* Requests that read the document before somebody else changed it never make
\* it take a step that DOCUMENT_TRANSITIONS does not list: a send that races a
\* void does not bring the document back, a last signature that races a
\* decline does not complete it.  Sessions keep to SIGNING_SESSION_TRANSITIONS
\* although the repositories let an issued session be completed and never call
\* assertSigningSessionTransition: a handler that completes one has seen it
\* exchanged.
LegalTransitions ==
    [][/\ doc'.state # doc.state => doc'.state \in Transitions[doc.state]
       /\ \A x \in Sessions :
             session'[x].status # session[x].status =>
                session'[x].status \in SessionTransitions[session[x].status]]_signingVars

\* A signer is signed exactly through one session: one that was exchanged for
\* a session token and carries the consent, whatever rotations, revocations
\* and duplicate submissions raced the signature.
SignedThroughOneSession ==
    \A s \in Signers :
        LET done == {x \in SessionsOf(s) : session[x].status = "completed"}
        IN  /\ signer[s] = "signed" => Cardinality(done) = 1
            /\ signer[s] # "signed" => done = {}
            /\ \A x \in done : session[x].consumed /\ session[x].consent

\* In ordered mode nobody has signed before everybody ahead of them, although
\* the turn is checked on a roster that may be stale at the commit.
RoutingRespected ==
    \A s, t \in Signers :
        signer[s] = "signed" /\ Order[t] < Order[s] => signer[t] = "signed"

\* The document is completed only when every signer has signed, although each
\* commit judges that from the roster it read; it is declined exactly when a
\* signer has declined.
OutcomeMatchesRoster ==
    /\ doc.state = "completed" => \A s \in Signers : signer[s] = "signed"
    /\ doc.state = "declined" <=> \E s \in Signers : signer[s] = "declined"

\* Once a document is voided or declined no signer's status changes, though
\* completeSigning need not update the document: its session was revoked by
\* the same transaction that closed the document.
ClosedDocumentFreezesRoster ==
    [][doc.state \in {"voided", "declined"} => signer' = signer]_signingVars

\* Two clicks on one link never produce two valid session tokens, and a signer
\* never has two sessions open.
OneSessionToken ==
    /\ \A x \in Sessions : exchanges[x] <= 1
    /\ \A s \in Signers : Cardinality({x \in SessionsOf(s) : Open(x)}) <= 1

\* What the lifecycle document says of the last signature: when all signers
\* have signed the document is no longer open for signing.
LastSignatureCompletes ==
    (\A s \in Signers : signer[s] = "signed") => ~IsAvailableForSigning(doc)

\* Every request takes effect as if it had read and written at once: a
\* signature or a decline by somebody who is pending and whose turn it is, on a
\* document that is open, a completion when all have signed, a send or a void
\* of a document that still admits it; or it changes neither the document nor
\* the roster.
Lifecycle == INSTANCE DocumentLifecycle WITH state <- doc.state, status <- signer

LifecycleSpec == Lifecycle!Spec
============================================================================

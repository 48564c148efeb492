------------------------- MODULE FinalizationProofs ------------------------
(***************************************************************************)
(* Proofs about Signing and Finalization for every roster, routing, number *)
(* of sessions, requests, jobs, workers and faults.  Signing comes first,  *)
(* as a specification of its own; then the flattening workers leave its    *)
(* invariant intact, and the lease keeps the revision, the flags of the    *)
(* fields and the artifact together.                                       *)
(***************************************************************************)
EXTENDS Finalization, FiniteSetTheorems, TLAPS

----------------------------------------------------------------------------
(* Signing: the inductive invariant.                                       *)

Loaded(r) == request[r] # None

\* A request on behalf of a signer, and one that acts for the signer.
OfSigner(r) == Loaded(r) /\ request[r].op \in SignerOps
Acting(r) == Loaded(r) /\ request[r].op \in {"complete", "decline"}

\* What a request read is older than the document, or is the document.
SnapshotsByVersion ==
    \A r \in Requests :
        Loaded(r) =>
            /\ request[r].doc.version <= doc.version
            /\ request[r].doc.version = doc.version => request[r].doc = doc

\* sendDocument read a document in preparation; a signer's request names a
\* session that exists and its signer, and unless it is the exchange itself
\* that session was exchanged.
ChecksMade ==
    \A r \in Requests :
        /\ Loaded(r) /\ request[r].op = "send" => request[r].doc.state \in {"draft", "prepared"}
        /\ Loaded(r) /\ request[r].op = "rotate" => request[r].signer \in Signers
        /\ OfSigner(r) =>
              /\ request[r].sess \in Sessions
              /\ request[r].signer = request[r].sess[1]
              /\ session[request[r].sess].status # "none"
              /\ request[r].op # "exchange" => session[request[r].sess].consumed

\* The turn was checked on a roster, and what is settled in that roster still
\* stands; a completion has seen the consent.
TurnsChecked ==
    \A r \in Requests :
        Acting(r) /\ request[r].roster # None =>
            /\ CanSignerActNow(request[r].signer, request[r].roster)
            /\ \A t \in Signers :
                  request[r].roster[t] # "pending" => signer[t] = request[r].roster[t]
            /\ request[r].op = "complete" => session[request[r].sess].consent

\* The session of a request that acts for a signer is closed once the signer
\* is settled, and once the document is voided or declined.
StaleActorsShutOut ==
    \A r \in Requests :
        Acting(r) =>
            /\ signer[request[r].signer] # "pending" => ~Open(request[r].sess)
            /\ doc.state \in {"voided", "declined"} => ~Open(request[r].sess)

\* The exchange happens once per session and leaves it active.
ExchangedOnce ==
    \A x \in Sessions :
        /\ exchanges[x] = IF session[x].consumed THEN 1 ELSE 0
        /\ session[x].consumed => session[x].status \notin {"none", "issued"}

OneOpenSession ==
    \A x, y \in Sessions : x[1] = y[1] /\ Open(x) /\ Open(y) => x = y

\* A session is completed together with the signature of its signer.
CompletedMeansSigned ==
    /\ \A x \in Sessions :
          session[x].status = "completed" =>
              signer[x[1]] = "signed" /\ session[x].consumed /\ session[x].consent
    /\ \A x, y \in Sessions :
          x[1] = y[1] /\ session[x].status = "completed" /\ session[y].status = "completed"
              => x = y
    /\ \A s \in Signers :
          signer[s] = "signed" => \E x \in SessionsOf(s) : session[x].status = "completed"

SigningInv ==
    /\ TypeOK
    /\ SnapshotsByVersion /\ ChecksMade /\ TurnsChecked /\ StaleActorsShutOut
    /\ ExchangedOnce /\ OneOpenSession /\ CompletedMeansSigned
    /\ RoutingRespected /\ OutcomeMatchesRoster

----------------------------------------------------------------------------
(* What the steps have in common.                                          *)

\* Requests end or stay as they are.
RequestsOnlyEnd ==
    /\ request' \in [Requests -> Request \cup {None}]
    /\ \A r \in Requests : request'[r] # None => request'[r] = request[r]

\* A session that was created stays, keeps its exchange and its consent, and
\* does not open again.
SessionsOnlyClose ==
    \A x \in Sessions :
        session[x].status # "none" =>
            /\ session'[x].status # "none"
            /\ session[x].consumed => session'[x].consumed
            /\ session[x].consent => session'[x].consent
            /\ Open(x)' => Open(x)

\* A change of the document counts its version up.
VersionCounts == doc' # doc => doc'.version \in Nat /\ doc'.version > doc.version

\* A signer that signed or declined stays so.
SettledStays == \A s \in Signers : signer[s] # "pending" => signer'[s] = signer[s]

\* Who settles a signer closes the signer's sessions, who closes the document
\* closes all of them.
ClosesSessions ==
    /\ \A x \in Sessions :
          signer[x[1]] = "pending" /\ signer'[x[1]] # "pending" => ~Open(x)'
    /\ doc'.state \in {"voided", "declined"} /\ doc.state \notin {"voided", "declined"} =>
          \A x \in Sessions : ~Open(x)'

\* The id of a session names its signer, and ids are given out from 1.
LEMMA SessionIds ==
    ASSUME NEW x \in Sessions
    PROVE  /\ x[1] \in Signers /\ x[2] \in Nat \ {0}
           /\ x = <<x[1], x[2]>>
           /\ \A n \in 1..x[2] : <<x[1], n>> \in Sessions
<1>1. PICK s \in Signers : x \in {s} \X (1..MaxSessions[s])
  BY DEF Sessions
<1>2. x[1] = s /\ x[2] \in 1..MaxSessions[s] /\ x = <<x[1], x[2]>>
  BY <1>1
<1>3. MaxSessions[s] \in Nat
  BY SessionsAssumption
<1>4. ASSUME NEW n \in 1..x[2]
      PROVE  <<x[1], n>> \in Sessions
  <2>1. <<s, n>> \in {s} \X (1..MaxSessions[s])
    BY <1>2, <1>3
  <2> QED BY <1>2, <2>1 DEF Sessions
<1> QED BY <1>2, <1>3, <1>4

\* expectedVersion: a conditional update finds the document as it was read.
LEMMA ReadIsCurrent ==
    ASSUME SigningInv, NEW r \in Requests, Loaded(r), doc.version = request[r].doc.version
    PROVE  request[r].doc = doc
BY DEF SigningInv, SnapshotsByVersion

\* What the requests in flight have read and checked stays good.
LEMMA RequestsFrame ==
    ASSUME SigningInv, RequestsOnlyEnd, SessionsOnlyClose, VersionCounts, SettledStays,
           ClosesSessions
    PROVE  SnapshotsByVersion' /\ ChecksMade' /\ TurnsChecked' /\ StaleActorsShutOut'
<1> USE DEF SigningInv
<1>1. ASSUME NEW r \in Requests, Loaded(r)'
      PROVE  request'[r] = request[r] /\ Loaded(r) /\ request[r] \in Request
  BY <1>1 DEF Loaded, RequestsOnlyEnd, TypeOK
<1>2. ASSUME NEW r \in Requests, Loaded(r)'
      PROVE  /\ request'[r].doc.version <= doc'.version
             /\ request'[r].doc.version = doc'.version => request'[r].doc = doc'
  <2>1. request'[r] = request[r] /\ Loaded(r) /\ request[r] \in Request
    BY <1>1, <1>2
  <2>2. request[r].doc.version \in Nat /\ doc.version \in Nat
    BY <2>1 DEF Request, Document, TypeOK
  <2>3. /\ request[r].doc.version <= doc.version
        /\ request[r].doc.version = doc.version => request[r].doc = doc
    BY <2>1 DEF SnapshotsByVersion
  <2> QED BY <2>1, <2>2, <2>3 DEF VersionCounts
<1>3. SnapshotsByVersion'
  BY <1>2 DEF SnapshotsByVersion
<1>4. ChecksMade'
  BY <1>1 DEF ChecksMade, OfSigner, SessionsOnlyClose
<1>5. TurnsChecked'
  <2> SUFFICES ASSUME NEW r \in Requests, Acting(r)', request'[r].roster # None
               PROVE  /\ CanSignerActNow(request'[r].signer, request'[r].roster)
                      /\ \A t \in Signers :
                            request'[r].roster[t] # "pending" =>
                                signer'[t] = request'[r].roster[t]
                      /\ request'[r].op = "complete" => session'[request'[r].sess].consent
    BY DEF TurnsChecked, CanSignerActNow
  <2>1. request'[r] = request[r] /\ Acting(r)
    BY <1>1 DEF Acting, Loaded
  <2>2. /\ CanSignerActNow(request[r].signer, request[r].roster)
        /\ \A t \in Signers :
              request[r].roster[t] # "pending" => signer[t] = request[r].roster[t]
        /\ request[r].op = "complete" => session[request[r].sess].consent
    BY <2>1 DEF TurnsChecked
  <2>3. request[r].sess \in Sessions /\ session[request[r].sess].status # "none"
    BY <2>1 DEF ChecksMade, Acting, OfSigner, SignerOps
  <2>4. \A t \in Signers : request[r].roster[t] # "pending" => signer'[t] = request[r].roster[t]
    BY <2>2 DEF SettledStays
  <2>5. request[r].op = "complete" => session'[request[r].sess].consent
    BY <2>2, <2>3 DEF SessionsOnlyClose
  <2> QED BY <2>1, <2>2, <2>4, <2>5
<1>6. StaleActorsShutOut'
  <2> SUFFICES ASSUME NEW r \in Requests, Acting(r)'
               PROVE  /\ signer'[request'[r].signer] # "pending" => ~Open(request[r].sess)'
                      /\ doc'.state \in {"voided", "declined"} => ~Open(request[r].sess)'
    BY DEF StaleActorsShutOut
  <2>1. request'[r] = request[r] /\ Acting(r)
    BY <1>1 DEF Acting, Loaded
  <2>2. PICK x \in Sessions : x = request[r].sess
    BY <2>1 DEF ChecksMade, Acting, OfSigner, SignerOps
  <2>3. request[r].signer = x[1] /\ session[x].status # "none"
    BY <2>1, <2>2 DEF ChecksMade, Acting, OfSigner, SignerOps
  <2>4. /\ signer[x[1]] # "pending" => ~Open(x)
        /\ doc.state \in {"voided", "declined"} => ~Open(x)
    BY <2>1, <2>2, <2>3 DEF StaleActorsShutOut
  <2>5. ~Open(x) => ~Open(x)'
    BY <2>3 DEF SessionsOnlyClose
  <2>6. signer'[x[1]] # "pending" => ~Open(x)'
    BY <2>4, <2>5 DEF ClosesSessions
  <2>7. doc'.state \in {"voided", "declined"} => ~Open(x)'
    BY <2>4, <2>5 DEF ClosesSessions
  <2> QED BY <2>1, <2>2, <2>3, <2>6, <2>7
<1> QED BY <1>3, <1>4, <1>5, <1>6

\* Done: the request of a commit or of an abort leaves its slot.
LEMMA DoneOnlyEnds ==
    ASSUME TypeOK, NEW r \in Requests, Done(r)
    PROVE  RequestsOnlyEnd
BY DEF TypeOK, Done, RequestsOnlyEnd

\* A step that only moves sessions, opens none and completes none.
LEMMA SessionStep ==
    ASSUME SigningInv, RequestsOnlyEnd, SessionsOnlyClose,
           UNCHANGED <<doc, signer, commits>>,
           session' \in [Sessions -> Session], exchanges' \in [Sessions -> Nat],
           \A x \in Sessions : Open(x)' => Open(x),
           \A x \in Sessions :
               session'[x].status = "completed" <=> session[x].status = "completed",
           ExchangedOnce'
    PROVE  SigningInv'
<1> USE DEF SigningInv
<1>1. VersionCounts /\ SettledStays /\ ClosesSessions
  BY DEF VersionCounts, SettledStays, ClosesSessions
<1>2. SnapshotsByVersion' /\ ChecksMade' /\ TurnsChecked' /\ StaleActorsShutOut'
  BY <1>1, RequestsFrame
<1>3. TypeOK'
  BY DEF TypeOK, RequestsOnlyEnd
<1>4. OneOpenSession'
  BY DEF OneOpenSession
<1>5. CompletedMeansSigned'
  BY DEF CompletedMeansSigned, SessionsOnlyClose, SessionsOf
<1>6. RoutingRespected' /\ OutcomeMatchesRoster'
  BY DEF RoutingRespected, OutcomeMatchesRoster
<1> QED BY <1>2, <1>3, <1>4, <1>5, <1>6

----------------------------------------------------------------------------
(* Every action keeps the invariant.                                       *)

\* A prepared document without sessions satisfies the inductive invariant.
LEMMA InitInv == Init => SigningInv
<1> SUFFICES ASSUME Init PROVE SigningInv
  OBVIOUS
<1> USE DEF Init
<1>1. TypeOK
  BY DEF TypeOK, Document, DocumentStates, SignerStatus, Session, SessionStatus
<1>2. SnapshotsByVersion /\ ChecksMade /\ TurnsChecked /\ StaleActorsShutOut
  BY DEF SnapshotsByVersion, ChecksMade, TurnsChecked, StaleActorsShutOut, Acting, OfSigner, Loaded
<1>3. ExchangedOnce /\ OneOpenSession
  BY DEF ExchangedOnce, OneOpenSession, Open
<1>4. CompletedMeansSigned /\ RoutingRespected /\ OutcomeMatchesRoster
  BY DEF CompletedMeansSigned, RoutingRespected, OutcomeMatchesRoster
<1> QED BY <1>1, <1>2, <1>3, <1>4 DEF SigningInv

\* A read takes the document as it is.
LEMMA LoadInv ==
    ASSUME SigningInv, NEW r \in Requests, NEW op \in Ops, NEW x \in Sessions \cup {None},
           NEW s \in Signers \cup {None}, Load(r, op, x, s),
           op = "send" => doc.state \in {"draft", "prepared"},
           op = "rotate" => s \in Signers,
           op \in SignerOps =>
               /\ x \in Sessions /\ s = x[1] /\ session[x].status # "none"
               /\ op # "exchange" => session[x].consumed
               /\ doc.state \notin {"voided", "declined"},
           op \in {"complete", "decline"} => signer[s] = "pending"
    PROVE  SigningInv'
<1> USE DEF SigningInv
<1>1. /\ request' = [request EXCEPT ![r] =
                       [op |-> op, sess |-> x, signer |-> s, doc |-> doc, roster |-> None]]
      /\ UNCHANGED <<doc, signer, session, commits, exchanges>>
  BY DEF Load
<1>2. request'[r] = [op |-> op, sess |-> x, signer |-> s, doc |-> doc, roster |-> None]
  BY <1>1 DEF TypeOK
<1>3. \A q \in Requests \ {r} : request'[q] = request[q]
  BY <1>1 DEF TypeOK
<1>4. TypeOK'
  <2>1. request'[r] \in Request
    BY <1>2 DEF Request, TypeOK
  <2> QED BY <1>1, <2>1 DEF TypeOK
<1>5. SnapshotsByVersion'
  <2>1. doc.version \in Nat
    BY DEF TypeOK, Document
  <2> QED BY <1>1, <1>2, <1>3, <2>1 DEF SnapshotsByVersion, Loaded
<1>6. ChecksMade'
  BY <1>1, <1>2, <1>3 DEF ChecksMade, OfSigner, Loaded
<1>7. TurnsChecked'
  BY <1>1, <1>2, <1>3 DEF TurnsChecked, Acting, Loaded, CanSignerActNow
<1>8. StaleActorsShutOut'
  BY <1>1, <1>2, <1>3 DEF StaleActorsShutOut, Acting, Loaded, Open, SignerOps
<1>9. ExchangedOnce' /\ OneOpenSession' /\ CompletedMeansSigned'
  BY <1>1 DEF ExchangedOnce, OneOpenSession, CompletedMeansSigned, Open, SessionsOf
<1>10. RoutingRespected' /\ OutcomeMatchesRoster'
  BY <1>1 DEF RoutingRespected, OutcomeMatchesRoster
<1> QED BY <1>4, <1>5, <1>6, <1>7, <1>8, <1>9, <1>10

\* loadSignerSession checks the session, the document and the signer.
LEMMA LoadSessionInv ==
    ASSUME SigningInv, NEW r \in Requests, NEW op \in SignerOps, NEW x \in Sessions,
           LoadSession(r, op, x)
    PROVE  SigningInv'
<1>1. x[1] \in Signers
  BY SessionIds
<1>2. /\ Load(r, op, x, x[1])
      /\ session[x].status # "none"
      /\ op # "exchange" => session[x].consumed
      /\ doc.state \notin {"voided", "declined"}
      /\ op \in {"complete", "decline"} => signer[x[1]] = "pending"
  BY DEF LoadSession, Open, IsAvailableForSigning
<1>3. op \in Ops /\ op # "send" /\ op # "rotate"
  BY DEF Ops, SignerOps
<1> QED BY <1>1, <1>2, <1>3, LoadInv

\* sendDocument, voidDocument and rotateSigningSession read before their transactions.
LEMMA LoadOfSenderInv ==
    ASSUME SigningInv, NEW r \in Requests,
           LoadSend(r) \/ LoadVoid(r) \/ \E s \in Signers : LoadRotate(r, s)
    PROVE  SigningInv'
<1>1. CASE LoadSend(r)
  BY <1>1, LoadInv DEF LoadSend, Ops, SignerOps
<1>2. CASE LoadVoid(r)
  BY <1>2, LoadInv DEF LoadVoid, Ops, SignerOps
<1>3. ASSUME NEW s \in Signers, LoadRotate(r, s)
      PROVE  SigningInv'
  BY <1>3, LoadInv DEF LoadRotate, Ops, SignerOps
<1> QED BY <1>1, <1>2, <1>3

\* completeSigning and declineToSign check the turn on the roster of that moment.
LEMMA CheckTurnInv ==
    ASSUME SigningInv, NEW r \in Requests, CheckTurn(r)
    PROVE  SigningInv'
<1> USE DEF SigningInv
<1>1. /\ request' = [request EXCEPT ![r].roster = signer]
      /\ UNCHANGED <<doc, signer, session, commits, exchanges>>
      /\ Loaded(r) /\ request[r] \in Request
  BY DEF CheckTurn, Loaded, TypeOK
<1>2. request'[r] = [op |-> request[r].op, sess |-> request[r].sess,
                     signer |-> request[r].signer, doc |-> request[r].doc, roster |-> signer]
  BY <1>1 DEF TypeOK, Request
<1>3. \A q \in Requests \ {r} : request'[q] = request[q]
  BY <1>1 DEF TypeOK
<1>4. TypeOK'
  <2>1. request'[r] \in Request
    BY <1>1, <1>2 DEF Request, TypeOK
  <2> QED BY <1>1, <2>1 DEF TypeOK
<1>5. SnapshotsByVersion'
  BY <1>1, <1>2, <1>3 DEF SnapshotsByVersion, Loaded
<1>6. ChecksMade'
  BY <1>1, <1>2, <1>3 DEF ChecksMade, OfSigner, Loaded
<1>7. TurnsChecked'
  <2>1. /\ CanSignerActNow(request[r].signer, signer)
        /\ request[r].op = "complete" => session[request[r].sess].consent
    BY DEF CheckTurn
  <2> QED BY <1>1, <1>2, <1>3, <2>1 DEF TurnsChecked, Acting, Loaded, CanSignerActNow
<1>8. StaleActorsShutOut'
  BY <1>1, <1>2, <1>3 DEF StaleActorsShutOut, Acting, Loaded, Open
<1>9. ExchangedOnce' /\ OneOpenSession' /\ CompletedMeansSigned'
  BY <1>1 DEF ExchangedOnce, OneOpenSession, CompletedMeansSigned, Open, SessionsOf
<1>10. RoutingRespected' /\ OutcomeMatchesRoster'
  BY <1>1 DEF RoutingRespected, OutcomeMatchesRoster
<1> QED BY <1>4, <1>5, <1>6, <1>7, <1>8, <1>9, <1>10

\* A request that ends without a commit changes no row.
LEMMA AbortInv ==
    ASSUME SigningInv, NEW r \in Requests, Abort(r)
    PROVE  SigningInv'
<1> USE DEF SigningInv
<1>1. RequestsOnlyEnd /\ UNCHANGED <<doc, signer, session, commits, exchanges>>
  BY DoneOnlyEnds DEF Abort
<1>2. SessionsOnlyClose /\ ExchangedOnce'
  BY <1>1 DEF SessionsOnlyClose, ExchangedOnce, Open
<1> QED BY <1>1, <1>2, SessionStep DEF Open, TypeOK

\* consumeAndRotate: the link token is exchanged when nobody has exchanged it.
LEMMA CommitExchangeInv ==
    ASSUME SigningInv, NEW r \in Requests, CommitExchange(r)
    PROVE  SigningInv'
<1> USE DEF SigningInv
<1>1. PICK x \in Sessions : x = request[r].sess
  BY DEF CommitExchange, InFlight, ChecksMade, OfSigner, Loaded, SignerOps
<1>2. /\ Open(x) /\ ~session[x].consumed
      /\ session' = [session EXCEPT ![x] =
                       [status |-> "active", consumed |-> TRUE, consent |-> session[x].consent]]
      /\ exchanges' = [exchanges EXCEPT ![x] = @ + 1]
      /\ UNCHANGED <<doc, signer, commits>>
  BY <1>1 DEF CommitExchange, ConsumeAndRotate
<1>3. RequestsOnlyEnd
  BY DoneOnlyEnds DEF CommitExchange
<1>4. session' \in [Sessions -> Session] /\ exchanges' \in [Sessions -> Nat]
  BY <1>2 DEF TypeOK, Session, SessionStatus
<1>5. /\ session'[x] = [status |-> "active", consumed |-> TRUE, consent |-> session[x].consent]
      /\ \A y \in Sessions \ {x} : session'[y] = session[y]
  BY <1>2 DEF TypeOK
<1>6. SessionsOnlyClose /\ \A y \in Sessions : Open(y)' => Open(y)
  BY <1>2, <1>5 DEF SessionsOnlyClose, Open
<1>7. \A y \in Sessions : session'[y].status = "completed" <=> session[y].status = "completed"
  BY <1>2, <1>5 DEF Open
<1>8. ExchangedOnce'
  BY <1>2, <1>5 DEF ExchangedOnce, TypeOK
<1> QED BY <1>2, <1>3, <1>4, <1>6, <1>7, <1>8, SessionStep

\* markPresented: an open session becomes, or stays, active.
LEMMA MarkPresentedInv ==
    ASSUME SigningInv, NEW x \in Sessions, MarkPresented(x), RequestsOnlyEnd,
           UNCHANGED <<doc, signer, commits, exchanges>>
    PROVE  SigningInv'
<1> USE DEF SigningInv
<1>1. Open(x) /\ session' = [session EXCEPT ![x].status = "active"]
  BY DEF MarkPresented
<1>2. /\ session'[x] = [status |-> "active", consumed |-> session[x].consumed,
                        consent |-> session[x].consent]
      /\ \A y \in Sessions \ {x} : session'[y] = session[y]
  BY <1>1 DEF TypeOK, Session
<1>3. session' \in [Sessions -> Session]
  <2>1. session'[x] \in Session
    BY <1>2 DEF TypeOK, Session, SessionStatus
  <2> QED BY <1>1, <2>1 DEF TypeOK
<1>4. SessionsOnlyClose /\ \A y \in Sessions : Open(y)' => Open(y)
  BY <1>1, <1>2 DEF SessionsOnlyClose, Open
<1>5. \A y \in Sessions : session'[y].status = "completed" <=> session[y].status = "completed"
  BY <1>1, <1>2 DEF Open
<1>6. ExchangedOnce'
  BY <1>1, <1>2 DEF ExchangedOnce, TypeOK
<1> QED BY <1>3, <1>4, <1>5, <1>6, SessionStep DEF TypeOK

\* The consent record of a session.
LEMMA CommitConsentInv ==
    ASSUME SigningInv, NEW r \in Requests, CommitConsent(r)
    PROVE  SigningInv'
<1> USE DEF SigningInv
<1>1. PICK x \in Sessions : x = request[r].sess
  BY DEF CommitConsent, InFlight, ChecksMade, OfSigner, Loaded, SignerOps
<1>2. /\ session' = [session EXCEPT ![x].consent = TRUE]
      /\ UNCHANGED <<doc, signer, commits, exchanges>>
  BY <1>1 DEF CommitConsent
<1>3. RequestsOnlyEnd
  BY DoneOnlyEnds DEF CommitConsent
<1>4. /\ session'[x] = [status |-> session[x].status, consumed |-> session[x].consumed,
                        consent |-> TRUE]
      /\ \A y \in Sessions \ {x} : session'[y] = session[y]
  BY <1>2 DEF TypeOK, Session
<1>5. session' \in [Sessions -> Session]
  <2>1. session'[x] \in Session
    BY <1>4 DEF TypeOK, Session, SessionStatus
  <2> QED BY <1>2, <2>1 DEF TypeOK
<1>6. SessionsOnlyClose /\ \A y \in Sessions : Open(y)' => Open(y)
  BY <1>4 DEF SessionsOnlyClose, Open
<1>7. \A y \in Sessions : session'[y].status = "completed" <=> session[y].status = "completed"
  BY <1>4
<1>8. ExchangedOnce'
  BY <1>2, <1>4 DEF ExchangedOnce, TypeOK
<1> QED BY <1>2, <1>3, <1>5, <1>6, <1>7, <1>8, SessionStep DEF TypeOK

\* A token that is presented too late expires its session.
LEMMA ExpireOnReadInv ==
    ASSUME SigningInv, NEW x \in Sessions, ExpireOnRead(x)
    PROVE  SigningInv'
<1> USE DEF SigningInv
<1>1. /\ Open(x) /\ session' = [session EXCEPT ![x].status = "expired"]
      /\ UNCHANGED <<doc, signer, commits, exchanges, request>>
  BY DEF ExpireOnRead
<1>2. /\ session'[x] = [status |-> "expired", consumed |-> session[x].consumed,
                        consent |-> session[x].consent]
      /\ \A y \in Sessions \ {x} : session'[y] = session[y]
  BY <1>1 DEF TypeOK, Session
<1>3. session' \in [Sessions -> Session]
  <2>1. session'[x] \in Session
    BY <1>2 DEF TypeOK, Session, SessionStatus
  <2> QED BY <1>1, <2>1 DEF TypeOK
<1>4. SessionsOnlyClose /\ \A y \in Sessions : Open(y)' => Open(y)
  BY <1>1, <1>2 DEF SessionsOnlyClose, Open
<1>5. \A y \in Sessions : session'[y].status = "completed" <=> session[y].status = "completed"
  BY <1>1, <1>2 DEF Open
<1>6. ExchangedOnce' /\ RequestsOnlyEnd
  BY <1>1, <1>2 DEF ExchangedOnce, TypeOK, RequestsOnlyEnd
<1> QED BY <1>1, <1>3, <1>4, <1>5, <1>6, SessionStep DEF TypeOK

\* Revoking closes the open sessions of a set and touches nothing else.
LEMMA RevokedSessions ==
    ASSUME SigningInv, NEW xs
    PROVE  /\ Revoked(xs) \in [Sessions -> Session]
           /\ \A y \in Sessions :
                 /\ Revoked(xs)[y].consumed = session[y].consumed
                 /\ Revoked(xs)[y].consent = session[y].consent
                 /\ Revoked(xs)[y].status =
                       IF y \in xs /\ Open(y) THEN "revoked" ELSE session[y].status
<1>1. ASSUME NEW y \in Sessions
      PROVE  /\ session[y] \in Session
             /\ [status |-> "revoked", consumed |-> session[y].consumed,
                 consent |-> session[y].consent] \in Session
  BY DEF SigningInv, TypeOK, Session, SessionStatus
<1> QED BY <1>1 DEF Revoked

\* revokeSigningSession.
LEMMA RevokeSessionInv ==
    ASSUME SigningInv, NEW x \in Sessions, RevokeSession(x)
    PROVE  SigningInv'
<1> USE DEF SigningInv
<1>1. session' = Revoked({x}) /\ UNCHANGED <<doc, signer, commits, exchanges, request>>
  BY DEF RevokeSession
<1>2. /\ session' \in [Sessions -> Session]
      /\ \A y \in Sessions :
            /\ session'[y].consumed = session[y].consumed
            /\ session'[y].consent = session[y].consent
            /\ session'[y].status =
                  IF y \in {x} /\ Open(y) THEN "revoked" ELSE session[y].status
  BY <1>1, RevokedSessions
<1>3. SessionsOnlyClose /\ \A y \in Sessions : Open(y)' => Open(y)
  BY <1>2 DEF SessionsOnlyClose, Open
<1>4. \A y \in Sessions : session'[y].status = "completed" <=> session[y].status = "completed"
  BY <1>2 DEF Open
<1>5. ExchangedOnce' /\ RequestsOnlyEnd
  BY <1>1, <1>2 DEF ExchangedOnce, TypeOK, RequestsOnlyEnd
<1> QED BY <1>1, <1>2, <1>3, <1>4, <1>5, SessionStep DEF TypeOK

\* Of one signer at most one session id is the next to be given out.
LEMMA FreshIsUnique ==
    ASSUME NEW x \in Sessions, NEW y \in Sessions, x[1] = y[1], Fresh(x), Fresh(y)
    PROVE  x = y
<1>1. /\ x[2] \in Nat \ {0} /\ x = <<x[1], x[2]>>
      /\ y[2] \in Nat \ {0} /\ y = <<y[1], y[2]>>
  BY SessionIds
<1>2. ~(x[2] < y[2])
  <2> SUFFICES ASSUME x[2] < y[2] PROVE FALSE
    OBVIOUS
  <2>1. x[2] \in 1..(y[2] - 1)
    BY <1>1
  <2>2. session[<<y[1], x[2]>>].status # "none"
    BY <2>1 DEF Fresh
  <2> QED BY <1>1, <2>2 DEF Fresh
<1>3. ~(y[2] < x[2])
  <2> SUFFICES ASSUME y[2] < x[2] PROVE FALSE
    OBVIOUS
  <2>1. y[2] \in 1..(x[2] - 1)
    BY <1>1
  <2>2. session[<<x[1], y[2]>>].status # "none"
    BY <2>1 DEF Fresh
  <2> QED BY <1>1, <2>2 DEF Fresh
<1>4. x[2] = y[2]
  BY <1>1, <1>2, <1>3
<1> QED BY <1>1, <1>4

\* What a conditional update leaves: the new state at the next version.
LEMMA UpdateDocumentEffect ==
    ASSUME TypeOK, NEW read, NEW from, NEW to \in DocumentStates,
           UpdateDocument(read, from, to)
    PROVE  /\ doc' \in Document /\ doc'.state = to /\ VersionCounts
           /\ doc.version = read.version /\ doc.state \in from
BY DEF TypeOK, UpdateDocument, Document, VersionCounts

\* sendDocument's transaction opens one session per signer of a document that
\* was in preparation, where none is open.
LEMMA CommitSendInv ==
    ASSUME SigningInv, NEW r \in Requests, CommitSend(r)
    PROVE  SigningInv' /\ doc.state \in {"draft", "prepared"} /\ doc'.state = "sent"
<1> USE DEF SigningInv
<1>1. /\ \A x \in Sessions : ~Open(x)
      /\ session' = [x \in Sessions |-> IF Fresh(x) THEN Issued ELSE session[x]]
      /\ UNCHANGED <<signer, commits, exchanges>>
      /\ Loaded(r) /\ request[r].op = "send" /\ MarkSent(request[r].doc)
  BY DEF CommitSend, InFlight, Loaded
<1>2. /\ doc' \in Document /\ doc'.state = "sent" /\ VersionCounts
      /\ doc.version = request[r].doc.version
  BY <1>1, UpdateDocumentEffect DEF MarkSent, DocumentStates
<1>3. doc.state \in {"draft", "prepared"}
  BY <1>1, <1>2, ReadIsCurrent DEF ChecksMade
<1>4. \A x \in Sessions :
         /\ Fresh(x) => session'[x] = Issued /\ session[x].status = "none"
         /\ ~Fresh(x) => session'[x] = session[x]
  BY <1>1 DEF Fresh
<1>5. session' \in [Sessions -> Session]
  BY <1>1 DEF TypeOK, Session, SessionStatus, Issued
<1>6. \A x \in Sessions :
         session[x].status = "none" => ~session[x].consumed /\ exchanges[x] = 0
  BY DEF ExchangedOnce
<1>7. RequestsOnlyEnd
  BY DoneOnlyEnds DEF CommitSend
<1>8. SessionsOnlyClose
  BY <1>4 DEF SessionsOnlyClose, Open
<1>9. SettledStays /\ ClosesSessions
  BY <1>1, <1>2 DEF SettledStays, ClosesSessions
<1>10. SnapshotsByVersion' /\ ChecksMade' /\ TurnsChecked' /\ StaleActorsShutOut'
  BY <1>2, <1>7, <1>8, <1>9, RequestsFrame
<1>11. TypeOK'
  BY <1>1, <1>2, <1>5, <1>7 DEF TypeOK, RequestsOnlyEnd
<1>12. ExchangedOnce'
  BY <1>1, <1>4, <1>6 DEF ExchangedOnce, Issued
<1>13. OneOpenSession'
  <2>1. \A x \in Sessions : Open(x)' => Fresh(x)
    BY <1>1, <1>4 DEF Open
  <2> QED BY <2>1, FreshIsUnique DEF OneOpenSession
<1>14. CompletedMeansSigned'
  <2>1. \A x \in Sessions :
           /\ session'[x].status = "completed" <=> session[x].status = "completed"
           /\ session[x].status = "completed" => session'[x] = session[x]
    BY <1>4 DEF Issued
  <2> QED BY <1>1, <2>1 DEF CompletedMeansSigned, SessionsOf
<1>15. RoutingRespected' /\ OutcomeMatchesRoster'
  BY <1>1, <1>2, <1>3 DEF RoutingRespected, OutcomeMatchesRoster
<1> QED BY <1>2, <1>3, <1>10, <1>11, <1>12, <1>13, <1>14, <1>15

\* rotateSigningSession revokes the signer's open session before it issues the
\* next one.
LEMMA CommitRotateInv ==
    ASSUME SigningInv, NEW r \in Requests, CommitRotate(r)
    PROVE  SigningInv'
<1> USE DEF SigningInv
<1>1. PICK s \in Signers : s = request[r].signer
  BY DEF CommitRotate, InFlight, ChecksMade, Loaded
<1>2. PICK x \in SessionsOf(s) :
         /\ Fresh(x)
         /\ session' = [Revoked(SessionsOf(s)) EXCEPT ![x] = Issued]
  BY <1>1 DEF CommitRotate
<1>3. x \in Sessions /\ x[1] = s /\ session[x].status = "none"
  BY <1>2 DEF SessionsOf, Fresh
<1>4. UNCHANGED <<doc, signer, commits, exchanges>> /\ RequestsOnlyEnd
  BY DoneOnlyEnds DEF CommitRotate
<1> DEFINE R == Revoked(SessionsOf(s))
<1>5. /\ R \in [Sessions -> Session]
      /\ \A y \in Sessions :
            /\ R[y].consumed = session[y].consumed
            /\ R[y].consent = session[y].consent
            /\ R[y].status =
                  IF y \in SessionsOf(s) /\ Open(y) THEN "revoked" ELSE session[y].status
  BY RevokedSessions
<1> HIDE DEF R
<1>6. session' = [R EXCEPT ![x] = Issued]
  BY <1>2 DEF R
<1>7. session' \in [Sessions -> Session]
  BY <1>5, <1>6 DEF Session, SessionStatus, Issued
<1>8. /\ session'[x] = Issued
      /\ \A y \in Sessions \ {x} :
            /\ session'[y].consumed = session[y].consumed
            /\ session'[y].consent = session[y].consent
            /\ session'[y].status =
                  IF y[1] = s /\ Open(y) THEN "revoked" ELSE session[y].status
  BY <1>3, <1>5, <1>6 DEF SessionsOf
<1>9. SessionsOnlyClose
  BY <1>3, <1>8 DEF SessionsOnlyClose, Open
<1>10. VersionCounts /\ SettledStays /\ ClosesSessions
  BY <1>4 DEF VersionCounts, SettledStays, ClosesSessions
<1>11. SnapshotsByVersion' /\ ChecksMade' /\ TurnsChecked' /\ StaleActorsShutOut'
  BY <1>4, <1>9, <1>10, RequestsFrame
<1>12. TypeOK'
  BY <1>4, <1>7 DEF TypeOK, RequestsOnlyEnd
<1>13. ExchangedOnce'
  BY <1>3, <1>4, <1>8 DEF ExchangedOnce, Issued, Open
<1>14. OneOpenSession'
  <2>1. ASSUME NEW y \in Sessions, y # x, Open(y)'
        PROVE  y[1] # s /\ Open(y)
    BY <1>8, <2>1 DEF Open
  <2> QED BY <1>3, <2>1 DEF OneOpenSession
<1>15. CompletedMeansSigned'
  <2>1. \A y \in Sessions :
           /\ session'[y].status = "completed" <=> session[y].status = "completed"
           /\ session[y].status = "completed" =>
                 /\ session'[y].consumed = session[y].consumed
                 /\ session'[y].consent = session[y].consent
    BY <1>3, <1>8 DEF Issued, Open
  <2> QED BY <1>4, <2>1 DEF CompletedMeansSigned, SessionsOf
<1>16. RoutingRespected' /\ OutcomeMatchesRoster'
  BY <1>4 DEF RoutingRespected, OutcomeMatchesRoster
<1> QED BY <1>11, <1>12, <1>13, <1>14, <1>15, <1>16

\* Closing the document revokes every session: what remains of the invariant is
\* about rows that the revocation leaves alone.
LEMMA RevokeAllFrame ==
    ASSUME SigningInv, session' = Revoked(Sessions), UNCHANGED exchanges
    PROVE  /\ session' \in [Sessions -> Session]
           /\ SessionsOnlyClose /\ (\A x \in Sessions : ~Open(x)')
           /\ ExchangedOnce' /\ OneOpenSession'
           /\ \A x \in Sessions :
                 /\ session'[x].status = "completed" <=> session[x].status = "completed"
                 /\ session'[x].consumed = session[x].consumed
                 /\ session'[x].consent = session[x].consent
<1> USE DEF SigningInv
<1>1. /\ session' \in [Sessions -> Session]
      /\ \A x \in Sessions :
            /\ session'[x].consumed = session[x].consumed
            /\ session'[x].consent = session[x].consent
            /\ session'[x].status = IF Open(x) THEN "revoked" ELSE session[x].status
  BY RevokedSessions
<1>2. SessionsOnlyClose /\ \A x \in Sessions : ~Open(x)'
  BY <1>1 DEF SessionsOnlyClose, Open
<1>3. ExchangedOnce' /\ OneOpenSession'
  BY <1>1, <1>2 DEF ExchangedOnce, OneOpenSession, Open
<1> QED BY <1>1, <1>2, <1>3 DEF Open

\* voidDocument closes the document and all of its sessions.
LEMMA CommitVoidInv ==
    ASSUME SigningInv, NEW r \in Requests, CommitVoid(r)
    PROVE  /\ SigningInv'
           /\ doc.state \in {"draft", "prepared", "sent", "in_progress"} /\ doc'.state = "voided"
<1> USE DEF SigningInv
<1>1. session' = Revoked(Sessions) /\ UNCHANGED <<signer, commits, exchanges>> /\ RequestsOnlyEnd
  BY DoneOnlyEnds DEF CommitVoid
<1>2. /\ doc' \in Document /\ doc'.state = "voided" /\ VersionCounts
      /\ doc.state \in {"draft", "prepared", "sent", "in_progress"}
  BY UpdateDocumentEffect DEF CommitVoid, MarkVoided, DocumentStates
<1>3. /\ session' \in [Sessions -> Session]
      /\ SessionsOnlyClose /\ (\A x \in Sessions : ~Open(x)')
      /\ ExchangedOnce' /\ OneOpenSession'
      /\ \A x \in Sessions :
            /\ session'[x].status = "completed" <=> session[x].status = "completed"
            /\ session'[x].consumed = session[x].consumed
            /\ session'[x].consent = session[x].consent
  BY <1>1, RevokeAllFrame
<1>4. SettledStays /\ ClosesSessions
  BY <1>1, <1>3 DEF SettledStays, ClosesSessions
<1>5. SnapshotsByVersion' /\ ChecksMade' /\ TurnsChecked' /\ StaleActorsShutOut'
  BY <1>1, <1>2, <1>3, <1>4, RequestsFrame
<1>6. TypeOK'
  BY <1>1, <1>2, <1>3 DEF TypeOK, RequestsOnlyEnd
<1>7. CompletedMeansSigned'
  BY <1>1, <1>3 DEF CompletedMeansSigned, SessionsOf
<1>8. RoutingRespected' /\ OutcomeMatchesRoster'
  BY <1>1, <1>2 DEF RoutingRespected, OutcomeMatchesRoster
<1> QED BY <1>2, <1>3, <1>5, <1>6, <1>7, <1>8

\* declineToSign settles its signer, closes the document and all sessions.
LEMMA CommitDeclineInv ==
    ASSUME SigningInv, NEW r \in Requests, CommitDecline(r)
    PROVE  SigningInv' /\ doc.state \in {"sent", "in_progress"} /\ doc'.state = "declined"
<1> USE DEF SigningInv
<1>1. session' = Revoked(Sessions) /\ UNCHANGED <<commits, exchanges>> /\ RequestsOnlyEnd
  BY DoneOnlyEnds DEF CommitDecline
<1>2. /\ doc' \in Document /\ doc'.state = "declined" /\ VersionCounts
      /\ doc.state \in {"sent", "in_progress"}
  BY UpdateDocumentEffect DEF CommitDecline, MarkDeclined, DocumentStates
<1>3. PICK x \in Sessions : x = request[r].sess /\ request[r].signer = x[1]
  BY DEF CommitDecline, InFlight, ChecksMade, OfSigner, Loaded, SignerOps
<1>4. PICK s \in Signers : s = request[r].signer
  BY <1>3, SessionIds
<1>5. signer[s] = "pending" /\ signer' = [signer EXCEPT ![s] = "declined"]
  BY <1>4 DEF CommitDecline, MarkSignerDeclined
<1>6. signer'[s] = "declined" /\ \A t \in Signers \ {s} : signer'[t] = signer[t]
  BY <1>5 DEF TypeOK
<1>7. /\ session' \in [Sessions -> Session]
      /\ SessionsOnlyClose /\ (\A y \in Sessions : ~Open(y)')
      /\ ExchangedOnce' /\ OneOpenSession'
      /\ \A y \in Sessions :
            /\ session'[y].status = "completed" <=> session[y].status = "completed"
            /\ session'[y].consumed = session[y].consumed
            /\ session'[y].consent = session[y].consent
  BY <1>1, RevokeAllFrame
<1>8. SettledStays /\ ClosesSessions
  BY <1>5, <1>6, <1>7 DEF SettledStays, ClosesSessions
<1>9. SnapshotsByVersion' /\ ChecksMade' /\ TurnsChecked' /\ StaleActorsShutOut'
  BY <1>1, <1>2, <1>7, <1>8, RequestsFrame
<1>10. TypeOK'
  BY <1>1, <1>2, <1>5, <1>7 DEF TypeOK, RequestsOnlyEnd, SignerStatus
<1>11. CompletedMeansSigned'
  <2>1. \A t \in Signers : signer'[t] = "signed" <=> signer[t] = "signed"
    BY <1>5, <1>6
  <2>2. \A y \in Sessions : y[1] \in Signers
    BY SessionIds
  <2> QED BY <1>7, <2>1, <2>2 DEF CompletedMeansSigned, SessionsOf
<1>12. RoutingRespected'
  BY <1>5, <1>6 DEF RoutingRespected
<1>13. OutcomeMatchesRoster'
  BY <1>2, <1>6 DEF OutcomeMatchesRoster
<1> QED BY <1>2, <1>7, <1>9, <1>10, <1>11, <1>12, <1>13

\* What completeSigning's transaction finds and writes.  Either its signer is
\* pending, and then its session is open and the document is not closed; or
\* the signer signed through this very session already.
LEMMA CommitCompleteEffect ==
    ASSUME SigningInv, NEW r \in Requests, CommitComplete(r)
    PROVE  \E x \in Sessions :
              /\ request[r].sess = x /\ request[r].signer = x[1] /\ x[1] \in Signers
              /\ session[x].consumed /\ session[x].consent
              /\ signer' = [signer EXCEPT ![x[1]] = "signed"]
              /\ session' \in [Sessions -> Session]
              /\ session'[x] = [status |-> "completed", consumed |-> session[x].consumed,
                                consent |-> session[x].consent]
              /\ \A y \in Sessions \ {x} : session'[y] = session[y]
              /\ \/ /\ signer[x[1]] = "pending" /\ Open(x)
                    /\ doc.state \notin {"voided", "declined"}
                 \/ signer[x[1]] = "signed" /\ session[x].status = "completed"
<1> USE DEF SigningInv
<1>1. Acting(r) /\ OfSigner(r) /\ request[r].op = "complete" /\ request[r].roster # None
  BY DEF CommitComplete, InFlight, Acting, OfSigner, Loaded, SignerOps
<1>2. PICK x \in Sessions : x = request[r].sess
  BY <1>1 DEF ChecksMade
<1>3. request[r].signer = x[1] /\ session[x].consumed /\ session[x].consent /\ x[1] \in Signers
  BY <1>1, <1>2, SessionIds DEF ChecksMade, TurnsChecked
<1>4. /\ signer[x[1]] \in {"pending", "signed"}
      /\ signer' = [signer EXCEPT ![x[1]] = "signed"]
      /\ Open(x) \/ session[x].status = "completed"
      /\ session' = [session EXCEPT ![x].status = "completed"]
  BY <1>2, <1>3 DEF CommitComplete, MarkSigned, MarkSessionCompleted
<1>5. /\ session'[x] = [status |-> "completed", consumed |-> session[x].consumed,
                        consent |-> session[x].consent]
      /\ \A y \in Sessions \ {x} : session'[y] = session[y]
  BY <1>4 DEF TypeOK, Session
<1>6. session' \in [Sessions -> Session]
  <2>1. session'[x] \in Session
    BY <1>5 DEF TypeOK, Session, SessionStatus
  <2> QED BY <1>4, <2>1 DEF TypeOK
<1>7. CASE signer[x[1]] = "pending"
  <2>1. Open(x)
    BY <1>4, <1>7 DEF CompletedMeansSigned
  <2>2. doc.state \notin {"voided", "declined"}
    BY <1>1, <1>2, <2>1 DEF StaleActorsShutOut
  <2> QED BY <1>2, <1>3, <1>4, <1>5, <1>6, <1>7, <2>1, <2>2
<1>8. CASE signer[x[1]] = "signed"
  <2>1. session[x].status = "completed"
    BY <1>1, <1>2, <1>3, <1>4, <1>8 DEF StaleActorsShutOut
  <2> QED BY <1>2, <1>3, <1>4, <1>5, <1>6, <1>8, <2>1
<1> QED BY <1>4, <1>7, <1>8

\* What completeSigning's transaction makes of the document: it completes it
\* only when everybody else had signed in the roster it read, and they still
\* have.
LEMMA CommitCompleteDocument ==
    ASSUME SigningInv, NEW r \in Requests, CommitComplete(r), doc' # doc
    PROVE  /\ doc' \in Document /\ VersionCounts
           /\ doc.state \in {"sent", "in_progress"}
           /\ doc'.state \in {"in_progress", "completed"}
           /\ doc'.state = "completed" =>
                 \A t \in Signers \ {request[r].signer} : signer[t] = "signed"
<1> USE DEF SigningInv
<1>1. Acting(r) /\ request[r].roster # None
  BY DEF CommitComplete, InFlight, Acting, Loaded
<1>2. CASE AllRequiredSigned(request[r]) /\ MarkCompleted(request[r].doc)
  <2>1. \A t \in Signers \ {request[r].signer} : signer[t] = "signed"
    BY <1>1, <1>2 DEF AllRequiredSigned, TurnsChecked
  <2> QED BY <1>2, <2>1, UpdateDocumentEffect DEF MarkCompleted, DocumentStates
<1>3. CASE MarkInProgress(request[r].doc)
  BY <1>3, UpdateDocumentEffect DEF MarkInProgress, DocumentStates
<1> QED BY <1>2, <1>3 DEF CommitComplete

\* completeSigning: the signature, its session and the document together.
LEMMA CommitCompleteInv ==
    ASSUME SigningInv, NEW r \in Requests, CommitComplete(r)
    PROVE  SigningInv'
<1> USE DEF SigningInv
<1>1. PICK x \in Sessions :
         /\ request[r].sess = x /\ request[r].signer = x[1] /\ x[1] \in Signers
         /\ session[x].consumed /\ session[x].consent
         /\ signer' = [signer EXCEPT ![x[1]] = "signed"]
         /\ session' \in [Sessions -> Session]
         /\ session'[x] = [status |-> "completed", consumed |-> session[x].consumed,
                           consent |-> session[x].consent]
         /\ \A y \in Sessions \ {x} : session'[y] = session[y]
         /\ \/ /\ signer[x[1]] = "pending" /\ Open(x)
               /\ doc.state \notin {"voided", "declined"}
            \/ signer[x[1]] = "signed" /\ session[x].status = "completed"
  BY CommitCompleteEffect
<1>2. PICK s \in Signers : s = x[1]
  BY <1>1
<1>3. signer'[s] = "signed" /\ \A t \in Signers \ {s} : signer'[t] = signer[t]
  BY <1>1, <1>2 DEF TypeOK
<1>4. /\ commits' = [commits EXCEPT ![s] = @ + 1]
      /\ UNCHANGED exchanges /\ RequestsOnlyEnd
  BY <1>1, <1>2, DoneOnlyEnds DEF CommitComplete
<1>5. doc' # doc =>
         /\ doc' \in Document /\ VersionCounts
         /\ doc.state \in {"sent", "in_progress"}
         /\ doc'.state \in {"in_progress", "completed"}
         /\ doc'.state = "completed" => \A t \in Signers \ {s} : signer[t] = "signed"
  BY <1>1, <1>2, CommitCompleteDocument
<1>6. SessionsOnlyClose
  BY <1>1 DEF SessionsOnlyClose, Open
<1>7. VersionCounts /\ SettledStays
  BY <1>1, <1>2, <1>3, <1>5 DEF VersionCounts, SettledStays
<1>8. ClosesSessions
  <2>1. ASSUME NEW y \in Sessions, signer[y[1]] = "pending", signer'[y[1]] # "pending"
        PROVE  ~Open(y)'
    <3>1. y[1] = s /\ Open(x)
      BY <1>1, <1>2, <1>3, <2>1, SessionIds
    <3>2. CASE y = x
      BY <1>1, <3>2 DEF Open
    <3>3. CASE y # x
      <4>1. ~Open(y)
        BY <3>1, <3>3, <1>2 DEF OneOpenSession
      <4> QED BY <1>1, <3>3, <4>1 DEF Open
    <3> QED BY <3>2, <3>3
  <2>2. doc'.state \in {"voided", "declined"} => doc.state \in {"voided", "declined"}
    BY <1>5
  <2> QED BY <2>1, <2>2 DEF ClosesSessions
<1>9. SnapshotsByVersion' /\ ChecksMade' /\ TurnsChecked' /\ StaleActorsShutOut'
  BY <1>4, <1>6, <1>7, <1>8, RequestsFrame
<1>10. TypeOK'
  <2>1. doc' \in Document
    BY <1>5 DEF TypeOK
  <2>2. signer' \in [Signers -> SignerStatus] /\ commits' \in [Signers -> Nat]
    BY <1>1, <1>4 DEF TypeOK, SignerStatus
  <2> QED BY <1>1, <1>4, <2>1, <2>2 DEF TypeOK, RequestsOnlyEnd
<1>11. ExchangedOnce'
  BY <1>1, <1>4 DEF ExchangedOnce
<1>12. OneOpenSession'
  <2>1. \A y \in Sessions : Open(y)' => Open(y)
    BY <1>1 DEF Open
  <2> QED BY <2>1 DEF OneOpenSession
<1>13. CompletedMeansSigned'
  <2>1. \A y \in Sessions :
           session'[y].status = "completed" <=> y = x \/ session[y].status = "completed"
    BY <1>1
  <2>2. \A y \in Sessions \ {x} : session[y].status = "completed" => y[1] # s
    BY <1>1, <1>2 DEF CompletedMeansSigned
  <2>3. \A y \in Sessions : session'[y].status = "completed" =>
           signer'[y[1]] = "signed" /\ session'[y].consumed /\ session'[y].consent
    BY <1>1, <1>2, <1>3, <2>1, SessionIds DEF CompletedMeansSigned
  <2>4. \A y, z \in Sessions :
           /\ y[1] = z[1] /\ session'[y].status = "completed" /\ session'[z].status = "completed"
           => y = z
    BY <1>2, <2>1, <2>2 DEF CompletedMeansSigned
  <2>5. \A t \in Signers :
           signer'[t] = "signed" => \E y \in SessionsOf(t) : session'[y].status = "completed"
    BY <1>2, <1>3, <2>1 DEF CompletedMeansSigned, SessionsOf
  <2> QED BY <2>3, <2>4, <2>5 DEF CompletedMeansSigned
<1>14. RoutingRespected'
  <2> SUFFICES ASSUME NEW u \in Signers, NEW t \in Signers, signer'[u] = "signed",
                      Order[t] < Order[u]
               PROVE  signer'[t] = "signed"
    BY DEF RoutingRespected
  <2>1. CASE signer[u] = "signed"
    BY <1>3, <2>1 DEF RoutingRespected
  <2>2. CASE signer[u] # "signed"
    <3>1. u = s /\ signer[s] = "pending" /\ doc.state \notin {"voided", "declined"}
      BY <1>1, <1>2, <1>3, <2>2
    <3>2. Mode = "ordered"
      BY RoutingAssumption
    <3>3. Acting(r) /\ request[r].roster # None
      BY DEF CommitComplete, InFlight, Acting, Loaded
    <3>4. CanSignerActNow(s, request[r].roster)
      BY <1>1, <1>2, <3>3 DEF TurnsChecked
    <3>5. request[r].roster[t] # "pending"
      BY <3>1, <3>2, <3>4, RoutingAssumption DEF CanSignerActNow
    <3>6. signer[t] # "pending"
      BY <3>3, <3>5 DEF TurnsChecked
    <3>7. signer[t] # "declined"
      BY <3>1 DEF OutcomeMatchesRoster
    <3>8. signer[t] = "signed"
      BY <3>6, <3>7 DEF TypeOK, SignerStatus
    <3> QED BY <1>3, <3>8
  <2> QED BY <2>1, <2>2
<1>15. OutcomeMatchesRoster'
  <2>1. doc'.state = "completed" => \A t \in Signers : signer'[t] = "signed"
    BY <1>3, <1>5 DEF OutcomeMatchesRoster
  <2>2. \A t \in Signers : signer'[t] = "declined" <=> signer[t] = "declined"
    BY <1>1, <1>2, <1>3
  <2>3. doc'.state = "declined" <=> doc.state = "declined"
    BY <1>5
  <2> QED BY <2>1, <2>2, <2>3 DEF OutcomeMatchesRoster
<1> QED BY <1>9, <1>10, <1>11, <1>12, <1>13, <1>14, <1>15

\* Every step of a request or of a session keeps the inductive invariant.
LEMMA SigningNextInv == SigningInv /\ [SigningNext]_signingVars => SigningInv'
<1> SUFFICES ASSUME SigningInv, [SigningNext]_signingVars PROVE SigningInv'
  OBVIOUS
<1>1. ASSUME NEW r \in Requests,
             LoadSend(r) \/ LoadVoid(r) \/ \E s \in Signers : LoadRotate(r, s)
      PROVE  SigningInv'
  BY <1>1, LoadOfSenderInv
<1>2. ASSUME NEW r \in Requests, NEW op \in SignerOps, NEW x \in Sessions,
             LoadSession(r, op, x)
      PROVE  SigningInv'
  BY <1>2, LoadSessionInv
<1>3. ASSUME NEW r \in Requests, CheckTurn(r) \/ Abort(r) \/ CommitSend(r) \/ CommitExchange(r)
      PROVE  SigningInv'
  BY <1>3, CheckTurnInv, AbortInv, CommitSendInv, CommitExchangeInv
<1>4. ASSUME NEW r \in Requests, CommitViewed(r)
      PROVE  SigningInv'
  <2>1. PICK x \in Sessions : x = request[r].sess
    BY <1>4 DEF CommitViewed, InFlight, SigningInv, ChecksMade, OfSigner, Loaded, SignerOps
  <2>2. MarkPresented(x) /\ RequestsOnlyEnd /\ UNCHANGED <<doc, signer, commits, exchanges>>
    BY <1>4, <2>1, DoneOnlyEnds DEF CommitViewed, SigningInv
  <2> QED BY <2>2, MarkPresentedInv
<1>5. ASSUME NEW r \in Requests,
             CommitConsent(r) \/ CommitComplete(r) \/ CommitDecline(r) \/ CommitVoid(r)
             \/ CommitRotate(r)
      PROVE  SigningInv'
  BY <1>5, CommitConsentInv, CommitCompleteInv, CommitDeclineInv, CommitVoidInv, CommitRotateInv
<1>6. ASSUME NEW x \in Sessions, ExpireOnRead(x) \/ RevokeSession(x)
      PROVE  SigningInv'
  BY <1>6, ExpireOnReadInv, RevokeSessionInv
<1>7. ASSUME NEW x \in Sessions, ResolveSession(x)
      PROVE  SigningInv'
  <2>1. RequestsOnlyEnd
    BY <1>7 DEF ResolveSession, RequestsOnlyEnd, SigningInv, TypeOK
  <2> QED BY <1>7, <2>1, MarkPresentedInv DEF ResolveSession
<1>8. CASE UNCHANGED signingVars
  <2>1. SessionsOnlyClose /\ RequestsOnlyEnd /\ ExchangedOnce'
    BY <1>8 DEF signingVars, SessionsOnlyClose, RequestsOnlyEnd, ExchangedOnce, SigningInv,
                TypeOK, Open
  <2> QED BY <1>8, <2>1, SessionStep DEF signingVars, SigningInv, TypeOK, Open
<1> QED BY <1>1, <1>2, <1>3, <1>4, <1>5, <1>6, <1>7, <1>8 DEF SigningNext

----------------------------------------------------------------------------
(* What a step may not do.                                                 *)

LegalSession(x) ==
    session'[x].status # session[x].status =>
        session'[x].status \in SessionTransitions[session[x].status]

LegalStep ==
    /\ doc'.state # doc.state => doc'.state \in Transitions[doc.state]
    /\ \A x \in Sessions : LegalSession(x)

\* The moves of SIGNING_SESSION_TRANSITIONS that the repositories make.
LEMMA LegalSessionMoves ==
    ASSUME NEW x \in Sessions,
           \/ session'[x].status = session[x].status
           \/ session[x].status = "none" /\ session'[x].status = "issued"
           \/ Open(x) /\ session'[x].status \in {"active", "expired", "revoked"}
           \/ session[x].status = "active" /\ session'[x].status = "completed"
    PROVE  LegalSession(x)
BY DEF LegalSession, SessionTransitions, Open

\* Every step keeps to DOCUMENT_TRANSITIONS and SIGNING_SESSION_TRANSITIONS.
LEMMA StepIsLegal ==
    ASSUME SigningInv, SigningNext
    PROVE  LegalStep
<1> USE DEF SigningInv
<1>1. ASSUME UNCHANGED <<doc, session>>
      PROVE  LegalStep
  BY <1>1 DEF LegalStep, LegalSession
<1>2. ASSUME NEW x \in Sessions, UNCHANGED doc,
             \A y \in Sessions \ {x} : session'[y] = session[y], LegalSession(x)
      PROVE  LegalStep
  BY <1>2 DEF LegalStep, LegalSession
<1>3. ASSUME NEW r \in Requests,
             \/ LoadSend(r) \/ LoadVoid(r) \/ (\E s \in Signers : LoadRotate(r, s))
             \/ (\E op \in SignerOps, x \in Sessions : LoadSession(r, op, x))
             \/ CheckTurn(r) \/ Abort(r)
      PROVE  LegalStep
  BY <1>1, <1>3 DEF LoadSend, LoadVoid, LoadRotate, LoadSession, Load, CheckTurn, Abort
<1>4. ASSUME NEW r \in Requests, CommitSend(r)
      PROVE  LegalStep
  <2>1. doc.state \in {"draft", "prepared"} /\ doc'.state = "sent"
    BY <1>4, CommitSendInv
  <2>2. \A x \in Sessions :
           \/ session'[x].status = session[x].status
           \/ session[x].status = "none" /\ session'[x].status = "issued"
    BY <1>4 DEF CommitSend, Fresh, Issued
  <2> QED BY <2>1, <2>2, LegalSessionMoves DEF LegalStep, Transitions
<1>5. ASSUME NEW r \in Requests, CommitExchange(r) \/ CommitViewed(r) \/ CommitConsent(r)
      PROVE  LegalStep
  <2>1. PICK x \in Sessions : x = request[r].sess
    BY <1>5 DEF CommitExchange, CommitViewed, CommitConsent, InFlight, ChecksMade, OfSigner,
                Loaded, SignerOps
  <2>2. \A y \in Sessions \ {x} : session'[y] = session[y]
    BY <1>5, <2>1 DEF CommitExchange, ConsumeAndRotate, CommitViewed, MarkPresented,
                      CommitConsent, TypeOK
  <2>3. \/ session'[x].status = session[x].status
        \/ Open(x) /\ session'[x].status = "active"
    <3>1. CASE CommitExchange(r)
      BY <2>1, <3>1 DEF CommitExchange, ConsumeAndRotate, TypeOK
    <3>2. CASE CommitViewed(r)
      BY <2>1, <3>2 DEF CommitViewed, MarkPresented, TypeOK, Session
    <3>3. CASE CommitConsent(r)
      BY <2>1, <3>3 DEF CommitConsent, TypeOK, Session
    <3> QED BY <1>5, <3>1, <3>2, <3>3
  <2>4. UNCHANGED doc
    BY <1>5 DEF CommitExchange, CommitViewed, CommitConsent
  <2> QED BY <1>2, <2>2, <2>3, <2>4, LegalSessionMoves
<1>6. ASSUME NEW r \in Requests, CommitComplete(r)
      PROVE  LegalStep
  <2>1. PICK x \in Sessions :
           /\ session[x].consumed
           /\ session'[x] = [status |-> "completed", consumed |-> session[x].consumed,
                             consent |-> session[x].consent]
           /\ \A y \in Sessions \ {x} : session'[y] = session[y]
           /\ Open(x) \/ session[x].status = "completed"
    <3> HIDE DEF SigningInv
    <3> QED BY <1>6, CommitCompleteEffect
  <2>2. session[x].status \in {"active", "completed"} /\ session'[x].status = "completed"
    BY <2>1 DEF ExchangedOnce, Open
  <2>3. \A y \in Sessions : LegalSession(y)
    BY <2>1, <2>2, LegalSessionMoves
  <2>4. doc'.state # doc.state => doc'.state \in Transitions[doc.state]
    BY <1>6, CommitCompleteDocument DEF Transitions
  <2> QED BY <2>3, <2>4 DEF LegalStep
<1>7. ASSUME NEW r \in Requests, CommitDecline(r) \/ CommitVoid(r)
      PROVE  LegalStep
  <2>1. \/ doc.state \in {"sent", "in_progress"} /\ doc'.state = "declined"
        \/ /\ doc.state \in {"draft", "prepared", "sent", "in_progress"}
           /\ doc'.state = "voided"
    BY <1>7, CommitDeclineInv, CommitVoidInv
  <2>2. session' = Revoked(Sessions)
    BY <1>7 DEF CommitDecline, CommitVoid
  <2>3. \A x \in Sessions : LegalSession(x)
    BY <2>2, RevokedSessions, LegalSessionMoves
  <2>4. doc'.state \in Transitions[doc.state]
    BY <2>1 DEF Transitions
  <2> QED BY <2>3, <2>4 DEF LegalStep
<1>8. ASSUME NEW r \in Requests, CommitRotate(r)
      PROVE  LegalStep
  <2>1. PICK x \in SessionsOf(request[r].signer) :
           /\ Fresh(x)
           /\ session' = [Revoked(SessionsOf(request[r].signer)) EXCEPT ![x] = Issued]
    BY <1>8 DEF CommitRotate
  <2>2. x \in Sessions /\ session[x].status = "none"
    BY <2>1 DEF SessionsOf, Fresh
  <2>3. session'[x].status = "issued"
    BY <2>1, <2>2, RevokedSessions DEF Issued
  <2>4. \A y \in Sessions \ {x} :
           \/ session'[y].status = session[y].status
           \/ Open(y) /\ session'[y].status = "revoked"
    BY <2>1, <2>2, RevokedSessions
  <2>5. \A y \in Sessions : LegalSession(y)
    BY <2>2, <2>3, <2>4, LegalSessionMoves
  <2>6. UNCHANGED doc
    BY <1>8 DEF CommitRotate
  <2> QED BY <2>5, <2>6 DEF LegalStep
<1>9. ASSUME NEW x \in Sessions, ExpireOnRead(x) \/ RevokeSession(x) \/ ResolveSession(x)
      PROVE  LegalStep
  <2>1. UNCHANGED doc /\ Open(x)
    BY <1>9 DEF ExpireOnRead, RevokeSession, ResolveSession, MarkPresented
  <2>2. CASE ExpireOnRead(x)
    <3>1. /\ session'[x].status = "expired"
          /\ \A y \in Sessions \ {x} : session'[y] = session[y]
      BY <2>2 DEF ExpireOnRead, TypeOK, Session
    <3> QED BY <1>2, <2>1, <3>1, LegalSessionMoves
  <2>3. CASE RevokeSession(x)
    <3>1. \A y \in Sessions :
             \/ session'[y].status = session[y].status
             \/ Open(y) /\ session'[y].status = "revoked"
      BY <2>3, RevokedSessions DEF RevokeSession
    <3>2. \A y \in Sessions : LegalSession(y)
      BY <3>1, LegalSessionMoves
    <3> QED BY <2>1, <3>2 DEF LegalStep
  <2>4. CASE ResolveSession(x)
    <3>1. /\ session'[x].status = "active"
          /\ \A y \in Sessions \ {x} : session'[y] = session[y]
      BY <2>4 DEF ResolveSession, MarkPresented, TypeOK, Session
    <3> QED BY <1>2, <2>1, <3>1, LegalSessionMoves
  <2> QED BY <1>9, <2>2, <2>3, <2>4
<1> QED BY <1>3, <1>4, <1>5, <1>6, <1>7, <1>8, <1>9 DEF SigningNext

\* A document that is voided or declined has shut out every request that would
\* settle a signer.
LEMMA ClosedStepFreezes ==
    ASSUME SigningInv, SigningNext, doc.state \in {"voided", "declined"}
    PROVE  signer' = signer
<1>1. ASSUME NEW r \in Requests, CommitComplete(r)
      PROVE  signer' = signer
  <2>1. PICK x \in Sessions :
           /\ signer' = [signer EXCEPT ![x[1]] = "signed"]
           /\ signer[x[1]] = "signed"
    BY <1>1, CommitCompleteEffect
  <2> QED BY <2>1 DEF SigningInv, TypeOK
<1>2. ASSUME NEW r \in Requests, CommitDecline(r)
      PROVE  FALSE
  BY <1>2, CommitDeclineInv
<1> QED
  BY <1>1, <1>2 DEF SigningNext, LoadSend, LoadVoid, LoadRotate, LoadSession, Load, CheckTurn,
                    Abort, CommitSend, CommitExchange, CommitViewed, CommitConsent, CommitVoid,
                    CommitRotate, ExpireOnRead, RevokeSession, ResolveSession

----------------------------------------------------------------------------
(* Signing implements DocumentLifecycle.                                   *)

\* Nobody has signed a document that is in preparation or only sent, and one
\* that a request read in progress does not go back there.
LifecycleInv ==
    /\ doc.state \in {"draft", "prepared", "sent", "in_progress", "completed", "voided",
                      "declined"}
    /\ doc.state \in {"draft", "prepared", "sent"} => \A s \in Signers : signer[s] # "signed"
    /\ \A r \in Requests :
          Acting(r) =>
              /\ request[r].doc.state \in {"sent", "in_progress"}
              /\ request[r].doc.state = "in_progress" =>
                    doc.state \notin {"draft", "prepared", "sent"}

\* A request that acts for a signer was there before, or has just read a
\* document that is open for signing.
ReadsAreOfOpenDocument ==
    \A r \in Requests :
        Acting(r)' =>
            \/ Acting(r) /\ request'[r].doc = request[r].doc
            \/ request'[r].doc = doc /\ doc.state \in {"sent", "in_progress"}

LifecycleStep == LifecycleInv' /\ [Lifecycle!Next]_(Lifecycle!vars)

\* Requests that only end have read nothing new.
LEMMA EndingReadsNothing ==
    ASSUME RequestsOnlyEnd
    PROVE  \A r \in Requests : Acting(r)' => Acting(r) /\ request'[r].doc = request[r].doc
BY DEF RequestsOnlyEnd, Acting, Loaded

\* A step that leaves document and roster alone is none of the lifecycle.
LEMMA QuietStep ==
    ASSUME LifecycleInv, UNCHANGED <<doc, signer>>, ReadsAreOfOpenDocument
    PROVE  LifecycleStep
<1>1. LifecycleInv'
  BY DEF LifecycleInv, ReadsAreOfOpenDocument
<1>2. UNCHANGED Lifecycle!vars
  BY DEF Lifecycle!vars
<1> QED BY <1>1, <1>2 DEF LifecycleStep

\* A change of the document leaves the lifecycle invariant intact when the
\* document is not in preparation or sent afterwards.
LEMMA LaterStateKeeps ==
    ASSUME LifecycleInv, RequestsOnlyEnd,
           doc'.state \in {"in_progress", "completed", "voided", "declined"}
    PROVE  LifecycleInv'
<1>1. \A r \in Requests : Acting(r)' => Acting(r) /\ request'[r].doc = request[r].doc
  BY EndingReadsNothing
<1> QED BY <1>1 DEF LifecycleInv

\* The steps of SigningNext that change neither the document nor a signer.
LEMMA ReadingSteps ==
    ASSUME SigningInv, LifecycleInv, NEW r \in Requests,
           \/ LoadSend(r) \/ LoadVoid(r) \/ (\E s \in Signers : LoadRotate(r, s))
           \/ (\E op \in SignerOps, x \in Sessions : LoadSession(r, op, x))
           \/ CheckTurn(r)
    PROVE  LifecycleStep
<1>1. UNCHANGED <<doc, signer>>
  BY DEF LoadSend, LoadVoid, LoadRotate, LoadSession, Load, CheckTurn
<1>2. request \in [Requests -> Request \cup {None}]
  BY DEF SigningInv, TypeOK
<1>3. CASE CheckTurn(r)
  <2>1. /\ request[r] # None /\ request[r] \in Request /\ Acting(r)
        /\ request' = [request EXCEPT ![r].roster = signer]
    BY <1>2, <1>3 DEF CheckTurn, Acting, Loaded
  <2>2. request'[r].doc = request[r].doc
    BY <1>2, <2>1 DEF Request
  <2>3. \A q \in Requests \ {r} : request'[q] = request[q]
    BY <1>2, <2>1
  <2>4. ReadsAreOfOpenDocument
    BY <2>1, <2>2, <2>3 DEF ReadsAreOfOpenDocument, Acting, Loaded
  <2> QED BY <1>1, <2>4, QuietStep
<1>4. ASSUME NEW op, NEW x, NEW s, Load(r, op, x, s),
             op \in {"complete", "decline"} => doc.state \in {"sent", "in_progress"}
      PROVE  LifecycleStep
  <2>1. request' = [request EXCEPT ![r] =
                      [op |-> op, sess |-> x, signer |-> s, doc |-> doc, roster |-> None]]
    BY <1>4 DEF Load
  <2>2. request'[r].op = op /\ request'[r].doc = doc
    BY <1>2, <2>1
  <2>3. \A q \in Requests \ {r} : request'[q] = request[q]
    BY <1>2, <2>1
  <2>4. ReadsAreOfOpenDocument
    BY <1>4, <2>2, <2>3 DEF ReadsAreOfOpenDocument, Acting, Loaded
  <2> QED BY <1>1, <2>4, QuietStep
<1>5. CASE LoadSend(r)
  BY <1>4, <1>5 DEF LoadSend
<1>6. CASE LoadVoid(r)
  BY <1>4, <1>6 DEF LoadVoid
<1>7. CASE \E s \in Signers : LoadRotate(r, s)
  BY <1>4, <1>7 DEF LoadRotate
<1>8. CASE \E op \in SignerOps, x \in Sessions : LoadSession(r, op, x)
  BY <1>4, <1>8 DEF LoadSession, IsAvailableForSigning
<1> QED BY <1>3, <1>5, <1>6, <1>7, <1>8

\* Commits about a session, and requests that end without a commit.
LEMMA SessionSteps ==
    ASSUME SigningInv, LifecycleInv,
           \/ \E r \in Requests :
                 \/ Abort(r) \/ CommitExchange(r) \/ CommitViewed(r) \/ CommitConsent(r)
                 \/ CommitRotate(r)
           \/ \E x \in Sessions : ExpireOnRead(x) \/ RevokeSession(x) \/ ResolveSession(x)
    PROVE  LifecycleStep
<1>1. UNCHANGED <<doc, signer>>
  BY DEF Abort, CommitExchange, CommitViewed, CommitConsent, CommitRotate, ExpireOnRead,
         RevokeSession, ResolveSession
<1>2. \/ UNCHANGED request
      \/ \E r \in Requests : Done(r)
  BY DEF Abort, CommitExchange, CommitViewed, CommitConsent, CommitRotate, ExpireOnRead,
         RevokeSession, ResolveSession
<1>3. ReadsAreOfOpenDocument
  <2>1. CASE UNCHANGED request
    BY <2>1 DEF ReadsAreOfOpenDocument, Acting, Loaded
  <2>2. ASSUME NEW r \in Requests, Done(r)
        PROVE  ReadsAreOfOpenDocument
    <3>1. RequestsOnlyEnd
      BY <2>2, DoneOnlyEnds DEF SigningInv
    <3> QED BY <3>1, EndingReadsNothing DEF ReadsAreOfOpenDocument
  <2> QED BY <1>2, <2>1, <2>2
<1> QED BY <1>1, <1>3, QuietStep

\* sendDocument and voidDocument compare the version, and so act on the
\* document as they read it.
LEMMA SenderSteps ==
    ASSUME SigningInv, LifecycleInv, NEW r \in Requests, CommitSend(r) \/ CommitVoid(r)
    PROVE  LifecycleStep
<1>1. RequestsOnlyEnd
  BY DoneOnlyEnds DEF CommitSend, CommitVoid, SigningInv
<1>2. CASE CommitSend(r)
  <2>1. doc.state \in {"draft", "prepared"} /\ doc'.state = "sent" /\ signer' = signer
    BY <1>2, CommitSendInv DEF CommitSend
  <2>2. \A q \in Requests : Acting(q)' => Acting(q) /\ request'[q].doc = request[q].doc
    BY <1>1, EndingReadsNothing
  <2>3. LifecycleInv'
    BY <2>1, <2>2 DEF LifecycleInv
  <2>4. Lifecycle!Send
    BY <2>1 DEF Lifecycle!Send
  <2> QED BY <2>3, <2>4 DEF LifecycleStep, Lifecycle!Next
<1>3. CASE CommitVoid(r)
  <2>1. /\ doc.state \in {"draft", "prepared", "sent", "in_progress"} /\ doc'.state = "voided"
        /\ signer' = signer
    BY <1>3, CommitVoidInv DEF CommitVoid
  <2>2. Lifecycle!Void
    BY <2>1 DEF Lifecycle!Void, Lifecycle!Open
  <2> QED BY <1>1, <2>1, <2>2, LaterStateKeeps DEF LifecycleStep, Lifecycle!Next
<1> QED BY <1>2, <1>3

\* declineToSign: its signer is pending, and whoever is ahead was settled in
\* the roster it read, by a signature, since a decline would have closed the
\* document.
LEMMA DeclineStep ==
    ASSUME SigningInv, LifecycleInv, NEW r \in Requests, CommitDecline(r)
    PROVE  LifecycleStep
<1> USE DEF SigningInv
<1>1. RequestsOnlyEnd
  BY DoneOnlyEnds DEF CommitDecline
<1>2. doc.state \in {"sent", "in_progress"} /\ doc'.state = "declined"
  BY CommitDeclineInv
<1>3. Acting(r) /\ OfSigner(r) /\ request[r].roster # None
  BY DEF CommitDecline, InFlight, Acting, OfSigner, Loaded, SignerOps
<1>4. PICK s \in Signers : s = request[r].signer
  BY <1>3, SessionIds DEF ChecksMade
<1>5. signer[s] = "pending" /\ signer' = [signer EXCEPT ![s] = "declined"]
  BY <1>4 DEF CommitDecline, MarkSignerDeclined
<1>6. ASSUME NEW t \in Signers, Order[t] < Order[s]
      PROVE  signer[t] = "signed"
  <2>1. Order[s] \in Nat /\ Order[t] \in Nat /\ Mode = "ordered"
    BY <1>6, RoutingAssumption
  <2>2. request[r].roster[t] # "pending"
    BY <1>3, <1>4, <1>6, <2>1 DEF TurnsChecked, CanSignerActNow
  <2>3. signer[t] # "pending"
    BY <1>3, <2>2 DEF TurnsChecked
  <2>4. signer[t] # "declined"
    BY <1>2 DEF OutcomeMatchesRoster
  <2> QED BY <2>3, <2>4 DEF TypeOK, SignerStatus
<1>7. Lifecycle!Decline(s)
  BY <1>2, <1>5, <1>6 DEF Lifecycle!Decline, Lifecycle!Open, Lifecycle!ItsTurn
<1>8. LifecycleInv'
  BY <1>1, <1>2, LaterStateKeeps
<1> QED BY <1>7, <1>8 DEF LifecycleStep, Lifecycle!Next

\* completeSigning: a signature of a pending signer on an open document, or a
\* second submission, which at most completes the document that all have
\* signed.
LEMMA CompleteStep ==
    ASSUME SigningInv, SigningInv', LifecycleInv, NEW r \in Requests, CommitComplete(r)
    PROVE  LifecycleStep
<1>1. RequestsOnlyEnd
  BY DoneOnlyEnds DEF CommitComplete, SigningInv
<1>2. PICK x \in Sessions :
         /\ request[r].signer = x[1] /\ x[1] \in Signers
         /\ signer' = [signer EXCEPT ![x[1]] = "signed"]
         /\ \/ signer[x[1]] = "pending" /\ doc.state \notin {"voided", "declined"}
            \/ signer[x[1]] = "signed"
  BY CommitCompleteEffect
<1>3. PICK s \in Signers : s = x[1]
  BY <1>2
<1>4. signer \in [Signers -> SignerStatus] /\ signer'[s] = "signed"
  BY <1>2, <1>3 DEF SigningInv, TypeOK
<1>5. ASSUME NEW t \in Signers, Order[t] < Order[s], signer[s] = "pending"
      PROVE  signer[t] = "signed"
  <2>1. Order[s] \in Nat /\ t # s
    BY <1>5, RoutingAssumption
  <2>2. signer'[t] = "signed"
    BY <1>4, <1>5 DEF SigningInv, RoutingRespected
  <2> QED BY <1>2, <1>3, <1>4, <2>1, <2>2
<1>6. CASE doc' # doc
  <2>1. doc.state \in {"sent", "in_progress"} /\ doc'.state \in {"in_progress", "completed"}
    BY <1>6, CommitCompleteDocument
  <2>2. doc'.state = "completed" => \A t \in Signers : signer'[t] = "signed"
    BY DEF SigningInv, OutcomeMatchesRoster
  <2>3. CASE signer[s] = "pending"
    <3>1. Lifecycle!Sign(s)
      BY <1>2, <1>3, <1>5, <2>1, <2>2, <2>3
         DEF Lifecycle!Sign, Lifecycle!Open, Lifecycle!ItsTurn, Lifecycle!AllSigned
    <3> QED BY <1>1, <2>1, <3>1, LaterStateKeeps DEF LifecycleStep, Lifecycle!Next
  <2>4. CASE signer[s] = "signed"
    <3>1. doc.state = "in_progress"
      BY <2>1, <2>4 DEF LifecycleInv
    <3>2. signer' = signer
      BY <1>2, <1>3, <1>4, <2>4
    <3>3. CASE doc'.state = "completed"
      <4>1. Lifecycle!Complete
        BY <2>2, <3>1, <3>2, <3>3 DEF Lifecycle!Complete, Lifecycle!AllSigned
      <4> QED BY <1>1, <2>1, <4>1, LaterStateKeeps DEF LifecycleStep, Lifecycle!Next
    <3>4. CASE doc'.state = "in_progress"
      <4>1. UNCHANGED Lifecycle!vars
        BY <3>1, <3>2, <3>4 DEF Lifecycle!vars
      <4> QED BY <1>1, <2>1, <4>1, LaterStateKeeps DEF LifecycleStep
    <3> QED BY <2>1, <3>3, <3>4
  <2> QED BY <1>2, <1>3, <2>3, <2>4
<1>7. CASE doc' = doc
  <2>1. CASE signer[s] = "signed"
    <3>1. signer' = signer
      BY <1>2, <1>3, <1>4, <2>1
    <3>2. ReadsAreOfOpenDocument
      BY <1>1, EndingReadsNothing DEF ReadsAreOfOpenDocument
    <3> QED BY <1>7, <3>1, <3>2, QuietStep
  <2>2. CASE signer[s] = "pending"
    <3>1. doc'.version # doc.version \/ request[r].doc.state # "sent"
      BY DEF CommitComplete, MarkCompleted, MarkInProgress, UpdateDocument, SigningInv, TypeOK,
             Document
    <3>2. Acting(r)
      BY DEF CommitComplete, InFlight, Acting, Loaded
    <3>3. request[r].doc.state = "in_progress"
      BY <1>7, <3>1, <3>2 DEF LifecycleInv
    <3>4. doc.state # "completed"
      BY <2>2 DEF SigningInv, OutcomeMatchesRoster
    <3>5. doc.state = "in_progress"
      BY <1>2, <1>3, <2>2, <3>2, <3>3, <3>4 DEF LifecycleInv
    <3>6. Lifecycle!Sign(s)
      BY <1>2, <1>3, <1>5, <1>7, <2>2, <3>5
         DEF Lifecycle!Sign, Lifecycle!Open, Lifecycle!ItsTurn
    <3> QED BY <1>1, <1>7, <3>5, <3>6, LaterStateKeeps DEF LifecycleStep, Lifecycle!Next
  <2> QED BY <1>2, <1>3, <2>1, <2>2
<1> QED BY <1>6, <1>7

\* Every step of Signing is one of the lifecycle or leaves it alone.
LEMMA SigningIsLifecycle ==
    ASSUME SigningInv, SigningInv', LifecycleInv, [SigningNext]_signingVars
    PROVE  LifecycleStep
<1>1. CASE UNCHANGED signingVars
  <2>1. UNCHANGED <<doc, signer>> /\ ReadsAreOfOpenDocument
    BY <1>1 DEF signingVars, ReadsAreOfOpenDocument, Acting, Loaded
  <2> QED BY <2>1, QuietStep
<1>2. CASE SigningNext
  BY <1>2, ReadingSteps, SessionSteps, SenderSteps, DeclineStep, CompleteStep DEF SigningNext
<1> QED BY <1>1, <1>2

----------------------------------------------------------------------------
(* Theorems.                                                               *)

\* The inductive invariant holds in every reachable state.
THEOREM SigningInvariant == SigningSpec => []SigningInv
BY InitInv, SigningNextInv, PTL DEF SigningSpec

\* Rows and the requests' snapshots of them stay in their enumerations.
THEOREM SigningTypeOK == SigningSpec => []TypeOK
<1>1. SigningInv => TypeOK
  BY DEF SigningInv
<1> QED BY <1>1, SigningInvariant, PTL

\* completeSigning signs a signer through exactly one session, which was
\* exchanged and carries the consent.
THEOREM SigningThroughOneSession == SigningSpec => []SignedThroughOneSession
<1>1. SigningInv => SignedThroughOneSession
  <2> SUFFICES ASSUME SigningInv, NEW s \in Signers
               PROVE  LET done == {x \in SessionsOf(s) : session[x].status = "completed"}
                      IN  /\ signer[s] = "signed" => Cardinality(done) = 1
                          /\ signer[s] # "signed" => done = {}
                          /\ \A x \in done : session[x].consumed /\ session[x].consent
    BY DEF SignedThroughOneSession
  <2> DEFINE done == {x \in SessionsOf(s) : session[x].status = "completed"}
  <2>1. \A x \in done : session[x].consumed /\ session[x].consent
    BY DEF SigningInv, CompletedMeansSigned, SessionsOf
  <2>2. signer[s] # "signed" => done = {}
    BY DEF SigningInv, CompletedMeansSigned, SessionsOf
  <2>3. ASSUME signer[s] = "signed"
        PROVE  Cardinality(done) = 1
    <3>1. PICK x \in SessionsOf(s) : session[x].status = "completed"
      BY <2>3 DEF SigningInv, CompletedMeansSigned
    <3>2. done = {x}
      BY <3>1 DEF SigningInv, CompletedMeansSigned, SessionsOf
    <3> QED BY <3>2, FS_Singleton
  <2> QED BY <2>1, <2>2, <2>3
<1> QED BY <1>1, SigningInvariant, PTL

\* canSignerActNow on a roster that may be stale is enough: nobody signs before
\* everybody ahead in the routing.
THEOREM SigningRoutingRespected == SigningSpec => []RoutingRespected
<1>1. SigningInv => RoutingRespected
  BY DEF SigningInv
<1> QED BY <1>1, SigningInvariant, PTL

\* A link is exchanged at most once, and a signer has at most one open session.
THEOREM SigningOneSessionToken == SigningSpec => []OneSessionToken
<1>1. SigningInv => OneSessionToken
  <2> SUFFICES ASSUME SigningInv PROVE OneSessionToken
    OBVIOUS
  <2>1. \A x \in Sessions : exchanges[x] <= 1
    BY DEF SigningInv, ExchangedOnce
  <2>2. ASSUME NEW s \in Signers
        PROVE  Cardinality({x \in SessionsOf(s) : Open(x)}) <= 1
    <3> DEFINE open == {x \in SessionsOf(s) : Open(x)}
    <3>1. CASE open = {}
      BY <3>1, FS_EmptySet
    <3>2. CASE open # {}
      <4>1. PICK x : x \in open
        BY <3>2
      <4>2. open = {x}
        BY <4>1 DEF SigningInv, OneOpenSession, SessionsOf
      <4>3. Cardinality(open) = 1
        BY <4>2, FS_Singleton
      <4> QED BY <4>3
    <3> QED BY <3>1, <3>2
  <2> QED BY <2>1, <2>2 DEF OneSessionToken
<1> QED BY <1>1, SigningInvariant, PTL

\* A document is completed only when everybody has signed, and declined exactly
\* when somebody has declined.
THEOREM SigningOutcomeMatchesRoster == SigningSpec => []OutcomeMatchesRoster
<1>1. SigningInv => OutcomeMatchesRoster
  BY DEF SigningInv
<1> QED BY <1>1, SigningInvariant, PTL

\* Documents and sessions only take steps of their transition tables.
THEOREM SigningLegalTransitions == SigningSpec => LegalTransitions
<1>1. SigningInv /\ [SigningNext]_signingVars => [LegalStep]_signingVars
  BY StepIsLegal
<1>2. [LegalStep]_signingVars =>
         [/\ doc'.state # doc.state => doc'.state \in Transitions[doc.state]
          /\ \A x \in Sessions :
                session'[x].status # session[x].status =>
                   session'[x].status \in SessionTransitions[session[x].status]]_signingVars
  BY DEF LegalStep, LegalSession
<1> QED BY <1>1, <1>2, SigningInvariant, PTL DEF SigningSpec, LegalTransitions

\* Nobody signs or declines once the document is voided or declined.
THEOREM SigningClosedFreezes == SigningSpec => ClosedDocumentFreezesRoster
<1>1. SigningInv /\ [SigningNext]_signingVars =>
         [doc.state \in {"voided", "declined"} => signer' = signer]_signingVars
  BY ClosedStepFreezes
<1> QED BY <1>1, SigningInvariant, PTL DEF SigningSpec, ClosedDocumentFreezesRoster

\* Requests that decide on rows they read earlier implement the lifecycle in
\* which every change is a single step on the current rows.
THEOREM SigningImplementsLifecycle == SigningSpec => LifecycleSpec
<1>1. Init => LifecycleInv /\ Lifecycle!Init
  BY DEF Init, LifecycleInv, Lifecycle!Init, Acting, Loaded
<1>2. SigningInv /\ SigningInv' /\ LifecycleInv /\ [SigningNext]_signingVars =>
         LifecycleInv' /\ [Lifecycle!Next]_(Lifecycle!vars)
  BY SigningIsLifecycle DEF LifecycleStep
<1> QED BY <1>1, <1>2, SigningInvariant, PTL DEF SigningSpec, LifecycleSpec, Lifecycle!Spec

----------------------------------------------------------------------------
(* Finalization: the inductive invariant.                                  *)

USE OwnersAssumption, BudgetAssumption

Stages == {"idle", "loaded", "claimed", "leased", "returned", "retryable", "fatal"}

Worker == [stage: Stages, job: Jobs \cup {None}, attempt: Nat, version: Nat,
           base: [Signers -> Nat], pending: BOOLEAN, complete: BOOLEAN]

FlattenTypeOK ==
    /\ lease \in [owner: Workers \cup {None, Dead}, live: BOOLEAN]
    /\ revision \in [Signers -> Nat]
    /\ flattened \in [Signers -> BOOLEAN]
    /\ job \in [Jobs -> [status: {"queued", "processed", "failed"}, attempts: Nat]]
    /\ worker \in [Workers -> Worker]

StampedOnce == \A s \in Signers : revision[s] = (IF flattened[s] THEN 1 ELSE 0)

\* What a worker read of its job still holds: before the claim as long as the
\* version is the one it read, after the claim as long as it owns the lease.
WorkIsCurrent ==
    \A w \in Workers :
        /\ worker[w].stage \in {"loaded", "claimed", "leased"} => worker[w].job \in Jobs
        /\ worker[w].stage = "loaded" =>
              /\ worker[w].version <= doc.version
              /\ worker[w].version = doc.version =>
                    (worker[w].pending <=> ~flattened[worker[w].job[1]])
        /\ worker[w].stage \in {"claimed", "leased"} /\ lease.owner = w =>
              (worker[w].pending <=> ~flattened[worker[w].job[1]])
        /\ worker[w].stage = "leased" /\ lease.owner = w => worker[w].base = revision

\* A worker that means to finalize has seen every signature.
CompleteIsSigned ==
    \A w \in Workers : worker[w].complete => \A s \in Signers : signer[s] = "signed"

\* A finalized document is leased to nobody; before that it has no artifact.
FinalizedIsClosed ==
    /\ doc.state = "finalized" => /\ lease.owner = None
                                  /\ artifact = revision
                                  /\ \A s \in Signers : signer[s] = "signed"
    /\ doc.state # "finalized" => artifact = None

FInv ==
    /\ SigningInv
    /\ FlattenTypeOK /\ StampedOnce /\ WorkIsCurrent
    /\ CompleteIsSigned /\ FinalizedIsClosed

----------------------------------------------------------------------------
(* Signing steps and flattening steps leave each other's invariant intact. *)

\* A request that changes the document counts its version up and neither
\* finalizes it nor touches a finalized one; no request takes back what a
\* signer has settled.
LEMMA SigningStepEffect ==
    ASSUME SigningInv, SigningNext
    PROVE  /\ doc' # doc => /\ doc'.version \in Nat /\ doc'.version > doc.version
                            /\ doc.state # "finalized" /\ doc'.state # "finalized"
           /\ SettledStays
<1>1. ASSUME NEW r \in Requests, CommitSend(r)
      PROVE  /\ doc'.version \in Nat /\ doc'.version > doc.version
             /\ doc.state # "finalized" /\ doc'.state # "finalized"
             /\ SettledStays
  <2>1. doc.state \in {"draft", "prepared"} /\ doc'.state = "sent"
    BY <1>1, CommitSendInv
  <2>2. doc.version \in Nat /\ doc'.version = doc.version + 1
    BY <1>1 DEF CommitSend, MarkSent, UpdateDocument, SigningInv, TypeOK, Document
  <2> QED BY <1>1, <2>1, <2>2 DEF CommitSend, SettledStays
<1>2. ASSUME NEW r \in Requests, CommitVoid(r)
      PROVE  /\ doc'.version \in Nat /\ doc'.version > doc.version
             /\ doc.state # "finalized" /\ doc'.state # "finalized"
             /\ SettledStays
  <2>1. doc.state # "finalized" /\ doc'.state = "voided"
    BY <1>2, CommitVoidInv
  <2>2. doc.version \in Nat /\ doc'.version = doc.version + 1
    BY <1>2 DEF CommitVoid, MarkVoided, UpdateDocument, SigningInv, TypeOK, Document
  <2> QED BY <1>2, <2>1, <2>2 DEF CommitVoid, SettledStays
<1>3. ASSUME NEW r \in Requests, CommitDecline(r)
      PROVE  /\ doc'.version \in Nat /\ doc'.version > doc.version
             /\ doc.state # "finalized" /\ doc'.state # "finalized"
             /\ SettledStays
  <2>1. doc.state # "finalized" /\ doc'.state = "declined"
    BY <1>3, CommitDeclineInv
  <2>2. doc.version \in Nat /\ doc'.version = doc.version + 1
    BY <1>3 DEF CommitDecline, MarkDeclined, UpdateDocument, SigningInv, TypeOK, Document
  <2>3. SettledStays
    BY <1>3 DEF CommitDecline, MarkSignerDeclined, SettledStays, SigningInv, TypeOK
  <2> QED BY <2>1, <2>2, <2>3
<1>4. ASSUME NEW r \in Requests, CommitComplete(r)
      PROVE  /\ doc' # doc => /\ doc'.version \in Nat /\ doc'.version > doc.version
                              /\ doc.state # "finalized" /\ doc'.state # "finalized"
             /\ SettledStays
  <2>1. PICK x \in Sessions : /\ signer' = [signer EXCEPT ![x[1]] = "signed"]
                              /\ signer[x[1]] \in {"pending", "signed"}
    BY <1>4, CommitCompleteEffect
  <2>2. SettledStays
    BY <2>1 DEF SettledStays, SigningInv, TypeOK
  <2> QED BY <1>4, <2>2, CommitCompleteDocument DEF VersionCounts
<1>5. ASSUME UNCHANGED <<doc, signer>>
      PROVE  doc' = doc /\ SettledStays
  BY <1>5 DEF SettledStays
<1> QED
  BY <1>1, <1>2, <1>3, <1>4, <1>5
     DEF SigningNext, LoadSend, LoadVoid, LoadRotate, LoadSession, Load, CheckTurn, Abort,
         CommitExchange, CommitViewed, CommitConsent, CommitRotate, ExpireOnRead,
         RevokeSession, ResolveSession

\* The document updates of flattening: they count the version up, leave a
\* declined document alone and lead to no other state than these.
FlattensDocument ==
    doc' # doc =>
        /\ doc' \in Document
        /\ doc'.version > doc.version
        /\ doc'.state # doc.state =>
              /\ doc'.state \in {"in_progress", "finalizing", "finalized", "finalization_failed"}
              /\ doc.state # "declined"

\* Such an update invalidates nothing that a request has read or will test.
LEMMA FlatteningKeepsSigning ==
    ASSUME SigningInv, UNCHANGED <<signer, session, commits, exchanges, request>>,
           FlattensDocument
    PROVE  SigningInv'
<1>1. RequestsOnlyEnd
  BY DEF SigningInv, TypeOK, RequestsOnlyEnd
<1>2. SessionsOnlyClose
  BY DEF SessionsOnlyClose, Open
<1>3. VersionCounts
  BY DEF VersionCounts, FlattensDocument, Document
<1>4. SettledStays
  BY DEF SettledStays
<1>5. ClosesSessions
  BY DEF ClosesSessions, FlattensDocument
<1>6. SnapshotsByVersion' /\ ChecksMade' /\ TurnsChecked' /\ StaleActorsShutOut'
  BY <1>1, <1>2, <1>3, <1>4, <1>5, RequestsFrame
<1>7. TypeOK'
  BY DEF SigningInv, TypeOK, FlattensDocument
<1>8. ExchangedOnce' /\ OneOpenSession' /\ CompletedMeansSigned' /\ RoutingRespected'
  BY DEF SigningInv, ExchangedOnce, OneOpenSession, Open, CompletedMeansSigned, SessionsOf,
         RoutingRespected
<1>9. OutcomeMatchesRoster'
  BY DEF SigningInv, OutcomeMatchesRoster, FlattensDocument
<1> QED BY <1>6, <1>7, <1>8, <1>9 DEF SigningInv

\* A request changes nothing of the flattening, and a worker that has yet to
\* take the lease notices a document that was changed by its version.
LEMMA SigningKeepsFlattening ==
    ASSUME FInv, SigningNext, UNCHANGED flattenVars
    PROVE  FInv'
<1> USE DEF FInv
<1>1. SigningInv'
  BY SigningNextInv
<1>2. /\ doc' # doc => /\ doc'.version \in Nat /\ doc'.version > doc.version
                       /\ doc.state # "finalized" /\ doc'.state # "finalized"
      /\ SettledStays
  <2> HIDE DEF FInv
  <2> QED BY SigningStepEffect DEF FInv
<1>3. FlattenTypeOK' /\ StampedOnce'
  BY DEF flattenVars, FlattenTypeOK, StampedOnce
<1>4. WorkIsCurrent'
  <2>1. \A w \in Workers : worker[w].version \in Nat
    BY DEF FlattenTypeOK, Worker
  <2>2. doc.version \in Nat
    BY DEF SigningInv, TypeOK, Document
  <2> QED BY <1>2, <2>1, <2>2 DEF flattenVars, WorkIsCurrent
<1>5. CompleteIsSigned'
  BY <1>2 DEF flattenVars, CompleteIsSigned, SettledStays
<1>6. FinalizedIsClosed'
  BY <1>2 DEF flattenVars, FinalizedIsClosed, SettledStays
<1> QED BY <1>1, <1>3, <1>4, <1>5, <1>6

----------------------------------------------------------------------------
(* Every step keeps the invariant.                                         *)

LEMMA FullInitInv == FullInit => FInv
<1> SUFFICES ASSUME FullInit PROVE FInv
  OBVIOUS
<1> USE DEF FullInit, FlattenInit
<1>1. SigningInv
  BY InitInv
<1>2. Idle \in Worker
  BY DEF Idle, Worker, Stages, Blank
<1>3. FlattenTypeOK
  <2>1. lease \in [owner: Workers \cup {None, Dead}, live: BOOLEAN]
    BY DEF Free
  <2> QED BY <1>2, <2>1 DEF FlattenTypeOK, Blank
<1>4. StampedOnce /\ WorkIsCurrent /\ CompleteIsSigned
  BY DEF StampedOnce, Blank, WorkIsCurrent, CompleteIsSigned, Idle
<1>5. FinalizedIsClosed
  BY DEF FinalizedIsClosed, Init
<1> QED BY <1>1, <1>3, <1>4, <1>5 DEF FInv

\* Who owns the lease finds a document that is not finalized.
LEMMA OwnedIsOpen ==
    ASSUME FInv, NEW w \in Workers, lease.owner = w
    PROVE  doc.state # "finalized" /\ artifact = None
BY DEF FInv, FinalizedIsClosed

\* An update of one worker's record.
LEMMA OneWorker ==
    ASSUME FlattenTypeOK, NEW w \in Workers, NEW rec \in Worker,
           worker' = [worker EXCEPT ![w] = rec]
    PROVE  /\ worker' \in [Workers -> Worker]
           /\ worker'[w] = rec
           /\ \A v \in Workers \ {w} : worker'[v] = worker[v]
BY DEF FlattenTypeOK

LEMMA OneStage ==
    ASSUME FlattenTypeOK, NEW w \in Workers, NEW st \in Stages,
           worker' = [worker EXCEPT ![w].stage = st]
    PROVE  /\ worker' \in [Workers -> Worker]
           /\ worker'[w].stage = st
           /\ worker'[w].job = worker[w].job
           /\ worker'[w].version = worker[w].version
           /\ worker'[w].base = worker[w].base
           /\ worker'[w].pending = worker[w].pending
           /\ worker'[w].complete = worker[w].complete
           /\ \A v \in Workers \ {w} : worker'[v] = worker[v]
BY DEF FlattenTypeOK, Worker

LEMMA LoadWorkInv ==
    ASSUME FInv, NEW w \in Workers, NEW j \in Jobs, LoadAuthorizedWork(w, j)
    PROVE  FInv'
<1> USE DEF FInv
<1> DEFINE rec == [stage |-> IF doc.state = "finalized" THEN "returned" ELSE "loaded",
                   job |-> j, attempt |-> job[j].attempts + 1, version |-> doc.version,
                   base |-> Blank, pending |-> ~flattened[j[1]],
                   complete |-> \A t \in Signers : signer[t] = "signed"]
<1>1. SigningInv'
  BY FlatteningKeepsSigning DEF LoadAuthorizedWork, signingVars, FlattensDocument
<1>2. j[1] \in Signers /\ doc.version \in Nat /\ job[j].attempts \in Nat
  BY DEF Jobs, SigningInv, TypeOK, Document, FlattenTypeOK
<1>3. rec \in Worker
  BY <1>2 DEF Worker, Stages, Blank, FlattenTypeOK
<1>4. worker' = [worker EXCEPT ![w] = rec]
  BY DEF LoadAuthorizedWork
<1>5. /\ worker' \in [Workers -> Worker]
      /\ worker'[w] = rec
      /\ \A v \in Workers \ {w} : worker'[v] = worker[v]
  BY <1>3, <1>4, OneWorker
<1>6. job' \in [Jobs -> [status: {"queued", "processed", "failed"}, attempts: Nat]]
  BY <1>2 DEF LoadAuthorizedWork, FlattenTypeOK
<1>7. UNCHANGED <<lease, revision, flattened, artifact, doc, signer>>
  BY DEF LoadAuthorizedWork, signingVars
<1>8. FlattenTypeOK' /\ StampedOnce' /\ FinalizedIsClosed'
  BY <1>5, <1>6, <1>7 DEF FlattenTypeOK, StampedOnce, FinalizedIsClosed
<1>9. WorkIsCurrent'
  <2>1. /\ worker'[w].stage \in {"returned", "loaded"} /\ worker'[w].job = j
        /\ worker'[w].version = doc.version
        /\ worker'[w].pending = ~flattened[j[1]]
    BY <1>5
  <2>2. worker'[w].pending <=> ~flattened[j[1]]
    BY <2>1, Zenon
  <2> QED BY <1>2, <1>5, <1>7, <2>1, <2>2 DEF WorkIsCurrent
<1>10. CompleteIsSigned'
  <2>1. worker'[w].complete <=> \A t \in Signers : signer[t] = "signed"
    BY <1>5
  <2> QED BY <1>5, <1>7, <2>1 DEF CompleteIsSigned
<1> QED BY <1>1, <1>8, <1>9, <1>10

\* documents.claimProcessingLease: the version shows that what was loaded is
\* still true when the lease is taken.
LEMMA TakeLeaseInv ==
    ASSUME FInv, NEW w \in Workers, TakeLease(w)
    PROVE  FInv' /\ doc.state # "finalized"
<1> USE DEF FInv
<1>1. /\ worker[w].stage = "loaded" /\ doc.version = worker[w].version
      /\ doc.state \in {"sent", "in_progress", "completed", "finalization_failed", "finalizing"}
      /\ doc' = [state |-> LeasedState, version |-> doc.version + 1]
      /\ lease' = [owner |-> w, live |-> TRUE]
      /\ UNCHANGED <<signer, session, commits, exchanges, request,
                     revision, flattened, artifact, job>>
  BY DEF TakeLease, ClaimProcessingLease, Claimable
<1>2. doc.version \in Nat /\ doc'.version = doc.version + 1 /\ doc' \in Document
  BY <1>1 DEF SigningInv, TypeOK, Document, LeasedState, DocumentStates
<1>3. /\ doc'.state # "finalized"
      /\ doc'.state # doc.state => doc'.state \in {"in_progress", "finalizing"}
  BY <1>1 DEF LeasedState
<1>4. SigningInv'
  BY <1>1, <1>2, <1>3, FlatteningKeepsSigning DEF FlattensDocument
<1>5. /\ worker' \in [Workers -> Worker]
      /\ worker'[w].stage = "claimed"
      /\ worker'[w].job = worker[w].job
      /\ worker'[w].pending = worker[w].pending
      /\ worker'[w].complete = worker[w].complete
      /\ \A v \in Workers \ {w} : worker'[v] = worker[v]
  BY OneStage DEF TakeLease, Stages
<1>6. FlattenTypeOK' /\ StampedOnce'
  BY <1>1, <1>5 DEF FlattenTypeOK, StampedOnce
<1>7. WorkIsCurrent'
  <2>1. \A v \in Workers : worker[v].version \in Nat
    BY DEF FlattenTypeOK, Worker
  <2>2. lease'.owner = w
    BY <1>1
  <2> QED BY <1>1, <1>2, <1>5, <2>1, <2>2 DEF WorkIsCurrent
<1>8. CompleteIsSigned' /\ FinalizedIsClosed'
  BY <1>1, <1>3, <1>5 DEF CompleteIsSigned, FinalizedIsClosed
<1> QED BY <1>1, <1>4, <1>6, <1>7, <1>8

LEMMA ReadLeasedInv ==
    ASSUME FInv, NEW w \in Workers, ReadLeased(w)
    PROVE  FInv'
<1> USE DEF FInv
<1>1. SigningInv'
  BY FlatteningKeepsSigning DEF ReadLeased, signingVars, FlattensDocument
<1>2. worker[w] \in Worker /\ doc.version \in Nat /\ revision \in [Signers -> Nat]
  BY DEF FlattenTypeOK, SigningInv, TypeOK, Document
<1>3. PICK rec : rec = [worker[w] EXCEPT !.stage = "leased", !.base = revision,
                                         !.version = doc.version]
  OBVIOUS
<1>4. /\ rec \in Worker
      /\ rec.stage = "leased" /\ rec.job = worker[w].job /\ rec.base = revision
      /\ rec.pending = worker[w].pending /\ rec.complete = worker[w].complete
  BY <1>2, <1>3 DEF Worker, Stages
<1>5. worker' = [worker EXCEPT ![w] = rec]
  BY <1>3 DEF ReadLeased, FlattenTypeOK
<1>6. /\ worker' \in [Workers -> Worker]
      /\ worker'[w] = rec
      /\ \A v \in Workers \ {w} : worker'[v] = worker[v]
  BY <1>4, <1>5, OneWorker
<1>7. UNCHANGED <<lease, revision, flattened, artifact, job, doc, signer>>
  BY DEF ReadLeased, signingVars
<1>8. FlattenTypeOK' /\ StampedOnce' /\ FinalizedIsClosed'
  BY <1>6, <1>7 DEF FlattenTypeOK, StampedOnce, FinalizedIsClosed
<1>9. WorkIsCurrent' /\ CompleteIsSigned'
  BY <1>4, <1>6, <1>7 DEF ReadLeased, WorkIsCurrent, CompleteIsSigned
<1> QED BY <1>1, <1>8, <1>9

\* A worker that gives up or is settled keeps no claim on anything.
LEMMA WorkerLeavesInv ==
    ASSUME FInv, NEW w \in Workers,
           worker' \in [Workers -> Worker],
           \A v \in Workers \ {w} : worker'[v] = worker[v],
           worker'[w].stage \notin {"loaded", "claimed", "leased"},
           worker'[w].complete => worker[w].complete,
           job' \in [Jobs -> [status: {"queued", "processed", "failed"}, attempts: Nat]],
           UNCHANGED <<signer, session, commits, exchanges, request,
                       revision, flattened, artifact>>,
           FlattensDocument,
           lease' \in [owner: Workers \cup {None, Dead}, live: BOOLEAN],
           lease'.owner \in Workers => lease'.owner = lease.owner,
           doc' # doc => doc.state # "finalized" /\ doc'.state # "finalized",
           lease'.owner # lease.owner => doc.state # "finalized"
    PROVE  FInv'
<1> USE DEF FInv
<1>1. SigningInv'
  BY FlatteningKeepsSigning
<1>2. FlattenTypeOK' /\ StampedOnce' /\ CompleteIsSigned'
  BY DEF FlattenTypeOK, StampedOnce, CompleteIsSigned
<1>3. WorkIsCurrent'
  <2>1. \A v \in Workers : worker[v].version \in Nat
    BY DEF FlattenTypeOK, Worker
  <2>2. doc.version \in Nat /\ (doc' # doc => doc'.version \in Nat /\ doc'.version > doc.version)
    BY DEF SigningInv, TypeOK, Document, FlattensDocument
  <2> QED BY <2>1, <2>2 DEF WorkIsCurrent
<1>4. FinalizedIsClosed'
  BY DEF FinalizedIsClosed
<1> QED BY <1>1, <1>2, <1>3, <1>4

LEMMA MissLeaseInv ==
    ASSUME FInv, NEW w \in Workers, MissLease(w) \/ ReadLeasedFails(w)
    PROVE  FInv'
<1>1. worker' = [worker EXCEPT ![w].stage = "retryable"]
  BY DEF MissLease, ReadLeasedFails
<1>2. /\ worker' \in [Workers -> Worker]
      /\ worker'[w].stage = "retryable" /\ worker'[w].complete = worker[w].complete
      /\ \A v \in Workers \ {w} : worker'[v] = worker[v]
  BY <1>1, OneStage DEF FInv, Stages
<1>3. UNCHANGED <<lease, job, doc, signer, session, commits, exchanges, request,
                  revision, flattened, artifact>>
  BY DEF MissLease, ReadLeasedFails, signingVars
<1> QED
  BY <1>2, <1>3, WorkerLeavesInv DEF FInv, FlattenTypeOK, FlattensDocument

\* The transaction that ends flattenSignature: its owner stamps the revision
\* that is current, unless the signer's fields are on it already.
LEMMA CommitFlatteningInv ==
    ASSUME FInv, NEW w \in Workers, CommitFlattening(w)
    PROVE  FInv' /\ doc.state # "finalized"
<1> USE DEF FInv
<1> DEFINE s == worker[w].job[1]
<1>1. /\ worker[w].stage = "leased" /\ lease.owner = w
      /\ doc' = [state |-> IF worker[w].complete THEN "finalized" ELSE doc.state,
                 version |-> doc.version + 1]
      /\ lease' = Free
      /\ revision' = Stamped(w)
      /\ flattened' = [flattened EXCEPT ![s] = TRUE]
      /\ artifact' = IF worker[w].complete /\ artifact = None THEN Stamped(w) ELSE artifact
      /\ UNCHANGED <<signer, session, commits, exchanges, request, job>>
  BY DEF CommitFlattening, CommitFlattenedRevision, HoldsLease
<1>2. doc.state # "finalized" /\ artifact = None
  <2> HIDE DEF FInv
  <2> QED BY <1>1, OwnedIsOpen
<1>3. s \in Signers
  BY <1>1 DEF WorkIsCurrent, Jobs
<1>4. /\ worker[w].base = revision
      /\ worker[w].pending <=> ~flattened[s]
  BY <1>1 DEF WorkIsCurrent
<1>5. worker[w].complete => \A t \in Signers : signer[t] = "signed"
  BY DEF CompleteIsSigned
<1>6. doc.version \in Nat /\ doc.state \in DocumentStates
  BY DEF SigningInv, TypeOK, Document
<1>7. doc' \in Document /\ doc'.version = doc.version + 1
  BY <1>1, <1>6 DEF Document, DocumentStates
<1>8. /\ worker[w].complete => doc'.state = "finalized"
      /\ ~worker[w].complete => doc'.state = doc.state
  BY <1>1
<1>9. worker[w].complete => doc.state # "declined"
  BY <1>5 DEF SigningInv, OutcomeMatchesRoster
<1>10. SigningInv'
  BY <1>1, <1>6, <1>7, <1>8, <1>9, FlatteningKeepsSigning DEF FlattensDocument
<1>11. /\ worker' \in [Workers -> Worker]
       /\ worker'[w].stage = "returned" /\ worker'[w].complete = worker[w].complete
       /\ \A v \in Workers \ {w} : worker'[v] = worker[v]
  BY OneStage DEF CommitFlattening, Stages
<1>12. /\ revision' \in [Signers -> Nat]
       /\ revision'[s] = IF flattened[s] THEN revision[s] ELSE revision[s] + 1
       /\ \A t \in Signers \ {s} : revision'[t] = revision[t]
  BY <1>1, <1>3, <1>4 DEF Stamped, FlattenTypeOK
<1>13. /\ flattened' \in [Signers -> BOOLEAN]
       /\ flattened'[s] = TRUE
       /\ \A t \in Signers \ {s} : flattened'[t] = flattened[t]
  BY <1>1, <1>3 DEF FlattenTypeOK
<1>14. lease' \in [owner: Workers \cup {None, Dead}, live: BOOLEAN] /\ lease'.owner = None
  BY <1>1 DEF Free
<1>15. FlattenTypeOK'
  BY <1>1, <1>11, <1>12, <1>13, <1>14 DEF FlattenTypeOK
<1>16. StampedOnce'
  BY <1>3, <1>12, <1>13 DEF StampedOnce
<1>17. WorkIsCurrent'
  <2>1. \A v \in Workers : worker[v].version \in Nat
    BY DEF FlattenTypeOK, Worker
  <2>2. \A v \in Workers : lease'.owner # v
    BY <1>14
  <2> QED BY <1>6, <1>7, <1>11, <2>1, <2>2 DEF WorkIsCurrent
<1>18. CompleteIsSigned'
  BY <1>1, <1>11 DEF CompleteIsSigned
<1>19. FinalizedIsClosed'
  BY <1>1, <1>2, <1>5, <1>8, <1>14 DEF FinalizedIsClosed
<1> QED BY <1>2, <1>10, <1>15, <1>16, <1>17, <1>18, <1>19

\* Giving the lease back: only its owner changes the document.
LEMMA ReleaseEffect ==
    ASSUME FInv, NEW w \in Workers, ReleaseProcessingLease(w) \/ MarkFinalizationFailed(w)
    PROVE  /\ FlattensDocument
           /\ lease' \in [owner: Workers \cup {None, Dead}, live: BOOLEAN]
           /\ lease'.owner \in Workers => lease'.owner = lease.owner
           /\ doc' # doc => doc.state # "finalized" /\ doc'.state # "finalized"
           /\ lease'.owner # lease.owner => doc.state # "finalized"
<1>1. doc.version \in Nat /\ doc.state \in DocumentStates
  BY DEF FInv, SigningInv, TypeOK, Document
<1>2. lease \in [owner: Workers \cup {None, Dead}, live: BOOLEAN]
  BY DEF FInv, FlattenTypeOK
<1>3. CASE UNCHANGED <<doc, lease>>
  BY <1>2, <1>3 DEF FlattensDocument
<1>4. CASE lease.owner = w /\ lease' = Free
  <2>1. doc.state # "finalized"
    BY <1>4, OwnedIsOpen
  <2>2. lease' \in [owner: Workers \cup {None, Dead}, live: BOOLEAN] /\ lease'.owner = None
    BY <1>4 DEF Free
  <2>3. CASE doc' = [state |-> doc.state, version |-> doc.version + 1]
    BY <1>1, <2>1, <2>2, <2>3 DEF FlattensDocument, Document
  <2>4. CASE /\ doc.state = "finalizing"
             /\ doc' = [state |-> "finalization_failed", version |-> doc.version + 1]
    BY <1>1, <2>1, <2>2, <2>4 DEF FlattensDocument, Document, DocumentStates
  <2>5. \/ doc' = [state |-> doc.state, version |-> doc.version + 1]
        \/ /\ doc.state = "finalizing"
           /\ doc' = [state |-> "finalization_failed", version |-> doc.version + 1]
        \/ UNCHANGED <<doc, lease>>
    BY DEF ReleaseProcessingLease, MarkFinalizationFailed
  <2> QED BY <1>3, <2>3, <2>4, <2>5
<1> QED BY <1>3, <1>4 DEF ReleaseProcessingLease, MarkFinalizationFailed

LEMMA LoseLeaseInv ==
    ASSUME FInv, NEW w \in Workers, LoseLease(w) \/ FlatteningFails(w)
    PROVE  /\ FInv' /\ UNCHANGED <<revision, artifact>>
           /\ doc' # doc => doc.state # "finalized"
<1>1. PICK st \in {"retryable", "fatal"} : worker' = [worker EXCEPT ![w].stage = st]
  BY DEF LoseLease, FlatteningFails
<1>2. /\ worker' \in [Workers -> Worker]
      /\ worker'[w].stage = st /\ worker'[w].complete = worker[w].complete
      /\ \A v \in Workers \ {w} : worker'[v] = worker[v]
  BY <1>1, OneStage DEF FInv, Stages
<1>3. ReleaseProcessingLease(w) \/ MarkFinalizationFailed(w)
  BY DEF LoseLease, FlatteningFails
<1>4. UNCHANGED <<job, signer, session, commits, exchanges, request,
                  revision, flattened, artifact>>
  BY DEF LoseLease, FlatteningFails
<1>5. /\ FlattensDocument
      /\ lease' \in [owner: Workers \cup {None, Dead}, live: BOOLEAN]
      /\ lease'.owner \in Workers => lease'.owner = lease.owner
      /\ doc' # doc => doc.state # "finalized" /\ doc'.state # "finalized"
      /\ lease'.owner # lease.owner => doc.state # "finalized"
  BY <1>3, ReleaseEffect
<1>6. job' \in [Jobs -> [status: {"queued", "processed", "failed"}, attempts: Nat]]
  BY <1>4 DEF FInv, FlattenTypeOK
<1>7. worker'[w].stage \notin {"loaded", "claimed", "leased"}
  BY <1>2
<1>8. FInv'
  BY <1>2, <1>4, <1>5, <1>6, <1>7, WorkerLeavesInv
<1> QED BY <1>4, <1>5, <1>8

\* The worker is idle again: its job is settled, or its process has died.
LEMMA SettleOrCrashInv ==
    ASSUME FInv, NEW w \in Workers, SettleJob(w) \/ Crash(w)
    PROVE  FInv' /\ UNCHANGED <<doc, revision, artifact>>
<1>1. worker' = [worker EXCEPT ![w] = Idle]
  BY DEF SettleJob, Crash
<1>2. Idle \in Worker
  BY DEF Idle, Worker, Stages, Blank
<1>3. /\ worker' \in [Workers -> Worker]
      /\ worker'[w] = Idle
      /\ \A v \in Workers \ {w} : worker'[v] = worker[v]
  BY <1>1, <1>2, OneWorker DEF FInv
<1>4. worker'[w].stage = "idle" /\ ~worker'[w].complete
  BY <1>3 DEF Idle
<1>5. UNCHANGED <<doc, signer, session, commits, exchanges, request,
                  revision, flattened, artifact>>
  BY DEF SettleJob, Crash, signingVars
<1>6. job' \in [Jobs -> [status: {"queued", "processed", "failed"}, attempts: Nat]]
  <2>1. job \in [Jobs -> [status: {"queued", "processed", "failed"}, attempts: Nat]]
    BY DEF FInv, FlattenTypeOK
  <2>2. SettledStatus(w) \in {"queued", "processed", "failed"}
    BY DEF SettledStatus
  <2>3. PICK j, st : st = SettledStatus(w) /\ job' \in {job, [job EXCEPT ![j].status = st]}
    BY DEF SettleJob, Crash
  <2> QED BY <2>1, <2>2, <2>3
<1>7. /\ lease' \in [owner: Workers \cup {None, Dead}, live: BOOLEAN]
      /\ lease'.owner \in Workers => lease'.owner = lease.owner
      /\ lease'.owner # lease.owner => doc.state # "finalized"
  <2>1. lease \in [owner: Workers \cup {None, Dead}, live: BOOLEAN]
    BY DEF FInv, FlattenTypeOK
  <2>2. CASE lease' = lease
    BY <2>1, <2>2
  <2>3. CASE lease.owner = w /\ lease' = [owner |-> Dead, live |-> lease.live]
    <3>1. doc.state # "finalized"
      BY <2>3, OwnedIsOpen
    <3> QED BY <2>1, <2>3, <3>1
  <2> QED BY <2>2, <2>3 DEF SettleJob, Crash
<1>8. FInv'
  BY <1>3, <1>4, <1>5, <1>6, <1>7, WorkerLeavesInv DEF FlattensDocument
<1> QED BY <1>5, <1>8

LEMMA LeaseRunsOutInv ==
    ASSUME FInv, LeaseRunsOut
    PROVE  FInv' /\ UNCHANGED <<doc, revision, artifact>>
<1> USE DEF FInv
<1>1. /\ lease' = [owner |-> lease.owner, live |-> FALSE]
      /\ UNCHANGED <<revision, flattened, artifact, job, worker, doc, signer, session,
                     commits, exchanges, request>>
  BY DEF LeaseRunsOut, signingVars
<1>2. lease' \in [owner: Workers \cup {None, Dead}, live: BOOLEAN] /\ lease'.owner = lease.owner
  BY <1>1 DEF FlattenTypeOK
<1>3. SigningInv'
  BY <1>1, FlatteningKeepsSigning DEF FlattensDocument
<1>4. FlattenTypeOK' /\ StampedOnce' /\ WorkIsCurrent' /\ CompleteIsSigned'
      /\ FinalizedIsClosed'
  BY <1>1, <1>2 DEF FlattenTypeOK, StampedOnce, WorkIsCurrent, CompleteIsSigned,
                    FinalizedIsClosed
<1> QED BY <1>1, <1>3, <1>4

\* Every step keeps the invariant, and no step changes a finalized document.
LEMMA NextInv ==
    ASSUME FInv, [Next]_vars
    PROVE  /\ FInv'
           /\ doc.state = "finalized" => UNCHANGED <<doc, revision, artifact>>
<1>1. CASE UNCHANGED vars
  <2>1. UNCHANGED <<doc, signer, session, commits, exchanges, request, lease, revision,
                    flattened, artifact, job, worker>>
    BY <1>1 DEF vars, signingVars, flattenVars
  <2>2. SigningInv'
    BY <2>1, FlatteningKeepsSigning DEF FInv, FlattensDocument
  <2>3. FlattenTypeOK' /\ StampedOnce' /\ WorkIsCurrent' /\ CompleteIsSigned'
        /\ FinalizedIsClosed'
    BY <2>1 DEF FInv, FlattenTypeOK, StampedOnce, WorkIsCurrent, CompleteIsSigned,
                FinalizedIsClosed
  <2> QED BY <2>1, <2>2, <2>3 DEF FInv
<1>2. CASE SigningNext /\ UNCHANGED flattenVars
  <2>1. doc' # doc => doc.state # "finalized"
    BY <1>2, SigningStepEffect DEF FInv
  <2> QED BY <1>2, <2>1, SigningKeepsFlattening DEF flattenVars
<1>3. ASSUME NEW w \in Workers, WorkerStep(w) \/ Crash(w)
      PROVE  /\ FInv'
             /\ doc.state = "finalized" => UNCHANGED <<doc, revision, artifact>>
  <2>1. ASSUME NEW j \in Jobs, LoadAuthorizedWork(w, j)
        PROVE  FInv' /\ UNCHANGED <<doc, revision, artifact>>
    BY <2>1, LoadWorkInv DEF LoadAuthorizedWork, signingVars
  <2>2. CASE TakeLease(w)
    BY <2>2, TakeLeaseInv
  <2>3. CASE MissLease(w) \/ ReadLeasedFails(w)
    BY <2>3, MissLeaseInv DEF MissLease, ReadLeasedFails, signingVars
  <2>4. CASE ReadLeased(w)
    BY <2>4, ReadLeasedInv DEF ReadLeased, signingVars
  <2>5. CASE CommitFlattening(w)
    BY <2>5, CommitFlatteningInv
  <2>6. CASE LoseLease(w) \/ FlatteningFails(w)
    BY <2>6, LoseLeaseInv
  <2>7. CASE SettleJob(w) \/ Crash(w)
    BY <2>7, SettleOrCrashInv
  <2> QED BY <1>3, <2>1, <2>2, <2>3, <2>4, <2>5, <2>6, <2>7 DEF WorkerStep
<1>4. CASE LeaseRunsOut
  BY <1>4, LeaseRunsOutInv
<1> QED BY <1>1, <1>2, <1>3, <1>4 DEF Next

----------------------------------------------------------------------------
(* Theorems.                                                               *)

\* The inductive invariant of the composition holds in every reachable state.
THEOREM FinalizationInvariant == Spec => []FInv
BY FullInitInv, NextInv, PTL DEF Spec

\* flattenSignature's updates of the document, made while requests are in
\* flight, leave everything true that was proved of signing alone: among the
\* rest, a document is completed only with every signature on it and declined
\* exactly when somebody declined.
THEOREM FinalizationKeepsSigning == Spec => [](SigningInv /\ OutcomeMatchesRoster)
<1>1. FInv => SigningInv /\ OutcomeMatchesRoster
  BY DEF FInv, SigningInv
<1> QED BY <1>1, FinalizationInvariant, PTL

\* However often jobs are repeated, workers die and leases run out, the current
\* revision carries each flattened signature once, and the artifact of a
\* finalized document is that revision.
THEOREM FinalizationRevisionShows == Spec => []RevisionShowsFlattened
<1>1. FInv => RevisionShowsFlattened
  BY DEF FInv, StampedOnce, FinalizedIsClosed, RevisionShowsFlattened
<1> QED BY <1>1, FinalizationInvariant, PTL

\* No step of a request or of a worker changes the state, the content or the
\* artifact of a finalized document.
THEOREM FinalizationIsFinal == Spec => FinalizedIsFinal
<1>1. FInv /\ [Next]_vars =>
         [doc.state = "finalized" =>
              /\ doc'.state = doc.state
              /\ revision' = revision
              /\ artifact' = artifact]_vars
  BY NextInv
<1> QED BY <1>1, FinalizationInvariant, PTL DEF Spec, FinalizedIsFinal
============================================================================

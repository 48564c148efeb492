---------------------------- MODULE SignerClient ----------------------------
(***************************************************************************)
(* The signing page in the signer's browser, the proxy it talks through,   *)
(* and what the signing API answers to one signer.  The page runs several  *)
(* asynchronous functions at once (a load, an ink capture, a submit, a     *)
(* decline) and one timer; whatever comes back sets the screen, also when  *)
(* another screen is up by then.  The proxy gives up after eight seconds   *)
(* and answers 503: the API may handle the request all the same.           *)
(*                                                                         *)
(* The signer has one required signature field and ticks the intent box.   *)
(* A handler reads the session, the document and the signer one after the *)
(* other, outside a transaction: the first two as of any time since the    *)
(* request was sent, the third in one step with what follows it (Signing   *)
(* and ApiRequests interleave those).  The three reads of a loaded         *)
(* workspace are one request.  The document preview and POST               *)
(* /signing/viewed are left out: neither sets the screen.                  *)
(***************************************************************************)
EXTENDS Naturals, FiniteSets

CONSTANTS
    Loads,      \* bound: loads of the workspace that run at once
    Submits,    \* bound: submits that run at once
    Reviews,    \* bound: ink captures
    MaxInk,     \* bound: drawings, numbered; 0 is an empty pad
    MaxFaults   \* bound: lost requests, server errors, reloads, overlapping captures

ASSUME BoundAssumption == MaxInk \in Nat /\ MaxFaults \in Nat
ASSUME TaskAssumption ==
    /\ Loads # {} /\ Loads \cap Submits = {}
    /\ (Loads \cup Submits) \cap {"consent", "decline"} = {}

VARIABLES
    screen, busy, consent, ink,   \* React state
    armed,    \* the expiry timer runs
    ref,      \* the page's refs
    call,     \* per asynchronous function, the request it awaits
    review,   \* the ink captures under way
    cookie,   \* the browser has the session cookie
    late,     \* requests the page has given up and the API may still handle
    server,   \* the signer's session, the signer, the roster; a session "closed"
              \* has ended with its document
    faults,
    reused,   \* history: the used link was offered again by a page with its cookie
    crossed,  \* history: a capture ran beside another, or beside a submit
    found     \* history: a load found the signer settled, and nothing was wiped since

vars == <<screen, busy, consent, ink, armed, ref, call, review, cookie, late, server,
          faults, reused, crossed, found>>
net == <<cookie, late, server, faults, reused>>

Tasks == Loads \cup Submits \cup {"consent", "decline"}
Idle == [at |-> "idle", sent |-> "none", answer |-> "none", image |-> "none"]
NoReview == [at |-> "idle", ink |-> 0]
OldReview == [at |-> "done", ink |-> 0]
NoRef == [token |-> FALSE, had |-> FALSE, key |-> FALSE, capture |-> 0, shown |-> 0,
          retry |-> FALSE]

\* The session's row as a request finds it: the exchange rotates the token, so
\* that the link's own is found no more.  A session past its time has "ended"
\* before its row says so: it is refused all the same.  A request keeps the row
\* of the time it was sent.
Row(s, at) == IF at = "exchange" /\ s.consumed THEN "ended" ELSE s.link

Request(at) == [Idle EXCEPT !.at = at, !.sent = Row(server, at)]
Await(c, t, at) == [c EXCEPT ![t] = Request(at)]
Answered(t, answer) ==
    [call EXCEPT ![t] = [Idle EXCEPT !.at = call[t].at, !.answer = answer]]
Done(c, t) == [c EXCEPT ![t] = Idle]
Landed(t, at) == call[t].at = at /\ call[t].answer # "none"
Free(t, pool) == call[t] = Idle /\ t = CHOOSE u \in pool : call[u] = Idle
Failed(t) == call[t].answer \in {"auth", "refused", "network"}

----------------------------------------------------------------------------
(* The API.  An operator maps the server to its next state and the answer.  *)

Reply(s, answer) == [server |-> s, answer |-> answer]

\* consumeAndRotate.
ExchangeSigningToken(s) ==
    IF s.consumed \/ s.link # "open" THEN Reply(s, "refused")
    ELSE Reply([s EXCEPT !.consumed = TRUE], "ok")

GetSignerSession(s) == Reply(s, IF s.signer = "pending" THEN "ok" ELSE s.signer)

\* getSignerDocument, getSignerFields and getSignerConsent.
GetWorkspace(s) == Reply(s, IF s.agreed THEN "agreed" ELSE "ok")

RecordSignerConsent(s) == Reply([s EXCEPT !.agreed = TRUE], "ok")

\* The document is voided, declined, or complete by this signature.
Closed(s) == s.link = "closed" \/ s.last

DeclineToSign(s) ==
    IF s.signer # "pending" \/ Closed(s) THEN Reply(s, "refused")
    ELSE Reply([s EXCEPT !.signer = "declined", !.link = "closed"], "ok")

\* Whether every signer has signed, which the others may make true meanwhile.
CompleteAnswer(s, last) ==
    Reply([s EXCEPT !.last = last], IF last THEN "accepted" ELSE "pending")

CompleteSigning(s, c) ==
    IF s.signer = "signed" THEN {CompleteAnswer(s, last) : last \in {s.last, TRUE}}
    ELSE IF s.link # "open" \/ ~s.agreed \/ c.image = "none" THEN {Reply(s, "refused")}
    ELSE {CompleteAnswer([s EXCEPT !.signer = "signed", !.link = "completed",
                                   !.image = c.image], last) : last \in BOOLEAN}

\* The signer is read, and the use case goes on from there.
UseCase(s, c) ==
    CASE c.at = "exchange" -> {ExchangeSigningToken(s)}
      [] c.at \in {"session", "wait"} -> {GetSignerSession(s)}
      [] c.at = "workspace" -> {GetWorkspace(s)}
      [] c.at = "consent" -> {RecordSignerConsent(s)}
      [] c.at = "decline" -> {DeclineToSign(s)}
      [] c.at = "complete" -> CompleteSigning(s, c)

\* loadSignerSession: the session's row is read, then the document, unless the
\* session is completed, then the signer.  While the row is open the document is;
\* when it has closed since, the second read may be before that or after (409
\* document_not_signable).  POST /signing/complete alone passes allowCompleted.
Loaded(s, c, row) ==
    CASE row = "open" -> UseCase(s, c) \cup (IF Closed(s) THEN {Reply(s, "refused")} ELSE {})
      [] row = "completed" /\ c.at = "complete" -> UseCase(s, c)
      [] OTHER -> {Reply(s, "auth")}

Api(s, c) == UNION {Loaded(s, c, row) : row \in {c.sent, Row(s, c.at)}}

\* A request of a page without the cookie is refused before any use case.
Handled(c) == IF c.at = "exchange" \/ cookie THEN Api(server, c) ELSE {Reply(server, "auth")}

Waiting(t) == call[t].at # "idle" /\ call[t].answer = "none"
PageUnchanged == UNCHANGED <<screen, busy, consent, ink, armed, ref, review, crossed, found>>

\* The answer comes back through the proxy; the exchange's sets the cookies.
Answer(t) ==
    /\ Waiting(t)
    /\ \E h \in Handled(call[t]) :
          /\ server' = h.server
          /\ call' = Answered(t, h.answer)
          /\ cookie' = (cookie \/ (call[t].at = "exchange" /\ h.answer = "ok"))
    /\ reused' = (reused \/ (call[t].at = "exchange" /\ server.consumed /\ cookie))
    /\ UNCHANGED <<late, faults>> /\ PageUnchanged

\* A 429, a 500, or a 409 for a version that another signer or the worker moved.
Refuse(t) ==
    /\ Waiting(t) /\ faults < MaxFaults
    /\ call' = Answered(t, "refused")
    /\ faults' = faults + 1
    /\ UNCHANGED <<server, cookie, late, reused>> /\ PageUnchanged

Mutations == {"exchange", "consent", "decline", "complete"}
GivenUp(cs) == {c \in cs : c.at \in Mutations /\ c.answer = "none" /\ (c.at = "exchange" \/ cookie)}

\* The connection drops, or the proxy's AbortSignal fires.
Timeout(t) ==
    /\ Waiting(t) /\ faults < MaxFaults
    /\ call' = Answered(t, "network")
    /\ late' = late \cup GivenUp({call[t]})
    /\ faults' = faults + 1
    /\ UNCHANGED <<server, cookie, reused>> /\ PageUnchanged

HandleLate(c) ==
    /\ c \in late
    /\ late' = late \ {c}
    /\ \E h \in Api(server, c) : server' = h.server
    /\ UNCHANGED <<call, cookie, faults, reused>> /\ PageUnchanged

\* The sender replaces the link, or the session's time is over (a completed one
\* has that end too); or the sender voids, or another signer declines.  What
\* closes the document of an ended session changes no answer.
SessionEnds ==
    /\ \/ server.link \in {"open", "completed"} /\ server' = [server EXCEPT !.link = "ended"]
       \/ server.link = "open" /\ server' = [server EXCEPT !.link = "closed"]
    /\ UNCHANGED <<call, cookie, late, faults, reused>> /\ PageUnchanged

----------------------------------------------------------------------------
(* Screens.                                                                 *)

\* Variant: a failure of the network is taken for a refused session.
ScreenFromFailureBlamingSession(answer, had) ==
    IF answer \in {"auth", "network"} THEN (IF had THEN "revoked" ELSE "unavailable") ELSE "error"

ScreenFromFailure(answer, had) ==
    CASE answer = "network" -> "network_error"
      [] answer = "auth" -> IF had THEN "revoked" ELSE "unavailable"
      [] answer = "refused" -> "error"

HandleFailure(t) == screen' = ScreenFromFailure(call[t].answer, ref.had)

\* Variant: the captured image stays in its ref.
WipedButCapture(r) == [r EXCEPT !.token = FALSE, !.key = FALSE, !.shown = 0]

Wiped(r) == [r EXCEPT !.token = FALSE, !.key = FALSE, !.capture = 0, !.shown = 0]

WipeSensitiveState == ref' = Wiped(ref) /\ ink' = 0 /\ found' = FALSE

\* The timer of the loaded session, on the browser's clock.
ExpiryTimer ==
    /\ armed /\ armed' = FALSE
    /\ screen' = "expired"
    /\ WipeSensitiveState
    /\ UNCHANGED <<busy, consent, call, review, crossed, net>>

----------------------------------------------------------------------------
(* bootstrap and loadWorkspace.                                             *)

LoadUnchanged == UNCHANGED <<busy, review, crossed, net>>

Exchanged(t) ==
    /\ Landed(t, "exchange") /\ ~Failed(t)
    /\ ref' = [ref EXCEPT !.token = FALSE]
    /\ call' = Await(call, t, "session")
    /\ UNCHANGED <<screen, consent, ink, armed, found>> /\ LoadUnchanged

\* screenFromSession says "workspace".
SessionLoaded(t) ==
    /\ Landed(t, "session") /\ call[t].answer = "ok"
    /\ ref' = [ref EXCEPT !.had = TRUE]
    /\ armed' = TRUE
    /\ call' = Await(call, t, "workspace")
    /\ UNCHANGED <<screen, consent, ink, found>> /\ LoadUnchanged

\* The signer settled after the session and the document were read: the screen
\* says so, and nothing is wiped.
SessionSettled(t) ==
    /\ Landed(t, "session") /\ call[t].answer \in {"signed", "declined"}
    /\ ref' = [ref EXCEPT !.had = TRUE]
    /\ armed' = TRUE
    /\ screen' = IF call[t].answer = "signed" THEN "completed" ELSE "declined"
    /\ call' = Done(call, t)
    /\ found' = TRUE
    /\ UNCHANGED <<consent, ink>> /\ LoadUnchanged

\* The same session is over by the browser's clock: the load ends here.
SessionOver(t) ==
    /\ Landed(t, "session") /\ ~Failed(t)
    /\ ref' = [Wiped(ref) EXCEPT !.had = TRUE] /\ ink' = 0 /\ found' = FALSE
    /\ armed' = FALSE
    /\ screen' = "expired"
    /\ call' = Done(call, t)
    /\ UNCHANGED consent /\ LoadUnchanged

WorkspaceLoaded(t) ==
    /\ Landed(t, "workspace") /\ ~Failed(t)
    /\ consent' = IF call[t].answer = "agreed" THEN "accepted" ELSE "asked"
    /\ screen' = "ready"
    /\ call' = Done(call, t)
    /\ UNCHANGED <<ink, armed, ref, found>> /\ LoadUnchanged

LoadFailed(t) ==
    /\ \E at \in {"exchange", "session", "workspace"} : Landed(t, at)
    /\ Failed(t)
    /\ HandleFailure(t)
    /\ call' = Done(call, t)
    /\ UNCHANGED <<consent, ink, armed, ref, found>> /\ LoadUnchanged

----------------------------------------------------------------------------
(* The workspace.                                                           *)

\* submitReadiness; `busy` is what the buttons pass for `submitting`.
Ready == consent = "accepted" /\ ink > 0
WorkspaceShown == screen \in {"ready", "review"} /\ consent # "none"

Draw ==
    /\ screen = "ready" /\ consent # "none" /\ ink < MaxInk
    /\ ink' = ink + 1
    /\ UNCHANGED <<screen, busy, consent, armed, ref, call, review, crossed, found, net>>

\* Bound, here and in ConfirmDecline: not beside one that an ended submit has let
\* overlap by resetting `busy`.
AcceptConsent ==
    /\ screen = "ready" /\ consent = "asked" /\ ~busy /\ call["consent"] = Idle
    /\ busy' = TRUE
    /\ call' = Await(call, "consent", "consent")
    /\ UNCHANGED <<screen, consent, ink, armed, ref, review, crossed, found, net>>

ConsentLanded ==
    /\ Landed("consent", "consent")
    /\ \/ Failed("consent") /\ HandleFailure("consent") /\ UNCHANGED consent
       \/ ~Failed("consent") /\ consent' = "accepted" /\ UNCHANGED screen
    /\ busy' = FALSE
    /\ call' = Done(call, "consent")
    /\ UNCHANGED <<ink, armed, ref, review, crossed, found, net>>

ConfirmDecline ==
    /\ WorkspaceShown /\ ~busy /\ call["decline"] = Idle
    /\ busy' = TRUE
    /\ call' = Await(call, "decline", "decline")
    /\ UNCHANGED <<screen, consent, ink, armed, ref, review, crossed, found, net>>

DeclineLanded ==
    /\ Landed("decline", "decline")
    /\ \/ /\ Failed("decline")
          /\ HandleFailure("decline") /\ UNCHANGED <<ref, ink, found>>
       \/ /\ ~Failed("decline")
          /\ WipeSensitiveState /\ screen' = "declined"
    /\ busy' = FALSE
    /\ call' = Done(call, "decline")
    /\ UNCHANGED <<consent, armed, review, crossed, net>>

----------------------------------------------------------------------------
(* goToReview: capture the ink, render the preview of it, show the review.  *)

ReviewUnchanged == UNCHANGED <<busy, consent, ink, armed, call, found, net>>

Capturing == \E v \in Reviews : review[v].at \in {"capture", "preview"}

\* Bound: a click while a capture runs uses up a fault.
GoToReview(v) ==
    /\ screen = "ready" /\ Ready /\ ~busy
    /\ review[v] = NoReview /\ v = CHOOSE w \in Reviews : review[w] = NoReview
    /\ review' = [review EXCEPT ![v] = [at |-> "capture", ink |-> ink]]
    /\ \/ ~Capturing /\ UNCHANGED <<crossed, faults>>
       \/ Capturing /\ faults < MaxFaults /\ crossed' = TRUE /\ faults' = faults + 1
    /\ UNCHANGED <<screen, busy, consent, ink, armed, ref, call, found, cookie, late, server,
                   reused>>

\* Variant: ink captured once is not captured again.
CaptureOnce(v) == IF ref.capture = 0 THEN review[v].ink ELSE ref.capture

CaptureInk(v) == review[v].ink

InkCaptured(v) ==
    /\ review[v].at = "capture"
    /\ ref' = [ref EXCEPT !.capture = CaptureInk(v)]
    /\ review' = [review EXCEPT ![v].at = "preview"]
    /\ UNCHANGED <<screen, crossed>> /\ ReviewUnchanged

ReviewShown(v) ==
    /\ review[v].at = "preview"
    /\ ref' = [ref EXCEPT !.shown = review[v].ink]
    /\ screen' = "review"
    /\ review' = [review EXCEPT ![v] = OldReview]
    /\ UNCHANGED crossed /\ ReviewUnchanged

\* exportInkPng rejects: the image is too large.  The second export of the same
\* strokes ends like the first.
ReviewFailed(v) ==
    /\ review[v].at = "capture" /\ screen' = "error"
    /\ review' = [review EXCEPT ![v] = OldReview]
    /\ UNCHANGED <<ref, crossed>> /\ ReviewUnchanged

Back ==
    /\ screen = "review" /\ consent # "none" /\ screen' = "ready"
    /\ UNCHANGED <<busy, consent, ink, armed, ref, call, review, crossed, found, net>>

----------------------------------------------------------------------------
(* submit and waitForCompletion.                                            *)

\* The image in the request: none, the one the review shows, or another.
Image ==
    IF ref.capture = 0 THEN "none" ELSE IF ref.capture = ref.shown THEN "reviewed" ELSE "other"

\* A retry keeps the idempotency key of the submit it repeats.
SubmitNow(t) ==
    /\ Free(t, Submits)
    /\ screen' = "submitting" /\ busy' = TRUE
    /\ ref' = [ref EXCEPT !.retry = TRUE, !.key = TRUE]
    /\ call' = [call EXCEPT ![t] = [Request("complete") EXCEPT !.image = Image]]
    /\ crossed' = (crossed \/ Capturing)
    /\ UNCHANGED <<consent, ink, armed, review, found, net>>

Submit(t) == screen = "review" /\ Ready /\ ~busy /\ SubmitNow(t)

Completed(t) ==
    /\ ref' = [Wiped(ref) EXCEPT !.retry = FALSE] /\ ink' = 0 /\ found' = FALSE
    /\ screen' = "completed"
    /\ call' = Done(call, t)

\* Variant: assertOk is missing, whatever is not "pending" counts as accepted.
AcceptedUnlessPending(answer) == answer # "pending"

Accepted(answer) == answer = "accepted"

\* Variant: no finally block.
SubmitEndsBusy == UNCHANGED busy

SubmitEnds == busy' = FALSE

SubmitLanded(t) ==
    /\ Landed(t, "complete")
    /\ \/ Accepted(call[t].answer) /\ Completed(t) /\ SubmitEnds
       \/ /\ call[t].answer = "pending"
          /\ call' = Await(call, t, "wait")
          /\ UNCHANGED <<screen, busy, ref, ink, found>>
       \/ /\ ~Accepted(call[t].answer) /\ Failed(t)
          /\ HandleFailure(t) /\ SubmitEnds
          /\ call' = Done(call, t)
          /\ UNCHANGED <<ref, ink, found>>
    /\ UNCHANGED <<consent, armed, review, crossed, net>>

\* Eight reads of the session, until it says "signed"; then, or when they are
\* used up, the page says completed.
WaitForCompletion(t) ==
    /\ Landed(t, "wait")
    /\ IF Failed(t)
       THEN HandleFailure(t) /\ call' = Done(call, t) /\ UNCHANGED <<ref, ink, found>>
       ELSE Completed(t)
    /\ SubmitEnds
    /\ UNCHANGED <<consent, armed, review, crossed, net>>

----------------------------------------------------------------------------
(* retry, and the page loaded anew.                                         *)

RetryShown == screen \in {"network_error", "error"}

RetrySubmit(t) == RetryShown /\ ref.retry /\ Ready /\ SubmitNow(t)

\* submit() returns at once when the ink is gone: the review stays up.
RetryNotReady ==
    /\ RetryShown /\ ref.retry /\ ~Ready
    /\ screen' = "review"
    /\ UNCHANGED <<busy, consent, ink, armed, ref, call, review, crossed, found, net>>

\* The link's token is still pending: the button stays while it is exchanged.
RetryExchange(t) ==
    /\ RetryShown /\ ~ref.retry /\ ref.token /\ Free(t, Loads)
    /\ call' = Await(call, t, "exchange")
    /\ UNCHANGED <<screen, consent, ink, armed, ref, found>> /\ LoadUnchanged

\* Bound: not beside a load that is past the exchange already.
RetryBootstrap(t) ==
    /\ RetryShown /\ ~ref.retry /\ ~ref.token /\ Free(t, Loads)
    /\ \A u \in Loads : call[u].at \notin {"session", "workspace"}
    /\ screen' = "bootstrapping"
    /\ call' = Await(call, t, "session")
    /\ UNCHANGED <<consent, ink, armed, ref, found>> /\ LoadUnchanged

\* The page is opened, from the link or without it; what ran before is gone.
Open(token) ==
    /\ screen' = "bootstrapping" /\ busy' = FALSE /\ consent' = "none" /\ ink' = 0
    /\ armed' = FALSE
    /\ ref' = [NoRef EXCEPT !.token = token] /\ found' = FALSE
    /\ review' = [v \in Reviews |-> IF review[v] = NoReview THEN NoReview ELSE OldReview]
    /\ call' = Await([u \in Tasks |-> Idle], CHOOSE t \in Loads : TRUE,
                     IF token THEN "exchange" ELSE "session")

Reload(token) ==
    /\ faults < MaxFaults /\ faults' = faults + 1
    /\ Open(token)
    /\ late' = late \cup GivenUp({call[t] : t \in Tasks})
    /\ UNCHANGED <<cookie, server, reused, crossed>>

Init ==
    /\ screen = "bootstrapping" /\ busy = FALSE /\ consent = "none" /\ ink = 0 /\ armed = FALSE
    /\ ref = [NoRef EXCEPT !.token = TRUE]
    /\ review = [v \in Reviews |-> NoReview]
    /\ server = [link |-> "open", consumed |-> FALSE, signer |-> "pending", last |-> FALSE,
                 agreed |-> FALSE, image |-> "none"]
    /\ call = Await([u \in Tasks |-> Idle], CHOOSE t \in Loads : TRUE, "exchange")
    /\ cookie = FALSE /\ late = {}
    /\ faults = 0
    /\ reused = FALSE /\ crossed = FALSE /\ found = FALSE

\* What the API, the proxy and the event loop do for task t by themselves.
Progress(t) ==
    \/ Answer(t)
    \/ Exchanged(t) \/ SessionLoaded(t) \/ SessionSettled(t) \/ SessionOver(t)
    \/ WorkspaceLoaded(t) \/ LoadFailed(t)
    \/ t = "consent" /\ ConsentLanded
    \/ t = "decline" /\ DeclineLanded
    \/ SubmitLanded(t) \/ WaitForCompletion(t)

Next ==
    \/ \E t \in Tasks : Progress(t) \/ Refuse(t) \/ Timeout(t)
    \/ \E c \in late : HandleLate(c)
    \/ SessionEnds \/ ExpiryTimer
    \/ \E t \in Loads : RetryExchange(t) \/ RetryBootstrap(t)
    \/ Draw \/ AcceptConsent \/ ConfirmDecline \/ Back \/ RetryNotReady
    \/ \E t \in Submits : Submit(t) \/ RetrySubmit(t)
    \/ \E v \in Reviews : GoToReview(v) \/ InkCaptured(v) \/ ReviewShown(v) \/ ReviewFailed(v)
    \/ \E token \in BOOLEAN : Reload(token)

Spec == Init /\ [][Next]_vars

\* The API answers or the proxy's timer does, and the browser runs what has
\* settled; nobody clicks, draws or reloads by any fairness.
Fairness == \A t \in Tasks : WF_vars(Progress(t))

FairSpec == Spec /\ Fairness

----------------------------------------------------------------------------
(* Properties.                                                              *)

\* "Signing complete" is shown only to a signer whose signature is stored, and
\* "You declined" only to one who has declined, whatever answers were lost,
\* retried or came late.
OutcomeIsTrue ==
    /\ screen = "completed" => server.signer = "signed"
    /\ screen = "declined" => server.signer = "declined"

Usable == cookie /\ server.consumed /\ server.link = "open"

\* "Request a new invitation" is shown while the browser still has a working
\* session only after the used link was offered again: opened a second time,
\* or exchanged by a second click on "Try again".
DeadEndIsDead == screen \in {"revoked", "unavailable"} /\ Usable => reused

\* The ink the server stores is the ink whose preview the signer reviewed,
\* through failures, retries, redrawing and wipes; only a capture that overlaps
\* another one or a submit can bring the two apart.
StoredIsReviewed == server.image = "other" => crossed

EndScreen == screen \in {"completed", "declined", "expired"}

\* Completion, decline and expiry leave no ink, key, token, image or preview URL
\* in the page, except the image that a capture still running puts back; and
\* except where a load found the signer settled, whose screen comes without a
\* wipe (UrlsRevoked).
WipedAtTheEnd ==
    EndScreen /\ ~found =>
        /\ ink = 0 /\ ~ref.key /\ ~ref.token /\ ref.shown = 0
        /\ ref.capture # 0 => Capturing

\* The URL of the signature preview is revoked on completion, decline and expiry.
UrlsRevoked == EndScreen => ref.shown = 0

\* A spinner ends and the buttons come back, on a screen the signer can read.
SpinnerEnds ==
    (busy \/ screen \in {"bootstrapping", "submitting"}) ~>
        (~busy /\ screen \notin {"bootstrapping", "submitting"})
=============================================================================

---------------------------- MODULE ApiRequests ----------------------------
(***************************************************************************)
(* A request on its way through the API: the overload guard, the rate      *)
(* limiter, the timeout, the account session, the membership, then the     *)
(* handler of a mutation under its idempotency key, or a login or logout.  *)
(* The response and the handler live apart: the timeout and a client that  *)
(* hangs up end the response, nothing ends the handler (req.abortSignal is *)
(* set and nobody reads it).  A client that got no answer sends the        *)
(* request again with the same key: another element of Requests.           *)
(*                                                                         *)
(* A behaviour exercises one route on one document.  "complete" is the     *)
(* signer's route: it reads document and signer before it looks at the     *)
(* key, and it runs again under a key that is in progress.  `guarded` says *)
(* whether its transaction updates the document (the first and the last    *)
(* signer of a roster) or not (the ones between).                          *)
(***************************************************************************)
EXTENDS Naturals, FiniteSets

CONSTANTS
    Requests,     \* HTTP requests, each sent once
    Keys,         \* Idempotency-Key values
    Bodies,       \* request bodies, by their hash
    Cookie,       \* the session token the browser has at the start
    Flaws,        \* what may be wrong with a request: its origin, its CSRF token
    Roles,        \* roles the user may have in the organization; None: no member
    Limit,        \* API_MAX_CONCURRENT_REQUESTS
    RateMax,      \* API_RATE_LIMIT_MAX
    None,         \* no record, no value
    MaxFaults     \* bound on crashes of the API and on database errors

ASSUME LimitAssumption == Limit \in Nat \ {0} /\ RateMax \in Nat \ {0}
ASSUME TokenAssumption == Cookie \notin Requests
ASSUME FlawAssumption == Flaws \subseteq {"none", "origin", "csrf"}
ASSUME RoleAssumption == Roles \subseteq {"owner", "admin", "member", "read_only", None}
ASSUME BoundAssumption == MaxFaults \in Nat
ASSUME RequestsAssumption == IsFiniteSet(Requests)
\* A key that has no record is told from every record.
ASSUME NoneAssumption == None \notin [body: Bodies, answered: BOOLEAN]

VARIABLES
    route,     \* the mutation this behaviour exercises
    guarded,   \* its transaction compares the document version
    role,      \* organization_memberships: the user's role
    req,       \* the requests
    inFlight,  \* the counter of the overload guard
    bucket,    \* the rate limiter's count, and whether its window has passed
    session,   \* account_sessions by token; a login issues its own request's
    record,    \* idempotency_records by key
    doc,       \* the document: its version, and whether the mutation is done
    effects,   \* history: mutations committed per key
    faults

vars == <<route, guarded, role, req, inFlight, bucket, session, record, doc, effects, faults>>
handlerVars == <<session, record, doc, effects>>
gateVars == <<inFlight, bucket>>

Routes == {"create", "send", "void", "complete"}
Tokens == Requests \cup {Cookie}

\* The steps of a handler, in the order of the middleware and the use case.
Steps == {"session", "member", "find", "insert", "read", "commit", "notify", "answer",
          "loginRevoke", "loginCreate", "logoutRevoke"}
Begun == {"read", "commit", "notify", "answer"}

NoRequest ==
    [kind |-> "none", pc |-> "idle", response |-> "none", released |-> TRUE, reply |-> "none",
     key |-> None, body |-> None, token |-> None, flaw |-> "none", seen |-> 0, late |-> FALSE]

Running(r) == req[r].pc \in Steps

\* r works under the record of its key; completeSigning reads before it has one.
Owns(r) == req[r].pc \in Begun /\ (route = "complete" => req[r].pc # "read")

----------------------------------------------------------------------------
(* The response.  finish and close both release the guard's slot.           *)

\* Variant: both events release.
ReleasedEachTime(q) == [slot |-> 1, q |-> q]

\* `released` makes the second event harmless.
Released(q) == [slot |-> IF q.released THEN 0 ELSE 1, q |-> [q EXCEPT !.released = TRUE]]

\* res.status(..).json(..): lost when the headers are out already.
Written(q, answer) ==
    IF q.response = "open" THEN [q EXCEPT !.response = "written", !.reply = answer] ELSE q

\* The handler of r ends with an answer; what it was asked matters no more
\* unless it succeeded.
Ended(q, answer) ==
    LET e == Written([q EXCEPT !.pc = "end", !.seen = 0, !.flaw = "none"], answer)
    IN  IF e.reply = "ok" THEN e ELSE [e EXCEPT !.key = None, !.body = None, !.token = None]

Ends(r, answer) == req' = [req EXCEPT ![r] = Ended(@, answer)]
Goes(r, step) == req' = [req EXCEPT ![r].pc = step]

\* The response's own event: finish once it is flushed, or close.
Settle(r, state) ==
    LET x == Released(req[r])
    IN  /\ req' = [req EXCEPT ![r] = [x.q EXCEPT !.response = state]]
        /\ inFlight' = inFlight - x.slot
        /\ UNCHANGED <<route, guarded, role, bucket, faults, handlerVars>>

Finish(r) == req[r].response = "written" /\ Settle(r, "finished")
Close(r) == req[r].response \in {"finished", "destroyed"} /\ Settle(r, "closed")
HangUp(r) == req[r].response \in {"open", "written"} /\ Settle(r, "closed")

\* Variant: the timer answers and leaves the socket open.
TimeoutWithoutDestroy(r) ==
    /\ req[r].response = "open"
    /\ req' = [req EXCEPT ![r].reply = "unavailable", ![r].response = "open"]
    /\ UNCHANGED <<route, guarded, role, faults, gateVars, handlerVars>>

\* The timer: 503 unless an answer is under way, then res.destroy().
Timeout(r) ==
    /\ req[r].response \in {"open", "written"}
    /\ req' = [req EXCEPT ![r] =
                  [@ EXCEPT !.response = "destroyed",
                            !.reply = IF req[r].response = "open" THEN "unavailable"
                                      ELSE req[r].reply]]
    /\ UNCHANGED <<route, guarded, role, faults, gateVars, handlerVars>>

----------------------------------------------------------------------------
(* Arrival: overload guard and rate limiter run in one turn of the loop.    *)

\* RateLimiter.consume: a window that has passed starts again at one.
Consume ==
    IF bucket.old THEN [allowed |-> TRUE, bucket |-> [count |-> 1, old |-> FALSE]]
    ELSE IF bucket.count >= RateMax THEN [allowed |-> FALSE, bucket |-> bucket]
    ELSE [allowed |-> TRUE, bucket |-> [bucket EXCEPT !.count = @ + 1]]

\* createIpRateLimit throws a RateLimitError.
RateLimited == ~Consume.allowed

\* A session token the browser can have: the first one, or one a login set.
Issued(t) == t = Cookie \/ (t \in Requests /\ req[t].kind = "login" /\ req[t].reply = "ok")

FirstStep(kind) ==
    CASE kind = "login" -> "loginRevoke"
      [] kind = "logout" -> "session"
      [] kind = "mutate" -> IF route = "complete" THEN "read" ELSE "session"

Arrive(r, kind, k, b, t, flaw) ==
    /\ req[r].pc = "idle" /\ Issued(t)
    /\ LET q == [NoRequest EXCEPT !.kind = kind, !.key = k, !.body = b, !.token = t,
                                  !.flaw = flaw, !.late = session[t] = "revoked"]
       IN  IF inFlight >= Limit
           THEN /\ req' = [req EXCEPT ![r] =
                              [Ended(q, "none") EXCEPT !.response = "closed", !.reply = "unavailable"]]
                /\ UNCHANGED gateVars
           ELSE /\ inFlight' = inFlight + 1
                /\ bucket' = Consume.bucket
                /\ req' = [req EXCEPT ![r] =
                              LET a == [q EXCEPT !.response = "open", !.released = FALSE]
                              IN  IF RateLimited THEN Ended(a, "rate_limited")
                                  ELSE [a EXCEPT !.pc = FirstStep(kind)]]
    /\ UNCHANGED <<route, guarded, role, faults, handlerVars>>

\* Time passes the limiter's window.
WindowPasses ==
    /\ ~bucket.old
    /\ bucket' = [bucket EXCEPT !.old = TRUE]
    /\ UNCHANGED <<route, guarded, role, req, inFlight, faults, handlerVars>>

At(r, step) == req[r].pc = step /\ UNCHANGED <<route, guarded, role, faults, gateVars>>

----------------------------------------------------------------------------
(* Account sessions.                                                        *)

\* Variant: a revoked session still resolves.
ResolvesRevoked(t) == session[t] # "none"

Resolves(t) == session[t] = "live"

\* The writes of the session repository.
Created(t) == [session EXCEPT ![t] = "live"]
Revoked(t) == [session EXCEPT ![t] = "revoked"]

OriginIsAllowed(r) == req[r].flaw # "origin"

AssertCsrfToken(r) == req[r].flaw # "csrf"

\* requireOrigin, requireSession and requireCsrf, in this order.
RequireSession(r) ==
    /\ At(r, "session")
    /\ \/ /\ ~OriginIsAllowed(r)
          /\ Ends(r, "invalid")
       \/ /\ OriginIsAllowed(r) /\ ~Resolves(req[r].token)
          /\ Ends(r, "unauthenticated")
       \/ /\ OriginIsAllowed(r) /\ Resolves(req[r].token) /\ ~AssertCsrfToken(r)
          /\ Ends(r, "forbidden")
       \/ /\ OriginIsAllowed(r) /\ Resolves(req[r].token) /\ AssertCsrfToken(r)
          /\ Goes(r, IF req[r].kind = "logout" THEN "logoutRevoke" ELSE "member")
    /\ UNCHANGED handlerVars

\* What assertAllowed grants a role, of the actions the routes here ask for.
AccountUserActions(x) ==
    CASE x \in {"owner", "admin"} -> {"document.write", "document.send", "document.void"}
      [] x = "member" -> {"document.write", "document.send"}
      [] x = "read_only" -> {}

ActionOf(x) ==
    CASE x = "create" -> "document.write" [] x = "send" -> "document.send" [] x = "void" -> "document.void"

ResolveOrganizationActor == role # None

\* The middleware finds the membership; the route asserts its action on the role.
RequireMembership(r) ==
    /\ At(r, "member")
    /\ IF ResolveOrganizationActor /\ ActionOf(route) \in AccountUserActions(role)
       THEN Goes(r, "find") ELSE Ends(r, "forbidden")
    /\ UNCHANGED handlerVars

\* loginAccountUser: the session of the old cookie is revoked, then the new one
\* is created.
LoginRevoke(r) ==
    /\ At(r, "loginRevoke")
    /\ session' = IF session[req[r].token] = "live" THEN Revoked(req[r].token) ELSE session
    /\ Goes(r, "loginCreate")
    /\ UNCHANGED <<record, doc, effects>>

\* Credentials that do not match end the login before anything is revoked.
LoginRefused(r) ==
    /\ At(r, "loginRevoke")
    /\ Ends(r, "unauthenticated")
    /\ UNCHANGED handlerVars

LoginCreate(r) ==
    /\ At(r, "loginCreate")
    /\ session' = Created(r)
    /\ Ends(r, "ok")
    /\ UNCHANGED <<record, doc, effects>>

\* logoutAccountUser.
LogoutRevoke(r) ==
    /\ At(r, "logoutRevoke")
    /\ session' = Revoked(req[r].token)
    /\ Ends(r, "ok")
    /\ UNCHANGED <<record, doc, effects>>

\* revokeAccountSession: any session of the same user, named by its id; one
\* that is revoked stays as it is, an unknown one is refused.
RevokeAccountSession(r, t) ==
    /\ At(r, "logoutRevoke")
    /\ IF session[t] = "none"
       THEN Ends(r, "unauthenticated") /\ UNCHANGED session
       ELSE Ends(r, "ok") /\ session' = Revoked(t)
    /\ UNCHANGED <<record, doc, effects>>

----------------------------------------------------------------------------
(* replayOrBeginIdempotency.                                                *)

\* Variant: a key answers whatever the body was.
SameRequestAnyBody(k, b) == TRUE

SameRequest(k, b) == record[k].body = b

Find(r) ==
    LET k == req[r].key
    IN  /\ At(r, "find")
        /\ \/ record[k] = None /\ Goes(r, "insert")
           \/ record[k] # None /\ ~SameRequest(k, req[r].body) /\ Ends(r, "conflict")
           \/ /\ record[k] # None /\ SameRequest(k, req[r].body) /\ record[k].answered
              /\ Ends(r, "ok")
           \/ /\ record[k] # None /\ SameRequest(k, req[r].body) /\ ~record[k].answered
              /\ IF route = "complete" THEN Goes(r, "commit") ELSE Ends(r, "in_progress")
        /\ UNCHANGED handlerVars

\* The unique index: P2002 is nowhere mapped and becomes a 500.
Insert(r) ==
    /\ At(r, "insert")
    /\ \/ /\ record[req[r].key] = None
          /\ record' = [record EXCEPT ![req[r].key] = [body |-> req[r].body, answered |-> FALSE]]
          /\ Goes(r, IF route = "complete" THEN "commit" ELSE "read")
       \/ /\ record[req[r].key] # None
          /\ Ends(r, "internal") /\ UNCHANGED record
    /\ UNCHANGED <<session, doc, effects>>

----------------------------------------------------------------------------
(* The mutation.                                                            *)

\* createDraftDocument reads nothing; send and void read the document after the
\* key, and leave its record as it is when they throw; completeSigning loads
\* document and signer before the key, and answers a signer who has signed.
Read(r) ==
    /\ At(r, "read")
    /\ \/ route = "create" /\ Goes(r, "commit")
       \/ route \in {"send", "void"} /\ doc.done /\ Ends(r, "conflict")
       \/ route = "complete" /\ doc.done /\ Ends(r, "ok")
       \/ /\ route # "create" /\ ~doc.done
          /\ req' = [req EXCEPT ![r] =
                        [@ EXCEPT !.seen = doc.version,
                                  !.pc = IF route = "complete" THEN "find" ELSE "commit"]]
    /\ UNCHANGED handlerVars

\* Variant: the transaction does not compare the version.
WinsAlways(r) == TRUE

\* The conditional update of the transaction matches.
Wins(r) == guarded => doc.version = req[r].seen

Commit(r) ==
    /\ At(r, "commit")
    /\ \/ /\ Wins(r)
          /\ effects' = [effects EXCEPT ![req[r].key] = @ + 1]
          /\ doc' = [version |-> IF guarded THEN doc.version + 1 ELSE doc.version, done |-> TRUE]
          /\ Goes(r, IF route = "send" THEN "notify" ELSE "answer")
       \/ /\ ~Wins(r)
          /\ Ends(r, "conflict") /\ UNCHANGED <<effects, doc>>
    /\ UNCHANGED <<session, record>>

\* notifier.sendSigningInvitation, after the commit and before the answer.
Notify(r) ==
    /\ At(r, "notify")
    /\ Goes(r, "answer")
    /\ UNCHANGED handlerVars

\* idempotency.complete, then the response.
Answer(r) ==
    /\ At(r, "answer")
    /\ record' = [record EXCEPT ![req[r].key].answered = TRUE]
    /\ Ends(r, "ok")
    /\ UNCHANGED <<session, doc, effects>>

----------------------------------------------------------------------------
(* The environment.                                                         *)

\* A database or notifier error in a step of the handler: a 500.
Fault(r) ==
    /\ faults < MaxFaults /\ Running(r)
    /\ faults' = faults + 1
    /\ Ends(r, "internal")
    /\ UNCHANGED <<route, guarded, role, gateVars, handlerVars>>

\* The process dies: handlers, responses, the counter and the limiter with it.
Crash ==
    /\ faults < MaxFaults /\ \E r \in Requests : Running(r)
    /\ faults' = faults + 1
    /\ req' = [r \in Requests |->
                 IF req[r].pc = "idle" THEN req[r]
                  ELSE [Ended(req[r], "none") EXCEPT !.response = "closed", !.released = TRUE]]
    /\ inFlight' = 0
    /\ bucket' = [count |-> 0, old |-> TRUE]
    /\ UNCHANGED <<route, guarded, role, handlerVars>>

Init ==
    /\ route \in Routes
    /\ guarded \in BOOLEAN
    /\ role \in Roles /\ (route = "complete" => role = None)
    /\ route = "create" => ~guarded
    /\ route \in {"send", "void"} => guarded
    /\ req = [r \in Requests |-> NoRequest]
    /\ inFlight = 0
    /\ bucket = [count |-> 0, old |-> TRUE]
    /\ session = [t \in Tokens |-> IF t = Cookie THEN "live" ELSE "none"]
    /\ record = [k \in Keys |-> None]
    /\ doc = [version |-> 1, done |-> FALSE]
    /\ effects = [k \in Keys |-> 0]
    /\ faults = 0

\* The signer's route has its own token; account requests come with whatever
\* session and flaw.
Arrivals(r) ==
    \/ /\ route = "complete"
       /\ \E k \in Keys, b \in Bodies : Arrive(r, "mutate", k, b, Cookie, "none")
    \/ /\ route # "complete"
       /\ \E t \in Tokens :
             \/ \E k \in Keys, b \in Bodies, flaw \in Flaws : Arrive(r, "mutate", k, b, t, flaw)
             \/ Arrive(r, "login", None, None, t, "none")
             \/ Arrive(r, "logout", None, None, t, "none")

Handler(r) ==
    \/ RequireSession(r) \/ RequireMembership(r)
    \/ LoginRevoke(r) \/ LoginRefused(r) \/ LoginCreate(r) \/ LogoutRevoke(r)
    \/ \E t \in Tokens : RevokeAccountSession(r, t)
    \/ Find(r) \/ Insert(r) \/ Read(r) \/ Commit(r) \/ Notify(r) \/ Answer(r)

Next ==
    \/ \E r \in Requests : Arrivals(r) \/ Handler(r) \/ Fault(r)
    \/ \E r \in Requests : Finish(r) \/ Close(r) \/ HangUp(r) \/ Timeout(r)
    \/ WindowPasses \/ Crash

Spec == Init /\ [][Next]_vars

\* The event loop fires its timers and delivers the events of a socket; no
\* handler need ever come back from the database.
Fairness == \A r \in Requests : WF_vars(Timeout(r)) /\ WF_vars(Finish(r)) /\ WF_vars(Close(r))

FairSpec == Spec /\ Fairness

----------------------------------------------------------------------------
(* Properties.                                                              *)

\* The guard's counter is exact: each admitted request whose response is not
\* settled holds one slot, after timeouts, hang-ups, and responses whose finish
\* and close both fire; so no slot leaks and none is given away twice.
SlotsExact ==
    /\ inFlight = Cardinality({r \in Requests : ~req[r].released})
    /\ inFlight <= Limit

\* However often a draft, a send or a void is repeated with its key, during the
\* first attempt, after its timeout, a crash or a lost race for the unique
\* index, it takes effect once; so does a signature that updates the document.
EffectOnce ==
    /\ route = "create" => \A k \in Keys : effects[k] <= 1
    /\ guarded => \A k, l \in Keys : effects[k] + (IF k = l THEN 0 ELSE effects[l]) <= 1

\* Whoever is told that the mutation succeeded, by the handler or by a replay,
\* sent the body that took effect under this key; a signer is told so only
\* when the signature is there.
SuccessHasEffect ==
    \A r \in Requests :
        req[r].kind = "mutate" /\ req[r].reply = "ok" =>
            IF route = "complete" THEN doc.done
            ELSE effects[req[r].key] = 1 /\ record[req[r].key].body = req[r].body

\* What the reliability model and ADR-0008 say of a retry with the same key and
\* body: once the mutation is committed it gets the original result.  At most
\* while the first handler is still at work may it be told to wait.
ReplayIsStored ==
    [][\A r \in Requests :
          req[r].pc = "find" /\ req'[r].reply = "in_progress" =>
              \/ effects[req[r].key] = 0
              \/ \E s \in Requests : req[s].key = req[r].key /\ Owns(s)]_vars

\* A request that arrives after its session was revoked, by a logout or by a
\* login with the old cookie, has no effect and gets no answer but an error,
\* whatever logins, logouts and mutations run beside it.
RevokedStaysOut ==
    \A r \in Requests :
        req[r].late /\ req[r].kind # "login" =>
            req[r].pc \in {"session", "end"} /\ req[r].reply # "ok"

\* Every response is settled and every slot comes back, even when no handler
\* ever returns from the database.
SlotsComeBack == \A r \in Requests : ~req[r].released ~> req[r].released
============================================================================

-------------------------- MODULE ApiRequestsProofs -------------------------
(***************************************************************************)
(* Proofs about ApiRequests for every number of requests, keys, bodies and *)
(* faults, and every limit: the overload guard's slots, the idempotency    *)
(* records and the account sessions.                                       *)
(***************************************************************************)
EXTENDS ApiRequests, FiniteSetTheorems, TLAPS

----------------------------------------------------------------------------
(* The inductive invariant.                                                *)

Replies == {"none", "ok", "unavailable", "rate_limited", "invalid", "unauthenticated",
            "forbidden", "conflict", "in_progress", "internal"}

Request ==
    [kind: {"none", "login", "logout", "mutate"}, pc: Steps \cup {"idle", "end"},
     response: {"none", "open", "written", "finished", "destroyed", "closed"},
     released: BOOLEAN, reply: Replies, key: Keys \cup {None}, body: Bodies \cup {None},
     token: Tokens \cup {None}, flaw: {"none", "origin", "csrf"}, seen: Nat, late: BOOLEAN]

Record == [body: Bodies, answered: BOOLEAN]

TypeOK ==
    /\ route \in Routes /\ guarded \in BOOLEAN
    /\ route = "create" => ~guarded
    /\ route \in {"send", "void"} => guarded
    /\ req \in [Requests -> Request]
    /\ inFlight \in Nat
    /\ session \in [Tokens -> {"none", "live", "revoked"}]
    /\ record \in [Keys -> Record \cup {None}]
    /\ doc \in [version: Nat, done: BOOLEAN]
    /\ effects \in [Keys -> Nat]

\* Which requests reach which steps, and with what.
Shape(r) ==
    /\ req[r].pc = "idle" => req[r].released /\ req[r].kind = "none" /\ ~req[r].late
    /\ req[r].reply = "ok" => req[r].pc = "end"
    /\ req[r].pc \in Steps /\ req[r].kind = "mutate" => req[r].key \in Keys /\ req[r].body \in Bodies
    /\ req[r].pc \in Begun \cup {"member", "find", "insert"} => req[r].kind = "mutate"
    /\ req[r].pc = "session" => req[r].kind \in {"mutate", "logout"}
    /\ req[r].pc \in {"session", "member"} => route # "complete"
    /\ req[r].pc \in {"loginRevoke", "loginCreate"} => req[r].kind = "login"
    /\ req[r].pc = "logoutRevoke" => req[r].kind = "logout"
    /\ req[r].pc \in Steps => req[r].token \in Tokens

Shapes == \A r \in Requests : Shape(r)

\* A session is there once its login has ended, and a revoked one stays revoked
\* for those who presented it afterwards.
SessionsHold ==
    /\ session[Cookie] # "none"
    /\ route = "complete" => /\ session[Cookie] = "live"
                             /\ \A r \in Requests : req[r].kind \in {"none", "mutate"}
    /\ \A r \in Requests :
          /\ session[r] # "none" => req[r].kind = "login" /\ req[r].pc = "end"
          /\ req[r].kind = "login" /\ req[r].reply = "ok" => session[r] # "none"
          /\ req[r].pc = "loginRevoke" => session[req[r].token] # "none"
          /\ req[r].pc = "logoutRevoke" => session[req[r].token] # "none"
          /\ req[r].late /\ req[r].pc = "session" => session[req[r].token] = "revoked"

\* replayOrBeginIdempotency: who works under a key has its record; on every
\* route but the signer's it is alone, and its mutation is done or is not.
OwnersHold ==
    /\ \A r \in Requests :
          Owns(r) =>
              /\ record[req[r].key] # None
              /\ req[r].pc \in {"notify", "answer"} => doc.done
              /\ route # "complete" =>
                    /\ record[req[r].key].body = req[r].body
                    /\ effects[req[r].key] = IF req[r].pc \in {"notify", "answer"} THEN 1 ELSE 0
    /\ route # "complete" =>
          \A r, s \in Requests : Owns(r) /\ Owns(s) /\ req[r].key = req[s].key => r = s

\* A record is there before the effect, and is answered after it.
RecordsHold ==
    \A k \in Keys :
        /\ route # "complete" => effects[k] <= 1
        /\ record[k] = None => effects[k] = 0
        /\ record[k] # None /\ record[k].answered =>
              IF route = "complete" THEN doc.done ELSE effects[k] = 1

\* The version that the transaction compares: 1 until it has committed.
VersionsHold ==
    guarded =>
        /\ ~doc.done => doc.version = 1 /\ \A k \in Keys : effects[k] = 0
        /\ doc.done => doc.version # 1
        /\ \A r \in Requests :
              /\ req[r].pc = "commit" => req[r].seen = 1
              /\ route = "complete" /\ req[r].pc \in {"find", "insert"} => req[r].seen = 1

AInv ==
    /\ TypeOK /\ Shapes /\ SlotsExact
    /\ SessionsHold /\ RevokedStaysOut
    /\ OwnersHold /\ RecordsHold /\ VersionsHold
    /\ EffectOnce /\ SuccessHasEffect

----------------------------------------------------------------------------
(* The operators on a request.                                             *)

LEMMA WrittenEffect ==
    ASSUME NEW q \in Request, NEW answer \in Replies
    PROVE  LET e == Written(q, answer)
           IN  /\ e \in Request
               /\ e.kind = q.kind /\ e.pc = q.pc /\ e.released = q.released /\ e.late = q.late
               /\ e.key = q.key /\ e.body = q.body /\ e.token = q.token /\ e.seen = q.seen
               /\ e.reply = IF q.response = "open" THEN answer ELSE q.reply
<1>1. PICK e : e = Written(q, answer)
  OBVIOUS
<1>2. CASE q.response = "open"
  <2>1. e = [q EXCEPT !.response = "written", !.reply = answer]
    BY <1>1, <1>2 DEF Written
  <2>2. /\ e \in Request
        /\ e.kind = q.kind /\ e.pc = q.pc /\ e.released = q.released /\ e.late = q.late
        /\ e.key = q.key /\ e.body = q.body /\ e.token = q.token /\ e.seen = q.seen
        /\ e.reply = answer
    BY <2>1 DEF Request
  <2> QED BY <1>1, <1>2, <2>2
<1>3. CASE q.response # "open"
  BY <1>3 DEF Written
<1> QED BY <1>2, <1>3

\* Ended: the handler is over; key and body stay with a request that succeeded.
LEMMA EndedEffect ==
    ASSUME NEW q \in Request, NEW answer \in Replies
    PROVE  LET e == Ended(q, answer)
           IN  /\ e \in Request
               /\ e.pc = "end"
               /\ e.kind = q.kind /\ e.released = q.released /\ e.late = q.late
               /\ e.reply = IF q.response = "open" THEN answer ELSE q.reply
               /\ e.reply = "ok" => e.key = q.key /\ e.body = q.body
<1>1. PICK p : p = [q EXCEPT !.pc = "end", !.seen = 0, !.flaw = "none"]
  OBVIOUS
<1>2. /\ p \in Request
      /\ p.pc = "end" /\ p.kind = q.kind /\ p.released = q.released /\ p.late = q.late
      /\ p.key = q.key /\ p.body = q.body /\ p.response = q.response /\ p.reply = q.reply
  BY <1>1 DEF Request
<1>3. PICK e : e = Written(p, answer)
  OBVIOUS
<1>4. /\ e \in Request
      /\ e.kind = q.kind /\ e.pc = "end" /\ e.released = q.released /\ e.late = q.late
      /\ e.key = q.key /\ e.body = q.body
      /\ e.reply = IF q.response = "open" THEN answer ELSE q.reply
  BY <1>2, <1>3, WrittenEffect
<1>5. PICK f : f = [e EXCEPT !.key = None, !.body = None, !.token = None]
  OBVIOUS
<1>6. /\ f \in Request /\ f.pc = "end" /\ f.kind = e.kind /\ f.released = e.released
      /\ f.late = e.late /\ f.reply = e.reply
  BY <1>4, <1>5 DEF Request
<1>7. Ended(q, answer) = IF e.reply = "ok" THEN e ELSE f
  BY <1>1, <1>3, <1>5 DEF Ended
<1>8. CASE e.reply = "ok"
  BY <1>4, <1>7, <1>8
<1>9. CASE e.reply # "ok"
  BY <1>4, <1>6, <1>7, <1>9
<1> QED BY <1>8, <1>9

\* A change of one request.
LEMMA OneRequest ==
    ASSUME TypeOK, NEW r \in Requests, NEW new \in Request, req' = [req EXCEPT ![r] = new]
    PROVE  /\ req' \in [Requests -> Request]
           /\ req'[r] = new
           /\ \A s \in Requests \ {r} : req'[s] = req[s]
BY DEF TypeOK

LEMMA GoesEffect ==
    ASSUME TypeOK, NEW r \in Requests, NEW step \in Steps, Goes(r, step)
    PROVE  /\ req' \in [Requests -> Request]
           /\ req'[r].pc = step /\ req'[r].kind = req[r].kind
           /\ req'[r].released = req[r].released /\ req'[r].late = req[r].late
           /\ req'[r].key = req[r].key /\ req'[r].body = req[r].body
           /\ req'[r].token = req[r].token /\ req'[r].seen = req[r].seen
           /\ req'[r].reply = req[r].reply
           /\ \A s \in Requests \ {r} : req'[s] = req[s]
BY DEF TypeOK, Goes, Request

LEMMA EndsEffect ==
    ASSUME TypeOK, NEW r \in Requests, NEW answer \in Replies, Ends(r, answer)
    PROVE  /\ req' \in [Requests -> Request]
           /\ req'[r].pc = "end" /\ req'[r].kind = req[r].kind
           /\ req'[r].released = req[r].released /\ req'[r].late = req[r].late
           /\ req'[r].reply \in {answer, req[r].reply}
           /\ req'[r].reply = "ok" => req'[r].key = req[r].key /\ req'[r].body = req[r].body
           /\ \A s \in Requests \ {r} : req'[s] = req[s]
<1>1. req[r] \in Request
  BY DEF TypeOK
<1>2. PICK e : e = Ended(req[r], answer)
  OBVIOUS
<1>3. /\ e \in Request /\ e.pc = "end" /\ e.kind = req[r].kind
      /\ e.released = req[r].released /\ e.late = req[r].late
      /\ e.reply \in {answer, req[r].reply}
      /\ e.reply = "ok" => e.key = req[r].key /\ e.body = req[r].body
  BY <1>1, <1>2, EndedEffect
<1>4. req' = [req EXCEPT ![r] = e]
  BY <1>2 DEF Ends, TypeOK
<1> QED BY <1>3, <1>4, OneRequest

----------------------------------------------------------------------------
(* Steps that begin nothing.                                               *)

\* The request goes on as it was; at most its response is settled or its
\* reply is an error.
GoesOn(s) ==
    /\ req'[s].pc = req[s].pc /\ req'[s].kind = req[s].kind /\ req'[s].late = req[s].late
    /\ req'[s].key = req[s].key /\ req'[s].body = req[s].body
    /\ req'[s].token = req[s].token /\ req'[s].seen = req[s].seen
    /\ req'[s].reply = req[s].reply \/ req'[s].reply # "ok"

\* The handler of the request is over, with an error or what it replied before.
Stops(s) ==
    /\ req[s].pc # "idle"
    /\ req'[s].pc = "end" /\ req'[s].kind = req[s].kind /\ req'[s].late = req[s].late
    /\ req'[s].reply = "ok" =>
          /\ req[s].reply = "ok"
          /\ req'[s].key = req[s].key /\ req'[s].body = req[s].body

ReleasesNothing ==
    inFlight' = inFlight /\ \A s \in Requests : req'[s].released = req[s].released

LEMMA SlotsFrame ==
    ASSUME SlotsExact, ReleasesNothing
    PROVE  SlotsExact'
<1>1. {s \in Requests : ~req'[s].released} = {s \in Requests : ~req[s].released}
  BY DEF ReleasesNothing
<1> QED BY <1>1 DEF SlotsExact, ReleasesNothing

LEMMA StopsInv ==
    ASSUME AInv, req' \in [Requests -> Request],
           \A s \in Requests : GoesOn(s) \/ Stops(s),
           \A s \in Requests : req[s].released => req'[s].released,
           UNCHANGED <<route, guarded, session, record, doc, effects>>,
           inFlight' \in Nat, SlotsExact'
    PROVE  AInv'
<1> USE DEF AInv
<1>1. TypeOK'
  BY DEF TypeOK
<1>2. Shapes'
  <2>1. ASSUME NEW s \in Requests PROVE Shape(s)'
    <3>1. Shape(s)
      BY DEF Shapes
    <3> QED BY <2>1, <3>1 DEF Shape, GoesOn, Stops, Steps, Begun
  <2> QED BY <2>1 DEF Shapes
<1>3. SessionsHold'
  BY DEF SessionsHold, GoesOn, Stops
<1>4. RevokedStaysOut'
  BY DEF RevokedStaysOut, GoesOn, Stops, Shapes, Shape
<1>5. \A s \in Requests : Owns(s)' => Owns(s) /\ GoesOn(s)
  BY DEF Owns, Begun, GoesOn, Stops
<1>6. OwnersHold'
  BY <1>5 DEF OwnersHold, GoesOn
<1>7. RecordsHold' /\ EffectOnce'
  BY DEF RecordsHold, EffectOnce
<1>8. VersionsHold'
  BY DEF VersionsHold, GoesOn, Stops
<1>9. SuccessHasEffect'
  BY DEF SuccessHasEffect, GoesOn, Stops
<1> QED BY <1>1, <1>2, <1>3, <1>4, <1>6, <1>7, <1>8, <1>9

\* A handler that fails leaves its record as it is.
LEMMA FailsInv ==
    ASSUME AInv, NEW r \in Requests, NEW answer \in Replies \ {"ok"}, Ends(r, answer),
           req[r].pc \in Steps,
           UNCHANGED <<route, guarded, session, record, doc, effects, inFlight>>
    PROVE  AInv'
<1>1. TypeOK /\ SlotsExact
  BY DEF AInv
<1>2. /\ req' \in [Requests -> Request]
      /\ req'[r].pc = "end" /\ req'[r].kind = req[r].kind
      /\ req'[r].released = req[r].released /\ req'[r].late = req[r].late
      /\ req'[r].reply \in {answer, req[r].reply}
      /\ req'[r].reply = "ok" => req'[r].key = req[r].key /\ req'[r].body = req[r].body
      /\ \A s \in Requests \ {r} : req'[s] = req[s]
  BY <1>1, EndsEffect
<1>3. Stops(r)
  BY <1>2 DEF Stops, Steps
<1>4. \A s \in Requests \ {r} : GoesOn(s)
  BY <1>2 DEF GoesOn
<1>5. ReleasesNothing
  BY <1>2 DEF ReleasesNothing
<1>6. inFlight' \in Nat /\ SlotsExact'
  BY <1>1, <1>5, SlotsFrame DEF TypeOK
<1>7. \A s \in Requests : req[s].released => req'[s].released
  BY <1>5 DEF ReleasesNothing
<1>8. \A s \in Requests : GoesOn(s) \/ Stops(s)
  BY <1>3, <1>4
<1> QED BY <1>2, <1>6, <1>7, <1>8, StopsInv

\* finish, close and a client that hangs up: the first one gives the slot back.
LEMMA SettleInv ==
    ASSUME AInv, NEW r \in Requests, NEW state \in {"finished", "closed"},
           req[r].response # "none", Settle(r, state)
    PROVE  AInv'
<1>1. TypeOK /\ SlotsExact /\ req[r] \in Request
  BY DEF AInv, TypeOK
<1>2. PICK x : x = Released(req[r])
  OBVIOUS
<1>3. PICK p : p = [req[r] EXCEPT !.released = TRUE]
  OBVIOUS
<1>4. x = [slot |-> IF req[r].released THEN 0 ELSE 1, q |-> p]
  BY <1>2, <1>3 DEF Released
<1>5. PICK new : new = [p EXCEPT !.response = state]
  OBVIOUS
<1>6. /\ p \in Request /\ p.released
      /\ p.kind = req[r].kind /\ p.pc = req[r].pc /\ p.late = req[r].late
      /\ p.key = req[r].key /\ p.body = req[r].body /\ p.token = req[r].token
      /\ p.seen = req[r].seen /\ p.reply = req[r].reply
  BY <1>1, <1>3 DEF Request
<1>7. /\ new \in Request /\ new.released
      /\ new.kind = req[r].kind /\ new.pc = req[r].pc /\ new.late = req[r].late
      /\ new.key = req[r].key /\ new.body = req[r].body /\ new.token = req[r].token
      /\ new.seen = req[r].seen /\ new.reply = req[r].reply
  BY <1>5, <1>6 DEF Request
<1>8. x.q = p /\ x.slot = IF req[r].released THEN 0 ELSE 1
  BY <1>4
<1>9. /\ req' = [req EXCEPT ![r] = new]
      /\ inFlight' = inFlight - x.slot
      /\ UNCHANGED <<route, guarded, session, record, doc, effects>>
  BY <1>2, <1>5, <1>8 DEF Settle, handlerVars
<1>10. /\ req' \in [Requests -> Request]
       /\ req'[r] = new
       /\ \A s \in Requests \ {r} : req'[s] = req[s]
  BY <1>1, <1>7, <1>9, OneRequest
<1>11. inFlight' \in Nat /\ SlotsExact'
  <2> DEFINE held == {s \in Requests : ~req[s].released}
  <2>1. IsFiniteSet(held)
    BY RequestsAssumption, FS_Subset
  <2>2. {s \in Requests : ~req'[s].released} = held \ {r}
    BY <1>7, <1>10
  <2>3. Cardinality(held \ {r}) = IF r \in held THEN Cardinality(held) - 1 ELSE Cardinality(held)
    BY <2>1, FS_RemoveElement
  <2>4. IsFiniteSet(held \ {r})
    BY <2>1, FS_Subset
  <2>5. Cardinality(held \ {r}) \in Nat /\ Cardinality(held) \in Nat
    BY <2>1, <2>4, FS_CardinalityType
  <2>6. inFlight = Cardinality(held) /\ inFlight <= Limit
    BY <1>1 DEF SlotsExact
  <2>7. inFlight' = Cardinality(held \ {r})
    BY <1>8, <1>9, <2>3, <2>5, <2>6
  <2>8. inFlight' <= Limit
    BY <2>3, <2>5, <2>6, <2>7, LimitAssumption
  <2> QED BY <2>2, <2>5, <2>7, <2>8 DEF SlotsExact
<1>12. \A s \in Requests : GoesOn(s) /\ (req[s].released => req'[s].released)
  BY <1>7, <1>10 DEF GoesOn
<1> QED BY <1>9, <1>10, <1>11, <1>12, StopsInv

\* The timer answers for a handler that goes on, and releases nothing itself.
LEMMA TimeoutInv ==
    ASSUME AInv, NEW r \in Requests, Timeout(r)
    PROVE  AInv'
<1>1. TypeOK /\ SlotsExact /\ req[r] \in Request
  BY DEF AInv, TypeOK
<1>2. PICK reply : reply = IF req[r].response = "open" THEN "unavailable" ELSE req[r].reply
  OBVIOUS
<1>3. PICK new : new = [req[r] EXCEPT !.response = "destroyed", !.reply = reply]
  OBVIOUS
<1>4. reply \in Replies
  BY <1>1, <1>2 DEF Request, Replies
<1>5. /\ new \in Request /\ new.released = req[r].released
      /\ new.kind = req[r].kind /\ new.pc = req[r].pc /\ new.late = req[r].late
      /\ new.key = req[r].key /\ new.body = req[r].body /\ new.token = req[r].token
      /\ new.seen = req[r].seen /\ new.reply = reply
  BY <1>1, <1>3, <1>4 DEF Request
<1>6. req' = [req EXCEPT ![r] = new]
  BY <1>2, <1>3 DEF Timeout
<1>7. UNCHANGED <<route, guarded, session, record, doc, effects, inFlight>>
  BY DEF Timeout, handlerVars, gateVars
<1>8. /\ req' \in [Requests -> Request]
      /\ req'[r] = new
      /\ \A s \in Requests \ {r} : req'[s] = req[s]
  BY <1>1, <1>5, <1>6, OneRequest
<1>9. ReleasesNothing
  BY <1>5, <1>7, <1>8 DEF ReleasesNothing
<1>10. inFlight' \in Nat /\ SlotsExact'
  BY <1>1, <1>9, SlotsFrame DEF TypeOK, ReleasesNothing
<1>11. \A s \in Requests : GoesOn(s) /\ (req[s].released => req'[s].released)
  BY <1>2, <1>5, <1>8 DEF GoesOn
<1> QED BY <1>7, <1>8, <1>10, <1>11, StopsInv

\* A database error, or the death of the process.
LEMMA FaultInv ==
    ASSUME AInv, NEW r \in Requests, Fault(r)
    PROVE  AInv'
<1>1. /\ req[r].pc \in Steps /\ Ends(r, "internal")
      /\ UNCHANGED <<route, guarded, session, record, doc, effects, inFlight>>
  BY DEF Fault, Running, gateVars, handlerVars
<1> QED BY <1>1, FailsInv DEF Replies

LEMMA CrashInv ==
    ASSUME AInv, Crash
    PROVE  AInv'
<1>1. TypeOK /\ Shapes
  BY DEF AInv
<1>2. /\ inFlight' = 0
      /\ UNCHANGED <<route, guarded, session, record, doc, effects>>
  BY DEF Crash, handlerVars
<1>3. ASSUME NEW s \in Requests
      PROVE  req'[s] \in Request /\ req'[s].released /\ (GoesOn(s) \/ Stops(s))
  <2>1. req[s] \in Request /\ Shape(s)
    BY <1>1 DEF TypeOK, Shapes
  <2>2. PICK e : e = Ended(req[s], "none")
    OBVIOUS
  <2>3. /\ e \in Request /\ e.pc = "end" /\ e.kind = req[s].kind /\ e.late = req[s].late
        /\ e.reply \in {"none", req[s].reply}
        /\ e.reply = "ok" => e.key = req[s].key /\ e.body = req[s].body
    BY <2>1, <2>2, EndedEffect DEF Replies
  <2>4. PICK f : f = [e EXCEPT !.response = "closed", !.released = TRUE]
    OBVIOUS
  <2>5. /\ f \in Request /\ f.released /\ f.pc = e.pc /\ f.kind = e.kind /\ f.late = e.late
        /\ f.reply = e.reply /\ f.key = e.key /\ f.body = e.body
    BY <2>3, <2>4 DEF Request
  <2>6. req'[s] = IF req[s].pc = "idle" THEN req[s] ELSE f
    BY <2>2, <2>4 DEF Crash
  <2>7. CASE req[s].pc = "idle"
    BY <2>1, <2>6, <2>7 DEF GoesOn, Shape
  <2>8. CASE req[s].pc # "idle"
    BY <2>3, <2>5, <2>6, <2>8 DEF Stops
  <2> QED BY <2>7, <2>8
<1>4. req' \in [Requests -> Request]
  BY <1>3 DEF Crash
<1>5. inFlight' \in Nat /\ SlotsExact'
  <2>1. {s \in Requests : ~req'[s].released} = {}
    BY <1>3
  <2>2. Cardinality({s \in Requests : ~req'[s].released}) = 0
    <3>1. Cardinality({}) = 0
      BY FS_EmptySet
    <3> QED BY <2>1, <3>1
  <2>3. 0 \in Nat /\ 0 <= Limit
    BY LimitAssumption
  <2> QED BY <1>2, <2>2, <2>3 DEF SlotsExact
<1> QED BY <1>2, <1>3, <1>4, <1>5, StopsInv

LEMMA WindowPassesInv ==
    ASSUME AInv, UNCHANGED <<route, guarded, req, inFlight, session, record, doc, effects>>
    PROVE  AInv'
<1>1. TypeOK /\ SlotsExact
  BY DEF AInv
<1>2. \A s \in Requests : GoesOn(s)
  BY DEF GoesOn
<1>3. SlotsExact'
  BY <1>1 DEF SlotsExact
<1> QED BY <1>1, <1>2, <1>3, StopsInv DEF TypeOK

----------------------------------------------------------------------------
(* Arrival, account sessions, and the steps before a record.               *)

\* What a request does that neither has a record nor gets one leaves the keys
\* alone.
LEMMA KeysFrame ==
    ASSUME AInv, NEW r \in Requests,
           \A s \in Requests \ {r} : req'[s] = req[s],
           ~Owns(r), ~Owns(r)', req'[r].pc # "commit",
           route = "complete" /\ guarded /\ req'[r].pc \in {"find", "insert"} => req'[r].seen = 1,
           req'[r].kind = "mutate" /\ req'[r].reply = "ok" =>
               IF route = "complete" THEN doc.done
               ELSE effects[req'[r].key] = 1 /\ record[req'[r].key].body = req'[r].body,
           UNCHANGED <<route, guarded, record, doc, effects>>
    PROVE  /\ OwnersHold' /\ RecordsHold' /\ VersionsHold'
           /\ EffectOnce' /\ SuccessHasEffect'
<1> USE DEF AInv
<1>1. \A s \in Requests : Owns(s)' <=> Owns(s)
  BY DEF Owns
<1>2. \A s \in Requests : Owns(s) => req'[s] = req[s]
  OBVIOUS
<1>3. OwnersHold'
  BY <1>1, <1>2 DEF OwnersHold
<1>4. RecordsHold' /\ EffectOnce'
  BY DEF RecordsHold, EffectOnce
<1>5. VersionsHold'
  BY DEF VersionsHold
<1>6. SuccessHasEffect'
  BY DEF SuccessHasEffect
<1> QED BY <1>3, <1>4, <1>5, <1>6

\* The overload guard counts the request it admits.
LEMMA ArriveInv ==
    ASSUME AInv, NEW r \in Requests, NEW kind \in {"login", "logout", "mutate"},
           NEW k \in Keys \cup {None}, NEW b \in Bodies \cup {None}, NEW t \in Tokens,
           NEW flaw \in {"none", "origin", "csrf"}, Arrive(r, kind, k, b, t, flaw),
           kind = "mutate" => k \in Keys /\ b \in Bodies,
           route = "complete" => kind = "mutate" /\ t = Cookie
    PROVE  AInv'
<1>1. TypeOK
  BY DEF AInv
<1>2. /\ req' \in [Requests -> Request]
      /\ \A s \in Requests \ {r} : req'[s] = req[s]
      /\ req'[r].kind = kind /\ req'[r].reply # "ok"
      /\ req'[r].late <=> session[t] = "revoked"
      /\ req'[r].pc # "end" => /\ req'[r].pc = FirstStep(kind)
                               /\ req'[r].key = k /\ req'[r].body = b /\ req'[r].token = t
      /\ \/ req'[r].released /\ inFlight' = inFlight
         \/ ~req'[r].released /\ inFlight < Limit /\ inFlight' = inFlight + 1
  <2>1. PICK late \in BOOLEAN : late <=> session[t] = "revoked"
    OBVIOUS
  <2>2. late = (session[t] = "revoked")
    BY <2>1
  <2>3. PICK q : q = [NoRequest EXCEPT !.kind = kind, !.key = k, !.body = b, !.token = t,
                                       !.flaw = flaw, !.late = session[t] = "revoked"]
    OBVIOUS
  <2>4. NoRequest \in Request /\ NoRequest.released /\ NoRequest.reply = "none"
        /\ NoRequest.response = "none" /\ NoRequest.pc = "idle"
    BY DEF NoRequest, Request, Replies
  <2>5. /\ q \in Request /\ q.kind = kind /\ q.late = late /\ q.released /\ q.reply = "none"
        /\ q.response = "none" /\ q.key = k /\ q.body = b /\ q.token = t
    <3>1. q = [NoRequest EXCEPT !.kind = kind, !.key = k, !.body = b, !.token = t,
                                !.flaw = flaw, !.late = late]
      BY <2>2, <2>3
    <3> QED BY <2>4, <3>1 DEF Request
  <2>6. CASE inFlight >= Limit
    <3>1. PICK e : e = Ended(q, "none")
      OBVIOUS
    <3>2. e \in Request /\ e.pc = "end" /\ e.kind = kind /\ e.late = late /\ e.released
      BY <2>5, <3>1, EndedEffect DEF Replies
    <3>3. PICK new : new = [e EXCEPT !.response = "closed", !.reply = "unavailable"]
      OBVIOUS
    <3>4. /\ new \in Request /\ new.pc = "end" /\ new.kind = kind /\ new.late = late
          /\ new.released /\ new.reply = "unavailable"
      BY <3>2, <3>3 DEF Request, Replies
    <3>5. req' = [req EXCEPT ![r] = new] /\ inFlight' = inFlight
      BY <2>3, <2>6, <3>1, <3>3 DEF Arrive, gateVars
    <3>6. /\ req' \in [Requests -> Request] /\ req'[r] = new
          /\ \A s \in Requests \ {r} : req'[s] = req[s]
      BY <1>1, <3>4, <3>5, OneRequest
    <3> QED BY <2>1, <3>4, <3>5, <3>6
  <2>7. CASE ~(inFlight >= Limit)
    <3>1. PICK a : a = [q EXCEPT !.response = "open", !.released = FALSE]
      OBVIOUS
    <3>2. /\ a \in Request /\ a.kind = kind /\ a.late = late /\ ~a.released /\ a.reply = "none"
          /\ a.response = "open" /\ a.key = k /\ a.body = b /\ a.token = t
      BY <2>5, <3>1 DEF Request
    <3>3. inFlight < Limit /\ inFlight' = inFlight + 1
      BY <1>1, <2>7, LimitAssumption DEF Arrive, TypeOK
    <3>4. CASE RateLimited
      <4>1. PICK new : new = Ended(a, "rate_limited")
        OBVIOUS
      <4>2. /\ new \in Request /\ new.pc = "end" /\ new.kind = kind /\ new.late = late
            /\ ~new.released /\ new.reply = "rate_limited"
        BY <3>2, <4>1, EndedEffect DEF Replies
      <4>3. req' = [req EXCEPT ![r] = new]
        BY <2>3, <2>7, <3>1, <3>4, <4>1 DEF Arrive
      <4>4. /\ req' \in [Requests -> Request] /\ req'[r] = new
            /\ \A s \in Requests \ {r} : req'[s] = req[s]
        BY <1>1, <4>2, <4>3, OneRequest
      <4> QED BY <2>1, <3>3, <4>2, <4>4
    <3>5. CASE ~RateLimited
      <4>1. PICK new : new = [a EXCEPT !.pc = FirstStep(kind)]
        OBVIOUS
      <4>2. FirstStep(kind) \in Steps
        BY DEF FirstStep, Steps
      <4>3. /\ new \in Request /\ new.pc = FirstStep(kind) /\ new.kind = kind /\ new.late = late
            /\ ~new.released /\ new.reply = "none"
            /\ new.key = k /\ new.body = b /\ new.token = t
        BY <3>2, <4>1, <4>2 DEF Request
      <4>4. req' = [req EXCEPT ![r] = new]
        BY <2>3, <2>7, <3>1, <3>5, <4>1 DEF Arrive
      <4>5. /\ req' \in [Requests -> Request] /\ req'[r] = new
            /\ \A s \in Requests \ {r} : req'[s] = req[s]
        BY <1>1, <4>3, <4>4, OneRequest
      <4> QED BY <2>1, <3>3, <4>3, <4>5
    <3> QED BY <3>4, <3>5
  <2> QED BY <2>6, <2>7
<1> USE DEF AInv
<1>3. UNCHANGED <<route, guarded, session, record, doc, effects>>
  BY DEF Arrive, handlerVars
<1>4. /\ req[r].pc = "idle" /\ req[r].released /\ req[r].kind = "none"
      /\ Issued(t)
  BY DEF Arrive, Shapes, Shape
<1>5. /\ kind = "login" => FirstStep(kind) = "loginRevoke"
      /\ kind = "logout" => FirstStep(kind) = "session"
      /\ kind = "mutate" => FirstStep(kind) = IF route = "complete" THEN "read" ELSE "session"
  BY DEF FirstStep
<1>6. session[t] # "none"
  BY <1>4 DEF Issued, SessionsHold
<1>7. SlotsExact' /\ inFlight' \in Nat
  <2> DEFINE held == {s \in Requests : ~req[s].released}
  <2>1. IsFiniteSet(held)
    BY RequestsAssumption, FS_Subset
  <2>2. inFlight = Cardinality(held) /\ inFlight <= Limit /\ inFlight \in Nat
    BY DEF SlotsExact, TypeOK
  <2>3. CASE req'[r].released /\ inFlight' = inFlight
    <3>1. {s \in Requests : ~req'[s].released} = held
      BY <1>2, <1>4, <2>3
    <3> QED BY <2>2, <2>3, <3>1 DEF SlotsExact
  <2>4. CASE ~req'[r].released /\ inFlight < Limit /\ inFlight' = inFlight + 1
    <3>1. {s \in Requests : ~req'[s].released} = held \cup {r}
      BY <1>2, <2>4
    <3>2. r \notin held
      BY <1>4
    <3>3. Cardinality(held \cup {r}) = Cardinality(held) + 1
      BY <2>1, <3>2, FS_AddElement
    <3>4. inFlight' = Cardinality(held \cup {r}) /\ inFlight' <= Limit /\ inFlight' \in Nat
      BY <2>2, <2>4, <3>3, LimitAssumption
    <3> QED BY <3>1, <3>4 DEF SlotsExact
  <2> QED BY <1>2, <2>3, <2>4
<1>8. TypeOK'
  BY <1>2, <1>3, <1>7 DEF TypeOK
<1>9. Shapes'
  <2>1. Shape(r)'
    BY <1>2, <1>3, <1>5 DEF Shape, Steps, Begun
  <2>2. \A s \in Requests \ {r} : Shape(s)'
    BY <1>2, <1>3 DEF Shapes, Shape
  <2> QED BY <2>1, <2>2 DEF Shapes
<1>10. SessionsHold'
  <2>1. session[r] = "none"
    BY <1>4 DEF SessionsHold, TypeOK, Tokens
  <2> QED BY <1>2, <1>3, <1>4, <1>5, <1>6, <2>1 DEF SessionsHold
<1>11. RevokedStaysOut'
  <2>1. route = "complete" => ~req'[r].late
    BY <1>2 DEF SessionsHold
  <2> QED BY <1>2, <1>5, <2>1 DEF RevokedStaysOut
<1>12. /\ OwnersHold' /\ RecordsHold' /\ VersionsHold'
       /\ EffectOnce' /\ SuccessHasEffect'
  <2>1. ~Owns(r)
    BY <1>4 DEF Owns, Begun
  <2>2. req'[r].pc \in {"end", "loginRevoke", "session", "read"}
        /\ (req'[r].pc = "read" => route = "complete")
    BY <1>2, <1>5
  <2>3. ~Owns(r)'
    BY <1>2, <1>3, <2>2 DEF Owns, Begun
  <2> HIDE DEF AInv
  <2> QED BY <1>2, <1>3, <2>1, <2>2, <2>3, KeysFrame
<1> QED BY <1>7, <1>8, <1>9, <1>10, <1>11, <1>12

\* The middleware lets the request pass, or the key is new.
LEMMA PassesInv ==
    ASSUME AInv, NEW r \in Requests, NEW step \in {"member", "find", "insert", "logoutRevoke"},
           Goes(r, step), req[r].pc \in {"session", "member", "find"}, ~req[r].late,
           IF step = "logoutRevoke"
           THEN req[r].kind = "logout" /\ session[req[r].token] # "none"
           ELSE req[r].kind = "mutate",
           route = "complete" /\ guarded /\ step = "insert" => req[r].seen = 1,
           step \in {"member", "find"} => route # "complete",
           UNCHANGED <<route, guarded, session, record, doc, effects, inFlight>>
    PROVE  AInv'
<1>1. TypeOK /\ SlotsExact /\ Shapes /\ SessionsHold /\ RevokedStaysOut
  BY DEF AInv
<1>2. /\ req' \in [Requests -> Request]
      /\ req'[r].pc = step /\ req'[r].kind = req[r].kind
      /\ req'[r].released = req[r].released /\ req'[r].late = req[r].late
      /\ req'[r].key = req[r].key /\ req'[r].body = req[r].body
      /\ req'[r].token = req[r].token /\ req'[r].seen = req[r].seen
      /\ req'[r].reply = req[r].reply
      /\ \A s \in Requests \ {r} : req'[s] = req[s]
  BY <1>1, GoesEffect DEF Steps
<1>3. ReleasesNothing
  BY <1>2 DEF ReleasesNothing
<1>4. TypeOK' /\ SlotsExact'
  BY <1>1, <1>2, <1>3, SlotsFrame DEF TypeOK
<1>5. Shapes'
  <2>1. Shape(r)'
    BY <1>1, <1>2 DEF Shapes, Shape, Steps, Begun
  <2>2. \A s \in Requests \ {r} : Shape(s)'
    BY <1>1, <1>2 DEF Shapes, Shape
  <2> QED BY <2>1, <2>2 DEF Shapes
<1>6. SessionsHold'
  BY <1>1, <1>2 DEF SessionsHold
<1>7. RevokedStaysOut'
  BY <1>1, <1>2 DEF RevokedStaysOut
<1>8. ~Owns(r) /\ ~Owns(r)'
  BY <1>2 DEF Owns, Begun
<1>9. req[r].reply # "ok"
  BY <1>1 DEF Shapes, Shape
<1>10. /\ OwnersHold' /\ RecordsHold' /\ VersionsHold'
       /\ EffectOnce' /\ SuccessHasEffect'
  BY <1>2, <1>8, <1>9, KeysFrame
<1> QED BY <1>4, <1>5, <1>6, <1>7, <1>10 DEF AInv

\* requireOrigin, requireSession and requireCsrf; the membership.
LEMMA RequireInv ==
    ASSUME AInv, NEW r \in Requests, RequireSession(r) \/ RequireMembership(r)
    PROVE  AInv'
<1>1. UNCHANGED <<route, guarded, session, record, doc, effects, inFlight>>
  BY DEF RequireSession, RequireMembership, At, gateVars, handlerVars
<1>2. req[r].pc \in {"session", "member"} /\ ~Owns(r)
  BY DEF RequireSession, RequireMembership, At, Owns, Begun
<1>3. ASSUME NEW answer \in {"invalid", "unauthenticated", "forbidden"}, Ends(r, answer)
      PROVE  AInv'
  <2>1. req[r].pc \in Steps
    BY <1>2 DEF Steps
  <2> QED BY <1>1, <1>2, <1>3, <2>1, FailsInv DEF Replies
<1>4. ASSUME RequireSession(r), Resolves(req[r].token),
             Goes(r, IF req[r].kind = "logout" THEN "logoutRevoke" ELSE "member")
      PROVE  AInv'
  <2>1. req[r].pc = "session"
    BY <1>4 DEF RequireSession, At
  <2>2. session[req[r].token] = "live"
    BY <1>4 DEF Resolves
  <2>3. ~req[r].late /\ req[r].kind \in {"mutate", "logout"}
    BY <2>1, <2>2 DEF AInv, SessionsHold, Shapes, Shape
  <2>4. CASE req[r].kind = "logout"
    BY <1>1, <1>4, <2>1, <2>2, <2>3, <2>4, PassesInv
  <2>5. CASE req[r].kind # "logout"
    <3>1. route # "complete"
      BY <2>1 DEF AInv, Shapes, Shape
    <3> QED BY <1>1, <1>4, <2>1, <2>2, <2>3, <2>5, <3>1, PassesInv
  <2> QED BY <2>4, <2>5
<1>5. ASSUME RequireMembership(r), Goes(r, "find")
      PROVE  AInv'
  <2>1. req[r].pc = "member"
    BY <1>5 DEF RequireMembership, At
  <2>2. ~req[r].late /\ req[r].kind = "mutate"
    BY <2>1 DEF AInv, RevokedStaysOut, Shapes, Shape
  <2>3. route # "complete"
    BY <2>1 DEF AInv, Shapes, Shape
  <2> QED BY <1>1, <1>5, <2>1, <2>2, <2>3, PassesInv
<1> QED BY <1>3, <1>4, <1>5 DEF RequireSession, RequireMembership

\* Sessions are created by their own login and revoked once they are there.
LEMMA AccountInv ==
    ASSUME AInv, NEW r \in Requests, req[r].pc \in {"loginRevoke", "loginCreate", "logoutRevoke"},
           req' \in [Requests -> Request],
           \A s \in Requests \ {r} : req'[s] = req[s],
           req'[r].kind = req[r].kind, req'[r].released = req[r].released,
           req'[r].late = req[r].late,
           \/ req'[r].pc = "end"
           \/ /\ req[r].pc = "loginRevoke" /\ req'[r].pc = "loginCreate"
              /\ req'[r].reply = req[r].reply /\ req'[r].token = req[r].token,
           session' \in [Tokens -> {"none", "live", "revoked"}],
           \A t \in Tokens :
               \/ session'[t] = session[t]
               \/ session'[t] = "revoked" /\ session[t] # "none"
               \/ t = r /\ req[r].pc = "loginCreate" /\ req'[r].pc = "end" /\ session'[t] = "live",
           req[r].kind = "login" /\ req'[r].reply = "ok" => session'[r] # "none",
           UNCHANGED <<route, guarded, record, doc, effects, inFlight>>
    PROVE  AInv'
<1>1. TypeOK /\ SlotsExact /\ Shapes /\ SessionsHold /\ RevokedStaysOut
  BY DEF AInv
<1>2. ReleasesNothing
  BY DEF ReleasesNothing
<1>3. TypeOK' /\ SlotsExact'
  BY <1>1, <1>2, SlotsFrame DEF TypeOK
<1>4. /\ req[r].reply # "ok" /\ req[r].kind \in {"login", "logout"}
      /\ req[r].token \in Tokens
      /\ req[r].pc = "loginCreate" => req[r].kind = "login"
      /\ req[r].pc = "loginRevoke" => req[r].kind = "login"
      /\ req[r].pc = "logoutRevoke" => req[r].kind = "logout"
  BY <1>1 DEF Shapes, Shape, Steps
<1>5. Shapes'
  <2>1. Shape(r)'
    BY <1>4 DEF Shape, Steps, Begun
  <2>2. \A s \in Requests \ {r} : Shape(s)'
    BY <1>1 DEF Shapes, Shape
  <2> QED BY <2>1, <2>2 DEF Shapes
<1>6. route # "complete"
  BY <1>1, <1>4 DEF SessionsHold
<1>7. \A t \in Tokens :
         /\ session[t] # "none" => session'[t] # "none"
         /\ session[t] = "revoked" => session'[t] = "revoked"
         /\ session'[t] # "none" => session[t] # "none" \/ (t = r /\ req'[r].pc = "end")
  <2>1. req[r].pc # "end" => session[r] = "none"
    BY <1>1 DEF SessionsHold
  <2> QED BY <1>1, <2>1 DEF TypeOK
<1>8. SessionsHold'
  <2>1. Cookie \in Tokens /\ \A s \in Requests : s \in Tokens
    BY DEF Tokens
  <2>2. session'[Cookie] # "none"
    BY <1>1, <1>7, <2>1 DEF SessionsHold
  <2>3. ASSUME NEW s \in Requests
        PROVE  /\ session'[s] # "none" => req'[s].kind = "login" /\ req'[s].pc = "end"
               /\ req'[s].kind = "login" /\ req'[s].reply = "ok" => session'[s] # "none"
               /\ req'[s].pc = "loginRevoke" => session'[req'[s].token] # "none"
               /\ req'[s].pc = "logoutRevoke" => session'[req'[s].token] # "none"
               /\ req'[s].late /\ req'[s].pc = "session" => session'[req'[s].token] = "revoked"
    <3>1. CASE s = r
      <4>1. session'[r] # "none" => req'[r].kind = "login" /\ req'[r].pc = "end"
        <5>1. session[r] # "none" => FALSE
          BY <1>1 DEF SessionsHold
        <5>2. session'[r] # "none" => req'[r].pc = "end" /\ req[r].pc = "loginCreate"
          BY <2>1, <5>1
        <5> QED BY <1>4, <5>2
      <4> QED BY <3>1, <4>1
    <3>2. CASE s # r
      <4>1. req[s].pc \in Steps => req[s].token \in Tokens
        BY <1>1 DEF Shapes, Shape
      <4> QED BY <1>1, <1>7, <2>1, <3>2, <4>1 DEF SessionsHold, Steps
    <3> QED BY <3>1, <3>2
  <2> QED BY <1>6, <2>2, <2>3 DEF SessionsHold
<1>9. RevokedStaysOut'
  BY <1>1, <1>4 DEF RevokedStaysOut
<1>10. ~Owns(r) /\ ~Owns(r)'
  BY DEF Owns, Begun
<1>11. /\ OwnersHold' /\ RecordsHold' /\ VersionsHold'
       /\ EffectOnce' /\ SuccessHasEffect'
  BY <1>4, <1>10, KeysFrame
<1> QED BY <1>3, <1>5, <1>8, <1>9, <1>11 DEF AInv

\* loginAccountUser, logoutAccountUser and revokeAccountSession.
LEMMA AccountStepInv ==
    ASSUME AInv, NEW r \in Requests,
           \/ LoginRevoke(r) \/ LoginRefused(r) \/ LoginCreate(r) \/ LogoutRevoke(r)
           \/ \E t \in Tokens : RevokeAccountSession(r, t)
    PROVE  AInv'
<1>1. TypeOK /\ SessionsHold /\ Shapes
  BY DEF AInv
<1>2. UNCHANGED <<route, guarded, record, doc, effects, inFlight>>
  BY DEF LoginRevoke, LoginRefused, LoginCreate, LogoutRevoke, RevokeAccountSession, At,
         gateVars, handlerVars
<1>3. /\ req[r].pc \in {"loginRevoke", "loginCreate", "logoutRevoke"}
      /\ req[r].pc \in Steps /\ ~Owns(r)
  BY DEF LoginRevoke, LoginRefused, LoginCreate, LogoutRevoke, RevokeAccountSession, At,
         Steps, Owns, Begun
<1>4. req[r].token \in Tokens /\ r \in Tokens
  BY <1>1, <1>3 DEF Shapes, Shape, Tokens
<1>5. CASE LoginRevoke(r)
  <2>1. Goes(r, "loginCreate") /\ req[r].pc = "loginRevoke"
    BY <1>5 DEF LoginRevoke, At
  <2>2. /\ req' \in [Requests -> Request]
        /\ req'[r].pc = "loginCreate" /\ req'[r].kind = req[r].kind
        /\ req'[r].released = req[r].released /\ req'[r].late = req[r].late
        /\ req'[r].token = req[r].token /\ req'[r].reply = req[r].reply
        /\ \A s \in Requests \ {r} : req'[s] = req[s]
    BY <1>1, <2>1, GoesEffect DEF Steps
  <2>3. req[r].reply # "ok"
    BY <1>1, <2>1 DEF Shapes, Shape
  <2>4. /\ session' \in [Tokens -> {"none", "live", "revoked"}]
        /\ \A t \in Tokens : \/ session'[t] = session[t]
                             \/ session'[t] = "revoked" /\ session[t] # "none"
    BY <1>1, <1>4, <1>5 DEF LoginRevoke, Revoked, TypeOK
  <2> QED BY <1>2, <2>1, <2>2, <2>3, <2>4, AccountInv
<1>6. CASE LoginRefused(r)
  <2>1. Ends(r, "unauthenticated") /\ UNCHANGED session
    BY <1>6 DEF LoginRefused, handlerVars
  <2> QED BY <1>2, <1>3, <2>1, FailsInv DEF Replies
<1>7. ASSUME NEW answer \in {"ok", "unauthenticated"}, Ends(r, answer),
             session' \in [Tokens -> {"none", "live", "revoked"}],
             \A t \in Tokens :
                 \/ session'[t] = session[t]
                 \/ session'[t] = "revoked" /\ session[t] # "none"
                 \/ t = r /\ req[r].pc = "loginCreate" /\ session'[t] = "live",
             req[r].kind = "login" => session'[r] # "none"
      PROVE  AInv'
  <2>1. /\ req' \in [Requests -> Request]
        /\ req'[r].pc = "end" /\ req'[r].kind = req[r].kind
        /\ req'[r].released = req[r].released /\ req'[r].late = req[r].late
        /\ \A s \in Requests \ {r} : req'[s] = req[s]
    BY <1>1, <1>7, EndsEffect DEF Replies
  <2> QED BY <1>2, <1>3, <1>7, <2>1, AccountInv
<1>8. CASE LoginCreate(r)
  <2>1. Ends(r, "ok") /\ session' = [session EXCEPT ![r] = "live"] /\ req[r].pc = "loginCreate"
    BY <1>8 DEF LoginCreate, Created, At
  <2> QED BY <1>1, <1>4, <1>7, <2>1 DEF TypeOK
<1>9. CASE LogoutRevoke(r)
  <2>1. /\ Ends(r, "ok") /\ session' = [session EXCEPT ![req[r].token] = "revoked"]
        /\ req[r].pc = "logoutRevoke"
    BY <1>9 DEF LogoutRevoke, Revoked, At
  <2>2. session[req[r].token] # "none" /\ req[r].kind = "logout"
    BY <1>1, <2>1 DEF SessionsHold, Shapes, Shape
  <2> QED BY <1>1, <1>4, <1>7, <2>1, <2>2 DEF TypeOK
<1>10. ASSUME NEW t \in Tokens, RevokeAccountSession(r, t)
       PROVE  AInv'
  <2>1. req[r].pc = "logoutRevoke"
    BY <1>10 DEF RevokeAccountSession, At
  <2>2. req[r].kind = "logout"
    BY <1>1, <2>1 DEF Shapes, Shape
  <2>3. CASE Ends(r, "unauthenticated") /\ UNCHANGED session
    BY <1>1, <1>7, <2>2, <2>3 DEF TypeOK
  <2>4. CASE /\ session[t] # "none" /\ Ends(r, "ok")
             /\ session' = [session EXCEPT ![t] = "revoked"]
    BY <1>1, <1>7, <2>2, <2>4 DEF TypeOK
  <2> QED BY <1>10, <2>3, <2>4 DEF RevokeAccountSession, Revoked
<1> QED BY <1>5, <1>6, <1>8, <1>9, <1>10

----------------------------------------------------------------------------
(* replayOrBeginIdempotency and the mutation.                              *)

\* The handler of a mutation leaves slots and sessions alone.
LEMMA MutationFrame ==
    ASSUME AInv, NEW r \in Requests, req[r].pc \in Begun \cup {"find", "insert"},
           req' \in [Requests -> Request],
           \A s \in Requests \ {r} : req'[s] = req[s],
           req'[r].kind = req[r].kind, req'[r].released = req[r].released,
           req'[r].late = req[r].late,
           \/ req'[r].pc = "end"
           \/ /\ req'[r].pc \in Begun \cup {"find", "insert"}
              /\ req'[r].key = req[r].key /\ req'[r].body = req[r].body
              /\ req'[r].token = req[r].token /\ req'[r].reply = req[r].reply,
           record' \in [Keys -> Record \cup {None}],
           doc' \in [version: Nat, done: BOOLEAN],
           effects' \in [Keys -> Nat],
           UNCHANGED <<route, guarded, session, inFlight>>
    PROVE  /\ TypeOK' /\ Shapes' /\ SlotsExact' /\ SessionsHold' /\ RevokedStaysOut'
           /\ req[r].kind = "mutate" /\ req[r].key \in Keys /\ req[r].body \in Bodies
           /\ req[r].reply # "ok" /\ ~req[r].late
<1>1. TypeOK /\ SlotsExact /\ Shapes /\ SessionsHold /\ RevokedStaysOut
  BY DEF AInv
<1>2. ReleasesNothing
  BY DEF ReleasesNothing
<1>3. TypeOK' /\ SlotsExact'
  BY <1>1, <1>2, SlotsFrame DEF TypeOK
<1>4. /\ req[r].reply # "ok" /\ req[r].kind = "mutate" /\ req[r].pc \in Steps
      /\ req[r].key \in Keys /\ req[r].body \in Bodies /\ req[r].token \in Tokens
  BY <1>1 DEF Shapes, Shape, Steps, Begun
<1>5. ~req[r].late
  BY <1>1, <1>4 DEF RevokedStaysOut, Begun
<1>6. Shapes'
  <2>1. Shape(r)'
    BY <1>4, <1>5 DEF Shape, Steps, Begun
  <2>2. \A s \in Requests \ {r} : Shape(s)'
    BY <1>1 DEF Shapes, Shape
  <2> QED BY <2>1, <2>2 DEF Shapes
<1>7. SessionsHold'
  <2>1. session[r] = "none"
    BY <1>1, <1>4 DEF SessionsHold
  <2> QED BY <1>1, <1>4, <2>1 DEF SessionsHold, Begun
<1>8. RevokedStaysOut'
  BY <1>1, <1>5 DEF RevokedStaysOut
<1> QED BY <1>3, <1>4, <1>5, <1>6, <1>7, <1>8

\* An answer that repeats an earlier one: nothing is begun.
LEMMA SucceedsInv ==
    ASSUME AInv, NEW r \in Requests, Ends(r, "ok"), req[r].pc \in {"find", "read"}, ~Owns(r),
           IF route = "complete" THEN doc.done
           ELSE effects[req[r].key] = 1 /\ record[req[r].key].body = req[r].body,
           UNCHANGED <<route, guarded, session, record, doc, effects, inFlight>>
    PROVE  AInv'
<1>1. TypeOK
  BY DEF AInv
<1>2. /\ req' \in [Requests -> Request]
      /\ req'[r].pc = "end" /\ req'[r].kind = req[r].kind
      /\ req'[r].released = req[r].released /\ req'[r].late = req[r].late
      /\ req'[r].reply = "ok" => req'[r].key = req[r].key /\ req'[r].body = req[r].body
      /\ \A s \in Requests \ {r} : req'[s] = req[s]
  BY <1>1, EndsEffect DEF Replies
<1>3. TypeOK' /\ Shapes' /\ SlotsExact' /\ SessionsHold' /\ RevokedStaysOut'
  BY <1>1, <1>2, MutationFrame DEF TypeOK, Begun
<1>4. ~Owns(r)'
  BY <1>2 DEF Owns, Begun
<1>5. /\ OwnersHold' /\ RecordsHold' /\ VersionsHold'
      /\ EffectOnce' /\ SuccessHasEffect'
  BY <1>2, <1>4, KeysFrame
<1> QED BY <1>3, <1>5 DEF AInv

\* A step of the handler to a step under its record.
LEMMA OwnerGoesOn ==
    ASSUME AInv, NEW r \in Requests, req' \in [Requests -> Request],
           \A s \in Requests \ {r} : req'[s] = req[s],
           req'[r].kind = req[r].kind, req'[r].released = req[r].released,
           req'[r].late = req[r].late, req'[r].key = req[r].key, req'[r].body = req[r].body,
           req'[r].token = req[r].token, req'[r].reply = req[r].reply,
           \/ /\ req[r].pc = "find" /\ req'[r].pc = "commit" /\ route = "complete"
              /\ record[req[r].key] # None /\ req'[r].seen = req[r].seen
           \/ /\ req[r].pc = "read" /\ req'[r].pc = "commit" /\ route # "complete"
              /\ guarded => req'[r].seen = 1
           \/ req[r].pc = "notify" /\ req'[r].pc = "answer",
           UNCHANGED <<route, guarded, session, record, doc, effects, inFlight>>
    PROVE  AInv'
<1>1. /\ TypeOK /\ OwnersHold /\ RecordsHold /\ VersionsHold
      /\ EffectOnce /\ SuccessHasEffect
  BY DEF AInv
<1>2. req[r].pc \in Begun \cup {"find", "insert"} /\ req'[r].pc \in Begun \cup {"find", "insert"}
  BY DEF Begun
<1>3. /\ TypeOK' /\ Shapes' /\ SlotsExact' /\ SessionsHold' /\ RevokedStaysOut'
      /\ req[r].reply # "ok"
  BY <1>1, <1>2, MutationFrame DEF TypeOK
<1>4. /\ Owns(r)' /\ \A s \in Requests \ {r} : Owns(s)' <=> Owns(s)
      /\ Owns(r) \/ route = "complete"
      /\ \A s \in Requests : req'[s].key = req[s].key
  BY DEF Owns, Begun
<1>5. OwnersHold'
  <2>1. ASSUME NEW s \in Requests, Owns(s)'
        PROVE  /\ record[req'[s].key] # None
               /\ req'[s].pc \in {"notify", "answer"} => doc.done
               /\ route # "complete" =>
                     /\ record[req'[s].key].body = req'[s].body
                     /\ effects[req'[s].key] = IF req'[s].pc \in {"notify", "answer"} THEN 1 ELSE 0
    <3>1. CASE s = r
      <4>1. Owns(r) => /\ record[req[r].key] # None
                       /\ req[r].pc \in {"notify", "answer"} => doc.done
                       /\ route # "complete" =>
                             /\ record[req[r].key].body = req[r].body
                             /\ effects[req[r].key] =
                                   IF req[r].pc \in {"notify", "answer"} THEN 1 ELSE 0
        BY <1>1 DEF OwnersHold
      <4> QED BY <1>4, <3>1, <4>1 DEF Owns, Begun
    <3>2. CASE s # r
      BY <1>1, <1>4, <2>1, <3>2 DEF OwnersHold
    <3> QED BY <3>1, <3>2
  <2>2. ASSUME route # "complete", NEW s \in Requests, NEW t \in Requests,
               Owns(s)', Owns(t)', req'[s].key = req'[t].key
        PROVE  s = t
    BY <1>1, <1>4, <2>2 DEF OwnersHold
  <2> QED BY <2>1, <2>2 DEF OwnersHold
<1>6. RecordsHold' /\ EffectOnce'
  BY <1>1 DEF RecordsHold, EffectOnce
<1>7. VersionsHold'
  BY <1>1 DEF VersionsHold
<1>8. SuccessHasEffect'
  BY <1>1, <1>3 DEF SuccessHasEffect
<1> QED BY <1>3, <1>5, <1>6, <1>7, <1>8 DEF AInv

LEMMA FindInv ==
    ASSUME AInv, NEW r \in Requests, Find(r)
    PROVE  AInv'
<1>1. /\ TypeOK /\ Shapes /\ RecordsHold /\ VersionsHold /\ RevokedStaysOut
  BY DEF AInv
<1>2. /\ req[r].pc = "find" /\ ~Owns(r) /\ req[r].pc \in Steps
      /\ UNCHANGED <<route, guarded, session, record, doc, effects, inFlight>>
  BY DEF Find, At, gateVars, handlerVars, Owns, Begun, Steps
<1>3. /\ req[r].key \in Keys /\ req[r].kind = "mutate" /\ ~req[r].late
  BY <1>1, <1>2 DEF Shapes, Shape, RevokedStaysOut
<1>4. CASE record[req[r].key] = None /\ Goes(r, "insert")
  <2>1. route = "complete" /\ guarded => req[r].seen = 1
    BY <1>1, <1>2 DEF VersionsHold
  <2> QED BY <1>2, <1>3, <1>4, <2>1, PassesInv
<1>5. CASE Ends(r, "conflict") \/ Ends(r, "in_progress")
  BY <1>2, <1>5, FailsInv DEF Replies
<1>6. CASE /\ record[req[r].key] # None /\ SameRequest(req[r].key, req[r].body)
           /\ record[req[r].key].answered /\ Ends(r, "ok")
  <2>1. IF route = "complete" THEN doc.done
        ELSE effects[req[r].key] = 1 /\ record[req[r].key].body = req[r].body
    BY <1>1, <1>3, <1>6 DEF RecordsHold, SameRequest
  <2> QED BY <1>2, <1>6, <2>1, SucceedsInv
<1>7. CASE record[req[r].key] # None /\ route = "complete" /\ Goes(r, "commit")
  <2>1. /\ req' \in [Requests -> Request]
        /\ req'[r].pc = "commit" /\ req'[r].kind = req[r].kind
        /\ req'[r].released = req[r].released /\ req'[r].late = req[r].late
        /\ req'[r].key = req[r].key /\ req'[r].body = req[r].body
        /\ req'[r].token = req[r].token /\ req'[r].seen = req[r].seen
        /\ req'[r].reply = req[r].reply
        /\ \A s \in Requests \ {r} : req'[s] = req[s]
    BY <1>1, <1>7, GoesEffect DEF Steps
  <2> QED BY <1>2, <1>7, <2>1, OwnerGoesOn
<1> QED BY <1>4, <1>5, <1>6, <1>7 DEF Find

\* The unique index: the record is created once, by one request.
LEMMA InsertInv ==
    ASSUME AInv, NEW r \in Requests, Insert(r)
    PROVE  AInv'
<1>1. /\ TypeOK /\ Shapes /\ OwnersHold /\ RecordsHold /\ VersionsHold
      /\ EffectOnce /\ SuccessHasEffect
  BY DEF AInv
<1>2. /\ req[r].pc = "insert" /\ ~Owns(r) /\ req[r].pc \in Steps
      /\ UNCHANGED <<route, guarded, session, doc, effects, inFlight>>
  BY DEF Insert, At, gateVars, Owns, Begun, Steps
<1>3. CASE Ends(r, "internal") /\ UNCHANGED record
  BY <1>2, <1>3, FailsInv DEF Replies
<1>4. CASE /\ record[req[r].key] = None
           /\ record' = [record EXCEPT ![req[r].key] = [body |-> req[r].body, answered |-> FALSE]]
           /\ Goes(r, IF route = "complete" THEN "commit" ELSE "read")
  <2>1. PICK step \in {"commit", "read"} :
           Goes(r, step) /\ (step = "commit" <=> route = "complete")
    BY <1>4
  <2>2. /\ req' \in [Requests -> Request]
        /\ req'[r].pc = step /\ req'[r].kind = req[r].kind
        /\ req'[r].released = req[r].released /\ req'[r].late = req[r].late
        /\ req'[r].key = req[r].key /\ req'[r].body = req[r].body
        /\ req'[r].token = req[r].token /\ req'[r].seen = req[r].seen
        /\ req'[r].reply = req[r].reply
        /\ \A s \in Requests \ {r} : req'[s] = req[s]
    BY <1>1, <2>1, GoesEffect DEF Steps
  <2>3. req[r].key \in Keys /\ req[r].body \in Bodies /\ req[r].reply # "ok"
    BY <1>1, <1>2 DEF Shapes, Shape
  <2>4. /\ record' \in [Keys -> Record \cup {None}]
        /\ record'[req[r].key] # None
        /\ record'[req[r].key].body = req[r].body /\ ~record'[req[r].key].answered
        /\ \A k \in Keys \ {req[r].key} : record'[k] = record[k]
    <3>1. PICK rec : rec = [body |-> req[r].body, answered |-> FALSE]
      OBVIOUS
    <3>2. rec \in Record /\ rec.body = req[r].body /\ ~rec.answered
      BY <2>3, <3>1 DEF Record
    <3>3. rec # None
      BY <3>2, NoneAssumption DEF Record
    <3> QED BY <1>1, <1>4, <2>3, <3>1, <3>2, <3>3 DEF TypeOK
  <2>5. TypeOK' /\ Shapes' /\ SlotsExact' /\ SessionsHold' /\ RevokedStaysOut'
    BY <1>1, <1>2, <2>2, <2>4, MutationFrame DEF TypeOK, Begun
  <2>6. /\ Owns(r)' /\ \A s \in Requests \ {r} : Owns(s)' <=> Owns(s)
    BY <1>2, <2>1, <2>2 DEF Owns, Begun
  <2>7. \A s \in Requests : Owns(s) => req[s].key \in Keys /\ req[s].key # req[r].key
    BY <1>1, <1>4 DEF OwnersHold, Owns, Begun, Steps, Shapes, Shape
  <2>8. effects[req[r].key] = 0
    BY <1>1, <1>4, <2>3 DEF RecordsHold
  <2>9. OwnersHold'
    <3>1. ASSUME NEW s \in Requests, Owns(s)'
          PROVE  /\ record'[req'[s].key] # None
                 /\ req'[s].pc \in {"notify", "answer"} => doc.done
                 /\ route # "complete" =>
                       /\ record'[req'[s].key].body = req'[s].body
                       /\ effects[req'[s].key] =
                             IF req'[s].pc \in {"notify", "answer"} THEN 1 ELSE 0
      <4>1. CASE s = r
        BY <2>2, <2>4, <2>8, <4>1
      <4>2. CASE s # r
        BY <1>1, <2>2, <2>4, <2>6, <2>7, <3>1, <4>2 DEF OwnersHold
      <4> QED BY <4>1, <4>2
    <3>2. ASSUME route # "complete", NEW s \in Requests, NEW t \in Requests,
                 Owns(s)', Owns(t)', req'[s].key = req'[t].key
          PROVE  s = t
      BY <1>1, <2>2, <2>6, <2>7, <3>2 DEF OwnersHold
    <3> QED BY <1>2, <3>1, <3>2 DEF OwnersHold
  <2>10. RecordsHold'
    BY <1>1, <1>2, <2>4, <2>8 DEF RecordsHold
  <2>11. VersionsHold'
    BY <1>1, <1>2, <2>1, <2>2 DEF VersionsHold
  <2>12. EffectOnce'
    BY <1>1, <1>2 DEF EffectOnce
  <2>13. SuccessHasEffect'
    <3> SUFFICES ASSUME NEW s \in Requests, req'[s].kind = "mutate", req'[s].reply = "ok"
                 PROVE  IF route = "complete" THEN doc.done
                        ELSE effects[req'[s].key] = 1 /\ record'[req'[s].key].body = req'[s].body
      BY <1>2 DEF SuccessHasEffect
    <3>1. s # r /\ req'[s] = req[s]
      BY <2>2, <2>3
    <3>2. IF route = "complete" THEN doc.done
          ELSE effects[req[s].key] = 1 /\ record[req[s].key].body = req[s].body
      BY <1>1, <3>1 DEF SuccessHasEffect
    <3>3. record'[req[s].key] = record[req[s].key] \/ req[s].key = req[r].key
      BY <1>1, <1>4 DEF TypeOK
    <3> QED BY <2>8, <3>1, <3>2, <3>3
  <2> QED BY <2>5, <2>9, <2>10, <2>11, <2>12, <2>13 DEF AInv
<1> QED BY <1>3, <1>4 DEF Insert

LEMMA ReadInv ==
    ASSUME AInv, NEW r \in Requests, Read(r)
    PROVE  AInv'
<1>1. TypeOK /\ Shapes /\ VersionsHold
  BY DEF AInv
<1>2. /\ req[r].pc = "read" /\ req[r].pc \in Steps /\ (Owns(r) <=> route # "complete")
      /\ UNCHANGED <<route, guarded, session, record, doc, effects, inFlight>>
  BY DEF Read, At, gateVars, handlerVars, Owns, Begun, Steps
<1>3. CASE route = "create" /\ Goes(r, "commit")
  <2>1. /\ req' \in [Requests -> Request]
        /\ req'[r].pc = "commit" /\ req'[r].kind = req[r].kind
        /\ req'[r].released = req[r].released /\ req'[r].late = req[r].late
        /\ req'[r].key = req[r].key /\ req'[r].body = req[r].body
        /\ req'[r].token = req[r].token /\ req'[r].seen = req[r].seen
        /\ req'[r].reply = req[r].reply
        /\ \A s \in Requests \ {r} : req'[s] = req[s]
    BY <1>1, <1>3, GoesEffect DEF Steps
  <2>2. ~guarded
    BY <1>1, <1>3 DEF TypeOK
  <2> QED BY <1>2, <1>3, <2>1, <2>2, OwnerGoesOn
<1>4. CASE Ends(r, "conflict")
  BY <1>2, <1>4, FailsInv DEF Replies
<1>5. CASE route = "complete" /\ doc.done /\ Ends(r, "ok")
  BY <1>2, <1>5, SucceedsInv
<1>6. ASSUME ~doc.done,
             req' = [req EXCEPT ![r] =
                        [@ EXCEPT !.seen = doc.version,
                                  !.pc = IF route = "complete" THEN "find" ELSE "commit"]]
      PROVE  AInv'
  <2>1. PICK step \in {"find", "commit"} :
           step = IF route = "complete" THEN "find" ELSE "commit"
    OBVIOUS
  <2>2. PICK new : new = [req[r] EXCEPT !.seen = doc.version, !.pc = step]
    OBVIOUS
  <2>3. req[r] \in Request /\ doc.version \in Nat
    BY <1>1 DEF TypeOK
  <2>4. /\ new \in Request /\ new.pc = step /\ new.seen = doc.version
        /\ new.kind = req[r].kind /\ new.released = req[r].released /\ new.late = req[r].late
        /\ new.key = req[r].key /\ new.body = req[r].body /\ new.token = req[r].token
        /\ new.reply = req[r].reply
    BY <2>2, <2>3 DEF Request, Steps
  <2>5. req' = [req EXCEPT ![r] = new]
    BY <1>6, <2>1, <2>2
  <2>6. /\ req' \in [Requests -> Request] /\ req'[r] = new
        /\ \A s \in Requests \ {r} : req'[s] = req[s]
    BY <1>1, <2>4, <2>5, OneRequest
  <2>7. guarded => doc.version = 1
    BY <1>1, <1>6 DEF VersionsHold
  <2>8. CASE route # "complete"
    BY <1>2, <1>6, <2>1, <2>4, <2>6, <2>7, <2>8, OwnerGoesOn
  <2>9. CASE route = "complete"
    <3>1. req'[r].pc = "find" /\ ~Owns(r) /\ ~Owns(r)'
      BY <1>2, <2>1, <2>4, <2>6, <2>9 DEF Owns, Begun
    <3>2. /\ TypeOK' /\ Shapes' /\ SlotsExact' /\ SessionsHold' /\ RevokedStaysOut'
          /\ req[r].reply # "ok"
      BY <1>1, <1>2, <2>4, <2>6, <3>1, MutationFrame DEF TypeOK, Begun
    <3>3. /\ OwnersHold' /\ RecordsHold' /\ VersionsHold'
          /\ EffectOnce' /\ SuccessHasEffect'
      BY <1>2, <1>6, <2>4, <2>6, <2>7, <3>1, <3>2, KeysFrame
    <3> QED BY <3>2, <3>3 DEF AInv
  <2> QED BY <2>8, <2>9
<1> QED BY <1>3, <1>4, <1>5, <1>6 DEF Read

\* The transaction of the mutation: nobody else has committed under the key
\* or, where the version is compared, on the document.
LEMMA CommitInv ==
    ASSUME AInv, NEW r \in Requests, Commit(r)
    PROVE  AInv'
<1>1. /\ TypeOK /\ Shapes /\ OwnersHold /\ RecordsHold /\ VersionsHold
      /\ EffectOnce /\ SuccessHasEffect
  BY DEF AInv
<1>2. /\ req[r].pc = "commit" /\ Owns(r) /\ req[r].pc \in Steps
      /\ UNCHANGED <<route, guarded, session, record, inFlight>>
  BY DEF Commit, At, gateVars, Owns, Begun, Steps
<1>3. CASE Ends(r, "conflict") /\ UNCHANGED <<effects, doc>>
  BY <1>2, <1>3, FailsInv DEF Replies
<1>4. CASE /\ Wins(r)
           /\ effects' = [effects EXCEPT ![req[r].key] = @ + 1]
           /\ doc' = [version |-> IF guarded THEN doc.version + 1 ELSE doc.version, done |-> TRUE]
           /\ Goes(r, IF route = "send" THEN "notify" ELSE "answer")
  <2>1. PICK step \in {"notify", "answer"} : Goes(r, step)
    BY <1>4
  <2>2. /\ req' \in [Requests -> Request]
        /\ req'[r].pc = step /\ req'[r].kind = req[r].kind
        /\ req'[r].released = req[r].released /\ req'[r].late = req[r].late
        /\ req'[r].key = req[r].key /\ req'[r].body = req[r].body
        /\ req'[r].token = req[r].token /\ req'[r].seen = req[r].seen
        /\ req'[r].reply = req[r].reply
        /\ \A s \in Requests \ {r} : req'[s] = req[s]
    BY <1>1, <2>1, GoesEffect DEF Steps
  <2>3. req[r].key \in Keys /\ req[r].reply # "ok"
    BY <1>1, <1>2 DEF Shapes, Shape, Begun, Steps
  <2>4. /\ effects' \in [Keys -> Nat]
        /\ effects'[req[r].key] = effects[req[r].key] + 1
        /\ \A k \in Keys \ {req[r].key} : effects'[k] = effects[k]
    BY <1>1, <1>4, <2>3 DEF TypeOK
  <2>5. /\ doc' \in [version: Nat, done: BOOLEAN] /\ doc'.done
        /\ doc'.version = IF guarded THEN doc.version + 1 ELSE doc.version
    BY <1>1, <1>4 DEF TypeOK
  <2>6. TypeOK' /\ Shapes' /\ SlotsExact' /\ SessionsHold' /\ RevokedStaysOut'
    BY <1>1, <1>2, <2>2, <2>4, <2>5, MutationFrame DEF TypeOK, Begun
  <2>7. \A s \in Requests : Owns(s)' <=> Owns(s)
    BY <1>2, <2>1, <2>2 DEF Owns, Begun
  <2>8. /\ record[req[r].key] # None
        /\ route # "complete" =>
              effects[req[r].key] = 0 /\ record[req[r].key].body = req[r].body
    BY <1>1, <1>2 DEF OwnersHold
  <2>9. guarded => /\ doc.version = 1 /\ ~doc.done
                   /\ \A k \in Keys : effects[k] = 0
    BY <1>1, <1>2, <1>4 DEF VersionsHold, Wins
  <2>10. OwnersHold'
    <3>1. ASSUME NEW s \in Requests, Owns(s)'
          PROVE  /\ record[req'[s].key] # None
                 /\ route # "complete" =>
                       /\ record[req'[s].key].body = req'[s].body
                       /\ effects'[req'[s].key] =
                             IF req'[s].pc \in {"notify", "answer"} THEN 1 ELSE 0
      <4>1. CASE s = r
        BY <2>1, <2>2, <2>4, <2>8, <4>1
      <4>2. CASE s # r
        <5>1. Owns(s) /\ req'[s] = req[s] /\ req[s].key \in Keys
          BY <1>1, <2>2, <2>7, <3>1, <4>2 DEF Owns, Begun, Steps, Shapes, Shape
        <5>2. route # "complete" => req[s].key # req[r].key
          BY <1>1, <1>2, <4>2, <5>1 DEF OwnersHold
        <5> QED BY <1>1, <2>4, <5>1, <5>2 DEF OwnersHold
      <4> QED BY <4>1, <4>2
    <3>2. ASSUME route # "complete", NEW s \in Requests, NEW t \in Requests,
                 Owns(s)', Owns(t)', req'[s].key = req'[t].key
          PROVE  s = t
      BY <1>1, <2>2, <2>7, <3>2 DEF OwnersHold
    <3> QED BY <1>2, <2>5, <3>1, <3>2 DEF OwnersHold
  <2>11. RecordsHold'
    <3> SUFFICES ASSUME NEW k \in Keys
                 PROVE  /\ route # "complete" => effects'[k] <= 1
                        /\ record[k] = None => effects'[k] = 0
                        /\ record[k] # None /\ record[k].answered =>
                              IF route = "complete" THEN doc'.done ELSE effects'[k] = 1
      BY <1>2 DEF RecordsHold
    <3> QED BY <1>1, <2>4, <2>5, <2>8 DEF RecordsHold
  <2>12. VersionsHold'
    BY <1>1, <1>2, <2>1, <2>2, <2>5, <2>9 DEF VersionsHold
  <2>13. EffectOnce'
    <3>1. route = "create" => \A k \in Keys : effects'[k] <= 1
      BY <1>2, <2>11 DEF RecordsHold
    <3>2. ASSUME guarded, NEW k \in Keys, NEW l \in Keys
          PROVE  effects'[k] + (IF k = l THEN 0 ELSE effects'[l]) <= 1
      <4>1. effects'[req[r].key] = 1 /\ \A x \in Keys \ {req[r].key} : effects'[x] = 0
        BY <2>3, <2>4, <2>9, <3>2
      <4> QED BY <2>3, <4>1
    <3> QED BY <1>2, <3>1, <3>2 DEF EffectOnce
  <2>14. SuccessHasEffect'
    <3> SUFFICES ASSUME NEW s \in Requests, req'[s].kind = "mutate", req'[s].reply = "ok",
                        route # "complete"
                 PROVE  effects'[req'[s].key] = 1 /\ record[req'[s].key].body = req'[s].body
      BY <1>2, <2>5 DEF SuccessHasEffect
    <3>1. s # r /\ req'[s] = req[s]
      BY <2>2, <2>3
    <3>2. effects[req[s].key] = 1 /\ record[req[s].key].body = req[s].body
      BY <1>1, <3>1 DEF SuccessHasEffect
    <3>3. effects'[req[s].key] = effects[req[s].key] \/ req[s].key = req[r].key
      BY <1>1, <1>4 DEF TypeOK
    <3> QED BY <2>8, <3>1, <3>2, <3>3
  <2> QED BY <2>6, <2>10, <2>11, <2>12, <2>13, <2>14 DEF AInv
<1> QED BY <1>3, <1>4 DEF Commit

LEMMA NotifyInv ==
    ASSUME AInv, NEW r \in Requests, Notify(r)
    PROVE  AInv'
<1>1. TypeOK
  BY DEF AInv
<1>2. /\ req[r].pc = "notify" /\ Goes(r, "answer")
      /\ UNCHANGED <<route, guarded, session, record, doc, effects, inFlight>>
  BY DEF Notify, At, gateVars, handlerVars
<1>3. /\ req' \in [Requests -> Request]
      /\ req'[r].pc = "answer" /\ req'[r].kind = req[r].kind
      /\ req'[r].released = req[r].released /\ req'[r].late = req[r].late
      /\ req'[r].key = req[r].key /\ req'[r].body = req[r].body
      /\ req'[r].token = req[r].token /\ req'[r].seen = req[r].seen
      /\ req'[r].reply = req[r].reply
      /\ \A s \in Requests \ {r} : req'[s] = req[s]
  BY <1>1, <1>2, GoesEffect DEF Steps
<1> QED BY <1>2, <1>3, OwnerGoesOn

\* idempotency.complete: the record is answered after its effect.
LEMMA AnswerInv ==
    ASSUME AInv, NEW r \in Requests, Answer(r)
    PROVE  AInv'
<1>1. /\ TypeOK /\ Shapes /\ OwnersHold /\ RecordsHold /\ VersionsHold
      /\ EffectOnce /\ SuccessHasEffect
  BY DEF AInv
<1>2. /\ req[r].pc = "answer" /\ Owns(r) /\ Ends(r, "ok")
      /\ record' = [record EXCEPT ![req[r].key].answered = TRUE]
      /\ UNCHANGED <<route, guarded, session, doc, effects, inFlight>>
  BY DEF Answer, At, gateVars, Owns, Begun
<1>3. /\ req' \in [Requests -> Request]
      /\ req'[r].pc = "end" /\ req'[r].kind = req[r].kind
      /\ req'[r].released = req[r].released /\ req'[r].late = req[r].late
      /\ req'[r].reply = "ok" => req'[r].key = req[r].key /\ req'[r].body = req[r].body
      /\ \A s \in Requests \ {r} : req'[s] = req[s]
  BY <1>1, <1>2, EndsEffect DEF Replies
<1>4. req[r].key \in Keys
  BY <1>1, <1>2 DEF Shapes, Shape, Begun, Steps
<1>5. /\ record[req[r].key] # None /\ doc.done
      /\ route # "complete" =>
            effects[req[r].key] = 1 /\ record[req[r].key].body = req[r].body
  BY <1>1, <1>2 DEF OwnersHold
<1>6. /\ record' \in [Keys -> Record \cup {None}]
      /\ record'[req[r].key] \in Record /\ record'[req[r].key].answered
      /\ record'[req[r].key].body = record[req[r].key].body
      /\ \A k \in Keys \ {req[r].key} : record'[k] = record[k]
  <2>1. record[req[r].key] \in Record
    BY <1>1, <1>4, <1>5 DEF TypeOK
  <2>2. PICK rec : rec = [record[req[r].key] EXCEPT !.answered = TRUE]
    OBVIOUS
  <2>3. rec \in Record /\ rec.answered /\ rec.body = record[req[r].key].body
    BY <2>1, <2>2 DEF Record
  <2>4. record' = [record EXCEPT ![req[r].key] = rec]
    BY <1>2, <2>2
  <2> QED BY <1>1, <1>4, <2>3, <2>4 DEF TypeOK
<1>7. record'[req[r].key] # None
  BY <1>6, NoneAssumption DEF Record
<1>8. TypeOK' /\ Shapes' /\ SlotsExact' /\ SessionsHold' /\ RevokedStaysOut'
  BY <1>1, <1>2, <1>3, <1>6, MutationFrame DEF TypeOK, Begun
<1>9. ~Owns(r)' /\ \A s \in Requests \ {r} : Owns(s)' <=> Owns(s)
  BY <1>2, <1>3 DEF Owns, Begun
<1>10. \A k \in Keys : /\ record'[k] = None <=> record[k] = None
                       /\ record[k] # None => record'[k].body = record[k].body
  BY <1>5, <1>6, <1>7
<1>11. OwnersHold'
  <2>1. ASSUME NEW s \in Requests, Owns(s)'
        PROVE  /\ record'[req'[s].key] # None
               /\ req'[s].pc \in {"notify", "answer"} => doc.done
               /\ route # "complete" =>
                     /\ record'[req'[s].key].body = req'[s].body
                     /\ effects[req'[s].key] =
                           IF req'[s].pc \in {"notify", "answer"} THEN 1 ELSE 0
    <3>1. Owns(s) /\ req'[s] = req[s] /\ req[s].key \in Keys
      BY <1>1, <1>3, <1>9, <2>1 DEF Owns, Begun, Steps, Shapes, Shape
    <3> QED BY <1>1, <1>10, <3>1 DEF OwnersHold
  <2>2. ASSUME route # "complete", NEW s \in Requests, NEW t \in Requests,
               Owns(s)', Owns(t)', req'[s].key = req'[t].key
        PROVE  s = t
    BY <1>1, <1>3, <1>9, <2>2 DEF OwnersHold
  <2> QED BY <1>2, <2>1, <2>2 DEF OwnersHold
<1>12. RecordsHold'
  <2> SUFFICES ASSUME NEW k \in Keys
               PROVE  /\ route # "complete" => effects[k] <= 1
                      /\ record'[k] = None => effects[k] = 0
                      /\ record'[k] # None /\ record'[k].answered =>
                            IF route = "complete" THEN doc.done ELSE effects[k] = 1
    BY <1>2 DEF RecordsHold
  <2> QED BY <1>1, <1>5, <1>6, <1>10 DEF RecordsHold
<1>13. VersionsHold'
  BY <1>1, <1>2, <1>3 DEF VersionsHold
<1>14. EffectOnce'
  BY <1>1, <1>2 DEF EffectOnce
<1>15. SuccessHasEffect'
  <2> SUFFICES ASSUME NEW s \in Requests, req'[s].kind = "mutate", req'[s].reply = "ok",
                      route # "complete"
               PROVE  effects[req'[s].key] = 1 /\ record'[req'[s].key].body = req'[s].body
    BY <1>2, <1>5 DEF SuccessHasEffect
  <2>1. CASE s = r
    BY <1>3, <1>5, <1>6, <2>1
  <2>2. CASE s # r
    <3>1. /\ req'[s] = req[s]
          /\ effects[req[s].key] = 1 /\ record[req[s].key].body = req[s].body
      BY <1>1, <1>3, <2>2 DEF SuccessHasEffect
    <3>2. record'[req[s].key] = record[req[s].key] \/ req[s].key = req[r].key
      BY <1>1, <1>2 DEF TypeOK
    <3> QED BY <1>6, <3>1, <3>2
  <2> QED BY <2>1, <2>2
<1> QED BY <1>8, <1>11, <1>12, <1>13, <1>14, <1>15 DEF AInv

----------------------------------------------------------------------------
(* Every step keeps the invariant.                                         *)

LEMMA ApiInit == Init => AInv
<1> SUFFICES ASSUME Init PROVE AInv
  OBVIOUS
<1> USE DEF Init
<1>1. NoRequest \in Request
  BY DEF NoRequest, Request, Replies
<1>2. TypeOK
  BY <1>1 DEF TypeOK, Routes
<1>3. \A r \in Requests : /\ req[r].pc = "idle" /\ req[r].released /\ req[r].kind = "none"
                          /\ ~req[r].late /\ req[r].reply = "none"
  BY DEF NoRequest
<1>4. Shapes
  BY <1>3 DEF Shapes, Shape, Steps, Begun
<1>5. SlotsExact
  <2>1. {r \in Requests : ~req[r].released} = {}
    BY <1>3
  <2>2. inFlight = 0 /\ Cardinality({}) = 0 /\ 0 <= Limit
    BY FS_EmptySet, LimitAssumption
  <2> QED BY <2>1, <2>2 DEF SlotsExact
<1>6. SessionsHold /\ RevokedStaysOut
  <2>1. /\ session[Cookie] = "live"
        /\ \A r \in Requests : session[r] = "none"
    BY TokenAssumption DEF Tokens
  <2> QED BY <1>3, <2>1 DEF SessionsHold, RevokedStaysOut
<1>7. \A r \in Requests : ~Owns(r)
  BY <1>3 DEF Owns, Begun
<1>8. OwnersHold /\ RecordsHold
  BY <1>7 DEF OwnersHold, RecordsHold
<1>9. VersionsHold
  BY <1>3 DEF VersionsHold
<1>10. EffectOnce /\ SuccessHasEffect
  BY <1>3 DEF EffectOnce, SuccessHasEffect
<1> QED BY <1>2, <1>4, <1>5, <1>6, <1>8, <1>9, <1>10 DEF AInv

LEMMA ArrivalsInv ==
    ASSUME AInv, NEW r \in Requests, Arrivals(r)
    PROVE  AInv'
<1>1. ASSUME route = "complete", NEW k \in Keys, NEW b \in Bodies,
             Arrive(r, "mutate", k, b, Cookie, "none")
      PROVE  AInv'
  <2>1. Cookie \in Tokens
    BY DEF Tokens
  <2> QED BY <1>1, <2>1, ArriveInv
<1>2. ASSUME route # "complete", NEW t \in Tokens, NEW k \in Keys, NEW b \in Bodies,
             NEW flaw \in Flaws, Arrive(r, "mutate", k, b, t, flaw)
      PROVE  AInv'
  <2>1. flaw \in {"none", "origin", "csrf"}
    BY FlawAssumption
  <2> QED BY <1>2, <2>1, ArriveInv
<1>3. ASSUME route # "complete", NEW t \in Tokens, NEW kind \in {"login", "logout"},
             Arrive(r, kind, None, None, t, "none")
      PROVE  AInv'
  BY <1>3, ArriveInv
<1> QED BY <1>1, <1>2, <1>3 DEF Arrivals

LEMMA ApiNext == AInv /\ [Next]_vars => AInv'
<1> SUFFICES ASSUME AInv, [Next]_vars PROVE AInv'
  OBVIOUS
<1>1. ASSUME NEW r \in Requests, Handler(r)
      PROVE  AInv'
  <2>1. CASE RequireSession(r) \/ RequireMembership(r)
    BY <2>1, RequireInv
  <2>2. CASE \/ LoginRevoke(r) \/ LoginRefused(r) \/ LoginCreate(r) \/ LogoutRevoke(r)
             \/ \E t \in Tokens : RevokeAccountSession(r, t)
    BY <2>2, AccountStepInv
  <2>3. CASE Find(r) \/ Insert(r) \/ Read(r)
    BY <2>3, FindInv, InsertInv, ReadInv
  <2>4. CASE Commit(r) \/ Notify(r) \/ Answer(r)
    BY <2>4, CommitInv, NotifyInv, AnswerInv
  <2> QED BY <1>1, <2>1, <2>2, <2>3, <2>4 DEF Handler
<1>2. ASSUME NEW r \in Requests, Finish(r) \/ Close(r) \/ HangUp(r)
      PROVE  AInv'
  <2>1. PICK state \in {"finished", "closed"} : req[r].response # "none" /\ Settle(r, state)
    BY <1>2 DEF Finish, Close, HangUp
  <2> QED BY <2>1, SettleInv
<1>3. CASE WindowPasses \/ UNCHANGED vars
  <2>1. UNCHANGED <<route, guarded, req, inFlight, session, record, doc, effects>>
    BY <1>3 DEF WindowPasses, vars, handlerVars
  <2> QED BY <2>1, WindowPassesInv
<1> QED BY <1>1, <1>2, <1>3, ArrivalsInv, FaultInv, TimeoutInv, CrashInv DEF Next

----------------------------------------------------------------------------
(* Theorems.                                                               *)

\* The inductive invariant holds in every reachable state.
THEOREM ApiInvariant == Spec => []AInv
BY ApiInit, ApiNext, PTL DEF Spec

\* The overload guard's counter is the number of admitted requests whose
\* response is not settled, and never exceeds API_MAX_CONCURRENT_REQUESTS.
THEOREM ApiSlotsExact == Spec => []SlotsExact
<1>1. AInv => SlotsExact
  BY DEF AInv
<1> QED BY <1>1, ApiInvariant, PTL

\* A draft, a send or a void takes effect once under its key, and a mutation
\* that compares the document's version takes effect once under all of them.
THEOREM ApiEffectOnce == Spec => []EffectOnce
<1>1. AInv => EffectOnce
  BY DEF AInv
<1> QED BY <1>1, ApiInvariant, PTL

\* Who is told of a success sent the body that took effect.
THEOREM ApiSuccessHasEffect == Spec => []SuccessHasEffect
<1>1. AInv => SuccessHasEffect
  BY DEF AInv
<1> QED BY <1>1, ApiInvariant, PTL

\* A request that comes with a revoked session stays outside.
THEOREM ApiRevokedStaysOut == Spec => []RevokedStaysOut
<1>1. AInv => RevokedStaysOut
  BY DEF AInv
<1> QED BY <1>1, ApiInvariant, PTL
=============================================================================

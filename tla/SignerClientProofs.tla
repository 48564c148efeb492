------------------------- MODULE SignerClientProofs -------------------------
(***************************************************************************)
(* Proofs about SignerClient for every number of loads, submits, captures, *)
(* drawings, lost requests and reloads.                                    *)
(***************************************************************************)
EXTENDS SignerClient, TLAPS

----------------------------------------------------------------------------
(* The inductive invariant.                                                *)

Images == {"none", "reviewed", "other"}
Rows == {"open", "completed", "ended", "closed"}

Call == [at: {"idle", "exchange", "session", "workspace", "consent", "decline", "complete", "wait"},
         sent: {"none"} \cup Rows,
         answer: {"none", "ok", "agreed", "signed", "declined", "pending", "accepted",
                  "auth", "refused", "network"},
         image: Images]

Server == [link: Rows, consumed: BOOLEAN,
           signer: {"pending", "signed", "declined"}, last: BOOLEAN, agreed: BOOLEAN,
           image: Images]

Ref == [token: BOOLEAN, had: BOOLEAN, key: BOOLEAN, capture: Nat, shown: Nat, retry: BOOLEAN]

Review == [at: {"idle", "capture", "preview", "done"}, ink: Nat]

PageTypeOK ==
    /\ ink \in Nat /\ ref \in Ref
    /\ review \in [Reviews -> Review]

TypeOK ==
    /\ PageTypeOK
    /\ call \in [Tasks -> Call]
    /\ late \subseteq {c \in Call : c.at \in Mutations}
    /\ server \in Server

\* A signer who has signed or declined has no open session any more.
SessionHolds(s) ==
    /\ s.signer = "signed" => s.link # "open"
    /\ s.signer = "declined" => s.link = "closed"

Good(c) == c.answer \notin {"none", "auth", "refused", "network"}

\* What an answer that has arrived says stays true; so does what a request may
\* have found when it was sent.
AnswerHolds(c) ==
    /\ c.at # "idle" /\ c.answer = "none" /\ c.sent # "open" =>
           server.link # "open" \/ (c.at = "exchange" /\ server.consumed)
    /\ c.at = "session" /\ c.answer \in {"signed", "declined"} => server.signer = c.answer
    /\ c.at = "exchange" /\ Good(c) => cookie
    /\ c.at = "complete" /\ Good(c) => server.signer = "signed"
    /\ c.at = "wait" => server.signer = "signed"
    /\ c.at = "decline" /\ Good(c) => server.signer = "declined"

AnswersHold == \A t \in Tasks : AnswerHolds(call[t])

\* The page has its cookie, or it was opened without a link and gets none.
Settled == cookie \/ (~ref.token /\ \A t \in Tasks : call[t].at # "exchange")

PageSettled ==
    /\ ~ref.token \/ consent # "none" \/ armed => Settled
    /\ \A t \in Tasks : call[t].at \notin {"idle", "exchange"} => Settled

\* No session of this page will ever work again, or the used link was offered.
Dead ==
    \/ reused \/ server.link # "open"
    \/ ~cookie /\ (server.consumed \/ Settled)

DeadEnds ==
    /\ \A t \in Tasks : call[t].answer = "auth" => Dead
    /\ screen \in {"revoked", "unavailable"} => Dead

\* An image that was not reviewed comes from a capture that crossed another one
\* or a submit.
ImagesHold ==
    /\ \A t \in Tasks : call[t].image = "other" => crossed
    /\ \A c \in late : c.image = "other" => crossed
    /\ server.image = "other" => crossed

Running(v) == review[v].at \in {"capture", "preview"}

\* Without a crossing one capture runs, and what is captured is or will be shown.
CapturesHold ==
    ~crossed =>
        /\ \A v, w \in Reviews : Running(v) /\ Running(w) => v = w
        /\ \A v \in Reviews : review[v].at = "preview" => ref.capture \in {0, review[v].ink}
        /\ (\A v \in Reviews : review[v].at # "preview") => ref.capture \in {0, ref.shown}

CInv ==
    /\ TypeOK /\ SessionHolds(server) /\ AnswersHold /\ OutcomeIsTrue
    /\ PageSettled /\ DeadEnds /\ ImagesHold /\ CapturesHold /\ WipedAtTheEnd

----------------------------------------------------------------------------
(* The API.                                                                *)

\* What a use case does to the signer's session, and what its answer means.
LEMMA UseCaseEffect ==
    ASSUME NEW s \in Server, SessionHolds(s), NEW c \in Call, c.at # "idle",
           NEW h \in UseCase(s, c)
    PROVE  /\ h.server \in Server /\ SessionHolds(h.server)
           /\ h.answer \in {"ok", "agreed", "signed", "declined", "pending", "accepted", "refused"}
           /\ s.signer # "pending" => h.server.signer = s.signer
           /\ s.link # "open" => h.server.link # "open"
           /\ s.consumed => h.server.consumed
           /\ c.at = "exchange" => h.answer \in {"ok", "refused"} /\ (h.answer = "ok" => ~s.consumed)
           /\ c.at = "session" /\ h.answer \in {"signed", "declined"} => h.server.signer = h.answer
           /\ c.at = "complete" /\ h.answer # "refused" => h.server.signer = "signed"
           /\ c.at = "decline" /\ h.answer # "refused" => h.server.signer = "declined"
           /\ h.server.image \in {s.image, c.image}
<1> USE DEF Reply, SessionHolds
<1>1. CASE c.at = "exchange"
  <2>1. h = ExchangeSigningToken(s)
    BY <1>1 DEF UseCase
  <2>2. PICK n : n = [s EXCEPT !.consumed = TRUE]
    OBVIOUS
  <2>3. /\ n \in Server /\ n.link = s.link /\ n.consumed = TRUE /\ n.signer = s.signer
        /\ n.last = s.last /\ n.agreed = s.agreed /\ n.image = s.image
    BY <2>2 DEF Server
  <2>4. h = IF s.consumed \/ s.link # "open" THEN Reply(s, "refused") ELSE Reply(n, "ok")
    BY <2>1, <2>2 DEF ExchangeSigningToken
  <2> QED BY <1>1, <2>3, <2>4
<1>2. CASE c.at \in {"session", "wait"}
  <2>1. h = GetSignerSession(s)
    BY <1>2 DEF UseCase
  <2> QED BY <1>2, <2>1 DEF GetSignerSession, Server
<1>3. CASE c.at = "workspace"
  <2>1. h = GetWorkspace(s)
    BY <1>3 DEF UseCase
  <2> QED BY <1>3, <2>1 DEF GetWorkspace
<1>4. CASE c.at = "consent"
  <2>1. h = RecordSignerConsent(s)
    BY <1>4 DEF UseCase
  <2>2. PICK n : n = [s EXCEPT !.agreed = TRUE]
    OBVIOUS
  <2>3. /\ n \in Server /\ n.link = s.link /\ n.consumed = s.consumed /\ n.signer = s.signer
        /\ n.last = s.last /\ n.agreed = TRUE /\ n.image = s.image
    BY <2>2 DEF Server
  <2>4. h = Reply(n, "ok")
    BY <2>1, <2>2 DEF RecordSignerConsent
  <2> QED BY <1>4, <2>3, <2>4
<1>5. CASE c.at = "decline"
  <2>1. h = DeclineToSign(s)
    BY <1>5 DEF UseCase
  <2>2. PICK n : n = [s EXCEPT !.signer = "declined", !.link = "closed"]
    OBVIOUS
  <2>3. /\ n \in Server /\ n.link = "closed" /\ n.consumed = s.consumed /\ n.signer = "declined"
        /\ n.last = s.last /\ n.agreed = s.agreed /\ n.image = s.image
    BY <2>2 DEF Server, Rows
  <2>4. \/ h = Reply(s, "refused")
        \/ s.signer = "pending" /\ h = Reply(n, "ok")
    BY <2>1, <2>2 DEF DeclineToSign
  <2> QED BY <1>5, <2>3, <2>4
<1>6. CASE c.at = "complete"
  <2>1. h \in CompleteSigning(s, c)
    BY <1>6 DEF UseCase
  <2>2. CASE s.signer = "signed"
    <3>1. PICK last \in BOOLEAN : h = CompleteAnswer(s, last)
      BY <2>1, <2>2 DEF CompleteSigning, Server
    <3>2. PICK n : n = [s EXCEPT !.last = last]
      OBVIOUS
    <3>3. /\ n \in Server /\ n.link = s.link /\ n.consumed = s.consumed /\ n.signer = s.signer
          /\ n.image = s.image
      BY <3>2 DEF Server
    <3>4. PICK a \in {"accepted", "pending"} : h = Reply(n, a)
      BY <3>1, <3>2 DEF CompleteAnswer
    <3> QED BY <1>6, <2>2, <3>3, <3>4
  <2>3. CASE s.signer # "signed" /\ (s.link # "open" \/ ~s.agreed \/ c.image = "none")
    <3>1. h = Reply(s, "refused")
      BY <2>1, <2>3 DEF CompleteSigning
    <3> QED BY <1>6, <3>1
  <2>4. CASE s.signer # "signed" /\ ~(s.link # "open" \/ ~s.agreed \/ c.image = "none")
    <3>1. PICK m : m = [s EXCEPT !.signer = "signed", !.link = "completed", !.image = c.image]
      OBVIOUS
    <3>2. /\ m \in Server /\ m.link = "completed" /\ m.consumed = s.consumed
          /\ m.signer = "signed" /\ m.image = c.image
      BY <3>1 DEF Server, Rows, Call
    <3>3. PICK last \in BOOLEAN : h = CompleteAnswer(m, last)
      BY <2>1, <2>4, <3>1 DEF CompleteSigning
    <3>4. PICK n : n = [m EXCEPT !.last = last]
      OBVIOUS
    <3>5. /\ n \in Server /\ n.link = "completed" /\ n.consumed = s.consumed
          /\ n.signer = "signed" /\ n.image = c.image
      BY <3>2, <3>4 DEF Server
    <3>6. PICK a \in {"accepted", "pending"} : h = Reply(n, a)
      BY <3>3, <3>4 DEF CompleteAnswer
    <3>7. s.signer = "pending"
      BY <2>4 DEF Server
    <3> QED BY <1>6, <3>5, <3>6, <3>7
  <2> QED BY <2>2, <2>3, <2>4
<1> QED BY <1>1, <1>2, <1>3, <1>4, <1>5, <1>6 DEF Call

\* The same for the whole handler.  It refuses the session only for a row that
\* was not open, when the request was sent or later.
LEMMA ApiEffect ==
    ASSUME NEW s \in Server, SessionHolds(s), NEW c \in Call, c.at # "idle",
           NEW h \in Api(s, c)
    PROVE  /\ h.server \in Server /\ SessionHolds(h.server)
           /\ h.answer \in {"ok", "agreed", "signed", "declined", "pending", "accepted",
                            "auth", "refused"}
           /\ s.signer # "pending" => h.server.signer = s.signer
           /\ s.link # "open" => h.server.link # "open"
           /\ s.consumed => h.server.consumed
           /\ h.answer = "auth" => /\ h.server = s
                                   /\ \/ c.sent # "open" \/ s.link # "open"
                                      \/ c.at = "exchange" /\ s.consumed
           /\ c.at = "exchange" => h.answer \in {"ok", "auth", "refused"}
           /\ c.at = "exchange" /\ h.answer = "ok" => ~s.consumed
           /\ c.at = "session" /\ h.answer \in {"signed", "declined"} => h.server.signer = h.answer
           /\ c.at = "complete" /\ h.answer \notin {"auth", "refused"} => h.server.signer = "signed"
           /\ c.at = "decline" /\ h.answer \notin {"auth", "refused"} => h.server.signer = "declined"
           /\ h.server.image \in {s.image, c.image}
<1>1. PICK row \in {c.sent, Row(s, c.at)} : h \in Loaded(s, c, row)
  BY DEF Api
<1>2. CASE h \in UseCase(s, c)
  BY <1>2, UseCaseEffect
<1>3. CASE h = Reply(s, "refused")
  BY <1>3 DEF Reply
<1>4. CASE h = Reply(s, "auth") /\ row # "open"
  <2>1. row # Row(s, c.at) \/ s.link # "open" \/ (c.at = "exchange" /\ s.consumed)
    BY <1>4 DEF Row
  <2> QED BY <1>1, <1>4, <2>1 DEF Reply
<1>5. h \in UseCase(s, c) \/ h = Reply(s, "refused") \/ (h = Reply(s, "auth") /\ row # "open")
  <2>1. CASE row = "open"
    BY <1>1, <2>1 DEF Loaded
  <2>2. CASE row = "completed" /\ c.at = "complete"
    BY <1>1, <2>2 DEF Loaded
  <2>3. CASE row # "open" /\ ~(row = "completed" /\ c.at = "complete")
    BY <1>1, <2>3 DEF Loaded
  <2> QED BY <2>1, <2>2, <2>3
<1> QED BY <1>2, <1>3, <1>4, <1>5

----------------------------------------------------------------------------
(* Steps of the API and of the network.                                    *)

LEMMA ServerStepInv ==
    ASSUME CInv, PageUnchanged,
           call' \in [Tasks -> Call], late' \subseteq {c \in Call : c.at \in Mutations},
           server' \in Server, SessionHolds(server'),
           \A t \in Tasks :
              call'[t].at = call[t].at /\ call'[t].image \in {call[t].image, "none"},
           cookie => cookie', reused => reused', server.consumed => server'.consumed,
           server.signer # "pending" => server'.signer = server.signer,
           server.link # "open" => server'.link # "open",
           cookie' => cookie \/ (~server.consumed /\ \E t \in Tasks : call[t].at = "exchange"),
           AnswersHold',
           \A t \in Tasks : call'[t].answer = "auth" => call[t].answer = "auth" \/ Dead',
           \A c \in late' : c.image = "other" => crossed,
           server'.image = "other" => crossed
    PROVE  CInv'
<1>1. UNCHANGED <<screen, busy, consent, ink, armed, ref, review, crossed, found>>
  BY DEF PageUnchanged
<1>2. TypeOK' /\ SessionHolds(server)'
  BY <1>1 DEF CInv, TypeOK, PageTypeOK, SessionHolds
<1>3. OutcomeIsTrue'
  BY <1>1 DEF CInv, OutcomeIsTrue
<1>4. Settled => Settled'
  BY <1>1 DEF Settled
<1>5. Dead => Dead'
  BY <1>1, <1>4 DEF Dead, Settled
<1>6. PageSettled'
  BY <1>1, <1>4 DEF CInv, PageSettled
<1>7. DeadEnds'
  BY <1>1, <1>5 DEF CInv, DeadEnds
<1>8. ImagesHold'
  BY <1>1 DEF CInv, ImagesHold
<1>9. CapturesHold' /\ WipedAtTheEnd'
  BY <1>1 DEF CInv, CapturesHold, Running, WipedAtTheEnd, EndScreen, Capturing
<1> QED BY <1>2, <1>3, <1>6, <1>7, <1>8, <1>9 DEF CInv

LEMMA AnswerInv ==
    ASSUME CInv, NEW t \in Tasks, Answer(t)
    PROVE  CInv'
<1>1. PICK c : c = call[t]
  OBVIOUS
<1>2. PICK h \in Handled(c) :
         /\ server' = h.server /\ call' = Answered(t, h.answer)
         /\ cookie' = (cookie \/ (c.at = "exchange" /\ h.answer = "ok"))
  BY <1>1 DEF Answer
<1>3. /\ c.at # "idle" /\ c.answer = "none"
      /\ server' = h.server /\ call' = Answered(t, h.answer)
      /\ cookie' = (cookie \/ (c.at = "exchange" /\ h.answer = "ok"))
      /\ reused' = (reused \/ (c.at = "exchange" /\ server.consumed /\ cookie))
      /\ UNCHANGED <<late, faults>> /\ PageUnchanged
  BY <1>1, <1>2 DEF Answer, Waiting
<1>4. /\ call \in [Tasks -> Call] /\ c \in Call /\ server \in Server /\ SessionHolds(server)
      /\ late \subseteq {x \in Call : x.at \in Mutations}
  BY <1>1 DEF CInv, TypeOK
<1>5. UNCHANGED <<screen, busy, consent, ink, armed, ref, review, crossed>>
  BY <1>3 DEF PageUnchanged
<1>6. /\ h.server \in Server /\ SessionHolds(h.server)
      /\ h.answer \in {"ok", "agreed", "signed", "declined", "pending", "accepted",
                       "auth", "refused"}
      /\ server.signer # "pending" => h.server.signer = server.signer
      /\ server.link # "open" => h.server.link # "open"
      /\ server.consumed => h.server.consumed
      /\ c.at = "exchange" => h.answer \in {"ok", "auth", "refused"}
      /\ c.at = "exchange" /\ h.answer = "ok" => ~server.consumed
      /\ c.at = "session" /\ h.answer \in {"signed", "declined"} => h.server.signer = h.answer
      /\ c.at = "complete" /\ h.answer \notin {"auth", "refused"} => h.server.signer = "signed"
      /\ c.at = "decline" /\ h.answer \notin {"auth", "refused"} => h.server.signer = "declined"
      /\ h.server.image \in {server.image, c.image}
      /\ h.answer = "auth" => \/ h.server.link # "open"
                              \/ c.at = "exchange" /\ server.consumed
                              \/ c.at # "exchange" /\ ~cookie
  <2>1. CASE c.at = "exchange" \/ cookie
    <3>1. h \in Api(server, c)
      BY <1>2, <2>1 DEF Handled
    <3>2. c.sent # "open" => server.link # "open" \/ (c.at = "exchange" /\ server.consumed)
      BY <1>1, <1>3 DEF CInv, AnswersHold, AnswerHolds
    <3> QED BY <1>3, <1>4, <3>1, <3>2, ApiEffect
  <2>2. CASE ~(c.at = "exchange" \/ cookie)
    <3>1. h = Reply(server, "auth")
      BY <1>2, <2>2 DEF Handled
    <3> QED BY <1>4, <2>2, <3>1 DEF Reply
  <2> QED BY <2>1, <2>2
<1>7. PICK n : n = [Idle EXCEPT !.at = c.at, !.answer = h.answer]
  OBVIOUS
<1>8. n \in Call /\ n.at = c.at /\ n.image = "none" /\ n.answer = h.answer
  BY <1>4, <1>6, <1>7 DEF Idle, Call, Images
<1>9. /\ call' \in [Tasks -> Call] /\ call'[t] = n
      /\ \A u \in Tasks \ {t} : call'[u] = call[u]
  BY <1>1, <1>3, <1>4, <1>7, <1>8 DEF Answered
<1>10. /\ cookie => cookie'
       /\ reused => reused'
       /\ cookie' => cookie \/ (c.at = "exchange" /\ h.answer = "ok")
       /\ (c.at = "exchange" /\ h.answer = "ok") => cookie'
       /\ c.at = "exchange" /\ server.consumed /\ cookie => reused'
  BY <1>3
<1>11. AnswersHold'
  <2>1. ASSUME NEW u \in Tasks, u # t PROVE AnswerHolds(call[u])'
    <3>1. call'[u] = call[u] /\ call[u] \in Call /\ AnswerHolds(call[u])
      BY <1>4, <1>9, <2>1 DEF CInv, AnswersHold
    <3> QED BY <1>3, <1>6, <1>10, <3>1 DEF AnswerHolds, Good
  <2>2. AnswerHolds(call[t])'
    <3>1. c.at = "wait" => server.signer = "signed"
      BY <1>1 DEF CInv, AnswersHold, AnswerHolds
    <3> QED BY <1>3, <1>6, <1>8, <1>9, <1>10, <3>1 DEF AnswerHolds, Good
  <2> QED BY <2>1, <2>2 DEF AnswersHold
<1>12. h.answer = "auth" => Dead'
  <2>1. CASE c.at = "exchange" /\ server.consumed /\ h.answer = "auth"
    BY <1>3, <1>6, <1>10, <2>1 DEF Dead
  <2>2. CASE c.at # "exchange" /\ ~cookie
    <3>1. Settled
      BY <1>1, <1>3, <2>2 DEF CInv, PageSettled
    <3>2. ~cookie' /\ Settled'
      BY <1>1, <1>5, <1>8, <1>9, <1>10, <2>2, <3>1 DEF Settled
    <3> QED BY <3>2 DEF Dead
  <2>3. CASE h.server.link # "open"
    BY <1>3, <2>3 DEF Dead
  <2> QED BY <1>6, <2>1, <2>2, <2>3
<1>13. /\ \A u \in Tasks : call'[u].at = call[u].at /\ call'[u].image \in {call[u].image, "none"}
       /\ \A u \in Tasks : call'[u].answer = "auth" => call[u].answer = "auth" \/ Dead'
       /\ cookie' => cookie \/ (~server.consumed /\ \E u \in Tasks : call[u].at = "exchange")
  BY <1>1, <1>6, <1>8, <1>9, <1>10, <1>12
<1>14. (\A x \in late' : x.image = "other" => crossed) /\ (server'.image = "other" => crossed)
  BY <1>1, <1>3, <1>6 DEF CInv, ImagesHold
<1> QED BY <1>3, <1>4, <1>6, <1>9, <1>10, <1>11, <1>13, <1>14, ServerStepInv

\* A 429, a 500 or a lost answer.
LEMMA NoAnswerInv ==
    ASSUME CInv, NEW t \in Tasks, Refuse(t) \/ Timeout(t)
    PROVE  CInv'
<1>1. PICK a \in {"refused", "network"} :
         /\ Waiting(t) /\ call' = Answered(t, a)
         /\ UNCHANGED <<server, cookie, reused>> /\ PageUnchanged
  BY DEF Refuse, Timeout
<1>2. late' \subseteq late \cup {c \in {call[t]} : c.at \in Mutations}
  BY DEF Refuse, Timeout, GivenUp
<1>3. /\ call \in [Tasks -> Call] /\ server \in Server /\ SessionHolds(server)
      /\ late \subseteq {x \in Call : x.at \in Mutations}
  BY DEF CInv, TypeOK
<1>4. PICK n : n = [Idle EXCEPT !.at = call[t].at, !.answer = a]
  OBVIOUS
<1>5. n \in Call /\ n.at = call[t].at /\ n.image = "none" /\ n.answer = a
  BY <1>3, <1>4 DEF Idle, Call, Images
<1>6. /\ call' \in [Tasks -> Call] /\ call'[t] = n
      /\ \A u \in Tasks \ {t} : call'[u] = call[u]
  BY <1>1, <1>3, <1>4, <1>5 DEF Answered
<1>7. AnswersHold'
  <2>1. \A u \in Tasks : AnswerHolds(call[u])
    BY DEF CInv, AnswersHold
  <2>2. \A u \in Tasks : AnswerHolds(call[u])'
    BY <1>1, <1>5, <1>6, <2>1 DEF AnswerHolds, Good
  <2> QED BY <2>2 DEF AnswersHold
<1>8. /\ \A u \in Tasks : call'[u].at = call[u].at /\ call'[u].image \in {call[u].image, "none"}
      /\ \A u \in Tasks : call'[u].answer = "auth" => call[u].answer = "auth"
  BY <1>5, <1>6
<1>9. /\ late' \subseteq {x \in Call : x.at \in Mutations}
      /\ \A x \in late' : x.image = "other" => crossed
      /\ server'.image = "other" => crossed
  BY <1>1, <1>2, <1>3 DEF CInv, ImagesHold
<1> QED BY <1>1, <1>3, <1>6, <1>7, <1>8, <1>9, ServerStepInv

\* The API handles what the page has given up.
LEMMA HandleLateInv ==
    ASSUME CInv, NEW c \in late, HandleLate(c)
    PROVE  CInv'
<1>1. PICK h \in Api(server, c) : server' = h.server
  BY DEF HandleLate
<1>2. /\ late' = late \ {c} /\ server' = h.server
      /\ UNCHANGED <<call, cookie, reused>> /\ PageUnchanged
  BY <1>1 DEF HandleLate
<1>3. /\ call \in [Tasks -> Call] /\ server \in Server /\ SessionHolds(server)
      /\ late \subseteq {x \in Call : x.at \in Mutations}
      /\ c \in Call /\ c.at # "idle"
  BY DEF CInv, TypeOK, Mutations
<1>4. /\ h.server \in Server /\ SessionHolds(h.server)
      /\ server.signer # "pending" => h.server.signer = server.signer
      /\ server.link # "open" => h.server.link # "open"
      /\ server.consumed => h.server.consumed
      /\ h.server.image \in {server.image, c.image}
  BY <1>1, <1>3, ApiEffect
<1>5. AnswersHold'
  <2>1. ASSUME NEW u \in Tasks PROVE AnswerHolds(call[u])'
    <3>1. AnswerHolds(call[u])
      BY DEF CInv, AnswersHold
    <3> QED BY <1>2, <1>4, <3>1 DEF AnswerHolds, Good
  <2> QED BY <2>1 DEF AnswersHold
<1>6. (\A x \in late' : x.image = "other" => crossed) /\ (server'.image = "other" => crossed)
  BY <1>2, <1>4 DEF CInv, ImagesHold
<1> QED BY <1>2, <1>3, <1>4, <1>5, <1>6, ServerStepInv

LEMMA SessionEndsInv ==
    ASSUME CInv, SessionEnds
    PROVE  CInv'
<1>1. PICK link \in {"ended", "closed"} :
         server.link \in {"open", "completed"} /\ server' = [server EXCEPT !.link = link]
  BY DEF SessionEnds
<1>2. PICK n : /\ n = [server EXCEPT !.link = link] /\ server' = n
               /\ UNCHANGED <<call, cookie, late, reused>> /\ PageUnchanged
  BY <1>1 DEF SessionEnds
<1>3. /\ call \in [Tasks -> Call] /\ server \in Server /\ SessionHolds(server)
      /\ late \subseteq {x \in Call : x.at \in Mutations}
  BY DEF CInv, TypeOK
<1>4. /\ n \in Server /\ n.link = link /\ n.signer = server.signer
      /\ n.consumed = server.consumed /\ n.image = server.image
  BY <1>2, <1>3 DEF Server, Rows
<1>5. SessionHolds(n)
  BY <1>1, <1>3, <1>4 DEF SessionHolds
<1>6. AnswersHold'
  <2>1. ASSUME NEW u \in Tasks PROVE AnswerHolds(call[u])'
    <3>1. AnswerHolds(call[u])
      BY DEF CInv, AnswersHold
    <3> QED BY <1>1, <1>2, <1>4, <3>1 DEF AnswerHolds, Good
  <2> QED BY <2>1 DEF AnswersHold
<1>7. (\A x \in late' : x.image = "other" => crossed) /\ (server'.image = "other" => crossed)
  BY <1>2, <1>4 DEF CInv, ImagesHold
<1> QED BY <1>1, <1>2, <1>3, <1>4, <1>5, <1>6, <1>7, ServerStepInv

----------------------------------------------------------------------------
(* Steps of the page: no request is handled meanwhile.                     *)

LEMMA PageStepInv ==
    ASSUME CInv, NEW t \in Tasks, NEW rec \in Call, call' = [call EXCEPT ![t] = rec],
           UNCHANGED <<cookie, late, server, reused>>, PageTypeOK',
           AnswerHolds(rec), rec.answer = "auth" => Dead,
           rec.image = "other" => crossed', crossed => crossed',
           rec.at = "exchange" => ref.token \/ call[t].at = "exchange",
           ref'.token => ref.token,
           rec.at \notin {"idle", "exchange"} \/ ~ref'.token \/ consent' # "none" \/ armed' => Settled,
           screen' \in {"revoked", "unavailable"} => Dead,
           screen' = "completed" => server.signer = "signed",
           screen' = "declined" => server.signer = "declined",
           CapturesHold', WipedAtTheEnd'
    PROVE  CInv'
<1>1. UNCHANGED <<cookie, late, server, reused>>
  OBVIOUS
<1>2. /\ call' \in [Tasks -> Call] /\ call'[t] = rec
      /\ \A u \in Tasks \ {t} : call'[u] = call[u]
  BY DEF CInv, TypeOK
<1>3. TypeOK' /\ SessionHolds(server)' /\ OutcomeIsTrue'
  BY <1>1, <1>2 DEF CInv, TypeOK, SessionHolds, OutcomeIsTrue
<1>4. AnswersHold'
  <2>1. \A u \in Tasks : AnswerHolds(call[u])
    BY DEF CInv, AnswersHold
  <2>2. \A u \in Tasks : AnswerHolds(call[u])'
    BY <1>1, <1>2, <2>1 DEF AnswerHolds, Good
  <2> QED BY <2>2 DEF AnswersHold
<1>5. Settled => Settled'
  BY <1>1, <1>2 DEF Settled, CInv, TypeOK, PageTypeOK, Ref
<1>6. Dead => Dead'
  BY <1>1, <1>5 DEF Dead
<1>7. PageSettled'
  BY <1>2, <1>5 DEF CInv, PageSettled
<1>8. DeadEnds'
  BY <1>2, <1>6 DEF CInv, DeadEnds
<1>9. ImagesHold'
  BY <1>1, <1>2 DEF CInv, ImagesHold
<1> QED BY <1>3, <1>4, <1>7, <1>8, <1>9 DEF CInv

\* The same for a step that starts and ends no request.
LEMMA LocalStepInv ==
    ASSUME CInv, UNCHANGED <<call, cookie, late, server, reused>>, PageTypeOK', crossed => crossed',
           ref'.token => ref.token,
           ~ref'.token \/ consent' # "none" \/ armed' => Settled,
           screen' \in {"revoked", "unavailable"} => Dead,
           screen' = "completed" => server.signer = "signed",
           screen' = "declined" => server.signer = "declined",
           CapturesHold', WipedAtTheEnd'
    PROVE  CInv'
<1>1. PICK t \in Tasks : t = "consent"
  BY DEF Tasks
<1>2. PICK rec : rec = call[t]
  OBVIOUS
<1>3. rec \in Call /\ call' = [call EXCEPT ![t] = rec]
  BY <1>2 DEF CInv, TypeOK
<1>4. AnswerHolds(rec) /\ (rec.answer = "auth" => Dead) /\ (rec.image = "other" => crossed)
  BY <1>2 DEF CInv, AnswersHold, DeadEnds, ImagesHold
<1>5. rec.at \notin {"idle", "exchange"} => Settled
  BY <1>2 DEF CInv, PageSettled
<1> QED BY <1>2, <1>3, <1>4, <1>5, PageStepInv

LEMMA IdleHolds ==
    /\ Idle \in Call /\ AnswerHolds(Idle)
    /\ Idle.at = "idle" /\ Idle.answer = "none" /\ Idle.image = "none"
BY DEF Idle, Call, Images, AnswerHolds, Good

\* A request that has just been sent, with the session's row of that time.
LEMMA RequestEffect ==
    ASSUME server \in Server, NEW rec,
           NEW at \in {"exchange", "session", "workspace", "consent", "decline", "complete", "wait"},
           rec = Request(at)
    PROVE  /\ rec \in Call /\ rec.at = at /\ rec.answer = "none" /\ rec.image = "none"
           /\ rec.sent # "open" => server.link # "open" \/ (at = "exchange" /\ server.consumed)
<1>1. PICK row : row = Row(server, at)
  OBVIOUS
<1>2. /\ row \in Rows
      /\ row # "open" => server.link # "open" \/ (at = "exchange" /\ server.consumed)
  BY <1>1 DEF Row, Server, Rows
<1> QED BY <1>1, <1>2 DEF Request, Idle, Call, Images

LEMMA AwaitEffect ==
    ASSUME CInv, NEW t, NEW at \in {"exchange", "session", "workspace", "consent", "decline", "wait"},
           at = "wait" => server.signer = "signed"
    PROVE  \E rec \in Call :
              /\ Await(call, t, at) = [call EXCEPT ![t] = rec]
              /\ rec.at = at /\ rec.answer = "none" /\ rec.image = "none" /\ AnswerHolds(rec)
<1>1. PICK rec : rec = Request(at)
  OBVIOUS
<1>2. /\ rec \in Call /\ rec.at = at /\ rec.answer = "none" /\ rec.image = "none"
      /\ rec.sent # "open" => server.link # "open" \/ (at = "exchange" /\ server.consumed)
  BY <1>1, RequestEffect DEF CInv, TypeOK
<1>3. AnswerHolds(rec)
  BY <1>2 DEF AnswerHolds, Good
<1> QED BY <1>1, <1>2, <1>3 DEF Await

LEMMA WipedEffect ==
    ASSUME NEW r \in Ref, NEW n, n = Wiped(r)
    PROVE  /\ n \in Ref /\ ~n.token /\ ~n.key /\ n.capture = 0 /\ n.shown = 0
           /\ n.had = r.had /\ n.retry = r.retry
BY DEF Wiped, Ref

\* Captures that go on beside a step with the same refs, or with wiped ones.
LEMMA CapturesStay ==
    ASSUME CInv, UNCHANGED review, crossed => crossed',
           (ref'.capture = ref.capture /\ ref'.shown = ref.shown) \/ ref'.capture = 0
    PROVE  CapturesHold'
BY DEF CInv, CapturesHold, Running

\* Only a refused session leads to a dead end.
LEMMA FailureScreen ==
    ASSUME CInv, NEW t \in Tasks, Failed(t), HandleFailure(t)
    PROVE  /\ screen' \in {"network_error", "revoked", "unavailable", "error"}
           /\ screen' \in {"revoked", "unavailable"} => Dead
<1>1. CASE call[t].answer = "network"
  BY <1>1 DEF HandleFailure, ScreenFromFailure
<1>2. CASE call[t].answer = "auth"
  <2>1. screen' \in {"revoked", "unavailable"}
    BY <1>2 DEF HandleFailure, ScreenFromFailure
  <2> QED BY <1>2, <2>1 DEF CInv, DeadEnds
<1>3. CASE call[t].answer = "refused"
  BY <1>3 DEF HandleFailure, ScreenFromFailure
<1> QED BY <1>1, <1>2, <1>3 DEF Failed

LEMMA ExpiryTimerInv ==
    ASSUME CInv, ExpiryTimer
    PROVE  CInv'
<1>1. /\ armed /\ ~armed' /\ screen' = "expired" /\ ref' = Wiped(ref) /\ ink' = 0
      /\ UNCHANGED <<busy, consent, call, review, crossed, cookie, late, server, reused>>
  BY DEF ExpiryTimer, WipeSensitiveState, net
<1>2. /\ ref' \in Ref /\ ~ref'.token /\ ~ref'.key /\ ref'.capture = 0 /\ ref'.shown = 0
  BY <1>1, WipedEffect DEF CInv, TypeOK, PageTypeOK
<1>3. Settled
  BY <1>1 DEF CInv, PageSettled
<1>4. PageTypeOK'
  BY <1>1, <1>2 DEF CInv, TypeOK, PageTypeOK
<1>5. WipedAtTheEnd'
  BY <1>1, <1>2 DEF WipedAtTheEnd, EndScreen
<1>6. CapturesHold'
  BY <1>1, <1>2, CapturesStay
<1> QED BY <1>1, <1>2, <1>3, <1>4, <1>5, <1>6, LocalStepInv

----------------------------------------------------------------------------
(* Loads.                                                                  *)

LEMMA ExchangedInv ==
    ASSUME CInv, NEW t \in Tasks, Exchanged(t)
    PROVE  CInv'
<1>1. /\ call[t].at = "exchange" /\ Good(call[t])
      /\ ref' = [ref EXCEPT !.token = FALSE] /\ call' = Await(call, t, "session")
      /\ UNCHANGED <<screen, consent, ink, armed, busy, review, crossed, found,
                     cookie, late, server, reused>>
  BY DEF Exchanged, Landed, Failed, Good, LoadUnchanged, net
<1>2. Settled
  BY <1>1 DEF CInv, AnswersHold, AnswerHolds, Settled
<1>3. /\ ref' \in Ref /\ ~ref'.token /\ ref'.key = ref.key /\ ref'.capture = ref.capture
      /\ ref'.shown = ref.shown
  BY <1>1 DEF CInv, TypeOK, PageTypeOK, Ref
<1>4. PICK rec \in Call : /\ call' = [call EXCEPT ![t] = rec] /\ rec.at = "session"
                          /\ rec.answer = "none" /\ rec.image = "none" /\ AnswerHolds(rec)
  BY <1>1, AwaitEffect
<1>5. PageTypeOK'
  BY <1>1, <1>3 DEF CInv, TypeOK, PageTypeOK
<1>6. CapturesHold' /\ WipedAtTheEnd'
  BY <1>1, <1>3, CapturesStay DEF CInv, WipedAtTheEnd, EndScreen, Capturing
<1>7. OutcomeIsTrue /\ DeadEnds
  BY DEF CInv
<1> QED BY <1>1, <1>2, <1>3, <1>4, <1>5, <1>6, <1>7, PageStepInv DEF OutcomeIsTrue, DeadEnds

LEMMA SessionLoadedInv ==
    ASSUME CInv, NEW t \in Tasks, SessionLoaded(t)
    PROVE  CInv'
<1>1. /\ call[t].at = "session" /\ ref' = [ref EXCEPT !.had = TRUE]
      /\ call' = Await(call, t, "workspace")
      /\ UNCHANGED <<screen, consent, ink, busy, review, crossed, found,
                     cookie, late, server, reused>>
  BY DEF SessionLoaded, Landed, LoadUnchanged, net
<1>2. Settled
  BY <1>1 DEF CInv, PageSettled
<1>3. /\ ref' \in Ref /\ ref'.token = ref.token /\ ref'.key = ref.key
      /\ ref'.capture = ref.capture /\ ref'.shown = ref.shown
  BY <1>1 DEF CInv, TypeOK, PageTypeOK, Ref
<1>4. PICK rec \in Call : /\ call' = [call EXCEPT ![t] = rec] /\ rec.at = "workspace"
                          /\ rec.answer = "none" /\ rec.image = "none" /\ AnswerHolds(rec)
  BY <1>1, AwaitEffect
<1>5. PageTypeOK'
  BY <1>1, <1>3 DEF CInv, TypeOK, PageTypeOK
<1>6. CapturesHold' /\ WipedAtTheEnd'
  BY <1>1, <1>3, CapturesStay DEF CInv, WipedAtTheEnd, EndScreen, Capturing
<1>7. OutcomeIsTrue /\ DeadEnds
  BY DEF CInv
<1> QED BY <1>1, <1>2, <1>3, <1>4, <1>5, <1>6, <1>7, PageStepInv DEF OutcomeIsTrue, DeadEnds

\* The screen says what the session's answer said, unwiped.
LEMMA SessionSettledInv ==
    ASSUME CInv, NEW t \in Tasks, SessionSettled(t)
    PROVE  CInv'
<1>1. /\ call[t].at = "session" /\ call[t].answer \in {"signed", "declined"}
      /\ ref' = [ref EXCEPT !.had = TRUE] /\ found'
      /\ screen' = (IF call[t].answer = "signed" THEN "completed" ELSE "declined")
      /\ call' = [call EXCEPT ![t] = Idle]
      /\ UNCHANGED <<consent, ink, busy, review, crossed, cookie, late, server, reused>>
  BY DEF SessionSettled, Landed, LoadUnchanged, Done, net
<1>2. Settled
  BY <1>1 DEF CInv, PageSettled
<1>3. server.signer = call[t].answer
  BY <1>1 DEF CInv, AnswersHold, AnswerHolds
<1>4. /\ ref' \in Ref /\ ref'.token = ref.token
      /\ ref'.capture = ref.capture /\ ref'.shown = ref.shown
  BY <1>1 DEF CInv, TypeOK, PageTypeOK, Ref
<1>5. PageTypeOK' /\ WipedAtTheEnd'
  BY <1>1, <1>4 DEF CInv, TypeOK, PageTypeOK, WipedAtTheEnd
<1>6. CapturesHold'
  BY <1>1, <1>4, CapturesStay
<1>7. /\ screen' = "completed" => server.signer = "signed"
      /\ screen' = "declined" => server.signer = "declined"
      /\ screen' \notin {"revoked", "unavailable"}
  BY <1>1, <1>3
<1> QED BY <1>1, <1>2, <1>4, <1>5, <1>6, <1>7, IdleHolds, PageStepInv

LEMMA SessionOverInv ==
    ASSUME CInv, NEW t \in Tasks, SessionOver(t)
    PROVE  CInv'
<1>1. /\ call[t].at = "session" /\ ref' = [Wiped(ref) EXCEPT !.had = TRUE] /\ ink' = 0
      /\ screen' = "expired" /\ call' = [call EXCEPT ![t] = Idle]
      /\ UNCHANGED <<consent, busy, review, crossed, cookie, late, server, reused>>
  BY DEF SessionOver, Landed, LoadUnchanged, Done, net
<1>2. Settled
  BY <1>1 DEF CInv, PageSettled
<1>3. PICK n : n = Wiped(ref)
  OBVIOUS
<1>4. n \in Ref /\ ~n.token /\ ~n.key /\ n.capture = 0 /\ n.shown = 0
  BY <1>3, WipedEffect DEF CInv, TypeOK, PageTypeOK
<1>5. ref' \in Ref /\ ~ref'.token /\ ~ref'.key /\ ref'.capture = 0 /\ ref'.shown = 0
  BY <1>1, <1>3, <1>4 DEF Ref
<1>6. PageTypeOK' /\ WipedAtTheEnd'
  BY <1>1, <1>5 DEF CInv, TypeOK, PageTypeOK, WipedAtTheEnd, EndScreen
<1>7. CapturesHold'
  BY <1>1, <1>5, CapturesStay
<1> QED BY <1>1, <1>2, <1>5, <1>6, <1>7, IdleHolds, PageStepInv

LEMMA WorkspaceLoadedInv ==
    ASSUME CInv, NEW t \in Tasks, WorkspaceLoaded(t)
    PROVE  CInv'
<1>1. /\ call[t].at = "workspace" /\ screen' = "ready" /\ call' = [call EXCEPT ![t] = Idle]
      /\ UNCHANGED <<ink, armed, ref, busy, review, crossed, found, cookie, late, server, reused>>
  BY DEF WorkspaceLoaded, Landed, LoadUnchanged, Done, net
<1>2. Settled
  BY <1>1 DEF CInv, PageSettled
<1>3. PageTypeOK' /\ WipedAtTheEnd'
  BY <1>1 DEF CInv, TypeOK, PageTypeOK, WipedAtTheEnd, EndScreen
<1>4. CapturesHold'
  BY <1>1, CapturesStay
<1> QED BY <1>1, <1>2, <1>3, <1>4, IdleHolds, PageStepInv

\* A failed request ends its function; only the screen and `busy` follow.
LEMMA FailureInv ==
    ASSUME CInv, NEW t \in Tasks, Failed(t), HandleFailure(t), call' = Done(call, t),
           UNCHANGED <<consent, ink, armed, ref, review, crossed,
                       cookie, late, server, reused>>
    PROVE  CInv'
<1>1. /\ screen' \in {"network_error", "revoked", "unavailable", "error"}
      /\ screen' \in {"revoked", "unavailable"} => Dead
  BY FailureScreen
<1>2. PageTypeOK' /\ WipedAtTheEnd'
  BY <1>1 DEF CInv, TypeOK, PageTypeOK, WipedAtTheEnd, EndScreen
<1>3. CapturesHold'
  BY CapturesStay
<1>4. ~ref'.token \/ consent' # "none" \/ armed' => Settled
  BY DEF CInv, PageSettled
<1>5. call' = [call EXCEPT ![t] = Idle]
  BY DEF Done
<1> QED BY <1>1, <1>2, <1>3, <1>4, <1>5, IdleHolds, PageStepInv

LEMMA LoadFailedInv ==
    ASSUME CInv, NEW t \in Tasks, LoadFailed(t)
    PROVE  CInv'
BY FailureInv DEF LoadFailed, LoadUnchanged, net

LEMMA RetryExchangeInv ==
    ASSUME CInv, NEW t \in Loads, RetryExchange(t)
    PROVE  CInv'
<1>1. /\ ref.token /\ call' = Await(call, t, "exchange") /\ t \in Tasks
      /\ UNCHANGED <<screen, consent, ink, armed, ref, busy, review, crossed, found,
                     cookie, late, server, reused>>
  BY DEF RetryExchange, LoadUnchanged, Tasks, net
<1>2. PICK rec \in Call : /\ call' = [call EXCEPT ![t] = rec] /\ rec.at = "exchange"
                          /\ rec.answer = "none" /\ rec.image = "none" /\ AnswerHolds(rec)
  BY <1>1, AwaitEffect
<1>3. PageTypeOK' /\ WipedAtTheEnd'
  BY <1>1 DEF CInv, TypeOK, PageTypeOK, WipedAtTheEnd, EndScreen, Capturing
<1>4. CapturesHold'
  BY <1>1, CapturesStay
<1>5. OutcomeIsTrue /\ DeadEnds /\ (consent # "none" \/ armed => Settled)
  BY DEF CInv, PageSettled
<1> QED BY <1>1, <1>2, <1>3, <1>4, <1>5, PageStepInv DEF OutcomeIsTrue, DeadEnds

LEMMA RetryBootstrapInv ==
    ASSUME CInv, NEW t \in Loads, RetryBootstrap(t)
    PROVE  CInv'
<1>1. /\ ~ref.token /\ call' = Await(call, t, "session") /\ t \in Tasks
      /\ screen' = "bootstrapping"
      /\ UNCHANGED <<consent, ink, armed, ref, busy, review, crossed, found,
                     cookie, late, server, reused>>
  BY DEF RetryBootstrap, LoadUnchanged, Tasks, net
<1>2. PICK rec \in Call : /\ call' = [call EXCEPT ![t] = rec] /\ rec.at = "session"
                          /\ rec.answer = "none" /\ rec.image = "none" /\ AnswerHolds(rec)
  BY <1>1, AwaitEffect
<1>3. PageTypeOK' /\ WipedAtTheEnd'
  BY <1>1 DEF CInv, TypeOK, PageTypeOK, WipedAtTheEnd, EndScreen
<1>4. CapturesHold'
  BY <1>1, CapturesStay
<1>5. Settled
  BY <1>1 DEF CInv, PageSettled
<1> QED BY <1>1, <1>2, <1>3, <1>4, <1>5, PageStepInv

----------------------------------------------------------------------------
(* The workspace.                                                          *)

\* Drawing, going back, and the retry that finds the ink gone: they need a
\* screen on which nothing is over, and leave one.
LEMMA StaysOpenInv ==
    ASSUME CInv, Draw \/ Back \/ RetryNotReady
    PROVE  CInv'
<1>1. /\ screen' \in {"ready", "review"} /\ ink' \in Nat
      /\ UNCHANGED <<busy, consent, armed, ref, call, review, crossed, found,
                     cookie, late, server, reused>>
  BY DEF CInv, TypeOK, PageTypeOK, Draw, Back, RetryNotReady, net
<1>2. PageTypeOK' /\ WipedAtTheEnd'
  BY <1>1 DEF CInv, TypeOK, PageTypeOK, WipedAtTheEnd, EndScreen
<1>3. CapturesHold'
  BY <1>1, CapturesStay
<1>4. ~ref.token \/ consent # "none" \/ armed => Settled
  BY DEF CInv, PageSettled
<1> QED BY <1>1, <1>2, <1>3, <1>4, LocalStepInv

LEMMA AcceptOrDeclineInv ==
    ASSUME CInv, AcceptConsent \/ ConfirmDecline
    PROVE  CInv'
<1>1. PICK t \in {"consent", "decline"} :
         /\ screen \in {"ready", "review"} /\ consent # "none" /\ call' = Await(call, t, t)
         /\ UNCHANGED <<screen, consent, ink, armed, ref, review, crossed, found,
                        cookie, late, server, reused>>
  BY DEF AcceptConsent, ConfirmDecline, WorkspaceShown, net
<1>2. t \in Tasks
  BY DEF Tasks
<1>3. PICK rec \in Call : /\ call' = [call EXCEPT ![t] = rec] /\ rec.at = t
                          /\ rec.answer = "none" /\ rec.image = "none" /\ AnswerHolds(rec)
  <2>1. CASE t = "consent"
    BY <1>1, <2>1, AwaitEffect
  <2>2. CASE t = "decline"
    BY <1>1, <2>2, AwaitEffect
  <2> QED BY <2>1, <2>2
<1>4. PageTypeOK' /\ WipedAtTheEnd'
  BY <1>1 DEF CInv, TypeOK, PageTypeOK, WipedAtTheEnd, EndScreen
<1>5. CapturesHold'
  BY <1>1, CapturesStay
<1>6. Settled
  BY <1>1 DEF CInv, PageSettled
<1> QED BY <1>1, <1>2, <1>3, <1>4, <1>5, <1>6, PageStepInv

LEMMA ConsentLandedInv ==
    ASSUME CInv, ConsentLanded
    PROVE  CInv'
<1>1. /\ "consent" \in Tasks /\ call["consent"].at = "consent"
      /\ call' = Done(call, "consent")
      /\ UNCHANGED <<ink, armed, ref, review, crossed, found, cookie, late, server, reused>>
  BY DEF ConsentLanded, Landed, Tasks, net
<1>2. CASE Failed("consent") /\ HandleFailure("consent") /\ UNCHANGED consent
  BY <1>1, <1>2, FailureInv
<1>3. CASE UNCHANGED screen
  <2>1. Settled
    BY <1>1 DEF CInv, PageSettled
  <2>2. PageTypeOK' /\ WipedAtTheEnd'
    BY <1>1, <1>3 DEF CInv, TypeOK, PageTypeOK, WipedAtTheEnd, EndScreen, Capturing
  <2>3. CapturesHold'
    BY <1>1, CapturesStay
  <2>4. OutcomeIsTrue /\ DeadEnds
    BY DEF CInv
  <2>5. call' = [call EXCEPT !["consent"] = Idle]
    BY <1>1 DEF Done
  <2> QED BY <1>1, <1>3, <2>1, <2>2, <2>3, <2>4, <2>5, IdleHolds, PageStepInv
          DEF OutcomeIsTrue, DeadEnds
<1> QED BY <1>2, <1>3 DEF ConsentLanded

LEMMA DeclineLandedInv ==
    ASSUME CInv, DeclineLanded
    PROVE  CInv'
<1>1. /\ "decline" \in Tasks /\ call["decline"].at = "decline" /\ call["decline"].answer # "none"
      /\ call' = Done(call, "decline")
      /\ UNCHANGED <<consent, armed, review, crossed, cookie, late, server, reused>>
  BY DEF DeclineLanded, Landed, Tasks, net
<1>2. CASE Failed("decline") /\ HandleFailure("decline") /\ UNCHANGED <<ref, ink>>
  BY <1>1, <1>2, FailureInv
<1>3. CASE ~Failed("decline") /\ WipeSensitiveState /\ screen' = "declined"
  <2>1. server.signer = "declined"
    BY <1>1, <1>3 DEF CInv, AnswersHold, AnswerHolds, Good, Failed
  <2>2. ref' \in Ref /\ ~ref'.token /\ ~ref'.key /\ ref'.capture = 0 /\ ref'.shown = 0 /\ ink' = 0
    BY <1>3, WipedEffect DEF CInv, TypeOK, PageTypeOK, WipeSensitiveState
  <2>3. Settled
    BY <1>1 DEF CInv, PageSettled
  <2>4. PageTypeOK' /\ WipedAtTheEnd'
    BY <1>1, <2>2 DEF CInv, TypeOK, PageTypeOK, WipedAtTheEnd, EndScreen
  <2>5. CapturesHold'
    BY <1>1, <2>2, CapturesStay
  <2>6. call' = [call EXCEPT !["decline"] = Idle]
    BY <1>1 DEF Done
  <2> QED BY <1>1, <1>3, <2>1, <2>2, <2>3, <2>4, <2>5, <2>6, IdleHolds, PageStepInv
<1> QED BY <1>2, <1>3 DEF DeclineLanded

----------------------------------------------------------------------------
(* Captures.                                                               *)

\* A step of one capture: the screen it leaves is not an end, or nothing but the
\* captured image changes.
LEMMA CaptureStepInv ==
    ASSUME CInv, UNCHANGED <<consent, ink, armed, call, found, cookie, late, server, reused>>,
           crossed => crossed', ref' \in Ref,
           ref'.token = ref.token, ref'.key = ref.key, review' \in [Reviews -> Review],
           screen' \in {"ready", "review", "error"} \/
              (screen' = screen /\ Capturing' /\ ref'.shown = ref.shown),
           CapturesHold'
    PROVE  CInv'
<1>1. UNCHANGED <<consent, ink, armed, call, found, cookie, late, server, reused>>
  OBVIOUS
<1>2. PageTypeOK' /\ WipedAtTheEnd'
  BY <1>1 DEF CInv, TypeOK, PageTypeOK, WipedAtTheEnd, EndScreen
<1>3. ~ref'.token \/ consent' # "none" \/ armed' => Settled
  BY <1>1 DEF CInv, PageSettled
<1>4. OutcomeIsTrue /\ DeadEnds
  BY DEF CInv
<1> QED BY <1>1, <1>2, <1>3, <1>4, LocalStepInv DEF OutcomeIsTrue, DeadEnds

LEMMA GoToReviewInv ==
    ASSUME CInv, NEW v \in Reviews, GoToReview(v)
    PROVE  CInv'
<1>1. PICK rec : rec = [at |-> "capture", ink |-> ink]
  OBVIOUS
<1>2. /\ screen' = "ready" /\ ref' = ref /\ review' = [review EXCEPT ![v] = rec]
      /\ (crossed' = crossed /\ ~Capturing) \/ crossed'
      /\ review[v] = NoReview
      /\ UNCHANGED <<consent, ink, armed, call, found, cookie, late, server, reused>>
  BY <1>1 DEF GoToReview
<1>3. review \in [Reviews -> Review] /\ ref \in Ref /\ ink \in Nat /\ CapturesHold
  BY DEF CInv, TypeOK, PageTypeOK
<1>4. rec \in Review /\ rec.at = "capture"
  BY <1>1, <1>3 DEF Review
<1>5. /\ review' \in [Reviews -> Review] /\ review'[v] = rec
      /\ \A w \in Reviews \ {v} : review'[w] = review[w]
  BY <1>2, <1>3, <1>4
<1>6. crossed => crossed'
  BY <1>2
<1>7. ~crossed' => ~crossed /\ \A w \in Reviews : ~Running(w)
  BY <1>2 DEF Capturing, Running
<1>8. CapturesHold'
  BY <1>2, <1>3, <1>4, <1>5, <1>7 DEF CapturesHold, Running
<1> QED BY <1>2, <1>3, <1>5, <1>6, <1>8, CaptureStepInv

LEMMA InkCapturedInv ==
    ASSUME CInv, NEW v \in Reviews, InkCaptured(v)
    PROVE  CInv'
<1>1. PICK rec : rec = [review[v] EXCEPT !.at = "preview"]
  OBVIOUS
<1>2. /\ review[v].at = "capture" /\ ref' = [ref EXCEPT !.capture = review[v].ink]
      /\ review' = [review EXCEPT ![v] = rec]
      /\ UNCHANGED <<screen, crossed>>
      /\ UNCHANGED <<consent, ink, armed, call, found, cookie, late, server, reused>>
  BY <1>1 DEF InkCaptured, CaptureInk, ReviewUnchanged, net
<1>3. review \in [Reviews -> Review] /\ ref \in Ref /\ CapturesHold
  BY DEF CInv, TypeOK, PageTypeOK
<1>4. rec \in Review /\ rec.at = "preview" /\ rec.ink = review[v].ink
  BY <1>1, <1>3 DEF Review
<1>5. /\ review' \in [Reviews -> Review] /\ review'[v] = rec
      /\ \A w \in Reviews \ {v} : review'[w] = review[w]
  BY <1>2, <1>3, <1>4
<1>6. /\ ref' \in Ref /\ ref'.token = ref.token /\ ref'.key = ref.key
      /\ ref'.capture = review[v].ink /\ ref'.shown = ref.shown
  BY <1>2, <1>3 DEF Ref, Review
<1>7. CapturesHold'
  BY <1>2, <1>3, <1>4, <1>5, <1>6 DEF CapturesHold, Running
<1>8. Capturing'
  BY <1>4, <1>5 DEF Capturing
<1> QED BY <1>2, <1>5, <1>6, <1>7, <1>8, CaptureStepInv

LEMMA ReviewEndsInv ==
    ASSUME CInv, NEW v \in Reviews, ReviewShown(v) \/ ReviewFailed(v)
    PROVE  CInv'
<1>1. /\ review' = [review EXCEPT ![v] = OldReview] /\ screen' \in {"review", "error"}
      /\ UNCHANGED crossed
      /\ UNCHANGED <<consent, ink, armed, call, found, cookie, late, server, reused>>
  BY DEF ReviewShown, ReviewFailed, ReviewUnchanged, net
<1>2. review \in [Reviews -> Review] /\ ref \in Ref /\ CapturesHold
  BY DEF CInv, TypeOK, PageTypeOK
<1>3. /\ review' \in [Reviews -> Review] /\ review'[v].at = "done"
      /\ \A w \in Reviews \ {v} : review'[w] = review[w]
  BY <1>1, <1>2 DEF OldReview, Review
<1>4. CASE review[v].at = "preview" /\ ref' = [ref EXCEPT !.shown = review[v].ink]
  <2>1. /\ ref' \in Ref /\ ref'.token = ref.token /\ ref'.key = ref.key
        /\ ref'.capture = ref.capture /\ ref'.shown = review[v].ink
    BY <1>2, <1>4 DEF Ref, Review
  <2>2. CapturesHold'
    BY <1>1, <1>2, <1>3, <1>4, <2>1 DEF CapturesHold, Running
  <2> QED BY <1>1, <1>3, <2>1, <2>2, CaptureStepInv
<1>5. CASE review[v].at = "capture" /\ ref' = ref
  <2>1. CapturesHold'
    BY <1>1, <1>2, <1>3, <1>5 DEF CapturesHold, Running
  <2> QED BY <1>1, <1>2, <1>3, <1>5, <2>1, CaptureStepInv
<1> QED BY <1>4, <1>5 DEF ReviewShown, ReviewFailed

----------------------------------------------------------------------------
(* Submits.                                                                *)

\* An image that is not the reviewed one is sent beside a capture only.
LEMMA SubmitNowInv ==
    ASSUME CInv, NEW t \in Submits, SubmitNow(t), Ready
    PROVE  CInv'
<1>1. PICK img : img = Image
  OBVIOUS
<1>2. PICK req, rec : req = Request("complete") /\ rec = [req EXCEPT !.image = img]
  OBVIOUS
<1>3. /\ screen' = "submitting" /\ ref' = [ref EXCEPT !.retry = TRUE, !.key = TRUE]
      /\ call' = [call EXCEPT ![t] = rec] /\ crossed' = (crossed \/ Capturing)
      /\ UNCHANGED <<consent, ink, armed, review, cookie, late, server, reused>>
      /\ t \in Tasks /\ consent = "accepted"
  BY <1>1, <1>2 DEF SubmitNow, Tasks, Ready, net
<1>4. img \in Images
  BY <1>1 DEF Image, Images
<1>5. /\ rec \in Call /\ rec.at = "complete" /\ rec.answer = "none" /\ rec.image = img
      /\ rec.sent # "open" => server.link # "open"
  <2>1. /\ req \in Call /\ req.at = "complete" /\ req.answer = "none"
        /\ req.sent # "open" => server.link # "open"
    BY <1>2, RequestEffect DEF CInv, TypeOK
  <2> QED BY <1>2, <1>4, <2>1 DEF Call
<1>6. AnswerHolds(rec)
  BY <1>5 DEF AnswerHolds, Good
<1>7. crossed => crossed'
  BY <1>3
<1>8. ~crossed' => ~crossed /\ \A v \in Reviews : ~Running(v)
  BY <1>3 DEF Capturing, Running
<1>9. img = "other" => crossed'
  <2>1. ~crossed' => ref.capture \in {0, ref.shown}
    BY <1>8 DEF CInv, CapturesHold, Running
  <2> QED BY <1>1, <2>1 DEF Image
<1>10. /\ ref' \in Ref /\ ref'.token = ref.token /\ ref'.capture = ref.capture
       /\ ref'.shown = ref.shown
  BY <1>3 DEF CInv, TypeOK, PageTypeOK, Ref
<1>11. PageTypeOK' /\ WipedAtTheEnd'
  BY <1>3, <1>10 DEF CInv, TypeOK, PageTypeOK, WipedAtTheEnd, EndScreen
<1>12. CapturesHold'
  BY <1>3, <1>7, <1>10, CapturesStay
<1>13. Settled
  BY <1>3 DEF CInv, PageSettled
<1> QED BY <1>3, <1>5, <1>6, <1>7, <1>9, <1>10, <1>11, <1>12, <1>13, PageStepInv

LEMMA CompletedInv ==
    ASSUME CInv, NEW t \in Tasks, Completed(t), server.signer = "signed",
           call[t].at \notin {"idle", "exchange"},
           UNCHANGED <<consent, armed, review, crossed, cookie, late, server, reused>>
    PROVE  CInv'
<1>1. /\ ref' = [Wiped(ref) EXCEPT !.retry = FALSE] /\ ink' = 0 /\ screen' = "completed"
      /\ call' = [call EXCEPT ![t] = Idle]
  BY DEF Completed, Done
<1>2. PICK n : n = Wiped(ref)
  OBVIOUS
<1>3. n \in Ref /\ ~n.token /\ ~n.key /\ n.capture = 0 /\ n.shown = 0
  BY <1>2, WipedEffect DEF CInv, TypeOK, PageTypeOK
<1>4. ref' \in Ref /\ ~ref'.token /\ ~ref'.key /\ ref'.capture = 0 /\ ref'.shown = 0
  BY <1>1, <1>2, <1>3 DEF Ref
<1>5. PageTypeOK' /\ WipedAtTheEnd'
  BY <1>1, <1>4 DEF CInv, TypeOK, PageTypeOK, WipedAtTheEnd, EndScreen
<1>6. CapturesHold'
  BY <1>4, CapturesStay
<1>7. Settled
  BY DEF CInv, PageSettled
<1> QED BY <1>1, <1>4, <1>5, <1>6, <1>7, IdleHolds, PageStepInv

LEMMA SubmitLandedInv ==
    ASSUME CInv, NEW t \in Tasks, SubmitLanded(t)
    PROVE  CInv'
<1>1. /\ call[t].at = "complete" /\ AnswerHolds(call[t])
      /\ UNCHANGED <<consent, armed, review, crossed, cookie, late, server, reused>>
  BY DEF SubmitLanded, Landed, CInv, AnswersHold, net
<1>2. CASE Accepted(call[t].answer) /\ Completed(t)
  <2>1. server.signer = "signed"
    BY <1>1, <1>2 DEF Accepted, AnswerHolds, Good
  <2> QED BY <1>1, <1>2, <2>1, CompletedInv
<1>3. CASE /\ call[t].answer = "pending" /\ call' = Await(call, t, "wait")
           /\ UNCHANGED <<screen, busy, ref, ink, found>>
  <2>1. server.signer = "signed"
    BY <1>1, <1>3 DEF AnswerHolds, Good
  <2>2. PICK rec \in Call : /\ call' = [call EXCEPT ![t] = rec] /\ rec.at = "wait"
                            /\ rec.answer = "none" /\ rec.image = "none" /\ AnswerHolds(rec)
    BY <1>3, <2>1, AwaitEffect
  <2>3. PageTypeOK' /\ WipedAtTheEnd'
    BY <1>1, <1>3 DEF CInv, TypeOK, PageTypeOK, WipedAtTheEnd, EndScreen, Capturing
  <2>4. CapturesHold'
    BY <1>1, <1>3, CapturesStay
  <2>5. Settled
    BY <1>1 DEF CInv, PageSettled
  <2>6. OutcomeIsTrue /\ DeadEnds
    BY DEF CInv
  <2> QED BY <1>1, <1>3, <2>2, <2>3, <2>4, <2>5, <2>6, PageStepInv DEF OutcomeIsTrue, DeadEnds
<1>4. CASE /\ Failed(t) /\ HandleFailure(t) /\ call' = Done(call, t) /\ UNCHANGED <<ref, ink>>
  BY <1>1, <1>4, FailureInv
<1> QED BY <1>2, <1>3, <1>4 DEF SubmitLanded

LEMMA WaitForCompletionInv ==
    ASSUME CInv, NEW t \in Tasks, WaitForCompletion(t)
    PROVE  CInv'
<1>1. /\ call[t].at = "wait" /\ AnswerHolds(call[t])
      /\ UNCHANGED <<consent, armed, review, crossed, cookie, late, server, reused>>
  BY DEF WaitForCompletion, Landed, CInv, AnswersHold, net
<1>2. CASE /\ Failed(t) /\ HandleFailure(t) /\ call' = Done(call, t) /\ UNCHANGED <<ref, ink>>
  BY <1>1, <1>2, FailureInv
<1>3. CASE Completed(t)
  <2>1. server.signer = "signed"
    BY <1>1 DEF AnswerHolds
  <2> QED BY <1>1, <1>3, <2>1, CompletedInv
<1> QED BY <1>2, <1>3 DEF WaitForCompletion

----------------------------------------------------------------------------
(* The page is opened.                                                     *)

\* A page that has just been opened, whatever the server's state is.
LEMMA OpenedInv ==
    ASSUME NEW token \in BOOLEAN, screen' = "bootstrapping", consent' = "none", ink' = 0,
           ~armed', ref' = [NoRef EXCEPT !.token = token],
           review' \in [Reviews -> {NoReview, OldReview}],
           call' = Await([u \in Tasks |-> Idle], CHOOSE t \in Loads : TRUE,
                         IF token THEN "exchange" ELSE "session"),
           late' \subseteq {c \in Call : c.at \in Mutations},
           server' = server, server \in Server, SessionHolds(server),
           \A c \in late' : c.image = "other" => crossed',
           server'.image = "other" => crossed'
    PROVE  CInv'
<1>1. PICK l \in Tasks : l = CHOOSE t \in Loads : TRUE
  BY TaskAssumption DEF Tasks
<1>2. PICK at \in {"exchange", "session"} : at = IF token THEN "exchange" ELSE "session"
  OBVIOUS
<1>3. PICK rec : rec = Request(at)
  OBVIOUS
<1>4. /\ rec \in Call /\ rec.at = at /\ rec.answer = "none" /\ rec.image = "none"
      /\ rec.sent # "open" => server.link # "open" \/ (at = "exchange" /\ server.consumed)
  BY <1>3, RequestEffect
<1>5. call' = [[u \in Tasks |-> Idle] EXCEPT ![l] = rec]
  BY <1>1, <1>2, <1>3 DEF Await
<1>6. /\ call' \in [Tasks -> Call]
      /\ \A u \in Tasks : /\ call'[u].answer = "none" /\ call'[u].image = "none"
                          /\ call'[u].at \in {"idle", at}
                          /\ call'[u] \in {Idle, rec}
  BY <1>4, <1>5, IdleHolds
<1>7. ref' \in Ref /\ ref'.token = token /\ ref'.capture = 0
  BY DEF NoRef, Ref
<1>8. review' \in [Reviews -> Review] /\ \A v \in Reviews : review'[v].at \in {"idle", "done"}
  BY DEF NoReview, OldReview, Review
<1>9. TypeOK' /\ SessionHolds(server)' /\ OutcomeIsTrue' /\ WipedAtTheEnd'
  BY <1>6, <1>7, <1>8 DEF TypeOK, PageTypeOK, SessionHolds, OutcomeIsTrue, WipedAtTheEnd, EndScreen
<1>10. AnswersHold' /\ DeadEnds' /\ ImagesHold'
  <2>1. \A u \in Tasks : AnswerHolds(call[u])'
    BY <1>2, <1>4, <1>6, IdleHolds DEF AnswerHolds, Good
  <2> QED BY <1>6, <2>1 DEF AnswersHold, DeadEnds, ImagesHold
<1>11. ~token => Settled'
  BY <1>2, <1>6, <1>7 DEF Settled
<1>12. PageSettled'
  BY <1>2, <1>6, <1>7, <1>11 DEF PageSettled
<1>13. CapturesHold'
  BY <1>7, <1>8 DEF CapturesHold, Running
<1> QED BY <1>9, <1>10, <1>12, <1>13 DEF CInv

LEMMA ReloadInv ==
    ASSUME CInv, NEW token \in BOOLEAN, Reload(token)
    PROVE  CInv'
<1>1. /\ Open(token) /\ late' = late \cup GivenUp({call[t] : t \in Tasks})
      /\ UNCHANGED <<cookie, server, reused, crossed>>
  BY DEF Reload
<1>2. /\ call \in [Tasks -> Call] /\ server \in Server /\ SessionHolds(server)
      /\ late \subseteq {x \in Call : x.at \in Mutations} /\ ImagesHold
  BY DEF CInv, TypeOK
<1>3. /\ late' \subseteq {c \in Call : c.at \in Mutations}
      /\ \A c \in late' : c.image = "other" => crossed'
      /\ server'.image = "other" => crossed'
  BY <1>1, <1>2 DEF GivenUp, ImagesHold
<1>4. review' \in [Reviews -> {NoReview, OldReview}]
  BY <1>1 DEF Open
<1> QED BY <1>1, <1>2, <1>3, <1>4, OpenedInv DEF Open

----------------------------------------------------------------------------
(* The theorems.                                                           *)

LEMMA InitInv == Init => CInv
<1> SUFFICES ASSUME Init PROVE CInv
  OBVIOUS
<1>1. server = [link |-> "open", consumed |-> FALSE, signer |-> "pending", last |-> FALSE,
                agreed |-> FALSE, image |-> "none"]
  BY DEF Init
<1>2. server \in Server /\ SessionHolds(server) /\ server.image = "none"
  BY <1>1 DEF Server, Rows, Images, SessionHolds
<1>3. PICK l \in Tasks : l = CHOOSE t \in Loads : TRUE
  BY TaskAssumption DEF Tasks
<1>4. PICK rec : rec = Request("exchange")
  OBVIOUS
<1>5. /\ rec \in Call /\ rec.at = "exchange" /\ rec.answer = "none" /\ rec.image = "none"
      /\ rec.sent # "open" => server.link # "open" \/ server.consumed
  BY <1>2, <1>4, RequestEffect
<1>6. call = [[u \in Tasks |-> Idle] EXCEPT ![l] = rec]
  BY <1>3, <1>4 DEF Init, Await
<1>7. /\ call \in [Tasks -> Call]
      /\ \A u \in Tasks : /\ call[u].answer = "none" /\ call[u].image = "none"
                          /\ call[u].at \in {"idle", "exchange"}
                          /\ call[u] \in {Idle, rec}
  BY <1>5, <1>6, IdleHolds
<1>8. ref \in Ref /\ ref.token /\ ref.capture = 0
  BY DEF Init, NoRef, Ref
<1>9. review \in [Reviews -> Review] /\ \A v \in Reviews : review[v].at = "idle"
  BY DEF Init, NoReview, Review
<1>10. /\ screen = "bootstrapping" /\ consent = "none" /\ ink = 0 /\ ~armed /\ late = {}
  BY DEF Init
<1>11. TypeOK /\ OutcomeIsTrue /\ WipedAtTheEnd
  BY <1>2, <1>7, <1>8, <1>9, <1>10 DEF TypeOK, PageTypeOK, OutcomeIsTrue, WipedAtTheEnd, EndScreen
<1>12. AnswersHold /\ DeadEnds /\ ImagesHold
  <2>1. \A u \in Tasks : AnswerHolds(call[u])
    BY <1>5, <1>7, IdleHolds DEF AnswerHolds, Good
  <2> QED BY <1>2, <1>7, <1>10, <2>1 DEF AnswersHold, DeadEnds, ImagesHold
<1>13. PageSettled
  BY <1>7, <1>8, <1>10 DEF PageSettled
<1>14. CapturesHold
  BY <1>8, <1>9 DEF CapturesHold, Running
<1> QED BY <1>2, <1>11, <1>12, <1>13, <1>14 DEF CInv

LEMMA StutterInv ==
    ASSUME CInv, UNCHANGED vars
    PROVE  CInv'
<1>1. PageUnchanged /\ UNCHANGED <<call, cookie, late, server, reused>>
  BY DEF vars, PageUnchanged
<1>2. AnswersHold'
  BY <1>1 DEF CInv, AnswersHold, AnswerHolds, Good
<1> QED BY <1>1, <1>2, ServerStepInv DEF CInv, TypeOK, ImagesHold

LEMMA NextInv == CInv /\ [Next]_vars => CInv'
<1> SUFFICES ASSUME CInv, [Next]_vars PROVE CInv'
  OBVIOUS
<1>1. ASSUME NEW t \in Tasks, Progress(t) PROVE CInv'
  BY <1>1, AnswerInv, ExchangedInv, SessionLoadedInv, SessionSettledInv, SessionOverInv,
     WorkspaceLoadedInv, LoadFailedInv, ConsentLandedInv, DeclineLandedInv, SubmitLandedInv, WaitForCompletionInv
  DEF Progress
<1>2. ASSUME NEW t \in Tasks, Refuse(t) \/ Timeout(t) PROVE CInv'
  BY <1>2, NoAnswerInv
<1>3. ASSUME NEW c \in late, HandleLate(c) PROVE CInv'
  BY <1>3, HandleLateInv
<1>4. CASE SessionEnds \/ ExpiryTimer
  BY <1>4, SessionEndsInv, ExpiryTimerInv
<1>5. ASSUME NEW t \in Loads, RetryExchange(t) \/ RetryBootstrap(t) PROVE CInv'
  BY <1>5, RetryExchangeInv, RetryBootstrapInv
<1>6. CASE Draw \/ Back \/ RetryNotReady \/ AcceptConsent \/ ConfirmDecline
  BY <1>6, StaysOpenInv, AcceptOrDeclineInv
<1>7. ASSUME NEW t \in Submits, Submit(t) \/ RetrySubmit(t) PROVE CInv'
  BY <1>7, SubmitNowInv DEF Submit, RetrySubmit
<1>8. ASSUME NEW v \in Reviews,
             GoToReview(v) \/ InkCaptured(v) \/ ReviewShown(v) \/ ReviewFailed(v)
      PROVE  CInv'
  BY <1>8, GoToReviewInv, InkCapturedInv, ReviewEndsInv
<1>9. ASSUME NEW token \in BOOLEAN, Reload(token) PROVE CInv'
  BY <1>9, ReloadInv
<1>10. CASE UNCHANGED vars
  BY <1>10, StutterInv
<1> QED BY <1>1, <1>2, <1>3, <1>4, <1>5, <1>6, <1>7, <1>8, <1>9, <1>10 DEF Next

\* The joint invariant of page, requests in flight and the signer's session.
THEOREM ClientInvariant == Spec => []CInv
<1> QED BY InitInv, NextInv, PTL DEF Spec

\* "Signing complete" and "You declined" are true when they are shown: of the
\* answers that submit and confirmDecline act on, none is overtaken by a later
\* change of the signer, however many requests are lost, late or retried.
THEOREM ClientOutcomeIsTrue == Spec => []OutcomeIsTrue
<1>1. CInv => OutcomeIsTrue
  BY DEF CInv
<1> QED BY <1>1, ClientInvariant, PTL

\* handleFailure shows a dead end while the browser has a working session only
\* after the used link was offered again.
THEOREM ClientDeadEndIsDead == Spec => []DeadEndIsDead
<1>1. CInv => DeadEndIsDead
  BY DEF CInv, DeadEnds, Dead, DeadEndIsDead, Usable
<1> QED BY <1>1, ClientInvariant, PTL

\* Only a capture that crosses another one or a submit lets complete() store ink
\* other than the reviewed one.
THEOREM ClientStoredIsReviewed == Spec => []StoredIsReviewed
<1>1. CInv => StoredIsReviewed
  BY DEF CInv, ImagesHold, StoredIsReviewed
<1> QED BY <1>1, ClientInvariant, PTL

\* wipeSensitiveState runs on every way to an end but one, the load that finds
\* the signer settled; on the others, what is left afterwards is put there by a
\* capture that is still running, however the requests and captures interleave.
THEOREM ClientWipedAtTheEnd == Spec => []WipedAtTheEnd
<1>1. CInv => WipedAtTheEnd
  BY DEF CInv
<1> QED BY <1>1, ClientInvariant, PTL
=============================================================================

-------------------------- MODULE DocumentLifecycle -------------------------
(***************************************************************************)
(* What the signing of a document looks like from outside: the document    *)
(* and its roster change in single steps, each of which finds everything   *)
(* it depends on as it is at that moment.  No requests, reads, versions or *)
(* sessions appear here; the module Signing, in which a handler decides on *)
(* rows that it read some time before its transaction, is shown to         *)
(* implement this one.                                                     *)
(***************************************************************************)
EXTENDS Integers

CONSTANTS
    Signers,   \* the roster
    Order      \* routing order; parallel signers share one

VARIABLES
    state,     \* state of the document
    status     \* status[s]: "pending", "signed" or "declined"

vars == <<state, status>>

Init ==
    /\ state = "prepared"
    /\ status = [s \in Signers |-> "pending"]

Open == state \in {"sent", "in_progress"}

\* Everybody ahead of s has signed.
ItsTurn(s) == \A t \in Signers : Order[t] < Order[s] => status[t] = "signed"

AllSigned == \A s \in Signers : status[s] = "signed"

Send ==
    /\ state \in {"draft", "prepared"}
    /\ state' = "sent"
    /\ UNCHANGED status

\* A signature, which takes the document to in_progress; the last one may
\* complete it.
Sign(s) ==
    /\ Open /\ status[s] = "pending"
    /\ status' = [status EXCEPT ![s] = "signed"]
    /\ state' = "in_progress" \/ (AllSigned' /\ state' = "completed")
    /\ ItsTurn(s)

\* When the last two signatures did not see each other, a second submission
\* of one of them completes the document, if there is one.
Complete ==
    /\ state = "in_progress" /\ AllSigned
    /\ state' = "completed"
    /\ UNCHANGED status

Decline(s) ==
    /\ Open /\ status[s] = "pending"
    /\ state' = "declined"
    /\ status' = [status EXCEPT ![s] = "declined"]
    /\ ItsTurn(s)

Void ==
    /\ Open \/ state \in {"draft", "prepared"}
    /\ state' = "voided"
    /\ UNCHANGED status

Next ==
    \/ Send \/ Complete \/ Void
    \/ \E s \in Signers : Sign(s) \/ Decline(s)

Spec == Init /\ [][Next]_vars
=============================================================================

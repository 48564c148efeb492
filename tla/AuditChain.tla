----------------------------- MODULE AuditChain -----------------------------
(* The audit log of one document: a hash chain of rows that transactions     *)
(* extend under an advisory lock, and the verification that walks the chain, *)
(* compares it with the latest checkpoint in the object store and anchors    *)
(* its head there.                                                           *)
(*                                                                           *)
(* A transaction appends one or several events among its other statements    *)
(* (a send appends one per signer) and sees the rows that were committed     *)
(* before each of its statements, and its own (READ COMMITTED).  A           *)
(* verification is several reads, without a transaction around them.         *)
EXTENDS Naturals

CONSTANTS
    Writers,     \* slots of concurrent transactions
    Verifiers,   \* slots of concurrent verifications (worker, endpoint, CLI)
    Contents,    \* type, actor, time and payload of an event
    Genesis,     \* AUDIT_GENESIS_PREVIOUS_EVENT_HASH
    MaxEvents,   \* bound: rows of the chain
    NoHolder     \* nobody holds the lock

ASSUME AuditAssumption == MaxEvents \in Nat \ {0} /\ NoHolder \notin Writers

VARIABLES
    log,         \* committed rows of audit_logs
    lock,        \* holder of the advisory lock of this document, or NoHolder
    writer,      \* transaction in each slot
    checkpoint,  \* objects under audit-checkpoints/<documentId>/
    verifier     \* verification in each slot

auditVars == <<log, lock, writer, checkpoint, verifier>>

----------------------------------------------------------------------------
(* Rows and hashes.  SHA-256 of the canonical event is taken to be           *)
(* collision-free: the hash is the tuple of what is hashed.                  *)

ComputeAuditEventHash(previous, sequence, content) == <<previous, sequence, content>>

AuditRow(sequence, previous, content) ==
    [sequence |-> sequence, content |-> content, previousEventHash |-> previous,
     eventHash |-> ComputeAuditEventHash(previous, sequence, content)]

\* findFirst ordered by sequence, descending: the row, or none of an empty chain.
Latest(rows) == {row \in rows : \A q \in rows : q.sequence <= row.sequence}

TheRow(latest) == CHOOSE row \in latest : TRUE

NextSequence(latest) == IF latest = {} THEN 0 ELSE TheRow(latest).sequence + 1

\* Variant: the link repeats the predecessor's link instead of its hash.
PreviousHashOfPrevious(latest) ==
    IF latest = {} THEN Genesis ELSE TheRow(latest).previousEventHash

PreviousHash(latest) == IF latest = {} THEN Genesis ELSE TheRow(latest).eventHash

----------------------------------------------------------------------------
(* Transactions.  step: "none" in a free slot, "work" between two appends,   *)
(* "locked" once the lock is held, "read" once the latest row is known.      *)

NoTransaction == [step |-> "none", rows |-> {}, latest |-> {}]
NoVerification == [step |-> "none", events |-> {}, failures |-> {}]

\* createDraftDocument commits the document with its first event, so that no
\* other transaction meets an empty chain.
AuditInit ==
    /\ \E c \in Contents : log = {AuditRow(0, Genesis, c)}
    /\ lock = NoHolder
    /\ writer = [w \in Writers |-> NoTransaction]
    /\ checkpoint = {}
    /\ verifier = [v \in Verifiers |-> NoVerification]

Begin(w) ==
    /\ writer[w].step = "none"
    /\ writer' = [writer EXCEPT ![w].step = "work"]
    /\ UNCHANGED <<log, lock, checkpoint, verifier>>

\* Variant: a lock that is released when its own statement ends.
LockDocumentAuditChainBriefly(w) ==
    /\ lock \in {NoHolder, w}
    /\ lock' = lock

\* pg_advisory_xact_lock: waits for another holder, may be taken again by its
\* own, and is kept until the transaction ends.
LockDocumentAuditChain(w) ==
    /\ lock \in {NoHolder, w}
    /\ lock' = w

AppendLock(w) ==
    /\ writer[w].step = "work"
    /\ LockDocumentAuditChain(w)
    /\ writer' = [writer EXCEPT ![w].step = "locked"]
    /\ UNCHANGED <<log, checkpoint, verifier>>

AppendRead(w) ==
    /\ writer[w].step = "locked"
    /\ writer' = [writer EXCEPT ![w] =
            [step |-> "read", rows |-> writer[w].rows,
             latest |-> Latest(log \cup writer[w].rows)]]
    /\ UNCHANGED <<log, lock, checkpoint, verifier>>

\* Rows of another open transaction: not visible, but the unique index on
\* (documentId, sequence) makes an INSERT wait for them.
RowsOfOthers(w) ==
    UNION {writer[u].rows : u \in Writers \ {w}}

\* A sequence that is taken makes the INSERT wait or fail; a failed statement
\* ends in Rollback.
AppendCreate(w) ==
    /\ writer[w].step = "read"
    /\ LET sequence == NextSequence(writer[w].latest)
       IN  /\ sequence < MaxEvents
           /\ \A q \in log \cup RowsOfOthers(w) : q.sequence # sequence
           /\ \E c \in Contents :
                 writer' = [writer EXCEPT
                    ![w] = [step |-> "work", latest |-> {},
                            rows |-> writer[w].rows \cup
                               {AuditRow(sequence, PreviousHash(writer[w].latest), c)}]]
    /\ UNCHANGED <<log, lock, checkpoint, verifier>>

Release(w) == lock' = IF lock = w THEN NoHolder ELSE lock

Commit(w) ==
    /\ writer[w].step = "work"
    /\ log' = log \cup writer[w].rows
    /\ Release(w)
    /\ writer' = [writer EXCEPT ![w] = NoTransaction]
    /\ UNCHANGED <<checkpoint, verifier>>

\* A conflict, a rejected statement, a deadlock victim or a lost connection.
Rollback(w) ==
    /\ writer[w].step # "none"
    /\ Release(w)
    /\ writer' = [writer EXCEPT ![w] = NoTransaction]
    /\ UNCHANGED <<log, checkpoint, verifier>>

----------------------------------------------------------------------------
(* Verification.  The rows come ordered by sequence and the index makes      *)
(* their sequences distinct, so that SEQUENCE_REORDER cannot be reported.    *)

\* A failure code, when its condition holds.
Code(code, condition) == IF condition THEN {code} ELSE {}

Before(events, e) == {q \in events : q.sequence < e.sequence}

EventFailures(events, e) ==
    Code("SEQUENCE_GAP",
         \E n \in 0 .. e.sequence : \A q \in events : q.sequence # n)
    \cup Code("GENESIS_PREVIOUS_HASH_MISMATCH",
         Before(events, e) = {} /\ e.previousEventHash # Genesis)
    \cup Code("PREVIOUS_HASH_MISMATCH",
         \E q \in Latest(Before(events, e)) : e.previousEventHash # q.eventHash)
    \cup Code("HASH_MISMATCH",
         e.eventHash # ComputeAuditEventHash(e.previousEventHash, e.sequence, e.content))

ChainFailures(events) ==
    IF events = {} THEN {"EMPTY_CHAIN"} ELSE UNION {EventFailures(events, e) : e \in events}

\* listByDocument, one statement, and the walk over what it returned.
VerifyList(v) ==
    /\ verifier[v].step = "none"
    /\ verifier' = [verifier EXCEPT ![v] =
            [step |-> "listed", events |-> log, failures |-> ChainFailures(log)]]
    /\ UNCHANGED <<log, lock, writer, checkpoint>>

\* Variant: the checkpoint vouches for a sequence, its hash is not compared.
CheckpointFailuresBySequence(events, anchors) ==
    Code("CHECKPOINT_MISMATCH",
         \E c \in Latest(anchors) : ~\E e \in events : e.sequence = c.sequence)

\* Variant: the checkpoint is compared with the head of the chain.
CheckpointFailuresAtHead(events, anchors) ==
    Code("CHECKPOINT_MISMATCH",
         \E c \in Latest(anchors) :
            ~\E e \in Latest(events) : e.eventHash = c.eventHash)

\* The latest checkpoint has to be found among the events at its sequence.
CheckpointFailures(events, anchors) ==
    Code("CHECKPOINT_MISMATCH",
         \E c \in Latest(anchors) :
            ~\E e \in events : e.sequence = c.sequence /\ e.eventHash = c.eventHash)

\* getLatest: keys are never rewritten with another hash or deleted, so that
\* its listing decides what the gets that follow return.  With anchoring
\* disabled, or a store that fails, a warning takes the place of the check.
VerifyCheckpoint(v) ==
    /\ verifier[v].step = "listed"
    /\ \E found \in {CheckpointFailures(verifier[v].events, checkpoint), {}} :
          verifier' = [verifier EXCEPT ![v] =
             [step |-> "compared", events |-> verifier[v].events,
              failures |-> verifier[v].failures \cup found]]
    /\ UNCHANGED <<log, lock, writer, checkpoint>>

ChainHead(v) == TheRow(Latest(verifier[v].events))

\* Variant: the number of events in place of the sequence of the head.
AnchorOfCount(e) == [sequence |-> e.sequence + 1, eventHash |-> e.eventHash]

AnchorOf(e) == [sequence |-> e.sequence, eventHash |-> e.eventHash]

\* putIfAbsent up to the write: only a verification without failures goes on,
\* and only when the get, and the store's own look before it writes, find no
\* object under the key (one with another anchoredAt is a conflict, which
\* becomes a warning).
AnchorGet(v) ==
    /\ verifier[v].step = "compared"
    /\ verifier[v].failures = {}
    /\ \A c \in checkpoint : c.sequence # AnchorOf(ChainHead(v)).sequence
    /\ verifier' = [verifier EXCEPT ![v].step = "absent"]
    /\ UNCHANGED <<log, lock, writer, checkpoint>>

\* putIfAbsent, the write, which is unconditional: whatever is under the key by then is replaced.
AnchorPut(v) ==
    /\ verifier[v].step = "absent"
    /\ LET anchor == AnchorOf(ChainHead(v))
       IN  checkpoint' = {c \in checkpoint : c.sequence # anchor.sequence} \cup {anchor}
    /\ verifier' = [verifier EXCEPT ![v].step = "anchored"]
    /\ UNCHANGED <<log, lock, writer>>

\* The report is published; or the process ends, or the store refuses the put,
\* before it.
VerifyEnd(v) ==
    /\ verifier[v].step # "none"
    /\ verifier' = [verifier EXCEPT ![v] = NoVerification]
    /\ UNCHANGED <<log, lock, writer, checkpoint>>

----------------------------------------------------------------------------
AuditNext ==
    \/ \E w \in Writers :
          \/ Begin(w) \/ AppendLock(w) \/ AppendRead(w) \/ AppendCreate(w)
          \/ Commit(w) \/ Rollback(w)
    \/ \E v \in Verifiers :
          \/ VerifyList(v) \/ VerifyCheckpoint(v) \/ AnchorGet(v) \/ AnchorPut(v)
          \/ VerifyEnd(v)

AuditSpec == AuditInit /\ [][AuditNext]_auditVars

----------------------------------------------------------------------------
(* Properties.                                                              *)

\* The lock has a holder that runs a transaction, steps stay in their
\* enumerations, and no row lies past the bound.
ChainTypeOK ==
    /\ lock \in Writers \cup {NoHolder}
    /\ lock # NoHolder => writer[lock].step # "none"
    /\ \A w \in Writers : writer[w].step \in {"none", "work", "locked", "read"}
    /\ \A v \in Verifiers :
          verifier[v].step \in {"none", "listed", "compared", "absent", "anchored"}
    /\ \A r \in log : r.sequence \in 0 .. MaxEvents - 1

\* Whatever transactions append at the same time, in whatever order they
\* commit or roll back, the committed rows pass the verification: no gap, no
\* broken link, no wrong hash.
ChainIntact == ChainFailures(log) = {}

\* appendInClient computes the sequence from a row it read before its INSERT:
\* no row that was committed or inserted since has taken that sequence, so
\* that the unique index never rejects a business transaction.
AppendsNeverCollide ==
    \A w \in Writers :
        writer[w].step = "read" =>
            \A q \in log \cup RowsOfOthers(w) : q.sequence < NextSequence(writer[w].latest)

\* A checkpoint always names a committed row by its sequence and its hash,
\* also when several verifications with older and newer snapshots anchor at
\* the same time: history that was anchored is never contradicted.
CheckpointsMatchChain ==
    \A c \in checkpoint :
        \E r \in log : r.sequence = c.sequence /\ r.eventHash = c.eventHash

\* On a log that nobody altered, a verification reports a failure only when a
\* checkpoint past its own snapshot was anchored meanwhile.
AlarmOnlyWhenOvertaken ==
    \A v \in Verifiers :
        verifier[v].failures # {} =>
            /\ verifier[v].failures = {"CHECKPOINT_MISMATCH"}
            /\ \E c \in checkpoint : \A e \in verifier[v].events : e.sequence < c.sequence

(* Tables that stand in for the log when something else than the application *)
(* wrote to it.                                                              *)

Upto(rows, n) == {r \in rows : r.sequence <= n}

\* A row with another content, and a row that is gone.
Edited ==
    {(log \ {r}) \cup {[sequence |-> r.sequence, content |-> c, eventHash |-> r.eventHash,
                        previousEventHash |-> r.previousEventHash]} : r \in log, c \in Contents}

Removed == {log \ {r} : r \in log}

\* The whole chain of the given contents, with links and hashes that agree.
Rebuilt(content, n) ==
    LET previous[k \in 0 .. n] ==
            IF k = 0 THEN Genesis
            ELSE ComputeAuditEventHash(previous[k - 1], k - 1, content[k - 1])
    IN  {AuditRow(k, previous[k], content[k]) : k \in 0 .. n}

Replaced ==
    UNION {{Rebuilt(content, n) : content \in [0 .. n -> Contents]} : n \in 0 .. MaxEvents - 1}

\* A verification of these rows that reports nothing vouches for the history
\* up to every checkpoint.
VouchesForHistory(rows) ==
    ChainFailures(rows) = {} /\ CheckpointFailures(rows, checkpoint) = {} =>
        \A c \in checkpoint : Upto(rows, c.sequence) = Upto(log, c.sequence)

\* Rows that were edited, removed or replaced by a whole other chain pass
\* verifyAuditChain only when they agree with the committed log up to every
\* checkpoint; the walk alone accepts any chain that is consistent in itself,
\* and the latest checkpoint alone names a single row.
AlterationsAreSeen ==
    checkpoint # {} => \A rows \in Edited \cup Removed \cup Replaced : VouchesForHistory(rows)
============================================================================

-------------------------- MODULE AuditChainProofs --------------------------
(***************************************************************************)
(* Proofs about AuditChain for every number of transactions and            *)
(* verifications, every set of contents and every length of chain: IInv    *)
(* is inductive, hence the chain that concurrent transactions build always *)
(* passes its verification, and checkpoints agree with it.                 *)
(***************************************************************************)
EXTENDS AuditChain, WellFoundedInduction, TLAPS

USE AuditAssumption

----------------------------------------------------------------------------
(* The inductive invariant.                                                *)

\* What the sequence and link columns of a set of rows have to satisfy for
\* appendInClient to extend it and for verifyAuditChain to accept it.  That a
\* last row exists is part of it: appends keep it, so no induction is needed.
Chain(rows) ==
    /\ \A r \in rows : r.sequence \in 0 .. MaxEvents - 1
    /\ \A r \in rows :
          r.eventHash = ComputeAuditEventHash(r.previousEventHash, r.sequence, r.content)
    /\ \A r \in rows : r = AuditRow(r.sequence, r.previousEventHash, r.content)
    /\ \A r, q \in rows : r.sequence = q.sequence => r = q
    /\ \A r \in rows : r.sequence = 0 => r.previousEventHash = Genesis
    /\ \A r \in rows : r.sequence # 0 =>
          \E q \in rows : q.sequence + 1 = r.sequence /\ q.eventHash = r.previousEventHash
    /\ \A r \in rows : \A n \in 0 .. r.sequence : \E q \in rows : q.sequence = n
    /\ \E r \in rows : \A q \in rows : q.sequence <= r.sequence

Shape ==
    /\ writer = [w \in Writers |-> writer[w]]
    /\ verifier = [v \in Verifiers |-> verifier[v]]
    /\ \A w \in Writers :
          writer[w] = [step |-> writer[w].step, rows |-> writer[w].rows,
                       latest |-> writer[w].latest]
    /\ \A v \in Verifiers :
          verifier[v] = [step |-> verifier[v].step, events |-> verifier[v].events,
                         failures |-> verifier[v].failures]
    /\ \A c \in checkpoint : c.sequence \in Nat

\* Only the holder of the lock has read the chain or has rows of its own.
LockHeld ==
    \A w \in Writers :
        /\ writer[w].step \in {"locked", "read"} => lock = w
        /\ writer[w].rows # {} => lock = w
        /\ writer[w].step = "none" => writer[w].rows = {}

\* The committed rows form a chain, and so they do with the rows of any open
\* transaction.
ChainsInv ==
    /\ Chain(log)
    /\ \A w \in Writers : Chain(log \cup writer[w].rows)

\* The row that appendInClient read is still the latest one.
ReadInv ==
    \A w \in Writers :
        writer[w].step = "read" => writer[w].latest = Latest(log \cup writer[w].rows)

\* A verification holds a prefix of the committed chain.
SnapshotInv ==
    \A v \in Verifiers :
        verifier[v].step # "none" =>
            /\ verifier[v].events \subseteq log
            /\ Latest(verifier[v].events) # {}
            /\ \A e \in verifier[v].events, r \in log :
                  r.sequence <= e.sequence => r \in verifier[v].events

IdleVerifiers ==
    \A v \in Verifiers : verifier[v].step = "none" => verifier[v].failures = {}

IInv ==
    /\ ChainTypeOK /\ Shape
    /\ LockHeld /\ ChainsInv /\ ReadInv
    /\ SnapshotInv /\ IdleVerifiers
    /\ CheckpointsMatchChain /\ AlarmOnlyWhenOvertaken

----------------------------------------------------------------------------
(* Lemmas about the operators.                                             *)

\* findFirst by descending sequence (appendInClient) finds exactly one row of a
\* chain, and the sequence and the link of the next row come from it.
LEMMA LatestOfChain ==
    ASSUME NEW rows, Chain(rows)
    PROVE  \E r \in rows :
              /\ \A q \in rows : q.sequence <= r.sequence
              /\ Latest(rows) = {r}
              /\ TheRow(Latest(rows)) = r
              /\ NextSequence(Latest(rows)) = r.sequence + 1
              /\ PreviousHash(Latest(rows)) = r.eventHash
<1>1. PICK r \in rows : \A q \in rows : q.sequence <= r.sequence
  BY DEF Chain
<1>2. \A q \in rows : q.sequence \in Nat
  BY DEF Chain
<1>3. \A q \in Latest(rows) : q = r
  BY <1>1, <1>2 DEF Chain, Latest
<1>4. Latest(rows) = {r}
  BY <1>1, <1>3 DEF Latest
<1>5. TheRow(Latest(rows)) = r
  BY <1>4 DEF TheRow
<1> QED
  BY <1>1, <1>4, <1>5 DEF NextSequence, PreviousHash

\* The sequence that appendInClient computes from the latest row is taken by none.
LEMMA NextSequenceIsFree ==
    ASSUME NEW rows, Chain(rows)
    PROVE  /\ NextSequence(Latest(rows)) \in Nat
           /\ \A q \in rows : q.sequence < NextSequence(Latest(rows))
<1>1. PICK r \in rows :
         /\ \A q \in rows : q.sequence <= r.sequence
         /\ NextSequence(Latest(rows)) = r.sequence + 1
  BY LatestOfChain
<1>2. \A q \in rows : q.sequence \in Nat
  BY DEF Chain
<1> QED BY <1>1, <1>2

\* The first event of createDraftDocument is a chain.
LEMMA GenesisChain ==
    ASSUME NEW c
    PROVE  Chain({AuditRow(0, Genesis, c)})
BY DEF Chain, AuditRow

\* The row that appendInClient creates from the latest row extends the chain.
LEMMA AppendExtendsChain ==
    ASSUME NEW rows, Chain(rows), NEW c, NextSequence(Latest(rows)) < MaxEvents
    PROVE  Chain(rows \cup {AuditRow(NextSequence(Latest(rows)), PreviousHash(Latest(rows)), c)})
<1>1. PICK r \in rows :
         /\ \A q \in rows : q.sequence <= r.sequence
         /\ NextSequence(Latest(rows)) = r.sequence + 1
         /\ PreviousHash(Latest(rows)) = r.eventHash
  BY LatestOfChain
<1> DEFINE new == AuditRow(r.sequence + 1, r.eventHash, c)
           all == rows \cup {new}
<1>2. /\ new.sequence = r.sequence + 1
      /\ new.previousEventHash = r.eventHash
      /\ new.eventHash = ComputeAuditEventHash(new.previousEventHash, new.sequence, new.content)
      /\ new = AuditRow(new.sequence, new.previousEventHash, new.content)
  BY DEF AuditRow
<1> HIDE DEF new
<1>3. \A q \in rows : q.sequence \in Nat
  BY DEF Chain
<1>4. \A q \in all : q.sequence \in 0 .. MaxEvents - 1
  BY <1>1, <1>2, <1>3 DEF Chain
<1>5. \A q, p \in all : q.sequence = p.sequence => q = p
  BY <1>1, <1>2, <1>3 DEF Chain
<1>6. \A q \in all : q.sequence # 0 =>
         \E p \in all : p.sequence + 1 = q.sequence /\ p.eventHash = q.previousEventHash
  BY <1>1, <1>2, <1>3 DEF Chain
<1>7. \A q \in all : \A n \in 0 .. q.sequence : \E p \in all : p.sequence = n
  <2>1. \A q \in rows : \A n \in 0 .. q.sequence : \E p \in all : p.sequence = n
    BY DEF Chain
  <2>2. \A n \in 0 .. new.sequence : n \in 0 .. r.sequence \/ n = new.sequence
    BY <1>1, <1>2, <1>3
  <2>3. \A n \in 0 .. new.sequence : \E p \in all : p.sequence = n
    BY <2>1, <2>2, <1>1
  <2> QED BY <2>1, <2>3
<1>8. \A q \in all : q.sequence <= new.sequence
  BY <1>1, <1>2, <1>3
<1>9. \A q \in all : q.sequence = 0 => q.previousEventHash = Genesis
  BY <1>1, <1>2, <1>3 DEF Chain
<1>10. \A q \in all :
         /\ q.eventHash = ComputeAuditEventHash(q.previousEventHash, q.sequence, q.content)
         /\ q = AuditRow(q.sequence, q.previousEventHash, q.content)
  BY <1>2 DEF Chain
<1>11. new \in all
  OBVIOUS
<1>12. Chain(all)
  BY <1>4, <1>5, <1>6, <1>7, <1>8, <1>9, <1>10, <1>11 DEF Chain
<1> QED BY <1>12, <1>1 DEF new

\* verifyAuditChain reports nothing on a chain.
LEMMA ChainPasses ==
    ASSUME NEW rows, Chain(rows)
    PROVE  ChainFailures(rows) = {}
<1>1. \A q \in rows : q.sequence \in Nat
  BY DEF Chain
<1>2. rows # {}
  BY DEF Chain
<1>3. ASSUME NEW e \in rows
      PROVE  EventFailures(rows, e) = {}
  <2>1. ~\E n \in 0 .. e.sequence : \A q \in rows : q.sequence # n
    BY DEF Chain
  <2>2. ~(Before(rows, e) = {} /\ e.previousEventHash # Genesis)
    BY <1>1 DEF Chain, Before
  <2>3. ~\E q \in Latest(Before(rows, e)) : e.previousEventHash # q.eventHash
    <3> SUFFICES ASSUME NEW q \in Latest(Before(rows, e))
                 PROVE  e.previousEventHash = q.eventHash
      OBVIOUS
    <3>1. q \in rows /\ q.sequence < e.sequence /\ e.sequence # 0
      BY <1>1 DEF Latest, Before
    <3>2. PICK p \in rows : p.sequence + 1 = e.sequence /\ p.eventHash = e.previousEventHash
      BY <3>1 DEF Chain
    <3>3. p.sequence <= q.sequence
      BY <1>1, <3>2 DEF Latest, Before
    <3>4. p.sequence = q.sequence
      BY <1>1, <3>1, <3>2, <3>3
    <3> QED BY <3>1, <3>2, <3>4 DEF Chain
  <2>4. e.eventHash = ComputeAuditEventHash(e.previousEventHash, e.sequence, e.content)
    BY DEF Chain
  <2> QED BY <2>1, <2>2, <2>3, <2>4 DEF EventFailures, Code
<1> QED BY <1>2, <1>3 DEF ChainFailures

----------------------------------------------------------------------------
(* Every action keeps the invariant.                                       *)

\* A new document satisfies the inductive invariant.
LEMMA InitInv == AuditInit => IInv
<1> SUFFICES ASSUME AuditInit PROVE IInv
  OBVIOUS
<1> USE DEF AuditInit, NoTransaction, NoVerification
<1>1. Chain(log)
  BY GenesisChain
<1>2. ChainTypeOK /\ Shape
  BY <1>1 DEF ChainTypeOK, Shape, Chain
<1>3. LockHeld /\ ReadInv
  BY DEF LockHeld, ReadInv
<1>4. ChainsInv
  <2>1. \A w \in Writers : log \cup writer[w].rows = log
    OBVIOUS
  <2> QED BY <1>1, <2>1 DEF ChainsInv
<1>5. SnapshotInv /\ IdleVerifiers /\ CheckpointsMatchChain /\ AlarmOnlyWhenOvertaken
  BY DEF SnapshotInv, IdleVerifiers, CheckpointsMatchChain, AlarmOnlyWhenOvertaken
<1> QED BY <1>2, <1>3, <1>4, <1>5 DEF IInv

\* A step of a transaction that commits nothing does not touch what
\* verifications and checkpoints rely on.
LEMMA WriterFrame ==
    ASSUME IInv, UNCHANGED <<log, checkpoint, verifier>>
    PROVE  SnapshotInv' /\ IdleVerifiers' /\ CheckpointsMatchChain' /\ AlarmOnlyWhenOvertaken'
BY DEF IInv, SnapshotInv, IdleVerifiers, CheckpointsMatchChain, AlarmOnlyWhenOvertaken

\* A step of verifyAuditChain does not touch rows, lock or transactions.
LEMMA VerifierFrame ==
    ASSUME IInv, UNCHANGED <<log, lock, writer>>
    PROVE  LockHeld' /\ ChainsInv' /\ ReadInv'
BY DEF IInv, LockHeld, ChainsInv, ReadInv

\* A transaction that begins has neither rows nor the lock.
LEMMA BeginInv ==
    ASSUME IInv, NEW w \in Writers, Begin(w)
    PROVE  IInv'
<1> USE DEF IInv, Begin
<1>1. Shape'
  BY DEF Shape
<1>2. ChainTypeOK'
  BY DEF ChainTypeOK, Shape
<1>3. LockHeld'
  BY DEF LockHeld, Shape
<1>4. ChainsInv'
  <2>1. \A u \in Writers : writer'[u].rows = writer[u].rows
    BY DEF Shape
  <2> QED BY <2>1 DEF ChainsInv
<1>5. ReadInv'
  BY DEF ReadInv, Shape
<1> QED BY <1>1, <1>2, <1>3, <1>4, <1>5, WriterFrame

\* lockDocumentAuditChain: the transaction becomes the only holder.
LEMMA AppendLockInv ==
    ASSUME IInv, NEW w \in Writers, AppendLock(w)
    PROVE  IInv'
<1> USE DEF IInv, AppendLock, LockDocumentAuditChain
<1>1. Shape'
  BY DEF Shape
<1>2. ChainTypeOK'
  BY DEF ChainTypeOK, Shape
<1>3. LockHeld'
  BY DEF LockHeld, Shape
<1>4. ChainsInv'
  <2>1. \A u \in Writers : writer'[u].rows = writer[u].rows
    BY DEF Shape
  <2> QED BY <2>1 DEF ChainsInv
<1>5. ReadInv'
  BY DEF ReadInv, Shape
<1> QED BY <1>1, <1>2, <1>3, <1>4, <1>5, WriterFrame

\* appendInClient reads the latest row under the lock.
LEMMA AppendReadInv ==
    ASSUME IInv, NEW w \in Writers, AppendRead(w)
    PROVE  IInv'
<1> USE DEF IInv, AppendRead
<1>1. Shape'
  BY DEF Shape
<1>2. ChainTypeOK'
  BY DEF ChainTypeOK, Shape
<1>3. LockHeld'
  BY DEF LockHeld, Shape
<1>4. ChainsInv'
  <2>1. \A u \in Writers : writer'[u].rows = writer[u].rows
    BY DEF Shape
  <2> QED BY <2>1 DEF ChainsInv
<1>5. ReadInv'
  <2>1. \A u \in Writers \ {w} : writer'[u] = writer[u]
    BY DEF Shape
  <2>2. /\ writer'[w].rows = writer[w].rows
        /\ writer'[w].latest = Latest(log \cup writer[w].rows)
    BY DEF Shape
  <2> QED BY <2>1, <2>2 DEF ReadInv
<1> QED BY <1>1, <1>2, <1>3, <1>4, <1>5, WriterFrame

\* appendInClient inserts the row after the latest one: the holder of the lock
\* extends its own chain, and no other transaction has rows.
LEMMA AppendCreateInv ==
    ASSUME IInv, NEW w \in Writers, AppendCreate(w)
    PROVE  IInv'
<1> USE DEF IInv
<1> DEFINE rows == log \cup writer[w].rows
<1>1. writer[w].step = "read" /\ writer[w].latest = Latest(rows) /\ lock = w
  BY DEF AppendCreate, ReadInv, LockHeld
<1>2. NextSequence(Latest(rows)) < MaxEvents /\ UNCHANGED <<log, lock, checkpoint, verifier>>
  BY <1>1 DEF AppendCreate
<1> DEFINE new(c) == AuditRow(NextSequence(Latest(rows)), PreviousHash(Latest(rows)), c)
<1>3. PICK c \in Contents :
         writer' = [writer EXCEPT ![w] = [step |-> "work", latest |-> {},
                                          rows |-> writer[w].rows \cup {new(c)}]]
  BY <1>1 DEF AppendCreate
<1>4. Chain(rows \cup {new(c)})
  BY <1>2, AppendExtendsChain DEF ChainsInv
<1> HIDE DEF new
<1>5. Shape'
  BY <1>2, <1>3 DEF Shape
<1>6. ChainTypeOK'
  BY <1>1, <1>2, <1>3 DEF ChainTypeOK, Shape
<1>7. LockHeld'
  BY <1>1, <1>2, <1>3 DEF LockHeld, Shape
<1>8. ChainsInv'
  <2>1. \A u \in Writers \ {w} : writer'[u].rows = writer[u].rows
    BY <1>3 DEF Shape
  <2>2. log \cup writer'[w].rows = rows \cup {new(c)}
    BY <1>3 DEF Shape
  <2> QED BY <1>2, <1>4, <2>1, <2>2 DEF ChainsInv
<1>9. ReadInv'
  BY <1>2, <1>3 DEF ReadInv, Shape
<1> QED BY <1>2, <1>5, <1>6, <1>7, <1>8, <1>9, WriterFrame

\* A commit makes the rows of the holder of the lock visible; no other
\* transaction has read the chain meanwhile, and every snapshot of a
\* verification stays a prefix of the log.
LEMMA CommitInv ==
    ASSUME IInv, NEW w \in Writers, Commit(w)
    PROVE  IInv'
<1> USE DEF IInv
<1>1. /\ log' = log \cup writer[w].rows
      /\ writer' = [writer EXCEPT ![w] = NoTransaction]
      /\ lock' = IF lock = w THEN NoHolder ELSE lock
      /\ UNCHANGED <<checkpoint, verifier>>
  BY DEF Commit, Release
<1>2. Chain(log')
  BY <1>1 DEF ChainsInv
<1>3. \A u \in Writers \ {w} : writer'[u] = writer[u]
  BY <1>1 DEF Shape
<1>4. writer'[w] = [step |-> "none", rows |-> {}, latest |-> {}]
  BY <1>1 DEF Shape, NoTransaction
<1>5. Shape'
  BY <1>1 DEF Shape, NoTransaction
<1>6. ChainTypeOK'
  <2>1. \A r \in log' : r.sequence \in 0 .. MaxEvents - 1
    BY <1>2 DEF Chain
  <2> QED BY <2>1, <1>1, <1>3, <1>4 DEF ChainTypeOK
<1>7. LockHeld'
  BY <1>1, <1>3, <1>4 DEF LockHeld
<1>8. \A u \in Writers \ {w} : writer[u].rows = {} \/ writer[w].rows = {}
  BY DEF LockHeld
<1>9. ChainsInv'
  <2>1. ASSUME NEW u \in Writers
        PROVE  Chain(log' \cup writer'[u].rows)
    <3>1. CASE u = w
      <4>1. log' \cup writer'[u].rows = log'
        BY <3>1, <1>4
      <4> QED BY <4>1, <1>2
    <3>2. CASE u # w /\ writer[u].rows = {}
      <4>1. log' \cup writer'[u].rows = log'
        BY <3>2, <1>3
      <4> QED BY <4>1, <1>2
    <3>3. CASE u # w /\ writer[w].rows = {}
      <4>1. log' \cup writer'[u].rows = log \cup writer[u].rows
        BY <3>3, <1>1, <1>3
      <4> QED BY <4>1 DEF ChainsInv
    <3> QED BY <3>1, <3>2, <3>3, <1>8
  <2> QED BY <2>1, <1>2 DEF ChainsInv
<1>10. ReadInv'
  <2> SUFFICES ASSUME NEW u \in Writers, writer'[u].step = "read"
               PROVE  writer'[u].latest = Latest(log' \cup writer'[u].rows)
    BY DEF ReadInv
  <2>1. u # w /\ writer'[u] = writer[u] /\ lock = u
    BY <1>3, <1>4 DEF LockHeld
  <2>2. writer[w].rows = {}
    BY <2>1 DEF LockHeld
  <2> QED BY <2>1, <2>2, <1>1 DEF ReadInv
<1>11. SnapshotInv'
  <2> SUFFICES ASSUME NEW v \in Verifiers, verifier[v].step # "none"
               PROVE  /\ verifier[v].events \subseteq log'
                      /\ Latest(verifier[v].events) # {}
                      /\ \A e \in verifier[v].events, r \in log' :
                            r.sequence <= e.sequence => r \in verifier[v].events
    BY <1>1 DEF SnapshotInv
  <2>1. verifier[v].events \subseteq log /\ Latest(verifier[v].events) # {}
    BY DEF SnapshotInv
  <2>2. ASSUME NEW e \in verifier[v].events, NEW r \in log', r.sequence <= e.sequence
        PROVE  r \in verifier[v].events
    <3>1. PICK q \in log : q.sequence = r.sequence
      BY <2>1, <2>2, <1>2 DEF ChainsInv, Chain
    <3>2. q = r
      BY <3>1, <1>1, <1>2 DEF Chain
    <3> QED BY <3>1, <3>2, <2>2 DEF SnapshotInv
  <2> QED BY <2>1, <2>2, <1>1
<1>12. IdleVerifiers' /\ CheckpointsMatchChain' /\ AlarmOnlyWhenOvertaken'
  BY <1>1 DEF IdleVerifiers, CheckpointsMatchChain, AlarmOnlyWhenOvertaken
<1> QED BY <1>5, <1>6, <1>7, <1>9, <1>10, <1>11, <1>12

\* A rollback drops the rows of the transaction and its lock.
LEMMA RollbackInv ==
    ASSUME IInv, NEW w \in Writers, Rollback(w)
    PROVE  IInv'
<1> USE DEF IInv
<1>1. /\ writer' = [writer EXCEPT ![w] = NoTransaction]
      /\ lock' = IF lock = w THEN NoHolder ELSE lock
      /\ UNCHANGED <<log, checkpoint, verifier>>
  BY DEF Rollback, Release
<1>2. \A u \in Writers \ {w} : writer'[u] = writer[u]
  BY <1>1 DEF Shape
<1>3. writer'[w] = [step |-> "none", rows |-> {}, latest |-> {}]
  BY <1>1 DEF Shape, NoTransaction
<1>4. Shape'
  BY <1>1 DEF Shape, NoTransaction
<1>5. ChainTypeOK'
  BY <1>1, <1>2, <1>3 DEF ChainTypeOK
<1>6. LockHeld'
  BY <1>1, <1>2, <1>3 DEF LockHeld
<1>7. ChainsInv'
  <2>1. log \cup writer'[w].rows = log
    BY <1>3
  <2> QED BY <1>1, <1>2, <2>1 DEF ChainsInv
<1>8. ReadInv'
  BY <1>1, <1>2, <1>3 DEF ReadInv
<1> QED BY <1>1, <1>4, <1>5, <1>6, <1>7, <1>8, WriterFrame

\* listByDocument returns the whole committed chain, in which the walk of
\* verifyAuditChain finds nothing to report.
LEMMA VerifyListInv ==
    ASSUME IInv, NEW v \in Verifiers, VerifyList(v)
    PROVE  IInv'
<1> USE DEF IInv
<1>1. /\ verifier' = [verifier EXCEPT ![v] = [step |-> "listed", events |-> log, failures |-> {}]]
      /\ UNCHANGED <<log, lock, writer, checkpoint>>
  BY ChainPasses DEF VerifyList, ChainsInv
<1>2. Shape'
  BY <1>1 DEF Shape
<1>3. ChainTypeOK'
  BY <1>1 DEF ChainTypeOK, Shape
<1>4. SnapshotInv'
  <2>1. Latest(log) # {}
    BY LatestOfChain DEF ChainsInv
  <2> QED BY <2>1, <1>1 DEF SnapshotInv, Shape
<1>5. IdleVerifiers' /\ CheckpointsMatchChain' /\ AlarmOnlyWhenOvertaken'
  BY <1>1 DEF IdleVerifiers, CheckpointsMatchChain, AlarmOnlyWhenOvertaken, Shape
<1> QED BY <1>1, <1>2, <1>3, <1>4, <1>5, VerifierFrame

\* The comparison with the latest checkpoint: a checkpoint names a committed
\* row, and one that the snapshot lacks lies past the snapshot, because the
\* snapshot is a prefix of the log.
LEMMA VerifyCheckpointInv ==
    ASSUME IInv, NEW v \in Verifiers, VerifyCheckpoint(v)
    PROVE  IInv'
<1> USE DEF IInv
<1> DEFINE events == verifier[v].events
<1>1. PICK found \in {CheckpointFailures(events, checkpoint), {}} :
         /\ verifier' = [verifier EXCEPT ![v] =
               [step |-> "compared", events |-> events,
                failures |-> verifier[v].failures \cup found]]
         /\ UNCHANGED <<log, lock, writer, checkpoint>>
  BY DEF VerifyCheckpoint
<1>2. verifier[v].step = "listed"
  BY DEF VerifyCheckpoint
<1>3. \A x \in Verifiers \ {v} : verifier'[x] = verifier[x]
  BY <1>1 DEF Shape
<1>4. verifier'[v] = [step |-> "compared", events |-> events,
                      failures |-> verifier[v].failures \cup found]
  BY <1>1 DEF Shape
<1>5. Shape'
  BY <1>1, <1>3, <1>4 DEF Shape
<1>6. ChainTypeOK'
  BY <1>1, <1>3, <1>4 DEF ChainTypeOK
<1>7. SnapshotInv'
  BY <1>1, <1>2, <1>3, <1>4 DEF SnapshotInv
<1>8. IdleVerifiers' /\ CheckpointsMatchChain'
  BY <1>1, <1>3, <1>4 DEF IdleVerifiers, CheckpointsMatchChain
<1>9. ASSUME found # {}
      PROVE  /\ found = {"CHECKPOINT_MISMATCH"}
             /\ \E c \in checkpoint : \A e \in events : e.sequence < c.sequence
  <2>1. found = {"CHECKPOINT_MISMATCH"}
    BY <1>9 DEF CheckpointFailures, Code
  <2>2. PICK c \in Latest(checkpoint) :
           ~\E e \in events : e.sequence = c.sequence /\ e.eventHash = c.eventHash
    BY <1>9 DEF CheckpointFailures, Code
  <2>3. c \in checkpoint
    BY DEF Latest
  <2>4. PICK r \in log : r.sequence = c.sequence /\ r.eventHash = c.eventHash
    BY <2>3 DEF CheckpointsMatchChain
  <2>5. r \notin events
    BY <2>2, <2>4
  <2>6. \A e \in events : ~(r.sequence <= e.sequence)
    BY <2>4, <2>5, <1>2 DEF SnapshotInv
  <2>7. \A e \in events : e \in log
    BY <1>2 DEF SnapshotInv
  <2>8. \A e \in events : e.sequence < c.sequence
    BY <2>4, <2>6, <2>7 DEF ChainsInv, Chain
  <2> QED BY <2>1, <2>3, <2>8
<1>10. AlarmOnlyWhenOvertaken'
  <2> SUFFICES ASSUME NEW x \in Verifiers, verifier'[x].failures # {}
               PROVE  /\ verifier'[x].failures = {"CHECKPOINT_MISMATCH"}
                      /\ \E c \in checkpoint' :
                            \A e \in verifier'[x].events : e.sequence < c.sequence
    BY DEF AlarmOnlyWhenOvertaken
  <2>1. CASE x # v
    BY <2>1, <1>1, <1>3 DEF AlarmOnlyWhenOvertaken
  <2>2. CASE x = v /\ verifier[v].failures = {}
    BY <2>2, <1>1, <1>4, <1>9
  <2>3. CASE x = v /\ verifier[v].failures # {}
    <3>1. /\ verifier[v].failures = {"CHECKPOINT_MISMATCH"}
          /\ \E c \in checkpoint : \A e \in events : e.sequence < c.sequence
      BY <2>3 DEF AlarmOnlyWhenOvertaken
    <3>2. verifier'[v].failures = {"CHECKPOINT_MISMATCH"}
      BY <3>1, <1>4, <1>9
    <3> QED BY <2>3, <3>1, <3>2, <1>1, <1>4
  <2> QED BY <2>1, <2>2, <2>3
<1> QED BY <1>1, <1>5, <1>6, <1>7, <1>8, <1>10, VerifierFrame

\* The look before the put changes nothing but the step.
LEMMA AnchorGetInv ==
    ASSUME IInv, NEW v \in Verifiers, AnchorGet(v)
    PROVE  IInv'
<1> USE DEF IInv
<1>1. /\ verifier[v].step = "compared"
      /\ verifier' = [verifier EXCEPT ![v].step = "absent"]
      /\ UNCHANGED <<log, lock, writer, checkpoint>>
  BY DEF AnchorGet
<1>2. \A x \in Verifiers \ {v} : verifier'[x] = verifier[x]
  BY <1>1 DEF Shape
<1>3. verifier'[v] = [step |-> "absent", events |-> verifier[v].events,
                      failures |-> verifier[v].failures]
  BY <1>1 DEF Shape
<1>4. Shape'
  BY <1>1, <1>2, <1>3 DEF Shape
<1>5. ChainTypeOK'
  BY <1>1, <1>2, <1>3 DEF ChainTypeOK
<1>6. SnapshotInv'
  BY <1>1, <1>2, <1>3 DEF SnapshotInv
<1>7. IdleVerifiers' /\ CheckpointsMatchChain' /\ AlarmOnlyWhenOvertaken'
  BY <1>1, <1>2, <1>3 DEF IdleVerifiers, CheckpointsMatchChain, AlarmOnlyWhenOvertaken
<1> QED BY <1>1, <1>4, <1>5, <1>6, <1>7, VerifierFrame

\* The put anchors the head of the snapshot, which is a committed row; a
\* checkpoint that it replaces has the same sequence, so whoever was overtaken
\* by that one still is.
LEMMA AnchorPutInv ==
    ASSUME IInv, NEW v \in Verifiers, AnchorPut(v)
    PROVE  IInv'
<1> USE DEF IInv
<1> DEFINE anchor == AnchorOf(ChainHead(v))
<1>1. /\ verifier[v].step = "absent"
      /\ checkpoint' = {c \in checkpoint : c.sequence # anchor.sequence} \cup {anchor}
      /\ verifier' = [verifier EXCEPT ![v].step = "anchored"]
      /\ UNCHANGED <<log, lock, writer>>
  BY DEF AnchorPut
<1>2. \A x \in Verifiers \ {v} : verifier'[x] = verifier[x]
  BY <1>1 DEF Shape
<1>3. verifier'[v] = [step |-> "anchored", events |-> verifier[v].events,
                      failures |-> verifier[v].failures]
  BY <1>1 DEF Shape
<1>4. ChainHead(v) \in log
  <2>1. ChainHead(v) \in Latest(verifier[v].events)
    BY <1>1 DEF SnapshotInv, ChainHead, TheRow
  <2> QED BY <1>1, <2>1 DEF SnapshotInv, Latest
<1>5. /\ anchor.sequence = ChainHead(v).sequence /\ anchor.eventHash = ChainHead(v).eventHash
      /\ anchor.sequence \in Nat
  BY <1>4 DEF AnchorOf, ChainTypeOK
<1> HIDE DEF anchor
<1>6. Shape'
  BY <1>1, <1>2, <1>3, <1>5 DEF Shape
<1>7. ChainTypeOK'
  BY <1>1, <1>2, <1>3 DEF ChainTypeOK
<1>8. SnapshotInv'
  BY <1>1, <1>2, <1>3 DEF SnapshotInv
<1>9. IdleVerifiers'
  BY <1>2, <1>3 DEF IdleVerifiers
<1>10. CheckpointsMatchChain'
  BY <1>1, <1>4, <1>5 DEF CheckpointsMatchChain
<1>11. \A c \in checkpoint : \E d \in checkpoint' : d.sequence = c.sequence
  BY <1>1
<1>12. AlarmOnlyWhenOvertaken'
  <2> SUFFICES ASSUME NEW x \in Verifiers, verifier'[x].failures # {}
               PROVE  /\ verifier'[x].failures = {"CHECKPOINT_MISMATCH"}
                      /\ \E c \in checkpoint' :
                            \A e \in verifier'[x].events : e.sequence < c.sequence
    BY DEF AlarmOnlyWhenOvertaken
  <2>1. verifier'[x].failures = verifier[x].failures /\ verifier'[x].events = verifier[x].events
    BY <1>2, <1>3
  <2>2. PICK c \in checkpoint : \A e \in verifier[x].events : e.sequence < c.sequence
    BY <2>1 DEF AlarmOnlyWhenOvertaken
  <2>3. PICK d \in checkpoint' : d.sequence = c.sequence
    BY <1>11
  <2>4. \A e \in verifier'[x].events : e.sequence < d.sequence
    BY <2>1, <2>2, <2>3
  <2> QED BY <2>1, <2>4 DEF AlarmOnlyWhenOvertaken
<1> QED BY <1>1, <1>6, <1>7, <1>8, <1>9, <1>10, <1>12, VerifierFrame

\* A verification that ends, or whose process does, leaves a free slot.
LEMMA VerifyEndInv ==
    ASSUME IInv, NEW v \in Verifiers, VerifyEnd(v)
    PROVE  IInv'
<1> USE DEF IInv
<1>1. /\ verifier' = [verifier EXCEPT ![v] = NoVerification]
      /\ UNCHANGED <<log, lock, writer, checkpoint>>
  BY DEF VerifyEnd
<1>2. Shape'
  BY <1>1 DEF Shape, NoVerification
<1>3. ChainTypeOK'
  BY <1>1 DEF ChainTypeOK, Shape, NoVerification
<1>4. SnapshotInv'
  BY <1>1 DEF SnapshotInv, Shape, NoVerification
<1>5. IdleVerifiers' /\ CheckpointsMatchChain' /\ AlarmOnlyWhenOvertaken'
  BY <1>1 DEF IdleVerifiers, CheckpointsMatchChain, AlarmOnlyWhenOvertaken, Shape, NoVerification
<1> QED BY <1>1, <1>2, <1>3, <1>4, <1>5, VerifierFrame

\* Every step of a transaction or of a verification keeps the inductive invariant.
LEMMA NextInv == IInv /\ [AuditNext]_auditVars => IInv'
<1> SUFFICES ASSUME IInv, [AuditNext]_auditVars PROVE IInv'
  OBVIOUS
<1>1. ASSUME NEW w \in Writers,
             \/ Begin(w) \/ AppendLock(w) \/ AppendRead(w) \/ AppendCreate(w)
             \/ Commit(w) \/ Rollback(w)
      PROVE  IInv'
  BY <1>1, BeginInv, AppendLockInv, AppendReadInv, AppendCreateInv, CommitInv, RollbackInv
<1>2. ASSUME NEW v \in Verifiers,
             \/ VerifyList(v) \/ VerifyCheckpoint(v) \/ AnchorGet(v) \/ AnchorPut(v)
             \/ VerifyEnd(v)
      PROVE  IInv'
  BY <1>2, VerifyListInv, VerifyCheckpointInv, AnchorGetInv, AnchorPutInv, VerifyEndInv
<1>3. CASE UNCHANGED auditVars
  BY <1>3 DEF auditVars, IInv, ChainTypeOK, Shape, LockHeld, ChainsInv, ReadInv, SnapshotInv,
              IdleVerifiers, CheckpointsMatchChain, AlarmOnlyWhenOvertaken, RowsOfOthers
<1> QED BY <1>1, <1>2, <1>3 DEF AuditNext

\* Under the advisory lock nobody else has rows, so that the sequence computed
\* from the row that was read is free among all rows, committed or not.
LEMMA InvNeverCollides == IInv => AppendsNeverCollide
<1> SUFFICES ASSUME IInv, NEW w \in Writers, writer[w].step = "read",
                    NEW q \in log \cup RowsOfOthers(w)
             PROVE  q.sequence < NextSequence(writer[w].latest)
  BY DEF AppendsNeverCollide
<1> USE DEF IInv
<1>1. lock = w /\ writer[w].latest = Latest(log \cup writer[w].rows)
  BY DEF LockHeld, ReadInv
<1>2. \A u \in Writers \ {w} : writer[u].rows = {}
  BY <1>1 DEF LockHeld
<1>3. q \in log
  BY <1>2 DEF RowsOfOthers
<1>4. Chain(log \cup writer[w].rows)
  BY DEF ChainsInv
<1> QED BY <1>1, <1>3, <1>4, NextSequenceIsFree

----------------------------------------------------------------------------
(* What a verification without failures says about the rows it walked.     *)

\* The table audit_logs holds one record per sequence, whoever wrote it.
Table(rows) ==
    /\ \A r \in rows : r.sequence \in Nat
    /\ \A r \in rows :
          r = [sequence |-> r.sequence, content |-> r.content,
               previousEventHash |-> r.previousEventHash, eventHash |-> r.eventHash]
    /\ \A r, q \in rows : r.sequence = q.sequence => r = q

\* Every row is hashed as it stands and linked to the row before it.
Linked(rows) ==
    /\ Table(rows)
    /\ \A r \in rows : r = AuditRow(r.sequence, r.previousEventHash, r.content)
    /\ \A r \in rows : r.sequence # 0 =>
          \E q \in rows : q.sequence + 1 = r.sequence /\ q.eventHash = r.previousEventHash

\* A set of numbers that is not empty has a least one.
LEMMA LeastNumber ==
    ASSUME NEW T \in SUBSET Nat, T # {}
    PROVE  \E x \in T : \A y \in T : x <= y
<1>1. IsWellFoundedOn(OpToRel(<, Nat), Nat)
  BY NatLessThanWellFounded, Zenon
<1>2. PICK x \in T : \A y \in T : ~(<<y, x>> \in OpToRel(<, Nat))
  BY <1>1, WFMin, Zenon
<1>3. \A y \in T : ~(y < x)
  BY <1>2 DEF OpToRel
<1> QED
  BY <1>3

\* The rows that appendInClient built are linked.
LEMMA ChainIsLinked ==
    ASSUME NEW rows, Chain(rows)
    PROVE  Linked(rows)
<1>1. \A r \in rows :
         r = [sequence |-> r.sequence, content |-> r.content,
              previousEventHash |-> r.previousEventHash, eventHash |-> r.eventHash]
  BY DEF Chain, AuditRow
<1>2. Table(rows)
  BY <1>1 DEF Chain, Table
<1> QED BY <1>2 DEF Chain, Linked

\* A table in which the walk of verifyAuditChain reports nothing is linked: no
\* gap puts a row right before every other, and no mismatch links them.
LEMMA PassedIsLinked ==
    ASSUME NEW rows, Table(rows), ChainFailures(rows) = {}
    PROVE  Linked(rows)
<1>1. ASSUME NEW e \in rows
      PROVE  /\ \A n \in 0 .. e.sequence : \E q \in rows : q.sequence = n
             /\ \A q \in Latest(Before(rows, e)) : e.previousEventHash = q.eventHash
             /\ e.eventHash = ComputeAuditEventHash(e.previousEventHash, e.sequence, e.content)
  <2>1. EventFailures(rows, e) = {}
    BY DEF ChainFailures
  <2> QED BY <2>1 DEF EventFailures, Code
<1>2. ASSUME NEW e \in rows
      PROVE  e = AuditRow(e.sequence, e.previousEventHash, e.content)
  BY <1>1 DEF Table, AuditRow
<1>3. ASSUME NEW e \in rows, e.sequence # 0
      PROVE  \E q \in rows : q.sequence + 1 = e.sequence /\ q.eventHash = e.previousEventHash
  <2>1. e.sequence \in Nat /\ e.sequence - 1 \in 0 .. e.sequence
    BY <1>3 DEF Table
  <2>2. PICK q \in rows : q.sequence = e.sequence - 1
    BY <1>1, <2>1
  <2>3. q \in Latest(Before(rows, e))
    BY <2>1, <2>2 DEF Latest, Before, Table
  <2> QED BY <1>1, <2>1, <2>2, <2>3
<1> QED BY <1>2, <1>3 DEF Linked

\* computeAuditEventHash covers every column: two hashed rows with one hash are
\* one row.
LEMMA SameHashSameRow ==
    ASSUME NEW r, NEW q,
           r = AuditRow(r.sequence, r.previousEventHash, r.content),
           q = AuditRow(q.sequence, q.previousEventHash, q.content),
           r.eventHash = q.eventHash
    PROVE  r = q
<1>1. /\ r.eventHash = <<r.previousEventHash, r.sequence, r.content>>
      /\ q.eventHash = <<q.previousEventHash, q.sequence, q.content>>
  BY DEF AuditRow, ComputeAuditEventHash
<1>2. /\ r.previousEventHash = q.previousEventHash
      /\ r.sequence = q.sequence /\ r.content = q.content
  <2>1. <<r.previousEventHash, r.sequence, r.content>>
           = <<q.previousEventHash, q.sequence, q.content>>
    BY <1>1
  <2> QED BY <2>1, Zenon
<1> QED BY <1>2

\* A single hash fixes the whole history before it: going down from the row
\* they share, two linked tables share the row at every sequence.  The highest
\* sequence at which they did not would follow a row they do share, whose link
\* is the hash of both their rows.
LEMMA HashFixesHistory ==
    ASSUME NEW left, NEW right, Linked(left), Linked(right),
           NEW e \in left, NEW r \in right, e.eventHash = r.eventHash
    PROVE  Upto(left, e.sequence) = Upto(right, e.sequence)
<1> DEFINE N == e.sequence
           Shared(n) == \E p \in left \cap right : p.sequence = n
           Missing == {j \in 0 .. N : ~Shared(N - j)}
<1>1. N \in Nat
  BY DEF Linked, Table
<1>2. e = r
  BY SameHashSameRow DEF Linked
<1>3. Missing = {}
  <2> SUFFICES ASSUME Missing # {} PROVE FALSE
    OBVIOUS
  <2>0. Missing \in SUBSET Nat
    BY <1>1
  <2>1. PICK m \in Missing : \A j \in Missing : m <= j
    <3> HIDE DEF Missing
    <3> QED BY <2>0, LeastNumber
  <2>2. m \in 0 .. N /\ ~Shared(N - m)
    OBVIOUS
  <2>3. m # 0
    BY <1>1, <1>2, <2>2
  <2>4. m - 1 \in 0 .. N /\ m - 1 \notin Missing
    BY <1>1, <2>1, <2>2, <2>3
  <2>5. PICK p \in left \cap right : p.sequence = N - (m - 1)
    BY <2>4
  <2>6. p.sequence # 0
    BY <1>1, <2>2, <2>5
  <2>7. PICK a \in left : a.sequence + 1 = p.sequence /\ a.eventHash = p.previousEventHash
    BY <2>6 DEF Linked
  <2>8. PICK b \in right : b.sequence + 1 = p.sequence /\ b.eventHash = p.previousEventHash
    BY <2>6 DEF Linked
  <2>9. a = b
    BY <2>7, <2>8, SameHashSameRow DEF Linked
  <2>10. a.sequence \in Nat
    BY DEF Linked, Table
  <2>11. a.sequence = N - m
    BY <1>1, <2>2, <2>5, <2>7, <2>10
  <2> QED BY <2>2, <2>9, <2>11
<1>4. ASSUME NEW n \in 0 .. N PROVE Shared(n)
  <2>1. N - n \in 0 .. N /\ N - (N - n) = n
    BY <1>1
  <2> QED BY <1>3, <2>1
<1>5. ASSUME NEW q \in Upto(left, N) PROVE q \in right
  <2>1. q \in left /\ q.sequence \in 0 .. N
    BY <1>1 DEF Upto, Linked, Table
  <2>2. PICK p \in left \cap right : p.sequence = q.sequence
    BY <1>4, <2>1
  <2> QED BY <2>1, <2>2 DEF Linked, Table
<1>6. ASSUME NEW q \in Upto(right, N) PROVE q \in left
  <2>1. q \in right /\ q.sequence \in 0 .. N
    BY <1>1 DEF Upto, Linked, Table
  <2>2. PICK p \in left \cap right : p.sequence = q.sequence
    BY <1>4, <2>1
  <2> QED BY <2>1, <2>2 DEF Linked, Table
<1> QED BY <1>5, <1>6 DEF Upto

\* Checkpoints name committed rows, whose sequences are bounded: when there is
\* a checkpoint, getLatest finds one.
LEMMA LatestCheckpoint ==
    ASSUME IInv, checkpoint # {}
    PROVE  \E c \in Latest(checkpoint) : c \in checkpoint /\ \A d \in checkpoint : d.sequence <= c.sequence
<1>1. \A c \in checkpoint : c.sequence \in 0 .. MaxEvents - 1
  BY DEF IInv, CheckpointsMatchChain, ChainsInv, Chain
<1> DEFINE Distances == {MaxEvents - c.sequence : c \in checkpoint}
<1>2. Distances \in SUBSET Nat /\ Distances # {}
  BY <1>1
<1>3. PICK x \in Distances : \A y \in Distances : x <= y
  BY <1>2, LeastNumber
<1>4. PICK c \in checkpoint : x = MaxEvents - c.sequence
  OBVIOUS
<1>5. ASSUME NEW d \in checkpoint PROVE d.sequence <= c.sequence
  <2>1. MaxEvents - c.sequence <= MaxEvents - d.sequence
    BY <1>3, <1>4
  <2> QED BY <1>1, <2>1
<1> QED BY <1>5 DEF Latest

\* No table whatsoever passes verifyAuditChain with another history up to a
\* checkpoint than the committed one.
LEMMA PassedVouches ==
    ASSUME IInv, NEW rows, Table(rows)
    PROVE  VouchesForHistory(rows)
<1> SUFFICES ASSUME ChainFailures(rows) = {}, CheckpointFailures(rows, checkpoint) = {},
                    NEW d \in checkpoint
             PROVE  Upto(rows, d.sequence) = Upto(log, d.sequence)
  BY DEF VouchesForHistory
<1>1. PICK c \in Latest(checkpoint) :
         c \in checkpoint /\ \A x \in checkpoint : x.sequence <= c.sequence
  BY LatestCheckpoint
<1>2. PICK e \in rows : e.sequence = c.sequence /\ e.eventHash = c.eventHash
  BY <1>1 DEF CheckpointFailures, Code
<1>3. PICK r \in log : r.sequence = c.sequence /\ r.eventHash = c.eventHash
  BY <1>1 DEF IInv, CheckpointsMatchChain
<1>4. Linked(rows) /\ Linked(log)
  BY PassedIsLinked, ChainIsLinked DEF IInv, ChainsInv
<1>5. Upto(rows, c.sequence) = Upto(log, c.sequence)
  BY <1>2, <1>3, <1>4, HashFixesHistory
<1>6. \A q \in rows \cup log : q.sequence \in Nat
  BY <1>4 DEF Linked, Table
<1>7. c.sequence \in Nat /\ d.sequence \in Nat /\ d.sequence <= c.sequence
  BY <1>1 DEF IInv, Shape
<1>8. \A q \in rows \cup log : q.sequence <= d.sequence => q.sequence <= c.sequence
  BY <1>6, <1>7
<1> QED BY <1>5, <1>8 DEF Upto

\* The altered tables that TLC tries are tables.
LEMMA AlteredAreTables ==
    ASSUME IInv, NEW rows \in Edited \cup Removed \cup Replaced
    PROVE  Table(rows)
<1>1. Table(log)
  BY ChainIsLinked DEF IInv, ChainsInv, Linked
<1>2. CASE rows \in Removed
  BY <1>1, <1>2 DEF Removed, Table
<1>3. CASE rows \in Edited
  <2>1. PICK r \in log, c \in Contents :
           rows = (log \ {r}) \cup {[sequence |-> r.sequence, content |-> c,
                       eventHash |-> r.eventHash, previousEventHash |-> r.previousEventHash]}
    BY <1>3 DEF Edited
  <2>2. PICK new : new = [sequence |-> r.sequence, content |-> c,
                       eventHash |-> r.eventHash, previousEventHash |-> r.previousEventHash]
    OBVIOUS
  <2>3. /\ new.sequence = r.sequence
        /\ new = [sequence |-> new.sequence, content |-> new.content,
                  previousEventHash |-> new.previousEventHash, eventHash |-> new.eventHash]
    BY <2>2
  <2> QED BY <1>1, <2>1, <2>2, <2>3 DEF Table
<1>4. CASE rows \in Replaced
  <2>1. PICK n \in 0 .. MaxEvents - 1 :
           \E content \in [0 .. n -> Contents] : rows = Rebuilt(content, n)
    BY <1>4 DEF Replaced
  <2> PICK content \in [0 .. n -> Contents] : rows = Rebuilt(content, n)
    BY <2>1
  <2>2. \E previous : rows = {AuditRow(k, previous[k], content[k]) : k \in 0 .. n}
    BY DEF Rebuilt
  <2>3. PICK previous : rows = {AuditRow(k, previous[k], content[k]) : k \in 0 .. n}
    BY <2>2
  <2>4. \A q \in rows : \E k \in 0 .. n :
           q = AuditRow(k, previous[k], content[k]) /\ q.sequence = k
    BY <2>3 DEF AuditRow
  <2>5. \A q \in rows : q.sequence \in Nat
    BY <2>4
  <2>6. \A q \in rows :
           q = [sequence |-> q.sequence, content |-> q.content,
                previousEventHash |-> q.previousEventHash, eventHash |-> q.eventHash]
    BY <2>4 DEF AuditRow
  <2>7. \A q, p \in rows : q.sequence = p.sequence => q = p
    BY <2>4
  <2> QED BY <2>5, <2>6, <2>7 DEF Table
<1> QED BY <1>2, <1>3, <1>4

----------------------------------------------------------------------------
(* Theorems.                                                               *)

\* The inductive invariant holds in every reachable state.
THEOREM AuditInvariant == AuditSpec => []IInv
BY InitInv, NextInv, PTL DEF AuditSpec

\* The advisory lock of a document is free or held by an open transaction.
THEOREM AuditTypeOK == AuditSpec => []ChainTypeOK
<1>1. IInv => ChainTypeOK
  BY DEF IInv
<1> QED BY <1>1, AuditInvariant, PTL

\* Whatever transactions append concurrently, verifyAuditChain finds no gap,
\* no broken link and no wrong hash in the committed rows.
THEOREM AuditChainIntact == AuditSpec => []ChainIntact
<1>1. IInv => ChainIntact
  BY ChainPasses DEF IInv, ChainsInv, ChainIntact
<1> QED BY <1>1, AuditInvariant, PTL

\* The sequence that appendInClient computes is never taken when it inserts.
THEOREM AuditAppendsNeverCollide == AuditSpec => []AppendsNeverCollide
BY InvNeverCollides, AuditInvariant, PTL

\* putIfAbsent only ever leaves checkpoints that name committed rows.
THEOREM AuditCheckpointsMatch == AuditSpec => []CheckpointsMatchChain
<1>1. IInv => CheckpointsMatchChain
  BY DEF IInv
<1> QED BY <1>1, AuditInvariant, PTL

\* verifyAuditChain reports nothing but a checkpoint that overtook its snapshot.
THEOREM AuditAlarmOnlyWhenOvertaken == AuditSpec => []AlarmOnlyWhenOvertaken
<1>1. IInv => AlarmOnlyWhenOvertaken
  BY DEF IInv
<1> QED BY <1>1, AuditInvariant, PTL

\* No table of audit_logs, whoever wrote it, passes verifyAuditChain against
\* the latest checkpoint unless it agrees with the committed log on every row
\* up to every checkpoint.
THEOREM AuditVerificationIsSound ==
    AuditSpec => [](\A rows : Table(rows) => VouchesForHistory(rows))
<1>1. IInv => \A rows : Table(rows) => VouchesForHistory(rows)
  BY PassedVouches
<1> QED BY <1>1, AuditInvariant, PTL

\* Edited, removed and replaced rows are seen by verifyAuditChain.
THEOREM AuditAlterationsAreSeen == AuditSpec => []AlterationsAreSeen
<1>1. IInv => AlterationsAreSeen
  BY PassedVouches, AlteredAreTables DEF AlterationsAreSeen
<1> QED BY <1>1, AuditInvariant, PTL
=============================================================================

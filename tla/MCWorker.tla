------------------------------ MODULE MCWorker ------------------------------
(* The two things a worker's poll does, in one run: it settles the events of *)
(* the outbox, and it sweeps orphaned objects.  They share no variable, and  *)
(* a behaviour exercises one of them while the other stays in its first      *)
(* state, so that their states add up instead of multiplying.  Strong        *)
(* fairness of a claim and of the store's clock are one condition, as only   *)
(* one of them is ever enabled.                                              *)
EXTENDS OutboxQueue, ObjectStore

VARIABLE part   \* the module that this behaviour exercises

all == <<part, vars, storeVars>>

WorkerInit ==
    /\ part \in {"queue", "objects"}
    /\ Init /\ StoreInit
    /\ part = "queue" => driver = "s3"

QueueStep(A) == part = "queue" /\ A /\ UNCHANGED <<part, storeVars>>
ObjectStep(A) == part = "objects" /\ A /\ UNCHANGED <<part, vars>>

WorkerNext == QueueStep(Next) \/ ObjectStep(StoreNext)

\* The fairness of the two modules.
WorkerSpec ==
    /\ WorkerInit /\ [][WorkerNext]_all
    /\ WF_all(QueueStep(Tick))
    /\ \A w \in Workers : WF_all(QueueStep(WorkerStep(w)))
    /\ SF_all(QueueStep(\E w \in Workers, e \in Events : Claim(w, e)) \/ ObjectStep(StoreTick))
    /\ \A w \in Writers : WF_all(ObjectStep(WriterStep(w)))
    /\ \A c \in Cleaners : WF_all(ObjectStep(CleanerStep(c)))
=============================================================================

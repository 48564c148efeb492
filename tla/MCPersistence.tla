--------------------------- MODULE MCPersistence ---------------------------
(* The three modules about what is kept in the database, in one run: they    *)
(* share no variable, and a behaviour exercises one of them while the others *)
(* stay in their first state, so that their states add up instead of         *)
(* multiplying.  Requests, transactions, verifications and contents are each *)
(* interchangeable.                                                          *)
EXTENDS Preparation, AuditChain, Adapters, TLC

VARIABLE part   \* the module that this behaviour exercises

PersistenceInit ==
    /\ part \in {"preparation", "audit", "adapters"}
    /\ Init /\ AuditInit /\ AdaptersInit
    /\ part # "adapters" => port = "uploads"

PersistenceNext ==
    /\ UNCHANGED part
    /\ \/ part = "preparation" /\ Next /\ UNCHANGED <<auditVars, adapterVars>>
       \/ part = "audit" /\ AuditNext /\ UNCHANGED <<vars, adapterVars>>
       \/ part = "adapters" /\ AdaptersNext /\ UNCHANGED <<vars, auditVars>>

PersistenceSpec ==
    PersistenceInit /\ [][PersistenceNext]_<<part, vars, auditVars, adapterVars>>

Symmetry ==
    Permutations(Requests) \cup Permutations(Writers) \cup Permutations(Verifiers)
        \cup Permutations(Contents)
=============================================================================

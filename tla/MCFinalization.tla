--------------------------- MODULE MCFinalization --------------------------
(* Finalization for TLC.  The runs begin with a sent document whose signers  *)
(* have exchanged their links and given their consent: a state that Signing  *)
(* reaches by a send and by an exchange and a consent per signer.            *)
EXTENDS Finalization, TLC

MCOrder == [s \in Signers |-> 1]

MCOneSession == [s \in Signers |-> 1]

ReadyInit ==
    /\ doc = [state |-> "sent", version |-> 2]
    /\ signer = [s \in Signers |-> "pending"]
    /\ session = [x \in Sessions |->
                    [status |-> "active", consumed |-> TRUE, consent |-> TRUE]]
    /\ commits = [s \in Signers |-> 0]
    /\ exchanges = [x \in Sessions |-> 1]
    /\ request = [r \in Requests |-> None]
    /\ FlattenInit

ReadySpec == ReadyInit /\ [][Next]_vars

FairReadySpec == ReadySpec /\ Fairness

Symmetry == Permutations(Requests) \cup Permutations(Signers) \cup Permutations(Workers)
============================================================================

----------------------------- MODULE MCSigning -----------------------------
(* Signing for TLC.  Signers a, b, c sign in this order when the mode is     *)
(* ordered.  Request slots are interchangeable, and so are the signers of a  *)
(* parallel document.                                                        *)
EXTENDS Signing, TLC

CONSTANTS a, b, c

MCOrder ==
    [s \in Signers |->
        IF Mode = "parallel" \/ s = a THEN 1 ELSE IF s = b THEN 2 ELSE 3]

\* Room for a rotation of the first signer's session.
MCSessions == [s \in Signers |-> IF s = a THEN 2 ELSE 1]

MCOneSession == [s \in Signers |-> 1]

Symmetry == Permutations(Requests)

ParallelSymmetry == Permutations(Requests) \cup Permutations(Signers)
============================================================================

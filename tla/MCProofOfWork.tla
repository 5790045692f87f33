---------------------------- MODULE MCProofOfWork ----------------------------
(***************************************************************************)
(* Instances of ProofOfWork for TLC.                                       *)
(***************************************************************************)
EXTENDS ProofOfWork

\* Every set of at most two valid nonces.
FewValid == {S \in SUBSET Word : Cardinality(S) <= 2}
=============================================================================

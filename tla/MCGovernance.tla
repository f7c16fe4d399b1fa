---------------------------- MODULE MCGovernance ----------------------------
(***************************************************************************)
(* Governance for TLC.                                                     *)
(***************************************************************************)
EXTENDS Governance, TLC

Symmetry == Permutations(Handlers)
=============================================================================

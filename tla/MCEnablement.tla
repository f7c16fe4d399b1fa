---------------------------- MODULE MCEnablement ----------------------------
(***************************************************************************)
(* Enablement for TLC.                                                     *)
(***************************************************************************)
EXTENDS Enablement, TLC

Symmetry == Permutations(Handlers)
=============================================================================

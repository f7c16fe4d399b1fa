----------------------------- MODULE MCCasework -----------------------------
(***************************************************************************)
(* Requests are interchangeable.                                           *)
(***************************************************************************)
EXTENDS Casework, TLC

Symmetry == Permutations(Handlers)
=============================================================================

------------------------------ MODULE MCStock ------------------------------
(***************************************************************************)
(* StockLedger for TLC.                                                    *)
(***************************************************************************)
EXTENDS StockLedger, TLC

Symmetry == Permutations(Handlers)
=============================================================================

--------------------------- MODULE MCContracting ---------------------------
(***************************************************************************)
(* Contracting for TLC: product pa is provided by va, pb by vb, and px has *)
(* no provider.                                                            *)
(***************************************************************************)
EXTENDS Contracting, TLC

CONSTANTS pa, pb, px, va, vb

MCProviderOf == [p \in Products |-> CASE p = pa -> va [] p = pb -> vb [] OTHER -> NoProvider]
Symmetry     == Permutations(Handlers)
=============================================================================

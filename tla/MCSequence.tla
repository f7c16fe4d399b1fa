----------------------------- MODULE MCSequence -----------------------------
(***************************************************************************)
(* Sequence for TLC: one configured sequence, radix 2 and padding 2, so    *)
(* that number 4 (100) outgrows the padding, and a last_number column that *)
(* overflows right after it.                                               *)
(***************************************************************************)
EXTENDS Sequence

CONSTANTS caseCode, unknownCode, casePrefix

MCCodes      == {caseCode, unknownCode}
MCConfigured == {caseCode}
MCPadding    == [q \in MCConfigured |-> 2]
MCPrefix     == [q \in MCConfigured |-> casePrefix]
=============================================================================

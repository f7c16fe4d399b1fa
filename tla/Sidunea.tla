------------------------------ MODULE Sidunea -------------------------------
(***************************************************************************)
(* SidUneaService: the references that the customs system of the country   *)
(* gives a case (DUA, manifest, exit pass, inspection, tax simulation) and *)
(* the mirror records that list them.  Nobody calls the external system:   *)
(* the references are typed in.                                            *)
(*                                                                         *)
(* A creation inserts the reference, then the items of a DUA, then its     *)
(* mirror record, without a transaction.                                   *)
(***************************************************************************)
EXTENDS Naturals, Requests

CONSTANTS
  Cases,     \* agd_case rows
  NoCase,    \* no row has the number
  Numbers    \* numbers a reference can be given; for simulations, the ids

ASSUME SiduneaAssumption == NoCase \notin Cases

VARIABLES
  references,  \* case of the row with this number; the number is UNIQUE in its kind
  duaItems,    \* numbers of the DUAs with their items
  mirrors,     \* number of mirror records of a reference in a case
  tornRefs     \* history: references whose creation died after their insert

siduneaRows == <<references, duaItems, mirrors>>
siduneaVars == <<siduneaRows, tornRefs>>

Kinds     == {"dua", "manifest", "exitPass", "inspection", "simulation"}
Reference == Kinds \X Numbers

SiduneaCalls   == {"saveReference", "saveDuaItems", "mirror"}
SiduneaContext == [op : {"createReference"}, case : Cases, reference : Reference]

SiduneaTypeOK ==
  /\ references \in [Reference -> Cases \cup {NoCase}]
  /\ duaItems \subseteq Numbers
  /\ mirrors \in [Cases \X Reference -> 0..1]
  /\ tornRefs \subseteq Reference

SiduneaInit ==
  /\ references = [r \in Reference |-> NoCase] /\ duaItems = {}
  /\ mirrors = [m \in Cases \X Reference |-> 0] /\ tornRefs = {}

-----------------------------------------------------------------------------
\* createDua, createManifest, createExitPass, createModaiInspection and
\* createTaxSimulation read nothing before they insert.
CreateReference(h, c, r) ==
  /\ Begin(h, "saveReference", [op |-> "createReference", case |-> c, reference |-> r])
  /\ UNCHANGED siduneaVars

\* Mutant of NumberFree: a number is UNIQUE within its case.
NumberFreeInCase(c, r) == references[r] # c

NumberFree(c, r) == references[r] = NoCase

\* Abstraction: a DUA without items goes on as the other kinds do.
SaveReference(h) ==
  LET r == ctx[h].reference
  IN /\ pc[h] = "saveReference"
     /\ NumberFree(ctx[h].case, r)
     /\ references' = [references EXCEPT ![r] = ctx[h].case]
     /\ Goto(h, IF r[1] = "dua" THEN "saveDuaItems" ELSE "mirror")
     /\ UNCHANGED <<ctx, duaItems, mirrors, tornRefs>>

\* Bound: for a simulation, its ids are used up.
ReferenceTaken(h) ==
  /\ pc[h] = "saveReference" /\ ~NumberFree(ctx[h].case, ctx[h].reference)
  /\ Leave(h)
  /\ UNCHANGED siduneaVars

SaveDuaItems(h) ==
  /\ pc[h] = "saveDuaItems"
  /\ duaItems' = duaItems \cup {ctx[h].reference[2]}
  /\ Goto(h, "mirror")
  /\ UNCHANGED <<ctx, references, mirrors, tornRefs>>

Mirror(h) ==
  /\ pc[h] = "mirror"
  /\ mirrors' = [mirrors EXCEPT ![<<ctx[h].case, ctx[h].reference>>] = @ + 1]
  /\ Leave(h)
  /\ UNCHANGED <<references, duaItems, tornRefs>>

-----------------------------------------------------------------------------
SiduneaContinue(h) == SaveReference(h) \/ ReferenceTaken(h) \/ SaveDuaItems(h) \/ Mirror(h)

SiduneaStart(h) == \E c \in Cases, r \in Reference : CreateReference(h, c, r)

SiduneaFail(h) ==
  /\ MayFail /\ pc[h] \in SiduneaCalls
  /\ Leave(h)
  /\ tornRefs' = IF pc[h] = "saveReference" THEN tornRefs ELSE tornRefs \cup {ctx[h].reference}
  /\ UNCHANGED siduneaRows

-----------------------------------------------------------------------------
(***************************************************************************)
(* Property                                                                *)
(***************************************************************************)
BeingCreated(r) ==
  \E h \in Serving("createReference") : ctx[h].reference = r /\ pc[h] # "saveReference"

\* mirror(), "espejo" of the external system: a case lists exactly the references that
\* findCaseIdByReference resolves to it, each once, a DUA only with its items, unless the
\* reference is being created or its creation died on the way.  A repeated request does not
\* mend it: the UNIQUE number refuses it.
MirrorFollowsReference ==
  \A c \in Cases, r \in Reference :
    /\ mirrors[<<c, r>>] = 1 => references[r] = c /\ (r[1] = "dua" => r[2] \in duaItems)
    /\ references[r] = c /\ ~BeingCreated(r) /\ r \notin tornRefs => mirrors[<<c, r>>] = 1
=============================================================================

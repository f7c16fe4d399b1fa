--------------------------- MODULE Discrepancies ----------------------------
(***************************************************************************)
(* WmsService on the discrepancy matrix of one case: the differences       *)
(* between what SIDUNEA says and what the warehouse found, and their       *)
(* reconciliation.                                                         *)
(*                                                                         *)
(* The matrix is read, and much later saved whole: a save undoes what      *)
(* another request has saved in between.                                   *)
(***************************************************************************)
EXTENDS Naturals, Sequences, FiniteSets, Requests

CONSTANT MaxDifferences   \* ids agd_discrepancy_item can give out

ASSUME DiscrepanciesAssumption == MaxDifferences \in Nat

VARIABLES
  matrix,      \* agd_discrepancy_matrix row of the case, which is UNIQUE; or NoMatrix
  differences, \* agd_discrepancy_item rows: whether each is resolved
  stale,       \* history: a matrix was saved that had changed since it was read
  tornAdd      \* history: addDiscrepancyItem died between its two saves

discrepancyRows == <<matrix, differences>>
discrepancyVars == <<discrepancyRows, stale, tornAdd>>

MatrixRow == [total : 0..MaxDifferences, status : {"pending", "reconciled"}]
NoMatrix  == [total |-> 0, status |-> "none"]
NewMatrix == [total |-> 0, status |-> "pending"]

DiscrepancyCalls == {"findMatrix", "saveNewMatrix", "listItems", "saveDifference",
                     "saveTotal", "saveResolved", "findDifferences", "saveReconciled"}
DiscrepancyContext ==
  [op : {"getMatrix", "addItem", "reconcile"}, matrix : MatrixRow \cup {NoMatrix}] \cup
  [op : {"resolve"}, item : 1..MaxDifferences]

DiscrepancyTypeOK ==
  /\ matrix \in MatrixRow \cup {NoMatrix}
  /\ differences \in Seq(BOOLEAN) /\ Len(differences) <= MaxDifferences
  /\ stale \in BOOLEAN /\ tornAdd \in BOOLEAN

DiscrepancyInit ==
  matrix = NoMatrix /\ differences = <<>> /\ stale = FALSE /\ tornAdd = FALSE

-----------------------------------------------------------------------------
DiscrepancyThrow(h) == Leave(h) /\ UNCHANGED discrepancyVars

-----------------------------------------------------------------------------
(***************************************************************************)
(* getOrCreateMatrix, with which every operation on the matrix begins      *)
(***************************************************************************)
\* getDiscrepancyMatrix, addDiscrepancyItem, reconcileMatrix
OpenMatrix(h, op) ==
  /\ Begin(h, "findMatrix", [op |-> op, matrix |-> NoMatrix])
  /\ UNCHANGED discrepancyVars

\* What the operation does with its matrix.
Proceed(h, row) ==
  LET op == ctx[h].op
  IN /\ Keep(h, [op |-> op, matrix |-> row])
     /\ Goto(h, CASE op = "getMatrix" -> "listItems"
                  [] op = "addItem"   -> "saveDifference"
                  [] op = "reconcile" -> "findDifferences")

FindMatrix(h) ==
  /\ pc[h] = "findMatrix"
  /\ IF matrix = NoMatrix THEN Goto(h, "saveNewMatrix") /\ UNCHANGED ctx
                          ELSE Proceed(h, matrix)
  /\ UNCHANGED discrepancyVars

SaveNewMatrix(h) ==
  /\ pc[h] = "saveNewMatrix"
  /\ matrix = NoMatrix
  /\ matrix' = NewMatrix
  /\ Proceed(h, NewMatrix)
  /\ UNCHANGED <<differences, stale, tornAdd>>

MatrixTaken(h) == pc[h] = "saveNewMatrix" /\ matrix # NoMatrix /\ DiscrepancyThrow(h)

ListItems(h) == pc[h] = "listItems" /\ Leave(h) /\ UNCHANGED discrepancyVars

\* The save of a handler's whole row.
SaveMatrix(h, row) ==
  /\ matrix' = row
  /\ stale' = (stale \/ matrix # ctx[h].matrix)

-----------------------------------------------------------------------------
(***************************************************************************)
(* addDiscrepancyItem, resolveDiscrepancyItem                              *)
(***************************************************************************)
SaveDifference(h) ==
  /\ pc[h] = "saveDifference"
  /\ Len(differences) < MaxDifferences
  /\ differences' = Append(differences, FALSE)
  /\ Goto(h, "saveTotal")
  /\ UNCHANGED <<ctx, matrix, stale, tornAdd>>

\* Bound: an insert into agd_discrepancy_item after its last id throws.
DifferenceIdsUsedUp(h) ==
  pc[h] = "saveDifference" /\ Len(differences) = MaxDifferences /\ DiscrepancyThrow(h)

SaveTotal(h) ==
  /\ pc[h] = "saveTotal"
  /\ SaveMatrix(h, [total |-> ctx[h].matrix.total + 1, status |-> "pending"])
  /\ Leave(h)
  /\ UNCHANGED <<differences, tornAdd>>

\* An item may be resolved again.
ResolveItem(h, i) ==
  /\ Begin(h, "saveResolved", [op |-> "resolve", item |-> i])
  /\ UNCHANGED discrepancyVars

SaveResolved(h) ==
  /\ pc[h] = "saveResolved"
  /\ differences' = [differences EXCEPT ![ctx[h].item] = TRUE]
  /\ Leave(h)
  /\ UNCHANGED <<matrix, stale, tornAdd>>

-----------------------------------------------------------------------------
(***************************************************************************)
(* reconcileMatrix                                                         *)
(***************************************************************************)
\* Mutant of AllResolved: one resolved difference is enough.
SomeResolved == differences = <<>> \/ \E i \in DOMAIN differences : differences[i]

AllResolved == \A i \in DOMAIN differences : differences[i]

FindDifferences(h) ==
  /\ pc[h] = "findDifferences"
  /\ AllResolved
  /\ Goto(h, "saveReconciled")
  /\ UNCHANGED <<ctx, discrepancyVars>>

DifferencesPending(h) == pc[h] = "findDifferences" /\ ~AllResolved /\ DiscrepancyThrow(h)

SaveReconciled(h) ==
  /\ pc[h] = "saveReconciled"
  /\ SaveMatrix(h, [ctx[h].matrix EXCEPT !.status = "reconciled"])
  /\ Leave(h)
  /\ UNCHANGED <<differences, tornAdd>>

-----------------------------------------------------------------------------
DiscrepancyContinue(h) ==
  \/ FindMatrix(h) \/ SaveNewMatrix(h) \/ MatrixTaken(h) \/ ListItems(h)
  \/ SaveDifference(h) \/ DifferenceIdsUsedUp(h) \/ SaveTotal(h) \/ SaveResolved(h)
  \/ FindDifferences(h) \/ DifferencesPending(h) \/ SaveReconciled(h)

DiscrepancyStart(h) ==
  \/ \E op \in {"getMatrix", "addItem", "reconcile"} : OpenMatrix(h, op)
  \/ \E i \in DOMAIN differences : ResolveItem(h, i)

DiscrepancyFail(h) ==
  /\ MayFail /\ pc[h] \in DiscrepancyCalls
  /\ Leave(h)
  /\ tornAdd' = (tornAdd \/ pc[h] = "saveTotal")
  /\ UNCHANGED <<discrepancyRows, stale>>

-----------------------------------------------------------------------------
(***************************************************************************)
(* Property                                                                *)
(***************************************************************************)
Adding == {h \in Handlers : pc[h] = "saveTotal"}

\* src/README.md, Fase 7, DiscrepancyMatrix: the matrix never counts more differences than
\* there are, counts all of them once nobody is adding one, and a reconciled one has none
\* unresolved, unless a matrix was saved over a later one or an addition died half way.
MatrixFollowsItems ==
  /\ matrix.total <= Len(differences)
  /\ ~stale /\ ~tornAdd =>
       /\ matrix.total + Cardinality(Adding) = Len(differences)
       /\ matrix.status = "reconciled" /\ Adding = {} =>
            \A i \in DOMAIN differences : differences[i]
=============================================================================

--------------------------- MODULE CaseworkProofs ---------------------------
(***************************************************************************)
(* Safety of Casework, for any number of handlers, partners, requirements, *)
(* cases and ids: types, the case file, the declarations, the references,  *)
(* and the discrepancies.                                                  *)
(*                                                                         *)
(* The calls of the four desks have names of their own, so what a handler  *)
(* holds follows from the call it makes next, whichever desk it serves.    *)
(***************************************************************************)
EXTENDS Casework, SequenceTheorems, FiniteSetTheorems, TLAPS

USE RequestsAssumption, CaseFileAssumption, CustomsAssumption, SiduneaAssumption,
    DiscrepanciesAssumption, CaseworkAssumption

-----------------------------------------------------------------------------
(***************************************************************************)
(* What a handler holds in its variables when it makes a call              *)
(***************************************************************************)
OwnerContext == [op |-> "createCase", party |-> <<Owner, "owner">>]

CaseHeld(call, c) ==
  /\ call \in {"saveCase", "saveSemaphore", "seedChecklist"} => c = OwnerContext
  /\ call = "saveParty" => c = OwnerContext \/ c \in [op : {"addParty"}, party : Party]
  /\ call = "saveColor" => c \in [op : {"updateSemaphore"}, color : Colors]
  /\ call \in {"findChecklist", "saveClosed"} => c \in [op : {"closeCase"}]
  /\ call \in {"saveDocument", "saveStatus"} =>
       c \in [op : {"upload"}, document : 0..MaxDocuments]
  /\ call = "saveReview" =>
       c \in [op : {"review"}, document : 1..MaxDocuments, status : Reviews]
  /\ call = "saveItem" => c \in [op : {"fulfill"}, requirement : Requirements]

CustomsHeld(call, c) ==
  /\ call = "saveLicense" => c \in [op : {"verifyLicense"}, partner : Partners]
  /\ call \in {"findAgent", "saveDeclaration"} =>
       c \in [op : {"declare"}, partner : Partners]
  /\ call = "saveDeclarationItem" => c \in [op : {"addItem"}, declaration : Declarations]
  /\ call = "saveRegime" => c \in [op : {"assignRegime"}, declaration : Declarations]
  /\ call \in {"findLiquidation", "saveLiquidation", "saveSubmitted"} =>
       c \in [op : {"liquidate"}, declaration : Declarations, found : BOOLEAN]

SiduneaHeld(call, c) == call \in SiduneaCalls => c \in SiduneaContext

DiscrepancyHeld(call, c) ==
  /\ call \in {"findMatrix", "saveNewMatrix"} =>
       c \in [op : {"getMatrix", "addItem", "reconcile"}, matrix : {NoMatrix}]
  /\ call = "listItems" => c \in [op : {"getMatrix"}, matrix : MatrixRow]
  /\ call \in {"saveDifference", "saveTotal"} => c \in [op : {"addItem"}, matrix : MatrixRow]
  /\ call \in {"findDifferences", "saveReconciled"} =>
       c \in [op : {"reconcile"}, matrix : MatrixRow]
  /\ call = "saveResolved" => c \in [op : {"resolve"}, item : 1..MaxDifferences]

Held(call, c) ==
  /\ call = "idle" => c = NoContext
  /\ CaseHeld(call, c) /\ CustomsHeld(call, c)
  /\ SiduneaHeld(call, c) /\ DiscrepancyHeld(call, c)

HeldInv == \A h \in Handlers : Held(pc[h], ctx[h])

-----------------------------------------------------------------------------
(***************************************************************************)
(* What the rows of each desk owe to its handlers                          *)
(***************************************************************************)
Creating(h) == \/ pc[h] \in {"saveCase", "saveSemaphore", "seedChecklist"}
               \/ pc[h] = "saveParty" /\ ctx[h].op = "createCase"

Complete == \A r \in Required \cap Mandatory : checklist[r] = "fulfilled"

\* One handler creates the case, and until it has seeded the checklist nobody works on it;
\* whoever closes the case has seen it complete, and it stays so.
FileInv ==
  /\ \A g, h \in Handlers : Creating(g) /\ Creating(h) => g = h
  /\ \A h \in Handlers : Creating(h) /\ pc[h] # "saveCase" => case # "none"
  /\ case = "none" \/ (\E h \in Handlers : Creating(h)) =>
       \A r \in Requirements : checklist[r] = "none"
  /\ \A h \in Handlers :
       /\ pc[h] \in {"saveStatus", "saveReview"} => ctx[h].document \in DOMAIN documents
       /\ pc[h] = "saveItem" => checklist[ctx[h].requirement] # "none"
       /\ pc[h] = "saveClosed" /\ ~early => Complete
  /\ case = "closed" /\ ~early => Complete

\* What the handlers at the customs desk have read still holds: rows there only come.
CustomsRead ==
  \A h \in Handlers :
    /\ pc[h] = "findAgent" => ctx[h].partner \in licenses
    /\ pc[h] = "saveDeclaration" =>
         LET agent == ctx[h].partner
         IN agent = Admin \/ (agent \in licenses /\ <<agent, "agent">> \in parties)
    /\ pc[h] \in {"saveDeclarationItem", "saveRegime", "findLiquidation", "saveLiquidation",
                  "saveSubmitted"} => ctx[h].declaration \in DOMAIN declarations
    /\ pc[h] = "saveSubmitted" => ctx[h].declaration \in liquidations

\* A declaration is submitted after its liquidation, by the handler that saved that.
Submitting(h, d) == pc[h] = "saveSubmitted" /\ ctx[h].declaration = d

SubmissionInv ==
  \A d \in DOMAIN declarations :
    /\ declarations[d].status = "submitted" => d \in liquidations
    /\ d \in liquidations => \/ declarations[d].status = "submitted"
                             \/ d \in halfLiquidated
                             \/ \E h \in Handlers : Submitting(h, d)
    /\ declarations[d].status = "submitted" /\ d \notin late =>
         /\ declarations[d].items = declarations[d].listed
         /\ \A h \in Handlers : pc[h] = "saveDeclarationItem" => ctx[h].declaration # d

CustomsInv == DeclaredByAgentOfCase /\ CustomsRead /\ SubmissionInv

\* A reference that was inserted is in the hands of one handler until it is mirrored.
InHand(h, r) == pc[h] \in {"saveDuaItems", "mirror"} /\ ctx[h].reference = r
Handed(r)    == \E h \in Handlers : InHand(h, r)

\* What the reference r of case k has when the handler is at a call.
Prepared(call, k, r) ==
  /\ references[r] = k /\ mirrors[<<k, r>>] = 0
  /\ call = "saveDuaItems" => r[1] = "dua"
  /\ call = "mirror" /\ r[1] = "dua" => r[2] \in duaItems

HandsInv ==
  /\ \A h \in Handlers :
       pc[h] \in {"saveDuaItems", "mirror"} => Prepared(pc[h], ctx[h].case, ctx[h].reference)
  /\ \A g, h \in Handlers, r \in Reference : InHand(g, r) /\ InHand(h, r) => g = h

MirrorsInv ==
  \A k \in Cases, r \in Reference :
    /\ mirrors[<<k, r>>] = 1 => references[r] = k /\ (r[1] = "dua" => r[2] \in duaItems)
    /\ references[r] = k /\ r \notin tornRefs => mirrors[<<k, r>>] = 1 \/ Handed(r)

SiduneaInv == HandsInv /\ MirrorsInv

\* No matrix, saved or held, counts a difference that is not there, and one that is
\* reconciled, or about to be, counts only resolved ones.
DiscrepancyInv ==
  /\ IsFiniteSet(Adding)
  /\ matrix.total <= Len(differences)
  /\ matrix.status = "reconciled" => \A i \in 1..matrix.total : differences[i]
  /\ \A h \in Handlers :
       /\ pc[h] \in {"saveDifference", "findDifferences", "saveReconciled"} =>
            ctx[h].matrix.total <= Len(differences)
       /\ pc[h] = "saveTotal" => ctx[h].matrix.total < Len(differences)
       /\ pc[h] = "saveResolved" => ctx[h].item \in DOMAIN differences
       /\ pc[h] = "saveReconciled" => \A i \in 1..ctx[h].matrix.total : differences[i]
  /\ ~stale /\ ~tornAdd => matrix.total + Cardinality(Adding) = Len(differences)

IInv == TypeOK /\ HeldInv /\ FileInv /\ CustomsInv /\ SiduneaInv /\ DiscrepancyInv


-----------------------------------------------------------------------------
(***************************************************************************)
(* The steps of Next, desk by desk                                         *)
(***************************************************************************)
Calls == {"idle"} \cup CaseCalls \cup CustomsCalls \cup SiduneaCalls \cup DiscrepancyCalls
Contexts == {NoContext} \cup CaseContext \cup CustomsContext \cup SiduneaContext
              \cup DiscrepancyContext

FileMove(h) ==
  \/ CreateCase(h) \/ CaseStart(h) \/ CaseContinue(h) \/ CaseFail(h)
  \/ \E party \in Party : AddParty(h, party)
CustomsMove(h)     == CustomsStart(h) \/ CustomsContinue(h) \/ CustomsFail(h)
SiduneaMove(h)     == SiduneaStart(h) \/ SiduneaContinue(h) \/ SiduneaFail(h)
DiscrepancyMove(h) == DiscrepancyStart(h) \/ DiscrepancyContinue(h) \/ DiscrepancyFail(h)

\* Every step is the move of a handler at one of the desks, with the rows of that desk.
LEMMA NextCases ==
  ASSUME Next
  PROVE  /\ desk' = desk
         /\ \E h \in Handlers :
              \/ FileMove(h) /\ UNCHANGED <<customsVars, siduneaVars, discrepancyVars>>
              \/ CustomsMove(h) /\ UNCHANGED <<caseVars, siduneaVars, discrepancyVars>>
              \/ SiduneaMove(h) /\ UNCHANGED <<caseVars, customsVars, discrepancyVars>>
              \/ DiscrepancyMove(h) /\ UNCHANGED <<caseVars, customsVars, siduneaVars>>
<1>1. PICK h \in Handlers :
        \/ AtFile(h) \/ AtParties(h) \/ AtCustoms(h) \/ AtSidunea(h) \/ AtDiscrepancies(h)
        \/ CaseStep(h) \/ CustomsStep(h) \/ SiduneaStep(h) \/ DiscrepancyStep(h)
  BY DEF Next
<1>2. CASE AtFile(h) \/ AtParties(h) \/ CaseStep(h)
  BY <1>2 DEF AtFile, AtParties, CaseStep, FileMove
<1>3. CASE AtCustoms(h) \/ CustomsStep(h)
  BY <1>3 DEF AtCustoms, CustomsStep, CustomsMove
<1>4. CASE AtSidunea(h) \/ SiduneaStep(h)
  BY <1>4 DEF AtSidunea, SiduneaStep, SiduneaMove
<1>5. CASE AtDiscrepancies(h) \/ DiscrepancyStep(h)
  BY <1>5 DEF AtDiscrepancies, DiscrepancyStep, DiscrepancyMove
<1> QED
  BY <1>1, <1>2, <1>3, <1>4, <1>5

-----------------------------------------------------------------------------
(***************************************************************************)
(* What a move does to the handlers                                        *)
(***************************************************************************)
\* Handler h goes from one of calls, or from rest, to another, and holds what that needs.
Moved(h, calls) ==
  /\ pc[h] \in {"idle"} \cup calls
  /\ \E call \in {"idle"} \cup calls, c \in Contexts :
       Held(call, c) /\ Goto(h, call) /\ Keep(h, c)

LEMMA MovedFacts ==
  ASSUME IInv, NEW h \in Handlers, NEW calls \in SUBSET Calls, Moved(h, calls)
  PROVE  /\ pc' \in [Handlers -> Calls] /\ ctx' \in [Handlers -> Contexts] /\ HeldInv'
         /\ pc[h] \in {"idle"} \cup calls /\ pc'[h] \in {"idle"} \cup calls
         /\ \A g \in Handlers : g # h => pc'[g] = pc[g] /\ ctx'[g] = ctx[g]
<1>1. PICK call \in {"idle"} \cup calls, c \in Contexts :
        Held(call, c) /\ Goto(h, call) /\ Keep(h, c)
  BY DEF Moved
<1>2. pc \in [Handlers -> Calls] /\ ctx \in [Handlers -> Contexts]
  BY DEF IInv, TypeOK, Calls, Contexts
<1>3. call \in Calls
  BY <1>1 DEF Calls
<1>4. /\ pc' \in [Handlers -> Calls] /\ ctx' \in [Handlers -> Contexts]
      /\ pc'[h] = call /\ ctx'[h] = c
      /\ \A g \in Handlers : g # h => pc'[g] = pc[g] /\ ctx'[g] = ctx[g]
  BY <1>1, <1>2, <1>3 DEF Goto, Keep
<1>5. \A g \in Handlers : Held(pc'[g], ctx'[g])
  BY <1>1, <1>4 DEF IInv, HeldInv
<1> QED
  BY <1>1, <1>4, <1>5 DEF Moved, HeldInv

LEMMA LeaveMoves ==
  ASSUME NEW h \in Handlers, NEW calls, pc[h] \in {"idle"} \cup calls, Leave(h)
  PROVE  Moved(h, calls)
<1>1. Held("idle", NoContext) /\ NoContext \in Contexts
  BY DEF Held, CaseHeld, CustomsHeld, SiduneaHeld, DiscrepancyHeld, SiduneaCalls, Contexts
<1> QED
  BY <1>1 DEF Moved, Leave

LEMMA KeepSame ==
  ASSUME IInv, NEW h \in Handlers, ctx' = ctx
  PROVE  Keep(h, ctx[h])
BY DEF Keep, IInv, TypeOK

LEMMA FileMoves ==
  ASSUME IInv, NEW h \in Handlers, FileMove(h)
  PROVE  Moved(h, CaseCalls)
<1>0. /\ documents \in Seq(DocumentStatuses) /\ DOMAIN documents = 1..Len(documents)
      /\ Len(documents) \in Nat /\ Len(documents) <= MaxDocuments
      /\ CaseContext \subseteq Contexts
  BY LenProperties DEF IInv, TypeOK, CaseTypeOK, Contexts
<1>1. Held(pc[h], ctx[h])
  BY DEF IInv, HeldInv
<1>2. CASE PartyTaken(h) \/ SeedChecklist(h) \/ SaveColor(h) \/ DocumentsMissing(h) \/
           SaveClosed(h) \/ DocumentIdsUsedUp(h) \/ SaveStatus(h) \/ SaveReview(h) \/
           SaveItem(h) \/ CaseFail(h)
  <2>1. Leave(h) /\ pc[h] \in CaseCalls
    BY <1>2
    DEF PartyTaken, CaseThrow, SeedChecklist, SaveColor, DocumentsMissing, SaveClosed,
        DocumentIdsUsedUp, SaveStatus, SaveReview, SaveItem, CaseFail, CaseCalls
  <2> QED
    BY <2>1, LeaveMoves
<1>3. CASE CreateCase(h)
  <2> DEFINE c == OwnerContext
  <2>1. pc[h] = "idle" /\ Goto(h, "saveCase") /\ Keep(h, c)
    BY <1>3 DEF CreateCase, Begin, Idle, OwnerContext
  <2>2. Held("saveCase", c) /\ c \in Contexts
    BY <1>0, <1>3, <2>1
    DEF Held, CaseHeld, CustomsHeld, SiduneaHeld, DiscrepancyHeld, SiduneaCalls, NoContext,
        CaseContext, OwnerContext, Party, Roles
  <2>3. "saveCase" \in CaseCalls /\ pc[h] \in {"idle"} \cup CaseCalls
    BY <2>1 DEF CaseCalls
  <2> QED
    BY <2>1, <2>2, <2>3 DEF Moved
<1>4. CASE CloseCase(h)
  <2> DEFINE c == [op |-> "closeCase"]
  <2>1. pc[h] = "idle" /\ Goto(h, "findChecklist") /\ Keep(h, c)
    BY <1>4 DEF CloseCase, Begin, Idle
  <2>2. Held("findChecklist", c) /\ c \in Contexts
    BY <1>0, <1>4, <2>1
    DEF Held, CaseHeld, CustomsHeld, SiduneaHeld, DiscrepancyHeld, SiduneaCalls, NoContext,
        CaseContext
  <2>3. "findChecklist" \in CaseCalls /\ pc[h] \in {"idle"} \cup CaseCalls
    BY <2>1 DEF CaseCalls
  <2> QED
    BY <2>1, <2>2, <2>3 DEF Moved
<1>5. CASE Upload(h)
  <2> DEFINE c == [op |-> "upload", document |-> 0]
  <2>1. pc[h] = "idle" /\ Goto(h, "saveDocument") /\ Keep(h, c)
    BY <1>5 DEF Upload, Begin, Idle
  <2>2. Held("saveDocument", c) /\ c \in Contexts
    BY <1>0, <1>5, <2>1
    DEF Held, CaseHeld, CustomsHeld, SiduneaHeld, DiscrepancyHeld, SiduneaCalls, NoContext,
        CaseContext, Upload
  <2>3. "saveDocument" \in CaseCalls /\ pc[h] \in {"idle"} \cup CaseCalls
    BY <2>1 DEF CaseCalls
  <2> QED
    BY <2>1, <2>2, <2>3 DEF Moved
<1>6. ASSUME NEW color \in Colors, UpdateSemaphore(h, color)
      PROVE  Moved(h, CaseCalls)
  <2> DEFINE c == [op |-> "updateSemaphore", color |-> color]
  <2>1. pc[h] = "idle" /\ Goto(h, "saveColor") /\ Keep(h, c)
    BY <1>6 DEF UpdateSemaphore, Begin, Idle
  <2>2. Held("saveColor", c) /\ c \in Contexts
    BY <1>0, <1>6, <2>1
    DEF Held, CaseHeld, CustomsHeld, SiduneaHeld, DiscrepancyHeld, SiduneaCalls, NoContext,
        CaseContext
  <2>3. "saveColor" \in CaseCalls /\ pc[h] \in {"idle"} \cup CaseCalls
    BY <2>1 DEF CaseCalls
  <2> QED
    BY <2>1, <2>2, <2>3 DEF Moved
<1>7. ASSUME NEW d \in DOMAIN documents, NEW status \in Reviews, ReviewDocument(h, d, status)
      PROVE  Moved(h, CaseCalls)
  <2> DEFINE c == [op |-> "review", document |-> d, status |-> status]
  <2>1. pc[h] = "idle" /\ Goto(h, "saveReview") /\ Keep(h, c)
    BY <1>7 DEF ReviewDocument, Begin, Idle
  <2>2. Held("saveReview", c) /\ c \in Contexts
    BY <1>0, <1>7, <2>1
    DEF Held, CaseHeld, CustomsHeld, SiduneaHeld, DiscrepancyHeld, SiduneaCalls, NoContext,
        CaseContext, ReviewDocument
  <2>3. "saveReview" \in CaseCalls /\ pc[h] \in {"idle"} \cup CaseCalls
    BY <2>1 DEF CaseCalls
  <2> QED
    BY <2>1, <2>2, <2>3 DEF Moved
<1>8. ASSUME NEW r \in Requirements, FulfillChecklistItem(h, r)
      PROVE  Moved(h, CaseCalls)
  <2> DEFINE c == [op |-> "fulfill", requirement |-> r]
  <2>1. pc[h] = "idle" /\ Goto(h, "saveItem") /\ Keep(h, c)
    BY <1>8 DEF FulfillChecklistItem, Begin, Idle
  <2>2. Held("saveItem", c) /\ c \in Contexts
    BY <1>0, <1>8, <2>1
    DEF Held, CaseHeld, CustomsHeld, SiduneaHeld, DiscrepancyHeld, SiduneaCalls, NoContext,
        CaseContext
  <2>3. "saveItem" \in CaseCalls /\ pc[h] \in {"idle"} \cup CaseCalls
    BY <2>1 DEF CaseCalls
  <2> QED
    BY <2>1, <2>2, <2>3 DEF Moved
<1>9. ASSUME NEW party \in Party, AddParty(h, party)
      PROVE  Moved(h, CaseCalls)
  <2> DEFINE c == [op |-> "addParty", party |-> party]
  <2>1. pc[h] = "idle" /\ Goto(h, "saveParty") /\ Keep(h, c)
    BY <1>9 DEF AddParty, Begin, Idle
  <2>2. Held("saveParty", c) /\ c \in Contexts
    BY <1>0, <1>9, <2>1
    DEF Held, CaseHeld, CustomsHeld, SiduneaHeld, DiscrepancyHeld, SiduneaCalls, NoContext,
        CaseContext
  <2>3. "saveParty" \in CaseCalls /\ pc[h] \in {"idle"} \cup CaseCalls
    BY <2>1 DEF CaseCalls
  <2> QED
    BY <2>1, <2>2, <2>3 DEF Moved
<1>10. CASE SaveCase(h)
  <2>1. pc[h] = "saveCase" /\ Goto(h, "saveParty") /\ ctx' = ctx
    BY <1>10 DEF SaveCase, OwnerContext
  <2>2. Held("saveParty", ctx[h]) /\ ctx[h] \in Contexts
    BY <1>0, <1>10, <1>1, <2>1, <2>1
    DEF Held, CaseHeld, CustomsHeld, SiduneaHeld, DiscrepancyHeld, SiduneaCalls, NoContext,
        CaseContext, OwnerContext, Party, Roles
  <2>3. "saveParty" \in CaseCalls /\ pc[h] \in {"idle"} \cup CaseCalls
    BY <2>1 DEF CaseCalls
  <2> QED
    BY <2>1, <2>2, <2>3, KeepSame DEF Moved
<1>11. CASE SaveParty(h)
  <2>1. CASE ctx[h].op = "createCase"
    <3>1. pc[h] = "saveParty" /\ Goto(h, "saveSemaphore") /\ ctx' = ctx
      BY <1>11, <2>1 DEF SaveParty
    <3>2. ctx[h] = OwnerContext
      BY <1>1, <2>1, <3>1 DEF Held, CaseHeld, OwnerContext
    <3>3. Held("saveSemaphore", ctx[h]) /\ ctx[h] \in Contexts
      BY <1>0, <3>2
      DEF Held, CaseHeld, CustomsHeld, SiduneaHeld, DiscrepancyHeld, SiduneaCalls, NoContext,
          OwnerContext, CaseContext, Party, Roles
    <3> QED
      BY <3>1, <3>3, KeepSame DEF Moved, CaseCalls
  <2>2. CASE ctx[h].op # "createCase"
    <3>1. Leave(h) /\ pc[h] \in CaseCalls
      BY <1>11, <2>2 DEF SaveParty, CaseCalls
    <3> QED
      BY <3>1, LeaveMoves
  <2> QED
    BY <2>1, <2>2
<1>12. CASE SaveSemaphore(h)
  <2>1. pc[h] = "saveSemaphore" /\ Goto(h, "seedChecklist") /\ ctx' = ctx
    BY <1>12 DEF SaveSemaphore, OwnerContext
  <2>2. Held("seedChecklist", ctx[h]) /\ ctx[h] \in Contexts
    BY <1>0, <1>12, <1>1, <2>1, <2>1
    DEF Held, CaseHeld, CustomsHeld, SiduneaHeld, DiscrepancyHeld, SiduneaCalls, NoContext,
        CaseContext, OwnerContext, Party, Roles
  <2>3. "seedChecklist" \in CaseCalls /\ pc[h] \in {"idle"} \cup CaseCalls
    BY <2>1 DEF CaseCalls
  <2> QED
    BY <2>1, <2>2, <2>3, KeepSame DEF Moved
<1>13. CASE FindChecklist(h)
  <2>1. pc[h] = "findChecklist" /\ Goto(h, "saveClosed") /\ ctx' = ctx
    BY <1>13 DEF FindChecklist
  <2>2. Held("saveClosed", ctx[h]) /\ ctx[h] \in Contexts
    BY <1>0, <1>13, <1>1, <2>1, <2>1
    DEF Held, CaseHeld, CustomsHeld, SiduneaHeld, DiscrepancyHeld, SiduneaCalls, NoContext,
        CaseContext
  <2>3. "saveClosed" \in CaseCalls /\ pc[h] \in {"idle"} \cup CaseCalls
    BY <2>1 DEF CaseCalls
  <2> QED
    BY <2>1, <2>2, <2>3, KeepSame DEF Moved
<1>14. CASE SaveDocument(h)
  <2> DEFINE c == [ctx[h] EXCEPT !.document = Len(documents) + 1]
  <2>1. pc[h] = "saveDocument" /\ Goto(h, "saveStatus") /\ Keep(h, c)
    BY <1>14 DEF SaveDocument
  <2>2. Held("saveStatus", c) /\ c \in Contexts
    BY <1>0, <1>14, <1>1, <2>1, <2>1
    DEF Held, CaseHeld, CustomsHeld, SiduneaHeld, DiscrepancyHeld, SiduneaCalls, NoContext,
        CaseContext, SaveDocument
  <2>3. "saveStatus" \in CaseCalls /\ pc[h] \in {"idle"} \cup CaseCalls
    BY <2>1 DEF CaseCalls
  <2> QED
    BY <2>1, <2>2, <2>3 DEF Moved
<1> QED
  BY <1>2, <1>3, <1>4, <1>5, <1>6, <1>7, <1>8, <1>9, <1>10, <1>11, <1>12, <1>13, <1>14
  DEF FileMove, CaseStart, CaseContinue

LEMMA CustomsMoves ==
  ASSUME IInv, NEW h \in Handlers, CustomsMove(h)
  PROVE  Moved(h, CustomsCalls)
<1>0. /\ DOMAIN declarations \subseteq Declarations
      /\ CustomsContext \subseteq Contexts
  BY LenProperties DEF IInv, TypeOK, CustomsTypeOK, Declarations, Contexts
<1>1. Held(pc[h], ctx[h])
  BY DEF IInv, HeldInv
<1>2. CASE SaveLicense(h) \/ LicenseTaken(h) \/ NotAgent(h) \/ SaveDeclaration(h) \/
           DeclarationIdsUsedUp(h) \/ SaveDeclarationItem(h) \/ ItemsUsedUp(h) \/
           SaveRegime(h) \/ RegimeTaken(h) \/ LiquidationTaken(h) \/ SaveSubmitted(h) \/
           CustomsFail(h)
  <2>1. Leave(h) /\ pc[h] \in CustomsCalls
    BY <1>2
    DEF SaveLicense, LicenseTaken, CustomsThrow, NotAgent, SaveDeclaration,
        DeclarationIdsUsedUp, SaveDeclarationItem, ItemsUsedUp, SaveRegime, RegimeTaken,
        LiquidationTaken, SaveSubmitted, CustomsFail, CustomsCalls
  <2> QED
    BY <2>1, LeaveMoves
<1>3. ASSUME NEW partner \in Partners, VerifyLicense(h, partner)
      PROVE  Moved(h, CustomsCalls)
  <2> DEFINE c == [op |-> "verifyLicense", partner |-> partner]
  <2>1. pc[h] = "idle" /\ Goto(h, "saveLicense") /\ Keep(h, c)
    BY <1>3 DEF VerifyLicense, Begin, Idle
  <2>2. Held("saveLicense", c) /\ c \in Contexts
    BY <1>0, <1>3, <2>1
    DEF Held, CaseHeld, CustomsHeld, SiduneaHeld, DiscrepancyHeld, SiduneaCalls, NoContext,
        CustomsContext, Declarations
  <2>3. "saveLicense" \in CustomsCalls /\ pc[h] \in {"idle"} \cup CustomsCalls
    BY <2>1 DEF CustomsCalls
  <2> QED
    BY <2>1, <2>2, <2>3 DEF Moved
<1>4. ASSUME NEW partner \in Partners, CreateDeclaration(h, partner)
      PROVE  Moved(h, CustomsCalls)
  <2> DEFINE c == [op |-> "declare", partner |-> partner]
             call == IF partner = Admin THEN "saveDeclaration" ELSE "findAgent"
  <2>1. pc[h] = "idle" /\ Goto(h, call) /\ Keep(h, c)
    BY <1>4 DEF CreateDeclaration, Begin, Idle
  <2>2. Held(call, c) /\ c \in Contexts
    BY <1>0, <1>4, <2>1
    DEF Held, CaseHeld, CustomsHeld, SiduneaHeld, DiscrepancyHeld, SiduneaCalls, NoContext,
        CustomsContext, Declarations
  <2>3. call \in CustomsCalls /\ pc[h] \in {"idle"} \cup CustomsCalls
    BY <2>1 DEF CustomsCalls
  <2> QED
    BY <2>1, <2>2, <2>3 DEF Moved
<1>5. ASSUME NEW d \in DOMAIN declarations, AddItem(h, d)
      PROVE  Moved(h, CustomsCalls)
  <2> DEFINE c == [op |-> "addItem", declaration |-> d]
  <2>1. pc[h] = "idle" /\ Goto(h, "saveDeclarationItem") /\ Keep(h, c)
    BY <1>5 DEF AddItem, Begin, Idle
  <2>2. Held("saveDeclarationItem", c) /\ c \in Contexts
    BY <1>0, <1>5, <2>1
    DEF Held, CaseHeld, CustomsHeld, SiduneaHeld, DiscrepancyHeld, SiduneaCalls, NoContext,
        CustomsContext, Declarations
  <2>3. "saveDeclarationItem" \in CustomsCalls /\ pc[h] \in {"idle"} \cup CustomsCalls
    BY <2>1 DEF CustomsCalls
  <2> QED
    BY <2>1, <2>2, <2>3 DEF Moved
<1>6. ASSUME NEW d \in DOMAIN declarations, AssignRegime(h, d)
      PROVE  Moved(h, CustomsCalls)
  <2> DEFINE c == [op |-> "assignRegime", declaration |-> d]
  <2>1. pc[h] = "idle" /\ Goto(h, "saveRegime") /\ Keep(h, c)
    BY <1>6 DEF AssignRegime, Begin, Idle
  <2>2. Held("saveRegime", c) /\ c \in Contexts
    BY <1>0, <1>6, <2>1
    DEF Held, CaseHeld, CustomsHeld, SiduneaHeld, DiscrepancyHeld, SiduneaCalls, NoContext,
        CustomsContext, Declarations
  <2>3. "saveRegime" \in CustomsCalls /\ pc[h] \in {"idle"} \cup CustomsCalls
    BY <2>1 DEF CustomsCalls
  <2> QED
    BY <2>1, <2>2, <2>3 DEF Moved
<1>7. ASSUME NEW d \in DOMAIN declarations, CreateLiquidation(h, d)
      PROVE  Moved(h, CustomsCalls)
  <2> DEFINE c == [op |-> "liquidate", declaration |-> d, found |-> FALSE]
  <2>1. pc[h] = "idle" /\ Goto(h, "findLiquidation") /\ Keep(h, c)
    BY <1>7 DEF CreateLiquidation, Begin, Idle
  <2>2. Held("findLiquidation", c) /\ c \in Contexts
    BY <1>0, <1>7, <2>1
    DEF Held, CaseHeld, CustomsHeld, SiduneaHeld, DiscrepancyHeld, SiduneaCalls, NoContext,
        CustomsContext, Declarations
  <2>3. "findLiquidation" \in CustomsCalls /\ pc[h] \in {"idle"} \cup CustomsCalls
    BY <2>1 DEF CustomsCalls
  <2> QED
    BY <2>1, <2>2, <2>3 DEF Moved
<1>8. CASE FindAgent(h)
  <2>1. pc[h] = "findAgent" /\ Goto(h, "saveDeclaration") /\ ctx' = ctx
    BY <1>8 DEF FindAgent
  <2>2. Held("saveDeclaration", ctx[h]) /\ ctx[h] \in Contexts
    BY <1>0, <1>8, <1>1, <2>1, <2>1
    DEF Held, CaseHeld, CustomsHeld, SiduneaHeld, DiscrepancyHeld, SiduneaCalls, NoContext,
        CustomsContext, Declarations
  <2>3. "saveDeclaration" \in CustomsCalls /\ pc[h] \in {"idle"} \cup CustomsCalls
    BY <2>1 DEF CustomsCalls
  <2> QED
    BY <2>1, <2>2, <2>3, KeepSame DEF Moved
<1>9. CASE FindLiquidation(h)
  <2> DEFINE c == [ctx[h] EXCEPT !.found = ctx[h].declaration \in liquidations]
  <2>1. pc[h] = "findLiquidation" /\ Goto(h, "saveLiquidation") /\ Keep(h, c)
    BY <1>9 DEF FindLiquidation
  <2>2. ctx[h] \in [op : {"liquidate"}, declaration : Declarations, found : BOOLEAN]
    BY <1>1, <2>1 DEF Held, CustomsHeld
  <2>3. c \in [op : {"liquidate"}, declaration : Declarations, found : BOOLEAN]
    <3>1. ASSUME NEW v \in BOOLEAN
          PROVE  [ctx[h] EXCEPT !.found = v] \in
                   [op : {"liquidate"}, declaration : Declarations, found : BOOLEAN]
      BY <2>2
    <3>2. (ctx[h].declaration \in liquidations) \in BOOLEAN
      OBVIOUS
    <3> QED
      BY <3>1, <3>2, Zenon
  <2> HIDE DEF c
  <2>4. Held("saveLiquidation", c) /\ c \in Contexts
    BY <1>0, <2>3
       DEF Held, CaseHeld, CustomsHeld, SiduneaHeld, DiscrepancyHeld, SiduneaCalls,
           CustomsContext
  <2> QED
    BY <2>1, <2>4 DEF Moved, CustomsCalls
<1>10. CASE SaveLiquidation(h)
  <2>1. pc[h] = "saveLiquidation" /\ Goto(h, "saveSubmitted") /\ ctx' = ctx
    BY <1>10 DEF SaveLiquidation
  <2>2. Held("saveSubmitted", ctx[h]) /\ ctx[h] \in Contexts
    BY <1>0, <1>10, <1>1, <2>1, <2>1
    DEF Held, CaseHeld, CustomsHeld, SiduneaHeld, DiscrepancyHeld, SiduneaCalls, NoContext,
        CustomsContext, Declarations
  <2>3. "saveSubmitted" \in CustomsCalls /\ pc[h] \in {"idle"} \cup CustomsCalls
    BY <2>1 DEF CustomsCalls
  <2> QED
    BY <2>1, <2>2, <2>3, KeepSame DEF Moved
<1> QED
  BY <1>2, <1>3, <1>4, <1>5, <1>6, <1>7, <1>8, <1>9, <1>10
  DEF CustomsMove, CustomsStart, CustomsContinue

LEMMA SiduneaMoves ==
  ASSUME IInv, NEW h \in Handlers, SiduneaMove(h)
  PROVE  Moved(h, SiduneaCalls)
<1>0. SiduneaContext \subseteq Contexts
  BY LenProperties DEF IInv, TypeOK, SiduneaTypeOK, Contexts
<1>1. Held(pc[h], ctx[h])
  BY DEF IInv, HeldInv
<1>2. CASE ReferenceTaken(h) \/ Mirror(h) \/ SiduneaFail(h)
  <2>1. Leave(h) /\ pc[h] \in SiduneaCalls
    BY <1>2
    DEF ReferenceTaken, Mirror, SiduneaFail, SiduneaCalls
  <2> QED
    BY <2>1, LeaveMoves
<1>3. ASSUME NEW k \in Cases, NEW r \in Reference, CreateReference(h, k, r)
      PROVE  Moved(h, SiduneaCalls)
  <2> DEFINE c == [op |-> "createReference", case |-> k, reference |-> r]
  <2>1. pc[h] = "idle" /\ Goto(h, "saveReference") /\ Keep(h, c)
    BY <1>3 DEF CreateReference, Begin, Idle
  <2>2. Held("saveReference", c) /\ c \in Contexts
    BY <1>0, <1>3, <2>1
    DEF Held, CaseHeld, CustomsHeld, SiduneaHeld, DiscrepancyHeld, SiduneaCalls, NoContext,
        SiduneaContext
  <2>3. "saveReference" \in SiduneaCalls /\ pc[h] \in {"idle"} \cup SiduneaCalls
    BY <2>1 DEF SiduneaCalls
  <2> QED
    BY <2>1, <2>2, <2>3 DEF Moved
<1>4. CASE SaveReference(h)
  <2> DEFINE call == IF ctx[h].reference[1] = "dua" THEN "saveDuaItems" ELSE "mirror"
  <2>1. pc[h] = "saveReference" /\ Goto(h, call) /\ ctx' = ctx
    BY <1>4 DEF SaveReference
  <2>2. Held(call, ctx[h]) /\ ctx[h] \in Contexts
    BY <1>0, <1>4, <1>1, <2>1, <2>1
    DEF Held, CaseHeld, CustomsHeld, SiduneaHeld, DiscrepancyHeld, SiduneaCalls, NoContext,
        SiduneaContext
  <2>3. call \in SiduneaCalls /\ pc[h] \in {"idle"} \cup SiduneaCalls
    BY <2>1 DEF SiduneaCalls
  <2> QED
    BY <2>1, <2>2, <2>3, KeepSame DEF Moved
<1>5. CASE SaveDuaItems(h)
  <2>1. pc[h] = "saveDuaItems" /\ Goto(h, "mirror") /\ ctx' = ctx
    BY <1>5 DEF SaveDuaItems
  <2>2. Held("mirror", ctx[h]) /\ ctx[h] \in Contexts
    BY <1>0, <1>5, <1>1, <2>1, <2>1
    DEF Held, CaseHeld, CustomsHeld, SiduneaHeld, DiscrepancyHeld, SiduneaCalls, NoContext,
        SiduneaContext
  <2>3. "mirror" \in SiduneaCalls /\ pc[h] \in {"idle"} \cup SiduneaCalls
    BY <2>1 DEF SiduneaCalls
  <2> QED
    BY <2>1, <2>2, <2>3, KeepSame DEF Moved
<1> QED
  BY <1>2, <1>3, <1>4, <1>5
  DEF SiduneaMove, SiduneaStart, SiduneaContinue

\* An operation goes on with the matrix it found or made.
LEMMA ProceedMoves ==
  ASSUME IInv, NEW h \in Handlers, NEW row \in MatrixRow,
         pc[h] \in {"findMatrix", "saveNewMatrix"}, Proceed(h, row)
  PROVE  /\ Moved(h, DiscrepancyCalls)
         /\ pc'[h] = "listItems" \/ (pc'[h] \in {"saveDifference", "findDifferences"})
         /\ ctx'[h].matrix = row
<1>1. /\ Held(pc[h], ctx[h]) /\ DiscrepancyContext \subseteq Contexts
      /\ pc \in [Handlers -> Calls] /\ ctx \in [Handlers -> Contexts]
  BY DEF IInv, HeldInv, TypeOK, Calls, Contexts
<1> DEFINE op == ctx[h].op
           c  == [op |-> op, matrix |-> row]
<1>2. op \in {"getMatrix", "addItem", "reconcile"}
  BY <1>1 DEF Held, DiscrepancyHeld
<1>3. c \in Contexts /\ c.matrix = row /\ Keep(h, c)
  BY <1>1, <1>2 DEF DiscrepancyContext, Proceed
<1>4. PICK call \in {"listItems", "saveDifference", "findDifferences"} :
        Goto(h, call) /\ Held(call, c)
  <2>1. CASE op = "getMatrix"
    BY <2>1 DEF Proceed, Held, CaseHeld, CustomsHeld, SiduneaHeld, DiscrepancyHeld, SiduneaCalls
  <2>2. CASE op = "addItem"
    BY <2>2 DEF Proceed, Held, CaseHeld, CustomsHeld, SiduneaHeld, DiscrepancyHeld, SiduneaCalls
  <2>3. CASE op = "reconcile"
    BY <2>3 DEF Proceed, Held, CaseHeld, CustomsHeld, SiduneaHeld, DiscrepancyHeld, SiduneaCalls
  <2> QED
    BY <1>2, <2>1, <2>2, <2>3
<1>5. Moved(h, DiscrepancyCalls)
  BY <1>3, <1>4 DEF Moved, DiscrepancyCalls
<1> HIDE DEF c, op
<1>6. pc'[h] = call /\ ctx'[h] = c
  BY <1>1, <1>3, <1>4 DEF Goto, Keep
<1> QED
  BY <1>3, <1>4, <1>5, <1>6


LEMMA DiscrepancyMoves ==
  ASSUME IInv, NEW h \in Handlers, DiscrepancyMove(h)
  PROVE  Moved(h, DiscrepancyCalls)
<1>0. /\ DOMAIN differences \subseteq 1..MaxDifferences
      /\ DiscrepancyContext \subseteq Contexts
  BY LenProperties DEF IInv, TypeOK, DiscrepancyTypeOK, Contexts
<1>1. Held(pc[h], ctx[h])
  BY DEF IInv, HeldInv
<1>2. CASE MatrixTaken(h) \/ ListItems(h) \/ DifferenceIdsUsedUp(h) \/ SaveTotal(h) \/
           SaveResolved(h) \/ DifferencesPending(h) \/ SaveReconciled(h) \/
           DiscrepancyFail(h)
  <2>1. Leave(h) /\ pc[h] \in DiscrepancyCalls
    BY <1>2
    DEF MatrixTaken, DiscrepancyThrow, ListItems, DifferenceIdsUsedUp, SaveTotal, SaveResolved,
        DifferencesPending, SaveReconciled, DiscrepancyFail, DiscrepancyCalls
  <2> QED
    BY <2>1, LeaveMoves
<1>3. ASSUME NEW op \in {"getMatrix", "addItem", "reconcile"}, OpenMatrix(h, op)
      PROVE  Moved(h, DiscrepancyCalls)
  <2> DEFINE c == [op |-> op, matrix |-> NoMatrix]
  <2>1. pc[h] = "idle" /\ Goto(h, "findMatrix") /\ Keep(h, c)
    BY <1>3 DEF OpenMatrix, Begin, Idle
  <2>2. Held("findMatrix", c) /\ c \in Contexts
    BY <1>0, <1>3, <2>1
    DEF Held, CaseHeld, CustomsHeld, SiduneaHeld, DiscrepancyHeld, SiduneaCalls, NoContext,
        DiscrepancyContext
  <2>3. "findMatrix" \in DiscrepancyCalls /\ pc[h] \in {"idle"} \cup DiscrepancyCalls
    BY <2>1 DEF DiscrepancyCalls
  <2> QED
    BY <2>1, <2>2, <2>3 DEF Moved
<1>4. ASSUME NEW i \in DOMAIN differences, ResolveItem(h, i)
      PROVE  Moved(h, DiscrepancyCalls)
  <2> DEFINE c == [op |-> "resolve", item |-> i]
  <2>1. pc[h] = "idle" /\ Goto(h, "saveResolved") /\ Keep(h, c)
    BY <1>4 DEF ResolveItem, Begin, Idle
  <2>2. Held("saveResolved", c) /\ c \in Contexts
    BY <1>0, <1>4, <2>1
    DEF Held, CaseHeld, CustomsHeld, SiduneaHeld, DiscrepancyHeld, SiduneaCalls, NoContext,
        DiscrepancyContext
  <2>3. "saveResolved" \in DiscrepancyCalls /\ pc[h] \in {"idle"} \cup DiscrepancyCalls
    BY <2>1 DEF DiscrepancyCalls
  <2> QED
    BY <2>1, <2>2, <2>3 DEF Moved
<1>5. CASE FindMatrix(h)
  <2>1. CASE matrix = NoMatrix
    <3>1. pc[h] = "findMatrix" /\ Goto(h, "saveNewMatrix") /\ ctx' = ctx
      BY <1>5, <2>1 DEF FindMatrix
    <3>2. Held("saveNewMatrix", ctx[h]) /\ ctx[h] \in Contexts
      BY <1>0, <1>1, <3>1
         DEF Held, CaseHeld, CustomsHeld, SiduneaHeld, DiscrepancyHeld, SiduneaCalls,
             DiscrepancyContext
    <3> QED
      BY <3>1, <3>2, KeepSame DEF Moved, DiscrepancyCalls
  <2>2. CASE matrix # NoMatrix
    BY <1>5, <2>2, ProceedMoves DEF FindMatrix, IInv, TypeOK, DiscrepancyTypeOK
  <2> QED
    BY <2>1, <2>2
<1>6. CASE SaveNewMatrix(h)
  <2>1. NewMatrix \in MatrixRow
    BY DEF NewMatrix, MatrixRow, DiscrepanciesAssumption
  <2> QED
    BY <1>6, <2>1, ProceedMoves DEF SaveNewMatrix
<1>7. CASE SaveDifference(h)
  <2>1. pc[h] = "saveDifference" /\ Goto(h, "saveTotal") /\ ctx' = ctx
    BY <1>7 DEF SaveDifference
  <2>2. Held("saveTotal", ctx[h]) /\ ctx[h] \in Contexts
    BY <1>0, <1>7, <1>1, <2>1, <2>1
    DEF Held, CaseHeld, CustomsHeld, SiduneaHeld, DiscrepancyHeld, SiduneaCalls, NoContext,
        DiscrepancyContext
  <2>3. "saveTotal" \in DiscrepancyCalls /\ pc[h] \in {"idle"} \cup DiscrepancyCalls
    BY <2>1 DEF DiscrepancyCalls
  <2> QED
    BY <2>1, <2>2, <2>3, KeepSame DEF Moved
<1>8. CASE FindDifferences(h)
  <2>1. pc[h] = "findDifferences" /\ Goto(h, "saveReconciled") /\ ctx' = ctx
    BY <1>8 DEF FindDifferences
  <2>2. Held("saveReconciled", ctx[h]) /\ ctx[h] \in Contexts
    BY <1>0, <1>8, <1>1, <2>1, <2>1
    DEF Held, CaseHeld, CustomsHeld, SiduneaHeld, DiscrepancyHeld, SiduneaCalls, NoContext,
        DiscrepancyContext
  <2>3. "saveReconciled" \in DiscrepancyCalls /\ pc[h] \in {"idle"} \cup DiscrepancyCalls
    BY <2>1 DEF DiscrepancyCalls
  <2> QED
    BY <2>1, <2>2, <2>3, KeepSame DEF Moved
<1> QED
  BY <1>2, <1>3, <1>4, <1>5, <1>6, <1>7, <1>8
  DEF DiscrepancyMove, DiscrepancyStart, DiscrepancyContinue

-----------------------------------------------------------------------------
(***************************************************************************)
(* Types of the rows                                                       *)
(***************************************************************************)
LEMMA FileTypes ==
  ASSUME IInv, NEW h \in Handlers, FileMove(h)
  PROVE  CaseTypeOK'
<1> USE DEF caseVars, caseRows
<1>0. /\ case \in {"none", "open", "closed"} /\ parties \subseteq Party
      /\ semaphore \in {"none"} \cup Colors
      /\ checklist \in [Requirements -> ItemStatuses]
      /\ documents \in Seq(DocumentStatuses) /\ Len(documents) <= MaxDocuments
      /\ early \in BOOLEAN
      /\ DOMAIN documents = 1..Len(documents) /\ Len(documents) \in Nat
      /\ Held(pc[h], ctx[h])
  BY LenProperties DEF IInv, TypeOK, CaseTypeOK, HeldInv
<1>1. CASE UNCHANGED caseVars
  BY <1>0, <1>1 DEF CaseTypeOK
<1>2. CASE SaveCase(h) \/ SaveSemaphore(h) \/ SaveClosed(h)
  BY <1>0, <1>2 DEF SaveCase, SaveSemaphore, SaveClosed, Colors, CaseTypeOK
<1>3. CASE SaveParty(h)
  <2>1. ctx[h].party \in Party
    BY <1>0, <1>3 DEF Held, CaseHeld, SaveParty, OwnerContext, Party, Roles
  <2> QED
    BY <1>0, <1>3, <2>1 DEF SaveParty, CaseTypeOK
<1>4. CASE SeedChecklist(h) \/ SaveItem(h)
  <2>1. checklist' \in [Requirements -> ItemStatuses]
    BY <1>0, <1>4 DEF SeedChecklist, SaveItem, ItemStatuses
  <2> QED
    BY <1>0, <1>4, <2>1 DEF SeedChecklist, SaveItem, CaseTypeOK
<1>5. CASE SaveColor(h)
  <2>1. ctx[h].color \in Colors
    BY <1>0, <1>5 DEF Held, CaseHeld, SaveColor
  <2> QED
    BY <1>0, <1>5, <2>1 DEF SaveColor, CaseTypeOK
<1>6. CASE FindChecklist(h)
  <2>1. early' \in BOOLEAN
    BY <1>0, <1>6 DEF FindChecklist
  <2> QED
    BY <1>0, <1>6, <2>1 DEF FindChecklist, CaseTypeOK
<1>7. CASE SaveDocument(h)
  <2>1. "unfiled" \in DocumentStatuses
    BY DEF DocumentStatuses
  <2>2. documents' \in Seq(DocumentStatuses) /\ Len(documents') = Len(documents) + 1
    BY <1>0, <1>7, <2>1, AppendProperties DEF SaveDocument
  <2>3. Len(documents') <= MaxDocuments
    BY <1>0, <1>7, <2>2 DEF SaveDocument, CaseFileAssumption
  <2> QED
    BY <1>0, <1>7, <2>2, <2>3 DEF SaveDocument, CaseTypeOK
<1>8. CASE SaveStatus(h) \/ SaveReview(h)
  <2>1. PICK status \in DocumentStatuses :
          documents' = [documents EXCEPT ![ctx[h].document] = status]
    <3>1. CASE SaveStatus(h)
      BY <3>1 DEF SaveStatus, DocumentStatuses
    <3>2. CASE SaveReview(h)
      <4>1. ctx[h].status \in DocumentStatuses
        BY <1>0, <3>2 DEF Held, CaseHeld, SaveReview, DocumentStatuses
      <4> QED
        BY <3>2, <4>1 DEF SaveReview
    <3> QED
      BY <1>8, <3>1, <3>2
  <2>2. ctx[h].document \in 1..Len(documents)
    BY <1>0, <1>8 DEF IInv, FileInv, SaveStatus, SaveReview
  <2>3. documents' \in Seq(DocumentStatuses) /\ Len(documents') = Len(documents)
    BY <1>0, <2>1, <2>2, ExceptSeq
  <2> QED
    BY <1>0, <1>8, <2>3 DEF SaveStatus, SaveReview, CaseTypeOK
<1> QED
  BY <1>1, <1>2, <1>3, <1>4, <1>5, <1>6, <1>7, <1>8
     DEF FileMove, CaseStart, CaseContinue, CaseFail, CreateCase, AddParty, CloseCase, Upload,
         UpdateSemaphore, ReviewDocument, FulfillChecklistItem, PartyTaken, DocumentsMissing,
         DocumentIdsUsedUp, CaseThrow

\* What changes in the rows of the declarations.
LEMMA DeclarationsMove ==
  ASSUME IInv, NEW h \in Handlers, CustomsMove(h)
  PROVE  /\ declarations \in Seq(DeclarationRow) /\ declarations' \in Seq(DeclarationRow)
         /\ DOMAIN declarations = 1..Len(declarations)
         /\ DOMAIN declarations' = 1..Len(declarations') /\ Len(declarations) \in Nat
         /\ Len(declarations') \in Nat /\ Len(declarations') <= MaxDeclarations
         /\ DOMAIN declarations \subseteq DOMAIN declarations'
         /\ \A d \in DOMAIN declarations' \ DOMAIN declarations :
              /\ SaveDeclaration(h) /\ declarations'[d].agent = ctx[h].partner
              /\ declarations'[d].status = "draft" /\ declarations'[d].items = 0
              /\ d = Len(declarations) + 1
         /\ \A d \in DOMAIN declarations :
              /\ declarations'[d].agent = declarations[d].agent
              /\ \/ declarations'[d].items = declarations[d].items
                 \/ SaveDeclarationItem(h) /\ d = ctx[h].declaration
              /\ IF SaveSubmitted(h) /\ d = ctx[h].declaration
                 THEN /\ declarations'[d].status = "submitted"
                      /\ declarations'[d].items = declarations[d].items
                      /\ declarations'[d].listed = IF declarations[d].status = "draft"
                                                   THEN declarations[d].items
                                                   ELSE declarations[d].listed
                 ELSE /\ declarations'[d].status = declarations[d].status
                      /\ declarations'[d].listed = declarations[d].listed
<1> USE DEF customsVars, customsRows
<1>0. /\ declarations \in Seq(DeclarationRow)
      /\ DOMAIN declarations = 1..Len(declarations) /\ Len(declarations) \in Nat
      /\ Len(declarations) <= MaxDeclarations
      /\ Held(pc[h], ctx[h])
  BY LenProperties DEF IInv, TypeOK, CustomsTypeOK, HeldInv
<1>1. \A d \in DOMAIN declarations : declarations[d] \in DeclarationRow
  BY <1>0, ElementOfSeq
<1>2. CASE declarations' = declarations /\ ~SaveSubmitted(h)
  BY <1>0, <1>2
<1>3. CASE SaveDeclaration(h)
  <2> DEFINE row == [agent |-> ctx[h].partner, status |-> "draft", items |-> 0, listed |-> 0]
  <2>1. ctx[h].partner \in Partners
    BY <1>0, <1>3 DEF Held, CustomsHeld, SaveDeclaration
  <2>2. row \in DeclarationRow
    BY <2>1 DEF DeclarationRow, CustomsAssumption
  <2>3. /\ row.agent = ctx[h].partner /\ row.status = "draft" /\ row.items = 0
        /\ Len(declarations) < MaxDeclarations /\ declarations' = Append(declarations, row)
    BY <1>3 DEF SaveDeclaration
  <2> HIDE DEF row
  <2>4. /\ declarations' \in Seq(DeclarationRow) /\ Len(declarations') = Len(declarations) + 1
        /\ \A d \in 1..Len(declarations) : declarations'[d] = declarations[d]
        /\ declarations'[Len(declarations) + 1] = row
    BY <1>0, <2>2, <2>3, AppendProperties
  <2>5. DOMAIN declarations' = 1..(Len(declarations) + 1)
    BY <2>4, LenProperties
  <2>6. ~SaveSubmitted(h)
    BY <1>3 DEF SaveDeclaration, SaveSubmitted
  <2>7. /\ DOMAIN declarations \subseteq DOMAIN declarations'
        /\ Len(declarations') \in Nat /\ Len(declarations') <= MaxDeclarations
    BY <1>0, <2>3, <2>4, <2>5 DEF CustomsAssumption
  <2>8. ASSUME NEW d \in DOMAIN declarations' \ DOMAIN declarations
        PROVE  d = Len(declarations) + 1 /\ declarations'[d] = row
    BY <1>0, <2>4, <2>5, <2>8
  <2>9. \A d \in DOMAIN declarations : declarations'[d] = declarations[d]
    BY <1>0, <2>4
  <2>10. DOMAIN declarations' = 1..Len(declarations')
    BY <2>4, <2>5
  <2> QED
    BY <1>0, <1>3, <2>3, <2>4, <2>6, <2>7, <2>8, <2>9, <2>10
<1>4. CASE SaveDeclarationItem(h)
  <2> DEFINE d   == ctx[h].declaration
             row == [declarations[d] EXCEPT !.items = @ + 1]
  <2>1. d \in DOMAIN declarations
    BY <1>4 DEF IInv, CustomsInv, CustomsRead, SaveDeclarationItem
  <2>2. declarations[d].items < MaxItems /\ declarations' = [declarations EXCEPT ![d] = row]
    BY <1>4 DEF SaveDeclarationItem
  <2>3. declarations[d] \in DeclarationRow
    BY <1>1, <2>1
  <2>4. declarations[d].items + 1 \in 0..MaxItems
    BY <2>2, <2>3 DEF DeclarationRow, CustomsAssumption
  <2>5. /\ row \in DeclarationRow /\ row.agent = declarations[d].agent
        /\ row.status = declarations[d].status /\ row.listed = declarations[d].listed
    BY <2>3, <2>4 DEF DeclarationRow
  <2>6. ~SaveSubmitted(h)
    BY <1>4 DEF SaveDeclarationItem, SaveSubmitted
  <2> HIDE DEF row, d
  <2>7. /\ declarations' \in Seq(DeclarationRow) /\ Len(declarations') = Len(declarations)
        /\ \A e \in 1..Len(declarations) :
             declarations'[e] = IF e = d THEN row ELSE declarations[e]
    BY <1>0, <2>1, <2>2, <2>5, ExceptSeq
  <2>8. DOMAIN declarations' = 1..Len(declarations)
    BY <2>7, LenProperties
  <2> QED
    BY <1>0, <1>4, <2>5, <2>6, <2>7, <2>8 DEF d
<1>5. CASE SaveSubmitted(h)
  <2> DEFINE d   == ctx[h].declaration
             row == [declarations[d] EXCEPT !.status = "submitted",
                       !.listed = IF declarations[d].status = "draft"
                                  THEN declarations[d].items ELSE @]
  <2>1. d \in DOMAIN declarations
    BY <1>5 DEF IInv, CustomsInv, CustomsRead, SaveSubmitted
  <2>2. declarations[d] \in DeclarationRow
    BY <1>1, <2>1
  <2>3. declarations' = [declarations EXCEPT ![d] = row]
    BY <1>5 DEF SaveSubmitted
  <2>4. /\ row \in DeclarationRow /\ row.agent = declarations[d].agent
        /\ row.status = "submitted" /\ row.items = declarations[d].items
        /\ row.listed = IF declarations[d].status = "draft"
                        THEN declarations[d].items ELSE declarations[d].listed
    BY <2>2 DEF DeclarationRow
  <2> HIDE DEF row, d
  <2>7. /\ declarations' \in Seq(DeclarationRow) /\ Len(declarations') = Len(declarations)
        /\ \A e \in 1..Len(declarations) :
             declarations'[e] = IF e = d THEN row ELSE declarations[e]
    BY <1>0, <2>1, <2>3, <2>4, ExceptSeq
  <2>8. DOMAIN declarations' = 1..Len(declarations)
    BY <2>7, LenProperties
  <2> QED
    BY <1>0, <1>5, <2>4, <2>7, <2>8 DEF d
<1> QED
  BY <1>2, <1>3, <1>4, <1>5
     DEF CustomsMove, CustomsStart, CustomsContinue, CustomsFail, VerifyLicense,
         CreateDeclaration, AddItem, AssignRegime, CreateLiquidation, SaveLicense, LicenseTaken,
         FindAgent, NotAgent, DeclarationIdsUsedUp, ItemsUsedUp, SaveRegime, RegimeTaken,
         FindLiquidation, SaveLiquidation, LiquidationTaken, CustomsThrow, SaveSubmitted

LEMMA CustomsTypes ==
  ASSUME IInv, NEW h \in Handlers, CustomsMove(h)
  PROVE  CustomsTypeOK'
<1> USE DEF customsVars, customsRows
<1>0. /\ licenses \subseteq Partners /\ regimes \subseteq DOMAIN declarations
      /\ liquidations \subseteq DOMAIN declarations
      /\ late \subseteq Declarations /\ halfLiquidated \subseteq Declarations
      /\ Held(pc[h], ctx[h])
  BY DEF IInv, TypeOK, CustomsTypeOK, HeldInv
<1>1. /\ declarations' \in Seq(DeclarationRow) /\ Len(declarations') <= MaxDeclarations
      /\ DOMAIN declarations \subseteq DOMAIN declarations'
  BY DeclarationsMove
<1>2. CASE SaveLicense(h)
  <2>1. ctx[h].partner \in Partners
    BY <1>0, <1>2 DEF Held, CustomsHeld, SaveLicense
  <2> QED
    BY <1>0, <1>1, <1>2, <2>1 DEF SaveLicense, CustomsTypeOK
<1>3. CASE SaveRegime(h) \/ SaveLiquidation(h)
  <2>1. ctx[h].declaration \in DOMAIN declarations
    BY <1>3 DEF SaveRegime, SaveLiquidation, IInv, CustomsInv, CustomsRead
  <2> QED
    BY <1>0, <1>1, <1>3, <2>1 DEF SaveRegime, SaveLiquidation, CustomsTypeOK
<1>4. CASE SaveSubmitted(h) \/ CustomsFail(h)
  <2>1. pc[h] = "saveSubmitted" => ctx[h].declaration \in Declarations
    BY <1>0 DEF Held, CustomsHeld
  <2>2. late' \subseteq Declarations /\ halfLiquidated' \subseteq Declarations
    BY <1>0, <1>4, <2>1 DEF SaveSubmitted, CustomsFail
  <2>3. licenses' = licenses /\ regimes' = regimes /\ liquidations' = liquidations
    BY <1>4 DEF SaveSubmitted, CustomsFail
  <2> QED
    BY <1>0, <1>1, <2>2, <2>3 DEF CustomsTypeOK
<1>5. CASE UNCHANGED <<licenses, regimes, liquidations, late, halfLiquidated>>
  BY <1>0, <1>1, <1>5 DEF CustomsTypeOK
<1> QED
  BY <1>2, <1>3, <1>4, <1>5
     DEF CustomsMove, CustomsStart, CustomsContinue, VerifyLicense, CreateDeclaration, AddItem,
         AssignRegime, CreateLiquidation, LicenseTaken, FindAgent, NotAgent, SaveDeclaration,
         DeclarationIdsUsedUp, SaveDeclarationItem, ItemsUsedUp, RegimeTaken, FindLiquidation,
         LiquidationTaken, CustomsThrow

LEMMA SiduneaTypes ==
  ASSUME IInv, NEW h \in Handlers, SiduneaMove(h)
  PROVE  SiduneaTypeOK'
<1> USE DEF siduneaVars, siduneaRows
<1>0. /\ references \in [Reference -> Cases \cup {NoCase}] /\ duaItems \subseteq Numbers
      /\ mirrors \in [Cases \X Reference -> 0..1] /\ tornRefs \subseteq Reference
      /\ pc[h] \in SiduneaCalls => ctx[h].case \in Cases /\ ctx[h].reference \in Reference
  BY DEF IInv, TypeOK, SiduneaTypeOK, HeldInv, Held, SiduneaHeld, SiduneaContext
<1>1. CASE UNCHANGED siduneaVars
  BY <1>0, <1>1 DEF SiduneaTypeOK
<1>2. CASE SaveReference(h)
  BY <1>0, <1>2 DEF SaveReference, SiduneaCalls, SiduneaTypeOK
<1>3. CASE SaveDuaItems(h)
  BY <1>0, <1>3 DEF SaveDuaItems, SiduneaCalls, SiduneaTypeOK, Reference
<1>4. CASE Mirror(h)
  <2> DEFINE m == <<ctx[h].case, ctx[h].reference>>
  <2>1. m \in Cases \X Reference /\ mirrors[m] = 0
    BY <1>0, <1>4 DEF Mirror, SiduneaCalls, IInv, SiduneaInv, HandsInv, Prepared
  <2>2. mirrors' = [mirrors EXCEPT ![m] = @ + 1]
    BY <1>4 DEF Mirror
  <2> HIDE DEF m
  <2>3. mirrors' = [mirrors EXCEPT ![m] = 1]
    BY <2>1, <2>2
  <2>4. mirrors' \in [Cases \X Reference -> 0..1]
    BY <1>0, <2>1, <2>3
  <2> QED
    BY <1>0, <1>4, <2>4 DEF Mirror, SiduneaTypeOK
<1>5. CASE SiduneaFail(h)
  BY <1>0, <1>5 DEF SiduneaFail, SiduneaTypeOK
<1> QED
  BY <1>1, <1>2, <1>3, <1>4, <1>5
     DEF SiduneaMove, SiduneaStart, SiduneaContinue, CreateReference, ReferenceTaken

LEMMA DiscrepancyTypes ==
  ASSUME IInv, NEW h \in Handlers, DiscrepancyMove(h)
  PROVE  /\ DiscrepancyTypeOK'
         /\ Len(differences) \in Nat /\ DOMAIN differences = 1..Len(differences)
         /\ \/ UNCHANGED differences
            \/ /\ SaveDifference(h) /\ Len(differences') = Len(differences) + 1
               /\ \A i \in 1..Len(differences) : differences'[i] = differences[i]
            \/ /\ SaveResolved(h) /\ Len(differences') = Len(differences)
               /\ \A i \in 1..Len(differences) :
                    differences'[i] = IF i = ctx[h].item THEN TRUE ELSE differences[i]
<1> USE DEF discrepancyVars, discrepancyRows
<1>0. /\ matrix \in MatrixRow \cup {NoMatrix}
      /\ differences \in Seq(BOOLEAN) /\ Len(differences) <= MaxDifferences
      /\ Len(differences) \in Nat /\ DOMAIN differences = 1..Len(differences)
      /\ stale \in BOOLEAN /\ tornAdd \in BOOLEAN
      /\ Held(pc[h], ctx[h])
  BY LenProperties DEF IInv, TypeOK, DiscrepancyTypeOK, HeldInv
<1>1. CASE UNCHANGED <<matrix, differences, stale>> /\ tornAdd' \in BOOLEAN
  BY <1>0, <1>1 DEF DiscrepancyTypeOK
<1>2. CASE SaveNewMatrix(h)
  BY <1>0, <1>2 DEF SaveNewMatrix, NewMatrix, MatrixRow, DiscrepanciesAssumption, DiscrepancyTypeOK
<1>3. CASE SaveDifference(h)
  <2>1. /\ differences' \in Seq(BOOLEAN) /\ Len(differences') = Len(differences) + 1
        /\ \A i \in 1..Len(differences) : differences'[i] = differences[i]
    BY <1>0, <1>3, AppendProperties DEF SaveDifference
  <2>2. Len(differences') <= MaxDifferences
    BY <1>0, <1>3, <2>1 DEF SaveDifference, DiscrepanciesAssumption
  <2> QED
    BY <1>0, <1>3, <2>1, <2>2 DEF SaveDifference, DiscrepancyTypeOK
<1>4. CASE SaveResolved(h)
  <2>1. ctx[h].item \in 1..Len(differences)
    BY <1>0, <1>4 DEF SaveResolved, IInv, DiscrepancyInv
  <2>2. /\ differences' \in Seq(BOOLEAN) /\ Len(differences') = Len(differences)
        /\ \A i \in 1..Len(differences) :
             differences'[i] = IF i = ctx[h].item THEN TRUE ELSE differences[i]
    BY <1>0, <1>4, <2>1, ExceptSeq DEF SaveResolved
  <2> QED
    BY <1>0, <1>4, <2>2 DEF SaveResolved, DiscrepancyTypeOK
<1>5. CASE SaveTotal(h) \/ SaveReconciled(h)
  <2>1. ctx[h].matrix \in MatrixRow
    BY <1>0, <1>5 DEF Held, DiscrepancyHeld, SaveTotal, SaveReconciled
  <2>2. matrix' \in MatrixRow
    <3>1. CASE SaveTotal(h)
      <4>1. ctx[h].matrix.total < Len(differences)
        BY <3>1 DEF SaveTotal, IInv, DiscrepancyInv
      <4>2. ctx[h].matrix.total + 1 \in 0..MaxDifferences
        BY <1>0, <2>1, <4>1 DEF MatrixRow, DiscrepanciesAssumption
      <4> QED
        BY <3>1, <4>2 DEF SaveTotal, SaveMatrix, MatrixRow
    <3>2. CASE SaveReconciled(h)
      BY <2>1, <3>2 DEF SaveReconciled, SaveMatrix, MatrixRow
    <3> QED
      BY <1>5, <3>1, <3>2
  <2>3. stale' \in BOOLEAN /\ differences' = differences /\ tornAdd' = tornAdd
    BY <1>0, <1>5 DEF SaveTotal, SaveReconciled, SaveMatrix
  <2> QED
    BY <1>0, <2>2, <2>3 DEF DiscrepancyTypeOK
<1>6. CASE DiscrepancyFail(h)
  BY <1>0, <1>1, <1>6 DEF DiscrepancyFail
<1> QED
  BY <1>0, <1>1, <1>2, <1>3, <1>4, <1>5, <1>6
     DEF DiscrepancyMove, DiscrepancyStart, DiscrepancyContinue, OpenMatrix, ResolveItem,
         FindMatrix, MatrixTaken, ListItems, DifferenceIdsUsedUp, FindDifferences,
         DifferencesPending, DiscrepancyThrow

-----------------------------------------------------------------------------
(***************************************************************************)
(* The case file                                                           *)
(***************************************************************************)
\* A handler at another desk, or at rest, owes the case file nothing.
LEMMA FileStays ==
  ASSUME IInv, UNCHANGED caseVars, NEW h \in Handlers,
         pc[h] \notin CaseCalls, pc'[h] \notin CaseCalls,
         \A g \in Handlers : g # h => pc'[g] = pc[g] /\ ctx'[g] = ctx[g]
  PROVE  FileInv'
<1>1. FileInv
  BY DEF IInv
<1>2. /\ \A g \in Handlers : Creating(g)' <=> Creating(g)
      /\ \A g \in Handlers : pc'[g] \in CaseCalls => pc'[g] = pc[g] /\ ctx'[g] = ctx[g]
  BY DEF Creating, CaseCalls
<1> QED
  BY <1>1, <1>2 DEF FileInv, CaseCalls, Complete, caseVars, caseRows

LEMMA FileStep ==
  ASSUME IInv, NEW h \in Handlers, FileMove(h)
  PROVE  FileInv'
<1> USE DEF caseVars, caseRows
<1>0. /\ pc \in [Handlers -> Calls] /\ ctx \in [Handlers -> Contexts]
      /\ checklist \in [Requirements -> ItemStatuses]
      /\ documents \in Seq(DocumentStatuses) /\ DOMAIN documents = 1..Len(documents)
      /\ Len(documents) \in Nat /\ early \in BOOLEAN
      /\ FileInv
  BY LenProperties DEF IInv, TypeOK, CaseTypeOK, Calls, Contexts
<1>1. /\ HeldInv' /\ \A g \in Handlers : Held(pc[g], ctx[g]) /\ Held(pc'[g], ctx'[g])
      /\ \A g \in Handlers : g # h => pc'[g] = pc[g] /\ ctx'[g] = ctx[g]
      /\ \A g \in Handlers : g # h => (Creating(g)' <=> Creating(g))
  <2>1. CaseCalls \in SUBSET Calls
    BY DEF Calls
  <2> QED
    BY <2>1, FileMoves, MovedFacts DEF IInv, HeldInv, Creating
\* A handler that neither creates the case nor has anything else to vouch for.
<1>2. ASSUME UNCHANGED caseVars, ~Creating(h)',
             pc'[h] \notin {"saveStatus", "saveReview", "saveItem", "saveClosed"}
      PROVE  FileInv'
  BY <1>0, <1>1, <1>2 DEF FileInv, Complete
<1>3. CASE CreateCase(h)
  <2>1. pc'[h] = "saveCase" /\ case = "none" /\ UNCHANGED caseVars /\ Creating(h)'
    BY <1>0, <1>3 DEF CreateCase, Begin, Goto, Creating
  <2>2. \A g \in Handlers : ~Creating(g)
    BY <1>1, <1>3 DEF CreateCase, Serving, Creating, Held, CaseHeld, OwnerContext
  <2> QED
    BY <1>0, <1>1, <2>1, <2>2 DEF FileInv, Complete
<1>4. CASE CloseCase(h) \/ Upload(h) \/ \E color \in Colors : UpdateSemaphore(h, color)
  BY <1>0, <1>2, <1>4 DEF CloseCase, Upload, UpdateSemaphore, Begin, Goto, Creating
<1>5. ASSUME NEW party \in Party, AddParty(h, party)
      PROVE  FileInv'
  BY <1>0, <1>2, <1>5 DEF AddParty, Begin, Goto, Keep, Creating
<1>6. ASSUME NEW d \in DOMAIN documents, NEW status \in Reviews, ReviewDocument(h, d, status)
      PROVE  FileInv'
  <2>1. UNCHANGED caseVars /\ pc'[h] = "saveReview" /\ ctx'[h].document = d /\ ~Creating(h)'
    BY <1>0, <1>6 DEF ReviewDocument, Begin, Goto, Keep, Creating
  <2> QED
    BY <1>0, <1>1, <2>1 DEF FileInv, Complete
<1>7. ASSUME NEW r \in Requirements, FulfillChecklistItem(h, r)
      PROVE  FileInv'
  <2>1. /\ UNCHANGED caseVars /\ pc'[h] = "saveItem" /\ ctx'[h].requirement = r
        /\ ~Creating(h)' /\ checklist[r] # "none"
    BY <1>0, <1>7 DEF FulfillChecklistItem, Begin, Goto, Keep, Creating
  <2> QED
    BY <1>0, <1>1, <2>1 DEF FileInv, Complete
<1>8. CASE Leave(h) /\ UNCHANGED <<case, checklist, documents, early>>
  <2>1. pc'[h] = "idle" /\ ~Creating(h)'
    BY <1>0, <1>8 DEF Leave, Goto, Creating
  <2> QED
    BY <1>0, <1>1, <1>8, <2>1 DEF FileInv, Complete
<1>9. CASE SaveCase(h)
  <2>1. Creating(h) /\ case' = "open" /\ UNCHANGED <<checklist, documents, early>>
    BY <1>9 DEF SaveCase, Creating
  <2>2. pc'[h] = "saveParty" /\ Creating(h)'
    <3>1. ctx[h] = OwnerContext /\ ctx' = ctx /\ pc'[h] = "saveParty"
      BY <1>0, <1>1, <1>9 DEF SaveCase, Goto, Held, CaseHeld
    <3> QED
      BY <3>1 DEF Creating, OwnerContext
  <2>3. case = "none" \/ \A r \in Requirements : checklist[r] = "none"
    BY <1>0, <2>1 DEF FileInv
  <2> QED
    BY <1>0, <1>1, <2>1, <2>2 DEF FileInv, Complete
<1>10. CASE SaveParty(h) /\ ctx[h].op = "createCase"
  <2>1. Creating(h) /\ UNCHANGED <<case, checklist, documents, early>>
    BY <1>10 DEF SaveParty, Creating
  <2>2. pc'[h] = "saveSemaphore" /\ Creating(h)'
    BY <1>0, <1>10 DEF SaveParty, Goto, Creating
  <2>3. pc[h] # "saveCase"
    BY <1>10 DEF SaveParty
  <2> QED
    BY <1>0, <1>1, <2>1, <2>2, <2>3 DEF FileInv, Complete
<1>11. CASE SaveSemaphore(h)
  <2>1. /\ Creating(h) /\ UNCHANGED <<case, checklist, documents, early>>
        /\ pc[h] # "saveCase" /\ pc'[h] = "seedChecklist" /\ Creating(h)'
    BY <1>0, <1>11 DEF SaveSemaphore, Creating, Goto
  <2> QED
    BY <1>0, <1>1, <2>1 DEF FileInv, Complete
<1>12. CASE SeedChecklist(h)
  <2>1. /\ Creating(h) /\ UNCHANGED <<case, documents, early>> /\ case # "none"
        /\ pc'[h] = "idle" /\ ~Creating(h)'
    BY <1>0, <1>12 DEF SeedChecklist, Creating, Leave, Goto, FileInv
  <2>2. \A r \in Requirements : checklist[r] = "none"
    BY <1>0, <2>1 DEF FileInv
  <2>3. \A g \in Handlers : ~Creating(g)'
    BY <1>0, <1>1, <2>1 DEF FileInv
  <2>4. \A g \in Handlers : pc'[g] = "saveItem" => FALSE
    <3>1. \A g \in Handlers : pc'[g] = "saveItem" => g # h /\ ctx[g].requirement \in Requirements
      BY <1>1, <2>1 DEF Held, CaseHeld
    <3> QED
      BY <1>0, <1>1, <2>2, <3>1 DEF FileInv
  <2>5. Complete => Complete'
    BY <1>0, <1>12, <2>2 DEF Complete, SeedChecklist, CaseFileAssumption
  <2> QED
    BY <1>0, <1>1, <2>1, <2>3, <2>4, <2>5 DEF FileInv
<1>13. CASE FindChecklist(h)
  <2>1. /\ UNCHANGED <<case, checklist, documents>> /\ early' = (early \/ ~Seeded)
        /\ pc[h] = "findChecklist" /\ pc'[h] = "saveClosed" /\ ~Creating(h)' /\ ~Creating(h)
        /\ Pending = {}
    BY <1>0, <1>13 DEF FindChecklist, NothingPending, Goto, Creating
  <2>2. ~early' => ~early /\ Seeded
    BY <2>1
  <2>3. Seeded => Complete
    BY <1>0, <2>1 DEF Seeded, Complete, Pending, ItemStatuses, CaseFileAssumption
  <2>4. Complete => Complete'
    BY <2>1 DEF Complete
  <2> QED
    BY <1>0, <1>1, <2>1, <2>2, <2>3, <2>4 DEF FileInv
<1>14. CASE SaveClosed(h)
  <2>1. /\ UNCHANGED <<checklist, documents, early>> /\ case' = "closed"
        /\ pc[h] = "saveClosed" /\ pc'[h] = "idle" /\ ~Creating(h)' /\ ~Creating(h)
    BY <1>0, <1>14 DEF SaveClosed, Leave, Goto, Creating
  <2>2. ~early => Complete
    BY <1>0, <2>1 DEF FileInv
  <2> QED
    BY <1>0, <1>1, <2>1, <2>2 DEF FileInv, Complete
<1>15. CASE SaveDocument(h)
  <2>1. /\ UNCHANGED <<case, checklist, early>> /\ documents' = Append(documents, "unfiled")
        /\ pc'[h] = "saveStatus" /\ ~Creating(h)' /\ ~Creating(h)
    BY <1>0, <1>15 DEF SaveDocument, Goto, Creating
  <2>2. ctx'[h].document = Len(documents) + 1
    <3>1. ctx[h] \in [op : {"upload"}, document : 0..MaxDocuments]
      BY <1>1, <1>15 DEF SaveDocument, Held, CaseHeld
    <3> QED
      BY <1>0, <1>15, <3>1 DEF SaveDocument, Keep
  <2>3. DOMAIN documents' = 1..(Len(documents) + 1)
    <3>1. "unfiled" \in DocumentStatuses
      BY DEF DocumentStatuses
    <3>2. documents' \in Seq(DocumentStatuses) /\ Len(documents') = Len(documents) + 1
      BY <1>0, <2>1, <3>1, AppendProperties
    <3> QED
      BY <3>2, LenProperties
  <2>4. DOMAIN documents \subseteq DOMAIN documents' /\ ctx'[h].document \in DOMAIN documents'
    BY <1>0, <2>2, <2>3
  <2> QED
    BY <1>0, <1>1, <2>1, <2>4 DEF FileInv, Complete
<1>16. CASE SaveStatus(h) \/ SaveReview(h)
  <2>1. /\ UNCHANGED <<case, checklist, early>> /\ DOMAIN documents' = DOMAIN documents
        /\ pc'[h] = "idle" /\ ~Creating(h)' /\ ~Creating(h)
    BY <1>0, <1>16 DEF SaveStatus, SaveReview, Leave, Goto, Creating
  <2> QED
    BY <1>0, <1>1, <2>1 DEF FileInv, Complete
<1>17. CASE SaveItem(h)
  <2> DEFINE s == ctx[h].requirement
  <2>1. /\ UNCHANGED <<case, documents, early>>
        /\ checklist' = [checklist EXCEPT ![s] = "fulfilled"]
        /\ pc[h] = "saveItem" /\ pc'[h] = "idle" /\ ~Creating(h)' /\ ~Creating(h)
    BY <1>0, <1>17 DEF SaveItem, Leave, Goto, Creating
  <2>2. s \in Requirements /\ checklist[s] # "none"
    BY <1>0, <1>1, <2>1 DEF FileInv, Held, CaseHeld
  <2>3. case # "none" /\ \A g \in Handlers : ~Creating(g)
    BY <1>0, <2>2 DEF FileInv
  <2>4. /\ Complete => Complete'
        /\ \A r \in Requirements : checklist[r] # "none" => checklist'[r] # "none"
    BY <1>0, <2>1, <2>2 DEF Complete, CaseFileAssumption
  <2>5. \A g \in Handlers : pc'[g] = "saveItem" => checklist'[ctx'[g].requirement] # "none"
    <3>1. \A g \in Handlers : pc'[g] = "saveItem" =>
            g # h /\ ctx[g].requirement \in Requirements
      BY <1>1, <2>1 DEF Held, CaseHeld
    <3> QED
      BY <1>0, <1>1, <2>4, <3>1 DEF FileInv
  <2> QED
    BY <1>0, <1>1, <2>1, <2>3, <2>4, <2>5 DEF FileInv
<1> QED
  BY <1>3, <1>4, <1>5, <1>6, <1>7, <1>8, <1>9, <1>10, <1>11, <1>12, <1>13, <1>14, <1>15,
     <1>16, <1>17
     DEF FileMove, CaseStart, CaseContinue, CaseFail, PartyTaken, DocumentsMissing,
         DocumentIdsUsedUp, CaseThrow, SaveParty, SaveColor

-----------------------------------------------------------------------------
(***************************************************************************)
(* The declarations                                                        *)
(***************************************************************************)
\* Only parties are read at this desk that others write, and parties only come.
LEMMA CustomsStays ==
  ASSUME IInv, UNCHANGED customsVars, parties \subseteq parties', NEW h \in Handlers,
         pc[h] \notin CustomsCalls, pc'[h] \notin CustomsCalls,
         \A g \in Handlers : g # h => pc'[g] = pc[g] /\ ctx'[g] = ctx[g]
  PROVE  CustomsInv'
<1> USE DEF customsVars, customsRows
<1>1. DeclaredByAgentOfCase /\ CustomsRead /\ SubmissionInv
  BY DEF IInv, CustomsInv
<1>2. /\ \A g \in Handlers : pc'[g] \in CustomsCalls => pc'[g] = pc[g] /\ ctx'[g] = ctx[g]
      /\ \A g \in Handlers : pc[g] \in CustomsCalls => pc'[g] = pc[g] /\ ctx'[g] = ctx[g]
  OBVIOUS
<1>3. DeclaredByAgentOfCase'
  BY <1>1 DEF DeclaredByAgentOfCase
<1>4. CustomsRead'
  BY <1>1, <1>2 DEF CustomsRead, CustomsCalls
<1>5. SubmissionInv'
  <2>1. \A g \in Handlers, d \in DOMAIN declarations : Submitting(g, d) => Submitting(g, d)'
    BY <1>2 DEF Submitting, CustomsCalls
  <2> QED
    BY <1>1, <1>2, <2>1 DEF SubmissionInv, CustomsCalls
<1> QED
  BY <1>3, <1>4, <1>5 DEF CustomsInv

\* The facts that the parts of the invariant need of any move at the desk.
LEMMA CustomsFacts ==
  ASSUME IInv, NEW h \in Handlers, CustomsMove(h)
  PROVE  /\ pc \in [Handlers -> Calls] /\ ctx \in [Handlers -> Contexts]
         /\ \A g \in Handlers : g # h => pc'[g] = pc[g] /\ ctx'[g] = ctx[g]
         /\ \A g \in Handlers : Held(pc[g], ctx[g]) /\ Held(pc'[g], ctx'[g])
         /\ licenses \subseteq licenses' /\ liquidations \subseteq liquidations'
         /\ liquidations \subseteq DOMAIN declarations
         /\ \A d \in liquidations' \ liquidations :
              SaveLiquidation(h) /\ d = ctx[h].declaration
<1>1. CustomsCalls \in SUBSET Calls
  BY DEF Calls
<1>2. /\ licenses \subseteq licenses' /\ liquidations \subseteq liquidations'
      /\ \A d \in liquidations' \ liquidations :
           SaveLiquidation(h) /\ d = ctx[h].declaration
  BY DEF CustomsMove, CustomsStart, CustomsContinue, CustomsFail, VerifyLicense,
         CreateDeclaration, AddItem, AssignRegime, CreateLiquidation, SaveLicense, LicenseTaken,
         FindAgent, NotAgent, SaveDeclaration, DeclarationIdsUsedUp, SaveDeclarationItem,
         ItemsUsedUp, SaveRegime, RegimeTaken, FindLiquidation, SaveLiquidation,
         LiquidationTaken, CustomsThrow, SaveSubmitted, customsVars, customsRows
<1> QED
  BY <1>1, <1>2, CustomsMoves, MovedFacts
     DEF IInv, HeldInv, TypeOK, CustomsTypeOK, Calls, Contexts

LEMMA DeclaredStep ==
  ASSUME IInv, NEW h \in Handlers, CustomsMove(h), UNCHANGED caseVars
  PROVE  DeclaredByAgentOfCase'
<1>1. DeclaredByAgentOfCase /\ CustomsRead /\ parties' = parties
  BY DEF IInv, CustomsInv, caseVars, caseRows
<1>2. ASSUME NEW d \in DOMAIN declarations'
      PROVE  LET agent == declarations'[d].agent
             IN agent = Admin \/ (agent \in licenses' /\ <<agent, "agent">> \in parties')
  <2>1. CASE d \in DOMAIN declarations
    BY <1>1, <2>1, DeclarationsMove, CustomsFacts DEF DeclaredByAgentOfCase
  <2>2. CASE d \notin DOMAIN declarations
    <3>1. SaveDeclaration(h) /\ declarations'[d].agent = ctx[h].partner
      BY <1>2, <2>2, DeclarationsMove
    <3> QED
      BY <1>1, <3>1, CustomsFacts DEF CustomsRead, SaveDeclaration
  <2> QED
    BY <2>1, <2>2
<1> QED
  BY <1>2 DEF DeclaredByAgentOfCase

LEMMA ReadStep ==
  ASSUME IInv, NEW h \in Handlers, CustomsMove(h), UNCHANGED caseVars
  PROVE  CustomsRead'
<1>0. /\ CustomsRead /\ parties' = parties /\ DOMAIN declarations \subseteq DOMAIN declarations'
      /\ pc \in [Handlers -> Calls] /\ ctx \in [Handlers -> Contexts]
      /\ \A g \in Handlers : g # h => pc'[g] = pc[g] /\ ctx'[g] = ctx[g]
      /\ licenses \subseteq licenses' /\ liquidations \subseteq liquidations'
      /\ Held(pc[h], ctx[h])
  BY CustomsFacts, DeclarationsMove DEF IInv, CustomsInv, caseVars, caseRows
\* A handler at rest, or about to save a license, vouches for nothing.
<1>1. ASSUME pc'[h] \in {"idle", "saveLicense"} PROVE CustomsRead'
  BY <1>0, <1>1 DEF CustomsRead
<1>2. CASE Leave(h)
  BY <1>0, <1>1, <1>2 DEF Leave, Goto
<1>3. ASSUME NEW partner \in Partners, VerifyLicense(h, partner)
      PROVE  CustomsRead'
  BY <1>0, <1>1, <1>3 DEF VerifyLicense, Begin, Goto
<1>4. ASSUME NEW partner \in Partners, CreateDeclaration(h, partner)
      PROVE  CustomsRead'
  <2>1. /\ ctx'[h].partner = partner
        /\ partner = Admin \/ partner \in licenses
        /\ IF partner = Admin THEN pc'[h] = "saveDeclaration" ELSE pc'[h] = "findAgent"
    BY <1>0, <1>4 DEF CreateDeclaration, Begin, Goto, Keep
  <2> QED
    BY <1>0, <2>1 DEF CustomsRead
<1>5. ASSUME NEW d \in DOMAIN declarations,
             AddItem(h, d) \/ AssignRegime(h, d) \/ CreateLiquidation(h, d)
      PROVE  CustomsRead'
  <2>1. /\ ctx'[h].declaration = d
        /\ pc'[h] \in {"saveDeclarationItem", "saveRegime", "findLiquidation"}
    BY <1>0, <1>5 DEF AddItem, AssignRegime, CreateLiquidation, Begin, Goto, Keep
  <2> QED
    BY <1>0, <2>1 DEF CustomsRead
<1>6. CASE FindAgent(h)
  <2>1. /\ ctx' = ctx /\ pc[h] = "findAgent" /\ pc'[h] = "saveDeclaration"
        /\ <<ctx[h].partner, "agent">> \in parties
    BY <1>0, <1>6 DEF FindAgent, IsAgentOfCase, Goto
  <2> QED
    BY <1>0, <2>1 DEF CustomsRead
<1>7. CASE FindLiquidation(h)
  <2>1. pc[h] = "findLiquidation" /\ pc'[h] = "saveLiquidation"
    BY <1>0, <1>7 DEF FindLiquidation, Goto
  <2>2. ctx'[h].declaration = ctx[h].declaration
    BY <1>0, <1>7, <2>1 DEF FindLiquidation, Keep, Held, CustomsHeld
  <2> QED
    BY <1>0, <2>1, <2>2 DEF CustomsRead
<1>8. CASE SaveLiquidation(h)
  <2>1. /\ ctx' = ctx /\ pc[h] = "saveLiquidation" /\ pc'[h] = "saveSubmitted"
        /\ liquidations' = liquidations \cup {ctx[h].declaration}
    BY <1>0, <1>8 DEF SaveLiquidation, Goto
  <2> QED
    BY <1>0, <2>1 DEF CustomsRead
<1> QED
  BY <1>2, <1>3, <1>4, <1>5, <1>6, <1>7, <1>8
     DEF CustomsMove, CustomsStart, CustomsContinue, CustomsFail, SaveLicense, LicenseTaken,
         NotAgent, SaveDeclaration, DeclarationIdsUsedUp, SaveDeclarationItem, ItemsUsedUp,
         SaveRegime, RegimeTaken, LiquidationTaken, CustomsThrow, SaveSubmitted

LEMMA SubmissionStep ==
  ASSUME IInv, NEW h \in Handlers, CustomsMove(h)
  PROVE  SubmissionInv'
<1>0. /\ SubmissionInv /\ CustomsRead
      /\ pc \in [Handlers -> Calls] /\ ctx \in [Handlers -> Contexts]
      /\ \A g \in Handlers : g # h => pc'[g] = pc[g] /\ ctx'[g] = ctx[g]
      /\ Held(pc[h], ctx[h])
      /\ liquidations \subseteq liquidations' /\ liquidations \subseteq DOMAIN declarations
      /\ declarations \in Seq(DeclarationRow)
  BY CustomsFacts, DeclarationsMove DEF IInv, CustomsInv
<1>1. \A d \in DOMAIN declarations : declarations[d] \in DeclarationRow
  BY <1>0, ElementOfSeq
\* The histories, by the steps that write them.
<1>2. /\ late \subseteq late'
      /\ \A d \in halfLiquidated \ halfLiquidated' : SaveSubmitted(h) /\ d = ctx[h].declaration
  BY DEF CustomsMove, CustomsStart, CustomsContinue, CustomsFail, VerifyLicense,
         CreateDeclaration, AddItem, AssignRegime, CreateLiquidation, SaveLicense, LicenseTaken,
         FindAgent, NotAgent, SaveDeclaration, DeclarationIdsUsedUp, SaveDeclarationItem,
         ItemsUsedUp, SaveRegime, RegimeTaken, FindLiquidation, SaveLiquidation,
         LiquidationTaken, CustomsThrow, SaveSubmitted, customsVars, customsRows
<1>3. ASSUME NEW d \in DOMAIN declarations', declarations'[d].status = "submitted"
      PROVE  /\ d \in DOMAIN declarations /\ d \in liquidations'
             /\ \/ /\ declarations[d].status = "submitted"
                   /\ declarations'[d].listed = declarations[d].listed
                \/ SaveSubmitted(h) /\ d = ctx[h].declaration
  <2>1. d \in DOMAIN declarations
    BY <1>3, DeclarationsMove
  <2>2. \/ declarations[d].status = "submitted" /\ declarations'[d].listed = declarations[d].listed
        \/ SaveSubmitted(h) /\ d = ctx[h].declaration
    BY <1>3, <2>1, DeclarationsMove
  <2>3. d \in liquidations
    BY <1>0, <2>1, <2>2 DEF SubmissionInv, CustomsRead, SaveSubmitted
  <2> QED
    BY <1>0, <2>1, <2>2, <2>3
<1>4. ASSUME NEW d \in DOMAIN declarations', d \in liquidations'
      PROVE  \/ declarations'[d].status = "submitted"
             \/ d \in halfLiquidated'
             \/ \E g \in Handlers : Submitting(g, d)'
  <2>1. CASE d \notin liquidations
    <3>1. SaveLiquidation(h) /\ d = ctx[h].declaration
      BY <1>4, <2>1, CustomsFacts
    <3>2. Submitting(h, d)'
      BY <1>0, <3>1 DEF SaveLiquidation, Goto, Submitting
    <3> QED
      BY <3>2
  <2>2. CASE d \in liquidations
    <3>0. d \in DOMAIN declarations
      BY <1>0, <2>2
    <3>1. CASE SaveSubmitted(h) /\ d = ctx[h].declaration
      BY <3>0, <3>1, DeclarationsMove
    <3>2. CASE ~(SaveSubmitted(h) /\ d = ctx[h].declaration)
      <4>1. declarations[d].status = "submitted" => declarations'[d].status = "submitted"
        BY <3>0, <3>2, DeclarationsMove
      <4>2. d \in halfLiquidated => d \in halfLiquidated'
        BY <1>2, <3>2
      <4>3. ASSUME NEW g \in Handlers, Submitting(g, d)
            PROVE  d \in halfLiquidated' \/ Submitting(g, d)'
        <5>1. CASE g # h
          BY <1>0, <4>3, <5>1 DEF Submitting
        <5>2. CASE g = h
          <6>1. pc[h] = "saveSubmitted" /\ ctx[h].declaration = d
            BY <4>3, <5>2 DEF Submitting
          <6>2. CustomsFail(h)
            BY <3>2, <6>1
            DEF CustomsMove, CustomsStart, CustomsContinue, VerifyLicense, Begin, Idle,
                 CreateDeclaration, AddItem, AssignRegime, CreateLiquidation, SaveLicense,
                 LicenseTaken, FindAgent, NotAgent, SaveDeclaration, DeclarationIdsUsedUp,
                 SaveDeclarationItem, ItemsUsedUp, SaveRegime, RegimeTaken, FindLiquidation,
                 SaveLiquidation, LiquidationTaken
          <6> QED
            BY <6>1, <6>2 DEF CustomsFail
        <5> QED
          BY <5>1, <5>2
      <4> QED
        BY <1>0, <2>2, <3>0, <4>1, <4>2, <4>3 DEF SubmissionInv
    <3> QED
      BY <3>1, <3>2
  <2> QED
    BY <2>1, <2>2
<1>5. ASSUME NEW d \in DOMAIN declarations', declarations'[d].status = "submitted", d \notin late'
      PROVE  /\ declarations'[d].items = declarations'[d].listed
             /\ \A g \in Handlers : pc'[g] = "saveDeclarationItem" => ctx'[g].declaration # d
  <2>0. d \in DOMAIN declarations /\ d \notin late
    BY <1>2, <1>3, <1>5
  <2>1. CASE SaveSubmitted(h) /\ d = ctx[h].declaration
    <3>1. /\ Working("addItem", d) = {} /\ pc'[h] = "idle"
      BY <1>0, <1>5, <2>1 DEF SaveSubmitted, Leave, Goto
    <3>2. declarations[d].status = "draft" \/ declarations[d].items = declarations[d].listed
      BY <1>0, <1>1, <2>0 DEF SubmissionInv, DeclarationRow
    <3>3. declarations'[d].items = declarations'[d].listed
      BY <2>0, <2>1, <3>2, DeclarationsMove
    <3>4. \A g \in Handlers : pc[g] = "saveDeclarationItem" => ctx[g].declaration # d
      <4>1. \A g \in Handlers : pc[g] = "saveDeclarationItem" => ctx[g].op = "addItem"
        BY CustomsFacts DEF Held, CustomsHeld
      <4> QED
        BY <3>1, <4>1 DEF Working, Serving
    <3> QED
      BY <1>0, <3>1, <3>3, <3>4
  <2>2. CASE ~(SaveSubmitted(h) /\ d = ctx[h].declaration)
    <3>1. declarations[d].status = "submitted"
      BY <1>3, <1>5, <2>2
    <3>2. /\ declarations[d].items = declarations[d].listed
          /\ \A g \in Handlers : pc[g] = "saveDeclarationItem" => ctx[g].declaration # d
      BY <1>0, <2>0, <3>1 DEF SubmissionInv
    <3>3. /\ declarations'[d].items = declarations[d].items
          /\ declarations'[d].listed = declarations[d].listed
      <4>1. ~(SaveDeclarationItem(h) /\ d = ctx[h].declaration)
        BY <3>2 DEF SaveDeclarationItem
      <4> QED
        BY <2>0, <2>2, <4>1, DeclarationsMove
    <3>4. pc'[h] = "saveDeclarationItem" => ctx'[h].declaration # d
      <4> SUFFICES ASSUME pc'[h] = "saveDeclarationItem" PROVE ctx'[h].declaration # d
        OBVIOUS
      <4>1. PICK e \in DOMAIN declarations : AddItem(h, e)
        BY <1>0 DEF CustomsMove, CustomsStart, CustomsContinue, CustomsFail, VerifyLicense, Begin,
             Goto, Leave, CreateDeclaration, AddItem, AssignRegime, CreateLiquidation,
             SaveLicense, LicenseTaken, FindAgent, NotAgent, SaveDeclaration,
             DeclarationIdsUsedUp, SaveDeclarationItem, ItemsUsedUp, SaveRegime, RegimeTaken,
             FindLiquidation, SaveLiquidation, LiquidationTaken, CustomsThrow, SaveSubmitted
      <4>2. ctx'[h].declaration = e /\ declarations[e].status = "draft"
        BY <1>0, <4>1 DEF AddItem, Begin, Keep
      <4> QED
        BY <3>1, <4>2
    <3> QED
      BY <1>0, <3>2, <3>3, <3>4
  <2> QED
    BY <2>1, <2>2
<1> QED
  BY <1>3, <1>4, <1>5 DEF SubmissionInv

-----------------------------------------------------------------------------
(***************************************************************************)
(* The references                                                          *)
(***************************************************************************)
LEMMA SiduneaStays ==
  ASSUME IInv, UNCHANGED siduneaVars, NEW h \in Handlers,
         pc[h] \notin SiduneaCalls, pc'[h] \notin SiduneaCalls,
         \A g \in Handlers : g # h => pc'[g] = pc[g] /\ ctx'[g] = ctx[g]
  PROVE  SiduneaInv'
<1> USE DEF siduneaVars, siduneaRows
<1>1. HandsInv /\ MirrorsInv
  BY DEF IInv, SiduneaInv
<1>2. \A g \in Handlers :
        /\ pc'[g] \in {"saveDuaItems", "mirror"} => pc'[g] = pc[g] /\ ctx'[g] = ctx[g]
        /\ pc[g] \in {"saveDuaItems", "mirror"} => pc'[g] = pc[g] /\ ctx'[g] = ctx[g]
  BY DEF SiduneaCalls
<1>3. \A r \in Reference : \A g \in Handlers : InHand(g, r)' <=> InHand(g, r)
  BY <1>2 DEF InHand
<1>4. \A r \in Reference : Handed(r)' <=> Handed(r)
  BY <1>3 DEF Handed
<1>5. HandsInv'
  BY <1>1, <1>2, <1>3 DEF HandsInv, Prepared
<1>6. MirrorsInv'
  BY <1>1, <1>4 DEF MirrorsInv
<1> QED
  BY <1>5, <1>6 DEF SiduneaInv

\* The facts that every move at the desk of SIDUNEA needs.
LEMMA SiduneaFacts ==
  ASSUME IInv, NEW h \in Handlers, SiduneaMove(h)
  PROVE  /\ pc \in [Handlers -> Calls] /\ ctx \in [Handlers -> Contexts]
         /\ references \in [Reference -> Cases \cup {NoCase}] /\ duaItems \subseteq Numbers
         /\ mirrors \in [Cases \X Reference -> 0..1]
         /\ \A g \in Handlers : g # h => pc'[g] = pc[g] /\ ctx'[g] = ctx[g]
         /\ \A g \in Handlers :
              /\ pc[g] \in SiduneaCalls => ctx[g].case \in Cases /\ ctx[g].reference \in Reference
              /\ pc'[g] \in SiduneaCalls =>
                   ctx'[g].case \in Cases /\ ctx'[g].reference \in Reference
         /\ \A g \in Handlers, r \in Reference : g # h => (InHand(g, r)' <=> InHand(g, r))
         /\ HandsInv /\ MirrorsInv
<1>1. SiduneaCalls \in SUBSET Calls
  BY DEF Calls
<1>2. HeldInv' /\ \A g \in Handlers : g # h => pc'[g] = pc[g] /\ ctx'[g] = ctx[g]
  BY <1>1, SiduneaMoves, MovedFacts
<1>3. \A g \in Handlers, r \in Reference : g # h => (InHand(g, r)' <=> InHand(g, r))
  BY <1>2 DEF InHand
<1>4. \A g \in Handlers :
        /\ pc[g] \in SiduneaCalls => ctx[g] \in SiduneaContext
        /\ pc'[g] \in SiduneaCalls => ctx'[g] \in SiduneaContext
  BY <1>2 DEF IInv, HeldInv, Held, SiduneaHeld
<1> QED
  BY <1>2, <1>3, <1>4 DEF IInv, TypeOK, SiduneaTypeOK, SiduneaInv, SiduneaContext, Calls, Contexts

\* A handler that holds no inserted reference, before and after.
LEMMA EmptyHanded ==
  ASSUME IInv, NEW h \in Handlers, SiduneaMove(h), UNCHANGED siduneaVars,
         pc[h] \notin {"saveDuaItems", "mirror"}, pc'[h] \notin {"saveDuaItems", "mirror"}
  PROVE  SiduneaInv'
<1> USE DEF siduneaVars, siduneaRows
<1>1. \A r \in Reference : \A g \in Handlers : InHand(g, r)' <=> InHand(g, r)
  BY SiduneaFacts DEF InHand
<1>2. \A r \in Reference : Handed(r)' <=> Handed(r)
  BY <1>1 DEF Handed
<1>3. HandsInv'
  <2>1. ASSUME NEW g \in Handlers, pc'[g] \in {"saveDuaItems", "mirror"}
        PROVE  Prepared(pc[g], ctx[g].case, ctx[g].reference)'
    <3>1. g # h /\ pc'[g] = pc[g] /\ ctx'[g] = ctx[g]
      BY <2>1, SiduneaFacts
    <3> QED
      BY <2>1, <3>1, SiduneaFacts DEF HandsInv, Prepared
  <2> QED
    BY <1>1, <2>1, SiduneaFacts DEF HandsInv
<1>4. MirrorsInv'
  BY <1>2, SiduneaFacts DEF MirrorsInv
<1> QED
  BY <1>3, <1>4 DEF SiduneaInv

LEMMA SaveReferenceStep ==
  ASSUME IInv, NEW h \in Handlers, SiduneaMove(h), SaveReference(h)
  PROVE  SiduneaInv'
<1>0. pc[h] = "saveReference" /\ ctx[h].case \in Cases /\ ctx[h].reference \in Reference
  BY SiduneaFacts DEF SaveReference, SiduneaCalls
<1>1. PICK k \in Cases, r \in Reference :
        /\ k = ctx[h].case /\ r = ctx[h].reference /\ references[r] = NoCase /\ k # NoCase
        /\ references' = [references EXCEPT ![r] = k]
        /\ ctx' = ctx /\ mirrors' = mirrors /\ duaItems' = duaItems /\ tornRefs' = tornRefs
        /\ pc'[h] = IF r[1] = "dua" THEN "saveDuaItems" ELSE "mirror"
  BY <1>0, SiduneaFacts DEF SaveReference, NumberFree, Goto, SiduneaAssumption
<1>2. ctx'[h].case = k /\ ctx'[h].reference = r
  BY <1>1
<1>3. references'[r] = k /\ \A s \in Reference : s # r => references'[s] = references[s]
  BY <1>1, SiduneaFacts
<1>4. \A g \in Handlers : ~InHand(g, r)
  <2> SUFFICES ASSUME NEW g \in Handlers, InHand(g, r) PROVE FALSE
    OBVIOUS
  <2>1. references[r] = ctx[g].case /\ ctx[g].case \in Cases
    BY SiduneaFacts DEF InHand, HandsInv, Prepared, SiduneaCalls
  <2> QED
    BY <1>1, <2>1 DEF SiduneaAssumption
<1>5. InHand(h, r)' /\ (\A s \in Reference : InHand(h, s)' => s = r)
      /\ \A s \in Reference : ~InHand(h, s)
  BY <1>0, <1>1, <1>2 DEF InHand
<1>6. \A e \in Cases : mirrors[<<e, r>>] = 0
  <2> SUFFICES ASSUME NEW e \in Cases PROVE mirrors[<<e, r>>] = 0
    OBVIOUS
  <2>1. mirrors[<<e, r>>] # 1
    BY <1>1, SiduneaFacts DEF MirrorsInv, SiduneaAssumption
  <2>2. <<e, r>> \in Cases \X Reference
    BY <1>1
  <2> QED
    BY <2>1, <2>2, SiduneaFacts
<1>7. ASSUME NEW g \in Handlers, pc'[g] \in {"saveDuaItems", "mirror"}
      PROVE  Prepared(pc[g], ctx[g].case, ctx[g].reference)'
  <2>1. CASE g = h
    BY <1>1, <1>2, <1>3, <1>6, <2>1 DEF Prepared
  <2>2. CASE g # h
    <3>1. pc'[g] = pc[g] /\ ctx'[g] = ctx[g] /\ ctx[g].reference \in Reference
      BY <1>7, <2>2, SiduneaFacts DEF SiduneaCalls
    <3>2. ctx[g].reference # r
      BY <1>4, <1>7, <3>1 DEF InHand
    <3> QED
      BY <1>1, <1>3, <1>7, <3>1, <3>2, SiduneaFacts DEF HandsInv, Prepared
  <2> QED
    BY <2>1, <2>2
<1>8. ASSUME NEW g \in Handlers, NEW i \in Handlers, NEW s \in Reference,
             InHand(g, s)', InHand(i, s)'
      PROVE  g = i
  <2>1. CASE s = r
    BY <1>4, <1>8, <2>1, SiduneaFacts
  <2>2. CASE s # r
    BY <1>5, <1>8, <2>2, SiduneaFacts DEF HandsInv
  <2> QED
    BY <2>1, <2>2
<1>9. HandsInv'
  BY <1>7, <1>8 DEF HandsInv
<1>10. ASSUME NEW e \in Cases, NEW s \in Reference
       PROVE  /\ mirrors'[<<e, s>>] = 1 =>
                   references'[s] = e /\ (s[1] = "dua" => s[2] \in duaItems')
              /\ references'[s] = e /\ s \notin tornRefs' => mirrors'[<<e, s>>] = 1 \/ Handed(s)'
  <2>1. CASE s = r
    <3>1. Handed(s)'
      BY <1>5, <2>1 DEF Handed
    <3> QED
      BY <1>1, <1>6, <2>1, <3>1
  <2>2. CASE s # r
    <3>1. Handed(s) => Handed(s)'
      BY <1>5, SiduneaFacts DEF Handed
    <3> QED
      BY <1>1, <1>3, <2>2, <3>1, SiduneaFacts DEF MirrorsInv
  <2> QED
    BY <2>1, <2>2
<1>11. MirrorsInv'
  BY <1>10 DEF MirrorsInv
<1> QED
  BY <1>9, <1>11 DEF SiduneaInv

LEMMA SaveDuaItemsStep ==
  ASSUME IInv, NEW h \in Handlers, SiduneaMove(h), SaveDuaItems(h)
  PROVE  SiduneaInv'
<1>1. /\ ctx' = ctx /\ references' = references /\ mirrors' = mirrors /\ tornRefs' = tornRefs
      /\ duaItems' = duaItems \cup {ctx[h].reference[2]}
      /\ pc[h] = "saveDuaItems" /\ pc'[h] = "mirror"
  BY SiduneaFacts DEF SaveDuaItems, Goto
<1>2. \A g \in Handlers : \A s \in Reference : InHand(g, s)' <=> InHand(g, s)
  BY <1>1, SiduneaFacts DEF InHand
<1>3. \A s \in Reference : Handed(s)' <=> Handed(s)
  BY <1>2 DEF Handed
<1>4. ASSUME NEW g \in Handlers, pc'[g] \in {"saveDuaItems", "mirror"}
      PROVE  Prepared(pc[g], ctx[g].case, ctx[g].reference)'
  BY <1>1, <1>4, SiduneaFacts DEF HandsInv, Prepared
<1>5. HandsInv'
  BY <1>2, <1>4, SiduneaFacts DEF HandsInv
<1>6. MirrorsInv'
  BY <1>1, <1>3, SiduneaFacts DEF MirrorsInv
<1> QED
  BY <1>5, <1>6 DEF SiduneaInv

LEMMA MirrorStep ==
  ASSUME IInv, NEW h \in Handlers, SiduneaMove(h), Mirror(h)
  PROVE  SiduneaInv'
<1> DEFINE k == ctx[h].case
           r == ctx[h].reference
<1>1. /\ k \in Cases /\ r \in Reference /\ pc[h] = "mirror" /\ pc'[h] = "idle"
      /\ mirrors' = [mirrors EXCEPT ![<<k, r>>] = @ + 1]
      /\ references' = references /\ duaItems' = duaItems /\ tornRefs' = tornRefs
  BY SiduneaFacts DEF Mirror, SiduneaCalls, Leave, Goto
<1>2. /\ references[r] = k /\ mirrors[<<k, r>>] = 0 /\ (r[1] = "dua" => r[2] \in duaItems)
  BY <1>1, SiduneaFacts DEF HandsInv, Prepared
<1>3. InHand(h, r) /\ (\A s \in Reference : InHand(h, s) => s = r)
      /\ (\A s \in Reference : ~InHand(h, s)')
  BY <1>1 DEF InHand
<1> HIDE DEF k, r
<1>4. /\ mirrors'[<<k, r>>] = 1
      /\ \A m \in Cases \X Reference : m # <<k, r>> => mirrors'[m] = mirrors[m]
  BY <1>1, <1>2, SiduneaFacts
<1>5. ASSUME NEW g \in Handlers, pc'[g] \in {"saveDuaItems", "mirror"}
      PROVE  Prepared(pc[g], ctx[g].case, ctx[g].reference)'
  <2>1. g # h /\ pc'[g] = pc[g] /\ ctx'[g] = ctx[g]
    BY <1>1, <1>5, SiduneaFacts
  <2>2. ctx[g].case \in Cases /\ ctx[g].reference \in Reference
    BY <1>5, <2>1, SiduneaFacts DEF SiduneaCalls
  <2>3. ctx[g].reference # r
    <3>1. InHand(g, ctx[g].reference)
      BY <1>5, <2>1 DEF InHand
    <3> QED
      BY <1>1, <1>3, <2>1, <3>1, SiduneaFacts DEF HandsInv
  <2>4. mirrors'[<<ctx[g].case, ctx[g].reference>>] = mirrors[<<ctx[g].case, ctx[g].reference>>]
    BY <1>4, <2>2, <2>3
  <2> QED
    BY <1>1, <1>5, <2>1, <2>4, SiduneaFacts DEF HandsInv, Prepared
<1>6. HandsInv'
  BY <1>3, <1>5, SiduneaFacts DEF HandsInv
<1>7. ASSUME NEW e \in Cases, NEW s \in Reference
      PROVE  /\ mirrors'[<<e, s>>] = 1 =>
                  references'[s] = e /\ (s[1] = "dua" => s[2] \in duaItems')
             /\ references'[s] = e /\ s \notin tornRefs' => mirrors'[<<e, s>>] = 1 \/ Handed(s)'
  <2>1. CASE s = r /\ e = k
    BY <1>1, <1>2, <1>4, <2>1
  <2>2. CASE ~(s = r /\ e = k)
    <3>1. mirrors'[<<e, s>>] = mirrors[<<e, s>>]
      BY <1>4, <2>2
    <3>2. s = r => references[s] # e
      BY <1>2, <2>2
    <3>3. s # r /\ Handed(s) => Handed(s)'
      BY <1>3, SiduneaFacts DEF Handed
    <3> QED
      BY <1>1, <3>1, <3>2, <3>3, SiduneaFacts DEF MirrorsInv
  <2> QED
    BY <2>1, <2>2
<1>8. MirrorsInv'
  BY <1>7 DEF MirrorsInv
<1> QED
  BY <1>6, <1>8 DEF SiduneaInv

LEMMA SiduneaFailStep ==
  ASSUME IInv, NEW h \in Handlers, SiduneaMove(h), SiduneaFail(h)
  PROVE  SiduneaInv'
<1>1. /\ references' = references /\ duaItems' = duaItems /\ mirrors' = mirrors
      /\ tornRefs \subseteq tornRefs' /\ pc'[h] = "idle"
      /\ \A s \in Reference : InHand(h, s) => s \in tornRefs'
  BY SiduneaFacts DEF SiduneaFail, Leave, Goto, InHand, siduneaRows
<1>2. \A s \in Reference : ~InHand(h, s)'
  BY <1>1 DEF InHand
<1>3. \A s \in Reference : Handed(s) => Handed(s)' \/ s \in tornRefs'
  BY <1>1, SiduneaFacts DEF Handed
<1>4. ASSUME NEW g \in Handlers, pc'[g] \in {"saveDuaItems", "mirror"}
      PROVE  Prepared(pc[g], ctx[g].case, ctx[g].reference)'
  <2>1. g # h /\ pc'[g] = pc[g] /\ ctx'[g] = ctx[g]
    BY <1>1, <1>4, SiduneaFacts
  <2> QED
    BY <1>1, <1>4, <2>1, SiduneaFacts DEF HandsInv, Prepared
<1>5. HandsInv'
  BY <1>2, <1>4, SiduneaFacts DEF HandsInv
<1>6. MirrorsInv'
  BY <1>1, <1>3, SiduneaFacts DEF MirrorsInv
<1> QED
  BY <1>5, <1>6 DEF SiduneaInv

LEMMA ReferencesStep ==
  ASSUME IInv, NEW h \in Handlers, SiduneaMove(h)
  PROVE  SiduneaInv'
<1>1. CASE ReferenceTaken(h) \/ \E k \in Cases, r \in Reference : CreateReference(h, k, r)
  <2>1. /\ UNCHANGED siduneaVars
        /\ pc[h] \notin {"saveDuaItems", "mirror"} /\ pc'[h] \notin {"saveDuaItems", "mirror"}
    BY <1>1, SiduneaFacts DEF ReferenceTaken, CreateReference, Begin, Idle, Goto, Leave
  <2> QED
    BY <2>1, EmptyHanded
<1> QED
  BY <1>1, SaveReferenceStep, SaveDuaItemsStep, MirrorStep, SiduneaFailStep
     DEF SiduneaMove, SiduneaStart, SiduneaContinue

-----------------------------------------------------------------------------
(***************************************************************************)
(* The discrepancies                                                       *)
(***************************************************************************)
LEMMA DiscrepanciesStay ==
  ASSUME IInv, UNCHANGED discrepancyVars, NEW h \in Handlers,
         pc[h] \notin DiscrepancyCalls, pc'[h] \notin DiscrepancyCalls,
         \A g \in Handlers : g # h => pc'[g] = pc[g] /\ ctx'[g] = ctx[g]
  PROVE  DiscrepancyInv'
<1>1. DiscrepancyInv
  BY DEF IInv
<1>2. \A g \in Handlers :
        /\ pc'[g] \in DiscrepancyCalls => pc'[g] = pc[g] /\ ctx'[g] = ctx[g]
        /\ pc[g] \in DiscrepancyCalls => pc'[g] = pc[g]
  OBVIOUS
<1>3. Adding' = Adding
  BY <1>2 DEF Adding, DiscrepancyCalls
<1> QED
  BY <1>1, <1>2, <1>3
     DEF DiscrepancyInv, DiscrepancyCalls, discrepancyVars, discrepancyRows

\* Who is adding a difference, by the call that a handler makes next.
LEMMA AddingMoves ==
  ASSUME IInv, NEW h \in Handlers,
         \A g \in Handlers : g # h => pc'[g] = pc[g]
  PROVE  /\ (pc[h] = "saveTotal") = (pc'[h] = "saveTotal") => Adding' = Adding
         /\ pc[h] # "saveTotal" /\ pc'[h] = "saveTotal" =>
              /\ IsFiniteSet(Adding')
              /\ Cardinality(Adding') = Cardinality(Adding) + 1
         /\ pc[h] = "saveTotal" /\ pc'[h] # "saveTotal" =>
              /\ IsFiniteSet(Adding') /\ Cardinality(Adding') \in Nat
              /\ Cardinality(Adding) = Cardinality(Adding') + 1
<1>1. IsFiniteSet(Adding) /\ Cardinality(Adding) \in Nat
  BY FS_CardinalityType DEF IInv, DiscrepancyInv
<1>2. CASE pc[h] # "saveTotal" /\ pc'[h] = "saveTotal"
  <2>1. h \notin Adding /\ Adding' = Adding \cup {h}
    BY <1>2 DEF Adding
  <2> QED
    BY <1>1, <1>2, <2>1, FS_AddElement
<1>3. CASE pc[h] = "saveTotal" /\ pc'[h] # "saveTotal"
  <2>1. h \in Adding /\ Adding' = Adding \ {h}
    BY <1>3 DEF Adding
  <2>2. IsFiniteSet(Adding') /\ Cardinality(Adding') = Cardinality(Adding) - 1
    BY <1>1, <2>1, FS_RemoveElement
  <2>3. Cardinality(Adding') \in Nat
    BY <2>2, FS_CardinalityType
  <2> QED
    BY <1>1, <1>3, <2>2, <2>3
<1>4. CASE (pc[h] = "saveTotal") = (pc'[h] = "saveTotal")
  <2>1. Adding' = Adding
    BY <1>4 DEF Adding
  <2> QED
    BY <1>4, <2>1
<1> QED
  BY <1>2, <1>3, <1>4

LEMMA DifferencesStep ==
  ASSUME IInv, NEW h \in Handlers, DiscrepancyMove(h)
  PROVE  DiscrepancyInv'
<1> USE DEF discrepancyVars, discrepancyRows
<1>0. /\ pc \in [Handlers -> Calls] /\ ctx \in [Handlers -> Contexts]
      /\ matrix \in MatrixRow \cup {NoMatrix} /\ stale \in BOOLEAN /\ tornAdd \in BOOLEAN
      /\ Len(differences) \in Nat /\ DOMAIN differences = 1..Len(differences)
      /\ DiscrepancyInv
      /\ matrix.total \in Nat /\ Cardinality(Adding) \in Nat
  <2>1. matrix.total \in Nat
    BY DEF IInv, TypeOK, DiscrepancyTypeOK, MatrixRow, NoMatrix, DiscrepanciesAssumption
  <2>2. Cardinality(Adding) \in Nat
    BY FS_CardinalityType DEF IInv, DiscrepancyInv
  <2> QED
    BY <2>1, <2>2, DiscrepancyTypes DEF IInv, TypeOK, DiscrepancyTypeOK, Calls, Contexts
<1>1. /\ \A g \in Handlers : g # h => pc'[g] = pc[g] /\ ctx'[g] = ctx[g]
      /\ \A g \in Handlers : Held(pc[g], ctx[g]) /\ Held(pc'[g], ctx'[g])
  <2>1. DiscrepancyCalls \in SUBSET Calls
    BY DEF Calls
  <2> QED
    BY <2>1, DiscrepancyMoves, MovedFacts DEF IInv, HeldInv
<1>2. \A g \in Handlers :
        pc[g] \in {"saveDifference", "findDifferences", "saveReconciled", "saveTotal"} =>
          ctx[g].matrix \in MatrixRow /\ ctx[g].matrix.total \in Nat
  <2>1. \A row \in MatrixRow : row.total \in Nat
    BY DEF MatrixRow, DiscrepanciesAssumption
  <2> QED
    BY <1>1, <2>1 DEF Held, DiscrepancyHeld
\* A handler that changes no row and vouches for nothing that it did not before.
<1>3. ASSUME UNCHANGED discrepancyRows, stale' = stale, tornAdd => tornAdd',
             pc'[h] \notin {"saveDifference", "findDifferences", "saveReconciled", "saveTotal",
                            "saveResolved"},
             pc[h] = "saveTotal" => tornAdd'
      PROVE  DiscrepancyInv'
  <2>1. pc[h] # "saveTotal" => Adding' = Adding
    BY <1>1, <1>3, AddingMoves
  <2>2. IsFiniteSet(Adding')
    BY <1>0, <1>1, <1>3, <2>1, AddingMoves DEF DiscrepancyInv
  <2>3. \A g \in Handlers :
          pc'[g] \in {"saveDifference", "findDifferences", "saveReconciled", "saveTotal",
                      "saveResolved"} => pc'[g] = pc[g] /\ ctx'[g] = ctx[g]
    BY <1>1, <1>3
  <2> QED
    BY <1>0, <1>3, <2>1, <2>2, <2>3 DEF DiscrepancyInv
<1>4. ASSUME NEW op \in {"getMatrix", "addItem", "reconcile"}, OpenMatrix(h, op)
      PROVE  DiscrepancyInv'
  BY <1>0, <1>3, <1>4 DEF OpenMatrix, Begin, Idle, Goto
<1>5. CASE MatrixTaken(h) \/ ListItems(h) \/ DifferenceIdsUsedUp(h) \/ DifferencesPending(h)
  BY <1>0, <1>3, <1>5
     DEF MatrixTaken, ListItems, DifferenceIdsUsedUp, DifferencesPending, DiscrepancyThrow,
         Leave, Goto
<1>6. CASE DiscrepancyFail(h)
  <2>1. /\ UNCHANGED discrepancyRows /\ stale' = stale /\ pc'[h] = "idle"
        /\ tornAdd' = (tornAdd \/ pc[h] = "saveTotal")
    BY <1>0, <1>6 DEF DiscrepancyFail, Leave, Goto
  <2> QED
    BY <1>0, <1>3, <2>1
<1>7. ASSUME NEW i \in DOMAIN differences, ResolveItem(h, i)
      PROVE  DiscrepancyInv'
  <2>1. /\ UNCHANGED discrepancyVars /\ pc[h] = "idle" /\ pc'[h] = "saveResolved"
        /\ ctx'[h].item = i
    BY <1>0, <1>7 DEF ResolveItem, Begin, Idle, Goto, Keep
  <2>2. Adding' = Adding
    BY <1>1, <2>1, AddingMoves
  <2> QED
    BY <1>0, <1>1, <1>7, <2>1, <2>2 DEF DiscrepancyInv
\* A handler that goes on with a matrix whose count is right.
<1>8. ASSUME NEW row \in MatrixRow, row.total <= Len(differences),
             pc[h] \in {"findMatrix", "saveNewMatrix"}, Proceed(h, row),
             differences' = differences, stale' = stale, tornAdd' = tornAdd,
             matrix'.total = matrix.total, matrix'.status = "reconciled" => matrix' = matrix
      PROVE  DiscrepancyInv'
  <2>1. /\ pc'[h] = "listItems" \/ pc'[h] \in {"saveDifference", "findDifferences"}
        /\ ctx'[h].matrix = row
    BY <1>8, ProceedMoves
  <2>2. Adding' = Adding
    BY <1>1, <1>8, <2>1, AddingMoves
  <2> QED
    BY <1>0, <1>1, <1>8, <2>1, <2>2 DEF DiscrepancyInv
<1>9. CASE FindMatrix(h)
  <2>1. CASE matrix = NoMatrix
    BY <1>0, <1>3, <1>9, <2>1 DEF FindMatrix, Goto
  <2>2. CASE matrix # NoMatrix
    <3>1. /\ Proceed(h, matrix) /\ UNCHANGED discrepancyVars /\ pc[h] = "findMatrix"
          /\ matrix \in MatrixRow
      BY <1>0, <1>9, <2>2 DEF FindMatrix
    <3> QED
      BY <1>0, <1>8, <3>1 DEF DiscrepancyInv
  <2> QED
    BY <2>1, <2>2
<1>10. CASE SaveNewMatrix(h)
  <2>1. /\ NewMatrix \in MatrixRow /\ NewMatrix.total = 0 /\ NewMatrix.status = "pending"
        /\ NoMatrix.total = 0
    BY DEF NewMatrix, NoMatrix, MatrixRow, DiscrepanciesAssumption
  <2>2. /\ Proceed(h, NewMatrix) /\ UNCHANGED <<differences, stale, tornAdd>>
        /\ pc[h] = "saveNewMatrix" /\ matrix = NoMatrix /\ matrix' = NewMatrix
    BY <1>10 DEF SaveNewMatrix
  <2> QED
    BY <1>0, <1>8, <2>1, <2>2
<1>11. CASE SaveDifference(h)
  <2>1. /\ pc[h] = "saveDifference" /\ pc'[h] = "saveTotal" /\ ctx' = ctx
        /\ UNCHANGED <<matrix, stale, tornAdd>>
    BY <1>0, <1>11 DEF SaveDifference, Goto
  <2>2. /\ IsFiniteSet(Adding') /\ Cardinality(Adding') = Cardinality(Adding) + 1
    BY <1>1, <2>1, AddingMoves
  <2>3. /\ Len(differences') = Len(differences) + 1
        /\ \A i \in 1..Len(differences) : differences'[i] = differences[i]
    <3>1. "saveDifference" # "saveResolved" /\ ~SaveResolved(h)
      BY <2>1 DEF SaveResolved
    <3>2. /\ differences \in Seq(BOOLEAN) /\ FALSE \in BOOLEAN
          /\ differences' = Append(differences, FALSE)
      BY <1>11 DEF SaveDifference, IInv, TypeOK, DiscrepancyTypeOK
    <3> QED
      BY <3>2, AppendProperties
  <2>4. DOMAIN differences' = 1..Len(differences')
    BY LenProperties, DiscrepancyTypes DEF DiscrepancyTypeOK
  <2>5. ctx[h].matrix.total <= Len(differences) /\ ctx[h].matrix.total \in Nat
    BY <1>0, <1>2, <2>1 DEF DiscrepancyInv
  <2>6. ASSUME NEW g \in Handlers, g # h
        PROVE  /\ pc'[g] \in {"saveDifference", "findDifferences", "saveReconciled"} =>
                    ctx'[g].matrix.total <= Len(differences')
               /\ pc'[g] = "saveTotal" => ctx'[g].matrix.total < Len(differences')
               /\ pc'[g] = "saveResolved" => ctx'[g].item \in DOMAIN differences'
               /\ pc'[g] = "saveReconciled" =>
                    \A i \in 1..ctx'[g].matrix.total : differences'[i]
    <3>1. pc'[g] = pc[g] /\ ctx'[g] = ctx[g]
      BY <1>1, <2>6
    <3> QED
      BY <1>0, <1>2, <2>3, <2>4, <3>1 DEF DiscrepancyInv
  <2>7. matrix'.status = "reconciled" => \A i \in 1..matrix'.total : differences'[i]
    BY <1>0, <2>1, <2>3 DEF DiscrepancyInv
  <2>8. matrix'.total <= Len(differences')
    BY <1>0, <2>1, <2>3 DEF DiscrepancyInv
  <2>9. ~stale' /\ ~tornAdd' => matrix'.total + Cardinality(Adding') = Len(differences')
    BY <1>0, <2>1, <2>2, <2>3 DEF DiscrepancyInv
  <2> QED
    BY <1>0, <2>1, <2>2, <2>3, <2>5, <2>6, <2>7, <2>8, <2>9 DEF DiscrepancyInv
<1>12. CASE SaveTotal(h)
  <2> DEFINE row == [total |-> ctx[h].matrix.total + 1, status |-> "pending"]
  <2>1. /\ pc[h] = "saveTotal" /\ pc'[h] = "idle" /\ UNCHANGED <<differences, tornAdd>>
        /\ matrix' = row /\ stale' = (stale \/ matrix # ctx[h].matrix)
    BY <1>0, <1>12 DEF SaveTotal, SaveMatrix, Leave, Goto
  <2>2. /\ IsFiniteSet(Adding') /\ Cardinality(Adding') \in Nat
        /\ Cardinality(Adding) = Cardinality(Adding') + 1
    BY <1>1, <2>1, AddingMoves
  <2>3. ctx[h].matrix.total < Len(differences) /\ ctx[h].matrix.total \in Nat
    BY <1>0, <1>2, <2>1 DEF DiscrepancyInv
  <2>4. row.total = ctx[h].matrix.total + 1 /\ row.status = "pending"
    OBVIOUS
  <2> HIDE DEF row
  <2>5. matrix'.total <= Len(differences')
    BY <1>0, <2>1, <2>3, <2>4
  <2>6. ~stale' /\ ~tornAdd' => matrix'.total + Cardinality(Adding') = Len(differences')
    <3> SUFFICES ASSUME ~stale', ~tornAdd'
                 PROVE  matrix'.total + Cardinality(Adding') = Len(differences')
      OBVIOUS
    <3>1. ~stale /\ matrix = ctx[h].matrix /\ ~tornAdd
      BY <2>1
    <3>2. matrix.total + Cardinality(Adding) = Len(differences)
      BY <1>0, <3>1 DEF DiscrepancyInv
    <3> QED
      BY <1>0, <2>1, <2>2, <2>3, <2>4, <3>1, <3>2
  <2>7. \A g \in Handlers :
          pc'[g] \in {"saveDifference", "findDifferences", "saveReconciled", "saveTotal",
                      "saveResolved"} => pc'[g] = pc[g] /\ ctx'[g] = ctx[g]
    BY <1>1, <2>1
  <2> QED
    BY <1>0, <2>1, <2>2, <2>4, <2>5, <2>6, <2>7 DEF DiscrepancyInv
<1>13. CASE SaveResolved(h)
  <2>1. /\ pc[h] = "saveResolved" /\ pc'[h] = "idle" /\ UNCHANGED <<matrix, stale, tornAdd>>
    BY <1>0, <1>13 DEF SaveResolved, Leave, Goto
  <2>2. Adding' = Adding
    BY <1>1, <2>1, AddingMoves
  <2>3. /\ Len(differences') = Len(differences)
        /\ \A i \in 1..Len(differences) : differences[i] => differences'[i]
    <3>1. ~SaveDifference(h)
      BY <2>1 DEF SaveDifference
    <3> QED
      BY <3>1, DiscrepancyTypes
  <2>4. DOMAIN differences' = 1..Len(differences')
    BY LenProperties, DiscrepancyTypes DEF DiscrepancyTypeOK
  <2>5. \A g \in Handlers :
          pc'[g] \in {"saveDifference", "findDifferences", "saveReconciled", "saveTotal",
                      "saveResolved"} => pc'[g] = pc[g] /\ ctx'[g] = ctx[g]
    BY <1>1, <2>1
  <2>6. \A g \in Handlers : pc'[g] = "saveReconciled" =>
          \A i \in 1..ctx'[g].matrix.total : differences'[i]
    BY <1>0, <1>2, <2>3, <2>5 DEF DiscrepancyInv
  <2>7. matrix'.status = "reconciled" => \A i \in 1..matrix'.total : differences'[i]
    BY <1>0, <2>1, <2>3 DEF DiscrepancyInv
  <2> QED
    BY <1>0, <2>1, <2>2, <2>3, <2>4, <2>5, <2>6, <2>7 DEF DiscrepancyInv
<1>14. CASE FindDifferences(h)
  <2>1. /\ pc[h] = "findDifferences" /\ pc'[h] = "saveReconciled" /\ ctx' = ctx
        /\ UNCHANGED discrepancyVars /\ \A i \in DOMAIN differences : differences[i]
    BY <1>0, <1>14 DEF FindDifferences, AllResolved, Goto
  <2>2. Adding' = Adding
    BY <1>1, <2>1, AddingMoves
  <2>3. ctx[h].matrix.total <= Len(differences) /\ ctx[h].matrix.total \in Nat
    BY <1>0, <1>2, <2>1 DEF DiscrepancyInv
  <2>4. \A i \in 1..ctx[h].matrix.total : differences[i]
    BY <1>0, <2>1, <2>3
  <2> QED
    BY <1>0, <1>1, <2>1, <2>2, <2>3, <2>4 DEF DiscrepancyInv
<1>15. CASE SaveReconciled(h)
  <2> DEFINE row == [ctx[h].matrix EXCEPT !.status = "reconciled"]
  <2>1. /\ pc[h] = "saveReconciled" /\ pc'[h] = "idle" /\ UNCHANGED <<differences, tornAdd>>
        /\ matrix' = row /\ stale' = (stale \/ matrix # ctx[h].matrix)
    BY <1>0, <1>15 DEF SaveReconciled, SaveMatrix, Leave, Goto
  <2>2. Adding' = Adding
    BY <1>1, <2>1, AddingMoves
  <2>3. /\ ctx[h].matrix \in MatrixRow /\ ctx[h].matrix.total <= Len(differences)
        /\ \A i \in 1..ctx[h].matrix.total : differences[i]
    BY <1>0, <1>2, <2>1 DEF DiscrepancyInv
  <2>4. row.total = ctx[h].matrix.total
    BY <2>3 DEF MatrixRow
  <2> HIDE DEF row
  <2>5. \A g \in Handlers :
          pc'[g] \in {"saveDifference", "findDifferences", "saveReconciled", "saveTotal",
                      "saveResolved"} => pc'[g] = pc[g] /\ ctx'[g] = ctx[g]
    BY <1>1, <2>1
  <2>6. ~stale' => ~stale /\ matrix'.total = matrix.total
    BY <2>1, <2>4
  <2> QED
    BY <1>0, <2>1, <2>2, <2>3, <2>4, <2>5, <2>6 DEF DiscrepancyInv
<1> QED
  BY <1>4, <1>5, <1>6, <1>7, <1>9, <1>10, <1>11, <1>12, <1>13, <1>14, <1>15
     DEF DiscrepancyMove, DiscrepancyStart, DiscrepancyContinue

-----------------------------------------------------------------------------
(***************************************************************************)
(* Theorems                                                                *)
(***************************************************************************)
LEMMA InitInv == Init => IInv
<1> SUFFICES ASSUME Init PROVE IInv
  OBVIOUS
<1> USE DEF Init, RequestsInit, CustomsInit, SiduneaInit, DiscrepancyInit
<1>1. \A h \in Handlers : pc[h] = "idle" /\ ctx[h] = NoContext
  OBVIOUS
<1>2. HeldInv
  BY <1>1
     DEF HeldInv, Held, CaseHeld, CustomsHeld, SiduneaHeld, DiscrepancyHeld, SiduneaCalls
<1>3. /\ case \in {"none", "open"} /\ parties \subseteq Party
      /\ semaphore \in {"none"} \cup Colors /\ checklist \in [Requirements -> ItemStatuses]
      /\ documents = <<>> /\ early = FALSE
      /\ case = "none" => \A r \in Requirements : checklist[r] = "none"
  <2>1. CASE CaseInit
    BY <2>1 DEF CaseInit, ItemStatuses
  <2>2. CASE CaseMade
    BY <2>2 DEF CaseMade, ItemStatuses, Party, Roles, Colors, CaseFileAssumption
  <2> QED
    BY <2>1, <2>2
<1>4. TypeOK
  <2>0. /\ documents \in Seq(DocumentStatuses) /\ Len(documents) = 0
        /\ differences \in Seq(BOOLEAN) /\ Len(differences) = 0
    BY <1>3, EmptySeq
  <2>1. CaseTypeOK
    <3>1. case \in {"none", "open", "closed"} /\ early \in BOOLEAN
      BY <1>3
    <3>2. Len(documents) <= MaxDocuments
      BY <2>0 DEF CaseFileAssumption
    <3> QED
      BY <1>3, <2>0, <3>1, <3>2 DEF CaseTypeOK
  <2>2. CustomsTypeOK
    BY EmptySeq DEF CustomsTypeOK, CustomsAssumption
  <2>3. SiduneaTypeOK
    BY DEF SiduneaTypeOK
  <2>4. DiscrepancyTypeOK
    <3>1. Len(differences) <= MaxDifferences
      BY <2>0 DEF DiscrepanciesAssumption
    <3> QED
      BY <2>0, <3>1 DEF DiscrepancyTypeOK
  <2> QED
    BY <2>1, <2>2, <2>3, <2>4 DEF TypeOK
<1>5. FileInv
  BY <1>1, <1>3 DEF FileInv, Creating
<1>6. CustomsInv
  <2>1. DOMAIN declarations = {}
    BY EmptySeq
  <2> QED
    BY <1>1, <2>1 DEF CustomsInv, DeclaredByAgentOfCase, CustomsRead, SubmissionInv
<1>7. SiduneaInv
  BY <1>1 DEF SiduneaInv, HandsInv, MirrorsInv, InHand, SiduneaAssumption
<1>8. DiscrepancyInv
  <2>1. Adding = {} /\ IsFiniteSet(Adding) /\ Cardinality(Adding) = 0
    BY <1>1, FS_EmptySet DEF Adding
  <2>2. Len(differences) = 0 /\ matrix.total = 0 /\ matrix.status = "none"
    BY EmptySeq DEF NoMatrix
  <2> QED
    BY <1>1, <2>1, <2>2 DEF DiscrepancyInv
<1> QED
  BY <1>2, <1>4, <1>5, <1>6, <1>7, <1>8 DEF IInv

LEMMA InvStep == IInv /\ [Next]_vars => IInv'
<1> SUFFICES ASSUME IInv, [Next]_vars PROVE IInv'
  OBVIOUS
<1>1. CASE UNCHANGED vars
  <2> USE <1>1 DEF vars, caseVars, caseRows, customsVars, customsRows, siduneaVars, siduneaRows,
                   discrepancyVars, discrepancyRows, IInv
  <2>1. TypeOK'
    BY DEF TypeOK, CaseTypeOK, CustomsTypeOK, SiduneaTypeOK, DiscrepancyTypeOK
  <2>2. HeldInv'
    BY DEF HeldInv
  <2>3. FileInv'
    BY DEF FileInv, Creating, Complete
  <2>4. CustomsInv'
    BY DEF CustomsInv, DeclaredByAgentOfCase, CustomsRead, SubmissionInv, Submitting
  <2>5. SiduneaInv'
    BY DEF SiduneaInv, HandsInv, MirrorsInv, Prepared, InHand, Handed
  <2>6. DiscrepancyInv'
    BY DEF DiscrepancyInv, Adding
  <2> QED
    BY <2>1, <2>2, <2>3, <2>4, <2>5, <2>6
<1>2. CASE Next
  <2>0. PICK h \in Handlers :
          \/ FileMove(h) /\ UNCHANGED <<customsVars, siduneaVars, discrepancyVars>>
          \/ CustomsMove(h) /\ UNCHANGED <<caseVars, siduneaVars, discrepancyVars>>
          \/ SiduneaMove(h) /\ UNCHANGED <<caseVars, customsVars, discrepancyVars>>
          \/ DiscrepancyMove(h) /\ UNCHANGED <<caseVars, customsVars, siduneaVars>>
    BY <1>2, NextCases
  <2>1. desk' \in Desks
    BY <1>2, NextCases DEF IInv, TypeOK
  \* What the moves at a desk leave to the other three.
  <2>2. /\ CaseCalls \in SUBSET Calls /\ CustomsCalls \in SUBSET Calls
        /\ SiduneaCalls \in SUBSET Calls /\ DiscrepancyCalls \in SUBSET Calls
    BY DEF Calls
  <2>3. /\ UNCHANGED caseVars => CaseTypeOK' /\ parties' = parties
        /\ UNCHANGED customsVars => CustomsTypeOK'
        /\ UNCHANGED siduneaVars => SiduneaTypeOK'
        /\ UNCHANGED discrepancyVars => DiscrepancyTypeOK'
    <3> USE DEF IInv, TypeOK
    <3>1. UNCHANGED caseVars => CaseTypeOK' /\ parties' = parties
      BY DEF caseVars, caseRows, CaseTypeOK
    <3>2. UNCHANGED customsVars => CustomsTypeOK'
      BY DEF customsVars, customsRows, CustomsTypeOK
    <3>3. UNCHANGED siduneaVars => SiduneaTypeOK'
      BY DEF siduneaVars, siduneaRows, SiduneaTypeOK
    <3>4. UNCHANGED discrepancyVars => DiscrepancyTypeOK'
      BY DEF discrepancyVars, discrepancyRows, DiscrepancyTypeOK
    <3> QED
      BY <3>1, <3>2, <3>3, <3>4
  <2>4. ASSUME pc' \in [Handlers -> Calls], ctx' \in [Handlers -> Contexts],
               CaseTypeOK', CustomsTypeOK', SiduneaTypeOK', DiscrepancyTypeOK'
        PROVE  TypeOK'
    BY <2>1, <2>4 DEF TypeOK, Calls, Contexts
  <2>5. ASSUME FileMove(h), UNCHANGED <<customsVars, siduneaVars, discrepancyVars>>
        PROVE  IInv'
    <3>1. Moved(h, CaseCalls)
      BY <2>5, FileMoves
    <3>2. /\ pc' \in [Handlers -> Calls] /\ ctx' \in [Handlers -> Contexts] /\ HeldInv'
          /\ pc[h] \in {"idle"} \cup CaseCalls /\ pc'[h] \in {"idle"} \cup CaseCalls
          /\ \A g \in Handlers : g # h => pc'[g] = pc[g] /\ ctx'[g] = ctx[g]
      BY <2>2, <3>1, MovedFacts
    <3>3. /\ pc[h] \notin CustomsCalls \cup SiduneaCalls \cup DiscrepancyCalls
          /\ pc'[h] \notin CustomsCalls \cup SiduneaCalls \cup DiscrepancyCalls
      BY <3>2 DEF CaseCalls, CustomsCalls, SiduneaCalls, DiscrepancyCalls
    <3>4. TypeOK'
      BY <2>3, <2>4, <2>5, <3>2, FileTypes
    <3>5. parties \subseteq parties'
      BY <2>5 DEF FileMove, CaseStart, CaseContinue, CaseFail, CreateCase, AddParty, CloseCase,
             Upload, UpdateSemaphore, ReviewDocument, FulfillChecklistItem, SaveCase, SaveParty,
             PartyTaken, SaveSemaphore, SeedChecklist, SaveColor, FindChecklist,
             DocumentsMissing, SaveClosed, SaveDocument, DocumentIdsUsedUp, SaveStatus,
             SaveReview, SaveItem, CaseThrow, caseVars, caseRows
    <3> QED
      BY <2>5, <3>2, <3>3, <3>4, <3>5, FileStep, CustomsStays, SiduneaStays, DiscrepanciesStay
         DEF IInv
  <2>6. ASSUME CustomsMove(h), UNCHANGED <<caseVars, siduneaVars, discrepancyVars>>
        PROVE  IInv'
    <3>1. Moved(h, CustomsCalls)
      BY <2>6, CustomsMoves
    <3>2. /\ pc' \in [Handlers -> Calls] /\ ctx' \in [Handlers -> Contexts] /\ HeldInv'
          /\ pc[h] \in {"idle"} \cup CustomsCalls /\ pc'[h] \in {"idle"} \cup CustomsCalls
          /\ \A g \in Handlers : g # h => pc'[g] = pc[g] /\ ctx'[g] = ctx[g]
      BY <2>2, <3>1, MovedFacts
    <3>3. /\ pc[h] \notin CaseCalls \cup SiduneaCalls \cup DiscrepancyCalls
          /\ pc'[h] \notin CaseCalls \cup SiduneaCalls \cup DiscrepancyCalls
      BY <3>2 DEF CaseCalls, CustomsCalls, SiduneaCalls, DiscrepancyCalls
    <3>4. TypeOK'
      BY <2>3, <2>4, <2>6, <3>2, CustomsTypes
    <3>5. CustomsInv'
      BY <2>6, DeclaredStep, ReadStep, SubmissionStep DEF CustomsInv
    <3> QED
      BY <2>6, <3>2, <3>3, <3>4, <3>5, FileStays, SiduneaStays, DiscrepanciesStay DEF IInv
  <2>7. ASSUME SiduneaMove(h), UNCHANGED <<caseVars, customsVars, discrepancyVars>>
        PROVE  IInv'
    <3>1. Moved(h, SiduneaCalls)
      BY <2>7, SiduneaMoves
    <3>2. /\ pc' \in [Handlers -> Calls] /\ ctx' \in [Handlers -> Contexts] /\ HeldInv'
          /\ pc[h] \in {"idle"} \cup SiduneaCalls /\ pc'[h] \in {"idle"} \cup SiduneaCalls
          /\ \A g \in Handlers : g # h => pc'[g] = pc[g] /\ ctx'[g] = ctx[g]
      BY <2>2, <3>1, MovedFacts
    <3>3. /\ pc[h] \notin CaseCalls \cup CustomsCalls \cup DiscrepancyCalls
          /\ pc'[h] \notin CaseCalls \cup CustomsCalls \cup DiscrepancyCalls
      BY <3>2 DEF CaseCalls, CustomsCalls, SiduneaCalls, DiscrepancyCalls
    <3>4. TypeOK'
      BY <2>3, <2>4, <2>7, <3>2, SiduneaTypes
    <3>5. parties \subseteq parties'
      BY <2>3, <2>7
    <3> QED
      BY <2>7, <3>2, <3>3, <3>4, <3>5, FileStays, CustomsStays, ReferencesStep, DiscrepanciesStay
         DEF IInv
  <2>8. ASSUME DiscrepancyMove(h), UNCHANGED <<caseVars, customsVars, siduneaVars>>
        PROVE  IInv'
    <3>1. Moved(h, DiscrepancyCalls)
      BY <2>8, DiscrepancyMoves
    <3>2. /\ pc' \in [Handlers -> Calls] /\ ctx' \in [Handlers -> Contexts] /\ HeldInv'
          /\ pc[h] \in {"idle"} \cup DiscrepancyCalls /\ pc'[h] \in {"idle"} \cup DiscrepancyCalls
          /\ \A g \in Handlers : g # h => pc'[g] = pc[g] /\ ctx'[g] = ctx[g]
      BY <2>2, <3>1, MovedFacts
    <3>3. /\ pc[h] \notin CaseCalls \cup CustomsCalls \cup SiduneaCalls
          /\ pc'[h] \notin CaseCalls \cup CustomsCalls \cup SiduneaCalls
      BY <3>2 DEF CaseCalls, CustomsCalls, SiduneaCalls, DiscrepancyCalls
    <3>4. TypeOK'
      BY <2>3, <2>4, <2>8, <3>2, DiscrepancyTypes
    <3>5. parties \subseteq parties'
      BY <2>3, <2>8
    <3> QED
      BY <2>8, <3>2, <3>3, <3>4, <3>5, FileStays, CustomsStays, SiduneaStays, DifferencesStep
         DEF IInv
  <2> QED
    BY <2>0, <2>5, <2>6, <2>7, <2>8
<1> QED
  BY <1>1, <1>2

LEMMA Invariance == Spec => []IInv
BY InitInv, InvStep, PTL DEF Spec

\* Type correctness, for any number of handlers and any tables: every row that the cases,
\* documents, customs, SIDUNEA and WMS services save is one that its table can hold, no
\* document, declaration or item is written that is not there, and a reference is
\* mirrored at most once, however the handlers interleave and wherever they die.
THEOREM TypeCorrect == Spec => []TypeOK
<1>1. IInv => TypeOK
  BY DEF IInv
<1> QED
  BY <1>1, Invariance, PTL

\* closeCase never leaves a case closed with a mandatory document of its profile missing,
\* unless it found the checklist empty because createCase had not seeded it: a fulfilled
\* item is never taken back, and nothing is seeded once the case is worked on.
THEOREM ClosedComplete == Spec => []ClosedIsCompleteUnlessEarly
<1>1. IInv => ClosedIsCompleteUnlessEarly
  BY DEF IInv, FileInv, Complete, ClosedIsCompleteUnlessEarly
<1> QED
  BY <1>1, Invariance, PTL

\* The two layers of createDeclaration, assertActiveLicense and the agent of the case, are
\* checked in two reads before the save, and hold of every declaration that is saved.
THEOREM DeclaredByAgent == Spec => []DeclaredByAgentOfCase
<1>1. IInv => DeclaredByAgentOfCase
  BY DEF IInv, CustomsInv
<1> QED
  BY <1>1, Invariance, PTL

\* createLiquidation submits exactly the declarations that have a liquidation, once it has
\* finished, and what they were submitted with stays, but for the histories of
\* SubmissionHolds: an addition under way, and a liquidation that died before its end.
THEOREM SubmissionKept == Spec => []SubmissionHolds
<1>1. ASSUME IInv PROVE SubmissionHolds
  <2>1. \A d : Working("liquidate", d) = {} => \A h \in Handlers : ~Submitting(h, d)
    <3>1. \A h \in Handlers : pc[h] = "saveSubmitted" => ctx[h].op = "liquidate"
      BY <1>1 DEF IInv, HeldInv, Held, CustomsHeld
    <3> QED
      BY <3>1 DEF Working, Serving, Submitting
  <2> QED
    BY <1>1, <2>1 DEF IInv, CustomsInv, SubmissionInv, SubmissionHolds
<1> QED
  BY <1>1, Invariance, PTL

\* The three inserts of a creation, reference, items and mirror, agree in the end: a case
\* lists exactly the references it was given, but for those whose creation died on the way.
THEOREM MirrorFollows == Spec => []MirrorFollowsReference
<1>1. ASSUME IInv PROVE MirrorFollowsReference
  <2>1. \A r : Handed(r) => BeingCreated(r)
    <3>1. \A h \in Handlers : pc[h] \in SiduneaCalls => ctx[h].op = "createReference"
      BY <1>1 DEF IInv, HeldInv, Held, SiduneaHeld, SiduneaContext
    <3> QED
      BY <3>1 DEF Handed, InHand, BeingCreated, Serving, SiduneaCalls
  <2> QED
    BY <1>1, <2>1 DEF IInv, SiduneaInv, MirrorsInv, MirrorFollowsReference
<1> QED
  BY <1>1, Invariance, PTL

\* The whole-row saves of addDiscrepancyItem and reconcileMatrix never count a difference
\* that is not there; and while none of them overwrote another, and no addition died half
\* way, the matrix counts them all and is not reconciled over an unresolved one.
THEOREM MatrixCounts == Spec => []MatrixFollowsItems
<1>1. ASSUME IInv PROVE MatrixFollowsItems
  <2>1. DOMAIN differences = 1..Len(differences) /\ Len(differences) \in Nat
    BY <1>1, LenProperties DEF IInv, TypeOK, DiscrepancyTypeOK
  <2>2. matrix.total \in Nat
    BY <1>1 DEF IInv, TypeOK, DiscrepancyTypeOK, MatrixRow, NoMatrix, DiscrepanciesAssumption
  <2>3. ASSUME ~stale, ~tornAdd
        PROVE  /\ matrix.total + Cardinality(Adding) = Len(differences)
               /\ matrix.status = "reconciled" /\ Adding = {} =>
                    \A i \in DOMAIN differences : differences[i]
    <3>1. matrix.total + Cardinality(Adding) = Len(differences)
      BY <1>1, <2>3 DEF IInv, DiscrepancyInv
    <3>2. Adding = {} => matrix.total = Len(differences)
      BY <2>2, <3>1, FS_EmptySet
    <3> QED
      BY <1>1, <2>1, <3>1, <3>2 DEF IInv, DiscrepancyInv
  <2> QED
    BY <1>1, <2>3 DEF IInv, DiscrepancyInv, MatrixFollowsItems
<1> QED
  BY <1>1, Invariance, PTL
=============================================================================

------------------------------ MODULE Customs -------------------------------
(***************************************************************************)
(* CustomsService on the declarations of the case of CaseFile: licenses,   *)
(* declarations with their items and regime, and the liquidation that      *)
(* submits them.  createDeclaration reads the parties that CasesService    *)
(* writes.                                                                 *)
(*                                                                         *)
(* A request on a declaration that is neither its agent's nor an           *)
(* administrator's is refused before it reads anything else, and is left   *)
(* out.                                                                    *)
(***************************************************************************)
EXTENDS CaseFile

CONSTANTS
  Admin,             \* the partner of an administrator
  MaxDeclarations,   \* ids agd_customs_declaration can give out
  MaxItems           \* most items of a declaration

ASSUME CustomsAssumption ==
  Admin \in Partners /\ MaxDeclarations \in Nat /\ MaxItems \in Nat

VARIABLES
  licenses,      \* partners with an agd_customs_license row; always in status ACTIVE
  declarations,  \* agd_customs_declaration rows, with the number of their items
  regimes,       \* declarations with a regime assignment; UNIQUE declaration
  liquidations,  \* declarations with a tax liquidation; UNIQUE declaration
  late,          \* history: declarations submitted while an item was being added
  halfLiquidated \* history: declarations whose liquidation died before they were saved

customsRows == <<licenses, declarations, regimes, liquidations>>
customsVars == <<customsRows, late, halfLiquidated>>

Declarations   == 1..MaxDeclarations
DeclarationRow == [agent  : Partners,
                   status : {"draft", "submitted"},
                   items  : 0..MaxItems,
                   listed : 0..MaxItems]   \* not a column: items when it was submitted

CustomsCalls == {"saveLicense", "findAgent", "saveDeclaration", "saveDeclarationItem",
                 "saveRegime", "findLiquidation", "saveLiquidation", "saveSubmitted"}
CustomsContext ==
  [op : {"verifyLicense", "declare"}, partner : Partners] \cup
  [op : {"addItem", "assignRegime"}, declaration : Declarations] \cup
  [op : {"liquidate"}, declaration : Declarations, found : BOOLEAN]

CustomsTypeOK ==
  /\ licenses \subseteq Partners
  /\ declarations \in Seq(DeclarationRow) /\ Len(declarations) <= MaxDeclarations
  /\ regimes \subseteq DOMAIN declarations /\ liquidations \subseteq DOMAIN declarations
  /\ late \subseteq Declarations /\ halfLiquidated \subseteq Declarations

CustomsInit ==
  /\ licenses = {} /\ declarations = <<>> /\ regimes = {} /\ liquidations = {}
  /\ late = {} /\ halfLiquidated = {}

-----------------------------------------------------------------------------
CustomsThrow(h) == Leave(h) /\ UNCHANGED customsVars

\* Handlers that serve op on declaration d.
Working(op, d) == {h \in Serving(op) : ctx[h].declaration = d}

-----------------------------------------------------------------------------
(***************************************************************************)
(* verifyLicense, createDeclaration                                        *)
(***************************************************************************)
\* A license that is found is saved again, in the status it already has.
VerifyLicense(h, partner) ==
  /\ partner \notin licenses
  /\ Begin(h, "saveLicense", [op |-> "verifyLicense", partner |-> partner])
  /\ UNCHANGED customsVars

SaveLicense(h) ==
  /\ pc[h] = "saveLicense"
  /\ ctx[h].partner \notin licenses
  /\ licenses' = licenses \cup {ctx[h].partner}
  /\ Leave(h)
  /\ UNCHANGED <<declarations, regimes, liquidations, late, halfLiquidated>>

LicenseTaken(h) == pc[h] = "saveLicense" /\ ctx[h].partner \in licenses /\ CustomsThrow(h)

\* assertActiveLicense; an administrator needs neither license nor role.
CreateDeclaration(h, partner) ==
  /\ partner = Admin \/ partner \in licenses
  /\ Begin(h, IF partner = Admin THEN "saveDeclaration" ELSE "findAgent",
           [op |-> "declare", partner |-> partner])
  /\ UNCHANGED customsVars

\* Mutant of IsAgentOfCase: any role in the case will do.
IsPartyOfCase(partner) == \E role \in Roles : <<partner, role>> \in parties

IsAgentOfCase(partner) == <<partner, "agent">> \in parties

FindAgent(h) ==
  /\ pc[h] = "findAgent"
  /\ IsAgentOfCase(ctx[h].partner)
  /\ Goto(h, "saveDeclaration")
  /\ UNCHANGED <<ctx, customsVars>>

NotAgent(h) == pc[h] = "findAgent" /\ ~IsAgentOfCase(ctx[h].partner) /\ CustomsThrow(h)

SaveDeclaration(h) ==
  /\ pc[h] = "saveDeclaration"
  /\ Len(declarations) < MaxDeclarations
  /\ declarations' = Append(declarations, [agent |-> ctx[h].partner, status |-> "draft",
                                           items |-> 0, listed |-> 0])
  /\ Leave(h)
  /\ UNCHANGED <<licenses, regimes, liquidations, late, halfLiquidated>>

\* Bound: an insert into agd_customs_declaration after its last id throws.
DeclarationIdsUsedUp(h) ==
  pc[h] = "saveDeclaration" /\ Len(declarations) = MaxDeclarations /\ CustomsThrow(h)

-----------------------------------------------------------------------------
(***************************************************************************)
(* addItem, assignRegime                                                   *)
(***************************************************************************)
\* Mutant of AddItem: items are taken whatever the status.
AddItemAnyway(h, d) ==
  /\ Begin(h, "saveDeclarationItem", [op |-> "addItem", declaration |-> d])
  /\ UNCHANGED customsVars

AddItem(h, d) ==
  /\ declarations[d].status = "draft"
  /\ Begin(h, "saveDeclarationItem", [op |-> "addItem", declaration |-> d])
  /\ UNCHANGED customsVars

\* Bound: a declaration takes MaxItems items; the insert does not look at its status again.
SaveDeclarationItem(h) ==
  /\ pc[h] = "saveDeclarationItem"
  /\ declarations[ctx[h].declaration].items < MaxItems
  /\ declarations' = [declarations EXCEPT ![ctx[h].declaration].items = @ + 1]
  /\ Leave(h)
  /\ UNCHANGED <<licenses, regimes, liquidations, late, halfLiquidated>>

ItemsUsedUp(h) ==
  /\ pc[h] = "saveDeclarationItem" /\ declarations[ctx[h].declaration].items = MaxItems
  /\ CustomsThrow(h)

\* An assignment that is found is overwritten.
AssignRegime(h, d) ==
  /\ d \notin regimes
  /\ Begin(h, "saveRegime", [op |-> "assignRegime", declaration |-> d])
  /\ UNCHANGED customsVars

SaveRegime(h) ==
  /\ pc[h] = "saveRegime"
  /\ ctx[h].declaration \notin regimes
  /\ regimes' = regimes \cup {ctx[h].declaration}
  /\ Leave(h)
  /\ UNCHANGED <<licenses, declarations, liquidations, late, halfLiquidated>>

RegimeTaken(h) == pc[h] = "saveRegime" /\ ctx[h].declaration \in regimes /\ CustomsThrow(h)

-----------------------------------------------------------------------------
(***************************************************************************)
(* createLiquidation                                                       *)
(***************************************************************************)
\* The declaration, whatever its status and its items.
CreateLiquidation(h, d) ==
  /\ Begin(h, "findLiquidation", [op |-> "liquidate", declaration |-> d, found |-> FALSE])
  /\ UNCHANGED customsVars

FindLiquidation(h) ==
  /\ pc[h] = "findLiquidation"
  /\ Keep(h, [ctx[h] EXCEPT !.found = ctx[h].declaration \in liquidations])
  /\ Goto(h, "saveLiquidation")
  /\ UNCHANGED customsVars

\* The one found with its new amounts, or a new one.
SaveLiquidation(h) ==
  /\ pc[h] = "saveLiquidation"
  /\ ctx[h].found \/ ctx[h].declaration \notin liquidations
  /\ liquidations' = liquidations \cup {ctx[h].declaration}
  /\ Goto(h, "saveSubmitted")
  /\ UNCHANGED <<ctx, licenses, declarations, regimes, late, halfLiquidated>>

LiquidationTaken(h) ==
  /\ pc[h] = "saveLiquidation" /\ ~ctx[h].found /\ ctx[h].declaration \in liquidations
  /\ CustomsThrow(h)

SaveSubmitted(h) ==
  LET d == ctx[h].declaration
  IN /\ pc[h] = "saveSubmitted"
     /\ declarations' = [declarations EXCEPT ![d].status = "submitted",
                           ![d].listed = IF declarations[d].status = "draft"
                                         THEN declarations[d].items ELSE @]
     /\ late' = IF Working("addItem", d) = {} THEN late ELSE late \cup {d}
     /\ halfLiquidated' = halfLiquidated \ {d}
     /\ Leave(h)
     /\ UNCHANGED <<licenses, regimes, liquidations>>

-----------------------------------------------------------------------------
CustomsContinue(h) ==
  \/ SaveLicense(h) \/ LicenseTaken(h) \/ FindAgent(h) \/ NotAgent(h)
  \/ SaveDeclaration(h) \/ DeclarationIdsUsedUp(h) \/ SaveDeclarationItem(h) \/ ItemsUsedUp(h)
  \/ SaveRegime(h) \/ RegimeTaken(h) \/ FindLiquidation(h) \/ SaveLiquidation(h)
  \/ LiquidationTaken(h) \/ SaveSubmitted(h)

CustomsStart(h) ==
  \/ \E partner \in Partners : VerifyLicense(h, partner) \/ CreateDeclaration(h, partner)
  \/ \E d \in DOMAIN declarations : AddItem(h, d) \/ AssignRegime(h, d) \/ CreateLiquidation(h, d)

CustomsFail(h) ==
  /\ MayFail /\ pc[h] \in CustomsCalls
  /\ Leave(h)
  /\ halfLiquidated' = IF pc[h] = "saveSubmitted"
                       THEN halfLiquidated \cup {ctx[h].declaration} ELSE halfLiquidated
  /\ UNCHANGED <<customsRows, late>>

-----------------------------------------------------------------------------
(***************************************************************************)
(* Properties                                                              *)
(***************************************************************************)
\* src/README.md, Fase 6, the rule in two layers: whoever made a declaration has a license
\* and is registered as an agent of the case, or is an administrator.
DeclaredByAgentOfCase ==
  \A d \in DOMAIN declarations :
    LET agent == declarations[d].agent
    IN agent = Admin \/ (agent \in licenses /\ <<agent, "agent">> \in parties)

\* src/README.md, Fase 6: the liquidation submits the declaration.  None is submitted
\* without one; one with a liquidation is submitted once nobody is liquidating it, unless
\* that died half way and was not repeated; and a submitted one keeps the items it was
\* submitted with, unless one was being added at that moment.
SubmissionHolds ==
  \A d \in DOMAIN declarations :
    /\ declarations[d].status = "submitted" => d \in liquidations
    /\ d \in liquidations /\ Working("liquidate", d) = {} /\ d \notin halfLiquidated =>
         declarations[d].status = "submitted"
    /\ declarations[d].status = "submitted" /\ d \notin late =>
         declarations[d].items = declarations[d].listed
=============================================================================

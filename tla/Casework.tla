------------------------------ MODULE Casework ------------------------------
(***************************************************************************)
(* The work on a case: the case file with its documents, the declarations, *)
(* the references of SIDUNEA, and the discrepancies.                       *)
(*                                                                         *)
(* A behaviour is watched at one desk: the requests it serves.  Only the   *)
(* declarations read what another desk writes, the parties of the case, so *)
(* the customs desk works on a case that is made and adds parties to it.   *)
(***************************************************************************)
EXTENDS CaseFile, Customs, Sidunea, Discrepancies

CONSTANT Desks   \* the desks that are watched

ASSUME CaseworkAssumption == Desks \subseteq {"file", "customs", "sidunea", "discrepancies"}

VARIABLE desk   \* the desk of this behaviour

vars == <<desk, pc, ctx, caseVars, customsVars, siduneaVars, discrepancyVars>>

TypeOK ==
  /\ desk \in Desks
  /\ pc \in [Handlers -> {"idle"} \cup CaseCalls \cup CustomsCalls \cup SiduneaCalls
                           \cup DiscrepancyCalls]
  /\ ctx \in [Handlers -> {NoContext} \cup CaseContext \cup CustomsContext
                            \cup SiduneaContext \cup DiscrepancyContext]
  /\ CaseTypeOK /\ CustomsTypeOK /\ SiduneaTypeOK /\ DiscrepancyTypeOK

Init ==
  /\ desk \in Desks
  /\ RequestsInit
  /\ IF desk = "customs" THEN CaseMade ELSE CaseInit
  /\ CustomsInit /\ SiduneaInit /\ DiscrepancyInit

-----------------------------------------------------------------------------
AtFile(h) ==
  /\ desk = "file"
  /\ CreateCase(h) \/ CaseStart(h)
  /\ UNCHANGED <<desk, customsVars, siduneaVars, discrepancyVars>>

AtParties(h) ==
  /\ desk \in {"file", "customs"}
  /\ \E party \in Party : AddParty(h, party)
  /\ UNCHANGED <<desk, customsVars, siduneaVars, discrepancyVars>>

AtCustoms(h) ==
  /\ desk = "customs"
  /\ CustomsStart(h)
  /\ UNCHANGED <<desk, caseVars, siduneaVars, discrepancyVars>>

AtSidunea(h) ==
  /\ desk = "sidunea"
  /\ SiduneaStart(h)
  /\ UNCHANGED <<desk, caseVars, customsVars, discrepancyVars>>

AtDiscrepancies(h) ==
  /\ desk = "discrepancies"
  /\ DiscrepancyStart(h)
  /\ UNCHANGED <<desk, caseVars, customsVars, siduneaVars>>

CaseStep(h) ==
  /\ CaseContinue(h) \/ CaseFail(h)
  /\ UNCHANGED <<desk, customsVars, siduneaVars, discrepancyVars>>

CustomsStep(h) ==
  /\ CustomsContinue(h) \/ CustomsFail(h)
  /\ UNCHANGED <<desk, caseVars, siduneaVars, discrepancyVars>>

SiduneaStep(h) ==
  /\ SiduneaContinue(h) \/ SiduneaFail(h)
  /\ UNCHANGED <<desk, caseVars, customsVars, discrepancyVars>>

DiscrepancyStep(h) ==
  /\ DiscrepancyContinue(h) \/ DiscrepancyFail(h)
  /\ UNCHANGED <<desk, caseVars, customsVars, siduneaVars>>

Next ==
  \E h \in Handlers :
    \/ AtFile(h) \/ AtParties(h) \/ AtCustoms(h) \/ AtSidunea(h) \/ AtDiscrepancies(h)
    \/ CaseStep(h) \/ CustomsStep(h) \/ SiduneaStep(h) \/ DiscrepancyStep(h)

Spec == Init /\ [][Next]_vars
=============================================================================

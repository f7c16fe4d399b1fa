------------------------------ MODULE CaseFile ------------------------------
(***************************************************************************)
(* CasesService and DocumentsService: one case file, from its creation to  *)
(* its closing, with its parties, its semaphore, the checklist of          *)
(* documents that its profile asks for, and the documents themselves.      *)
(*                                                                         *)
(* Every repository call that others can observe is an action.  save()     *)
(* writes the whole row, but no row here has two columns that different    *)
(* operations change, so a stale row never undoes another's work.          *)
(***************************************************************************)
EXTENDS Naturals, Sequences, Requests

CONSTANTS
  Partners,      \* res_partner rows
  Owner,         \* the partner that the case is created for
  Requirements,  \* catalogue of document requirements
  Required,      \* those that the profile of the case asks for
  Mandatory,     \* those that are mandatory
  MaxDocuments   \* ids documents_document can give out

ASSUME CaseFileAssumption ==
  /\ Owner \in Partners
  /\ Required \subseteq Requirements /\ Mandatory \subseteq Requirements
  /\ MaxDocuments \in Nat

VARIABLES
  case,       \* status of the agd_case row, "none" before it is there
  parties,    \* agd_case_party rows; (case, partner, role) is UNIQUE
  semaphore,  \* color of the agd_case_semaphore row
  checklist,  \* agd_document_checklist row of each requirement
  documents,  \* review status of each document
  early       \* history: the checklist was found complete before it was seeded

caseRows == <<case, parties, semaphore, checklist, documents>>
caseVars == <<caseRows, early>>

Roles  == {"owner", "agent"}   \* bound: the other roles are never read
Colors == {"green", "red"}
Party  == Partners \X Roles
\* "none": no row; "unfiled": no agd_document_status row.
ItemStatuses     == {"none", "pending", "fulfilled"}
Reviews          == {"approved", "rejected"}
DocumentStatuses == {"unfiled", "submitted"} \cup Reviews

CaseCalls == {"saveCase", "saveParty", "saveSemaphore", "seedChecklist", "saveColor",
              "findChecklist", "saveClosed", "saveDocument", "saveStatus", "saveReview",
              "saveItem"}
CaseContext ==
  [op : {"createCase", "addParty"}, party : Party] \cup
  [op : {"updateSemaphore"}, color : Colors] \cup
  [op : {"closeCase"}] \cup
  [op : {"upload"}, document : 0..MaxDocuments] \cup
  [op : {"review"}, document : 1..MaxDocuments, status : Reviews] \cup
  [op : {"fulfill"}, requirement : Requirements]

CaseTypeOK ==
  /\ case \in {"none", "open", "closed"}
  /\ parties \subseteq Party
  /\ semaphore \in {"none"} \cup Colors
  /\ checklist \in [Requirements -> ItemStatuses]
  /\ documents \in Seq(DocumentStatuses)
  /\ Len(documents) <= MaxDocuments
  /\ early \in BOOLEAN

CaseInit ==
  /\ case = "none" /\ parties = {} /\ semaphore = "none"
  /\ checklist = [r \in Requirements |-> "none"]
  /\ documents = <<>> /\ early = FALSE

\* The rows of a case that createCase has made.
CaseMade ==
  /\ case = "open" /\ parties = {<<Owner, "owner">>} /\ semaphore = "green"
  /\ checklist = [r \in Requirements |-> IF r \in Required THEN "pending" ELSE "none"]
  /\ documents = <<>> /\ early = FALSE

-----------------------------------------------------------------------------
\* The handler throws or dies: nothing is undone.
CaseThrow(h) == Leave(h) /\ UNCHANGED caseVars

-----------------------------------------------------------------------------
(***************************************************************************)
(* createCase                                                              *)
(***************************************************************************)
\* The code from the sequence.  Bound: one case.
CreateCase(h) ==
  /\ case = "none" /\ Serving("createCase") = {}
  /\ Begin(h, "saveCase", [op |-> "createCase", party |-> <<Owner, "owner">>])
  /\ UNCHANGED caseVars

SaveCase(h) ==
  /\ pc[h] = "saveCase"
  /\ case' = "open"
  /\ Goto(h, "saveParty")
  /\ UNCHANGED <<ctx, parties, semaphore, checklist, documents, early>>

\* The owner of a new case, or the party that addParty did not find.
SaveParty(h) ==
  /\ pc[h] = "saveParty"
  /\ ctx[h].party \notin parties
  /\ parties' = parties \cup {ctx[h].party}
  /\ IF ctx[h].op = "createCase" THEN Goto(h, "saveSemaphore") /\ UNCHANGED ctx ELSE Leave(h)
  /\ UNCHANGED <<case, semaphore, checklist, documents, early>>

PartyTaken(h) == pc[h] = "saveParty" /\ ctx[h].party \in parties /\ CaseThrow(h)

SaveSemaphore(h) ==
  /\ pc[h] = "saveSemaphore"
  /\ semaphore' = "green"
  /\ Goto(h, "seedChecklist")
  /\ UNCHANGED <<ctx, case, parties, checklist, documents, early>>

\* getRequirementCodesForGroup and seedChecklist: one save() of all the rows.
SeedChecklist(h) ==
  /\ pc[h] = "seedChecklist"
  /\ checklist' = [r \in Requirements |-> IF r \in Required THEN "pending" ELSE checklist[r]]
  /\ Leave(h)
  /\ UNCHANGED <<case, parties, semaphore, documents, early>>

-----------------------------------------------------------------------------
(***************************************************************************)
(* addParty, updateSemaphore, closeCase                                    *)
(***************************************************************************)
\* A party that is found is the answer and changes nothing.
AddParty(h, party) ==
  /\ case # "none" /\ party \notin parties
  /\ Begin(h, "saveParty", [op |-> "addParty", party |-> party])
  /\ UNCHANGED caseVars

UpdateSemaphore(h, color) ==
  /\ semaphore # "none"
  /\ Begin(h, "saveColor", [op |-> "updateSemaphore", color |-> color])
  /\ UNCHANGED caseVars

SaveColor(h) ==
  /\ pc[h] = "saveColor"
  /\ semaphore' = ctx[h].color
  /\ Leave(h)
  /\ UNCHANGED <<case, parties, checklist, documents, early>>

CloseCase(h) ==
  /\ case = "open"
  /\ Begin(h, "findChecklist", [op |-> "closeCase"])
  /\ UNCHANGED caseVars

Pending == {r \in Mandatory : checklist[r] = "pending"}
Seeded  == \A r \in Required : checklist[r] # "none"

\* Mutant of NothingPending: one mandatory document is enough.
SomethingFulfilled == Pending = {} \/ \E r \in Mandatory : checklist[r] = "fulfilled"

NothingPending == Pending = {}

FindChecklist(h) ==
  /\ pc[h] = "findChecklist"
  /\ NothingPending
  /\ Goto(h, "saveClosed")
  /\ early' = (early \/ ~Seeded)
  /\ UNCHANGED <<ctx, caseRows>>

DocumentsMissing(h) == pc[h] = "findChecklist" /\ ~NothingPending /\ CaseThrow(h)

SaveClosed(h) ==
  /\ pc[h] = "saveClosed"
  /\ case' = "closed"
  /\ Leave(h)
  /\ UNCHANGED <<parties, semaphore, checklist, documents, early>>

-----------------------------------------------------------------------------
(***************************************************************************)
(* Documents                                                               *)
(***************************************************************************)
\* The attachment, which nothing reads back.
Upload(h) ==
  /\ Begin(h, "saveDocument", [op |-> "upload", document |-> 0])
  /\ UNCHANGED caseVars

SaveDocument(h) ==
  /\ pc[h] = "saveDocument"
  /\ Len(documents) < MaxDocuments
  /\ documents' = Append(documents, "unfiled")
  /\ Keep(h, [ctx[h] EXCEPT !.document = Len(documents) + 1])
  /\ Goto(h, "saveStatus")
  /\ UNCHANGED <<case, parties, semaphore, checklist, early>>

\* Bound: an insert into documents_document after its last id throws.
DocumentIdsUsedUp(h) ==
  pc[h] = "saveDocument" /\ Len(documents) = MaxDocuments /\ CaseThrow(h)

\* The agd_document_status row.
SaveStatus(h) ==
  /\ pc[h] = "saveStatus"
  /\ documents' = [documents EXCEPT ![ctx[h].document] = "submitted"]
  /\ Leave(h)
  /\ UNCHANGED <<case, parties, semaphore, checklist, early>>

\* A document without its status row is not found; one that was reviewed may be again.
ReviewDocument(h, d, status) ==
  /\ documents[d] # "unfiled"
  /\ Begin(h, "saveReview", [op |-> "review", document |-> d, status |-> status])
  /\ UNCHANGED caseVars

SaveReview(h) ==
  /\ pc[h] = "saveReview"
  /\ documents' = [documents EXCEPT ![ctx[h].document] = ctx[h].status]
  /\ Leave(h)
  /\ UNCHANGED <<case, parties, semaphore, checklist, early>>

\* Any document will do, whatever its review says, and a fulfilled item may be again.
FulfillChecklistItem(h, r) ==
  /\ checklist[r] # "none" /\ documents # <<>>
  /\ Begin(h, "saveItem", [op |-> "fulfill", requirement |-> r])
  /\ UNCHANGED caseVars

SaveItem(h) ==
  /\ pc[h] = "saveItem"
  /\ checklist' = [checklist EXCEPT ![ctx[h].requirement] = "fulfilled"]
  /\ Leave(h)
  /\ UNCHANGED <<case, parties, semaphore, documents, early>>

-----------------------------------------------------------------------------
CaseContinue(h) ==
  \/ SaveCase(h) \/ SaveParty(h) \/ PartyTaken(h) \/ SaveSemaphore(h) \/ SeedChecklist(h)
  \/ SaveColor(h) \/ FindChecklist(h) \/ DocumentsMissing(h) \/ SaveClosed(h)
  \/ SaveDocument(h) \/ DocumentIdsUsedUp(h) \/ SaveStatus(h) \/ SaveReview(h) \/ SaveItem(h)

CaseStart(h) ==
  \/ CloseCase(h) \/ Upload(h)
  \/ \E color \in Colors : UpdateSemaphore(h, color)
  \/ \E d \in DOMAIN documents, status \in Reviews :
       ReviewDocument(h, d, status)
  \/ \E r \in Requirements : FulfillChecklistItem(h, r)

CaseFail(h) == MayFail /\ pc[h] \in CaseCalls /\ CaseThrow(h)

-----------------------------------------------------------------------------
(***************************************************************************)
(* Properties                                                              *)
(***************************************************************************)
\* closeCase, "exige que todo el checklist obligatorio esté cumplido": a closed case has
\* every mandatory document of its profile, whoever worked on the checklist at the time,
\* unless it was closed before createCase had seeded the checklist, or after it had died
\* on the way there.
ClosedIsCompleteUnlessEarly ==
  case = "closed" /\ ~early => \A r \in Required \cap Mandatory : checklist[r] = "fulfilled"
=============================================================================

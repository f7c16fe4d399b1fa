-------------------------- MODULE EnablementProofs --------------------------
(***************************************************************************)
(* Safety of Enablement, for any number of handlers, applicants and        *)
(* requests: the steps of a request, its account and its profile, the      *)
(* right to log in, and who takes a request on.                            *)
(*                                                                         *)
(* No row says what a handler has done before it saves its request, so the *)
(* invariant says what each call may count on (HeldInv): that the row the  *)
(* handler holds was in review, at the step of this call, and what has     *)
(* been saved for its applicant.  A save from a current copy then keeps    *)
(* every property, and a save from a stale copy puts its request into      *)
(* raced.                                                                  *)
(***************************************************************************)
EXTENDS Enablement, TLAPS
-----------------------------------------------------------------------------
(***************************************************************************)
(* The inductive invariant                                                 *)
(***************************************************************************)
Passwords   == {"findUser", "markPassword", "saveSynced"}
Reviews     == {"findStep", "saveStep", "saveRejected", "saveApproved"}
Creations   == {"saveAccount", "saveUserGroup", "saveAccountRef"}
Trainings   == {"findTraining", "saveTraining", "markTraining", "saveTrained"}
Activations == {"activateUser", "saveActive"}

\* The calls of a handler that has read its request and may still save it.
Savers == Passwords \cup Reviews \cup Creations \cup Trainings \cup Activations

Registering(h, a) == ctx[h].op = "register" /\ ctx[h].applicant = a

\* The request and the step of the row that a handler holds.
HoldsRow(h) ==
  /\ pc[h] \in Savers \cup {"saveSteps", "markAccount", "markActivation"} =>
       ctx[h].request \in RequestIds
  /\ pc[h] \in Savers =>
       /\ ctx[h].row.applicant = requests[ctx[h].request].applicant
       /\ ctx[h].row.status = "in_review"
  /\ pc[h] \in Passwords => ctx[h].op \in {"get", "training"} /\ AtPassword(ctx[h].row)
  /\ pc[h] \in Reviews => ctx[h].op \in {"approve", "reject"} /\ ctx[h].row.step \in 2..5
  /\ pc[h] = "saveApproved" => ctx[h].op = "approve"
  /\ pc[h] \in Creations => ctx[h].row.step = 6
  /\ pc[h] \in Trainings => ctx[h].row.user /\ ctx[h].row.step = 8
  /\ pc[h] \in Activations => ctx[h].row.user /\ ctx[h].row.step = 9

\* What has been saved for the applicant of the row before the handler came this far.
HoldsAccount(h) ==
  LET a == ctx[h].row.applicant
  IN /\ pc[h] \in Savers /\ ctx[h].row.user => accounts[a].exists /\ a \in groups
     /\ pc[h] \in {"saveUserGroup", "saveAccountRef"} => accounts[a].exists
     /\ pc[h] = "saveAccountRef" => a \in groups
     /\ pc[h] \in Activations \cup {"markTraining", "saveTrained"} => a \in training

\* A handler that registers an applicant, one that works on an account, an idle one.
HoldsApplicant(h) ==
  /\ pc[h] = "idle" => ctx[h] = NoContext
  /\ ctx[h].op = "register" <=> pc[h] \in {"savePartner", "saveRequest", "saveSteps"}
  /\ pc[h] \in {"savePartner", "saveRequest", "saveUser"} =>
       ctx[h].applicant \in Applicants /\ ctx[h].request = None
  /\ pc[h] = "saveRequest" => ctx[h].applicant \in partners
  /\ pc[h] = "saveUser" =>
       /\ ctx[h].account.exists /\ accounts[ctx[h].applicant].exists
       /\ ctx[h].account.active => ctx[h].applicant \in training \cup unblocked

HeldInv == \A h \in Handlers : HoldsRow(h) /\ HoldsAccount(h) /\ HoldsApplicant(h)

\* A request has the partner it was made for; one that refers to a user has an account
\* with its profile.
RequestInv ==
  \A r \in RequestIds :
    LET a == requests[r].applicant
    IN /\ a \in partners
       /\ requests[r].user => accounts[a].exists /\ a \in groups

\* Until its step rows are there, the first one DONE, a request stays at its first step,
\* and whoever else reads it finds no row.
StepRowsInv ==
  /\ \A r \in Requests : steps[r] = {} \/ 1 \in steps[r]
  /\ \A r \in Requests \ RequestIds : steps[r] = {}
  /\ \A r \in Requests : steps[r] = {} =>
       /\ requests[r].step = 2 /\ requests[r].status = "in_review"
       /\ \A h \in Handlers : ctx[h].request = r => pc[h] \in {"saveSteps", "findStep"}
  /\ \A h \in Handlers : pc[h] = "saveSteps" => steps[ctx[h].request] = {}
  /\ \A g, h \in Handlers :
       pc[g] = "saveSteps" /\ pc[h] = "saveSteps" /\ ctx[g].request = ctx[h].request => g = h

\* The step that a save is about to leave behind is DONE.
LeftBehind(h) ==
  LET mine == steps[ctx[h].request]
  IN /\ pc[h] = "saveApproved" => ctx[h].row.step \in mine
     /\ pc[h] = "saveSynced" => 7 \in mine
     /\ pc[h] = "saveTrained" => 8 \in mine

ProgressInv ==
  /\ StepsBackProgress
  /\ \A h \in Handlers : ctx[h].request \notin raced => LeftBehind(h)

At(h, r, calls) == pc[h] \in calls /\ ctx[h].request = r

\* NoOrphanAccount, with the calls between the insert of the account and the reference.
ReachableInv ==
  \A a \in Applicants :
    accounts[a].exists =>
      \E r \in RequestOf(a) :
        \/ requests[r].user
        \/ r \in raced \cup torn
        \/ \E h \in Handlers : At(h, r, {"saveUserGroup", "saveAccountRef"})

\* WaitsForSomebody, step by step.
WaitingInv ==
  \A r \in RequestIds \ (raced \cup torn) :
    requests[r].status = "in_review" =>
      /\ requests[r].step \in 2..5 =>
           steps[r] # {} \/ \E h \in Handlers : At(h, r, {"saveSteps"})
      /\ requests[r].step = 6 => \E h \in Handlers : At(h, r, Creations)
      /\ requests[r].step \in {7, 8} => requests[r].user
      /\ requests[r].step = 9 => \E h \in Handlers : At(h, r, Activations)

\* Of an applicant that is registered once at a time: who is about to insert a request
\* has found none in review, and there is none yet.
RegistrationInv ==
  /\ \A a \in Applicants \ doubled : \A g, h \in Handlers :
       Registering(g, a) /\ Registering(h, a) => g = h
  /\ \A h \in Handlers : pc[h] = "saveRequest" /\ ctx[h].applicant \notin doubled =>
       InReview(ctx[h].applicant) \subseteq raced
  /\ OneOpenRequestUnlessRaced

IInv ==
  /\ TypeOK /\ HeldInv /\ RequestInv /\ StepRowsInv
  /\ ProgressInv /\ ActiveIsEarned /\ OpenedByRight
  /\ ReachableInv /\ WaitingInv /\ RegistrationInv
-----------------------------------------------------------------------------
(***************************************************************************)
(* Steps, seen from the rows                                               *)
(***************************************************************************)
\* What handler h may do next.
Turn(h) == Start(h) \/ Continue(h) \/ Fail(h)

\* The row that handler h is about to save, and the request it saves it to.
Saves(h, row) ==
  \/ pc[h] = "saveSynced"     /\ row = [ctx[h].row EXCEPT !.step = 8]
  \/ pc[h] = "saveRejected"   /\ row = [ctx[h].row EXCEPT !.status = "rejected"]
  \/ pc[h] = "saveApproved"   /\ row = [ctx[h].row EXCEPT !.step = @ + 1]
  \/ pc[h] = "saveAccountRef" /\ row = [ctx[h].row EXCEPT !.user = TRUE, !.step = 7]
  \/ pc[h] = "saveTrained"    /\ row = [ctx[h].row EXCEPT !.step = 9]
  \/ pc[h] = "saveActive"     /\ row = [ctx[h].row EXCEPT !.status = "active"]

Inserts(h, r) ==
  /\ pc[h] = "saveRequest" /\ pc'[h] = "saveSteps"
  /\ r \in Requests \ RequestIds
  /\ requests' = [requests EXCEPT ![r] = [NoRow EXCEPT !.applicant = ctx[h].applicant]]
  /\ ctx'[h] = [ctx[h] EXCEPT !.request = r]
  /\ UNCHANGED <<raced, steps>>

Left(h) == pc'[h] = "idle" /\ ctx'[h] = NoContext

\* A handler starts to work on request r.
Reads(h, r) ==
  /\ pc[h] = "idle" /\ UNCHANGED <<rows, history>>
  /\ ctx'[h].request = r /\ ctx'[h].row = requests[r] /\ requests[r].status = "in_review"
  /\ \/ pc'[h] = "findStep" /\ requests[r].step \in 2..5
     \/ pc'[h] = "findUser" /\ AtPassword(requests[r])
     \/ pc'[h] = "findTraining" /\ requests[r].step = 8 /\ requests[r].user

\* A handler goes on with the request it works on.
GoesOn(h) ==
  /\ pc[h] \notin {"idle", "savePartner", "saveRequest", "saveSteps", "findStep", "saveUser"}
  /\ pc'[h] \notin {"saveSteps", "findStep"}
  /\ ctx'[h].request = ctx[h].request

LEMMA ContextTypes ==
  ASSUME TypeOK, NEW h \in Handlers
  PROVE  /\ pc[h] \in Calls /\ ctx[h] \in Context /\ ctx[h].row \in RequestRow
         /\ ctx[h].account \in Account /\ ctx[h].op \in {"none", "register", "get", "approve",
               "reject", "training"} \cup UserOps
         /\ ctx[h].applicant \in Applicants \cup {NoApplicant}
         /\ ctx[h].request \in Requests \cup {None}
         /\ \A call, c : Goto(h, call) => pc'[h] = call
         /\ \A c : Keep(h, c) => ctx'[h] = c
  BY DEF TypeOK, Context, Goto, Keep

LEMMA NoContextTypes ==
  /\ NoContext \in Context /\ NoRow \in RequestRow /\ NoAccount \in Account
  /\ NoRow.applicant = NoApplicant /\ NoRow.step = 2 /\ NoRow.status = "in_review"
  BY EnablementAssumption DEF NoContext, Context, NoRow, RequestRow, NoAccount, Account

\* A step moves its handler, and no other one.
LEMMA Went ==
  ASSUME TypeOK, NEW h \in Handlers, Turn(h)
  PROVE  /\ pc' = [pc EXCEPT ![h] = pc'[h]]
         /\ ctx' = [ctx EXCEPT ![h] = ctx'[h]]
<1>1. pc \in [Handlers -> Calls] /\ ctx \in [Handlers -> Context]
  BY DEF TypeOK
<1>2. (\E call : Goto(h, call)) \/ pc' = pc
  BY DEF Turn, Start, Register, Get, Review, AcceptTraining, ReadUser, Continue, SavePartner,
     PartnerTaken, SaveRequest, SaveSteps, FindUser, MarkPassword, SaveSynced, FindStep,
     SaveStep, SaveRejected, SaveApproved, SaveAccount, AccountTaken, SaveUserGroup,
     SaveAccountRef, MarkAccount, FindTraining, SaveTraining, TrainingTaken, MarkTraining,
     SaveTrained, ActivateUser, SaveActive, MarkActivation, SaveUser, IdsUsedUp, Fail,
     Throw, Leave
<1>3. (\E c : Keep(h, c)) \/ ctx' = ctx
  BY DEF Turn, Start, Register, Get, Review, AcceptTraining, ReadUser, Continue, SavePartner,
     PartnerTaken, SaveRequest, SaveSteps, FindUser, MarkPassword, SaveSynced, FindStep,
     SaveStep, SaveRejected, SaveApproved, SaveAccount, AccountTaken, SaveUserGroup,
     SaveAccountRef, MarkAccount, FindTraining, SaveTraining, TrainingTaken, MarkTraining,
     SaveTrained, ActivateUser, SaveActive, MarkActivation, SaveUser, IdsUsedUp, Fail,
     Throw, Leave
<1> QED
  BY <1>1, <1>2, <1>3 DEF Goto, Keep

LEMMA OthersWait ==
  ASSUME TypeOK, NEW h \in Handlers, Turn(h), NEW g \in Handlers \ {h}
  PROVE  pc'[g] = pc[g] /\ ctx'[g] = ctx[g]
  BY Went DEF TypeOK

\* What a step may do to the request table.
LEMMA RequestTurn ==
  ASSUME TypeOK, NEW h \in Handlers, Turn(h)
  PROVE  \/ UNCHANGED requests
         \/ \E r : Inserts(h, r)
         \/ UNCHANGED steps /\ \E row : Saves(h, row) /\ SaveRow(h, row)
<1>1. CASE SaveRequest(h)
  <2>1. PICK r \in Ids \ RequestIds :
          /\ requests' = [requests EXCEPT ![r] = [NoRow EXCEPT !.applicant = ctx[h].applicant]]
          /\ Keep(h, [ctx[h] EXCEPT !.request = r])
    BY <1>1 DEF SaveRequest
  <2>2. r \in Requests \ RequestIds
    BY EnablementAssumption DEF Ids, Requests
  <2>3. pc[h] = "saveRequest" /\ pc'[h] = "saveSteps" /\ UNCHANGED <<raced, steps>>
    BY <1>1, ContextTypes DEF SaveRequest, history
  <2>4. ctx'[h] = [ctx[h] EXCEPT !.request = r]
    BY <2>1, ContextTypes
  <2> QED BY <2>1, <2>2, <2>3, <2>4 DEF Inserts
<1>2. CASE SaveSynced(h)
  BY <1>2 DEF SaveSynced, Saves
<1>3. CASE SaveRejected(h)
  BY <1>3 DEF SaveRejected, Saves
<1>4. CASE SaveApproved(h)
  BY <1>4 DEF SaveApproved, Saves
<1>5. CASE SaveAccountRef(h)
  BY <1>5 DEF SaveAccountRef, Saves
<1>6. CASE SaveTrained(h)
  BY <1>6 DEF SaveTrained, Saves
<1>7. CASE SaveActive(h)
  BY <1>7 DEF SaveActive, Saves
<1>8. CASE \/ Start(h) \/ Fail(h) \/ SavePartner(h) \/ PartnerTaken(h) \/ SaveSteps(h)
           \/ FindUser(h) \/ MarkPassword(h) \/ FindStep(h) \/ SaveStep(h) \/ SaveAccount(h)
           \/ AccountTaken(h) \/ SaveUserGroup(h) \/ MarkAccount(h) \/ FindTraining(h)
           \/ SaveTraining(h) \/ TrainingTaken(h) \/ MarkTraining(h) \/ ActivateUser(h)
           \/ MarkActivation(h) \/ SaveUser(h) \/ IdsUsedUp(h)
  BY <1>8 DEF Start, Register, Get, Review, AcceptTraining, ReadUser, SavePartner, PartnerTaken,
     SaveSteps, FindUser, MarkPassword, FindStep, SaveStep, SaveAccount, AccountTaken,
     SaveUserGroup, MarkAccount, FindTraining, SaveTraining, TrainingTaken, MarkTraining,
     ActivateUser, MarkActivation, SaveUser, IdsUsedUp, Fail, Throw, rows
<1> QED
  BY <1>1, <1>2, <1>3, <1>4, <1>5, <1>6, <1>7, <1>8 DEF Turn, Continue

\* What a step may do to the rows of the steps: nothing, nine rows of which the first is
\* DONE, one row DONE, or a review.
LEMMA StepRowsTurn ==
  ASSUME TypeOK, NEW h \in Handlers, Turn(h)
  PROVE  \/ UNCHANGED steps
         \/ SaveSteps(h) \/ SaveStep(h)
         \/ /\ \E s \in {6, 7, 8, 9} : Mark(h, s)
            /\ pc[h] \in {"markPassword", "markAccount", "markTraining", "markActivation"}
            /\ UNCHANGED <<requests, raced>>
<1>1. CASE MarkPassword(h)
  BY <1>1 DEF MarkPassword, history
<1>2. CASE MarkAccount(h)
  BY <1>2 DEF MarkAccount, history
<1>3. CASE MarkTraining(h)
  BY <1>3 DEF MarkTraining, history
<1>4. CASE MarkActivation(h)
  BY <1>4 DEF MarkActivation, history
<1>5. CASE \/ Start(h) \/ Fail(h) \/ SavePartner(h) \/ PartnerTaken(h) \/ SaveRequest(h)
           \/ FindUser(h) \/ SaveSynced(h) \/ FindStep(h) \/ SaveRejected(h)
           \/ SaveApproved(h) \/ SaveAccount(h) \/ AccountTaken(h) \/ SaveUserGroup(h)
           \/ SaveAccountRef(h) \/ FindTraining(h) \/ SaveTraining(h) \/ TrainingTaken(h)
           \/ SaveTrained(h) \/ ActivateUser(h) \/ SaveActive(h) \/ SaveUser(h) \/ IdsUsedUp(h)
  BY <1>5 DEF Start, Register, Get, Review, AcceptTraining, ReadUser, SavePartner, PartnerTaken,
     SaveRequest, FindUser, SaveSynced, FindStep, SaveRejected, SaveApproved, SaveAccount,
     AccountTaken, SaveUserGroup, SaveAccountRef, FindTraining, SaveTraining, TrainingTaken,
     SaveTrained, ActivateUser, SaveActive, SaveUser, IdsUsedUp, Fail, Throw, rows
<1> QED
  BY <1>1, <1>2, <1>3, <1>4, <1>5 DEF Turn, Continue

\* What a step may do to the accounts.
LEMMA AccountTurn ==
  ASSUME TypeOK, NEW h \in Handlers, Turn(h)
  PROVE  UNCHANGED accounts \/ SaveAccount(h) \/ ActivateUser(h) \/ SaveUser(h)
  BY DEF Turn, Start, Register, Get, Review, AcceptTraining, ReadUser, Continue, SavePartner,
     PartnerTaken, SaveRequest, SaveSteps, FindUser, MarkPassword, SaveSynced, FindStep,
     SaveStep, SaveRejected, SaveApproved, AccountTaken, SaveUserGroup,
     SaveAccountRef, MarkAccount, FindTraining, SaveTraining, TrainingTaken, MarkTraining,
     SaveTrained, SaveActive, MarkActivation, IdsUsedUp, Fail,
     Throw, rows

\* What no step takes back.
LEMMA SetsGrow ==
  ASSUME TypeOK, NEW h \in Handlers, Turn(h)
  PROVE  /\ partners \subseteq partners' /\ groups \subseteq groups'
         /\ training \subseteq training' /\ unblocked \subseteq unblocked'
<1>1. partners \subseteq partners' /\ groups \subseteq groups'
  BY DEF Turn, Start, Register, Get, Review, AcceptTraining, ReadUser, Continue, SavePartner,
     PartnerTaken, SaveRequest, SaveSteps, FindUser, MarkPassword, SaveSynced, FindStep,
     SaveStep, SaveRejected, SaveApproved, SaveAccount, AccountTaken, SaveUserGroup,
     SaveAccountRef, MarkAccount, FindTraining, SaveTraining, TrainingTaken, MarkTraining,
     SaveTrained, ActivateUser, SaveActive, MarkActivation, SaveUser, IdsUsedUp, Fail,
     Throw, rows
<1>2. training \subseteq training' /\ unblocked \subseteq unblocked'
  BY DEF Turn, Start, Register, Get, Review, AcceptTraining, ReadUser, Continue, SavePartner,
     PartnerTaken, SaveRequest, SaveSteps, FindUser, MarkPassword, SaveSynced, FindStep,
     SaveStep, SaveRejected, SaveApproved, SaveAccount, AccountTaken, SaveUserGroup,
     SaveAccountRef, MarkAccount, FindTraining, SaveTraining, TrainingTaken, MarkTraining,
     SaveTrained, ActivateUser, SaveActive, MarkActivation, SaveUser, IdsUsedUp, Fail,
     Throw, rows, SaveRow, history
<1> QED
  BY <1>1, <1>2

LEMMA HistoryGrows ==
  ASSUME TypeOK, NEW h \in Handlers, Turn(h)
  PROVE  raced \subseteq raced' /\ doubled \subseteq doubled' /\ torn \subseteq torn'
  BY DEF Turn, Start, Register, Get, Review, AcceptTraining, ReadUser, Continue, SavePartner,
     PartnerTaken, SaveRequest, SaveSteps, FindUser, MarkPassword, SaveSynced, FindStep,
     SaveStep, SaveRejected, SaveApproved, SaveAccount, AccountTaken, SaveUserGroup,
     SaveAccountRef, MarkAccount, FindTraining, SaveTraining, TrainingTaken, MarkTraining,
     SaveTrained, ActivateUser, SaveActive, MarkActivation, SaveUser, IdsUsedUp, Fail,
     Throw, SaveRow, history

\* A row is saved to the request it was read from, for the same applicant.
LEMMA SaveFacts ==
  ASSUME TypeOK, HeldInv, NEW h \in Handlers, NEW row, Saves(h, row), SaveRow(h, row)
  PROVE  /\ pc[h] \in Savers /\ ctx[h].request \in RequestIds /\ ctx[h].request \in Requests
         /\ row \in RequestRow /\ row.applicant = ctx[h].row.applicant
         /\ row.applicant = requests[ctx[h].request].applicant
         /\ requests'[ctx[h].request] = row
         /\ \A r \in Requests \ {ctx[h].request} : requests'[r] = requests[r]
         /\ requests' \in [Requests -> RequestRow]
         /\ raced' = raced \/ raced' = raced \cup {ctx[h].request}
         /\ ctx[h].request \notin raced' => requests[ctx[h].request] = ctx[h].row
<1>1. pc[h] \in Savers
  BY DEF Saves, Savers, Passwords, Reviews, Creations, Trainings, Activations
<1>2. /\ ctx[h].request \in RequestIds /\ ctx[h].request \in Requests
      /\ ctx[h].row.applicant = requests[ctx[h].request].applicant
  BY <1>1 DEF HeldInv, HoldsRow, RequestIds
<1>3. ctx[h].row \in RequestRow
  BY ContextTypes
<1>4. row \in RequestRow /\ row.applicant = ctx[h].row.applicant
  <2>1. pc[h] = "saveApproved" => ctx[h].row.step \in 2..5
    BY DEF HeldInv, HoldsRow, Reviews
  <2> DEFINE old == ctx[h].row
  <2>2. /\ old.status \in {"in_review", "active", "rejected"} /\ old.step \in 2..9
        /\ old.user \in BOOLEAN /\ old.applicant \in Applicants \cup {NoApplicant}
    BY <1>3 DEF RequestRow
  <2>3. \A r \in RequestRow :
          /\ \A n \in 2..9 : /\ [r EXCEPT !.step = n] \in RequestRow
                             /\ [r EXCEPT !.step = n].applicant = r.applicant
                             /\ [r EXCEPT !.user = TRUE, !.step = n] \in RequestRow
                             /\ [r EXCEPT !.user = TRUE, !.step = n].applicant = r.applicant
          /\ \A status \in {"active", "rejected"} :
               /\ [r EXCEPT !.status = status] \in RequestRow
               /\ [r EXCEPT !.status = status].applicant = r.applicant
    BY DEF RequestRow
  <2>4. CASE pc[h] = "saveApproved"
    <3>1. old.step + 1 \in 2..9
      BY <2>1, <2>4
    <3>2. row = [old EXCEPT !.step = old.step + 1]
      BY <2>4 DEF Saves
    <3> HIDE DEF old
    <3>3. row \in RequestRow /\ row.applicant = old.applicant
      BY <1>3, <2>3, <3>1, <3>2 DEF old
    <3> QED BY <3>3 DEF old
  <2>5. CASE pc[h] # "saveApproved"
    <3>1. 7 \in 2..9 /\ 8 \in 2..9 /\ 9 \in 2..9 /\ old \in RequestRow
      BY <1>3
    <3>2. \/ row = [old EXCEPT !.step = 8] \/ row = [old EXCEPT !.step = 9]
          \/ row = [old EXCEPT !.user = TRUE, !.step = 7]
          \/ row = [old EXCEPT !.status = "rejected"] \/ row = [old EXCEPT !.status = "active"]
      BY <2>5 DEF Saves
    <3> HIDE DEF old
    <3>3. \A n \in 2..9 : /\ [old EXCEPT !.step = n] \in RequestRow
                          /\ [old EXCEPT !.step = n].applicant = old.applicant
                          /\ [old EXCEPT !.user = TRUE, !.step = n] \in RequestRow
                          /\ [old EXCEPT !.user = TRUE, !.step = n].applicant = old.applicant
      BY <2>3, <3>1
    <3>4. \A status \in {"active", "rejected"} :
            /\ [old EXCEPT !.status = status] \in RequestRow
            /\ [old EXCEPT !.status = status].applicant = old.applicant
      BY <2>3, <3>1
    <3>5. CASE row = [old EXCEPT !.step = 8] \/ row = [old EXCEPT !.step = 9]
      BY <3>1, <3>3, <3>5 DEF old
    <3>6. CASE row = [old EXCEPT !.user = TRUE, !.step = 7]
      BY <3>1, <3>3, <3>6 DEF old
    <3>7. CASE row = [old EXCEPT !.status = "rejected"] \/ row = [old EXCEPT !.status = "active"]
      BY <3>4, <3>7 DEF old
    <3> QED BY <3>2, <3>5, <3>6, <3>7
  <2> QED BY <2>4, <2>5
<1>5. requests \in [Requests -> RequestRow] /\ requests' = [requests EXCEPT ![ctx[h].request] = row]
  BY DEF TypeOK, SaveRow
<1>6. requests' \in [Requests -> RequestRow]
  BY <1>4, <1>5
<1> QED
  BY <1>1, <1>2, <1>4, <1>5, <1>6 DEF SaveRow

LEMMA InsertFacts ==
  ASSUME TypeOK, HeldInv, NEW h \in Handlers, NEW r, Inserts(h, r)
  PROVE  /\ r \in Requests /\ r \notin RequestIds
         /\ ctx[h].applicant \in Applicants /\ ctx[h].applicant # NoApplicant
         /\ ctx[h].applicant \in partners
         /\ requests'[r] \in RequestRow /\ requests'[r].applicant = ctx[h].applicant
         /\ requests'[r].step = 2 /\ requests'[r].status = "in_review" /\ ~requests'[r].user
         /\ \A s \in Requests \ {r} : requests'[s] = requests[s]
         /\ requests' \in [Requests -> RequestRow]
         /\ ctx'[h].request = r /\ ctx'[h].op = ctx[h].op /\ ctx'[h].applicant = ctx[h].applicant
         /\ ctx'[h] \in Context
<1>1. ctx[h].applicant \in Applicants /\ ctx[h].applicant \in partners
  BY DEF Inserts, HeldInv, HoldsApplicant
<1> DEFINE row == [NoRow EXCEPT !.applicant = ctx[h].applicant]
<1>2. /\ row \in RequestRow /\ row.applicant = ctx[h].applicant
      /\ row.step = 2 /\ row.status = "in_review" /\ ~row.user
  <2>1. \A old \in RequestRow : \A a \in Applicants :
          /\ [old EXCEPT !.applicant = a] \in RequestRow
          /\ [old EXCEPT !.applicant = a].applicant = a
          /\ [old EXCEPT !.applicant = a].step = old.step
          /\ [old EXCEPT !.applicant = a].status = old.status
          /\ [old EXCEPT !.applicant = a].user = old.user
    BY DEF RequestRow
  <2>2. NoRow \in RequestRow /\ NoRow.step = 2 /\ NoRow.status = "in_review" /\ ~NoRow.user
    BY NoContextTypes DEF NoRow
  <2> QED BY <1>1, <2>1, <2>2
<1>3. requests \in [Requests -> RequestRow] /\ requests' = [requests EXCEPT ![r] = row]
      /\ r \in Requests /\ r \notin RequestIds
  BY DEF TypeOK, Inserts
<1> HIDE DEF row
<1>4. requests' \in [Requests -> RequestRow] /\ requests'[r] = row
  BY <1>2, <1>3
<1>5. /\ ctx'[h].request = r /\ ctx'[h].op = ctx[h].op /\ ctx'[h].applicant = ctx[h].applicant
      /\ ctx'[h] \in Context
  BY <1>3, ContextTypes DEF Inserts, Context
<1> QED
  BY <1>1, <1>2, <1>3, <1>4, <1>5, EnablementAssumption

\* A request keeps its applicant, and an account is never deleted.
LEMMA RowsGrow ==
  ASSUME TypeOK, HeldInv, NEW h \in Handlers, Turn(h)
  PROVE  /\ RequestIds \subseteq RequestIds' /\ requests' \in [Requests -> RequestRow]
         /\ \A r \in RequestIds : requests'[r].applicant = requests[r].applicant
         /\ \A a \in Applicants : accounts[a].exists => accounts'[a].exists
<1>1. /\ RequestIds \subseteq RequestIds' /\ requests' \in [Requests -> RequestRow]
      /\ \A r \in RequestIds : requests'[r].applicant = requests[r].applicant
  <2>1. CASE UNCHANGED requests
    BY <2>1 DEF RequestIds, TypeOK
  <2>2. CASE \E r : Inserts(h, r)
    BY <2>2, InsertFacts DEF RequestIds
  <2>3. CASE \E row : Saves(h, row) /\ SaveRow(h, row)
    <3>1. PICK row : Saves(h, row) /\ SaveRow(h, row)
      BY <2>3
    <3> QED BY <3>1, SaveFacts DEF RequestIds
  <2> QED BY <2>1, <2>2, <2>3, RequestTurn
<1>2. ASSUME NEW a \in Applicants, accounts[a].exists PROVE accounts'[a].exists
  <2>1. accounts \in [Applicants -> Account]
    BY DEF TypeOK
  <2>2. CASE SaveAccount(h)
    BY <1>2, <2>1, <2>2 DEF SaveAccount, NewAccount
  <2>3. CASE ActivateUser(h)
    BY <1>2, <2>1, <2>3 DEF ActivateUser, Account
  <2>4. CASE SaveUser(h)
    <3>1. ctx[h].account \in Account /\ ctx[h].account.exists
      BY <2>4, ContextTypes DEF SaveUser, HeldInv, HoldsApplicant
    <3>2. Edited(ctx[h].op, ctx[h].account).exists
      BY <3>1 DEF Edited, Account
    <3> QED BY <1>2, <2>1, <2>4, <3>2 DEF SaveUser
  <2> QED BY <1>2, <2>2, <2>3, <2>4, AccountTurn
<1> QED
  BY <1>1, <1>2

LEMMA OthersHeld ==
  ASSUME TypeOK, HeldInv, NEW h \in Handlers, Turn(h), NEW g \in Handlers \ {h}
  PROVE  HoldsRow(g)' /\ HoldsAccount(g)' /\ HoldsApplicant(g)'
<1>1. pc'[g] = pc[g] /\ ctx'[g] = ctx[g]
  BY OthersWait
<1>2. HoldsRow(g) /\ HoldsAccount(g) /\ HoldsApplicant(g)
  BY DEF HeldInv
<1>3. /\ RequestIds \subseteq RequestIds'
      /\ \A r \in RequestIds : requests'[r].applicant = requests[r].applicant
      /\ \A a \in Applicants : accounts[a].exists => accounts'[a].exists
  BY RowsGrow
<1>4. pc[g] \in Savers => ctx[g].request \in RequestIds /\ ctx[g].row.applicant \in Applicants
  BY <1>2 DEF HoldsRow, TypeOK, RequestIds, RequestRow
<1>5. HoldsRow(g)'
  BY <1>1, <1>2, <1>3 DEF HoldsRow
<1>6. HoldsAccount(g)'
  BY <1>1, <1>2, <1>3, <1>4, SetsGrow DEF HoldsAccount, Creations, Savers, Activations, Trainings
<1>7. HoldsApplicant(g)'
  BY <1>1, <1>2, <1>3, SetsGrow DEF HoldsApplicant
<1> QED
  BY <1>5, <1>6, <1>7

-----------------------------------------------------------------------------
(***************************************************************************)
(* What the handler that moves then holds                                  *)
(***************************************************************************)
Holds(h) == HoldsRow(h) /\ HoldsAccount(h) /\ HoldsApplicant(h)

LEMMA LeftHolds ==
  ASSUME NEW h \in Handlers, Left(h)
  PROVE  Holds(h)' /\ pc'[h] \in Calls /\ ctx'[h] \in Context
<1>1. pc'[h] = "idle" /\ ctx'[h] = NoContext /\ NoContext \in Context
  BY NoContextTypes DEF Left
<1>2. "idle" \notin Savers /\ NoContext.op # "register"
  BY DEF Savers, Passwords, Reviews, Creations, Trainings, Activations, NoContext
<1>3. HoldsRow(h)'
  BY <1>1, <1>2 DEF HoldsRow, Savers
<1>4. HoldsAccount(h)'
  BY <1>1, <1>2 DEF HoldsAccount, Savers
<1>5. HoldsApplicant(h)'
  BY <1>1, <1>2 DEF HoldsApplicant
<1> QED
  BY <1>1, <1>3, <1>4, <1>5 DEF Holds, Calls

LEMMA LeaveHolds ==
  ASSUME TypeOK, NEW h \in Handlers, Leave(h)
  PROVE  Left(h)
  BY ContextTypes DEF Leave, Left

\* A handler that stays with the row it holds.
LEMMA SameRowHolds ==
  ASSUME TypeOK, HeldInv, NEW h \in Handlers, Turn(h), ctx'[h] = ctx[h],
         pc[h] \in Savers, ctx[h].op # "register",
         pc'[h] \in Savers \cup {"markAccount", "markActivation"},
         pc'[h] \in Passwords => AtPassword(ctx[h].row) /\ ctx[h].op \in {"get", "training"},
         pc'[h] \in Reviews => ctx[h].row.step \in 2..5 /\ ctx[h].op \in {"approve", "reject"},
         pc'[h] = "saveApproved" => ctx[h].op = "approve",
         pc'[h] \in Creations => ctx[h].row.step = 6,
         pc'[h] \in Trainings => ctx[h].row.user /\ ctx[h].row.step = 8,
         pc'[h] \in Activations => ctx[h].row.user /\ ctx[h].row.step = 9,
         pc'[h] \in {"saveUserGroup", "saveAccountRef"} => accounts'[ctx[h].row.applicant].exists,
         pc'[h] = "saveAccountRef" => ctx[h].row.applicant \in groups',
         pc'[h] \in Activations \cup {"markTraining", "saveTrained"} =>
           ctx[h].row.applicant \in training'
  PROVE  Holds(h)' /\ pc'[h] \in Calls /\ ctx'[h] \in Context
<1>1. /\ ctx[h].request \in RequestIds /\ ctx[h].row.applicant = requests[ctx[h].request].applicant
      /\ ctx[h].row.status = "in_review"
      /\ ctx[h].row.user => /\ accounts[ctx[h].row.applicant].exists
                            /\ ctx[h].row.applicant \in groups
  BY DEF HeldInv, HoldsRow, HoldsAccount
<1>2. ctx[h].row.applicant \in Applicants
  BY <1>1 DEF TypeOK, RequestIds, RequestRow
<1>3. /\ ctx[h].request \in RequestIds'
      /\ requests'[ctx[h].request].applicant = requests[ctx[h].request].applicant
      /\ accounts[ctx[h].row.applicant].exists => accounts'[ctx[h].row.applicant].exists
      /\ groups \subseteq groups'
  BY <1>1, <1>2, RowsGrow, SetsGrow
<1>4. HoldsRow(h)'
  BY <1>1, <1>3 DEF HoldsRow
<1>5. HoldsAccount(h)'
  BY <1>1, <1>3 DEF HoldsAccount
<1>6. pc'[h] \notin {"idle", "savePartner", "saveRequest", "saveSteps", "saveUser"}
  BY DEF Savers, Passwords, Reviews, Creations, Trainings, Activations
<1>7. HoldsApplicant(h)'
  BY <1>6 DEF HoldsApplicant
<1>8. pc'[h] \in Calls /\ ctx'[h] \in Context
  BY ContextTypes DEF Calls, Savers, Passwords, Reviews, Creations, Trainings, Activations
<1> QED
  BY <1>4, <1>5, <1>7, <1>8 DEF Holds

\* A handler that has read, or just saved, the row it goes on with.
LEMMA NewRowHolds ==
  ASSUME TypeOK, HeldInv, NEW h \in Handlers, Turn(h), ctx'[h] \in Context,
         pc'[h] \in Savers,
         ctx'[h].op # "register", ctx'[h].request \in RequestIds,
         ctx'[h].row.applicant = requests[ctx'[h].request].applicant,
         ctx'[h].row.status = "in_review",
         ctx'[h].row.user => /\ accounts[ctx'[h].row.applicant].exists
                             /\ ctx'[h].row.applicant \in groups,
         pc'[h] \in Passwords => AtPassword(ctx'[h].row) /\ ctx'[h].op \in {"get", "training"},
         pc'[h] \in Reviews => ctx'[h].row.step \in 2..5 /\ ctx'[h].op \in {"approve", "reject"},
         pc'[h] = "saveApproved" => ctx'[h].op = "approve",
         pc'[h] \in Creations => pc'[h] = "saveAccount" /\ ctx'[h].row.step = 6,
         pc'[h] \in Trainings =>
           pc'[h] = "findTraining" /\ ctx'[h].row.user /\ ctx'[h].row.step = 8,
         pc'[h] \in Activations =>
           ctx'[h].row.user /\ ctx'[h].row.step = 9 /\ ctx'[h].row.applicant \in training
  PROVE  Holds(h)' /\ pc'[h] \in Calls /\ ctx'[h] \in Context
<1>1. ctx'[h].row.applicant \in Applicants
  BY DEF TypeOK, RequestIds, RequestRow
<1>2. /\ ctx'[h].request \in RequestIds'
      /\ requests'[ctx'[h].request].applicant = requests[ctx'[h].request].applicant
      /\ accounts[ctx'[h].row.applicant].exists => accounts'[ctx'[h].row.applicant].exists
      /\ groups \subseteq groups' /\ training \subseteq training'
  BY <1>1, RowsGrow, SetsGrow
<1>3. HoldsRow(h)'
  BY <1>2 DEF HoldsRow
<1>4. pc'[h] \notin {"saveUserGroup", "saveAccountRef", "markTraining", "saveTrained"}
  BY DEF Creations, Trainings
<1>5. HoldsAccount(h)'
  BY <1>2, <1>4 DEF HoldsAccount
<1>6. pc'[h] \notin {"idle", "savePartner", "saveRequest", "saveSteps", "saveUser"}
  BY DEF Savers, Passwords, Reviews, Creations, Trainings, Activations
<1>7. HoldsApplicant(h)'
  BY <1>6 DEF HoldsApplicant
<1>8. pc'[h] \in Calls
  BY DEF Calls, Savers, Passwords, Reviews, Creations, Trainings, Activations
<1> QED
  BY <1>3, <1>5, <1>7, <1>8 DEF Holds

\* Calls after which a handler keeps the row it holds, or leaves.
LEMMA StayHolds ==
  ASSUME TypeOK, HeldInv, NEW h \in Handlers, Turn(h),
         \/ MarkPassword(h) \/ SaveStep(h) \/ SaveAccount(h) \/ SaveUserGroup(h)
         \/ SaveAccountRef(h) \/ FindTraining(h) \/ SaveTraining(h) \/ MarkTraining(h)
         \/ ActivateUser(h) \/ SaveActive(h)
  PROVE  Holds(h)' /\ pc'[h] \in Calls /\ ctx'[h] \in Context
<1> USE DEF Savers, Passwords, Reviews, Creations, Trainings, Activations
<1>1. HoldsRow(h) /\ HoldsAccount(h) /\ HoldsApplicant(h)
  BY DEF HeldInv
<1>2. pc[h] \in Savers => ctx[h].row.applicant \in Applicants
  BY <1>1 DEF HoldsRow, TypeOK, RequestIds, RequestRow
<1>3. CASE MarkPassword(h)
  <2>1. pc[h] = "markPassword" /\ pc'[h] = "saveSynced"
        /\ ctx'[h] = ctx[h]
    BY <1>3, ContextTypes DEF MarkPassword
  <2> QED BY <1>1, <2>1, SameRowHolds DEF HoldsRow, HoldsApplicant
<1>4. CASE SaveStep(h)
  <2>1. /\ pc[h] = "saveStep"
        /\ pc'[h] = IF ctx[h].op = "approve" THEN "saveApproved" ELSE "saveRejected"
        /\ ctx'[h] = ctx[h]
    BY <1>4, ContextTypes DEF SaveStep
  <2> QED BY <1>1, <2>1, SameRowHolds DEF HoldsRow, HoldsApplicant
<1>5. CASE SaveAccount(h)
  <2>1. pc[h] = "saveAccount" /\ pc'[h] = "saveUserGroup"
        /\ ctx'[h] = ctx[h]
    BY <1>5, ContextTypes DEF SaveAccount
  <2>2. accounts'[ctx[h].row.applicant].exists
    BY <1>2, <1>5, <2>1 DEF SaveAccount, NewAccount, TypeOK
  <2> QED BY <1>1, <2>1, <2>2, SameRowHolds DEF HoldsRow, HoldsApplicant
<1>6. CASE SaveUserGroup(h)
  <2>1. pc[h] = "saveUserGroup" /\ pc'[h] = "saveAccountRef"
        /\ ctx'[h] = ctx[h]
    BY <1>6, ContextTypes DEF SaveUserGroup
  <2>2. accounts'[ctx[h].row.applicant].exists /\ ctx[h].row.applicant \in groups'
    BY <1>1, <1>2, <1>6, <2>1, RowsGrow DEF SaveUserGroup, HoldsAccount
  <2> QED BY <1>1, <2>1, <2>2, SameRowHolds DEF HoldsRow, HoldsApplicant
<1>7. CASE SaveAccountRef(h)
  <2>1. pc[h] = "saveAccountRef" /\ pc'[h] = "markAccount"
        /\ ctx'[h] = ctx[h]
    BY <1>7, ContextTypes DEF SaveAccountRef
  <2> QED BY <1>1, <2>1, SameRowHolds DEF HoldsRow, HoldsApplicant
<1>8. CASE FindTraining(h)
  <2>1. /\ pc[h] = "findTraining"
        /\ pc'[h] = IF ctx[h].row.applicant \in training THEN "markTraining" ELSE "saveTraining"
        /\ ctx'[h] = ctx[h]
    BY <1>8, ContextTypes DEF FindTraining
  <2>2. pc'[h] = "markTraining" => ctx[h].row.applicant \in training'
    BY <2>1, SetsGrow
  <2> QED BY <1>1, <2>1, <2>2, SameRowHolds DEF HoldsRow, HoldsApplicant
<1>9. CASE SaveTraining(h)
  <2>1. pc[h] = "saveTraining" /\ pc'[h] = "markTraining"
        /\ ctx'[h] = ctx[h]
    BY <1>9, ContextTypes DEF SaveTraining
  <2>2. ctx[h].row.applicant \in training'
    BY <1>9 DEF SaveTraining
  <2> QED BY <1>1, <2>1, <2>2, SameRowHolds DEF HoldsRow, HoldsApplicant
<1>10. CASE MarkTraining(h)
  <2>1. pc[h] = "markTraining" /\ pc'[h] = "saveTrained"
        /\ ctx'[h] = ctx[h]
    BY <1>10, ContextTypes DEF MarkTraining
  <2>2. ctx[h].row.applicant \in training'
    BY <1>1, <2>1, SetsGrow DEF HoldsAccount
  <2> QED BY <1>1, <2>1, <2>2, SameRowHolds DEF HoldsRow, HoldsApplicant
<1>11. CASE ActivateUser(h)
  <2>1. pc[h] = "activateUser" /\ pc'[h] = "saveActive"
        /\ ctx'[h] = ctx[h]
    BY <1>11, ContextTypes DEF ActivateUser
  <2>2. ctx[h].row.applicant \in training'
    BY <1>1, <2>1, SetsGrow DEF HoldsAccount
  <2> QED BY <1>1, <2>1, <2>2, SameRowHolds DEF HoldsRow, HoldsApplicant
<1>12. CASE SaveActive(h)
  <2>1. pc[h] = "saveActive" /\ pc'[h] = "markActivation"
        /\ ctx'[h] = ctx[h]
    BY <1>12, ContextTypes DEF SaveActive
  <2> QED BY <1>1, <2>1, SameRowHolds DEF HoldsRow, HoldsApplicant
<1> QED
  BY <1>3, <1>4, <1>5, <1>6, <1>7, <1>8, <1>9, <1>10, <1>11, <1>12

\* Calls that read a request, or save it and go on with it.
LEMMA ReadHolds ==
  ASSUME TypeOK, HeldInv, RequestInv, NEW h \in Handlers, Turn(h),
         \/ \E r \in Requests : Get(h, r)
         \/ \E r \in Requests, decision \in {"approve", "reject"} : Review(h, decision, r)
         \/ \E a \in Applicants, r \in Requests : AcceptTraining(h, a, r)
         \/ FindUser(h) \/ FindStep(h) \/ SaveSynced(h) \/ SaveApproved(h) \/ SaveTrained(h)
  PROVE  Holds(h)' /\ pc'[h] \in Calls /\ ctx'[h] \in Context
<1> USE DEF Savers, Passwords, Reviews, Creations, Trainings, Activations
<1>1. HoldsRow(h) /\ HoldsAccount(h) /\ HoldsApplicant(h)
  BY DEF HeldInv
<1>2. \A r \in RequestIds : /\ r \in Requests /\ requests[r] \in RequestRow
                            /\ requests[r].applicant \in Applicants
                            /\ requests[r].user =>
                                 /\ accounts[requests[r].applicant].exists
                                 /\ requests[r].applicant \in groups
  BY DEF RequestInv, TypeOK, RequestIds, RequestRow
<1>3. ASSUME NEW op \in {"get", "training", "approve", "reject"}, NEW r \in RequestIds,
             Keep(h, [NoContext EXCEPT !.op = op, !.request = r, !.row = requests[r]])
      PROVE  /\ ctx'[h] \in Context /\ ctx'[h].op = op /\ ctx'[h].request = r
             /\ ctx'[h].row = requests[r]
  <2>1. ctx'[h] = [NoContext EXCEPT !.op = op, !.request = r, !.row = requests[r]]
    BY <1>3, ContextTypes
  <2> QED BY <1>2, <2>1, NoContextTypes DEF NoContext, Context
<1>4. CASE \E r \in Requests : Get(h, r)
  <2>1. PICK r \in RequestIds :
          /\ AtPassword(requests[r]) /\ Goto(h, "findUser")
          /\ Keep(h, [NoContext EXCEPT !.op = "get", !.request = r, !.row = requests[r]])
    BY <1>4 DEF Get
  <2>2. /\ pc'[h] = "findUser" /\ ctx'[h] \in Context /\ ctx'[h].op = "get"
        /\ ctx'[h].request = r /\ ctx'[h].row = requests[r]
    BY <1>3, <2>1, ContextTypes
  <2> QED BY <1>2, <2>1, <2>2, NewRowHolds DEF AtPassword
<1>5. CASE \E r \in Requests, decision \in {"approve", "reject"} : Review(h, decision, r)
  <2>1. PICK decision \in {"approve", "reject"}, r \in RequestIds :
          /\ requests[r].status = "in_review" /\ requests[r].step \in 2..5 /\ Goto(h, "findStep")
          /\ Keep(h, [NoContext EXCEPT !.op = decision, !.request = r, !.row = requests[r]])
    BY <1>5 DEF Review
  <2>2. /\ pc'[h] = "findStep" /\ ctx'[h] \in Context /\ ctx'[h].op = decision
        /\ ctx'[h].request = r /\ ctx'[h].row = requests[r]
    BY <1>3, <2>1, ContextTypes
  <2> QED BY <1>2, <2>1, <2>2, NewRowHolds
<1>6. CASE \E a \in Applicants, r \in Requests : AcceptTraining(h, a, r)
  <2>1. PICK r \in RequestIds :
          /\ requests[r].user /\ requests[r].status = "in_review" /\ requests[r].step \in {7, 8}
          /\ Goto(h, IF requests[r].step = 7 THEN "findUser" ELSE "findTraining")
          /\ Keep(h, [NoContext EXCEPT !.op = "training", !.request = r, !.row = requests[r]])
    BY <1>6, EnablementAssumption DEF AcceptTraining, RequestOf, RequestIds
  <2>2. /\ pc'[h] = IF requests[r].step = 7 THEN "findUser" ELSE "findTraining"
        /\ ctx'[h] \in Context /\ ctx'[h].op = "training"
        /\ ctx'[h].request = r /\ ctx'[h].row = requests[r]
    BY <1>3, <2>1, ContextTypes
  <2> QED BY <1>2, <2>1, <2>2, NewRowHolds DEF AtPassword
<1>7. CASE FindUser(h)
  <2>1. CASE Leave(h)
    BY <2>1, LeaveHolds, LeftHolds
  <2>2. CASE ~Leave(h)
    <3>1. pc[h] = "findUser" /\ pc'[h] = "markPassword" /\ ctx'[h] = ctx[h]
      BY <1>7, <2>2, ContextTypes DEF FindUser
    <3> QED BY <1>1, <3>1, SameRowHolds DEF HoldsRow, HoldsApplicant
  <2> QED BY <2>1, <2>2
<1>8. CASE FindStep(h)
  <2>1. CASE Leave(h)
    BY <2>1, LeaveHolds, LeftHolds
  <2>2. CASE ~Leave(h)
    <3> DEFINE c == [ctx[h] EXCEPT !.done = ctx[h].row.step \in steps[ctx[h].request]]
    <3>1. pc[h] = "findStep" /\ pc'[h] = "saveStep" /\ ctx'[h] = c
      BY <1>8, <2>2, ContextTypes DEF FindStep
    <3>2. \A old \in Context : \A b \in BOOLEAN :
            /\ [old EXCEPT !.done = b] \in Context
            /\ [old EXCEPT !.done = b].op = old.op
            /\ [old EXCEPT !.done = b].request = old.request
            /\ [old EXCEPT !.done = b].row = old.row
      BY DEF Context
    <3>3. /\ c \in Context /\ c.op = ctx[h].op /\ c.request = ctx[h].request
          /\ c.row = ctx[h].row
      <4>1. PICK b \in BOOLEAN : b <=> ctx[h].row.step \in steps[ctx[h].request]
        BY (ctx[h].row.step \in steps[ctx[h].request]) \in BOOLEAN
      <4>2. c = [ctx[h] EXCEPT !.done = b]
        BY Zenon, <4>1
      <4> HIDE DEF c
      <4> QED BY <3>2, <4>2, ContextTypes
    <3> HIDE DEF c
    <3> QED BY <1>1, <3>1, <3>3, NewRowHolds DEF HoldsRow, HoldsAccount, HoldsApplicant
  <2> QED BY <2>1, <2>2
<1>9. CASE SaveSynced(h)
  <2> DEFINE row == [ctx[h].row EXCEPT !.step = 8]
             c == [ctx[h] EXCEPT !.row = row]
  <2>1. CASE Leave(h)
    BY <2>1, LeaveHolds, LeftHolds
  <2>2. CASE ~Leave(h)
    <3>1. pc[h] = "saveSynced" /\ pc'[h] = "findTraining" /\ ctx'[h] = c /\ ctx[h].op # "get"
      BY <1>9, <2>2, ContextTypes DEF SaveSynced
    <3>2. /\ row \in RequestRow /\ row.step = 8 /\ row.applicant = ctx[h].row.applicant
          /\ row.status = ctx[h].row.status /\ row.user = ctx[h].row.user
      BY ContextTypes DEF RequestRow
    <3> HIDE DEF row
    <3>3. c \in Context /\ c.op = ctx[h].op /\ c.request = ctx[h].request /\ c.row = row
      BY <3>2, ContextTypes DEF Context
    <3> HIDE DEF c
    <3>4. ctx[h].row.user
      BY <1>1, <3>1 DEF HoldsRow, AtPassword
    <3> QED BY <1>1, <3>1, <3>2, <3>3, <3>4, NewRowHolds DEF HoldsRow, HoldsAccount, HoldsApplicant
  <2> QED BY <2>1, <2>2
<1>10. CASE SaveApproved(h)
  <2> DEFINE row == [ctx[h].row EXCEPT !.step = @ + 1]
             c == [ctx[h] EXCEPT !.row = row]
  <2>1. CASE Leave(h)
    BY <2>1, LeaveHolds, LeftHolds
  <2>2. CASE ~Leave(h)
    <3>1. pc[h] = "saveApproved" /\ pc'[h] = "saveAccount" /\ ctx'[h] = c /\ row.step = 6
      BY <1>10, <2>2, ContextTypes DEF SaveApproved
    <3>2. /\ row \in RequestRow /\ row.applicant = ctx[h].row.applicant
          /\ row.status = ctx[h].row.status /\ row.user = ctx[h].row.user
      <4>1. ctx[h].row.step \in 2..5
        BY <1>1, <3>1 DEF HoldsRow
      <4> QED BY <4>1, ContextTypes DEF RequestRow
    <3> HIDE DEF row
    <3>3. c \in Context /\ c.op = ctx[h].op /\ c.request = ctx[h].request /\ c.row = row
      BY <3>2, ContextTypes DEF Context
    <3> HIDE DEF c
    <3> QED BY <1>1, <3>1, <3>2, <3>3, NewRowHolds DEF HoldsRow, HoldsAccount, HoldsApplicant
  <2> QED BY <2>1, <2>2
<1>11. CASE SaveTrained(h)
  <2> DEFINE row == [ctx[h].row EXCEPT !.step = 9]
             c == [ctx[h] EXCEPT !.row = row]
  <2>1. pc[h] = "saveTrained" /\ pc'[h] = "activateUser" /\ ctx'[h] = c
    BY <1>11, ContextTypes DEF SaveTrained
  <2>2. /\ row \in RequestRow /\ row.step = 9 /\ row.applicant = ctx[h].row.applicant
        /\ row.status = ctx[h].row.status /\ row.user = ctx[h].row.user
    BY ContextTypes DEF RequestRow
  <2> HIDE DEF row
  <2>3. c \in Context /\ c.op = ctx[h].op /\ c.request = ctx[h].request /\ c.row = row
    BY <2>2, ContextTypes DEF Context
  <2> HIDE DEF c
  <2>4. ctx[h].row.user /\ ctx[h].row.applicant \in training
    BY <1>1, <2>1 DEF HoldsRow, HoldsAccount
  <2> QED BY <1>1, <2>1, <2>2, <2>3, <2>4, NewRowHolds DEF HoldsRow, HoldsAccount, HoldsApplicant
<1> QED
  BY <1>4, <1>5, <1>6, <1>7, <1>8, <1>9, <1>10, <1>11

\* Calls of a registration, and of an operation on an account.
LEMMA ApplicantHolds ==
  ASSUME TypeOK, HeldInv, OpenedByRight, NEW h \in Handlers, Turn(h),
         \/ \E a \in Applicants : Register(h, a)
         \/ \E a \in Applicants, op \in UserOps : ReadUser(h, op, a)
         \/ SavePartner(h) \/ SaveRequest(h)
  PROVE  Holds(h)' /\ pc'[h] \in Calls /\ ctx'[h] \in Context
<1> USE DEF Savers, Passwords, Reviews, Creations, Trainings, Activations
<1>1. HoldsRow(h) /\ HoldsAccount(h) /\ HoldsApplicant(h)
  BY DEF HeldInv
<1>2. CASE \E a \in Applicants : Register(h, a)
  <2>1. PICK a \in Applicants : Register(h, a)
    BY <1>2
  <2> DEFINE c == [NoContext EXCEPT !.op = "register", !.applicant = a]
  <2>2. /\ pc'[h] = IF a \in partners THEN "saveRequest" ELSE "savePartner"
        /\ ctx'[h] = c /\ partners' = partners
    BY <2>1, ContextTypes DEF Register, rows
  <2>3. c \in Context /\ c.op = "register" /\ c.applicant = a /\ c.request = None
    BY NoContextTypes DEF NoContext, Context, None
  <2> HIDE DEF c
  <2>4. HoldsRow(h)' /\ HoldsAccount(h)'
    BY <2>2 DEF HoldsRow, HoldsAccount
  <2>5. HoldsApplicant(h)'
    BY <2>2, <2>3 DEF HoldsApplicant
  <2> QED BY <2>2, <2>3, <2>4, <2>5 DEF Holds, Calls
<1>3. CASE \E a \in Applicants, op \in UserOps : ReadUser(h, op, a)
  <2>1. PICK a \in Applicants, op \in UserOps : ReadUser(h, op, a)
    BY <1>3
  <2> DEFINE c == [NoContext EXCEPT !.op = op, !.applicant = a, !.account = accounts[a]]
  <2>2. /\ pc'[h] = "saveUser" /\ ctx'[h] = c /\ accounts[a].exists
        /\ UNCHANGED <<accounts, training, unblocked>>
    BY <2>1, ContextTypes DEF ReadUser, rows, history
  <2>3. /\ c \in Context /\ c.op = op /\ c.applicant = a /\ c.request = None
        /\ c.account = accounts[a]
    BY NoContextTypes DEF NoContext, Context, None, TypeOK
  <2>4. op # "register" /\ (accounts[a].active => a \in training \cup unblocked)
    BY EnablementAssumption DEF OpenedByRight
  <2> HIDE DEF c
  <2>5. HoldsRow(h)' /\ HoldsAccount(h)'
    BY <2>2 DEF HoldsRow, HoldsAccount
  <2>6. HoldsApplicant(h)'
    BY <2>2, <2>3, <2>4 DEF HoldsApplicant
  <2> QED BY <2>2, <2>3, <2>5, <2>6 DEF Holds, Calls
<1>4. CASE SavePartner(h)
  <2>1. /\ pc[h] = "savePartner" /\ pc'[h] = "saveRequest" /\ ctx'[h] = ctx[h]
        /\ ctx[h].applicant \in partners'
    BY <1>4, ContextTypes DEF SavePartner
  <2>2. HoldsRow(h)' /\ HoldsAccount(h)'
    BY <2>1 DEF HoldsRow, HoldsAccount
  <2>3. HoldsApplicant(h)'
    BY <1>1, <2>1 DEF HoldsApplicant
  <2> QED BY <2>1, <2>2, <2>3, ContextTypes DEF Holds, Calls
<1>5. CASE SaveRequest(h)
  <2>1. PICK r : Inserts(h, r)
    <3>1. pc[h] = "saveRequest" /\ requests' # requests
      <4>1. PICK r \in Ids \ RequestIds :
               requests' = [requests EXCEPT ![r] = [NoRow EXCEPT !.applicant = ctx[h].applicant]]
        BY <1>5 DEF SaveRequest
      <4>2. /\ r \in Requests /\ requests[r].applicant = NoApplicant
            /\ requests \in [Requests -> RequestRow]
        BY <4>1, EnablementAssumption DEF Ids, Requests, RequestIds, TypeOK
      <4>3. ctx[h].applicant \in Applicants /\ pc[h] = "saveRequest"
        BY <1>1, <1>5 DEF SaveRequest, HoldsApplicant
      <4>4. requests'[r].applicant = ctx[h].applicant
        BY <4>1, <4>2, NoContextTypes DEF NoRow
      <4> QED BY <4>2, <4>3, <4>4, EnablementAssumption
    <3> QED BY <3>1, RequestTurn DEF Saves
  <2>2. /\ pc'[h] = "saveSteps" /\ pc[h] = "saveRequest" /\ ctx'[h].request = r /\ r \in RequestIds'
        /\ ctx'[h].op = ctx[h].op /\ ctx'[h] \in Context
    BY <2>1, InsertFacts DEF Inserts, RequestIds
  <2>3. HoldsRow(h)' /\ HoldsAccount(h)'
    BY <2>2 DEF HoldsRow, HoldsAccount
  <2>4. HoldsApplicant(h)'
    BY <1>1, <2>2 DEF HoldsApplicant
  <2> QED BY <2>2, <2>3, <2>4 DEF Holds, Calls
<1> QED
  BY <1>2, <1>3, <1>4, <1>5

LEMMA HeldStep ==
  ASSUME TypeOK, HeldInv, RequestInv, OpenedByRight, NEW h \in Handlers, Turn(h)
  PROVE  /\ HeldInv' /\ pc'[h] \in Calls /\ ctx'[h] \in Context
         /\ pc' \in [Handlers -> Calls] /\ ctx' \in [Handlers -> Context]
<1>1. \/ Leave(h)
      \/ \E r \in Requests : Get(h, r)
      \/ \E r \in Requests, decision \in {"approve", "reject"} : Review(h, decision, r)
      \/ \E a \in Applicants, r \in Requests : AcceptTraining(h, a, r)
      \/ FindUser(h) \/ FindStep(h) \/ SaveSynced(h) \/ SaveApproved(h) \/ SaveTrained(h)
      \/ \E a \in Applicants : Register(h, a)
      \/ \E a \in Applicants, op \in UserOps : ReadUser(h, op, a)
      \/ SavePartner(h) \/ SaveRequest(h)
      \/ MarkPassword(h) \/ SaveStep(h) \/ SaveAccount(h) \/ SaveUserGroup(h)
      \/ SaveAccountRef(h) \/ FindTraining(h) \/ SaveTraining(h) \/ MarkTraining(h)
      \/ ActivateUser(h) \/ SaveActive(h)
  BY DEF Turn, Start, Continue, PartnerTaken, SaveSteps, SaveRejected, AccountTaken,
     MarkAccount, TrainingTaken, MarkActivation, SaveUser, IdsUsedUp, Fail, Throw
<1>2. Holds(h)' /\ pc'[h] \in Calls /\ ctx'[h] \in Context
  BY <1>1, LeaveHolds, LeftHolds, ReadHolds, ApplicantHolds, StayHolds
<1>3. HeldInv'
  <2> SUFFICES ASSUME NEW g \in Handlers
               PROVE  HoldsRow(g)' /\ HoldsAccount(g)' /\ HoldsApplicant(g)'
    BY DEF HeldInv
  <2>1. CASE g = h
    BY <1>2, <2>1 DEF Holds
  <2>2. CASE g # h
    BY <2>2, OthersHeld
  <2> QED BY <2>1, <2>2
<1>4. pc' \in [Handlers -> Calls] /\ ctx' \in [Handlers -> Context]
  BY <1>2, Went DEF TypeOK
<1> QED
  BY <1>2, <1>3, <1>4

-----------------------------------------------------------------------------
(***************************************************************************)
(* What each part of the invariant asks of a step                          *)
(***************************************************************************)
LEMMA RequestInvStep ==
  ASSUME TypeOK, HeldInv, RequestInv, NEW h \in Handlers, Turn(h)
  PROVE  RequestInv'
<1>1. SUFFICES ASSUME NEW r \in Requests, requests'[r].applicant # NoApplicant
               PROVE  /\ requests'[r].applicant \in partners'
                      /\ requests'[r].user => /\ accounts'[requests'[r].applicant].exists
                                             /\ requests'[r].applicant \in groups'
  BY DEF RequestInv, RequestIds
<1>2. /\ partners \subseteq partners' /\ groups \subseteq groups'
      /\ \A a \in Applicants : accounts[a].exists => accounts'[a].exists
  BY SetsGrow, RowsGrow
<1>3. ASSUME requests'[r] = requests[r]
      PROVE  /\ requests'[r].applicant \in partners'
             /\ requests'[r].user => /\ accounts'[requests'[r].applicant].exists
                                    /\ requests'[r].applicant \in groups'
  <2>1. r \in RequestIds /\ requests[r].applicant \in Applicants
    BY <1>1, <1>3 DEF RequestIds, TypeOK, RequestRow
  <2> QED BY <1>2, <1>3, <2>1 DEF RequestInv
<1>4. CASE UNCHANGED requests
  BY <1>3, <1>4
<1>5. CASE \E s : Inserts(h, s)
  <2>1. PICK s : Inserts(h, s)
    BY <1>5
  <2>2. CASE r = s
    BY <1>2, <2>1, <2>2, InsertFacts
  <2>3. CASE r # s
    BY <1>3, <2>1, <2>3, InsertFacts
  <2> QED BY <2>2, <2>3
<1>6. CASE \E row : Saves(h, row) /\ SaveRow(h, row)
  <2>1. PICK row : Saves(h, row) /\ SaveRow(h, row)
    BY <1>6
  <2>2. CASE r # ctx[h].request
    BY <1>3, <2>1, <2>2, SaveFacts
  <2>3. CASE r = ctx[h].request
    <3>1. /\ requests'[r] = row /\ row.applicant = ctx[h].row.applicant /\ pc[h] \in Savers
          /\ row.applicant = requests[r].applicant /\ r \in RequestIds
          /\ row.applicant \in Applicants
      BY <2>1, <2>3, SaveFacts DEF TypeOK, RequestRow, RequestIds
    <3>2. row.user => accounts[row.applicant].exists /\ row.applicant \in groups
      <4>1. HoldsAccount(h) /\ ctx[h].row \in RequestRow
        BY ContextTypes DEF HeldInv
      <4>2. CASE pc[h] = "saveAccountRef"
        BY <3>1, <4>1, <4>2 DEF HoldsAccount
      <4>3. CASE pc[h] # "saveAccountRef"
        <5>1. row.user = ctx[h].row.user
          BY <2>1, <4>1, <4>3 DEF Saves, RequestRow
        <5> QED BY <3>1, <4>1, <5>1 DEF HoldsAccount
      <4> QED BY <4>2, <4>3
    <3> QED BY <1>2, <3>1, <3>2 DEF RequestInv
  <2> QED BY <2>2, <2>3
<1> QED
  BY <1>4, <1>5, <1>6, RequestTurn

LEMMA OpenedStep ==
  ASSUME TypeOK, HeldInv, OpenedByRight, NEW h \in Handlers, Turn(h)
  PROVE  OpenedByRight'
<1> SUFFICES ASSUME NEW a \in Applicants, accounts'[a].active
             PROVE  a \in training' \cup unblocked'
  BY DEF OpenedByRight
<1>1. training \subseteq training' /\ unblocked \subseteq unblocked'
  BY SetsGrow
<1>2. accounts \in [Applicants -> Account]
  BY DEF TypeOK
<1>3. CASE accounts'[a] = accounts[a]
  BY <1>1, <1>3 DEF OpenedByRight
<1>4. CASE SaveAccount(h)
  <2>1. \/ accounts'[a] = NewAccount \/ accounts'[a] = accounts[a]
    BY <1>2, <1>4 DEF SaveAccount
  <2> QED BY <1>3, <2>1 DEF NewAccount
<1>5. CASE ActivateUser(h)
  <2>1. \/ accounts'[a] = accounts[a] \/ a = ctx[h].row.applicant
    BY <1>2, <1>5 DEF ActivateUser
  <2>2. ctx[h].row.applicant \in training
    BY <1>5 DEF ActivateUser, HeldInv, HoldsAccount, Activations
  <2> QED BY <1>1, <1>3, <2>1, <2>2
<1>6. CASE SaveUser(h)
  <2>1. \/ accounts'[a] = accounts[a]
        \/ a = ctx[h].applicant /\ accounts'[a] = Edited(ctx[h].op, ctx[h].account)
    BY <1>2, <1>6 DEF SaveUser
  <2>2. CASE a = ctx[h].applicant /\ accounts'[a] = Edited(ctx[h].op, ctx[h].account)
    <3>1. /\ ctx[h].account.active => a \in training \cup unblocked
          /\ ctx[h].account \in Account
      BY <1>6, <2>2, ContextTypes DEF SaveUser, HeldInv, HoldsApplicant
    <3>2. CASE ctx[h].op = "unblock"
      BY <1>6, <2>2, <3>2 DEF SaveUser
    <3>3. CASE ctx[h].op # "unblock"
      <4>1. ctx[h].account.active
        BY <2>2, <3>1, <3>3 DEF Edited, Account
      <4> QED BY <1>1, <3>1, <4>1
    <3> QED BY <3>2, <3>3
  <2> QED BY <1>3, <2>1, <2>2
<1> QED
  BY <1>3, <1>4, <1>5, <1>6, AccountTurn

\* Where a step leaves the handler that makes it.
LEMMA HandlerTurn ==
  ASSUME TypeOK, HeldInv, NEW h \in Handlers, Turn(h)
  PROVE  \/ ctx'[h].request = None /\ pc'[h] # "saveSteps"
         \/ \E r : Inserts(h, r)
         \/ \E r \in RequestIds : Reads(h, r)
         \/ FindStep(h) /\ steps[ctx[h].request] # {}
         \/ GoesOn(h)
<1>2. CASE \/ \E a \in Applicants : Register(h, a)
           \/ \E a \in Applicants, op \in UserOps : ReadUser(h, op, a)
           \/ SavePartner(h) \/ Leave(h)
  <2>1. \A a \in Applicants :
          /\ [NoContext EXCEPT !.op = "register", !.applicant = a].request = None
          /\ \A op \in UserOps : \A account :
               [NoContext EXCEPT !.op = op, !.applicant = a, !.account = account].request = None
    BY DEF NoContext
  <2>2. NoContext.request = None
    BY DEF NoContext
  <2>3. pc[h] = "savePartner" => ctx[h].request = None
    BY DEF HeldInv, HoldsApplicant
  <2>4. CASE \E a \in Applicants : Register(h, a)
    BY <2>1, <2>4, ContextTypes DEF Register
  <2>5. CASE \E a \in Applicants, op \in UserOps : ReadUser(h, op, a)
    <3>1. PICK a \in Applicants, op \in UserOps : ReadUser(h, op, a)
      BY <2>5
    <3>2. /\ pc'[h] = "saveUser"
          /\ ctx'[h] = [NoContext EXCEPT !.op = op, !.applicant = a, !.account = accounts[a]]
      BY <3>1, ContextTypes DEF ReadUser
    <3> QED BY <2>1, <3>2
  <2>6. CASE SavePartner(h)
    BY <2>3, <2>6, ContextTypes DEF SavePartner
  <2>7. CASE Leave(h)
    BY <2>2, <2>7, ContextTypes DEF Leave
  <2> QED BY <1>2, <2>4, <2>5, <2>6, <2>7
<1>3. CASE SaveRequest(h)
  <2>1. PICK r \in Ids \ RequestIds :
          /\ requests' = [requests EXCEPT ![r] = [NoRow EXCEPT !.applicant = ctx[h].applicant]]
          /\ Keep(h, [ctx[h] EXCEPT !.request = r])
    BY <1>3 DEF SaveRequest
  <2>2. r \in Requests \ RequestIds
    BY EnablementAssumption DEF Ids, Requests
  <2>3. pc[h] = "saveRequest" /\ pc'[h] = "saveSteps" /\ UNCHANGED <<raced, steps>>
    BY <1>3, ContextTypes DEF SaveRequest, history
  <2> QED BY <2>1, <2>2, <2>3, ContextTypes DEF Inserts
<1>4. CASE \E r \in Requests : \/ Get(h, r)
                               \/ \E decision \in {"approve", "reject"} : Review(h, decision, r)
                               \/ \E a \in Applicants : AcceptTraining(h, a, r)
  <2>1. PICK r \in Requests : \/ Get(h, r)
                              \/ \E decision \in {"approve", "reject"} : Review(h, decision, r)
                              \/ \E a \in Applicants : AcceptTraining(h, a, r)
    BY <1>4
  <2>2. \A op : LET c == [NoContext EXCEPT !.op = op, !.request = r, !.row = requests[r]]
                IN c.op = op /\ c.request = r /\ c.row = requests[r]
    BY DEF NoContext
  <2>3. CASE Get(h, r)
    <3>1. ctx'[h] = [NoContext EXCEPT !.op = "get", !.request = r, !.row = requests[r]]
      BY <2>3, ContextTypes DEF Get
    <3>2. ctx'[h].request = r /\ ctx'[h].row = requests[r]
      BY <2>2, <3>1
    <3>3. /\ pc[h] = "idle" /\ UNCHANGED <<rows, history>> /\ r \in RequestIds
          /\ AtPassword(requests[r]) /\ pc'[h] = "findUser"
      BY <2>3, ContextTypes DEF Get
    <3> QED BY <3>2, <3>3 DEF Reads, AtPassword
  <2>4. CASE \E decision \in {"approve", "reject"} : Review(h, decision, r)
    <3>1. PICK decision \in {"approve", "reject"} : Review(h, decision, r)
      BY <2>4
    <3>2. ctx'[h] = [NoContext EXCEPT !.op = decision, !.request = r, !.row = requests[r]]
      BY <3>1, ContextTypes DEF Review
    <3>3. ctx'[h].request = r /\ ctx'[h].row = requests[r]
      BY <2>2, <3>2
    <3>4. /\ pc[h] = "idle" /\ UNCHANGED <<rows, history>> /\ r \in RequestIds
          /\ requests[r].status = "in_review" /\ requests[r].step \in 2..5
          /\ pc'[h] = "findStep"
      BY <3>1, ContextTypes DEF Review
    <3> QED BY <3>3, <3>4 DEF Reads
  <2>5. CASE \E a \in Applicants : AcceptTraining(h, a, r)
    <3>1. PICK a \in Applicants : AcceptTraining(h, a, r)
      BY <2>5
    <3>2. /\ r \in RequestIds /\ requests[r].user /\ requests[r].status = "in_review"
          /\ requests[r].step = 7 \/ requests[r].step = 8
      BY <3>1, EnablementAssumption DEF AcceptTraining, RequestOf, RequestIds
    <3>3. ctx'[h] = [NoContext EXCEPT !.op = "training", !.request = r, !.row = requests[r]]
      BY <3>1, ContextTypes DEF AcceptTraining
    <3>4. pc'[h] = IF requests[r].step = 7 THEN "findUser" ELSE "findTraining"
      BY <3>1, ContextTypes DEF AcceptTraining
    <3>5. pc[h] = "idle" /\ UNCHANGED <<rows, history>>
      BY <3>1 DEF AcceptTraining
    <3>6. ctx'[h].op = "training" /\ ctx'[h].request = r /\ ctx'[h].row = requests[r]
      BY <2>2, <3>3
    <3> QED BY <3>2, <3>4, <3>5, <3>6 DEF Reads, AtPassword
  <2> QED BY <2>1, <2>3, <2>4, <2>5
<1>5. CASE FindStep(h)
  BY <1>2, <1>5 DEF FindStep
<1>6. CASE \/ FindUser(h) \/ MarkPassword(h) \/ SaveStep(h) \/ SaveAccount(h)
           \/ SaveUserGroup(h) \/ SaveAccountRef(h) \/ FindTraining(h) \/ SaveTraining(h)
           \/ MarkTraining(h) \/ ActivateUser(h) \/ SaveActive(h)
  BY <1>2, <1>6, ContextTypes DEF FindUser, MarkPassword, SaveStep, SaveAccount, SaveUserGroup,
     SaveAccountRef, FindTraining, SaveTraining, MarkTraining, ActivateUser, SaveActive, GoesOn
<1>7. CASE SaveSynced(h) \/ SaveApproved(h) \/ SaveTrained(h)
  <2>1. \A row : [ctx[h] EXCEPT !.row = row].request = ctx[h].request
    BY ContextTypes DEF Context
  <2>2. CASE SaveSynced(h)
    BY <1>2, <2>1, <2>2, ContextTypes DEF SaveSynced, GoesOn
  <2>3. CASE SaveApproved(h)
    BY <1>2, <2>1, <2>3, ContextTypes DEF SaveApproved, GoesOn
  <2>4. CASE SaveTrained(h)
    BY <1>2, <2>1, <2>4, ContextTypes DEF SaveTrained, GoesOn
  <2> QED BY <1>7, <2>2, <2>3, <2>4
<1> QED
  BY <1>2, <1>3, <1>4, <1>5, <1>6, <1>7
  DEF Turn, Start, Continue, PartnerTaken, SaveSteps, SaveRejected, AccountTaken,
      MarkAccount, TrainingTaken, MarkActivation, SaveUser, IdsUsedUp, Fail, Throw

\* A step writes the step rows of one request: all of them, or some of those there are.
LEMMA StepsWritten ==
  ASSUME TypeOK, HeldInv, StepRowsInv, NEW h \in Handlers, Turn(h)
  PROVE  \/ UNCHANGED steps
         \/ LET r == ctx[h].request
            IN /\ r \in RequestIds /\ r \in Requests
               /\ \A s \in Requests \ {r} : steps'[s] = steps[s]
               /\ steps' \in [Requests -> SUBSET Steps] /\ 1 \in steps'[r]
               /\ \/ pc[h] = "saveSteps" /\ steps[r] = {}
                  \/ steps[r] # {} /\ 1 \in steps[r]
               /\ r \in raced' \/ steps[r] \subseteq steps'[r]
<1> DEFINE r == ctx[h].request
<1>1. steps \in [Requests -> SUBSET Steps] /\ \A q \in RequestIds : q \in Requests
  BY DEF TypeOK, RequestIds
<1>2. CASE SaveSteps(h)
  <2>1. r \in RequestIds /\ steps[r] = {} /\ pc[h] = "saveSteps"
    BY <1>2 DEF SaveSteps, HeldInv, HoldsRow, StepRowsInv
  <2>2. steps' = [steps EXCEPT ![r] = {1}]
    BY <1>2 DEF SaveSteps
  <2>3. {1} \in SUBSET Steps
    BY DEF Steps
  <2> QED BY <1>1, <2>1, <2>2, <2>3
<1>3. CASE SaveStep(h)
  <2> DEFINE s == ctx[h].row.step
  <2>1. r \in RequestIds /\ pc[h] = "saveStep" /\ s \in 2..5
    BY <1>3 DEF SaveStep, HeldInv, HoldsRow, Savers, Reviews
  <2>2. steps[r] # {} /\ 1 \in steps[r]
    BY <1>1, <2>1 DEF StepRowsInv
  <2>3. PICK some \in {steps[r] \cup {s}, steps[r] \ {s}} :
          /\ steps' = [steps EXCEPT ![r] = some]
          /\ some = steps[r] \cup {s} \/ ~ctx[h].done
    BY <1>1, <1>3, <2>1 DEF SaveStep
  <2>4. r \in raced' \/ ctx[h].done = (s \in steps[r])
    BY <1>3 DEF SaveStep
  <2>5. 1 # s /\ s \in Steps
    BY <2>1 DEF Steps
  <2>6. some \in SUBSET Steps /\ 1 \in some
    BY <1>1, <2>1, <2>2, <2>5
  <2>7. r \in raced' \/ steps[r] \subseteq some
    BY <2>3, <2>4
  <2> QED BY <1>1, <2>1, <2>2, <2>3, <2>6, <2>7
<1>4. CASE /\ \E s \in {6, 7, 8, 9} : Mark(h, s)
           /\ pc[h] \in {"markPassword", "markAccount", "markTraining", "markActivation"}
  <2>1. r \in RequestIds
    BY <1>4 DEF HeldInv, HoldsRow, Savers, Passwords, Trainings
  <2>2. steps[r] # {} /\ 1 \in steps[r]
    BY <1>1, <1>4, <2>1 DEF StepRowsInv
  <2>3. PICK s \in {6, 7, 8, 9} : Mark(h, s)
    BY <1>4
  <2>4. s \in Steps /\ steps' = [steps EXCEPT ![r] = steps[r] \cup {s}]
    BY <1>1, <2>1, <2>3 DEF Mark, Steps
  <2> QED BY <1>1, <2>1, <2>2, <2>4
<1> QED
  BY <1>2, <1>3, <1>4, StepRowsTurn

LEMMA StepRowsInvStep ==
  ASSUME TypeOK, HeldInv, StepRowsInv, NEW h \in Handlers, Turn(h)
  PROVE  StepRowsInv' /\ steps' \in [Requests -> SUBSET Steps]
<1> DEFINE q == ctx[h].request
<1>0. /\ None \notin Requests /\ RequestIds \subseteq RequestIds'
      /\ \A r \in RequestIds : r \in Requests
  BY RowsGrow DEF None, Requests, RequestIds
<1>1. \/ UNCHANGED steps
      \/ /\ q \in RequestIds /\ q \in Requests
         /\ \A s \in Requests \ {q} : steps'[s] = steps[s]
         /\ steps' \in [Requests -> SUBSET Steps] /\ 1 \in steps'[q]
         /\ (pc[h] = "saveSteps" /\ steps[q] = {}) \/ steps[q] # {}
  BY StepsWritten
<1>2. steps' \in [Requests -> SUBSET Steps]
  BY <1>1 DEF TypeOK
<1>3. \A r \in Requests : steps'[r] = {} \/ 1 \in steps'[r]
  BY <1>1 DEF StepRowsInv
<1>4. \A r \in Requests \ RequestIds' : steps'[r] = {}
  BY <1>0, <1>1 DEF StepRowsInv
<1>5. ASSUME NEW r \in Requests, steps'[r] = {}
      PROVE  /\ steps[r] = {} /\ requests[r].step = 2 /\ requests[r].status = "in_review"
             /\ \A g \in Handlers : ctx[g].request = r => pc[g] \in {"saveSteps", "findStep"}
  <2>1. steps[r] = {}
    BY <1>1, <1>5
  <2> QED BY <2>1 DEF StepRowsInv
<1>6. ASSUME NEW r \in Requests, steps'[r] = {}
      PROVE  requests'[r].step = 2 /\ requests'[r].status = "in_review"
  <2>1. CASE UNCHANGED requests
    BY <1>5, <1>6, <2>1
  <2>2. CASE \E s : Inserts(h, s)
    BY <1>5, <1>6, <2>2, InsertFacts
  <2>3. CASE \E row : Saves(h, row) /\ SaveRow(h, row)
    <3>1. pc[h] \notin {"saveSteps", "findStep"}
      BY <2>3 DEF Saves
    <3>2. q # r
      BY <1>5, <1>6, <3>1
    <3> QED BY <1>5, <1>6, <2>3, <3>2, SaveFacts
  <2> QED BY <2>1, <2>2, <2>3, RequestTurn
<1>7. ASSUME NEW r \in Requests, steps'[r] = {}, NEW g \in Handlers, ctx'[g].request = r
      PROVE  pc'[g] \in {"saveSteps", "findStep"}
  <2>1. CASE g # h
    BY <1>5, <1>7, <2>1, OthersWait
  <2>2. CASE g = h
    <3>1. CASE ctx'[h].request = None
      BY <1>0, <1>7, <2>2, <3>1
    <3>2. CASE \E s : Inserts(h, s)
      BY <2>2, <3>2 DEF Inserts
    <3>3. CASE \E s \in RequestIds : Reads(h, s)
      BY <1>5, <1>7, <2>2, <3>3 DEF Reads, AtPassword
    <3>4. CASE FindStep(h) /\ steps[q] # {}
      <4>1. ctx'[h].request = q
        BY <3>4, ContextTypes DEF FindStep, Context
      <4> QED BY <1>5, <1>7, <2>2, <3>4, <4>1
    <3>5. CASE GoesOn(h)
      BY <1>5, <1>7, <2>2, <3>5 DEF GoesOn
    <3> QED BY <3>1, <3>2, <3>3, <3>4, <3>5, HandlerTurn
  <2> QED BY <2>1, <2>2
<1>8. ASSUME NEW g \in Handlers, pc'[g] = "saveSteps", g # h
      PROVE  /\ pc[g] = "saveSteps" /\ ctx'[g] = ctx[g] /\ ctx[g].request \in RequestIds
             /\ steps'[ctx'[g].request] = {}
  <2>1. pc[g] = "saveSteps" /\ ctx'[g] = ctx[g]
    BY <1>8, OthersWait
  <2>2. ctx[g].request \in RequestIds /\ steps[ctx[g].request] = {}
    BY <2>1 DEF HeldInv, HoldsRow, StepRowsInv
  <2>3. pc[h] = "saveSteps" => q # ctx[g].request
    BY <1>8, <2>1 DEF StepRowsInv
  <2>4. steps'[ctx[g].request] = {}
    BY <1>0, <1>1, <2>2, <2>3
  <2> QED BY <2>1, <2>2, <2>4
<1>9. ASSUME pc'[h] = "saveSteps"
      PROVE  \E r : Inserts(h, r)
  <2>1. FindStep(h) /\ steps[q] # {} => pc'[h] = "saveStep"
    BY ContextTypes DEF FindStep
  <2> QED BY <1>9, <2>1, HandlerTurn DEF Reads, GoesOn
<1>10. ASSUME NEW g \in Handlers, pc'[g] = "saveSteps" PROVE steps'[ctx'[g].request] = {}
  <2>1. CASE g = h
    <3>1. PICK r : Inserts(h, r)
      BY <1>9, <1>10, <2>1
    <3>2. r \in Requests /\ r \notin RequestIds /\ ctx'[h].request = r
      BY <3>1, InsertFacts
    <3> QED BY <2>1, <3>1, <3>2 DEF Inserts, StepRowsInv
  <2> QED BY <1>8, <1>10, <2>1
<1>11. ASSUME NEW f \in Handlers, NEW g \in Handlers, pc'[f] = "saveSteps", pc'[g] = "saveSteps",
              ctx'[f].request = ctx'[g].request
       PROVE  f = g
  <2>1. ASSUME NEW k \in Handlers, k # h, pc'[k] = "saveSteps", pc'[h] = "saveSteps"
        PROVE  ctx'[k].request # ctx'[h].request
    BY <1>8, <1>9, <2>1, InsertFacts
  <2>2. CASE f # h /\ g # h
    BY <1>8, <1>11, <2>2 DEF StepRowsInv
  <2> QED BY <1>11, <2>1, <2>2
<1> QED
  BY <1>2, <1>3, <1>4, <1>5, <1>6, <1>7, <1>10, <1>11 DEF StepRowsInv

\* The step that takes a handler to a call.
LEMMA Arrivals ==
  ASSUME TypeOK, NEW h \in Handlers, Turn(h)
  PROVE  /\ pc'[h] = "saveApproved" => SaveStep(h) /\ ctx[h].op = "approve"
         /\ pc'[h] = "saveSynced" => MarkPassword(h)
         /\ pc'[h] = "saveTrained" => MarkTraining(h)
         /\ pc'[h] = "savePartner" => \E a \in Applicants : Register(h, a)
         /\ pc'[h] = "saveRequest" => SavePartner(h) \/ \E a \in Applicants : Register(h, a)
<1>1. CASE Leave(h)
  BY <1>1, ContextTypes DEF Leave
<1>2. CASE \/ \E a \in Applicants : Register(h, a)
           \/ \E r \in Requests : Get(h, r)
           \/ \E r \in Requests, decision \in {"approve", "reject"} : Review(h, decision, r)
           \/ \E a \in Applicants, r \in Requests : AcceptTraining(h, a, r)
           \/ \E a \in Applicants, op \in UserOps : ReadUser(h, op, a)
  BY <1>2, ContextTypes DEF Register, Get, Review, AcceptTraining, ReadUser
<1>3. CASE \/ FindUser(h) \/ SaveSynced(h) \/ FindStep(h) \/ SaveApproved(h) \/ SaveAccount(h)
           \/ SaveUserGroup(h) \/ SaveAccountRef(h) \/ FindTraining(h) \/ SaveTraining(h)
           \/ SaveTrained(h) \/ ActivateUser(h) \/ SaveActive(h) \/ SaveRequest(h)
  BY <1>1, <1>3, ContextTypes DEF FindUser, SaveSynced, FindStep, SaveApproved, SaveAccount,
     SaveUserGroup, SaveAccountRef, FindTraining, SaveTraining, SaveTrained, ActivateUser,
     SaveActive, SaveRequest
<1>4. CASE SavePartner(h) \/ MarkPassword(h) \/ SaveStep(h) \/ MarkTraining(h)
  BY <1>4, ContextTypes DEF SavePartner, MarkPassword, SaveStep, MarkTraining
<1> QED
  BY <1>1, <1>2, <1>3, <1>4
  DEF Turn, Start, Continue, PartnerTaken, SaveSteps, SaveRejected, AccountTaken,
      MarkAccount, TrainingTaken, MarkActivation, SaveUser, IdsUsedUp, Fail, Throw

\* Until a stale save, the steps of a request are not taken back.
LEMMA StepsGrow ==
  ASSUME TypeOK, HeldInv, StepRowsInv, NEW h \in Handlers, Turn(h), NEW r \in Requests
  PROVE  r \in raced' \/ steps[r] \subseteq steps'[r]
  BY StepsWritten

LEMMA ProgressInvStep ==
  ASSUME TypeOK, HeldInv, StepRowsInv, ProgressInv, NEW h \in Handlers, Turn(h)
  PROVE  ProgressInv'
<1>0. /\ \A r \in RequestIds : r \in Requests
      /\ raced \subseteq raced' /\ RequestIds \subseteq RequestIds'
  BY HistoryGrows, RowsGrow DEF RequestIds
<1>1. ASSUME NEW r \in RequestIds', r \notin raced', requests'[r].step > 2
      PROVE  (1..(requests'[r].step - 1)) \ {6} \subseteq steps'[r]
  <2>1. r \in Requests /\ steps[r] \subseteq steps'[r] /\ r \notin raced
    BY <1>0, <1>1, StepsGrow DEF RequestIds
  <2>2. CASE requests'[r] = requests[r]
    <3>1. r \in RequestIds
      BY <2>1, <2>2 DEF RequestIds
    <3>2. (1..(requests[r].step - 1)) \ {6} \subseteq steps[r]
      BY <1>1, <2>1, <2>2, <3>1 DEF ProgressInv, StepsBackProgress
    <3> QED BY <2>1, <2>2, <3>2
  <2>3. CASE \E s : Inserts(h, s)
    BY <1>1, <2>1, <2>2, <2>3, InsertFacts
  <2>4. CASE UNCHANGED steps /\ \E row : Saves(h, row) /\ SaveRow(h, row)
    <3>1. PICK row : Saves(h, row) /\ SaveRow(h, row)
      BY <2>4
    <3>2. CASE r # ctx[h].request
      BY <2>1, <2>2, <3>1, <3>2, SaveFacts
    <3>3. CASE r = ctx[h].request
      <4>1. /\ requests'[r] = row /\ row \in RequestRow /\ requests[r] = ctx[h].row
            /\ ctx[h].row \in RequestRow /\ r \in RequestIds
        BY <1>1, <3>1, <3>3, SaveFacts, ContextTypes
      <4> DEFINE n == ctx[h].row.step
      <4>2. n \in 2..9 /\ 1 \in steps[r]
        <5>1. pc[h] \notin {"saveSteps", "findStep"}
          BY <3>1 DEF Saves
        <5> QED BY <2>1, <3>3, <4>1, <5>1 DEF RequestRow, StepRowsInv
      <4>3. (1..(n - 1)) \ {6} \subseteq steps[r]
        <5>1. n > 2 => (1..(n - 1)) \ {6} \subseteq steps[r]
          BY <2>1, <4>1 DEF ProgressInv, StepsBackProgress
        <5>2. n = 2 => 1..(n - 1) = {1}
          OBVIOUS
        <5> QED BY <4>2, <5>1, <5>2
      <4>4. row.step = n \/ (row.step = n + 1 /\ n \in steps[r] \cup {6})
        <5>1. LeftBehind(h) /\ HoldsRow(h)
          BY <2>1, <3>3 DEF ProgressInv, HeldInv
        <5>2. CASE pc[h] = "saveApproved"
          BY <3>1, <3>3, <4>1, <5>1, <5>2 DEF Saves, LeftBehind, RequestRow
        <5>3. CASE pc[h] = "saveSynced"
          <6>1. n = 7 /\ 7 \in steps[r]
            BY <3>3, <5>1, <5>3 DEF LeftBehind, HoldsRow, Passwords, AtPassword
          <6>2. row.step = 8
            BY <3>1, <4>1, <5>3 DEF Saves, RequestRow
          <6> QED BY <6>1, <6>2
        <5>4. CASE pc[h] = "saveAccountRef"
          <6>1. n = 6
            BY <5>1, <5>4 DEF HoldsRow, Creations
          <6>2. row.step = 7
            BY <3>1, <4>1, <5>4 DEF Saves, RequestRow
          <6> QED BY <6>1, <6>2
        <5>5. CASE pc[h] = "saveTrained"
          <6>1. n = 8 /\ 8 \in steps[r]
            BY <3>3, <5>1, <5>5 DEF LeftBehind, HoldsRow, Trainings
          <6>2. row.step = 9
            BY <3>1, <4>1, <5>5 DEF Saves, RequestRow
          <6> QED BY <6>1, <6>2
        <5>6. CASE pc[h] = "saveRejected" \/ pc[h] = "saveActive"
          BY <3>1, <4>1, <5>6 DEF Saves, RequestRow
        <5> QED BY <3>1, <5>2, <5>3, <5>4, <5>5, <5>6 DEF Saves
      <4> HIDE DEF n
      <4>5. 1..((n + 1) - 1) = (1..(n - 1)) \cup {n}
        BY <4>2
      <4> QED BY <2>1, <4>1, <4>2, <4>3, <4>4, <4>5
    <3> QED BY <3>2, <3>3
  <2> QED BY <2>1, <2>2, <2>3, <2>4, RequestTurn
<1>2. ASSUME NEW g \in Handlers, ctx'[g].request \notin raced'
      PROVE  LeftBehind(g)'
  <2>1. CASE g # h
    <3>1. pc'[g] = pc[g] /\ ctx'[g] = ctx[g] /\ LeftBehind(g)
      BY <1>0, <1>2, <2>1, OthersWait DEF ProgressInv
    <3>2. pc[g] \in {"saveApproved", "saveSynced", "saveTrained"} =>
            ctx[g].request \in Requests
      BY <1>0 DEF HeldInv, HoldsRow, Savers, Reviews, Passwords, Trainings
    <3>3. pc[g] \in {"saveApproved", "saveSynced", "saveTrained"} =>
            steps[ctx[g].request] \subseteq steps'[ctx[g].request]
      BY <1>2, <3>1, <3>2, StepsGrow
    <3> QED BY <3>1, <3>3 DEF LeftBehind
  <2>2. CASE g = h
    <3>1. pc[h] \in {"saveStep", "markPassword", "markTraining"} =>
            ctx[h].request \in Requests
      BY <1>0 DEF HeldInv, HoldsRow, Savers, Reviews, Passwords, Trainings
    <3>2. steps \in [Requests -> SUBSET Steps]
      BY DEF TypeOK
    <3>3. CASE pc'[h] = "saveApproved"
      <4>1. SaveStep(h) /\ ctx[h].op = "approve" /\ pc[h] = "saveStep" /\ ctx'[h] = ctx[h]
        BY <3>3, Arrivals DEF SaveStep
      <4>2. steps' = [steps EXCEPT ![ctx[h].request] = @ \cup {ctx[h].row.step}]
        BY <4>1 DEF SaveStep
      <4> QED BY <2>2, <3>1, <3>2, <3>3, <4>1, <4>2 DEF LeftBehind
    <3>4. CASE pc'[h] = "saveSynced"
      <4>1. Mark(h, 7) /\ pc[h] = "markPassword" /\ ctx'[h] = ctx[h]
        BY <3>4, Arrivals DEF MarkPassword
      <4> QED BY <2>2, <3>1, <3>2, <3>4, <4>1 DEF LeftBehind, Mark
    <3>5. CASE pc'[h] = "saveTrained"
      <4>1. Mark(h, 8) /\ pc[h] = "markTraining" /\ ctx'[h] = ctx[h]
        BY <3>5, Arrivals DEF MarkTraining
      <4> QED BY <2>2, <3>1, <3>2, <3>5, <4>1 DEF LeftBehind, Mark
    <3> QED BY <2>2, <3>3, <3>4, <3>5 DEF LeftBehind
  <2> QED BY <2>1, <2>2
<1> QED
  BY <1>1, <1>2 DEF ProgressInv, StepsBackProgress

LEMMA ActiveStep ==
  ASSUME TypeOK, HeldInv, RequestInv, ActiveIsEarned, NEW h \in Handlers, Turn(h)
  PROVE  ActiveIsEarned'
<1> SUFFICES ASSUME NEW r \in RequestIds', r \notin raced', requests'[r].status = "active"
             PROVE  LET a == requests'[r].applicant
                    IN /\ requests'[r].user /\ accounts'[a].exists
                       /\ a \in groups' /\ a \in training' /\ requests'[r].step = 9
  BY DEF ActiveIsEarned
<1>1. /\ r \in Requests /\ raced \subseteq raced'
      /\ groups \subseteq groups' /\ training \subseteq training'
      /\ \A a \in Applicants : accounts[a].exists => accounts'[a].exists
  BY HistoryGrows, SetsGrow, RowsGrow DEF RequestIds
<1>2. CASE requests'[r] = requests[r]
  <2>1. r \in RequestIds /\ r \notin raced /\ requests[r].applicant \in Applicants
    BY <1>1, <1>2 DEF RequestIds, TypeOK, RequestRow
  <2> QED BY <1>1, <1>2, <2>1 DEF ActiveIsEarned
<1>3. CASE \E s : Inserts(h, s)
  BY <1>1, <1>2, <1>3, InsertFacts
<1>4. CASE \E row : Saves(h, row) /\ SaveRow(h, row)
  <2>1. PICK row : Saves(h, row) /\ SaveRow(h, row)
    BY <1>4
  <2>2. CASE r # ctx[h].request
    BY <1>1, <1>2, <2>1, <2>2, SaveFacts
  <2>3. CASE r = ctx[h].request
    <3>1. /\ requests'[r] = row /\ ctx[h].row \in RequestRow /\ HoldsRow(h) /\ HoldsAccount(h)
          /\ row.applicant = ctx[h].row.applicant /\ pc[h] \in Savers
          /\ row.applicant \in Applicants
      BY <2>1, <2>3, SaveFacts, ContextTypes DEF HeldInv, TypeOK, RequestIds, RequestRow
    <3>2. ctx[h].row.status = "in_review"
      BY <3>1 DEF HoldsRow
    <3>3. pc[h] = "saveActive"
      BY <2>1, <3>1, <3>2 DEF Saves, RequestRow
    <3>4. row.user = ctx[h].row.user /\ row.step = ctx[h].row.step
      BY <2>1, <3>1, <3>3 DEF Saves, RequestRow
    <3>5. ctx[h].row.user /\ ctx[h].row.step = 9 /\ ctx[h].row.applicant \in training
      BY <3>1, <3>3 DEF HoldsRow, HoldsAccount, Activations
    <3>6. accounts[row.applicant].exists /\ row.applicant \in groups
      BY <3>1, <3>5 DEF HoldsAccount
    <3> QED BY <1>1, <3>1, <3>4, <3>5, <3>6
  <2> QED BY <2>2, <2>3
<1> QED
  BY <1>2, <1>3, <1>4, RequestTurn

\* What becomes of a handler that alone can take its request on: it goes on, it saves
\* the request, or it dies and leaves the request torn.
LEMMA AloneTurn ==
  ASSUME TypeOK, NEW h \in Handlers, Turn(h)
  PROVE  /\ pc[h] = "saveSteps" =>
              SaveSteps(h) \/ torn' = torn \cup {ctx[h].request}
         /\ pc[h] = "saveAccount" =>
              \/ pc'[h] = "saveUserGroup" /\ ctx'[h] = ctx[h]
              \/ torn' = torn \cup {ctx[h].request}
         /\ pc[h] = "saveUserGroup" =>
              \/ pc'[h] = "saveAccountRef" /\ ctx'[h] = ctx[h]
              \/ torn' = torn \cup {ctx[h].request}
         /\ pc[h] = "saveAccountRef" =>
              SaveAccountRef(h) \/ torn' = torn \cup {ctx[h].request}
         /\ pc[h] = "activateUser" =>
              \/ pc'[h] = "saveActive" /\ ctx'[h] = ctx[h]
              \/ torn' = torn \cup {ctx[h].request}
         /\ pc[h] = "saveActive" =>
              SaveActive(h) \/ torn' = torn \cup {ctx[h].request}
<1>1. CASE Throw(h)
  BY <1>1 DEF Throw, Alone
<1>2. CASE SaveSteps(h) \/ SaveAccount(h) \/ SaveUserGroup(h) \/ SaveAccountRef(h)
           \/ ActivateUser(h) \/ SaveActive(h)
  BY <1>2, ContextTypes DEF SaveSteps, SaveAccount, SaveUserGroup, SaveAccountRef,
     ActivateUser, SaveActive
<1>3. CASE pc[h] \notin {"saveSteps", "saveAccount", "saveUserGroup", "saveAccountRef",
                         "activateUser", "saveActive"}
  BY <1>3
<1> QED
  BY <1>1, <1>2, <1>3
  DEF Turn, Start, Register, Get, Review, AcceptTraining, ReadUser, Continue, SavePartner,
      PartnerTaken, SaveRequest, FindUser, MarkPassword, SaveSynced, FindStep, SaveStep,
      SaveRejected, SaveApproved, AccountTaken, MarkAccount, FindTraining, SaveTraining,
      TrainingTaken, MarkTraining, SaveTrained, MarkActivation, SaveUser, IdsUsedUp, Fail

\* The saves after which a handler goes on, or the request waits for it no more.
LEMMA SaversSave ==
  ASSUME TypeOK, NEW h \in Handlers, Turn(h), requests' # requests
  PROVE  /\ pc[h] = "saveApproved" => SaveApproved(h)
         /\ pc[h] = "saveTrained" => SaveTrained(h)
<1>1. Fail(h) => UNCHANGED requests
  BY DEF Fail, Throw, rows
<1>2. CASE Start(h)
  BY <1>2 DEF Start, Register, Get, Review, AcceptTraining, ReadUser
<1>3. CASE \/ SavePartner(h) \/ PartnerTaken(h) \/ SaveRequest(h) \/ SaveSteps(h)
           \/ FindUser(h) \/ MarkPassword(h) \/ SaveSynced(h) \/ FindStep(h) \/ SaveStep(h)
           \/ SaveRejected(h) \/ SaveAccount(h) \/ AccountTaken(h) \/ SaveUserGroup(h)
  BY <1>3 DEF SavePartner, PartnerTaken, SaveRequest, SaveSteps, FindUser, MarkPassword,
     SaveSynced, FindStep, SaveStep, SaveRejected, SaveAccount, AccountTaken, SaveUserGroup
<1>4. CASE \/ SaveAccountRef(h) \/ MarkAccount(h) \/ FindTraining(h) \/ SaveTraining(h)
           \/ TrainingTaken(h) \/ MarkTraining(h) \/ ActivateUser(h) \/ SaveActive(h)
           \/ MarkActivation(h) \/ SaveUser(h) \/ IdsUsedUp(h)
  BY <1>4 DEF SaveAccountRef, MarkAccount, FindTraining, SaveTraining, TrainingTaken,
     MarkTraining, ActivateUser, SaveActive, MarkActivation, SaveUser, IdsUsedUp
<1>5. CASE SaveApproved(h) \/ SaveTrained(h)
  BY <1>5 DEF SaveApproved, SaveTrained
<1> QED
  BY <1>1, <1>2, <1>3, <1>4, <1>5 DEF Turn, Continue

LEMMA ReachableInvStep ==
  ASSUME TypeOK, HeldInv, ReachableInv, NEW h \in Handlers, Turn(h)
  PROVE  ReachableInv'
<1> DEFINE q == ctx[h].request
<1>0. /\ raced \subseteq raced' /\ torn \subseteq torn'
      /\ requests' \in [Requests -> RequestRow]
      /\ \A r \in RequestIds : r \in Requests /\ requests'[r].applicant = requests[r].applicant
      /\ HoldsRow(h) /\ HoldsApplicant(h)
  BY HistoryGrows, RowsGrow DEF HeldInv, RequestIds
<1> SUFFICES ASSUME NEW a \in Applicants, accounts'[a].exists
             PROVE  \E r \in RequestOf(a)' :
                      \/ requests'[r].user
                      \/ r \in raced' \cup torn'
                      \/ \E g \in Handlers : At(g, r, {"saveUserGroup", "saveAccountRef"})'
  BY DEF ReachableInv
<1>1. CASE accounts[a].exists
  <2>1. PICK r \in RequestOf(a) :
          \/ requests[r].user
          \/ r \in raced \cup torn
          \/ \E g \in Handlers : At(g, r, {"saveUserGroup", "saveAccountRef"})
    BY <1>1 DEF ReachableInv
  <2>2. r \in Requests /\ r \in RequestIds /\ r \in RequestOf(a)'
    BY <1>0, EnablementAssumption DEF RequestOf, RequestIds
  <2>3. CASE requests[r].user
    <3>1. CASE UNCHANGED requests
      BY <2>2, <2>3, <3>1
    <3>2. CASE \E s : Inserts(h, s)
      BY <2>2, <2>3, <3>2, InsertFacts
    <3>3. CASE \E row : Saves(h, row) /\ SaveRow(h, row)
      <4>1. PICK row : Saves(h, row) /\ SaveRow(h, row)
        BY <3>3
      <4>2. CASE r # q
        BY <2>2, <2>3, <4>1, <4>2, SaveFacts
      <4>3. CASE r = q /\ r \notin raced'
        <5>1. requests'[r] = row /\ requests[r] = ctx[h].row /\ ctx[h].row \in RequestRow
          BY <4>1, <4>3, SaveFacts, ContextTypes
        <5>2. row.user = ctx[h].row.user \/ row.user = TRUE
          BY <4>1, <5>1 DEF Saves, RequestRow
        <5> QED BY <2>2, <2>3, <5>1, <5>2
      <4> QED BY <2>2, <4>2, <4>3
    <3> QED BY <3>1, <3>2, <3>3, RequestTurn
  <2>4. CASE r \in raced \cup torn
    BY <1>0, <2>2, <2>4
  <2>5. CASE \E g \in Handlers : At(g, r, {"saveUserGroup", "saveAccountRef"})
    <3>1. PICK g \in Handlers : At(g, r, {"saveUserGroup", "saveAccountRef"})
      BY <2>5
    <3>2. CASE g # h
      BY <2>2, <3>1, <3>2, OthersWait DEF At
    <3>3. CASE g = h /\ torn' = torn \cup {q}
      BY <2>2, <3>1, <3>3 DEF At
    <3>4. CASE g = h /\ pc[h] = "saveUserGroup" /\ pc'[h] = "saveAccountRef" /\ ctx'[h] = ctx[h]
      BY <2>2, <3>1, <3>4 DEF At
    <3>5. CASE g = h /\ SaveAccountRef(h)
      <4>1. requests' = [requests EXCEPT ![r] = [ctx[h].row EXCEPT !.user = TRUE, !.step = 7]]
        BY <3>1, <3>5 DEF SaveAccountRef, SaveRow, At
      <4>2. requests'[r].user
        BY <2>2, <4>1, ContextTypes DEF TypeOK, RequestRow
      <4> QED BY <2>2, <4>2
    <3> QED BY <3>1, <3>2, <3>3, <3>4, <3>5, AloneTurn DEF At
  <2> QED BY <2>1, <2>3, <2>4, <2>5
<1>2. CASE ~accounts[a].exists
  <2>0. accounts \in [Applicants -> Account]
    BY DEF TypeOK
  <2>1. ~ActivateUser(h)
    <3>1. SUFFICES ASSUME ActivateUser(h) PROVE accounts'[a].exists = accounts[a].exists
      BY <1>2
    <3> QED BY <2>0, <3>1 DEF ActivateUser, Account
  <2>2. ~SaveUser(h)
    <3>1. SaveUser(h) => accounts[ctx[h].applicant].exists
      BY <1>0 DEF SaveUser, HoldsApplicant
    <3> QED BY <1>2, <2>0, <3>1 DEF SaveUser
  <2>3. SaveAccount(h)
    BY <1>2, <2>1, <2>2, AccountTurn
  <2>4. /\ a = ctx[h].row.applicant /\ pc[h] = "saveAccount" /\ UNCHANGED requests
        /\ pc'[h] = "saveUserGroup" /\ ctx'[h] = ctx[h]
    BY <1>2, <2>0, <2>3, ContextTypes DEF SaveAccount
  <2>5. q \in RequestOf(a)'
    <3>1. q \in RequestIds /\ requests[q].applicant = a
      BY <1>0, <2>4 DEF HoldsRow, Savers, Creations
    <3> QED BY <1>0, <2>4, <3>1 DEF RequestOf
  <2>6. pc'[h] = "saveUserGroup" /\ ctx'[h].request = q
    BY <2>4
  <2> HIDE DEF q
  <2> QED BY <2>5, <2>6 DEF At
<1> QED
  BY <1>1, <1>2

LEMMA WaitingInvStep ==
  ASSUME TypeOK, HeldInv, StepRowsInv, WaitingInv, NEW h \in Handlers, Turn(h)
  PROVE  WaitingInv'
<1> SUFFICES ASSUME NEW r \in RequestIds', r \notin raced', r \notin torn',
                    requests'[r].status = "in_review"
             PROVE  /\ requests'[r].step \in 2..5 =>
                         steps'[r] # {} \/ \E g \in Handlers : At(g, r, {"saveSteps"})'
                    /\ requests'[r].step = 6 => \E g \in Handlers : At(g, r, Creations)'
                    /\ requests'[r].step \in {7, 8} => requests'[r].user
                    /\ requests'[r].step = 9 => \E g \in Handlers : At(g, r, Activations)'
  BY DEF WaitingInv
<1> DEFINE q == ctx[h].request
<1>0. /\ r \in Requests /\ raced \subseteq raced' /\ torn \subseteq torn'
      /\ steps \in [Requests -> SUBSET Steps] /\ requests \in [Requests -> RequestRow]
  BY HistoryGrows DEF RequestIds, TypeOK
<1>1. steps[r] # {} => steps'[r] # {}
  BY <1>0, StepsWritten
<1>2. CASE requests'[r] = requests[r]
  <2>1. r \in RequestIds \ (raced \cup torn) /\ requests[r].status = "in_review"
    BY <1>0, <1>2 DEF RequestIds
  <2>2. ASSUME NEW g \in Handlers, At(g, r, {"saveSteps"})
        PROVE  steps'[r] # {} \/ \E k \in Handlers : At(k, r, {"saveSteps"})'
    <3>1. CASE g # h
      BY <2>2, <3>1, OthersWait DEF At
    <3>2. CASE g = h
      <4>1. SaveSteps(h)
        BY <2>2, <3>2, AloneTurn DEF At
      <4>2. steps'[r] = {1}
        BY <1>0, <2>2, <3>2, <4>1 DEF SaveSteps, At
      <4> QED BY <4>2
    <3> QED BY <3>1, <3>2
  <2>3. ASSUME NEW g \in Handlers, At(g, r, Creations), requests[r].step = 6
        PROVE  \E k \in Handlers : At(k, r, Creations)'
    <3>1. CASE g # h
      BY <2>3, <3>1, OthersWait DEF At
    <3>2. CASE g = h
      <4>1. ~SaveAccountRef(h)
        <5>1. SaveAccountRef(h) =>
                requests' = [requests EXCEPT ![r] = [ctx[h].row EXCEPT !.user = TRUE, !.step = 7]]
          BY <2>3, <3>2 DEF SaveAccountRef, SaveRow, At
        <5>2. [ctx[h].row EXCEPT !.user = TRUE, !.step = 7].step = 7
          BY ContextTypes DEF RequestRow
        <5>3. SaveAccountRef(h) => requests'[r].step = 7
          BY <1>0, <5>1, <5>2
        <5> QED BY <1>2, <2>3, <5>3
      <4>2. torn' # torn \cup {ctx[h].request}
        BY <2>3, <3>2 DEF At
      <4>3. ctx'[h] = ctx[h] /\ pc'[h] \in Creations
        BY <2>3, <3>2, <4>1, <4>2, AloneTurn DEF At, Creations
      <4> QED BY <2>3, <3>2, <4>3 DEF At
    <3> QED BY <3>1, <3>2
  <2>4. ASSUME NEW g \in Handlers, At(g, r, Activations)
        PROVE  \E k \in Handlers : At(k, r, Activations)'
    <3>1. CASE g # h
      BY <2>4, <3>1, OthersWait DEF At
    <3>2. CASE g = h
      <4>1. ~SaveActive(h)
        <5>1. SaveActive(h) =>
                requests' = [requests EXCEPT ![r] = [ctx[h].row EXCEPT !.status = "active"]]
          BY <2>4, <3>2 DEF SaveActive, SaveRow, At
        <5>2. [ctx[h].row EXCEPT !.status = "active"].status = "active"
          BY ContextTypes DEF RequestRow
        <5>3. SaveActive(h) => requests'[r].status = "active"
          BY <1>0, <5>1, <5>2
        <5> QED BY <5>3
      <4>2. torn' # torn \cup {ctx[h].request}
        BY <2>4, <3>2 DEF At
      <4>3. ctx'[h] = ctx[h] /\ pc'[h] \in Activations
        BY <2>4, <3>2, <4>1, <4>2, AloneTurn DEF At, Activations
      <4> QED BY <2>4, <3>2, <4>3 DEF At
    <3> QED BY <3>1, <3>2
  <2>5. /\ requests[r].step \in 2..5 =>
             steps[r] # {} \/ \E g \in Handlers : At(g, r, {"saveSteps"})
        /\ requests[r].step = 6 => \E g \in Handlers : At(g, r, Creations)
        /\ requests[r].step \in {7, 8} => requests[r].user
        /\ requests[r].step = 9 => \E g \in Handlers : At(g, r, Activations)
    BY <2>1 DEF WaitingInv
  <2> QED BY <1>1, <1>2, <2>2, <2>3, <2>4, <2>5
<1>3. CASE \E s : Inserts(h, s)
  <2>1. PICK s : Inserts(h, s)
    BY <1>3
  <2>2. CASE r = s
    <3>1. requests'[r].step = 2 /\ ctx'[h].request = r /\ pc'[h] = "saveSteps"
      BY <2>1, <2>2, InsertFacts DEF Inserts
    <3> QED BY <3>1 DEF At
  <2>3. CASE r # s
    BY <1>0, <1>2, <2>1, <2>3, InsertFacts
  <2> QED BY <2>2, <2>3
<1>4. CASE /\ UNCHANGED steps /\ requests'[r] # requests[r]
           /\ \E row : Saves(h, row) /\ SaveRow(h, row)
  <2>1. PICK row : Saves(h, row) /\ SaveRow(h, row)
    BY <1>4
  <2>2. CASE r # q
    BY <1>0, <1>2, <2>1, <2>2, SaveFacts
  <2>3. CASE r = q
    <3>1. /\ requests'[r] = row /\ HoldsRow(h) /\ ctx[h].row \in RequestRow
          /\ row.status = "in_review"
      BY <2>1, <2>3, SaveFacts, ContextTypes DEF HeldInv
    <3>2. steps'[r] # {}
      <4>1. pc[h] \notin {"saveSteps", "findStep"}
        BY <2>1 DEF Saves
      <4> QED BY <1>0, <1>1, <2>3, <4>1 DEF StepRowsInv
    <3>3. CASE pc[h] = "saveSynced"
      <4>1. ctx[h].row.user
        BY <3>1, <3>3 DEF HoldsRow, Passwords, AtPassword
      <4>2. row.step = 8 /\ row.user
        BY <2>1, <3>1, <3>3, <4>1 DEF Saves, RequestRow
      <4> QED BY <3>1, <4>2
    <3>4. CASE pc[h] = "saveApproved"
      <4>1. ctx[h].row.step \in 2..5
        BY <3>1, <3>4 DEF HoldsRow, Reviews
      <4>2. row = [ctx[h].row EXCEPT !.step = ctx[h].row.step + 1]
        BY <2>1, <3>4 DEF Saves
      <4>3. row.step = ctx[h].row.step + 1
        BY <3>1, <4>2 DEF RequestRow
      <4>4. CASE row.step = 6
        <5>1. SaveApproved(h)
          BY <1>4, <3>4, SaversSave
        <5>2. Goto(h, "saveAccount") /\ \E c : Keep(h, [ctx[h] EXCEPT !.row = c])
          BY <4>2, <4>4, <5>1 DEF SaveApproved
        <5>3. pc'[h] = "saveAccount" /\ ctx'[h].request = q
          BY <5>2, ContextTypes DEF Context
        <5>4. At(h, r, Creations)'
          BY <2>3, <5>3 DEF At, Creations
        <5> QED BY <3>1, <4>4, <5>4
      <4> QED BY <3>1, <3>2, <4>1, <4>3, <4>4
    <3>5. CASE pc[h] = "saveAccountRef"
      <4>1. row.step = 7 /\ row.user
        BY <2>1, <3>1, <3>5 DEF Saves, RequestRow
      <4> QED BY <3>1, <4>1
    <3>6. CASE pc[h] = "saveTrained"
      <4>1. row.step = 9
        BY <2>1, <3>1, <3>6 DEF Saves, RequestRow
      <4>2. SaveTrained(h)
        BY <1>4, <3>6, SaversSave
      <4>3. Goto(h, "activateUser") /\ \E c : Keep(h, [ctx[h] EXCEPT !.row = c])
        BY <4>2 DEF SaveTrained
      <4>4. pc'[h] = "activateUser" /\ ctx'[h].request = q
        BY <4>3, ContextTypes DEF Context
      <4>5. At(h, r, Activations)'
        BY <2>3, <4>4 DEF At, Activations
      <4> QED BY <3>1, <4>1, <4>5
    <3>7. CASE pc[h] = "saveRejected" \/ pc[h] = "saveActive"
      BY <2>1, <3>1, <3>7 DEF Saves, RequestRow
    <3> QED BY <2>1, <3>3, <3>4, <3>5, <3>6, <3>7 DEF Saves
  <2> QED BY <2>2, <2>3
<1> QED
  BY <1>2, <1>3, <1>4, RequestTurn

\* A registration is begun by Register, and keeps its applicant until it is over.
LEMMA RegisterTurn ==
  ASSUME TypeOK, HeldInv, HeldInv', NEW h \in Handlers, Turn(h), ctx'[h].op = "register"
  PROVE  \/ /\ Register(h, ctx'[h].applicant) /\ ctx'[h].applicant \in Applicants
            /\ UNCHANGED requests
            /\ pc'[h] = "saveRequest" => ctx'[h].applicant \in partners
         \/ /\ SavePartner(h) /\ ctx'[h] = ctx[h] /\ ctx[h].op = "register"
            /\ UNCHANGED requests /\ ctx[h].applicant \notin partners
         \/ \E r : Inserts(h, r) /\ ctx[h].op = "register" /\ ctx'[h].applicant = ctx[h].applicant
<1>1. pc'[h] \in {"savePartner", "saveRequest", "saveSteps"}
  BY DEF HeldInv, HoldsApplicant
<1>2. CASE \E a \in Applicants : Register(h, a)
  <2>1. PICK a \in Applicants : Register(h, a)
    BY <1>2
  <2>2. /\ ctx'[h] = [NoContext EXCEPT !.op = "register", !.applicant = a]
        /\ pc'[h] = IF a \in partners THEN "saveRequest" ELSE "savePartner"
        /\ UNCHANGED requests
    BY <2>1, ContextTypes DEF Register, rows
  <2>3. ctx'[h].applicant = a
    BY <2>2 DEF NoContext
  <2> QED BY <2>1, <2>2, <2>3
<1>3. CASE SavePartner(h)
  <2>1. ctx[h].op = "register"
    BY <1>3 DEF SavePartner, HeldInv, HoldsApplicant
  <2> QED BY <1>3, <2>1 DEF SavePartner
<1>4. CASE pc'[h] = "saveSteps"
  <2>1. PICK r : Inserts(h, r)
    <3>1. FindStep(h) /\ steps[ctx[h].request] # {} => pc'[h] = "saveStep"
      BY ContextTypes DEF FindStep
    <3> QED BY <1>4, <3>1, HandlerTurn DEF Reads, GoesOn
  <2>2. ctx[h].op = "register"
    BY <2>1 DEF Inserts, HeldInv, HoldsApplicant
  <2> QED BY <2>1, <2>2, InsertFacts
<1> QED
  BY <1>1, <1>2, <1>3, <1>4, Arrivals

LEMMA RegistrationInvStep ==
  ASSUME TypeOK, HeldInv, HeldInv', RequestInv, RegistrationInv, NEW h \in Handlers, Turn(h)
  PROVE  RegistrationInv'
<1>0. /\ raced \subseteq raced' /\ doubled \subseteq doubled'
      /\ \A r \in RequestIds : requests'[r].applicant = requests[r].applicant
  BY HistoryGrows, RowsGrow
\* A registration that h is at after the step, and another one of the same applicant.
<1>1. ASSUME NEW a \in Applicants \ doubled', NEW g \in Handlers, g # h,
             Registering(g, a), Registering(h, a)'
      PROVE  FALSE
  <2>1. ctx'[h].op = "register" /\ ctx'[h].applicant = a /\ a \notin doubled
    BY <1>0, <1>1 DEF Registering
  <2>2. CASE Register(h, a)
    BY <1>1, <2>2 DEF Register, Registering
  <2>3. CASE ctx[h].op = "register" /\ ctx[h].applicant = a
    BY <1>1, <2>1, <2>3 DEF Registering, RegistrationInv
  <2> QED BY <2>1, <2>2, <2>3, RegisterTurn
<1>2. ASSUME NEW a \in Applicants \ doubled', NEW f \in Handlers, NEW g \in Handlers,
             Registering(f, a)', Registering(g, a)'
      PROVE  f = g
  <2>1. ASSUME NEW k \in Handlers, k # h, Registering(k, a)'
        PROVE  Registering(k, a)
    BY <2>1, OthersWait DEF Registering
  <2>2. CASE f # h /\ g # h
    BY <1>0, <1>2, <2>1, <2>2 DEF RegistrationInv
  <2> QED BY <1>1, <1>2, <2>1, <2>2
\* A request in review after the step was so before it, or is the one inserted.
<1>3. ASSUME NEW a \in Applicants, NEW r \in InReview(a)', r \notin raced'
      PROVE  \/ r \in InReview(a) /\ r \notin raced
             \/ Inserts(h, r) /\ a = ctx[h].applicant
  <2>1. /\ r \in Requests /\ requests'[r].applicant = a /\ requests'[r].status = "in_review"
        /\ r \notin raced
    BY <1>0, <1>3 DEF InReview, RequestOf
  <2>2. CASE requests'[r] = requests[r]
    BY <2>1, <2>2 DEF InReview, RequestOf
  <2>3. CASE \E s : Inserts(h, s)
    <3>1. PICK s : Inserts(h, s)
      BY <2>3
    <3>2. CASE r = s
      BY <2>1, <3>1, <3>2, InsertFacts
    <3>3. CASE r # s
      BY <2>1, <2>2, <3>1, <3>3, InsertFacts
    <3> QED BY <3>2, <3>3
  <2>4. CASE \E row : Saves(h, row) /\ SaveRow(h, row)
    <3>1. PICK row : Saves(h, row) /\ SaveRow(h, row)
      BY <2>4
    <3>2. CASE r # ctx[h].request
      BY <2>1, <2>2, <3>1, <3>2, SaveFacts
    <3>3. CASE r = ctx[h].request
      <4>1. /\ requests[r] = ctx[h].row /\ requests'[r].applicant = requests[r].applicant
            /\ pc[h] \in Savers
        BY <1>3, <3>1, <3>3, SaveFacts
      <4>2. ctx[h].row.status = "in_review"
        BY <4>1 DEF HeldInv, HoldsRow
      <4> QED BY <2>1, <4>1, <4>2 DEF InReview, RequestOf
    <3> QED BY <3>2, <3>3
  <2> QED BY <2>2, <2>3, <2>4, RequestTurn
\* Who is about to insert a request has found none.
<1>4. ASSUME NEW g \in Handlers, NEW a \in Applicants \ doubled', pc'[g] = "saveRequest",
             ctx'[g].applicant = a
      PROVE  InReview(a)' \subseteq raced'
  <2>1. ctx'[g].op = "register"
    BY <1>4 DEF HeldInv, HoldsApplicant
  <2>2. CASE g # h
    <3>1. pc[g] = "saveRequest" /\ ctx[g].applicant = a /\ a \notin doubled
          /\ ctx[g].op = "register"
      BY <1>0, <1>4, <2>1, <2>2, OthersWait
    <3>2. InReview(a) \subseteq raced
      BY <3>1 DEF RegistrationInv
    <3>3. ASSUME NEW r, Inserts(h, r), ctx[h].applicant = a PROVE FALSE
      <4>1. ctx[h].op = "register"
        BY <3>3 DEF Inserts, HeldInv, HoldsApplicant
      <4>2. Registering(g, a) /\ Registering(h, a)
        BY <3>1, <3>3, <4>1 DEF Registering
      <4> QED BY <2>2, <3>1, <4>2 DEF RegistrationInv
    <3>4. ASSUME NEW r \in InReview(a)', r \notin raced' PROVE FALSE
      BY <1>3, <2>1, <3>2, <3>3, <3>4
    <3> QED BY <3>4
  <2>3. CASE g = h
    <3>1. UNCHANGED requests => InReview(a)' = InReview(a)
      BY DEF InReview, RequestOf
    <3>2. CASE Register(h, a) /\ UNCHANGED requests /\ a \in partners
      BY <3>1, <3>2 DEF Register
    <3>3. CASE SavePartner(h) /\ UNCHANGED requests /\ a \notin partners
      <4>1. \A r \in Requests : requests[r].applicant # a
        BY <2>1, <3>3, EnablementAssumption DEF RequestInv, RequestIds
      <4> QED BY <3>1, <3>3, <4>1 DEF InReview, RequestOf
    <3> QED BY <1>4, <2>1, <2>3, <3>2, <3>3, RegisterTurn DEF Inserts
  <2> QED BY <2>2, <2>3
<1>5. ASSUME NEW a \in Applicants \ doubled', NEW r \in InReview(a)' \ raced',
             NEW s \in InReview(a)' \ raced'
      PROVE  r = s
  <2>1. a \notin doubled
    BY <1>0
  <2>2. ASSUME NEW t, Inserts(h, t), a = ctx[h].applicant PROVE InReview(a) \subseteq raced
    BY <2>1, <2>2 DEF Inserts, RegistrationInv
  <2>3. \A t, u : Inserts(h, t) /\ Inserts(h, u) => t = u
    BY InsertFacts
  <2>4. \/ r \in InReview(a) /\ r \notin raced
        \/ Inserts(h, r) /\ a = ctx[h].applicant
    BY <1>3
  <2>5. \/ s \in InReview(a) /\ s \notin raced
        \/ Inserts(h, s) /\ a = ctx[h].applicant
    BY <1>3
  <2>6. r \in InReview(a) \ raced /\ s \in InReview(a) \ raced => r = s
    BY <2>1 DEF RegistrationInv, OneOpenRequestUnlessRaced
  <2> QED BY <2>2, <2>3, <2>4, <2>5, <2>6
<1>6. ASSUME NEW g \in Handlers, pc'[g] = "saveRequest", ctx'[g].applicant \notin doubled'
      PROVE  InReview(ctx[g].applicant)' \subseteq raced'
  <2>1. ctx'[g].applicant \in Applicants
    BY <1>6 DEF HeldInv, HoldsApplicant
  <2> QED BY <1>4, <1>6, <2>1 DEF InReview, RequestOf
<1> QED
  BY <1>2, <1>5, <1>6 DEF RegistrationInv, OneOpenRequestUnlessRaced

LEMMA TypeStep ==
  ASSUME TypeOK, HeldInv, RequestInv, StepRowsInv, OpenedByRight, UNCHANGED work,
         NEW h \in Handlers, Turn(h)
  PROVE  TypeOK'
<1>1. /\ pc' \in [Handlers -> Calls] /\ ctx' \in [Handlers -> Context]
      /\ requests' \in [Requests -> RequestRow] /\ steps' \in [Requests -> SUBSET Steps]
  BY HeldStep, RowsGrow, StepRowsInvStep
<1>2. accounts' \in [Applicants -> Account]
  <2>1. accounts \in [Applicants -> Account]
    BY DEF TypeOK
  <2>2. CASE SaveAccount(h)
    BY <2>1, <2>2 DEF SaveAccount, NewAccount, Account
  <2>3. CASE ActivateUser(h)
    <3>1. \A account \in Account : [account EXCEPT !.active = TRUE] \in Account
      BY DEF Account
    <3> QED BY <2>1, <2>3, <3>1 DEF ActivateUser
  <2>4. CASE SaveUser(h)
    <3>1. \A account \in Account : /\ [account EXCEPT !.active = TRUE] \in Account
                                   /\ [account EXCEPT !.active = FALSE] \in Account
                                   /\ [account EXCEPT !.mustChange = FALSE] \in Account
      BY DEF Account
    <3>2. \A op : \A account \in Account : Edited(op, account) \in Account
      BY <3>1 DEF Edited
    <3>3. ctx[h].account \in Account
      BY ContextTypes
    <3> QED BY <2>1, <2>4, <3>2, <3>3 DEF SaveUser
  <2> QED BY <2>1, <2>2, <2>3, <2>4, AccountTurn
<1>3. /\ ctx[h].applicant \in Applicants \/ pc[h] \notin {"savePartner", "saveUser"}
      /\ ctx[h].row.applicant \in Applicants \/ pc[h] \notin {"saveUserGroup", "saveTraining"}
      /\ Edited(ctx[h].op, ctx[h].account).mustChange \in BOOLEAN
  <2>1. ctx[h].applicant \in Applicants \/ pc[h] \notin {"savePartner", "saveUser"}
    BY DEF HeldInv, HoldsApplicant
  <2>2. pc[h] \in Savers => ctx[h].row.applicant \in Applicants
    BY DEF HeldInv, HoldsRow, TypeOK, RequestIds, RequestRow
  <2>3. Edited(ctx[h].op, ctx[h].account).mustChange \in BOOLEAN
    BY ContextTypes DEF Edited, Account
  <2> QED BY <2>1, <2>2, <2>3 DEF Savers, Creations, Trainings
<1>4. /\ partners' \subseteq Applicants /\ groups' \subseteq Applicants
      /\ training' \subseteq Applicants
  <2>1. UNCHANGED partners \/ SavePartner(h)
    BY DEF Turn, Start, Register, Get, Review, AcceptTraining, ReadUser, Continue,
       PartnerTaken, SaveRequest, SaveSteps, FindUser, MarkPassword, SaveSynced, FindStep,
       SaveStep, SaveRejected, SaveApproved, SaveAccount, AccountTaken, SaveUserGroup,
       SaveAccountRef, MarkAccount, FindTraining, SaveTraining, TrainingTaken, MarkTraining,
       SaveTrained, ActivateUser, SaveActive, MarkActivation, SaveUser, IdsUsedUp, Fail,
       Throw, rows
  <2>2. UNCHANGED groups \/ SaveUserGroup(h)
    BY DEF Turn, Start, Register, Get, Review, AcceptTraining, ReadUser, Continue, SavePartner,
       PartnerTaken, SaveRequest, SaveSteps, FindUser, MarkPassword, SaveSynced, FindStep,
       SaveStep, SaveRejected, SaveApproved, SaveAccount, AccountTaken,
       SaveAccountRef, MarkAccount, FindTraining, SaveTraining, TrainingTaken, MarkTraining,
       SaveTrained, ActivateUser, SaveActive, MarkActivation, SaveUser, IdsUsedUp, Fail,
       Throw, rows
  <2>3. UNCHANGED training \/ SaveTraining(h)
    BY DEF Turn, Start, Register, Get, Review, AcceptTraining, ReadUser, Continue, SavePartner,
       PartnerTaken, SaveRequest, SaveSteps, FindUser, MarkPassword, SaveSynced, FindStep,
       SaveStep, SaveRejected, SaveApproved, SaveAccount, AccountTaken, SaveUserGroup,
       SaveAccountRef, MarkAccount, FindTraining, TrainingTaken, MarkTraining,
       SaveTrained, ActivateUser, SaveActive, MarkActivation, SaveUser, IdsUsedUp, Fail,
       Throw, rows
  <2> QED BY <1>3, <2>1, <2>2, <2>3 DEF TypeOK, SavePartner, SaveUserGroup, SaveTraining
<1>5. tokens' \subseteq Applicants \X BOOLEAN
  <2>1. UNCHANGED tokens \/ SaveUser(h)
    BY DEF Turn, Start, Register, Get, Review, AcceptTraining, ReadUser, Continue, SavePartner,
       PartnerTaken, SaveRequest, SaveSteps, FindUser, MarkPassword, SaveSynced, FindStep,
       SaveStep, SaveRejected, SaveApproved, SaveAccount, AccountTaken, SaveUserGroup,
       SaveAccountRef, MarkAccount, FindTraining, SaveTraining, TrainingTaken, MarkTraining,
       SaveTrained, ActivateUser, SaveActive, MarkActivation, IdsUsedUp, Fail,
       Throw, rows
  <2>2. CASE SaveUser(h)
    <3>1. /\ pc[h] = "saveUser"
          /\ tokens' = tokens \/ tokens' = tokens \cup
               {<<ctx[h].applicant, Edited(ctx[h].op, ctx[h].account).mustChange>>}
      BY <2>2 DEF SaveUser
    <3> QED BY <1>3, <3>1 DEF TypeOK
  <2> QED BY <2>1, <2>2 DEF TypeOK
<1>6. raced' \subseteq Requests /\ torn' \subseteq Requests
  <2>1. ctx[h].request \in RequestIds \/ pc[h] \notin Alone \cup Savers
    BY DEF HeldInv, HoldsRow, Alone, Savers, Creations, Activations
  <2>2. UNCHANGED torn \/ (torn' = torn \cup {ctx[h].request} /\ pc[h] \in Alone)
    BY DEF Turn, Start, Register, Get, Review, AcceptTraining, ReadUser, Continue, SavePartner,
       PartnerTaken, SaveRequest, SaveSteps, FindUser, MarkPassword, SaveSynced, FindStep,
       SaveStep, SaveRejected, SaveApproved, SaveAccount, AccountTaken, SaveUserGroup,
       SaveAccountRef, MarkAccount, FindTraining, SaveTraining, TrainingTaken, MarkTraining,
       SaveTrained, ActivateUser, SaveActive, MarkActivation, SaveUser, IdsUsedUp, Fail,
       Throw, SaveRow, history
  <2>3. UNCHANGED raced \/ (raced' = raced \cup {ctx[h].request} /\ pc[h] \in Savers)
    BY DEF Turn, Start, Register, Get, Review, AcceptTraining, ReadUser, Continue, SavePartner,
       PartnerTaken, SaveRequest, SaveSteps, FindUser, MarkPassword, SaveSynced, FindStep,
       SaveStep, SaveRejected, SaveApproved, SaveAccount, AccountTaken, SaveUserGroup,
       SaveAccountRef, MarkAccount, FindTraining, SaveTraining, TrainingTaken, MarkTraining,
       SaveTrained, ActivateUser, SaveActive, MarkActivation, SaveUser, IdsUsedUp, Fail,
       Throw, SaveRow, history, Savers, Passwords, Reviews, Creations, Trainings, Activations
  <2> QED BY <2>1, <2>2, <2>3 DEF TypeOK, RequestIds
<1>7. doubled' \subseteq Applicants /\ unblocked' \subseteq Applicants
  <2>1. \/ UNCHANGED doubled
        \/ \E a \in Applicants : doubled' = doubled \cup {a}
    BY DEF Turn, Start, Register, Get, Review, AcceptTraining, ReadUser, Continue, SavePartner,
       PartnerTaken, SaveRequest, SaveSteps, FindUser, MarkPassword, SaveSynced, FindStep,
       SaveStep, SaveRejected, SaveApproved, SaveAccount, AccountTaken, SaveUserGroup,
       SaveAccountRef, MarkAccount, FindTraining, SaveTraining, TrainingTaken, MarkTraining,
       SaveTrained, ActivateUser, SaveActive, MarkActivation, SaveUser, IdsUsedUp, Fail,
       Throw, SaveRow, history
  <2>2. UNCHANGED unblocked \/ SaveUser(h)
    BY DEF Turn, Start, Register, Get, Review, AcceptTraining, ReadUser, Continue, SavePartner,
       PartnerTaken, SaveRequest, SaveSteps, FindUser, MarkPassword, SaveSynced, FindStep,
       SaveStep, SaveRejected, SaveApproved, SaveAccount, AccountTaken, SaveUserGroup,
       SaveAccountRef, MarkAccount, FindTraining, SaveTraining, TrainingTaken, MarkTraining,
       SaveTrained, ActivateUser, SaveActive, MarkActivation, IdsUsedUp, Fail,
       Throw, SaveRow, history
  <2>3. SaveUser(h) => unblocked' \subseteq unblocked \cup {ctx[h].applicant}
    BY DEF SaveUser
  <2> QED BY <1>3, <2>1, <2>2, <2>3 DEF TypeOK, SaveUser
<1>8. work' \in Works
  BY DEF TypeOK
<1> QED
  BY <1>1, <1>2, <1>4, <1>5, <1>6, <1>7, <1>8 DEF TypeOK

-----------------------------------------------------------------------------
(***************************************************************************)
(* The invariant holds                                                     *)
(***************************************************************************)
LEMMA InitInv == Init => IInv
<1> SUFFICES ASSUME Init PROVE IInv
  OBVIOUS
<1>1. RequestIds = {}
  BY NoContextTypes DEF Init, RequestIds, NoRow
<1>2. \A a \in Applicants : RequestOf(a) = {} /\ InReview(a) = {}
  BY EnablementAssumption DEF Init, RequestOf, InReview, NoRow
<1>3. /\ \A h \in Handlers : pc[h] = "idle" /\ ctx[h] = NoContext
      /\ \A a \in Applicants : ~accounts[a].exists /\ ~accounts[a].active
      /\ \A r \in Requests : /\ steps[r] = {} /\ requests[r].step = 2
                             /\ requests[r].status = "in_review"
  BY DEF Init, NoAccount, NoRow
<1>4. None \notin Requests /\ NoContext.request = None /\ NoContext.op = "none"
  BY DEF None, Requests, NoContext
<1>5. TypeOK
  <2>1. requests \in [Requests -> RequestRow] /\ accounts \in [Applicants -> Account]
        /\ ctx \in [Handlers -> Context]
    BY NoContextTypes DEF Init
  <2>2. pc \in [Handlers -> Calls] /\ steps \in [Requests -> SUBSET Steps] /\ work \in Works
    BY DEF Init, Calls
  <2> QED BY <2>1, <2>2 DEF Init, TypeOK
<1>6. HeldInv
  <2>1. "idle" \notin Savers
    BY DEF Savers, Passwords, Reviews, Creations, Trainings, Activations
  <2>2. \A h \in Handlers : HoldsRow(h) /\ HoldsAccount(h) /\ HoldsApplicant(h)
    BY <1>3, <1>4, <2>1 DEF HoldsRow, HoldsAccount, HoldsApplicant, Savers
  <2> QED BY <2>2 DEF HeldInv
<1>7. RequestInv /\ ActiveIsEarned /\ WaitingInv
  BY <1>1 DEF RequestInv, ActiveIsEarned, WaitingInv
<1>8. StepRowsInv
  BY <1>3, <1>4 DEF StepRowsInv
<1>9. ProgressInv
  BY <1>1, <1>3 DEF ProgressInv, StepsBackProgress, LeftBehind
<1>10. OpenedByRight /\ ReachableInv
  BY <1>3 DEF OpenedByRight, ReachableInv
<1>11. RegistrationInv
  BY <1>2, <1>3, <1>4 DEF RegistrationInv, OneOpenRequestUnlessRaced, Registering
<1> QED
  BY <1>5, <1>6, <1>7, <1>8, <1>9, <1>10, <1>11 DEF IInv

LEMMA InvStep == IInv /\ [Next]_vars => IInv'
<1> SUFFICES ASSUME IInv, [Next]_vars PROVE IInv'
  OBVIOUS
<1>0. /\ TypeOK /\ HeldInv /\ RequestInv /\ StepRowsInv /\ ProgressInv /\ ActiveIsEarned
      /\ OpenedByRight /\ ReachableInv /\ WaitingInv /\ RegistrationInv
  BY DEF IInv
<1>1. CASE Next
  <2>1. PICK h \in Handlers : Turn(h) /\ UNCHANGED work
    BY <1>1 DEF Next, Turn
  <2>2. HeldInv'
    BY <1>0, <2>1, HeldStep
  <2>3. TypeOK'
    BY <1>0, <2>1, TypeStep
  <2>4. RequestInv' /\ OpenedByRight' /\ StepRowsInv' /\ ProgressInv' /\ ActiveIsEarned'
    BY <1>0, <2>1, RequestInvStep, OpenedStep, StepRowsInvStep, ProgressInvStep, ActiveStep
  <2>5. ReachableInv' /\ WaitingInv' /\ RegistrationInv'
    BY <1>0, <2>1, <2>2, ReachableInvStep, WaitingInvStep, RegistrationInvStep
  <2> QED BY <2>2, <2>3, <2>4, <2>5 DEF IInv
<1>2. CASE UNCHANGED vars
  <2> USE <1>2 DEF vars, rows, history
  <2>1. /\ RequestIds' = RequestIds
        /\ \A a : RequestOf(a)' = RequestOf(a) /\ InReview(a)' = InReview(a)
    BY DEF RequestIds, RequestOf, InReview
  <2>2. TypeOK'
    BY <1>0 DEF TypeOK
  <2>3. HeldInv'
    <3>1. \A h : /\ HoldsRow(h)' <=> HoldsRow(h)
                 /\ HoldsAccount(h)' <=> HoldsAccount(h)
                 /\ HoldsApplicant(h)' <=> HoldsApplicant(h)
      BY <2>1 DEF HoldsRow, HoldsAccount, HoldsApplicant
    <3> QED BY <1>0, <3>1 DEF HeldInv
  <2>4. RequestInv' /\ StepRowsInv' /\ ActiveIsEarned' /\ OpenedByRight'
    BY <1>0, <2>1 DEF RequestInv, StepRowsInv, ActiveIsEarned, OpenedByRight
  <2>5. ProgressInv'
    BY <1>0, <2>1 DEF ProgressInv, StepsBackProgress, LeftBehind
  <2>6. ReachableInv' /\ WaitingInv'
    <3>1. \A h, r, calls : At(h, r, calls)' <=> At(h, r, calls)
      BY DEF At
    <3> QED BY <1>0, <2>1, <3>1 DEF ReachableInv, WaitingInv
  <2>7. RegistrationInv'
    <3>1. \A h, a : Registering(h, a)' <=> Registering(h, a)
      BY DEF Registering
    <3> QED BY <1>0, <2>1, <3>1 DEF RegistrationInv, OneOpenRequestUnlessRaced
  <2> QED BY <2>2, <2>3, <2>4, <2>5, <2>6, <2>7 DEF IInv
<1> QED
  BY <1>1, <1>2

LEMMA Invariance == Spec => []IInv
  BY InitInv, InvStep, PTL DEF Spec

-----------------------------------------------------------------------------
(***************************************************************************)
(* Theorems                                                                *)
(***************************************************************************)
\* Every row, every token and every local variable of a handler keeps its type: no
\* request runs past its nine steps, no failed or stale save leaves a row without shape.
THEOREM TypeCorrect == Spec => []TypeOK
  BY Invariance, PTL DEF IInv

\* A request is past a step only if that step is DONE, until a row is saved from a stale
\* copy (reviewStep, syncPasswordStep, acceptTraining).
THEOREM StepsBack == Spec => []StepsBackProgress
<1>1. IInv => StepsBackProgress
  BY DEF IInv, ProgressInv
<1> QED BY <1>1, Invariance, PTL

\* An enabled request has its account, its profile and the accepted training, whatever
\* failed on the way (autoCreateAccount, acceptTraining, activateAccount).
THEOREM ActiveEarned == Spec => []ActiveIsEarned
  BY Invariance, PTL DEF IInv

\* No account is active before its owner accepted the training or an administrator
\* unblocked it, whatever rows the login and the password changes put back.
THEOREM OpenedRightly == Spec => []OpenedByRight
  BY Invariance, PTL DEF IInv

\* Every account can be reached from a request of its applicant, unless a creation died
\* half way or a stale save cut it off (autoCreateAccount).
THEOREM NoOrphan == Spec => []NoOrphanAccount
<1>1. IInv => NoOrphanAccount
  <2> SUFFICES ASSUME IInv, NEW a \in Applicants, accounts[a].exists
               PROVE  \E r \in RequestOf(a) : \/ requests[r].user
                                             \/ r \in raced \cup torn
                                             \/ \E h \in Handlers : AloneWith(h, r)
    BY DEF NoOrphanAccount
  <2>1. PICK r \in RequestOf(a) :
          \/ requests[r].user
          \/ r \in raced \cup torn
          \/ \E h \in Handlers : At(h, r, {"saveUserGroup", "saveAccountRef"})
    BY DEF IInv, ReachableInv
  <2>2. \A h : At(h, r, {"saveUserGroup", "saveAccountRef"}) => AloneWith(h, r)
    BY DEF At, AloneWith, Alone
  <2> QED BY <2>1, <2>2
<1> QED BY <1>1, Invariance, PTL

\* A request in review waits for somebody who can take it on: an administrator, its
\* owner, or a handler that is at work on it.
THEOREM SomebodyWaitedFor == Spec => []WaitsForSomebody
<1>1. IInv => WaitsForSomebody
  <2> SUFFICES ASSUME IInv, NEW r \in RequestIds \ (raced \cup torn),
                      requests[r].status = "in_review"
               PROVE  \/ requests[r].step \in 2..5 /\ steps[r] # {}
                      \/ requests[r].step \in {7, 8} /\ requests[r].user
                      \/ \E h \in Handlers : AloneWith(h, r)
    BY DEF WaitsForSomebody
  <2>1. /\ requests[r].step \in 2..5 =>
             steps[r] # {} \/ \E h \in Handlers : At(h, r, {"saveSteps"})
        /\ requests[r].step = 6 => \E h \in Handlers : At(h, r, Creations)
        /\ requests[r].step \in {7, 8} => requests[r].user
        /\ requests[r].step = 9 => \E h \in Handlers : At(h, r, Activations)
    BY DEF IInv, WaitingInv
  <2>2. requests[r].step \in 2..9
    BY DEF IInv, TypeOK, RequestIds, RequestRow
  <2>3. \A h : /\ At(h, r, {"saveSteps"}) => AloneWith(h, r)
               /\ At(h, r, Creations) => AloneWith(h, r)
               /\ At(h, r, Activations) => AloneWith(h, r)
    BY DEF At, AloneWith, Alone, Creations, Activations
  <2> QED BY <2>1, <2>2, <2>3
<1> QED BY <1>1, Invariance, PTL

\* An applicant has one request in review, unless two registrations of it overlapped or
\* a stale save brought a decided request back (register).
THEOREM OneOpenRequest == Spec => []OneOpenRequestUnlessRaced
<1>1. IInv => OneOpenRequestUnlessRaced
  BY DEF IInv, RegistrationInv
<1> QED BY <1>1, Invariance, PTL
=============================================================================

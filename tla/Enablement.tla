----------------------------- MODULE Enablement -----------------------------
(***************************************************************************)
(* EnablementService (src/modules/enablement/enablement.service.ts): the   *)
(* nine steps from a registration to an active account, with the accounts  *)
(* as AuthService and UsersService read and save them: the login, the      *)
(* change and the reset of a password, and block and unblock.              *)
(*                                                                         *)
(* A handler is one HTTP request.  Every repository call that others can   *)
(* observe is an action; no transaction surrounds them.  save() writes the *)
(* whole row as the handler holds it in memory, so a row that changed      *)
(* after it was read is put back; update() writes only its columns.        *)
(*                                                                         *)
(* Bound: a behaviour serves one work, that on one request, with failures  *)
(* and with the operations on its account, or that on several requests.    *)
(***************************************************************************)
EXTENDS Naturals

CONSTANTS
  Handlers,      \* requests that may be served at the same time
  Applicants,    \* persons and companies, each with its rif and its email
  NoApplicant,
  Works,         \* the works that are watched
  MaxRequests,   \* ids agd_user_enablement_request can give out
  UserOps,       \* the operations on accounts that are served
  MayFail        \* whether handlers may die between two awaits

ASSUME EnablementAssumption ==
  /\ NoApplicant \notin Applicants
  /\ MaxRequests \in Nat \ {0}
  /\ Works \subseteq {"one", "several"}
  /\ UserOps \subseteq {"login", "changePassword", "recover", "resetPassword",
                        "block", "unblock"}
  /\ MayFail \in BOOLEAN

None     == 0
Requests == 1..MaxRequests
Steps    == 1..9            \* ENABLEMENT_STEP_ORDER

VARIABLES
  work,       \* the work of this behaviour
  partners,   \* applicants with a res_partner row; rif and email are UNIQUE
  requests,   \* agd_user_enablement_request rows
  steps,      \* steps[r]: the steps in status DONE; {} before the nine rows exist
  accounts,   \* res_users row of an applicant; partner_id and login are UNIQUE
  groups,     \* applicants whose account has its res_groups_users_rel row
  training,   \* applicants with an agd_user_training_acceptance row
  tokens,     \* access tokens given out: (applicant, must_change_password claim)
  pc, ctx,    \* the handlers: next repository call, local variables
  raced,      \* history: requests of which a row was saved from a stale copy
  doubled,    \* history: applicants with two registrations at the same time
  unblocked,  \* history: applicants whose account an administrator unblocked
  torn        \* history: requests whose handler died where no other one can go on

rows    == <<partners, requests, steps, accounts, groups, training, tokens>>
history == <<raced, doubled, unblocked, torn>>
vars    == <<work, rows, pc, ctx, history>>

RequestRow == [applicant : Applicants \cup {NoApplicant},
               status    : {"in_review", "active", "rejected"},
               step      : 2..9,
               user      : BOOLEAN]     \* whether user_id is set
Account    == [exists : BOOLEAN, active : BOOLEAN, mustChange : BOOLEAN]

NoRow     == [applicant |-> NoApplicant, status |-> "in_review", step |-> 2, user |-> FALSE]
NoAccount == [exists |-> FALSE, active |-> FALSE, mustChange |-> FALSE]

Context   == [op        : {"none", "register", "get", "approve", "reject", "training"}
                            \cup UserOps,
              applicant : Applicants \cup {NoApplicant},
              request   : Requests \cup {None},
              row       : RequestRow,   \* the request as the handler holds it
              done      : BOOLEAN,      \* the step row as it holds it
              account   : Account]      \* the user as it holds it
NoContext == [op |-> "none", applicant |-> NoApplicant, request |-> None, row |-> NoRow,
              done |-> FALSE, account |-> NoAccount]

Calls == {"idle", "savePartner", "saveRequest", "saveSteps", "findUser",
          "markPassword", "saveSynced", "findStep", "saveStep", "saveRejected",
          "saveApproved", "saveAccount", "saveUserGroup", "saveAccountRef", "markAccount",
          "findTraining", "saveTraining", "markTraining", "saveTrained", "activateUser",
          "saveActive", "markActivation", "saveUser"}

TypeOK ==
  /\ work \in Works
  /\ partners \subseteq Applicants
  /\ requests \in [Requests -> RequestRow]
  /\ steps \in [Requests -> SUBSET Steps]
  /\ accounts \in [Applicants -> Account]
  /\ groups \subseteq Applicants /\ training \subseteq Applicants
  /\ tokens \subseteq Applicants \X BOOLEAN
  /\ pc \in [Handlers -> Calls]
  /\ ctx \in [Handlers -> Context]
  /\ raced \subseteq Requests /\ torn \subseteq Requests
  /\ doubled \subseteq Applicants /\ unblocked \subseteq Applicants

Init ==
  /\ work \in Works
  /\ partners = {} /\ groups = {} /\ training = {} /\ tokens = {}
  /\ requests = [r \in Requests |-> NoRow]
  /\ steps = [r \in Requests |-> {}]
  /\ accounts = [a \in Applicants |-> NoAccount]
  /\ pc = [h \in Handlers |-> "idle"]
  /\ ctx = [h \in Handlers |-> NoContext]
  /\ raced = {} /\ doubled = {} /\ unblocked = {} /\ torn = {}

-----------------------------------------------------------------------------
(***************************************************************************)
(* Handlers and rows                                                       *)
(***************************************************************************)
RequestIds == {r \in Requests : requests[r].applicant # NoApplicant}
Ids        == IF work = "one" THEN {1} ELSE Requests
RequestOf(a) == {r \in Requests : requests[r].applicant = a}

Goto(h, call) == pc' = [pc EXCEPT ![h] = call]
Keep(h, c)    == ctx' = [ctx EXCEPT ![h] = c]
Leave(h)      == Goto(h, "idle") /\ Keep(h, NoContext)

\* The middles of createSteps, autoCreateAccount and activateAccount: only the handler
\* that is here can take its request on.
Alone == {"saveSteps", "saveAccount", "saveUserGroup", "saveAccountRef",
          "activateUser", "saveActive"}

AloneWith(h, r) == pc[h] \in Alone /\ ctx[h].request = r

\* The handler throws, or its process dies: nothing is undone.
Throw(h) ==
  /\ Leave(h)
  /\ torn' = IF pc[h] \in Alone THEN torn \cup {ctx[h].request} ELSE torn
  /\ UNCHANGED <<rows, raced, doubled, unblocked>>

\* save() of the request: the whole row that the handler holds; stale if the row in
\* the table is no longer the one it read or last saved.
SaveRow(h, row) ==
  /\ requests' = [requests EXCEPT ![ctx[h].request] = row]
  /\ raced' = IF requests[ctx[h].request] = ctx[h].row THEN raced
              ELSE raced \cup {ctx[h].request}
  /\ UNCHANGED <<doubled, unblocked, torn>>

\* markStepDone: update() of the columns of one step row.
Mark(h, s) == steps' = [steps EXCEPT ![ctx[h].request] = @ \cup {s}]

-----------------------------------------------------------------------------
(***************************************************************************)
(* register                                                                *)
(***************************************************************************)
InReview(a) == {r \in RequestOf(a) : requests[r].status = "in_review"}

\* Mutant of Register: a request in review does not refuse the registration.
RegisterAgain(h, a) ==
  /\ pc[h] = "idle"
  /\ Goto(h, IF a \in partners THEN "saveRequest" ELSE "savePartner")
  /\ Keep(h, [NoContext EXCEPT !.op = "register", !.applicant = a])
  /\ doubled' = IF \E g \in Handlers : ctx[g].op = "register" /\ ctx[g].applicant = a
                THEN doubled \cup {a} ELSE doubled
  /\ UNCHANGED <<rows, raced, unblocked, torn>>

\* The partner is looked for by rif or email; if there is one, so is its request in
\* review, and the registration is refused if there is one.
Register(h, a) ==
  /\ pc[h] = "idle"
  /\ a \in partners => InReview(a) = {}
  /\ Goto(h, IF a \in partners THEN "saveRequest" ELSE "savePartner")
  /\ Keep(h, [NoContext EXCEPT !.op = "register", !.applicant = a])
  /\ doubled' = IF \E g \in Handlers : ctx[g].op = "register" /\ ctx[g].applicant = a
                THEN doubled \cup {a} ELSE doubled
  /\ UNCHANGED <<rows, raced, unblocked, torn>>

SavePartner(h) ==
  /\ pc[h] = "savePartner"
  /\ ctx[h].applicant \notin partners
  /\ partners' = partners \cup {ctx[h].applicant}
  /\ Goto(h, "saveRequest")
  /\ UNCHANGED <<requests, steps, accounts, groups, training, tokens, ctx, history>>

PartnerTaken(h) == /\ pc[h] = "savePartner"
                   /\ ctx[h].applicant \in partners
                   /\ Throw(h)

\* Nothing in the table keeps a second request of the applicant out.
SaveRequest(h) ==
  /\ pc[h] = "saveRequest"
  /\ \E r \in Ids \ RequestIds :
       /\ \A s \in 1..(r - 1) : s \in RequestIds
       /\ requests' = [requests EXCEPT ![r] = [NoRow EXCEPT !.applicant = ctx[h].applicant]]
       /\ Keep(h, [ctx[h] EXCEPT !.request = r])
  /\ Goto(h, "saveSteps")
  /\ UNCHANGED <<partners, steps, accounts, groups, training, tokens, history>>

\* createSteps: the nine rows in one save.  The getByIdForAdmin that register ends with
\* does what a Get does, which may follow.
SaveSteps(h) ==
  /\ pc[h] = "saveSteps"
  /\ steps' = [steps EXCEPT ![ctx[h].request] = {1}]
  /\ Leave(h)
  /\ UNCHANGED <<partners, requests, accounts, groups, training, tokens, history>>

-----------------------------------------------------------------------------
(***************************************************************************)
(* getByIdForAdmin, getByIdForOwner, uploadDocument: syncPasswordStep      *)
(***************************************************************************)
AtPassword(row) == row.status = "in_review" /\ row.step = 7 /\ row.user

\* A request at another step is answered as it is.
Get(h, r) ==
  /\ pc[h] = "idle"
  /\ r \in RequestIds
  /\ AtPassword(requests[r])
  /\ Goto(h, "findUser")
  /\ Keep(h, [NoContext EXCEPT !.op = "get", !.request = r, !.row = requests[r]])
  /\ UNCHANGED <<rows, history>>

\* The password was changed, or else the handler is over: a GET answers, and
\* acceptTraining refuses a request that is still at step 7.
FindUser(h) ==
  /\ pc[h] = "findUser"
  /\ IF accounts[ctx[h].row.applicant].mustChange THEN Leave(h)
     ELSE Goto(h, "markPassword") /\ UNCHANGED ctx
  /\ UNCHANGED <<rows, history>>

MarkPassword(h) ==
  /\ pc[h] = "markPassword"
  /\ Mark(h, 7)
  /\ Goto(h, "saveSynced")
  /\ UNCHANGED <<partners, requests, accounts, groups, training, tokens, ctx, history>>

SaveSynced(h) ==
  LET row == [ctx[h].row EXCEPT !.step = 8]
  IN /\ pc[h] = "saveSynced"
     /\ SaveRow(h, row)
     /\ IF ctx[h].op = "get" THEN Leave(h)
        ELSE Goto(h, "findTraining") /\ Keep(h, [ctx[h] EXCEPT !.row = row])
     /\ UNCHANGED <<partners, steps, accounts, groups, training, tokens>>

-----------------------------------------------------------------------------
(***************************************************************************)
(* reviewStep and autoCreateAccount                                        *)
(***************************************************************************)
\* Bound: with several requests, reviews overlap until one was saved from a stale copy;
\* with one request they go on to.
OverlapWatched ==
  \/ work = "one" \/ raced = {}
  \/ \A g \in Handlers : ctx[g].op \notin {"approve", "reject"}

\* A request in review at a step that administrators review.  The profile it asks for,
\* which step 4 may replace, is left out.
Review(h, decision, r) ==
  /\ pc[h] = "idle"
  /\ r \in RequestIds
  /\ requests[r].status = "in_review" /\ requests[r].step \in 2..5
  /\ OverlapWatched
  /\ Goto(h, "findStep")
  /\ Keep(h, [NoContext EXCEPT !.op = decision, !.request = r, !.row = requests[r]])
  /\ UNCHANGED <<rows, history>>

\* The row of the step, if the rows are there.
FindStep(h) ==
  LET mine == steps[ctx[h].request]
  IN /\ pc[h] = "findStep"
     /\ IF mine = {} THEN Leave(h)
        ELSE /\ Goto(h, "saveStep")
             /\ Keep(h, [ctx[h] EXCEPT !.done = ctx[h].row.step \in mine])
     /\ UNCHANGED <<rows, history>>

\* Mutant of SaveStep: an approved step is not set to DONE.
SaveStepNotes(h) ==
  LET r == ctx[h].request  s == ctx[h].row.step
  IN /\ pc[h] = "saveStep"
     /\ steps' = [steps EXCEPT ![r] = IF ctx[h].done THEN @ \cup {s} ELSE @ \ {s}]
     /\ raced' = IF ctx[h].done = (s \in steps[r]) THEN raced ELSE raced \cup {r}
     /\ Goto(h, IF ctx[h].op = "approve" THEN "saveApproved" ELSE "saveRejected")
     /\ UNCHANGED <<partners, requests, accounts, groups, training, tokens, ctx,
                    doubled, unblocked, torn>>

\* step.save(): DONE when approved, the status that was read when rejected.
SaveStep(h) ==
  LET r == ctx[h].request  s == ctx[h].row.step
  IN /\ pc[h] = "saveStep"
     /\ steps' = [steps EXCEPT ![r] = IF ctx[h].op = "approve" \/ ctx[h].done
                                      THEN @ \cup {s} ELSE @ \ {s}]
     /\ raced' = IF ctx[h].done = (s \in steps[r]) THEN raced ELSE raced \cup {r}
     /\ Goto(h, IF ctx[h].op = "approve" THEN "saveApproved" ELSE "saveRejected")
     /\ UNCHANGED <<partners, requests, accounts, groups, training, tokens, ctx,
                    doubled, unblocked, torn>>

SaveRejected(h) ==
  /\ pc[h] = "saveRejected"
  /\ SaveRow(h, [ctx[h].row EXCEPT !.status = "rejected"])
  /\ Leave(h)
  /\ UNCHANGED <<partners, steps, accounts, groups, training, tokens>>

\* The request goes to its next step; after asignacion_roles the account is created.
SaveApproved(h) ==
  LET row == [ctx[h].row EXCEPT !.step = @ + 1]
  IN /\ pc[h] = "saveApproved"
     /\ SaveRow(h, row)
     /\ IF row.step = 6 THEN Goto(h, "saveAccount") /\ Keep(h, [ctx[h] EXCEPT !.row = row])
        ELSE Leave(h)
     /\ UNCHANGED <<partners, steps, accounts, groups, training, tokens>>

\* createUserWithTempPassword: not active, and with a password to change.
NewAccount == [exists |-> TRUE, active |-> FALSE, mustChange |-> TRUE]

\* Mutant of SaveAccount: the account is created active.
SaveAccountActive(h) ==
  LET a == ctx[h].row.applicant
  IN /\ pc[h] = "saveAccount"
     /\ ~accounts[a].exists
     /\ accounts' = [accounts EXCEPT ![a] = [NewAccount EXCEPT !.active = TRUE]]
     /\ Goto(h, "saveUserGroup")
     /\ UNCHANGED <<partners, requests, steps, groups, training, tokens, ctx, history>>

SaveAccount(h) ==
  LET a == ctx[h].row.applicant
  IN /\ pc[h] = "saveAccount"
     /\ ~accounts[a].exists
     /\ accounts' = [accounts EXCEPT ![a] = NewAccount]
     /\ Goto(h, "saveUserGroup")
     /\ UNCHANGED <<partners, requests, steps, groups, training, tokens, ctx, history>>

\* The applicant has an account already: login and partner_id are UNIQUE.
AccountTaken(h) == /\ pc[h] = "saveAccount"
                   /\ accounts[ctx[h].row.applicant].exists
                   /\ Throw(h)

\* Mutant of SaveUserGroup: the profile is granted later, by hand.
SaveUserGroupLater(h) ==
  /\ pc[h] = "saveUserGroup"
  /\ Goto(h, "saveAccountRef")
  /\ UNCHANGED <<rows, ctx, history>>

SaveUserGroup(h) ==
  /\ pc[h] = "saveUserGroup"
  /\ groups' = groups \cup {ctx[h].row.applicant}
  /\ Goto(h, "saveAccountRef")
  /\ UNCHANGED <<partners, requests, steps, accounts, training, tokens, ctx, history>>

\* Mutant of SaveAccountRef: user_id is not set on the request.
SaveAccountRefNone(h) ==
  /\ pc[h] = "saveAccountRef"
  /\ SaveRow(h, [ctx[h].row EXCEPT !.step = 7])
  /\ Goto(h, "markAccount")
  /\ UNCHANGED <<partners, steps, accounts, groups, training, tokens, ctx>>

SaveAccountRef(h) ==
  /\ pc[h] = "saveAccountRef"
  /\ SaveRow(h, [ctx[h].row EXCEPT !.user = TRUE, !.step = 7])
  /\ Goto(h, "markAccount")
  /\ UNCHANGED <<partners, steps, accounts, groups, training, tokens, ctx>>

MarkAccount(h) ==
  /\ pc[h] = "markAccount"
  /\ Mark(h, 6)
  /\ Leave(h)
  /\ UNCHANGED <<partners, requests, accounts, groups, training, tokens, history>>

-----------------------------------------------------------------------------
(***************************************************************************)
(* acceptTraining and activateAccount                                      *)
(***************************************************************************)
\* The owner of the account, past the password change of its token; the request with
\* its user_id, in review; at step 7 it is synced first.
AcceptTraining(h, a, r) ==
  /\ pc[h] = "idle"
  /\ <<a, FALSE>> \in tokens
  /\ r \in RequestOf(a) /\ requests[r].user
  /\ requests[r].status = "in_review" /\ requests[r].step \in {7, 8}
  /\ Goto(h, IF requests[r].step = 7 THEN "findUser" ELSE "findTraining")
  /\ Keep(h, [NoContext EXCEPT !.op = "training", !.request = r, !.row = requests[r]])
  /\ UNCHANGED <<rows, history>>

FindTraining(h) ==
  /\ pc[h] = "findTraining"
  /\ Goto(h, IF ctx[h].row.applicant \in training THEN "markTraining" ELSE "saveTraining")
  /\ UNCHANGED <<rows, ctx, history>>

\* The insert of the acceptance: user_id is UNIQUE.
SaveTraining(h) ==
  /\ pc[h] = "saveTraining"
  /\ ctx[h].row.applicant \notin training
  /\ training' = training \cup {ctx[h].row.applicant}
  /\ Goto(h, "markTraining")
  /\ UNCHANGED <<partners, requests, steps, accounts, groups, tokens, ctx, history>>

TrainingTaken(h) == /\ pc[h] = "saveTraining"
                    /\ ctx[h].row.applicant \in training
                    /\ Throw(h)

MarkTraining(h) ==
  /\ pc[h] = "markTraining"
  /\ Mark(h, 8)
  /\ Goto(h, "saveTrained")
  /\ UNCHANGED <<partners, requests, accounts, groups, training, tokens, ctx, history>>

\* Mutant of SaveTrained: the step is advanced twice.
SaveTrainedPast(h) ==
  LET row == [ctx[h].row EXCEPT !.step = @ + 2]
  IN /\ pc[h] = "saveTrained"
     /\ SaveRow(h, row)
     /\ Keep(h, [ctx[h] EXCEPT !.row = row])
     /\ Goto(h, "activateUser")
     /\ UNCHANGED <<partners, steps, accounts, groups, training, tokens>>

\* Mutant of SaveTrained: acceptTraining does not activate the account.
SaveTrainedOnly(h) ==
  /\ pc[h] = "saveTrained"
  /\ SaveRow(h, [ctx[h].row EXCEPT !.step = 9])
  /\ Leave(h)
  /\ UNCHANGED <<partners, steps, accounts, groups, training, tokens>>

SaveTrained(h) ==
  LET row == [ctx[h].row EXCEPT !.step = 9]
  IN /\ pc[h] = "saveTrained"
     /\ SaveRow(h, row)
     /\ Keep(h, [ctx[h] EXCEPT !.row = row])
     /\ Goto(h, "activateUser")
     /\ UNCHANGED <<partners, steps, accounts, groups, training, tokens>>

\* userRepository.update(): the column active alone.
ActivateUser(h) ==
  /\ pc[h] = "activateUser"
  /\ accounts' = [accounts EXCEPT ![ctx[h].row.applicant].active = TRUE]
  /\ Goto(h, "saveActive")
  /\ UNCHANGED <<partners, requests, steps, groups, training, tokens, ctx, history>>

SaveActive(h) ==
  /\ pc[h] = "saveActive"
  /\ SaveRow(h, [ctx[h].row EXCEPT !.status = "active"])
  /\ Goto(h, "markActivation")
  /\ UNCHANGED <<partners, steps, accounts, groups, training, tokens, ctx>>

MarkActivation(h) ==
  /\ pc[h] = "markActivation"
  /\ Mark(h, 9)
  /\ Leave(h)
  /\ UNCHANGED <<partners, requests, accounts, groups, training, tokens, history>>

-----------------------------------------------------------------------------
(***************************************************************************)
(* AuthService and UsersService: handlers that read and save one account   *)
(***************************************************************************)
\* What the handler asks of the account it has read, or of the access token it came
\* with.  A lock after failed logins only refuses a login, and a reset asks for a token
\* that recover gives to whoever asks: neither guard keeps anything out that matters here.
MayUse(op, a) ==
  CASE op = "login"          -> accounts[a].active
    [] op = "changePassword" -> \E claim \in BOOLEAN : <<a, claim>> \in tokens
    [] OTHER                 -> TRUE

ReadUser(h, op, a) ==
  /\ work = "one"
  /\ pc[h] = "idle"
  /\ accounts[a].exists
  /\ MayUse(op, a)
  /\ Goto(h, "saveUser")
  /\ Keep(h, [NoContext EXCEPT !.op = op, !.applicant = a, !.account = accounts[a]])
  /\ UNCHANGED <<rows, history>>

\* The whole row that the handler saves.
Edited(op, account) ==
  CASE op \in {"changePassword", "resetPassword"} -> [account EXCEPT !.mustChange = FALSE]
    [] op = "block"          -> [account EXCEPT !.active = FALSE]
    [] op = "unblock"        -> [account EXCEPT !.active = TRUE]
    [] OTHER                 -> account

\* save(), after a failed login too; a login with the right password and a password
\* change give out tokens.
SaveUser(h) ==
  LET a == ctx[h].applicant  account == Edited(ctx[h].op, ctx[h].account)
  IN /\ pc[h] = "saveUser"
     /\ accounts' = [accounts EXCEPT ![a] = account]
     /\ \/ ctx[h].op # "changePassword" /\ UNCHANGED tokens
        \/ /\ ctx[h].op \in {"login", "changePassword"}
           /\ tokens' = tokens \cup {<<a, account.mustChange>>}
     /\ unblocked' = IF ctx[h].op = "unblock" THEN unblocked \cup {a} ELSE unblocked
     /\ Leave(h)
     /\ UNCHANGED <<partners, requests, steps, groups, training, raced, doubled, torn>>

-----------------------------------------------------------------------------
\* Bound: an insert into the request table after its last id throws.
IdsUsedUp(h) == pc[h] = "saveRequest" /\ RequestIds = Ids /\ Throw(h)

Fail(h) == MayFail /\ work = "one" /\ pc[h] # "idle" /\ Throw(h)

Continue(h) ==
  \/ SavePartner(h) \/ PartnerTaken(h) \/ SaveRequest(h) \/ SaveSteps(h)
  \/ FindUser(h) \/ MarkPassword(h) \/ SaveSynced(h)
  \/ FindStep(h) \/ SaveStep(h) \/ SaveRejected(h) \/ SaveApproved(h)
  \/ SaveAccount(h) \/ AccountTaken(h) \/ SaveUserGroup(h) \/ SaveAccountRef(h)
  \/ MarkAccount(h)
  \/ FindTraining(h) \/ SaveTraining(h) \/ TrainingTaken(h) \/ MarkTraining(h)
  \/ SaveTrained(h) \/ ActivateUser(h) \/ SaveActive(h) \/ MarkActivation(h)
  \/ SaveUser(h) \/ IdsUsedUp(h)

Start(h) ==
  \/ \E a \in Applicants : Register(h, a)
  \/ \E r \in Requests : Get(h, r)
  \/ \E r \in Requests, decision \in {"approve", "reject"} : Review(h, decision, r)
  \/ \E a \in Applicants, r \in Requests : AcceptTraining(h, a, r)
  \/ \E a \in Applicants, op \in UserOps : ReadUser(h, op, a)

Next == UNCHANGED work /\ \E h \in Handlers : Start(h) \/ Continue(h) \/ Fail(h)

Spec == Init /\ [][Next]_vars

-----------------------------------------------------------------------------
(***************************************************************************)
(* Properties                                                              *)
(***************************************************************************)
\* A request is past a step only if that step is DONE, whatever failed half way (the
\* row of step 6 is written after the request has moved on).  Only a row saved from a
\* stale copy can leave a hole behind.
StepsBackProgress ==
  \A r \in RequestIds \ raced :
    requests[r].step > 2 => (1..(requests[r].step - 1)) \ {6} \subseteq steps[r]

\* An enabled request has gone all the way: an account with its profile that it refers
\* to, the training accepted, the last step reached.
ActiveIsEarned ==
  \A r \in RequestIds \ raced :
    requests[r].status = "active" =>
      LET a == requests[r].applicant
      IN /\ requests[r].user /\ accounts[a].exists
         /\ a \in groups /\ a \in training
         /\ requests[r].step = 9

\* No account is active before its owner accepted the training, unless an administrator
\* unblocked it; a login or a password change that saves an old row cannot do it.
OpenedByRight ==
  \A a \in Applicants : accounts[a].active => a \in training \cup unblocked

\* Every account can be reached from a request, through which its owner goes on to step
\* 7; only a creation that died half way or a stale save cuts it off, for good.
NoOrphanAccount ==
  \A a \in Applicants :
    accounts[a].exists =>
      \E r \in RequestOf(a) : \/ requests[r].user
                            \/ r \in raced \cup torn
                            \/ \E h \in Handlers : AloneWith(h, r)

\* A request in review waits for somebody who can take it on: an administrator at a step
\* to review, its owner at steps 7 and 8.  At the other steps its handler is at work,
\* unless it died there, or the request was put back by a stale save.
WaitsForSomebody ==
  \A r \in RequestIds \ (raced \cup torn) :
    requests[r].status = "in_review" =>
      \/ requests[r].step \in 2..5 /\ steps[r] # {}
      \/ requests[r].step \in {7, 8} /\ requests[r].user
      \/ \E h \in Handlers : AloneWith(h, r)

\* An applicant has one request in review, unless two registrations overlapped or a
\* stale save brought a decided request back.
OneOpenRequestUnlessRaced ==
  \A a \in Applicants \ doubled : \A r, s \in InReview(a) \ raced : r = s

\* test/enablement.e2e-spec.ts: once the account is created, its owner can log in with
\* the temporary password, in order to change it.
FirstLoginPossible ==
  \A r \in RequestIds : AtPassword(requests[r]) => MayUse("login", requests[r].applicant)
=============================================================================

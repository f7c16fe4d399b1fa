# AGD backend: TLA+ models, checks and proofs

This directory holds TLA+ models of the AGD customs-warehouse backend (NestJS,
TypeORM, MySQL), TLC configurations that check them on small instances, and
proofs checked by TLAPS. Paths below are those of the repository
(`src/modules/...` is the code, `src/database/migrations/...` the schema).

The backend is a stateless HTTP server over MySQL. Nothing in it runs in the
background: every state change is made by a request handler, an `async` function
that reads rows, decides, and saves rows. What makes it hard to test is what
happens *between* those calls. Except for `SequenceService.next` no handler opens a
transaction, so two requests interleave at every `await`, a handler that throws
leaves what it has saved, and a row that is saved from an old copy puts back what
others changed. The models are about exactly that.

## 1. Inventory

### 1.1 Components

| Component | State | Operations | Calls |
|---|---|---|---|
| **sequence** `config/sequence.service.ts` | `ir_sequence.last_number` | `next(code)`: SELECT ... FOR UPDATE, +1, UPDATE, COMMIT | called by cases, warehouse |
| **sales** `sales/` | quote requests, comparisons, `sale_order` + lines, carts + items | `createQuoteRequest`, `submitProviderQuote`, `selectQuote`, `addCartItem`, `getCart`, `checkout`, `confirmContract` | cases, billing, catalog |
| **cases** `cases/` | `agd_case`, parties, semaphore, audit messages | `createCase`, `addParty`, `updateSemaphore`, `closeCase`, lookups | sequence, governance, documents |
| **documents** `documents/` | document types, documents, the checklist of a case | `upload`, `reviewDocument`, `seedChecklist`, `fulfillChecklistItem` | used by cases |
| **billing** `billing/` | `account_move` + lines, `account_payment` | `createInvoice`, `createPayment` | called by sales |
| **warehouse** `warehouse/` | locations, pickings, moves, lots, quants | `createReceipt`, `createPickingOrder`, `executeMove`, `adjustQuant` | sequence; called by wms |
| **wms** `wms/` | custody records, storage periods, discrepancies and their matrix, weighing, consolidation, handling | `createReceipt`, `createPickingOrder`, `addDiscrepancyItem`, `reconcileMatrix`, single inserts | warehouse, sidunea, deadline rules of config |
| **enablement** `enablement/` | requests, their nine steps, policy and training acceptances | `register`, `reviewStep`, `uploadDocument`, `syncPasswordStep`, `acceptTraining` | auth, users |
| **auth** `auth/` | sessions, reset tokens, the password and lock columns of `res_users`, access tokens | `login`, `refresh`, `logout`, `revokeSession`, `changePassword`, `recoverPassword`, `resetPassword`, `createUserWithTempPassword` | called by enablement |
| **users** `users/` | `res_users.active` | `block`, `unblock` | |
| **access control** `identity/`, `auth/guards/` | groups, `ir_model_access`, `ir_rule` | a lookup per request | |
| **governance** `governance/` | versioned matrices, required documents per profile, segregation rules, workflow instances, activities | CRUD, `createVersion`, `publishVersion`, `decideWorkflowInstance`, `completeActivity` | used by cases |
| **services** `services/` | service publications and their versions | `createPublicationVersion`, `publishVersion` | |
| **customs** `customs/` | licenses, declarations + items, regime, liquidation | `verifyLicense`, `createDeclaration`, `addItem`, `assignRegime`, `createLiquidation` | sidunea, cases |
| **sidunea** `sidunea/` | DUAs with items, manifests, exit passes, inspections, simulations, and the mirror that lists them | `createDua` and its kin, `mirror`, `updateModaiInspection`, `assertManifestBelongsToCase` | called by wms, cases |
| **home** `home/` | pages, menus, legal policies and their versions | CRUD, `publishPolicyVersion` | |
| **support, catalog, config, health** | tickets, tariffs, parameters, health log | CRUD | |
| **database, common** | migrations, seeds, filters, utilities | | |

### 1.2 How they interact

Three chains of calls cross components and carry the system's logic:

1. *Contracting.* `selectQuote` or `checkout` -> `confirmContract` ->
   `CasesService.createCase` (-> `SequenceService.next`, party, semaphore,
   checklist) -> `BillingService.createInvoice`.
2. *Goods.* `WmsService.createReceipt` -> manifest check ->
   `WarehouseService.createReceipt` (-> sequence, picking, a double-entry move per
   line) -> custody record -> storage period.
3. *Enablement.* `register` -> four reviews -> `createUserWithTempPassword`, group,
   `user_id` -> first login and password change, noticed by `syncPasswordStep` the
   next time somebody reads the request -> `acceptTraining` -> activation.

They share tables, never memory; UNIQUE keys of the migrations are often the only
thing that keeps two handlers apart.

### 1.3 What is hard, and what must hold

| Component | Hard behaviours | What makes it correct |
|---|---|---|
| sequence | concurrent calls, failure before and after COMMIT, numbers that outgrow the padding or the column | no code twice; holes only where a caller died; no lock left behind |
| sales, cases, billing | two selections of a request, two checkouts of a cart, an offer selected before its lines exist, failure anywhere in `confirmContract` | one award per request, for good; one file and one bill per order, in that order; what was answered exists; a closed cart is fully contracted |
| warehouse, wms | overlapping adjustments of a quant, checks done before any line moves, failure between take-out and bring-in | the ledger balances; physical stock is not negative; DONE means posted |
| enablement, auth, users | rows saved from stale copies, registrations that overlap, failure between account, group and request | progress is backed by steps; an active account has been earned; every account and request can still be taken on |
| cases, documents | closing a case while its checklist is seeded or changed; a creation that dies before the checklist | a closed case has its mandatory documents |
| customs | a party that is registered or not when an agent declares; items added while a liquidation is created; a liquidation that dies before it submits | only an agent of the case declares; submitted means liquidated, with the items it was submitted with |
| sidunea | failure between a reference, its items and its mirror; two inserts of one number | the mirror lists every reference of the case once |
| wms discrepancies | a matrix saved whole from an old copy; failure between item and total | the total counts the items; reconciled means all resolved |
| governance, services, home | two publications or two decisions at once, failure between archiving and publishing, numbers computed from what was read | one published version; numbers without gaps; a decision stands |
| auth sessions, locks | a refresh racing a refresh or a revocation, failed logins that overlap, a block undone by a login's save | a token is exchanged once; locks and blocks hold |

`PROJECT.json` lists each hazard at its
line with the properties that cover it, or why none does yet.

## 2. Plan

Order of importance, and of writing:

1. `Sequence` with `AtomicCounter` and `SequenceProofs` - **done.**
2. `Contracting` (sales + createCase + createInvoice) with `ContractLifecycle`,
   `ContractingProofs` and `ContractingCheckoutProofs` - **done.**
3. `StockLedger` (warehouse + wms receipts and pickings) with `StockLedgerProofs` - **done.**
4. `Enablement` (enablement + users + the account side of auth) with `EnablementProofs` -
   **done.**
5. `CaseFile`, `Customs`, `Sidunea`, `Discrepancies`, composed by `Casework` over
   `Requests`, with `CaseworkProofs` - **done.**
6. `Governance`: the versions and publications of governance, services and home, and
   the decisions of workflow instances, activities and inspections, with
   `GovernanceProofs` - **done.**
7. `Accounts`: logins, locks, blocks, recovery, sessions, with `AccountsProofs` - **done.**

`Contracting` composes sales, cases and billing, because their handlers run as one;
`CaseFile` takes the `CompleteCase` step of `Contracting` apart into its single saves.
Section 6 lists what stays out, and why. Every invariant of a passing run is a theorem,
and so are the two refinements; only TLC checks liveness (end of section 5). What may
still be worth stating: that the single saves of `CaseFile` refine the `CompleteCase`
step of `Contracting`, and properties for the three hazards that `PROJECT.json` lists
without one.

## 3. How the code is modelled

- **Handlers.** `Handlers` is the set of requests that may be served at the same
  time. `pc[h]` names the repository call handler `h` makes next and `ctx[h]` is what
  it has in local variables. One action is one call that another handler could
  observe, together with all the local computation up to the next such call. Reads that
  nothing can change in between are merged with the step that follows.
- **Failure.** `Fail` lets a handler stop at every `await`: a dead process, a lost
  connection, a deadlock victim. Nothing is undone, because no transaction surrounds
  the calls; only `SequenceService.next` rolls back.
- **save() and update().** TypeORM's `save` writes the row as the handler holds it;
  the models keep that copy in `ctx` and write it back, so lost updates happen in them.
  `update` writes its columns only.
- **Keys.** UNIQUE keys of the migrations are guards (`comparison`, `cartItems`,
  `period`, `partners`, `accounts`, `training`, `versions`, `references`, `matrix`), with a `...Taken` action for the insert
  that is refused. Where there is no key, nothing keeps a second row out.
- **findOne** without ORDER BY returns any row that matches.
- **History variables** (`torn`, `late`, `hasty`, `raced`, `contended`, `doubled`,
  `unblocked`, `answered`, `lost`, `issued`, `overlapped`, `told`, `disputed`, `early`,
  `halfLiquidated`, `tornRefs`, `tornAdd`, `stale`, `blocked`, `strikes`, `lastStrike`) are written and never read by an action of
  the code. They name the races the code does not keep out, so that a property can say
  what holds *except* there. Each is set where the race happens and not where its
  damage shows.
- **Bounds.** `MaxOrders`, `MaxCases`, ... are the ids a table can give out. An insert
  after the last one throws (`IdsUsedUp`), which is one more failure and hides nothing.
  `MaxQty`, `MaxLines` bound the inputs, `MaxNumber` the int column, `MaxTime` the clock.
  Where a module serves several kinds of record or of work that never meet, a constant
  (`Works`, `Desks`) lists them and a variable that never changes picks one, so that one
  run checks each of them and none of their products.
- **Data.** Amounts are bags of products (prices are fixed per product): two amounts
  are equal when they were computed from the same quantities. Names, prices,
  currencies, dates, references, lots and packages are left out. `cart` of an order
  and `order` of a case are fields of the models and not columns of the tables.

### Modules

| Module | Models |
|---|---|
| `AtomicCounter` | abstract: a counter per sequence, taking a number is one step |
| `Sequence` | `SequenceService.next`: `SelectForUpdate`, `Update`, `Commit`, `Return`, and the failures `NotFound`, `OutOfRange`, `Rollback`, `DieCommitted`; `Formatted` is the prefix and `padStart` |
| `SequenceProofs` | its inductive invariant and theorems, and that `Formatted` keeps numbers apart |
| `ContractLifecycle` | abstract: offered, awarded, contracted, filed, invoiced |
| `Contracting` | `SalesService` with `createCase` and `createInvoice`: quotes (`SubmitQuote` ... `SaveCompared`), cart (`FindCart` ... `CloseCart`), `confirmContract` (`SaveConfirmed` ... `SaveInvoiceLines`) |
| `ContractingProofs` | types and control, awards and ownership, refinement |
| `ContractingCheckoutProofs` | what is answered and billed, and what a checkout contracts |
| `StockLedger` | `WarehouseService` and the receipts and picking orders of `WmsService`, for the goods of one case |
| `StockLedgerProofs` | sums over rows, the ledger, and the goods that orders count on |
| `Enablement` | `EnablementService`, `block` and `unblock`, and what the operations of `AuthService` do to an account |
| `EnablementProofs` | its inductive invariant and theorems |
| `Governance` | the versions of a matrix, a legal policy or a service (`UsePublication` ... `InsertVersion`), their publication (`Publish` ... `UpdateHeader`), and the record that is decided once (`StartDecidable`, `Decide`, `SaveDecision`) of `GovernanceService`, `ServicesService`, `HomeService` and `SidUneaService` |
| `GovernanceProofs` | its inductive invariant and theorems |
| `Requests` | what the four modules of a case share: handlers and their calls |
| `CaseFile` | `CasesService` (`createCase` in its single saves, parties, semaphore, `closeCase`) and `DocumentsService` (`Upload`, `ReviewDocument`, `FulfillChecklistItem`) |
| `Customs` | `CustomsService`: licenses, declarations, items, regime, liquidation; reads the parties of `CaseFile` |
| `Sidunea` | the references of `SidUneaService` and their mirror |
| `Discrepancies` | the discrepancy matrix of `WmsService` |
| `Casework` | the four together, each at its `desk` |
| `CaseworkProofs` | their inductive invariants and theorems |
| `Accounts` | `AuthService` and `UsersService` on one account: `ReadUser` to `SaveUser` for what edits the row, `Refresh`, `SaveRevoked`, `Issue`, `RevokeSession`, `Logout` for the sessions |
| `AccountsProofs` | its inductive invariant and theorems |
| `MC...` | the constants' values and symmetry for TLC |

Operators whose comment starts with "Mutant of" are wrong versions of the definition
named there, each with a plausible mistake (a dropped guard, a missing key, a step left
out). No specification uses them: they show that the property they are paired with in
`PROJECT.json` does fail when the code is wrong in that way.

Points where a model is coarser than the code, on purpose:

- In `Contracting`, the owner party, the semaphore and the checklist of `createCase` are
  one step (`CompleteCase`): nothing in this module reads them one by one; `CaseFile` has
  them one by one. The sequence
  call of `createCase` has no effect here beyond possibly failing.
- In `StockLedger`, a receipt whose manifest is not of the case is refused before it
  writes anything and is left out. Quants of different cases never meet, so one case
  is enough.
- In `Enablement`, a GET that would change nothing is no step; that is why these runs
  do not check deadlock: the system really can stop, for instance with a request at
  step 6 whose account could not be created, or with every request decided. The lock
  after failed logins and the token of a password reset are guards that keep out nothing
  the properties speak of; `Accounts` has them. With several requests, reviews overlap
  only until one was saved from a stale copy (`OverlapWatched`); what stale reviews do to
  each other is watched on one request.
- In `Governance` a behaviour is about one record: the handlers of different owners share
  no row. A decision of a workflow instance is one word, without its comment and user.
- In `Casework` the customs desk starts from a case that is made (`CaseMade`), a state
  that the file desk reaches, and only adds parties to it: `createDeclaration` reads
  nothing else of the file. A case has one declaration, and there are two cases where a
  number could be taken by another one (`Sidunea`).
- In `Accounts` a behaviour is about the account or about its sessions; a password is
  a value that is typed, right or wrong, and its hash is the same value.

## 4. Runs

All bounds are small; the reasons why the interesting cases happen are given with each.

| Run | Instance | Shows |
|---|---|---|
| `sequence` | 3 callers, a configured and an unknown code, radix 2, padding 2, `MaxNumber` 4 | no duplicate code, every number accounted for, every call ends, the calls implement `AtomicCounter`. Three callers: one holds the lock, two wait and race for it. 4 is 100 in radix 2, so it outgrows the padding; the next call overflows the column |
| `quotes` | 3 handlers, 1 request, 2 orders, failures | `AwardIsFinal`, `FiledAndBilledOnce`, `AnsweredIsComplete`, `InvoiceMatchesUnlessHasty`, refinement of `ContractLifecycle`. Two orders let selections of different offers race; the third handler offers, or selects a third time |
| `quotes_live` | 2 handlers, no failures, fairness | `AwardIsInvoiced` |
| `cart` | 2 handlers, 1 cart, 2 products of 2 providers and one without provider, quantities to 2, 2 orders, failures | a closed cart is contracted in full, also when quantities are raised while a checkout reads, and never when it cannot be billed; a provider is contracted twice only if checkouts overlapped or failed half way. Two orders are a whole checkout, or two that overlap |
| `stock` | 2 handlers, 1 product, 1 zone, 3 pickings, failures | `LedgerExact`, `NeverNegativeUnlessContended`, `DoneIsPosted`, `AnsweredIsInCustody`. Three pickings are a receipt and two orders that compete for its goods, or receipts that race to insert the same quant |
| `enablement` | 2 handlers; 1 request, with login, password change, block, unblock and failures, or 2 requests of one applicant without | the whole way from registration to activation with anything in between: `StepsBackProgress`, `ActiveIsEarned`, `OpenedByRight`, `NoOrphanAccount`, `WaitsForSomebody`, and `OneOpenRequestUnlessRaced`. The second request comes after a rejection, or from a registration that overlaps |
| `governance` | 3 handlers on one record of each of 6 kinds, 3 versions, failures | `OnePublishedUnlessOverlapped`, `CatalogueFollowsVersions`, `VersionsNumbered`, `DecisionStandsUnlessDisputed`. Three versions: one that is published, and two that want to replace it at once. Deadlock is not checked: versions and decisions do run out |
| `casework` | 2 handlers at each of 4 desks; 2 partners, 3 requirements (2 mandatory), 1 document, 1 declaration with 2 items, 2 cases, 1 number of each kind, 3 differences; failures | `ClosedIsCompleteUnlessEarly`, `DeclaredByAgentOfCase`, `SubmissionHolds`, `MirrorFollowsReference`, `MatrixFollowsItems`. Two handlers are a closing and a creation, an item and a liquidation, two inserts of one number, two saves of one matrix |
| `accounts` | 2 handlers on the account or on its sessions; threshold 2, locks and sessions that last one unit of time, 3 sessions; failures | `OneSuccessorUnlessRaced`, `StandingHoldsUnlessStale`. A lock sets in and runs out, a token is refreshed twice in a row or twice at once |

Three runs expect a violation. Each states what the repository says of itself, and the
trace is a behaviour of the code:

| Run | The repository says | The trace |
|---|---|---|
| `cart_race` | README, Fase 5, and the comment above `checkout`: one contract and one case per provider in the cart | two checkouts read the cart before either has closed it (`sales.service.ts:262-321`) and both contract it |
| `stock_negative` | README, Fase 7: external locations may be negative because they are not physical | an order with two lines for the same goods passes both checks before it moves either (`warehouse.service.ts:123-136`) |
| `first_login` | `test/enablement.e2e-spec.ts`: the first login with the temporary password answers 201 | the account is created inactive and `login` refuses inactive accounts (`auth.service.ts:64-66`, `248-254`); it becomes active only after that login |

Three more sentences of the repository do not hold as they stand. No run is spent on
them, because the properties above say what holds instead and name the exception:

- README, Fase 2, one published version of a matrix: two publications that overlap
  leave two (`OnePublishedUnlessOverlapped`, `overlapped`; `governance.service.ts:109`).
- README, Fase 2, `closeCase` refuses a case with pending documents: it finds nothing
  pending before `createCase` has seeded the checklist, and for good if that died
  (`ClosedIsCompleteUnlessEarly`, `early`; `cases.service.ts:164-170`).
- README, Fase 5, every contracting confirms the order, creates the case and invoices:
  `confirmContract` that dies after its first save leaves a compared request, which
  nothing takes up again (`sales.service.ts:366-396`); `AnsweredIsComplete` therefore
  speaks of contracts that were answered.

### Fairness

- `Sequence!FairSpec`: weak fairness of each caller's own statements, because the event
  loop and MySQL go on with a call they have begun, and strong fairness of
  `SelectForUpdate`, because InnoDB grants a row lock to its waiters in turn. Nothing
  forces calls to arrive or to fail. `EveryCallEnds` needs the strong part: the lock is
  taken and released again and again while a caller waits.
- `Contracting!FairSpec`: weak fairness of `Continue(h)` for each handler: a started
  handler goes on. Clients need not call, and `Fail` is not forced. `AwardIsInvoiced`
  is checked without failures, since with them it is false: a `confirmContract` that dies
  after its first save is not taken up again.

## 5. Proofs

| Module | Theorems |
|---|---|
| `SequenceProofs` | `TypeCorrect`, `NumbersUnique`, `CodesUnique`, `Accounted`, `Refinement` |
| `ContractingProofs` | `TypeCorrect`, `Invariance`, `AwardFinal`, `FiledOnceBilledOnce`, `Refinement` |
| `ContractingCheckoutProofs` | `FullInvariance`, `AnsweredComplete`, `InvoiceMatches`, `CheckoutCovers`, `OneContractEach` |
| `StockLedgerProofs` | `TypeCorrect`, `LedgerBalances`, `DonePosted`, `CustodyHeld`, `NeverNegative` |
| `EnablementProofs` | `TypeCorrect`, `StepsBack`, `ActiveEarned`, `OpenedRightly`, `NoOrphan`, `SomebodyWaitedFor`, `OneOpenRequest` |
| `GovernanceProofs` | `TypeCorrect`, `NumbersFollow`, `OnePublished`, `Catalogue`, `DecisionStands` |
| `CaseworkProofs` | `TypeCorrect`, `ClosedComplete`, `DeclaredByAgent`, `SubmissionKept`, `MirrorFollows`, `MatrixCounts` |
| `AccountsProofs` | `TypeCorrect`, `Invariance`, `StandingHeld`, `OneSuccessor` |

They hold for every value of the constants that satisfies the assumptions of the
modules (`SequenceAssumption`, `ContractingAssumption`, `StockAssumption`,
`EnablementAssumption`, `GovernanceAssumption`, `RequestsAssumption`,
`CaseFileAssumption`, `CustomsAssumption`, `SiduneaAssumption`,
`DiscrepanciesAssumption`, `CaseworkAssumption`, `AccountsAssumption`): any number of
handlers, rows, versions, products, providers and partners, with and without failures.
None has a hypothesis beyond these. TLC checked every inductive invariant on small
instances before its proof.

**Sequence.** No two returned numbers are equal is not inductive: it says nothing of a
number that is on its way. `IInv` adds three facts. `LockInv`: a caller between its
SELECT and its COMMIT, and nobody else, holds the lock of its row. `EntityInv`: so
the number in its memory is the committed one (plus one after the increment). `FreshInv`:
a committed number in the hands of a caller has not been returned and nobody else
has it. COMMIT then hands out a number above all earlier ones (`IssuedInv`).
`Accounted` and `Refinement` follow from the same invariant: a step of `next` is
`Take` at COMMIT, `Deliver` at the return, `Lose` at a death after COMMIT, and a
stutter everywhere else. `CodesUnique` goes from numbers to codes: no two numbers have
the same `Digits` (`DigitsInjective`), none but zero begins with a zero (`DigitsShape`), so
the zeros put in front can be told from them (`PadStartInjective`), and a prefix changes
nothing (`FormattedInjective`). The library's induction theorems take an operator as a
parameter, which the provers here do not instantiate; these lemmas look at the least
number that would break them, which is a member of a set, and `DigitsIs` shows in the
same way that a function with the recursive equation exists.

**Contracting.** The types need to know where a handler is: `ControlInv` says what is in
its context at each call (an order from the moment it was inserted, a file after
`saveCase`, ...). Safety needs ownership. `selectQuote` reads no status, so two handlers
may well hold the same order before `saveComparison`; the UNIQUE key lets one through,
and from then on `OwnerInv` says that no two handlers in the calls after it have
the same order. `AwardInv` ties contracts to their comparison, `FileInv` and
`InvoiceInv` say which rows the owner's order has at each of its calls. Together,
`IInv` is inductive, and implies `AwardIsFinal` and `FiledAndBilledOnce`. The step
lemmas go through `Moves`, a summary of what a call does to the tables, so that
each conjunct is proved once per kind of change and not once per action.
`Refinement` maps `comparison` to the award and the rows of an order to its stage; with
`IInv` each insert is the matching step of `ContractLifecycle`, and all else a stutter.

What is billed and covered needs more than ownership, hence `FullInv`. `BillInv`: the
owner of an order bills the lines that were written, or the order was selected before
they were (`hasty`); the orders that it has made are complete. `SoleInv`: a cart that is
not torn has one checkout, and one order per provider. `CoverInv` is about the loop of
`checkout`: each item of the cart is in an order that is billed, in the hands of the
handler, or still to do, unless it was saved after the checkout had read the cart
(`late`). When nothing is left to do, only the first remains, and the cart may close.

**StockLedger.** `LedgerExact` compares sums over rows. The first section proves what
the sum of the community modules does when a row is added or changed, by the smallest
set on which it would not. The ledger then is inductive together with what a request
knows when it is about to save a quant: the row it found is the only one of its entry and
still holds what was read (`FoundInv`, `OneRow`), unless another adjustment overlapped
(`raced`). That no quantity leaves its domain needs a bound that grows with the moves made
so far (`BoundInv`). `NeverNegative` relates the check of a line to its move, which come
at different times: `CoveredInv` keeps the goods that a checked line has still to take,
`AskedInv` says that nobody else counts on them (`contended`).

**Enablement.** No row says what a handler has done before it saves its request.
`HeldInv` says, for each call, that the row held was in review and at the step of this
call, and which saves for its applicant precede it. A save from a current copy then keeps
every property; one from a stale copy puts its request into `raced`, which the
properties that it may break exempt. `OpenedByRight` needs the rows in the hands of logins
and password changes, which write `active` back as they read it. `WaitsForSomebody` needs
to know, for each step, whose turn it is (`WaitingInv`), and `NoOrphanAccount` follows the
account from its insert to the request that refers to it (`ReachableInv`).
`RegistrationInv`: who is about to insert a request has found none in review, and there
is none yet, unless two registrations overlapped (`doubled`).

**Governance.** None of the four properties is inductive: each speaks of rows, and what
threatens it is in the hands of a handler. `ControlInv` says what that is: the version
to publish exists, the one to archive is no draft, and the number to insert is at most
one above the last. With that, UNIQUE (owner, number) leaves exactly one number that an
insert can succeed with, hence `NumbersFollow`. `Exclusive` holds as long as publications
did not overlap: there is one publisher, and by how far it has come the published
versions are what it found, none, or its own. `CatalogueInv` says that what a
publication has archived without publishing yet is still in the hands of a handler,
unless one died (`torn`), and needs `Exclusive` where a later publication mends that.
`DecisionInv`: once a decision was answered, nobody else is about to save one, unless
that was noticed (`disputed`).

**Casework.** The calls of the four desks have names of their own, so one `HeldInv`
over calls covers them, and a step of one desk leaves the invariants of the others alone.
`FileInv`: until the checklist is seeded nobody works on the case, and who is about to
close it has seen it complete, which nothing takes back. `CustomsRead`: a license
and a role that were checked once are never withdrawn, so that the two checks of
`createDeclaration` hold together at its save. `SubmissionInv` ties a liquidation to the
handler that will submit it. `HandsInv` and `MirrorsInv`: an inserted reference is
mirrored, in the hands of one handler, or torn. `DiscrepancyInv`: no matrix, saved or
held, counts more items than there are, one that is reconciled counts resolved ones only,
and what a fresh matrix does not count yet is in the hands of those who add it.

**Accounts.** A refresh saves a session that it once found not revoked. Either it still is
not, and this save starts the session's only exchange, or the session goes into
`raced`. From then on the exchange belongs to that handler and ends in a successor or
an error: `SessionInv` says that exactly one of the three is the case, and the counts of
`OneSuccessorUnlessRaced` follow. `StandingInv` adds to `StandingHoldsUnlessStale` that the
counter of the row equals `strikes`: without it nothing says that the failure that
reaches the threshold is the one that locks.

**Model-checked only.** Liveness (`EveryCallEnds`, `AwardIsInvoiced`), since the prover
does not treat fairness and ENABLED. All invariants of the passing runs, and both
refinements, are proved as well as checked. The three runs that expect a violation show
behaviours, which need no proof.

## 6. Not modelled

- Access control: guards and `ir_rule` filters change no state. The models start from
  requests the guards have let through.
- CRUD of catalog, configuration, support, home content, and of the catalogues of
  governance, services and documents: single-row saves that no rule relates.
  Contracting takes the provider of a product as a constant. `assertNoSegregationConflict`
  of governance is called by nobody.
- `createPayment`, receipt discrepancies, weighing, consolidation, handling tasks,
  `acceptPolicy`, document tags and relations, `createCustomsRegime`: inserts that nothing
  reads to decide anything.
- Audit messages: written by many operations and read by none.
- The profile that step 4 of an enablement may replace, lots and packages, prices and
  currencies, tariff codes: data no modelled decision depends on.
- Health, migrations, seeds and HTTP plumbing: I/O. The UNIQUE keys and column types
  of the migrations are in the guards of the models.

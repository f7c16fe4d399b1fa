\* Two handlers: on one request, up to the active account, with failures at every call;
\* and on two requests of an applicant that registers again, without failures.
SPECIFICATION Spec
CONSTANTS
  Handlers = {h1, h2}
  Applicants = {a1}
  NoApplicant = NoApplicant
  Works = {"one", "several"}
  MaxRequests = 2
  UserOps = {"login", "changePassword", "block", "unblock"}
  MayFail = TRUE
SYMMETRY Symmetry
CHECK_DEADLOCK FALSE
INVARIANTS
  TypeOK
  StepsBackProgress
  ActiveIsEarned
  OpenedByRight
  NoOrphanAccount
  WaitsForSomebody
  OneOpenRequestUnlessRaced

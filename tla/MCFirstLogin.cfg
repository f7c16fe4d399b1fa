\* One handler: the plain nine steps.
SPECIFICATION Spec
CONSTANTS
  Handlers = {h1}
  Applicants = {a1}
  NoApplicant = NoApplicant
  Works = {"one"}
  MaxRequests = 1
  UserOps = {"login", "changePassword"}
  MayFail = FALSE
CHECK_DEADLOCK FALSE
INVARIANTS
  FirstLoginPossible

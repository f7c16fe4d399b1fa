\* Two requests at a time on one account.  A lock lasts one unit of time, as a session does.
SPECIFICATION Spec
CONSTANTS
  Handlers = {h1, h2}
  MayFail = TRUE
  Passwords = {p1, p2}
  First = p1
  Threshold = 2
  LockTime = 1
  SessionTime = 1
  TokenTime = 0
  Works = {"account", "sessions"}
  MaxTime = 1
  MaxAttempts = 3
  MaxTokens = 1
  MaxSessions = 3
SYMMETRY Symmetry
INVARIANTS
  TypeOK
  OneSuccessorUnlessRaced
  StandingHoldsUnlessStale

\* Three handlers on the versions of one owner, or on one record that is decided once.
SPECIFICATION Spec
CONSTANTS
  Handlers = {h1, h2, h3}
  Works = {"matrix", "policy", "service", "instance", "activity", "inspection"}
  MaxVersions = 3
  MayFail = TRUE
SYMMETRY Symmetry
CHECK_DEADLOCK FALSE
INVARIANTS
  TypeOK
  OnePublishedUnlessOverlapped
  CatalogueFollowsVersions
  VersionsNumbered
  DecisionStandsUnlessDisputed

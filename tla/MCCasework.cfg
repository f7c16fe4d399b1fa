\* Two requests at a time at each desk, any of which may die between two awaits.
SPECIFICATION Spec
CONSTANTS
  Handlers = {h1, h2}
  MayFail = TRUE
  Partners = {owner, admin}
  Owner = owner
  Requirements = {d1, d2, d3}
  Required = {d1, d2, d3}
  Mandatory = {d1, d2}
  MaxDocuments = 1
  Admin = admin
  MaxDeclarations = 1
  MaxItems = 2
  Cases = {c1, c2}
  NoCase = none
  Numbers = {n1}
  MaxDifferences = 3
  Desks = {"file", "customs", "sidunea", "discrepancies"}
SYMMETRY Symmetry
INVARIANTS
  TypeOK
  ClosedIsCompleteUnlessEarly
  DeclaredByAgentOfCase
  SubmissionHolds
  MirrorFollowsReference
  MatrixFollowsItems

\* Two handlers on the stock of a case, with failures at every call.
SPECIFICATION Spec
CONSTANTS
  Handlers = {h1, h2}
  Products = {pa}
  Places = {zoneA}
  Supplier = extProv
  Customer = extCli
  MaxQty = 1
  MaxLines = 1
  MaxPickings = 3
  MayFail = TRUE
SYMMETRY Symmetry
INVARIANTS
  TypeOK
  LedgerExact
  NeverNegativeUnlessContended
  DoneIsPosted
  AnsweredIsInCustody

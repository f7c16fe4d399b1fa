\* One picking order with two lines of the same goods, and nobody else around.
SPECIFICATION Spec
CONSTANTS
  Handlers = {h1}
  Products = {pa}
  Places = {zoneA}
  Supplier = extProv
  Customer = extCli
  MaxQty = 1
  MaxLines = 2
  MaxPickings = 2
  MayFail = FALSE
INVARIANTS
  OnlyExternalNegative

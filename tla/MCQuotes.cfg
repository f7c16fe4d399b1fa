\* Three handlers on one quote request: offers and selections race and fail.
SPECIFICATION Spec
CONSTANTS
  pa = pa  pb = pb  px = px  va = va  vb = vb
  NoProvider = NoProvider
  ProviderOf <- MCProviderOf
  Handlers = {h1, h2, h3}
  Products = {pa}
  Providers = {va}
  MaxQty = 1
  MaxRequests = 1
  MaxOrders = 2
  MaxCarts = 0
  MaxCases = 2
  MaxInvoices = 2
  MayFail = TRUE
SYMMETRY Symmetry
INVARIANTS
  TypeOK
  AwardIsFinal
  FiledAndBilledOnce
  AnsweredIsComplete
  InvoiceMatchesUnlessHasty
PROPERTIES
  ImplementsLifecycle

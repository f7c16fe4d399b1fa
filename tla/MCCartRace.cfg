\* Two checkouts of a cart overlap.
SPECIFICATION Spec
CONSTANTS
  pa = pa  pb = pb  px = px  va = va  vb = vb
  NoProvider = NoProvider
  ProviderOf <- MCProviderOf
  Handlers = {h1, h2}
  Products = {pa}
  Providers = {va}
  MaxQty = 1
  MaxRequests = 0
  MaxOrders = 2
  MaxCarts = 1
  MaxCases = 2
  MaxInvoices = 2
  MayFail = FALSE
SYMMETRY Symmetry
INVARIANTS
  OneContractPerProvider

\* Two handlers on a cart with two providers, quantities and a product without provider:
\* checkouts overlap and fail.
SPECIFICATION Spec
CONSTANTS
  pa = pa  pb = pb  px = px  va = va  vb = vb
  NoProvider = NoProvider
  ProviderOf <- MCProviderOf
  Handlers = {h1, h2}
  Products = {pa, pb, px}
  Providers = {va, vb}
  MaxQty = 2
  MaxRequests = 0
  MaxOrders = 2
  MaxCarts = 1
  MaxCases = 2
  MaxInvoices = 2
  MayFail = TRUE
SYMMETRY Symmetry
INVARIANTS
  CheckoutCoversCart
  OneContractPerProviderUnlessTorn

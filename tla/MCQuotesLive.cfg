\* Quotes without failures, under fairness.
SPECIFICATION FairSpec
CONSTANTS
  pa = pa  pb = pb  px = px  va = va  vb = vb
  NoProvider = NoProvider
  ProviderOf <- MCProviderOf
  Handlers = {h1, h2}
  Products = {pa}
  Providers = {va}
  MaxQty = 1
  MaxRequests = 1
  MaxOrders = 2
  MaxCarts = 0
  MaxCases = 2
  MaxInvoices = 2
  MayFail = FALSE
PROPERTIES
  AwardIsInvoiced

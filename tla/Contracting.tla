---------------------------- MODULE Contracting ----------------------------
(***************************************************************************)
(* SalesService (src/modules/sales/sales.service.ts) with the parts of     *)
(* CasesService.createCase and BillingService.createInvoice it calls:      *)
(* quote requests and provider quotes, the selection of a quote, the cart, *)
(* its checkout, and confirmContract, which both of them end in.           *)
(*                                                                         *)
(* A handler is one HTTP request being served.  Its awaits are the points  *)
(* where other handlers run, so every repository call another handler can  *)
(* observe is an action, and what a handler read before is in ctx.  There  *)
(* is no transaction around a handler: one that throws, or whose process   *)
(* dies, leaves what it has saved.                                         *)
(*                                                                         *)
(* A money amount is kept as the quantities it was computed from (a bag of *)
(* products), prices being fixed per product.                              *)
(***************************************************************************)
EXTENDS Naturals, FiniteSets

CONSTANTS
  Handlers,      \* requests that may be served at the same time
  Products,      \* product templates with a tariff
  Providers,     \* partners that provide them
  ProviderOf,    \* ProviderOf[p]: provider_partner_id of p, or NoProvider
  NoProvider,
  MaxQty,        \* greatest quantity of a line
  MaxRequests, MaxOrders, MaxCarts, MaxCases, MaxInvoices,  \* ids a table can give out
  MayFail        \* whether handlers may die between two awaits

ASSUME ContractingAssumption ==
  /\ NoProvider \notin Providers
  /\ ProviderOf \in [Products -> Providers \cup {NoProvider}]
  /\ MaxQty \in Nat
  /\ MaxRequests \in Nat /\ MaxOrders \in Nat /\ MaxCarts \in Nat
  /\ MaxCases \in Nat /\ MaxInvoices \in Nat
  /\ MayFail \in BOOLEAN

None     == 0                        \* no id: ids start at 1
Requests == 1..MaxRequests
Orders   == 1..MaxOrders
Carts    == 1..MaxCarts
Cases    == 1..MaxCases
Invoices == 1..MaxInvoices
Bag      == [Products -> 0..MaxQty]
Empty    == [p \in Products |-> 0]

VARIABLES
  requests,     \* agd_quote_request.status, "absent" where there is no row
  comparison,   \* agd_quote_comparison by its UNIQUE quote_request_id: the selected order
  orders,       \* sale_order and whether its sale_order_line rows are there
  carts,        \* agd_service_cart.status of one client's carts
  cartItems,    \* agd_service_cart_item.quantity by its UNIQUE (cart, product); 0: no row
  cases,        \* agd_case rows and whether party, semaphore and checklist are there
  invoices,     \* account_move rows and whether the account_move_line rows are there
  pc, ctx,      \* the handlers: next repository call, local variables
  torn,         \* history: carts with overlapping checkouts or one that failed half way
  late,         \* history: cart items saved after a checkout had read the cart
  hasty,        \* history: orders selected before their lines were saved
  answered      \* history: orders whose client got a 201 for the contract

tables == <<requests, comparison, orders, carts, cartItems, cases, invoices>>
vars   == <<tables, pc, ctx, torn, late, hasty, answered>>

OrderRow == [state    : {"absent", "draft", "sent", "confirmed"},
             type     : {"quote", "contract"},
             request  : Requests \cup {None},
             cart     : Carts \cup {None},          \* not a column: where it came from
             provider : Providers \cup {NoProvider},
             total    : Bag,
             written  : BOOLEAN]
CaseRow    == [order : Orders \cup {None}, complete : BOOLEAN]
InvoiceRow == [order : Orders \cup {None}, total : Bag, detailed : BOOLEAN]

Context == [op      : {"none", "submit", "select", "getCart", "addItem", "checkout"},
            request : Requests \cup {None},
            order   : Orders \cup {None},
            cart    : Carts \cup {None},
            product : Products \cup {None},
            items   : Bag,                 \* dto lines, or the cart rows that were read
            todo    : SUBSET Providers,    \* providers of the cart still to contract
            lines   : Bag,                 \* order lines that were read
            file    : Cases \cup {None},
            invoice : Invoices \cup {None},
            made    : SUBSET Orders]       \* the orders of the cases to answer with

NoContext == [op |-> "none", request |-> None, order |-> None, cart |-> None,
              product |-> None, items |-> Empty, todo |-> {}, lines |-> Empty,
              file |-> None, invoice |-> None, made |-> {}]

QuoteCalls    == {"saveQuote", "saveQuoteLines", "saveComparison", "saveCompared"}
CartCalls     == {"saveCart", "findItem", "saveItem", "findItems",
                  "saveContract", "saveContractLines", "closeCart"}
ContractCalls == {"saveConfirmed", "saveCase", "completeCase", "findLines",
                  "saveInvoice", "saveInvoiceLines"}
Calls == {"idle"} \cup QuoteCalls \cup CartCalls \cup ContractCalls

TypeOK ==
  /\ requests \in [Requests -> {"absent", "open", "compared"}]
  /\ comparison \in [Requests -> Orders \cup {None}]
  /\ orders \in [Orders -> OrderRow]
  /\ carts \in [Carts -> {"absent", "open", "checked_out"}]
  /\ cartItems \in [Carts -> Bag]
  /\ cases \in [Cases -> CaseRow]
  /\ invoices \in [Invoices -> InvoiceRow]
  /\ pc \in [Handlers -> Calls]
  /\ ctx \in [Handlers -> Context]
  /\ torn \subseteq Carts
  /\ late \subseteq Carts \X Products
  /\ hasty \subseteq Orders
  /\ answered \subseteq Orders

Init ==
  /\ requests = [r \in Requests |-> "absent"]
  /\ comparison = [r \in Requests |-> None]
  /\ orders = [o \in Orders |->
       [state |-> "absent", type |-> "quote", request |-> None, cart |-> None,
        provider |-> NoProvider, total |-> Empty, written |-> FALSE]]
  /\ carts = [k \in Carts |-> "absent"]
  /\ cartItems = [k \in Carts |-> Empty]
  /\ cases = [c \in Cases |-> [order |-> None, complete |-> FALSE]]
  /\ invoices = [i \in Invoices |-> [order |-> None, total |-> Empty, detailed |-> FALSE]]
  /\ pc = [h \in Handlers |-> "idle"]
  /\ ctx = [h \in Handlers |-> NoContext]
  /\ torn = {} /\ late = {} /\ hasty = {} /\ answered = {}

-----------------------------------------------------------------------------
(***************************************************************************)
(* Rows, ids and handlers                                                  *)
(***************************************************************************)
OrderIds   == {o \in Orders : orders[o].state # "absent"}
CaseIds    == {c \in Cases : cases[c].order # None}
InvoiceIds == {i \in Invoices : invoices[i].order # None}
RequestIds == {r \in Requests : requests[r] # "absent"}
CartIds    == {k \in Carts : carts[k] # "absent"}

\* AUTO_INCREMENT: the id of the next row of a table whose ids in use are `used'.
IsNextId(i, used) == i \notin used /\ \A j \in 1..(i - 1) : j \in used

\* save() of a row.
SetOrder(o, row)   == orders' = [orders EXCEPT ![o] = row]
SetCase(c, row)    == cases' = [cases EXCEPT ![c] = row]
SetInvoice(i, row) == invoices' = [invoices EXCEPT ![i] = row]

Goto(h, call) == pc' = [pc EXCEPT ![h] = call]

\* The handler's local variables become c.
Keep(h, c) == ctx' = [ctx EXCEPT ![h] = c]

\* The handler answers, or its exception becomes an error response.
Leave(h) == Goto(h, "idle") /\ Keep(h, NoContext)

\* A checkout that stops here has drafted an order and left the cart open.
HalfDone(h) == ctx[h].op = "checkout" /\ (ctx[h].order # None \/ ctx[h].made # {})

\* The handler's next call throws: nothing is undone.
Throw(h) == /\ Leave(h)
            /\ torn' = IF HalfDone(h) THEN torn \cup {ctx[h].cart} ELSE torn
            /\ UNCHANGED <<tables, late, hasty, answered>>

history == <<torn, late, hasty, answered>>

-----------------------------------------------------------------------------
(***************************************************************************)
(* Quotes                                                                  *)
(***************************************************************************)
\* createQuoteRequest: the request and its lines, which nothing below reads.
CreateQuoteRequest(r) ==
  /\ IsNextId(r, RequestIds)
  /\ requests' = [requests EXCEPT ![r] = "open"]
  /\ UNCHANGED <<comparison, orders, carts, cartItems, cases, invoices, pc, ctx, history>>

\* submitProviderQuote: the request must be open when it is read.
SubmitQuote(h, r, bag) ==
  /\ pc[h] = "idle"
  /\ requests[r] = "open"
  /\ Goto(h, "saveQuote")
  /\ Keep(h, [NoContext EXCEPT !.op = "submit", !.request = r, !.items = bag])
  /\ UNCHANGED <<tables, history>>

\* The sale_order row of the quote of provider v, before its lines.
QuoteOrder(h, v) ==
  [state |-> "sent", type |-> "quote", request |-> ctx[h].request, cart |-> None,
   provider |-> v, total |-> ctx[h].items, written |-> FALSE]

SaveQuote(h) ==
  /\ pc[h] = "saveQuote"
  /\ \E o \in Orders, v \in Providers :
       /\ IsNextId(o, OrderIds)
       /\ SetOrder(o, QuoteOrder(h, v))
       /\ Keep(h, [ctx[h] EXCEPT !.order = o])
  /\ Goto(h, "saveQuoteLines")
  /\ UNCHANGED <<requests, comparison, carts, cartItems, cases, invoices, history>>

SaveQuoteLines(h) ==
  /\ pc[h] = "saveQuoteLines"
  /\ SetOrder(ctx[h].order, [orders[ctx[h].order] EXCEPT !.written = TRUE])
  /\ Leave(h)
  /\ UNCHANGED <<requests, comparison, carts, cartItems, cases, invoices, history>>

\* selectQuote: any order of the request may be selected; its status is not read.
SelectQuote(h, r, o) ==
  /\ pc[h] = "idle"
  /\ requests[r] # "absent"
  /\ orders[o].state # "absent" /\ orders[o].request = r
  /\ Goto(h, "saveComparison")
  /\ Keep(h, [NoContext EXCEPT !.op = "select", !.request = r, !.order = o])
  /\ UNCHANGED <<tables, history>>

\* Mutant of SaveComparison: quote_request_id is not UNIQUE.
SaveComparisonAgain(h) ==
  /\ pc[h] = "saveComparison"
  /\ comparison' = [comparison EXCEPT ![ctx[h].request] = ctx[h].order]
  /\ hasty' = IF orders[ctx[h].order].written THEN hasty ELSE hasty \cup {ctx[h].order}
  /\ Goto(h, "saveCompared")
  /\ UNCHANGED <<requests, orders, carts, cartItems, cases, invoices, ctx,
                 torn, late, answered>>

\* The insert of agd_quote_comparison: quote_request_id is UNIQUE.
SaveComparison(h) ==
  /\ pc[h] = "saveComparison"
  /\ comparison[ctx[h].request] = None
  /\ comparison' = [comparison EXCEPT ![ctx[h].request] = ctx[h].order]
  /\ hasty' = IF orders[ctx[h].order].written THEN hasty ELSE hasty \cup {ctx[h].order}
  /\ Goto(h, "saveCompared")
  /\ UNCHANGED <<requests, orders, carts, cartItems, cases, invoices, ctx,
                 torn, late, answered>>

ComparisonTaken(h) ==
  /\ pc[h] = "saveComparison"
  /\ comparison[ctx[h].request] # None
  /\ Throw(h)

\* Mutant of SaveCompared: the handler answers without confirming the contract.
SaveComparedOnly(h) ==
  /\ pc[h] = "saveCompared"
  /\ requests' = [requests EXCEPT ![ctx[h].request] = "compared"]
  /\ Leave(h)
  /\ UNCHANGED <<comparison, orders, carts, cartItems, cases, invoices, history>>

SaveCompared(h) ==
  /\ pc[h] = "saveCompared"
  /\ requests' = [requests EXCEPT ![ctx[h].request] = "compared"]
  /\ Goto(h, "saveConfirmed")
  /\ UNCHANGED <<comparison, orders, carts, cartItems, cases, invoices, ctx, history>>

-----------------------------------------------------------------------------
(***************************************************************************)
(* The cart                                                                *)
(***************************************************************************)
OpenCarts == {k \in Carts : carts[k] = "open"}

\* What a cart handler does once getOrCreateOpenCart has returned.
AfterCart == [getCart |-> "idle", addItem |-> "findItem", checkout |-> "findItems"]

CheckingOut(h, k) == ctx[h].op = "checkout" /\ ctx[h].cart = k

\* Handler h goes on with cart k; two checkouts that share a cart are recorded.
UseCart(h, op, p, k) ==
  /\ Goto(h, AfterCart[op])
  /\ Keep(h, IF op = "getCart" THEN NoContext
             ELSE [NoContext EXCEPT !.op = op, !.product = p, !.cart = k])
  /\ torn' = IF op = "checkout" /\ \E g \in Handlers \ {h} : CheckingOut(g, k)
             THEN torn \cup {k} ELSE torn
  /\ UNCHANGED <<late, hasty, answered>>

\* getCart, addCartItem or checkout starts; getOrCreateOpenCart finds an open cart.
FindCart(h, op, p, k) ==
  /\ pc[h] = "idle"
  /\ k \in OpenCarts
  /\ UseCart(h, op, p, k)
  /\ UNCHANGED tables

\* ... or finds none, and goes on to create one.
FindNoCart(h, op, p) ==
  /\ pc[h] = "idle"
  /\ OpenCarts = {}
  /\ Goto(h, "saveCart")
  /\ Keep(h, [NoContext EXCEPT !.op = op, !.product = p])
  /\ UNCHANGED <<tables, history>>

\* Nothing in the table keeps a second open cart out.
SaveCart(h) ==
  /\ pc[h] = "saveCart"
  /\ \E k \in Carts :
       /\ IsNextId(k, CartIds)
       /\ carts' = [carts EXCEPT ![k] = "open"]
       /\ UseCart(h, ctx[h].op, ctx[h].product, k)
  /\ UNCHANGED <<requests, comparison, orders, cartItems, cases, invoices>>

\* addCartItem looks for the item of the product (0: there is none).
FindItem(h) ==
  LET k == ctx[h].cart  p == ctx[h].product
  IN /\ pc[h] = "findItem"
     /\ cartItems[k][p] < MaxQty
     /\ Keep(h, [ctx[h] EXCEPT !.items = [Empty EXCEPT ![p] = cartItems[k][p]]])
     /\ Goto(h, "saveItem")
     /\ UNCHANGED <<tables, history>>

\* Bound: no call asks for more than MaxQty of a product.
ItemFull(h) == /\ pc[h] = "findItem"
               /\ cartItems[ctx[h].cart][ctx[h].product] = MaxQty
               /\ Throw(h)

\* A checkout has read the items of cart k, or has closed it.
CheckoutPast(k) ==
  \/ carts[k] = "checked_out"
  \/ \E g \in Handlers : CheckingOut(g, k) /\ pc[g] # "findItems"

\* save(): the insert of a new row, which fails on UNIQUE (cart, product) if there is
\* one by now, or the update of the row found, to the quantity read plus the new one.
SaveItem(h) ==
  LET k == ctx[h].cart  p == ctx[h].product  found == ctx[h].items[p]
  IN /\ pc[h] = "saveItem"
     /\ found > 0 \/ cartItems[k][p] = 0
     /\ \E q \in 1..(MaxQty - found) :
          cartItems' = [cartItems EXCEPT ![k] = [cartItems[k] EXCEPT ![p] = found + q]]
     /\ late' = IF CheckoutPast(k) THEN late \cup {<<k, p>>} ELSE late
     /\ Leave(h)
     /\ UNCHANGED <<requests, comparison, orders, carts, cases, invoices,
                    torn, hasty, answered>>

ItemTaken(h) ==
  /\ pc[h] = "saveItem"
  /\ ctx[h].items[ctx[h].product] = 0
  /\ cartItems[ctx[h].cart][ctx[h].product] > 0
  /\ Throw(h)

\* checkout reads the items; they are grouped by provider.
InCart(bag)   == {p \in Products : bag[p] > 0}
Billable(bag) == InCart(bag) # {} /\ \A p \in InCart(bag) : ProviderOf[p] # NoProvider
\* Mutant of PartOf: every line counts as one unit.
PartOfUnits(bag, v) ==
  [p \in Products |-> IF ProviderOf[p] = v /\ bag[p] > 0 THEN 1 ELSE 0]

PartOf(bag, v) == [p \in Products |-> IF ProviderOf[p] = v THEN bag[p] ELSE 0]

FindItems(h) ==
  LET bag == cartItems[ctx[h].cart]
  IN /\ pc[h] = "findItems"
     /\ Billable(bag)
     /\ Keep(h, [ctx[h] EXCEPT !.items = bag,
                           !.todo = {ProviderOf[p] : p \in InCart(bag)}])
     /\ Goto(h, "saveContract")
     /\ UNCHANGED <<tables, history>>

\* Empty cart, or an item without provider: BadRequestException, nothing written.
NotBillable(h) == /\ pc[h] = "findItems"
                  /\ ~Billable(cartItems[ctx[h].cart])
                  /\ Throw(h)

\* The sale_order row of the cart's contract with provider v, before its lines.
DraftContract(h, v) ==
  [state |-> "draft", type |-> "contract", request |-> None, cart |-> ctx[h].cart,
   provider |-> v, total |-> PartOf(ctx[h].items, v), written |-> FALSE]

\* Mutant of SaveContract: the provider stays among those to do.
SaveContractAgain(h) ==
  /\ pc[h] = "saveContract"
  /\ \E o \in Orders, v \in ctx[h].todo :
       /\ IsNextId(o, OrderIds)
       /\ SetOrder(o, DraftContract(h, v))
       /\ Keep(h, [ctx[h] EXCEPT !.order = o])
  /\ Goto(h, "saveContractLines")
  /\ UNCHANGED <<requests, comparison, carts, cartItems, cases, invoices, history>>

\* One turn of the loop over the providers: the draft contract of provider v.
SaveContract(h) ==
  /\ pc[h] = "saveContract"
  /\ \E o \in Orders, v \in ctx[h].todo :
       /\ IsNextId(o, OrderIds)
       /\ SetOrder(o, DraftContract(h, v))
       /\ Keep(h, [ctx[h] EXCEPT !.order = o, !.todo = ctx[h].todo \ {v}])
  /\ Goto(h, "saveContractLines")
  /\ UNCHANGED <<requests, comparison, carts, cartItems, cases, invoices, history>>

SaveContractLines(h) ==
  /\ pc[h] = "saveContractLines"
  /\ SetOrder(ctx[h].order, [orders[ctx[h].order] EXCEPT !.written = TRUE])
  /\ Goto(h, "saveConfirmed")
  /\ UNCHANGED <<requests, comparison, carts, cartItems, cases, invoices, ctx, history>>

\* The last save of checkout, and its answer.
CloseCart(h) ==
  /\ pc[h] = "closeCart"
  /\ carts' = [carts EXCEPT ![ctx[h].cart] = "checked_out"]
  /\ answered' = answered \cup ctx[h].made
  /\ Leave(h)
  /\ UNCHANGED <<requests, comparison, orders, cartItems, cases, invoices,
                 torn, late, hasty>>

-----------------------------------------------------------------------------
(***************************************************************************)
(* confirmContract                                                         *)
(***************************************************************************)
\* Mutant of SaveConfirmed: the state that is set is DONE.
SaveConfirmedDone(h) ==
  LET o == ctx[h].order
  IN /\ pc[h] = "saveConfirmed"
     /\ SetOrder(o, [orders[o] EXCEPT !.type = "contract", !.state = "done"])
     /\ Goto(h, "saveCase")
     /\ UNCHANGED <<requests, comparison, carts, cartItems, cases, invoices, ctx, history>>

\* Mutant of SaveConfirmed: the invoice does not wait for createCase.
SaveConfirmedNoCase(h) ==
  LET o == ctx[h].order
  IN /\ pc[h] = "saveConfirmed"
     /\ SetOrder(o, [orders[o] EXCEPT !.type = "contract", !.state = "confirmed"])
     /\ Goto(h, "findLines")
     /\ UNCHANGED <<requests, comparison, carts, cartItems, cases, invoices, ctx, history>>

\* order.orderType, state, confirmedAt; save(order).
SaveConfirmed(h) ==
  LET o == ctx[h].order
  IN /\ pc[h] = "saveConfirmed"
     /\ SetOrder(o, [orders[o] EXCEPT !.type = "contract", !.state = "confirmed"])
     /\ Goto(h, "saveCase")
     /\ UNCHANGED <<requests, comparison, carts, cartItems, cases, invoices, ctx, history>>

\* casesService.createCase: the next code of the sequence, the agd_case row.
SaveCase(h) ==
  /\ pc[h] = "saveCase"
  /\ \E c \in Cases :
       /\ IsNextId(c, CaseIds)
       /\ SetCase(c, [order |-> ctx[h].order, complete |-> FALSE])
       /\ Keep(h, [ctx[h] EXCEPT !.file = c])
  /\ Goto(h, "completeCase")
  /\ UNCHANGED <<requests, comparison, orders, carts, cartItems, invoices, history>>

\* Mutant of CompleteCase: createCase stops after its row, without an error.
CompleteCaseSkipped(h) ==
  /\ pc[h] = "completeCase"
  /\ Goto(h, "findLines")
  /\ UNCHANGED <<tables, ctx, history>>

\* The rest of createCase: owner party, semaphore, checklist.
CompleteCase(h) ==
  /\ pc[h] = "completeCase"
  /\ SetCase(ctx[h].file, [cases[ctx[h].file] EXCEPT !.complete = TRUE])
  /\ Goto(h, "findLines")
  /\ UNCHANGED <<requests, comparison, orders, carts, cartItems, invoices, ctx, history>>

\* Mutant of FindLines: the lines of another order of the same request or cart.
FindLinesOfAnother(h) ==
  LET o == ctx[h].order
  IN /\ pc[h] = "findLines"
     /\ \E q \in OrderIds : /\ orders[q].request = orders[o].request
                            /\ Keep(h, [ctx[h] EXCEPT !.lines = orders[q].total])
     /\ Goto(h, "saveInvoice")
     /\ UNCHANGED <<tables, history>>

\* The order's lines, as many as are there by now.
FindLines(h) ==
  LET o == ctx[h].order
  IN /\ pc[h] = "findLines"
     /\ Keep(h, [ctx[h] EXCEPT !.lines = IF orders[o].written THEN orders[o].total
                                        ELSE Empty])
     /\ Goto(h, "saveInvoice")
     /\ UNCHANGED <<tables, history>>

\* billingService.createInvoice: the move, its amount the sum of the lines read.
SaveInvoice(h) ==
  /\ pc[h] = "saveInvoice"
  /\ \E i \in Invoices :
       /\ IsNextId(i, InvoiceIds)
       /\ SetInvoice(i,
            [order |-> ctx[h].order, total |-> ctx[h].lines, detailed |-> FALSE])
       /\ Keep(h, [ctx[h] EXCEPT !.invoice = i])
  /\ Goto(h, "saveInvoiceLines")
  /\ UNCHANGED <<requests, comparison, orders, carts, cartItems, cases, history>>

\* The move's lines; selectQuote answers, checkout goes on with its next provider.
SaveInvoiceLines(h) ==
  /\ pc[h] = "saveInvoiceLines"
  /\ SetInvoice(ctx[h].invoice, [invoices[ctx[h].invoice] EXCEPT !.detailed = TRUE])
  /\ IF ctx[h].op = "select"
     THEN Leave(h) /\ answered' = answered \cup {ctx[h].order}
     ELSE /\ Goto(h, IF ctx[h].todo = {} THEN "closeCart" ELSE "saveContract")
          /\ Keep(h, [ctx[h] EXCEPT !.made = ctx[h].made \cup {ctx[h].order},
                                !.order = None, !.file = None,
                                !.invoice = None, !.lines = Empty])
          /\ UNCHANGED answered
  /\ UNCHANGED <<requests, comparison, orders, carts, cartItems, cases,
                 torn, late, hasty>>

-----------------------------------------------------------------------------
\* Bound: an insert into a table that has given out all its ids throws.
IdsUsedUp(h) ==
  /\ \/ pc[h] \in {"saveQuote", "saveContract"} /\ OrderIds = Orders
     \/ pc[h] = "saveCart" /\ CartIds = Carts
     \/ pc[h] = "saveCase" /\ CaseIds = Cases
     \/ pc[h] = "saveInvoice" /\ InvoiceIds = Invoices
  /\ Throw(h)

\* The process dies or the database refuses a call, between any two awaits.
Fail(h) == MayFail /\ pc[h] # "idle" /\ Throw(h)

\* The calls a handler makes by itself once it has started.
Continue(h) ==
  \/ SaveQuote(h) \/ SaveQuoteLines(h)
  \/ SaveComparison(h) \/ ComparisonTaken(h) \/ SaveCompared(h)
  \/ SaveCart(h) \/ FindItem(h) \/ ItemFull(h) \/ SaveItem(h) \/ ItemTaken(h)
  \/ FindItems(h) \/ NotBillable(h) \/ SaveContract(h) \/ SaveContractLines(h)
  \/ CloseCart(h)
  \/ SaveConfirmed(h) \/ SaveCase(h) \/ CompleteCase(h) \/ FindLines(h)
  \/ SaveInvoice(h) \/ SaveInvoiceLines(h)
  \/ IdsUsedUp(h)

\* The requests that clients and providers may send.
Start(h) ==
  \/ \E r \in Requests, bag \in Bag : SubmitQuote(h, r, bag)
  \/ \E r \in Requests, o \in Orders : SelectQuote(h, r, o)
  \/ \E op \in {"getCart", "checkout"} :
       \/ \E k \in Carts : FindCart(h, op, None, k)
       \/ FindNoCart(h, op, None)
  \/ \E p \in Products :
       \/ \E k \in Carts : FindCart(h, "addItem", p, k)
       \/ FindNoCart(h, "addItem", p)

Next == \/ \E r \in Requests : CreateQuoteRequest(r)
        \/ \E h \in Handlers : Start(h) \/ Continue(h) \/ Fail(h)

Spec == Init /\ [][Next]_vars

\* The event loop and the database serve every handler: a started one goes on.
\* Nothing makes clients call or handlers fail.
FairSpec == Spec /\ \A h \in Handlers : WF_vars(Continue(h))

-----------------------------------------------------------------------------
(***************************************************************************)
(* Properties                                                              *)
(***************************************************************************)
Contracts == {o \in Orders : orders[o].state # "absent" /\ orders[o].type = "contract"}

\* A quote request ends in at most one contract, and that one is the quote of its
\* comparison, however many selections race and wherever they fail; the guard is the
\* UNIQUE key alone, since selectQuote never looks at the request's status.
AwardIsFinal ==
  \A o \in Contracts :
    orders[o].request # None => comparison[orders[o].request] = o

\* confirmContract never runs twice for an order: no order gets a second case file or
\* a second invoice, and none is invoiced before it has a file and is confirmed.
FiledAndBilledOnce ==
  /\ \A c, d \in CaseIds : cases[c].order = cases[d].order => c = d
  /\ \A i, j \in InvoiceIds : invoices[i].order = invoices[j].order => i = j
  /\ \A i \in InvoiceIds : \E c \in CaseIds :
       /\ cases[c].order = invoices[i].order
       /\ cases[c].complete
       /\ orders[invoices[i].order].state = "confirmed"

\* The client who got the case as an answer has the whole contract: confirmed order,
\* case with its party, semaphore and checklist, invoice with its lines.
AnsweredIsComplete ==
  \A o \in answered :
    /\ orders[o].state = "confirmed"
    /\ \E c \in Cases : cases[c].order = o /\ cases[c].complete
    /\ \E i \in Invoices : invoices[i].order = o /\ invoices[i].detailed

\* The invoice is for the amount of the order.  Only an order selected while its lines
\* were still missing can be invoiced otherwise, and then for nothing at all.
InvoiceMatchesUnlessHasty ==
  \A i \in InvoiceIds :
    LET o == invoices[i].order
    IN \/ invoices[i].total = orders[o].total
       \/ o \in hasty /\ invoices[i].total = Empty

\* Every item of a checked-out cart was contracted in full with its provider; only an
\* item saved after the checkout had read the cart can be left out.
CheckoutCoversCart ==
  \A k \in Carts, p \in Products :
    (carts[k] = "checked_out" /\ cartItems[k][p] > 0 /\ <<k, p>> \notin late) =>
      \E o \in Contracts : /\ orders[o].cart = k
                           /\ orders[o].provider = ProviderOf[p]
                           /\ orders[o].total[p] = cartItems[k][p]
                           /\ \E i \in InvoiceIds : invoices[i].order = o

\* One contract per provider of a cart, unless two checkouts of the cart overlapped
\* or one failed half way and was repeated.
OneContractPerProviderUnlessTorn ==
  \A o, q \in Contracts :
    (/\ orders[o].cart # None /\ orders[o].cart = orders[q].cart
     /\ orders[o].provider = orders[q].provider
     /\ orders[o].cart \notin torn) => o = q

\* How far order o has come, as its rows show it.
OrderStage(o) ==
  IF orders[o].state = "absent" THEN "absent"
  ELSE IF orders[o].state # "confirmed" THEN "offered"
  ELSE IF ~\E c \in Cases : cases[c].order = o THEN "contracted"
  ELSE IF ~\E i \in Invoices : invoices[i].order = o THEN "filed"
  ELSE "invoiced"

\* The handlers, interleaved and failing anywhere, implement the contract life cycle.
Lifecycle == INSTANCE ContractLifecycle WITH
  NoRequest <- None, NoOrder <- None,
  award  <- comparison,
  origin <- [o \in Orders |-> orders[o].request],
  stage  <- [o \in Orders |-> OrderStage(o)]

ImplementsLifecycle == Lifecycle!CSpec

\* Without failures a selected quote ends as an invoiced contract.
AwardIsInvoiced ==
  \A r \in Requests, o \in Orders :
    comparison[r] = o ~> \E i \in Invoices : invoices[i].order = o /\ invoices[i].detailed

\* README, Fase 5: a contract and a case for each provider in the cart.
OneContractPerProvider ==
  \A o, q \in Contracts :
    (/\ orders[o].cart # None /\ orders[o].cart = orders[q].cart
     /\ orders[o].provider = orders[q].provider) => o = q
=============================================================================

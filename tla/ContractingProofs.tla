------------------------- MODULE ContractingProofs -------------------------
(***************************************************************************)
(* What Contracting's handlers do and may never do, for any number of      *)
(* handlers, products, providers and ids: their types, one award per       *)
(* request, one file and one invoice per order, and the contract life      *)
(* cycle that they implement.  What a handler holds at each of its calls   *)
(* (ControlInv) makes the type invariant inductive; the rest is that the   *)
(* UNIQUE comparison, or a fresh id, gives an order one owner, and only    *)
(* its owner files and bills it.                                           *)
(***************************************************************************)
EXTENDS Contracting, TLAPS

USE ContractingAssumption DEF None

CartOps == {"getCart", "addItem", "checkout"}

\* What a handler has in its variables at each call.
ControlOf(h) ==
  /\ pc[h] = "saveQuote" => ctx[h].op = "submit" /\ ctx[h].request \in Requests
  /\ pc[h] = "saveQuoteLines" => ctx[h].op = "submit" /\ ctx[h].order \in Orders
  /\ pc[h] \in {"saveComparison", "saveCompared"} =>
       ctx[h].op = "select" /\ ctx[h].request \in Requests /\ ctx[h].order \in Orders
  /\ pc[h] = "saveCart" =>
       ctx[h].op \in CartOps /\ (ctx[h].op = "addItem" => ctx[h].product \in Products)
  /\ pc[h] \in {"findItem", "saveItem"} =>
       ctx[h].op = "addItem" /\ ctx[h].cart \in Carts /\ ctx[h].product \in Products
  /\ pc[h] \in {"findItems", "saveContract", "saveContractLines", "closeCart"} =>
       ctx[h].op = "checkout" /\ ctx[h].cart \in Carts
  /\ pc[h] = "saveContractLines" => ctx[h].order \in Orders
  /\ pc[h] \in ContractCalls =>
       /\ ctx[h].order \in Orders
       /\ \/ ctx[h].op = "select" /\ ctx[h].request \in Requests
          \/ ctx[h].op = "checkout" /\ ctx[h].cart \in Carts
  /\ ctx[h].op = "checkout" =>
       \/ ctx[h].cart \in Carts
       \/ pc[h] = "saveCart" /\ ~HalfDone(h)

ControlInv == \A h \in Handlers : ControlOf(h)

-----------------------------------------------------------------------------
(***************************************************************************)
(* The steps of Next, one by one                                           *)
(***************************************************************************)
\* What handler h may do next: one of its calls, or throw.
Serve(h) ==
  \/ \E r \in Requests, bag \in Bag : SubmitQuote(h, r, bag)
  \/ SaveQuote(h) \/ SaveQuoteLines(h)
  \/ \E r \in Requests, o \in Orders : SelectQuote(h, r, o)
  \/ SaveComparison(h) \/ SaveCompared(h)
  \/ \E op \in CartOps, p \in Products \cup {None} :
       /\ op = "addItem" => p \in Products
       /\ \/ \E k \in Carts : FindCart(h, op, p, k)
          \/ FindNoCart(h, op, p)
  \/ SaveCart(h) \/ FindItem(h) \/ SaveItem(h)
  \/ FindItems(h) \/ SaveContract(h) \/ SaveContractLines(h) \/ CloseCart(h)
  \/ SaveConfirmed(h) \/ SaveCase(h) \/ CompleteCase(h) \/ FindLines(h)
  \/ SaveInvoice(h) \/ SaveInvoiceLines(h)
  \/ Throw(h)

\* Every step is one of the calls, or a handler that throws.
LEMMA NextCases ==
  ASSUME Next
  PROVE  \/ \E r \in Requests : CreateQuoteRequest(r)
         \/ \E h \in Handlers : Serve(h)
BY DEF Next, Start, Continue, CartOps, ComparisonTaken, ItemFull, ItemTaken,
       NotBillable, IdsUsedUp, Fail, Serve

-----------------------------------------------------------------------------
(***************************************************************************)
(* Type correctness                                                        *)
(***************************************************************************)
LEMMA EmptyBag == Empty \in Bag
BY DEF Empty, Bag

LEMMA NoContextType == NoContext \in Context
BY EmptyBag DEF NoContext, Context

LEMMA KeepType ==
  ASSUME TypeOK, NEW h \in Handlers, NEW c \in Context, Keep(h, c)
  PROVE  ctx' \in [Handlers -> Context]
BY DEF TypeOK, Keep

LEMMA GotoType ==
  ASSUME TypeOK, NEW h \in Handlers, NEW call \in Calls, Goto(h, call)
  PROVE  pc' \in [Handlers -> Calls]
BY DEF TypeOK, Goto

LEMMA LeaveType ==
  ASSUME TypeOK, NEW h \in Handlers, Leave(h)
  PROVE  pc' \in [Handlers -> Calls] /\ ctx' \in [Handlers -> Context]
BY KeepType, GotoType, NoContextType DEF Leave, Calls

LEMMA SetOrderType ==
  ASSUME TypeOK, NEW o \in Orders, NEW row \in OrderRow, SetOrder(o, row)
  PROVE  orders' \in [Orders -> OrderRow]
BY DEF TypeOK, SetOrder

LEMMA SetCaseType ==
  ASSUME TypeOK, NEW c \in Cases, NEW row \in CaseRow, SetCase(c, row)
  PROVE  cases' \in [Cases -> CaseRow]
BY DEF TypeOK, SetCase

LEMMA SetInvoiceType ==
  ASSUME TypeOK, NEW i \in Invoices, NEW row \in InvoiceRow, SetInvoice(i, row)
  PROVE  invoices' \in [Invoices -> InvoiceRow]
BY DEF TypeOK, SetInvoice

\* The handler goes on with cart k.
LEMMA UseCartType ==
  ASSUME TypeOK, NEW h \in Handlers, NEW op \in CartOps,
         NEW p \in Products \cup {None}, NEW k \in Carts, UseCart(h, op, p, k)
  PROVE  /\ pc' \in [Handlers -> Calls] /\ ctx' \in [Handlers -> Context]
         /\ torn' \subseteq Carts /\ UNCHANGED <<late, hasty, answered>>
<1>1. AfterCart[op] \in Calls
  BY DEF AfterCart, CartOps, Calls, CartCalls
<1>2. [NoContext EXCEPT !.op = op, !.product = p, !.cart = k] \in Context
  BY NoContextType DEF Context, CartOps
<1>3. torn' \in {torn, torn \cup {k}} /\ torn \subseteq Carts
  BY DEF UseCart, TypeOK
<1> QED
  BY <1>1, <1>2, <1>3, KeepType, GotoType, NoContextType DEF UseCart

LEMMA TypeStep == TypeOK /\ ControlInv /\ [Next]_vars => TypeOK'
<1> SUFFICES ASSUME TypeOK, ControlInv, [Next]_vars PROVE TypeOK'
  OBVIOUS
<1> USE DEF tables, history
<1>0. /\ pc \in [Handlers -> Calls] /\ ctx \in [Handlers -> Context]
      /\ orders \in [Orders -> OrderRow] /\ cases \in [Cases -> CaseRow]
      /\ invoices \in [Invoices -> InvoiceRow] /\ cartItems \in [Carts -> Bag]
      /\ requests \in [Requests -> {"absent", "open", "compared"}]
      /\ comparison \in [Requests -> Orders \cup {None}]
      /\ carts \in [Carts -> {"absent", "open", "checked_out"}]
      /\ torn \subseteq Carts /\ late \subseteq Carts \X Products
      /\ hasty \subseteq Orders /\ answered \subseteq Orders
  BY DEF TypeOK
<1>1. CASE UNCHANGED vars
  BY <1>1 DEF TypeOK, vars
<1>2. ASSUME NEW r \in Requests, CreateQuoteRequest(r)
      PROVE  TypeOK'
  <2>1. requests' \in [Requests -> {"absent", "open", "compared"}]
    BY <1>0, <1>2 DEF CreateQuoteRequest
  <2> QED
    BY <1>0, <1>2, <2>1 DEF TypeOK, CreateQuoteRequest
<1>3. ASSUME NEW h \in Handlers, NEW r \in Requests, NEW bag \in Bag, SubmitQuote(h, r, bag)
      PROVE  TypeOK'
  <2>1. "saveQuote" \in Calls /\ Goto(h, "saveQuote")
    BY <1>3 DEF SubmitQuote, Calls, QuoteCalls, CartCalls, ContractCalls
  <2>2. [NoContext EXCEPT !.op = "submit", !.request = r, !.items = bag] \in Context
    BY NoContextType DEF Context
  <2> QED
    BY <1>0, <1>3, <2>1, <2>2, KeepType, GotoType DEF TypeOK, SubmitQuote
<1>4. ASSUME NEW h \in Handlers, SaveQuote(h)
      PROVE  TypeOK'
  <2>1. "saveQuoteLines" \in Calls /\ Goto(h, "saveQuoteLines")
    BY <1>4 DEF SaveQuote, Calls, QuoteCalls, CartCalls, ContractCalls
  <2>2. ctx[h] \in Context /\ ctx[h].request \in Requests \cup {None} /\ ctx[h].items \in Bag
    BY <1>0 DEF Context
  <2>3. PICK o \in Orders, v \in Providers :
         SetOrder(o, QuoteOrder(h, v)) /\ Keep(h, [ctx[h] EXCEPT !.order = o])
    BY <1>4 DEF SaveQuote
  <2>4. QuoteOrder(h, v) \in OrderRow
    BY <2>2 DEF QuoteOrder, OrderRow
  <2>5. [ctx[h] EXCEPT !.order = o] \in Context
    BY <2>2 DEF Context
  <2> QED
    BY <1>0, <1>4, <2>1, <2>2, <2>3, <2>4, <2>5, KeepType, GotoType, SetOrderType DEF TypeOK, SaveQuote
<1>5. ASSUME NEW h \in Handlers, SaveQuoteLines(h)
      PROVE  TypeOK'
  <2>1. ctx[h].order \in Orders /\ Leave(h)
    BY <1>5 DEF SaveQuoteLines, ControlInv, ControlOf
  <2>2. orders[ctx[h].order] \in OrderRow
    BY <1>0, <2>1
  <2>3. [orders[ctx[h].order] EXCEPT !.written = TRUE] \in OrderRow
    BY <2>2 DEF OrderRow
  <2> QED
    BY <1>0, <1>5, <2>1, <2>2, <2>3, LeaveType, SetOrderType DEF TypeOK, SaveQuoteLines
<1>6. ASSUME NEW h \in Handlers, NEW r \in Requests, NEW o \in Orders, SelectQuote(h, r, o)
      PROVE  TypeOK'
  <2>1. "saveComparison" \in Calls /\ Goto(h, "saveComparison")
    BY <1>6 DEF SelectQuote, Calls, QuoteCalls, CartCalls, ContractCalls
  <2>2. [NoContext EXCEPT !.op = "select", !.request = r, !.order = o] \in Context
    BY NoContextType DEF Context
  <2> QED
    BY <1>0, <1>6, <2>1, <2>2, KeepType, GotoType DEF TypeOK, SelectQuote
<1>7. ASSUME NEW h \in Handlers, SaveComparison(h)
      PROVE  TypeOK'
  <2>1. "saveCompared" \in Calls /\ Goto(h, "saveCompared")
    BY <1>7 DEF SaveComparison, Calls, QuoteCalls, CartCalls, ContractCalls
  <2>2. ctx[h].request \in Requests /\ ctx[h].order \in Orders
    BY <1>7 DEF SaveComparison, ControlInv, ControlOf
  <2>3. comparison' \in [Requests -> Orders \cup {None}] /\ hasty' \subseteq Orders
    BY <1>0, <1>7, <2>2 DEF SaveComparison
  <2> QED
    BY <1>0, <1>7, <2>1, <2>2, <2>3, GotoType DEF TypeOK, SaveComparison
<1>8. ASSUME NEW h \in Handlers, SaveCompared(h)
      PROVE  TypeOK'
  <2>1. "saveConfirmed" \in Calls /\ Goto(h, "saveConfirmed")
    BY <1>8 DEF SaveCompared, Calls, QuoteCalls, CartCalls, ContractCalls
  <2>2. requests' \in [Requests -> {"absent", "open", "compared"}]
    BY <1>0, <1>8 DEF SaveCompared
  <2> QED
    BY <1>0, <1>8, <2>1, <2>2, GotoType DEF TypeOK, SaveCompared
<1>9. ASSUME NEW h \in Handlers, NEW k \in Carts, NEW op \in CartOps, NEW p \in Products \cup {None},
             op = "addItem" => p \in Products, FindCart(h, op, p, k)
      PROVE  TypeOK'
  <2>1. UseCart(h, op, p, k)
    BY <1>9 DEF FindCart
  <2> QED
    BY <1>0, <1>9, <2>1, UseCartType DEF TypeOK, FindCart
<1>10. ASSUME NEW h \in Handlers, NEW op \in CartOps, NEW p \in Products \cup {None},
             op = "addItem" => p \in Products, FindNoCart(h, op, p)
      PROVE  TypeOK'
  <2>1. "saveCart" \in Calls /\ Goto(h, "saveCart")
    BY <1>10 DEF FindNoCart, Calls, QuoteCalls, CartCalls, ContractCalls
  <2>2. [NoContext EXCEPT !.op = op, !.product = p] \in Context
    BY NoContextType DEF Context, CartOps
  <2> QED
    BY <1>0, <1>10, <2>1, <2>2, KeepType, GotoType DEF TypeOK, FindNoCart
<1>11. ASSUME NEW h \in Handlers, SaveCart(h)
      PROVE  TypeOK'
  <2>1. ctx[h].op \in CartOps /\ ctx[h].product \in Products \cup {None}
    BY <1>0, <1>11 DEF SaveCart, ControlInv, ControlOf, Context
  <2>2. PICK k \in Carts : carts' = [carts EXCEPT ![k] = "open"] /\ UseCart(h, ctx[h].op, ctx[h].product, k)
    BY <1>11 DEF SaveCart
  <2>3. carts' \in [Carts -> {"absent", "open", "checked_out"}]
    BY <1>0, <2>2
  <2> QED
    BY <1>0, <1>11, <2>1, <2>2, <2>3, UseCartType DEF TypeOK, SaveCart
<1>12. ASSUME NEW h \in Handlers, FindItem(h)
      PROVE  TypeOK'
  <2>1. "saveItem" \in Calls /\ Goto(h, "saveItem")
    BY <1>12 DEF FindItem, Calls, QuoteCalls, CartCalls, ContractCalls
  <2>2. ctx[h] \in Context /\ ctx[h].cart \in Carts /\ ctx[h].product \in Products
    BY <1>0, <1>12 DEF FindItem, ControlInv, ControlOf
  <2>3. [Empty EXCEPT ![ctx[h].product] = cartItems[ctx[h].cart][ctx[h].product]] \in Bag
    BY <1>0, <2>2, EmptyBag DEF Bag
  <2>4. [ctx[h] EXCEPT !.items = [Empty EXCEPT ![ctx[h].product] = cartItems[ctx[h].cart][ctx[h].product]]] \in Context
    BY <2>2, <2>3 DEF Context
  <2> QED
    BY <1>0, <1>12, <2>1, <2>2, <2>3, <2>4, KeepType, GotoType DEF TypeOK, FindItem
<1>13. ASSUME NEW h \in Handlers, SaveItem(h)
      PROVE  TypeOK'
  <2>1. Leave(h) /\ ctx[h].cart \in Carts /\ ctx[h].product \in Products
    BY <1>13 DEF SaveItem, ControlInv, ControlOf
  <2>2. ctx[h].items \in Bag
    BY <1>0 DEF Context
  <2>3. PICK q \in 1..(MaxQty - ctx[h].items[ctx[h].product]) : cartItems' = [cartItems EXCEPT ![ctx[h].cart] =
            [cartItems[ctx[h].cart] EXCEPT ![ctx[h].product] = ctx[h].items[ctx[h].product] + q]]
    BY <1>13 DEF SaveItem
  <2>4. [cartItems[ctx[h].cart] EXCEPT ![ctx[h].product] = ctx[h].items[ctx[h].product] + q] \in Bag
    BY <1>0, <2>1, <2>2 DEF Bag
  <2>5. cartItems' \in [Carts -> Bag] /\ late' \subseteq Carts \X Products
    BY <1>0, <1>13, <2>1, <2>3, <2>4 DEF SaveItem
  <2> QED
    BY <1>0, <1>13, <2>1, <2>2, <2>3, <2>4, <2>5, LeaveType DEF TypeOK, SaveItem
<1>14. ASSUME NEW h \in Handlers, FindItems(h)
      PROVE  TypeOK'
  <2>1. "saveContract" \in Calls /\ Goto(h, "saveContract")
    BY <1>14 DEF FindItems, Calls, QuoteCalls, CartCalls, ContractCalls
  <2>2. ctx[h] \in Context /\ ctx[h].cart \in Carts
    BY <1>0, <1>14 DEF FindItems, ControlInv, ControlOf
  <2>3. cartItems[ctx[h].cart] \in Bag
    BY <1>0, <2>2
  <2>4. {ProviderOf[p] : p \in InCart(cartItems[ctx[h].cart])} \subseteq Providers
    BY <1>14 DEF FindItems, Billable, InCart
  <2>5. [ctx[h] EXCEPT !.items = cartItems[ctx[h].cart],
                 !.todo = {ProviderOf[p] : p \in InCart(cartItems[ctx[h].cart])}] \in Context
    BY <2>2, <2>3, <2>4 DEF Context
  <2> QED
    BY <1>0, <1>14, <2>1, <2>2, <2>3, <2>4, <2>5, KeepType, GotoType DEF TypeOK, FindItems
<1>15. ASSUME NEW h \in Handlers, SaveContract(h)
      PROVE  TypeOK'
  <2>1. "saveContractLines" \in Calls /\ Goto(h, "saveContractLines")
    BY <1>15 DEF SaveContract, Calls, QuoteCalls, CartCalls, ContractCalls
  <2>2. ctx[h] \in Context /\ ctx[h].cart \in Carts \cup {None} /\ ctx[h].items \in Bag /\ ctx[h].todo \subseteq Providers
    BY <1>0 DEF Context
  <2>3. PICK o \in Orders, v \in ctx[h].todo :
         /\ SetOrder(o, DraftContract(h, v))
         /\ Keep(h, [ctx[h] EXCEPT !.order = o, !.todo = ctx[h].todo \ {v}])
    BY <1>15 DEF SaveContract
  <2>4. PartOf(ctx[h].items, v) \in Bag
    BY <2>2 DEF PartOf, Bag
  <2>5. DraftContract(h, v) \in OrderRow
    BY <2>2, <2>4 DEF DraftContract, OrderRow
  <2>6. [ctx[h] EXCEPT !.order = o, !.todo = ctx[h].todo \ {v}] \in Context
    BY <2>2 DEF Context
  <2> QED
    BY <1>0, <1>15, <2>1, <2>2, <2>3, <2>4, <2>5, <2>6, KeepType, GotoType, SetOrderType DEF TypeOK, SaveContract
<1>16. ASSUME NEW h \in Handlers, SaveContractLines(h)
      PROVE  TypeOK'
  <2>1. "saveConfirmed" \in Calls /\ Goto(h, "saveConfirmed")
    BY <1>16 DEF SaveContractLines, Calls, QuoteCalls, CartCalls, ContractCalls
  <2>2. ctx[h].order \in Orders
    BY <1>16 DEF SaveContractLines, ControlInv, ControlOf
  <2>3. orders[ctx[h].order] \in OrderRow
    BY <1>0, <2>2
  <2>4. [orders[ctx[h].order] EXCEPT !.written = TRUE] \in OrderRow
    BY <2>3 DEF OrderRow
  <2> QED
    BY <1>0, <1>16, <2>1, <2>2, <2>3, <2>4, GotoType, SetOrderType DEF TypeOK, SaveContractLines
<1>17. ASSUME NEW h \in Handlers, CloseCart(h)
      PROVE  TypeOK'
  <2>1. Leave(h)
    BY <1>17 DEF CloseCart
  <2>2. ctx[h].made \subseteq Orders
    BY <1>0 DEF Context
  <2>3. carts' \in [Carts -> {"absent", "open", "checked_out"}] /\ answered' \subseteq Orders
    BY <1>0, <1>17, <2>2 DEF CloseCart
  <2> QED
    BY <1>0, <1>17, <2>1, <2>2, <2>3, LeaveType DEF TypeOK, CloseCart
<1>18. ASSUME NEW h \in Handlers, SaveConfirmed(h)
      PROVE  TypeOK'
  <2>1. "saveCase" \in Calls /\ Goto(h, "saveCase")
    BY <1>18 DEF SaveConfirmed, Calls, QuoteCalls, CartCalls, ContractCalls
  <2>2. ctx[h].order \in Orders
    BY <1>18 DEF SaveConfirmed, ControlInv, ControlOf, ContractCalls
  <2>3. orders[ctx[h].order] \in OrderRow
    BY <1>0, <2>2
  <2>4. [orders[ctx[h].order] EXCEPT !.type = "contract", !.state = "confirmed"] \in OrderRow
    BY <2>3 DEF OrderRow
  <2> QED
    BY <1>0, <1>18, <2>1, <2>2, <2>3, <2>4, GotoType, SetOrderType DEF TypeOK, SaveConfirmed
<1>19. ASSUME NEW h \in Handlers, SaveCase(h)
      PROVE  TypeOK'
  <2>1. "completeCase" \in Calls /\ Goto(h, "completeCase")
    BY <1>19 DEF SaveCase, Calls, QuoteCalls, CartCalls, ContractCalls
  <2>2. ctx[h] \in Context /\ ctx[h].order \in Orders
    BY <1>0, <1>19 DEF SaveCase, ControlInv, ControlOf, ContractCalls
  <2>3. PICK c \in Cases : SetCase(c, [order |-> ctx[h].order, complete |-> FALSE]) /\ Keep(h, [ctx[h] EXCEPT !.file = c])
    BY <1>19 DEF SaveCase
  <2>4. [order |-> ctx[h].order, complete |-> FALSE] \in CaseRow
    BY <2>2 DEF CaseRow
  <2>5. [ctx[h] EXCEPT !.file = c] \in Context
    BY <2>2 DEF Context
  <2> QED
    BY <1>0, <1>19, <2>1, <2>2, <2>3, <2>4, <2>5, KeepType, GotoType, SetCaseType DEF TypeOK, SaveCase
<1>20. ASSUME NEW h \in Handlers, CompleteCase(h)
      PROVE  TypeOK'
  <2>1. "findLines" \in Calls /\ Goto(h, "findLines")
    BY <1>20 DEF CompleteCase, Calls, QuoteCalls, CartCalls, ContractCalls
  <2>2. cases[ctx[h].file] \in CaseRow => [cases[ctx[h].file] EXCEPT !.complete = TRUE] \in CaseRow
    BY DEF CaseRow
  <2>3. cases' \in [Cases -> CaseRow]
    BY <1>0, <1>20, <2>2 DEF CompleteCase, SetCase
  <2> QED
    BY <1>0, <1>20, <2>1, <2>2, <2>3, GotoType DEF TypeOK, CompleteCase
<1>21. ASSUME NEW h \in Handlers, FindLines(h)
      PROVE  TypeOK'
  <2>1. "saveInvoice" \in Calls /\ Goto(h, "saveInvoice")
    BY <1>21 DEF FindLines, Calls, QuoteCalls, CartCalls, ContractCalls
  <2>2. ctx[h] \in Context /\ ctx[h].order \in Orders
    BY <1>0, <1>21 DEF FindLines, ControlInv, ControlOf, ContractCalls
  <2>3. orders[ctx[h].order].total \in Bag
    BY <1>0, <2>2 DEF OrderRow
  <2>4. [ctx[h] EXCEPT !.lines = IF orders[ctx[h].order].written THEN orders[ctx[h].order].total ELSE Empty] \in Context
    BY <2>2, <2>3, EmptyBag DEF Context
  <2> QED
    BY <1>0, <1>21, <2>1, <2>2, <2>3, <2>4, KeepType, GotoType DEF TypeOK, FindLines
<1>22. ASSUME NEW h \in Handlers, SaveInvoice(h)
      PROVE  TypeOK'
  <2>1. "saveInvoiceLines" \in Calls /\ Goto(h, "saveInvoiceLines")
    BY <1>22 DEF SaveInvoice, Calls, QuoteCalls, CartCalls, ContractCalls
  <2>2. ctx[h] \in Context /\ ctx[h].order \in Orders
    BY <1>0, <1>22 DEF SaveInvoice, ControlInv, ControlOf, ContractCalls
  <2>3. PICK i \in Invoices : SetInvoice(i, [order |-> ctx[h].order, total |-> ctx[h].lines, detailed |-> FALSE]) /\ Keep(h, [ctx[h] EXCEPT !.invoice = i])
    BY <1>22 DEF SaveInvoice
  <2>4. [order |-> ctx[h].order, total |-> ctx[h].lines, detailed |-> FALSE] \in InvoiceRow
    BY <2>2 DEF InvoiceRow, Context
  <2>5. [ctx[h] EXCEPT !.invoice = i] \in Context
    BY <2>2 DEF Context
  <2> QED
    BY <1>0, <1>22, <2>1, <2>2, <2>3, <2>4, <2>5, KeepType, GotoType, SetInvoiceType DEF TypeOK, SaveInvoice
<1>23. ASSUME NEW h \in Handlers, SaveInvoiceLines(h)
      PROVE  TypeOK'
  <2>1. ctx[h] \in Context /\ ctx[h].order \in Orders /\ ctx[h].made \subseteq Orders
    BY <1>0, <1>23 DEF SaveInvoiceLines, ControlInv, ControlOf, ContractCalls, Context
  <2>2. invoices[ctx[h].invoice] \in InvoiceRow => [invoices[ctx[h].invoice] EXCEPT !.detailed = TRUE] \in InvoiceRow
    BY DEF InvoiceRow
  <2>3. invoices' \in [Invoices -> InvoiceRow]
    BY <1>0, <1>23, <2>2 DEF SaveInvoiceLines, SetInvoice
  <2>4. [ctx[h] EXCEPT !.made = ctx[h].made \cup {ctx[h].order}, !.order = None, !.file = None,
                 !.invoice = None, !.lines = Empty] \in Context
    BY <2>1, EmptyBag DEF Context
  <2>5. (IF ctx[h].todo = {} THEN "closeCart" ELSE "saveContract") \in Calls
    BY DEF Calls, CartCalls
  <2>6. pc' \in [Handlers -> Calls] /\ ctx' \in [Handlers -> Context] /\ answered' \subseteq Orders
    BY <1>0, <1>23, <2>1, <2>4, <2>5, KeepType, GotoType, LeaveType DEF SaveInvoiceLines
  <2> QED
    BY <1>0, <1>23, <2>1, <2>2, <2>3, <2>4, <2>5, <2>6 DEF TypeOK, SaveInvoiceLines
<1>24. ASSUME NEW h \in Handlers, Throw(h)
      PROVE  TypeOK'
  <2>1. Leave(h)
    BY <1>24 DEF Throw
  <2>2. HalfDone(h) => ctx[h].cart \in Carts
    BY DEF ControlInv, ControlOf, HalfDone
  <2>3. torn' \subseteq Carts
    BY <1>0, <1>24, <2>2 DEF Throw
  <2> QED
    BY <1>0, <1>24, <2>1, <2>2, <2>3, LeaveType DEF TypeOK, Throw
<1> QED
  BY <1>1, <1>2, <1>3, <1>4, <1>5, <1>6, <1>7, <1>8, <1>9, <1>10, <1>11, <1>12, <1>13, <1>14, <1>15, <1>16, <1>17, <1>18, <1>19, <1>20, <1>21, <1>22, <1>23, <1>24, NextCases DEF Serve

-----------------------------------------------------------------------------
(***************************************************************************)
(* Control                                                                 *)
(***************************************************************************)
\* A step of handler h leaves the other handlers where they are.
LEMMA OthersWait ==
  ASSUME TypeOK, NEW h \in Handlers, Serve(h), NEW g \in Handlers, g # h
  PROVE  pc'[g] = pc[g] /\ ctx'[g] = ctx[g]
<1> USE DEF TypeOK, Goto, Keep, Leave, UseCart
<1>1. ASSUME NEW r \in Requests, NEW bag \in Bag, SubmitQuote(h, r, bag)
      PROVE  pc'[g] = pc[g] /\ ctx'[g] = ctx[g]
  BY <1>1 DEF SubmitQuote
<1>2. ASSUME SaveQuote(h)
      PROVE  pc'[g] = pc[g] /\ ctx'[g] = ctx[g]
  BY <1>2 DEF SaveQuote
<1>3. ASSUME SaveQuoteLines(h)
      PROVE  pc'[g] = pc[g] /\ ctx'[g] = ctx[g]
  BY <1>3 DEF SaveQuoteLines
<1>4. ASSUME NEW r \in Requests, NEW o \in Orders, SelectQuote(h, r, o)
      PROVE  pc'[g] = pc[g] /\ ctx'[g] = ctx[g]
  BY <1>4 DEF SelectQuote
<1>5. ASSUME SaveComparison(h)
      PROVE  pc'[g] = pc[g] /\ ctx'[g] = ctx[g]
  BY <1>5 DEF SaveComparison
<1>6. ASSUME SaveCompared(h)
      PROVE  pc'[g] = pc[g] /\ ctx'[g] = ctx[g]
  BY <1>6 DEF SaveCompared
<1>7. ASSUME NEW k \in Carts, NEW op \in CartOps, NEW p \in Products \cup {None},
             op = "addItem" => p \in Products, FindCart(h, op, p, k)
      PROVE  pc'[g] = pc[g] /\ ctx'[g] = ctx[g]
  BY <1>7 DEF FindCart
<1>8. ASSUME NEW op \in CartOps, NEW p \in Products \cup {None},
             op = "addItem" => p \in Products, FindNoCart(h, op, p)
      PROVE  pc'[g] = pc[g] /\ ctx'[g] = ctx[g]
  BY <1>8 DEF FindNoCart
<1>9. ASSUME SaveCart(h)
      PROVE  pc'[g] = pc[g] /\ ctx'[g] = ctx[g]
  BY <1>9 DEF SaveCart
<1>10. ASSUME FindItem(h)
      PROVE  pc'[g] = pc[g] /\ ctx'[g] = ctx[g]
  BY <1>10 DEF FindItem
<1>11. ASSUME SaveItem(h)
      PROVE  pc'[g] = pc[g] /\ ctx'[g] = ctx[g]
  BY <1>11 DEF SaveItem
<1>12. ASSUME FindItems(h)
      PROVE  pc'[g] = pc[g] /\ ctx'[g] = ctx[g]
  BY <1>12 DEF FindItems
<1>13. ASSUME SaveContract(h)
      PROVE  pc'[g] = pc[g] /\ ctx'[g] = ctx[g]
  BY <1>13 DEF SaveContract
<1>14. ASSUME SaveContractLines(h)
      PROVE  pc'[g] = pc[g] /\ ctx'[g] = ctx[g]
  BY <1>14 DEF SaveContractLines
<1>15. ASSUME CloseCart(h)
      PROVE  pc'[g] = pc[g] /\ ctx'[g] = ctx[g]
  BY <1>15 DEF CloseCart
<1>16. ASSUME SaveConfirmed(h)
      PROVE  pc'[g] = pc[g] /\ ctx'[g] = ctx[g]
  BY <1>16 DEF SaveConfirmed
<1>17. ASSUME SaveCase(h)
      PROVE  pc'[g] = pc[g] /\ ctx'[g] = ctx[g]
  BY <1>17 DEF SaveCase
<1>18. ASSUME CompleteCase(h)
      PROVE  pc'[g] = pc[g] /\ ctx'[g] = ctx[g]
  BY <1>18 DEF CompleteCase
<1>19. ASSUME FindLines(h)
      PROVE  pc'[g] = pc[g] /\ ctx'[g] = ctx[g]
  BY <1>19 DEF FindLines
<1>20. ASSUME SaveInvoice(h)
      PROVE  pc'[g] = pc[g] /\ ctx'[g] = ctx[g]
  BY <1>20 DEF SaveInvoice
<1>21. ASSUME SaveInvoiceLines(h)
      PROVE  pc'[g] = pc[g] /\ ctx'[g] = ctx[g]
  BY <1>21 DEF SaveInvoiceLines
<1>22. ASSUME Throw(h)
      PROVE  pc'[g] = pc[g] /\ ctx'[g] = ctx[g]
  BY <1>22 DEF Throw
<1> QED
  BY <1>1, <1>2, <1>3, <1>4, <1>5, <1>6, <1>7, <1>8, <1>9, <1>10, <1>11, <1>12, <1>13, <1>14, <1>15, <1>16, <1>17, <1>18, <1>19, <1>20, <1>21, <1>22 DEF Serve

LEMMA ControlStep == TypeOK /\ ControlInv /\ [Next]_vars => ControlInv'
<1> SUFFICES ASSUME TypeOK, ControlInv, [Next]_vars PROVE ControlInv'
  OBVIOUS
<1>1. CASE UNCHANGED vars
  BY <1>1 DEF ControlInv, ControlOf, HalfDone, vars
<1>2. ASSUME NEW r \in Requests, CreateQuoteRequest(r) PROVE ControlInv'
  BY <1>2 DEF CreateQuoteRequest, ControlInv, ControlOf, HalfDone
<1>3. ASSUME NEW h \in Handlers, Serve(h) PROVE ControlInv'
  <2>1. ASSUME NEW g \in Handlers, g # h PROVE ControlOf(g)'
    BY <1>3, <2>1, OthersWait DEF ControlInv, ControlOf, HalfDone
  <2>2. /\ pc \in [Handlers -> Calls] /\ ctx \in [Handlers -> Context]
        /\ ctx[h] \in Context /\ ControlOf(h)
    BY DEF TypeOK, ControlInv
  <2> USE DEF ControlOf, HalfDone, Goto, Keep, Leave, NoContext, ContractCalls, CartOps
  <2>3. ASSUME NEW r \in Requests, NEW bag \in Bag, SubmitQuote(h, r, bag)
        PROVE  ControlOf(h)'
    BY <2>2, <2>3 DEF SubmitQuote, Context
  <2>4. ASSUME SaveQuote(h)
        PROVE  ControlOf(h)'
    BY <2>2, <2>4 DEF SaveQuote, Context
  <2>5. ASSUME SaveQuoteLines(h)
        PROVE  ControlOf(h)'
    BY <2>2, <2>5 DEF SaveQuoteLines, Context
  <2>6. ASSUME NEW r \in Requests, NEW o \in Orders, SelectQuote(h, r, o)
        PROVE  ControlOf(h)'
    BY <2>2, <2>6 DEF SelectQuote, Context
  <2>7. ASSUME SaveComparison(h)
        PROVE  ControlOf(h)'
    BY <2>2, <2>7 DEF SaveComparison, Context
  <2>8. ASSUME SaveCompared(h)
        PROVE  ControlOf(h)'
    BY <2>2, <2>8 DEF SaveCompared, Context
  <2>9. ASSUME NEW k \in Carts, NEW op \in CartOps, NEW p \in Products \cup {None},
             op = "addItem" => p \in Products, FindCart(h, op, p, k)
        PROVE  ControlOf(h)'
    BY <2>2, <2>9 DEF FindCart, Context, UseCart, AfterCart
  <2>10. ASSUME NEW op \in CartOps, NEW p \in Products \cup {None},
             op = "addItem" => p \in Products, FindNoCart(h, op, p)
        PROVE  ControlOf(h)'
    BY <2>2, <2>10 DEF FindNoCart, Context
  <2>11. ASSUME SaveCart(h)
        PROVE  ControlOf(h)'
    BY <2>2, <2>11 DEF SaveCart, Context, UseCart, AfterCart
  <2>12. ASSUME FindItem(h)
        PROVE  ControlOf(h)'
    BY <2>2, <2>12 DEF FindItem, Context
  <2>13. ASSUME SaveItem(h)
        PROVE  ControlOf(h)'
    BY <2>2, <2>13 DEF SaveItem, Context
  <2>14. ASSUME FindItems(h)
        PROVE  ControlOf(h)'
    BY <2>2, <2>14 DEF FindItems, Context
  <2>15. ASSUME SaveContract(h)
        PROVE  ControlOf(h)'
    BY <2>2, <2>15 DEF SaveContract, Context
  <2>16. ASSUME SaveContractLines(h)
        PROVE  ControlOf(h)'
    BY <2>2, <2>16 DEF SaveContractLines, Context
  <2>17. ASSUME CloseCart(h)
        PROVE  ControlOf(h)'
    BY <2>2, <2>17 DEF CloseCart, Context
  <2>18. ASSUME SaveConfirmed(h)
        PROVE  ControlOf(h)'
    BY <2>2, <2>18 DEF SaveConfirmed, Context
  <2>19. ASSUME SaveCase(h)
        PROVE  ControlOf(h)'
    BY <2>2, <2>19 DEF SaveCase, Context
  <2>20. ASSUME CompleteCase(h)
        PROVE  ControlOf(h)'
    BY <2>2, <2>20 DEF CompleteCase, Context
  <2>21. ASSUME FindLines(h)
        PROVE  ControlOf(h)'
    BY <2>2, <2>21 DEF FindLines, Context
  <2>22. ASSUME SaveInvoice(h)
        PROVE  ControlOf(h)'
    BY <2>2, <2>22 DEF SaveInvoice, Context
  <2>23. ASSUME SaveInvoiceLines(h)
        PROVE  ControlOf(h)'
    <3>1. CASE ctx[h].op = "select"
      BY <2>2, <2>23, <3>1 DEF SaveInvoiceLines
    <3>2. CASE ctx[h].op # "select"
      <4>1. ctx[h].op = "checkout" /\ ctx[h].cart \in Carts
        BY <2>2, <2>23, <3>2 DEF SaveInvoiceLines
      <4>2. pc'[h] \in {"closeCart", "saveContract"}
        BY <2>2, <2>23, <3>2 DEF SaveInvoiceLines
      <4>3. ctx'[h].op = ctx[h].op /\ ctx'[h].cart = ctx[h].cart
        <5>1. ctx'[h] = [ctx[h] EXCEPT !.made = ctx[h].made \cup {ctx[h].order},
                                      !.order = None, !.file = None,
                                      !.invoice = None, !.lines = Empty]
          BY <2>2, <2>23, <3>2 DEF SaveInvoiceLines
        <5> QED
          BY <5>1, <2>2 DEF Context
      <4> QED
        BY <4>1, <4>2, <4>3
    <3> QED
      BY <3>1, <3>2
  <2>24. ASSUME Throw(h)
        PROVE  ControlOf(h)'
    BY <2>2, <2>24 DEF Throw, Context
  <2>25. ControlOf(h)'
    BY <1>3, <2>3, <2>4, <2>5, <2>6, <2>7, <2>8, <2>9, <2>10, <2>11, <2>12, <2>13, <2>14, <2>15, <2>16, <2>17, <2>18, <2>19, <2>20, <2>21, <2>22, <2>23, <2>24 DEF Serve
  <2> QED
    BY <2>1, <2>25 DEF ControlInv
<1> QED
  BY <1>1, <1>2, <1>3, NextCases

LEMMA InitTypeControl == Init => TypeOK /\ ControlInv
<1> SUFFICES ASSUME Init PROVE TypeOK /\ ControlInv
  OBVIOUS
<1>1. TypeOK
  BY EmptyBag, NoContextType DEF Init, TypeOK, OrderRow, CaseRow, InvoiceRow, Calls
<1>2. ControlInv
  BY DEF Init, ControlInv, ControlOf, NoContext, ContractCalls
<1> QED
  BY <1>1, <1>2

\* Type correctness, for any number of handlers, products, providers and ids: no step
\* of a handler, in any interleaving and with any failures, leaves the types, so every
\* row a handler writes with the ids it holds is a row of the table.
THEOREM TypeCorrect == Spec => []TypeOK
<1>1. TypeOK /\ ControlInv /\ [Next]_vars => (TypeOK /\ ControlInv)'
  BY TypeStep, ControlStep
<1> QED
  BY <1>1, InitTypeControl, PTL DEF Spec

-----------------------------------------------------------------------------
(***************************************************************************)
(* Owners: what a handler knows of its order, and that it is alone with it *)
(***************************************************************************)
\* A handler that owns its order: from the insert of the comparison, or of the draft
\* contract, to the end of confirmContract.
OwnerCalls == {"saveCompared", "saveContractLines"} \cup ContractCalls

\* Awards: the comparison points at a quote of its request, every contract of a
\* request is that quote, and only contracts are confirmed.
AwardInv ==
  /\ \A r \in Requests : comparison[r] # None =>
       /\ orders[comparison[r]].state # "absent"
       /\ orders[comparison[r]].request = r
  /\ \A o \in Contracts : orders[o].request # None => comparison[orders[o].request] = o
  /\ \A o \in Orders : orders[o].state = "confirmed" => orders[o].type = "contract"

\* What a handler knows about its order, and that nobody else owns it.
OwnerOf(h) ==
  /\ pc[h] = "saveComparison" =>
       /\ orders[ctx[h].order].state # "absent"
       /\ orders[ctx[h].order].request = ctx[h].request
  /\ pc[h] \in OwnerCalls =>
       /\ orders[ctx[h].order].state # "absent"
       /\ ctx[h].op = "select" => /\ orders[ctx[h].order].request = ctx[h].request
                                  /\ comparison[ctx[h].request] = ctx[h].order
       /\ ctx[h].op = "checkout" => /\ orders[ctx[h].order].request = None
                                    /\ orders[ctx[h].order].type = "contract"

OwnerInv ==
  /\ \A h \in Handlers : OwnerOf(h)
  /\ \A g, h \in Handlers :
       g # h /\ pc[g] \in OwnerCalls /\ pc[h] \in OwnerCalls =>
       ctx[g].order # ctx[h].order

\* Files and invoices of an order, against the call its owner has reached.
FileOf(h) ==
  /\ pc[h] \in {"saveCompared", "saveContractLines", "saveConfirmed", "saveCase"} =>
       \A c \in Cases : cases[c].order # ctx[h].order
  /\ pc[h] \in ContractCalls \ {"saveConfirmed"} =>
       orders[ctx[h].order].state = "confirmed"
  /\ pc[h] \in ContractCalls \ {"saveConfirmed", "saveCase"} =>
       ctx[h].file \in Cases /\ cases[ctx[h].file].order = ctx[h].order
  /\ pc[h] \in {"findLines", "saveInvoice", "saveInvoiceLines"} =>
       cases[ctx[h].file].complete

FileInv ==
  /\ \A c \in CaseIds : orders[cases[c].order].state = "confirmed"
  /\ \A c, d \in CaseIds : cases[c].order = cases[d].order => c = d
  /\ \A h \in Handlers : FileOf(h)

InvoiceOf(h) ==
  /\ pc[h] \in OwnerCalls \ {"saveInvoiceLines"} =>
       \A i \in Invoices : invoices[i].order # ctx[h].order
  /\ pc[h] = "saveInvoiceLines" =>
       ctx[h].invoice \in Invoices /\ invoices[ctx[h].invoice].order = ctx[h].order

InvoiceInv == FiledAndBilledOnce /\ \A h \in Handlers : InvoiceOf(h)

IInv == TypeOK /\ ControlInv /\ AwardInv /\ OwnerInv /\ FileInv /\ InvoiceInv

-----------------------------------------------------------------------------
(***************************************************************************)
(* What a step of a handler does to the tables                             *)
(***************************************************************************)
\* Rows are never taken back: what a table says of an order stays said.
Kept ==
  /\ \A q \in Orders : orders[q].state # "absent" =>
       /\ orders'[q].state # "absent"
       /\ orders'[q].request = orders[q].request
       /\ orders[q].type = "contract" => orders'[q].type = "contract"
       /\ orders[q].state = "confirmed" => orders'[q].state = "confirmed"
  /\ \A r \in Requests : comparison[r] # None => comparison'[r] = comparison[r]
  /\ \A c \in Cases : cases[c].order # None =>
       /\ cases'[c].order = cases[c].order
       /\ cases[c].complete => cases'[c].complete
  /\ \A i \in Invoices : invoices[i].order # None => invoices'[i].order = invoices[i].order

\* What is new in a table, and at which call of handler h it came there.
NewInOrders(h) ==
  /\ \A q \in Orders : orders'[q].type = "contract" /\ orders'[q].state # "absent" =>
       \/ orders[q].type = "contract" /\ orders[q].state # "absent"
       \/ pc[h] = "saveContract" /\ orders[q].state = "absent" /\ orders'[q].request = None
       \/ pc[h] = "saveConfirmed" /\ q = ctx[h].order
  /\ \A q \in Orders : orders'[q].state = "confirmed" =>
       \/ orders[q].state = "confirmed"
       \/ /\ pc[h] = "saveConfirmed" /\ q = ctx[h].order
          /\ orders'[q].type = "contract"

NewInComparison(h) == \A r \in Requests :
  \/ comparison'[r] = comparison[r]
  \/ pc[h] = "saveComparison" /\ r = ctx[h].request /\ comparison'[r] = ctx[h].order

NewInCases(h) ==
  \/ \A c \in Cases : cases'[c].order = cases[c].order
  \/ \E d \in Cases :
       /\ pc[h] = "saveCase"
       /\ cases[d].order = None /\ cases'[d].order = ctx[h].order
       /\ \A c \in Cases \ {d} : cases'[c].order = cases[c].order

NewInInvoices(h) ==
  \/ \A i \in Invoices : invoices'[i].order = invoices[i].order
  \/ \E j \in Invoices :
       /\ pc[h] = "saveInvoice"
       /\ invoices[j].order = None /\ invoices'[j].order = ctx[h].order
       /\ \A i \in Invoices \ {j} : invoices'[i].order = invoices[i].order

Moves(h) == Kept /\ NewInOrders(h) /\ NewInComparison(h) /\ NewInCases(h) /\ NewInInvoices(h)

LEMMA QuietMoves ==
  ASSUME NEW h, UNCHANGED <<orders, comparison, cases, invoices>>
  PROVE  Moves(h)
BY DEF Moves, Kept, NewInOrders, NewInComparison, NewInCases, NewInInvoices

LEMMA StepMoves ==
  ASSUME TypeOK, ControlInv, NEW h \in Handlers, Serve(h)
  PROVE  Moves(h)
<1>0. /\ orders \in [Orders -> OrderRow] /\ cases \in [Cases -> CaseRow]
      /\ invoices \in [Invoices -> InvoiceRow]
      /\ comparison \in [Requests -> Orders \cup {None}]
      /\ ctx[h] \in Context /\ ControlOf(h)
  BY DEF TypeOK, ControlInv
<1>1. ASSUME NEW r \in Requests, NEW bag \in Bag, SubmitQuote(h, r, bag)
      PROVE  Moves(h)
  BY <1>1, QuietMoves DEF SubmitQuote, tables
<1>2. ASSUME SaveQuote(h)
      PROVE  Moves(h)
  <2>1. PICK o \in Orders : o \notin OrderIds /\ \E v \in Providers : SetOrder(o, QuoteOrder(h, v))
    BY <1>2 DEF SaveQuote, IsNextId
  <2>2. PICK v \in Providers : SetOrder(o, QuoteOrder(h, v))
    BY <2>1
  <2>3. orders[o].state = "absent"
    BY <2>1 DEF OrderIds
  <2>4. /\ orders'[o] = QuoteOrder(h, v)
        /\ \A q \in Orders \ {o} : orders'[q] = orders[q]
    BY <1>0, <2>2 DEF SetOrder
  <2>5. UNCHANGED <<comparison, cases, invoices>>
    BY <1>2 DEF SaveQuote
  <2> QED
    BY <2>3, <2>4, <2>5 DEF Moves, Kept, NewInOrders, NewInComparison, NewInCases, NewInInvoices,
                            QuoteOrder
<1>3. ASSUME SaveQuoteLines(h)
      PROVE  Moves(h)
  <2>1. ctx[h].order \in Orders
    BY <1>0, <1>3 DEF SaveQuoteLines, ControlOf
  <2>2. \A q \in Orders : /\ orders'[q].state = orders[q].state
                          /\ orders'[q].type = orders[q].type
                          /\ orders'[q].request = orders[q].request
    BY <1>0, <1>3, <2>1 DEF SaveQuoteLines, SetOrder, OrderRow
  <2>3. UNCHANGED <<comparison, cases, invoices>>
    BY <1>3 DEF SaveQuoteLines
  <2> QED
    BY <2>2, <2>3 DEF Moves, Kept, NewInOrders, NewInComparison, NewInCases, NewInInvoices
<1>4. ASSUME NEW r \in Requests, NEW o \in Orders, SelectQuote(h, r, o)
      PROVE  Moves(h)
  BY <1>4, QuietMoves DEF SelectQuote, tables
<1>5. ASSUME SaveComparison(h)
      PROVE  Moves(h)
  <2>1. /\ pc[h] = "saveComparison" /\ comparison[ctx[h].request] = None
        /\ comparison' = [comparison EXCEPT ![ctx[h].request] = ctx[h].order]
        /\ UNCHANGED <<orders, cases, invoices>>
    BY <1>5 DEF SaveComparison
  <2> QED
    BY <1>0, <2>1 DEF Moves, Kept, NewInOrders, NewInComparison, NewInCases, NewInInvoices
<1>6. ASSUME SaveCompared(h)
      PROVE  Moves(h)
  BY <1>6, QuietMoves DEF SaveCompared
<1>7. ASSUME NEW k \in Carts, NEW op \in CartOps, NEW p \in Products \cup {None},
             op = "addItem" => p \in Products, FindCart(h, op, p, k)
      PROVE  Moves(h)
  BY <1>7, QuietMoves DEF FindCart, tables
<1>8. ASSUME NEW op \in CartOps, NEW p \in Products \cup {None},
             op = "addItem" => p \in Products, FindNoCart(h, op, p)
      PROVE  Moves(h)
  BY <1>8, QuietMoves DEF FindNoCart, tables
<1>9. ASSUME SaveCart(h)
      PROVE  Moves(h)
  BY <1>9, QuietMoves DEF SaveCart
<1>10. ASSUME FindItem(h)
      PROVE  Moves(h)
  BY <1>10, QuietMoves DEF FindItem, tables
<1>11. ASSUME SaveItem(h)
      PROVE  Moves(h)
  BY <1>11, QuietMoves DEF SaveItem
<1>12. ASSUME FindItems(h)
      PROVE  Moves(h)
  BY <1>12, QuietMoves DEF FindItems, tables
<1>13. ASSUME SaveContract(h)
      PROVE  Moves(h)
  <2>1. PICK o \in Orders : /\ o \notin OrderIds
                           /\ \E v \in Providers : SetOrder(o, DraftContract(h, v))
    BY <1>0, <1>13 DEF SaveContract, IsNextId, Context
  <2>2. PICK v \in Providers : SetOrder(o, DraftContract(h, v))
    BY <2>1
  <2>3. orders[o].state = "absent"
    BY <2>1 DEF OrderIds
  <2>4. /\ orders'[o] = DraftContract(h, v)
        /\ \A q \in Orders \ {o} : orders'[q] = orders[q]
    BY <1>0, <2>2 DEF SetOrder
  <2>5. UNCHANGED <<comparison, cases, invoices>> /\ pc[h] = "saveContract"
    BY <1>13 DEF SaveContract
  <2> QED
    BY <2>3, <2>4, <2>5 DEF Moves, Kept, NewInOrders, NewInComparison, NewInCases, NewInInvoices,
                            DraftContract
<1>14. ASSUME SaveContractLines(h)
      PROVE  Moves(h)
  <2>1. ctx[h].order \in Orders
    BY <1>0, <1>14 DEF SaveContractLines, ControlOf
  <2>2. \A q \in Orders : /\ orders'[q].state = orders[q].state
                          /\ orders'[q].type = orders[q].type
                          /\ orders'[q].request = orders[q].request
    BY <1>0, <1>14, <2>1 DEF SaveContractLines, SetOrder, OrderRow
  <2>3. UNCHANGED <<comparison, cases, invoices>>
    BY <1>14 DEF SaveContractLines
  <2> QED
    BY <2>2, <2>3 DEF Moves, Kept, NewInOrders, NewInComparison, NewInCases, NewInInvoices
<1>15. ASSUME CloseCart(h)
      PROVE  Moves(h)
  BY <1>15, QuietMoves DEF CloseCart
<1>16. ASSUME SaveConfirmed(h)
      PROVE  Moves(h)
  <2>1. ctx[h].order \in Orders /\ pc[h] = "saveConfirmed"
    BY <1>0, <1>16 DEF SaveConfirmed, ControlOf, ContractCalls
  <2>2. /\ orders'[ctx[h].order].state = "confirmed"
        /\ orders'[ctx[h].order].type = "contract"
        /\ orders'[ctx[h].order].request = orders[ctx[h].order].request
        /\ \A q \in Orders \ {ctx[h].order} : orders'[q] = orders[q]
    BY <1>0, <1>16, <2>1 DEF SaveConfirmed, SetOrder, OrderRow
  <2>3. UNCHANGED <<comparison, cases, invoices>>
    BY <1>16 DEF SaveConfirmed
  <2> QED
    BY <2>1, <2>2, <2>3
    DEF Moves, Kept, NewInOrders, NewInComparison, NewInCases, NewInInvoices
<1>17. ASSUME SaveCase(h)
      PROVE  Moves(h)
  <2>1. PICK d \in Cases : /\ d \notin CaseIds
                          /\ SetCase(d, [order |-> ctx[h].order, complete |-> FALSE])
    BY <1>17 DEF SaveCase, IsNextId
  <2>2. cases[d].order = None
    BY <2>1 DEF CaseIds
  <2>3. /\ cases'[d].order = ctx[h].order
        /\ \A c \in Cases \ {d} : cases'[c] = cases[c]
    BY <1>0, <2>1 DEF SetCase
  <2>4. UNCHANGED <<orders, comparison, invoices>> /\ pc[h] = "saveCase"
    BY <1>17 DEF SaveCase
  <2> QED
    BY <2>2, <2>3, <2>4
    DEF Moves, Kept, NewInOrders, NewInComparison, NewInCases, NewInInvoices
<1>18. ASSUME CompleteCase(h)
      PROVE  Moves(h)
  <2>1. \A c \in Cases : /\ cases'[c].order = cases[c].order
                         /\ cases[c].complete => cases'[c].complete
    BY <1>0, <1>18 DEF CompleteCase, SetCase, CaseRow
  <2>2. UNCHANGED <<orders, comparison, invoices>>
    BY <1>18 DEF CompleteCase
  <2> QED
    BY <2>1, <2>2 DEF Moves, Kept, NewInOrders, NewInComparison, NewInCases, NewInInvoices
<1>19. ASSUME FindLines(h)
      PROVE  Moves(h)
  BY <1>19, QuietMoves DEF FindLines, tables
<1>20. ASSUME SaveInvoice(h)
      PROVE  Moves(h)
  <2>1. PICK j \in Invoices :
          /\ j \notin InvoiceIds
          /\ SetInvoice(j, [order |-> ctx[h].order, total |-> ctx[h].lines, detailed |-> FALSE])
    BY <1>20 DEF SaveInvoice, IsNextId
  <2>2. invoices[j].order = None
    BY <2>1 DEF InvoiceIds
  <2>3. /\ invoices'[j].order = ctx[h].order
        /\ \A i \in Invoices \ {j} : invoices'[i] = invoices[i]
    BY <1>0, <2>1 DEF SetInvoice
  <2>4. UNCHANGED <<orders, comparison, cases>> /\ pc[h] = "saveInvoice"
    BY <1>20 DEF SaveInvoice
  <2> QED
    BY <2>2, <2>3, <2>4
    DEF Moves, Kept, NewInOrders, NewInComparison, NewInCases, NewInInvoices
<1>21. ASSUME SaveInvoiceLines(h)
      PROVE  Moves(h)
  <2>1. \A i \in Invoices : invoices'[i].order = invoices[i].order
    BY <1>0, <1>21 DEF SaveInvoiceLines, SetInvoice, InvoiceRow
  <2>2. UNCHANGED <<orders, comparison, cases>>
    BY <1>21 DEF SaveInvoiceLines
  <2> QED
    BY <2>1, <2>2 DEF Moves, Kept, NewInOrders, NewInComparison, NewInCases, NewInInvoices
<1>22. ASSUME Throw(h)
      PROVE  Moves(h)
  BY <1>22, QuietMoves DEF Throw, tables
<1> QED
  BY <1>1, <1>2, <1>3, <1>4, <1>5, <1>6, <1>7, <1>8, <1>9, <1>10, <1>11, <1>12, <1>13, <1>14, <1>15, <1>16, <1>17, <1>18, <1>19, <1>20, <1>21, <1>22 DEF Serve

-----------------------------------------------------------------------------
(***************************************************************************)
(* The inductive invariant                                                 *)
(***************************************************************************)
\* What IInv and TypeOK say of the ids that the steps below use.
LEMMA IdTypes ==
  ASSUME TypeOK
  PROVE  /\ \A q \in Orders : q # None /\ orders[q].request \in Requests \cup {None}
         /\ \A r \in Requests : r # None /\ comparison[r] \in Orders \cup {None}
         /\ \A c \in Cases : cases[c].order \in Orders \cup {None}
         /\ \A i \in Invoices : invoices[i].order \in Orders \cup {None}
BY DEF TypeOK, OrderRow, CaseRow, InvoiceRow, Orders, Requests

\* The owner of an order, by what OwnerInv and ControlInv say of it.
LEMMA OwnerHas ==
  ASSUME TypeOK, ControlInv, OwnerInv, NEW h \in Handlers, pc[h] \in OwnerCalls
  PROVE  /\ ctx[h].order \in Orders /\ orders[ctx[h].order].state # "absent"
         /\ \/ /\ ctx[h].request \in Requests
               /\ orders[ctx[h].order].request = ctx[h].request
               /\ comparison[ctx[h].request] = ctx[h].order
            \/ /\ orders[ctx[h].order].request = None
               /\ orders[ctx[h].order].type = "contract"
BY DEF ControlInv, ControlOf, OwnerInv, OwnerOf, OwnerCalls

LEMMA AwardStep ==
  ASSUME TypeOK, ControlInv, AwardInv, OwnerInv, NEW h \in Handlers, Moves(h)
  PROVE  AwardInv'
<1>1. ASSUME NEW r \in Requests, comparison'[r] # None
      PROVE  orders'[comparison'[r]].state # "absent" /\ orders'[comparison'[r]].request = r
  <2>1. CASE comparison'[r] = comparison[r]
    BY <1>1, <2>1, IdTypes DEF AwardInv, Moves, Kept
  <2>2. CASE comparison'[r] # comparison[r]
    <3>1. pc[h] = "saveComparison" /\ r = ctx[h].request /\ comparison'[r] = ctx[h].order
      BY <2>2 DEF Moves, NewInComparison
    <3>2. ctx[h].order \in Orders
      BY <3>1 DEF ControlInv, ControlOf
    <3> QED
      BY <3>1, <3>2 DEF OwnerInv, OwnerOf, Moves, Kept
  <2> QED
    BY <2>1, <2>2
<1>2. ASSUME NEW q \in Orders, orders'[q].state # "absent", orders'[q].type = "contract",
             orders'[q].request # None
      PROVE  comparison'[orders'[q].request] = q
  <2>1. CASE orders[q].type = "contract" /\ orders[q].state # "absent"
    <3>1. q \in Contracts /\ orders'[q].request = orders[q].request
      BY <2>1 DEF Contracts, Moves, Kept
    <3>2. comparison[orders[q].request] = q /\ orders[q].request \in Requests /\ q # None
      BY <1>2, <3>1, IdTypes DEF AwardInv
    <3> QED
      BY <3>1, <3>2 DEF Moves, Kept
  <2>2. CASE pc[h] = "saveConfirmed" /\ q = ctx[h].order
    <3>1. pc[h] \in OwnerCalls
      BY <2>2 DEF OwnerCalls, ContractCalls
    <3>2. orders'[q].request = orders[q].request
      BY <2>2, <3>1, OwnerHas DEF Moves, Kept
    <3> QED
      BY <1>2, <2>2, <3>1, <3>2, OwnerHas, IdTypes DEF Moves, Kept
  <2> QED
    BY <1>2, <2>1, <2>2 DEF Moves, NewInOrders
<1>3. ASSUME NEW q \in Orders, orders'[q].state = "confirmed"
      PROVE  orders'[q].type = "contract"
  BY <1>3 DEF AwardInv, Moves, Kept, NewInOrders
<1> QED
  BY <1>1, <1>2, <1>3 DEF AwardInv, Contracts

\* A step of h takes nothing from what the other handlers know.
LEMMA OthersKnow ==
  ASSUME IInv, NEW h \in Handlers, Serve(h), Moves(h), NEW g \in Handlers, g # h
  PROVE  OwnerOf(g)' /\ FileOf(g)' /\ InvoiceOf(g)'
<1>0. /\ TypeOK /\ ControlInv /\ AwardInv /\ OwnerInv /\ FileInv /\ InvoiceInv
      /\ pc'[g] = pc[g] /\ ctx'[g] = ctx[g]
  BY OthersWait DEF IInv
<1>1. CASE pc[g] \in OwnerCalls
  <2>1. ctx[g].order \in Orders
    BY <1>0, <1>1, OwnerHas
  <2>2. OwnerOf(g)'
    <3>1. pc[g] # "saveComparison"
      BY <1>1 DEF OwnerCalls, ContractCalls
    <3>2. ctx[g].op = "select" => ctx[g].request \in Requests
      BY <1>0, <1>1 DEF ControlInv, ControlOf, OwnerCalls
    <3> QED
      BY <1>0, <1>1, <2>1, <3>1, <3>2, IdTypes DEF OwnerInv, OwnerOf, Moves, Kept
  <2>3. pc[h] \in OwnerCalls => ctx[h].order # ctx[g].order
    BY <1>0, <1>1 DEF OwnerInv
  <2>4. FileOf(g)'
    <3>1. \A c \in Cases : cases'[c].order = ctx[g].order => cases[c].order = ctx[g].order
      BY <2>3 DEF Moves, NewInCases, OwnerCalls, ContractCalls
    <3> QED
      BY <1>0, <2>1, <3>1, IdTypes DEF FileInv, FileOf, Moves, Kept, ContractCalls
  <2>5. InvoiceOf(g)'
    <3>1. \A i \in Invoices :
            invoices'[i].order = ctx[g].order => invoices[i].order = ctx[g].order
      BY <2>3 DEF Moves, NewInInvoices, OwnerCalls, ContractCalls
    <3> QED
      BY <1>0, <2>1, <3>1, IdTypes DEF InvoiceInv, InvoiceOf, Moves, Kept
  <2> QED
    BY <2>2, <2>4, <2>5
<1>2. CASE pc[g] = "saveComparison"
  <2>1. ctx[g].order \in Orders
    BY <1>0, <1>2 DEF ControlInv, ControlOf
  <2> QED
    BY <1>0, <1>2, <2>1
    DEF OwnerInv, OwnerOf, Moves, Kept, FileOf, InvoiceOf, OwnerCalls, ContractCalls
<1>3. CASE pc[g] \notin OwnerCalls \cup {"saveComparison"}
  BY <1>0, <1>3 DEF OwnerOf, FileOf, InvoiceOf, OwnerCalls, ContractCalls
<1> QED
  BY <1>1, <1>2, <1>3

\* Nobody has owned, filed or billed an order that is not a contract yet.
LEMMA NotYetOwned ==
  ASSUME IInv, NEW q \in Orders,
         \/ orders[q].state = "absent"
         \/ orders[q].request \in Requests /\ comparison[orders[q].request] = None
  PROVE  /\ \A g \in Handlers : pc[g] \in OwnerCalls => ctx[g].order # q
         /\ \A c \in Cases : cases[c].order # q
         /\ \A i \in Invoices : invoices[i].order # q
<1>1. ASSUME NEW g \in Handlers, pc[g] \in OwnerCalls PROVE ctx[g].order # q
  BY <1>1, OwnerHas, IdTypes DEF IInv
<1>2. orders[q].state # "confirmed"
  BY IdTypes DEF IInv, AwardInv, Contracts
<1>3. ASSUME NEW c \in Cases PROVE cases[c].order # q
  BY <1>2, IdTypes DEF IInv, FileInv, CaseIds
<1>4. ASSUME NEW i \in Invoices PROVE invoices[i].order # q
  BY <1>2, IdTypes DEF IInv, InvoiceInv, FiledAndBilledOnce, InvoiceIds
<1> QED
  BY <1>1, <1>3, <1>4

\* What handler h knows after its step, and that it shares its order with nobody.
Alone(h) == \A g \in Handlers :
  g # h /\ pc[g] \in OwnerCalls /\ pc'[h] \in OwnerCalls => ctx[g].order # ctx'[h].order

Knows(h) == OwnerOf(h)' /\ FileOf(h)' /\ InvoiceOf(h)' /\ Alone(h)

\* A step that ends outside the calls of an owner.
LEMMA KnowsNothing ==
  ASSUME NEW h \in Handlers, pc'[h] \notin OwnerCalls \cup {"saveComparison"}
  PROVE  Knows(h)
BY DEF Knows, Alone, OwnerOf, FileOf, InvoiceOf, OwnerCalls, ContractCalls

\* A step of an owner that stays one: it keeps its order.
LEMMA StaysOwner ==
  ASSUME IInv, NEW h \in Handlers, Moves(h), pc[h] \in OwnerCalls, pc'[h] \in OwnerCalls,
         ctx'[h].order = ctx[h].order, ctx'[h].op = ctx[h].op,
         ctx'[h].request = ctx[h].request
  PROVE  OwnerOf(h)' /\ Alone(h)
<1>0. TypeOK /\ ControlInv /\ OwnerInv
  BY DEF IInv
<1>1. ctx[h].order \in Orders /\ pc'[h] # "saveComparison"
  BY <1>0, OwnerHas DEF OwnerCalls, ContractCalls
<1>2. ctx[h].op = "select" => ctx[h].request \in Requests
  BY <1>0 DEF ControlInv, ControlOf, OwnerCalls
<1>3. OwnerOf(h)'
  BY <1>0, <1>1, <1>2, IdTypes DEF OwnerInv, OwnerOf, Moves, Kept
<1>4. Alone(h)
  BY <1>0 DEF OwnerInv, Alone
<1> QED
  BY <1>3, <1>4

LEMMA OwnStep ==
  ASSUME IInv, NEW h \in Handlers, Serve(h), Moves(h)
  PROVE  Knows(h)
<1>0. /\ pc \in [Handlers -> Calls] /\ ctx \in [Handlers -> Context]
      /\ orders \in [Orders -> OrderRow] /\ cases \in [Cases -> CaseRow]
      /\ invoices \in [Invoices -> InvoiceRow]
      /\ comparison \in [Requests -> Orders \cup {None}]
      /\ ctx[h] \in Context /\ ControlOf(h) /\ OwnerOf(h) /\ FileOf(h) /\ InvoiceOf(h)
  BY DEF IInv, TypeOK, ControlInv, OwnerInv, FileInv, InvoiceInv
<1> USE DEF Goto, Keep
<1>1. ASSUME NEW r \in Requests, NEW bag \in Bag, SubmitQuote(h, r, bag)
      PROVE  Knows(h)
  BY <1>0, <1>1, KnowsNothing DEF SubmitQuote, OwnerCalls, ContractCalls
<1>2. ASSUME SaveQuote(h)
      PROVE  Knows(h)
  BY <1>0, <1>2, KnowsNothing DEF SaveQuote, OwnerCalls, ContractCalls
<1>3. ASSUME SaveQuoteLines(h)
      PROVE  Knows(h)
  BY <1>0, <1>3, KnowsNothing DEF SaveQuoteLines, OwnerCalls, ContractCalls, Leave
<1>4. ASSUME NEW r \in Requests, NEW o \in Orders, SelectQuote(h, r, o)
      PROVE  Knows(h)
  <2>1. /\ pc'[h] = "saveComparison"
        /\ ctx'[h].order = o /\ ctx'[h].request = r
        /\ orders' = orders /\ orders[o].state # "absent" /\ orders[o].request = r
    BY <1>0, <1>4 DEF SelectQuote, NoContext, tables
  <2> QED
    BY <2>1 DEF Knows, Alone, OwnerOf, FileOf, InvoiceOf, OwnerCalls, ContractCalls
<1>5. ASSUME SaveComparison(h)
      PROVE  Knows(h)
  <2>1. /\ pc[h] = "saveComparison" /\ pc'[h] = "saveCompared" /\ ctx' = ctx
        /\ comparison[ctx[h].request] = None
        /\ comparison' = [comparison EXCEPT ![ctx[h].request] = ctx[h].order]
        /\ UNCHANGED <<orders, cases, invoices>>
    BY <1>0, <1>5 DEF SaveComparison
  <2>2. ctx[h].op = "select" /\ ctx[h].request \in Requests /\ ctx[h].order \in Orders
    BY <1>0, <2>1 DEF ControlOf
  <2>3. orders[ctx[h].order].state # "absent" /\ orders[ctx[h].order].request = ctx[h].request
    BY <1>0, <2>1 DEF OwnerOf
  <2>4. OwnerOf(h)'
    BY <1>0, <2>1, <2>2, <2>3 DEF OwnerOf
  <2>5. /\ \A g \in Handlers : pc[g] \in OwnerCalls => ctx[g].order # ctx[h].order
        /\ \A c \in Cases : cases[c].order # ctx[h].order
        /\ \A i \in Invoices : invoices[i].order # ctx[h].order
    BY <2>1, <2>2, <2>3, NotYetOwned
  <2> QED
    BY <2>1, <2>4, <2>5 DEF Knows, Alone, FileOf, InvoiceOf, ContractCalls
<1>6. ASSUME SaveCompared(h)
      PROVE  Knows(h)
  <2>1. /\ pc[h] = "saveCompared" /\ pc'[h] = "saveConfirmed" /\ ctx' = ctx
        /\ UNCHANGED <<cases, invoices>>
    BY <1>0, <1>6 DEF SaveCompared
  <2>2. OwnerOf(h)' /\ Alone(h)
    BY <2>1, StaysOwner DEF OwnerCalls, ContractCalls
  <2> QED
    BY <1>0, <2>1, <2>2 DEF Knows, FileOf, InvoiceOf, OwnerCalls, ContractCalls
<1>7. ASSUME NEW k \in Carts, NEW op \in CartOps, NEW p \in Products \cup {None},
             op = "addItem" => p \in Products, FindCart(h, op, p, k)
      PROVE  Knows(h)
  BY <1>0, <1>7, KnowsNothing DEF FindCart, OwnerCalls, ContractCalls, UseCart, AfterCart, CartOps
<1>8. ASSUME NEW op \in CartOps, NEW p \in Products \cup {None},
             op = "addItem" => p \in Products, FindNoCart(h, op, p)
      PROVE  Knows(h)
  BY <1>0, <1>8, KnowsNothing DEF FindNoCart, OwnerCalls, ContractCalls
<1>9. ASSUME SaveCart(h)
      PROVE  Knows(h)
  <2>1. ctx[h].op \in CartOps
    BY <1>0, <1>9 DEF SaveCart, ControlOf
  <2> QED
    BY <1>0, <1>9, <2>1, KnowsNothing DEF SaveCart, OwnerCalls, ContractCalls, UseCart, AfterCart, CartOps
<1>10. ASSUME FindItem(h)
      PROVE  Knows(h)
  BY <1>0, <1>10, KnowsNothing DEF FindItem, OwnerCalls, ContractCalls
<1>11. ASSUME SaveItem(h)
      PROVE  Knows(h)
  BY <1>0, <1>11, KnowsNothing DEF SaveItem, OwnerCalls, ContractCalls, Leave
<1>12. ASSUME FindItems(h)
      PROVE  Knows(h)
  BY <1>0, <1>12, KnowsNothing DEF FindItems, OwnerCalls, ContractCalls
<1>13. ASSUME SaveContract(h)
      PROVE  Knows(h)
  <2>1. PICK q \in Orders, v \in Providers :
          /\ q \notin OrderIds /\ SetOrder(q, DraftContract(h, v))
          /\ ctx'[h] = [ctx[h] EXCEPT !.order = q, !.todo = ctx[h].todo \ {v}]
    BY <1>0, <1>13 DEF SaveContract, IsNextId, Context
  <2>2. /\ pc[h] = "saveContract" /\ pc'[h] = "saveContractLines"
        /\ UNCHANGED <<comparison, cases, invoices>>
    BY <1>0, <1>13 DEF SaveContract
  <2>3. ctx'[h].order = q /\ ctx'[h].op = "checkout"
    BY <1>0, <2>1, <2>2 DEF Context, ControlOf
  <2>4. orders[q].state = "absent" /\ orders'[q] = DraftContract(h, v)
    BY <1>0, <2>1 DEF OrderIds, SetOrder
  <2>5. OwnerOf(h)'
    BY <2>2, <2>3, <2>4 DEF OwnerOf, DraftContract
  <2>6. /\ \A g \in Handlers : pc[g] \in OwnerCalls => ctx[g].order # q
        /\ \A c \in Cases : cases[c].order # q
        /\ \A i \in Invoices : invoices[i].order # q
    BY <2>4, NotYetOwned
  <2> QED
    BY <2>2, <2>3, <2>5, <2>6 DEF Knows, Alone, FileOf, InvoiceOf, ContractCalls
<1>14. ASSUME SaveContractLines(h)
      PROVE  Knows(h)
  <2>1. /\ pc[h] = "saveContractLines" /\ pc'[h] = "saveConfirmed" /\ ctx' = ctx
        /\ UNCHANGED <<cases, invoices>>
    BY <1>0, <1>14 DEF SaveContractLines
  <2>2. OwnerOf(h)' /\ Alone(h)
    BY <2>1, StaysOwner DEF OwnerCalls, ContractCalls
  <2> QED
    BY <1>0, <2>1, <2>2 DEF Knows, FileOf, InvoiceOf, OwnerCalls, ContractCalls
<1>15. ASSUME CloseCart(h)
      PROVE  Knows(h)
  BY <1>0, <1>15, KnowsNothing DEF CloseCart, OwnerCalls, ContractCalls, Leave
<1>16. ASSUME SaveConfirmed(h)
      PROVE  Knows(h)
  <2>1. /\ pc[h] = "saveConfirmed" /\ pc'[h] = "saveCase" /\ ctx' = ctx
        /\ UNCHANGED <<cases, invoices>>
    BY <1>0, <1>16 DEF SaveConfirmed
  <2>2. OwnerOf(h)' /\ Alone(h)
    BY <2>1, StaysOwner DEF OwnerCalls, ContractCalls
  <2>3. ctx[h].order \in Orders
    BY <1>0, <2>1 DEF ControlOf, ContractCalls
  <2>4. orders'[ctx[h].order].state = "confirmed"
    BY <1>0, <1>16, <2>3 DEF SaveConfirmed, SetOrder, OrderRow
  <2> QED
    BY <1>0, <2>1, <2>2, <2>4 DEF Knows, FileOf, InvoiceOf, OwnerCalls, ContractCalls
<1>17. ASSUME SaveCase(h)
      PROVE  Knows(h)
  <2>1. PICK d \in Cases :
          /\ SetCase(d, [order |-> ctx[h].order, complete |-> FALSE])
          /\ ctx'[h] = [ctx[h] EXCEPT !.file = d]
    BY <1>0, <1>17 DEF SaveCase
  <2>2. pc[h] = "saveCase" /\ pc'[h] = "completeCase" /\ UNCHANGED <<orders, invoices>>
    BY <1>0, <1>17 DEF SaveCase
  <2>3. /\ ctx'[h].file = d /\ ctx'[h].order = ctx[h].order
        /\ ctx'[h].op = ctx[h].op /\ ctx'[h].request = ctx[h].request
    BY <1>0, <2>1 DEF Context
  <2>4. OwnerOf(h)' /\ Alone(h)
    BY <2>2, <2>3, StaysOwner DEF OwnerCalls, ContractCalls
  <2>5. cases'[d].order = ctx[h].order
    BY <1>0, <2>1 DEF SetCase
  <2> QED
    BY <1>0, <2>2, <2>3, <2>4, <2>5 DEF Knows, FileOf, InvoiceOf, OwnerCalls, ContractCalls
<1>18. ASSUME CompleteCase(h)
      PROVE  Knows(h)
  <2>1. /\ pc[h] = "completeCase" /\ pc'[h] = "findLines" /\ ctx' = ctx
        /\ UNCHANGED <<orders, invoices>>
    BY <1>0, <1>18 DEF CompleteCase
  <2>2. OwnerOf(h)' /\ Alone(h)
    BY <2>1, StaysOwner DEF OwnerCalls, ContractCalls
  <2>3. ctx[h].file \in Cases /\ cases[ctx[h].file].order = ctx[h].order
    BY <1>0, <2>1 DEF FileOf, ContractCalls
  <2>4. cases'[ctx[h].file].complete /\ cases'[ctx[h].file].order = ctx[h].order
    BY <1>0, <1>18, <2>3 DEF CompleteCase, SetCase, CaseRow
  <2> QED
    BY <1>0, <2>1, <2>2, <2>3, <2>4 DEF Knows, FileOf, InvoiceOf, OwnerCalls, ContractCalls
<1>19. ASSUME FindLines(h)
      PROVE  Knows(h)
  <2>1. /\ pc[h] = "findLines" /\ pc'[h] = "saveInvoice"
        /\ UNCHANGED <<orders, cases, invoices>>
    BY <1>0, <1>19 DEF FindLines, tables
  <2>2. \E bag : ctx'[h] = [ctx[h] EXCEPT !.lines = bag]
    BY <1>0, <1>19 DEF FindLines
  <2>3. /\ ctx'[h].file = ctx[h].file /\ ctx'[h].order = ctx[h].order
        /\ ctx'[h].op = ctx[h].op /\ ctx'[h].request = ctx[h].request
    BY <1>0, <2>2 DEF Context
  <2>4. OwnerOf(h)' /\ Alone(h)
    BY <2>1, <2>3, StaysOwner DEF OwnerCalls, ContractCalls
  <2> QED
    BY <1>0, <2>1, <2>3, <2>4 DEF Knows, FileOf, InvoiceOf, OwnerCalls, ContractCalls
<1>20. ASSUME SaveInvoice(h)
      PROVE  Knows(h)
  <2>1. PICK j \in Invoices :
          /\ SetInvoice(j, [order |-> ctx[h].order, total |-> ctx[h].lines, detailed |-> FALSE])
          /\ ctx'[h] = [ctx[h] EXCEPT !.invoice = j]
    BY <1>0, <1>20 DEF SaveInvoice
  <2>2. pc[h] = "saveInvoice" /\ pc'[h] = "saveInvoiceLines" /\ UNCHANGED <<orders, cases>>
    BY <1>0, <1>20 DEF SaveInvoice
  <2>3. /\ ctx'[h].invoice = j /\ ctx'[h].file = ctx[h].file
        /\ ctx'[h].order = ctx[h].order
        /\ ctx'[h].op = ctx[h].op /\ ctx'[h].request = ctx[h].request
    BY <1>0, <2>1 DEF Context
  <2>4. OwnerOf(h)' /\ Alone(h)
    BY <2>2, <2>3, StaysOwner DEF OwnerCalls, ContractCalls
  <2>5. invoices'[j].order = ctx[h].order
    BY <1>0, <2>1 DEF SetInvoice
  <2> QED
    BY <1>0, <2>2, <2>3, <2>4, <2>5 DEF Knows, FileOf, InvoiceOf, OwnerCalls, ContractCalls
<1>21. ASSUME SaveInvoiceLines(h)
      PROVE  Knows(h)
  BY <1>0, <1>21, KnowsNothing DEF SaveInvoiceLines, OwnerCalls, ContractCalls, Leave
<1>22. ASSUME Throw(h)
      PROVE  Knows(h)
  BY <1>0, <1>22, KnowsNothing DEF Throw, OwnerCalls, ContractCalls, Leave
<1> QED
  BY <1>1, <1>2, <1>3, <1>4, <1>5, <1>6, <1>7, <1>8, <1>9, <1>10, <1>11, <1>12, <1>13, <1>14, <1>15, <1>16, <1>17, <1>18, <1>19, <1>20, <1>21, <1>22 DEF Serve

LEMMA FileStep ==
  ASSUME IInv, NEW h \in Handlers, Moves(h), \A g \in Handlers : FileOf(g)'
  PROVE  FileInv'
<1>0. TypeOK /\ ControlInv /\ FileInv
  BY DEF IInv
<1>1. pc[h] = "saveCase" => /\ ctx[h].order \in Orders
                            /\ orders[ctx[h].order].state = "confirmed"
                            /\ \A c \in Cases : cases[c].order # ctx[h].order
  BY <1>0 DEF ControlInv, ControlOf, FileInv, FileOf, ContractCalls
<1>2. \A c \in Cases : cases'[c].order # None => orders'[cases'[c].order].state = "confirmed"
  BY <1>0, <1>1, IdTypes DEF FileInv, CaseIds, Moves, Kept, NewInCases
<1>3. \A c, d \in Cases :
        cases'[c].order # None /\ cases'[c].order = cases'[d].order => c = d
  BY <1>0, <1>1 DEF FileInv, CaseIds, Moves, NewInCases
<1> QED
  BY <1>2, <1>3 DEF FileInv, CaseIds

LEMMA InvoiceStep ==
  ASSUME IInv, NEW h \in Handlers, Moves(h), FileInv', \A g \in Handlers : InvoiceOf(g)'
  PROVE  InvoiceInv'
<1>0. TypeOK /\ ControlInv /\ FileInv /\ InvoiceInv
  BY DEF IInv
<1>1. pc[h] = "saveInvoice" =>
        /\ ctx[h].order \in Orders
        /\ orders[ctx[h].order].state = "confirmed"
        /\ ctx[h].file \in Cases /\ cases[ctx[h].file].order = ctx[h].order
        /\ cases[ctx[h].file].complete
        /\ \A i \in Invoices : invoices[i].order # ctx[h].order
  BY <1>0 DEF ControlInv, ControlOf, FileInv, FileOf, InvoiceInv, InvoiceOf, ContractCalls,
              OwnerCalls
<1>2. \A i, j \in Invoices :
        invoices'[i].order # None /\ invoices'[i].order = invoices'[j].order => i = j
  BY <1>0, <1>1 DEF InvoiceInv, FiledAndBilledOnce, InvoiceIds, Moves, NewInInvoices
<1>3. ASSUME NEW i \in Invoices, invoices'[i].order # None
      PROVE  \E c \in Cases : /\ cases'[c].order # None
                              /\ cases'[c].order = invoices'[i].order
                              /\ cases'[c].complete
                              /\ orders'[invoices'[i].order].state = "confirmed"
  <2>1. CASE invoices'[i].order = invoices[i].order
    <3>1. PICK c \in CaseIds : /\ cases[c].order = invoices[i].order /\ cases[c].complete
                               /\ orders[invoices[i].order].state = "confirmed"
      BY <1>0, <1>3, <2>1 DEF InvoiceInv, FiledAndBilledOnce, InvoiceIds
    <3>2. c \in Cases /\ invoices[i].order \in Orders
      BY <1>0, <1>3, <2>1, IdTypes DEF CaseIds
    <3> QED
      BY <1>3, <2>1, <3>1, <3>2 DEF Moves, Kept
  <2>2. CASE invoices'[i].order # invoices[i].order
    <3>1. pc[h] = "saveInvoice" /\ invoices'[i].order = ctx[h].order
      BY <2>2 DEF Moves, NewInInvoices
    <3>2. ctx[h].order # None
      BY <1>3, <3>1
    <3> QED
      BY <1>1, <3>1, <3>2 DEF Moves, Kept
  <2> QED
    BY <2>1, <2>2
<1>4. FiledAndBilledOnce'
  BY <1>2, <1>3 DEF FileInv, FiledAndBilledOnce, InvoiceIds, CaseIds
<1> QED
  BY <1>4 DEF InvoiceInv

LEMMA InitIInv == Init => IInv
<1> SUFFICES ASSUME Init PROVE IInv
  OBVIOUS
<1>1. /\ \A h \in Handlers : pc[h] = "idle"
      /\ \A q \in Orders : orders[q].state = "absent"
      /\ \A r \in Requests : comparison[r] = None
      /\ \A c \in Cases : cases[c].order = None
      /\ \A i \in Invoices : invoices[i].order = None
  BY DEF Init
<1>2. AwardInv
  BY <1>1 DEF AwardInv, Contracts
<1>3. OwnerInv
  BY <1>1 DEF OwnerInv, OwnerOf, OwnerCalls, ContractCalls
<1>4. FileInv
  BY <1>1 DEF FileInv, FileOf, CaseIds, ContractCalls
<1>5. InvoiceInv
  BY <1>1 DEF InvoiceInv, InvoiceOf, FiledAndBilledOnce, CaseIds, InvoiceIds, OwnerCalls,
              ContractCalls
<1> QED
  BY <1>2, <1>3, <1>4, <1>5, InitTypeControl DEF IInv

LEMMA StepIInv == IInv /\ [Next]_vars => IInv'
<1> SUFFICES ASSUME IInv, [Next]_vars PROVE IInv'
  OBVIOUS
<1>0. TypeOK' /\ ControlInv'
  BY TypeStep, ControlStep DEF IInv
<1>1. CASE UNCHANGED <<orders, comparison, cases, invoices, pc, ctx>>
  BY <1>0, <1>1 DEF IInv, AwardInv, Contracts, OwnerInv, OwnerOf, FileInv, FileOf, CaseIds,
                    InvoiceInv, InvoiceOf, FiledAndBilledOnce, InvoiceIds
<1>2. ASSUME NEW h \in Handlers, Serve(h) PROVE IInv'
  <2>1. Moves(h)
    BY <1>2, StepMoves DEF IInv
  <2>2. Knows(h)
    BY <1>2, <2>1, OwnStep
  <2>3. \A g \in Handlers : g # h => OwnerOf(g)' /\ FileOf(g)' /\ InvoiceOf(g)'
    BY <1>2, <2>1, OthersKnow
  <2>4. AwardInv'
    BY <2>1, AwardStep DEF IInv
  <2>5. OwnerInv'
    <3>1. \A g \in Handlers : OwnerOf(g)'
      BY <2>2, <2>3 DEF Knows
    <3>2. \A g \in Handlers : g # h => pc'[g] = pc[g] /\ ctx'[g] = ctx[g]
      BY <1>2, OthersWait DEF IInv
    <3>3. ASSUME NEW f \in Handlers, NEW g \in Handlers, f # g,
                 pc'[f] \in OwnerCalls, pc'[g] \in OwnerCalls
          PROVE  ctx'[f].order # ctx'[g].order
      BY <2>2, <3>2, <3>3 DEF IInv, OwnerInv, Knows, Alone
    <3> QED
      BY <3>1, <3>3 DEF OwnerInv
  <2>6. FileInv'
    BY <2>1, <2>2, <2>3, FileStep DEF Knows
  <2>7. InvoiceInv'
    BY <2>1, <2>2, <2>3, <2>6, InvoiceStep DEF Knows
  <2> QED
    BY <1>0, <2>4, <2>5, <2>6, <2>7 DEF IInv
<1>3. ASSUME NEW r \in Requests, CreateQuoteRequest(r)
      PROVE  UNCHANGED <<orders, comparison, cases, invoices, pc, ctx>>
  BY <1>3 DEF CreateQuoteRequest
<1> QED
  BY <1>1, <1>2, <1>3, NextCases DEF vars, tables

\* The inductive invariant: every order that is being contracted has one owner, and what
\* the tables say of its award, file and invoice follows from the call its owner is at.
THEOREM Invariance == Spec => []IInv
BY InitIInv, StepIInv, PTL DEF Spec

\* However many selections of a request race, fail or are repeated, its contracts are
\* the one quote of its comparison: the UNIQUE key does it alone.
THEOREM AwardFinal == Spec => []AwardIsFinal
<1>1. IInv => AwardIsFinal
  BY DEF IInv, AwardInv, AwardIsFinal
<1> QED
  BY <1>1, Invariance, PTL

\* However many handlers run and wherever they fail, confirmContract files and bills an
\* order at most once, and bills it only with the file complete and the order confirmed.
THEOREM FiledOnceBilledOnce == Spec => []FiledAndBilledOnce
<1>1. IInv => FiledAndBilledOnce
  BY DEF IInv, InvoiceInv
<1> QED
  BY <1>1, Invariance, PTL

-----------------------------------------------------------------------------
(***************************************************************************)
(* The refinement: each step of a handler offers, awards, contracts, files *)
(* or invoices one order, or does nothing to an order's life               *)
(***************************************************************************)
\* The abstract variables that the tables of Contracting stand for.
Origin == [q \in Orders |-> orders[q].request]
Stage  == [q \in Orders |-> OrderStage(q)]

\* The life cycle of no order changes.
SameLife == UNCHANGED <<comparison, Origin, Stage>>

LEMMA InitRefines == Init => Lifecycle!CInit
<1> SUFFICES ASSUME Init PROVE Lifecycle!CInit
  OBVIOUS
<1>1. \A q \in Orders : orders[q].request = None /\ OrderStage(q) = "absent"
  BY DEF Init, OrderStage
<1> QED
  BY <1>1 DEF Init, Lifecycle!CInit

\* Where an order's rows say no more than they did.
LEMMA SameStage ==
  ASSUME NEW q \in Orders,
         orders'[q].state = orders[q].state,
         \A c \in Cases : cases'[c].order = q <=> cases[c].order = q,
         \A i \in Invoices : invoices'[i].order = q <=> invoices[i].order = q
  PROVE  OrderStage(q)' = OrderStage(q)
BY DEF OrderStage

LEMMA QuietLife ==
  ASSUME UNCHANGED <<comparison, cases, invoices>>,
         \A q \in Orders : /\ orders'[q].state = orders[q].state
                           /\ orders'[q].request = orders[q].request
  PROVE  SameLife
<1>1. \A q \in Orders : OrderStage(q)' = OrderStage(q)
  BY SameStage
<1> QED
  BY <1>1 DEF SameLife, Origin, Stage

\* A step that moves order q from stage `from' to stage `to' and no other order.
LEMMA OneStage ==
  ASSUME NEW q \in Orders, NEW from, NEW to, OrderStage(q) = from, OrderStage(q)' = to,
         \A p \in Orders \ {q} : OrderStage(p)' = OrderStage(p)
  PROVE  Lifecycle!Advance(q, from, to)
BY DEF Lifecycle!Advance

\* The insert of order q, as SaveQuote and SaveContract do it.
LEMMA InsertOffers ==
  ASSUME IInv, NEW q \in Orders, orders[q].state = "absent",
         orders'[q].state \in {"sent", "draft"}, orders'[q].request \in Requests \cup {None},
         \A p \in Orders \ {q} : orders'[p] = orders[p],
         UNCHANGED <<comparison, cases, invoices>>
  PROVE  Lifecycle!Offer(q)
<1>1. OrderStage(q) = "absent" /\ OrderStage(q)' = "offered"
  BY DEF OrderStage
<1>2. \A p \in Orders \ {q} : OrderStage(p)' = OrderStage(p)
  BY SameStage
<1>3. Lifecycle!Advance(q, "absent", "offered")
  BY <1>1, <1>2, OneStage
<1>4. Origin' = [Origin EXCEPT ![q] = orders'[q].request]
  BY DEF Origin
<1> QED
  BY <1>3, <1>4 DEF Lifecycle!Offer, Origin

LEMMA ServeRefines ==
  ASSUME IInv, NEW h \in Handlers, Serve(h)
  PROVE  SameLife \/ Lifecycle!CNext
<1>0. /\ orders \in [Orders -> OrderRow] /\ cases \in [Cases -> CaseRow]
      /\ invoices \in [Invoices -> InvoiceRow]
      /\ comparison \in [Requests -> Orders \cup {None}]
      /\ ctx[h] \in Context
      /\ TypeOK /\ ControlInv /\ AwardInv /\ OwnerInv /\ FileInv /\ InvoiceInv
      /\ ControlOf(h) /\ OwnerOf(h) /\ FileOf(h) /\ InvoiceOf(h)
  BY DEF IInv, TypeOK, ControlInv, OwnerInv, FileInv, InvoiceInv
<1>1. ASSUME NEW r \in Requests, NEW bag \in Bag, SubmitQuote(h, r, bag)
      PROVE  SameLife \/ Lifecycle!CNext
  BY <1>1, QuietLife DEF SubmitQuote, tables
<1>2. ASSUME SaveQuote(h)
      PROVE  SameLife \/ Lifecycle!CNext
  <2>1. PICK q \in Orders, v \in Providers : q \notin OrderIds /\ SetOrder(q, QuoteOrder(h, v))
    BY <1>2 DEF SaveQuote, IsNextId
  <2>2. /\ orders[q].state = "absent" /\ orders'[q] = QuoteOrder(h, v)
        /\ \A p \in Orders \ {q} : orders'[p] = orders[p]
    BY <1>0, <2>1 DEF OrderIds, SetOrder
  <2>3. orders'[q].state = "sent" /\ orders'[q].request \in Requests
    BY <1>0, <1>2, <2>2 DEF SaveQuote, ControlOf, QuoteOrder
  <2>4. UNCHANGED <<comparison, cases, invoices>>
    BY <1>2 DEF SaveQuote
  <2> QED
    BY <2>2, <2>3, <2>4, InsertOffers DEF Lifecycle!CNext
<1>3. ASSUME SaveQuoteLines(h)
      PROVE  SameLife \/ Lifecycle!CNext
  <2>1. ctx[h].order \in Orders
    BY <1>0, <1>3 DEF SaveQuoteLines, ControlOf
  <2>2. \A q \in Orders : /\ orders'[q].state = orders[q].state
                          /\ orders'[q].request = orders[q].request
    BY <1>0, <1>3, <2>1 DEF SaveQuoteLines, SetOrder, OrderRow
  <2>3. UNCHANGED <<comparison, cases, invoices>>
    BY <1>3 DEF SaveQuoteLines
  <2> QED
    BY <2>2, <2>3, QuietLife
<1>4. ASSUME NEW r \in Requests, NEW o \in Orders, SelectQuote(h, r, o)
      PROVE  SameLife \/ Lifecycle!CNext
  BY <1>4, QuietLife DEF SelectQuote, tables
<1>5. ASSUME SaveComparison(h)
      PROVE  SameLife \/ Lifecycle!CNext
  <2>1. /\ pc[h] = "saveComparison" /\ comparison[ctx[h].request] = None
        /\ comparison' = [comparison EXCEPT ![ctx[h].request] = ctx[h].order]
        /\ UNCHANGED <<orders, cases, invoices>>
    BY <1>5 DEF SaveComparison
  <2>2. /\ ctx[h].order \in Orders /\ ctx[h].request \in Requests
        /\ orders[ctx[h].order].state # "absent"
        /\ orders[ctx[h].order].request = ctx[h].request
    BY <1>0, <2>1 DEF ControlOf, OwnerOf
  <2>3. orders[ctx[h].order].state # "confirmed"
    BY <1>0, <2>1, <2>2, IdTypes DEF AwardInv, Contracts
  <2>4. OrderStage(ctx[h].order) = "offered"
    BY <2>2, <2>3 DEF OrderStage
  <2>5. Origin' = Origin /\ Stage' = Stage
    BY <2>1 DEF Origin, Stage, OrderStage
  <2>6. Lifecycle!Award(ctx[h].order)
    BY <2>1, <2>2, <2>4, <2>5 DEF Lifecycle!Award, Origin, Stage
  <2> QED
    BY <2>2, <2>6 DEF Lifecycle!CNext
<1>6. ASSUME SaveCompared(h)
      PROVE  SameLife \/ Lifecycle!CNext
  BY <1>6, QuietLife DEF SaveCompared
<1>7. ASSUME NEW k \in Carts, NEW op \in CartOps, NEW p \in Products \cup {None},
             op = "addItem" => p \in Products, FindCart(h, op, p, k)
      PROVE  SameLife \/ Lifecycle!CNext
  BY <1>7, QuietLife DEF FindCart, tables
<1>8. ASSUME NEW op \in CartOps, NEW p \in Products \cup {None},
             op = "addItem" => p \in Products, FindNoCart(h, op, p)
      PROVE  SameLife \/ Lifecycle!CNext
  BY <1>8, QuietLife DEF FindNoCart, tables
<1>9. ASSUME SaveCart(h)
      PROVE  SameLife \/ Lifecycle!CNext
  BY <1>9, QuietLife DEF SaveCart
<1>10. ASSUME FindItem(h)
      PROVE  SameLife \/ Lifecycle!CNext
  BY <1>10, QuietLife DEF FindItem, tables
<1>11. ASSUME SaveItem(h)
      PROVE  SameLife \/ Lifecycle!CNext
  BY <1>11, QuietLife DEF SaveItem
<1>12. ASSUME FindItems(h)
      PROVE  SameLife \/ Lifecycle!CNext
  BY <1>12, QuietLife DEF FindItems, tables
<1>13. ASSUME SaveContract(h)
      PROVE  SameLife \/ Lifecycle!CNext
  <2>1. PICK q \in Orders, v \in Providers :
          q \notin OrderIds /\ SetOrder(q, DraftContract(h, v))
    BY <1>0, <1>13 DEF SaveContract, IsNextId, Context
  <2>2. /\ orders[q].state = "absent" /\ orders'[q] = DraftContract(h, v)
        /\ \A p \in Orders \ {q} : orders'[p] = orders[p]
    BY <1>0, <2>1 DEF OrderIds, SetOrder
  <2>3. orders'[q].state = "draft" /\ orders'[q].request = None
    BY <2>2 DEF DraftContract
  <2>4. UNCHANGED <<comparison, cases, invoices>>
    BY <1>13 DEF SaveContract
  <2> QED
    BY <2>2, <2>3, <2>4, InsertOffers DEF Lifecycle!CNext
<1>14. ASSUME SaveContractLines(h)
      PROVE  SameLife \/ Lifecycle!CNext
  <2>1. ctx[h].order \in Orders
    BY <1>0, <1>14 DEF SaveContractLines, ControlOf
  <2>2. \A q \in Orders : /\ orders'[q].state = orders[q].state
                          /\ orders'[q].request = orders[q].request
    BY <1>0, <1>14, <2>1 DEF SaveContractLines, SetOrder, OrderRow
  <2>3. UNCHANGED <<comparison, cases, invoices>>
    BY <1>14 DEF SaveContractLines
  <2> QED
    BY <2>2, <2>3, QuietLife
<1>15. ASSUME CloseCart(h)
      PROVE  SameLife \/ Lifecycle!CNext
  BY <1>15, QuietLife DEF CloseCart
<1>16. ASSUME SaveConfirmed(h)
      PROVE  SameLife \/ Lifecycle!CNext
  <2>1. pc[h] = "saveConfirmed" /\ pc[h] \in OwnerCalls
    BY <1>16 DEF SaveConfirmed, OwnerCalls, ContractCalls
  <2>0. PICK q \in Orders : q = ctx[h].order
    BY <1>0, <2>1, OwnerHas
  <2>2. /\ orders[q].state # "absent"
        /\ orders[q].request \in Requests => comparison[orders[q].request] = q
    BY <1>0, <2>0, <2>1, OwnerHas, IdTypes
  <2>3. /\ orders'[q].state = "confirmed" /\ orders'[q].request = orders[q].request
        /\ \A p \in Orders \ {q} : orders'[p] = orders[p]
    BY <1>0, <1>16, <2>0, <2>2 DEF SaveConfirmed, SetOrder, OrderRow
  <2>4. UNCHANGED <<comparison, cases, invoices>>
    BY <1>16 DEF SaveConfirmed
  <2>5. CASE orders[q].state = "confirmed"
    BY <2>3, <2>4, <2>5, QuietLife
  <2>6. CASE orders[q].state # "confirmed"
    <3>1. \A c \in Cases : cases[c].order # q
      BY <1>0, <2>0, <2>1 DEF FileOf
    <3>2. OrderStage(q) = "offered" /\ OrderStage(q)' = "contracted"
      BY <2>2, <2>3, <2>4, <2>6, <3>1 DEF OrderStage
    <3>3. \A p \in Orders \ {q} : OrderStage(p)' = OrderStage(p)
      BY <2>3, <2>4, SameStage
    <3>4. Lifecycle!Advance(q, "offered", "contracted")
      BY <2>2, <3>2, <3>3, OneStage
    <3>5. Origin' = Origin
      BY <2>3 DEF Origin
    <3>6. Lifecycle!Contract(q)
      BY <2>2, <2>4, <3>4, <3>5 DEF Lifecycle!Contract, Origin
    <3> QED
      BY <2>2, <3>6 DEF Lifecycle!CNext
  <2> QED
    BY <2>5, <2>6
<1>17. ASSUME SaveCase(h)
      PROVE  SameLife \/ Lifecycle!CNext
  <2>0. PICK q \in Orders : q = ctx[h].order
    BY <1>0, <1>17, OwnerHas DEF SaveCase, OwnerCalls, ContractCalls
  <2>1. pc[h] = "saveCase" /\ pc[h] \in OwnerCalls \ {"saveInvoiceLines"}
    BY <1>17 DEF SaveCase, OwnerCalls, ContractCalls
  <2>2. /\ orders[q].state = "confirmed"
        /\ \A c \in Cases : cases[c].order # q
        /\ \A i \in Invoices : invoices[i].order # q
    BY <1>0, <2>0, <2>1, OwnerHas DEF FileOf, InvoiceOf, ContractCalls
  <2>3. PICK d \in Cases : /\ d \notin CaseIds
                          /\ SetCase(d, [order |-> q, complete |-> FALSE])
    BY <1>17, <2>0 DEF SaveCase, IsNextId
  <2>4. /\ cases[d].order = None /\ cases'[d].order = q
        /\ \A c \in Cases \ {d} : cases'[c] = cases[c]
    BY <1>0, <2>3 DEF SetCase, CaseIds
  <2>5. UNCHANGED <<comparison, orders, invoices>>
    BY <1>17 DEF SaveCase
  <2>6. OrderStage(q) = "contracted" /\ OrderStage(q)' = "filed"
    BY <2>2, <2>4, <2>5 DEF OrderStage
  <2>7. \A p \in Orders \ {q} : OrderStage(p)' = OrderStage(p)
    BY <1>0, <2>4, <2>5, SameStage, IdTypes
  <2>8. Lifecycle!OpenFile(q)
    BY <2>2, <2>5, <2>6, <2>7, OneStage DEF Lifecycle!OpenFile, Origin
  <2> QED
    BY <2>2, <2>8 DEF Lifecycle!CNext
<1>18. ASSUME CompleteCase(h)
      PROVE  SameLife \/ Lifecycle!CNext
  <2>1. \A c \in Cases : cases'[c].order = cases[c].order
    BY <1>0, <1>18 DEF CompleteCase, SetCase, CaseRow
  <2>2. UNCHANGED <<orders, comparison, invoices>>
    BY <1>18 DEF CompleteCase
  <2>3. \A q \in Orders : OrderStage(q)' = OrderStage(q)
    BY <2>1, <2>2, SameStage
  <2> QED
    BY <2>2, <2>3 DEF SameLife, Origin, Stage
<1>19. ASSUME FindLines(h)
      PROVE  SameLife \/ Lifecycle!CNext
  BY <1>19, QuietLife DEF FindLines, tables
<1>20. ASSUME SaveInvoice(h)
      PROVE  SameLife \/ Lifecycle!CNext
  <2>0. PICK q \in Orders : q = ctx[h].order
    BY <1>0, <1>20, OwnerHas DEF SaveInvoice, OwnerCalls, ContractCalls
  <2>1. pc[h] = "saveInvoice" /\ pc[h] \in OwnerCalls \ {"saveInvoiceLines"}
    BY <1>20 DEF SaveInvoice, OwnerCalls, ContractCalls
  <2>2. /\ orders[q].state = "confirmed"
        /\ \E c \in Cases : cases[c].order = q
        /\ \A i \in Invoices : invoices[i].order # q
    BY <1>0, <2>0, <2>1, OwnerHas DEF FileOf, InvoiceOf, ContractCalls
  <2>3. PICK j \in Invoices :
          /\ j \notin InvoiceIds
          /\ SetInvoice(j, [order |-> q, total |-> ctx[h].lines, detailed |-> FALSE])
    BY <1>20, <2>0 DEF SaveInvoice, IsNextId
  <2>4. /\ invoices[j].order = None /\ invoices'[j].order = q
        /\ \A i \in Invoices \ {j} : invoices'[i] = invoices[i]
    BY <1>0, <2>3 DEF SetInvoice, InvoiceIds
  <2>5. UNCHANGED <<comparison, orders, cases>>
    BY <1>20 DEF SaveInvoice
  <2>6. OrderStage(q) = "filed" /\ OrderStage(q)' = "invoiced"
    BY <2>2, <2>4, <2>5 DEF OrderStage
  <2>7. \A p \in Orders \ {q} : OrderStage(p)' = OrderStage(p)
    BY <1>0, <2>4, <2>5, SameStage, IdTypes
  <2>8. Lifecycle!Invoice(q)
    BY <2>2, <2>5, <2>6, <2>7, OneStage DEF Lifecycle!Invoice, Origin
  <2> QED
    BY <2>2, <2>8 DEF Lifecycle!CNext
<1>21. ASSUME SaveInvoiceLines(h)
      PROVE  SameLife \/ Lifecycle!CNext
  <2>1. \A i \in Invoices : invoices'[i].order = invoices[i].order
    BY <1>0, <1>21 DEF SaveInvoiceLines, SetInvoice, InvoiceRow
  <2>2. UNCHANGED <<orders, comparison, cases>>
    BY <1>21 DEF SaveInvoiceLines
  <2>3. \A q \in Orders : OrderStage(q)' = OrderStage(q)
    BY <2>1, <2>2, SameStage
  <2> QED
    BY <2>2, <2>3 DEF SameLife, Origin, Stage
<1>22. ASSUME Throw(h)
      PROVE  SameLife \/ Lifecycle!CNext
  BY <1>22, QuietLife DEF Throw, tables
<1> QED
  BY <1>1, <1>2, <1>3, <1>4, <1>5, <1>6, <1>7, <1>8, <1>9, <1>10, <1>11, <1>12, <1>13, <1>14, <1>15, <1>16, <1>17, <1>18, <1>19, <1>20, <1>21, <1>22 DEF Serve

LEMMA StepRefines == IInv /\ [Next]_vars => [Lifecycle!CNext]_(Lifecycle!cvars)
<1> SUFFICES ASSUME IInv, [Next]_vars PROVE SameLife \/ Lifecycle!CNext
  BY DEF SameLife, Origin, Stage, Lifecycle!cvars
<1>1. CASE UNCHANGED vars
  BY <1>1, QuietLife DEF vars, tables
<1>2. ASSUME NEW r \in Requests, CreateQuoteRequest(r) PROVE SameLife
  BY <1>2, QuietLife DEF CreateQuoteRequest
<1> QED
  BY <1>1, <1>2, ServeRefines, NextCases

\* Handlers that interleave and fail anywhere still take every order through the life
\* cycle: offered, awarded at most once per request, contracted, filed, invoiced.
THEOREM Refinement == Spec => ImplementsLifecycle
<1> QED
  BY InitRefines, StepRefines, Invariance, PTL DEF Spec, ImplementsLifecycle, Lifecycle!CSpec
=============================================================================

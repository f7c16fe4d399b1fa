--------------------- MODULE ContractingCheckoutProofs ---------------------
(***************************************************************************)
(* What clients are answered, what they are billed and what a checkout     *)
(* contracts, for any number of handlers, products, providers and ids.     *)
(* The proof adds to the owners of ContractingProofs what an owner knows of*)
(* the lines of its order (BillInv), that a cart has one checkout until it *)
(* is torn (SoleInv), and what the loop of a checkout has done so far      *)
(* (CoverInv).                                                             *)
(***************************************************************************)
EXTENDS ContractingProofs

USE ContractingAssumption DEF None

-----------------------------------------------------------------------------
(***************************************************************************)
(* What is billed, and what a checkout has contracted                      *)
(***************************************************************************)
Complete(o) ==
  /\ orders[o].state = "confirmed"
  /\ \E c \in Cases : cases[c].order = o /\ cases[c].complete
  /\ \E i \in Invoices : invoices[i].order = o /\ invoices[i].detailed

\* The amount that order o may be billed for.
Billed(o, bag) == bag = orders[o].total \/ (o \in hasty /\ bag = Empty)

\* What a handler knows about the lines of its order, and about the orders it has made.
LinesOf(h) ==
  /\ pc[h] \in OwnerCalls \ {"saveContractLines"} =>
       orders[ctx[h].order].written \/ ctx[h].order \in hasty
  /\ pc[h] = "saveInvoice" => Billed(ctx[h].order, ctx[h].lines)
  /\ \A o \in ctx[h].made : Complete(o)

BillInv ==
  /\ AnsweredIsComplete /\ InvoiceMatchesUnlessHasty
  /\ \A h \in Handlers : LinesOf(h)

\* A cart of which no two checkouts overlapped and none failed half way: one handler
\* checks it out while it is open; its orders are that handler's, or it is closed.
SoleOf(k) == k \notin torn =>
  /\ \A g, h \in Handlers : CheckingOut(g, k) /\ CheckingOut(h, k) => g = h
  /\ \A h \in Handlers : CheckingOut(h, k) => carts[k] = "open"
  /\ \A o \in Orders : orders[o].cart = k =>
       /\ \/ carts[k] = "checked_out"
          \/ \E h \in Handlers : CheckingOut(h, k) /\ HalfDone(h)
       /\ \A h \in Handlers : CheckingOut(h, k) => orders[o].provider \notin ctx[h].todo
  /\ \A o, q \in Orders :
       (/\ orders[o].cart = k /\ orders[q].cart = k
        /\ orders[o].provider = orders[q].provider) => o = q

SoleInv == \A k \in Carts : SoleOf(k)

\* Order o is the contract of cart k for n units of product p.
Contracted(o, k, p, n) ==
  /\ orders[o].state # "absent" /\ orders[o].type = "contract"
  /\ orders[o].cart = k /\ orders[o].provider = ProviderOf[p] /\ orders[o].total[p] = n

Covered(k, p, n) ==
  \E o \in Orders : Contracted(o, k, p, n) /\ \E i \in Invoices : invoices[i].order = o

\* What a checkout knows of product p in cart k once it has read the items: they are the
\* ones in the cart still, but for the late ones, and each is still to be contracted, is
\* being contracted, or is contracted and billed.
ItemOf(h, k, p) ==
  /\ <<k, p>> \notin late => ctx[h].items[p] = cartItems[k][p]
  /\ ctx[h].items[p] > 0 =>
       \/ ProviderOf[p] \in ctx[h].todo
       \/ ctx[h].order # None /\ Contracted(ctx[h].order, k, p, ctx[h].items[p])
       \/ Covered(k, p, ctx[h].items[p])

LoopOf(h) ==
  /\ pc[h] = "idle" => ctx[h] = NoContext
  /\ pc[h] = "findItems" => ctx[h].made = {}
  /\ pc[h] \in {"saveCart", "findItems", "saveContract", "closeCart"} => ctx[h].order = None
  /\ pc[h] = "saveCart" => ctx[h].cart = None /\ ctx[h].made = {}
  /\ pc[h] = "closeCart" => ctx[h].todo = {}
  /\ ctx[h].op = "checkout" /\ pc[h] \notin {"saveCart", "findItems"} =>
       \A p \in Products : ItemOf(h, ctx[h].cart, p)

CoverInv ==
  /\ CheckoutCoversCart
  /\ \A o \in Orders : orders[o].state = "absent" => orders[o].cart = None
  /\ \A h \in Handlers : LoopOf(h)

FullInv == IInv /\ BillInv /\ SoleInv /\ CoverInv

-----------------------------------------------------------------------------
(***************************************************************************)
(* What a step does to the amounts, the carts and the loop of a checkout   *)
(***************************************************************************)
\* A row keeps its amount, its provider and its cart, its lines and its history.
Settled ==
  /\ \A q \in Orders : orders[q].state # "absent" =>
       /\ orders'[q].total = orders[q].total
       /\ orders'[q].provider = orders[q].provider /\ orders'[q].cart = orders[q].cart
       /\ orders[q].written => orders'[q].written
  /\ \A i \in Invoices : invoices[i].order # None =>
       /\ invoices'[i].total = invoices[i].total
       /\ invoices[i].detailed => invoices'[i].detailed
  /\ torn \subseteq torn' /\ late \subseteq late' /\ hasty \subseteq hasty'
  /\ answered \subseteq answered'

\* A new order, as handler h inserts it.
NewOrders(h) == \A q \in Orders : orders[q].state = "absent" =>
  \/ orders'[q].cart = orders[q].cart /\ orders'[q].provider = orders[q].provider
  \/ pc[h] = "saveQuote" /\ orders'[q].cart = None
  \/ SaveContract(h)

NewAmounts(h) == \A i \in Invoices : invoices[i].order = None =>
  \/ invoices'[i].order = None
  \/ /\ pc[h] = "saveInvoice"
     /\ invoices'[i].order = ctx[h].order /\ invoices'[i].total = ctx[h].lines

LEMMA HistorySettled ==
  ASSUME TypeOK, NEW h \in Handlers, Serve(h)
  PROVE  /\ torn \subseteq torn' /\ late \subseteq late' /\ hasty \subseteq hasty'
         /\ answered \subseteq answered'
BY DEF Serve, SubmitQuote, SaveQuote, SaveQuoteLines, SelectQuote, SaveComparison, SaveCompared,
       FindCart, FindNoCart, SaveCart, UseCart, FindItem, SaveItem, FindItems, SaveContract,
       SaveContractLines, CloseCart, SaveConfirmed, SaveCase, CompleteCase, FindLines,
       SaveInvoice, SaveInvoiceLines, Throw, history

LEMMA RowsSettled ==
  ASSUME TypeOK, ControlInv, NEW h \in Handlers, Serve(h)
  PROVE  Settled /\ NewOrders(h) /\ NewAmounts(h)
<1>0. /\ orders \in [Orders -> OrderRow] /\ invoices \in [Invoices -> InvoiceRow]
      /\ ctx[h] \in Context /\ ControlOf(h)
  BY DEF TypeOK, ControlInv
<1>1. /\ torn \subseteq torn' /\ late \subseteq late' /\ hasty \subseteq hasty'
      /\ answered \subseteq answered'
  BY HistorySettled
<1>2. CASE SaveQuote(h)
  <2>1. PICK o \in Orders, v \in Providers : o \notin OrderIds /\ SetOrder(o, QuoteOrder(h, v))
    BY <1>2 DEF SaveQuote, IsNextId
  <2>2. /\ orders'[o] = QuoteOrder(h, v) /\ orders[o].state = "absent"
        /\ \A q \in Orders \ {o} : orders'[q] = orders[q]
    BY <1>0, <2>1 DEF SetOrder, OrderIds
  <2>3. UNCHANGED invoices /\ pc[h] = "saveQuote"
    BY <1>2 DEF SaveQuote
  <2> QED BY <1>1, <2>2, <2>3 DEF Settled, NewOrders, NewAmounts, QuoteOrder
<1>3. CASE SaveContract(h)
  <2>1. PICK o \in Orders, v \in Providers : o \notin OrderIds /\ SetOrder(o, DraftContract(h, v))
    BY <1>0, <1>3 DEF SaveContract, IsNextId, Context
  <2>2. /\ orders[o].state = "absent" /\ \A q \in Orders \ {o} : orders'[q] = orders[q]
    BY <1>0, <2>1 DEF SetOrder, OrderIds
  <2>3. UNCHANGED invoices
    BY <1>3 DEF SaveContract
  <2> QED BY <1>1, <1>3, <2>2, <2>3 DEF Settled, NewOrders, NewAmounts
<1>4. CASE SaveQuoteLines(h) \/ SaveContractLines(h) \/ SaveConfirmed(h)
  <2>1. ctx[h].order \in Orders /\ UNCHANGED invoices
    BY <1>0, <1>4 DEF SaveQuoteLines, SaveContractLines, SaveConfirmed, ControlOf, ContractCalls
  <2>2. PICK row \in {[orders[ctx[h].order] EXCEPT !.written = TRUE],
                      [orders[ctx[h].order] EXCEPT !.type = "contract", !.state = "confirmed"]} :
          orders' = [orders EXCEPT ![ctx[h].order] = row]
    BY <1>4 DEF SaveQuoteLines, SaveContractLines, SaveConfirmed, SetOrder
  <2>3. orders[ctx[h].order] \in OrderRow
    BY <1>0, <2>1
  <2>4. /\ row.total = orders[ctx[h].order].total /\ row.cart = orders[ctx[h].order].cart
        /\ row.provider = orders[ctx[h].order].provider
        /\ orders[ctx[h].order].written => row.written
    BY <2>2, <2>3 DEF OrderRow
  <2>5. \A q \in Orders : /\ orders'[q].total = orders[q].total
                          /\ orders'[q].provider = orders[q].provider
                          /\ orders'[q].cart = orders[q].cart
                          /\ orders[q].written => orders'[q].written
    BY <1>0, <2>1, <2>2, <2>4
  <2> QED BY <1>1, <2>1, <2>5 DEF Settled, NewOrders, NewAmounts
<1>5. CASE SaveInvoice(h)
  <2>1. PICK j \in Invoices :
          /\ j \notin InvoiceIds
          /\ SetInvoice(j, [order |-> ctx[h].order, total |-> ctx[h].lines, detailed |-> FALSE])
    BY <1>5 DEF SaveInvoice, IsNextId
  <2>2. /\ invoices[j].order = None
        /\ invoices'[j].order = ctx[h].order /\ invoices'[j].total = ctx[h].lines
        /\ \A i \in Invoices \ {j} : invoices'[i] = invoices[i]
    BY <1>0, <2>1 DEF SetInvoice, InvoiceIds
  <2>3. UNCHANGED orders /\ pc[h] = "saveInvoice"
    BY <1>5 DEF SaveInvoice
  <2> QED BY <1>1, <2>2, <2>3 DEF Settled, NewOrders, NewAmounts
<1>6. CASE SaveInvoiceLines(h)
  <2>1. /\ invoices' = [invoices EXCEPT ![ctx[h].invoice] =
                          [invoices[ctx[h].invoice] EXCEPT !.detailed = TRUE]]
        /\ UNCHANGED orders
    BY <1>6 DEF SaveInvoiceLines, SetInvoice
  <2>2. \A i \in Invoices : /\ invoices'[i].total = invoices[i].total
                            /\ invoices'[i].order = invoices[i].order
                            /\ invoices[i].detailed => invoices'[i].detailed
    BY <1>0, <2>1 DEF InvoiceRow
  <2> QED BY <1>1, <2>1, <2>2 DEF Settled, NewOrders, NewAmounts
<1>7. CASE UNCHANGED <<orders, invoices>>
  BY <1>1, <1>7 DEF Settled, NewOrders, NewAmounts
<1> QED
  BY <1>2, <1>3, <1>4, <1>5, <1>6, <1>7
  DEF Serve, SubmitQuote, SelectQuote, SaveComparison, SaveCompared, FindCart, FindNoCart,
      SaveCart, FindItem, SaveItem, FindItems, CloseCart, SaveCase, CompleteCase, FindLines,
      Throw, tables

-----------------------------------------------------------------------------
(***************************************************************************)
(* What is billed, and what is answered                                    *)
(***************************************************************************)
Steps(h) == Moves(h) /\ Settled /\ NewOrders(h) /\ NewAmounts(h)

LEMMA StepSteps ==
  ASSUME TypeOK, ControlInv, NEW h \in Handlers, Serve(h)
  PROVE  Steps(h)
BY StepMoves, RowsSettled DEF Steps

\* An order that is complete stays complete.
LEMMA CompleteKept ==
  ASSUME Kept, Settled, NEW o \in Orders, Complete(o)
  PROVE  Complete(o)'
<1>1. o # None
  BY DEF Orders, None
<1>2. orders'[o].state = "confirmed"
  BY DEF Complete, Kept
<1>3. \E c \in Cases : cases'[c].order = o /\ cases'[c].complete
  BY <1>1 DEF Complete, Kept
<1>4. \E i \in Invoices : invoices'[i].order = o /\ invoices'[i].detailed
  BY <1>1 DEF Complete, Kept, Settled
<1> QED
  BY <1>2, <1>3, <1>4 DEF Complete

\* The last call of confirmContract leaves its order complete.
LEMMA LastCallCompletes ==
  ASSUME IInv, NEW h \in Handlers, Steps(h), SaveInvoiceLines(h),
         NEW o \in Orders, o = ctx[h].order
  PROVE  Complete(o)'
<1>0. /\ pc[h] = "saveInvoiceLines" /\ FileOf(h) /\ InvoiceOf(h)
      /\ invoices \in [Invoices -> InvoiceRow]
  BY DEF SaveInvoiceLines, IInv, FileInv, InvoiceInv, TypeOK
<1>1. /\ o # None /\ orders[o].state = "confirmed"
      /\ ctx[h].file \in Cases /\ cases[ctx[h].file].order = o /\ cases[ctx[h].file].complete
      /\ ctx[h].invoice \in Invoices /\ invoices[ctx[h].invoice].order = o
  BY <1>0 DEF FileOf, InvoiceOf, ContractCalls, Orders, None
<1>2. invoices[ctx[h].invoice] \in InvoiceRow
  BY <1>0, <1>1
<1>3. [invoices[ctx[h].invoice] EXCEPT !.detailed = TRUE].detailed = TRUE
  BY <1>2 DEF InvoiceRow
<1>4. invoices'[ctx[h].invoice].detailed
  BY <1>0, <1>1, <1>3 DEF SaveInvoiceLines, SetInvoice
<1>5. /\ orders'[o].state = "confirmed"
      /\ cases'[ctx[h].file].order = o /\ cases'[ctx[h].file].complete
      /\ invoices'[ctx[h].invoice].order = o
  BY <1>1 DEF Steps, Moves, Kept
<1> QED
  BY <1>1, <1>4, <1>5 DEF Complete

LEMMA AnswersNow ==
  ASSUME TypeOK, NEW h \in Handlers, Serve(h)
  PROVE  \/ answered' = answered
         \/ answered' = answered \cup ctx[h].made
         \/ SaveInvoiceLines(h) /\ answered' = answered \cup {ctx[h].order}
BY DEF Serve, SubmitQuote, SaveQuote, SaveQuoteLines, SelectQuote, SaveComparison, SaveCompared,
       FindCart, FindNoCart, SaveCart, UseCart, FindItem, SaveItem, FindItems, SaveContract,
       SaveContractLines, CloseCart, SaveConfirmed, SaveCase, CompleteCase, FindLines,
       SaveInvoice, SaveInvoiceLines, Throw, history

LEMMA AnsweredStep ==
  ASSUME IInv, BillInv, NEW h \in Handlers, Serve(h), Steps(h)
  PROVE  AnsweredIsComplete'
<1>0. /\ ctx[h] \in Context /\ answered \subseteq Orders /\ ControlOf(h) /\ LinesOf(h)
      /\ ctx[h].made \subseteq Orders
  BY DEF IInv, TypeOK, ControlInv, BillInv, Context
<1> SUFFICES ASSUME NEW o \in answered' PROVE Complete(o)'
  BY DEF AnsweredIsComplete, Complete
<1>1. CASE o \in answered
  BY <1>0, <1>1, CompleteKept DEF BillInv, AnsweredIsComplete, Complete, Steps, Moves
<1>2. CASE o \in ctx[h].made
  BY <1>0, <1>2, CompleteKept DEF LinesOf, Steps, Moves
<1>3. CASE SaveInvoiceLines(h) /\ o = ctx[h].order
  <2>1. o \in Orders
    BY <1>0, <1>3 DEF SaveInvoiceLines, ControlOf, ContractCalls
  <2> QED
    BY <1>3, <2>1, LastCallCompletes
<1> QED
  BY <1>1, <1>2, <1>3, AnswersNow DEF IInv

LEMMA InvoicesMatchStep ==
  ASSUME IInv, BillInv, NEW h \in Handlers, Steps(h)
  PROVE  InvoiceMatchesUnlessHasty'
<1>0. TypeOK /\ ControlInv /\ OwnerInv /\ InvoiceInv
  BY DEF IInv
<1> SUFFICES ASSUME NEW i \in Invoices, invoices'[i].order # None
             PROVE  \/ invoices'[i].total = orders'[invoices'[i].order].total
                    \/ invoices'[i].order \in hasty' /\ invoices'[i].total = Empty
  BY DEF InvoiceMatchesUnlessHasty, InvoiceIds
<1>1. CASE invoices[i].order # None
  <2>1. /\ invoices'[i].order = invoices[i].order /\ invoices'[i].total = invoices[i].total
        /\ invoices[i].order \in Orders
    BY <1>0, <1>1, IdTypes DEF Steps, Moves, Kept, Settled
  <2>2. orders[invoices[i].order].state = "confirmed"
    BY <1>0, <1>1 DEF InvoiceInv, FiledAndBilledOnce, InvoiceIds
  <2>3. orders'[invoices[i].order].total = orders[invoices[i].order].total
    BY <2>1, <2>2 DEF Steps, Settled
  <2>4. \/ invoices[i].total = orders[invoices[i].order].total
        \/ invoices[i].order \in hasty /\ invoices[i].total = Empty
    BY <1>1 DEF BillInv, InvoiceMatchesUnlessHasty, InvoiceIds
  <2> QED
    BY <2>1, <2>3, <2>4 DEF Steps, Settled
<1>2. CASE invoices[i].order = None
  <2>1. /\ pc[h] = "saveInvoice"
        /\ invoices'[i].order = ctx[h].order /\ invoices'[i].total = ctx[h].lines
    BY <1>2 DEF Steps, NewAmounts
  <2>2. ctx[h].order \in Orders /\ orders[ctx[h].order].state # "absent"
    BY <1>0, <2>1, OwnerHas DEF OwnerCalls, ContractCalls
  <2>3. orders'[ctx[h].order].total = orders[ctx[h].order].total
    BY <2>2 DEF Steps, Settled
  <2>4. Billed(ctx[h].order, ctx[h].lines)
    BY <2>1 DEF BillInv, LinesOf
  <2> QED
    BY <2>1, <2>3, <2>4 DEF Billed, Steps, Settled
<1> QED
  BY <1>1, <1>2

\* A step of h takes nothing from what the other handlers know of their lines.
LEMMA OthersLines ==
  ASSUME IInv, BillInv, NEW h \in Handlers, Serve(h), Steps(h), NEW g \in Handlers, g # h
  PROVE  LinesOf(g)'
<1>0. /\ TypeOK /\ ControlInv /\ OwnerInv /\ LinesOf(g)
      /\ pc'[g] = pc[g] /\ ctx'[g] = ctx[g]
  BY OthersWait DEF IInv, BillInv
<1>1. pc[g] \in OwnerCalls => /\ ctx[g].order \in Orders
                              /\ orders[ctx[g].order].state # "absent"
  BY <1>0, OwnerHas
<1>2. \A o \in ctx[g].made : Complete(o)'
  <2>1. ctx[g].made \subseteq Orders
    BY <1>0 DEF TypeOK, Context
  <2> QED
    BY <1>0, <2>1, CompleteKept DEF LinesOf, Steps, Moves
<1>3. pc[g] \in OwnerCalls \ {"saveContractLines"} =>
        orders'[ctx[g].order].written \/ ctx[g].order \in hasty'
  BY <1>0, <1>1 DEF LinesOf, Steps, Settled
<1>4. pc[g] = "saveInvoice" => /\ orders'[ctx[g].order].total = orders[ctx[g].order].total
                               /\ Billed(ctx[g].order, ctx[g].lines)
  BY <1>0, <1>1 DEF LinesOf, Steps, Settled, OwnerCalls, ContractCalls
<1>5. pc'[g] = "saveInvoice" => Billed(ctx[g].order, ctx[g].lines)'
  BY <1>0, <1>4 DEF Billed, Steps, Settled
<1> QED
  BY <1>0, <1>2, <1>3, <1>5 DEF LinesOf, Complete

\* What the handler itself knows after its step.
LEMMA OwnLines ==
  ASSUME IInv, BillInv, NEW h \in Handlers, Serve(h), Steps(h)
  PROVE  LinesOf(h)'
<1>0. /\ TypeOK /\ ControlInv /\ OwnerInv /\ FileInv
      /\ pc \in [Handlers -> Calls] /\ ctx \in [Handlers -> Context]
      /\ ctx[h] \in Context /\ ControlOf(h) /\ LinesOf(h) /\ ctx[h].made \subseteq Orders
      /\ orders \in [Orders -> OrderRow]
  BY DEF IInv, TypeOK, ControlInv, BillInv, Context
<1>1. \A o \in ctx[h].made : Complete(o)'
  BY <1>0, CompleteKept DEF LinesOf, Steps, Moves
\* A handler that stays an owner keeps its order; one whose calls are not an owner's has
\* nothing to know but the orders it has made.
<1>2. ASSUME pc'[h] \notin OwnerCalls \/ pc'[h] = "saveContractLines",
             ctx'[h].made \subseteq ctx[h].made
      PROVE  LinesOf(h)'
  BY <1>1, <1>2 DEF LinesOf, Complete, OwnerCalls, ContractCalls
<1>3. ASSUME pc[h] \in OwnerCalls \ {"saveContractLines"}, pc'[h] # "saveInvoice",
             ctx'[h].order = ctx[h].order, ctx'[h].made = ctx[h].made
      PROVE  LinesOf(h)'
  <2>1. ctx[h].order \in Orders /\ orders[ctx[h].order].state # "absent"
    BY <1>0, <1>3, OwnerHas
  <2>2. orders'[ctx[h].order].written \/ ctx[h].order \in hasty'
    BY <1>0, <1>3, <2>1 DEF LinesOf, Steps, Settled
  <2> QED
    BY <1>1, <1>3, <2>2 DEF LinesOf, Complete
<1>4. ASSUME ctx'[h] = NoContext, pc'[h] = "idle" PROVE LinesOf(h)'
  BY <1>4 DEF LinesOf, NoContext, OwnerCalls, ContractCalls
<1>5. ASSUME ctx'[h].made = {}, pc'[h] \notin OwnerCalls PROVE LinesOf(h)'
  BY <1>5 DEF LinesOf, OwnerCalls, ContractCalls
<1> USE DEF Goto, Keep
<1>6. ASSUME \E r \in Requests, bag \in Bag : SubmitQuote(h, r, bag) PROVE LinesOf(h)'
  BY <1>0, <1>5, <1>6 DEF SubmitQuote, NoContext, OwnerCalls, ContractCalls
<1>7. ASSUME SaveQuote(h) PROVE LinesOf(h)'
  <2>1. PICK o \in Orders : ctx'[h] = [ctx[h] EXCEPT !.order = o]
    BY <1>0, <1>7 DEF SaveQuote
  <2>2. ctx'[h].made = ctx[h].made
    BY <1>0, <2>1 DEF Context
  <2> QED
    BY <1>0, <1>2, <1>7, <2>2 DEF SaveQuote, OwnerCalls, ContractCalls
<1>8. ASSUME SaveQuoteLines(h) \/ CloseCart(h) \/ Throw(h) PROVE LinesOf(h)'
  BY <1>0, <1>4, <1>8 DEF SaveQuoteLines, CloseCart, SaveItem, Throw, Leave
<1>9. ASSUME \E r \in Requests, o \in Orders : SelectQuote(h, r, o) PROVE LinesOf(h)'
  BY <1>0, <1>5, <1>9 DEF SelectQuote, NoContext, OwnerCalls, ContractCalls
<1>10. ASSUME SaveComparison(h) PROVE LinesOf(h)'
  <2>1. /\ pc[h] = "saveComparison" /\ pc'[h] = "saveCompared" /\ ctx' = ctx
        /\ orders' = orders
        /\ hasty' = IF orders[ctx[h].order].written THEN hasty ELSE hasty \cup {ctx[h].order}
    BY <1>0, <1>10 DEF SaveComparison
  <2>2. orders'[ctx[h].order].written \/ ctx[h].order \in hasty'
    BY <2>1
  <2> QED
    BY <1>1, <2>1, <2>2 DEF LinesOf, Complete
<1>11. ASSUME SaveContractLines(h) PROVE LinesOf(h)'
  <2>1. /\ pc[h] = "saveContractLines" /\ pc'[h] = "saveConfirmed" /\ ctx' = ctx
        /\ orders' = [orders EXCEPT ![ctx[h].order] =
                       [orders[ctx[h].order] EXCEPT !.written = TRUE]]
    BY <1>0, <1>11 DEF SaveContractLines, SetOrder
  <2>2. ctx[h].order \in Orders /\ orders[ctx[h].order] \in OrderRow
    BY <1>0, <2>1 DEF ControlOf
  <2>3. [orders[ctx[h].order] EXCEPT !.written = TRUE].written
    BY <2>2 DEF OrderRow
  <2>4. orders'[ctx[h].order].written
    BY <1>0, <2>1, <2>2, <2>3
  <2> QED
    BY <1>1, <2>1, <2>4 DEF LinesOf, Complete
<1>12. ASSUME SaveCompared(h) \/ SaveConfirmed(h) \/ CompleteCase(h) PROVE LinesOf(h)'
  BY <1>0, <1>3, <1>12 DEF SaveCompared, SaveConfirmed, CompleteCase, OwnerCalls, ContractCalls
<1>13. ASSUME SaveCase(h) PROVE LinesOf(h)'
  <2>1. PICK c \in Cases : ctx'[h] = [ctx[h] EXCEPT !.file = c]
    BY <1>0, <1>13 DEF SaveCase
  <2>2. ctx'[h].order = ctx[h].order /\ ctx'[h].made = ctx[h].made
    BY <1>0, <2>1 DEF Context
  <2> QED
    BY <1>0, <1>3, <1>13, <2>2 DEF SaveCase, OwnerCalls, ContractCalls
<1>14. ASSUME SaveInvoice(h) PROVE LinesOf(h)'
  <2>1. PICK i \in Invoices : ctx'[h] = [ctx[h] EXCEPT !.invoice = i]
    BY <1>0, <1>14 DEF SaveInvoice
  <2>2. ctx'[h].order = ctx[h].order /\ ctx'[h].made = ctx[h].made
    BY <1>0, <2>1 DEF Context
  <2> QED
    BY <1>0, <1>3, <1>14, <2>2 DEF SaveInvoice, OwnerCalls, ContractCalls
<1>15. ASSUME FindLines(h) PROVE LinesOf(h)'
  <2>1. /\ pc[h] = "findLines" /\ pc'[h] = "saveInvoice"
        /\ orders' = orders /\ hasty' = hasty
        /\ ctx'[h] = [ctx[h] EXCEPT !.lines = IF orders[ctx[h].order].written
                                             THEN orders[ctx[h].order].total ELSE Empty]
    BY <1>0, <1>15 DEF FindLines, tables, history
  <2>2. /\ ctx'[h].order = ctx[h].order /\ ctx'[h].made = ctx[h].made
        /\ ctx'[h].lines = IF orders[ctx[h].order].written
                           THEN orders[ctx[h].order].total ELSE Empty
    BY <1>0, <2>1 DEF Context
  <2>3. orders[ctx[h].order].written \/ ctx[h].order \in hasty
    BY <1>0, <2>1 DEF LinesOf, OwnerCalls, ContractCalls
  <2> QED
    BY <1>1, <2>1, <2>2, <2>3 DEF LinesOf, Complete, Billed
<1>16. ASSUME SaveInvoiceLines(h) PROVE LinesOf(h)'
  <2>1. pc[h] = "saveInvoiceLines" /\ ctx[h].order \in Orders
    BY <1>0, <1>16 DEF SaveInvoiceLines, ControlOf, ContractCalls
  <2>2. CASE ctx[h].op = "select"
    BY <1>0, <1>4, <1>16, <2>2 DEF SaveInvoiceLines, Leave
  <2>3. CASE ctx[h].op # "select"
    <3>1. /\ pc'[h] \in {"closeCart", "saveContract"}
          /\ ctx'[h] = [ctx[h] EXCEPT !.made = ctx[h].made \cup {ctx[h].order},
                                      !.order = None, !.file = None,
                                      !.invoice = None, !.lines = Empty]
      BY <1>0, <1>16, <2>3 DEF SaveInvoiceLines
    <3>2. ctx'[h].made = ctx[h].made \cup {ctx[h].order}
      BY <1>0, <3>1 DEF Context
    <3>3. \A o \in Orders : o = ctx[h].order => Complete(o)'
      BY <1>16, LastCallCompletes
    <3>4. \A o \in ctx'[h].made : Complete(o)'
      BY <1>1, <2>1, <3>2, <3>3
    <3> QED
      BY <3>1, <3>4 DEF LinesOf, Complete, OwnerCalls, ContractCalls
  <2> QED
    BY <2>2, <2>3
<1>17. ASSUME \/ \E op \in CartOps, p \in Products \cup {None} :
                   /\ op = "addItem" => p \in Products
                   /\ \/ \E k \in Carts : FindCart(h, op, p, k)
                      \/ FindNoCart(h, op, p)
              \/ SaveCart(h)
       PROVE  LinesOf(h)'
  <2>1. PICK op \in CartOps, p \in Products \cup {None} :
          \/ \E k \in Carts : UseCart(h, op, p, k)
          \/ FindNoCart(h, op, p)
    BY <1>0, <1>17 DEF FindCart, SaveCart, ControlOf, Context
  <2>2. CASE FindNoCart(h, op, p)
    BY <1>0, <1>5, <2>2 DEF FindNoCart, NoContext, OwnerCalls, ContractCalls
  <2>3. CASE \E k \in Carts : UseCart(h, op, p, k)
    BY <1>0, <1>5, <2>3 DEF UseCart, AfterCart, CartOps, NoContext, OwnerCalls, ContractCalls
  <2> QED
    BY <2>1, <2>2, <2>3
<1>18. ASSUME FindItem(h) \/ FindItems(h) PROVE LinesOf(h)'
  <2>1. pc'[h] \in {"saveItem", "saveContract"}
    BY <1>0, <1>18 DEF FindItem, FindItems
  <2>2. ASSUME FindItem(h) PROVE ctx'[h].made = ctx[h].made
    <3>1. \E bag : ctx'[h] = [ctx[h] EXCEPT !.items = bag]
      BY <1>0, <2>2 DEF FindItem
    <3> QED
      BY <1>0, <3>1 DEF Context
  <2>3. ASSUME FindItems(h) PROVE ctx'[h].made = ctx[h].made
    <3>1. \E bag, vs : ctx'[h] = [ctx[h] EXCEPT !.items = bag, !.todo = vs]
      BY <1>0, <2>3 DEF FindItems
    <3> QED
      BY <1>0, <3>1 DEF Context
  <2> QED
    BY <1>0, <1>2, <1>18, <2>1, <2>2, <2>3 DEF OwnerCalls, ContractCalls
<1>19. ASSUME SaveContract(h) PROVE LinesOf(h)'
  <2>1. PICK o \in Orders, vs \in SUBSET Providers :
          ctx'[h] = [ctx[h] EXCEPT !.order = o, !.todo = vs]
    BY <1>0, <1>19 DEF SaveContract, Context
  <2>2. ctx'[h].made = ctx[h].made
    BY <1>0, <2>1 DEF Context
  <2>3. pc'[h] = "saveContractLines"
    BY <1>0, <1>19 DEF SaveContract
  <2> QED
    BY <1>2, <2>2, <2>3
<1>20. ASSUME SaveItem(h) PROVE LinesOf(h)'
  BY <1>0, <1>4, <1>20 DEF SaveItem, Leave
<1> QED
  BY <1>6, <1>7, <1>8, <1>9, <1>10, <1>11, <1>12, <1>13, <1>14, <1>15, <1>16, <1>17, <1>18,
     <1>19, <1>20 DEF Serve

LEMMA BillStep ==
  ASSUME IInv, BillInv, NEW h \in Handlers, Serve(h), Steps(h)
  PROVE  BillInv'
<1>1. \A g \in Handlers : LinesOf(g)'
  BY OthersLines, OwnLines
<1> QED
  BY <1>1, AnsweredStep, InvoicesMatchStep DEF BillInv

-----------------------------------------------------------------------------
(***************************************************************************)
(* One checkout of a cart                                                  *)
(***************************************************************************)
\* The step adds no order to cart k, and takes none from it.
SameOrders(k) == \A o \in Orders : orders'[o].cart = k =>
  orders[o].cart = k /\ orders'[o].provider = orders[o].provider

\* The step starts no checkout of k, adds no provider to one, and ends none that has
\* drafted an order, unless k is torn from now on.
SameLoop(h, k) ==
  /\ CheckingOut(h, k)' => CheckingOut(h, k) /\ ctx'[h].todo \subseteq ctx[h].todo
  /\ CheckingOut(h, k) /\ HalfDone(h) => k \in torn' \/ (CheckingOut(h, k)' /\ HalfDone(h)')

LEMMA SameSole ==
  ASSUME NEW h \in Handlers, NEW k \in Carts, SoleOf(k), carts'[k] = carts[k],
         SameOrders(k), SameLoop(h, k), torn \subseteq torn',
         \A g \in Handlers : g # h => ctx'[g] = ctx[g]
  PROVE  SoleOf(k)'
<1> SUFFICES ASSUME k \notin torn' PROVE SoleOf(k)'
  BY DEF SoleOf
<1>0. /\ \A f, g \in Handlers : CheckingOut(f, k) /\ CheckingOut(g, k) => f = g
      /\ \A g \in Handlers : CheckingOut(g, k) => carts[k] = "open"
      /\ \A o \in Orders : orders[o].cart = k =>
           /\ \/ carts[k] = "checked_out"
              \/ \E g \in Handlers : CheckingOut(g, k) /\ HalfDone(g)
           /\ \A g \in Handlers : CheckingOut(g, k) => orders[o].provider \notin ctx[g].todo
      /\ \A o, q \in Orders :
           (/\ orders[o].cart = k /\ orders[q].cart = k
            /\ orders[o].provider = orders[q].provider) => o = q
  BY DEF SoleOf
<1>1. \A g \in Handlers :
        /\ CheckingOut(g, k)' => CheckingOut(g, k) /\ ctx'[g].todo \subseteq ctx[g].todo
        /\ CheckingOut(g, k) /\ HalfDone(g) => CheckingOut(g, k)' /\ HalfDone(g)'
  <2>1. \A g \in Handlers : g # h =>
          /\ CheckingOut(g, k)' => CheckingOut(g, k) /\ ctx'[g].todo \subseteq ctx[g].todo
          /\ CheckingOut(g, k) /\ HalfDone(g) => CheckingOut(g, k)' /\ HalfDone(g)'
    BY DEF CheckingOut, HalfDone
  <2>2. /\ CheckingOut(h, k)' => CheckingOut(h, k) /\ ctx'[h].todo \subseteq ctx[h].todo
        /\ CheckingOut(h, k) /\ HalfDone(h) => CheckingOut(h, k)' /\ HalfDone(h)'
    BY DEF SameLoop
  <2> QED
    BY <2>1, <2>2
<1>2. \A f, g \in Handlers : CheckingOut(f, k)' /\ CheckingOut(g, k)' => f = g
  BY <1>0, <1>1
<1>3. \A g \in Handlers : CheckingOut(g, k)' => carts'[k] = "open"
  BY <1>0, <1>1
<1>4. ASSUME NEW o \in Orders, orders'[o].cart = k
      PROVE  /\ \/ carts'[k] = "checked_out"
                \/ \E g \in Handlers : CheckingOut(g, k)' /\ HalfDone(g)'
             /\ \A g \in Handlers : CheckingOut(g, k)' => orders'[o].provider \notin ctx'[g].todo
  <2>1. orders[o].cart = k /\ orders'[o].provider = orders[o].provider
    BY <1>4 DEF SameOrders
  <2> QED
    BY <1>0, <1>1, <2>1
<1>5. \A o, q \in Orders :
        (/\ orders'[o].cart = k /\ orders'[q].cart = k
         /\ orders'[o].provider = orders'[q].provider) => o = q
  BY <1>0 DEF SameOrders
<1> QED
  BY <1>2, <1>3, <1>4, <1>5 DEF SoleOf

\* The calls of a handler that start no checkout, and do not end its loop.
LEMMA LoopGoesOn ==
  ASSUME IInv, NEW h \in Handlers, LoopOf(h), Serve(h), NEW k \in Carts,
         ~FindItems(h), ~CloseCart(h), ~SaveCart(h),
         ~\E p \in Products \cup {None}, x \in Carts : FindCart(h, "checkout", p, x)
  PROVE  SameLoop(h, k)
<1>0. /\ pc \in [Handlers -> Calls] /\ ctx \in [Handlers -> Context]
      /\ ctx[h] \in Context /\ ControlOf(h) /\ k # None
  BY DEF IInv, TypeOK, ControlInv, Carts, None
<1>1. ASSUME ctx'[h].op = ctx[h].op, ctx'[h].cart = ctx[h].cart,
             ctx'[h].todo \subseteq ctx[h].todo, HalfDone(h) => HalfDone(h)'
      PROVE  SameLoop(h, k)
  BY <1>1 DEF SameLoop, CheckingOut
<1>2. ASSUME ~CheckingOut(h, k), ~CheckingOut(h, k)' PROVE SameLoop(h, k)
  BY <1>2 DEF SameLoop
<1> USE DEF Goto, Keep
<1>3. ASSUME ctx'[h] = NoContext, ctx[h].op # "checkout" PROVE SameLoop(h, k)
  BY <1>2, <1>3 DEF NoContext, CheckingOut
<1>4. ASSUME \E r \in Requests, bag \in Bag : SubmitQuote(h, r, bag) PROVE SameLoop(h, k)
  BY <1>0, <1>2, <1>4 DEF SubmitQuote, NoContext, CheckingOut, LoopOf
<1>5. ASSUME \E r \in Requests, o \in Orders : SelectQuote(h, r, o) PROVE SameLoop(h, k)
  BY <1>0, <1>2, <1>5 DEF SelectQuote, NoContext, CheckingOut, LoopOf
<1>6. ASSUME SaveQuote(h) PROVE SameLoop(h, k)
  <2>1. PICK o \in Orders : ctx'[h] = [ctx[h] EXCEPT !.order = o]
    BY <1>0, <1>6 DEF SaveQuote
  <2>2. ctx[h].op = "submit" /\ ctx'[h].op = ctx[h].op
    BY <1>0, <1>6, <2>1 DEF SaveQuote, ControlOf, Context
  <2> QED
    BY <1>2, <2>2 DEF CheckingOut
<1>7. ASSUME SaveQuoteLines(h) \/ SaveItem(h) PROVE SameLoop(h, k)
  BY <1>0, <1>3, <1>7 DEF SaveQuoteLines, SaveItem, Leave, ControlOf
<1>8. ASSUME \/ SaveComparison(h) \/ SaveCompared(h) \/ SaveContractLines(h)
             \/ SaveConfirmed(h) \/ CompleteCase(h)
      PROVE  SameLoop(h, k)
  <2>1. ctx' = ctx
    BY <1>8 DEF SaveComparison, SaveCompared, SaveContractLines, SaveConfirmed, CompleteCase
  <2> QED
    BY <1>1, <2>1 DEF HalfDone
<1>9. ASSUME SaveCase(h) \/ FindLines(h) \/ SaveInvoice(h) PROVE SameLoop(h, k)
  <2>1. \/ \E c : ctx'[h] = [ctx[h] EXCEPT !.file = c]
        \/ \E bag : ctx'[h] = [ctx[h] EXCEPT !.lines = bag]
        \/ \E i : ctx'[h] = [ctx[h] EXCEPT !.invoice = i]
    <3>1. SaveCase(h) => \E c : ctx'[h] = [ctx[h] EXCEPT !.file = c]
      BY <1>0 DEF SaveCase
    <3>2. FindLines(h) => \E bag : ctx'[h] = [ctx[h] EXCEPT !.lines = bag]
      BY <1>0 DEF FindLines
    <3>3. SaveInvoice(h) => \E i : ctx'[h] = [ctx[h] EXCEPT !.invoice = i]
      BY <1>0 DEF SaveInvoice
    <3> QED
      BY <1>9, <3>1, <3>2, <3>3
  <2>2. /\ ctx'[h].op = ctx[h].op /\ ctx'[h].cart = ctx[h].cart
        /\ ctx'[h].todo = ctx[h].todo
        /\ ctx'[h].order = ctx[h].order /\ ctx'[h].made = ctx[h].made
    BY <1>0, <2>1 DEF Context
  <2> QED
    BY <1>1, <2>2 DEF HalfDone
<1>10. ASSUME SaveInvoiceLines(h) PROVE SameLoop(h, k)
  <2>1. CASE ctx[h].op = "select"
    BY <1>0, <1>3, <1>10, <2>1 DEF SaveInvoiceLines, Leave
  <2>2. CASE ctx[h].op # "select"
    <3>1. ctx'[h] = [ctx[h] EXCEPT !.made = ctx[h].made \cup {ctx[h].order},
                                   !.order = None, !.file = None,
                                   !.invoice = None, !.lines = Empty]
      BY <1>0, <1>10, <2>2 DEF SaveInvoiceLines
    <3>2. /\ ctx'[h].op = ctx[h].op /\ ctx'[h].cart = ctx[h].cart
          /\ ctx'[h].todo = ctx[h].todo
          /\ ctx'[h].made = ctx[h].made \cup {ctx[h].order}
      BY <1>0, <3>1 DEF Context
    <3> QED
      BY <1>1, <3>2 DEF HalfDone
  <2> QED
    BY <2>1, <2>2
<1>11. ASSUME SaveContract(h) PROVE SameLoop(h, k)
  <2>1. PICK o \in Orders, v \in ctx[h].todo :
          ctx'[h] = [ctx[h] EXCEPT !.order = o, !.todo = ctx[h].todo \ {v}]
    BY <1>0, <1>11 DEF SaveContract
  <2>2. /\ ctx'[h].op = ctx[h].op /\ ctx'[h].cart = ctx[h].cart
        /\ ctx'[h].todo \subseteq ctx[h].todo /\ ctx'[h].order = o /\ o # None
    BY <1>0, <2>1 DEF Context, Orders, None
  <2> QED
    BY <1>1, <2>2 DEF HalfDone
<1>12. ASSUME Throw(h) PROVE SameLoop(h, k)
  <2>1. ctx'[h] = NoContext /\ torn' = IF HalfDone(h) THEN torn \cup {ctx[h].cart} ELSE torn
    BY <1>0, <1>12 DEF Throw, Leave
  <2> QED
    BY <2>1 DEF SameLoop, CheckingOut, NoContext
<1>13. ASSUME FindItem(h) PROVE SameLoop(h, k)
  <2>1. \E bag : ctx'[h] = [ctx[h] EXCEPT !.items = bag]
    BY <1>0, <1>13 DEF FindItem
  <2>2. ctx[h].op = "addItem" /\ ctx'[h].op = ctx[h].op
    BY <1>0, <1>13, <2>1 DEF FindItem, ControlOf, Context
  <2> QED
    BY <1>2, <2>2 DEF CheckingOut
<1>14. ASSUME NEW op \in CartOps, NEW p \in Products \cup {None}, FindNoCart(h, op, p)
       PROVE  SameLoop(h, k)
  <2>1. ctx[h] = NoContext /\ ctx'[h] = [NoContext EXCEPT !.op = op, !.product = p]
    BY <1>0, <1>14 DEF FindNoCart, LoopOf
  <2> QED
    BY <1>0, <1>2, <2>1 DEF CheckingOut, NoContext
<1>15. ASSUME NEW op \in CartOps, NEW p \in Products \cup {None}, NEW x \in Carts,
              FindCart(h, op, p, x)
       PROVE  SameLoop(h, k)
  <2>1. op # "checkout"
    BY <1>15
  <2>2. /\ ctx[h] = NoContext
        /\ ctx'[h] = IF op = "getCart" THEN NoContext
                     ELSE [NoContext EXCEPT !.op = op, !.product = p, !.cart = x]
    BY <1>0, <1>15 DEF FindCart, UseCart, LoopOf
  <2> QED
    BY <1>2, <2>1, <2>2 DEF CheckingOut, NoContext
<1> QED
  BY <1>4, <1>5, <1>6, <1>7, <1>8, <1>9, <1>10, <1>11, <1>12, <1>13, <1>14, <1>15 DEF Serve

LEMMA OrdersOfCarts ==
  ASSUME NEW h \in Handlers, Steps(h), ~SaveContract(h), NEW k \in Carts
  PROVE  SameOrders(k)
BY DEF SameOrders, Steps, Settled, NewOrders, Carts, None

\* What happens to the carts.
LEMMA CartsNow ==
  ASSUME TypeOK, NEW h \in Handlers, Serve(h), ~SaveCart(h), ~CloseCart(h)
  PROVE  carts' = carts
BY DEF Serve, SubmitQuote, SaveQuote, SaveQuoteLines, SelectQuote, SaveComparison, SaveCompared,
       FindCart, FindNoCart, FindItem, SaveItem, FindItems, SaveContract,
       SaveContractLines, SaveConfirmed, SaveCase, CompleteCase, FindLines,
       SaveInvoice, SaveInvoiceLines, Throw, tables

\* A checkout starts: there is no other one, and no order of the cart yet.
LEMMA SoleStart ==
  ASSUME NEW h \in Handlers, NEW k \in Carts, SoleOf(k), ctx[h].op # "checkout" \/ ctx[h].cart # k,
         \A g \in Handlers : g # h => ctx'[g] = ctx[g],
         carts[k] # "checked_out", carts'[k] = "open",
         k \notin torn' => k \notin torn /\ ~\E g \in Handlers \ {h} : CheckingOut(g, k),
         SameOrders(k)
  PROVE  SoleOf(k)'
<1> SUFFICES ASSUME k \notin torn' PROVE SoleOf(k)'
  BY DEF SoleOf
<1>1. \A g \in Handlers : ~CheckingOut(g, k)
  BY DEF CheckingOut
<1>2. \A o \in Orders : orders'[o].cart # k
  BY <1>1 DEF SoleOf, SameOrders
<1>3. \A g \in Handlers : CheckingOut(g, k)' => g = h
  BY <1>1 DEF CheckingOut
<1> QED
  BY <1>2, <1>3 DEF SoleOf

LEMMA SoleStep ==
  ASSUME IInv, NEW h \in Handlers, LoopOf(h), Serve(h), Steps(h), NEW k \in Carts, SoleOf(k)
  PROVE  SoleOf(k)'
<1>0. /\ TypeOK /\ pc \in [Handlers -> Calls] /\ ctx \in [Handlers -> Context]
      /\ carts \in [Carts -> {"absent", "open", "checked_out"}]
      /\ orders \in [Orders -> OrderRow]
      /\ ctx[h] \in Context /\ ControlOf(h) /\ k # None
      /\ torn \subseteq torn' /\ \A g \in Handlers : g # h => ctx'[g] = ctx[g]
  BY OthersWait DEF IInv, TypeOK, ControlInv, Carts, None, Steps, Settled
<1> USE DEF Goto, Keep
<1>1. ASSUME NEW p \in Products \cup {None}, NEW x \in Carts, UseCart(h, "checkout", p, x),
             FindCart(h, "checkout", p, x) \/ SaveCart(h)
      PROVE  SoleOf(k)'
  <2>1. /\ ctx'[h] = [NoContext EXCEPT !.op = "checkout", !.product = p, !.cart = x]
        /\ torn' = IF \E g \in Handlers \ {h} : CheckingOut(g, x) THEN torn \cup {x} ELSE torn
    BY <1>0, <1>1 DEF UseCart
  <2>2. ctx[h].cart = None /\ ctx'[h].cart = x
    BY <1>1, <2>1 DEF FindCart, SaveCart, LoopOf, NoContext
  <2>3. SameOrders(k)
    BY <1>0, <1>1, OrdersOfCarts DEF FindCart, SaveCart, SaveContract
  <2>4. CASE x = k
    <3>1. carts[k] # "checked_out" /\ carts'[k] = "open"
      <4>1. CASE FindCart(h, "checkout", p, x)
        BY <2>4, <4>1 DEF FindCart, OpenCarts, tables
      <4>2. CASE SaveCart(h)
        <5>1. PICK y \in Carts :
                /\ y \notin CartIds /\ carts' = [carts EXCEPT ![y] = "open"]
                /\ UseCart(h, ctx[h].op, ctx[h].product, y)
          BY <4>2 DEF SaveCart, IsNextId
        <5>2. ctx'[h] = IF ctx[h].op = "getCart" THEN NoContext
                        ELSE [NoContext EXCEPT !.op = ctx[h].op, !.product = ctx[h].product,
                                               !.cart = y]
          BY <1>0, <5>1 DEF UseCart
        <5>3. x = y
          BY <1>0, <2>2, <2>4, <5>2 DEF NoContext
        <5> QED
          BY <1>0, <2>4, <5>1, <5>3 DEF CartIds
      <4> QED
        BY <1>1, <4>1, <4>2
    <3>2. k \notin torn' => k \notin torn /\ ~\E g \in Handlers \ {h} : CheckingOut(g, k)
      BY <2>1, <2>4
    <3> QED
      BY <1>0, <2>2, <2>3, <3>1, <3>2, SoleStart
  <2>5. CASE x # k
    <3>1. carts'[k] = carts[k]
      <4>1. CASE FindCart(h, "checkout", p, x)
        BY <4>1 DEF FindCart, tables
      <4>2. CASE SaveCart(h)
        <5>1. PICK y \in Carts :
                /\ carts' = [carts EXCEPT ![y] = "open"]
                /\ UseCart(h, ctx[h].op, ctx[h].product, y)
          BY <4>2 DEF SaveCart
        <5>2. ctx'[h] = IF ctx[h].op = "getCart" THEN NoContext
                        ELSE [NoContext EXCEPT !.op = ctx[h].op, !.product = ctx[h].product,
                                               !.cart = y]
          BY <1>0, <5>1 DEF UseCart
        <5>3. x = y
          BY <1>0, <2>2, <5>2 DEF NoContext, Carts, None
        <5> QED
          BY <1>0, <2>5, <5>1, <5>3
      <4> QED
        BY <1>1, <4>1, <4>2
    <3>2. SameLoop(h, k)
      BY <1>0, <2>2, <2>5 DEF SameLoop, CheckingOut
    <3> QED
      BY <1>0, <2>3, <3>1, <3>2, SameSole
  <2> QED
    BY <2>4, <2>5
<1>2. ASSUME SaveCart(h), ctx[h].op # "checkout" PROVE SoleOf(k)'
  <2>1. PICK y \in Carts :
          /\ y \notin CartIds /\ carts' = [carts EXCEPT ![y] = "open"]
          /\ UseCart(h, ctx[h].op, ctx[h].product, y)
    BY <1>2 DEF SaveCart, IsNextId
  <2>2. ctx'[h] = IF ctx[h].op = "getCart" THEN NoContext
                  ELSE [NoContext EXCEPT !.op = ctx[h].op, !.product = ctx[h].product,
                                         !.cart = y]
    BY <1>0, <2>1 DEF UseCart
  <2>3. ctx'[h].op # "checkout" /\ torn' = torn
    BY <1>2, <2>1, <2>2 DEF NoContext, UseCart
  <2>4. SameOrders(k) /\ SameLoop(h, k)
    BY <1>0, <1>2, <2>3, OrdersOfCarts DEF SameLoop, CheckingOut, SaveCart, SaveContract
  <2>5. CASE k # y
    BY <1>0, <2>1, <2>4, <2>5, SameSole
  <2>6. CASE k = y
    <3>1. carts[k] = "absent" /\ carts'[k] = "open"
      BY <1>0, <2>1, <2>6 DEF CartIds
    <3>2. k \notin torn => \A g \in Handlers : ~CheckingOut(g, k)
      BY <3>1 DEF SoleOf
    <3> QED
      BY <1>0, <1>2, <2>3, <2>4, <3>1, <3>2, SoleStart
  <2> QED
    BY <2>5, <2>6
<1>3. ASSUME CloseCart(h) PROVE SoleOf(k)'
  <2>1. /\ ctx'[h] = NoContext /\ ctx[h].op = "checkout" /\ torn' = torn
        /\ carts' = [carts EXCEPT ![ctx[h].cart] = "checked_out"]
    BY <1>0, <1>3 DEF CloseCart, Leave, ControlOf
  <2>2. SameOrders(k)
    BY <1>0, <1>3, OrdersOfCarts DEF CloseCart, SaveContract
  <2>3. CASE k # ctx[h].cart
    <3>1. carts'[k] = carts[k] /\ SameLoop(h, k)
      BY <1>0, <2>1, <2>3 DEF SameLoop, CheckingOut, NoContext
    <3> QED
      BY <1>0, <2>2, <3>1, SameSole
  <2>4. CASE k = ctx[h].cart
    <3> SUFFICES ASSUME k \notin torn PROVE SoleOf(k)'
      BY <2>1 DEF SoleOf
    <3>1. CheckingOut(h, k)
      BY <2>1, <2>4 DEF CheckingOut
    <3>2. \A g \in Handlers : ~CheckingOut(g, k)'
      <4>1. ~CheckingOut(h, k)'
        BY <2>1 DEF CheckingOut, NoContext
      <4>2. \A g \in Handlers : g # h => ~CheckingOut(g, k)
        BY <3>1 DEF SoleOf
      <4> QED
        BY <1>0, <4>1, <4>2 DEF CheckingOut
    <3>3. carts'[k] = "checked_out"
      BY <1>0, <2>1, <2>4
    <3>4. \A o, q \in Orders :
            (/\ orders'[o].cart = k /\ orders'[q].cart = k
             /\ orders'[o].provider = orders'[q].provider) => o = q
      BY <2>2 DEF SameOrders, SoleOf
    <3> QED
      BY <3>2, <3>3, <3>4 DEF SoleOf
  <2> QED
    BY <2>3, <2>4
<1>4. ASSUME FindItems(h) PROVE SoleOf(k)'
  <2>1. /\ pc[h] = "findItems" /\ ctx[h].op = "checkout"
        /\ ctx[h].made = {} /\ ctx[h].order = None
        /\ carts' = carts /\ torn' = torn
    BY <1>0, <1>4 DEF FindItems, ControlOf, LoopOf, tables, history
  <2>2. \E bag, vs : ctx'[h] = [ctx[h] EXCEPT !.items = bag, !.todo = vs]
    BY <1>0, <1>4 DEF FindItems
  <2>3. ctx'[h].op = ctx[h].op /\ ctx'[h].cart = ctx[h].cart
    BY <1>0, <2>2 DEF Context
  <2>4. SameOrders(k)
    BY <1>0, <1>4, OrdersOfCarts DEF FindItems, SaveContract
  <2>5. CASE k # ctx[h].cart
    BY <1>0, <2>1, <2>3, <2>4, <2>5, SameSole DEF SameLoop, CheckingOut
  <2>6. CASE k = ctx[h].cart
    <3> SUFFICES ASSUME k \notin torn PROVE SoleOf(k)'
      BY <2>1 DEF SoleOf
    <3>1. CheckingOut(h, k) /\ ~HalfDone(h)
      BY <2>1, <2>6 DEF CheckingOut, HalfDone
    <3>2. \A o \in Orders : orders[o].cart # k
      BY <3>1 DEF SoleOf
    <3>3. \A o \in Orders : orders'[o].cart # k
      BY <2>4, <3>2 DEF SameOrders
    <3>4. \A g \in Handlers : CheckingOut(g, k)' => CheckingOut(g, k)
      BY <1>0, <3>1 DEF CheckingOut
    <3> QED
      BY <2>1, <3>3, <3>4 DEF SoleOf
  <2> QED
    BY <2>5, <2>6
<1>5. ASSUME SaveContract(h) PROVE SoleOf(k)'
  <2>1. PICK o \in Orders, v \in ctx[h].todo :
          /\ o \notin OrderIds /\ SetOrder(o, DraftContract(h, v))
          /\ ctx'[h] = [ctx[h] EXCEPT !.order = o, !.todo = ctx[h].todo \ {v}]
    BY <1>0, <1>5 DEF SaveContract, IsNextId
  <2>2. /\ ctx'[h].op = ctx[h].op /\ ctx'[h].cart = ctx[h].cart
        /\ ctx'[h].todo = ctx[h].todo \ {v} /\ ctx'[h].order = o /\ o # None
    BY <1>0, <2>1 DEF Context, Orders, None
  <2>3. /\ orders'[o].cart = ctx[h].cart /\ orders'[o].provider = v
        /\ \A q \in Orders \ {o} : orders'[q] = orders[q]
    BY <1>0, <2>1 DEF SetOrder, DraftContract
  <2>4. /\ carts' = carts /\ torn' = torn /\ ctx[h].op = "checkout"
        /\ SameLoop(h, k)
    <3>1. carts' = carts /\ torn' = torn /\ ctx[h].op = "checkout"
      BY <1>0, <1>5 DEF SaveContract, ControlOf, history
    <3> QED
      BY <2>2, <3>1 DEF SameLoop, CheckingOut, HalfDone
  <2>5. CASE k # ctx[h].cart
    <3>1. SameOrders(k)
      BY <2>3, <2>5 DEF SameOrders
    <3> QED
      BY <1>0, <2>4, <3>1, SameSole
  <2>6. CASE k = ctx[h].cart
    <3> SUFFICES ASSUME k \notin torn PROVE SoleOf(k)'
      BY <2>4 DEF SoleOf
    <3>1. CheckingOut(h, k) /\ carts[k] = "open" /\ \A g \in Handlers : CheckingOut(g, k) => g = h
      BY <2>4, <2>6 DEF CheckingOut, SoleOf
    <3>2. \A q \in Orders : orders[q].cart = k => orders[q].provider \notin ctx[h].todo
      BY <3>1 DEF SoleOf
    <3>3. \A g \in Handlers : CheckingOut(g, k)' <=> g = h
      BY <1>0, <2>2, <3>1 DEF CheckingOut
    <3>4. HalfDone(h)'
      BY <2>2, <2>4 DEF HalfDone
    <3>5. \A q \in Orders : orders'[q].cart = k => orders'[q].provider \notin ctx'[h].todo
      BY <2>2, <2>3, <3>2
    <3>6. \A p, q \in Orders :
            (/\ orders'[p].cart = k /\ orders'[q].cart = k
             /\ orders'[p].provider = orders'[q].provider) => p = q
      BY <2>3, <3>2 DEF SoleOf
    <3>7. carts'[k] = "open"
      BY <2>4, <3>1
    <3> QED
      BY <3>3, <3>4, <3>5, <3>6, <3>7 DEF SoleOf
  <2> QED
    BY <2>5, <2>6
<1>6. CASE /\ ~FindItems(h) /\ ~CloseCart(h) /\ ~SaveContract(h) /\ ~SaveCart(h)
           /\ ~\E p \in Products \cup {None}, x \in Carts : FindCart(h, "checkout", p, x)
  BY <1>0, <1>6, LoopGoesOn, OrdersOfCarts, CartsNow, SameSole
<1>7. CASE \E p \in Products \cup {None}, x \in Carts : FindCart(h, "checkout", p, x)
  BY <1>1, <1>7 DEF FindCart
<1>8. CASE SaveCart(h) /\ ctx[h].op = "checkout"
  <2>1. PICK x \in Carts : UseCart(h, ctx[h].op, ctx[h].product, x)
    BY <1>8 DEF SaveCart
  <2> QED
    BY <1>0, <1>1, <1>8, <2>1 DEF Context
<1> QED
  BY <1>2, <1>3, <1>4, <1>5, <1>6, <1>7, <1>8

-----------------------------------------------------------------------------
(***************************************************************************)
(* The loop of a checkout                                                  *)
(***************************************************************************)
\* A contract stays what it was made for, and billed once it is.
LEMMA ContractedKept ==
  ASSUME TypeOK, Kept, Settled, NEW o \in Orders, NEW k \in Carts, NEW p \in Products, NEW n,
         Contracted(o, k, p, n)
  PROVE  Contracted(o, k, p, n)'
BY DEF Contracted, Kept, Settled

LEMMA CoveredKept ==
  ASSUME TypeOK, Kept, Settled, NEW k \in Carts, NEW p \in Products, NEW n, Covered(k, p, n)
  PROVE  Covered(k, p, n)'
<1>1. PICK o \in Orders : Contracted(o, k, p, n) /\ \E i \in Invoices : invoices[i].order = o
  BY DEF Covered
<1>2. Contracted(o, k, p, n)'
  BY <1>1, ContractedKept
<1>3. \E i \in Invoices : invoices'[i].order = o
  BY <1>1 DEF Kept, Orders, None
<1> QED
  BY <1>2, <1>3 DEF Covered

\* What happens to the items of a cart: only addCartItem changes one, and that is
\* recorded as late if a checkout is past its reading of them.
LEMMA ItemsNow ==
  ASSUME TypeOK, ControlInv, NEW h \in Handlers, Serve(h), Steps(h),
         NEW k \in Carts, NEW p \in Products, <<k, p>> \notin late', CheckoutPast(k)
  PROVE  cartItems'[k][p] = cartItems[k][p] /\ <<k, p>> \notin late
<1>0. cartItems \in [Carts -> Bag] /\ late \subseteq late' /\ ControlOf(h)
  BY DEF TypeOK, ControlInv, Steps, Settled
<1>1. CASE SaveItem(h)
  <2>1. /\ ctx[h].cart \in Carts /\ ctx[h].product \in Products
        /\ late' = IF CheckoutPast(ctx[h].cart) THEN late \cup {<<ctx[h].cart, ctx[h].product>>}
                   ELSE late
    BY <1>0, <1>1 DEF SaveItem, ControlOf
  <2>2. k # ctx[h].cart \/ p # ctx[h].product
    BY <2>1
  <2>3. PICK n : cartItems' = [cartItems EXCEPT ![ctx[h].cart] =
                                [cartItems[ctx[h].cart] EXCEPT ![ctx[h].product] = n]]
    BY <1>1 DEF SaveItem
  <2>4. cartItems[ctx[h].cart] \in [Products -> 0..MaxQty]
    BY <1>0, <2>1 DEF Bag
  <2> QED
    BY <1>0, <2>1, <2>2, <2>3, <2>4
<1>2. CASE ~SaveItem(h)
  <2>1. cartItems' = cartItems
    BY <1>2 DEF Serve, SubmitQuote, SaveQuote, SaveQuoteLines, SelectQuote, SaveComparison,
         SaveCompared, FindCart, FindNoCart, SaveCart, FindItem, FindItems, SaveContract,
         SaveContractLines, CloseCart, SaveConfirmed, SaveCase, CompleteCase, FindLines,
         SaveInvoice, SaveInvoiceLines, Throw, tables
  <2> QED
    BY <1>0, <2>1
<1> QED
  BY <1>1, <1>2

\* A handler in the loop of a checkout has its cart, and is past the reading of it.
LEMMA LoopHasCart ==
  ASSUME ControlInv, NEW g \in Handlers, ctx[g].op = "checkout",
         pc[g] \notin {"saveCart", "findItems"}
  PROVE  ctx[g].cart \in Carts /\ CheckoutPast(ctx[g].cart)
BY DEF ControlInv, ControlOf, CheckoutPast, CheckingOut

\* A step after which the loop stands where it stood keeps what it knows.
LEMMA ItemKept ==
  ASSUME TypeOK, ControlInv, NEW h \in Handlers, Serve(h), Steps(h), NEW g \in Handlers,
         ctx[g].op = "checkout", pc[g] \notin {"saveCart", "findItems"},
         NEW k \in Carts, k = ctx[g].cart, NEW p \in Products, ItemOf(g, k, p),
         ctx'[g].items = ctx[g].items, ctx'[g].todo = ctx[g].todo, ctx'[g].order = ctx[g].order
  PROVE  ItemOf(g, k, p)'
<1>1. <<k, p>> \notin late' => ctx'[g].items[p] = cartItems'[k][p]
  BY ItemsNow, LoopHasCart DEF ItemOf
<1>2. ASSUME NEW n, n = ctx[g].items[p], NEW o, o = ctx[g].order, n > 0,
             ProviderOf[p] \notin ctx[g].todo
      PROVE  (o # None /\ Contracted(o, k, p, n)') \/ Covered(k, p, n)'
  <2>1. o \in Orders \cup {None}
    BY <1>2 DEF TypeOK, Context
  <2>2. (o # None /\ Contracted(o, k, p, n)) \/ Covered(k, p, n)
    BY <1>2 DEF ItemOf
  <2> QED
    BY <2>1, <2>2, ContractedKept, CoveredKept DEF Steps, Moves
<1> QED
  BY <1>1, <1>2 DEF ItemOf, Contracted, Covered

LEMMA OthersLoop ==
  ASSUME TypeOK, ControlInv, NEW h \in Handlers, Serve(h), Steps(h),
         NEW g \in Handlers, g # h, LoopOf(g)
  PROVE  LoopOf(g)'
<1>1. pc'[g] = pc[g] /\ ctx'[g] = ctx[g]
  BY OthersWait
<1>2. ASSUME ctx[g].op = "checkout", pc[g] \notin {"saveCart", "findItems"},
             NEW p \in Products
      PROVE  \A k \in Carts : k = ctx[g].cart => ItemOf(g, k, p)'
  BY <1>1, <1>2, ItemKept DEF LoopOf
<1>3. ctx[g].op = "checkout" /\ pc[g] \notin {"saveCart", "findItems"} => ctx[g].cart \in Carts
  BY LoopHasCart
<1>4. ctx'[g].op = "checkout" /\ pc'[g] \notin {"saveCart", "findItems"} =>
        \A p \in Products : ItemOf(g, ctx[g].cart, p)'
  BY <1>1, <1>2, <1>3
<1> QED
  BY <1>1, <1>4 DEF LoopOf, ItemOf, Contracted, Covered

LEMMA OwnLoop ==
  ASSUME IInv, NEW h \in Handlers, LoopOf(h), Serve(h), Steps(h)
  PROVE  LoopOf(h)'
<1>0. /\ TypeOK /\ ControlInv /\ pc \in [Handlers -> Calls] /\ ctx \in [Handlers -> Context]
      /\ orders \in [Orders -> OrderRow] /\ cartItems \in [Carts -> Bag]
      /\ ctx[h] \in Context /\ ControlOf(h) /\ Kept /\ Settled
  BY DEF IInv, TypeOK, ControlInv, Steps, Moves
<1> USE DEF Goto, Keep
\* The handler leaves, or is not checking out: there is nothing to know.
<1>1. ASSUME pc'[h] = "idle", ctx'[h] = NoContext PROVE LoopOf(h)'
  BY <1>1 DEF LoopOf, NoContext
<1>2. ASSUME pc'[h] \notin {"idle", "saveCart", "findItems", "saveContract", "closeCart"},
             ctx'[h].op # "checkout"
      PROVE  LoopOf(h)'
  BY <1>2 DEF LoopOf
\* The loop stands where it stood.
<1>3. ASSUME pc'[h] \notin {"idle", "saveCart", "findItems", "saveContract", "closeCart"},
             pc[h] \notin {"saveCart", "findItems"},
             ctx'[h].op = ctx[h].op, ctx'[h].cart = ctx[h].cart,
             ctx'[h].items = ctx[h].items, ctx'[h].todo = ctx[h].todo,
             ctx'[h].order = ctx[h].order
      PROVE  LoopOf(h)'
  <2>1. CASE ctx[h].op # "checkout"
    BY <1>2, <1>3, <2>1
  <2>2. CASE ctx[h].op = "checkout"
    <3>1. PICK k \in Carts : k = ctx[h].cart
      BY <1>0, <1>3, <2>2, LoopHasCart
    <3>2. ASSUME NEW p \in Products PROVE ItemOf(h, k, p)'
      <4>1. ItemOf(h, k, p)
        BY <1>3, <2>2, <3>1 DEF LoopOf
      <4> QED
        BY <1>0, <1>3, <2>2, <3>1, <4>1, ItemKept
    <3> QED
      BY <1>3, <3>1, <3>2 DEF LoopOf, ItemOf, Contracted, Covered
  <2> QED
    BY <2>1, <2>2
<1>4. ASSUME SaveQuoteLines(h) \/ SaveItem(h) \/ CloseCart(h) \/ Throw(h) PROVE LoopOf(h)'
  BY <1>0, <1>1, <1>4 DEF SaveQuoteLines, SaveItem, CloseCart, Throw, Leave
<1>5. ASSUME \/ \E r \in Requests, bag \in Bag : SubmitQuote(h, r, bag)
             \/ \E r \in Requests, o \in Orders : SelectQuote(h, r, o)
      PROVE  LoopOf(h)'
  <2>1. /\ pc'[h] \in {"saveQuote", "saveComparison"}
        /\ \/ \E r \in Requests, bag \in Bag :
                ctx'[h] = [NoContext EXCEPT !.op = "submit", !.request = r, !.items = bag]
           \/ \E r \in Requests, o \in Orders :
                ctx'[h] = [NoContext EXCEPT !.op = "select", !.request = r, !.order = o]
    BY <1>0, <1>5 DEF SubmitQuote, SelectQuote
  <2>2. ctx'[h].op \in {"submit", "select"}
    BY <2>1 DEF NoContext
  <2> QED
    BY <1>2, <2>1, <2>2
<1>6. ASSUME SaveQuote(h) PROVE LoopOf(h)'
  <2>1. PICK o \in Orders : ctx'[h] = [ctx[h] EXCEPT !.order = o]
    BY <1>0, <1>6 DEF SaveQuote
  <2>2. ctx'[h].op = ctx[h].op /\ ctx[h].op = "submit" /\ pc'[h] = "saveQuoteLines"
    BY <1>0, <1>6, <2>1 DEF SaveQuote, ControlOf, Context
  <2> QED
    BY <1>2, <2>2
<1>7. ASSUME FindItem(h) PROVE LoopOf(h)'
  <2>1. \E bag : ctx'[h] = [ctx[h] EXCEPT !.items = bag]
    BY <1>0, <1>7 DEF FindItem
  <2>2. ctx'[h].op = ctx[h].op /\ ctx[h].op = "addItem" /\ pc'[h] = "saveItem"
    BY <1>0, <1>7, <2>1 DEF FindItem, ControlOf, Context
  <2> QED
    BY <1>2, <2>2
<1>8. ASSUME \/ SaveComparison(h) \/ SaveCompared(h) \/ SaveContractLines(h)
             \/ SaveConfirmed(h) \/ CompleteCase(h)
      PROVE  LoopOf(h)'
  <2>1. /\ ctx' = ctx
        /\ pc'[h] \in {"saveCompared", "saveConfirmed", "saveCase", "findLines"}
        /\ pc[h] \in {"saveComparison", "saveCompared", "saveContractLines", "saveConfirmed",
                      "completeCase"}
    BY <1>0, <1>8
    DEF SaveComparison, SaveCompared, SaveContractLines, SaveConfirmed, CompleteCase
  <2> QED
    BY <1>3, <2>1
<1>9. ASSUME SaveCase(h) \/ FindLines(h) \/ SaveInvoice(h) PROVE LoopOf(h)'
  <2>1. \/ \E c : ctx'[h] = [ctx[h] EXCEPT !.file = c]
        \/ \E bag : ctx'[h] = [ctx[h] EXCEPT !.lines = bag]
        \/ \E i : ctx'[h] = [ctx[h] EXCEPT !.invoice = i]
    <3>1. SaveCase(h) => \E c : ctx'[h] = [ctx[h] EXCEPT !.file = c]
      BY <1>0 DEF SaveCase
    <3>2. FindLines(h) => \E bag : ctx'[h] = [ctx[h] EXCEPT !.lines = bag]
      BY <1>0 DEF FindLines
    <3>3. SaveInvoice(h) => \E i : ctx'[h] = [ctx[h] EXCEPT !.invoice = i]
      BY <1>0 DEF SaveInvoice
    <3> QED
      BY <1>9, <3>1, <3>2, <3>3
  <2>2. /\ ctx'[h].op = ctx[h].op /\ ctx'[h].cart = ctx[h].cart
        /\ ctx'[h].items = ctx[h].items /\ ctx'[h].todo = ctx[h].todo
        /\ ctx'[h].order = ctx[h].order
    BY <1>0, <2>1 DEF Context
  <2>3. /\ pc'[h] \in {"completeCase", "saveInvoice", "saveInvoiceLines"}
        /\ pc[h] \in {"saveCase", "findLines", "saveInvoice"}
    BY <1>0, <1>9 DEF SaveCase, FindLines, SaveInvoice
  <2> QED
    BY <1>3, <2>2, <2>3
\* The checkout reads its cart: all of it is still to be contracted.
<1>10. ASSUME FindItems(h) PROVE LoopOf(h)'
  <2>1. PICK bag \in Bag :
          /\ bag = cartItems[ctx[h].cart]
          /\ ctx'[h] = [ctx[h] EXCEPT !.items = bag, !.todo = {ProviderOf[p] : p \in InCart(bag)}]
    BY <1>0, <1>10 DEF FindItems, ControlOf
  <2>2. /\ ctx'[h].op = ctx[h].op /\ ctx'[h].cart = ctx[h].cart /\ ctx'[h].order = ctx[h].order
        /\ ctx'[h].items = bag /\ ctx'[h].todo = {ProviderOf[p] : p \in InCart(bag)}
    BY <1>0, <2>1 DEF Context
  <2>3. pc[h] = "findItems" /\ pc'[h] = "saveContract" /\ cartItems' = cartItems
    BY <1>0, <1>10 DEF FindItems, tables
  <2>4. ctx[h].order = None
    BY <2>3 DEF LoopOf
  <2>5. ASSUME NEW k \in Carts, k = ctx[h].cart, NEW p \in Products PROVE ItemOf(h, k, p)'
    BY <2>1, <2>2, <2>3, <2>5 DEF ItemOf, InCart
  <2>6. ctx[h].cart \in Carts
    BY <1>0, <2>3 DEF ControlOf
  <2> QED
    BY <2>2, <2>3, <2>4, <2>5, <2>6 DEF LoopOf, ItemOf, Contracted, Covered
\* A contract is drafted: all that its provider has in the cart is in it.
<1>11. ASSUME SaveContract(h) PROVE LoopOf(h)'
  <2>1. PICK o \in Orders, v \in ctx[h].todo :
          /\ o \notin OrderIds /\ SetOrder(o, DraftContract(h, v))
          /\ ctx'[h] = [ctx[h] EXCEPT !.order = o, !.todo = ctx[h].todo \ {v}]
    BY <1>0, <1>11 DEF SaveContract, IsNextId
  <2>2. /\ ctx'[h].op = ctx[h].op /\ ctx'[h].cart = ctx[h].cart
        /\ ctx'[h].items = ctx[h].items
        /\ ctx'[h].todo = ctx[h].todo \ {v} /\ ctx'[h].order = o /\ o # None
    BY <1>0, <2>1 DEF Context, Orders, None
  <2>3. orders'[o] = DraftContract(h, v)
    BY <1>0, <2>1 DEF SetOrder
  <2>4. /\ pc[h] = "saveContract" /\ pc'[h] = "saveContractLines" /\ cartItems' = cartItems
        /\ late' = late
        /\ ctx[h].op = "checkout" /\ ctx[h].order = None /\ ctx[h].cart \in Carts
    BY <1>0, <1>11 DEF SaveContract, history, LoopOf, ControlOf
  <2>5. ASSUME NEW k \in Carts, k = ctx[h].cart, NEW p \in Products PROVE ItemOf(h, k, p)'
    <3>1. ItemOf(h, k, p)
      BY <2>4, <2>5 DEF LoopOf
    <3>2. ctx[h].items \in Bag
      BY <1>0 DEF Context
    <3>3. ASSUME NEW n, n = ctx[h].items[p], n > 0, ProviderOf[p] \notin ctx'[h].todo
          PROVE  Contracted(o, k, p, n)' \/ Covered(k, p, n)'
      <4>1. ProviderOf[p] = v \/ ProviderOf[p] \notin ctx[h].todo
        BY <2>2, <3>3
      <4>2. CASE ProviderOf[p] = v
        <5>1. PartOf(ctx[h].items, v)[p] = n
          BY <3>3, <4>2 DEF PartOf
        <5> QED
          BY <2>3, <2>5, <4>2, <5>1 DEF Contracted, DraftContract
      <4>3. CASE ProviderOf[p] \notin ctx[h].todo
        <5>1. Covered(k, p, n)
          BY <2>4, <3>1, <3>3, <4>3 DEF ItemOf
        <5> QED
          BY <1>0, <5>1, CoveredKept
      <4> QED
        BY <4>1, <4>2, <4>3
    <3> QED
      BY <2>2, <2>4, <3>1, <3>3 DEF ItemOf, Contracted, Covered
  <2> QED
    BY <2>2, <2>4, <2>5 DEF LoopOf, ItemOf, Contracted, Covered
\* The contract is billed: its items are covered.
<1>12. ASSUME SaveInvoiceLines(h) PROVE LoopOf(h)'
  <2>1. CASE ctx[h].op = "select"
    BY <1>0, <1>1, <1>12, <2>1 DEF SaveInvoiceLines, Leave
  <2>2. CASE ctx[h].op # "select"
    <3>1. /\ ctx'[h] = [ctx[h] EXCEPT !.made = ctx[h].made \cup {ctx[h].order},
                                      !.order = None, !.file = None,
                                      !.invoice = None, !.lines = Empty]
          /\ pc'[h] = IF ctx[h].todo = {} THEN "closeCart" ELSE "saveContract"
          /\ pc[h] = "saveInvoiceLines" /\ cartItems' = cartItems /\ late' = late
      BY <1>0, <1>12, <2>2 DEF SaveInvoiceLines
    <3>2. /\ ctx'[h].op = ctx[h].op /\ ctx'[h].cart = ctx[h].cart
          /\ ctx'[h].items = ctx[h].items /\ ctx'[h].todo = ctx[h].todo
          /\ ctx'[h].order = None
      BY <1>0, <3>1 DEF Context
    <3>3. ctx[h].op = "checkout" /\ ctx[h].cart \in Carts
      BY <1>0, <2>2, <3>1 DEF ControlOf, ContractCalls
    <3>4. InvoiceOf(h) /\ ctx[h].order \in Orders
      BY <1>0, <3>1 DEF IInv, InvoiceInv, ControlOf, ContractCalls
    <3>5. ASSUME NEW k \in Carts, k = ctx[h].cart, NEW p \in Products PROVE ItemOf(h, k, p)'
      <4>1. ItemOf(h, k, p)
        BY <3>1, <3>3, <3>5 DEF LoopOf
      <4>2. ASSUME NEW n, n = ctx[h].items[p], n > 0, ProviderOf[p] \notin ctx[h].todo
            PROVE  Covered(k, p, n)'
        <5>1. Covered(k, p, n)
          BY <3>1, <3>4, <4>1, <4>2 DEF ItemOf, Covered, InvoiceOf
        <5> QED
          BY <1>0, <5>1, CoveredKept
      <4> QED
        BY <3>1, <3>2, <4>1, <4>2 DEF ItemOf, Covered, Contracted
    <3> QED
      BY <3>1, <3>2, <3>3, <3>5 DEF LoopOf, ItemOf, Contracted, Covered
  <2> QED
    BY <2>1, <2>2
\* The handler gets its cart.
<1>13. ASSUME NEW op \in CartOps, NEW p \in Products \cup {None}, NEW x \in Carts,
              UseCart(h, op, p, x)
       PROVE  LoopOf(h)'
  <2>1. /\ pc'[h] = AfterCart[op]
        /\ ctx'[h] = IF op = "getCart" THEN NoContext
                     ELSE [NoContext EXCEPT !.op = op, !.product = p, !.cart = x]
    BY <1>0, <1>13 DEF UseCart
  <2>2. CASE op = "getCart"
    BY <1>1, <2>1, <2>2 DEF AfterCart
  <2>3. CASE op = "addItem"
    BY <1>2, <2>1, <2>3 DEF AfterCart, NoContext
  <2>4. CASE op = "checkout"
    <3>1. pc'[h] = "findItems" /\ ctx'[h].made = {} /\ ctx'[h].order = None
      BY <2>1, <2>4 DEF AfterCart, NoContext
    <3> QED
      BY <3>1 DEF LoopOf
  <2> QED
    BY <2>2, <2>3, <2>4 DEF CartOps
<1>14. ASSUME NEW op \in CartOps, NEW p \in Products \cup {None},
              \/ \E k \in Carts : FindCart(h, op, p, k)
              \/ FindNoCart(h, op, p)
       PROVE  LoopOf(h)'
  <2>1. CASE \E k \in Carts : FindCart(h, op, p, k)
    BY <1>13, <2>1 DEF FindCart
  <2>2. CASE FindNoCart(h, op, p)
    <3>1. pc'[h] = "saveCart" /\ ctx'[h] = [NoContext EXCEPT !.op = op, !.product = p]
      BY <1>0, <2>2 DEF FindNoCart
    <3>2. ctx'[h].made = {} /\ ctx'[h].order = None /\ ctx'[h].cart = None
      BY <3>1 DEF NoContext
    <3> QED
      BY <3>1, <3>2 DEF LoopOf
  <2> QED
    BY <1>14, <2>1, <2>2
<1>15. ASSUME SaveCart(h) PROVE LoopOf(h)'
  <2>1. /\ ctx[h].op \in CartOps /\ ctx[h].product \in Products \cup {None}
        /\ \E x \in Carts : UseCart(h, ctx[h].op, ctx[h].product, x)
    BY <1>0, <1>15 DEF SaveCart, ControlOf, Context
  <2> QED
    BY <1>13, <2>1
<1> QED
  BY <1>4, <1>5, <1>6, <1>7, <1>8, <1>9, <1>10, <1>11, <1>12, <1>14, <1>15 DEF Serve

\* A cart that is closed stays covered; the step that closes one leaves it covered.
LEMMA CoversStep ==
  ASSUME IInv, CheckoutCoversCart, NEW h \in Handlers, LoopOf(h), Serve(h), Steps(h)
  PROVE  CheckoutCoversCart'
<1>0. /\ TypeOK /\ ControlInv /\ ControlOf(h) /\ Kept /\ Settled
      /\ pc \in [Handlers -> Calls] /\ carts \in [Carts -> {"absent", "open", "checked_out"}]
  BY DEF IInv, TypeOK, ControlInv, Steps, Moves
<1>1. ASSUME NEW k \in Carts, NEW p \in Products, NEW n, n = cartItems'[k][p],
             carts'[k] = "checked_out", n > 0, <<k, p>> \notin late'
      PROVE  Covered(k, p, n)'
  <2>1. CASE carts[k] = "checked_out"
    <3>1. cartItems[k][p] = n /\ <<k, p>> \notin late
      BY <1>0, <1>1, <2>1, ItemsNow DEF CheckoutPast
    <3>2. Covered(k, p, n)
      BY <1>1, <2>1, <3>1
      DEF CheckoutCoversCart, Covered, Contracted, Contracts, InvoiceIds
    <3> QED
      BY <1>0, <3>2, CoveredKept
  <2>2. CASE carts[k] # "checked_out"
    <3>1. CloseCart(h) /\ k = ctx[h].cart
      <4>1. CASE SaveCart(h)
        <5>1. PICK y \in Carts : carts' = [carts EXCEPT ![y] = "open"]
          BY <4>1 DEF SaveCart
        <5> QED
          BY <1>0, <1>1, <2>2, <5>1
      <4>2. CASE CloseCart(h)
        BY <1>0, <1>1, <2>2, <4>2 DEF CloseCart
      <4> QED
        BY <1>0, <1>1, <2>2, <4>1, <4>2, CartsNow
    <3>2. /\ pc[h] = "closeCart" /\ ctx[h].op = "checkout"
          /\ cartItems' = cartItems /\ late' = late
      BY <1>0, <3>1 DEF CloseCart, ControlOf
    <3>3. ctx[h].todo = {} /\ ctx[h].order = None /\ ItemOf(h, k, p)
      BY <3>1, <3>2 DEF LoopOf
    <3>4. Covered(k, p, n)
      BY <1>1, <3>2, <3>3 DEF ItemOf
    <3> QED
      BY <1>0, <3>4, CoveredKept
  <2> QED
    BY <2>1, <2>2
<1>2. ASSUME NEW k \in Carts, NEW p \in Products, NEW n, Covered(k, p, n)'
      PROVE  \E o \in Contracts' :
               /\ orders'[o].cart = k /\ orders'[o].provider = ProviderOf[p]
               /\ orders'[o].total[p] = n
               /\ \E i \in InvoiceIds' : invoices'[i].order = o
  BY <1>2 DEF Covered, Contracted, Contracts, InvoiceIds, Orders, None
<1> QED
  BY <1>1, <1>2 DEF CheckoutCoversCart

LEMMA CoverStep ==
  ASSUME IInv, CoverInv, NEW h \in Handlers, Serve(h), Steps(h)
  PROVE  CoverInv'
<1>0. /\ TypeOK /\ ControlInv /\ CheckoutCoversCart /\ orders \in [Orders -> OrderRow]
      /\ \A g \in Handlers : LoopOf(g)
      /\ \A o \in Orders : orders[o].state = "absent" => orders[o].cart = None
  BY DEF IInv, TypeOK, CoverInv
<1>1. CheckoutCoversCart'
  BY <1>0, CoversStep
<1>2. \A g \in Handlers : LoopOf(g)'
  BY <1>0, OthersLoop, OwnLoop
<1>3. ASSUME NEW o \in Orders, orders'[o].state = "absent" PROVE orders'[o].cart = None
  <2>1. orders[o].state = "absent"
    BY <1>3 DEF Steps, Moves, Kept
  <2>2. CASE SaveContract(h)
    <3>1. PICK q \in Orders, v \in ctx[h].todo : SetOrder(q, DraftContract(h, v))
      BY <2>2 DEF SaveContract
    <3>2. o # q
      BY <1>0, <1>3, <3>1 DEF SetOrder, DraftContract
    <3> QED
      BY <1>0, <2>1, <3>1, <3>2 DEF SetOrder
  <2>3. CASE ~SaveContract(h)
    BY <1>0, <2>1, <2>3 DEF Steps, NewOrders
  <2> QED
    BY <2>2, <2>3
<1> QED
  BY <1>1, <1>2, <1>3 DEF CoverInv

LEMMA InitFull == Init => FullInv
<1> SUFFICES ASSUME Init PROVE FullInv
  OBVIOUS
<1>1. /\ \A h \in Handlers : pc[h] = "idle" /\ ctx[h] = NoContext
      /\ \A q \in Orders : orders[q].state = "absent" /\ orders[q].cart = None
      /\ \A k \in Carts : carts[k] = "absent"
      /\ \A i \in Invoices : invoices[i].order = None
      /\ answered = {}
  BY DEF Init
<1>2. BillInv
  BY <1>1 DEF BillInv, AnsweredIsComplete, InvoiceMatchesUnlessHasty, InvoiceIds, LinesOf,
              NoContext, OwnerCalls, ContractCalls
<1>3. SoleInv
  BY <1>1 DEF SoleInv, SoleOf, CheckingOut, NoContext, Carts, None
<1>4. CoverInv
  BY <1>1 DEF CoverInv, CheckoutCoversCart, LoopOf, NoContext
<1> QED
  BY <1>2, <1>3, <1>4, InitIInv DEF FullInv

LEMMA StepFull == FullInv /\ [Next]_vars => FullInv'
<1> SUFFICES ASSUME FullInv, [Next]_vars PROVE FullInv'
  OBVIOUS
<1>0. IInv' /\ IInv /\ BillInv /\ SoleInv /\ CoverInv
  BY StepIInv DEF FullInv
<1>1. CASE UNCHANGED <<orders, carts, cartItems, cases, invoices, pc, ctx,
                       torn, late, hasty, answered>>
  <2>1. BillInv'
    BY <1>0, <1>1 DEF BillInv, AnsweredIsComplete, InvoiceMatchesUnlessHasty, InvoiceIds,
                      LinesOf, Complete, Billed
  <2>2. SoleInv'
    BY <1>0, <1>1 DEF SoleInv, SoleOf, CheckingOut, HalfDone
  <2>3. CoverInv'
    BY <1>0, <1>1 DEF CoverInv, CheckoutCoversCart, Contracts, InvoiceIds, LoopOf, ItemOf,
                      Contracted, Covered
  <2> QED
    BY <1>0, <2>1, <2>2, <2>3 DEF FullInv
<1>2. ASSUME NEW h \in Handlers, Serve(h) PROVE FullInv'
  <2>1. Steps(h)
    BY <1>0, <1>2, StepSteps DEF IInv
  <2>2. BillInv'
    BY <1>0, <1>2, <2>1, BillStep
  <2>3. SoleInv'
    <3>1. LoopOf(h)
      BY <1>0 DEF CoverInv
    <3> QED
      BY <1>0, <1>2, <2>1, <3>1, SoleStep DEF SoleInv
  <2>4. CoverInv'
    BY <1>0, <1>2, <2>1, CoverStep
  <2> QED
    BY <1>0, <2>2, <2>3, <2>4 DEF FullInv
<1>3. ASSUME NEW r \in Requests, CreateQuoteRequest(r)
      PROVE  UNCHANGED <<orders, carts, cartItems, cases, invoices, pc, ctx,
                         torn, late, hasty, answered>>
  BY <1>3 DEF CreateQuoteRequest, history
<1> QED
  BY <1>1, <1>2, <1>3, NextCases DEF vars, tables

\* The inductive invariant of confirmContract and checkout: handlers know the lines they
\* bill, carts have one checkout unless torn, and its loop accounts for every item.
THEOREM FullInvariance == Spec => []FullInv
BY InitFull, StepFull, PTL DEF Spec

\* Whoever is answered with a case has the confirmed order, the case with its party,
\* semaphore and checklist, and the invoice with its lines, wherever handlers fail.
THEOREM AnsweredComplete == Spec => []AnsweredIsComplete
<1>1. FullInv => AnsweredIsComplete
  BY DEF FullInv, BillInv
<1> QED
  BY <1>1, FullInvariance, PTL

\* confirmContract bills the amount of the order; only an order that was selected while
\* its lines were missing can be billed otherwise, and then for nothing.
THEOREM InvoiceMatches == Spec => []InvoiceMatchesUnlessHasty
<1>1. FullInv => InvoiceMatchesUnlessHasty
  BY DEF FullInv, BillInv
<1> QED
  BY <1>1, FullInvariance, PTL

\* A cart that checkout has closed was contracted and billed in full, but for items that
\* were saved after the checkout had read it.
THEOREM CheckoutCovers == Spec => []CheckoutCoversCart
<1>1. FullInv => CheckoutCoversCart
  BY DEF FullInv, CoverInv
<1> QED
  BY <1>1, FullInvariance, PTL

\* checkout makes one contract per provider, unless two of them share the cart or one
\* failed half way and was repeated.
THEOREM OneContractEach == Spec => []OneContractPerProviderUnlessTorn
<1>1. FullInv => OneContractPerProviderUnlessTorn
  <2> SUFFICES ASSUME FullInv, NEW o \in Contracts, NEW q \in Contracts,
                      orders[o].cart # None, orders[o].cart = orders[q].cart,
                      orders[o].provider = orders[q].provider, orders[o].cart \notin torn
               PROVE  o = q
    BY DEF OneContractPerProviderUnlessTorn
  <2>1. o \in Orders /\ q \in Orders
    BY DEF Contracts
  <2>2. orders[o].cart \in Carts
    BY <2>1 DEF FullInv, IInv, TypeOK, OrderRow
  <2> QED
    BY <2>1, <2>2 DEF FullInv, SoleInv, SoleOf
<1> QED
  BY <1>1, FullInvariance, PTL
=============================================================================

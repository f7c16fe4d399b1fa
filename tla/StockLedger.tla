---------------------------- MODULE StockLedger ----------------------------
(***************************************************************************)
(* WarehouseService (src/modules/warehouse/warehouse.service.ts) and       *)
(* WmsService.createReceipt (src/modules/wms/wms.service.ts): receipts     *)
(* against a manifest and picking orders of one case file, the stock_quant *)
(* rows they move goods between, the custody record and the storage period *)
(* a receipt opens.  Quants of different cases never meet.                 *)
(*                                                                         *)
(* As in Contracting, a handler is one HTTP request, every repository call *)
(* that another handler can observe is an action, and no transaction       *)
(* surrounds them.  A receipt whose manifest is not registered for the     *)
(* case is refused before it writes anything, and is left out.             *)
(***************************************************************************)
EXTENDS Integers, Sequences, SequencesExt, FiniteSetsExt

CONSTANTS
  Handlers,            \* requests that may be served at the same time
  Products,            \* product templates
  Places,              \* physical locations of the warehouse
  Supplier, Customer,  \* the external locations EXT-PROV and EXT-CLI
  MaxQty,              \* greatest quantity of a line
  MaxLines,            \* most lines of a dto
  MaxPickings,         \* pickings that a behaviour may try to create
  MayFail              \* whether handlers may die between two awaits

Locations == Places \cup {Supplier, Customer}

ASSUME StockAssumption ==
  /\ Supplier \notin Places /\ Customer \notin Places /\ Supplier # Customer
  /\ MaxQty \in Nat \ {0} /\ MaxLines \in Nat /\ MaxPickings \in Nat
  /\ MayFail \in BOOLEAN

VARIABLES
  quants,     \* stock_quant rows, in the order of their ids; no column is UNIQUE
  pickings,   \* stock_picking rows, each with the stock_move rows it has
  custody,    \* how many agd_wms_custody_record rows are active
  period,     \* how many agd_wms_storage_period rows there are; case_id is UNIQUE
  pc, ctx,    \* the handlers: next repository call, local variables
  raced,      \* history: entries (product, location) two handlers adjusted at once
  contended,  \* history: entries two picking orders, or two lines of one, asked for
  answered    \* history: whether a receipt has been answered with a 201

tables == <<quants, pickings, custody, period>>
vars   == <<tables, pc, ctx, raced, contended, answered>>

Kinds    == {"incoming", "outgoing"}
Line     == [product : Products, place : Places, qty : 1..MaxQty]
Dto      == SeqOf(Line, MaxLines)
Entries  == Products \X Locations
Most     == MaxPickings * MaxLines * MaxQty
QuantRow == [product : Products, location : Locations, quantity : -Most..Most]
PickingRow == [kind   : Kinds,
               lines  : Dto,
               moves  : 0..MaxLines,         \* lines whose stock_move is there
               posted : 0..(2 * MaxLines),   \* not a column: quants adjusted for it
               state  : {"draft", "done"}]

Calls == {"idle", "checkLine", "savePicking", "saveMove", "findQuant", "saveQuant",
          "saveDone", "findCustody", "saveCustody", "findPeriod", "savePeriod"}
Context == [kind    : Kinds,
            lines   : Dto,
            checked : 0..MaxLines,           \* lines found to be available
            picking : 0..MaxPickings,
            row     : Nat,                   \* quant that findOne returned, 0: none
            found   : -Most..Most]           \* its quantity

NoContext == [kind |-> "incoming", lines |-> <<>>, checked |-> 0, picking |-> 0,
              row |-> 0, found |-> 0]

TypeOK ==
  /\ quants \in Seq(QuantRow)
  /\ pickings \in Seq(PickingRow) /\ Len(pickings) <= MaxPickings
  /\ custody \in Nat /\ period \in 0..1
  /\ pc \in [Handlers -> Calls]
  /\ ctx \in [Handlers -> Context]
  /\ raced \subseteq Entries /\ contended \subseteq Entries
  /\ answered \in BOOLEAN

Init ==
  /\ quants = <<>> /\ pickings = <<>> /\ custody = 0 /\ period = 0
  /\ pc = [h \in Handlers |-> "idle"]
  /\ ctx = [h \in Handlers |-> NoContext]
  /\ raced = {} /\ contended = {} /\ answered = FALSE

-----------------------------------------------------------------------------
(***************************************************************************)
(* Handlers and rows                                                       *)
(***************************************************************************)
Goto(h, call) == pc' = [pc EXCEPT ![h] = call]
Keep(h, c)    == ctx' = [ctx EXCEPT ![h] = c]
Leave(h)      == Goto(h, "idle") /\ Keep(h, NoContext)

\* The handler throws, or its process dies: nothing is undone.
Throw(h) == Leave(h) /\ UNCHANGED <<tables, raced, contended, answered>>

Picking(h) == pickings[ctx[h].picking]

\* The rows findOne may return: it has no ORDER BY.
RowsOf(p, l) == {i \in DOMAIN quants : quants[i].product = p /\ quants[i].location = l}

\* executeMove takes line n of a picking out of its source, then into its destination:
\* adjustment 2n - 1 and adjustment 2n.
Adjustments(row) == 1..(2 * Len(row.lines))
LineOf(row, j)   == row.lines[(j + 1) \div 2]
IsTakeOut(j)     == j % 2 = 1

LocationOf(row, j) ==
  IF row.kind = "incoming" THEN IF IsTakeOut(j) THEN Supplier ELSE LineOf(row, j).place
  ELSE IF IsTakeOut(j) THEN LineOf(row, j).place ELSE Customer

EntryOf(row, j) == <<LineOf(row, j).product, LocationOf(row, j)>>

DeltaOf(row, j) == IF IsTakeOut(j) THEN - LineOf(row, j).qty ELSE LineOf(row, j).qty

\* The entry that handler h is about to adjust.
AtEntry(h) == EntryOf(Picking(h), Picking(h).posted + 1)

\* The call after an adjustment, or after the insert of the picking.
AfterPost(row, posted) ==
  IF posted = 2 * Len(row.lines) THEN "saveDone"
  ELSE IF posted % 2 = 0 THEN "saveMove" ELSE "findQuant"

-----------------------------------------------------------------------------
(***************************************************************************)
(* createReceipt and createPickingOrder                                    *)
(***************************************************************************)
Active == {h \in Handlers : pc[h] # "idle"}

StartReceipt(h, lines) ==
  /\ pc[h] = "idle"
  /\ Goto(h, "savePicking")
  /\ Keep(h, [NoContext EXCEPT !.lines = lines])
  /\ UNCHANGED <<tables, raced, contended, answered>>

\* The entries that lines ask for; those that they ask for twice.
Asked(lines)   == {<<lines[i].product, lines[i].place>> : i \in DOMAIN lines}
AskedTwice(lines) ==
  {e \in Asked(lines) : \E i, j \in DOMAIN lines :
     i # j /\ e = <<lines[i].product, lines[i].place>> /\ e = <<lines[j].product, lines[j].place>>}

StartPickingOrder(h, lines) ==
  /\ pc[h] = "idle"
  /\ Goto(h, IF lines = <<>> THEN "savePicking" ELSE "checkLine")
  /\ Keep(h, [NoContext EXCEPT !.kind = "outgoing", !.lines = lines])
  /\ contended' = contended \cup AskedTwice(lines) \cup
       (Asked(lines) \cap UNION {Asked(ctx[g].lines) : g \in
                                  {g \in Active : ctx[g].kind = "outgoing"}})
  /\ UNCHANGED <<tables, raced, answered>>

\* Mutant of Available: the check is off by one.
AvailableButOne(line, i) == i # 0 /\ quants[i].quantity >= line.qty - 1

\* The row that findOne returned holds the quantity of the line.
Available(line, i) == i # 0 /\ quants[i].quantity >= line.qty

\* One turn of the loop that checks each line by itself, before anything is written.
CheckLine(h) ==
  LET n == ctx[h].checked + 1  line == ctx[h].lines[n]
  IN /\ pc[h] = "checkLine"
     /\ \E i \in RowsOf(line.product, line.place) : Available(line, i)
     /\ Goto(h, IF n = Len(ctx[h].lines) THEN "savePicking" ELSE "checkLine")
     /\ Keep(h, [ctx[h] EXCEPT !.checked = n])
     /\ UNCHANGED <<tables, raced, contended, answered>>

\* BadRequestException: there is no such row, or the one found holds too little.
NotAvailable(h) ==
  LET line == ctx[h].lines[ctx[h].checked + 1]
      rows == RowsOf(line.product, line.place)
  IN /\ pc[h] = "checkLine"
     /\ \E i \in IF rows = {} THEN {0} ELSE rows : ~Available(line, i)
     /\ Throw(h)

\* The next reference of the sequence, and the picking in state DRAFT.
SavePicking(h) ==
  LET row == [kind |-> ctx[h].kind, lines |-> ctx[h].lines, moves |-> 0, posted |-> 0,
              state |-> "draft"]
  IN /\ pc[h] = "savePicking"
     /\ Len(pickings) < MaxPickings
     /\ pickings' = Append(pickings, row)
     /\ Keep(h, [ctx[h] EXCEPT !.picking = Len(pickings) + 1])
     /\ Goto(h, AfterPost(row, 0))
     /\ UNCHANGED <<quants, custody, period, raced, contended, answered>>

\* Mutant of SaveDone: createReceipt does not open custody or storage period.
SaveDoneOnly(h) ==
  /\ pc[h] = "saveDone"
  /\ pickings' = [pickings EXCEPT ![ctx[h].picking].state = "done"]
  /\ Leave(h)
  /\ answered' = TRUE
  /\ UNCHANGED <<quants, custody, period, raced, contended>>

\* state DONE; a picking order answers, a receipt goes on with its custody.
SaveDone(h) ==
  /\ pc[h] = "saveDone"
  /\ pickings' = [pickings EXCEPT ![ctx[h].picking].state = "done"]
  /\ IF ctx[h].kind = "outgoing" THEN Leave(h)
     ELSE Goto(h, "findCustody") /\ UNCHANGED ctx
  /\ UNCHANGED <<quants, custody, period, raced, contended, answered>>

-----------------------------------------------------------------------------
(***************************************************************************)
(* executeMove and adjustQuant                                             *)
(***************************************************************************)
\* The stock_move, its lot and its stock_move_line.
SaveMove(h) ==
  /\ pc[h] = "saveMove"
  /\ pickings' = [pickings EXCEPT ![ctx[h].picking].moves = @ + 1]
  /\ Goto(h, "findQuant")
  /\ UNCHANGED <<quants, custody, period, ctx, raced, contended, answered>>

FindQuant(h) ==
  LET e == AtEntry(h)  rows == RowsOf(e[1], e[2])
  IN /\ pc[h] = "findQuant"
     /\ \/ \E i \in rows : Keep(h, [ctx[h] EXCEPT !.row = i, !.found = quants[i].quantity])
        \/ rows = {} /\ Keep(h, [ctx[h] EXCEPT !.row = 0, !.found = 0])
     /\ Goto(h, "saveQuant")
     /\ UNCHANGED <<tables, raced, contended, answered>>

\* Mutant of SaveQuant: a row is inserted with no sign.
SaveQuantUnsigned(h) ==
  LET row == Picking(h)  j == row.posted + 1  e == AtEntry(h)
  IN /\ pc[h] = "saveQuant"
     /\ quants' = IF ctx[h].row = 0
                  THEN Append(quants, [product |-> e[1], location |-> e[2],
                                       quantity |-> LineOf(row, j).qty])
                  ELSE [quants EXCEPT ![ctx[h].row].quantity = ctx[h].found + DeltaOf(row, j)]
     /\ pickings' = [pickings EXCEPT ![ctx[h].picking].posted = j]
     /\ Goto(h, AfterPost(row, j))
     /\ raced' = IF \E g \in Handlers \ {h} : pc[g] = "saveQuant" /\ AtEntry(g) = e
                 THEN raced \cup {e} ELSE raced
     /\ UNCHANGED <<custody, period, ctx, contended, answered>>

\* Mutant of SaveQuant: the state is set to DONE before the goods reach their destination.
SaveQuantHalf(h) ==
  LET row == Picking(h)  j == row.posted + 1  e == AtEntry(h)
  IN /\ pc[h] = "saveQuant"
     /\ quants' = IF ctx[h].row = 0
                  THEN Append(quants, [product |-> e[1], location |-> e[2],
                                       quantity |-> DeltaOf(row, j)])
                  ELSE [quants EXCEPT ![ctx[h].row].quantity = ctx[h].found + DeltaOf(row, j)]
     /\ pickings' = [pickings EXCEPT ![ctx[h].picking].posted = j]
     /\ Goto(h, IF j + 1 = 2 * Len(row.lines) THEN "saveDone" ELSE AfterPost(row, j))
     /\ raced' = IF \E g \in Handlers \ {h} : pc[g] = "saveQuant" /\ AtEntry(g) = e
                 THEN raced \cup {e} ELSE raced
     /\ UNCHANGED <<custody, period, ctx, contended, answered>>

\* save(): the row found, with the quantity it had then plus the delta, or a new row;
\* nothing keeps a second row of the entry out.
SaveQuant(h) ==
  LET row == Picking(h)  j == row.posted + 1  e == AtEntry(h)
  IN /\ pc[h] = "saveQuant"
     /\ quants' = IF ctx[h].row = 0
                  THEN Append(quants, [product |-> e[1], location |-> e[2],
                                       quantity |-> DeltaOf(row, j)])
                  ELSE [quants EXCEPT ![ctx[h].row].quantity = ctx[h].found + DeltaOf(row, j)]
     /\ pickings' = [pickings EXCEPT ![ctx[h].picking].posted = j]
     /\ Goto(h, AfterPost(row, j))
     /\ raced' = IF \E g \in Handlers \ {h} : pc[g] = "saveQuant" /\ AtEntry(g) = e
                 THEN raced \cup {e} ELSE raced
     /\ UNCHANGED <<custody, period, ctx, contended, answered>>

-----------------------------------------------------------------------------
(***************************************************************************)
(* Custody and storage period                                              *)
(***************************************************************************)
FindCustody(h) ==
  /\ pc[h] = "findCustody"
  /\ Goto(h, IF custody = 0 THEN "saveCustody" ELSE "findPeriod")
  /\ UNCHANGED <<tables, ctx, raced, contended, answered>>

SaveCustody(h) ==
  /\ pc[h] = "saveCustody"
  /\ ctx[h].lines # <<>>
  /\ custody' = custody + 1
  /\ Goto(h, "findPeriod")
  /\ UNCHANGED <<quants, pickings, period, ctx, raced, contended, answered>>

\* dto.lines[0].destLocationId of a receipt without lines: TypeError.
NoFirstLine(h) ==
  /\ pc[h] = "saveCustody"
  /\ ctx[h].lines = <<>>
  /\ Throw(h)

\* The answer of a receipt.
Answer(h) == Leave(h) /\ answered' = TRUE

FindPeriod(h) ==
  /\ pc[h] = "findPeriod"
  /\ IF period = 0 THEN Goto(h, "savePeriod") /\ UNCHANGED <<ctx, answered>>
     ELSE Answer(h)
  /\ UNCHANGED <<tables, raced, contended>>

\* Mutant of SavePeriod: case_id is not UNIQUE.
SavePeriodAgain(h) ==
  /\ pc[h] = "savePeriod"
  /\ period' = period + 1
  /\ Answer(h)
  /\ UNCHANGED <<quants, pickings, custody, raced, contended>>

\* The insert of the storage period: case_id is UNIQUE.
SavePeriod(h) ==
  /\ pc[h] = "savePeriod"
  /\ period = 0
  /\ period' = 1
  /\ Answer(h)
  /\ UNCHANGED <<quants, pickings, custody, raced, contended>>

PeriodTaken(h) == pc[h] = "savePeriod" /\ period = 1 /\ Throw(h)

-----------------------------------------------------------------------------
\* Bound: an insert into stock_picking after its last id throws.
IdsUsedUp(h) == pc[h] = "savePicking" /\ Len(pickings) = MaxPickings /\ Throw(h)

Fail(h) == MayFail /\ pc[h] # "idle" /\ Throw(h)

Continue(h) ==
  \/ CheckLine(h) \/ NotAvailable(h) \/ SavePicking(h) \/ SaveMove(h)
  \/ FindQuant(h) \/ SaveQuant(h) \/ SaveDone(h)
  \/ FindCustody(h) \/ SaveCustody(h) \/ NoFirstLine(h)
  \/ FindPeriod(h) \/ SavePeriod(h) \/ PeriodTaken(h) \/ IdsUsedUp(h)

Next == \E h \in Handlers :
  \/ \E lines \in Dto : StartReceipt(h, lines) \/ StartPickingOrder(h, lines)
  \/ Continue(h)
  \/ Fail(h)

Spec == Init /\ [][Next]_vars

-----------------------------------------------------------------------------
(***************************************************************************)
(* Properties                                                              *)
(***************************************************************************)
\* What the quants say is at an entry, and what the pickings' adjustments say.
Balance(e) == MapThenSumSet(LAMBDA i : quants[i].quantity, RowsOf(e[1], e[2]))

PostedBy(row, e) ==
  MapThenSumSet(LAMBDA j : DeltaOf(row, j), {j \in 1..row.posted : EntryOf(row, j) = e})

Posted(e) == MapThenSumSet(LAMBDA k : PostedBy(pickings[k], e), DOMAIN pickings)

\* Double entry: at every entry the quants hold exactly what the moves brought less what
\* they took, whatever failed half way; only adjustments that overlapped can break it.
LedgerExact == \A e \in Entries \ raced : Balance(e) = Posted(e)

\* A physical location never goes below zero, unless two picking orders, or two lines of
\* one, asked for the same goods at once, or adjustments overlapped.
NeverNegativeUnlessContended ==
  \A e \in (Products \X Places) \ (raced \cup contended) : Balance(e) >= 0

\* A picking in state DONE has all its moves and both adjustments of each.
DoneIsPosted ==
  \A k \in DOMAIN pickings :
    pickings[k].state = "done" => /\ pickings[k].moves = Len(pickings[k].lines)
                                  /\ pickings[k].posted = 2 * Len(pickings[k].lines)

\* Whoever got an answer to a receipt has the goods in custody and within one period.
AnsweredIsInCustody == answered => custody > 0 /\ period = 1

\* README, Fase 7: only the external locations may go below zero.
OnlyExternalNegative == \A e \in Products \X Places : Balance(e) >= 0
=============================================================================

------------------------- MODULE StockLedgerProofs --------------------------
(***************************************************************************)
(* Proofs about StockLedger.                                               *)
(*                                                                         *)
(* Double entry, LedgerExact, is inductive only together with what a       *)
(* request knows when it is about to save a quant: that the row it found   *)
(* is still the only row of the entry and still holds what was read        *)
(* (FoundInv, OneRow), unless another adjustment of the entry overlapped.  *)
(* That no quantity outgrows its column needs a bound that follows the     *)
(* moves made so far (BoundInv).  That no place goes below zero needs the  *)
(* stock that each checked line of a picking order has still to take       *)
(* (CoveredInv), and that no two orders count on the same goods            *)
(* (AskedInv).                                                             *)
(*                                                                         *)
(* Balance and Posted are sums over the rows; the first section proves     *)
(* what the sum of the community modules does when one element is added,   *)
(* removed or changed.                                                     *)
(***************************************************************************)
EXTENDS StockLedger, FiniteSetTheorems, SequenceTheorems, TLAPS

-----------------------------------------------------------------------------
(***************************************************************************)
(* Sums over finite sets.  The library states its induction theorems for   *)
(* an operator P(_); the proofs here argue by a smallest counterexample,   *)
(* which is a set.                                                         *)
(***************************************************************************)
\* Of a set of subsets of a finite set, some member has no other member below it.
LEMMA Smallest ==
  ASSUME NEW S, IsFiniteSet(S), NEW B, B \subseteq SUBSET S, B # {}
  PROVE  \E T \in B : \A U \in B : U \subseteq T => U = T
<1>1. IsWellFoundedOn(StrictSubsetOrdering(S), SUBSET S)
  BY FS_StrictSubsetOrderingWellFounded, FS_FiniteSubsetsOfFinite
<1>2. \E T \in B : \A U \in B : ~ (<<U, T>> \in StrictSubsetOrdering(S))
  BY <1>1, WFMin
<1> QED
  BY <1>2 DEF StrictSubsetOrdering

\* The element a fold takes first, and the function a fold over S is defined by.
First(s) == CHOOSE x \in s : TRUE
IsFold(f, S, g) ==
  g = [s \in SUBSET S |-> IF s = {} THEN 0 ELSE f[First(s)] + g[s \ {First(s)}]]
Sum(f, S) == MapThenSumSet(LAMBDA x : f[x], S)

LEMMA FirstIn == ASSUME NEW s, s # {} PROVE First(s) \in s
  BY Zenon DEF First

LEMMA FoldValue ==
  ASSUME NEW f, NEW S, NEW g, IsFold(f, S, g), NEW s \in SUBSET S
  PROVE  /\ s = {} => g[s] = 0
         /\ s # {} => g[s] = f[First(s)] + g[s \ {First(s)}]
<1> DEFINE v(t) == IF t = {} THEN 0 ELSE f[First(t)] + g[t \ {First(t)}]
<1>1. g = [t \in SUBSET S |-> v(t)]
  BY DEF IsFold
<1>2. g[s] = v(s)
  <2> HIDE DEF v
  <2> QED BY <1>1
<1> QED
  BY <1>2

\* Two folds agree wherever both are defined.
LEMMA FoldsAgree ==
  ASSUME NEW f, NEW S, NEW T, NEW g, NEW h, IsFold(f, S, g), IsFold(f, T, h),
         NEW U, U \subseteq S, U \subseteq T, IsFiniteSet(U)
  PROVE  g[U] = h[U]
<1> DEFINE B == {s \in SUBSET U : g[s] # h[s]}
<1>1. SUFFICES ASSUME B # {} PROVE FALSE
  OBVIOUS
<1>2. PICK s \in B : \A r \in B : r \subseteq s => r = s
  <2> B \subseteq SUBSET U
    OBVIOUS
  <2> HIDE DEF B
  <2> QED BY <1>1, Smallest
<1>3. s \in SUBSET S /\ s \in SUBSET T /\ g[s] # h[s]
  OBVIOUS
<1>4. s # {}
  BY <1>3, FoldValue
<1>5. First(s) \in s
  BY <1>4, FirstIn
<1>6. s \ {First(s)} \notin B
  BY <1>2, <1>5
<1>7. g[s \ {First(s)}] = h[s \ {First(s)}]
  BY <1>6
<1> QED
  BY <1>3, <1>4, <1>7, FoldValue

\* There is a fold over every finite set.
LEMMA FoldExists ==
  ASSUME NEW f, NEW S, IsFiniteSet(S)
  PROVE  \E g : IsFold(f, S, g)
<1> DEFINE B == {s \in SUBSET S : ~ \E g : IsFold(f, s, g)}
<1>1. SUFFICES ASSUME B # {} PROVE FALSE
  OBVIOUS
<1>2. PICK s \in B : \A r \in B : r \subseteq s => r = s
  <2> B \subseteq SUBSET S
    OBVIOUS
  <2> HIDE DEF B
  <2> QED BY <1>1, Smallest
<1>3. \A r \in SUBSET s : r # s => \E g : IsFold(f, r, g)
  BY <1>2
<1> DEFINE Fold(r) == CHOOSE g : IsFold(f, r, g)
           below(r) == r \ {First(r)}
           F == [r \in SUBSET s |-> IF r = {} THEN 0 ELSE f[First(r)] + Fold(below(r))[below(r)]]
<1>4. \A r \in SUBSET s : r # s => IsFold(f, r, Fold(r))
  BY <1>3
<1>5. \A r \in SUBSET s : r # {} => F[below(r)] = Fold(below(r))[below(r)]
  <2> SUFFICES ASSUME NEW r \in SUBSET s, r # {}
               PROVE  F[below(r)] = Fold(below(r))[below(r)]
    OBVIOUS
  <2> DEFINE q == below(r)
  <2>1. First(r) \in r
    BY FirstIn
  <2>2. q \in SUBSET s /\ q # s /\ q \subseteq q
    BY <2>1
  <2>3. IsFold(f, q, Fold(q))
    BY <2>2, <1>4
  <2>4. CASE q = {}
    <3>1. Fold(q)[q] = 0
      BY <2>3, <2>2, <2>4, FoldValue
    <3>2. F[q] = 0
      BY <2>2, <2>4
    <3> QED BY <3>1, <3>2
  <2>5. CASE q # {}
    <3> DEFINE p == below(q)
    <3>1. First(q) \in q
      BY <2>5, FirstIn
    <3>2. p \in SUBSET s /\ p # s /\ p \subseteq q /\ p \subseteq p
      BY <3>1, <2>2
    <3>3. IsFold(f, p, Fold(p))
      BY <3>2, <1>4
    <3>4. IsFiniteSet(p)
      <4>1. p \subseteq S
        BY <3>2
      <4> QED BY <4>1, FS_Subset
    <3> HIDE DEF p, Fold
    <3>5. Fold(q)[p] = Fold(p)[p]
      BY <2>3, <3>2, <3>3, <3>4, FoldsAgree
    <3> HIDE DEF q
    <3>6. Fold(q)[q] = f[First(q)] + Fold(q)[q \ {First(q)}]
      BY <2>3, <2>5, <2>2, FoldValue
    <3>7. F[q] = f[First(q)] + Fold(p)[p]
      BY <2>2, <2>5 DEF p
    <3> QED BY <3>5, <3>6, <3>7 DEF p, q
  <2> QED BY <2>4, <2>5
<1>6. IsFold(f, s, F)
  <2>1. F = [r \in SUBSET s |-> IF r = {} THEN 0 ELSE f[First(r)] + F[below(r)]]
    <3> HIDE DEF Fold, below
    <3> QED BY <1>5
  <2> QED BY <2>1 DEF IsFold
<1> QED
  BY <1>6, <1>2

\* Whatever fold one takes, its value at S is the sum over S.
LEMMA SumIsFold ==
  ASSUME NEW f, NEW S, IsFiniteSet(S), NEW T, S \subseteq T, NEW g, IsFold(f, T, g)
  PROVE  g[S] = Sum(f, S)
<1>1. Sum(f, S) = (CHOOSE h : IsFold(f, S, h))[S]
  BY Zenon DEF Sum, MapThenSumSet, MapThenFoldSet, IsFold, First
<1>2. IsFold(f, S, CHOOSE h : IsFold(f, S, h))
  BY FoldExists
<1> QED
  BY <1>1, <1>2, FoldsAgree

LEMMA SumFirst ==
  ASSUME NEW f, NEW S, IsFiniteSet(S)
  PROVE  /\ S = {} => Sum(f, S) = 0
         /\ S # {} => Sum(f, S) = f[First(S)] + Sum(f, S \ {First(S)})
<1>1. PICK g : IsFold(f, S, g)
  BY FoldExists
<1>2. g[S] = Sum(f, S)
  BY <1>1, SumIsFold
<1>3. IsFiniteSet(S \ {First(S)})
  BY FS_RemoveElement
<1>4. g[S \ {First(S)}] = Sum(f, S \ {First(S)})
  BY <1>1, <1>3, SumIsFold
<1>5. S \in SUBSET S
  OBVIOUS
<1>6. /\ S = {} => g[S] = 0
      /\ S # {} => g[S] = f[First(S)] + g[S \ {First(S)}]
  BY <1>1, <1>5, FoldValue
<1> QED
  BY <1>2, <1>4, <1>6

LEMMA SumEmpty == \A f : Sum(f, {}) = 0
  BY SumFirst, FS_EmptySet

LEMMA SumInt ==
  ASSUME NEW S, IsFiniteSet(S), NEW f, \A x \in S : f[x] \in Int
  PROVE  Sum(f, S) \in Int
<1> DEFINE B == {s \in SUBSET S : Sum(f, s) \notin Int}
<1>1. SUFFICES ASSUME B # {} PROVE FALSE
  OBVIOUS
<1>2. PICK s \in B : \A r \in B : r \subseteq s => r = s
  <2> B \subseteq SUBSET S
    OBVIOUS
  <2> HIDE DEF B
  <2> QED BY <1>1, Smallest
<1>3. IsFiniteSet(s) /\ s \subseteq S /\ Sum(f, s) \notin Int
  BY <1>2, FS_Subset
<1>4. s # {}
  BY <1>3, SumEmpty
<1>5. First(s) \in s
  BY <1>4, FirstIn
<1>6. Sum(f, s \ {First(s)}) \in Int
  BY <1>2, <1>5
<1>7. f[First(s)] \in Int
  BY <1>5, <1>3
<1> QED
  BY <1>3, <1>4, <1>6, <1>7, SumFirst

\* A sum does not depend on the order in which a fold takes the elements.
LEMMA SumRemove ==
  ASSUME NEW S, IsFiniteSet(S), NEW f, \A x \in S : f[x] \in Int, NEW x \in S
  PROVE  Sum(f, S) = f[x] + Sum(f, S \ {x})
<1> DEFINE B == {s \in SUBSET S : \E y \in s : Sum(f, s) # f[y] + Sum(f, s \ {y})}
<1>1. SUFFICES ASSUME B # {} PROVE FALSE
  OBVIOUS
<1>2. PICK s \in B : \A r \in B : r \subseteq s => r = s
  <2> B \subseteq SUBSET S
    OBVIOUS
  <2> HIDE DEF B
  <2> QED BY <1>1, Smallest
<1>3. PICK y \in s : Sum(f, s) # f[y] + Sum(f, s \ {y})
  OBVIOUS
<1>4. \A r \in SUBSET s : r # s => \A z \in r : Sum(f, r) = f[z] + Sum(f, r \ {z})
  BY <1>2
<1>5. \A r \in SUBSET s : /\ IsFiniteSet(r)
                          /\ Sum(f, r) \in Int
                          /\ r # {} => First(r) \in r
  <2> SUFFICES ASSUME NEW r \in SUBSET s
               PROVE  IsFiniteSet(r) /\ Sum(f, r) \in Int /\ (r # {} => First(r) \in r)
    OBVIOUS
  <2>1. r \in SUBSET S
    OBVIOUS
  <2>2. IsFiniteSet(r)
    BY <2>1, FS_Subset
  <2>3. \A z \in r : f[z] \in Int
    BY <2>1
  <2> QED BY <2>2, <2>3, SumInt, FirstIn
<1> DEFINE z == First(s)
<1>6. z \in s
  BY <1>5, <1>3
<1>7. Sum(f, s) = f[z] + Sum(f, s \ {z})
  BY <1>5, <1>6, SumFirst
<1>8. y # z
  BY <1>3, <1>7
<1> HIDE DEF z
<1>9. Sum(f, s \ {z}) = f[y] + Sum(f, (s \ {z}) \ {y})
  BY <1>4, <1>6, <1>8, s \ {z} # s, y \in s \ {z}
<1>10. Sum(f, s \ {y}) = f[z] + Sum(f, (s \ {y}) \ {z})
  BY <1>4, <1>6, <1>8, s \ {y} # s, z \in s \ {y}
<1>11. (s \ {z}) \ {y} = (s \ {y}) \ {z}
  OBVIOUS
<1>12. f[z] \in Int /\ f[y] \in Int /\ Sum(f, (s \ {y}) \ {z}) \in Int
  BY <1>5, <1>6
<1>13. \A a, b, c \in Int : a + (b + c) = b + (a + c)
  OBVIOUS
<1>14. f[z] + (f[y] + Sum(f, (s \ {y}) \ {z})) = f[y] + (f[z] + Sum(f, (s \ {y}) \ {z}))
  BY <1>12, <1>13
<1>15. Sum(f, s) = f[y] + Sum(f, s \ {y})
  BY Zenon, <1>7, <1>9, <1>10, <1>11, <1>14
<1> QED
  BY <1>3, <1>15

LEMMA SumAdd ==
  ASSUME NEW S, IsFiniteSet(S), NEW x, x \notin S, NEW f, \A y \in S \cup {x} : f[y] \in Int
  PROVE  Sum(f, S \cup {x}) = Sum(f, S) + f[x]
<1>1. IsFiniteSet(S \cup {x})
  BY FS_AddElement
<1>2. (S \cup {x}) \ {x} = S
  OBVIOUS
<1>3. Sum(f, S) \in Int /\ f[x] \in Int
  BY SumInt
<1>4. Sum(f, S \cup {x}) = f[x] + Sum(f, (S \cup {x}) \ {x})
  BY <1>1, SumRemove
<1>5. \A a, b \in Int : a + b = b + a
  OBVIOUS
<1>6. f[x] + Sum(f, S) = Sum(f, S) + f[x]
  BY <1>3, <1>5
<1> QED
  BY Zenon, <1>2, <1>4, <1>6

\* A sum depends only on the values of the function over the set.
LEMMA SumSame ==
  ASSUME NEW S, IsFiniteSet(S), NEW f, NEW g, \A x \in S : f[x] = g[x]
  PROVE  Sum(f, S) = Sum(g, S)
<1> DEFINE B == {s \in SUBSET S : Sum(f, s) # Sum(g, s)}
<1>1. SUFFICES ASSUME B # {} PROVE FALSE
  OBVIOUS
<1>2. PICK s \in B : \A r \in B : r \subseteq s => r = s
  <2> B \subseteq SUBSET S
    OBVIOUS
  <2> HIDE DEF B
  <2> QED BY <1>1, Smallest
<1>3. IsFiniteSet(s) /\ s \subseteq S /\ Sum(f, s) # Sum(g, s)
  BY <1>2, FS_Subset
<1>4. s # {}
  BY <1>3, SumEmpty
<1>5. First(s) \in s
  BY <1>4, FirstIn
<1>6. Sum(f, s \ {First(s)}) = Sum(g, s \ {First(s)})
  BY <1>2, <1>5
<1>7. f[First(s)] = g[First(s)]
  BY <1>5, <1>3
<1> QED
  BY <1>3, <1>4, <1>6, <1>7, SumFirst

\* One value changes.
LEMMA SumChange ==
  ASSUME NEW S, IsFiniteSet(S), NEW x \in S, NEW f, NEW g, NEW d \in Int,
         \A y \in S : f[y] \in Int, g[x] = f[x] + d, \A y \in S \ {x} : g[y] = f[y]
  PROVE  Sum(g, S) = Sum(f, S) + d
<1>1. \A y \in S : g[y] \in Int
  <2> SUFFICES ASSUME NEW y \in S PROVE g[y] \in Int
    OBVIOUS
  <2> QED BY y = x \/ y \in S \ {x}
<1>2. IsFiniteSet(S \ {x})
  BY FS_RemoveElement
<1>3. Sum(f, S \ {x}) = Sum(g, S \ {x})
  BY <1>2, SumSame
<1>4. Sum(f, S \ {x}) \in Int
  BY <1>2, SumInt
<1>5. Sum(f, S) = f[x] + Sum(f, S \ {x})
  BY SumRemove
<1>6. Sum(g, S) = g[x] + Sum(g, S \ {x})
  BY <1>1, SumRemove
<1>7. f[x] \in Int
  OBVIOUS
<1> QED
  BY <1>3, <1>4, <1>5, <1>6, <1>7

-----------------------------------------------------------------------------
(***************************************************************************)
(* The inductive invariant                                                 *)
(***************************************************************************)
Settling == {"findCustody", "saveCustody", "findPeriod", "savePeriod"}
Carrying == {"saveMove", "findQuant", "saveQuant", "saveDone"} \cup Settling

EntryFor(line) == <<line.product, line.place>>

\* What a request holds in its variables at each call.
Held(call, c) ==
  /\ call = "idle" => c = NoContext
  /\ call \in {"checkLine", "savePicking"} => c.picking = 0
  /\ call = "checkLine" => c.kind = "outgoing" /\ c.checked < Len(c.lines)
  /\ call \in Carrying \cup {"savePicking"} /\ c.kind = "outgoing" =>
       c.checked = Len(c.lines)
  /\ call \in Settling => c.kind = "incoming"

\* How far the picking of a request has come at each call.
Carried(call, row, c) ==
  /\ row.lines = c.lines /\ row.kind = c.kind
  /\ call \notin Settling => row.state = "draft"
  /\ call = "saveMove" => row.moves < Len(row.lines) /\ row.posted = 2 * row.moves
  /\ call \in {"findQuant", "saveQuant"} =>
       /\ row.moves \in 1..Len(row.lines)
       /\ row.posted = 2 * row.moves - 2 \/ row.posted = 2 * row.moves - 1
  /\ call = "saveDone" => row.moves = Len(row.lines) /\ row.posted = 2 * Len(row.lines)

HeldInv == \A h \in Handlers : Held(pc[h], ctx[h])

CarriedInv ==
  \A h \in Handlers : pc[h] \in Carrying =>
    ctx[h].picking \in DOMAIN pickings /\ Carried(pc[h], Picking(h), ctx[h])

\* No two requests work on the same picking.
OwnPickings ==
  \A g, h \in Handlers : g # h /\ ctx[g].picking = ctx[h].picking => ctx[g].picking = 0

PickingsInv == \A k \in DOMAIN pickings : pickings[k].posted <= 2 * Len(pickings[k].lines)

CustodyInv == \A h \in Handlers : pc[h] \in {"findPeriod", "savePeriod"} => custody > 0

\* The lines of pickings ps that have moved goods into or out of entry e, and how much
\* they can have moved.
Hits(ps, e) ==
  {x \in (1..MaxPickings) \X (1..MaxLines) :
     /\ x[1] \in DOMAIN ps
     /\ \E j \in {2 * x[2] - 1, 2 * x[2]} : j <= ps[x[1]].posted /\ EntryOf(ps[x[1]], j) = e}
Reach(ps, e) == MaxQty * Cardinality(Hits(ps, e))

QuantEntry(r) == <<r.product, r.location>>
RowsIn(q, e) == {i \in DOMAIN q : q[i].product = e[1] /\ q[i].location = e[2]}
NextEntry(ps, c) == EntryOf(ps[c.picking], ps[c.picking].posted + 1)

\* Of the quants q: no row has moved out of the reach of its entry.
RowsWithin(q, ps) ==
  \A i \in DOMAIN q : LET r == Reach(ps, QuantEntry(q[i]))
                      IN -r <= q[i].quantity /\ q[i].quantity <= r

FoundWithin(c, ps) == LET r == Reach(ps, NextEntry(ps, c)) IN -r <= c.found /\ c.found <= r

BoundInv ==
  /\ RowsWithin(quants, pickings)
  /\ \A h \in Handlers : pc[h] = "saveQuant" => FoundWithin(ctx[h], pickings)

\* The row that findOne returned is a row of the entry; it still holds what was read
\* unless adjustments of the entry overlapped.
Found(c, e, q, races) ==
  /\ c.row = 0 \/ c.row \in RowsIn(q, e)
  /\ e \notin races => \/ c.row = 0 /\ RowsIn(q, e) = {}
                       \/ c.row # 0 /\ q[c.row].quantity = c.found

FoundInv ==
  \A h \in Handlers : pc[h] = "saveQuant" =>
    Found(ctx[h], NextEntry(pickings, ctx[h]), quants, raced)

OneRow == \A e \in Entries \ raced : \A i, j \in RowsIn(quants, e) : i = j

\* The goods that the lines of active picking orders ask for.
AskedInv ==
  /\ \A h \in Handlers : ctx[h].kind = "outgoing" => AskedTwice(ctx[h].lines) \subseteq contended
  /\ \A g, h \in Handlers :
       g # h /\ ctx[g].kind = "outgoing" /\ ctx[h].kind = "outgoing" =>
         Asked(ctx[g].lines) \cap Asked(ctx[h].lines) \subseteq contended

\* A row of entry e holds at least quantity n.
Stocked(q, e, n) == \E i \in RowsIn(q, e) : q[i].quantity >= n

\* The goods of line n are still to be taken.
Untaken(c, n, ps) == c.picking = 0 \/ ps[c.picking].posted < 2 * n - 1

\* What was found to be available stays there until it is taken.
CoveredInv ==
  \A h \in Handlers : ctx[h].kind = "outgoing" =>
    \A n \in 1..ctx[h].checked :
      LET e == EntryFor(ctx[h].lines[n])
      IN Untaken(ctx[h], n, pickings) /\ e \notin raced /\ e \notin contended
         => Stocked(quants, e, ctx[h].lines[n].qty)

RowsNotNegative ==
  \A e \in (Products \X Places) \ (raced \cup contended) :
    \A i \in RowsIn(quants, e) : quants[i].quantity >= 0
-----------------------------------------------------------------------------
(***************************************************************************)
(* The two sides of the ledger, as sums of functions                       *)
(***************************************************************************)
QuantSum(q, S)  == MapThenSumSet(LAMBDA i : q[i].quantity, S)
BalanceIn(q, e) == QuantSum(q, RowsIn(q, e))
PostedIn(ps, e) == MapThenSumSet(LAMBDA k : PostedBy(ps[k], e), DOMAIN ps)
AdjustmentsAt(row, e) == {j \in 1..row.posted : EntryOf(row, j) = e}

LEMMA LedgerSides ==
  \A e : /\ RowsOf(e[1], e[2]) = RowsIn(quants, e)
         /\ Balance(e) = BalanceIn(quants, e)
         /\ Posted(e) = PostedIn(pickings, e)
<1> SUFFICES ASSUME NEW e
             PROVE  /\ RowsOf(e[1], e[2]) = RowsIn(quants, e)
                    /\ Balance(e) = BalanceIn(quants, e)
                    /\ Posted(e) = PostedIn(pickings, e)
  OBVIOUS
<1>1. RowsOf(e[1], e[2]) = RowsIn(quants, e)
  BY DEF RowsOf, RowsIn
<1>2. Balance(e) = BalanceIn(quants, e)
  BY Zenon, <1>1 DEF Balance, BalanceIn, QuantSum
<1>3. Posted(e) = PostedIn(pickings, e)
  BY Zenon DEF Posted, PostedIn
<1> QED
  BY <1>1, <1>2, <1>3

LEMMA QuantSumIsSum ==
  ASSUME NEW q, NEW S, IsFiniteSet(S)
  PROVE  QuantSum(q, S) = Sum([i \in S |-> q[i].quantity], S)
<1> DEFINE f == [i \in S |-> q[i].quantity]
           Eq(g) == g = [s \in SUBSET S |->
                           IF s = {} THEN 0 ELSE q[First(s)].quantity + g[s \ {First(s)}]]
<1>1. \A g : IsFold(f, S, g) <=> Eq(g)
  <2> SUFFICES ASSUME NEW g PROVE IsFold(f, S, g) <=> Eq(g)
    OBVIOUS
  <2>1. \A s \in SUBSET S : s # {} => f[First(s)] = q[First(s)].quantity
    BY FirstIn
  <2>2. [s \in SUBSET S |-> IF s = {} THEN 0 ELSE f[First(s)] + g[s \ {First(s)}]]
        = [s \in SUBSET S |-> IF s = {} THEN 0 ELSE q[First(s)].quantity + g[s \ {First(s)}]]
    <3> HIDE DEF f
    <3> QED BY <2>1
  <2> HIDE DEF f
  <2> QED BY <2>2 DEF IsFold
<1>2. \E g : Eq(g)
  BY FoldExists, <1>1
<1> DEFINE h == CHOOSE g : Eq(g)
<1>3. IsFold(f, S, h)
  <2> HIDE DEF Eq, f
  <2> QED BY <1>1, <1>2
<1>4. QuantSum(q, S) = h[S]
  BY Zenon DEF QuantSum, MapThenSumSet, MapThenFoldSet, First
<1> HIDE DEF f, h
<1>5. h[S] = Sum(f, S)
  BY <1>3, SumIsFold
<1> QED
  BY <1>4, <1>5 DEF f

LEMMA PostedByIsSum ==
  ASSUME NEW row, NEW e, IsFiniteSet(AdjustmentsAt(row, e))
  PROVE  PostedBy(row, e) = Sum([j \in AdjustmentsAt(row, e) |-> DeltaOf(row, j)],
                                AdjustmentsAt(row, e))
<1> DEFINE S == AdjustmentsAt(row, e)
           f == [j \in S |-> DeltaOf(row, j)]
           Eq(g) == g = [s \in SUBSET S |->
                           IF s = {} THEN 0 ELSE DeltaOf(row, First(s)) + g[s \ {First(s)}]]
<1>1. \A g : IsFold(f, S, g) <=> Eq(g)
  <2> SUFFICES ASSUME NEW g PROVE IsFold(f, S, g) <=> Eq(g)
    OBVIOUS
  <2> HIDE DEF S
  <2>1. \A s \in SUBSET S : s # {} => f[First(s)] = DeltaOf(row, First(s))
    BY FirstIn
  <2>2. [s \in SUBSET S |-> IF s = {} THEN 0 ELSE f[First(s)] + g[s \ {First(s)}]]
        = [s \in SUBSET S |-> IF s = {} THEN 0 ELSE DeltaOf(row, First(s)) + g[s \ {First(s)}]]
    <3> HIDE DEF f
    <3> QED BY <2>1
  <2> HIDE DEF f
  <2> QED BY <2>2 DEF IsFold
<1>2. \E g : Eq(g)
  <2> HIDE DEF S, Eq
  <2>1. IsFiniteSet(S)
    BY DEF S
  <2> QED BY <2>1, FoldExists, <1>1
<1> DEFINE h == CHOOSE g : Eq(g)
<1>3. IsFold(f, S, h)
  <2> HIDE DEF Eq, f, S
  <2> QED BY <1>1, <1>2
<1>4. PostedBy(row, e) = h[S]
  BY Zenon DEF PostedBy, MapThenSumSet, MapThenFoldSet, First, AdjustmentsAt
<1> HIDE DEF f, h
<1>5. h[S] = Sum(f, S)
  BY <1>3, SumIsFold
<1> QED
  BY <1>4, <1>5 DEF f

LEMMA PostedInIsSum ==
  ASSUME NEW ps, NEW e, IsFiniteSet(DOMAIN ps)
  PROVE  PostedIn(ps, e) = Sum([k \in DOMAIN ps |-> PostedBy(ps[k], e)], DOMAIN ps)
<1> DEFINE S == DOMAIN ps
           f == [k \in S |-> PostedBy(ps[k], e)]
           Eq(g) == g = [s \in SUBSET S |->
                           IF s = {} THEN 0 ELSE PostedBy(ps[First(s)], e) + g[s \ {First(s)}]]
<1>1. \A g : IsFold(f, S, g) <=> Eq(g)
  <2> SUFFICES ASSUME NEW g PROVE IsFold(f, S, g) <=> Eq(g)
    OBVIOUS
  <2> HIDE DEF S
  <2>1. \A s \in SUBSET S : s # {} => f[First(s)] = PostedBy(ps[First(s)], e)
    BY FirstIn
  <2>2. [s \in SUBSET S |-> IF s = {} THEN 0 ELSE f[First(s)] + g[s \ {First(s)}]]
        = [s \in SUBSET S |-> IF s = {} THEN 0 ELSE PostedBy(ps[First(s)], e) + g[s \ {First(s)}]]
    <3> HIDE DEF f
    <3> QED BY <2>1
  <2> HIDE DEF f
  <2> QED BY <2>2 DEF IsFold
<1>2. \E g : Eq(g)
  <2> HIDE DEF S, Eq
  <2>1. IsFiniteSet(S)
    BY DEF S
  <2> QED BY <2>1, FoldExists, <1>1
<1> DEFINE h == CHOOSE g : Eq(g)
<1>3. IsFold(f, S, h)
  <2> HIDE DEF Eq, f, S
  <2> QED BY <1>1, <1>2
<1>4. PostedIn(ps, e) = h[S]
  BY Zenon DEF PostedIn, MapThenSumSet, MapThenFoldSet, First
<1> HIDE DEF f, h
<1>5. h[S] = Sum(f, S)
  BY <1>3, SumIsFold
<1> QED
  BY <1>4, <1>5 DEF f

-----------------------------------------------------------------------------
(***************************************************************************)
(* What one adjustment does to each side                                   *)
(***************************************************************************)
LEMMA RowSets ==
  ASSUME NEW q \in Seq(QuantRow), NEW e
  PROVE  /\ IsFiniteSet(RowsIn(q, e)) /\ RowsIn(q, e) \subseteq 1..Len(q)
         /\ \A i \in RowsIn(q, e) : q[i] \in QuantRow /\ q[i].quantity \in Int
<1>1. DOMAIN q = 1..Len(q) /\ Len(q) \in Nat /\ \A i \in 1..Len(q) : q[i] \in QuantRow
  BY LenProperties, ElementOfSeq
<1>2. IsFiniteSet(1..Len(q))
  BY <1>1, FS_Interval
<1>3. RowsIn(q, e) \subseteq 1..Len(q)
  BY <1>1 DEF RowsIn
<1>4. IsFiniteSet(RowsIn(q, e))
  BY <1>2, <1>3, FS_Subset
<1>5. \A i \in 1..Len(q) : q[i].quantity \in Int
  BY <1>1, StockAssumption DEF QuantRow, Most
<1> QED
  BY <1>1, <1>3, <1>4, <1>5

LEMMA BalanceIsSum ==
  ASSUME NEW q \in Seq(QuantRow), NEW e
  PROVE  BalanceIn(q, e) = Sum([i \in RowsIn(q, e) |-> q[i].quantity], RowsIn(q, e))
  BY RowSets, QuantSumIsSum DEF BalanceIn

\* An insert adds the quantity of the row to the entry of the row.
LEMMA BalanceInsert ==
  ASSUME NEW q \in Seq(QuantRow), NEW r \in QuantRow, NEW e \in Entries
  PROVE  /\ QuantEntry(r) = e => BalanceIn(Append(q, r), e) = BalanceIn(q, e) + r.quantity
         /\ QuantEntry(r) # e => BalanceIn(Append(q, r), e) = BalanceIn(q, e)
         /\ RowsIn(Append(q, r), e) =
              IF QuantEntry(r) = e THEN RowsIn(q, e) \cup {Len(q) + 1} ELSE RowsIn(q, e)
<1> DEFINE p == Append(q, r)  n == Len(q) + 1
           S == RowsIn(q, e)  T == RowsIn(p, e)
           f == [i \in S |-> q[i].quantity]
           g == [i \in T |-> p[i].quantity]
<1>1. /\ Len(q) \in Nat /\ DOMAIN q = 1..Len(q) /\ DOMAIN p = 1..n
      /\ \A i \in 1..Len(q) : p[i] = q[i]
      /\ p[n] = r /\ p \in Seq(QuantRow)
  BY AppendProperties, LenProperties
<1>2. e = <<e[1], e[2]>>
  BY DEF Entries
<1>3. QuantEntry(r) = e <=> r.product = e[1] /\ r.location = e[2]
  BY <1>2 DEF QuantEntry
<1>4. n \notin S
  BY <1>1 DEF RowsIn
<1>5. T = IF QuantEntry(r) = e THEN S \cup {n} ELSE S
  <2> HIDE DEF p
  <2>1. \A i : i \in 1..n <=> i \in 1..Len(q) \/ i = n
    BY <1>1
  <2>2. \A i : i \in T <=> \/ i \in S
                           \/ i = n /\ r.product = e[1] /\ r.location = e[2]
    BY <1>1, <2>1 DEF RowsIn
  <2> QED BY <2>2, <1>3
<1>6. IsFiniteSet(S) /\ (\A i \in S : q[i].quantity \in Int) /\ S \subseteq 1..Len(q)
  BY RowSets
<1>7. IsFiniteSet(T) /\ \A i \in T : p[i].quantity \in Int
  <2> HIDE DEF p
  <2> QED BY <1>1, RowSets
<1>8. BalanceIn(q, e) = Sum(f, S) /\ BalanceIn(p, e) = Sum(g, T)
  <2>1. p \in Seq(QuantRow)
    BY <1>1
  <2> HIDE DEF p
  <2> QED BY <2>1, BalanceIsSum
<1>9. \A i \in S : i \in T /\ g[i] = f[i]
  <2> HIDE DEF p, S
  <2> QED BY <1>1, <1>5, <1>6
<1>10. Sum(f, S) = Sum(g, S)
  <2> HIDE DEF f, g, S, T, p
  <2> QED BY <1>6, <1>9, SumSame
<1>11. CASE QuantEntry(r) = e
  <2>1. T = S \cup {n}
    BY <1>5, <1>11
  <2>2. g[n] = r.quantity
    <3> HIDE DEF p, S
    <3> QED BY <2>1, <1>1
  <2>3. \A i \in S \cup {n} : g[i] \in Int
    <3> HIDE DEF p, S
    <3> QED BY <2>1, <1>7
  <2>4. Sum(g, S \cup {n}) = Sum(g, S) + g[n]
    <3> HIDE DEF g, S, n, p
    <3> QED BY <1>4, <1>6, <2>3, SumAdd
  <2>5. BalanceIn(p, e) = BalanceIn(q, e) + r.quantity
    <3> HIDE DEF f, g, S, T, p, n
    <3> QED BY <1>8, <1>10, <2>1, <2>2, <2>4
  <2> HIDE DEF p, n, S
  <2> QED BY <2>5, <2>1, <1>11 DEF p, n, S
<1>12. CASE QuantEntry(r) # e
  <2>1. T = S
    BY <1>5, <1>12
  <2>2. BalanceIn(p, e) = BalanceIn(q, e)
    <3> HIDE DEF f, g, S, T, p, n
    <3> QED BY <1>8, <1>10, <2>1
  <2> HIDE DEF p, n, S
  <2> QED BY <2>2, <2>1, <1>12 DEF p, n, S
<1> QED
  BY <1>11, <1>12

UpdatedQuants(q, i, v) == [q EXCEPT ![i].quantity = v]

\* An update changes the balance of the row's entry by as much as it changes the row.
LEMMA BalanceUpdate ==
  ASSUME NEW q \in Seq(QuantRow), NEW i \in DOMAIN q, NEW v \in -Most..Most,
         NEW p, p = UpdatedQuants(q, i, v), NEW e \in Entries
  PROVE  /\ p \in Seq(QuantRow) /\ DOMAIN p = DOMAIN q /\ Len(p) = Len(q)
         /\ \A k \in DOMAIN q : QuantEntry(p[k]) = QuantEntry(q[k])
         /\ p[i].quantity = v
         /\ \A k \in DOMAIN q \ {i} : p[k] = q[k]
         /\ RowsIn(p, e) = RowsIn(q, e)
         /\ QuantEntry(q[i]) = e => BalanceIn(p, e) = BalanceIn(q, e) + (v - q[i].quantity)
         /\ QuantEntry(q[i]) # e => BalanceIn(p, e) = BalanceIn(q, e)
<1> DEFINE r == [q[i] EXCEPT !.quantity = v]
<1>1. /\ Len(q) \in Nat /\ DOMAIN q = 1..Len(q) /\ q[i] \in QuantRow
      /\ \A k \in DOMAIN q : q[k] \in QuantRow
  BY LenProperties, ElementOfSeq
<1>2. /\ r \in QuantRow /\ r.quantity = v
      /\ r.product = q[i].product /\ r.location = q[i].location
  BY <1>1 DEF QuantRow
<1>3. p = [q EXCEPT ![i] = r]
  BY DEF UpdatedQuants
<1>4. /\ p \in Seq(QuantRow) /\ DOMAIN p = DOMAIN q /\ Len(p) = Len(q)
      /\ p[i] = r /\ \A k \in DOMAIN q \ {i} : p[k] = q[k]
  <2> HIDE DEF r
  <2> QED BY <1>1, <1>2, <1>3, ExceptSeq, LenProperties
<1>5. \A k \in DOMAIN q : p[k].product = q[k].product /\ p[k].location = q[k].location
  <2> SUFFICES ASSUME NEW k \in DOMAIN q
               PROVE  p[k].product = q[k].product /\ p[k].location = q[k].location
    OBVIOUS
  <2> HIDE DEF r
  <2> QED BY <1>2, <1>4, k = i \/ k \in DOMAIN q \ {i}
<1>6. RowsIn(p, e) = RowsIn(q, e)
  BY <1>4, <1>5 DEF RowsIn
<1>7. p[i].quantity = v
  <2> HIDE DEF r
  <2> QED BY <1>2, <1>4
<1> HIDE DEF r
<1> DEFINE S == RowsIn(q, e)
           f == [k \in S |-> q[k].quantity]
           g == [k \in S |-> p[k].quantity]
<1>8. IsFiniteSet(S) /\ (\A k \in S : q[k].quantity \in Int) /\ S \subseteq DOMAIN q
  BY RowSets DEF RowsIn
<1>9. BalanceIn(q, e) = Sum(f, S) /\ BalanceIn(p, e) = Sum(g, S)
  <2>1. BalanceIn(q, e) = Sum(f, S)
    BY BalanceIsSum
  <2>2. BalanceIn(p, e) = Sum(g, S)
    <3>1. p \in Seq(QuantRow)
      BY <1>4
    <3>2. BalanceIn(p, e) = Sum([k \in RowsIn(p, e) |-> p[k].quantity], RowsIn(p, e))
      BY Zenon, <3>1, BalanceIsSum
    <3> QED BY Zenon, <3>2, <1>6
  <2> QED BY <2>1, <2>2
<1>10. i \in S <=> QuantEntry(q[i]) = e
  <2>1. e = <<e[1], e[2]>>
    BY DEF Entries
  <2> QED BY <2>1 DEF RowsIn, QuantEntry
<1>11. CASE i \in S
  <2> DEFINE d == v - q[i].quantity
  <2>1. d \in Int /\ g[i] = f[i] + d
    <3>1. v \in Int /\ q[i].quantity \in Int
      BY <1>8, <1>11, StockAssumption DEF Most
    <3> HIDE DEF S
    <3> QED BY <3>1, <1>7, <1>11
  <2>2. \A k \in S \ {i} : g[k] = f[k]
    <3> HIDE DEF S
    <3> QED BY <1>4, <1>8
  <2>3. \A k \in S : f[k] \in Int
    <3> HIDE DEF S
    <3> QED BY <1>8
  <2>4. Sum(g, S) = Sum(f, S) + d
    <3> HIDE DEF f, g, S, d
    <3> QED BY <1>8, <1>11, <2>1, <2>2, <2>3, SumChange
  <2>5. BalanceIn(p, e) = BalanceIn(q, e) + (v - q[i].quantity)
    <3> HIDE DEF f, g, S
    <3> QED BY <1>9, <2>4
  <2> HIDE DEF S
  <2> QED BY <1>4, <1>5, <1>6, <1>7, <1>10, <1>11, <2>5 DEF QuantEntry
<1>12. CASE i \notin S
  <2>1. \A k \in S : g[k] = f[k]
    <3> HIDE DEF S
    <3> QED BY <1>4, <1>8, <1>12
  <2>2. BalanceIn(p, e) = BalanceIn(q, e)
    <3> HIDE DEF f, g, S
    <3> QED BY <1>8, <1>9, <2>1, SumSame
  <2> HIDE DEF S
  <2> QED BY <1>4, <1>5, <1>6, <1>7, <1>10, <1>12, <2>2 DEF QuantEntry
<1> QED
  BY <1>11, <1>12

LEMMA DtoFacts ==
  ASSUME NEW lines \in Dto
  PROVE  /\ Len(lines) \in 0..MaxLines /\ Len(lines) \in Nat
         /\ DOMAIN lines = 1..Len(lines)
         /\ \A n \in 1..Len(lines) : lines[n] \in Line
<1>1. lines \in SeqOf(Line, MaxLines) /\ MaxLines \in Nat
  BY StockAssumption DEF Dto
<1>2. PICK m \in 0..MaxLines : lines \in [1..m -> Line]
  BY <1>1 DEF SeqOf
<1>3. m \in Nat
  BY <1>1
<1>4. Len(lines) = m
  BY <1>2, <1>3, LenProperties
<1> QED
  BY <1>1, <1>2, <1>3, <1>4

LEMMA LineFacts ==
  ASSUME NEW row \in PickingRow
  PROVE  /\ Len(row.lines) \in 0..MaxLines
         /\ \A n \in 1..Len(row.lines) : row.lines[n] \in Line
         /\ DOMAIN row.lines = 1..Len(row.lines)
  BY DtoFacts DEF PickingRow

LEMMA AdjustmentFacts ==
  ASSUME NEW row \in PickingRow, NEW j \in Adjustments(row)
  PROVE  /\ (j + 1) \div 2 \in 1..Len(row.lines) /\ (j + 1) \div 2 \in 1..MaxLines
         /\ j = 2 * ((j + 1) \div 2) - 1 \/ j = 2 * ((j + 1) \div 2)
         /\ IsTakeOut(j) <=> j = 2 * ((j + 1) \div 2) - 1
         /\ LineOf(row, j) \in Line
         /\ EntryOf(row, j) \in Entries
         /\ DeltaOf(row, j) \in -MaxQty..MaxQty
<1>1. Len(row.lines) \in 0..MaxLines /\ Len(row.lines) \in Nat /\ MaxLines \in Nat /\ j \in Nat
      /\ 1 <= j /\ j <= 2 * Len(row.lines) /\ MaxQty \in Nat
  BY LineFacts, StockAssumption DEF Adjustments
<1>2. /\ (j + 1) \div 2 \in 1..Len(row.lines) /\ (j + 1) \div 2 \in 1..MaxLines
      /\ j = 2 * ((j + 1) \div 2) - 1 \/ j = 2 * ((j + 1) \div 2)
      /\ IsTakeOut(j) <=> j = 2 * ((j + 1) \div 2) - 1
  BY <1>1 DEF IsTakeOut
<1>3. LineOf(row, j) \in Line
  BY <1>2, LineFacts DEF LineOf
<1>4. EntryOf(row, j) \in Entries
  BY <1>3 DEF EntryOf, LocationOf, Entries, Locations, Line
<1>5. DeltaOf(row, j) \in -MaxQty..MaxQty
  <2>1. LineOf(row, j).qty \in 1..MaxQty
    BY <1>3 DEF Line
  <2> QED BY <2>1, <1>1 DEF DeltaOf
<1> QED
  BY <1>2, <1>3, <1>4, <1>5

LEMMA AdjustmentSets ==
  ASSUME NEW row \in PickingRow, row.posted <= 2 * Len(row.lines), NEW e
  PROVE  /\ IsFiniteSet(AdjustmentsAt(row, e))
         /\ AdjustmentsAt(row, e) \subseteq Adjustments(row)
         /\ \A j \in AdjustmentsAt(row, e) : DeltaOf(row, j) \in Int
         /\ PostedBy(row, e) \in Int
<1>1. Len(row.lines) \in Nat /\ row.posted \in Nat
  BY LineFacts, StockAssumption DEF PickingRow
<1>2. AdjustmentsAt(row, e) \subseteq Adjustments(row)
  BY <1>1 DEF AdjustmentsAt, Adjustments
<1>3. IsFiniteSet(Adjustments(row))
  BY <1>1, FS_Interval DEF Adjustments
<1>4. IsFiniteSet(AdjustmentsAt(row, e))
  BY <1>2, <1>3, FS_Subset
<1>5. \A j \in AdjustmentsAt(row, e) : DeltaOf(row, j) \in Int
  BY <1>2, AdjustmentFacts, StockAssumption
<1>6. PostedBy(row, e) \in Int
  <2> DEFINE S == AdjustmentsAt(row, e)  f == [j \in S |-> DeltaOf(row, j)]
  <2>1. \A j \in S : f[j] \in Int
    BY <1>5
  <2>2. PostedBy(row, e) = Sum(f, S)
    BY <1>4, PostedByIsSum
  <2> HIDE DEF S, f
  <2>3. IsFiniteSet(S)
    BY <1>4 DEF S
  <2>4. Sum(f, S) \in Int
    BY <2>1, <2>3, SumInt
  <2> QED BY <2>2, <2>4
<1> QED
  BY <1>2, <1>4, <1>5, <1>6

LEMMA AdjustmentsAlike ==
  ASSUME NEW row, NEW other, other.kind = row.kind, other.lines = row.lines
  PROVE  \A j : /\ EntryOf(other, j) = EntryOf(row, j)
                /\ DeltaOf(other, j) = DeltaOf(row, j)
  BY DEF EntryOf, DeltaOf, LocationOf, LineOf

\* The adjustments of a picking say the same when only its state or moves change.
LEMMA PostedBySame ==
  ASSUME NEW row \in PickingRow, row.posted <= 2 * Len(row.lines), NEW other,
         other.kind = row.kind, other.lines = row.lines, other.posted = row.posted, NEW e
  PROVE  PostedBy(other, e) = PostedBy(row, e)
<1> DEFINE S == AdjustmentsAt(row, e)
           f == [j \in S |-> DeltaOf(row, j)]
           g == [j \in S |-> DeltaOf(other, j)]
<1>1. AdjustmentsAt(other, e) = S
  BY AdjustmentsAlike DEF AdjustmentsAt
<1>2. f = g
  BY AdjustmentsAlike
<1>3. IsFiniteSet(S)
  BY AdjustmentSets
<1>4. PostedBy(row, e) = Sum(f, S)
  BY <1>3, PostedByIsSum
<1>5. PostedBy(other, e) = Sum(g, S)
  <2> HIDE DEF S
  <2> QED BY <1>1, <1>3, PostedByIsSum
<1> HIDE DEF f, g, S
<1> QED
  BY <1>2, <1>4, <1>5

\* The next adjustment of a picking adds its delta at its entry.
LEMMA PostedByNext ==
  ASSUME NEW row \in PickingRow, NEW other \in PickingRow,
         other.kind = row.kind, other.lines = row.lines,
         other.posted = row.posted + 1, other.posted <= 2 * Len(row.lines), NEW e
  PROVE  /\ EntryOf(row, other.posted) = e =>
              PostedBy(other, e) = PostedBy(row, e) + DeltaOf(row, other.posted)
         /\ EntryOf(row, other.posted) # e => PostedBy(other, e) = PostedBy(row, e)
<1> DEFINE j == other.posted
           S == AdjustmentsAt(row, e)
           T == AdjustmentsAt(other, e)
           f == [i \in S |-> DeltaOf(row, i)]
           g == [i \in T |-> DeltaOf(other, i)]
<1>1. row.posted \in Nat /\ Len(row.lines) \in Nat
  BY LineFacts, StockAssumption DEF PickingRow
<1>2. IsFiniteSet(S) /\ \A i \in S : DeltaOf(row, i) \in Int
  BY <1>1, AdjustmentSets
<1>3. IsFiniteSet(T) /\ \A i \in T : DeltaOf(other, i) \in Int
  BY AdjustmentSets
<1>4. T = IF EntryOf(row, j) = e THEN S \cup {j} ELSE S
  <2>1. \A i : i \in 1..j <=> i \in 1..row.posted \/ i = j
    BY <1>1
  <2>2. \A i : EntryOf(other, i) = EntryOf(row, i)
    BY AdjustmentsAlike
  <2> QED BY <2>1, <2>2 DEF AdjustmentsAt
<1>5. j \notin S
  BY <1>1 DEF AdjustmentsAt
<1>6. PostedBy(row, e) = Sum(f, S)
  BY <1>2, PostedByIsSum
<1>7. PostedBy(other, e) = Sum(g, T)
  BY <1>3, PostedByIsSum
<1>8. \A i \in S : i \in T /\ g[i] = f[i]
  <2> HIDE DEF S, T
  <2> QED BY <1>4, AdjustmentsAlike
<1>9. Sum(f, S) = Sum(g, S)
  <2> HIDE DEF f, g, S, T
  <2>1. IsFiniteSet(S)
    BY <1>2 DEF S
  <2> QED BY <2>1, <1>8, SumSame
<1>10. CASE EntryOf(row, j) = e
  <2> HIDE DEF S, T, j
  <2>1. T = S \cup {j} /\ IsFiniteSet(S)
    BY <1>4, <1>10, <1>2 DEF S
  <2>2. (\A i \in S \cup {j} : g[i] \in Int) /\ g[j] = DeltaOf(row, j)
    BY <2>1, <1>3, AdjustmentsAlike DEF T
  <2> HIDE DEF f, g
  <2>3. Sum(g, S \cup {j}) = Sum(g, S) + g[j]
    BY <2>1, <2>2, <1>5, SumAdd
  <2> QED BY <2>1, <2>2, <2>3, <1>6, <1>7, <1>9, <1>10 DEF j
<1>11. CASE EntryOf(row, j) # e
  <2> HIDE DEF S, T, f, g
  <2> QED BY <1>4, <1>6, <1>7, <1>9, <1>11
<1> QED
  BY <1>10, <1>11

LEMMA PostedByNothing ==
  ASSUME NEW row, row.posted = 0, NEW e
  PROVE  PostedBy(row, e) = 0
<1>1. AdjustmentsAt(row, e) = {}
  BY DEF AdjustmentsAt
<1> DEFINE f == [i \in {} |-> DeltaOf(row, i)]
<1>2. PostedBy(row, e) = Sum(f, {})
  BY <1>1, FS_EmptySet, PostedByIsSum
<1> HIDE DEF f
<1> QED
  BY <1>2, SumEmpty

Posting(ps) == \A k \in DOMAIN ps : ps[k].posted <= 2 * Len(ps[k].lines)

LEMMA PostedFacts ==
  ASSUME NEW ps \in Seq(PickingRow), Posting(ps), NEW e
  PROVE  /\ DOMAIN ps = 1..Len(ps) /\ Len(ps) \in Nat /\ IsFiniteSet(DOMAIN ps)
         /\ \A k \in DOMAIN ps : ps[k] \in PickingRow /\ PostedBy(ps[k], e) \in Int
<1>1. DOMAIN ps = 1..Len(ps) /\ Len(ps) \in Nat /\ \A k \in 1..Len(ps) : ps[k] \in PickingRow
  BY LenProperties, ElementOfSeq
<1>2. IsFiniteSet(DOMAIN ps)
  BY <1>1, FS_Interval
<1>3. \A k \in DOMAIN ps : PostedBy(ps[k], e) \in Int
  BY <1>1, AdjustmentSets DEF Posting
<1> QED
  BY <1>1, <1>2, <1>3

\* A new picking has moved nothing.
LEMMA PostedInsert ==
  ASSUME NEW ps \in Seq(PickingRow), Posting(ps), NEW row \in PickingRow, row.posted = 0, NEW e
  PROVE  PostedIn(Append(ps, row), e) = PostedIn(ps, e)
<1> DEFINE qs == Append(ps, row)  n == Len(ps) + 1
           S == DOMAIN ps  T == DOMAIN qs
           f == [k \in S |-> PostedBy(ps[k], e)]
           g == [k \in T |-> PostedBy(qs[k], e)]
<1>1. /\ S = 1..Len(ps) /\ Len(ps) \in Nat /\ IsFiniteSet(S)
      /\ \A k \in S : PostedBy(ps[k], e) \in Int
  BY PostedFacts
<1>2. /\ qs \in Seq(PickingRow) /\ T = 1..n /\ qs[n] = row
      /\ \A k \in S : qs[k] = ps[k]
  BY <1>1, AppendProperties, LenProperties
<1>3. T = S \cup {n} /\ n \notin S
  BY <1>1, <1>2
<1>4. IsFiniteSet(T)
  <2>1. n \in Int
    BY <1>1
  <2> HIDE DEF n, T
  <2>2. IsFiniteSet(1..n)
    BY <2>1, FS_Interval
  <2> QED BY <2>2, <1>2
<1>5. PostedIn(ps, e) = Sum(f, S)
  BY <1>1, PostedInIsSum
<1>6. PostedIn(qs, e) = Sum(g, T)
  <2> HIDE DEF qs
  <2> QED BY <1>4, PostedInIsSum
<1>7. g[n] = 0
  <2> HIDE DEF qs, n, S
  <2> QED BY <1>2, <1>3, PostedByNothing
<1>8. \A k \in S : f[k] = g[k] /\ f[k] \in Int
  <2> HIDE DEF qs, n, S, T
  <2> QED BY <1>1, <1>2, <1>3 DEF S
<1>9. Sum(f, S) = Sum(g, S) /\ Sum(f, S) \in Int
  <2> HIDE DEF f, g, S
  <2>1. IsFiniteSet(S)
    BY <1>1 DEF S
  <2> QED BY <2>1, <1>8, SumSame, SumInt
<1>10. \A k \in S \cup {n} : g[k] \in Int
  <2> HIDE DEF f, g, S, n
  <2> QED BY <1>7, <1>8
<1>11. Sum(g, S \cup {n}) = Sum(g, S) + g[n]
  <2> HIDE DEF f, g, S, n
  <2>1. IsFiniteSet(S)
    BY <1>1 DEF S
  <2> QED BY <2>1, <1>3, <1>10, SumAdd
<1> HIDE DEF f, g, S, T, n, qs
<1> QED
  BY <1>3, <1>5, <1>6, <1>7, <1>9, <1>11 DEF qs

\* A picking changes: so does what all of them posted.
LEMMA PostedUpdate ==
  ASSUME NEW ps \in Seq(PickingRow), Posting(ps), NEW k \in DOMAIN ps, NEW row,
         NEW e, NEW d \in Int, PostedBy(row, e) = PostedBy(ps[k], e) + d
  PROVE  PostedIn([ps EXCEPT ![k] = row], e) = PostedIn(ps, e) + d
<1> DEFINE qs == [ps EXCEPT ![k] = row]
           S == DOMAIN ps
           f == [i \in S |-> PostedBy(ps[i], e)]
           g == [i \in S |-> PostedBy(qs[i], e)]
<1>1. IsFiniteSet(S) /\ \A i \in S : PostedBy(ps[i], e) \in Int
  BY PostedFacts
<1>2. DOMAIN qs = S /\ qs[k] = row /\ \A i \in S \ {k} : qs[i] = ps[i]
  OBVIOUS
<1>3. PostedIn(ps, e) = Sum(f, S)
  BY <1>1, PostedInIsSum
<1>4. PostedIn(qs, e) = Sum(g, S)
  <2> HIDE DEF qs
  <2>1. IsFiniteSet(DOMAIN qs)
    BY <1>1, <1>2
  <2> QED BY <2>1, <1>2, PostedInIsSum
<1>5. g[k] = f[k] + d /\ (\A i \in S \ {k} : g[i] = f[i]) /\ \A i \in S : f[i] \in Int
  <2> HIDE DEF qs
  <2> QED BY <1>1, <1>2
<1>6. Sum(g, S) = Sum(f, S) + d
  <2> HIDE DEF f, g, S
  <2>1. IsFiniteSet(S) /\ k \in S
    BY <1>1 DEF S
  <2> QED BY <2>1, <1>5, SumChange
<1> HIDE DEF f, g, S, qs
<1> QED
  BY <1>3, <1>4, <1>6 DEF qs

LEMMA PostedInInt ==
  ASSUME NEW ps \in Seq(PickingRow), Posting(ps), NEW e
  PROVE  PostedIn(ps, e) \in Int
<1> DEFINE S == DOMAIN ps  f == [k \in S |-> PostedBy(ps[k], e)]
<1>1. IsFiniteSet(S) /\ \A k \in S : f[k] \in Int
  BY PostedFacts
<1>2. PostedIn(ps, e) = Sum(f, S)
  BY <1>1, PostedInIsSum
<1> HIDE DEF f, S
<1> QED
  BY <1>1, <1>2, SumInt

-----------------------------------------------------------------------------
(***************************************************************************)
(* Steps                                                                   *)
(***************************************************************************)
Turn(h) ==
  \/ \E lines \in Dto : StartReceipt(h, lines) \/ StartPickingOrder(h, lines)
  \/ Continue(h)
  \/ Fail(h)

\* Request h goes on with a call and what it then holds.
Moved(h, call, c) == pc' = [pc EXCEPT ![h] = call] /\ ctx' = [ctx EXCEPT ![h] = c]
Left(h)           == Moved(h, "idle", NoContext)

LEMMA MovedFacts ==
  ASSUME TypeOK, NEW h \in Handlers, NEW call \in Calls, NEW c \in Context, Moved(h, call, c)
  PROVE  /\ pc'[h] = call /\ ctx'[h] = c
         /\ \A g \in Handlers \ {h} : pc'[g] = pc[g] /\ ctx'[g] = ctx[g]
         /\ pc' \in [Handlers -> Calls] /\ ctx' \in [Handlers -> Context]
  BY DEF TypeOK, Moved

LEMMA StayFacts ==
  ASSUME TypeOK, NEW h \in Handlers, NEW call, Goto(h, call), ctx' = ctx
  PROVE  Moved(h, call, ctx[h])
  BY DEF TypeOK, Goto, Moved

LEMMA NoLines == <<>> \in Dto
<1>1. MaxLines \in Nat
  BY StockAssumption
<1>2. 0 \in 0..MaxLines
  BY <1>1
<1>3. <<>> \in [1..0 -> Line]
  OBVIOUS
<1> QED
  BY <1>2, <1>3 DEF Dto, SeqOf

LEMMA ContextTypes ==
  /\ NoContext \in Context
  /\ \A h \in Handlers : TypeOK => /\ pc[h] \in Calls /\ ctx[h] \in Context
                                   /\ ctx[h].lines \in Dto /\ ctx[h].kind \in Kinds
                                   /\ ctx[h].checked \in 0..MaxLines /\ ctx[h].checked \in Nat
                                   /\ ctx[h].picking \in 0..MaxPickings /\ ctx[h].picking \in Nat
                                   /\ ctx[h].row \in Nat /\ ctx[h].found \in -Most..Most
<1>1. MaxLines \in Nat /\ MaxPickings \in Nat /\ Most \in Nat
  BY StockAssumption DEF Most
<1>2. NoContext \in Context
  BY <1>1, NoLines DEF NoContext, Context, Kinds
<1>3. ASSUME NEW h \in Handlers, TypeOK
      PROVE  /\ pc[h] \in Calls /\ ctx[h] \in Context
             /\ ctx[h].lines \in Dto /\ ctx[h].kind \in Kinds
             /\ ctx[h].checked \in 0..MaxLines /\ ctx[h].checked \in Nat
             /\ ctx[h].picking \in 0..MaxPickings /\ ctx[h].picking \in Nat
             /\ ctx[h].row \in Nat /\ ctx[h].found \in -Most..Most
  <2>1. pc[h] \in Calls /\ ctx[h] \in Context
    BY <1>3 DEF TypeOK
  <2> QED BY <1>1, <2>1 DEF Context
<1> QED
  BY <1>2, <1>3

LEMMA PickingTypes ==
  ASSUME TypeOK
  PROVE  /\ DOMAIN pickings = 1..Len(pickings) /\ Len(pickings) \in Nat
         /\ Len(pickings) <= MaxPickings
         /\ \A k \in DOMAIN pickings : pickings[k] \in PickingRow
  BY LenProperties, ElementOfSeq DEF TypeOK

\* Facts about the picking of a request that works on one.
LEMMA OwnPicking ==
  ASSUME TypeOK, CarriedInv, NEW h \in Handlers, pc[h] \in Carrying
  PROVE  /\ ctx[h].picking \in DOMAIN pickings /\ ctx[h].picking \in 1..MaxPickings
         /\ ctx[h].picking # 0
         /\ Picking(h) \in PickingRow /\ Carried(pc[h], Picking(h), ctx[h])
         /\ Picking(h).posted \in Nat /\ Picking(h).moves \in Nat
         /\ Len(Picking(h).lines) \in 0..MaxLines /\ Len(Picking(h).lines) \in Nat
<1>1. ctx[h].picking \in DOMAIN pickings /\ Carried(pc[h], Picking(h), ctx[h])
  BY DEF CarriedInv
<1>2. Picking(h) \in PickingRow /\ ctx[h].picking \in 1..MaxPickings
  BY <1>1, PickingTypes, StockAssumption DEF Picking
<1>3. Picking(h).posted \in 0..(2 * MaxLines) /\ Picking(h).moves \in 0..MaxLines
  BY <1>2 DEF PickingRow
<1>4. Len(Picking(h).lines) \in 0..MaxLines
  BY <1>2, LineFacts
<1> HIDE DEF Picking
<1> QED
  BY <1>1, <1>2, <1>3, <1>4, StockAssumption

\* The adjustment that a request at findQuant or saveQuant is about to make.
LEMMA NextAdjustment ==
  ASSUME TypeOK, CarriedInv, NEW h \in Handlers, pc[h] \in {"findQuant", "saveQuant"}
  PROVE  /\ Picking(h).posted + 1 \in Adjustments(Picking(h))
         /\ AtEntry(h) \in Entries
         /\ AtEntry(h) = NextEntry(pickings, ctx[h])
<1>1. /\ Picking(h) \in PickingRow /\ Carried(pc[h], Picking(h), ctx[h])
      /\ Picking(h).posted \in Nat /\ Len(Picking(h).lines) \in Nat
  BY OwnPicking DEF Carrying
<1>2. Picking(h).posted + 1 \in Adjustments(Picking(h))
  BY <1>1 DEF Carried, Adjustments
<1> QED
  BY <1>1, <1>2, AdjustmentFacts DEF AtEntry, NextEntry, Picking

-----------------------------------------------------------------------------
(***************************************************************************)
(* Requests and their pickings                                             *)
(***************************************************************************)
RequestsInv ==
  HeldInv /\ CarriedInv /\ OwnPickings /\ PickingsInv /\ DoneIsPosted
  /\ CustodyInv /\ AnsweredIsInCustody

\* TypeOK but for the quants.
TypeRest ==
  /\ pickings \in Seq(PickingRow) /\ Len(pickings) <= MaxPickings
  /\ custody \in Nat /\ period \in 0..1
  /\ pc \in [Handlers -> Calls] /\ ctx \in [Handlers -> Context]
  /\ raced \subseteq Entries /\ contended \subseteq Entries /\ answered \in BOOLEAN

\* What a step of request h must show for the requests to stay in order.
LEMMA RequestsKept ==
  ASSUME TypeOK, HeldInv, CarriedInv, OwnPickings, CustodyInv,
         NEW h \in Handlers, NEW call \in Calls, NEW c \in Context, Moved(h, call, c),
         Held(call, c),
         DOMAIN pickings \subseteq DOMAIN pickings',
         \A k \in DOMAIN pickings \ {ctx[h].picking} : pickings'[k] = pickings[k],
         call \in Carrying => /\ c.picking \in DOMAIN pickings'
                              /\ Carried(call, pickings'[c.picking], c),
         c.picking \in {0, ctx[h].picking} \/ c.picking \notin DOMAIN pickings,
         custody \in Nat, custody' = custody \/ custody' = custody + 1,
         call \in {"findPeriod", "savePeriod"} => custody' > 0
  PROVE  HeldInv' /\ CarriedInv' /\ OwnPickings' /\ CustodyInv'
<1>1. /\ pc'[h] = call /\ ctx'[h] = c
      /\ \A g \in Handlers \ {h} : pc'[g] = pc[g] /\ ctx'[g] = ctx[g]
  BY MovedFacts
<1>2. \A g \in Handlers : ctx[g].picking = 0 \/ pc[g] \in Carrying
  <2> SUFFICES ASSUME NEW g \in Handlers, pc[g] \notin Carrying PROVE ctx[g].picking = 0
    OBVIOUS
  <2>1. pc[g] \in {"idle", "checkLine", "savePicking"}
    BY ContextTypes DEF Calls, Carrying, Settling
  <2> QED BY <2>1 DEF HeldInv, Held, NoContext
<1>3. \A g \in Handlers : pc[g] \in Carrying => /\ ctx[g].picking \in DOMAIN pickings
                                               /\ ctx[g].picking # 0
                                               /\ Carried(pc[g], pickings[ctx[g].picking], ctx[g])
  BY OwnPicking DEF Picking
<1>4. HeldInv'
  <2> SUFFICES ASSUME NEW g \in Handlers PROVE Held(pc'[g], ctx'[g])
    BY DEF HeldInv, Held
  <2>1. CASE g = h
    BY <2>1, <1>1
  <2>2. CASE g # h
    BY <2>2, <1>1 DEF HeldInv
  <2> QED BY <2>1, <2>2
<1>5. CarriedInv'
  <2> SUFFICES ASSUME NEW g \in Handlers, pc'[g] \in Carrying
               PROVE  /\ ctx'[g].picking \in DOMAIN pickings'
                      /\ Carried(pc'[g], pickings'[ctx'[g].picking], ctx'[g])
    BY DEF CarriedInv, Carried, Picking, Carrying, Settling
  <2>1. CASE g = h
    BY <2>1, <1>1
  <2>2. CASE g # h
    <3>1. pc'[g] = pc[g] /\ ctx'[g] = ctx[g]
      BY <2>2, <1>1
    <3>2. ctx[g].picking # ctx[h].picking /\ ctx[g].picking \in DOMAIN pickings
      BY <3>1, <2>2, <1>3 DEF OwnPickings
    <3>3. pickings'[ctx[g].picking] = pickings[ctx[g].picking]
      BY <3>2
    <3> QED BY <3>1, <3>2, <3>3, <1>3
  <2> QED BY <2>1, <2>2
<1>6. OwnPickings'
  <2>1. \A g \in Handlers \ {h} : c.picking = ctx[g].picking => c.picking = 0
    BY <1>2, <1>3 DEF OwnPickings
  <2> SUFFICES ASSUME NEW f \in Handlers, NEW g \in Handlers, f # g,
                      ctx'[f].picking = ctx'[g].picking
               PROVE  ctx'[f].picking = 0
    BY DEF OwnPickings
  <2>2. CASE f = h
    BY <2>1, <2>2, <1>1
  <2>3. CASE g = h
    BY <2>1, <2>3, <1>1
  <2>4. CASE f # h /\ g # h
    BY <2>4, <1>1 DEF OwnPickings
  <2> QED BY <2>2, <2>3, <2>4
<1>7. CustodyInv'
  <2> SUFFICES ASSUME NEW g \in Handlers, pc'[g] \in {"findPeriod", "savePeriod"}
               PROVE  custody' > 0
    BY DEF CustodyInv
  <2>1. CASE g = h
    BY <2>1, <1>1
  <2>2. CASE g # h
    BY <2>2, <1>1 DEF CustodyInv
  <2> QED BY <2>1, <2>2
<1> QED
  BY <1>4, <1>5, <1>6, <1>7

\* A request that throws or has answered holds nothing any more.
LEMMA LeftFacts ==
  ASSUME TypeOK, RequestsInv, NEW h \in Handlers, Left(h),
         UNCHANGED <<custody, pickings>>
  PROVE  /\ HeldInv' /\ CarriedInv' /\ OwnPickings' /\ CustodyInv'
         /\ pc' \in [Handlers -> Calls] /\ ctx' \in [Handlers -> Context]
<1>1. NoContext \in Context /\ "idle" \in Calls /\ custody \in Nat
  BY ContextTypes DEF Calls, TypeOK
<1>2. Held("idle", NoContext) /\ "idle" \notin Carrying /\ NoContext.picking = 0
  BY DEF Held, Carrying, Settling, NoContext
<1>3. Moved(h, "idle", NoContext)
  BY DEF Left
<1>4. HeldInv' /\ CarriedInv' /\ OwnPickings' /\ CustodyInv'
  BY <1>1, <1>2, <1>3, RequestsKept DEF RequestsInv
<1>5. pc' \in [Handlers -> Calls] /\ ctx' \in [Handlers -> Context]
  BY <1>1, <1>3, MovedFacts
<1> QED
  BY <1>4, <1>5

LEMMA ThrowStep ==
  ASSUME TypeOK, RequestsInv, NEW h \in Handlers, Throw(h)
  PROVE  RequestsInv' /\ TypeRest'
<1>1. Left(h) /\ UNCHANGED <<tables, raced, contended, answered>>
  BY DEF Throw, Leave, Goto, Keep, Left, Moved
<1>2. UNCHANGED <<quants, pickings, custody, period>>
  BY <1>1 DEF tables
<1>3. /\ HeldInv' /\ CarriedInv' /\ OwnPickings' /\ CustodyInv'
      /\ pc' \in [Handlers -> Calls] /\ ctx' \in [Handlers -> Context]
  BY <1>1, <1>2, LeftFacts
<1>4. PickingsInv' /\ DoneIsPosted' /\ AnsweredIsInCustody'
  BY <1>1, <1>2 DEF RequestsInv, PickingsInv, DoneIsPosted, AnsweredIsInCustody
<1> QED
  BY <1>1, <1>2, <1>3, <1>4 DEF RequestsInv, TypeRest, TypeOK

\* Steps that write no picking.
LEMMA StartReceiptStep ==
  ASSUME TypeOK, RequestsInv, NEW h \in Handlers, NEW lines \in Dto, StartReceipt(h, lines)
  PROVE  RequestsInv' /\ TypeRest'
<1> DEFINE c == [NoContext EXCEPT !.lines = lines]
<1>1. c \in Context /\ "savePicking" \in Calls
  BY ContextTypes DEF Context, Calls
<1>2. /\ Moved(h, "savePicking", c)
      /\ UNCHANGED <<quants, pickings, custody, period, raced, contended, answered>>
  BY DEF StartReceipt, Goto, Keep, Moved, tables
<1>3. Held("savePicking", c) /\ "savePicking" \notin Carrying /\ c.picking = 0
  BY DEF Held, Carrying, Settling, NoContext
<1> HIDE DEF c
<1>4. HeldInv' /\ CarriedInv' /\ OwnPickings' /\ CustodyInv'
  BY <1>1, <1>2, <1>3, RequestsKept DEF RequestsInv, TypeOK
<1>5. pc' \in [Handlers -> Calls] /\ ctx' \in [Handlers -> Context]
  BY <1>1, <1>2, MovedFacts
<1>6. PickingsInv' /\ DoneIsPosted' /\ AnsweredIsInCustody'
  BY <1>2 DEF RequestsInv, PickingsInv, DoneIsPosted, AnsweredIsInCustody
<1> QED
  BY <1>2, <1>4, <1>5, <1>6 DEF RequestsInv, TypeRest, TypeOK

LEMMA AskedFacts ==
  ASSUME NEW lines \in Dto
  PROVE  Asked(lines) \subseteq Entries /\ AskedTwice(lines) \subseteq Asked(lines)
  BY DtoFacts DEF Asked, AskedTwice, Entries, Locations, Line

LEMMA StartPickingOrderStep ==
  ASSUME TypeOK, RequestsInv, NEW h \in Handlers, NEW lines \in Dto,
         StartPickingOrder(h, lines)
  PROVE  RequestsInv' /\ TypeRest'
<1> DEFINE c == [NoContext EXCEPT !.kind = "outgoing", !.lines = lines]
           call == IF lines = <<>> THEN "savePicking" ELSE "checkLine"
<1>1. c \in Context /\ call \in Calls
  BY ContextTypes DEF Context, Calls, Kinds
<1>2. /\ Moved(h, call, c) /\ UNCHANGED <<quants, pickings, custody, period, raced, answered>>
      /\ contended' \subseteq Entries
  <2>1. contended' \subseteq contended \cup Asked(lines)
    BY AskedFacts DEF StartPickingOrder
  <2>2. contended' \subseteq Entries
    BY <2>1, AskedFacts DEF TypeOK
  <2>3. Moved(h, call, c) /\ UNCHANGED <<tables, raced, answered>>
    BY DEF StartPickingOrder, Goto, Keep, Moved
  <2> QED BY <2>2, <2>3 DEF tables
<1>3. Held(call, c) /\ call \notin Carrying /\ c.picking = 0
      /\ call \notin {"findPeriod", "savePeriod"}
  <2>1. lines # <<>> => Len(lines) > 0
    BY DtoFacts, EmptySeq DEF Dto
  <2>2. c.checked = 0 /\ c.lines = lines /\ c.picking = 0 /\ c.kind = "outgoing"
    BY DEF NoContext
  <2>3. lines = <<>> => Len(lines) = 0
    OBVIOUS
  <2>4. call = "savePicking" \/ call = "checkLine"
    OBVIOUS
  <2>5. Len(lines) \in Nat
    BY DtoFacts
  <2> HIDE DEF c
  <2> QED BY <2>1, <2>2, <2>3, <2>4, <2>5 DEF Held, Carrying, Settling
<1> HIDE DEF c, call
<1>4. HeldInv' /\ CarriedInv' /\ OwnPickings' /\ CustodyInv'
  BY <1>1, <1>2, <1>3, RequestsKept DEF RequestsInv, TypeOK
<1>5. pc' \in [Handlers -> Calls] /\ ctx' \in [Handlers -> Context]
  BY <1>1, <1>2, MovedFacts
<1>6. PickingsInv' /\ DoneIsPosted' /\ AnsweredIsInCustody'
  BY <1>2 DEF RequestsInv, PickingsInv, DoneIsPosted, AnsweredIsInCustody
<1> QED
  BY <1>2, <1>4, <1>5, <1>6 DEF RequestsInv, TypeRest, TypeOK

LEMMA CheckLineStep ==
  ASSUME TypeOK, RequestsInv, NEW h \in Handlers, CheckLine(h)
  PROVE  RequestsInv' /\ TypeRest'
<1> DEFINE n == ctx[h].checked + 1
           c == [ctx[h] EXCEPT !.checked = n]
           call == IF n = Len(ctx[h].lines) THEN "savePicking" ELSE "checkLine"
<1>1. /\ Moved(h, call, c) /\ pc[h] = "checkLine"
      /\ UNCHANGED <<quants, pickings, custody, period, raced, contended, answered>>
  BY DEF CheckLine, Goto, Keep, Moved, tables
<1>2. /\ ctx[h].kind = "outgoing" /\ ctx[h].checked < Len(ctx[h].lines) /\ ctx[h].picking = 0
      /\ Len(ctx[h].lines) \in 0..MaxLines /\ ctx[h].checked \in Nat /\ ctx[h] \in Context
      /\ MaxLines \in Nat
  BY <1>1, ContextTypes, DtoFacts, StockAssumption DEF RequestsInv, HeldInv, Held
<1>3. /\ c \in Context /\ call \in Calls /\ c.checked = n /\ c.picking = 0
      /\ c.lines = ctx[h].lines /\ c.kind = "outgoing"
  BY <1>2 DEF Context, Calls
<1>4. Held(call, c) /\ call \notin Carrying /\ call \notin {"findPeriod", "savePeriod"}
  <2>1. call \in {"savePicking", "checkLine"} /\ n <= Len(ctx[h].lines)
    BY <1>2
  <2> HIDE DEF c
  <2> QED BY <1>2, <1>3, <2>1 DEF Held, Carrying, Settling
<1> HIDE DEF c, call, n
<1>5. HeldInv' /\ CarriedInv' /\ OwnPickings' /\ CustodyInv'
  BY <1>1, <1>3, <1>4, RequestsKept DEF RequestsInv, TypeOK
<1>6. pc' \in [Handlers -> Calls] /\ ctx' \in [Handlers -> Context]
  BY <1>1, <1>3, MovedFacts
<1>7. PickingsInv' /\ DoneIsPosted' /\ AnsweredIsInCustody'
  BY <1>1 DEF RequestsInv, PickingsInv, DoneIsPosted, AnsweredIsInCustody
<1> QED
  BY <1>1, <1>5, <1>6, <1>7 DEF RequestsInv, TypeRest, TypeOK

LEMMA FindQuantStep ==
  ASSUME TypeOK, RequestsInv, NEW h \in Handlers, FindQuant(h)
  PROVE  RequestsInv' /\ TypeRest'
<1>1. PICK i \in Nat, q \in -Most..Most : Keep(h, [ctx[h] EXCEPT !.row = i, !.found = q])
  <2>1. \A e : \A i \in RowsOf(e[1], e[2]) : i \in Nat /\ quants[i].quantity \in -Most..Most
    <3>1. DOMAIN quants = 1..Len(quants) /\ \A i \in 1..Len(quants) : quants[i] \in QuantRow
      BY LenProperties, ElementOfSeq DEF TypeOK
    <3> QED BY <3>1 DEF RowsOf, QuantRow
  <2>2. 0 \in Nat /\ 0 \in -Most..Most
    BY StockAssumption DEF Most
  <2> QED BY <2>1, <2>2 DEF FindQuant
<1> DEFINE c == [ctx[h] EXCEPT !.row = i, !.found = q]
<1>2. /\ Moved(h, "saveQuant", c) /\ pc[h] = "findQuant"
      /\ UNCHANGED <<quants, pickings, custody, period, raced, contended, answered>>
  BY <1>1 DEF FindQuant, Goto, Keep, Moved, tables
<1>3. ctx[h] \in Context /\ Held("findQuant", ctx[h])
  BY <1>2, ContextTypes DEF RequestsInv, HeldInv
<1>4. /\ c \in Context /\ "saveQuant" \in Calls /\ c.picking = ctx[h].picking
      /\ c.lines = ctx[h].lines /\ c.kind = ctx[h].kind /\ c.checked = ctx[h].checked
  BY <1>3 DEF Context, Calls
<1>5. ctx[h].picking \in DOMAIN pickings /\ Carried("findQuant", pickings[ctx[h].picking], ctx[h])
  BY <1>2, OwnPicking DEF Carrying, Picking, RequestsInv
<1> HIDE DEF c
<1>6. Held("saveQuant", c) /\ Carried("saveQuant", pickings[c.picking], c)
  BY <1>3, <1>4, <1>5 DEF Held, Carried, Carrying, Settling
<1>7. HeldInv' /\ CarriedInv' /\ OwnPickings' /\ CustodyInv'
  BY <1>2, <1>4, <1>5, <1>6, RequestsKept DEF RequestsInv, TypeOK
<1>8. pc' \in [Handlers -> Calls] /\ ctx' \in [Handlers -> Context]
  BY <1>2, <1>4, MovedFacts
<1>9. PickingsInv' /\ DoneIsPosted' /\ AnsweredIsInCustody'
  BY <1>2 DEF RequestsInv, PickingsInv, DoneIsPosted, AnsweredIsInCustody
<1> QED
  BY <1>2, <1>7, <1>8, <1>9 DEF RequestsInv, TypeRest, TypeOK

\* Steps on custody and storage period.
LEMMA SettlingStep ==
  ASSUME TypeOK, RequestsInv, NEW h \in Handlers,
         FindCustody(h) \/ SaveCustody(h) \/ FindPeriod(h) \/ SavePeriod(h)
  PROVE  RequestsInv' /\ TypeRest'
<1>1. PickingsInv' /\ DoneIsPosted' /\ UNCHANGED <<quants, pickings, raced, contended>>
  BY DEF FindCustody, SaveCustody, FindPeriod, SavePeriod, RequestsInv, PickingsInv,
         DoneIsPosted, tables
<1>2. ASSUME NEW call \in Settling, Goto(h, call), ctx' = ctx, pc[h] \in Settling,
             custody' = custody \/ custody' = custody + 1,
             call \in {"findPeriod", "savePeriod"} => custody' > 0
      PROVE  /\ HeldInv' /\ CarriedInv' /\ OwnPickings' /\ CustodyInv'
             /\ pc' \in [Handlers -> Calls] /\ ctx' \in [Handlers -> Context]
  <2>1. Moved(h, call, ctx[h]) /\ call \in Calls /\ ctx[h] \in Context
    BY <1>2, StayFacts, ContextTypes DEF Settling, Calls
  <2>2. ctx[h].picking \in DOMAIN pickings /\ Carried(pc[h], pickings[ctx[h].picking], ctx[h])
    BY <1>2, OwnPicking DEF Carrying, Picking, RequestsInv
  <2>3. Held(call, ctx[h]) /\ Carried(call, pickings[ctx[h].picking], ctx[h])
    BY <1>2, <2>2 DEF RequestsInv, HeldInv, Held, Carried, Carrying, Settling
  <2>4. HeldInv' /\ CarriedInv' /\ OwnPickings' /\ CustodyInv'
    BY <1>1, <1>2, <2>1, <2>2, <2>3, RequestsKept DEF RequestsInv, TypeOK
  <2> QED BY <2>1, <2>4, MovedFacts
<1>3. custody \in Nat /\ period \in 0..1
  BY DEF TypeOK
<1>4. ASSUME Left(h), custody' = custody, custody > 0,
             answered' = TRUE, period' = 1
      PROVE  RequestsInv' /\ TypeRest'
  <2>1. /\ HeldInv' /\ CarriedInv' /\ OwnPickings' /\ CustodyInv'
        /\ pc' \in [Handlers -> Calls] /\ ctx' \in [Handlers -> Context]
    BY <1>1, <1>4, LeftFacts
  <2>2. AnsweredIsInCustody'
    BY <1>4 DEF AnsweredIsInCustody
  <2> QED BY <1>1, <1>3, <1>4, <2>1, <2>2 DEF RequestsInv, TypeRest, TypeOK
<1>5. CASE FindCustody(h)
  <2>1. /\ UNCHANGED <<custody, period, answered>> /\ ctx' = ctx /\ pc[h] \in Settling
        /\ Goto(h, IF custody = 0 THEN "saveCustody" ELSE "findPeriod")
    BY <1>5 DEF FindCustody, tables, Settling
  <2>2. /\ HeldInv' /\ CarriedInv' /\ OwnPickings' /\ CustodyInv'
        /\ pc' \in [Handlers -> Calls] /\ ctx' \in [Handlers -> Context]
    <3>1. CASE custody = 0
      BY <1>2, <2>1, <3>1 DEF Settling
    <3>2. CASE custody # 0
      BY <1>2, <1>3, <2>1, <3>2 DEF Settling
    <3> QED BY <3>1, <3>2
  <2> QED BY <1>1, <1>3, <2>1, <2>2 DEF RequestsInv, TypeRest, TypeOK, AnsweredIsInCustody
<1>6. CASE SaveCustody(h)
  <2>1. /\ UNCHANGED <<period, answered>> /\ ctx' = ctx /\ pc[h] \in Settling
        /\ Goto(h, "findPeriod") /\ custody' = custody + 1
    BY <1>6 DEF SaveCustody, Settling
  <2>2. /\ HeldInv' /\ CarriedInv' /\ OwnPickings' /\ CustodyInv'
        /\ pc' \in [Handlers -> Calls] /\ ctx' \in [Handlers -> Context]
    BY <1>2, <1>3, <2>1 DEF Settling
  <2> QED BY <1>1, <1>3, <2>1, <2>2 DEF RequestsInv, TypeRest, TypeOK, AnsweredIsInCustody
<1>7. CASE FindPeriod(h)
  <2>1. custody > 0 /\ UNCHANGED <<custody, period>> /\ pc[h] = "findPeriod"
    BY <1>7 DEF FindPeriod, RequestsInv, CustodyInv, tables
  <2>2. CASE period = 0
    <3>1. /\ UNCHANGED <<custody, period, answered>> /\ ctx' = ctx
          /\ Goto(h, "savePeriod") /\ pc[h] \in Settling
      BY <1>7, <2>2 DEF FindPeriod, tables, Settling
    <3>2. /\ HeldInv' /\ CarriedInv' /\ OwnPickings' /\ CustodyInv'
          /\ pc' \in [Handlers -> Calls] /\ ctx' \in [Handlers -> Context]
      BY <1>2, <2>1, <3>1 DEF Settling
    <3> QED BY <1>1, <1>3, <3>1, <3>2 DEF RequestsInv, TypeRest, TypeOK, AnsweredIsInCustody
  <2>3. CASE period # 0
    <3>1. Left(h) /\ answered' = TRUE /\ period' = 1
      BY <1>3, <1>7, <2>1, <2>3 DEF FindPeriod, Answer, Leave, Goto, Keep, Left, Moved
    <3> QED BY <1>4, <2>1, <3>1
  <2> QED BY <2>2, <2>3
<1>8. CASE SavePeriod(h)
  <2>1. Left(h) /\ answered' = TRUE /\ period' = 1 /\ custody' = custody /\ custody > 0
    BY <1>8 DEF SavePeriod, Answer, Leave, Goto, Keep, Left, Moved, RequestsInv, CustodyInv
  <2> QED BY <1>4, <2>1
<1> QED
  BY <1>5, <1>6, <1>7, <1>8

\* Steps that write a picking.
LEMMA PickingChanged ==
  ASSUME TypeOK, NEW k \in DOMAIN pickings, NEW row \in PickingRow,
         pickings' = [pickings EXCEPT ![k] = row]
  PROVE  /\ pickings' \in Seq(PickingRow) /\ Len(pickings') = Len(pickings)
         /\ DOMAIN pickings' = DOMAIN pickings /\ pickings'[k] = row
         /\ \A i \in DOMAIN pickings \ {k} : pickings'[i] = pickings[i]
<1>1. k \in 1..Len(pickings) /\ pickings \in Seq(PickingRow)
  BY PickingTypes DEF TypeOK
<1> QED
  BY <1>1, ExceptSeq, LenProperties

LEMMA AfterPostFacts ==
  ASSUME NEW row \in PickingRow, NEW posted \in 0..(2 * Len(row.lines)),
         NEW c, row.lines = c.lines, row.kind = c.kind, row.state = "draft",
         row.posted = posted, c.kind = "outgoing" => c.checked = Len(c.lines),
         c.picking # 0, row.moves <= Len(row.lines),
         posted = 2 * row.moves \/ posted = 2 * row.moves - 1
  PROVE  /\ AfterPost(row, posted) \in Carrying /\ AfterPost(row, posted) \in Calls
         /\ AfterPost(row, posted) \notin Settling
         /\ Held(AfterPost(row, posted), c)
         /\ Carried(AfterPost(row, posted), row, c)
<1> DEFINE call == AfterPost(row, posted)
<1>1. Len(row.lines) \in Nat /\ row.moves \in Nat /\ posted \in Nat
  BY LineFacts, StockAssumption DEF PickingRow
<1>2. \/ call = "saveDone" /\ posted = 2 * Len(row.lines)
      \/ call = "saveMove" /\ posted # 2 * Len(row.lines) /\ posted % 2 = 0
      \/ call = "findQuant" /\ posted # 2 * Len(row.lines) /\ posted % 2 # 0
  BY DEF AfterPost
<1> HIDE DEF call
<1>3. /\ call = "saveDone" => row.moves = Len(row.lines)
      /\ call = "saveMove" => row.moves < Len(row.lines) /\ posted = 2 * row.moves
      /\ call = "findQuant" => row.moves \in 1..Len(row.lines) /\ posted = 2 * row.moves - 1
  <2> DEFINE m == row.moves  l == Len(row.lines)
  <2>1. /\ m \in Nat /\ l \in Nat /\ posted \in Nat /\ m <= l
        /\ posted = 2 * m \/ posted = 2 * m - 1
    BY <1>1
  <2> HIDE DEF m, l
  <2>2. /\ posted = 2 * l => m = l
        /\ posted # 2 * l /\ posted % 2 = 0 => m < l /\ posted = 2 * m
        /\ posted % 2 # 0 => m \in 1..l /\ posted = 2 * m - 1
    BY <2>1
  <2> QED BY <2>2, <1>2 DEF m, l
<1>4. call \in {"saveDone", "saveMove", "findQuant"}
  BY <1>2
<1>5. call \in Carrying /\ call \in Calls /\ call \notin Settling
  BY <1>4 DEF Carrying, Settling, Calls
<1>6. Held(call, c)
  BY <1>4 DEF Held, Settling
<1>7. Carried(call, row, c)
  BY <1>2, <1>3, <1>4 DEF Carried, Settling
<1> QED
  BY <1>5, <1>6, <1>7 DEF call

LEMMA SavePickingStep ==
  ASSUME TypeOK, RequestsInv, NEW h \in Handlers, SavePicking(h)
  PROVE  RequestsInv' /\ TypeRest'
<1> DEFINE row == [kind |-> ctx[h].kind, lines |-> ctx[h].lines, moves |-> 0, posted |-> 0,
                   state |-> "draft"]
           n == Len(pickings) + 1
           c == [ctx[h] EXCEPT !.picking = n]
           call == AfterPost(row, 0)
<1>1. /\ Moved(h, call, c) /\ pc[h] = "savePicking" /\ pickings' = Append(pickings, row)
      /\ UNCHANGED <<quants, custody, period, raced, contended, answered>>
      /\ Len(pickings) < MaxPickings
  BY DEF SavePicking, Goto, Keep, Moved
<1>2. /\ ctx[h] \in Context /\ ctx[h].kind \in Kinds /\ ctx[h].lines \in Dto
      /\ (ctx[h].kind = "outgoing" => ctx[h].checked = Len(ctx[h].lines))
      /\ ctx[h].picking = 0 /\ Len(ctx[h].lines) \in Nat
  BY <1>1, ContextTypes, DtoFacts DEF RequestsInv, HeldInv, Held
<1>3. row \in PickingRow
  BY <1>2, StockAssumption DEF PickingRow
<1>4. Len(pickings) \in Nat /\ DOMAIN pickings = 1..Len(pickings) /\ pickings \in Seq(PickingRow)
      /\ MaxPickings \in Nat
  BY PickingTypes, StockAssumption DEF TypeOK
<1>5. /\ c \in Context /\ c.picking = n /\ n # 0
      /\ c.lines = ctx[h].lines /\ c.kind = ctx[h].kind /\ c.checked = ctx[h].checked
  <2>1. n \in 0..MaxPickings /\ n # 0
    BY <1>1, <1>4
  <2> HIDE DEF n
  <2> QED BY <1>2, <2>1 DEF Context
<1>6. call \in Carrying /\ call \in Calls /\ call \notin Settling
      /\ Held(call, c) /\ Carried(call, row, c)
  <2>1. 0 \in 0..(2 * Len(row.lines))
    BY <1>2
  <2>2. /\ row.lines = c.lines /\ row.kind = c.kind /\ row.state = "draft"
        /\ row.posted = 0 /\ (c.kind = "outgoing" => c.checked = Len(c.lines))
        /\ c.picking # 0 /\ row.moves <= Len(row.lines) /\ 0 = 2 * row.moves
    <3> HIDE DEF c, n
    <3> QED BY <1>2, <1>5
  <2> HIDE DEF row, c, n
  <2>3. /\ AfterPost(row, 0) \in Carrying /\ AfterPost(row, 0) \in Calls
        /\ AfterPost(row, 0) \notin Settling
        /\ Held(AfterPost(row, 0), c) /\ Carried(AfterPost(row, 0), row, c)
    BY <1>3, <2>1, <2>2, AfterPostFacts
  <2> QED BY <2>3
<1> HIDE DEF row, c, call, n
<1>7. /\ pickings' \in Seq(PickingRow) /\ Len(pickings') = n
      /\ DOMAIN pickings' = 1..n /\ pickings'[n] = row
      /\ \A i \in DOMAIN pickings : pickings'[i] = pickings[i]
  BY <1>1, <1>3, <1>4, AppendProperties, LenProperties DEF n
<1>8. DOMAIN pickings' = DOMAIN pickings \cup {n} /\ n \notin DOMAIN pickings
      /\ Len(pickings') <= MaxPickings
  BY <1>1, <1>4, <1>7 DEF n
<1>9. HeldInv' /\ CarriedInv' /\ OwnPickings' /\ CustodyInv'
  <2>1. custody \in Nat /\ custody' = custody
    BY <1>1 DEF TypeOK
  <2>2. c.picking \in DOMAIN pickings' /\ Carried(call, pickings'[c.picking], c)
        /\ c.picking \notin DOMAIN pickings
    BY <1>5, <1>6, <1>7, <1>8
  <2>3. DOMAIN pickings \subseteq DOMAIN pickings'
        /\ \A k \in DOMAIN pickings \ {ctx[h].picking} : pickings'[k] = pickings[k]
    BY <1>7, <1>8
  <2>4. call \notin {"findPeriod", "savePeriod"}
    BY <1>6 DEF Settling
  <2> QED BY <1>1, <1>5, <1>6, <2>1, <2>2, <2>3, <2>4, RequestsKept DEF RequestsInv
<1>10. pc' \in [Handlers -> Calls] /\ ctx' \in [Handlers -> Context]
  BY <1>1, <1>5, <1>6, MovedFacts
<1>11. PickingsInv' /\ DoneIsPosted'
  <2>1. row.posted = 0 /\ row.state = "draft" /\ row.lines = ctx[h].lines
    BY DEF row
  <2> SUFFICES ASSUME NEW k \in DOMAIN pickings'
               PROVE  /\ pickings'[k].posted <= 2 * Len(pickings'[k].lines)
                      /\ pickings'[k].state = "done" =>
                           /\ pickings'[k].moves = Len(pickings'[k].lines)
                           /\ pickings'[k].posted = 2 * Len(pickings'[k].lines)
    BY DEF PickingsInv, DoneIsPosted
  <2>2. CASE k \in DOMAIN pickings
    BY <2>2, <1>7 DEF RequestsInv, PickingsInv, DoneIsPosted
  <2>3. CASE k = n
    BY <2>3, <2>1, <1>2, <1>7
  <2> QED BY <2>2, <2>3, <1>8
<1>12. AnsweredIsInCustody'
  BY <1>1 DEF RequestsInv, AnsweredIsInCustody
<1> QED
  BY <1>1, <1>7, <1>8, <1>9, <1>10, <1>11, <1>12 DEF RequestsInv, TypeRest, TypeOK

\* A step that changes the picking of its request and nothing else of the requests.
LEMMA OwnPickingStep ==
  ASSUME TypeOK, RequestsInv, NEW h \in Handlers, pc[h] \in Carrying,
         NEW row \in PickingRow, pickings' = [pickings EXCEPT ![ctx[h].picking] = row],
         NEW call \in Calls, NEW c \in Context, Moved(h, call, c), Held(call, c),
         call \in Carrying => c.picking = ctx[h].picking /\ Carried(call, row, c),
         c.picking \in {0, ctx[h].picking}, call \notin {"findPeriod", "savePeriod"},
         row.posted <= 2 * Len(row.lines),
         row.state = "done" => row.moves = Len(row.lines) /\ row.posted = 2 * Len(row.lines),
         UNCHANGED <<custody, period, contended, answered>>, raced' \subseteq Entries
  PROVE  RequestsInv' /\ TypeRest'
<1> DEFINE k == ctx[h].picking
<1>1. k \in DOMAIN pickings
  BY OwnPicking DEF RequestsInv
<1>2. /\ pickings' \in Seq(PickingRow) /\ Len(pickings') = Len(pickings)
      /\ DOMAIN pickings' = DOMAIN pickings /\ pickings'[k] = row
      /\ \A i \in DOMAIN pickings \ {k} : pickings'[i] = pickings[i]
  BY <1>1, PickingChanged
<1>3. HeldInv' /\ CarriedInv' /\ OwnPickings' /\ CustodyInv'
  <2>1. call \in Carrying => /\ c.picking \in DOMAIN pickings'
                             /\ Carried(call, pickings'[c.picking], c)
    BY <1>1, <1>2
  <2>2. custody \in Nat
    BY DEF TypeOK
  <2> QED BY <1>2, <2>1, <2>2, RequestsKept DEF RequestsInv
<1>4. pc' \in [Handlers -> Calls] /\ ctx' \in [Handlers -> Context]
  BY MovedFacts
<1>5. PickingsInv' /\ DoneIsPosted'
  <2> SUFFICES ASSUME NEW i \in DOMAIN pickings'
               PROVE  /\ pickings'[i].posted <= 2 * Len(pickings'[i].lines)
                      /\ pickings'[i].state = "done" =>
                           /\ pickings'[i].moves = Len(pickings'[i].lines)
                           /\ pickings'[i].posted = 2 * Len(pickings'[i].lines)
    BY DEF PickingsInv, DoneIsPosted
  <2>1. CASE i = k
    BY <2>1, <1>2
  <2>2. CASE i # k
    BY <2>2, <1>2 DEF RequestsInv, PickingsInv, DoneIsPosted
  <2> QED BY <2>1, <2>2
<1>6. AnsweredIsInCustody'
  BY DEF RequestsInv, AnsweredIsInCustody
<1> QED
  BY <1>2, <1>3, <1>4, <1>5, <1>6 DEF RequestsInv, TypeRest, TypeOK

LEMMA SaveMoveStep ==
  ASSUME TypeOK, RequestsInv, NEW h \in Handlers, SaveMove(h)
  PROVE  RequestsInv' /\ TypeRest'
<1> DEFINE k == ctx[h].picking
           row == [pickings[k] EXCEPT !.moves = @ + 1]
<1>1. /\ pc[h] = "saveMove" /\ pc[h] \in Carrying /\ Goto(h, "findQuant") /\ ctx' = ctx
      /\ UNCHANGED <<quants, custody, period, raced, contended, answered>>
      /\ pickings' = [pickings EXCEPT ![k] = row]
  BY DEF SaveMove, Carrying
<1>2. /\ Moved(h, "findQuant", ctx[h]) /\ "findQuant" \in Calls
      /\ ctx[h] \in Context /\ Held("saveMove", ctx[h])
  BY <1>1, StayFacts, ContextTypes DEF Calls, RequestsInv, HeldInv
<1>3. /\ pickings[k] \in PickingRow /\ Carried("saveMove", pickings[k], ctx[h])
      /\ Len(pickings[k].lines) \in 0..MaxLines /\ Len(pickings[k].lines) \in Nat
      /\ pickings[k].moves \in Nat
  BY <1>1, OwnPicking DEF Picking, RequestsInv
<1>4. /\ row.moves = pickings[k].moves + 1 /\ row.lines = pickings[k].lines
      /\ row.kind = pickings[k].kind /\ row.posted = pickings[k].posted
      /\ row.state = pickings[k].state
  BY <1>3 DEF PickingRow
<1>5. row.moves \in 1..Len(row.lines) /\ row.posted = 2 * row.moves - 2 /\ row.state = "draft"
      /\ row.posted <= 2 * Len(row.lines)
  <2>1. /\ pickings[k].moves < Len(pickings[k].lines)
        /\ pickings[k].posted = 2 * pickings[k].moves /\ pickings[k].state = "draft"
    BY <1>3 DEF Carried, Settling
  <2> HIDE DEF row, k
  <2> QED BY <1>3, <1>4, <2>1
<1>6. row \in PickingRow
  <2>1. pickings[k].moves + 1 \in 0..MaxLines
    BY <1>3, StockAssumption DEF Carried
  <2> QED BY <1>3, <2>1 DEF PickingRow
<1> HIDE DEF row
<1>7. Held("findQuant", ctx[h]) /\ Carried("findQuant", row, ctx[h])
  BY <1>2, <1>3, <1>4, <1>5 DEF Held, Carried, Carrying, Settling
<1>8. raced' \subseteq Entries
  BY <1>1 DEF TypeOK
<1> QED
  BY <1>1, <1>2, <1>5, <1>6, <1>7, <1>8, OwnPickingStep

LEMMA SaveDoneStep ==
  ASSUME TypeOK, RequestsInv, NEW h \in Handlers, SaveDone(h)
  PROVE  RequestsInv' /\ TypeRest'
<1> DEFINE k == ctx[h].picking
           row == [pickings[k] EXCEPT !.state = "done"]
<1>1. /\ pc[h] = "saveDone" /\ pc[h] \in Carrying
      /\ UNCHANGED <<quants, custody, period, raced, contended, answered>>
      /\ pickings' = [pickings EXCEPT ![k] = row]
  BY DEF SaveDone, Carrying
<1>2. ctx[h] \in Context /\ Held("saveDone", ctx[h]) /\ ctx[h].kind \in Kinds
  BY <1>1, ContextTypes DEF RequestsInv, HeldInv
<1>3. /\ pickings[k] \in PickingRow /\ Carried("saveDone", pickings[k], ctx[h])
      /\ Len(pickings[k].lines) \in Nat
  BY <1>1, OwnPicking DEF Picking, RequestsInv
<1>4. /\ row.moves = pickings[k].moves /\ row.lines = pickings[k].lines
      /\ row.kind = pickings[k].kind /\ row.posted = pickings[k].posted
      /\ row.state = "done" /\ row \in PickingRow
  BY <1>3 DEF PickingRow
<1> HIDE DEF row
<1>5. row.moves = Len(row.lines) /\ row.posted = 2 * Len(row.lines)
  BY <1>3, <1>4 DEF Carried
<1>6. row.posted <= 2 * Len(row.lines)
  BY <1>3, <1>4, <1>5
<1>7. raced' \subseteq Entries
  BY <1>1 DEF TypeOK
<1>8. CASE ctx[h].kind = "outgoing"
  <2>1. Moved(h, "idle", NoContext)
    BY <1>8 DEF SaveDone, Leave, Goto, Keep, Moved
  <2>2. "idle" \in Calls /\ NoContext \in Context /\ Held("idle", NoContext)
        /\ "idle" \notin Carrying /\ NoContext.picking = 0
    BY ContextTypes DEF Calls, Held, Carrying, Settling, NoContext
  <2> QED BY <1>1, <1>4, <1>5, <1>6, <1>7, <2>1, <2>2, OwnPickingStep
<1>9. CASE ctx[h].kind = "incoming"
  <2>1. Moved(h, "findCustody", ctx[h]) /\ "findCustody" \in Calls
    BY <1>9, StayFacts DEF SaveDone, Calls
  <2>2. Held("findCustody", ctx[h]) /\ Carried("findCustody", row, ctx[h])
    BY <1>2, <1>3, <1>4, <1>9 DEF Held, Carried, Carrying, Settling
  <2> QED BY <1>1, <1>2, <1>4, <1>5, <1>6, <1>7, <2>1, <2>2, OwnPickingStep
<1> QED
  BY <1>2, <1>8, <1>9 DEF Kinds

\* What saving a quant does to the picking and to its request.
LEMMA SaveQuantFacts ==
  ASSUME TypeOK, RequestsInv, NEW h \in Handlers, SaveQuant(h)
  PROVE  LET k == ctx[h].picking
             j == Picking(h).posted + 1
             row == [pickings[k] EXCEPT !.posted = j]
         IN /\ pc[h] = "saveQuant" /\ k \in DOMAIN pickings
            /\ j \in Adjustments(Picking(h)) /\ j \in Nat
            /\ row \in PickingRow /\ row.posted = j /\ j <= 2 * Len(row.lines)
            /\ row.kind = Picking(h).kind /\ row.lines = Picking(h).lines
            /\ row.moves = Picking(h).moves /\ row.state = Picking(h).state
            /\ pickings' = [pickings EXCEPT ![k] = row]
            /\ Moved(h, AfterPost(row, j), ctx[h])
            /\ UNCHANGED <<custody, period, ctx, contended, answered>>
<1> DEFINE k == ctx[h].picking
           j == Picking(h).posted + 1
           row == [pickings[k] EXCEPT !.posted = j]
<1>1. /\ pc[h] = "saveQuant" /\ pc[h] \in Carrying /\ pickings' = [pickings EXCEPT ![k] = row]
      /\ Goto(h, AfterPost(Picking(h), j))
      /\ UNCHANGED <<custody, period, ctx, contended, answered>>
  BY DEF SaveQuant, Carrying
<1>2. /\ Picking(h) \in PickingRow /\ k \in DOMAIN pickings /\ Picking(h).posted \in Nat
      /\ Len(Picking(h).lines) \in 0..MaxLines
  BY <1>1, OwnPicking DEF RequestsInv
<1>3. j \in Adjustments(Picking(h)) /\ j \in Nat
  BY <1>1, <1>2, NextAdjustment DEF RequestsInv
<1>4. j \in 0..(2 * MaxLines)
  BY <1>2, <1>3, StockAssumption DEF Adjustments
<1>5. /\ row \in PickingRow /\ row.posted = j
      /\ row.kind = Picking(h).kind /\ row.lines = Picking(h).lines
      /\ row.moves = Picking(h).moves /\ row.state = Picking(h).state
  <2> HIDE DEF j
  <2> QED BY <1>2, <1>4 DEF PickingRow, Picking
<1>6. j <= 2 * Len(row.lines)
  BY <1>2, <1>3, <1>5 DEF Adjustments
<1>7. AfterPost(Picking(h), j) = AfterPost(row, j)
  <2> HIDE DEF row
  <2> QED BY <1>5 DEF AfterPost
<1>8. Moved(h, AfterPost(row, j), ctx[h])
  <2> HIDE DEF row, j
  <2> QED BY <1>1, <1>7, StayFacts
<1> QED
  BY <1>1, <1>2, <1>3, <1>5, <1>6, <1>8

LEMMA SaveQuantStep ==
  ASSUME TypeOK, RequestsInv, NEW h \in Handlers, SaveQuant(h)
  PROVE  RequestsInv' /\ TypeRest'
<1> DEFINE k == ctx[h].picking
           j == Picking(h).posted + 1
           row == [pickings[k] EXCEPT !.posted = j]
           call == AfterPost(row, j)
<1>1. /\ pc[h] = "saveQuant" /\ k \in DOMAIN pickings
      /\ j \in Adjustments(Picking(h)) /\ j \in Nat
      /\ row \in PickingRow /\ row.posted = j /\ j <= 2 * Len(row.lines)
      /\ row.kind = Picking(h).kind /\ row.lines = Picking(h).lines
      /\ row.moves = Picking(h).moves /\ row.state = Picking(h).state
      /\ pickings' = [pickings EXCEPT ![k] = row]
      /\ Moved(h, AfterPost(row, j), ctx[h])
      /\ UNCHANGED <<custody, period, ctx, contended, answered>>
  BY SaveQuantFacts
<1>2. pc[h] \in Carrying /\ ctx[h] \in Context /\ Held("saveQuant", ctx[h])
  BY <1>1, ContextTypes DEF Carrying, RequestsInv, HeldInv
<1>3. /\ Carried("saveQuant", Picking(h), ctx[h]) /\ ctx[h].picking # 0
      /\ Picking(h).moves \in Nat /\ Picking(h).posted \in Nat
      /\ Len(Picking(h).lines) \in Nat
  BY <1>1, <1>2, OwnPicking DEF RequestsInv
<1>4. /\ row.lines = ctx[h].lines /\ row.kind = ctx[h].kind /\ row.state = "draft"
      /\ row.moves <= Len(row.lines) /\ j \in 0..(2 * Len(row.lines))
      /\ j = 2 * row.moves \/ j = 2 * row.moves - 1
  <2> HIDE DEF row
  <2> QED BY <1>1, <1>3 DEF Carried, Settling
<1>5. ctx[h].kind = "outgoing" => ctx[h].checked = Len(ctx[h].lines)
  BY <1>2 DEF Held, Carrying
<1> HIDE DEF row, j
<1>6. call \in Carrying /\ call \in Calls /\ call \notin Settling
      /\ Held(call, ctx[h]) /\ Carried(call, row, ctx[h])
  BY <1>1, <1>3, <1>4, <1>5, AfterPostFacts
<1>7. call \notin {"findPeriod", "savePeriod"}
  BY <1>6 DEF Settling
<1>8. raced' \subseteq Entries
  <2>1. AtEntry(h) \in Entries
    BY <1>1, NextAdjustment DEF RequestsInv
  <2> QED BY <2>1 DEF SaveQuant, TypeOK
<1>9. Moved(h, call, ctx[h]) /\ UNCHANGED <<custody, period, contended, answered>>
  BY <1>1
<1> HIDE DEF call, k
<1> QED
  BY <1>1, <1>2, <1>4, <1>6, <1>7, <1>8, <1>9, OwnPickingStep DEF k

LEMMA RequestsStep ==
  ASSUME TypeOK, RequestsInv, NEW h \in Handlers, Turn(h)
  PROVE  RequestsInv' /\ TypeRest'
<1>1. NotAvailable(h) \/ NoFirstLine(h) \/ PeriodTaken(h) \/ IdsUsedUp(h) \/ Fail(h) => Throw(h)
  BY DEF NotAvailable, NoFirstLine, PeriodTaken, IdsUsedUp, Fail
<1>2. \/ \E lines \in Dto : StartReceipt(h, lines) \/ StartPickingOrder(h, lines)
      \/ CheckLine(h) \/ SavePicking(h) \/ SaveMove(h) \/ FindQuant(h) \/ SaveQuant(h)
      \/ SaveDone(h) \/ FindCustody(h) \/ SaveCustody(h) \/ FindPeriod(h) \/ SavePeriod(h)
      \/ Throw(h)
  BY <1>1 DEF Turn, Continue
<1> QED
  BY <1>2, StartReceiptStep, StartPickingOrderStep, CheckLineStep, SavePickingStep,
     SaveMoveStep, FindQuantStep, SaveQuantStep, SaveDoneStep, SettlingStep, ThrowStep

-----------------------------------------------------------------------------
(***************************************************************************)
(* The ledger                                                              *)
(***************************************************************************)
LedgerInv == BoundInv /\ FoundInv /\ OneRow /\ LedgerExact

LEMMA LedgerSidesNext ==
  \A e : /\ Balance(e)' = BalanceIn(quants', e)
         /\ Posted(e)' = PostedIn(pickings', e)
<1> SUFFICES ASSUME NEW e
             PROVE  /\ Balance(e)' = BalanceIn(quants', e)
                    /\ Posted(e)' = PostedIn(pickings', e)
  OBVIOUS
<1>1. Balance(e)' = BalanceIn(quants', e)
  BY Zenon DEF Balance, BalanceIn, QuantSum, RowsOf, RowsIn, MapThenSumSet, MapThenFoldSet
<1>2. Posted(e)' = PostedIn(pickings', e)
  BY Zenon DEF Posted, PostedIn, MapThenSumSet, MapThenFoldSet
<1> QED
  BY <1>1, <1>2

LEMMA BoundArithmetic ==
  \A a, b, c, q \in Nat : c <= a * b => q * c <= a * b * q
<1> SUFFICES ASSUME NEW a \in Nat, NEW b \in Nat, NEW c \in Nat, NEW q \in Nat, c <= a * b
             PROVE  q * c <= a * b * q
  OBVIOUS
<1>1. PICK m \in Nat : m = a * b
  OBVIOUS
<1>2. c <= m => q * c <= m * q
  OBVIOUS
<1> QED
  BY <1>1, <1>2

LEMMA HitsBound ==
  ASSUME NEW H, H \subseteq (1..MaxPickings) \X (1..MaxLines)
  PROVE  IsFiniteSet(H) /\ Cardinality(H) \in Nat /\ MaxQty * Cardinality(H) \in 0..Most
<1>1. MaxPickings \in Nat /\ MaxLines \in Nat /\ MaxQty \in Nat
  BY StockAssumption
<1>2. /\ IsFiniteSet(1..MaxPickings) /\ Cardinality(1..MaxPickings) = MaxPickings
      /\ IsFiniteSet(1..MaxLines) /\ Cardinality(1..MaxLines) = MaxLines
  BY <1>1, FS_Interval
<1> DEFINE P == (1..MaxPickings) \X (1..MaxLines)
<1>3. IsFiniteSet(P) /\ Cardinality(P) = MaxPickings * MaxLines
  BY <1>2, FS_Product
<1>4. IsFiniteSet(H) /\ Cardinality(H) <= Cardinality(P)
  BY <1>3, FS_Subset
<1>5. Cardinality(H) \in Nat
  BY <1>4, FS_CardinalityType
<1>6. MaxQty * Cardinality(H) <= MaxPickings * MaxLines * MaxQty
  BY <1>1, <1>3, <1>4, <1>5, BoundArithmetic
<1> DEFINE c == Cardinality(H)
<1>7. MaxQty * c \in Nat
  <2> HIDE DEF c
  <2> QED BY <1>1, <1>5 DEF c
<1> QED
  BY <1>1, <1>4, <1>5, <1>6, <1>7 DEF Most

LEMMA ReachFacts ==
  \A ps, e : Reach(ps, e) \in 0..Most /\ Reach(ps, e) \in Nat
<1>1. Most \in Nat
  BY StockAssumption DEF Most
<1>2. \A ps, e : Reach(ps, e) \in 0..Most
  BY HitsBound DEF Reach, Hits
<1> QED
  BY <1>1, <1>2

\* A step that adjusts nothing.
SameAdjustments ==
  /\ \A k \in DOMAIN pickings :
       /\ k \in DOMAIN pickings'
       /\ pickings'[k].kind = pickings[k].kind /\ pickings'[k].lines = pickings[k].lines
       /\ pickings'[k].posted = pickings[k].posted
  /\ \A k \in DOMAIN pickings' \ DOMAIN pickings : pickings'[k].posted = 0
  /\ \A e : PostedIn(pickings', e) = PostedIn(pickings, e)

LEMMA QuietTurn ==
  ASSUME TypeOK, RequestsInv, NEW h \in Handlers, Turn(h), ~SaveQuant(h)
  PROVE  /\ SameAdjustments /\ UNCHANGED <<quants, raced>>
         /\ \A g \in Handlers \ {h} : pc'[g] = pc[g] /\ ctx'[g] = ctx[g]
         /\ pc'[h] = "saveQuant" => FindQuant(h)
<1>1. pc \in [Handlers -> Calls] /\ ctx \in [Handlers -> Context]
  BY DEF TypeOK
<1>2. /\ \A g \in Handlers \ {h} : pc'[g] = pc[g] /\ ctx'[g] = ctx[g]
      /\ pc'[h] = "saveQuant" => FindQuant(h)
      /\ UNCHANGED <<quants, raced>>
  BY <1>1 DEF Turn, Continue, StartReceipt, StartPickingOrder, CheckLine, NotAvailable,
     SavePicking, SaveMove, FindQuant, SaveDone, FindCustody, SaveCustody, NoFirstLine,
     FindPeriod, SavePeriod, PeriodTaken, IdsUsedUp, Fail, Throw, Answer, Leave, Goto, Keep,
     AfterPost, tables
<1>3. ASSUME pickings' = pickings PROVE SameAdjustments
  BY <1>3 DEF SameAdjustments
<1>4. pickings \in Seq(PickingRow) /\ Posting(pickings)
  BY DEF TypeOK, RequestsInv, PickingsInv, Posting
<1>5. ASSUME SavePicking(h) PROVE SameAdjustments
  <2> DEFINE row == [kind |-> ctx[h].kind, lines |-> ctx[h].lines, moves |-> 0,
                     posted |-> 0, state |-> "draft"]
  <2>1. pickings' = Append(pickings, row) /\ row.posted = 0
    BY <1>5 DEF SavePicking
  <2>2. row \in PickingRow
    BY ContextTypes, StockAssumption DEF PickingRow
  <2> HIDE DEF row
  <2>3. \A e : PostedIn(pickings', e) = PostedIn(pickings, e)
    BY <1>4, <2>1, <2>2, PostedInsert
  <2>4. /\ DOMAIN pickings = 1..Len(pickings) /\ Len(pickings) \in Nat
        /\ DOMAIN pickings' = 1..(Len(pickings) + 1)
        /\ pickings'[Len(pickings) + 1] = row
        /\ \A k \in 1..Len(pickings) : pickings'[k] = pickings[k]
    BY <1>4, <2>1, <2>2, AppendProperties, LenProperties
  <2>5. \A k \in DOMAIN pickings' \ DOMAIN pickings : k = Len(pickings) + 1
    BY <2>4
  <2>6. \A k \in DOMAIN pickings : k \in DOMAIN pickings' /\ pickings'[k] = pickings[k]
    BY <2>4
  <2>7. \A k \in DOMAIN pickings' \ DOMAIN pickings : pickings'[k].posted = 0
    BY <2>1, <2>4, <2>5
  <2> QED BY <2>3, <2>6, <2>7 DEF SameAdjustments
<1>6. ASSUME SaveMove(h) \/ SaveDone(h) PROVE SameAdjustments
  <2> DEFINE k == ctx[h].picking
  <2>1. k \in DOMAIN pickings
    BY <1>6, OwnPicking DEF SaveMove, SaveDone, Carrying, RequestsInv
  <2>2. pickings[k] \in PickingRow
    BY <2>1, PickingTypes
  <2>3. PICK row : /\ pickings' = [pickings EXCEPT ![k] = row]
                   /\ row.kind = pickings[k].kind /\ row.lines = pickings[k].lines
                   /\ row.posted = pickings[k].posted
    <3>1. CASE SaveMove(h)
      <4> DEFINE r == [pickings[k] EXCEPT !.moves = @ + 1]
      <4>1. /\ r.kind = pickings[k].kind /\ r.lines = pickings[k].lines
            /\ r.posted = pickings[k].posted
        BY <2>2 DEF PickingRow
      <4>2. pickings' = [pickings EXCEPT ![k] = r]
        BY <3>1 DEF SaveMove
      <4> HIDE DEF r
      <4> QED BY <4>1, <4>2
    <3>2. CASE SaveDone(h)
      <4> DEFINE r == [pickings[k] EXCEPT !.state = "done"]
      <4>1. /\ r.kind = pickings[k].kind /\ r.lines = pickings[k].lines
            /\ r.posted = pickings[k].posted
        BY <2>2 DEF PickingRow
      <4>2. pickings' = [pickings EXCEPT ![k] = r]
        BY <3>2 DEF SaveDone
      <4> HIDE DEF r
      <4> QED BY <4>1, <4>2
    <3> QED BY <3>1, <3>2, <1>6
  <2> HIDE DEF k
  <2>4. \A e : PostedIn(pickings', e) = PostedIn(pickings, e)
    <3> SUFFICES ASSUME NEW e PROVE PostedIn(pickings', e) = PostedIn(pickings, e)
      OBVIOUS
    <3>1. PostedBy(row, e) = PostedBy(pickings[k], e) /\ PostedBy(pickings[k], e) \in Int
      BY <1>4, <2>1, <2>2, <2>3, PostedBySame, PostedFacts DEF Posting
    <3>2. PICK d \in Int : d = 0
      OBVIOUS
    <3>3. PostedBy(row, e) = PostedBy(pickings[k], e) + d
      BY <3>1, <3>2
    <3>4. PostedIn([pickings EXCEPT ![k] = row], e) = PostedIn(pickings, e) + d
      BY <1>4, <2>1, <3>3, PostedUpdate
    <3>5. PostedIn(pickings, e) \in Int
      BY <1>4, PostedInInt
    <3> QED BY <2>3, <3>2, <3>4, <3>5
  <2>5. /\ DOMAIN pickings' = DOMAIN pickings /\ pickings'[k] = row
        /\ \A i \in DOMAIN pickings \ {k} : pickings'[i] = pickings[i]
    BY <2>1, <2>3
  <2> QED BY <2>3, <2>4, <2>5 DEF SameAdjustments
<1>7. \/ pickings' = pickings \/ SavePicking(h) \/ SaveMove(h) \/ SaveDone(h)
  BY DEF Turn, Continue, StartReceipt, StartPickingOrder, CheckLine, NotAvailable,
     FindQuant, FindCustody, SaveCustody, NoFirstLine,
     FindPeriod, SavePeriod, PeriodTaken, IdsUsedUp, Fail, Throw, tables
<1>8. SameAdjustments
  BY <1>3, <1>5, <1>6, <1>7
<1> QED
  BY <1>2, <1>8

LEMMA EntryKept ==
  ASSUME SameAdjustments, TypeOK, RequestsInv, NEW g \in Handlers,
         pc[g] \in {"findQuant", "saveQuant"}, NEW c, c.picking = ctx[g].picking
  PROVE  NextEntry(pickings', c) = NextEntry(pickings, ctx[g])
<1> DEFINE k == ctx[g].picking
<1>1. k \in DOMAIN pickings
  BY OwnPicking DEF RequestsInv, Carrying
<1>2. /\ pickings'[k].kind = pickings[k].kind /\ pickings'[k].lines = pickings[k].lines
      /\ pickings'[k].posted = pickings[k].posted
  BY <1>1 DEF SameAdjustments
<1>3. EntryOf(pickings'[k], pickings'[k].posted + 1)
      = EntryOf(pickings[k], pickings[k].posted + 1)
  BY <1>2, AdjustmentsAlike
<1> QED
  BY <1>3 DEF NextEntry

LEMMA ReachKept ==
  ASSUME SameAdjustments
  PROVE  \A e : Reach(pickings', e) = Reach(pickings, e)
<1> SUFFICES ASSUME NEW e PROVE Reach(pickings', e) = Reach(pickings, e)
  OBVIOUS
<1> DEFINE P == (1..MaxPickings) \X (1..MaxLines)
           At(ps, x) == \E j \in {2 * x[2] - 1, 2 * x[2]} : /\ j <= ps[x[1]].posted
                                                           /\ EntryOf(ps[x[1]], j) = e
<1>1. \A x \in P : /\ x[1] \in DOMAIN pickings => x[1] \in DOMAIN pickings'
                   /\ x[1] \in DOMAIN pickings => (At(pickings', x) <=> At(pickings, x))
                   /\ x[1] \in DOMAIN pickings' \ DOMAIN pickings => ~At(pickings', x)
  <2> SUFFICES ASSUME NEW x \in P
               PROVE  /\ x[1] \in DOMAIN pickings => x[1] \in DOMAIN pickings'
                      /\ x[1] \in DOMAIN pickings => (At(pickings', x) <=> At(pickings, x))
                      /\ x[1] \in DOMAIN pickings' \ DOMAIN pickings => ~At(pickings', x)
    OBVIOUS
  <2>1. x[2] \in Nat /\ x[2] >= 1
    OBVIOUS
  <2>2. x[1] \in DOMAIN pickings =>
          \A j : EntryOf(pickings'[x[1]], j) = EntryOf(pickings[x[1]], j)
    BY AdjustmentsAlike DEF SameAdjustments
  <2>3. x[1] \in DOMAIN pickings => (At(pickings', x) <=> At(pickings, x))
    BY <2>2 DEF SameAdjustments
  <2>4. x[1] \in DOMAIN pickings' \ DOMAIN pickings => ~At(pickings', x)
    BY <2>1 DEF SameAdjustments
  <2> QED BY <2>3, <2>4 DEF SameAdjustments
<1>2. Hits(pickings, e) = {x \in P : x[1] \in DOMAIN pickings /\ At(pickings, x)}
  BY DEF Hits
<1>3. Hits(pickings', e) = {x \in P : x[1] \in DOMAIN pickings' /\ At(pickings', x)}
  BY DEF Hits
<1>4. Hits(pickings', e) = Hits(pickings, e)
  <2> HIDE DEF P, At
  <2> QED BY <1>1, <1>2, <1>3
<1> QED
  BY <1>4 DEF Reach

LEMMA QuietLedger ==
  ASSUME TypeOK, RequestsInv, LedgerInv, NEW h \in Handlers, Turn(h), ~SaveQuant(h)
  PROVE  LedgerInv' /\ quants' \in Seq(QuantRow)
<1>1. /\ SameAdjustments /\ quants' = quants /\ raced' = raced
      /\ \A g \in Handlers \ {h} : pc'[g] = pc[g] /\ ctx'[g] = ctx[g]
      /\ pc'[h] = "saveQuant" => FindQuant(h)
  BY QuietTurn
<1>2. \A e : Reach(pickings', e) = Reach(pickings, e)
  BY <1>1, ReachKept
<1>3. OneRow'
  BY <1>1 DEF LedgerInv, OneRow
<1>4. LedgerExact'
  BY <1>1, LedgerSides, LedgerSidesNext DEF LedgerInv, LedgerExact, SameAdjustments
<1>5. ASSUME NEW g \in Handlers, pc'[g] = "saveQuant", g # h
      PROVE  /\ pc[g] = "saveQuant" /\ ctx'[g] = ctx[g]
             /\ NextEntry(pickings', ctx'[g]) = NextEntry(pickings, ctx[g])
  BY <1>1, <1>5, EntryKept
<1>6. ASSUME pc'[h] = "saveQuant"
      PROVE  LET e == NextEntry(pickings, ctx[h])  c == ctx'[h]
             IN /\ NextEntry(pickings', c) = e /\ e \in Entries
                /\ \/ /\ c.row \in RowsIn(quants, e) /\ c.row # 0
                      /\ c.found = quants[c.row].quantity
                   \/ RowsIn(quants, e) = {} /\ c.row = 0 /\ c.found = 0
  <2>1. FindQuant(h) /\ pc[h] = "findQuant" /\ ctx[h] \in Context
    BY <1>1, <1>6, ContextTypes DEF FindQuant
  <2>2. ctx \in [Handlers -> Context]
    BY DEF TypeOK
  <2> DEFINE e == NextEntry(pickings, ctx[h])
  <2>3. AtEntry(h) = e /\ e \in Entries /\ RowsOf(AtEntry(h)[1], AtEntry(h)[2]) = RowsIn(quants, e)
    BY <2>1, NextAdjustment, LedgerSides DEF RequestsInv
  <2>4. DOMAIN quants = 1..Len(quants)
    BY LenProperties DEF TypeOK
  <2>5. \/ \E i \in RowsIn(quants, e) :
              ctx'[h] = [ctx[h] EXCEPT !.row = i, !.found = quants[i].quantity]
        \/ RowsIn(quants, e) = {} /\ ctx'[h] = [ctx[h] EXCEPT !.row = 0, !.found = 0]
    <3> DEFINE R == RowsOf(AtEntry(h)[1], AtEntry(h)[2])
    <3>1. \/ \E i \in R : Keep(h, [ctx[h] EXCEPT !.row = i, !.found = quants[i].quantity])
          \/ R = {} /\ Keep(h, [ctx[h] EXCEPT !.row = 0, !.found = 0])
      BY <2>1 DEF FindQuant
    <3>2. \A c : Keep(h, c) => ctx'[h] = c
      BY <2>2 DEF Keep
    <3> HIDE DEF e, R
    <3>3. R = RowsIn(quants, e)
      BY <2>3 DEF R
    <3> QED BY <3>1, <3>2, <3>3
  <2>6. ctx'[h].picking = ctx[h].picking
    BY <2>1, <2>5 DEF Context
  <2>7. NextEntry(pickings', ctx'[h]) = e
    BY <1>1, <2>1, <2>6, EntryKept
  <2> HIDE DEF e
  <2>8. 0 \notin RowsIn(quants, e)
    BY <2>4 DEF RowsIn
  <2>9. \/ /\ ctx'[h].row \in RowsIn(quants, e) /\ ctx'[h].row # 0
           /\ ctx'[h].found = quants[ctx'[h].row].quantity
        \/ RowsIn(quants, e) = {} /\ ctx'[h].row = 0 /\ ctx'[h].found = 0
    BY <2>1, <2>5, <2>8 DEF Context
  <2> QED BY <2>3, <2>7, <2>9 DEF e
<1>7. BoundInv'
  <2>1. RowsWithin(quants', pickings')
    BY <1>1, <1>2 DEF LedgerInv, BoundInv, RowsWithin
  <2>2. ASSUME NEW g \in Handlers, pc'[g] = "saveQuant"
        PROVE  FoundWithin(ctx'[g], pickings')
    <3>1. CASE g # h
      BY <1>2, <1>5, <2>2, <3>1 DEF LedgerInv, BoundInv, FoundWithin
    <3>2. CASE g = h
      <4> DEFINE e == NextEntry(pickings, ctx[h])  c == ctx'[h]
      <4>1. /\ NextEntry(pickings', c) = e /\ e \in Entries
            /\ \/ /\ c.row \in RowsIn(quants, e) /\ c.row # 0
                  /\ c.found = quants[c.row].quantity
               \/ RowsIn(quants, e) = {} /\ c.row = 0 /\ c.found = 0
        BY <1>6, <2>2, <3>2
      <4> HIDE DEF e, c
      <4>2. Reach(pickings, e) \in Nat /\ Reach(pickings', e) = Reach(pickings, e)
        BY <1>2, ReachFacts
      <4>3. \A i \in RowsIn(quants, e) : i \in DOMAIN quants /\ QuantEntry(quants[i]) = e
        <5>1. e = <<e[1], e[2]>>
          BY <4>1 DEF Entries
        <5> QED BY <5>1 DEF RowsIn, QuantEntry
      <4>4. -Reach(pickings, e) <= c.found /\ c.found <= Reach(pickings, e)
        BY <4>1, <4>2, <4>3 DEF LedgerInv, BoundInv, RowsWithin
      <4> QED BY <4>1, <4>2, <4>4, <3>2 DEF c, FoundWithin
    <3> QED BY <3>1, <3>2
  <2> QED BY <2>1, <2>2 DEF BoundInv
<1>8. FoundInv'
  <2> SUFFICES ASSUME NEW g \in Handlers, pc'[g] = "saveQuant"
               PROVE  Found(ctx'[g], NextEntry(pickings', ctx'[g]), quants', raced')
    BY DEF FoundInv
  <2>1. CASE g # h
    BY <2>1, <1>1, <1>5 DEF LedgerInv, FoundInv
  <2>2. CASE g = h
    BY <2>2, <1>1, <1>6 DEF Found
  <2> QED BY <2>1, <2>2
<1> QED
  BY <1>1, <1>3, <1>4, <1>7, <1>8 DEF LedgerInv, TypeOK

\* Saving a quant: the adjustment, seen from the pickings.
LEMMA AdjustmentSaved ==
  ASSUME TypeOK, RequestsInv, NEW h \in Handlers, SaveQuant(h),
         NEW e, e = NextEntry(pickings, ctx[h]),
         NEW d, d = DeltaOf(Picking(h), Picking(h).posted + 1)
  PROVE  /\ pc[h] = "saveQuant" /\ e \in Entries /\ d \in -MaxQty..MaxQty
         /\ ctx' = ctx /\ pc'[h] # "saveQuant" /\ contended' = contended
         /\ \A g \in Handlers \ {h} : pc'[g] = pc[g]
         /\ \A g \in Handlers \ {h} : pc[g] \in Carrying =>
              pickings'[ctx[g].picking] = pickings[ctx[g].picking]
         /\ \A f : f # e => PostedIn(pickings', f) = PostedIn(pickings, f)
         /\ PostedIn(pickings', e) = PostedIn(pickings, e) + d
<1> DEFINE k == ctx[h].picking
           j == Picking(h).posted + 1
           row == [pickings[k] EXCEPT !.posted = j]
<1>1. /\ pc[h] = "saveQuant" /\ k \in DOMAIN pickings
      /\ j \in Adjustments(Picking(h)) /\ j \in Nat
      /\ row \in PickingRow /\ row.posted = j /\ j <= 2 * Len(row.lines)
      /\ row.kind = Picking(h).kind /\ row.lines = Picking(h).lines
      /\ row.moves = Picking(h).moves /\ row.state = Picking(h).state
      /\ pickings' = [pickings EXCEPT ![k] = row]
      /\ Moved(h, AfterPost(row, j), ctx[h])
      /\ UNCHANGED <<custody, period, ctx, contended, answered>>
  BY SaveQuantFacts
<1>2. /\ Picking(h) \in PickingRow /\ Picking(h) = pickings[k] /\ Picking(h).posted \in Nat
      /\ pickings \in Seq(PickingRow) /\ Posting(pickings)
  BY <1>1, PickingTypes, OwnPicking
     DEF Picking, Carrying, TypeOK, RequestsInv, PickingsInv, Posting
<1>3. e \in Entries /\ d \in -MaxQty..MaxQty /\ EntryOf(Picking(h), j) = e
  BY <1>1, <1>2, AdjustmentFacts DEF NextEntry
<1>4. d \in Int
  BY <1>3, StockAssumption
<1> HIDE DEF row, j
<1>5. ctx' = ctx /\ contended' = contended
  BY <1>1
<1>6. pc'[h] # "saveQuant" /\ \A g \in Handlers \ {h} : pc'[g] = pc[g]
  BY <1>1 DEF TypeOK, Moved, AfterPost
<1>7. \A g \in Handlers \ {h} : pc[g] \in Carrying =>
         pickings'[ctx[g].picking] = pickings[ctx[g].picking]
  <2> SUFFICES ASSUME NEW g \in Handlers \ {h}, pc[g] \in Carrying
               PROVE  pickings'[ctx[g].picking] = pickings[ctx[g].picking]
    OBVIOUS
  <2>1. ctx[g].picking \in DOMAIN pickings /\ ctx[g].picking # 0
    BY OwnPicking DEF RequestsInv
  <2>2. ctx[g].picking # k
    BY <2>1 DEF RequestsInv, OwnPickings
  <2> HIDE DEF k
  <2> QED BY <1>1, <2>1, <2>2
<1>8. row.posted = pickings[k].posted + 1
  BY <1>1, <1>2 DEF j
<1>9. \A f : /\ f = e => PostedBy(row, f) = PostedBy(pickings[k], f) + d
             /\ f # e => PostedBy(row, f) = PostedBy(pickings[k], f)
             /\ PostedBy(pickings[k], f) \in Int
  <2> SUFFICES ASSUME NEW f
               PROVE  /\ f = e => PostedBy(row, f) = PostedBy(pickings[k], f) + d
                      /\ f # e => PostedBy(row, f) = PostedBy(pickings[k], f)
                      /\ PostedBy(pickings[k], f) \in Int
    OBVIOUS
  <2> HIDE DEF k
  <2>1. row.posted <= 2 * Len(pickings[k].lines)
    BY <1>1, <1>2
  <2>2. /\ EntryOf(pickings[k], row.posted) = f =>
             PostedBy(row, f) = PostedBy(pickings[k], f) + DeltaOf(pickings[k], row.posted)
        /\ EntryOf(pickings[k], row.posted) # f => PostedBy(row, f) = PostedBy(pickings[k], f)
    BY <1>1, <1>2, <1>8, <2>1, PostedByNext
  <2>3. d = DeltaOf(pickings[k], row.posted) /\ EntryOf(pickings[k], row.posted) = e
    BY <1>1, <1>2, <1>3 DEF j
  <2>4. PostedBy(pickings[k], f) \in Int
    BY <1>1, <1>2, PostedFacts
  <2> QED BY <2>2, <2>3, <2>4
<1>10. PostedIn(pickings', e) = PostedIn(pickings, e) + d
  <2> HIDE DEF k
  <2>1. PostedBy(row, e) = PostedBy(pickings[k], e) + d
    BY <1>9
  <2>2. k \in DOMAIN pickings /\ pickings \in Seq(PickingRow) /\ Posting(pickings)
    BY <1>1, <1>2
  <2>3. \A f : \A z \in Int : PostedBy(row, f) = PostedBy(pickings[k], f) + z =>
          PostedIn([pickings EXCEPT ![k] = row], f) = PostedIn(pickings, f) + z
    BY <2>2, PostedUpdate
  <2>4. PostedIn([pickings EXCEPT ![k] = row], e) = PostedIn(pickings, e) + d
    BY Zenon, <1>4, <2>1, <2>3
  <2> QED BY Zenon, <1>1, <2>4
<1>11. \A f : f # e => PostedIn(pickings', f) = PostedIn(pickings, f)
  <2> SUFFICES ASSUME NEW f, f # e PROVE PostedIn(pickings', f) = PostedIn(pickings, f)
    OBVIOUS
  <2> HIDE DEF k
  <2>1. PICK z \in Int : z = 0
    OBVIOUS
  <2>2. PostedBy(row, f) = PostedBy(pickings[k], f) + z
    BY <1>9, <2>1
  <2>3. PostedIn([pickings EXCEPT ![k] = row], f) = PostedIn(pickings, f) + z
    <3>1. k \in DOMAIN pickings /\ pickings \in Seq(PickingRow) /\ Posting(pickings)
      BY <1>1, <1>2
    <3>2. \A x : \A y \in Int : PostedBy(row, x) = PostedBy(pickings[k], x) + y =>
            PostedIn([pickings EXCEPT ![k] = row], x) = PostedIn(pickings, x) + y
      BY <3>1, PostedUpdate
    <3> QED BY Zenon, <2>2, <3>2
  <2>4. PostedIn(pickings, f) \in Int
    BY <1>2, PostedInInt
  <2> QED BY <1>1, <2>1, <2>3, <2>4
<1> QED
  BY <1>1, <1>3, <1>5, <1>6, <1>7, <1>10, <1>11

\* The line that an adjustment belongs to had not moved anything at the entry before.
LEMMA ReachSaved ==
  ASSUME TypeOK, RequestsInv, NEW h \in Handlers, SaveQuant(h),
         NEW e, e = NextEntry(pickings, ctx[h])
  PROVE  /\ Reach(pickings', e) = Reach(pickings, e) + MaxQty
         /\ \A f : f # e => Reach(pickings', f) = Reach(pickings, f)
<1> DEFINE k == ctx[h].picking
           j == Picking(h).posted + 1
           n == (j + 1) \div 2
           row == [pickings[k] EXCEPT !.posted = j]
           P == (1..MaxPickings) \X (1..MaxLines)
<1>1. /\ k \in DOMAIN pickings /\ j \in Adjustments(Picking(h)) /\ j \in Nat
      /\ row.posted = j /\ row.kind = Picking(h).kind /\ row.lines = Picking(h).lines
      /\ pickings' = [pickings EXCEPT ![k] = row] /\ pc[h] = "saveQuant"
  BY SaveQuantFacts
<1>2. /\ Picking(h) \in PickingRow /\ Picking(h) = pickings[k] /\ Picking(h).posted \in Nat
      /\ k \in 1..MaxPickings /\ EntryOf(Picking(h), j) = e
  BY <1>1, OwnPicking DEF Picking, Carrying, RequestsInv, NextEntry
<1>3. /\ n \in 1..Len(Picking(h).lines) /\ n \in 1..MaxLines /\ n \in Nat
      /\ j = 2 * n - 1 \/ j = 2 * n
      /\ IsTakeOut(j) <=> j = 2 * n - 1
      /\ LineOf(Picking(h), j) \in Line
  <2>1. /\ n \in 1..Len(Picking(h).lines) /\ n \in 1..MaxLines
        /\ j = 2 * n - 1 \/ j = 2 * n
        /\ IsTakeOut(j) <=> j = 2 * n - 1
        /\ LineOf(Picking(h), j) \in Line
    BY <1>1, <1>2, AdjustmentFacts
  <2> HIDE DEF n, j
  <2> QED BY <2>1
<1> HIDE DEF row
<1>4. \A i : EntryOf(row, i) = EntryOf(pickings[k], i)
  BY <1>1, <1>2, AdjustmentsAlike
<1>5. <<k, n>> \in P /\ <<k, n>> \notin Hits(pickings, e)
  <2>1. <<k, n>> \in P
    BY <1>2, <1>3
  <2>2. ASSUME <<k, n>> \in Hits(pickings, e) PROVE FALSE
    <3>1. PICK i \in {2 * n - 1, 2 * n} : i <= pickings[k].posted /\ EntryOf(pickings[k], i) = e
      BY <2>2 DEF Hits
    <3>2. i = 2 * n - 1 /\ j = 2 * n
      <4>1. i < j /\ i \in Int
        BY <1>2, <1>3, <3>1
      <4> HIDE DEF j, n
      <4> QED BY <4>1, <1>1, <1>3, <3>1
    <3>3. IsTakeOut(i) /\ ~IsTakeOut(j) /\ LineOf(Picking(h), i) = LineOf(Picking(h), j)
      <4> HIDE DEF j, n
      <4>1. (i + 1) \div 2 = (j + 1) \div 2 /\ i % 2 = 1
        BY <1>3, <3>2
      <4> QED BY <1>3, <3>2, <4>1 DEF LineOf, IsTakeOut
    <3>4. LocationOf(Picking(h), i) = LocationOf(Picking(h), j)
      BY <1>2, <3>1 DEF EntryOf
    <3>5. LineOf(Picking(h), j).place \in Places
      BY <1>3 DEF Line
    <3> HIDE DEF j, n
    <3> QED BY <3>3, <3>4, <3>5, StockAssumption DEF LocationOf
  <2> QED BY <2>1, <2>2
<1>6. \A f : Hits(pickings', f) = IF f = e THEN Hits(pickings, f) \cup {<<k, n>>}
                                  ELSE Hits(pickings, f)
  <2> SUFFICES ASSUME NEW f, NEW x \in P
               PROVE  x \in Hits(pickings', f) <=> \/ x \in Hits(pickings, f)
                                                   \/ f = e /\ x = <<k, n>>
    BY <1>5 DEF Hits
  <2>1. CASE x[1] # k
    <3> HIDE DEF k, n, P
    <3> QED BY <1>1, <2>1 DEF Hits
  <2>2. CASE x[1] = k
    <3>1. x[2] \in Nat /\ x = <<k, x[2]>>
      BY <2>2
    <3>2. x \in Hits(pickings', f) <=>
            \E i \in {2 * x[2] - 1, 2 * x[2]} : i <= j /\ EntryOf(pickings[k], i) = f
      <4> HIDE DEF k, n, j
      <4> QED BY <1>1, <1>4, <2>2 DEF Hits
    <3>3. x \in Hits(pickings, f) <=>
            \E i \in {2 * x[2] - 1, 2 * x[2]} :
              i <= pickings[k].posted /\ EntryOf(pickings[k], i) = f
      <4> HIDE DEF k, n, j
      <4> QED BY <1>1, <2>2 DEF Hits
    <3>4. \A i \in {2 * x[2] - 1, 2 * x[2]} : i <= j <=> i <= pickings[k].posted \/ i = j
      BY <1>2, <3>1
    <3>5. j \in {2 * x[2] - 1, 2 * x[2]} <=> x[2] = n
      <4> HIDE DEF n, j, k
      <4> QED BY <1>1, <1>3, <3>1
    <3>6. EntryOf(pickings[k], j) = e
      BY <1>2
    <3> HIDE DEF n, j, k, P
    <3> QED BY <3>1, <3>2, <3>3, <3>4, <3>5, <3>6
  <2> QED BY <2>1, <2>2
<1> DEFINE H == Hits(pickings, e)  c == Cardinality(H)
<1>7. IsFiniteSet(H) /\ c \in Nat
  BY HitsBound DEF Hits
<1>8. Cardinality(H \cup {<<k, n>>}) = c + 1
  <2> HIDE DEF H, k, n
  <2> QED BY <1>5, <1>7, FS_AddElement DEF H
<1>9. Reach(pickings', e) = Reach(pickings, e) + MaxQty
  <2>1. Reach(pickings', e) = MaxQty * (c + 1)
    <3> HIDE DEF k, n
    <3> QED BY <1>6, <1>8 DEF Reach
  <2>2. MaxQty * (c + 1) = MaxQty * c + MaxQty
    <3> HIDE DEF c
    <3> QED BY <1>7, StockAssumption
  <2> QED BY <2>1, <2>2 DEF Reach
<1>10. \A f : f # e => Reach(pickings', f) = Reach(pickings, f)
  <2> HIDE DEF k, n
  <2> QED BY <1>6 DEF Reach
<1> QED
  BY <1>9, <1>10

\* Saving a quant, seen from the quants.
LEMMA QuantSaved ==
  ASSUME TypeOK, RequestsInv, LedgerInv, NEW h \in Handlers, SaveQuant(h),
         NEW e, e = NextEntry(pickings, ctx[h]),
         NEW d, d = DeltaOf(Picking(h), Picking(h).posted + 1)
  PROVE  /\ quants' \in Seq(QuantRow)
         /\ RowsWithin(quants', pickings')
         /\ \A f \in Entries \ {e} : /\ RowsIn(quants', f) = RowsIn(quants, f)
                                     /\ BalanceIn(quants', f) = BalanceIn(quants, f)
                                     /\ \A i \in RowsIn(quants, f) : quants'[i] = quants[i]
         /\ RowsIn(quants, e) \subseteq RowsIn(quants', e)
         /\ e \notin raced =>
              /\ BalanceIn(quants', e) = BalanceIn(quants, e) + d
              /\ \A i, j \in RowsIn(quants', e) : i = j
              /\ \/ /\ RowsIn(quants, e) = {}
                    /\ \A i \in RowsIn(quants', e) : quants'[i].quantity = d
                 \/ /\ RowsIn(quants', e) = RowsIn(quants, e)
                    /\ \A i \in RowsIn(quants, e) :
                         quants'[i].quantity = quants[i].quantity + d
<1>1. /\ pc[h] = "saveQuant" /\ e \in Entries /\ d \in -MaxQty..MaxQty
      /\ d \in Int /\ MaxQty \in Nat /\ Most \in Nat
  BY AdjustmentSaved, StockAssumption DEF Most
<1>2. /\ Reach(pickings', e) = Reach(pickings, e) + MaxQty
      /\ \A f : f # e => Reach(pickings', f) = Reach(pickings, f)
  BY ReachSaved
<1>3. \A f : Reach(pickings, f) \in Nat /\ Reach(pickings', f) \in 0..Most
             /\ Reach(pickings', f) \in Nat
  BY ReachFacts
<1>4. quants \in Seq(QuantRow) /\ ctx[h].row \in Nat /\ ctx[h].found \in Int
  BY ContextTypes, <1>1 DEF TypeOK
<1>5. /\ DOMAIN quants = 1..Len(quants) /\ Len(quants) \in Nat
      /\ \A i \in 1..Len(quants) : quants[i] \in QuantRow /\ quants[i].quantity \in Int
  <2>1. /\ DOMAIN quants = 1..Len(quants) /\ Len(quants) \in Nat
        /\ \A i \in 1..Len(quants) : quants[i] \in QuantRow
    BY <1>4, LenProperties, ElementOfSeq
  <2>2. \A r \in QuantRow : r.quantity \in Int
    BY <1>1 DEF QuantRow
  <2> QED BY <2>1, <2>2
<1>6. Found(ctx[h], e, quants, raced) /\ FoundWithin(ctx[h], pickings)
      /\ RowsWithin(quants, pickings)
  BY <1>1 DEF LedgerInv, FoundInv, BoundInv
<1>7. e = <<e[1], e[2]>> /\ e[1] \in Products /\ e[2] \in Locations
  BY <1>1 DEF Entries
<1>8. \A f \in Entries : \A i \in RowsIn(quants, f) : i \in DOMAIN quants
                                                     /\ QuantEntry(quants[i]) = f
  BY DEF Entries, RowsIn, QuantEntry
<1>9. e = AtEntry(h)
  BY <1>1, NextAdjustment DEF RequestsInv
<1>10. CASE ctx[h].row = 0
  <2> DEFINE new == [product |-> e[1], location |-> e[2], quantity |-> d]
             n == Len(quants) + 1
  <2>1. quants' = Append(quants, new)
    BY <1>9, <1>10 DEF SaveQuant
  <2>2. d \in -Most..Most
    <3>1. PICK r \in Nat : r = Reach(pickings, e)
      BY <1>3
    <3>2. r + MaxQty \in 0..Most
      BY <1>2, <1>3, <3>1
    <3>3. MaxQty <= Most
      BY <1>1, <3>2
    <3> QED BY <1>1, <3>3
  <2>3. new \in QuantRow /\ QuantEntry(new) = e /\ new.quantity = d
    BY <1>7, <2>2 DEF QuantRow, QuantEntry
  <2> HIDE DEF new
  <2>4. \A f \in Entries :
          /\ QuantEntry(new) = f => BalanceIn(quants', f) = BalanceIn(quants, f) + new.quantity
          /\ QuantEntry(new) # f => BalanceIn(quants', f) = BalanceIn(quants, f)
          /\ RowsIn(quants', f) =
               IF QuantEntry(new) = f THEN RowsIn(quants, f) \cup {Len(quants) + 1}
               ELSE RowsIn(quants, f)
    BY <1>4, <2>1, <2>3, BalanceInsert
  <2>5. /\ quants' \in Seq(QuantRow) /\ DOMAIN quants' = 1..n
        /\ quants'[n] = new /\ \A i \in DOMAIN quants : quants'[i] = quants[i]
    BY <1>4, <1>5, <2>1, <2>3, AppendProperties, LenProperties
  <2>6. RowsWithin(quants', pickings')
    <3> SUFFICES ASSUME NEW i \in DOMAIN quants'
                 PROVE  /\ -Reach(pickings', QuantEntry(quants'[i])) <= quants'[i].quantity
                        /\ quants'[i].quantity <= Reach(pickings', QuantEntry(quants'[i]))
      BY DEF RowsWithin
    <3>1. CASE i = n
      <4>1. quants'[i].quantity = d /\ QuantEntry(quants'[i]) = e
        BY <2>3, <2>5, <3>1
      <4> QED BY <1>1, <1>2, <1>3, <4>1
    <3>2. CASE i # n
      <4>1. i \in DOMAIN quants
        BY <1>5, <2>5, <3>2
      <4>2. quants'[i] = quants[i] /\ quants[i].quantity \in Int
        BY <1>5, <2>5, <4>1
      <4> DEFINE f == QuantEntry(quants[i])
      <4>3. -Reach(pickings, f) <= quants[i].quantity /\ quants[i].quantity <= Reach(pickings, f)
        BY <1>6, <4>1 DEF RowsWithin
      <4>4. Reach(pickings', f) >= Reach(pickings, f)
        <5> HIDE DEF f
        <5> QED BY <1>1, <1>2, <1>3, f = e \/ f # e
      <4> HIDE DEF f
      <4>5. -Reach(pickings', f) <= quants[i].quantity /\ quants[i].quantity <= Reach(pickings', f)
        BY <1>3, <4>2, <4>3, <4>4
      <4> QED BY <4>2, <4>5 DEF f
    <3> QED BY <3>1, <3>2
  <2>7. \A f \in Entries \ {e} : /\ RowsIn(quants', f) = RowsIn(quants, f)
                                 /\ BalanceIn(quants', f) = BalanceIn(quants, f)
                                 /\ \A i \in RowsIn(quants, f) : quants'[i] = quants[i]
    BY <1>8, <2>3, <2>4, <2>5
  <2>8. RowsIn(quants', e) = RowsIn(quants, e) \cup {n}
        /\ BalanceIn(quants', e) = BalanceIn(quants, e) + d
    BY <1>1, <2>3, <2>4
  <2>9. e \notin raced => RowsIn(quants, e) = {}
    BY <1>6, <1>10 DEF Found
  <2>10. quants'[n].quantity = d
    BY <2>3, <2>5
  <2> QED BY <2>5, <2>6, <2>7, <2>8, <2>9, <2>10
<1>11. CASE ctx[h].row # 0
  <2> DEFINE i == ctx[h].row  v == ctx[h].found + d
  <2>1. quants' = UpdatedQuants(quants, i, v)
    BY <1>9, <1>11 DEF SaveQuant, UpdatedQuants
  <2>2. i \in DOMAIN quants /\ i \in RowsIn(quants, e) /\ QuantEntry(quants[i]) = e
    BY <1>1, <1>6, <1>8, <1>11 DEF Found
  <2>3. v \in Int /\ -Reach(pickings', e) <= v /\ v <= Reach(pickings', e)
    <3>1. -Reach(pickings, e) <= ctx[h].found /\ ctx[h].found <= Reach(pickings, e)
      BY <1>6 DEF FoundWithin
    <3> QED BY <3>1, <1>1, <1>2, <1>3, <1>4
  <2>4. v \in -Most..Most
    BY <1>1, <1>3, <2>3
  <2> HIDE DEF i, v
  <2>5. \A f \in Entries :
         /\ quants' \in Seq(QuantRow) /\ DOMAIN quants' = DOMAIN quants
         /\ \A k \in DOMAIN quants : QuantEntry(quants'[k]) = QuantEntry(quants[k])
         /\ quants'[i].quantity = v
         /\ \A k \in DOMAIN quants \ {i} : quants'[k] = quants[k]
         /\ RowsIn(quants', f) = RowsIn(quants, f)
         /\ QuantEntry(quants[i]) = f =>
              BalanceIn(quants', f) = BalanceIn(quants, f) + (v - quants[i].quantity)
         /\ QuantEntry(quants[i]) # f => BalanceIn(quants', f) = BalanceIn(quants, f)
    BY <1>4, <2>1, <2>2, <2>4, BalanceUpdate
  <2>6. RowsWithin(quants', pickings')
    <3> SUFFICES ASSUME NEW k \in DOMAIN quants'
                 PROVE  /\ -Reach(pickings', QuantEntry(quants'[k])) <= quants'[k].quantity
                        /\ quants'[k].quantity <= Reach(pickings', QuantEntry(quants'[k]))
      BY DEF RowsWithin
    <3>1. CASE k = i
      BY <1>1, <2>2, <2>3, <2>5, <3>1
    <3>2. CASE k # i
      <4>1. k \in DOMAIN quants
        BY <1>1, <2>5
      <4>2. quants'[k] = quants[k] /\ quants[k].quantity \in Int
        BY <1>1, <1>5, <2>5, <3>2, <4>1
      <4> DEFINE f == QuantEntry(quants[k])
      <4>3. -Reach(pickings, f) <= quants[k].quantity /\ quants[k].quantity <= Reach(pickings, f)
        BY <1>6, <4>1 DEF RowsWithin
      <4>4. Reach(pickings', f) >= Reach(pickings, f)
        <5> HIDE DEF f
        <5> QED BY <1>1, <1>2, <1>3, f = e \/ f # e
      <4> HIDE DEF f
      <4>5. -Reach(pickings', f) <= quants[k].quantity /\ quants[k].quantity <= Reach(pickings', f)
        BY <1>3, <4>2, <4>3, <4>4
      <4> QED BY <4>2, <4>5 DEF f
    <3> QED BY <3>1, <3>2
  <2>7. \A f \in Entries \ {e} : /\ RowsIn(quants', f) = RowsIn(quants, f)
                                 /\ BalanceIn(quants', f) = BalanceIn(quants, f)
                                 /\ \A k \in RowsIn(quants, f) : quants'[k] = quants[k]
    BY <1>8, <2>2, <2>5
  <2>8. RowsIn(quants', e) = RowsIn(quants, e)
        /\ BalanceIn(quants', e) = BalanceIn(quants, e) + (v - quants[i].quantity)
        /\ quants' \in Seq(QuantRow) /\ quants'[i].quantity = v
    BY <1>1, <2>2, <2>5
  <2>9. ASSUME e \notin raced
        PROVE  /\ BalanceIn(quants', e) = BalanceIn(quants, e) + d
               /\ \A k \in RowsIn(quants, e) : k = i
               /\ quants'[i].quantity = quants[i].quantity + d
    <3>1. ctx[h].found = quants[i].quantity /\ quants[i].quantity \in Int
      BY <1>5, <1>6, <1>11, <2>2, <2>9 DEF Found, i
    <3>2. v - quants[i].quantity = d /\ v = quants[i].quantity + d
      BY <1>1, <3>1 DEF v
    <3>3. \A k \in RowsIn(quants, e) : k = i
      BY <1>1, <2>2, <2>9 DEF LedgerInv, OneRow
    <3> QED BY <2>8, <3>2, <3>3
  <2> QED BY <2>6, <2>7, <2>8, <2>9
<1> QED
  BY <1>10, <1>11

LEMMA SavedLedger ==
  ASSUME TypeOK, RequestsInv, LedgerInv, NEW h \in Handlers, SaveQuant(h)
  PROVE  LedgerInv' /\ quants' \in Seq(QuantRow)
<1>1. PICK e : e = NextEntry(pickings, ctx[h])
  OBVIOUS
<1>2. PICK d : d = DeltaOf(Picking(h), Picking(h).posted + 1)
  OBVIOUS
<1>3. /\ pc[h] = "saveQuant" /\ e \in Entries /\ d \in -MaxQty..MaxQty
      /\ ctx' = ctx /\ pc'[h] # "saveQuant"
      /\ \A g \in Handlers \ {h} : pc'[g] = pc[g]
      /\ \A g \in Handlers \ {h} : pc[g] \in Carrying =>
           pickings'[ctx[g].picking] = pickings[ctx[g].picking]
      /\ \A f : f # e => PostedIn(pickings', f) = PostedIn(pickings, f)
      /\ PostedIn(pickings', e) = PostedIn(pickings, e) + d
  BY <1>1, <1>2, AdjustmentSaved
<1>4. /\ Reach(pickings', e) = Reach(pickings, e) + MaxQty
      /\ \A f : f # e => Reach(pickings', f) = Reach(pickings, f)
  BY <1>1, ReachSaved
<1>5. /\ quants' \in Seq(QuantRow)
      /\ RowsWithin(quants', pickings')
      /\ \A f \in Entries \ {e} : /\ RowsIn(quants', f) = RowsIn(quants, f)
                                  /\ BalanceIn(quants', f) = BalanceIn(quants, f)
                                  /\ \A i \in RowsIn(quants, f) : quants'[i] = quants[i]
      /\ RowsIn(quants, e) \subseteq RowsIn(quants', e)
      /\ e \notin raced => /\ BalanceIn(quants', e) = BalanceIn(quants, e) + d
                           /\ \A i, j \in RowsIn(quants', e) : i = j
  <2> USE QuantSaved
  <2>1. quants' \in Seq(QuantRow) /\ RowsWithin(quants', pickings')
    BY Zenon, <1>1, <1>2
  <2>2. \A f \in Entries \ {e} : /\ RowsIn(quants', f) = RowsIn(quants, f)
                                  /\ BalanceIn(quants', f) = BalanceIn(quants, f)
                                  /\ \A i \in RowsIn(quants, f) : quants'[i] = quants[i]
    BY <1>1, <1>2
  <2>3. RowsIn(quants, e) \subseteq RowsIn(quants', e)
    BY Zenon, <1>1, <1>2
  <2>4. e \notin raced => /\ BalanceIn(quants', e) = BalanceIn(quants, e) + d
                         /\ \A i, j \in RowsIn(quants', e) : i = j
    BY Zenon, <1>1, <1>2
  <2> QED BY <2>1, <2>2, <2>3, <2>4
<1>6. e = AtEntry(h)
  BY <1>1, <1>3, NextAdjustment DEF RequestsInv
<1>7. /\ raced \subseteq raced' /\ raced' \subseteq raced \cup {e}
      /\ \A g \in Handlers \ {h} : pc[g] = "saveQuant" /\ AtEntry(g) = e => e \in raced'
  BY <1>6 DEF SaveQuant
<1>8. ASSUME NEW g \in Handlers, pc'[g] = "saveQuant"
      PROVE  /\ g # h /\ pc[g] = "saveQuant" /\ ctx'[g] = ctx[g]
             /\ NextEntry(pickings', ctx'[g]) = NextEntry(pickings, ctx[g])
             /\ NextEntry(pickings, ctx[g]) \in Entries
             /\ (NextEntry(pickings, ctx[g]) = e => e \in raced')
  <2>1. g # h /\ pc[g] = "saveQuant" /\ ctx'[g] = ctx[g]
    BY <1>3, <1>8
  <2>2. pickings'[ctx[g].picking] = pickings[ctx[g].picking]
    BY <1>3, <2>1 DEF Carrying
  <2>3. AtEntry(g) = NextEntry(pickings, ctx[g]) /\ AtEntry(g) \in Entries
    BY <2>1, NextAdjustment DEF RequestsInv
  <2> QED BY <1>7, <2>1, <2>2, <2>3 DEF NextEntry
<1>9. BoundInv'
  <2> SUFFICES ASSUME NEW g \in Handlers, pc'[g] = "saveQuant"
               PROVE  FoundWithin(ctx'[g], pickings')
    BY <1>5 DEF BoundInv
  <2> DEFINE f == NextEntry(pickings, ctx[g])
  <2>1. /\ pc[g] = "saveQuant" /\ ctx'[g] = ctx[g] /\ NextEntry(pickings', ctx'[g]) = f
    BY <1>8
  <2>2. FoundWithin(ctx[g], pickings) /\ ctx[g].found \in Int
    BY <2>1, ContextTypes, StockAssumption DEF LedgerInv, BoundInv, Most
  <2>3. -Reach(pickings, f) <= ctx[g].found /\ ctx[g].found <= Reach(pickings, f)
    BY <2>2 DEF FoundWithin
  <2> HIDE DEF f
  <2>4. /\ Reach(pickings', f) >= Reach(pickings, f)
        /\ Reach(pickings, f) \in Nat /\ Reach(pickings', f) \in Nat
    <3>1. Reach(pickings, f) \in Nat /\ Reach(pickings', f) \in Nat /\ MaxQty \in Nat
      BY ReachFacts, StockAssumption
    <3> QED BY <3>1, <1>4, f = e \/ f # e
  <2>5. -Reach(pickings', f) <= ctx[g].found /\ ctx[g].found <= Reach(pickings', f)
    BY <2>2, <2>3, <2>4
  <2> QED BY <2>1, <2>5 DEF FoundWithin
<1>10. FoundInv'
  <2> SUFFICES ASSUME NEW g \in Handlers, pc'[g] = "saveQuant"
               PROVE  Found(ctx'[g], NextEntry(pickings', ctx'[g]), quants', raced')
    BY DEF FoundInv
  <2> DEFINE f == NextEntry(pickings, ctx[g])
  <2>1. /\ pc[g] = "saveQuant" /\ ctx'[g] = ctx[g] /\ NextEntry(pickings', ctx'[g]) = f
        /\ f \in Entries
        /\ (f = e => e \in raced')
    BY <1>8
  <2>2. Found(ctx[g], f, quants, raced)
    BY <2>1 DEF LedgerInv, FoundInv
  <2> HIDE DEF f
  <2>3. CASE f = e
    BY <1>5, <2>1, <2>2, <2>3 DEF Found
  <2>4. CASE f # e
    <3>1. /\ RowsIn(quants', f) = RowsIn(quants, f) /\ raced \subseteq raced'
          /\ \A i \in RowsIn(quants, f) : quants'[i] = quants[i]
      BY <1>5, <1>7, <2>1, <2>4
    <3> QED BY <2>1, <2>2, <3>1 DEF Found
  <2> QED BY <2>3, <2>4
<1>11. OneRow'
  <2> SUFFICES ASSUME NEW f \in Entries \ raced'
               PROVE  \A i, j \in RowsIn(quants', f) : i = j
    BY DEF OneRow
  <2>1. CASE f = e
    BY <1>5, <1>7, <2>1
  <2>2. CASE f # e
    BY <1>5, <1>7, <2>2 DEF LedgerInv, OneRow
  <2> QED BY <2>1, <2>2
<1>12. LedgerExact'
  <2> SUFFICES ASSUME NEW f \in Entries \ raced'
               PROVE  BalanceIn(quants', f) = PostedIn(pickings', f)
    BY LedgerSidesNext DEF LedgerExact
  <2>1. BalanceIn(quants, f) = PostedIn(pickings, f)
    BY <1>7, LedgerSides DEF LedgerInv, LedgerExact
  <2>2. CASE f = e
    BY <1>3, <1>5, <1>7, <2>1, <2>2
  <2>3. CASE f # e
    BY <1>3, <1>5, <2>1, <2>3
  <2> QED BY <2>2, <2>3
<1> QED
  BY <1>5, <1>9, <1>10, <1>11, <1>12 DEF LedgerInv

LEMMA LedgerStep ==
  ASSUME TypeOK, RequestsInv, LedgerInv, NEW h \in Handlers, Turn(h)
  PROVE  LedgerInv' /\ quants' \in Seq(QuantRow)
  BY SavedLedger, QuietLedger

-----------------------------------------------------------------------------
(***************************************************************************)
(* Picking orders                                                          *)
(***************************************************************************)
OrdersInv == AskedInv /\ CoveredInv /\ RowsNotNegative

LEMMA EntriesAsked ==
  ASSUME NEW lines \in Dto, NEW n \in 1..Len(lines)
  PROVE  /\ EntryFor(lines[n]) \in Asked(lines) /\ lines[n].qty \in 1..MaxQty
         /\ lines[n].qty \in Nat /\ EntryFor(lines[n]) \in Products \X Places
         /\ \A m \in 1..Len(lines) : m # n /\ EntryFor(lines[m]) = EntryFor(lines[n]) =>
              EntryFor(lines[n]) \in AskedTwice(lines)
<1>1. DOMAIN lines = 1..Len(lines) /\ lines[n] \in Line
  BY DtoFacts
<1>2. lines[n].qty \in 1..MaxQty /\ MaxQty \in Nat /\ EntryFor(lines[n]) \in Products \X Places
  BY <1>1, StockAssumption DEF Line, EntryFor
<1>3. EntryFor(lines[n]) \in Asked(lines)
  BY <1>1 DEF Asked, EntryFor
<1> QED
  BY <1>1, <1>2, <1>3 DEF Asked, AskedTwice, EntryFor

\* What a step that starts no picking order does to what its request holds.
LEMMA ContextTurn ==
  ASSUME TypeOK, RequestsInv, NEW h \in Handlers, Turn(h),
         ~ \E lines \in Dto : StartPickingOrder(h, lines)
  PROVE  /\ \A g \in Handlers \ {h} : ctx'[g] = ctx[g]
         /\ contended' = contended
         /\ \/ ctx'[h].kind = "incoming"
            \/ /\ ctx'[h].kind = ctx[h].kind /\ ctx'[h].lines = ctx[h].lines
               /\ \/ ctx'[h].picking = ctx[h].picking
                  \/ ctx[h].picking = 0
               /\ \/ ctx'[h].checked = ctx[h].checked
                  \/ CheckLine(h) /\ ctx'[h].checked = ctx[h].checked + 1
<1>1. ctx \in [Handlers -> Context] /\ ctx[h] \in Context
  BY DEF TypeOK
<1>2. contended' = contended
  BY DEF Turn, Continue, StartReceipt, CheckLine, NotAvailable, SavePicking, SaveMove,
     FindQuant, SaveQuant, SaveDone, FindCustody, SaveCustody, NoFirstLine, FindPeriod,
     SavePeriod, PeriodTaken, IdsUsedUp, Fail, Throw, tables
<1>3. \/ \E lines \in Dto : StartReceipt(h, lines)
      \/ CheckLine(h) \/ SavePicking(h) \/ FindQuant(h)
      \/ Leave(h) \/ ctx' = ctx
  BY DEF Turn, Continue, NotAvailable, SaveMove,
     SaveQuant, SaveDone, FindCustody, SaveCustody, NoFirstLine, FindPeriod,
     SavePeriod, PeriodTaken, IdsUsedUp, Fail, Throw, Answer
<1>4. \A c : Keep(h, c) => ctx'[h] = c /\ \A g \in Handlers \ {h} : ctx'[g] = ctx[g]
  BY <1>1 DEF Keep
<1>5. CASE \E lines \in Dto : StartReceipt(h, lines)
  <2>1. PICK lines \in Dto : Keep(h, [NoContext EXCEPT !.lines = lines])
    BY <1>5 DEF StartReceipt
  <2>2. [NoContext EXCEPT !.lines = lines].kind = "incoming"
    BY DEF NoContext
  <2> QED BY <1>2, <1>4, <2>1, <2>2
<1>6. CASE CheckLine(h)
  <2> DEFINE c == [ctx[h] EXCEPT !.checked = ctx[h].checked + 1]
  <2>1. Keep(h, c)
    BY <1>6 DEF CheckLine
  <2>2. /\ c.kind = ctx[h].kind /\ c.lines = ctx[h].lines /\ c.picking = ctx[h].picking
        /\ c.checked = ctx[h].checked + 1
    BY <1>1 DEF Context
  <2> HIDE DEF c
  <2> QED BY <1>2, <1>4, <1>6, <2>1, <2>2
<1>7. CASE SavePicking(h)
  <2> DEFINE c == [ctx[h] EXCEPT !.picking = Len(pickings) + 1]
  <2>1. Keep(h, c)
    BY <1>7 DEF SavePicking
  <2>2. c.kind = ctx[h].kind /\ c.lines = ctx[h].lines /\ c.checked = ctx[h].checked
    BY <1>1 DEF Context
  <2>3. ctx[h].picking = 0
    BY <1>7 DEF SavePicking, RequestsInv, HeldInv, Held
  <2> HIDE DEF c
  <2> QED BY <1>2, <1>4, <2>1, <2>2, <2>3
<1>8. CASE FindQuant(h)
  <2>1. PICK i, v : Keep(h, [ctx[h] EXCEPT !.row = i, !.found = v])
    BY <1>8 DEF FindQuant
  <2> DEFINE c == [ctx[h] EXCEPT !.row = i, !.found = v]
  <2>2. /\ c.kind = ctx[h].kind /\ c.lines = ctx[h].lines /\ c.checked = ctx[h].checked
        /\ c.picking = ctx[h].picking
    BY <1>1 DEF Context
  <2>3. Keep(h, c)
    BY <2>1
  <2> HIDE DEF c
  <2> QED BY <1>2, <1>4, <2>2, <2>3
<1>9. CASE Leave(h)
  <2>1. Keep(h, NoContext) /\ NoContext.kind = "incoming"
    BY <1>9 DEF Leave, NoContext
  <2> QED BY <1>2, <1>4, <2>1
<1>10. CASE ctx' = ctx
  BY <1>2, <1>10
<1> QED
  BY <1>3, <1>5, <1>6, <1>7, <1>8, <1>9, <1>10

LEMMA AskedStep ==
  ASSUME TypeOK, RequestsInv, AskedInv, NEW h \in Handlers, Turn(h)
  PROVE  AskedInv' /\ contended \subseteq contended'
<1>1. ctx \in [Handlers -> Context] /\ pc \in [Handlers -> Calls]
  BY DEF TypeOK
<1>2. ASSUME \/ ctx'[h].kind = "incoming"
             \/ ctx'[h].kind = ctx[h].kind /\ ctx'[h].lines = ctx[h].lines,
             \A g \in Handlers \ {h} : ctx'[g] = ctx[g], contended \subseteq contended'
      PROVE  AskedInv'
  <2>1. \A g \in Handlers : ctx'[g].kind = "outgoing" =>
          ctx[g].kind = "outgoing" /\ ctx'[g].lines = ctx[g].lines
    <3> SUFFICES ASSUME NEW g \in Handlers, ctx'[g].kind = "outgoing"
                 PROVE  ctx[g].kind = "outgoing" /\ ctx'[g].lines = ctx[g].lines
      OBVIOUS
    <3> QED BY <1>2, g = h \/ g \in Handlers \ {h}
  <2>2. \A g \in Handlers : ctx'[g].kind = "outgoing" =>
          AskedTwice(ctx'[g].lines) \subseteq contended'
    <3> SUFFICES ASSUME NEW g \in Handlers, ctx'[g].kind = "outgoing"
                 PROVE  AskedTwice(ctx'[g].lines) \subseteq contended'
      OBVIOUS
    <3>1. AskedTwice(ctx[g].lines) \subseteq contended /\ ctx'[g].lines = ctx[g].lines
      BY <2>1 DEF AskedInv
    <3> QED BY <3>1, <1>2
  <2>3. \A f, g \in Handlers :
          f # g /\ ctx'[f].kind = "outgoing" /\ ctx'[g].kind = "outgoing" =>
            Asked(ctx'[f].lines) \cap Asked(ctx'[g].lines) \subseteq contended'
    <3> SUFFICES ASSUME NEW f \in Handlers, NEW g \in Handlers, f # g,
                        ctx'[f].kind = "outgoing", ctx'[g].kind = "outgoing"
                 PROVE  Asked(ctx'[f].lines) \cap Asked(ctx'[g].lines) \subseteq contended'
      OBVIOUS
    <3>1. /\ Asked(ctx[f].lines) \cap Asked(ctx[g].lines) \subseteq contended
          /\ ctx'[f].lines = ctx[f].lines /\ ctx'[g].lines = ctx[g].lines
      BY <2>1 DEF AskedInv
    <3> QED BY <3>1, <1>2
  <2> QED BY <2>2, <2>3 DEF AskedInv
<1>3. CASE \E lines \in Dto : StartPickingOrder(h, lines)
  <2>1. PICK lines \in Dto : StartPickingOrder(h, lines)
    BY <1>3
  <2>2. /\ \A g \in Handlers \ {h} : ctx'[g] = ctx[g]
        /\ ctx'[h].lines = lines /\ ctx'[h].kind = "outgoing"
    BY <1>1, <2>1 DEF StartPickingOrder, Keep, NoContext
  <2>3. /\ contended \subseteq contended' /\ AskedTwice(lines) \subseteq contended'
        /\ \A g \in Active : ctx[g].kind = "outgoing" =>
             Asked(lines) \cap Asked(ctx[g].lines) \subseteq contended'
    BY <2>1 DEF StartPickingOrder
  <2>4. \A g \in Handlers \ {h} : ctx[g].kind = "outgoing" => g \in Active
    BY DEF Active, RequestsInv, HeldInv, Held, NoContext
  <2>5. \A g \in Handlers \ {h} : ctx'[g].kind = "outgoing" =>
          /\ Asked(ctx'[h].lines) \cap Asked(ctx'[g].lines) \subseteq contended'
          /\ Asked(ctx'[g].lines) \cap Asked(ctx'[h].lines) \subseteq contended'
    BY <2>2, <2>3, <2>4
  <2>6. \A g \in Handlers \ {h} : ctx'[g].kind = "outgoing" =>
          AskedTwice(ctx'[g].lines) \subseteq contended'
    <3> SUFFICES ASSUME NEW g \in Handlers \ {h}, ctx'[g].kind = "outgoing"
                 PROVE  AskedTwice(ctx'[g].lines) \subseteq contended'
      OBVIOUS
    <3>1. ctx'[g] = ctx[g] /\ AskedTwice(ctx[g].lines) \subseteq contended
      BY <2>2 DEF AskedInv
    <3> QED BY <3>1, <2>3
  <2>7. \A f, g \in Handlers \ {h} :
          f # g /\ ctx'[f].kind = "outgoing" /\ ctx'[g].kind = "outgoing" =>
            Asked(ctx'[f].lines) \cap Asked(ctx'[g].lines) \subseteq contended'
    <3> SUFFICES ASSUME NEW f \in Handlers \ {h}, NEW g \in Handlers \ {h}, f # g,
                        ctx'[f].kind = "outgoing", ctx'[g].kind = "outgoing"
                 PROVE  Asked(ctx'[f].lines) \cap Asked(ctx'[g].lines) \subseteq contended'
      OBVIOUS
    <3>1. /\ Asked(ctx[f].lines) \cap Asked(ctx[g].lines) \subseteq contended
          /\ ctx'[f] = ctx[f] /\ ctx'[g] = ctx[g]
      BY <2>2 DEF AskedInv
    <3> QED BY <3>1, <2>3
  <2> QED BY <2>2, <2>3, <2>5, <2>6, <2>7 DEF AskedInv
<1>4. CASE ~ \E lines \in Dto : StartPickingOrder(h, lines)
  BY <1>2, <1>4, ContextTurn
<1> QED
  BY <1>3, <1>4, ContextTurn DEF StartPickingOrder

\* Goods that are still to be taken after a step were still to be taken before it.
LEMMA UntakenBefore ==
  ASSUME TypeOK, RequestsInv, NEW g \in Handlers, NEW n \in Nat,
         NEW c, c.picking = ctx[g].picking \/ ctx[g].picking = 0,
         ctx[g].picking # 0 =>
           \E m \in Nat : /\ pickings'[ctx[g].picking].posted = m
                          /\ m >= pickings[ctx[g].picking].posted,
         Untaken(c, n, pickings')
  PROVE  Untaken(ctx[g], n, pickings)
<1>1. CASE ctx[g].picking = 0
  BY <1>1 DEF Untaken
<1>2. CASE ctx[g].picking # 0
  <2> DEFINE k == ctx[g].picking
  <2>1. k \in DOMAIN pickings /\ pickings[k].posted \in Nat
    <3>1. pc[g] \in Carrying
      BY <1>2, ContextTypes DEF RequestsInv, HeldInv, Held, Calls, Carrying, Settling, NoContext
    <3> QED BY <3>1, OwnPicking, ContextTypes DEF RequestsInv, Picking
  <2>2. PICK m \in Nat : pickings'[k].posted = m /\ m >= pickings[k].posted
    BY <1>2
  <2>3. pickings'[k].posted < 2 * n - 1
    BY <1>2 DEF Untaken
  <2> HIDE DEF k
  <2>4. pickings[k].posted < 2 * n - 1
    BY <2>1, <2>2, <2>3
  <2> QED BY <2>4 DEF Untaken, k
<1> QED
  BY <1>1, <1>2

\* The lines that a picking order has checked are lines of its dto.
LEMMA CheckedLines ==
  ASSUME TypeOK, RequestsInv, NEW g \in Handlers, NEW n \in 1..ctx[g].checked,
         ctx[g].kind = "outgoing"
  PROVE  /\ n \in 1..Len(ctx[g].lines) /\ n \in Nat
         /\ ctx[g].lines \in Dto /\ DOMAIN ctx[g].lines = 1..Len(ctx[g].lines)
         /\ ctx[g].lines[n].qty \in Nat
         /\ EntryFor(ctx[g].lines[n]) \in Entries
         /\ EntryFor(ctx[g].lines[n]) \in Products \X Places
<1>1. /\ ctx[g].lines \in Dto /\ ctx[g].checked \in Nat /\ pc[g] \in Calls
      /\ Len(ctx[g].lines) \in Nat /\ DOMAIN ctx[g].lines = 1..Len(ctx[g].lines)
  BY ContextTypes, DtoFacts
<1>2. ctx[g].checked <= Len(ctx[g].lines)
  <2>1. pc[g] # "idle"
    BY DEF RequestsInv, HeldInv, Held, NoContext
  <2>2. pc[g] = "checkLine" \/ pc[g] \in Carrying \cup {"savePicking"}
    BY <1>1, <2>1 DEF Calls, Carrying, Settling
  <2>3. /\ pc[g] = "checkLine" => ctx[g].checked < Len(ctx[g].lines)
        /\ pc[g] \in Carrying \cup {"savePicking"} => ctx[g].checked = Len(ctx[g].lines)
    BY DEF RequestsInv, HeldInv, Held
  <2> QED BY <1>1, <2>2, <2>3
<1>3. n \in 1..Len(ctx[g].lines) /\ n \in Nat
  BY <1>1, <1>2
<1>4. ctx[g].lines[n].qty \in Nat /\ EntryFor(ctx[g].lines[n]) \in Products \X Places
  BY <1>1, <1>3, EntriesAsked
<1> QED
  BY <1>1, <1>3, <1>4 DEF Entries, Locations

\* A line whose availability has just been checked.
LEMMA LineChecked ==
  ASSUME TypeOK, RequestsInv, NEW h \in Handlers, CheckLine(h)
  PROVE  LET line == ctx[h].lines[ctx[h].checked + 1]
         IN Stocked(quants, EntryFor(line), line.qty)
<1> DEFINE line == ctx[h].lines[ctx[h].checked + 1]
<1>1. PICK i \in RowsOf(line.product, line.place) : quants[i].quantity >= line.qty
  BY DEF CheckLine, Available
<1>2. RowsOf(line.product, line.place) = RowsIn(quants, EntryFor(line))
  BY DEF RowsOf, RowsIn, EntryFor
<1> HIDE DEF line
<1>3. Stocked(quants, EntryFor(line), line.qty)
  BY <1>1, <1>2 DEF Stocked
<1> QED
  BY <1>3 DEF line

LEMMA QuietOrders ==
  ASSUME TypeOK, RequestsInv, OrdersInv, NEW h \in Handlers, Turn(h), ~SaveQuant(h)
  PROVE  CoveredInv' /\ RowsNotNegative'
<1>1. /\ SameAdjustments /\ quants' = quants /\ raced' = raced
      /\ \A g \in Handlers \ {h} : pc'[g] = pc[g] /\ ctx'[g] = ctx[g]
  BY QuietTurn
<1>2. contended \subseteq contended'
  BY AskedStep DEF OrdersInv
<1>3. RowsNotNegative'
  BY <1>1, <1>2 DEF OrdersInv, RowsNotNegative
<1>4. ASSUME NEW g \in Handlers, ctx'[g].kind = "outgoing", NEW n \in 1..ctx'[g].checked
      PROVE  LET line == ctx'[g].lines[n]  e == EntryFor(line)
             IN \/ Stocked(quants, e, line.qty)
                \/ /\ ctx[g].kind = "outgoing" /\ n \in 1..ctx[g].checked
                   /\ ctx'[g].lines = ctx[g].lines
                   /\ ctx'[g].picking = ctx[g].picking \/ ctx[g].picking = 0
  <2>1. CASE g # h
    BY <1>1, <1>4, <2>1
  <2>2. CASE g = h /\ ~ \E lines \in Dto : StartPickingOrder(h, lines)
    <3>1. /\ ctx'[h].kind = ctx[h].kind /\ ctx'[h].lines = ctx[h].lines
          /\ ctx'[h].picking = ctx[h].picking \/ ctx[h].picking = 0
          /\ \/ ctx'[h].checked = ctx[h].checked
             \/ CheckLine(h) /\ ctx'[h].checked = ctx[h].checked + 1
      BY <1>4, <2>2, ContextTurn
    <3>2. CASE n \in 1..ctx[h].checked
      BY <1>4, <2>2, <3>1, <3>2
    <3>3. CASE n \notin 1..ctx[h].checked
      <4>1. ctx[h].checked \in Nat
        BY ContextTypes
      <4>2. CheckLine(h) /\ n = ctx[h].checked + 1
        BY <1>4, <2>2, <3>1, <3>3, <4>1
      <4> QED BY <2>2, <3>1, <4>2, LineChecked
    <3> QED BY <3>2, <3>3
  <2>3. CASE g = h /\ \E lines \in Dto : StartPickingOrder(h, lines)
    <3>1. PICK lines \in Dto : Keep(h, [NoContext EXCEPT !.kind = "outgoing", !.lines = lines])
      BY <2>3 DEF StartPickingOrder
    <3>2. ctx'[h] = [NoContext EXCEPT !.kind = "outgoing", !.lines = lines]
      BY <3>1 DEF Keep, TypeOK
    <3>3. ctx'[h].checked = 0
      BY <3>2 DEF NoContext
    <3> QED BY <1>4, <2>3, <3>3
  <2> QED BY <2>1, <2>2, <2>3
<1>5. CoveredInv'
  <2> SUFFICES ASSUME NEW g \in Handlers, ctx'[g].kind = "outgoing",
                      NEW n \in 1..ctx'[g].checked,
                      Untaken(ctx'[g], n, pickings'),
                      EntryFor(ctx'[g].lines[n]) \notin raced',
                      EntryFor(ctx'[g].lines[n]) \notin contended'
               PROVE  Stocked(quants', EntryFor(ctx'[g].lines[n]), ctx'[g].lines[n].qty)
    BY DEF CoveredInv
  <2>1. SUFFICES ASSUME ctx[g].kind = "outgoing", n \in 1..ctx[g].checked,
                        ctx'[g].lines = ctx[g].lines,
                        ctx'[g].picking = ctx[g].picking \/ ctx[g].picking = 0
                 PROVE  Stocked(quants', EntryFor(ctx'[g].lines[n]), ctx'[g].lines[n].qty)
    BY <1>1, <1>4
  <2>2. n \in Nat
    BY <2>1, CheckedLines
  <2>3. ctx[g].picking # 0 =>
          \E m \in Nat : /\ pickings'[ctx[g].picking].posted = m
                         /\ m >= pickings[ctx[g].picking].posted
    <3> SUFFICES ASSUME ctx[g].picking # 0
                 PROVE  \E m \in Nat : /\ pickings'[ctx[g].picking].posted = m
                                       /\ m >= pickings[ctx[g].picking].posted
      OBVIOUS
    <3>1. pc[g] \in Carrying
      BY ContextTypes DEF RequestsInv, HeldInv, Held, Calls, Carrying, Settling, NoContext
    <3>2. ctx[g].picking \in DOMAIN pickings /\ pickings[ctx[g].picking].posted \in Nat
      BY <3>1, OwnPicking DEF RequestsInv, Picking
    <3>3. pickings'[ctx[g].picking].posted = pickings[ctx[g].picking].posted
      BY <1>1, <3>2 DEF SameAdjustments
    <3> QED BY <3>2, <3>3
  <2>4. Untaken(ctx[g], n, pickings)
    <3>1. PICK c : c = ctx'[g]
      OBVIOUS
    <3>2. Untaken(c, n, pickings') /\ (c.picking = ctx[g].picking \/ ctx[g].picking = 0)
      BY <2>1, <3>1
    <3> QED BY <2>2, <2>3, <3>2, UntakenBefore
  <2>5. EntryFor(ctx[g].lines[n]) \notin raced /\ EntryFor(ctx[g].lines[n]) \notin contended
    BY <1>1, <1>2, <2>1
  <2>6. Stocked(quants, EntryFor(ctx[g].lines[n]), ctx[g].lines[n].qty)
    BY <2>1, <2>4, <2>5 DEF OrdersInv, CoveredInv
  <2> QED BY <1>1, <2>1, <2>6
<1> QED
  BY <1>3, <1>5

\* An adjustment that takes goods out of a place is the one a picking order makes for the
\* next of its lines.
LEMMA TakenOut ==
  ASSUME TypeOK, RequestsInv, NEW h \in Handlers, SaveQuant(h),
         AtEntry(h) \in Products \X Places
  PROVE  LET row == Picking(h)  d == DeltaOf(row, row.posted + 1)
         IN \/ d \in Nat
            \/ /\ ctx[h].kind = "outgoing"
               /\ \E n \in 1..ctx[h].checked :
                    /\ row.posted = 2 * n - 2 /\ d = -ctx[h].lines[n].qty
                    /\ AtEntry(h) = EntryFor(ctx[h].lines[n])
<1> DEFINE row == Picking(h)  j == row.posted + 1  n == (j + 1) \div 2
<1>1. pc[h] = "saveQuant" /\ pc[h] \in Carrying
  BY DEF SaveQuant, Carrying
<1>2. /\ row \in PickingRow /\ row.lines = ctx[h].lines /\ row.kind = ctx[h].kind
      /\ row.posted \in Nat /\ j \in Adjustments(row)
      /\ ctx[h].kind = "outgoing" => ctx[h].checked = Len(ctx[h].lines)
  BY <1>1, OwnPicking, NextAdjustment DEF RequestsInv, HeldInv, Held, Carried
<1>3. /\ n \in 1..Len(row.lines) /\ n \in Nat
      /\ j = 2 * n - 1 \/ j = 2 * n
      /\ IsTakeOut(j) <=> j = 2 * n - 1
      /\ LineOf(row, j) \in Line /\ LineOf(row, j) = row.lines[n]
  <2>1. /\ n \in 1..Len(row.lines) /\ Len(row.lines) \in Nat
        /\ j = 2 * n - 1 \/ j = 2 * n
        /\ IsTakeOut(j) <=> j = 2 * n - 1
        /\ LineOf(row, j) \in Line
    <3> HIDE DEF row, j
    <3>1. Len(row.lines) \in Nat
      BY <1>2, LineFacts, StockAssumption
    <3> QED BY <1>2, <3>1, AdjustmentFacts DEF n
  <2>2. LineOf(row, j) = row.lines[n]
    BY DEF LineOf
  <2> HIDE DEF n, j, row
  <2> QED BY <2>1, <2>2
<1>4. AtEntry(h) = <<LineOf(row, j).product, LocationOf(row, j)>>
  BY DEF AtEntry, EntryOf
<1>5. LineOf(row, j).qty \in Nat
  BY <1>3, StockAssumption DEF Line
<1> HIDE DEF row, n, j
<1>6. CASE ~IsTakeOut(j)
  BY <1>5, <1>6 DEF DeltaOf, row, j
<1>7. CASE IsTakeOut(j)
  <2>1. LocationOf(row, j) \in Places
    BY <1>4
  <2>2. row.kind = "outgoing" /\ LocationOf(row, j) = LineOf(row, j).place
    BY <1>2, <1>7, <2>1, StockAssumption DEF LocationOf, PickingRow, Kinds
  <2>3. row.posted = 2 * n - 2
    <3>1. j = row.posted + 1
      BY DEF j
    <3> QED BY <1>2, <1>3, <1>7, <3>1
  <2>4. AtEntry(h) = EntryFor(ctx[h].lines[n])
    BY <1>2, <1>3, <1>4, <2>2 DEF EntryFor
  <2>5. DeltaOf(row, j) = -ctx[h].lines[n].qty
    BY <1>2, <1>3, <1>7 DEF DeltaOf
  <2>6. n \in 1..ctx[h].checked /\ ctx[h].kind = "outgoing"
    BY <1>2, <1>3, <2>2
  <2> QED BY <2>3, <2>4, <2>5, <2>6 DEF row, j
<1> QED
  BY <1>6, <1>7

LEMMA SavedOrders ==
  ASSUME TypeOK, RequestsInv, LedgerInv, OrdersInv, NEW h \in Handlers, SaveQuant(h)
  PROVE  CoveredInv' /\ RowsNotNegative'
<1>1. PICK e : e = NextEntry(pickings, ctx[h])
  OBVIOUS
<1>2. PICK d : d = DeltaOf(Picking(h), Picking(h).posted + 1)
  OBVIOUS
<1>3. /\ pc[h] = "saveQuant" /\ e \in Entries /\ d \in -MaxQty..MaxQty
      /\ ctx' = ctx /\ contended' = contended
      /\ \A g \in Handlers \ {h} : pc[g] \in Carrying =>
           pickings'[ctx[g].picking] = pickings[ctx[g].picking]
  BY <1>1, <1>2, AdjustmentSaved
<1>4. d \in Int /\ e = AtEntry(h) /\ raced \subseteq raced'
  BY <1>1, <1>3, NextAdjustment, StockAssumption DEF RequestsInv, SaveQuant
<1>5. \A f \in Entries \ {e} : /\ RowsIn(quants', f) = RowsIn(quants, f)
                                /\ \A i \in RowsIn(quants, f) : quants'[i] = quants[i]
  <2> USE QuantSaved
  <2> QED BY <1>1, <1>2
<1>6. ASSUME e \notin raced
      PROVE  /\ \A i, j \in RowsIn(quants', e) : i = j
             /\ \/ /\ RowsIn(quants, e) = {}
                   /\ \A i \in RowsIn(quants', e) : quants'[i].quantity = d
                \/ /\ RowsIn(quants', e) = RowsIn(quants, e)
                   /\ \A i \in RowsIn(quants, e) :
                        quants'[i].quantity = quants[i].quantity + d
  <2> USE QuantSaved
  <2>1. \A i, j \in RowsIn(quants', e) : i = j
    BY Zenon, <1>1, <1>2, <1>6
  <2>2. \/ /\ RowsIn(quants, e) = {}
           /\ \A i \in RowsIn(quants', e) : quants'[i].quantity = d
        \/ /\ RowsIn(quants', e) = RowsIn(quants, e)
           /\ \A i \in RowsIn(quants, e) : quants'[i].quantity = quants[i].quantity + d
    BY <1>1, <1>2, <1>6
  <2> QED BY <2>1, <2>2
<1>7. \A f : \A i \in RowsIn(quants, f) : quants[i].quantity \in Int
  BY RowSets DEF TypeOK
<1>8. ASSUME e \in Products \X Places, d \notin Nat
      PROVE  /\ ctx[h].kind = "outgoing"
             /\ \E n \in 1..ctx[h].checked :
                  /\ Picking(h).posted = 2 * n - 2 /\ d = -ctx[h].lines[n].qty
                  /\ e = EntryFor(ctx[h].lines[n])
  BY <1>2, <1>4, <1>8, TakenOut
<1>9. ASSUME NEW g \in Handlers, ctx[g].kind = "outgoing", NEW n \in 1..ctx[g].checked,
             Untaken(ctx[g], n, pickings')
      PROVE  Untaken(ctx[g], n, pickings)
  <2>1. n \in Nat
    BY <1>9, CheckedLines
  <2>2. ctx[g].picking # 0 =>
          \E m \in Nat : /\ pickings'[ctx[g].picking].posted = m
                         /\ m >= pickings[ctx[g].picking].posted
    <3> SUFFICES ASSUME ctx[g].picking # 0
                 PROVE  \E m \in Nat : /\ pickings'[ctx[g].picking].posted = m
                                       /\ m >= pickings[ctx[g].picking].posted
      OBVIOUS
    <3>1. pc[g] \in Carrying
      BY ContextTypes DEF RequestsInv, HeldInv, Held, Calls, Carrying, Settling, NoContext
    <3>2. ctx[g].picking \in DOMAIN pickings /\ pickings[ctx[g].picking].posted \in Nat
      BY <3>1, OwnPicking DEF RequestsInv, Picking
    <3>3. CASE g # h
      BY <1>3, <3>1, <3>2, <3>3
    <3>4. CASE g = h
      <4>1. pickings'[ctx[h].picking].posted = Picking(h).posted + 1
        BY <3>2, <3>4, SaveQuantFacts
      <4> QED BY <3>2, <3>4, <4>1 DEF Picking
    <3> QED BY <3>3, <3>4
  <2> QED BY <1>9, <2>1, <2>2, UntakenBefore
<1>10. CoveredInv'
  <2> SUFFICES ASSUME NEW g \in Handlers, ctx[g].kind = "outgoing",
                      NEW n \in 1..ctx[g].checked,
                      Untaken(ctx[g], n, pickings'),
                      EntryFor(ctx[g].lines[n]) \notin raced',
                      EntryFor(ctx[g].lines[n]) \notin contended
               PROVE  Stocked(quants', EntryFor(ctx[g].lines[n]), ctx[g].lines[n].qty)
    BY <1>3 DEF CoveredInv
  <2> DEFINE f == EntryFor(ctx[g].lines[n])  q == ctx[g].lines[n].qty
  <2>1. /\ n \in 1..Len(ctx[g].lines) /\ n \in Nat /\ ctx[g].lines \in Dto
        /\ q \in Nat /\ f \in Entries /\ f \in Products \X Places
    BY CheckedLines
  <2>2. Stocked(quants, f, q)
    BY <1>4, <1>9 DEF OrdersInv, CoveredInv
  <2>3. PICK i \in RowsIn(quants, f) : quants[i].quantity >= q
    BY <2>2 DEF Stocked
  <2>4. CASE f # e
    <3> HIDE DEF f, q
    <3>1. Stocked(quants', f, q)
      BY <1>5, <2>1, <2>3, <2>4 DEF Stocked
    <3> QED BY <3>1 DEF f, q
  <2>5. CASE f = e /\ d \in Nat
    <3>1. RowsIn(quants', f) = RowsIn(quants, f) /\ quants'[i].quantity = quants[i].quantity + d
      BY <1>4, <1>6, <2>3, <2>5
    <3>2. quants[i].quantity \in Int
      BY <1>7, <2>3
    <3> HIDE DEF f, q
    <3>3. quants'[i].quantity >= q
      BY <2>1, <2>3, <2>5, <3>1, <3>2
    <3>4. Stocked(quants', f, q)
      BY <2>3, <3>1, <3>3 DEF Stocked
    <3> QED BY <3>4 DEF f, q
  <2>6. CASE f = e /\ d \notin Nat
    <3>1. PICK m \in 1..ctx[h].checked : /\ Picking(h).posted = 2 * m - 2
                                         /\ f = EntryFor(ctx[h].lines[m])
      BY <1>8, <2>1, <2>6
    <3>2. ctx[h].kind = "outgoing"
      BY <1>8, <2>1, <2>6
    <3>3. m \in 1..Len(ctx[h].lines) /\ ctx[h].lines \in Dto /\ m \in Nat
      BY <3>2, CheckedLines
    <3>4. CASE g # h
      <4>1. f \in Asked(ctx[g].lines) /\ f \in Asked(ctx[h].lines)
        BY <2>1, <3>1, <3>3, EntriesAsked
      <4> HIDE DEF f
      <4> QED BY <3>2, <3>4, <4>1 DEF f, OrdersInv, AskedInv
    <3>5. CASE g = h /\ m # n
      <4>1. f \in AskedTwice(ctx[g].lines)
        BY <2>1, <3>1, <3>3, <3>5, EntriesAsked
      <4> QED BY <3>5, <4>1 DEF OrdersInv, AskedInv
    <3>6. CASE g = h /\ m = n
      <4>1. pc[h] \in Carrying
        BY <1>3 DEF Carrying
      <4>2. ctx[h].picking # 0 /\ pickings'[ctx[h].picking].posted = Picking(h).posted + 1
        BY <4>1, OwnPicking, SaveQuantFacts DEF RequestsInv
      <4>3. pickings'[ctx[h].picking].posted < 2 * n - 1
        BY <3>6, <4>2 DEF Untaken
      <4> QED BY <2>1, <3>1, <3>6, <4>2, <4>3
    <3> QED BY <3>4, <3>5, <3>6
  <2> QED BY <2>4, <2>5, <2>6
<1>11. RowsNotNegative'
  <2> SUFFICES ASSUME NEW f \in Products \X Places, f \notin raced', f \notin contended,
                      NEW i \in RowsIn(quants', f)
               PROVE  quants'[i].quantity >= 0
    BY <1>3 DEF RowsNotNegative
  <2>1. f \in Entries
    BY DEF Entries, Locations
  <2>2. \A k \in RowsIn(quants, f) : quants[k].quantity >= 0 /\ quants[k].quantity \in Int
    BY <1>4, <1>7 DEF OrdersInv, RowsNotNegative
  <2>3. CASE f # e
    BY <1>5, <2>1, <2>2, <2>3
  <2>4. CASE f = e /\ d \in Nat
    <3>1. \/ quants'[i].quantity = d
          \/ i \in RowsIn(quants, f) /\ quants'[i].quantity = quants[i].quantity + d
      BY <1>4, <1>6, <2>4
    <3> QED BY <2>2, <2>4, <3>1
  <2>5. CASE f = e /\ d \notin Nat
    <3>1. ctx[h].kind = "outgoing"
      BY <1>8, <2>5
    <3>2. PICK m \in 1..ctx[h].checked : /\ Picking(h).posted = 2 * m - 2
                                         /\ d = -ctx[h].lines[m].qty
                                         /\ f = EntryFor(ctx[h].lines[m])
      BY <1>8, <2>5
    <3>3. m \in Nat /\ ctx[h].lines[m].qty \in Nat
      BY <3>1, CheckedLines
    <3>4. Untaken(ctx[h], m, pickings)
      <4>1. 2 * m - 2 < 2 * m - 1
        BY <3>3
      <4> QED BY <3>2, <4>1 DEF Untaken, Picking
    <3>5. PICK k \in RowsIn(quants, f) : quants[k].quantity >= ctx[h].lines[m].qty
      BY <1>4, <3>1, <3>2, <3>4 DEF OrdersInv, CoveredInv, Stocked
    <3>6. /\ RowsIn(quants', f) = RowsIn(quants, f) /\ k = i
          /\ quants'[k].quantity = quants[k].quantity + d
      BY <1>4, <1>6, <2>5, <3>5
    <3> QED BY <2>2, <3>2, <3>3, <3>5, <3>6
  <2> QED BY <2>3, <2>4, <2>5
<1> QED
  BY <1>10, <1>11

LEMMA OrdersStep ==
  ASSUME TypeOK, RequestsInv, LedgerInv, OrdersInv, NEW h \in Handlers, Turn(h)
  PROVE  OrdersInv'
<1>1. AskedInv'
  BY AskedStep DEF OrdersInv
<1>2. CoveredInv' /\ RowsNotNegative'
  BY QuietOrders, SavedOrders
<1> QED
  BY <1>1, <1>2 DEF OrdersInv

-----------------------------------------------------------------------------
(***************************************************************************)
(* The theorems                                                            *)
(***************************************************************************)
IInv == TypeOK /\ RequestsInv /\ LedgerInv /\ OrdersInv

LEMMA Empty ==
  ASSUME Init
  PROVE  /\ quants \in Seq(QuantRow) /\ pickings \in Seq(PickingRow)
         /\ Len(pickings) = 0 /\ DOMAIN pickings = {} /\ DOMAIN quants = {}
  BY DEF Init

LEMMA InitInv == Init => IInv
<1> SUFFICES ASSUME Init PROVE IInv
  OBVIOUS
<1>1. TypeOK
  <2>1. pc \in [Handlers -> Calls] /\ ctx \in [Handlers -> Context]
    BY ContextTypes DEF Init, Calls
  <2>2. Len(pickings) <= MaxPickings
    BY Empty, StockAssumption
  <2>3. custody \in Nat /\ period \in 0..1
    BY DEF Init
  <2>4. raced \subseteq Entries /\ contended \subseteq Entries
    BY DEF Init
  <2>5. answered \in BOOLEAN
    BY DEF Init
  <2>6. quants \in Seq(QuantRow) /\ pickings \in Seq(PickingRow)
    BY Empty
  <2> QED BY <2>1, <2>2, <2>3, <2>4, <2>5, <2>6 DEF TypeOK
<1>2. RequestsInv
  BY Empty DEF Init, RequestsInv, HeldInv, Held, CarriedInv, OwnPickings, PickingsInv,
     DoneIsPosted, CustodyInv, AnsweredIsInCustody, Carrying, Settling, NoContext
<1>3. BoundInv /\ FoundInv /\ OneRow
  BY Empty DEF Init, BoundInv, RowsWithin, FoundInv, OneRow, RowsIn
<1>4. LedgerExact
  <2> SUFFICES ASSUME NEW e \in Entries PROVE BalanceIn(quants, e) = PostedIn(pickings, e)
    BY LedgerSides DEF LedgerExact
  <2>1. BalanceIn(quants, e) = 0
    <3>1. RowsIn(quants, e) = {}
      BY Empty DEF RowsIn
    <3> QED BY Empty, <3>1, BalanceIsSum, SumEmpty
  <2>2. PostedIn(pickings, e) = 0
    <3>1. IsFiniteSet(DOMAIN pickings)
      BY Empty, FS_EmptySet
    <3>2. PostedIn(pickings, e)
          = Sum([k \in DOMAIN pickings |-> PostedBy(pickings[k], e)], DOMAIN pickings)
      BY <3>1, PostedInIsSum
    <3> QED BY Empty, <3>2, SumEmpty
  <2> QED BY <2>1, <2>2
<1>5. OrdersInv
  BY Empty DEF Init, OrdersInv, AskedInv, CoveredInv, RowsNotNegative, RowsIn, NoContext
<1> QED
  BY <1>1, <1>2, <1>3, <1>4, <1>5 DEF IInv, LedgerInv

LEMMA InvStep == IInv /\ [Next]_vars => IInv'
<1> SUFFICES ASSUME IInv, [Next]_vars PROVE IInv'
  OBVIOUS
<1> USE DEF IInv
<1>1. ASSUME NEW h \in Handlers, Turn(h) PROVE IInv'
  <2>1. RequestsInv' /\ TypeRest'
    BY <1>1, RequestsStep
  <2>2. LedgerInv' /\ quants' \in Seq(QuantRow)
    BY <1>1, LedgerStep
  <2>3. OrdersInv'
    BY <1>1, OrdersStep
  <2>4. TypeOK'
    BY <2>1, <2>2 DEF TypeOK, TypeRest
  <2> QED BY <2>1, <2>2, <2>3, <2>4
<1>2. ASSUME Next PROVE IInv'
  BY <1>1, <1>2 DEF Next, Turn
<1>3. ASSUME UNCHANGED vars PROVE IInv'
  <2>1. UNCHANGED <<quants, pickings, custody, period, pc, ctx, raced, contended, answered>>
    BY <1>3 DEF vars, tables
  <2>2. TypeOK' /\ RequestsInv'
    BY <2>1 DEF TypeOK, RequestsInv, HeldInv, CarriedInv, Picking, OwnPickings, PickingsInv,
       DoneIsPosted, CustodyInv, AnsweredIsInCustody
  <2>3. BoundInv' /\ FoundInv' /\ OneRow'
    BY <2>1 DEF LedgerInv, BoundInv, RowsWithin, FoundInv, OneRow
  <2>4. LedgerExact'
    BY <2>1, LedgerSides, LedgerSidesNext DEF LedgerInv, LedgerExact
  <2>5. OrdersInv'
    BY <2>1 DEF OrdersInv, AskedInv, CoveredInv, RowsNotNegative
  <2> QED BY <2>2, <2>3, <2>4, <2>5 DEF LedgerInv
<1> QED
  BY <1>2, <1>3

LEMMA Invariance == Spec => []IInv
  BY InitInv, InvStep, PTL DEF Spec

\* Types: no request, picking or quant ever leaves its domain; in particular no quantity
\* leaves -Most..Most, whatever adjustments overlap, and period stays within 0..1.
THEOREM TypeCorrect == Spec => []TypeOK
<1>1. IInv => TypeOK
  BY DEF IInv
<1> QED
  BY Invariance, <1>1, PTL

\* Double entry survives every failure half way and every interleaving but that of two
\* adjustments of one entry: what the quants hold is what the moves brought and took.
THEOREM LedgerBalances == Spec => []LedgerExact
<1>1. IInv => LedgerExact
  BY DEF IInv, LedgerInv
<1> QED
  BY Invariance, <1>1, PTL

\* A picking that says DONE has moved every line out of its source and into its
\* destination.
THEOREM DonePosted == Spec => []DoneIsPosted
<1>1. IInv => DoneIsPosted
  BY DEF IInv, RequestsInv
<1> QED
  BY Invariance, <1>1, PTL

\* Whoever got the answer to a receipt has the goods in custody and within one period.
THEOREM CustodyHeld == Spec => []AnsweredIsInCustody
<1>1. IInv => AnsweredIsInCustody
  BY DEF IInv, RequestsInv
<1> QED
  BY Invariance, <1>1, PTL

\* A place whose goods two picking orders, or two lines of one, never asked for at once,
\* and whose adjustments never overlapped, does not go below zero: what the check of a
\* line found is still there when executeMove takes it.
THEOREM NeverNegative == Spec => []NeverNegativeUnlessContended
<1>1. IInv => NeverNegativeUnlessContended
  <2> SUFFICES ASSUME IInv, NEW e \in (Products \X Places) \ (raced \cup contended)
               PROVE  BalanceIn(quants, e) >= 0
    BY LedgerSides DEF NeverNegativeUnlessContended
  <2> DEFINE S == RowsIn(quants, e)
             f == [i \in S |-> quants[i].quantity]
  <2>1. e \in Entries \ raced
    BY DEF Entries, Locations
  <2>2. quants \in Seq(QuantRow) /\ BalanceIn(quants, e) = Sum(f, S)
    BY BalanceIsSum DEF IInv, TypeOK
  <2>3. \A i \in S : f[i] \in Int /\ f[i] >= 0
    BY <2>2, RowSets DEF IInv, OrdersInv, RowsNotNegative
  <2>4. \A i, j \in S : i = j
    BY <2>1 DEF IInv, LedgerInv, OneRow
  <2> HIDE DEF f
  <2>5. CASE S = {}
    BY <2>2, <2>5, SumEmpty
  <2>6. CASE S # {}
    <3>1. PICK i \in S : S = {i}
      BY <2>4, <2>6
    <3>2. IsFiniteSet(S) /\ S \ {i} = {}
      BY <2>2, <3>1, RowSets
    <3> HIDE DEF S
    <3>3. Sum(f, S) = f[i] + Sum(f, {})
      BY <2>3, <3>1, <3>2, SumRemove
    <3> QED BY <2>2, <2>3, <3>1, <3>3, SumEmpty
  <2> QED BY <2>5, <2>6
<1> QED
  BY Invariance, <1>1, PTL
=============================================================================

--------------------------- MODULE SequenceProofs ---------------------------
(***************************************************************************)
(* Theorems about Sequence, for any number of callers, codes and any width *)
(* of the last_number column: no number is returned twice, no two numbers  *)
(* are formatted alike, and next() implements an atomic counter.           *)
(***************************************************************************)
EXTENDS Sequence, NaturalsInduction, WellFoundedInduction, SequenceTheorems, TLAPS

-----------------------------------------------------------------------------
(***************************************************************************)
(* The digits of a number                                                  *)
(*                                                                         *)
(* A recursive function is a CHOOSE, and means what it says once a         *)
(* function with that equation is shown to exist; what it computes is      *)
(* proved on the least number for which it would not.                      *)
(***************************************************************************)
LEMMA LeastNumber ==
  ASSUME NEW T, T \subseteq Nat, T # {}
  PROVE  \E n \in T : \A m \in T : n <= m
<1>1. IsWellFoundedOn(OpToRel(<, Nat), Nat)
  BY NatLessThanWellFounded
<1>2. PICK n \in T : \A m \in T : ~(<<m, n>> \in OpToRel(<, Nat))
  BY <1>1, WFMin
<1>3. \A m \in T : ~(m < n)
  BY <1>2 DEF OpToRel
<1> QED
  BY <1>3

LEMMA DivMod ==
  ASSUME NEW n \in Nat, NEW b \in Nat, b > 1, n >= b
  PROVE  /\ n \div b \in 1..(n - 1)
         /\ n % b \in 0..(b - 1)
         /\ n = b * (n \div b) + (n % b)
<1>1. \A k, a \in Nat : a > 0 => k = a * (k \div a) + (k % a)
  OBVIOUS
<1>2. PICK q \in Int, r \in Int :
        /\ q = n \div b /\ r = n % b
        /\ 0 <= r /\ r < b
  OBVIOUS
<1>3. n = b * q + r
  BY <1>1, <1>2
<1>4. q >= 1
  <2> SUFFICES ASSUME q <= 0 PROVE FALSE
    BY <1>2
  <2>1. b * q <= 0
    OBVIOUS
  <2> QED
    BY <1>2, <1>3, <2>1
<1>5. b * q >= 2 * q
  BY <1>4
<1>6. q \in 1..(n - 1) /\ r \in 0..(b - 1)
  BY <1>2, <1>3, <1>4, <1>5
<1> QED
  BY <1>2, <1>3, <1>6

USE SequenceAssumption

\* The right-hand side of Digits, and Digits up to a number.
DigitsFrom(f, n) == IF n < Radix THEN <<n>> ELSE Append(f[n \div Radix], n % Radix)
IsDigits(f, n)   == f = [m \in 0..n |-> DigitsFrom(f, m)]

LEMMA IsDigitsUnique ==
  ASSUME NEW f, NEW g, NEW m \in Nat, NEW n \in Nat, IsDigits(f, m), IsDigits(g, n)
  PROVE  \A k \in 0..m : k <= n => f[k] = g[k]
<1> DEFINE T == {k \in 0..m : k <= n /\ f[k] # g[k]}
<1> SUFFICES ASSUME T # {} PROVE FALSE
  OBVIOUS
<1>1. T \subseteq Nat
  OBVIOUS
<1>2. PICK k \in T : \A j \in T : k <= j
  BY <1>1, LeastNumber
<1>3. k \in 0..m /\ k \in 0..n /\ f[k] # g[k]
  BY <1>2
<1>4. f[k] = DigitsFrom(f, k) /\ g[k] = DigitsFrom(g, k)
  <2>1. f = [j \in 0..m |-> DigitsFrom(f, j)]
    BY DEF IsDigits
  <2>2. g = [j \in 0..n |-> DigitsFrom(g, j)]
    BY DEF IsDigits
  <2>3. f[k] = DigitsFrom(f, k)
    BY <1>3, <2>1, Zenon
  <2>4. g[k] = DigitsFrom(g, k)
    BY <1>3, <2>2, Zenon
  <2> QED
    BY <2>3, <2>4
<1>5. CASE k < Radix
  BY <1>3, <1>4, <1>5 DEF DigitsFrom
<1>6. CASE k >= Radix
  <2>0. k \in Nat /\ Radix \in Nat /\ Radix > 1
    BY <1>3
  <2>1. k \div Radix \in 1..(k - 1)
    BY <1>6, <2>0, DivMod
  <2>2. k \div Radix \notin T /\ k \div Radix \in 0..m /\ k \div Radix <= n
    BY <1>2, <1>3, <2>1
  <2>3. f[k \div Radix] = g[k \div Radix]
    BY <2>2
  <2> QED
    BY <1>3, <1>4, <1>6, <2>3 DEF DigitsFrom
<1> QED
  BY <1>3, <1>5, <1>6

LEMMA IsDigitsExists == \A n \in Nat : \E f : IsDigits(f, n)
<1> DEFINE T == {n \in Nat : ~\E f : IsDigits(f, n)}
<1> SUFFICES ASSUME T # {} PROVE FALSE
  OBVIOUS
<1>1. T \subseteq Nat
  OBVIOUS
<1>2. PICK n \in T : \A m \in T : n <= m
  BY <1>1, LeastNumber
<1>3. n \in Nat /\ ~\E f : IsDigits(f, n)
  BY <1>2
<1> HIDE DEF T
<1>4. CASE n < Radix
  <2> DEFINE g == [m \in 0..n |-> <<m>>]
  <2>1. \A m \in 0..n : DigitsFrom(g, m) = <<m>>
    BY <1>3, <1>4 DEF DigitsFrom
  <2>2. IsDigits(g, n)
    BY <2>1 DEF IsDigits
  <2> QED
    BY <1>3, <2>2
<1>5. CASE n >= Radix
  <2>1. n - 1 \in Nat /\ n - 1 \notin T
    BY <1>2, <1>3, <1>5
  <2>2. PICK f : IsDigits(f, n - 1)
    BY <2>1 DEF T
  <2> DEFINE g == [m \in 0..n |-> IF m < n THEN f[m] ELSE DigitsFrom(f, n)]
  <2>3. \A m \in 0..n : m >= Radix => g[m \div Radix] = f[m \div Radix]
    <3> SUFFICES ASSUME NEW m \in 0..n, m >= Radix PROVE g[m \div Radix] = f[m \div Radix]
      OBVIOUS
    <3>0. m \in Nat /\ Radix \in Nat /\ Radix > 1
      BY <1>3
    <3>1. m \div Radix \in 1..(m - 1)
      BY <3>0, DivMod
    <3>2. m \div Radix \in 0..n /\ m \div Radix < n
      BY <1>3, <3>1
    <3> QED
      BY <3>2
  <2>4. \A m \in 0..n : DigitsFrom(g, m) = DigitsFrom(f, m)
    <3> HIDE DEF g
    <3> QED
      BY <1>3, <2>3 DEF DigitsFrom
  <2>5. \A m \in 0..(n - 1) : f[m] = DigitsFrom(f, m)
    BY <2>2, Zenon DEF IsDigits
  <2>6. \A m \in 0..n : g[m] = DigitsFrom(f, m)
    BY <1>3, <2>5
  <2>7. g = [m \in 0..n |-> DigitsFrom(g, m)]
    BY <2>4, <2>6
  <2> QED
    BY <1>3, <2>7 DEF IsDigits
<1> QED
  BY <1>3, <1>4, <1>5

\* Digits has the equation that defines it.
LEMMA DigitsIs == \A n \in Nat : Digits[n] = DigitsFrom(Digits, n)
<1> DEFINE upTo(n) == CHOOSE f : IsDigits(f, n)
           g == [n \in Nat |-> upTo(n)[n]]
<1>1. \A n \in Nat : IsDigits(upTo(n), n)
  BY IsDigitsExists
<1>2. ASSUME NEW n \in Nat PROVE g[n] = DigitsFrom(g, n)
  <2>1. upTo(n)[n] = DigitsFrom(upTo(n), n)
    <3>1. upTo(n) = [m \in 0..n |-> DigitsFrom(upTo(n), m)]
      BY <1>1 DEF IsDigits
    <3>2. n \in 0..n
      OBVIOUS
    <3> HIDE DEF upTo
    <3> QED
      BY <3>1, <3>2, Zenon
  <2>2. g[n] = upTo(n)[n]
    OBVIOUS
  <2>3. CASE n < Radix
    BY <2>1, <2>2, <2>3 DEF DigitsFrom
  <2>4. CASE n >= Radix
    <3>1. n \div Radix \in 1..(n - 1)
      BY <2>4, DivMod
    <3>2. PICK m \in Nat : m = n \div Radix /\ m <= n
      BY <3>1
    <3>3. upTo(n)[m] = upTo(m)[m]
      <4>1. IsDigits(upTo(n), n) /\ IsDigits(upTo(m), m) /\ m \in 0..m
        BY <1>1, <3>2
      <4> HIDE DEF upTo
      <4> QED
        BY <3>2, <4>1, IsDigitsUnique
    <3>4. g[m] = upTo(n)[m]
      BY <3>3
    <3> HIDE DEF g, upTo
    <3> QED
      BY <2>1, <2>2, <2>4, <3>2, <3>4 DEF DigitsFrom
  <2> QED
    BY <2>3, <2>4
<1>3. g = [n \in Nat |-> DigitsFrom(g, n)]
  BY <1>2
<1> HIDE DEF g
<1>4. Digits = CHOOSE f : f = [n \in Nat |-> DigitsFrom(f, n)]
  BY DEF Digits, DigitsFrom
<1>5. Digits = [n \in Nat |-> DigitsFrom(Digits, n)]
  BY <1>3, <1>4, Zenon
<1> QED
  BY <1>5, Zenon

LEMMA DivRadix ==
  ASSUME NEW n \in Nat, n >= Radix
  PROVE  /\ n \div Radix \in Nat /\ n % Radix \in Nat
         /\ 1 <= n \div Radix /\ n \div Radix < n
         /\ n = Radix * (n \div Radix) + (n % Radix)
<1>1. Radix \in Nat /\ Radix > 1
  OBVIOUS
<1>2. /\ n \div Radix \in 1..(n - 1) /\ n % Radix \in 0..(Radix - 1)
      /\ n = Radix * (n \div Radix) + (n % Radix)
  BY <1>1, DivMod
<1> QED
  BY <1>1, <1>2

\* String(n): at least one digit, and no leading zero but that of zero itself.
LEMMA DigitsShape ==
  \A n \in Nat : /\ Digits[n] \in Seq(Nat) /\ Len(Digits[n]) >= 1
                 /\ n # 0 => Digits[n][1] # 0
<1> DEFINE Shape(n) == /\ Digits[n] \in Seq(Nat) /\ Len(Digits[n]) >= 1
                       /\ n # 0 => Digits[n][1] # 0
           T == {n \in Nat : ~Shape(n)}
<1> SUFFICES ASSUME T # {} PROVE FALSE
  OBVIOUS
<1>1. T \subseteq Nat
  OBVIOUS
<1>2. PICK n \in T : \A m \in T : n <= m
  BY <1>1, LeastNumber
<1>3. n \in Nat /\ ~Shape(n)
  BY <1>2
<1>4. Digits[n] = IF n < Radix THEN <<n>> ELSE Append(Digits[n \div Radix], n % Radix)
  BY <1>3, DigitsIs DEF DigitsFrom
<1>5. n >= Radix
  <2> SUFFICES ASSUME n < Radix PROVE FALSE
    BY <1>3
  <2>1. Digits[n] = <<n>>
    BY <1>4
  <2> QED
    BY <1>3, <2>1
<1>6. PICK m, r : m = n \div Radix /\ r = n % Radix
  OBVIOUS
<1>6a. m \in Nat /\ r \in Nat /\ m < n /\ m # 0
  <2>1. n \in Nat /\ n >= Radix
    BY <1>3, <1>5
  <2>2. /\ n \div Radix \in Nat /\ n % Radix \in Nat
        /\ 1 <= n \div Radix /\ n \div Radix < n
    BY <2>1, DivRadix
  <2> QED
    BY <1>6, <2>2
<1>7. Shape(m)
  BY <1>2, <1>3, <1>6a
<1>8. Digits[n] = Append(Digits[m], r)
  BY <1>4, <1>5, <1>6
<1>9. Shape(n)
  BY <1>6a, <1>7, <1>8
<1> QED
  BY <1>3, <1>9

\* No two numbers have the same digits.
LEMMA DigitsInjective == \A m, n \in Nat : Digits[m] = Digits[n] => m = n
<1> DEFINE T == {m \in Nat : \E n \in Nat : Digits[m] = Digits[n] /\ m # n}
<1> SUFFICES ASSUME T # {} PROVE FALSE
  OBVIOUS
<1>1. T \subseteq Nat
  OBVIOUS
<1>2. PICK m \in T : \A k \in T : m <= k
  BY <1>1, LeastNumber
<1>3. m \in Nat
  BY <1>2
<1>4. PICK n \in Nat : Digits[m] = Digits[n] /\ m # n
  BY <1>2
<1>5. /\ Digits[m] = DigitsFrom(Digits, m) /\ Digits[n] = DigitsFrom(Digits, n)
      /\ Radix \in Nat /\ Radix > 1
  BY <1>3, <1>4, DigitsIs
<1>6. ASSUME NEW k \in Nat, k >= Radix
      PROVE  /\ Digits[k] = Append(Digits[k \div Radix], k % Radix)
             /\ k \div Radix \in Nat /\ k % Radix \in Nat
             /\ Digits[k \div Radix] \in Seq(Nat) /\ Len(Digits[k \div Radix]) >= 1
             /\ Len(Digits[k]) >= 2
  <2>1. k \div Radix \in Nat /\ k % Radix \in Nat
    BY <1>6, DivRadix
  <2>2. Digits[k] = Append(Digits[k \div Radix], k % Radix)
    <3>1. Digits[k] = IF k < Radix THEN <<k>> ELSE Append(Digits[k \div Radix], k % Radix)
      BY DigitsIs DEF DigitsFrom
    <3>2. ~(k < Radix)
      BY <1>5, <1>6
    <3> QED
      BY <3>1, <3>2
  <2>3. Digits[k \div Radix] \in Seq(Nat) /\ Len(Digits[k \div Radix]) >= 1
    BY <2>1, DigitsShape
  <2> QED
    BY <2>1, <2>2, <2>3
<1>7. ASSUME NEW k \in Nat, k < Radix PROVE Digits[k] = <<k>>
  BY <1>7, DigitsIs DEF DigitsFrom
<1>8. CASE m < Radix /\ n < Radix
  BY <1>3, <1>4, <1>7, <1>8
<1>9. CASE m < Radix /\ n >= Radix
  <2>1. Len(Digits[n]) >= 2
    BY <1>4, <1>6, <1>9, Zenon
  <2>2. Len(Digits[m]) = 1
    <3>1. Digits[m] = <<m>>
      BY <1>3, <1>7, <1>9, Zenon
    <3> QED
      BY <3>1
  <2> QED
    BY <1>4, <2>1, <2>2
<1>10. CASE m >= Radix /\ n < Radix
  <2>1. Len(Digits[m]) >= 2
    BY <1>3, <1>4, <1>6, <1>10
  <2>2. Len(Digits[n]) = 1
    BY <1>3, <1>4, <1>7, <1>10
  <2> QED
    BY <1>4, <2>1, <2>2
<1>11. CASE m >= Radix /\ n >= Radix
  <2>1. /\ m \div Radix < m /\ m = Radix * (m \div Radix) + (m % Radix)
        /\ n = Radix * (n \div Radix) + (n % Radix)
    BY <1>3, <1>4, <1>11, DivRadix
  <2>2. PICK a \in Nat, b \in Nat, r \in Nat, s \in Nat :
          /\ a = m \div Radix /\ b = n \div Radix /\ r = m % Radix /\ s = n % Radix
    BY <1>3, <1>4, <1>6, <1>11
  <2>3. Append(Digits[a], r) = Append(Digits[b], s)
    BY <1>3, <1>4, <1>6, <1>11, <2>2
  <2>4. Digits[a] = Digits[b] /\ r = s
    <3>1. Digits[a] \in Seq(Nat) /\ Digits[b] \in Seq(Nat)
      BY DigitsShape
    <3>2. PICK u \in Seq(Nat), v \in Seq(Nat) : u = Digits[a] /\ v = Digits[b]
      BY <3>1
    <3>3. Append(u, r) = Append(v, s)
      BY <2>3, <3>2
    <3>4. u = v /\ r = s
      BY <3>3, AppendInjective
    <3> QED
      BY <3>2, <3>4
  <2>5. a < m
    BY <1>3, <2>1, <2>2
  <2>6. a = b
    BY <1>2, <1>3, <2>4, <2>5
  <2> QED
    BY <1>4, <2>1, <2>2, <2>4, <2>6
<1> QED
  BY <1>3, <1>4, <1>5, <1>8, <1>9, <1>10, <1>11

\* padStart puts zeros in front of a string, and cuts nothing.
PaddedBy(r, s, p) ==
  /\ Len(r) = p + Len(s)
  /\ \A i \in 1..p : r[i] = 0
  /\ \A i \in 1..Len(s) : r[p + i] = s[i]

LEMMA PadStartIs ==
  ASSUME NEW s \in Seq(Nat), NEW w \in Nat
  PROVE  /\ PadStart(s, w) \in Seq(Nat)
         /\ \E p \in Nat : PaddedBy(PadStart(s, w), s, p)
<1>0. Len(s) \in Nat
  BY LenProperties
<1>1. CASE Len(s) >= w
  <2>1. PadStart(s, w) = s
    BY <1>1 DEF PadStart
  <2>2. PaddedBy(s, s, 0)
    BY <1>0 DEF PaddedBy
  <2> QED
    BY <2>1, <2>2
<1>2. CASE Len(s) < w
  <2> PICK p \in Nat : p = w - Len(s)
    BY <1>0, <1>2
  <2>1. PICK z : z = [i \in 1..p |-> 0]
    OBVIOUS
  <2>2. z \in Seq(Nat) /\ Len(z) = p /\ \A i \in 1..p : z[i] = 0
    BY <2>1
  <2>3. PadStart(s, w) = z \o s
    BY <1>0, <1>2, <2>1 DEF PadStart
  <2>4. /\ z \o s \in Seq(Nat) /\ Len(z \o s) = p + Len(s)
        /\ \A i \in 1..(p + Len(s)) : (z \o s)[i] = IF i <= p THEN z[i] ELSE s[i - p]
    BY <2>2, ConcatProperties
  <2>5. \A i \in 1..p : (z \o s)[i] = 0
    BY <1>0, <2>2, <2>4
  <2>6. \A i \in 1..Len(s) : (z \o s)[p + i] = s[i]
    <3> SUFFICES ASSUME NEW i \in 1..Len(s) PROVE (z \o s)[p + i] = s[i]
      OBVIOUS
    <3>1. p + i \in 1..(p + Len(s)) /\ ~(p + i <= p) /\ (p + i) - p = i
      BY <1>0
    <3> QED
      BY <2>4, <3>1
  <2>7. PaddedBy(z \o s, s, p)
    BY <2>4, <2>5, <2>6 DEF PaddedBy
  <2> QED
    BY <2>3, <2>4, <2>7
<1> QED
  BY <1>0, <1>1, <1>2

\* Padding keeps strings apart that do not begin with a zero.
LEMMA PadStartInjective ==
  ASSUME NEW s \in Seq(Nat), NEW t \in Seq(Nat), NEW w \in Nat,
         Len(s) >= 1, Len(t) >= 1, s[1] # 0, t[1] # 0, PadStart(s, w) = PadStart(t, w)
  PROVE  s = t
<1>0. Len(s) \in Nat /\ Len(t) \in Nat
  BY LenProperties
<1>1. PICK r : r = PadStart(s, w) /\ r = PadStart(t, w)
  OBVIOUS
<1>2. PICK p \in Nat : PaddedBy(r, s, p)
  BY <1>1, PadStartIs
<1>3. PICK q \in Nat : PaddedBy(r, t, q)
  BY <1>1, PadStartIs
<1>4. ~(p < q)
  <2> SUFFICES ASSUME p < q PROVE FALSE
    OBVIOUS
  <2>1. p + 1 \in 1..q /\ 1 \in 1..Len(s)
    BY <1>0
  <2> QED
    BY <1>2, <1>3, <2>1 DEF PaddedBy
<1>5. ~(q < p)
  <2> SUFFICES ASSUME q < p PROVE FALSE
    OBVIOUS
  <2>1. q + 1 \in 1..p /\ 1 \in 1..Len(t)
    BY <1>0
  <2> QED
    BY <1>2, <1>3, <2>1 DEF PaddedBy
<1>6. p = q
  BY <1>4, <1>5
<1>7. Len(s) = Len(t)
  BY <1>0, <1>2, <1>3, <1>6 DEF PaddedBy
<1>8. \A i \in 1..Len(s) : s[i] = t[i]
  BY <1>2, <1>3, <1>6, <1>7 DEF PaddedBy
<1> QED
  BY <1>7, <1>8, SeqEqual

\* Formatting keeps numbers apart, whatever the prefix and the padding, also past it.
LEMMA FormattedInjective ==
  ASSUME NEW q \in Configured, NEW m \in Nat \ {0}, NEW n \in Nat \ {0},
         Formatted(q, m) = Formatted(q, n)
  PROVE  m = n
<1>1. PICK s \in Seq(Nat), t \in Seq(Nat) : s = Digits[m] /\ t = Digits[n]
  BY DigitsShape
<1>2. Len(s) >= 1 /\ Len(t) >= 1 /\ s[1] # 0 /\ t[1] # 0
  BY <1>1, DigitsShape
<1>3. PICK w \in Nat : w = Padding[q]
  OBVIOUS
<1>4. PICK u, v : u = PadStart(s, w) /\ v = PadStart(t, w)
  OBVIOUS
<1>5. u \in Seq(Nat) /\ v \in Seq(Nat)
  BY <1>4, PadStartIs
<1>6. CASE Prefix[q] = NoPrefix
  <2>1. u = v
    BY <1>1, <1>3, <1>4, <1>6 DEF Formatted
  <2>2. s = t
    BY <1>2, <1>4, <2>1, PadStartInjective
  <2> QED
    BY <1>1, <2>2, DigitsInjective
<1>7. CASE Prefix[q] # NoPrefix
  <2>1. PICK x : x = <<Prefix[q]>>
    OBVIOUS
  <2>2. x \o u = x \o v
    BY <1>1, <1>3, <1>4, <1>7, <2>1 DEF Formatted
  <2> DEFINE S == Nat \cup {Prefix[q]}
  <2>3. x \in Seq(S) /\ u \in Seq(S) /\ v \in Seq(S)
    <3>1. Nat \subseteq S /\ Prefix[q] \in S
      OBVIOUS
    <3> HIDE DEF S
    <3>2. x \in Seq(S)
      BY <2>1, <3>1
    <3> QED
      BY <1>5, <3>1, <3>2
  <2> HIDE DEF S
  <2>4. u = v
    BY <2>2, <2>3, ConcatSimplifications
  <2>5. s = t
    BY <1>2, <1>4, <2>4, PadStartInjective
  <2> QED
    BY <1>1, <2>5, DigitsInjective
<1> QED
  BY <1>6, <1>7

-----------------------------------------------------------------------------
(***************************************************************************)
(* The inductive invariant                                                 *)
(***************************************************************************)
\* The row lock is held exactly by the caller between SELECT and COMMIT.
LockInv ==
  \A c \in Callers :
    /\ pc[c] \in {"update", "commit", "return"} => code[c] \in Configured
    /\ \A q \in Configured :
         lock[q] = c <=> (pc[c] \in {"update", "commit"} /\ code[c] = q)

\* While the lock is held the entity in memory is not stale.
EntityInv ==
  \A c \in Callers :
    /\ pc[c] = "update" => entity[c] = lastNumber[code[c]]
    /\ pc[c] = "commit" => entity[c] = lastNumber[code[c]] + 1
    /\ pc[c] = "return" => entity[c] \in 1..lastNumber[code[c]]

\* A number in the hands of a caller has not been returned and nobody else has it.
FreshInv ==
  \A c \in Callers : pc[c] = "return" =>
    /\ \A i \in DOMAIN issued[code[c]] : issued[code[c]][i] # entity[c]
    /\ \A d \in Callers \ {c} :
         pc[d] = "return" /\ code[d] = code[c] => entity[d] # entity[c]

\* No number is returned twice, and none beyond the counter.
IssuedInv ==
  \A q \in Configured :
    /\ \A i \in DOMAIN issued[q] : issued[q][i] \in 1..lastNumber[q]
    /\ \A i, j \in DOMAIN issued[q] : i # j => issued[q][i] # issued[q][j]

IInv == TypeOK /\ LockInv /\ EntityInv /\ FreshInv /\ IssuedInv

LEMMA InitIInv == Init => IInv
BY DEF Init, IInv, TypeOK, LockInv, EntityInv, FreshInv, IssuedInv, Statements

\* Every statement of next(), failing ones included, preserves the invariant.
LEMMA StepIInv == IInv /\ [Next]_vars => IInv'
<1> SUFFICES ASSUME IInv, [Next]_vars PROVE IInv'
  OBVIOUS
<1>0. TypeOK /\ LockInv /\ EntityInv /\ FreshInv /\ IssuedInv
  BY DEF IInv
<1>1. CASE UNCHANGED vars
  BY <1>0, <1>1 DEF IInv, TypeOK, LockInv, EntityInv, FreshInv, IssuedInv, vars
<1>2. ASSUME NEW c \in Callers, NEW p \in Codes, Call(c, p) PROVE IInv'
  <2>1. TypeOK'
    BY <1>0, <1>2 DEF TypeOK, LockInv, EntityInv, Statements, Call
  <2>2. LockInv'
    BY <1>0, <1>2 DEF TypeOK, LockInv, Call
  <2>3. EntityInv'
    BY <1>0, <1>2 DEF TypeOK, LockInv, EntityInv, Call
  <2>4. FreshInv'
    BY <1>0, <1>2 DEF TypeOK, LockInv, EntityInv, FreshInv, IssuedInv, Call
  <2>5. IssuedInv'
    BY <1>0, <1>2 DEF TypeOK, LockInv, EntityInv, FreshInv, IssuedInv, Call
  <2> QED
    BY <2>1, <2>2, <2>3, <2>4, <2>5 DEF IInv
<1>3. ASSUME NEW c \in Callers, SelectForUpdate(c) PROVE IInv'
  <2>1. TypeOK'
    BY <1>0, <1>3 DEF TypeOK, LockInv, EntityInv, Statements, SelectForUpdate
  <2>2. LockInv'
    BY <1>0, <1>3 DEF TypeOK, LockInv, SelectForUpdate
  <2>3. EntityInv'
    BY <1>0, <1>3 DEF TypeOK, LockInv, EntityInv, SelectForUpdate
  <2>4. FreshInv'
    BY <1>0, <1>3 DEF TypeOK, LockInv, EntityInv, FreshInv, IssuedInv, SelectForUpdate
  <2>5. IssuedInv'
    BY <1>0, <1>3 DEF TypeOK, LockInv, EntityInv, FreshInv, IssuedInv, SelectForUpdate
  <2> QED
    BY <2>1, <2>2, <2>3, <2>4, <2>5 DEF IInv
<1>4. ASSUME NEW c \in Callers, NotFound(c) PROVE IInv'
  <2>1. TypeOK'
    BY <1>0, <1>4 DEF TypeOK, LockInv, EntityInv, Statements, NotFound, Over
  <2>2. LockInv'
    BY <1>0, <1>4 DEF TypeOK, LockInv, NotFound, Over
  <2>3. EntityInv'
    BY <1>0, <1>4 DEF TypeOK, LockInv, EntityInv, NotFound, Over
  <2>4. FreshInv'
    BY <1>0, <1>4 DEF TypeOK, LockInv, EntityInv, FreshInv, IssuedInv, NotFound, Over
  <2>5. IssuedInv'
    BY <1>0, <1>4 DEF TypeOK, LockInv, EntityInv, FreshInv, IssuedInv, NotFound, Over
  <2> QED
    BY <2>1, <2>2, <2>3, <2>4, <2>5 DEF IInv
<1>5. ASSUME NEW c \in Callers, Update(c) PROVE IInv'
  <2>1. TypeOK'
    BY <1>0, <1>5 DEF TypeOK, LockInv, EntityInv, Statements, Update
  <2>2. LockInv'
    BY <1>0, <1>5 DEF TypeOK, LockInv, Update
  <2>3. EntityInv'
    BY <1>0, <1>5 DEF TypeOK, LockInv, EntityInv, Update
  <2>4. FreshInv'
    BY <1>0, <1>5 DEF TypeOK, LockInv, EntityInv, FreshInv, IssuedInv, Update
  <2>5. IssuedInv'
    BY <1>0, <1>5 DEF TypeOK, LockInv, EntityInv, FreshInv, IssuedInv, Update
  <2> QED
    BY <2>1, <2>2, <2>3, <2>4, <2>5 DEF IInv
<1>6. ASSUME NEW c \in Callers, OutOfRange(c) PROVE IInv'
  <2>1. TypeOK'
    BY <1>0, <1>6 DEF TypeOK, LockInv, EntityInv, Statements, OutOfRange, Over, Release
  <2>2. LockInv'
    BY <1>0, <1>6 DEF TypeOK, LockInv, OutOfRange, Over, Release
  <2>3. EntityInv'
    BY <1>0, <1>6 DEF TypeOK, LockInv, EntityInv, OutOfRange, Over, Release
  <2>4. FreshInv'
    BY <1>0, <1>6 DEF TypeOK, LockInv, EntityInv, FreshInv, IssuedInv, OutOfRange, Over, Release
  <2>5. IssuedInv'
    BY <1>0, <1>6 DEF TypeOK, LockInv, EntityInv, FreshInv, IssuedInv, OutOfRange, Over, Release
  <2> QED
    BY <2>1, <2>2, <2>3, <2>4, <2>5 DEF IInv
<1>7. ASSUME NEW c \in Callers, Commit(c) PROVE IInv'
  <2>1. TypeOK'
    BY <1>0, <1>7 DEF TypeOK, LockInv, EntityInv, Statements, Commit, Release
  <2>2. LockInv'
    BY <1>0, <1>7 DEF TypeOK, LockInv, Commit, Release
  <2>3. EntityInv'
    BY <1>0, <1>7 DEF TypeOK, LockInv, EntityInv, Commit, Release
  <2>4. FreshInv'
    BY <1>0, <1>7 DEF TypeOK, LockInv, EntityInv, FreshInv, IssuedInv, Commit, Release
  <2>5. IssuedInv'
    BY <1>0, <1>7 DEF TypeOK, LockInv, EntityInv, FreshInv, IssuedInv, Commit, Release
  <2> QED
    BY <2>1, <2>2, <2>3, <2>4, <2>5 DEF IInv
<1>8. ASSUME NEW c \in Callers, Return(c) PROVE IInv'
  <2>1. TypeOK'
    BY <1>0, <1>8 DEF TypeOK, LockInv, EntityInv, Statements, Return, Over
  <2>2. LockInv'
    BY <1>0, <1>8 DEF TypeOK, LockInv, Return, Over
  <2>3. EntityInv'
    BY <1>0, <1>8 DEF TypeOK, LockInv, EntityInv, Return, Over
  <2>4. FreshInv'
    BY <1>0, <1>8 DEF TypeOK, LockInv, EntityInv, FreshInv, IssuedInv, Return, Over
  <2>5. IssuedInv'
    BY <1>0, <1>8 DEF TypeOK, LockInv, EntityInv, FreshInv, IssuedInv, Return, Over
  <2> QED
    BY <2>1, <2>2, <2>3, <2>4, <2>5 DEF IInv
<1>9. ASSUME NEW c \in Callers, Rollback(c) PROVE IInv'
  <2>1. TypeOK'
    BY <1>0, <1>9 DEF TypeOK, LockInv, EntityInv, Statements, Rollback, Over, Release
  <2>2. LockInv'
    BY <1>0, <1>9 DEF TypeOK, LockInv, Rollback, Over, Release
  <2>3. EntityInv'
    BY <1>0, <1>9 DEF TypeOK, LockInv, EntityInv, Rollback, Over, Release
  <2>4. FreshInv'
    BY <1>0, <1>9 DEF TypeOK, LockInv, EntityInv, FreshInv, IssuedInv, Rollback, Over, Release
  <2>5. IssuedInv'
    BY <1>0, <1>9 DEF TypeOK, LockInv, EntityInv, FreshInv, IssuedInv, Rollback, Over, Release
  <2> QED
    BY <2>1, <2>2, <2>3, <2>4, <2>5 DEF IInv
<1>10. ASSUME NEW c \in Callers, DieCommitted(c) PROVE IInv'
  <2>1. TypeOK'
    BY <1>0, <1>10 DEF TypeOK, LockInv, EntityInv, Statements, DieCommitted, Over
  <2>2. LockInv'
    BY <1>0, <1>10 DEF TypeOK, LockInv, DieCommitted, Over
  <2>3. EntityInv'
    BY <1>0, <1>10 DEF TypeOK, LockInv, EntityInv, DieCommitted, Over
  <2>4. FreshInv'
    BY <1>0, <1>10 DEF TypeOK, LockInv, EntityInv, FreshInv, IssuedInv, DieCommitted, Over
  <2>5. IssuedInv'
    BY <1>0, <1>10 DEF TypeOK, LockInv, EntityInv, FreshInv, IssuedInv, DieCommitted, Over
  <2> QED
    BY <2>1, <2>2, <2>3, <2>4, <2>5 DEF IInv
<1> QED
  BY <1>1, <1>2, <1>3, <1>4, <1>5, <1>6, <1>7, <1>8, <1>9, <1>10 DEF Next, Progress

\* Type correctness for any callers, codes and column width: among others, no number the
\* column cannot hold is ever in the row or in the hands of a caller.
THEOREM TypeCorrect == Spec => []TypeOK
<1>1. IInv => TypeOK
  BY DEF IInv
<1> QED
  BY <1>1, InitIInv, StepIInv, PTL DEF Spec

\* Every number is returned at most once (NoDuplicateCode, before formatting).
THEOREM NumbersUnique ==
  Spec => [](\A q \in Configured : \A i, j \in DOMAIN issued[q] :
               i # j => issued[q][i] # issued[q][j])
<1>1. IInv => \A q \in Configured : \A i, j \in DOMAIN issued[q] :
                i # j => issued[q][i] # issued[q][j]
  BY DEF IInv, IssuedInv
<1> QED
  BY <1>1, InitIInv, StepIInv, PTL DEF Spec

\* No code is returned twice, for every prefix, padding, radix and interleaving of the
\* calls: next() returns distinct numbers, and formatting keeps them apart.
THEOREM CodesUnique == Spec => []NoDuplicateCode
<1>1. IInv => NoDuplicateCode
  <2> SUFFICES ASSUME IInv, NEW q \in Configured,
                      NEW i \in DOMAIN issued[q], NEW j \in DOMAIN issued[q], i # j
               PROVE  Formatted(q, issued[q][i]) # Formatted(q, issued[q][j])
    BY DEF NoDuplicateCode
  <2>1. issued[q][i] \in 1..MaxNumber /\ issued[q][j] \in 1..MaxNumber
    BY DEF IInv, TypeOK
  <2>2. issued[q][i] # issued[q][j]
    BY DEF IInv, IssuedInv
  <2> QED
    BY <2>1, <2>2, FormattedInjective
<1> QED
  BY <1>1, InitIInv, StepIInv, PTL DEF Spec

-----------------------------------------------------------------------------
LEMMA RangeAppend ==
  ASSUME NEW S, NEW s \in Seq(S), NEW x \in S
  PROVE  Range(Append(s, x)) = Range(s) \cup {x}
<1>1. /\ DOMAIN s = 1..Len(s) /\ Len(s) \in Nat
      /\ DOMAIN Append(s, x) = 1..(Len(s) + 1)
      /\ \A i \in 1..Len(s) : Append(s, x)[i] = s[i]
      /\ Append(s, x)[Len(s) + 1] = x
  OBVIOUS
<1>2. \A i \in 1..(Len(s) + 1) : i \in 1..Len(s) \/ i = Len(s) + 1
  BY <1>1
<1> QED
  BY <1>1, <1>2 DEF Range

\* Statements that leave the callers in "return", issued and lost alone.
LEMMA InHandUnchanged ==
  ASSUME TypeOK, NEW c \in Callers, pc[c] # "return",
         pc' \in [Callers -> Statements], pc'[c] # "return",
         \A d \in Callers \ {c} : /\ pc'[d] = pc[d] /\ code'[d] = code[d]
                                 /\ entity'[d] = entity[d]
  PROVE  \A q \in Configured : InHand(q)' = InHand(q)
<1> SUFFICES ASSUME NEW q \in Configured PROVE InHand(q)' = InHand(q)
  OBVIOUS
<1>1. \A d \in Callers : (pc'[d] = "return" /\ code'[d] = q) <=> (pc[d] = "return" /\ code[d] = q)
  OBVIOUS
<1>2. \A d \in Callers : pc[d] = "return" => entity'[d] = entity[d]
  OBVIOUS
<1>3. {d \in Callers : pc'[d] = "return" /\ code'[d] = q}
        = {d \in Callers : pc[d] = "return" /\ code[d] = q}
  BY <1>1
<1> QED
  BY <1>2, <1>3 DEF InHand

\* The accounting survives every statement: COMMIT moves the new number into the
\* caller's hand, the caller hands it over or dies with it.
LEMMA AccountStep ==
  IInv /\ EveryNumberAccounted /\ [Next]_vars => EveryNumberAccounted'
<1> SUFFICES ASSUME IInv, EveryNumberAccounted, [Next]_vars
             PROVE  EveryNumberAccounted'
  OBVIOUS
<1>0. TypeOK /\ LockInv /\ EntityInv
  BY DEF IInv
<1>1. CASE UNCHANGED vars
  BY <1>1 DEF EveryNumberAccounted, InHand, vars
<1>2. ASSUME NEW c \in Callers,
             \/ \E q \in Codes : Call(c, q)
             \/ SelectForUpdate(c) \/ NotFound(c) \/ Update(c) \/ OutOfRange(c)
             \/ Rollback(c)
      PROVE  EveryNumberAccounted'
  <2>1. /\ pc[c] # "return" /\ pc' \in [Callers -> Statements] /\ pc'[c] # "return"
        /\ \A d \in Callers \ {c} : /\ pc'[d] = pc[d] /\ code'[d] = code[d]
                                     /\ entity'[d] = entity[d]
        /\ UNCHANGED <<lastNumber, issued, lost>>
    BY <1>0, <1>2
       DEF TypeOK, Statements, Call, SelectForUpdate, NotFound, Update, OutOfRange,
           Rollback, Over
  <2> QED
    BY <1>0, <2>1, InHandUnchanged DEF EveryNumberAccounted
<1>3. ASSUME NEW c \in Callers, Commit(c) PROVE EveryNumberAccounted'
  <2>1. code[c] \in Configured /\ entity[c] = lastNumber[code[c]] + 1
    BY <1>0, <1>3 DEF Commit, LockInv, EntityInv
  <2>2. ASSUME NEW q \in Configured
        PROVE  InHand(q)' = InHand(q) \cup (IF q = code[c] THEN {entity[c]} ELSE {})
    BY <1>0, <1>3 DEF TypeOK, Commit, InHand
  <2>3. ASSUME NEW q \in Configured
        PROVE  lastNumber'[q] = IF q = code[c] THEN lastNumber[q] + 1 ELSE lastNumber[q]
    BY <1>0, <1>3, <2>1 DEF TypeOK, Commit
  <2>4. \A n \in Nat : 1..(n + 1) = 1..n \cup {n + 1}
    OBVIOUS
  <2>5. UNCHANGED <<issued, lost>> /\ \A q \in Configured : lastNumber[q] \in Nat
    BY <1>0, <1>3 DEF TypeOK, Commit
  <2> QED
    BY <2>1, <2>2, <2>3, <2>4, <2>5 DEF EveryNumberAccounted
<1>4. ASSUME NEW c \in Callers, Return(c) PROVE EveryNumberAccounted'
  <2>1. code[c] \in Configured /\ entity[c] \in 1..MaxNumber
    BY <1>0, <1>4 DEF TypeOK, Return, LockInv, EntityInv
  <2>2. ASSUME NEW q \in Configured
        PROVE  Range(issued'[q]) = Range(issued[q])
                                     \cup (IF q = code[c] THEN {entity[c]} ELSE {})
    <3>1. issued[q] \in Seq(1..MaxNumber)
      BY <1>0 DEF TypeOK
    <3>2. issued'[q] = IF q = code[c] THEN Append(issued[q], entity[c]) ELSE issued[q]
      BY <1>0, <1>4, <2>1 DEF TypeOK, Return
    <3> QED
      BY <2>1, <3>1, <3>2, RangeAppend
  <2>3. ASSUME NEW q \in Configured
        PROVE  InHand(q) = InHand(q)' \cup (IF q = code[c] THEN {entity[c]} ELSE {})
    BY <1>0, <1>4 DEF TypeOK, Return, Over, InHand
  <2>4. UNCHANGED <<lastNumber, lost>>
    BY <1>4 DEF Return
  <2> QED
    BY <2>2, <2>3, <2>4 DEF EveryNumberAccounted
<1>5. ASSUME NEW c \in Callers, DieCommitted(c) PROVE EveryNumberAccounted'
  <2>1. ASSUME NEW q \in Configured
        PROVE  lost'[q] = lost[q] \cup (IF q = code[c] THEN {entity[c]} ELSE {})
    BY <1>0, <1>5 DEF TypeOK, DieCommitted
  <2>2. ASSUME NEW q \in Configured
        PROVE  InHand(q) = InHand(q)' \cup (IF q = code[c] THEN {entity[c]} ELSE {})
    BY <1>0, <1>5 DEF TypeOK, DieCommitted, Over, InHand
  <2>3. UNCHANGED <<lastNumber, issued>>
    BY <1>5 DEF DieCommitted
  <2> QED
    BY <2>1, <2>2, <2>3 DEF EveryNumberAccounted
<1> QED
  BY <1>1, <1>2, <1>3, <1>4, <1>5 DEF Next, Progress

THEOREM Accounted == Spec => []EveryNumberAccounted
<1>1. Init => EveryNumberAccounted
  BY DEF Init, EveryNumberAccounted, InHand, Range
<1> QED
  BY <1>1, AccountStep, InitIInv, StepIInv, PTL DEF Spec

-----------------------------------------------------------------------------
LEMMA RefinementStep == IInv /\ [Next]_vars => [Counter!ANext]_(Counter!avars)
<1> SUFFICES ASSUME IInv, [Next]_vars PROVE [Counter!ANext]_(Counter!avars)
  OBVIOUS
<1>0. TypeOK /\ LockInv /\ EntityInv
  BY DEF IInv
<1> USE DEF Counter!avars
<1>1. CASE UNCHANGED vars
  <2>1. UNCHANGED <<lastNumber, issued, pc, code, entity>>
    BY <1>1 DEF vars
  <2>2. UNCHANGED Taken
    BY <2>1 DEF Taken
  <2> QED
    BY <2>1, <2>2
<1>2. ASSUME NEW c \in Callers,
             \/ \E q \in Codes : Call(c, q)
             \/ SelectForUpdate(c) \/ NotFound(c) \/ Update(c) \/ OutOfRange(c)
             \/ Rollback(c)
      PROVE  UNCHANGED Counter!avars
  <2>1. UNCHANGED Taken
    BY <1>0, <1>2 DEF TypeOK, Statements, Call, SelectForUpdate, NotFound, Update,
                      OutOfRange, Rollback, Over, Taken
  <2>2. UNCHANGED <<lastNumber, issued>>
    BY <1>2 DEF Call, SelectForUpdate, NotFound, Update, OutOfRange, Rollback
  <2> QED
    BY <2>1, <2>2
<1>3. ASSUME NEW c \in Callers, Commit(c) PROVE Counter!ANext
  <2>1. code[c] \in Configured /\ entity[c] = lastNumber[code[c]] + 1
    BY <1>0, <1>3 DEF Commit, LockInv, EntityInv
  <2>2. /\ Taken[c] = {}
        /\ Taken' = [Taken EXCEPT ![c] =
                       {[code |-> code[c], number |-> lastNumber[code[c]] + 1]}]
    BY <1>0, <1>3, <2>1 DEF TypeOK, Commit, Taken
  <2>3. /\ lastNumber[code[c]] < MaxNumber
        /\ lastNumber' = [lastNumber EXCEPT ![code[c]] = lastNumber[code[c]] + 1]
        /\ UNCHANGED issued
    BY <1>0, <1>3, <2>1 DEF TypeOK, Commit
  <2>4. Counter!Take(c, code[c])
    BY <2>1, <2>2, <2>3 DEF Counter!Take
  <2>5. \E q \in Configured : Counter!Take(c, q)
    <3> code[c] \in Configured
      BY <2>1
    <3> WITNESS code[c] \in Configured
    <3> QED
      BY <2>4
  <2> QED
    BY <2>5 DEF Counter!ANext
<1>4. ASSUME NEW c \in Callers, Return(c) PROVE Counter!ANext
  <2>1. /\ Taken[c] = {[code |-> code[c], number |-> entity[c]]}
        /\ Taken' = [Taken EXCEPT ![c] = {}]
    BY <1>0, <1>4 DEF TypeOK, Return, Over, Taken
  <2>2. Counter!Deliver(c)
    BY <1>4, <2>1 DEF Return, Counter!Deliver
  <2> QED
    BY <2>2 DEF Counter!ANext
<1>5. ASSUME NEW c \in Callers, DieCommitted(c) PROVE Counter!ANext
  <2>1. Taken[c] # {} /\ Taken' = [Taken EXCEPT ![c] = {}]
    BY <1>0, <1>5 DEF TypeOK, DieCommitted, Over, Taken
  <2>2. Counter!Lose(c)
    BY <1>5, <2>1 DEF DieCommitted, Counter!Lose
  <2> QED
    BY <2>2 DEF Counter!ANext
<1> QED
  BY <1>1, <1>2, <1>3, <1>4, <1>5 DEF Next, Progress

\* Four statements per call, interleaved and failing, behave as one atomic Take
\* followed by Deliver or Lose: the detailed specification implements AtomicCounter.
THEOREM Refinement == Spec => ImplementsCounter
<1>1. Init => Counter!AInit
  BY DEF Init, Counter!AInit, Taken
<1>2. IInv /\ [Next]_vars => [Counter!ANext]_(Counter!avars)
  BY RefinementStep
<1> QED
  BY <1>1, <1>2, InitIInv, StepIInv, PTL DEF Spec, ImplementsCounter, Counter!ASpec
=============================================================================

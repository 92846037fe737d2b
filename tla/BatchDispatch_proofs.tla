------------------------- MODULE BatchDispatch_proofs -------------------------
(***************************************************************************)
(* The way of a batch through the workers and back, for every batch, every *)
(* number of workers and every assignment of lengths.                      *)
(*                                                                         *)
(* Sorting is by rank: the k-th member of a finite set is the one with     *)
(* k - 1 members before it.  That it exists, is unique, and that the list  *)
(* has every member once is proved by counting (OrderSorts); everything    *)
(* that the code sorts is an instance.  Induction over the naturals is     *)
(* proved for a set of them (NatInd), from the order of Nat alone.         *)
(*                                                                         *)
(* The invariant has the heaps of karmarkar_karp hold every row once with  *)
(* bounded spreads (Heap), the batch hold whole prompts (BatchInv), and a  *)
(* worker's output be its chunk in the order of the micro-batches it has   *)
(* run (Progress).                                                         *)
(***************************************************************************)
EXTENDS BatchDispatch, FiniteSetTheorems, SequenceTheorems, WellFoundedInduction, TLAPS

-----------------------------------------------------------------------------
\* Order and induction.

\* A nonempty set of naturals has a least member.
LEMMA Least ==
  ASSUME NEW T \in SUBSET Nat, T # {}
  PROVE  \E m \in T : \A k \in T : m <= k
<1>1. PICK R : R = OpToRel(<, Nat)
  OBVIOUS
<1>2. IsWellFoundedOn(R, Nat)
  BY <1>1, NatLessThanWellFounded
<1>3. PICK m \in T : \A k \in T : <<k, m>> \notin R
  BY <1>2, WFMin
<1>4. \A a, b \in Nat : a < b => <<a, b>> \in R
  BY <1>1 DEF OpToRel
<1>5. \A k \in T : ~(k < m)
  BY <1>3, <1>4
<1> QED
  BY <1>5

\* Induction over the naturals, for a set.
LEMMA NatInd ==
  ASSUME NEW T, 0 \in T, \A n \in Nat : n \in T => n + 1 \in T
  PROVE  \A n \in Nat : n \in T
<1>1. SUFFICES ASSUME Nat \ T # {} PROVE FALSE
  OBVIOUS
<1>2. PICK m \in Nat \ T : \A k \in Nat \ T : m <= k
  BY <1>1, Least
<1>3. m # 0 /\ m - 1 \in Nat
  BY <1>2
<1>4. m - 1 \in T
  BY <1>2, <1>3
<1> QED
  BY <1>2, <1>3, <1>4

\* R orders S strictly and totally.
Orders(R, S) ==
  /\ \A x \in S : <<x, x>> \notin R
  /\ \A x, y \in S : x = y \/ <<x, y>> \in R \/ <<y, x>> \in R
  /\ \A x, y, z \in S : <<x, y>> \in R /\ <<y, z>> \in R => <<x, z>> \in R

\* The members of S before x.
Below(S, R, x) == {y \in S : <<y, x>> \in R}

\* S in the order R, by rank.
InOrder(S, R) == [k \in 1..Cardinality(S) |-> CHOOSE x \in S : Cardinality(Below(S, R, x)) = k - 1]

\* f lists the members of S, each once.
Lists(f, S) ==
  /\ f \in [1..Cardinality(S) -> S]
  /\ \A j, k \in 1..Cardinality(S) : f[j] = f[k] => j = k
  /\ \A x \in S : \E k \in 1..Cardinality(S) : f[k] = x

\* Listing a finite set by rank in a strict total order (Sorted) lists each member once, in that order.
LEMMA OrderSorts ==
  ASSUME NEW S, IsFiniteSet(S), NEW R, Orders(R, S)
  PROVE  /\ Cardinality(S) \in Nat
         /\ Lists(InOrder(S, R), S)
         /\ \A j, k \in 1..Cardinality(S) : j < k => <<InOrder(S, R)[j], InOrder(S, R)[k]>> \in R
         /\ \A k \in 1..Cardinality(S) : \A x \in S :
              Cardinality(Below(S, R, x)) = k - 1 <=> x = InOrder(S, R)[k]
<1> DEFINE n == Cardinality(S)
           Rank(x) == Cardinality(Below(S, R, x))
<1>1. n \in Nat
  BY FS_CardinalityType
<1>2. \A x \in S : Below(S, R, x) \in SUBSET S /\ Below(S, R, x) # S
  BY DEF Below, Orders
<1>3. \A x \in S : IsFiniteSet(Below(S, R, x)) /\ Rank(x) \in 0..n - 1
  <2> TAKE x \in S
  <2>1. Below(S, R, x) \in SUBSET S /\ Below(S, R, x) # S
    BY <1>2
  <2>2. IsFiniteSet(Below(S, R, x)) /\ Rank(x) <= n /\ Rank(x) # n
    BY <2>1, FS_Subset
  <2>3. Rank(x) \in Nat
    BY <2>2, FS_CardinalityType
  <2> QED
    BY <1>1, <2>2, <2>3
<1>4. \A x, y \in S : <<x, y>> \in R => Rank(x) < Rank(y)
  <2> SUFFICES ASSUME NEW x \in S, NEW y \in S, <<x, y>> \in R PROVE Rank(x) < Rank(y)
    OBVIOUS
  <2>1. Below(S, R, x) \in SUBSET Below(S, R, y) /\ Below(S, R, x) # Below(S, R, y)
    BY DEF Below, Orders
  <2>2. IsFiniteSet(Below(S, R, y))
    BY <1>3
  <2>3. Rank(x) <= Rank(y) /\ Rank(x) # Rank(y)
    BY <2>1, <2>2, FS_Subset
  <2> QED
    BY <1>3, <2>3
<1>5. \A x, y \in S : Rank(x) = Rank(y) => x = y
  <2> SUFFICES ASSUME NEW x \in S, NEW y \in S, Rank(x) = Rank(y), x # y PROVE FALSE
    OBVIOUS
  <2>1. <<x, y>> \in R \/ <<y, x>> \in R
    BY DEF Orders
  <2>2. Rank(x) < Rank(y) \/ Rank(y) < Rank(x)
    BY <1>4, <2>1
  <2>3. Rank(x) \in Int
    BY <1>1, <1>3
  <2> HIDE DEF Rank
  <2> QED
    BY <2>2, <2>3
<1>6. PICK f : f = [x \in S |-> Rank(x)]
  OBVIOUS
<1>7. f \in Injection(S, 0..n - 1)
  BY <1>3, <1>5, <1>6, Zenon DEF Injection, IsInjective
<1>8. IsFiniteSet(0..n - 1) /\ Cardinality(0..n - 1) = n
  <2>1. 0 \in Int /\ n - 1 \in Int
    BY <1>1
  <2> QED
    BY <1>1, <2>1, FS_Interval
<1>9. f \in Surjection(S, 0..n - 1)
  BY <1>7, <1>8, FS_Injection, Zenon
<1>10. \A i \in 0..n - 1 : \E x \in S : Rank(x) = i
  BY <1>6, <1>9 DEF Surjection
<1> DEFINE g == InOrder(S, R)
<1>11. \A k \in 1..n : g[k] \in S /\ Rank(g[k]) = k - 1
  <2> TAKE k \in 1..n
  <2>1. k - 1 \in 0..n - 1
    BY <1>1
  <2>2. \E x \in S : Rank(x) = k - 1
    BY <1>10, <2>1
  <2>3. g[k] = CHOOSE x \in S : Rank(x) = k - 1
    BY DEF InOrder
  <2> QED
    BY <2>2, <2>3
<1>12. g = [k \in 1..n |-> g[k]]
  BY DEF InOrder
<1> HIDE DEF g, Rank
<1>13. g \in [1..n -> S]
  BY <1>11, <1>12
<1>14. \A j, k \in 1..n : g[j] = g[k] => j = k
  BY <1>1, <1>11
<1>15. \A x \in S : \E k \in 1..n : g[k] = x
  <2> TAKE x \in S
  <2>1. Rank(x) + 1 \in 1..n /\ (Rank(x) + 1) - 1 = Rank(x)
    BY <1>1, <1>3
  <2>2. Rank(g[Rank(x) + 1]) = Rank(x) /\ g[Rank(x) + 1] \in S
    BY <1>11, <2>1
  <2> QED
    BY <1>5, <2>1, <2>2
<1>16. \A j, k \in 1..n : j < k => <<g[j], g[k]>> \in R
  <2> SUFFICES ASSUME NEW j \in 1..n, NEW k \in 1..n, j < k PROVE <<g[j], g[k]>> \in R
    OBVIOUS
  <2>1. ~(Rank(g[k]) < Rank(g[j])) /\ g[j] # g[k]
    BY <1>11, <1>14
  <2>2. g[j] \in S /\ g[k] \in S
    BY <1>11
  <2> QED
    BY <1>4, <2>1, <2>2 DEF Orders
<1>17. \A k \in 1..n : \A x \in S : Rank(x) = k - 1 <=> x = g[k]
  BY <1>5, <1>11
<1> QED
  BY <1>1, <1>13, <1>14, <1>15, <1>16, <1>17 DEF g, Lists, Rank

-----------------------------------------------------------------------------
\* Concatenation.

\* t[i] is the sum of the first i members of d.
Totals(t, d, n) ==
  /\ t \in [0..n -> Nat] /\ t[0] = 0
  /\ \A i \in 1..n : t[i] = t[i - 1] + d[i]

\* Every sequence of lengths has its running totals.
LEMMA TotalsExist ==
  ASSUME NEW n \in Nat, NEW d \in [1..n -> Nat]
  PROVE  \E t : Totals(t, d, n)
<1> DEFINE T == {m \in Nat : m <= n => \E t : Totals(t, d, m)}
<1>1. 0 \in T
  <2> DEFINE t == [i \in 0..0 |-> 0]
  <2>1. Totals(t, d, 0)
    BY DEF Totals
  <2> QED
    BY <2>1
<1>2. \A m \in Nat : m \in T => m + 1 \in T
  <2> SUFFICES ASSUME NEW m \in Nat, m \in T, m + 1 <= n PROVE \E t : Totals(t, d, m + 1)
    OBVIOUS
  <2>1. PICK t : Totals(t, d, m)
    BY SMT
  <2> DEFINE u == [i \in 0..m + 1 |-> IF i <= m THEN t[i] ELSE t[m] + d[m + 1]]
  <2>2. u \in [0..m + 1 -> Nat] /\ u[0] = 0
    BY <2>1 DEF Totals
  <2>3. ASSUME NEW i \in 1..m + 1 PROVE u[i] = u[i - 1] + d[i]
    <3>1. u[i - 1] = t[i - 1]
      OBVIOUS
    <3>2. CASE i <= m
      BY <2>1, <3>1, <3>2 DEF Totals
    <3>3. CASE i = m + 1
      <4>1. u[m + 1] = t[m] + d[m + 1] /\ i - 1 = m
        BY <3>3
      <4> QED
        BY <3>1, <3>3, <4>1
    <3> QED
      BY <3>2, <3>3
  <2> QED
    BY <2>2, <2>3 DEF Totals
<1> HIDE DEF T
<1>3. n \in T
  BY <1>1, <1>2, NatInd
<1> QED
  BY <1>3 DEF T

\* Running totals do not decrease, and every place up to the last total is in one of the stretches.
LEMMA TotalsGrow ==
  ASSUME NEW n \in Nat, NEW d \in [1..n -> Nat], NEW t, Totals(t, d, n)
  PROVE  /\ \A i, j \in 0..n : i <= j => t[i] <= t[j]
         /\ \A m \in 1..t[n] : \E i \in 1..n : t[i - 1] < m /\ m <= t[i]
<1>1. \A i, j \in 0..n : i <= j => t[i] <= t[j]
  <2> SUFFICES ASSUME NEW i \in 0..n PROVE \A j \in 0..n : i <= j => t[i] <= t[j]
    OBVIOUS
  <2> DEFINE T == {j \in Nat : j <= n /\ i <= j => t[i] <= t[j]}
  <2>1. 0 \in T
    BY DEF Totals
  <2>2. \A j \in Nat : j \in T => j + 1 \in T
    <3> SUFFICES ASSUME NEW j \in Nat, j \in T, j + 1 <= n, i <= j + 1 PROVE t[i] <= t[j + 1]
      OBVIOUS
    <3>1. CASE i = j + 1
      <4>1. t[i] \in Nat
        BY DEF Totals
      <4> QED
        BY <3>1, <4>1
    <3>2. CASE i <= j
      <4>1. j + 1 \in 1..n /\ j \in 0..n /\ (j + 1) - 1 = j
        OBVIOUS
      <4>2. t[j + 1] = t[j] + d[j + 1] /\ d[j + 1] \in Nat /\ t[j] \in Nat /\ t[i] \in Nat
        BY <4>1 DEF Totals
      <4>3. t[i] <= t[j]
        BY <3>2
      <4> QED
        BY <4>2, <4>3
    <3> QED
      BY <3>1, <3>2
  <2> HIDE DEF T
  <2>3. \A j \in Nat : j \in T
    BY <2>1, <2>2, NatInd
  <2> QED
    BY <2>3 DEF T
<1>2. \A m \in 1..t[n] : \E i \in 1..n : t[i - 1] < m /\ m <= t[i]
  <2> SUFFICES ASSUME NEW m \in 1..t[n] PROVE \E i \in 1..n : t[i - 1] < m /\ m <= t[i]
    OBVIOUS
  <2> DEFINE T == {i \in 0..n : m <= t[i]}
  <2>1. n \in T /\ T \in SUBSET Nat
    OBVIOUS
  <2> HIDE DEF T
  <2>2. PICK i \in T : \A k \in T : i <= k
    BY <2>1, Least
  <2>3. i \in 0..n /\ m <= t[i]
    BY DEF T
  <2>4. i # 0
    BY <2>3 DEF Totals
  <2>5. i - 1 \notin T /\ i - 1 \in 0..n
    BY <2>2, <2>3, <2>4
  <2>6. ~(m <= t[i - 1])
    BY <2>5 DEF T
  <2> QED
    BY <2>3, <2>4, <2>5, <2>6 DEF Totals
<1> QED
  BY <1>1, <1>2

\* Where each member of a sequence of sequences starts in their concatenation.
Starts(t, s) == Totals(t, [i \in 1..Len(s) |-> Len(s[i])], Len(s))

\* FlattenSeq appends one sequence after the other.
LEMMA FlattenSteps ==
  ASSUME NEW s, Len(s) \in Nat \ {0}
  PROVE  \E g : /\ \A i \in 1..Len(s) : g[i] = IF i = 1 THEN s[i] ELSE g[i - 1] \o s[i]
                /\ FlattenSeq(s) = g[Len(s)]
<1> DEFINE P(m) == \E g : g = [i \in 1..m |-> IF i = 1 THEN s[i] ELSE g[i - 1] \o s[i]]
           T == {m \in Nat : P(m)}
<1>1. P(0)
  <2> DEFINE g == [i \in 1..0 |-> 0]
  <2>1. g = [i \in 1..0 |-> IF i = 1 THEN s[i] ELSE g[i - 1] \o s[i]]
    OBVIOUS
  <2> QED
    BY <2>1
<1>2. ASSUME NEW m \in Nat, P(m) PROVE P(m + 1)
  <2>1. PICK g : g = [i \in 1..m |-> IF i = 1 THEN s[i] ELSE g[i - 1] \o s[i]]
    BY <1>2
  <2> DEFINE h == [i \in 1..m + 1 |-> IF i <= m THEN g[i] ELSE IF i = 1 THEN s[i] ELSE g[i - 1] \o s[i]]
  <2>2. \A i \in 1..m + 1 : h[i] = IF i = 1 THEN s[i] ELSE h[i - 1] \o s[i]
    <3> TAKE i \in 1..m + 1
    <3>1. CASE i <= m
      <4>1. i \in 1..m /\ h[i] = g[i]
        BY <3>1
      <4>2. g[i] = IF i = 1 THEN s[i] ELSE g[i - 1] \o s[i]
        BY <2>1, <4>1
      <4>3. i # 1 => h[i - 1] = g[i - 1]
        BY <4>1
      <4> QED
        BY <4>1, <4>2, <4>3
    <3>2. CASE i = m + 1
      BY <3>2
    <3> QED
      BY <3>1, <3>2
  <2>3. h = [i \in 1..m + 1 |-> h[i]]
    OBVIOUS
  <2> HIDE DEF h
  <2>4. h = [i \in 1..m + 1 |-> IF i = 1 THEN s[i] ELSE h[i - 1] \o s[i]]
    BY <2>2, <2>3
  <2> QED
    BY <2>4
<1> HIDE DEF P
<1>a. 0 \in T /\ \A m \in Nat : m \in T => m + 1 \in T
  BY <1>1, <1>2
<1> HIDE DEF T
<1>3. Len(s) \in T
  BY <1>a, NatInd
<1> DEFINE f == CHOOSE g : g = [i \in 1..Len(s) |-> IF i = 1 THEN s[i] ELSE g[i - 1] \o s[i]]
<1>4. f = [i \in 1..Len(s) |-> IF i = 1 THEN s[i] ELSE f[i - 1] \o s[i]]
  BY <1>3 DEF T, P
<1>5. FlattenSeq(s) = f[Len(s)]
  BY DEF FlattenSeq
<1> HIDE DEF f
<1>6. \A i \in 1..Len(s) : f[i] = IF i = 1 THEN s[i] ELSE f[i - 1] \o s[i]
  BY <1>4
<1> QED
  BY <1>5, <1>6

\* q is the n sequences s one after the other; s[i] starts after t[i - 1].
Lays(q, s, t, n) ==
  /\ Len(q) = t[n]
  /\ \A i \in 1..n : \A p \in 1..Len(s[i]) : t[i - 1] + p \in 1..t[n] /\ q[t[i - 1] + p] = s[i][p]
  /\ \A m \in 1..t[n] : \E i \in 1..n : \E p \in 1..Len(s[i]) : m = t[i - 1] + p

\* FlattenSeq lays its members one after the other.
LEMMA FlattenLays ==
  ASSUME NEW A, NEW s \in Seq(Seq(A))
  PROVE  /\ FlattenSeq(s) \in Seq(A)
         /\ \E t : Starts(t, s)
         /\ \A t : Starts(t, s) => Lays(FlattenSeq(s), s, t, Len(s))
<1>1. PICK n \in Nat : n = Len(s)
  OBVIOUS
<1>2. \A i \in 1..n : s[i] \in Seq(A)
  BY <1>1
<1>3. PICK d : d = [i \in 1..n |-> Len(s[i])]
  OBVIOUS
<1>4. \A i \in 1..n : d[i] = Len(s[i]) /\ d[i] \in Nat
  <2> TAKE i \in 1..n
  <2>1. s[i] \in Seq(A)
    BY <1>2
  <2> QED
    BY <1>3, <2>1
<1>5. d \in [1..n -> Nat]
  BY <1>3, <1>4
<1>6. \A t : Starts(t, s) <=> Totals(t, d, n)
  BY <1>1, <1>3 DEF Starts
<1>7. \E t : Starts(t, s)
  BY <1>5, <1>6, TotalsExist
<1>8. CASE n = 0
  <2>1. s = <<>>
    <3>1. \A q \in Seq(Seq(A)) : q # <<>> => Len(q) \in Nat \ {0}
      BY EmptySeq, Zenon
    <3> QED
      BY <1>1, <1>8, <3>1
  <2>2. FlattenSeq(s) = <<>>
    BY <2>1 DEF FlattenSeq
  <2>3. FlattenSeq(s) \in Seq(A) /\ Len(FlattenSeq(s)) = 0
    BY <2>2
  <2>4. ASSUME NEW t, Starts(t, s) PROVE Lays(FlattenSeq(s), s, t, Len(s))
    <3>1. t[0] = 0
      BY <1>6, <2>4 DEF Totals
    <3> QED
      BY <1>1, <1>8, <2>3, <3>1 DEF Lays
  <2> QED
    BY <1>7, <2>3, <2>4
<1>9. CASE n # 0
  <2>1. PICK g : /\ \A i \in 1..n : g[i] = IF i = 1 THEN s[i] ELSE g[i - 1] \o s[i]
                 /\ FlattenSeq(s) = g[n]
    BY <1>1, <1>9, FlattenSteps
  <2>2. SUFFICES ASSUME NEW t, Starts(t, s)
                 PROVE  FlattenSeq(s) \in Seq(A) /\ Lays(FlattenSeq(s), s, t, Len(s))
    BY <1>7, Zenon
  <2>a. Totals(t, d, n)
    BY <1>6, <2>2
  <2>3. /\ \A i, j \in 0..n : i <= j => t[i] <= t[j]
        /\ \A m \in 1..t[n] : \E i \in 1..n : t[i - 1] < m /\ m <= t[i]
    BY <1>5, <2>a, TotalsGrow
  <2>4. t \in [0..n -> Nat] /\ t[0] = 0 /\ \A i \in 1..n : t[i] = t[i - 1] + d[i]
    BY <2>a DEF Totals
  <2>5. \A i \in 1..n : t[i] \in Nat /\ t[i - 1] \in Nat /\ t[i] <= t[n] /\ t[n] \in Nat /\ t[i] = t[i - 1] + d[i]
    BY <2>3, <2>4
  <2> DEFINE Good(i) == /\ g[i] \in Seq(A) /\ Len(g[i]) = t[i]
                        /\ \A j \in 1..i : \A p \in 1..d[j] : g[i][t[j - 1] + p] = s[j][p]
             T == {i \in Nat : i \in 1..n => Good(i)}
  <2>6. ASSUME NEW i \in Nat, i \in 1..n => Good(i), i + 1 \in 1..n PROVE Good(i + 1)
    <3>1. CASE i = 0
      <4>1. g[1] = s[1] /\ s[1] \in Seq(A) /\ 1 \in 1..n
        BY <1>2, <1>9, <2>1
      <4>2. t[1] = d[1] /\ t[0] = 0 /\ d[1] = Len(s[1])
        BY <1>4, <2>4, <4>1
      <4>3. \A p \in 1..d[1] : g[1][t[1 - 1] + p] = s[1][p]
        BY <4>1, <4>2
      <4> QED
        BY <3>1, <4>1, <4>2, <4>3
    <3>2. CASE i # 0
      <4>1. i \in 1..n /\ g[i] \in Seq(A) /\ Len(g[i]) = t[i]
        BY <2>6, <3>2
      <4>2. g[i + 1] = g[i] \o s[i + 1]
        <5>1. i + 1 # 1 /\ (i + 1) - 1 = i
          BY <2>6, <3>2
        <5> QED
          BY <2>1, <2>6, <5>1
      <4>3. PICK x : x = g[i]
        OBVIOUS
      <4>4. PICK y : y = s[i + 1]
        OBVIOUS
      <4>5. x \in Seq(A) /\ y \in Seq(A) /\ Len(x) = t[i] /\ Len(y) = d[i + 1] /\ g[i + 1] = x \o y
        BY <1>2, <1>4, <2>6, <4>1, <4>2, <4>3, <4>4
      <4>6. /\ x \o y \in Seq(A) /\ Len(x \o y) = Len(x) + Len(y)
            /\ \A q \in 1..Len(x) + Len(y) : (x \o y)[q] = IF q <= Len(x) THEN x[q] ELSE y[q - Len(x)]
        <5>1. x \in Seq(A) /\ y \in Seq(A)
          BY <4>5
        <5> QED
          BY <5>1, ConcatProperties, Zenon
      <4>7. t[i + 1] = t[i] + d[i + 1] /\ t[i] \in Nat /\ d[i + 1] \in Nat
        <5>1. i + 1 \in 1..n /\ (i + 1) - 1 = i
          BY <2>6, <4>1
        <5>2. d[i + 1] \in Nat
          BY <1>4, <5>1
        <5> QED
          BY <2>5, <5>1, <5>2
      <4>8. g[i + 1] \in Seq(A) /\ Len(g[i + 1]) = t[i + 1]
        BY <4>5, <4>6, <4>7
      <4>9. ASSUME NEW j \in 1..i + 1, NEW p \in 1..d[j] PROVE g[i + 1][t[j - 1] + p] = s[j][p]
        <5>1. CASE j = i + 1
          <6>1. t[i] + p \in 1..Len(x) + Len(y) /\ ~(t[i] + p <= Len(x)) /\ (t[i] + p) - Len(x) = p
            BY <4>5, <4>7, <4>9, <5>1
          <6>2. (x \o y)[t[i] + p] = y[p]
            BY <4>6, <6>1
          <6>3. t[j - 1] = t[i] /\ s[j] = y
            BY <4>4, <5>1
          <6> QED
            BY <4>5, <6>2, <6>3
        <5>2. CASE j \in 1..i
          <6>1. t[j] <= t[i] /\ t[j] = t[j - 1] + d[j] /\ t[j - 1] \in Nat /\ d[j] \in Nat
            BY <1>4, <2>3, <2>5, <4>1, <5>2
          <6>2. PICK q : q = t[j - 1] + p
            OBVIOUS
          <6>3. q \in 1..Len(x) + Len(y) /\ q <= Len(x)
            <7>1. p \in 1..d[j]
              BY <4>9
            <7>a. PICK b : b = t[j - 1]
              OBVIOUS
            <7>b. PICK e : e = d[j]
              OBVIOUS
            <7>c. PICK u : u = t[j]
              OBVIOUS
            <7>d. b \in Nat /\ e \in Nat /\ u = b + e /\ q = b + p /\ p \in 1..e /\ u <= t[i]
              BY <6>1, <6>2, <7>1, <7>a, <7>b, <7>c
            <7>2. q \in Nat /\ 1 <= q /\ q <= t[i]
              BY <4>7, <7>d
            <7> QED
              BY <4>5, <4>7, <7>2
          <6>4. (x \o y)[q] = x[q]
            BY <4>6, <6>3
          <6>5. g[i][t[j - 1] + p] = s[j][p]
            BY <2>6, <4>1, <5>2, <4>9
          <6> QED
            BY <4>3, <4>5, <6>2, <6>4, <6>5
        <5> QED
          BY <5>1, <5>2
      <4> QED
        BY <4>8, <4>9
    <3> QED
      BY <3>1, <3>2
  <2> HIDE DEF Good
  <2>7. 0 \in T /\ \A i \in Nat : i \in T => i + 1 \in T
    BY <2>6
  <2> HIDE DEF T
  <2>8. n \in T
    BY <2>7, NatInd
  <2>9. Good(n)
    BY <1>9, <2>8 DEF T
  <2>10. ASSUME NEW i \in 1..n, NEW p \in 1..d[i] PROVE t[i - 1] + p \in 1..t[n]
    BY <1>4, <2>5
  <2>11. ASSUME NEW m \in 1..t[n] PROVE \E i \in 1..n : \E p \in 1..d[i] : m = t[i - 1] + p
    <3>1. PICK i \in 1..n : t[i - 1] < m /\ m <= t[i]
      BY <2>3
    <3>2. t[i] = t[i - 1] + d[i] /\ t[i - 1] \in Nat /\ d[i] \in Nat /\ m \in Nat
      BY <1>4, <2>5
    <3>3. m - t[i - 1] \in 1..d[i] /\ m = t[i - 1] + (m - t[i - 1])
      BY <3>1, <3>2
    <3> QED
      BY <3>3
  <2>12. FlattenSeq(s) \in Seq(A) /\ Len(FlattenSeq(s)) = t[n]
    BY <2>1, <2>9 DEF Good
  <2>13. \A i \in 1..n : \A p \in 1..d[i] : FlattenSeq(s)[t[i - 1] + p] = s[i][p]
    BY <2>1, <2>9 DEF Good
  <2>14. ASSUME NEW i \in 1..Len(s), NEW p \in 1..Len(s[i])
         PROVE  t[i - 1] + p \in 1..t[Len(s)] /\ FlattenSeq(s)[t[i - 1] + p] = s[i][p]
    <3>1. i \in 1..n /\ p \in 1..d[i]
      BY <1>1, <1>4
    <3> QED
      BY <1>1, <2>10, <2>13, <3>1
  <2>15. ASSUME NEW m \in 1..t[Len(s)] PROVE \E i \in 1..Len(s) : \E p \in 1..Len(s[i]) : m = t[i - 1] + p
    <3>a. PICK i \in 1..n : \E p \in 1..d[i] : m = t[i - 1] + p
      BY <1>1, <2>11, <2>15
    <3>1. PICK p \in 1..d[i] : m = t[i - 1] + p
      BY <3>a
    <3>2. i \in 1..Len(s) /\ p \in 1..Len(s[i])
      BY <1>1, <1>4
    <3> QED
      BY <3>1, <3>2
  <2>16. Len(FlattenSeq(s)) = t[Len(s)]
    BY <1>1, <2>12
  <2>17. Lays(FlattenSeq(s), s, t, Len(s))
    BY <2>14, <2>15, <2>16, Zenon DEF Lays
  <2> QED
    BY <2>12, <2>17
<1> QED
  BY <1>8, <1>9

-----------------------------------------------------------------------------
\* Sets and states of karmarkar_karp.

\* The sets of karmarkar_karp, and their order.
KKSet == [sum : Nat, items : Seq(Nat)]

\* A sequence is a function on 1..n.
LEMMA SeqIsFunction ==
  ASSUME NEW A, NEW s \in Seq(A), NEW n, n = Len(s)
  PROVE  n \in Nat /\ s \in [1..n -> A] /\ DOMAIN s = 1..n
BY LenProperties

\* Python's order of lists is strict and total on lists of one length.
LEMMA ListOrder ==
  /\ \A s \in Seq(Nat) : ~ListLess(s, s)
  /\ \A s, t, u \in Seq(Nat) :
       Len(s) = Len(t) /\ Len(t) = Len(u) /\ ListLess(s, t) /\ ListLess(t, u) => ListLess(s, u)
  /\ \A s, t \in Seq(Nat) : Len(s) = Len(t) /\ ~ListLess(s, t) /\ ~ListLess(t, s) => s = t
<1>1. ASSUME NEW s \in Seq(Nat) PROVE ~ListLess(s, s)
  BY DEF ListLess
<1>2. ASSUME NEW s \in Seq(Nat), NEW t \in Seq(Nat), NEW u \in Seq(Nat),
             Len(s) = Len(t), Len(t) = Len(u), ListLess(s, t), ListLess(t, u)
      PROVE  ListLess(s, u)
  <2>1. PICK n \in Nat : n = Len(s)
    OBVIOUS
  <2>2. s \in [1..n -> Nat] /\ t \in [1..n -> Nat] /\ u \in [1..n -> Nat]
    BY <1>2, <2>1, SeqIsFunction
  <2>3. PICK i \in 1..n : s[i] < t[i] /\ \A j \in 1..i - 1 : s[j] = t[j]
    BY <1>2, <2>2 DEF ListLess
  <2>4. PICK l \in 1..n : t[l] < u[l] /\ \A j \in 1..l - 1 : t[j] = u[j]
    BY <1>2, <2>2 DEF ListLess
  <2>5. CASE i <= l
    <3>1. s[i] < u[i]
      <4>1. s[i] \in Nat /\ t[i] \in Nat /\ u[i] \in Nat
        BY <2>2
      <4>2. CASE i = l
        <5>1. s[i] < t[i] /\ t[i] < u[i]
          BY <2>3, <2>4, <4>2, ZenonT(30)
        <5>2. PICK x \in Nat : x = s[i]
          BY <4>1
        <5>3. PICK y \in Nat : y = t[i]
          BY <4>1
        <5>4. PICK z \in Nat : z = u[i]
          BY <4>1
        <5>5. x < y /\ y < z
          BY <5>1, <5>2, <5>3, <5>4, ZenonT(30)
        <5>6. x < z
          BY <5>5
        <5> QED
          BY <5>2, <5>4, <5>6, ZenonT(30)
      <4>3. CASE i # l
        <5>1. i \in 1..l - 1
          BY <2>5, <4>3
        <5>2. t[i] = u[i]
          BY <2>4, <5>1
        <5> QED
          BY <2>3, <5>2
      <4> QED
        BY <4>2, <4>3
    <3>2. \A j \in 1..i - 1 : s[j] = u[j]
      BY <2>3, <2>4, <2>5
    <3> QED
      BY <2>2, <3>1, <3>2 DEF ListLess
  <2>6. CASE l < i
    <3>1. s[l] < u[l]
      BY <2>3, <2>4, <2>6
    <3>2. \A j \in 1..l - 1 : s[j] = u[j]
      BY <2>3, <2>4, <2>6
    <3> QED
      BY <2>2, <3>1, <3>2 DEF ListLess
  <2> QED
    BY <2>5, <2>6
<1>3. ASSUME NEW s \in Seq(Nat), NEW t \in Seq(Nat), Len(s) = Len(t), ~ListLess(s, t), ~ListLess(t, s), s # t
      PROVE  FALSE
  <2>1. PICK n \in Nat : n = Len(s)
    OBVIOUS
  <2>2. s \in [1..n -> Nat] /\ t \in [1..n -> Nat]
    BY <1>3, <2>1, SeqIsFunction
  <2>3. PICK T : T = {i \in 1..n : s[i] # t[i]}
    OBVIOUS
  <2>4. T \in SUBSET Nat /\ T # {}
    <3>1. \E i \in 1..n : s[i] # t[i]
      BY <1>3, <2>1, SeqEqual
    <3> QED
      BY <2>3, <3>1
  <2>5. PICK i \in T : \A j \in T : i <= j
    BY <2>4, Least
  <2>6. i \in 1..n /\ s[i] # t[i]
    BY <2>3
  <2>7. \A j \in 1..i - 1 : s[j] = t[j]
    BY <2>3, <2>5, <2>6
  <2>8. s[i] < t[i] \/ t[i] < s[i]
    BY <2>2, <2>6
  <2> QED
    BY <1>3, <2>2, <2>6, <2>7, <2>8 DEF ListLess
<1> QED
  BY <1>1, <1>2, <1>3

\* Set.__lt__ is a strict total order.
LEMMA LessOrder ==
  /\ \A s \in KKSet : ~Less(s, s)
  /\ \A s, t, u \in KKSet : Less(s, t) /\ Less(t, u) => Less(s, u)
  /\ \A s, t \in KKSet : ~Less(s, t) /\ ~Less(t, s) => s = t
<1>1. \A s \in KKSet : s.sum \in Nat /\ s.items \in Seq(Nat) /\ Len(s.items) \in Nat
  BY DEF KKSet
<1>2. \A s \in KKSet : ~Less(s, s)
  BY <1>1, ListOrder DEF Less
<1>3. ASSUME NEW s \in KKSet, NEW t \in KKSet, NEW u \in KKSet, Less(s, t), Less(t, u) PROVE Less(s, u)
  BY <1>1, <1>3, ListOrder DEF Less
<1>4. ASSUME NEW s \in KKSet, NEW t \in KKSet, ~Less(s, t), ~Less(t, s) PROVE s = t
  <2>1. s.sum = t.sum /\ Len(s.items) = Len(t.items)
    BY <1>1, <1>4 DEF Less
  <2>2. s.items = t.items
    BY <1>1, <1>4, <2>1, ListOrder DEF Less
  <2> QED
    BY <2>1, <2>2 DEF KKSet
<1> QED
  BY <1>2, <1>3, <1>4

\* f is a permutation of 1..k.
Permutes(f, k) ==
  /\ f \in [1..k -> 1..k]
  /\ \A i, j \in 1..k : f[i] = f[j] => i = j
  /\ \A i \in 1..k : \E j \in 1..k : f[j] = i

\* Sorting the sets of a state permutes them and leaves the largest first.
LEMMA DecreasingIs ==
  ASSUME NEW k \in Nat, NEW sets \in [1..k -> KKSet]
  PROVE  /\ \E f : Permutes(f, k) /\ Decreasing(sets) = [i \in 1..k |-> sets[f[i]]]
         /\ \A i, j \in 1..k : i < j => Decreasing(sets)[j].sum <= Decreasing(sets)[i].sum
<1> DEFINE Ahead(i, j) == Less(sets[j], sets[i]) \/ (~Less(sets[i], sets[j]) /\ i < j)
           S == 1..k
<1>1. PICK R : R = {p \in S \X S : Ahead(p[1], p[2])}
  OBVIOUS
<1>2. \A i, j \in S : <<i, j>> \in R <=> Ahead(i, j)
  BY <1>1
<1>3. \A i \in S : sets[i] \in KKSet
  OBVIOUS
<1>4. IsFiniteSet(S) /\ Cardinality(S) = k
  BY FS_Interval
<1>5. Orders(R, S)
  <2>1. \A x \in S : <<x, x>> \notin R
    BY <1>2, <1>3, LessOrder
  <2>2. ASSUME NEW x \in S, NEW y \in S PROVE x = y \/ <<x, y>> \in R \/ <<y, x>> \in R
    <3>1. x = y \/ x < y \/ y < x
      OBVIOUS
    <3>2. x = y \/ Ahead(x, y) \/ Ahead(y, x)
      BY <3>1
    <3> QED
      BY <1>2, <3>2
  <2>3. ASSUME NEW x \in S, NEW y \in S, NEW z \in S, <<x, y>> \in R, <<y, z>> \in R PROVE <<x, z>> \in R
    <3>1. Ahead(x, y) /\ Ahead(y, z)
      BY <1>2, <2>3
    <3>2. PICK a \in KKSet : a = sets[x]
      BY <1>3
    <3>3. PICK b \in KKSet : b = sets[y]
      BY <1>3
    <3>4. PICK c \in KKSet : c = sets[z]
      BY <1>3
    <3>5. /\ Less(b, a) \/ (~Less(a, b) /\ x < y)
          /\ Less(c, b) \/ (~Less(b, c) /\ y < z)
      BY <3>1, <3>2, <3>3, <3>4
    <3>6. ~Less(a, b) /\ ~Less(b, c)
      BY <3>5, LessOrder
    <3>7. ~Less(a, c)
      BY <3>6, LessOrder
    <3>8. Less(c, a) \/ x < z
      BY <3>5, <3>6, LessOrder
    <3>9. Ahead(x, z)
      BY <3>2, <3>4, <3>7, <3>8
    <3> QED
      BY <1>2, <3>9
  <2> QED
    BY <2>1, <2>2, <2>3 DEF Orders
<1> DEFINE g == InOrder(S, R)
<1>6. /\ Lists(g, S)
      /\ \A i, j \in 1..Cardinality(S) : i < j => <<g[i], g[j]>> \in R
      /\ \A i \in 1..Cardinality(S) : \A x \in S : Cardinality(Below(S, R, x)) = i - 1 <=> x = g[i]
  BY <1>4, <1>5, OrderSorts
<1>7. \A x \in S : Below(S, R, x) = {y \in S : Ahead(y, x)}
  BY <1>2 DEF Below
<1>8. Decreasing(sets) = [i \in 1..k |-> sets[g[i]]]
  <2>1. DOMAIN sets = S
    OBVIOUS
  <2> DEFINE At(i) == CHOOSE x \in S : Cardinality({y \in S : Ahead(y, x)}) = i - 1
  <2>2. Decreasing(sets) = [i \in S |-> sets[[j \in 1..Cardinality(S) |-> At(j)][i]]]
    BY <2>1 DEF Decreasing, Sorted
  <2>3. \A i \in S : At(i) = g[i]
    <3> SUFFICES ASSUME NEW i \in S PROVE At(i) = g[i]
      OBVIOUS
    <3>1. g[i] \in S /\ Cardinality({y \in S : Ahead(y, g[i])}) = i - 1
      BY <1>4, <1>6, <1>7 DEF Lists
    <3>2. At(i) \in S /\ Cardinality({y \in S : Ahead(y, At(i))}) = i - 1
      BY <3>1
    <3> QED
      BY <1>4, <1>6, <1>7, <3>2
  <2> HIDE DEF At
  <2> QED
    BY <1>4, <2>2, <2>3
<1> HIDE DEF g
<1>9. Permutes(g, k)
  BY <1>4, <1>6 DEF Permutes, Lists
<1>10. ASSUME NEW i \in 1..k, NEW j \in 1..k, i < j PROVE Decreasing(sets)[j].sum <= Decreasing(sets)[i].sum
  <2>1. g[i] \in S /\ g[j] \in S /\ <<g[i], g[j]>> \in R
    BY <1>4, <1>6, <1>9, <1>10 DEF Permutes
  <2>2. Ahead(g[i], g[j])
    BY <1>2, <2>1
  <2>3. PICK a \in KKSet : a = sets[g[i]]
    BY <1>3, <2>1
  <2>4. PICK b \in KKSet : b = sets[g[j]]
    BY <1>3, <2>1
  <2>5. Less(b, a) \/ ~Less(a, b)
    BY <2>2, <2>3, <2>4
  <2>6. b.sum <= a.sum
    BY <2>5 DEF Less, KKSet
  <2> QED
    BY <1>8, <2>3, <2>4, <2>6
<1> QED
  BY <1>8, <1>9, <1>10

\* A function on 1..n is a sequence.
LEMMA FunctionIsSeq ==
  ASSUME NEW A, NEW n \in Nat, NEW s \in [1..n -> A]
  PROVE  s \in Seq(A) /\ Len(s) = n /\ DOMAIN s = 1..n
<1>1. s \in Seq(A)
  BY SeqDef
<1>2. DOMAIN s = 1..Len(s) /\ Len(s) \in Nat
  BY <1>1, LenProperties
<1> QED
  BY <1>1, <1>2

\* Joining two sets adds their sums and appends their items.
LEMMA JoinedIs ==
  ASSUME NEW s \in KKSet, NEW t \in KKSet
  PROVE  /\ Joined(s, t) \in KKSet
         /\ Joined(s, t).sum = s.sum + t.sum
         /\ Len(Joined(s, t).items) = Len(s.items) + Len(t.items)
         /\ \A p \in 1..Len(s.items) + Len(t.items) :
              Joined(s, t).items[p] = IF p <= Len(s.items) THEN s.items[p] ELSE t.items[p - Len(s.items)]
<1>1. s.sum \in Nat /\ t.sum \in Nat /\ s.items \in Seq(Nat) /\ t.items \in Seq(Nat)
  BY DEF KKSet
<1>2. /\ s.items \o t.items \in Seq(Nat)
      /\ Len(s.items \o t.items) = Len(s.items) + Len(t.items)
      /\ \A p \in 1..Len(s.items) + Len(t.items) :
           (s.items \o t.items)[p] = IF p <= Len(s.items) THEN s.items[p] ELSE t.items[p - Len(s.items)]
  BY <1>1, ConcatProperties
<1>3. Joined(s, t).sum = s.sum + t.sum /\ Joined(s, t).items = s.items \o t.items
  BY DEF Joined
<1>4. Joined(s, t) \in KKSet
  BY <1>1, <1>2 DEF Joined, KKSet
<1> QED
  BY <1>2, <1>3, <1>4

\* A state of karmarkar_karp: k sets, the largest first.
KKState(s, k) ==
  /\ s \in [1..k -> KKSet]
  /\ \A i, j \in 1..k : i < j => s[j].sum <= s[i].sum

\* State.merge gives a state whose sets are joined pairs of the two states.
LEMMA MergedIs ==
  ASSUME NEW k \in Nat, NEW s \in [1..k -> KKSet], NEW t \in [1..k -> KKSet]
  PROVE  /\ KKState(Merged(s, t), k)
         /\ \E f : /\ Permutes(f, k)
                   /\ \A i \in 1..k : Merged(s, t)[i] = Joined(s[f[i]], t[k + 1 - f[i]])
<1>1. Len(s) = k /\ DOMAIN s = 1..k
  BY FunctionIsSeq
<1>2. PICK u : u = [i \in 1..k |-> Joined(s[i], t[k + 1 - i])]
  OBVIOUS
<1>3. Merged(s, t) = Decreasing(u)
  BY <1>1, <1>2 DEF Merged
<1>4. \A i \in 1..k : k + 1 - i \in 1..k
  OBVIOUS
<1>5. u \in [1..k -> KKSet]
  BY <1>2, <1>4, JoinedIs
<1>6. PICK f : Permutes(f, k) /\ Decreasing(u) = [i \in 1..k |-> u[f[i]]]
  BY <1>5, DecreasingIs
<1>7. \A i \in 1..k : f[i] \in 1..k
  BY <1>6 DEF Permutes
<1>8. \A i \in 1..k : Merged(s, t)[i] = Joined(s[f[i]], t[k + 1 - f[i]])
  BY <1>2, <1>3, <1>6, <1>7
<1>9. Merged(s, t) \in [1..k -> KKSet]
  BY <1>3, <1>5, <1>6, <1>7
<1>10. \A i, j \in 1..k : i < j => Merged(s, t)[j].sum <= Merged(s, t)[i].sum
  BY <1>3, <1>5, DecreasingIs
<1> QED
  BY <1>6, <1>8, <1>9, <1>10 DEF KKState

\* The spread of a state is that of its first and last set.
LEMMA SpreadIs ==
  ASSUME NEW k \in Nat \ {0}, NEW s \in [1..k -> KKSet]
  PROVE  Spread(s) = s[1].sum - s[k].sum
<1>1. s \in Seq(KKSet) /\ Len(s) = k
  BY FunctionIsSeq
<1> QED
  BY <1>1 DEF Spread, Last

\* Merging does not widen the spread.
LEMMA MergedSpread ==
  ASSUME NEW k \in Nat \ {0}, NEW s, NEW t, KKState(s, k), KKState(t, k), NEW d \in Int,
         Spread(s) <= d, Spread(t) <= d
  PROVE  Spread(Merged(s, t)) <= d
<1>1. s \in [1..k -> KKSet] /\ t \in [1..k -> KKSet]
  BY DEF KKState
<1>2. PICK m : m = Merged(s, t)
  OBVIOUS
<1>3. PICK f : Permutes(f, k) /\ \A i \in 1..k : m[i] = Joined(s[f[i]], t[k + 1 - f[i]])
  <2>1. \E f : Permutes(f, k) /\ \A i \in 1..k : Merged(s, t)[i] = Joined(s[f[i]], t[k + 1 - f[i]])
    BY <1>1, MergedIs
  <2> QED
    BY <1>2, <2>1
<1>4. KKState(m, k)
  BY <1>1, <1>2, MergedIs
<1>5. 1 \in 1..k /\ k \in 1..k
  OBVIOUS
<1>6. PICK a \in 1..k : a = f[1]
  BY <1>3, <1>5 DEF Permutes
<1>7. PICK b \in 1..k : b = f[k]
  BY <1>3, <1>5 DEF Permutes
<1>8. PICK A : A = k + 1 - a
  OBVIOUS
<1>9. PICK B : B = k + 1 - b
  OBVIOUS
<1>10. A \in 1..k /\ B \in 1..k /\ (a < b <=> B < A) /\ (b < a <=> A < B) /\ (a = b => A = B)
  BY <1>8, <1>9
<1>11. \A i \in 1..k : s[i].sum \in Nat /\ t[i].sum \in Nat /\ s[i] \in KKSet /\ t[i] \in KKSet
  BY <1>1 DEF KKSet
<1>12. m[1].sum = s[a].sum + t[A].sum /\ m[k].sum = s[b].sum + t[B].sum
  <2>1. m[1] = Joined(s[a], t[A]) /\ m[k] = Joined(s[b], t[B])
    BY <1>3, <1>5, <1>6, <1>7, <1>8, <1>9
  <2>2. s[a] \in KKSet /\ t[A] \in KKSet /\ s[b] \in KKSet /\ t[B] \in KKSet
    BY <1>10, <1>11
  <2>3. Joined(s[a], t[A]).sum = s[a].sum + t[A].sum
    BY <2>2, JoinedIs
  <2>4. Joined(s[b], t[B]).sum = s[b].sum + t[B].sum
    BY <2>2, JoinedIs
  <2> QED
    BY <2>1, <2>3, <2>4
<1>13. PICK sa \in Nat : sa = s[a].sum
  BY <1>11
<1>14. PICK sb \in Nat : sb = s[b].sum
  BY <1>11
<1>15. PICK tA \in Nat : tA = t[A].sum
  BY <1>10, <1>11
<1>16. PICK tB \in Nat : tB = t[B].sum
  BY <1>10, <1>11
<1>17. Spread(m) = (sa + tA) - (sb + tB)
  BY <1>4, <1>12, <1>13, <1>14, <1>15, <1>16, SpreadIs DEF KKState
<1>18. sa - sb <= d /\ tA - tB <= d /\ 0 <= d
  <2>1. \A i, j \in 1..k : s[i].sum - s[j].sum <= d /\ t[i].sum - t[j].sum <= d
    <3> TAKE i \in 1..k, j \in 1..k
    <3>1. /\ s[i].sum <= s[1].sum /\ s[k].sum <= s[j].sum
          /\ t[i].sum <= t[1].sum /\ t[k].sum <= t[j].sum
      BY <1>5, <1>11 DEF KKState
    <3>2. s[1].sum - s[k].sum <= d /\ t[1].sum - t[k].sum <= d
      BY <1>1, SpreadIs
    <3> QED
      BY <1>5, <1>11, <3>1, <3>2
  <2>2. s[1].sum - s[1].sum <= d /\ s[1].sum \in Nat
    BY <1>5, <1>11, <2>1
  <2>3. 0 <= d
    BY <2>2
  <2>4. s[a].sum - s[b].sum <= d /\ t[A].sum - t[B].sum <= d
    BY <1>10, <2>1
  <2> QED
    BY <1>13, <1>14, <1>15, <1>16, <2>3, <2>4
<1>19. sa <= sb \/ tA <= tB
  BY <1>10, <1>13, <1>14, <1>15, <1>16 DEF KKState
<1>20. Spread(m) <= d
  BY <1>17, <1>18, <1>19
<1> QED
  BY <1>2, <1>20

\* x is at place p of the i-th set of the state s.
HasAt(s, i, p, x) == i \in DOMAIN s /\ p \in DOMAIN s[i].items /\ s[i].items[p] = x

\* Holds, by the places of the indices.
LEMMA HoldsIs ==
  ASSUME NEW states, NEW indices
  PROVE  Holds(states, indices) <=>
           /\ \A x : x \in indices <=> \E s \in states : \E i, p : HasAt(s, i, p, x)
           /\ \A s, t \in states : \A i, j, p, q, x :
                HasAt(s, i, p, x) /\ HasAt(t, j, q, x) => s = t /\ i = j /\ p = q
<1>1. UNION {Indices(state) : state \in states} = indices
        <=> \A x : x \in indices <=> \E s \in states : \E i, p : HasAt(s, i, p, x)
  <2>1. \A x : x \in UNION {Indices(state) : state \in states} <=> \E s \in states : x \in Indices(s)
    OBVIOUS
  <2>2. \A s, x : x \in Indices(s) <=> \E i, p : HasAt(s, i, p, x)
    BY DEF Indices, ToSet, HasAt
  <2> QED
    BY <2>1, <2>2
<1>2. ASSUME NEW s, NEW t
      PROVE  (\A i \in DOMAIN s, j \in DOMAIN t : \A p \in DOMAIN s[i].items, q \in DOMAIN t[j].items :
                 s[i].items[p] = t[j].items[q] => s = t /\ i = j /\ p = q)
             <=> \A i, j, p, q, x : HasAt(s, i, p, x) /\ HasAt(t, j, q, x) => s = t /\ i = j /\ p = q
  <2>1. ASSUME \A i, j, p, q, x : HasAt(s, i, p, x) /\ HasAt(t, j, q, x) => s = t /\ i = j /\ p = q,
               NEW i \in DOMAIN s, NEW j \in DOMAIN t, NEW p \in DOMAIN s[i].items, NEW q \in DOMAIN t[j].items,
               s[i].items[p] = t[j].items[q]
        PROVE  s = t /\ i = j /\ p = q
    <3>1. HasAt(s, i, p, s[i].items[p]) /\ HasAt(t, j, q, s[i].items[p])
      BY <2>1 DEF HasAt
    <3> QED
      BY <2>1, <3>1
  <2>2. ASSUME \A i \in DOMAIN s, j \in DOMAIN t : \A p \in DOMAIN s[i].items, q \in DOMAIN t[j].items :
                 s[i].items[p] = t[j].items[q] => s = t /\ i = j /\ p = q,
               NEW i, NEW j, NEW p, NEW q, NEW x, HasAt(s, i, p, x), HasAt(t, j, q, x)
        PROVE  s = t /\ i = j /\ p = q
    BY <2>2 DEF HasAt
  <2> QED
    BY <2>1, <2>2
<1> QED
  BY <1>1, <1>2, Zenon DEF Holds

\* What u holds is what s and t hold, in the order f.
Unites(u, s, t, f, k) ==
  /\ \A i, p, x : HasAt(u, i, p, x) =>
       /\ i \in 1..k /\ p \in Int /\ Len(s[f[i]].items) \in Int
       /\ \/ HasAt(s, f[i], p, x)
          \/ HasAt(t, k + 1 - f[i], p - Len(s[f[i]].items), x)
  /\ \A i, p, x : HasAt(s, i, p, x) \/ HasAt(t, i, p, x) => \E j, q : HasAt(u, j, q, x)

\* u joins s and t in the order f.
JoinsTo(u, s, t, f, k) == \A i \in 1..k : u[i] = Joined(s[f[i]], t[k + 1 - f[i]])

\* What a merged state holds, and where.
LEMMA MergedHas ==
  ASSUME NEW k \in Nat, NEW s \in [1..k -> KKSet], NEW t \in [1..k -> KKSet], NEW u, NEW f,
         Permutes(f, k), u \in [1..k -> KKSet], JoinsTo(u, s, t, f, k)
  PROVE  Unites(u, s, t, f, k)
<1>1. DOMAIN s = 1..k /\ DOMAIN t = 1..k /\ DOMAIN u = 1..k
  OBVIOUS
<1>0. \A i \in 1..k : u[i] = Joined(s[f[i]], t[k + 1 - f[i]])
  BY DEF JoinsTo
<1>2. ASSUME NEW i \in 1..k
      PROVE  /\ f[i] \in 1..k /\ k + 1 - f[i] \in 1..k
             /\ s[f[i]] \in KKSet /\ t[k + 1 - f[i]] \in KKSet
  BY DEF Permutes
<1>3. ASSUME NEW a \in KKSet PROVE Len(a.items) \in Nat /\ DOMAIN a.items = 1..Len(a.items)
  <2>1. a.items \in Seq(Nat)
    BY DEF KKSet
  <2> QED
    BY <2>1, LenProperties
<1>4. ASSUME NEW i, NEW p, NEW x, HasAt(u, i, p, x)
      PROVE  /\ i \in 1..k /\ p \in Int /\ Len(s[f[i]].items) \in Int
             /\ \/ HasAt(s, f[i], p, x)
                \/ HasAt(t, k + 1 - f[i], p - Len(s[f[i]].items), x)
  <2>1. i \in 1..k
    BY <1>1, <1>4 DEF HasAt
  <2>2. PICK a \in KKSet : a = s[f[i]]
    BY <1>2, <2>1
  <2>3. PICK b \in KKSet : b = t[k + 1 - f[i]]
    BY <1>2, <2>1
  <2>4. u[i] = Joined(a, b)
    BY <1>0, <2>1, <2>2, <2>3
  <2>5. PICK m \in Nat : m = Len(a.items)
    BY <1>3
  <2>6. PICK n \in Nat : n = Len(b.items)
    BY <1>3
  <2>7. /\ Joined(a, b) \in KKSet /\ Len(Joined(a, b).items) = m + n
        /\ \A q \in 1..m + n : Joined(a, b).items[q] = IF q <= m THEN a.items[q] ELSE b.items[q - m]
    BY <2>5, <2>6, JoinedIs
  <2>8. p \in 1..m + n /\ x = Joined(a, b).items[p]
    BY <1>3, <1>4, <2>4, <2>7 DEF HasAt
  <2>9. CASE p <= m
    <3>1. p \in DOMAIN a.items /\ a.items[p] = x
      BY <1>3, <2>5, <2>7, <2>8, <2>9
    <3>2. HasAt(s, f[i], p, x)
      BY <1>1, <1>2, <2>1, <2>2, <3>1 DEF HasAt
    <3> QED
      BY <2>1, <2>2, <2>5, <2>8, <3>2
  <2>10. CASE ~(p <= m)
    <3>1. p - m \in DOMAIN b.items /\ b.items[p - m] = x
      BY <1>3, <2>6, <2>7, <2>8, <2>10
    <3>2. HasAt(t, k + 1 - f[i], p - m, x)
      BY <1>1, <1>2, <2>1, <2>3, <3>1 DEF HasAt
    <3> QED
      BY <2>1, <2>2, <2>5, <2>8, <3>2
  <2> QED
    BY <2>9, <2>10
<1>5. ASSUME NEW i, NEW p, NEW x, HasAt(s, i, p, x) PROVE \E j, q : HasAt(u, j, q, x)
  <2>1. i \in 1..k
    BY <1>1, <1>5 DEF HasAt
  <2>2. PICK j \in 1..k : f[j] = i
    BY <2>1 DEF Permutes
  <2>3. PICK a \in KKSet : a = s[f[j]]
    BY <1>2
  <2>4. PICK b \in KKSet : b = t[k + 1 - f[j]]
    BY <1>2
  <2>5. PICK m \in Nat : m = Len(a.items)
    BY <1>3
  <2>6. PICK n \in Nat : n = Len(b.items)
    BY <1>3
  <2>7. /\ Joined(a, b) \in KKSet /\ Len(Joined(a, b).items) = m + n
        /\ \A q \in 1..m + n : Joined(a, b).items[q] = IF q <= m THEN a.items[q] ELSE b.items[q - m]
    BY <2>5, <2>6, JoinedIs
  <2>8. p \in 1..m /\ x = a.items[p]
    BY <1>3, <1>5, <2>2, <2>3, <2>5 DEF HasAt
  <2>a. p \in 1..m + n /\ p <= m
    BY <2>8
  <2>9. p \in DOMAIN Joined(a, b).items /\ Joined(a, b).items[p] = x
    BY <1>3, <2>7, <2>8, <2>a
  <2>10. HasAt(u, j, p, x)
    BY <1>0, <1>1, <2>3, <2>4, <2>9 DEF HasAt
  <2> QED
    BY <2>10
<1>6. ASSUME NEW i, NEW p, NEW x, HasAt(t, i, p, x) PROVE \E j, q : HasAt(u, j, q, x)
  <2>1. i \in 1..k /\ k + 1 - i \in 1..k /\ k + 1 - (k + 1 - i) = i
    BY <1>1, <1>6 DEF HasAt
  <2>2. PICK j \in 1..k : f[j] = k + 1 - i
    BY <2>1 DEF Permutes
  <2>3. PICK a \in KKSet : a = s[f[j]]
    BY <1>2
  <2>4. PICK b \in KKSet : b = t[k + 1 - f[j]]
    BY <1>2
  <2>5. PICK m \in Nat : m = Len(a.items)
    BY <1>3
  <2>6. PICK n \in Nat : n = Len(b.items)
    BY <1>3
  <2>7. /\ Joined(a, b) \in KKSet /\ Len(Joined(a, b).items) = m + n
        /\ \A q \in 1..m + n : Joined(a, b).items[q] = IF q <= m THEN a.items[q] ELSE b.items[q - m]
    BY <2>5, <2>6, JoinedIs
  <2>8. b = t[i]
    BY <2>1, <2>2, <2>4
  <2>9. p \in 1..n /\ x = b.items[p]
    BY <1>3, <1>6, <2>6, <2>8 DEF HasAt
  <2>10. p + m \in 1..m + n /\ ~(p + m <= m) /\ (p + m) - m = p
    BY <2>9
  <2>11. p + m \in DOMAIN Joined(a, b).items /\ Joined(a, b).items[p + m] = x
    BY <1>3, <2>7, <2>9, <2>10
  <2>12. HasAt(u, j, p + m, x)
    BY <1>0, <1>1, <2>3, <2>4, <2>11 DEF HasAt
  <2> QED
    BY <2>12
<1> QED
  BY <1>4, <1>5, <1>6 DEF Unites

\* What merging two states leaves of a heap that holds every index once.
LEMMA MergedHolds ==
  ASSUME NEW k \in Nat, NEW states, \A s \in states : s \in [1..k -> KKSet],
         NEW indices, Holds(states, indices),
         NEW s \in states, NEW t \in states, s # t
  PROVE  Holds(MergeTwo(s, t, states), indices)
<1>1. PICK u : u = Merged(s, t)
  OBVIOUS
<1>2. PICK new : new = (states \ {s, t}) \cup {u}
  OBVIOUS
<1>3. s \in [1..k -> KKSet] /\ t \in [1..k -> KKSet]
  OBVIOUS
<1>4. u \in [1..k -> KKSet]
  BY <1>1, <1>3, MergedIs DEF KKState
<1>5. PICK f : Permutes(f, k) /\ JoinsTo(u, s, t, f, k)
  <2>1. \E f : Permutes(f, k) /\ \A i \in 1..k : Merged(s, t)[i] = Joined(s[f[i]], t[k + 1 - f[i]])
    BY <1>3, MergedIs
  <2> QED
    BY <1>1, <2>1 DEF JoinsTo
<1>6. /\ \A i, p, x : HasAt(u, i, p, x) =>
           /\ i \in 1..k /\ p \in Int /\ Len(s[f[i]].items) \in Int
           /\ \/ HasAt(s, f[i], p, x)
              \/ HasAt(t, k + 1 - f[i], p - Len(s[f[i]].items), x)
      /\ \A i, p, x : HasAt(s, i, p, x) \/ HasAt(t, i, p, x) => \E j, q : HasAt(u, j, q, x)
  <2>1. Unites(u, s, t, f, k)
    BY <1>3, <1>4, <1>5, MergedHas
  <2> QED
    BY <2>1, Zenon DEF Unites
<1>7. /\ \A x : x \in indices <=> \E v \in states : \E i, p : HasAt(v, i, p, x)
      /\ \A v, w \in states : \A i, j, p, q, x :
           HasAt(v, i, p, x) /\ HasAt(w, j, q, x) => v = w /\ i = j /\ p = q
  BY HoldsIs
<1>8. ASSUME NEW x PROVE x \in indices <=> \E v \in new : \E i, p : HasAt(v, i, p, x)
  <2>1. ASSUME x \in indices PROVE \E v \in new : \E i, p : HasAt(v, i, p, x)
    <3>1. PICK v \in states : \E i, p : HasAt(v, i, p, x)
      BY <1>7, <2>1
    <3>2. CASE v \in {s, t}
      <4>1. \E i, p : HasAt(u, i, p, x)
        BY <1>6, <3>1, <3>2
      <4> QED
        BY <1>2, <4>1
    <3>3. CASE v \notin {s, t}
      BY <1>2, <3>1, <3>3
    <3> QED
      BY <3>2, <3>3
  <2>2. ASSUME NEW v \in new, NEW i, NEW p, HasAt(v, i, p, x) PROVE x \in indices
    <3>1. CASE v \in states
      BY <1>7, <2>2, <3>1
    <3>2. CASE v = u
      <4>1. \E j, q : HasAt(s, j, q, x) \/ HasAt(t, j, q, x)
        BY <1>6, <2>2, <3>2
      <4> QED
        BY <1>7, <4>1
    <3> QED
      BY <1>2, <3>1, <3>2
  <2> QED
    BY <2>1, <2>2
<1>9. ASSUME NEW v \in states \ {s, t}, NEW i, NEW j, NEW p, NEW q, NEW x, HasAt(v, i, p, x), HasAt(u, j, q, x)
      PROVE  FALSE
  <2>1. \E l, r : HasAt(s, l, r, x) \/ HasAt(t, l, r, x)
    BY <1>6, <1>9
  <2> QED
    BY <1>7, <1>9, <2>1
<1>10. ASSUME NEW i, NEW j, NEW p, NEW q, NEW x, HasAt(u, i, p, x), HasAt(u, j, q, x)
       PROVE  i = j /\ p = q
  <2>1. PICK a : a = Len(s[f[i]].items)
    OBVIOUS
  <2>2. PICK b : b = Len(s[f[j]].items)
    OBVIOUS
  <2>3. i \in 1..k /\ j \in 1..k /\ p \in Int /\ q \in Int /\ a \in Int /\ b \in Int
    BY <1>6, <1>10, <2>1, <2>2
  <2>4. f[i] \in 1..k /\ f[j] \in 1..k
    BY <1>5, <2>3 DEF Permutes
  <2>5. HasAt(s, f[i], p, x) \/ HasAt(t, k + 1 - f[i], p - a, x)
    BY <1>6, <1>10, <2>1
  <2>6. HasAt(s, f[j], q, x) \/ HasAt(t, k + 1 - f[j], q - b, x)
    BY <1>6, <1>10, <2>2
  <2>7. \/ f[i] = f[j] /\ p = q
        \/ k + 1 - f[i] = k + 1 - f[j] /\ p - a = q - b
    BY <1>7, <2>5, <2>6
  <2>8. f[i] = f[j]
    BY <2>4, <2>7
  <2>9. i = j
    BY <1>5, <2>3, <2>8 DEF Permutes
  <2>10. a = b
    BY <2>1, <2>2, <2>9
  <2> QED
    BY <2>3, <2>7, <2>9, <2>10
<1>11. ASSUME NEW v \in new, NEW w \in new, NEW i, NEW j, NEW p, NEW q, NEW x,
              HasAt(v, i, p, x), HasAt(w, j, q, x)
       PROVE  v = w /\ i = j /\ p = q
  <2>1. CASE v = u /\ w = u
    BY <1>10, <1>11, <2>1
  <2>2. CASE v = u /\ w # u
    <3>1. w \in states \ {s, t}
      BY <1>2, <2>2
    <3> QED
      BY <1>9, <1>11, <2>2, <3>1
  <2>3. CASE v # u /\ w = u
    <3>1. v \in states \ {s, t}
      BY <1>2, <2>3
    <3> QED
      BY <1>9, <1>11, <2>3, <3>1
  <2>4. CASE v # u /\ w # u
    <3>1. v \in states /\ w \in states
      BY <1>2, <2>4
    <3> QED
      BY <1>7, <1>11, <3>1
  <2> QED
    BY <2>1, <2>2, <2>3, <2>4
<1>12. Holds(new, indices)
  <2>1. \A x : x \in indices <=> \E v \in new : \E i, p : HasAt(v, i, p, x)
    BY <1>8
  <2>2. \A v, w \in new : \A i, j, p, q, x : HasAt(v, i, p, x) /\ HasAt(w, j, q, x) => v = w /\ i = j /\ p = q
    BY <1>11
  <2> QED
    BY <2>1, <2>2, HoldsIs, Zenon
<1> QED
  BY <1>1, <1>2, <1>12 DEF MergeTwo

\* All sets of s have as many items.
Even(s, k) == \A i, j \in 1..k : Len(s[i].items) = Len(s[j].items)

\* A set is empty when it weighs nothing, and while one is empty none has two items.
Filled(s, k) ==
  /\ \A i \in 1..k : s[i].sum > 0 <=> Len(s[i].items) > 0
  /\ (\A i \in 1..k : Len(s[i].items) > 0) \/ (\A i \in 1..k : Len(s[i].items) <= 1)

\* Merging states of evenly filled sets gives such a state (equal_size).
LEMMA MergedEven ==
  ASSUME NEW k \in Nat, NEW s \in [1..k -> KKSet], NEW t \in [1..k -> KKSet], Even(s, k), Even(t, k)
  PROVE  Even(Merged(s, t), k)
<1>1. PICK f : /\ Permutes(f, k)
               /\ \A i \in 1..k : Merged(s, t)[i] = Joined(s[f[i]], t[k + 1 - f[i]])
  BY MergedIs
<1>2. ASSUME NEW i \in 1..k, NEW j \in 1..k
      PROVE  Len(Merged(s, t)[i].items) = Len(Merged(s, t)[j].items)
  <2>a. f[i] \in 1..k /\ f[j] \in 1..k
    BY <1>1 DEF Permutes
  <2>1. f[i] \in 1..k /\ f[j] \in 1..k /\ k + 1 - f[i] \in 1..k /\ k + 1 - f[j] \in 1..k
    BY <2>a
  <2>2. PICK a \in KKSet : a = s[f[i]]
    BY <2>1
  <2>3. PICK b \in KKSet : b = s[f[j]]
    BY <2>1
  <2>4. PICK c \in KKSet : c = t[k + 1 - f[i]]
    BY <2>1
  <2>5. PICK d \in KKSet : d = t[k + 1 - f[j]]
    BY <2>1
  <2>6. Len(a.items) = Len(b.items) /\ Len(c.items) = Len(d.items)
    BY <2>1, <2>2, <2>3, <2>4, <2>5 DEF Even
  <2>7. Merged(s, t)[i] = Joined(a, c) /\ Merged(s, t)[j] = Joined(b, d)
    BY <1>1, <2>2, <2>3, <2>4, <2>5
  <2>8. Len(Joined(a, c).items) = Len(a.items) + Len(c.items)
    BY JoinedIs
  <2>9. Len(Joined(b, d).items) = Len(b.items) + Len(d.items)
    BY JoinedIs
  <2> QED
    BY <2>6, <2>7, <2>8, <2>9
<1> QED
  BY <1>2 DEF Even

\* Merging leaves no set with two items while another is empty.
LEMMA MergedFilled ==
  ASSUME NEW k \in Nat, NEW s, NEW t, KKState(s, k), KKState(t, k), Filled(s, k), Filled(t, k)
  PROVE  Filled(Merged(s, t), k)
<1>1. s \in [1..k -> KKSet] /\ t \in [1..k -> KKSet]
  BY DEF KKState
<1>2. PICK m : m = Merged(s, t)
  OBVIOUS
<1>3. PICK f : Permutes(f, k) /\ \A i \in 1..k : m[i] = Joined(s[f[i]], t[k + 1 - f[i]])
  <2>1. \E f : Permutes(f, k) /\ \A i \in 1..k : Merged(s, t)[i] = Joined(s[f[i]], t[k + 1 - f[i]])
    BY <1>1, MergedIs
  <2> QED
    BY <1>2, <2>1
<1>4. PICK S : S = [i \in 1..k |-> Len(s[i].items)]
  OBVIOUS
<1>5. PICK T : T = [i \in 1..k |-> Len(t[i].items)]
  OBVIOUS
<1>6. ASSUME NEW a \in KKSet PROVE Len(a.items) \in Nat /\ a.sum \in Nat
  BY DEF KKSet
<1>7. \A i \in 1..k : S[i] \in Nat /\ T[i] \in Nat /\ S[i] = Len(s[i].items) /\ T[i] = Len(t[i].items)
  BY <1>1, <1>4, <1>5, <1>6
<1>8. \A i, j \in 1..k : i < j => (S[j] > 0 => S[i] > 0) /\ (T[j] > 0 => T[i] > 0)
  <2> TAKE i \in 1..k, j \in 1..k
  <2> HAVE i < j
  <2>1. s[j].sum <= s[i].sum /\ t[j].sum <= t[i].sum
    BY DEF KKState
  <2>2. s[j].sum \in Nat /\ s[i].sum \in Nat /\ t[j].sum \in Nat /\ t[i].sum \in Nat
    BY <1>1, <1>6
  <2>3. (s[j].sum > 0 => s[i].sum > 0) /\ (t[j].sum > 0 => t[i].sum > 0)
    BY <2>1, <2>2
  <2> QED
    BY <1>7, <2>3 DEF Filled
<1>9. ASSUME NEW i \in 1..k
      PROVE  /\ f[i] \in 1..k /\ k + 1 - f[i] \in 1..k
             /\ Len(m[i].items) = S[f[i]] + T[k + 1 - f[i]]
             /\ m[i].sum = s[f[i]].sum + t[k + 1 - f[i]].sum
  <2>a. f[i] \in 1..k
    BY <1>3 DEF Permutes
  <2>1. f[i] \in 1..k /\ k + 1 - f[i] \in 1..k
    BY <2>a
  <2>2. PICK a \in KKSet : a = s[f[i]]
    BY <1>1, <2>1
  <2>3. PICK b \in KKSet : b = t[k + 1 - f[i]]
    BY <1>1, <2>1
  <2>4. Len(Joined(a, b).items) = Len(a.items) + Len(b.items)
    BY JoinedIs
  <2>5. Joined(a, b).sum = a.sum + b.sum
    BY JoinedIs
  <2>6. m[i] = Joined(a, b)
    BY <1>3, <2>2, <2>3
  <2>7. S[f[i]] = Len(a.items) /\ T[k + 1 - f[i]] = Len(b.items)
    BY <1>7, <2>1, <2>2, <2>3
  <2>8. Len(m[i].items) = S[f[i]] + T[k + 1 - f[i]]
    BY <2>4, <2>6, <2>7
  <2>9. m[i].sum = s[f[i]].sum + t[k + 1 - f[i]].sum
    BY <2>2, <2>3, <2>5, <2>6
  <2> QED
    BY <2>1, <2>8, <2>9
<1>10. \A i \in 1..k : m[i].sum > 0 <=> Len(m[i].items) > 0
  <2> TAKE i \in 1..k
  <2>1. PICK a \in 1..k : a = f[i]
    BY <1>9
  <2>2. PICK b \in 1..k : b = k + 1 - f[i]
    BY <1>9
  <2>3. s[a].sum > 0 <=> S[a] > 0
    BY <1>7 DEF Filled
  <2>4. t[b].sum > 0 <=> T[b] > 0
    BY <1>7 DEF Filled
  <2>5. Len(m[i].items) = S[a] + T[b] /\ m[i].sum = s[a].sum + t[b].sum
    BY <1>9, <2>1, <2>2
  <2>6. s[a].sum \in Nat /\ t[b].sum \in Nat /\ S[a] \in Nat /\ T[b] \in Nat
    BY <1>1, <1>6, <1>7
  <2>7. PICK x \in Nat : x = s[a].sum
    BY <2>6
  <2>8. PICK y \in Nat : y = t[b].sum
    BY <2>6
  <2>9. (x + y > 0) <=> (S[a] + T[b] > 0)
    BY <2>3, <2>4, <2>6, <2>7, <2>8
  <2> QED
    BY <2>5, <2>7, <2>8, <2>9
<1>11. (\A i \in 1..k : Len(m[i].items) > 0) \/ (\A i \in 1..k : Len(m[i].items) <= 1)
  <2>1. CASE \A i \in 1..k : S[i] > 0
    <3> SUFFICES ASSUME NEW i \in 1..k PROVE Len(m[i].items) > 0
      OBVIOUS
    <3>1. PICK a \in Nat : a = S[f[i]]
      BY <1>7, <1>9
    <3>2. PICK b \in Nat : b = T[k + 1 - f[i]]
      BY <1>7, <1>9
    <3>3. a > 0 /\ Len(m[i].items) = a + b
      BY <1>9, <2>1, <3>1, <3>2
    <3> QED
      BY <3>3
  <2>2. CASE \A i \in 1..k : T[i] > 0
    <3> SUFFICES ASSUME NEW i \in 1..k PROVE Len(m[i].items) > 0
      OBVIOUS
    <3>1. PICK a \in Nat : a = S[f[i]]
      BY <1>7, <1>9
    <3>2. PICK b \in Nat : b = T[k + 1 - f[i]]
      BY <1>7, <1>9
    <3>3. b > 0 /\ Len(m[i].items) = a + b
      BY <1>9, <2>2, <3>1, <3>2
    <3> QED
      BY <3>3
  <2>3. CASE ~(\A i \in 1..k : S[i] > 0) /\ ~(\A i \in 1..k : T[i] > 0)
    <3>1. \A i \in 1..k : S[i] <= 1 /\ T[i] <= 1
      BY <1>7, <2>3 DEF Filled
    <3>2. SUFFICES ASSUME NEW l \in 1..k, ~(Len(m[l].items) <= 1), NEW i \in 1..k PROVE Len(m[i].items) > 0
      OBVIOUS
    <3>3. PICK a \in 1..k : a = f[l]
      BY <1>9
    <3>4. PICK b \in 1..k : b = f[i]
      BY <1>9
    <3>5. PICK A \in 1..k : A = k + 1 - a
      OBVIOUS
    <3>6. PICK B \in 1..k : B = k + 1 - b
      OBVIOUS
    <3>7. S[a] > 0 /\ T[A] > 0
      <4>1. Len(m[l].items) = S[a] + T[A]
        BY <1>9, <3>3, <3>5
      <4>2. S[a] \in Nat /\ T[A] \in Nat /\ S[a] <= 1 /\ T[A] <= 1
        BY <1>7, <3>1
      <4> QED
        BY <3>2, <4>1, <4>2
    <3>8. S[b] > 0 \/ T[B] > 0
      <4>1. CASE b <= a
        BY <1>8, <3>7, <4>1
      <4>2. CASE a < b
        <5>1. B < A
          BY <3>5, <3>6, <4>2
        <5> QED
          BY <1>8, <3>7, <5>1
      <4> QED
        BY <4>1, <4>2
    <3>9. Len(m[i].items) = S[b] + T[B] /\ S[b] \in Nat /\ T[B] \in Nat
      BY <1>7, <1>9, <3>4, <3>6
    <3> QED
      BY <3>8, <3>9
  <2> QED
    BY <2>1, <2>2, <2>3
<1> QED
  BY <1>2, <1>10, <1>11 DEF Filled

\* When one state is left.

\* The sets of s hold each of 1..n once.
Covers(s, k, n) ==
  /\ \A x \in 1..n : \E i \in 1..k : \E p \in 1..Len(s[i].items) : s[i].items[p] = x
  /\ \A i \in 1..k : \A p \in 1..Len(s[i].items) : s[i].items[p] \in 1..n
  /\ \A i, j \in 1..k : \A p \in 1..Len(s[i].items), q \in 1..Len(s[j].items) :
       s[i].items[p] = s[j].items[q] => i = j /\ p = q

\* The state left alone in the heap has every index at one place.
LEMMA OneStateHas ==
  ASSUME NEW k \in Nat, NEW s \in [1..k -> KKSet], NEW n \in Nat, Holds({s}, 1..n)
  PROVE  Covers(s, k, n)
<1>1. /\ \A x : x \in 1..n <=> \E v \in {s} : \E i, p : HasAt(v, i, p, x)
      /\ \A v, w \in {s} : \A i, j, p, q, x :
           HasAt(v, i, p, x) /\ HasAt(w, j, q, x) => v = w /\ i = j /\ p = q
  BY HoldsIs
<1>2. \A x : x \in 1..n <=> \E i, p : HasAt(s, i, p, x)
  BY <1>1
<1>3. \A i, j, p, q, x : HasAt(s, i, p, x) /\ HasAt(s, j, q, x) => i = j /\ p = q
  BY <1>1
<1>4. ASSUME NEW i \in 1..k PROVE DOMAIN s[i].items = 1..Len(s[i].items)
  <2>1. s[i].items \in Seq(Nat)
    BY DEF KKSet
  <2> QED
    BY <2>1, LenProperties
<1>5. \A i, p, x : HasAt(s, i, p, x) <=> i \in 1..k /\ p \in 1..Len(s[i].items) /\ s[i].items[p] = x
  BY <1>4 DEF HasAt
<1>6. ASSUME NEW x \in 1..n PROVE \E i \in 1..k : \E p \in 1..Len(s[i].items) : s[i].items[p] = x
  <2>1. PICK i, p : HasAt(s, i, p, x)
    BY <1>2
  <2>2. i \in 1..k /\ p \in 1..Len(s[i].items) /\ s[i].items[p] = x
    BY <1>5, <2>1
  <2> QED
    BY <2>2
<1>7. ASSUME NEW i \in 1..k, NEW p \in 1..Len(s[i].items) PROVE s[i].items[p] \in 1..n
  <2>1. HasAt(s, i, p, s[i].items[p])
    BY <1>5
  <2> QED
    BY <1>2, <2>1
<1>8. ASSUME NEW i \in 1..k, NEW j \in 1..k, NEW p \in 1..Len(s[i].items), NEW q \in 1..Len(s[j].items),
             s[i].items[p] = s[j].items[q]
      PROVE  i = j /\ p = q
  <2>1. PICK x : x = s[i].items[p]
    OBVIOUS
  <2>2. HasAt(s, i, p, x)
    BY <1>5, <2>1
  <2>3. HasAt(s, j, q, x)
    BY <1>5, <1>8, <2>1
  <2> QED
    BY <1>3, <2>2, <2>3
<1> QED
  BY <1>6, <1>7, <1>8 DEF Covers

\* With equal_size the last state cuts the indices into parts of one size.
LEMMA EvenSizes ==
  ASSUME NEW k \in Nat \ {0}, NEW s \in [1..k -> KKSet], NEW n \in Nat, Holds({s}, 1..n), Even(s, k)
  PROVE  \A i \in 1..k : Len(s[i].items) * k = n
<1>1. /\ \A x \in 1..n : \E i \in 1..k : \E p \in 1..Len(s[i].items) : s[i].items[p] = x
      /\ \A i \in 1..k : \A p \in 1..Len(s[i].items) : s[i].items[p] \in 1..n
      /\ \A i, j \in 1..k : \A p \in 1..Len(s[i].items), q \in 1..Len(s[j].items) :
           s[i].items[p] = s[j].items[q] => i = j /\ p = q
  <2>1. Covers(s, k, n)
    BY OneStateHas
  <2> QED
    BY <2>1, Zenon DEF Covers
<1>2. PICK m \in Nat : m = Len(s[1].items)
  <2>1. s[1].items \in Seq(Nat)
    BY DEF KKSet
  <2> QED
    BY <2>1
<1>3. \A i \in 1..k : Len(s[i].items) = m
  BY <1>2 DEF Even
<1>4. PICK g : g = [c \in (1..k) \X (1..m) |-> s[c[1]].items[c[2]]]
  OBVIOUS
<1>5. \A i \in 1..k, p \in 1..m : g[<<i, p>>] = s[i].items[p]
  BY <1>4
<1>6. g \in [(1..k) \X (1..m) -> 1..n]
  BY <1>1, <1>3, <1>4
<1>7. \A c, d \in (1..k) \X (1..m) : g[c] = g[d] => c = d
  <2> TAKE c \in (1..k) \X (1..m), d \in (1..k) \X (1..m)
  <2> HAVE g[c] = g[d]
  <2>1. PICK i \in 1..k, p \in 1..m : c = <<i, p>>
    OBVIOUS
  <2>2. PICK j \in 1..k, q \in 1..m : d = <<j, q>>
    OBVIOUS
  <2>3. s[i].items[p] = s[j].items[q]
    BY <1>5, <2>1, <2>2
  <2>4. p \in 1..Len(s[i].items) /\ q \in 1..Len(s[j].items)
    BY <1>3, <2>1, <2>2
  <2>5. i = j /\ p = q
    <3>1. \A e \in 1..Len(s[i].items), f \in 1..Len(s[j].items) : s[i].items[e] = s[j].items[f] => i = j /\ e = f
      BY <1>1
    <3> QED
      BY <2>3, <2>4, <3>1
  <2> QED
    BY <2>1, <2>2, <2>5
<1>8. \A x \in 1..n : \E c \in (1..k) \X (1..m) : g[c] = x
  <2> TAKE x \in 1..n
  <2>1. PICK i \in 1..k : \E p \in 1..Len(s[i].items) : s[i].items[p] = x
    BY <1>1
  <2>2. PICK p \in 1..m : s[i].items[p] = x
    BY <1>3, <2>1
  <2>3. <<i, p>> \in (1..k) \X (1..m) /\ g[<<i, p>>] = x
    BY <1>5, <2>2
  <2> QED
    BY <2>3
<1>9. g \in Bijection((1..k) \X (1..m), 1..n)
  BY <1>6, <1>7, <1>8 DEF Bijection, Injection, Surjection, IsInjective
<1>10. ExistsBijection((1..k) \X (1..m), 1..n)
  BY <1>9 DEF ExistsBijection
<1>11. IsFiniteSet(1..k) /\ Cardinality(1..k) = k
  BY FS_Interval
<1>12. IsFiniteSet(1..m) /\ Cardinality(1..m) = m
  BY FS_Interval
<1>13. Cardinality(1..n) = n
  BY FS_Interval
<1>14. IsFiniteSet((1..k) \X (1..m)) /\ Cardinality((1..k) \X (1..m)) = Cardinality(1..k) * Cardinality(1..m)
  BY <1>11, <1>12, FS_Product
<1>15. Cardinality(1..n) = Cardinality((1..k) \X (1..m))
  BY <1>10, <1>14, FS_Bijection
<1>16. n = k * m
  BY <1>11, <1>12, <1>13, <1>14, <1>15
<1>17. ASSUME NEW i \in 1..k PROVE Len(s[i].items) * k = n
  <2>1. Len(s[i].items) = m
    BY <1>3
  <2>2. m * k = n
    BY <1>16
  <2> QED
    BY <2>1, <2>2
<1> QED
  BY <1>17

\* Without it no part is empty when there are at least as many indices as parts.
LEMMA FilledSets ==
  ASSUME NEW k \in Nat \ {0}, NEW s \in [1..k -> KKSet], NEW n \in Nat, k <= n, Holds({s}, 1..n), Filled(s, k)
  PROVE  \A i \in 1..k : Len(s[i].items) > 0
<1>1. /\ \A x \in 1..n : \E i \in 1..k : \E p \in 1..Len(s[i].items) : s[i].items[p] = x
      /\ \A i \in 1..k : \A p \in 1..Len(s[i].items) : s[i].items[p] \in 1..n
  <2>1. Covers(s, k, n)
    BY OneStateHas
  <2> QED
    BY <2>1, Zenon DEF Covers
<1>2. SUFFICES ASSUME \A i \in 1..k : Len(s[i].items) <= 1, NEW e \in 1..k, ~(Len(s[e].items) > 0)
               PROVE  FALSE
  BY DEF Filled
<1>3. \A i \in 1..k : Len(s[i].items) \in Nat
  BY DEF KKSet
<1>4. \A x \in 1..n : \E i \in (1..k) \ {e} : s[i].items[1] = x
  <2> TAKE x \in 1..n
  <2>1. PICK i \in 1..k : \E p \in 1..Len(s[i].items) : s[i].items[p] = x
    BY <1>1
  <2>2. PICK p \in 1..Len(s[i].items) : s[i].items[p] = x
    BY <2>1
  <2>3. Len(s[i].items) \in Nat /\ Len(s[i].items) <= 1
    BY <1>2, <1>3
  <2>4. p = 1 /\ i # e
    BY <1>2, <2>3
  <2> QED
    BY <2>2, <2>4
<1>5. PICK g : g = [x \in 1..n |-> CHOOSE i \in (1..k) \ {e} : s[i].items[1] = x]
  OBVIOUS
<1>6. \A x \in 1..n : g[x] \in (1..k) \ {e} /\ s[g[x]].items[1] = x
  BY <1>4, <1>5
<1>7. g \in [1..n -> (1..k) \ {e}]
  BY <1>5, <1>6
<1>8. IsFiniteSet(1..k) /\ Cardinality(1..k) = k
  BY FS_Interval
<1>9. IsFiniteSet(1..n) /\ Cardinality(1..n) = n
  BY FS_Interval
<1>10. PICK K : K = 1..k
  OBVIOUS
<1>11. PICK J : J = K \ {e}
  OBVIOUS
<1>12. PICK N : N = 1..n
  OBVIOUS
<1>13. e \in K /\ IsFiniteSet(K) /\ Cardinality(K) = k
  BY <1>8, <1>10
<1>14. IsFiniteSet(J) /\ Cardinality(J) = IF e \in K THEN Cardinality(K) - 1 ELSE Cardinality(K)
  BY <1>11, <1>13, FS_RemoveElement
<1>15. Cardinality(J) < Cardinality(N) /\ IsFiniteSet(N)
  BY <1>9, <1>12, <1>13, <1>14
<1>16. g \in [N -> J]
  BY <1>7, <1>10, <1>11, <1>12
<1>17. \E x, y \in N : x # y /\ g[x] = g[y]
  BY <1>14, <1>15, <1>16, FS_PigeonHole
<1> QED
  BY <1>6, <1>12, <1>17

-----------------------------------------------------------------------------
\* The first heap.

\* Sorting integers by a key, and by value where keys are equal.
LEMMA KeyOrders ==
  ASSUME NEW S, NEW key, NEW R, \A x \in S : x \in Int /\ key[x] \in Int,
         \A x, y \in S : <<x, y>> \in R <=> key[x] < key[y] \/ (key[x] = key[y] /\ x < y)
  PROVE  Orders(R, S)
<1>1. ASSUME NEW x \in S PROVE <<x, x>> \notin R
  OBVIOUS
<1>2. ASSUME NEW x \in S, NEW y \in S PROVE x = y \/ <<x, y>> \in R \/ <<y, x>> \in R
  <2>1. x \in Int /\ y \in Int /\ key[x] \in Int /\ key[y] \in Int
    OBVIOUS
  <2>2. x = y \/ (key[x] < key[y] \/ (key[x] = key[y] /\ x < y)) \/ (key[y] < key[x] \/ (key[y] = key[x] /\ y < x))
    BY <2>1
  <2> QED
    BY <2>2
<1>3. ASSUME NEW x \in S, NEW y \in S, NEW z \in S, <<x, y>> \in R, <<y, z>> \in R PROVE <<x, z>> \in R
  <2>1. x \in Int /\ y \in Int /\ z \in Int /\ key[x] \in Int /\ key[y] \in Int /\ key[z] \in Int
    OBVIOUS
  <2>2. /\ key[x] < key[y] \/ (key[x] = key[y] /\ x < y)
        /\ key[y] < key[z] \/ (key[y] = key[z] /\ y < z)
    BY <1>3
  <2>3. key[x] < key[z] \/ (key[x] = key[z] /\ x < z)
    BY <2>1, <2>2
  <2> QED
    BY <2>3
<1> QED
  BY <1>1, <1>2, <1>3 DEF Orders

\* Ascending lists the indices by increasing workload.
LEMMA AscendingIs ==
  ASSUME NEW S, IsFiniteSet(S), NEW loads, \A x \in S : x \in Int /\ loads[x] \in Int
  PROVE  /\ Cardinality(S) \in Nat
         /\ Lists(Ascending(loads, S), S)
         /\ \A i, j \in 1..Cardinality(S) :
              i < j => loads[Ascending(loads, S)[i]] <= loads[Ascending(loads, S)[j]]
<1> DEFINE Ahead(i, j) == loads[i] < loads[j] \/ (loads[i] = loads[j] /\ i < j)
<1>1. PICK R : R = {p \in S \X S : Ahead(p[1], p[2])}
  OBVIOUS
<1>2. \A i, j \in S : <<i, j>> \in R <=> Ahead(i, j)
  BY <1>1
<1>3. Orders(R, S)
  BY <1>2, KeyOrders
<1> DEFINE g == InOrder(S, R)
<1>4. /\ Cardinality(S) \in Nat
      /\ Lists(g, S)
      /\ \A i, j \in 1..Cardinality(S) : i < j => <<g[i], g[j]>> \in R
      /\ \A i \in 1..Cardinality(S) : \A x \in S : Cardinality(Below(S, R, x)) = i - 1 <=> x = g[i]
  BY <1>3, OrderSorts
<1>5. \A x \in S : Below(S, R, x) = {y \in S : Ahead(y, x)}
  BY <1>2 DEF Below
<1> DEFINE At(i) == CHOOSE x \in S : Cardinality({y \in S : Ahead(y, x)}) = i - 1
<1>6. Ascending(loads, S) = [i \in 1..Cardinality(S) |-> At(i)]
  BY DEF Ascending, Sorted
<1>7. \A i \in 1..Cardinality(S) : At(i) = g[i]
  <2> SUFFICES ASSUME NEW i \in 1..Cardinality(S) PROVE At(i) = g[i]
    OBVIOUS
  <2>1. g[i] \in S /\ Cardinality({y \in S : Ahead(y, g[i])}) = i - 1
    BY <1>4, <1>5 DEF Lists
  <2>2. At(i) \in S /\ Cardinality({y \in S : Ahead(y, At(i))}) = i - 1
    BY <2>1
  <2> QED
    BY <1>4, <1>5, <2>2
<1> HIDE DEF At, g
<1>8. Ascending(loads, S) = g
  BY <1>4, <1>6, <1>7 DEF Lists
<1>9. ASSUME NEW i \in 1..Cardinality(S), NEW j \in 1..Cardinality(S), i < j PROVE loads[g[i]] <= loads[g[j]]
  <2>1. g[i] \in S /\ g[j] \in S
    BY <1>4 DEF Lists
  <2>2. Ahead(g[i], g[j])
    BY <1>2, <1>4, <1>9, <2>1
  <2> QED
    BY <2>1, <2>2
<1> QED
  BY <1>4, <1>8, <1>9

\* Numbers.

\* Quotient and remainder.
LEMMA Euclid ==
  ASSUME NEW a \in Nat, NEW k \in Nat \ {0}
  PROVE  a \div k \in Nat /\ a % k \in 0..k - 1 /\ a = (a \div k) * k + (a % k)
OBVIOUS

\* Groups of k do not overlap.
LEMMA Apart ==
  ASSUME NEW g \in Nat, NEW h \in Nat, NEW k \in Nat \ {0}, g < h
  PROVE  g * k \in Nat /\ h * k \in Nat /\ g * k + k <= h * k
<1>1. PICK d \in Nat : h = g + 1 + d
  <2>1. h - g - 1 \in Nat /\ h = g + 1 + (h - g - 1)
    OBVIOUS
  <2> QED
    BY <2>1
<1>2. h * k = g * k + k + d * k /\ g * k \in Nat /\ d * k \in Nat
  BY <1>1
<1> QED
  BY <1>2

\* A place is in one group, at one place of it.
LEMMA SameGroup ==
  ASSUME NEW g \in Nat, NEW h \in Nat, NEW k \in Nat \ {0}, NEW i \in 1..k, NEW j \in 1..k,
         g * k + i = h * k + j
  PROVE  g = h /\ i = j
<1>1. g * k \in Nat /\ h * k \in Nat
  OBVIOUS
<1>2. PICK x \in Nat : x = g * k
  BY <1>1
<1>3. PICK y \in Nat : y = h * k
  BY <1>1
<1>4. x + i = y + j
  BY <1>2, <1>3
<1>5. ~(g < h)
  <2> SUFFICES ASSUME g < h PROVE FALSE
    OBVIOUS
  <2>1. x + k <= y
    BY <1>2, <1>3, Apart
  <2> QED
    BY <1>4, <2>1
<1>6. ~(h < g)
  <2> SUFFICES ASSUME h < g PROVE FALSE
    OBVIOUS
  <2>1. y + k <= x
    BY <1>2, <1>3, Apart
  <2> QED
    BY <1>4, <2>1
<1>7. g = h
  BY <1>5, <1>6
<1> QED
  BY <1>2, <1>3, <1>4, <1>7

\* The quotient of a multiple.
LEMMA QuotientOf ==
  ASSUME NEW m \in Nat, NEW k \in Nat \ {0}
  PROVE  (m * k) \div k = m
OBVIOUS

\* What holds of a heap from the first merge to the last.
Heap(states, k, n, d) ==
  /\ IsFiniteSet(states) /\ states # {}
  /\ \A s \in states : KKState(s, k) /\ Spread(s) <= d
  /\ Holds(states, 1..n)

\* One turn of the loop of karmarkar_karp keeps what holds of the heap.
LEMMA HeapMerge ==
  ASSUME NEW k \in Nat \ {0}, NEW n \in Nat, NEW d \in Int, NEW states, Heap(states, k, n, d),
         NEW s \in states, NEW t \in states, s # t
  PROVE  /\ Heap(MergeTwo(s, t, states), k, n, d)
         /\ (\A u \in states : Even(u, k)) => \A u \in MergeTwo(s, t, states) : Even(u, k)
         /\ (\A u \in states : Filled(u, k)) => \A u \in MergeTwo(s, t, states) : Filled(u, k)
<1>1. \A u \in states : KKState(u, k) /\ u \in [1..k -> KKSet] /\ Spread(u) <= d
  BY DEF Heap, KKState
<1>2. PICK m : m = Merged(s, t)
  OBVIOUS
<1>3. MergeTwo(s, t, states) = (states \ {s, t}) \cup {m}
  BY <1>2 DEF MergeTwo
<1>4. KKState(m, k)
  BY <1>1, <1>2, MergedIs
<1>5. Spread(m) <= d
  BY <1>1, <1>2, MergedSpread
<1>6. Holds(MergeTwo(s, t, states), 1..n)
  <2>1. Holds(states, 1..n)
    BY DEF Heap
  <2> QED
    BY <1>1, <2>1, MergedHolds
<1>7. IsFiniteSet((states \ {s, t}) \cup {m})
  <2>1. IsFiniteSet(states)
    BY DEF Heap
  <2>2. IsFiniteSet(states \ {s, t})
    BY <2>1, FS_Difference
  <2> QED
    BY <2>2, FS_AddElement
<1>8. Heap(MergeTwo(s, t, states), k, n, d)
  BY <1>1, <1>3, <1>4, <1>5, <1>6, <1>7 DEF Heap
<1>9. ASSUME \A u \in states : Even(u, k) PROVE \A u \in MergeTwo(s, t, states) : Even(u, k)
  <2>1. Even(m, k)
    BY <1>1, <1>2, <1>9, MergedEven
  <2> QED
    BY <1>3, <1>9, <2>1
<1>10. ASSUME \A u \in states : Filled(u, k) PROVE \A u \in MergeTwo(s, t, states) : Filled(u, k)
  <2>1. Filled(m, k)
    BY <1>1, <1>2, <1>10, MergedFilled
  <2> QED
    BY <1>3, <1>10, <2>1
<1> QED
  BY <1>8, <1>9, <1>10

\* The heap of single items.
LEMMA SinglesAre ==
  ASSUME NEW k \in Nat \ {0}, NEW n \in Nat \ {0}, NEW d \in Int, NEW loads \in [1..n -> Nat \ {0}],
         \A i \in 1..n : loads[i] <= d
  PROVE  Heap(Singles(loads, k), k, n, d) /\ \A s \in Singles(loads, k) : Filled(s, k)
<1> DEFINE One(i) == [j \in 1..k |-> IF j = 1 THEN OneItem(loads, i) ELSE NoItems]
<1>1. Singles(loads, k) = {One(i) : i \in 1..n}
  BY DEF Singles
<1>2. ASSUME NEW i \in 1..n
      PROVE  /\ OneItem(loads, i) \in KKSet /\ OneItem(loads, i).sum = loads[i] /\ loads[i] \in Nat \ {0}
             /\ OneItem(loads, i).items = <<i>> /\ Len(OneItem(loads, i).items) = 1
             /\ OneItem(loads, i).items[1] = i
  BY DEF OneItem, KKSet
<1>3. NoItems \in KKSet /\ NoItems.sum = 0 /\ Len(NoItems.items) = 0 /\ NoItems.items = <<>>
  BY DEF NoItems, KKSet
<1>4. ASSUME NEW i \in 1..n
      PROVE  /\ One(i) \in [1..k -> KKSet] /\ One(i)[1] = OneItem(loads, i)
             /\ \A j \in 1..k : j # 1 => One(i)[j] = NoItems
  BY <1>2, <1>3
<1> HIDE DEF One
<1>5. ASSUME NEW i \in 1..n PROVE KKState(One(i), k) /\ Spread(One(i)) <= d /\ Filled(One(i), k)
  <2>1. /\ One(i)[1].sum = loads[i] /\ loads[i] \in Nat \ {0} /\ Len(One(i)[1].items) = 1
        /\ \A j \in 1..k : j # 1 => One(i)[j].sum = 0 /\ Len(One(i)[j].items) = 0
    BY <1>2, <1>3, <1>4
  <2>2. KKState(One(i), k)
    <3>1. \A j, l \in 1..k : j < l => One(i)[l].sum <= One(i)[j].sum
      <4> TAKE j \in 1..k, l \in 1..k
      <4> HAVE j < l
      <4>1. One(i)[l].sum = 0
        BY <2>1
      <4>2. One(i)[j].sum \in Nat
        BY <2>1
      <4> QED
        BY <4>1, <4>2
    <3> QED
      BY <1>4, <3>1 DEF KKState
  <2>3. Spread(One(i)) = One(i)[1].sum - One(i)[k].sum
    BY <1>4, SpreadIs
  <2>4. One(i)[k].sum \in Nat
    BY <2>1
  <2>5. Filled(One(i), k)
    <3>1. \A j \in 1..k : (One(i)[j].sum > 0 <=> Len(One(i)[j].items) > 0) /\ Len(One(i)[j].items) <= 1
      <4> TAKE j \in 1..k
      <4>1. CASE j = 1
        <5>1. One(i)[j].sum = loads[i] /\ loads[i] \in Nat \ {0} /\ Len(One(i)[j].items) = 1
          BY <2>1, <4>1
        <5> QED
          BY <5>1
      <4>2. CASE j # 1
        BY <2>1, <4>2
      <4> QED
        BY <4>1, <4>2
    <3> QED
      BY <3>1 DEF Filled
  <2>6. loads[i] <= d
    OBVIOUS
  <2> QED
    BY <2>1, <2>2, <2>3, <2>4, <2>5, <2>6
<1>6. \A i \in 1..n : \A j, p, x : HasAt(One(i), j, p, x) <=> j = 1 /\ p = 1 /\ x = i
  <2> TAKE i \in 1..n
  <2>1. DOMAIN One(i) = 1..k /\ 1 \in 1..k
    BY <1>4
  <2>2. DOMAIN One(i)[1].items = {1} /\ One(i)[1].items[1] = i
    BY <1>2, <1>4
  <2>3. \A j \in 1..k : j # 1 => DOMAIN One(i)[j].items = {}
    BY <1>3, <1>4
  <2> QED
    BY <2>1, <2>2, <2>3 DEF HasAt
<1>7. Holds(Singles(loads, k), 1..n)
  <2>1. ASSUME NEW x PROVE x \in 1..n <=> \E s \in Singles(loads, k) : \E i, p : HasAt(s, i, p, x)
    <3>1. ASSUME x \in 1..n PROVE \E s \in Singles(loads, k) : \E i, p : HasAt(s, i, p, x)
      <4>1. HasAt(One(x), 1, 1, x) /\ One(x) \in Singles(loads, k)
        BY <1>1, <1>6, <3>1
      <4> QED
        BY <4>1
    <3>2. ASSUME NEW s \in Singles(loads, k), NEW i, NEW p, HasAt(s, i, p, x) PROVE x \in 1..n
      <4>1. PICK a \in 1..n : s = One(a)
        BY <1>1
      <4> QED
        BY <1>6, <3>2, <4>1
    <3> QED
      BY <3>1, <3>2
  <2>2. ASSUME NEW s \in Singles(loads, k), NEW t \in Singles(loads, k), NEW i, NEW j, NEW p, NEW q, NEW x,
               HasAt(s, i, p, x), HasAt(t, j, q, x)
        PROVE  s = t /\ i = j /\ p = q
    <3>1. PICK a \in 1..n : s = One(a)
      BY <1>1
    <3>2. PICK b \in 1..n : t = One(b)
      BY <1>1
    <3> QED
      BY <1>6, <2>2, <3>1, <3>2
  <2> QED
    BY <2>1, <2>2, HoldsIs
<1>8. IsFiniteSet(Singles(loads, k))
  <2>1. PICK f : f = [i \in 1..n |-> One(i)]
    OBVIOUS
  <2>2. f \in Surjection(1..n, Singles(loads, k))
    BY <1>1, <2>1 DEF Surjection
  <2>3. IsFiniteSet(1..n)
    BY FS_Interval
  <2> QED
    BY <2>2, <2>3, FS_Surjection
<1>9. Singles(loads, k) # {}
  <2>1. One(1) \in Singles(loads, k)
    BY <1>1
  <2> QED
    BY <2>1
<1> QED
  BY <1>1, <1>5, <1>7, <1>8, <1>9 DEF Heap

\* n items fill m groups of k.
Product(n, m, k) == n = m * k

\* The k members of s after the first a.
LEMMA StretchIs ==
  ASSUME NEW S, NEW s, NEW a \in Nat, NEW k \in Nat \ {0}, \A i \in a + 1..a + k : s[i] \in S
  PROVE  /\ SubSeq(s, a + 1, a + k) \in Seq(S)
         /\ Len(SubSeq(s, a + 1, a + k)) = k
         /\ \A i \in 1..k : SubSeq(s, a + 1, a + k)[i] = s[a + i]
<1>1. PICK l \in Int : l = a + 1
  OBVIOUS
<1>2. PICK h \in Int : h = a + k
  OBVIOUS
<1>3. \A i \in l..h : s[i] \in S
  BY <1>1, <1>2
<1>4. /\ SubSeq(s, l, h) \in Seq(S)
      /\ Len(SubSeq(s, l, h)) = IF l <= h THEN h - l + 1 ELSE 0
      /\ \A i \in 1..h - l + 1 : SubSeq(s, l, h)[i] = s[l + i - 1]
  BY <1>3, SubSeqProperties
<1>5. l <= h /\ h - l + 1 = k /\ \A i \in 1..k : l + i - 1 = a + i
  BY <1>1, <1>2
<1>6. /\ SubSeq(s, l, h) \in Seq(S) /\ Len(SubSeq(s, l, h)) = k
      /\ \A i \in 1..k : SubSeq(s, l, h)[i] = s[a + i]
  BY <1>4, <1>5
<1> QED
  BY <1>1, <1>2, <1>6

\* The heap of groups of k items by decreasing workload (equal_size).
LEMMA GroupsAre ==
  ASSUME NEW k \in Nat \ {0}, NEW m \in Nat \ {0}, NEW n \in Nat, Product(n, m, k), NEW d \in Int,
         NEW loads \in [1..n -> Nat], \A i, j \in 1..n : loads[i] - loads[j] <= d
  PROVE  Heap(Groups(loads, k), k, n, d) /\ \A s \in Groups(loads, k) : Even(s, k)
<1>1. DOMAIN loads = 1..n /\ Len(loads) = n
  BY FunctionIsSeq
<1>2. IsFiniteSet(1..n) /\ Cardinality(1..n) = n
  BY FS_Interval
<1>3. PICK order : order = Ascending(loads, 1..n)
  OBVIOUS
<1>4. /\ Lists(order, 1..n)
      /\ \A i, j \in 1..n : i < j => loads[order[i]] <= loads[order[j]]
  <2>1. \A x \in 1..n : x \in Int /\ loads[x] \in Int
    OBVIOUS
  <2>2. PICK S : S = 1..n
    OBVIOUS
  <2>3. \A x \in S : x \in Int /\ loads[x] \in Int
    BY <2>1, <2>2
  <2>4. IsFiniteSet(S) /\ Cardinality(S) = n
    BY <1>2, <2>2
  <2>5. /\ Lists(Ascending(loads, S), S)
        /\ \A i, j \in 1..Cardinality(S) :
             i < j => loads[Ascending(loads, S)[i]] <= loads[Ascending(loads, S)[j]]
    BY <2>3, <2>4, AscendingIs
  <2> QED
    BY <1>3, <2>2, <2>4, <2>5
<1>5. /\ order \in [1..n -> 1..n]
      /\ \A i, j \in 1..n : order[i] = order[j] => i = j
      /\ \A x \in 1..n : \E i \in 1..n : order[i] = x
  BY <1>2, <1>4 DEF Lists
<1>6. DOMAIN order = 1..n /\ Len(order) = n
  BY <1>5, FunctionIsSeq
<1>7. PICK sets : sets = [i \in 1..n |-> OneItem(loads, order[n + 1 - i])]
  OBVIOUS
<1> DEFINE G(g) == SubSeq(sets, g * k + 1, (g + 1) * k)
<1>8. Groups(loads, k) = {G(g) : g \in 0..m - 1}
  <2>1. n \div k = m
    BY QuotientOf DEF Product
  <2> QED
    BY <1>1, <1>3, <1>6, <1>7, <2>1 DEF Groups
<1>9. \A i \in 1..n : n + 1 - i \in 1..n
  OBVIOUS
<1>10. ASSUME NEW i \in 1..n
       PROVE  /\ sets[i] \in KKSet /\ sets[i].sum = loads[order[n + 1 - i]] /\ sets[i].items = <<order[n + 1 - i]>>
  <2>1. PICK x \in 1..n : x = order[n + 1 - i]
    BY <1>5, <1>9
  <2>2. sets[i] = OneItem(loads, x)
    BY <1>7, <2>1
  <2>3. loads[x] \in Nat /\ x \in Nat
    OBVIOUS
  <2>4. sets[i].sum = loads[x] /\ sets[i].items = <<x>>
    BY <2>2 DEF OneItem
  <2>5. sets[i] \in KKSet
    <3>1. <<x>> \in Seq(Nat)
      BY <2>3
    <3> QED
      BY <2>2, <2>3, <3>1 DEF OneItem, KKSet
  <2> QED
    BY <2>1, <2>4, <2>5
<1>11. ASSUME NEW g \in 0..m - 1
       PROVE  /\ G(g) \in [1..k -> KKSet]
              /\ \A i \in 1..k : g * k + i \in 1..n /\ G(g)[i] = sets[g * k + i]
  <2>1. PICK a \in Nat : a = g * k
    <3>1. g * k \in Nat
      OBVIOUS
    <3> QED
      BY <3>1
  <2>2. (g + 1) * k = a + k
    BY <2>1
  <2>3. a + k <= n
    <3>1. g \in Nat /\ g < m
      OBVIOUS
    <3>2. g * k + k <= m * k
      BY <3>1, Apart
    <3> QED
      BY <2>1, <3>2 DEF Product
  <2>4. \A i \in a + 1..a + k : sets[i] \in KKSet
    <3>1. \A i \in a + 1..a + k : i \in 1..n
      BY <2>3
    <3> QED
      BY <1>10, <3>1
  <2>5. /\ SubSeq(sets, a + 1, a + k) \in Seq(KKSet)
        /\ Len(SubSeq(sets, a + 1, a + k)) = k
        /\ \A i \in 1..k : SubSeq(sets, a + 1, a + k)[i] = sets[a + i]
    BY <2>4, StretchIs
  <2>6. G(g) = SubSeq(sets, a + 1, a + k)
    BY <2>1, <2>2
  <2>8. G(g) \in Seq(KKSet) /\ Len(G(g)) = k /\ \A i \in 1..k : G(g)[i] = sets[a + i]
    BY <2>5, <2>6
  <2> HIDE DEF G
  <2>9. G(g) \in [1..k -> KKSet]
    BY <2>8, SeqIsFunction
  <2>10. \A i \in 1..k : a + i \in 1..n
    BY <2>3
  <2> QED
    BY <2>1, <2>8, <2>9, <2>10
<1> HIDE DEF G
<1>12. ASSUME NEW g \in 0..m - 1 PROVE KKState(G(g), k) /\ Even(G(g), k) /\ Spread(G(g)) <= d
  <2>1. PICK a \in Nat : a = g * k
    <3>1. g * k \in Nat
      OBVIOUS
    <3> QED
      BY <3>1
  <2>2. /\ G(g) \in [1..k -> KKSet]
        /\ \A i \in 1..k : a + i \in 1..n /\ G(g)[i] = sets[a + i]
    BY <1>11, <2>1
  <2>3. \A i \in 1..k : G(g)[i].sum = loads[order[n + 1 - (a + i)]] /\ G(g)[i].items = <<order[n + 1 - (a + i)]>>
    BY <1>10, <2>2
  <2>4. \A i \in 1..k : n + 1 - (a + i) \in 1..n
    BY <1>9, <2>2
  <2>5. ASSUME NEW i \in 1..k, NEW j \in 1..k, i < j PROVE G(g)[j].sum <= G(g)[i].sum
    <3>1. PICK x \in 1..n : x = n + 1 - (a + i)
      BY <2>4
    <3>2. PICK y \in 1..n : y = n + 1 - (a + j)
      BY <2>4
    <3>3. y < x
      BY <2>5, <3>1, <3>2
    <3>4. loads[order[y]] <= loads[order[x]]
      BY <1>4, <3>3
    <3> QED
      BY <2>3, <3>1, <3>2, <3>4
  <2>6. KKState(G(g), k)
    BY <2>2, <2>5 DEF KKState
  <2>7. Even(G(g), k)
    <3>1. ASSUME NEW i \in 1..k PROVE Len(G(g)[i].items) = 1
      <4>1. PICK x : x = order[n + 1 - (a + i)]
        OBVIOUS
      <4>2. G(g)[i].items = <<x>>
        BY <2>3, <4>1
      <4> QED
        BY <4>2
    <3> QED
      BY <3>1 DEF Even
  <2>8. Spread(G(g)) = G(g)[1].sum - G(g)[k].sum
    BY <2>2, SpreadIs
  <2>9. PICK x \in 1..n : x = order[n + 1 - (a + 1)]
    <3>1. 1 \in 1..k
      OBVIOUS
    <3> QED
      BY <1>5, <2>4, <3>1
  <2>10. PICK y \in 1..n : y = order[n + 1 - (a + k)]
    <3>1. k \in 1..k
      OBVIOUS
    <3> QED
      BY <1>5, <2>4, <3>1
  <2>11. Spread(G(g)) = loads[x] - loads[y]
    <3>1. 1 \in 1..k /\ k \in 1..k
      OBVIOUS
    <3>2. G(g)[1].sum = loads[x]
      BY <2>3, <2>9, <3>1
    <3>3. G(g)[k].sum = loads[y]
      BY <2>3, <2>10, <3>1
    <3> QED
      BY <2>8, <3>2, <3>3
  <2> QED
    BY <2>6, <2>7, <2>11
<1>13. ASSUME NEW g \in 0..m - 1, NEW i, NEW p, NEW x
       PROVE  HasAt(G(g), i, p, x) <=> i \in 1..k /\ p = 1 /\ x = order[n + 1 - (g * k + i)]
  <2>1. DOMAIN G(g) = 1..k
    BY <1>11
  <2>2. \A j \in 1..k : G(g)[j].items = <<order[n + 1 - (g * k + j)]>>
    BY <1>10, <1>11
  <2>3. \A j \in 1..k : DOMAIN G(g)[j].items = {1} /\ G(g)[j].items[1] = order[n + 1 - (g * k + j)]
    BY <2>2
  <2> QED
    BY <2>1, <2>3 DEF HasAt
<1>14. Holds(Groups(loads, k), 1..n)
  <2>1. ASSUME NEW x PROVE x \in 1..n <=> \E s \in Groups(loads, k) : \E i, p : HasAt(s, i, p, x)
    <3>1. ASSUME x \in 1..n PROVE \E s \in Groups(loads, k) : \E i, p : HasAt(s, i, p, x)
      <4>1. PICK y \in 1..n : order[y] = x
        BY <1>5, <3>1
      <4>2. PICK z \in Nat : z = n - y
        OBVIOUS
      <4>3. PICK g \in Nat : g = z \div k
        BY <4>2, Euclid
      <4>4. PICK r \in 0..k - 1 : r = z % k
        BY <4>2, Euclid
      <4>5. z = g * k + r
        BY <4>2, <4>3, <4>4, Euclid
      <4>6. g < m
        <5> SUFFICES ASSUME ~(g < m) PROVE FALSE
          OBVIOUS
        <5>1. m * k <= g * k
          <6>1. CASE m = g
            BY <6>1
          <6>2. CASE m < g
            BY <6>2, Apart
          <6> QED
            BY <6>1, <6>2
        <5>2. PICK a \in Nat : a = g * k
          <6>1. g * k \in Nat
            OBVIOUS
          <6> QED
            BY <6>1
        <5>3. n <= a
          BY <5>1, <5>2 DEF Product
        <5>4. z = a + r /\ z < n /\ r \in Nat
          BY <4>2, <4>5, <5>2
        <5> QED
          BY <5>3, <5>4
      <4>7. PICK a \in Nat : a = g * k
        <5>1. g * k \in Nat
          OBVIOUS
        <5> QED
          BY <5>1
      <4>8. r + 1 \in 1..k /\ n + 1 - (a + (r + 1)) = y
        BY <4>2, <4>5, <4>7
      <4>9. g \in 0..m - 1
        BY <4>6
      <4>10. PICK i \in 1..k : i = r + 1
        BY <4>8
      <4>11. x = order[n + 1 - (g * k + i)]
        BY <4>1, <4>7, <4>8, <4>10
      <4>12. HasAt(G(g), i, 1, x)
        BY <1>13, <4>9, <4>11
      <4> QED
        BY <1>8, <4>9, <4>12
    <3>2. ASSUME NEW s \in Groups(loads, k), NEW i, NEW p, HasAt(s, i, p, x) PROVE x \in 1..n
      <4>1. PICK g \in 0..m - 1 : s = G(g)
        BY <1>8
      <4>2. i \in 1..k /\ x = order[n + 1 - (g * k + i)]
        BY <1>13, <3>2, <4>1
      <4>3. g * k + i \in 1..n
        BY <1>11, <4>2
      <4> QED
        BY <1>5, <1>9, <4>2, <4>3
    <3> QED
      BY <3>1, <3>2
  <2>2. ASSUME NEW s \in Groups(loads, k), NEW t \in Groups(loads, k), NEW i, NEW j, NEW p, NEW q, NEW x,
               HasAt(s, i, p, x), HasAt(t, j, q, x)
        PROVE  s = t /\ i = j /\ p = q
    <3>1. PICK g \in 0..m - 1 : s = G(g)
      BY <1>8
    <3>2. PICK h \in 0..m - 1 : t = G(h)
      BY <1>8
    <3>3. i \in 1..k /\ p = 1 /\ x = order[n + 1 - (g * k + i)]
      BY <1>13, <2>2, <3>1
    <3>4. j \in 1..k /\ q = 1 /\ x = order[n + 1 - (h * k + j)]
      BY <1>13, <2>2, <3>2
    <3>5. PICK a \in 1..n : a = g * k + i
      BY <1>11, <3>3
    <3>6. PICK b \in 1..n : b = h * k + j
      BY <1>11, <3>4
    <3>7. n + 1 - a = n + 1 - b
      <4>1. n + 1 - a \in 1..n /\ n + 1 - b \in 1..n
        BY <1>9
      <4>2. order[n + 1 - a] = x /\ order[n + 1 - b] = x
        BY <3>3, <3>4, <3>5, <3>6
      <4> QED
        BY <1>5, <4>1, <4>2
    <3>8. a = b
      BY <3>7
    <3>9. g \in Nat /\ h \in Nat /\ g * k + i = h * k + j
      BY <3>5, <3>6, <3>8
    <3>10. i \in 1..k /\ j \in 1..k
      BY <3>3, <3>4
    <3>11. g = h /\ i = j
      BY <3>9, <3>10, SameGroup
    <3> QED
      BY <3>1, <3>2, <3>3, <3>4, <3>11
  <2> QED
    BY <2>1, <2>2, HoldsIs
<1>15. IsFiniteSet(Groups(loads, k)) /\ Groups(loads, k) # {}
  <2>1. PICK f : f = [g \in 0..m - 1 |-> G(g)]
    OBVIOUS
  <2>2. f \in Surjection(0..m - 1, Groups(loads, k))
    BY <1>8, <2>1 DEF Surjection
  <2>3. IsFiniteSet(0..m - 1)
    <3>1. 0 \in Int /\ m - 1 \in Int
      OBVIOUS
    <3> QED
      BY <3>1, FS_Interval
  <2>4. G(0) \in Groups(loads, k)
    BY <1>8
  <2> QED
    BY <2>2, <2>3, <2>4, FS_Surjection
<1> QED
  BY <1>8, <1>12, <1>14, <1>15 DEF Heap

-----------------------------------------------------------------------------
\* Workloads and counts.

\* A finite set of integers has a largest and a smallest member.
LEMMA Extremes ==
  ASSUME NEW S \in SUBSET Int, IsFiniteSet(S), S # {}
  PROVE  /\ Max(S) \in S /\ \A x \in S : Max(S) >= x
         /\ Min(S) \in S /\ \A x \in S : Min(S) <= x
<1>1. PICK key : key = [x \in S |-> x]
  OBVIOUS
<1>2. \A x \in S : x \in Int /\ key[x] \in Int
  BY <1>1
<1>3. PICK up : up = Ascending(key, S)
  OBVIOUS
<1>4. PICK c \in Nat : c = Cardinality(S)
  BY <1>2, AscendingIs
<1>5. Lists(up, S) /\ \A i, j \in 1..c : i < j => key[up[i]] <= key[up[j]]
  BY <1>2, <1>3, <1>4, AscendingIs
<1>6. up \in [1..c -> S] /\ \A x \in S : \E i \in 1..c : up[i] = x
  BY <1>4, <1>5 DEF Lists
<1>7. 1 \in 1..c /\ c \in 1..c
  <2>1. PICK x \in S : TRUE
    OBVIOUS
  <2>2. PICK i \in 1..c : up[i] = x
    BY <1>6
  <2> QED
    BY <2>2
<1>8. \A i, j \in 1..c : i <= j => up[i] <= up[j]
  <2> TAKE i \in 1..c, j \in 1..c
  <2> HAVE i <= j
  <2>1. up[i] \in S /\ up[j] \in S
    BY <1>6
  <2>2. CASE i = j
    <3>1. up[i] \in Int /\ up[j] = up[i]
      BY <2>1, <2>2
    <3> QED
      BY <3>1
  <2>3. CASE i < j
    <3>1. key[up[i]] <= key[up[j]]
      BY <1>5, <2>3
    <3>2. key[up[i]] = up[i] /\ key[up[j]] = up[j]
      BY <1>1, <2>1
    <3> QED
      BY <3>1, <3>2
  <2> QED
    BY <2>2, <2>3
<1>9. up[c] \in S /\ \A x \in S : up[c] >= x
  <2>1. ASSUME NEW x \in S PROVE up[c] >= x
    <3>1. PICK i \in 1..c : up[i] = x
      BY <1>6
    <3>2. up[i] <= up[c] /\ up[c] \in S
      BY <1>6, <1>7, <1>8
    <3> QED
      BY <3>1, <3>2
  <2> QED
    BY <1>6, <1>7, <2>1
<1>10. up[1] \in S /\ \A x \in S : up[1] <= x
  <2>1. ASSUME NEW x \in S PROVE up[1] <= x
    <3>1. PICK i \in 1..c : up[i] = x
      BY <1>6
    <3>2. up[1] <= up[i] /\ up[1] \in S
      BY <1>6, <1>7, <1>8
    <3> QED
      BY <3>1, <3>2
  <2> QED
    BY <1>6, <1>7, <2>1
<1> QED
  BY <1>9, <1>10 DEF Max, Min

\* The largest and the smallest of finitely many numbers.
LEMMA SequenceExtremes ==
  ASSUME NEW n \in Nat \ {0}, NEW f \in [1..n -> Int]
  PROVE  /\ Max(ToSet(f)) \in Int /\ Min(ToSet(f)) \in Int
         /\ \A i \in 1..n : Min(ToSet(f)) <= f[i] /\ f[i] <= Max(ToSet(f))
<1>1. ToSet(f) = {f[i] : i \in 1..n}
  BY DEF ToSet
<1>2. PICK S : S = ToSet(f)
  OBVIOUS
<1>3. S \in SUBSET Int /\ \A i \in 1..n : f[i] \in S
  BY <1>1, <1>2
<1>4. S # {}
  <2>1. f[1] \in S
    BY <1>3
  <2> QED
    BY <2>1
<1>5. IsFiniteSet(S)
  <2>1. f \in Surjection(1..n, S)
    BY <1>1, <1>2 DEF Surjection
  <2>2. IsFiniteSet(1..n)
    BY FS_Interval
  <2> QED
    BY <2>1, <2>2, FS_Surjection
<1>6. /\ Max(S) \in S /\ \A x \in S : Max(S) >= x
      /\ Min(S) \in S /\ \A x \in S : Min(S) <= x
  BY <1>3, <1>4, <1>5, Extremes
<1>7. ASSUME NEW i \in 1..n PROVE Min(S) <= f[i] /\ f[i] <= Max(S)
  <2>1. f[i] \in S /\ f[i] \in Int /\ Max(S) \in Int
    BY <1>3, <1>6
  <2> QED
    BY <1>6, <2>1
<1> QED
  BY <1>2, <1>3, <1>6, <1>7

\* A row with a token has a workload.
LEMMA WorkloadIs ==
  ASSUME NEW len \in Nat \ {0}
  PROVE  Workload(len) \in Nat \ {0}
<1>1. PICK q \in Nat : q = len * len
  <2>1. len * len \in Nat
    OBVIOUS
  <2> QED
    BY <2>1
<1> QED
  BY <1>1 DEF Workload

\* The lengths of the rows of a batch.
Lengths(l, n) == \A r \in 1..n : l[r] \in Nat \ {0}

\* The workloads of some rows.
LEMMA LoadsAre ==
  ASSUME NEW n \in Nat, Lengths(lens, n), NEW samples \in Seq(1..n), NEW c, c = Len(samples)
  PROVE  Loads(samples) \in [1..c -> Nat \ {0}]
<1>1. DOMAIN samples = 1..c /\ samples \in [1..c -> 1..n]
  BY SeqIsFunction
<1>2. ASSUME NEW i \in 1..c PROVE Workload(lens[samples[i]]) \in Nat \ {0}
  <2>1. samples[i] \in 1..n
    BY <1>1
  <2>2. PICK x \in Nat \ {0} : x = lens[samples[i]]
    BY <2>1 DEF Lengths
  <2>3. Workload(x) \in Nat \ {0}
    BY WorkloadIs
  <2> QED
    BY <2>2, <2>3
<1> QED
  BY <1>1, <1>2 DEF Loads

\* A sample has at least one token.
LEMMA TokensAre ==
  ASSUME NEW n \in Nat, Lengths(lens, n), NEW samples \in Seq(1..n)
  PROVE  Tokens(samples) \in Nat /\ Tokens(samples) >= Len(samples)
<1>1. PICK c \in Nat : c = Len(samples)
  OBVIOUS
<1>2. samples \in [1..c -> 1..n]
  BY <1>1, SeqIsFunction
<1>3. PICK d : d = [i \in 1..c |-> lens[samples[i]]]
  OBVIOUS
<1>4. \A i \in 1..c : d[i] = lens[samples[i]] /\ d[i] \in Nat \ {0}
  BY <1>2, <1>3 DEF Lengths
<1>5. d \in [1..c -> Nat]
  BY <1>3, <1>4
<1>6. PICK t : Totals(t, d, c)
  BY <1>5, TotalsExist
<1>7. t \in [0..c -> Nat] /\ t[0] = 0 /\ \A i \in 1..c : t[i] = t[i - 1] + d[i]
  BY <1>6 DEF Totals
<1> DEFINE P(f) == f = [i \in 0..c |-> IF i = 0 THEN 0 ELSE f[i - 1] + lens[samples[i]]]
           sum == CHOOSE f : P(f)
<1>8. P(t)
  <2>1. \A i \in 0..c : t[i] = IF i = 0 THEN 0 ELSE t[i - 1] + lens[samples[i]]
    BY <1>4, <1>7
  <2>2. t = [i \in 0..c |-> t[i]]
    BY <1>7
  <2> QED
    BY <2>1, <2>2
<1>9. P(sum)
  BY <1>8
<1>10. Tokens(samples) = sum[c]
  BY <1>1 DEF Tokens
<1> HIDE DEF sum
<1>11. sum[0] = 0 /\ \A i \in 1..c : sum[i] = sum[i - 1] + d[i]
  <2>1. \A i \in 0..c : sum[i] = IF i = 0 THEN 0 ELSE sum[i - 1] + lens[samples[i]]
    BY <1>9
  <2> QED
    BY <1>4, <2>1
<1> DEFINE T == {i \in Nat : i <= c => sum[i] \in Nat /\ sum[i] >= i}
<1>12. 0 \in T
  BY <1>11
<1>13. \A i \in Nat : i \in T => i + 1 \in T
  <2> SUFFICES ASSUME NEW i \in Nat, i \in T, i + 1 <= c PROVE sum[i + 1] \in Nat /\ sum[i + 1] >= i + 1
    OBVIOUS
  <2>1. sum[i] \in Nat /\ sum[i] >= i
    OBVIOUS
  <2>2. sum[i + 1] = sum[i] + d[i + 1] /\ d[i + 1] \in Nat \ {0}
    <3>1. i + 1 \in 1..c /\ (i + 1) - 1 = i
      OBVIOUS
    <3> QED
      BY <1>4, <1>11, <3>1
  <2> QED
    BY <2>1, <2>2
<1> HIDE DEF T
<1>14. c \in T
  BY <1>12, <1>13, NatInd
<1> QED
  BY <1>1, <1>10, <1>14 DEF T

\* A worker asks for at least one micro-batch, and for no more than it has rows.
LEMMA CountIs ==
  ASSUME NEW len \in Nat \ {0}, NEW tokens \in Nat \ {0}, NEW most \in Nat \ {0}
  PROVE  Min({len, CeilDiv(tokens, most)}) \in 1..len
<1>1. CeilDiv(tokens, most) \in Nat \ {0}
  <2>1. PICK a \in Nat : a = tokens + most - 1
    OBVIOUS
  <2>2. PICK q \in Nat : q = a \div most
    BY Euclid
  <2>3. PICK r \in 0..most - 1 : r = a % most
    BY Euclid
  <2>4. a = q * most + r
    BY <2>2, <2>3, Euclid
  <2>5. q # 0
    <3> SUFFICES ASSUME q = 0 PROVE FALSE
      OBVIOUS
    <3>1. a = r
      BY <2>4
    <3> QED
      BY <2>1, <3>1
  <2> QED
    BY <2>1, <2>2, <2>5 DEF CeilDiv
<1>2. PICK c \in Nat \ {0} : c = CeilDiv(tokens, most)
  BY <1>1
<1>3. PICK S : S = {len, c}
  OBVIOUS
<1>4. S \in SUBSET Int /\ S # {} /\ IsFiniteSet(S)
  <2>1. IsFiniteSet({len} \cup {c})
    <3>1. IsFiniteSet({len})
      BY FS_Singleton
    <3> QED
      BY <3>1, FS_AddElement
  <2>2. S = {len} \cup {c}
    BY <1>3
  <2> QED
    BY <1>3, <2>1, <2>2
<1>5. Min(S) \in S /\ \A x \in S : Min(S) <= x
  BY <1>4, Extremes
<1>6. Min(S) \in 1..len
  BY <1>3, <1>5
<1> QED
  BY <1>2, <1>3, <1>6

-----------------------------------------------------------------------------
\* Orders of a batch.

\* q has every member of S at one place.
OnceEach(q, S) ==
  /\ q \in Seq(S)
  /\ \A i, j \in 1..Len(q) : q[i] = q[j] => i = j
  /\ \A x \in S : \E i \in 1..Len(q) : q[i] = x

\* A sequence with every member of S at one place is as long as S.
LEMMA OnceLength ==
  ASSUME NEW q, NEW S, OnceEach(q, S)
  PROVE  IsFiniteSet(S) /\ Cardinality(S) = Len(q)
<1>1. PICK n \in Nat : n = Len(q)
  BY DEF OnceEach
<1>2. q \in [1..n -> S]
  BY <1>1, SeqIsFunction DEF OnceEach
<1>3. q \in Bijection(1..n, S)
  BY <1>1, <1>2 DEF OnceEach, Bijection, Injection, Surjection, IsInjective
<1>4. ExistsBijection(1..n, S)
  BY <1>3 DEF ExistsBijection
<1>5. IsFiniteSet(1..n) /\ Cardinality(1..n) = n
  BY FS_Interval
<1>6. PICK T : T = 1..n
  OBVIOUS
<1>7. IsFiniteSet(T) /\ ExistsBijection(T, S) /\ Cardinality(T) = n
  BY <1>4, <1>5, <1>6
<1>8. IsFiniteSet(S) /\ Cardinality(S) = Cardinality(T)
  BY <1>7, FS_Bijection
<1> QED
  BY <1>1, <1>7, <1>8

\* A list of S has every member at one place.
LEMMA ListsOnce ==
  ASSUME NEW f, NEW S, Cardinality(S) \in Nat, Lists(f, S)
  PROVE  OnceEach(f, S) /\ Len(f) = Cardinality(S)
<1>1. PICK n \in Nat : n = Cardinality(S)
  OBVIOUS
<1>2. f \in [1..n -> S]
  BY <1>1 DEF Lists
<1>3. f \in Seq(S) /\ Len(f) = n
  BY <1>2, FunctionIsSeq
<1> QED
  BY <1>1, <1>3 DEF OnceEach, Lists

\* So has every permutation of it.
LEMMA Reindexed ==
  ASSUME NEW q, NEW S, OnceEach(q, S), NEW n, n = Len(q), NEW g, Permutes(g, n),
         NEW r, r = [i \in 1..n |-> q[g[i]]]
  PROVE  OnceEach(r, S) /\ Len(r) = n
<1>1. n \in Nat /\ q \in [1..n -> S]
  BY SeqIsFunction DEF OnceEach
<1>2. \A i \in 1..n : g[i] \in 1..n /\ r[i] = q[g[i]]
  BY DEF Permutes
<1>3. r \in [1..n -> S]
  BY <1>1, <1>2
<1>4. r \in Seq(S) /\ Len(r) = n
  BY <1>1, <1>3, FunctionIsSeq
<1>5. \A i, j \in 1..n : r[i] = r[j] => i = j
  <2> TAKE i \in 1..n, j \in 1..n
  <2> HAVE r[i] = r[j]
  <2>1. q[g[i]] = q[g[j]]
    BY <1>2
  <2>2. g[i] = g[j]
    BY <1>2, <2>1 DEF OnceEach
  <2> QED
    BY <2>2 DEF Permutes
<1>6. \A x \in S : \E i \in 1..n : r[i] = x
  <2> TAKE x \in S
  <2>1. PICK j \in 1..n : q[j] = x
    BY DEF OnceEach
  <2>2. PICK i \in 1..n : g[i] = j
    BY DEF Permutes
  <2> QED
    BY <1>2, <2>1, <2>2
<1> QED
  BY <1>4, <1>5, <1>6 DEF OnceEach

\* e and o are the h members of q at odd places and the l members at even places.
Halves(q, e, o, n, h, l, S) ==
  /\ h + l = n /\ l <= h
  /\ e \in Seq(S) /\ Len(e) = h /\ \A i \in 1..h : 2 * i - 1 \in 1..n /\ e[i] = q[2 * i - 1]
  /\ o \in Seq(S) /\ Len(o) = l /\ \A i \in 1..l : 2 * i \in 1..n /\ o[i] = q[2 * i]

\* s[::2] and s[1::2] split a sequence.
LEMMA EvensOddsAre ==
  ASSUME NEW S, NEW q \in Seq(S), NEW n \in Nat, n = Len(q), NEW h \in Nat, NEW l \in Nat,
         h = (n + 1) \div 2, l = n \div 2
  PROVE  Halves(q, Evens(q), Odds(q), n, h, l, S)
<1>1. n \in Nat /\ q \in [1..n -> S]
  BY SeqIsFunction
<1>2. h + l = n /\ l <= h
  BY <1>1
<1>3. \A i \in 1..h : 2 * i - 1 \in 1..n
  BY <1>1
<1>4. \A i \in 1..l : 2 * i \in 1..n
  BY <1>1
<1>5. Evens(q) = [i \in 1..h |-> q[2 * i - 1]]
  BY DEF Evens
<1>6. Odds(q) = [i \in 1..l |-> q[2 * i]]
  BY DEF Odds
<1>7. Evens(q) \in [1..h -> S]
  BY <1>1, <1>3, <1>5
<1>8. Odds(q) \in [1..l -> S]
  BY <1>1, <1>4, <1>6
<1>9. Evens(q) \in Seq(S) /\ Len(Evens(q)) = h
  BY <1>7, FunctionIsSeq
<1>10. Odds(q) \in Seq(S) /\ Len(Odds(q)) = l
  BY <1>8, FunctionIsSeq
<1> QED
  BY <1>1, <1>2, <1>3, <1>4, <1>5, <1>6, <1>9, <1>10 DEF Halves

\* r is q read backwards.
Backwards(r, q, n, S) ==
  /\ r \in Seq(S) /\ Len(r) = n
  /\ \A i \in 1..n : n - i + 1 \in 1..n /\ r[i] = q[n - i + 1]

\* Reverse reads a sequence backwards.
LEMMA ReverseIs ==
  ASSUME NEW S, NEW q \in Seq(S), NEW n, n = Len(q)
  PROVE  Backwards(Reverse(q), q, n, S)
<1>1. n \in Nat /\ q \in [1..n -> S]
  BY SeqIsFunction
<1>2. Reverse(q) = [i \in 1..n |-> q[(n - i) + 1]]
  BY DEF Reverse
<1>3. \A i \in 1..n : n - i + 1 \in 1..n
  BY <1>1
<1>4. Reverse(q) \in [1..n -> S]
  BY <1>1, <1>2, <1>3
<1>5. Reverse(q) \in Seq(S) /\ Len(Reverse(q)) = n
  BY <1>1, <1>4, FunctionIsSeq
<1> QED
  BY <1>1, <1>2, <1>3, <1>5 DEF Backwards

\* r is a followed by b.
Concatenates(r, a, b, m, l, S) ==
  /\ r \in Seq(S) /\ Len(r) = m + l /\ r \in [1..m + l -> S]
  /\ \A i \in 1..m + l : r[i] = IF i <= m THEN a[i] ELSE b[i - m]

\* The members of a concatenation of two sequences.
LEMMA ConcatIs ==
  ASSUME NEW S, NEW a \in Seq(S), NEW b \in Seq(S), NEW m, m = Len(a), NEW l, l = Len(b)
  PROVE  Concatenates(a \o b, a, b, m, l, S)
<1>1. m \in Nat /\ l \in Nat /\ a \o b \in Seq(S) /\ Len(a \o b) = m + l
  OBVIOUS
<1>2. \A i \in 1..m + l : (a \o b)[i] = IF i <= m THEN a[i] ELSE b[i - m]
  OBVIOUS
<1>3. a \o b \in [1..m + l -> S]
  BY <1>1, SeqIsFunction
<1> QED
  BY <1>1, <1>2, <1>3 DEF Concatenates

\* The short samples at both ends.
LEMMA EndsOnce ==
  ASSUME NEW q, NEW S, OnceEach(q, S)
  PROVE  OnceEach(Evens(q) \o Reverse(Odds(q)), S) /\ Len(Evens(q) \o Reverse(Odds(q))) = Len(q)
<1>1. PICK n \in Nat : n = Len(q)
  BY DEF OnceEach
<1>2. q \in Seq(S)
  BY DEF OnceEach
<1>3. PICK h \in Nat : h = (n + 1) \div 2
  OBVIOUS
<1>4. PICK l \in Nat : l = n \div 2
  OBVIOUS
<1>5. /\ h + l = n /\ l <= h
      /\ Evens(q) \in Seq(S) /\ Len(Evens(q)) = h /\ \A i \in 1..h : 2 * i - 1 \in 1..n /\ Evens(q)[i] = q[2 * i - 1]
      /\ Odds(q) \in Seq(S) /\ Len(Odds(q)) = l /\ \A i \in 1..l : 2 * i \in 1..n /\ Odds(q)[i] = q[2 * i]
  <2>1. Halves(q, Evens(q), Odds(q), n, h, l, S)
    BY <1>1, <1>2, <1>3, <1>4, EvensOddsAre
  <2> QED
    BY <2>1 DEF Halves
<1>6. PICK u : u = Odds(q)
  OBVIOUS
<1>7. /\ Reverse(u) \in Seq(S) /\ Len(Reverse(u)) = l
      /\ \A i \in 1..l : l - i + 1 \in 1..l /\ Reverse(u)[i] = u[l - i + 1]
  <2>1. u \in Seq(S) /\ l = Len(u)
    BY <1>5, <1>6
  <2>2. Backwards(Reverse(u), u, l, S)
    BY <2>1, ReverseIs
  <2> QED
    BY <2>2 DEF Backwards
<1>8. PICK r : r = Evens(q) \o Reverse(u)
  OBVIOUS
<1>9. /\ r \in [1..n -> S] /\ Len(r) = n
      /\ \A i \in 1..n : r[i] = IF i <= h THEN Evens(q)[i] ELSE Reverse(u)[i - h]
  <2>1. Concatenates(r, Evens(q), Reverse(u), h, l, S)
    BY <1>5, <1>7, <1>8, ConcatIs
  <2> QED
    BY <1>5, <2>1 DEF Concatenates
<1>10. PICK g : g = [i \in 1..n |-> IF i <= h THEN 2 * i - 1 ELSE 2 * (l - (i - h) + 1)]
  OBVIOUS
<1>11. \A i \in 1..n : g[i] = IF i <= h THEN 2 * i - 1 ELSE 2 * (l - (i - h) + 1)
  BY <1>10
<1>12. ASSUME NEW i \in 1..n PROVE g[i] \in 1..n /\ r[i] = q[g[i]]
  <2>1. CASE i <= h
    <3>1. i \in 1..h
      BY <2>1
    <3>2. 2 * i - 1 \in 1..n /\ Evens(q)[i] = q[2 * i - 1]
      BY <1>5, <3>1
    <3>3. r[i] = Evens(q)[i]
      BY <1>9, <2>1
    <3>4. g[i] = 2 * i - 1
      BY <1>11, <2>1
    <3> QED
      BY <3>2, <3>3, <3>4
  <2>2. CASE ~(i <= h)
    <3>1. PICK j \in 1..l : j = i - h
      BY <1>5, <2>2
    <3>2. PICK p \in 1..l : p = l - j + 1
      OBVIOUS
    <3>3. r[i] = u[p]
      BY <1>7, <1>9, <2>2, <3>1, <3>2
    <3>4. r[i] = q[2 * p] /\ 2 * p \in 1..n
      BY <1>5, <1>6, <3>3
    <3>5. g[i] = 2 * p
      BY <1>11, <2>2, <3>1, <3>2
    <3> QED
      BY <3>4, <3>5
  <2> QED
    BY <2>1, <2>2
<1>13. \A i, j \in 1..n : g[i] = g[j] => i = j
  BY <1>5, <1>11
<1>14. ASSUME NEW y \in 1..n PROVE \E i \in 1..n : g[i] = y
  <2>1. PICK p \in Nat : y = 2 * p \/ y = 2 * p - 1
    <3>1. (y + 1) \div 2 \in Nat /\ (y = 2 * ((y + 1) \div 2) \/ y = 2 * ((y + 1) \div 2) - 1)
      OBVIOUS
    <3> QED
      BY <3>1
  <2>2. CASE y = 2 * p - 1
    <3>1. 2 * h = n \/ 2 * h = n + 1
      BY <1>3
    <3>2. p \in 1..h /\ p \in 1..n
      BY <1>5, <2>2, <3>1
    <3> QED
      BY <1>11, <2>2, <3>2
  <2>3. CASE y = 2 * p
    <3>1. p \in 1..l
      BY <1>4, <2>3
    <3>2. PICK i \in 1..n : i = h + (l - p + 1)
      BY <1>5, <3>1
    <3>3. ~(i <= h) /\ l - (i - h) + 1 = p
      BY <3>1, <3>2
    <3> QED
      BY <1>11, <2>3, <3>2, <3>3
  <2> QED
    BY <2>1, <2>2, <2>3
<1>15. Permutes(g, n)
  <2>1. g \in [1..n -> 1..n]
    BY <1>10, <1>12
  <2> QED
    BY <1>13, <1>14, <2>1 DEF Permutes
<1>16. r = [i \in 1..n |-> q[g[i]]]
  BY <1>9, <1>12
<1>17. OnceEach(r, S)
  BY <1>1, <1>15, <1>16, Reindexed
<1> QED
  BY <1>1, <1>6, <1>8, <1>9, <1>17

\* The heavy parts in the middle.
LEMMA MiddleOnce ==
  ASSUME NEW q, NEW S, OnceEach(q, S)
  PROVE  OnceEach(Reverse(Evens(q)) \o Odds(q), S) /\ Len(Reverse(Evens(q)) \o Odds(q)) = Len(q)
<1>1. PICK n \in Nat : n = Len(q)
  BY DEF OnceEach
<1>2. q \in Seq(S)
  BY DEF OnceEach
<1>3. PICK h \in Nat : h = (n + 1) \div 2
  OBVIOUS
<1>4. PICK l \in Nat : l = n \div 2
  OBVIOUS
<1>5. /\ h + l = n /\ l <= h
      /\ Evens(q) \in Seq(S) /\ Len(Evens(q)) = h /\ \A i \in 1..h : 2 * i - 1 \in 1..n /\ Evens(q)[i] = q[2 * i - 1]
      /\ Odds(q) \in Seq(S) /\ Len(Odds(q)) = l /\ \A i \in 1..l : 2 * i \in 1..n /\ Odds(q)[i] = q[2 * i]
  <2>1. Halves(q, Evens(q), Odds(q), n, h, l, S)
    BY <1>1, <1>2, <1>3, <1>4, EvensOddsAre
  <2> QED
    BY <2>1 DEF Halves
<1>6. PICK u : u = Evens(q)
  OBVIOUS
<1>7. /\ Reverse(u) \in Seq(S) /\ Len(Reverse(u)) = h
      /\ \A i \in 1..h : h - i + 1 \in 1..h /\ Reverse(u)[i] = u[h - i + 1]
  <2>1. u \in Seq(S) /\ h = Len(u)
    BY <1>5, <1>6
  <2>2. Backwards(Reverse(u), u, h, S)
    BY <2>1, ReverseIs
  <2> QED
    BY <2>2 DEF Backwards
<1>8. PICK r : r = Reverse(u) \o Odds(q)
  OBVIOUS
<1>9. /\ r \in [1..n -> S] /\ Len(r) = n
      /\ \A i \in 1..n : r[i] = IF i <= h THEN Reverse(u)[i] ELSE Odds(q)[i - h]
  <2>1. Concatenates(r, Reverse(u), Odds(q), h, l, S)
    BY <1>5, <1>7, <1>8, ConcatIs
  <2> QED
    BY <1>5, <2>1 DEF Concatenates
<1>10. PICK g : g = [i \in 1..n |-> IF i <= h THEN 2 * (h - i + 1) - 1 ELSE 2 * (i - h)]
  OBVIOUS
<1>11. \A i \in 1..n : g[i] = IF i <= h THEN 2 * (h - i + 1) - 1 ELSE 2 * (i - h)
  BY <1>10
<1>12. ASSUME NEW i \in 1..n PROVE g[i] \in 1..n /\ r[i] = q[g[i]]
  <2>1. CASE i <= h
    <3>1. PICK p \in 1..h : p = h - i + 1
      BY <2>1
    <3>2. r[i] = u[p]
      BY <1>7, <1>9, <2>1, <3>1
    <3>3. r[i] = q[2 * p - 1] /\ 2 * p - 1 \in 1..n
      BY <1>5, <1>6, <3>2
    <3>4. g[i] = 2 * p - 1
      BY <1>11, <2>1, <3>1
    <3> QED
      BY <3>3, <3>4
  <2>2. CASE ~(i <= h)
    <3>1. PICK p \in 1..l : p = i - h
      BY <1>5, <2>2
    <3>2. r[i] = q[2 * p] /\ 2 * p \in 1..n
      BY <1>5, <1>9, <2>2, <3>1
    <3>3. g[i] = 2 * p
      BY <1>11, <2>2, <3>1
    <3> QED
      BY <3>2, <3>3
  <2> QED
    BY <2>1, <2>2
<1>13. \A i, j \in 1..n : g[i] = g[j] => i = j
  <2> TAKE i \in 1..n, j \in 1..n
  <2> HAVE g[i] = g[j]
  <2>1. CASE i <= h /\ j <= h
    BY <1>11, <2>1
  <2>2. CASE i <= h /\ ~(j <= h)
    <3>1. PICK a \in Int : a = h - i + 1
      OBVIOUS
    <3>2. PICK b \in Int : b = j - h
      OBVIOUS
    <3>3. g[i] = 2 * a - 1 /\ g[j] = 2 * b
      BY <1>11, <2>2, <3>1, <3>2
    <3>4. 2 * a - 1 = 2 * b
      BY <3>3
    <3> QED
      BY <3>4
  <2>3. CASE ~(i <= h) /\ j <= h
    <3>1. PICK a \in Int : a = h - j + 1
      OBVIOUS
    <3>2. PICK b \in Int : b = i - h
      OBVIOUS
    <3>3. g[j] = 2 * a - 1 /\ g[i] = 2 * b
      BY <1>11, <2>3, <3>1, <3>2
    <3>4. 2 * a - 1 = 2 * b
      BY <3>3
    <3> QED
      BY <3>4
  <2>4. CASE ~(i <= h) /\ ~(j <= h)
    BY <1>11, <2>4
  <2> QED
    BY <2>1, <2>2, <2>3, <2>4
<1>14. ASSUME NEW y \in 1..n PROVE \E i \in 1..n : g[i] = y
  <2>1. PICK p \in Nat : y = 2 * p \/ y = 2 * p - 1
    <3>1. (y + 1) \div 2 \in Nat /\ (y = 2 * ((y + 1) \div 2) \/ y = 2 * ((y + 1) \div 2) - 1)
      OBVIOUS
    <3> QED
      BY <3>1
  <2>2. CASE y = 2 * p - 1
    <3>1. p \in 1..h
      BY <1>3, <2>2
    <3>2. PICK i \in 1..n : i = h - p + 1
      BY <1>5, <3>1
    <3>3. i <= h /\ h - i + 1 = p
      BY <3>1, <3>2
    <3> QED
      BY <1>11, <2>2, <3>2, <3>3
  <2>3. CASE y = 2 * p
    <3>1. p \in 1..l
      BY <1>4, <2>3
    <3>2. PICK i \in 1..n : i = h + p
      BY <1>5, <3>1
    <3>3. ~(i <= h) /\ i - h = p
      BY <3>1, <3>2
    <3> QED
      BY <1>11, <2>3, <3>2, <3>3
  <2> QED
    BY <2>1, <2>2, <2>3
<1>15. Permutes(g, n)
  <2>1. g \in [1..n -> 1..n]
    BY <1>10, <1>12
  <2> QED
    BY <1>13, <1>14, <2>1 DEF Permutes
<1>16. r = [i \in 1..n |-> q[g[i]]]
  BY <1>9, <1>12
<1>17. OnceEach(r, S)
  BY <1>1, <1>15, <1>16, Reindexed
<1> QED
  BY <1>1, <1>6, <1>8, <1>9, <1>17

\* The k sequences s have every member of S at one place.
Spots(s, k, S) ==
  /\ s \in [1..k -> Seq(S)]
  /\ \A i, j \in 1..k : \A p \in 1..Len(s[i]), q \in 1..Len(s[j]) : s[i][p] = s[j][q] => i = j /\ p = q
  /\ \A x \in S : \E i \in 1..k : \E p \in 1..Len(s[i]) : s[i][p] = x

\* Concatenating sequences that have every member of S at one place gives one that has.
LEMMA FlattenOnce ==
  ASSUME NEW k \in Nat, NEW S, NEW s, Spots(s, k, S)
  PROVE  OnceEach(FlattenSeq(s), S)
<1>1. s \in [1..k -> Seq(S)]
  BY DEF Spots
<1>2. s \in Seq(Seq(S)) /\ Len(s) = k
  BY <1>1, FunctionIsSeq
<1>3. /\ FlattenSeq(s) \in Seq(S) /\ \E t : Starts(t, s)
      /\ \A t : Starts(t, s) => Lays(FlattenSeq(s), s, t, Len(s))
  BY <1>2, FlattenLays
<1>4. PICK t : Starts(t, s)
  BY <1>3
<1>5. PICK q : q = FlattenSeq(s)
  OBVIOUS
<1>6. PICK n : n = t[k]
  OBVIOUS
<1>7. /\ Len(q) = n
      /\ \A i \in 1..k : \A p \in 1..Len(s[i]) : t[i - 1] + p \in 1..n /\ q[t[i - 1] + p] = s[i][p]
      /\ \A m \in 1..n : \E i \in 1..k : \E p \in 1..Len(s[i]) : m = t[i - 1] + p
  <2>1. Lays(q, s, t, k)
    BY <1>2, <1>3, <1>4, <1>5
  <2> QED
    BY <1>6, <2>1 DEF Lays
<1>8. ASSUME NEW a \in 1..n, NEW b \in 1..n, q[a] = q[b] PROVE a = b
  <2>1. PICK i \in 1..k : \E p \in 1..Len(s[i]) : a = t[i - 1] + p
    BY <1>7
  <2>2. PICK p \in 1..Len(s[i]) : a = t[i - 1] + p
    BY <2>1
  <2>3. PICK j \in 1..k : \E r \in 1..Len(s[j]) : b = t[j - 1] + r
    BY <1>7
  <2>4. PICK r \in 1..Len(s[j]) : b = t[j - 1] + r
    BY <2>3
  <2>5. s[i][p] = s[j][r]
    BY <1>7, <1>8, <2>2, <2>4
  <2>6. i = j /\ p = r
    BY <2>5 DEF Spots
  <2> QED
    BY <2>2, <2>4, <2>6
<1>9. ASSUME NEW x \in S PROVE \E a \in 1..n : q[a] = x
  <2>1. PICK i \in 1..k : \E p \in 1..Len(s[i]) : s[i][p] = x
    BY DEF Spots
  <2>2. PICK p \in 1..Len(s[i]) : s[i][p] = x
    BY <2>1
  <2>3. t[i - 1] + p \in 1..n /\ q[t[i - 1] + p] = x
    BY <1>7, <2>2
  <2> QED
    BY <2>3
<1> QED
  BY <1>3, <1>5, <1>7, <1>8, <1>9 DEF OnceEach

\* P cuts S into k parts.
Cuts(P, k, S) ==
  /\ \A i \in 1..k : P[i] \subseteq S
  /\ \A i, j \in 1..k : \A x : x \in P[i] /\ x \in P[j] => i = j
  /\ \A x \in S : \E i \in 1..k : x \in P[i]

\* Sequences of the parts of S have every member of S at one place.
LEMMA PartsOnce ==
  ASSUME NEW k \in Nat, NEW S, NEW P, Cuts(P, k, S), NEW s, DOMAIN s = 1..k, s = [i \in 1..k |-> s[i]],
         \A i \in 1..k : OnceEach(s[i], P[i])
  PROVE  Spots(s, k, S)
<1>1. \A i \in 1..k : s[i] \in Seq(P[i]) /\ Len(s[i]) \in Nat /\ \A p \in 1..Len(s[i]) : s[i][p] \in P[i]
  BY DEF OnceEach
<1>2. \A i \in 1..k : s[i] \in Seq(S)
  <2> TAKE i \in 1..k
  <2>1. PICK n \in Nat : n = Len(s[i])
    BY <1>1
  <2>2. s[i] \in [1..n -> P[i]]
    BY <1>1, <2>1, SeqIsFunction
  <2>3. s[i] \in [1..n -> S]
    BY <2>2 DEF Cuts
  <2> QED
    BY <2>3, FunctionIsSeq
<1>3. s \in [1..k -> Seq(S)]
  BY <1>2
<1>4. ASSUME NEW i \in 1..k, NEW j \in 1..k, NEW p \in 1..Len(s[i]), NEW q \in 1..Len(s[j]), s[i][p] = s[j][q]
      PROVE  i = j /\ p = q
  <2>1. i = j
    BY <1>1, <1>4 DEF Cuts
  <2> QED
    BY <1>4, <2>1 DEF OnceEach
<1>5. ASSUME NEW x \in S PROVE \E i \in 1..k : \E p \in 1..Len(s[i]) : s[i][p] = x
  <2>1. PICK i \in 1..k : x \in P[i]
    BY DEF Cuts
  <2>2. PICK p \in 1..Len(s[i]) : s[i][p] = x
    BY <2>1 DEF OnceEach
  <2> QED
    BY <2>2
<1> QED
  BY <1>3, <1>4, <1>5 DEF Spots

\* The item sets of the last state cut 1..n.
LEMMA SetsCut ==
  ASSUME NEW k \in Nat, NEW s \in [1..k -> KKSet], NEW n \in Nat, Covers(s, k, n)
  PROVE  /\ Cuts([i \in 1..k |-> ToSet(s[i].items)], k, 1..n)
         /\ \A i \in 1..k : ToSet(s[i].items) = {s[i].items[p] : p \in 1..Len(s[i].items)}
<1>1. ASSUME NEW i \in 1..k PROVE ToSet(s[i].items) = {s[i].items[p] : p \in 1..Len(s[i].items)}
  <2>1. DOMAIN s[i].items = 1..Len(s[i].items)
    BY DEF KKSet
  <2> QED
    BY <2>1 DEF ToSet
<1>2. PICK P : P = [i \in 1..k |-> ToSet(s[i].items)]
  OBVIOUS
<1>3. \A i \in 1..k : P[i] = {s[i].items[p] : p \in 1..Len(s[i].items)}
  BY <1>1, <1>2
<1>4. ASSUME NEW i \in 1..k, NEW j \in 1..k, NEW x, x \in P[i], x \in P[j] PROVE i = j
  <2>1. PICK p \in 1..Len(s[i].items) : x = s[i].items[p]
    BY <1>3, <1>4
  <2>2. PICK q \in 1..Len(s[j].items) : x = s[j].items[q]
    BY <1>3, <1>4
  <2>3. s[i].items[p] = s[j].items[q]
    BY <2>1, <2>2
  <2> QED
    BY <2>3 DEF Covers
<1>5. \A i \in 1..k : P[i] \subseteq 1..n
  BY <1>3 DEF Covers
<1>6. ASSUME NEW x \in 1..n PROVE \E i \in 1..k : x \in P[i]
  <2>1. PICK i \in 1..k : \E p \in 1..Len(s[i].items) : s[i].items[p] = x
    BY DEF Covers
  <2>2. PICK p \in 1..Len(s[i].items) : s[i].items[p] = x
    BY <2>1
  <2> QED
    BY <1>3, <2>2
<1>7. Cuts(P, k, 1..n)
  BY <1>4, <1>5, <1>6 DEF Cuts
<1> QED
  BY <1>1, <1>2, <1>7

\* The rows of the workers one after the other are the rows of the batch.
LEMMA ReorderOnce ==
  ASSUME NEW k \in Nat, NEW s \in [1..k -> KKSet], NEW n \in Nat, Covers(s, k, n),
         NEW loads, \A x \in 1..n : loads[x] \in Int, NEW ends,
         ends = [i \in 1..k |-> LET up == Ascending(loads, ToSet(s[i].items)) IN Evens(up) \o Reverse(Odds(up))]
  PROVE  OnceEach(FlattenSeq(ends), 1..n)
<1>1. PICK P : P = [i \in 1..k |-> ToSet(s[i].items)]
  OBVIOUS
<1>2. Cuts(P, k, 1..n)
  BY <1>1, SetsCut
<1>3. ASSUME NEW i \in 1..k PROVE OnceEach(ends[i], P[i])
  <2>1. PICK S : S = P[i]
    OBVIOUS
  <2>2. S \subseteq 1..n
    BY <1>2, <2>1 DEF Cuts
  <2>3. IsFiniteSet(S)
    <3>1. IsFiniteSet(1..n)
      BY FS_Interval
    <3> QED
      BY <2>2, <3>1, FS_Subset
  <2>4. PICK up : up = Ascending(loads, S)
    OBVIOUS
  <2>5. \A x \in S : x \in Int /\ loads[x] \in Int
    BY <2>2
  <2>6. Cardinality(S) \in Nat /\ Lists(up, S)
    BY <2>3, <2>4, <2>5, AscendingIs
  <2>7. OnceEach(up, S)
    BY <2>6, ListsOnce
  <2>8. ends[i] = Evens(up) \o Reverse(Odds(up))
    BY <1>1, <2>1, <2>4
  <2> QED
    BY <2>1, <2>7, <2>8, EndsOnce
<1>4. DOMAIN ends = 1..k /\ ends = [i \in 1..k |-> ends[i]]
  OBVIOUS
<1>5. Spots(ends, k, 1..n)
  BY <1>2, <1>3, <1>4, PartsOnce
<1> QED
  BY <1>5, FlattenOnce

\* The rows of some prompts.
RowsOf(P, m, n) == {r \in 1..m * n : (r - 1) \div n + 1 \in P}

\* Each prompt has n rows.
LEMMA RowsOfPrompts ==
  ASSUME NEW m \in Nat \ {0}, NEW n \in Nat \ {0}, NEW P \in SUBSET (1..m)
  PROVE  Cardinality(RowsOf(P, m, n)) = Cardinality(P) * n /\ Cardinality(P) \in Nat
<1>1. PICK N \in Nat : N = m * n
  <2>1. m * n \in Nat
    OBVIOUS
  <2> QED
    BY <2>1
<1>2. RowsOf(P, m, n) = {r \in 1..N : (r - 1) \div n + 1 \in P}
  BY <1>1 DEF RowsOf
<1>3. IsFiniteSet(P) /\ Cardinality(P) \in Nat
  <2>1. IsFiniteSet(1..m)
    BY FS_Interval
  <2>2. IsFiniteSet(P)
    BY <2>1, FS_Subset
  <2> QED
    BY <2>2, FS_CardinalityType
<1>4. PICK T : T = 1..n
  OBVIOUS
<1>5. IsFiniteSet(T) /\ Cardinality(T) = n
  <2>1. IsFiniteSet(1..n) /\ Cardinality(1..n) = n
    BY FS_Interval
  <2> QED
    BY <1>4, <2>1
<1>6. IsFiniteSet(P \X T) /\ Cardinality(P \X T) = Cardinality(P) * n
  BY <1>3, <1>5, FS_Product
<1>7. PICK R : R = RowsOf(P, m, n)
  OBVIOUS
<1>8. PICK f : f = [z \in P \X T |-> (z[1] - 1) * n + z[2]]
  OBVIOUS
<1>9. \A a \in P, b \in T : f[<<a, b>>] = (a - 1) * n + b
  BY <1>8
<1>10. ASSUME NEW a \in P, NEW b \in T
       PROVE  f[<<a, b>>] \in R
  <2>1. PICK g \in Nat : g = a - 1
    OBVIOUS
  <2>2. PICK c \in Nat : c = g * n
    <3>1. g * n \in Nat
      OBVIOUS
    <3> QED
      BY <3>1
  <2>3. f[<<a, b>>] = c + b
    BY <1>9, <2>1, <2>2
  <2>4. c + b \in 1..N
    <3>1. g < m
      BY <2>1
    <3>2. g * n + n <= m * n
      BY <3>1, Apart
    <3> QED
      BY <1>1, <1>4, <2>2, <3>2
  <2>5. PICK e \in Nat : e = c + b - 1
    BY <1>4
  <2>6. e \div n = g
    <3>1. PICK h \in Nat : h = e \div n
      BY Euclid
    <3>2. PICK r \in 0..n - 1 : r = e % n
      BY Euclid
    <3>3. e = h * n + r
      BY <3>1, <3>2, Euclid
    <3>4. PICK i \in 1..n : i = r + 1
      OBVIOUS
    <3>5. b \in 1..n
      BY <1>4
    <3>6. h * n + i = g * n + b
      <4>1. PICK y \in Int : y = h * n
        OBVIOUS
      <4>2. e = y + r
        BY <3>3, <4>1
      <4> QED
        BY <1>4, <2>2, <2>5, <3>4, <4>1, <4>2
    <3>7. h = g
      BY <3>5, <3>6, SameGroup
    <3> QED
      BY <3>1, <3>7
  <2>7. ((c + b) - 1) \div n + 1 = a
    <3>1. (c + b) - 1 = e
      BY <1>4, <2>5
    <3>2. ((c + b) - 1) \div n = g
      BY <2>6, <3>1
    <3> QED
      BY <2>1, <3>2
  <2> QED
    BY <1>2, <1>7, <2>3, <2>4, <2>7
<1>11. ASSUME NEW a \in P, NEW b \in T, NEW c \in P, NEW d \in T, f[<<a, b>>] = f[<<c, d>>]
       PROVE  a = c /\ b = d
  <2>1. PICK g \in Nat : g = a - 1
    OBVIOUS
  <2>2. PICK h \in Nat : h = c - 1
    OBVIOUS
  <2>3. g * n + b = h * n + d
    BY <1>9, <1>11, <2>1, <2>2
  <2>4. b \in 1..n /\ d \in 1..n
    BY <1>4
  <2>5. g = h /\ b = d
    BY <2>3, <2>4, SameGroup
  <2> QED
    BY <2>1, <2>2, <2>5
<1>12. ASSUME NEW r \in R PROVE \E a \in P : \E b \in T : f[<<a, b>>] = r
  <2>1. PICK e \in Nat : e = r - 1
    BY <1>2, <1>7
  <2>2. PICK g \in Nat : g = e \div n
    BY Euclid
  <2>3. PICK i \in 0..n - 1 : i = e % n
    BY Euclid
  <2>4. e = g * n + i
    BY <2>2, <2>3, Euclid
  <2>5. g + 1 \in P
    BY <1>2, <1>7, <2>1, <2>2
  <2>6. i + 1 \in T
    BY <1>4
  <2>7. f[<<g + 1, i + 1>>] = ((g + 1) - 1) * n + (i + 1)
    BY <1>9, <2>5, <2>6
  <2>8. r = g * n + (i + 1)
    <3>1. PICK c \in Nat : c = g * n
      <4>1. g * n \in Nat
        OBVIOUS
      <4> QED
        BY <4>1
    <3>2. r \in Nat
      BY <1>2, <1>7
    <3> QED
      BY <2>1, <2>4, <3>1, <3>2
  <2>9. (g + 1) - 1 = g
    OBVIOUS
  <2> QED
    BY <2>5, <2>6, <2>7, <2>8, <2>9
<1>13. f \in Bijection(P \X T, R)
  <2>1. f \in [P \X T -> R]
    BY <1>8, <1>10
  <2>2. \A y, z \in P \X T : f[y] = f[z] => y = z
    <3> TAKE y \in P \X T, z \in P \X T
    <3> HAVE f[y] = f[z]
    <3>1. y = <<y[1], y[2]>> /\ z = <<z[1], z[2]>> /\ y[1] \in P /\ y[2] \in T /\ z[1] \in P /\ z[2] \in T
      OBVIOUS
    <3>2. PICK a \in P : a = y[1]
      BY <3>1
    <3>3. PICK b \in T : b = y[2]
      BY <3>1
    <3>4. PICK c \in P : c = z[1]
      BY <3>1
    <3>5. PICK d \in T : d = z[2]
      BY <3>1
    <3>6. y = <<a, b>> /\ z = <<c, d>>
      BY <3>1, <3>2, <3>3, <3>4, <3>5
    <3>7. a = c /\ b = d
      BY <1>11, <3>6
    <3> QED
      BY <3>6, <3>7
  <2>3. \A r \in R : \E z \in P \X T : f[z] = r
    BY <1>12
  <2> QED
    BY <2>1, <2>2, <2>3 DEF Bijection, Injection, Surjection, IsInjective
<1>14. ExistsBijection(P \X T, R)
  BY <1>13 DEF ExistsBijection
<1>15. PICK Q : Q = P \X T
  OBVIOUS
<1>16. IsFiniteSet(Q) /\ ExistsBijection(Q, R) /\ Cardinality(Q) = Cardinality(P) * n
  BY <1>6, <1>14, <1>15
<1>17. Cardinality(R) = Cardinality(Q)
  BY <1>16, FS_Bijection
<1> QED
  BY <1>3, <1>7, <1>16, <1>17

-----------------------------------------------------------------------------
\* Filtering, chunks, restoring.

\* Filtering keeps the rows of the labeled and the selected prompts, each at one place.
LEMMA KeptOnce ==
  ASSUME NEW m \in Nat \ {0}, m = conf.prompts, NEW n \in Nat \ {0}, n = conf.n,
         conf.labeled \subseteq 1..m, OnceEach(batch, 1..m * n),
         NEW sel \in SUBSET (1..m)
  PROVE  OnceEach(Kept(sel), RowsOf(conf.labeled \cup sel, m, n))
<1>1. PICK N \in Nat : N = m * n
  <2>1. m * n \in Nat
    OBVIOUS
  <2> QED
    BY <2>1
<1>2. OnceEach(batch, 1..N)
  BY <1>1
<1>3. PICK c \in Nat : c = Len(batch)
  BY <1>2 DEF OnceEach
<1>4. batch \in [1..c -> 1..N] /\ DOMAIN batch = 1..c
  BY <1>2, <1>3, SeqIsFunction DEF OnceEach
<1>5. PICK P : P = conf.labeled \cup sel
  OBVIOUS
<1>6. PICK kept : kept = {i \in 1..c : PromptOf(batch[i]) \in P}
  OBVIOUS
<1>7. IsFiniteSet(kept)
  <2>1. IsFiniteSet(1..c)
    BY FS_Interval
  <2>2. kept \in SUBSET (1..c)
    BY <1>6
  <2> QED
    BY <2>1, <2>2, FS_Subset
<1>8. ASSUME NEW i \in 1..c PROVE Group(i) \in Int
  <2>1. PICK S : S = {j \in 1..c : PromptOf(batch[j]) = PromptOf(batch[i])}
    OBVIOUS
  <2>2. S \in SUBSET Int /\ i \in S /\ S \in SUBSET (1..c)
    BY <2>1
  <2>3. IsFiniteSet(S)
    <3>1. IsFiniteSet(1..c)
      <4>1. 1 \in Int /\ c \in Int
        OBVIOUS
      <4> QED
        BY <4>1, FS_Interval, Zenon
    <3>2. PICK T : T = 1..c
      OBVIOUS
    <3>3. IsFiniteSet(T) /\ S \in SUBSET T
      BY <2>2, <3>1, <3>2
    <3> QED
      BY <3>3, FS_Subset
  <2>4. Min(S) \in S
    <3>1. S # {}
      BY <2>2
    <3>2. S \in SUBSET Int
      BY <2>2
    <3> QED
      BY <2>3, <3>1, <3>2, Extremes
  <2>5. Group(i) = 0 \/ Group(i) = Min(S)
    BY <1>4, <2>1 DEF Group
  <2>6. Min(S) \in Int
    BY <2>2, <2>4
  <2> QED
    BY <2>5, <2>6
<1>9. PICK key : key = [i \in kept |-> Group(i)]
  OBVIOUS
<1>10. \A i \in kept : i \in 1..c /\ i \in Int /\ key[i] = Group(i) /\ key[i] \in Int
  BY <1>6, <1>8, <1>9
<1>11. PICK order : order = Ascending(key, kept)
  OBVIOUS
<1>12. Cardinality(kept) \in Nat /\ Lists(order, kept)
  BY <1>7, <1>10, <1>11, AscendingIs
<1>13. PICK l \in Nat : l = Cardinality(kept)
  BY <1>12
<1> DEFINE At(k) == CHOOSE x \in kept : Cardinality({y \in kept : Group(y) < Group(x) \/ (Group(y) = Group(x) /\ y < x)}) = k - 1
           By(k) == CHOOSE x \in kept : Cardinality({y \in kept : key[y] < key[x] \/ (key[y] = key[x] /\ y < x)}) = k - 1
<1>14. Kept(sel) = [k \in 1..l |-> batch[[j \in 1..l |-> At(j)][k]]]
  BY <1>4, <1>5, <1>6, <1>13 DEF Kept, Sorted
<1>15. order = [k \in 1..l |-> By(k)]
  BY <1>11, <1>13 DEF Ascending, Sorted
<1>16. \A k : At(k) = By(k)
  <2> TAKE k
  <2>1. \A x \in kept : {y \in kept : Group(y) < Group(x) \/ (Group(y) = Group(x) /\ y < x)}
                          = {y \in kept : key[y] < key[x] \/ (key[y] = key[x] /\ y < x)}
    BY <1>10
  <2> QED
    BY <2>1
<1> HIDE DEF At, By
<1>17. Kept(sel) = [k \in 1..l |-> batch[order[k]]]
  BY <1>14, <1>15, <1>16
<1>18. PICK q : q = Kept(sel)
  OBVIOUS
<1>19. PICK R : R = RowsOf(P, m, n)
  OBVIOUS
<1>20. R = {r \in 1..N : PromptOf(r) \in P}
  BY <1>1, <1>19 DEF RowsOf, PromptOf
<1>21. \A k \in 1..l : order[k] \in kept /\ q[k] = batch[order[k]] /\ q[k] \in R
  <2> TAKE k \in 1..l
  <2>1. order[k] \in kept
    BY <1>12, <1>13 DEF Lists
  <2>2. q[k] = batch[order[k]]
    BY <1>17, <1>18
  <2>3. batch[order[k]] \in 1..N /\ PromptOf(batch[order[k]]) \in P
    BY <1>4, <1>6, <2>1
  <2> QED
    BY <1>20, <2>1, <2>2, <2>3
<1>22. q \in [1..l -> R]
  <2>1. q = [k \in 1..l |-> batch[order[k]]]
    BY <1>17, <1>18
  <2> QED
    BY <1>21, <2>1
<1>23. q \in Seq(R) /\ Len(q) = l
  BY <1>22, FunctionIsSeq
<1>24. ASSUME NEW j \in 1..l, NEW k \in 1..l, q[j] = q[k] PROVE j = k
  <2>1. order[j] \in 1..c /\ order[k] \in 1..c /\ batch[order[j]] = batch[order[k]]
    BY <1>10, <1>21, <1>24
  <2>2. order[j] = order[k]
    BY <1>2, <1>3, <2>1 DEF OnceEach
  <2> QED
    BY <1>12, <1>13, <2>2 DEF Lists
<1>25. ASSUME NEW r \in R PROVE \E k \in 1..l : q[k] = r
  <2>1. r \in 1..N /\ PromptOf(r) \in P
    BY <1>20
  <2>2. PICK i \in 1..c : batch[i] = r
    BY <1>2, <1>3, <2>1 DEF OnceEach
  <2>3. i \in kept
    BY <1>6, <2>1, <2>2
  <2>4. PICK k \in 1..l : order[k] = i
    BY <1>12, <1>13, <2>3 DEF Lists
  <2> QED
    BY <1>21, <2>2, <2>4
<1>26. OnceEach(q, R)
  BY <1>23, <1>24, <1>25 DEF OnceEach
<1> QED
  BY <1>5, <1>18, <1>19, <1>26

\* c is the rank-th of the chunks of b, each of them size long.
Slice(c, b, rank, size, S) ==
  /\ c \in [1..size -> S]
  /\ \A i \in 1..size : rank * size + i \in 1..Len(b) /\ c[i] = b[rank * size + i]

\* SubSeq with the bounds of Dispatch takes a chunk.
LEMMA SliceIs ==
  ASSUME NEW S, NEW b \in Seq(S), NEW d \in Nat \ {0}, NEW size \in Nat \ {0}, Product(Len(b), d, size),
         NEW rank \in Nat, rank < d
  PROVE  Slice(SubSeq(b, rank * size + 1, (rank + 1) * size), b, rank, size, S)
<1>1. PICK n \in Nat : n = Len(b)
  OBVIOUS
<1>2. b \in [1..n -> S]
  BY <1>1, SeqIsFunction
<1>3. PICK a \in Nat : a = rank * size
  <2>1. rank * size \in Nat
    OBVIOUS
  <2> QED
    BY <2>1
<1>4. (rank + 1) * size = a + size
  BY <1>3
<1>5. a + size <= n
  <2>1. rank * size + size <= d * size
    BY Apart
  <2> QED
    BY <1>1, <1>3, <2>1 DEF Product
<1>6. \A i \in a + 1..a + size : b[i] \in S
  <2>1. \A i \in a + 1..a + size : i \in 1..n
    BY <1>5
  <2> QED
    BY <1>2, <2>1
<1>7. PICK c : c = SubSeq(b, a + 1, a + size)
  OBVIOUS
<1>8. c \in Seq(S) /\ Len(c) = size /\ \A i \in 1..size : c[i] = b[a + i]
  <2>1. /\ SubSeq(b, a + 1, a + size) \in Seq(S)
        /\ Len(SubSeq(b, a + 1, a + size)) = size
        /\ \A i \in 1..size : SubSeq(b, a + 1, a + size)[i] = b[a + i]
    BY <1>6, StretchIs, SMTT(60)
  <2> QED
    BY <1>7, <2>1, ZenonT(30)
<1>9. c \in [1..size -> S]
  BY <1>8, SeqIsFunction
<1>10. \A i \in 1..size : a + i \in 1..n
  BY <1>5
<1> QED
  BY <1>1, <1>3, <1>4, <1>7, <1>8, <1>9, <1>10 DEF Slice

\* The chunks one after the other are the batch.
LEMMA CollectIs ==
  ASSUME NEW S, NEW b \in Seq(S), NEW d \in Nat \ {0}, NEW size \in Nat \ {0}, Product(Len(b), d, size),
         NEW parts, DOMAIN parts = 1..d, parts = [i \in 1..d |-> parts[i]],
         \A i \in 1..d : Slice(parts[i], b, i - 1, size, S)
  PROVE  FlattenSeq(parts) = b
<1>1. PICK n \in Nat : n = Len(b)
  OBVIOUS
<1>2. b \in [1..n -> S]
  BY <1>1, SeqIsFunction
<1>3. \A i \in 1..d : parts[i] \in Seq(S) /\ Len(parts[i]) = size
  <2> TAKE i \in 1..d
  <2>1. parts[i] \in [1..size -> S]
    BY DEF Slice
  <2> QED
    BY <2>1, FunctionIsSeq
<1>4. parts \in [1..d -> Seq(S)]
  BY <1>3
<1>5. parts \in Seq(Seq(S)) /\ Len(parts) = d
  BY <1>4, FunctionIsSeq
<1>6. PICK t : t = [i \in 0..d |-> i * size]
  OBVIOUS
<1>7. \A i \in 0..d : t[i] = i * size /\ t[i] \in Nat
  <2> TAKE i \in 0..d
  <2>1. i * size \in Nat
    OBVIOUS
  <2> QED
    BY <1>6, <2>1
<1>8. Starts(t, parts)
  <2>1. PICK f : f = [i \in 1..Len(parts) |-> Len(parts[i])]
    OBVIOUS
  <2>2. \A i \in 1..d : f[i] = size
    BY <1>3, <1>5, <2>1
  <2>3. t[0] = 0
    BY <1>7
  <2>4. \A i \in 1..d : t[i] = t[i - 1] + f[i]
    <3> TAKE i \in 1..d
    <3>1. i - 1 \in 0..d /\ i \in 0..d
      OBVIOUS
    <3>2. i * size = (i - 1) * size + size
      OBVIOUS
    <3>3. t[i] = i * size /\ t[i - 1] = (i - 1) * size /\ f[i] = size
      BY <1>7, <2>2, <3>1
    <3> QED
      BY <3>2, <3>3, Zenon
  <2>5. Totals(t, f, d)
    <3>1. t \in [0..d -> Nat]
      BY <1>6, <1>7
    <3> QED
      BY <2>3, <2>4, <3>1 DEF Totals
  <2> QED
    BY <1>5, <2>1, <2>5 DEF Starts
<1>9. PICK q : q = FlattenSeq(parts)
  OBVIOUS
<1>10. Lays(q, parts, t, d) /\ q \in Seq(S)
  BY <1>5, <1>8, <1>9, FlattenLays
<1>11. t[d] = n
  <2>1. d \in 0..d
    OBVIOUS
  <2>2. t[d] = d * size
    BY <1>7, <2>1
  <2> QED
    BY <1>1, <2>2 DEF Product
<1>12. Len(q) = n
  BY <1>10, <1>11 DEF Lays
<1>13. q \in [1..n -> S]
  BY <1>10, <1>12, SeqIsFunction
<1>14. ASSUME NEW j \in 1..n PROVE q[j] = b[j]
  <2>1. PICK i \in 1..d : \E p \in 1..Len(parts[i]) : j = t[i - 1] + p
    BY <1>10, <1>11 DEF Lays
  <2>2. PICK p \in 1..Len(parts[i]) : j = t[i - 1] + p
    BY <2>1
  <2>3. q[j] = parts[i][p]
    BY <1>10, <2>2 DEF Lays
  <2>4. p \in 1..size
    BY <1>3
  <2>5. parts[i][p] = b[(i - 1) * size + p]
    BY <2>4 DEF Slice
  <2>6. i - 1 \in 0..d
    OBVIOUS
  <2>7. t[i - 1] = (i - 1) * size
    BY <1>7, <2>6
  <2> QED
    BY <2>2, <2>3, <2>5, <2>7
<1> QED
  BY <1>2, <1>9, <1>13, <1>14

\* data is c in the order q.
Shuffled(data, c, q, n, S) ==
  /\ OnceEach(q, 1..n) /\ c \in [1..n -> S] /\ data \in [1..n -> S]
  /\ \A i \in 1..n : data[i] = c[q[i]]

\* Undoing the order of the micro-batches.
LEMMA RestoredIs ==
  ASSUME NEW S, NEW n \in Nat, NEW q, NEW c, NEW data, Shuffled(data, c, q, n, S)
  PROVE  Restored(data, q) = c
<1>a. /\ OnceEach(q, 1..n) /\ c \in [1..n -> S] /\ data \in [1..n -> S]
      /\ \A i \in 1..n : data[i] = c[q[i]]
  BY DEF Shuffled
<1>1. Len(q) = n
  <2>1. PICK T : T = 1..n
    OBVIOUS
  <2>2. OnceEach(q, T)
    BY <1>a, <2>1
  <2>3. Cardinality(T) = Len(q)
    BY <2>2, OnceLength
  <2>4. Cardinality(T) = n
    BY <2>1, FS_Interval
  <2> QED
    BY <2>3, <2>4
<1>2. q \in [1..n -> 1..n] /\ DOMAIN q = 1..n
  BY <1>1, <1>a, SeqIsFunction DEF OnceEach
<1> DEFINE back(j) == CHOOSE i \in DOMAIN q : q[i] = j
<1>3. Restored(data, q) = [j \in 1..n |-> data[[k \in 1..n |-> back(k)][j]]]
  BY <1>a DEF Restored
<1>4. ASSUME NEW j \in 1..n PROVE back(j) \in 1..n /\ q[back(j)] = j
  <2>1. \E i \in 1..n : q[i] = j
    BY <1>1, <1>a DEF OnceEach
  <2> QED
    BY <1>2, <2>1
<1> HIDE DEF back
<1>5. \A j \in 1..n : data[[k \in 1..n |-> back(k)][j]] = c[j]
  BY <1>4, <1>a
<1> QED
  BY <1>3, <1>5, <1>a

-----------------------------------------------------------------------------
\* Micro-batches.

\* Sorting integers.
LEMMA IncreasingIs ==
  ASSUME NEW S, IsFiniteSet(S), \A x \in S : x \in Int
  PROVE  OnceEach(Sorted(S, <), S) /\ Len(Sorted(S, <)) = Cardinality(S) /\ Cardinality(S) \in Nat
<1>1. PICK key : key = [x \in S |-> 0]
  OBVIOUS
<1>2. PICK order : order = Ascending(key, S)
  OBVIOUS
<1>3. \A x \in S : x \in Int /\ key[x] \in Int
  BY <1>1
<1>4. Cardinality(S) \in Nat /\ Lists(order, S)
  BY <1>2, <1>3, AscendingIs
<1> DEFINE At(k) == CHOOSE x \in S : Cardinality({y \in S : y < x}) = k - 1
           By(k) == CHOOSE x \in S : Cardinality({y \in S : key[y] < key[x] \/ (key[y] = key[x] /\ y < x)}) = k - 1
<1>5. Sorted(S, <) = [k \in 1..Cardinality(S) |-> At(k)]
  BY DEF Sorted
<1>6. order = [k \in 1..Cardinality(S) |-> By(k)]
  BY <1>2 DEF Ascending, Sorted
<1>7. \A k : At(k) = By(k)
  <2> TAKE k
  <2>1. \A x \in S : {y \in S : y < x} = {y \in S : key[y] < key[x] \/ (key[y] = key[x] /\ y < x)}
    BY <1>1
  <2> QED
    BY <2>1
<1> HIDE DEF At, By
<1>8. Sorted(S, <) = order
  BY <1>5, <1>6, <1>7
<1>9. OnceEach(order, S) /\ Len(order) = Cardinality(S)
  BY <1>4, ListsOnce
<1> QED
  BY <1>4, <1>8, <1>9

\* The micro-batches hold every row of the chunk at one place.
LEMMA MicroBatchesAre ==
  ASSUME NEW k \in Nat \ {0}, NEW s \in [1..k -> KKSet], NEW n \in Nat, Covers(s, k, n),
         \A i \in 1..k : Len(s[i].items) > 0
  PROVE  Spots(MicroBatches(s), k, 1..n)
<1>1. PICK P : P = [i \in 1..k |-> ToSet(s[i].items)]
  OBVIOUS
<1>2. Cuts(P, k, 1..n) /\ \A i \in 1..k : P[i] = {s[i].items[p] : p \in 1..Len(s[i].items)}
  BY <1>1, SetsCut
<1>3. PICK parts : parts = [i \in 1..k |-> [load |-> s[i].sum, indices |-> Sorted(ToSet(s[i].items), <)]]
  OBVIOUS
<1>4. ASSUME NEW i \in 1..k
      PROVE  /\ OnceEach(parts[i].indices, P[i])
             /\ Head(parts[i].indices) \in P[i] /\ Head(parts[i].indices) \in Nat
             /\ parts[i].load \in Nat
  <2>1. PICK S : S = P[i]
    OBVIOUS
  <2>2. S \subseteq 1..n
    BY <1>2, <2>1 DEF Cuts
  <2>3. IsFiniteSet(S)
    <3>1. IsFiniteSet(1..n)
      BY FS_Interval
    <3> QED
      BY <2>2, <3>1, FS_Subset
  <2>4. PICK q : q = Sorted(S, <)
    OBVIOUS
  <2>5. \A x \in S : x \in Int
    BY <2>2
  <2>6. OnceEach(q, S)
    BY <2>3, <2>4, <2>5, IncreasingIs
  <2>7. parts[i].indices = q /\ parts[i].load = s[i].sum
    BY <1>1, <1>3, <2>1, <2>4
  <2>8. s[i].sum \in Nat
    BY DEF KKSet
  <2>9. PICK l \in Nat : l = Len(q)
    BY <2>6 DEF OnceEach
  <2>10. q \in [1..l -> S]
    BY <2>6, <2>9, SeqIsFunction DEF OnceEach
  <2>11. PICK x : x \in S
    <3>1. s[i].items[1] \in P[i]
      BY <1>2
    <3> QED
      BY <2>1, <3>1
  <2>12. 1 \in 1..l
    <3>1. PICK j \in 1..l : q[j] = x
      BY <2>6, <2>9, <2>11 DEF OnceEach
    <3> QED
      BY <3>1
  <2>13. Head(q) = q[1] /\ q[1] \in S
    BY <2>10, <2>12
  <2> QED
    BY <2>1, <2>2, <2>6, <2>7, <2>8, <2>13
<1>5. ASSUME NEW i \in 1..k, NEW j \in 1..k, Head(parts[i].indices) = Head(parts[j].indices) PROVE i = j
  <2>1. Head(parts[i].indices) \in P[i] /\ Head(parts[i].indices) \in P[j]
    BY <1>4, <1>5
  <2> QED
    BY <1>2, <2>1 DEF Cuts
<1>6. PICK load : load = [i \in 1..k |-> parts[i].load]
  OBVIOUS
<1>7. PICK head : head = [i \in 1..k |-> Head(parts[i].indices)]
  OBVIOUS
<1>8. \A i \in 1..k : load[i] \in Nat /\ head[i] \in Nat
  BY <1>4, <1>6, <1>7
<1>9. \A i, j \in 1..k : head[i] = head[j] => i = j
  BY <1>5, <1>7
<1> DEFINE Ahead(i, j) == load[i] > load[j] \/ (load[i] = load[j] /\ head[i] > head[j])
<1>10. PICK S : S = 1..k
  OBVIOUS
<1>11. PICK R : R = {p \in S \X S : Ahead(p[1], p[2])}
  OBVIOUS
<1>12. \A i, j \in S : <<i, j>> \in R <=> Ahead(i, j)
  BY <1>11
<1>13. Orders(R, S)
  <2>1. ASSUME NEW i \in S PROVE <<i, i>> \notin R
    <3>1. load[i] \in Nat /\ head[i] \in Nat
      BY <1>8, <1>10
    <3>2. ~Ahead(i, i)
      BY <3>1
    <3> QED
      BY <1>12, <3>2
  <2>2. ASSUME NEW i \in S, NEW j \in S PROVE i = j \/ <<i, j>> \in R \/ <<j, i>> \in R
    <3>1. load[i] \in Nat /\ load[j] \in Nat /\ head[i] \in Nat /\ head[j] \in Nat
      BY <1>8, <1>10
    <3>2. i = j \/ head[i] # head[j]
      BY <1>9, <1>10
    <3>3. i = j \/ Ahead(i, j) \/ Ahead(j, i)
      BY <3>1, <3>2
    <3> QED
      BY <1>12, <3>3
  <2>3. ASSUME NEW x \in S, NEW y \in S, NEW z \in S, <<x, y>> \in R, <<y, z>> \in R PROVE <<x, z>> \in R
    <3>1. /\ load[x] \in Nat /\ load[y] \in Nat /\ load[z] \in Nat
          /\ head[x] \in Nat /\ head[y] \in Nat /\ head[z] \in Nat
      BY <1>8, <1>10
    <3>2. Ahead(x, y) /\ Ahead(y, z)
      BY <1>12, <2>3
    <3>3. Ahead(x, z)
      BY <3>1, <3>2
    <3> QED
      BY <1>12, <3>3
  <2> QED
    BY <2>1, <2>2, <2>3 DEF Orders
<1>14. IsFiniteSet(S) /\ Cardinality(S) = k
  <2>1. IsFiniteSet(1..k) /\ Cardinality(1..k) = k
    BY FS_Interval
  <2> QED
    BY <1>10, <2>1
<1>15. PICK g : g = InOrder(S, R)
  OBVIOUS
<1>16. Lists(g, S)
  BY <1>13, <1>14, <1>15, OrderSorts
<1> DEFINE At(i) == CHOOSE x \in S : Cardinality({y \in S : Ahead(y, x)}) = i - 1
           Of(i) == CHOOSE x \in S : Cardinality(Below(S, R, x)) = i - 1
           Low(i) == CHOOSE x \in S : Cardinality({y \in S : \/ parts[y].load > parts[x].load
                                                              \/ /\ parts[y].load = parts[x].load
                                                                 /\ Head(parts[y].indices) > Head(parts[x].indices)}) = i - 1
<1>17. g = [i \in 1..k |-> Of(i)]
  BY <1>14, <1>15 DEF InOrder
<1>18. \A i : At(i) = Of(i)
  <2> TAKE i
  <2>1. \A x \in S : Below(S, R, x) = {y \in S : Ahead(y, x)}
    BY <1>12 DEF Below
  <2> QED
    BY <2>1
<1>19. \A i : Low(i) = At(i)
  <2> TAKE i
  <2>1. \A x \in S : load[x] = parts[x].load /\ head[x] = Head(parts[x].indices)
    BY <1>6, <1>7, <1>10
  <2>2. \A x \in S : {y \in S : \/ parts[y].load > parts[x].load
                                \/ /\ parts[y].load = parts[x].load
                                   /\ Head(parts[y].indices) > Head(parts[x].indices)} = {y \in S : Ahead(y, x)}
    BY <2>1
  <2> QED
    BY <2>2
<1>20. PICK sorted : sorted = [i \in 1..k |-> Low(i)]
  OBVIOUS
<1>21. PICK order : order = Reverse(Evens(sorted)) \o Odds(sorted)
  OBVIOUS
<1>22. MicroBatches(s) = [i \in DOMAIN order |-> parts[order[i]].indices]
  <2> DEFINE Pt == [i \in DOMAIN s |-> [load |-> s[i].sum, indices |-> Sorted(ToSet(s[i].items), <)]]
             First(i) == CHOOSE x \in DOMAIN Pt :
                           Cardinality({y \in DOMAIN Pt : \/ Pt[y].load > Pt[x].load
                                                          \/ /\ Pt[y].load = Pt[x].load
                                                             /\ Head(Pt[y].indices) > Head(Pt[x].indices)}) = i - 1
             By == [i \in 1..Cardinality(DOMAIN Pt) |-> First(i)]
             Mid == Reverse(Evens(By)) \o Odds(By)
  <2>1. MicroBatches(s) = [i \in DOMAIN Mid |-> Pt[Mid[i]].indices]
    BY DEF MicroBatches, Sorted
  <2>2. Pt = parts
    BY <1>3
  <2> HIDE DEF Pt
  <2>3. DOMAIN Pt = S
    BY <1>3, <1>10, <2>2
  <2>4. \A i : First(i) = Low(i)
    <3> TAKE i
    <3>1. \A x \in S : {y \in DOMAIN Pt : \/ Pt[y].load > Pt[x].load
                                          \/ /\ Pt[y].load = Pt[x].load
                                             /\ Head(Pt[y].indices) > Head(Pt[x].indices)}
                       = {y \in S : \/ parts[y].load > parts[x].load
                                    \/ /\ parts[y].load = parts[x].load
                                       /\ Head(parts[y].indices) > Head(parts[x].indices)}
      BY <2>2, <2>3
    <3> QED
      BY <2>3, <3>1
  <2> HIDE DEF First, Low
  <2>5. By = sorted
    BY <1>14, <1>20, <2>3, <2>4
  <2> HIDE DEF By
  <2>6. Mid = order
    BY <1>21, <2>5
  <2> HIDE DEF Mid
  <2> QED
    BY <2>1, <2>2, <2>6
<1> HIDE DEF At, Of, Low, Ahead
<1>23. sorted = g
  BY <1>17, <1>18, <1>19, <1>20
<1>24. OnceEach(sorted, S) /\ Len(sorted) = k
  BY <1>14, <1>16, <1>23, ListsOnce
<1>25. OnceEach(order, S) /\ Len(order) = k
  BY <1>21, <1>24, MiddleOnce
<1>26. order \in [1..k -> 1..k] /\ DOMAIN order = 1..k
  BY <1>10, <1>25, SeqIsFunction DEF OnceEach
<1>27. PICK mb : mb = MicroBatches(s)
  OBVIOUS
<1>28. mb = [i \in 1..k |-> parts[order[i]].indices]
  BY <1>22, <1>26, <1>27
<1>29. PICK Q : Q = [i \in 1..k |-> P[order[i]]]
  OBVIOUS
<1>30. Cuts(Q, k, 1..n)
  <2>1. \A i \in 1..k : order[i] \in 1..k /\ Q[i] = P[order[i]]
    BY <1>26, <1>29
  <2>2. \A i \in 1..k : Q[i] \subseteq 1..n
    BY <1>2, <2>1 DEF Cuts
  <2>3. ASSUME NEW i \in 1..k, NEW j \in 1..k, NEW x, x \in Q[i], x \in Q[j] PROVE i = j
    <3>1. order[i] = order[j]
      BY <1>2, <2>1, <2>3 DEF Cuts
    <3> QED
      BY <1>25, <3>1 DEF OnceEach
  <2>4. ASSUME NEW x \in 1..n PROVE \E i \in 1..k : x \in Q[i]
    <3>1. PICK j \in 1..k : x \in P[j]
      BY <1>2 DEF Cuts
    <3>2. PICK i \in 1..k : order[i] = j
      BY <1>10, <1>25 DEF OnceEach
    <3> QED
      BY <2>1, <3>1, <3>2
  <2> QED
    BY <2>2, <2>3, <2>4 DEF Cuts
<1>31. \A i \in 1..k : OnceEach(mb[i], Q[i])
  BY <1>4, <1>26, <1>28, <1>29
<1>32. DOMAIN mb = 1..k /\ mb = [i \in 1..k |-> mb[i]]
  BY <1>28
<1>33. Spots(mb, k, 1..n)
  BY <1>30, <1>31, <1>32, PartsOnce
<1> QED
  BY <1>27, <1>33

-----------------------------------------------------------------------------
\* The driver.

\* The rows of the batch before filtering.
NRows == conf.prompts * conf.n

\* The spread of one sample.
Differ == LET work == ToSet(Loads([r \in Rows |-> r])) IN Max(work) - Min(work)

\* The settings are among those covered.
Setting == conf \in Configs /\ lens \in conf.lens

\* A multiple of a multiple.
LEMMA MultipleIs ==
  ASSUME NEW c \in Nat, NEW n \in Nat, NEW d \in Nat \ {0}, n % d = 0
  PROVE  (c * n) % d = 0
<1>1. PICK a \in Nat : a = n \div d
  BY Euclid
<1>2. n = a * d
  BY <1>1, Euclid
<1>3. PICK e \in Nat : e = c * a
  <2>1. c * a \in Nat
    OBVIOUS
  <2> QED
    BY <2>1
<1>4. c * n = e * d
  BY <1>2, <1>3
<1>5. (e * d) % d = 0
  OBVIOUS
<1> QED
  BY <1>4, <1>5

\* The settings have the values that the assumption gives them.
LEMMA SettingIs ==
  ASSUME Setting
  PROVE  /\ conf.prompts \in Nat \ {0} /\ conf.n \in Nat \ {0} /\ conf.world \in Nat \ {0} /\ conf.sp \in Nat \ {0}
         /\ conf.labeled \subseteq 1..conf.prompts /\ conf.labeled # {}
         /\ NRows \in Nat \ {0} /\ Rows = 1..NRows /\ Lengths(lens, NRows)
         /\ Workers = 0..conf.world - 1
         /\ MaxTokenLen \in Nat \ {0}
<1>1. /\ conf.prompts \in Nat \ {0} /\ conf.n \in Nat \ {0}
      /\ conf.labeled \subseteq 1..conf.prompts /\ conf.labeled # {}
      /\ conf.world \in Nat \ {0} /\ conf.sp \in Nat \ {0} /\ conf.maxToken \in Nat \ {0}
      /\ \A l \in conf.lens : \A r \in 1..conf.prompts * conf.n : l[r] \in 1..conf.maxToken * conf.sp
  BY DispatchAssumption DEF Setting
<1>2. conf.prompts * conf.n \in Nat \ {0}
  BY <1>1
<1>3. conf.maxToken * conf.sp \in Nat \ {0}
  BY <1>1
<1>4. Lengths(lens, NRows)
  BY <1>1, <1>3 DEF Lengths, Setting, NRows
<1> QED
  BY <1>1, <1>2, <1>3, <1>4 DEF NRows, Rows, Workers, MaxTokenLen

\* The rows fill groups of one row per worker.
LEMMA GroupsFill ==
  ASSUME Setting
  PROVE  \E m \in Nat \ {0} : Product(NRows, m, conf.world)
<1>1. NRows \in Nat \ {0} /\ conf.world \in Nat \ {0}
  BY SettingIs
<1>2. NRows % conf.world = 0
  BY DispatchAssumption DEF Setting, NRows
<1>3. PICK N \in Nat \ {0} : N = NRows
  BY <1>1
<1>4. PICK k \in Nat \ {0} : k = conf.world
  BY <1>1
<1>5. PICK m \in Nat : m = N \div k
  BY Euclid
<1>6. N = m * k
  <2>1. N = (N \div k) * k + (N % k)
    BY Euclid
  <2>2. N % k = 0
    BY <1>2, <1>3, <1>4
  <2>3. m * k \in Nat
    OBVIOUS
  <2> QED
    BY <1>5, <2>1, <2>2, <2>3
<1>7. m # 0
  BY <1>6
<1> QED
  BY <1>3, <1>4, <1>6, <1>7 DEF Product

\* Data-parallel ranks, and the worker each one collects from.
LEMMA RanksAre ==
  ASSUME Setting
  PROVE  /\ DpSize \in Nat \ {0}
         /\ \A w \in Workers : DpRank(w) \in Nat /\ DpRank(w) < DpSize
         /\ \A i \in 1..DpSize : (i - 1) * conf.sp \in Workers /\ DpRank((i - 1) * conf.sp) = i - 1
<1>1. PICK W \in Nat \ {0} : W = conf.world
  BY SettingIs
<1>2. PICK sp \in Nat \ {0} : sp = conf.sp
  BY SettingIs
<1>3. PICK d \in Nat : d = W \div sp
  BY Euclid
<1>4. W = d * sp
  <2>1. W % sp = 0
    BY <1>1, <1>2, DispatchAssumption DEF Setting
  <2>2. W = (W \div sp) * sp + (W % sp)
    BY Euclid
  <2>3. d * sp \in Nat
    OBVIOUS
  <2> QED
    BY <1>3, <2>1, <2>2, <2>3
<1>5. d # 0
  BY <1>4
<1>6. DpSize = d /\ Workers = 0..W - 1 /\ \A w : DpRank(w) = w \div sp
  BY <1>1, <1>2, <1>3, SettingIs DEF DpSize, DpRank
<1>7. ASSUME NEW w \in 0..W - 1 PROVE w \div sp \in Nat /\ w \div sp < d
  <2>1. PICK q \in Nat : q = w \div sp
    BY Euclid
  <2>2. PICK r \in 0..sp - 1 : r = w % sp
    BY Euclid
  <2>3. w = q * sp + r
    BY <2>1, <2>2, Euclid
  <2>4. PICK y \in Nat : y = q * sp
    <3>1. q * sp \in Nat
      OBVIOUS
    <3> QED
      BY <3>1
  <2>5. PICK z \in Nat : z = d * sp
    <3>1. d * sp \in Nat
      OBVIOUS
    <3> QED
      BY <3>1
  <2>6. y < z
    BY <1>4, <2>3, <2>4, <2>5
  <2>7. q < d
    <3> SUFFICES ASSUME ~(q < d) PROVE FALSE
      OBVIOUS
    <3>1. CASE q = d
      BY <2>4, <2>5, <2>6, <3>1
    <3>2. CASE d < q
      <4>1. d * sp + sp <= q * sp
        BY <3>2, Apart
      <4> QED
        BY <2>4, <2>5, <2>6, <4>1
    <3> QED
      BY <3>1, <3>2
  <2> QED
    BY <2>1, <2>7
<1>8. ASSUME NEW i \in 1..d PROVE (i - 1) * sp \in 0..W - 1 /\ ((i - 1) * sp) \div sp = i - 1
  <2>1. PICK h \in Nat : h = i - 1
    OBVIOUS
  <2>2. h * sp + sp <= d * sp /\ h * sp \in Nat
    BY <2>1, Apart
  <2>3. PICK z \in Nat : z = h * sp
    BY <2>2
  <2>4. z \in 0..W - 1
    BY <1>4, <2>2, <2>3
  <2>5. (h * sp) \div sp = h
    BY QuotientOf
  <2> QED
    BY <2>1, <2>3, <2>4, <2>5
<1> QED
  BY <1>2, <1>5, <1>6, <1>7, <1>8

\* The driver.

\* The driver's heap: as after Groups, with evenly filled sets.
DriverInv ==
  /\ Heap(driver, conf.world, NRows, Differ)
  /\ \A s \in driver : Even(s, conf.world)

\* The batch before balancing, and how much the workloads of its rows differ.
LEMMA IdentityIs ==
  ASSUME Setting, NEW b, b = [r \in Rows |-> r]
  PROVE  /\ OnceEach(b, 1..NRows)
         /\ Loads(b) \in [1..NRows -> Nat \ {0}]
         /\ Differ \in Int
         /\ \A i, j \in 1..NRows : Loads(b)[i] - Loads(b)[j] <= Differ
<1>1. PICK N \in Nat \ {0} : N = NRows
  BY SettingIs
<1>2. Rows = 1..N /\ Lengths(lens, N)
  BY <1>1, SettingIs
<1>3. b = [r \in 1..N |-> r]
  BY <1>2
<1>4. b \in [1..N -> 1..N]
  BY <1>3
<1>5. b \in Seq(1..N) /\ Len(b) = N
  BY <1>4, FunctionIsSeq
<1>6. OnceEach(b, 1..N)
  BY <1>3, <1>5 DEF OnceEach
<1>7. Loads(b) \in [1..N -> Nat \ {0}]
  BY <1>2, <1>5, LoadsAre
<1>8. PICK f \in [1..N -> Nat \ {0}] : f = Loads(b)
  BY <1>7
<1>9. f \in [1..N -> Int] /\ \A i \in 1..N : f[i] \in Int
  OBVIOUS
<1>10. /\ Max(ToSet(f)) \in Int /\ Min(ToSet(f)) \in Int
       /\ \A i \in 1..N : Min(ToSet(f)) <= f[i] /\ f[i] <= Max(ToSet(f))
  BY <1>9, SequenceExtremes
<1>11. Differ = Max(ToSet(f)) - Min(ToSet(f))
  BY <1>8 DEF Differ
<1>12. PICK hi \in Int : hi = Max(ToSet(f))
  BY <1>10
<1>13. PICK lo \in Int : lo = Min(ToSet(f))
  BY <1>10
<1>14. \A i \in 1..N : lo <= f[i] /\ f[i] <= hi
  BY <1>10, <1>12, <1>13
<1>15. Differ = hi - lo
  BY <1>11, <1>12, <1>13
<1>16. \A i, j \in 1..N : f[i] - f[j] <= Differ
  BY <1>9, <1>14, <1>15
<1> QED
  BY <1>1, <1>6, <1>7, <1>8, <1>15, <1>16

\* The first heap of the driver.
LEMMA DriverInit ==
  ASSUME Init
  PROVE  Setting /\ DriverInv
<1>1. Setting
  BY DEF Init, Setting
<1>2. batch = [r \in Rows |-> r] /\ driver = Groups(Loads(batch), conf.world)
  BY DEF Init
<1>3. PICK n \in Nat : n = NRows
  BY <1>1, SettingIs
<1>4. PICK loads : loads = Loads(batch)
  OBVIOUS
<1>5. PICK d : d = Differ
  OBVIOUS
<1>6. loads \in [1..n -> Nat \ {0}] /\ d \in Int /\ \A i, j \in 1..n : loads[i] - loads[j] <= d
  BY <1>1, <1>2, <1>3, <1>4, <1>5, IdentityIs
<1>7. loads \in [1..n -> Nat]
  BY <1>6
<1>8. PICK k \in Nat \ {0} : k = conf.world
  BY <1>1, SettingIs
<1>9. PICK m \in Nat \ {0} : Product(n, m, k)
  BY <1>1, <1>3, <1>8, GroupsFill
<1>10. Heap(Groups(loads, k), k, n, d) /\ \A s \in Groups(loads, k) : Even(s, k)
  BY <1>6, <1>7, <1>9, GroupsAre
<1> QED
  BY <1>1, <1>2, <1>3, <1>4, <1>5, <1>8, <1>10 DEF DriverInv

\* No step changes the settings.
LEMMA SettingKept ==
  ASSUME [Next]_vars
  PROVE  conf' = conf /\ lens' = lens
BY DEF Next, Driver, Work, Wait, vars

\* Everything that depends on the settings alone stays.
LEMMA Frame ==
  ASSUME conf' = conf, lens' = lens
  PROVE  /\ Setting' <=> Setting
         /\ Rows' = Rows /\ NRows' = NRows /\ Workers' = Workers /\ DpSize' = DpSize /\ Differ' = Differ
         /\ MaxTokenLen' = MaxTokenLen
         /\ \A w : DpRank(w)' = DpRank(w)
         /\ \A s : Loads(s)' = Loads(s)
BY DEF Setting, Rows, NRows, Workers, DpSize, Differ, DpRank, Loads, MaxTokenLen

\* Every step keeps what holds of the driver's heap.
LEMMA DriverNext ==
  ASSUME Setting, DriverInv, [Next]_vars
  PROVE  Setting' /\ DriverInv'
<1>1. conf' = conf /\ lens' = lens
  BY SettingKept
<1>2. Setting' /\ NRows' = NRows /\ Differ' = Differ /\ conf'.world = conf.world
  BY <1>1, Frame
<1>3. CASE driver' = driver
  BY <1>2, <1>3 DEF DriverInv
<1>4. CASE Balance
  <2>1. PICK s \in driver : \E t \in driver : PoppedTwo(s, t, driver) /\ driver' = MergeTwo(s, t, driver)
    BY <1>4 DEF Balance
  <2>2. PICK t \in driver : PoppedTwo(s, t, driver) /\ driver' = MergeTwo(s, t, driver)
    BY <2>1
  <2>3. s # t
    BY <2>2 DEF PoppedTwo, Popped
  <2>4. PICK k \in Nat \ {0} : k = conf.world
    BY SettingIs
  <2>5. PICK n \in Nat : n = NRows
    BY SettingIs
  <2>6. PICK d \in Int : d = Differ
    <3>1. PICK b : b = [r \in Rows |-> r]
      OBVIOUS
    <3>2. Differ \in Int
      BY <3>1, IdentityIs
    <3> QED
      BY <3>2
  <2>7. Heap(driver, k, n, d) /\ \A u \in driver : Even(u, k)
    BY <2>4, <2>5, <2>6 DEF DriverInv
  <2>8. /\ Heap(MergeTwo(s, t, driver), k, n, d)
        /\ (\A u \in driver : Even(u, k)) => \A u \in MergeTwo(s, t, driver) : Even(u, k)
    BY <2>3, <2>7, HeapMerge
  <2> QED
    BY <1>2, <2>2, <2>4, <2>5, <2>6, <2>7, <2>8 DEF DriverInv
<1>5. driver' = driver \/ Balance
  BY DEF Next, Driver, Work, Wait, vars, Reorder, Filter, Dispatch, DispatchFails, Collect
<1> QED
  BY <1>2, <1>3, <1>4, <1>5

\* Before the batch is filtered.
EarlyPcs == {"balance", "filter"}
\* After.
LatePcs == {"dispatch", "chunk_error", "wait", "done"}

\* The rows of the batch after filtering are those of some prompts, the labeled ones among them.
Filtered(P) ==
  /\ P \subseteq 1..conf.prompts /\ conf.labeled \subseteq P
  /\ OnceEach(batch, RowsOf(P, conf.prompts, conf.n))

\* The rows of the batch, by where the driver is.
BatchInv ==
  /\ pc \in EarlyPcs \cup LatePcs
  /\ pc = "balance" => batch = [r \in Rows |-> r]
  /\ pc \in EarlyPcs => OnceEach(batch, 1..NRows)
  /\ pc \in LatePcs => \E P : Filtered(P)
  /\ pc = "chunk_error" => ~Divides
  /\ pc \in {"wait", "done"} => Divides

\* The driver's last state cuts the rows into parts of one size, one per worker.
LEMMA OneState ==
  ASSUME Setting, DriverInv, NEW s \in driver, Cardinality(driver) = 1
  PROVE  /\ driver = {s} /\ s \in [1..conf.world -> KKSet]
         /\ Covers(s, conf.world, NRows)
         /\ \A i \in 1..conf.world : Len(s[i].items) * conf.world = NRows
<1>1. IsFiniteSet(driver)
  BY DEF DriverInv, Heap
<1>2. PICK x : driver = {x}
  BY <1>1, FS_Singleton
<1>3. driver = {s}
  BY <1>2
<1>4. PICK k \in Nat \ {0} : k = conf.world
  BY SettingIs
<1>5. PICK n \in Nat : n = NRows
  BY SettingIs
<1>6. s \in [1..k -> KKSet] /\ Holds({s}, 1..n) /\ Even(s, k)
  BY <1>3, <1>4, <1>5 DEF DriverInv, Heap, KKState
<1>7. Covers(s, k, n)
  BY <1>6, OneStateHas
<1>8. \A i \in 1..k : Len(s[i].items) * k = n
  BY <1>6, EvenSizes
<1> QED
  BY <1>3, <1>4, <1>5, <1>6, <1>7, <1>8

\* The batch at the start.
LEMMA BatchInit ==
  ASSUME Init
  PROVE  BatchInv
<1>1. Setting
  BY DEF Init, Setting
<1>2. batch = [r \in Rows |-> r] /\ pc = "balance"
  BY DEF Init
<1>3. OnceEach(batch, 1..NRows)
  BY <1>1, <1>2, IdentityIs
<1> QED
  BY <1>2, <1>3 DEF BatchInv, EarlyPcs, LatePcs

\* Every step keeps the rows of the batch: reordering permutes them, filtering keeps whole prompts.
LEMMA BatchNext ==
  ASSUME Setting, DriverInv, BatchInv, [Next]_vars
  PROVE  BatchInv'
<1>1. conf' = conf /\ lens' = lens
  BY SettingKept
<1>2. Setting' /\ Rows' = Rows /\ NRows' = NRows /\ DpSize' = DpSize
  BY <1>1, Frame
<1> DEFINE After2 == \/ pc' = "balance" /\ pc = "balance"
                     \/ pc' = "filter" /\ pc = "filter"
                     \/ pc' = "dispatch" /\ pc = "dispatch"
                     \/ pc' = "chunk_error" /\ pc \in {"chunk_error", "dispatch"} /\ ~Divides
                     \/ pc' = "wait" /\ pc \in {"wait", "dispatch"} /\ Divides
                     \/ pc' = "done" /\ pc \in {"done", "wait"} /\ Divides
<1>3. CASE batch' = batch /\ After2
  <2>1. \A P : Filtered(P)' <=> Filtered(P)
    BY <1>1, <1>3 DEF Filtered
  <2>2. Divides' <=> Divides
    BY <1>2, <1>3 DEF Divides
  <2> QED
    BY <1>2, <1>3, <2>1, <2>2 DEF BatchInv, EarlyPcs, LatePcs
<1>4. CASE Reorder
  <2>1. pc = "balance" /\ Cardinality(driver) = 1 /\ pc' = "filter"
    BY <1>4 DEF Reorder
  <2>2. PICK loads : loads = Loads(batch)
    OBVIOUS
  <2>3. PICK s \in driver :
          batch' = FlattenSeq([i \in DOMAIN s |-> LET up == Ascending(loads, ToSet(s[i].items))
                                                  IN  Evens(up) \o Reverse(Odds(up))])
    BY <1>4, <2>2 DEF Reorder
  <2>4. PICK n \in Nat : n = NRows
    BY SettingIs
  <2>5. PICK k \in Nat \ {0} : k = conf.world
    BY SettingIs
  <2>6. s \in [1..k -> KKSet] /\ Covers(s, k, n)
    BY <2>1, <2>4, <2>5, OneState
  <2>7. \A x \in 1..n : loads[x] \in Int
    <3>1. batch = [r \in Rows |-> r]
      BY <2>1 DEF BatchInv
    <3>2. loads \in [1..n -> Nat \ {0}]
      BY <2>2, <2>4, <3>1, IdentityIs
    <3> QED
      BY <3>2
  <2>8. PICK ends : ends = [i \in 1..k |-> LET up == Ascending(loads, ToSet(s[i].items))
                                           IN  Evens(up) \o Reverse(Odds(up))]
    OBVIOUS
  <2>9. batch' = FlattenSeq(ends)
    <3>1. DOMAIN s = 1..k
      BY <2>6
    <3> QED
      BY <2>3, <2>8, <3>1
  <2>10. OnceEach(FlattenSeq(ends), 1..n)
    BY <2>6, <2>7, <2>8, ReorderOnce
  <2>11. OnceEach(batch', 1..n)
    BY <2>9, <2>10
  <2> QED
    BY <1>2, <2>1, <2>4, <2>11 DEF BatchInv, EarlyPcs, LatePcs
<1>5. CASE Filter
  <2>1. pc = "filter" /\ pc' = "dispatch"
    BY <1>5 DEF Filter
  <2>2. PICK sel \in SUBSET (1..conf.prompts \ conf.labeled) : batch' = Kept(sel)
    BY <1>5 DEF Filter
  <2>3. PICK m \in Nat \ {0} : m = conf.prompts
    BY SettingIs
  <2>4. PICK n \in Nat \ {0} : n = conf.n
    BY SettingIs
  <2>5. conf.labeled \subseteq 1..m
    BY <2>3, SettingIs
  <2>6. OnceEach(batch, 1..m * n)
    BY <2>1, <2>3, <2>4 DEF BatchInv, EarlyPcs, NRows
  <2>7. sel \in SUBSET (1..m)
    BY <2>2, <2>3
  <2>8. OnceEach(Kept(sel), RowsOf(conf.labeled \cup sel, m, n))
    BY <2>3, <2>4, <2>5, <2>6, <2>7, KeptOnce
  <2>9. PICK P : P = conf.labeled \cup sel
    OBVIOUS
  <2>10. Filtered(P)'
    BY <1>1, <2>2, <2>3, <2>4, <2>5, <2>7, <2>8, <2>9 DEF Filtered
  <2> QED
    BY <2>1, <2>10 DEF BatchInv, EarlyPcs, LatePcs
<1>6. (batch' = batch /\ After2) \/ Reorder \/ Filter
  <2>1. CASE Driver
    <3>1. CASE Balance
      BY <3>1 DEF Balance
    <3>2. CASE Dispatch
      BY <3>2 DEF Dispatch
    <3>3. CASE DispatchFails
      BY <3>3 DEF DispatchFails
    <3>4. CASE Collect
      BY <3>4 DEF Collect, BatchInv
    <3> QED
      BY <2>1, <3>1, <3>2, <3>3, <3>4 DEF Driver
  <2>2. CASE batch' = batch /\ pc' = pc
    BY <2>2 DEF BatchInv, EarlyPcs, LatePcs
  <2> QED
    BY <2>1, <2>2 DEF Next, Work, Wait, vars
<1> QED
  BY <1>3, <1>4, <1>5, <1>6

\* A filtered batch is not empty, and its length is a multiple of n.
LEMMA FilteredLength ==
  ASSUME Setting, NEW P, Filtered(P)
  PROVE  /\ Cardinality(P) \in Nat \ {0} /\ Len(batch) = Cardinality(P) * conf.n
         /\ Len(batch) \in Nat \ {0}
<1>1. PICK m \in Nat \ {0} : m = conf.prompts
  BY SettingIs
<1>2. PICK n \in Nat \ {0} : n = conf.n
  BY SettingIs
<1>3. P \in SUBSET (1..m) /\ OnceEach(batch, RowsOf(P, m, n))
  BY <1>1, <1>2 DEF Filtered
<1>4. Cardinality(RowsOf(P, m, n)) = Cardinality(P) * n /\ Cardinality(P) \in Nat
  BY <1>3, RowsOfPrompts
<1>5. Len(batch) = Cardinality(P) * n
  BY <1>3, <1>4, OnceLength
<1>6. Cardinality(P) # 0
  <2>1. P # {}
    BY SettingIs DEF Filtered
  <2>2. IsFiniteSet(P)
    <3>1. IsFiniteSet(1..m)
      BY FS_Interval
    <3> QED
      BY <1>3, <3>1, FS_Subset
  <2> QED
    BY <2>1, <2>2, FS_EmptySet
<1>7. PICK c \in Nat \ {0} : c = Cardinality(P)
  BY <1>4, <1>6
<1>8. c * n \in Nat \ {0}
  OBVIOUS
<1> QED
  BY <1>2, <1>5, <1>7, <1>8

\* Where n is a multiple of the number of ranks a filtered batch divides.
LEMMA DivisibleHolds ==
  ASSUME Setting, BatchInv
  PROVE  DivisibleDispatches
<1> SUFFICES ASSUME conf.n % DpSize = 0, pc = "chunk_error" PROVE FALSE
  BY DEF DivisibleDispatches
<1>1. PICK P : Filtered(P)
  BY DEF BatchInv, LatePcs
<1>2. ~Divides
  BY DEF BatchInv
<1>3. PICK n \in Nat \ {0} : n = conf.n
  BY SettingIs
<1>4. PICK d \in Nat \ {0} : d = DpSize
  BY RanksAre
<1>5. PICK c \in Nat \ {0} : c = Cardinality(P)
  BY <1>1, FilteredLength
<1>6. Len(batch) = c * n
  BY <1>1, <1>3, <1>5, FilteredLength
<1>7. n % d = 0
  BY <1>3, <1>4
<1>8. (c * n) % d = 0
  BY <1>7, MultipleIs
<1> QED
  BY <1>2, <1>4, <1>6, <1>8 DEF Divides

\* When rollout.n is a multiple of the number of data-parallel ranks every filtered batch is
\* dispatched.
THEOREM EveryDispatchDivides == Spec => []DivisibleDispatches
<1>1. Init => Setting /\ DriverInv /\ BatchInv
  BY DriverInit, BatchInit
<1>2. Setting /\ DriverInv /\ BatchInv /\ [Next]_vars => (Setting /\ DriverInv /\ BatchInv)'
  BY DriverNext, BatchNext
<1>3. Setting /\ BatchInv => DivisibleDispatches
  BY DivisibleHolds
<1> QED
  BY <1>1, <1>2, <1>3, PTL DEF Spec

\* A worker.

\* o is the samples c in the order of the first i - 1 micro-batches of m.
Sampled(o, c, m, i, S) ==
  /\ o \in Seq(S)
  /\ \A t : Starts(t, m) =>
       /\ Len(o) = t[i - 1]
       /\ \A j \in 1..t[i - 1] : o[j] = c[FlattenSeq(m)[j]]

\* The heap of a worker that cuts n rows into k micro-batches.
Merging(h, loads, k, n) ==
  /\ Heap(h, k, n, Max(ToSet(loads)))
  /\ \A s \in h : Filled(s, k)

\* A worker at a, whose next micro-batch is the i-th of m, has the output o for its chunk c.
Progress(a, i, m, o, c, k, n, S) ==
  \/ a = "merge" /\ i = 1 /\ m = <<>> /\ o = <<>>
  \/ a = "forward" /\ Spots(m, k, 1..n) /\ Sampled(o, c, m, i, S)
  \/ a = "returned" /\ i = k + 1 /\ Spots(m, k, 1..n) /\ o = c

\* The heap a worker starts with.
LEMMA MergingStarts ==
  ASSUME NEW k \in Nat \ {0}, NEW n \in Nat \ {0}, NEW loads \in [1..n -> Nat \ {0}]
  PROVE  Merging(Singles(loads, k), loads, k, n)
<1>1. loads \in [1..n -> Int]
  OBVIOUS
<1>2. Max(ToSet(loads)) \in Int /\ \A i \in 1..n : loads[i] <= Max(ToSet(loads))
  BY <1>1, SequenceExtremes
<1>3. PICK d \in Int : d = Max(ToSet(loads))
  BY <1>2
<1>4. \A i \in 1..n : loads[i] <= d
  BY <1>2, <1>3
<1>5. Heap(Singles(loads, k), k, n, d) /\ \A s \in Singles(loads, k) : Filled(s, k)
  BY <1>4, SinglesAre
<1> QED
  BY <1>3, <1>5 DEF Merging

\* A merge keeps what holds of a worker's heap.
LEMMA MergingGoesOn ==
  ASSUME NEW k \in Nat \ {0}, NEW n \in Nat \ {0}, NEW loads \in [1..n -> Nat \ {0}], NEW h,
         Merging(h, loads, k, n), NEW s \in h, NEW t \in h, PoppedTwo(s, t, h)
  PROVE  Merging(MergeTwo(s, t, h), loads, k, n)
<1>1. loads \in [1..n -> Int]
  OBVIOUS
<1>2. Max(ToSet(loads)) \in Int
  BY <1>1, SequenceExtremes
<1>3. PICK d \in Int : d = Max(ToSet(loads))
  BY <1>2
<1>4. Heap(h, k, n, d) /\ \A u \in h : Filled(u, k)
  BY <1>3 DEF Merging
<1>5. s # t
  BY DEF PoppedTwo, Popped
<1>6. Heap(MergeTwo(s, t, h), k, n, d) /\ ((\A u \in h : Filled(u, k)) => \A u \in MergeTwo(s, t, h) : Filled(u, k))
  BY <1>4, <1>5, HeapMerge
<1> QED
  BY <1>3, <1>4, <1>6 DEF Merging

\* The last state of a worker cuts its rows into parts, none of them empty.
LEMMA OneHeap ==
  ASSUME NEW k \in Nat \ {0}, NEW n \in Nat \ {0}, k <= n, NEW loads, NEW h, Merging(h, loads, k, n),
         Cardinality(h) = 1, NEW s \in h
  PROVE  s \in [1..k -> KKSet] /\ Covers(s, k, n) /\ \A i \in 1..k : Len(s[i].items) > 0
<1>1. IsFiniteSet(h)
  BY DEF Merging, Heap
<1>2. PICK x : h = {x}
  BY <1>1, FS_Singleton
<1>3. h = {s}
  BY <1>2
<1>4. s \in [1..k -> KKSet] /\ Holds({s}, 1..n) /\ Filled(s, k)
  BY <1>3 DEF Merging, Heap, KKState
<1>5. Covers(s, k, n)
  BY <1>4, OneStateHas
<1>6. \A i \in 1..k : Len(s[i].items) > 0
  BY <1>4, FilledSets
<1> QED
  BY <1>4, <1>5, <1>6

\* The micro-batches of the last state hold every row of the chunk, before the first forward pass.
LEMMA CutProgress ==
  ASSUME NEW k \in Nat \ {0}, NEW n \in Nat \ {0}, k <= n, NEW loads, NEW h, Merging(h, loads, k, n),
         Cardinality(h) = 1, NEW s \in h, NEW c, NEW S
  PROVE  Progress("forward", 1, MicroBatches(s), <<>>, c, k, n, S)
<1>1. s \in [1..k -> KKSet] /\ Covers(s, k, n) /\ \A i \in 1..k : Len(s[i].items) > 0
  BY OneHeap
<1>2. PICK m : m = MicroBatches(s)
  OBVIOUS
<1>3. Spots(m, k, 1..n)
  BY <1>1, <1>2, MicroBatchesAre
<1>4. \A t : Starts(t, m) => t[0] = 0
  BY DEF Starts, Totals
<1>5. <<>> \in Seq(S) /\ Len(<<>>) = 0
  OBVIOUS
<1>6. Sampled(<<>>, c, m, 1, S)
  <2>1. ASSUME NEW t, Starts(t, m) PROVE Len(<<>>) = t[1 - 1] /\ \A j \in 1..t[1 - 1] : <<>>[j] = c[FlattenSeq(m)[j]]
    <3>1. t[1 - 1] = 0
      BY <1>4, <2>1
    <3>2. 1..t[1 - 1] = {}
      BY <3>1
    <3> QED
      BY <1>5, <3>1, <3>2
  <2> QED
    BY <1>5, <2>1 DEF Sampled
<1> QED
  BY <1>2, <1>3, <1>6 DEF Progress

\* The micro-batches one after the other hold every row of the chunk.
LEMMA SpotsFlatten ==
  ASSUME NEW k \in Nat, NEW n \in Nat, NEW m, Spots(m, k, 1..n)
  PROVE  /\ m \in Seq(Seq(1..n)) /\ Len(m) = k /\ m \in [1..k -> Seq(1..n)]
         /\ OnceEach(FlattenSeq(m), 1..n)
         /\ \E t : Starts(t, m)
         /\ \A t : Starts(t, m) => Lays(FlattenSeq(m), m, t, k) /\ t[k] = n
<1>1. m \in [1..k -> Seq(1..n)]
  BY DEF Spots
<1>2. m \in Seq(Seq(1..n)) /\ Len(m) = k
  BY <1>1, FunctionIsSeq
<1>3. OnceEach(FlattenSeq(m), 1..n)
  BY FlattenOnce
<1>4. /\ \E t : Starts(t, m)
      /\ \A t : Starts(t, m) => Lays(FlattenSeq(m), m, t, k)
  BY <1>2, FlattenLays
<1>5. Len(FlattenSeq(m)) = n
  <2>1. PICK T : T = 1..n
    OBVIOUS
  <2>2. OnceEach(FlattenSeq(m), T)
    BY <1>3, <2>1
  <2>3. Cardinality(T) = Len(FlattenSeq(m))
    BY <2>2, OnceLength
  <2>4. Cardinality(T) = n
    BY <2>1, FS_Interval
  <2> QED
    BY <2>3, <2>4
<1>6. \A t : Starts(t, m) => t[k] = n
  BY <1>4, <1>5 DEF Lays
<1> QED
  BY <1>1, <1>2, <1>3, <1>4, <1>6

\* A forward pass appends the outputs of the next micro-batch.
LEMMA ForwardProgress ==
  ASSUME NEW k \in Nat \ {0}, NEW n \in Nat \ {0}, NEW S, NEW c \in [1..n -> S], NEW m, NEW o, NEW i \in Nat \ {0},
         i <= k, Progress("forward", i, m, o, c, k, n, S)
  PROVE  Progress("forward", i + 1, m, o \o [j \in DOMAIN m[i] |-> c[m[i][j]]], c, k, n, S)
<1>1. Spots(m, k, 1..n) /\ Sampled(o, c, m, i, S)
  BY DEF Progress
<1>2. /\ m \in Seq(Seq(1..n)) /\ Len(m) = k /\ m \in [1..k -> Seq(1..n)]
      /\ \A t : Starts(t, m) => Lays(FlattenSeq(m), m, t, k) /\ t[k] = n
  BY <1>1, SpotsFlatten
<1>3. PICK p \in Seq(1..n) : p = m[i]
  BY <1>2
<1>4. PICK l \in Nat : l = Len(p)
  OBVIOUS
<1>5. p \in [1..l -> 1..n] /\ DOMAIN p = 1..l
  BY <1>4, SeqIsFunction
<1>6. PICK f : f = [j \in 1..l |-> c[p[j]]]
  OBVIOUS
<1>7. f = [j \in DOMAIN m[i] |-> c[m[i][j]]]
  BY <1>3, <1>5, <1>6
<1>8. f \in [1..l -> S]
  BY <1>5, <1>6
<1>9. f \in Seq(S) /\ Len(f) = l
  BY <1>8, FunctionIsSeq
<1>10. o \in Seq(S)
  BY <1>1 DEF Sampled
<1>11. PICK a \in Nat : a = Len(o)
  BY <1>10
<1>12. PICK r : r = o \o f
  OBVIOUS
<1>13. Concatenates(r, o, f, a, l, S)
  BY <1>9, <1>10, <1>11, <1>12, ConcatIs
<1>14. ASSUME NEW t, Starts(t, m)
       PROVE  Len(r) = t[(i + 1) - 1] /\ \A j \in 1..t[(i + 1) - 1] : r[j] = c[FlattenSeq(m)[j]]
  <2>1. Lays(FlattenSeq(m), m, t, k)
    BY <1>2, <1>14
  <2>2. t[i - 1] = a /\ \A j \in 1..a : o[j] = c[FlattenSeq(m)[j]]
    BY <1>1, <1>11, <1>14 DEF Sampled
  <2>3. i \in 1..k
    OBVIOUS
  <2>4. t[i] = t[i - 1] + l
    <3>1. PICK d : d = [j \in 1..Len(m) |-> Len(m[j])]
      OBVIOUS
    <3>2. Totals(t, d, k)
      BY <1>2, <1>14, <3>1 DEF Starts
    <3>3. d[i] = l
      BY <1>2, <1>3, <1>4, <2>3, <3>1
    <3> QED
      BY <2>3, <3>2, <3>3 DEF Totals
  <2>5. t[i] = a + l /\ (i + 1) - 1 = i
    BY <2>2, <2>4
  <2>6. ASSUME NEW j \in 1..a + l PROVE r[j] = c[FlattenSeq(m)[j]]
    <3>1. CASE j <= a
      <4>1. r[j] = o[j] /\ j \in 1..a
        BY <1>13, <3>1 DEF Concatenates
      <4> QED
        BY <2>2, <4>1
    <3>2. CASE ~(j <= a)
      <4>1. PICK q \in 1..l : q = j - a
        BY <3>2
      <4>2. r[j] = f[q]
        BY <1>13, <3>2, <4>1 DEF Concatenates
      <4>3. r[j] = c[p[q]]
        BY <1>6, <4>2
      <4>4. t[i - 1] + q = j
        BY <2>2, <4>1
      <4>5. FlattenSeq(m)[j] = m[i][q]
        BY <1>3, <1>4, <2>1, <2>3, <4>4 DEF Lays
      <4> QED
        BY <1>3, <4>3, <4>5
    <3> QED
      BY <3>1, <3>2
  <2>7. Len(r) = a + l
    BY <1>13 DEF Concatenates
  <2> QED
    BY <2>5, <2>6, <2>7
<1>15. r \in Seq(S)
  BY <1>13 DEF Concatenates
<1>16. Sampled(r, c, m, i + 1, S)
  BY <1>14, <1>15 DEF Sampled
<1> QED
  BY <1>1, <1>7, <1>12, <1>16 DEF Progress

\* After the last pass restoring the order gives the chunk.
LEMMA RestoreProgress ==
  ASSUME NEW k \in Nat \ {0}, NEW n \in Nat \ {0}, NEW S, NEW c \in [1..n -> S], NEW m, NEW o,
         Progress("forward", k + 1, m, o, c, k, n, S)
  PROVE  Progress("returned", k + 1, m, Restored(o, FlattenSeq(m)), c, k, n, S)
<1>1. Spots(m, k, 1..n) /\ Sampled(o, c, m, k + 1, S)
  BY DEF Progress
<1>2. OnceEach(FlattenSeq(m), 1..n) /\ \E t : Starts(t, m)
  BY <1>1, SpotsFlatten
<1>3. PICK t : Starts(t, m)
  BY <1>2
<1>4. t[k] = n
  BY <1>1, <1>3, SpotsFlatten
<1>5. (k + 1) - 1 = k
  OBVIOUS
<1>6. o \in Seq(S) /\ Len(o) = n /\ \A j \in 1..n : o[j] = c[FlattenSeq(m)[j]]
  BY <1>1, <1>3, <1>4, <1>5 DEF Sampled
<1>7. o \in [1..n -> S]
  BY <1>6, SeqIsFunction
<1>8. PICK q : q = FlattenSeq(m)
  OBVIOUS
<1>9. OnceEach(q, 1..n) /\ \A j \in 1..n : o[j] = c[q[j]]
  BY <1>2, <1>6, <1>8
<1>10. Restored(o, q) = c
  <2>1. Shuffled(o, c, q, n, S)
    BY <1>7, <1>9 DEF Shuffled
  <2> QED
    BY <2>1, RestoredIs
<1>11. PICK r : r = Restored(o, FlattenSeq(m))
  OBVIOUS
<1>12. r = c
  BY <1>8, <1>10, <1>11
<1>13. Progress("returned", k + 1, m, r, c, k, n, S)
  BY <1>1, <1>12 DEF Progress
<1> QED
  BY <1>11, <1>13

-----------------------------------------------------------------------------
\* The workers and the driver.

\* The workers.

\* The rows of a chunk.
Size == Len(batch) \div DpSize

\* No worker has been called.
Idle ==
  /\ at = [w \in Workers |-> "idle"] /\ chunk = [w \in Workers |-> <<>>]
  /\ count = [w \in Workers |-> 0] /\ heap = [w \in Workers |-> {}]
  /\ micro = [w \in Workers |-> <<>>] /\ turn = 1 /\ out = [w \in Workers |-> <<>>]

\* Every worker has the chunk of its rank.
Chunks == DOMAIN chunk = Workers /\ \A w \in Workers : Slice(chunk[w], batch, DpRank(w), Size, Rows)

\* The workers agree on the number of micro-batches.
Starting ==
  /\ at \in [Workers -> {"count", "reduce"}] /\ turn = 1
  /\ heap = [w \in Workers |-> {}] /\ micro = [w \in Workers |-> <<>>] /\ out = [w \in Workers |-> <<>>]
  /\ DOMAIN count = Workers
  /\ \A w \in Workers : IF at[w] = "count" THEN count[w] = 0 ELSE count[w] \in 1..Size

\* They have agreed on k.
Working(k) ==
  /\ k \in 1..Size /\ turn \in 1..k + 1
  /\ at \in [Workers -> {"merge", "forward", "returned"}] /\ DOMAIN heap = Workers /\ DOMAIN micro = Workers /\ DOMAIN out = Workers
  /\ count = [w \in Workers |-> k]
  /\ \A w \in Workers :
       /\ Merging(heap[w], Loads(chunk[w]), k, Size)
       /\ Progress(at[w], turn, micro[w], out[w], chunk[w], k, Size, Rows)

\* What holds of the workers, by where the driver is.
WorkInv ==
  /\ pc \in {"balance", "filter", "dispatch", "chunk_error"} => Idle
  /\ pc \in {"wait", "done"} => Chunks /\ (Starting \/ \E k : Working(k))
  /\ result = IF pc = "done" THEN batch ELSE <<>>

\* Chunks of one size make up a batch that was dispatched.
LEMMA SizeIs ==
  ASSUME Setting, BatchInv, pc \in {"wait", "done"}
  PROVE  /\ Size \in Nat \ {0} /\ Product(Len(batch), DpSize, Size) /\ batch \in Seq(Rows)
         /\ Size <= NRows
<1>1. PICK P : Filtered(P)
  BY DEF BatchInv, LatePcs
<1>2. PICK n \in Nat \ {0} : n = Len(batch)
  BY <1>1, FilteredLength
<1>3. PICK d \in Nat \ {0} : d = DpSize
  BY RanksAre
<1>4. n % d = 0
  BY <1>2, <1>3 DEF BatchInv, Divides
<1>5. PICK s \in Nat : s = n \div d
  BY Euclid
<1>6. n = s * d
  <2>1. n = (n \div d) * d + (n % d)
    BY Euclid
  <2>2. s * d \in Nat
    OBVIOUS
  <2> QED
    BY <1>4, <1>5, <2>1, <2>2
<1>7. n = d * s
  BY <1>6
<1>8. s # 0
  BY <1>6
<1>9. s <= n
  <2>1. PICK e \in Nat : d = e + 1
    <3>1. d - 1 \in Nat /\ d = (d - 1) + 1
      OBVIOUS
    <3> QED
      BY <3>1
  <2>2. PICK f \in Nat : f = s * e
    <3>1. s * e \in Nat
      OBVIOUS
    <3> QED
      BY <3>1
  <2>3. n = f + s
    BY <1>6, <2>1, <2>2
  <2> QED
    BY <2>3
<1>10. PICK R : R = RowsOf(P, conf.prompts, conf.n)
  OBVIOUS
<1>11. OnceEach(batch, R) /\ R \in SUBSET Rows
  BY <1>1, <1>10 DEF Filtered, RowsOf, Rows
<1>12. batch \in Seq(Rows)
  <2>1. batch \in [1..n -> R]
    BY <1>2, <1>11, SeqIsFunction DEF OnceEach
  <2>2. batch \in [1..n -> Rows]
    BY <1>11, <2>1
  <2> QED
    BY <2>2, FunctionIsSeq
<1>13. n <= NRows
  <2>1. PICK N \in Nat : N = NRows
    BY SettingIs
  <2>2. IsFiniteSet(Rows) /\ Cardinality(Rows) = N
    <3>1. IsFiniteSet(1..N) /\ Cardinality(1..N) = N
      BY FS_Interval
    <3> QED
      BY <2>1, <3>1, SettingIs
  <2>3. Cardinality(R) <= Cardinality(Rows)
    BY <1>11, <2>2, FS_Subset
  <2>4. Cardinality(R) = n
    BY <1>2, <1>11, OnceLength
  <2> QED
    BY <2>1, <2>2, <2>3, <2>4
<1>14. Size = s
  BY <1>2, <1>3, <1>5 DEF Size
<1>15. PICK N \in Nat : N = NRows
  BY SettingIs
<1> QED
  BY <1>2, <1>3, <1>7, <1>8, <1>9, <1>12, <1>13, <1>14, <1>15 DEF Product

\* The workers at the start.
LEMMA WorkInit ==
  ASSUME Init
  PROVE  WorkInv
BY DEF Init, WorkInv, Idle

\* What a step of the workers leaves alone.
LEMMA WorkFrame ==
  ASSUME conf' = conf, lens' = lens, batch' = batch
  PROVE  /\ Size' = Size
         /\ chunk' = chunk => (Chunks' <=> Chunks) /\ \A w : Loads(chunk[w])' = Loads(chunk[w])
BY Frame DEF Size, Chunks, Loads

\* Dispatch sends every worker the chunk of its rank.
LEMMA DispatchKeeps ==
  ASSUME Setting, BatchInv, WorkInv, BatchInv', Setting', Dispatch, conf' = conf, lens' = lens
  PROVE  WorkInv'
<1>1. pc = "dispatch" /\ pc' = "wait" /\ batch' = batch /\ at' = [w \in Workers |-> "count"]
  BY DEF Dispatch
<1>2. Idle
  BY <1>1 DEF WorkInv
<1>3. /\ Size' = Size /\ Rows' = Rows /\ Workers' = Workers /\ DpSize' = DpSize
      /\ \A w : DpRank(w)' = DpRank(w)
  BY <1>1, Frame, WorkFrame
<1>4. /\ Size \in Nat \ {0} /\ Product(Len(batch), DpSize, Size) /\ batch \in Seq(Rows)
  <2>1. (pc \in {"wait", "done"})'
    BY <1>1
  <2>2. (/\ Size \in Nat \ {0} /\ Product(Len(batch), DpSize, Size) /\ batch \in Seq(Rows)
         /\ Size <= NRows)'
    BY <2>1, SizeIs, PTL
  <2> QED
    BY <1>1, <1>3, <2>2 DEF Product
<1>5. PICK size \in Nat \ {0} : size = Size
  BY <1>4
<1>6. chunk' = [w \in Workers |-> SubSeq(batch, DpRank(w) * size + 1, (DpRank(w) + 1) * size)]
  BY <1>5 DEF Dispatch, Size
<1>7. ASSUME NEW w \in Workers PROVE Slice(chunk'[w], batch, DpRank(w), size, Rows)
  <2>1. PICK d \in Nat \ {0} : d = DpSize
    BY RanksAre
  <2>2. PICK r \in Nat : r = DpRank(w)
    BY RanksAre
  <2>3. r < d
    BY <2>1, <2>2, RanksAre
  <2>4. PICK S : S = Rows
    OBVIOUS
  <2>5. Product(Len(batch), d, size) /\ batch \in Seq(S)
    BY <1>4, <1>5, <2>1, <2>4
  <2>6. Slice(SubSeq(batch, r * size + 1, (r + 1) * size), batch, r, size, S)
    BY <2>3, <2>5, SliceIs
  <2> QED
    BY <1>6, <2>2, <2>4, <2>6
<1>8. Chunks'
  BY <1>1, <1>3, <1>5, <1>6, <1>7 DEF Chunks
<1>9. Starting'
  BY <1>1, <1>2, <1>3 DEF Idle, Starting, Dispatch
<1>10. result' = <<>>
  BY <1>1 DEF Dispatch, WorkInv
<1> QED
  BY <1>1, <1>8, <1>9, <1>10 DEF WorkInv

\* Collect finds the chunks in the order of the batch.
LEMMA CollectKeeps ==
  ASSUME Setting, BatchInv, WorkInv, Collect, conf' = conf, lens' = lens
  PROVE  WorkInv'
<1>1. /\ pc = "wait" /\ pc' = "done" /\ batch' = batch /\ UNCHANGED onWorkers
      /\ \A w \in Workers : at[w] = "returned"
      /\ result' = FlattenSeq([i \in 1..DpSize |-> out[(i - 1) * conf.sp]])
  BY DEF Collect
<1>2. Chunks /\ (Starting \/ \E k : Working(k))
  BY <1>1 DEF WorkInv
<1>3. PICK w \in Workers : w = 0
  <2>1. PICK W \in Nat \ {0} : W = conf.world
    BY SettingIs
  <2>2. Workers = 0..W - 1
    BY <2>1, SettingIs
  <2> QED
    BY <2>2
<1>4. PICK k : Working(k)
  <2>1. ~Starting
    BY <1>1, <1>3 DEF Starting
  <2> QED
    BY <1>2, <2>1
<1>5. \A v \in Workers : out[v] = chunk[v]
  BY <1>1, <1>4 DEF Working, Progress
<1>6. PICK d \in Nat \ {0} : d = DpSize
  BY RanksAre
<1>7. PICK size \in Nat \ {0} : size = Size
  BY <1>1, SizeIs
<1>8. PICK S : S = Rows
  OBVIOUS
<1>9. Product(Len(batch), d, size) /\ batch \in Seq(S)
  BY <1>1, <1>6, <1>7, <1>8, SizeIs
<1>10. PICK parts : parts = [i \in 1..d |-> out[(i - 1) * conf.sp]]
  OBVIOUS
<1>11. ASSUME NEW i \in 1..d PROVE Slice(parts[i], batch, i - 1, size, S)
  <2>1. PICK v \in Workers : v = (i - 1) * conf.sp
    BY <1>6, RanksAre
  <2>2. DpRank(v) = i - 1
    BY <1>6, <2>1, RanksAre
  <2>3. parts[i] = chunk[v]
    BY <1>5, <1>10, <2>1
  <2>4. Slice(chunk[v], batch, DpRank(v), size, S)
    BY <1>2, <1>7, <1>8 DEF Chunks
  <2> QED
    BY <2>2, <2>3, <2>4
<1>12. DOMAIN parts = 1..d /\ parts = [i \in 1..d |-> parts[i]]
  BY <1>10
<1>13. FlattenSeq(parts) = batch
  BY <1>9, <1>11, <1>12, CollectIs
<1>14. result' = batch'
  BY <1>1, <1>6, <1>10, <1>13
<1>15. Size' = Size /\ Rows' = Rows /\ Workers' = Workers /\ (\A v : Loads(chunk[v])' = Loads(chunk[v])) /\ (Chunks' <=> Chunks)
  BY <1>1, Frame, WorkFrame DEF onWorkers
<1>16. Working(k)'
  BY <1>1, <1>4, <1>15 DEF Working, onWorkers
<1> QED
  BY <1>1, <1>2, <1>14, <1>15, <1>16 DEF WorkInv

\* What holds of the workers from their call on.
Busy == Chunks /\ (Starting \/ \E k : Working(k))

\* A worker that has left its first state has a chunk and workloads.
LEMMA ActiveIs ==
  ASSUME Setting, BatchInv, WorkInv, NEW w \in Workers, at[w] # "idle"
  PROVE  /\ pc \in {"wait", "done"} /\ Busy
         /\ Size \in Nat \ {0}
         /\ \A v \in Workers : chunk[v] \in [1..Size -> Rows] /\ Loads(chunk[v]) \in [1..Size -> Nat \ {0}]
<1>1. pc \in {"wait", "done"}
  <2>1. ~Idle
    BY DEF Idle
  <2> QED
    BY <2>1 DEF BatchInv, EarlyPcs, LatePcs, WorkInv
<1>2. Busy
  BY <1>1 DEF WorkInv, Busy
<1>3. PICK n \in Nat \ {0} : n = Size
  BY <1>1, SizeIs
<1>4. PICK N \in Nat \ {0} : N = NRows /\ Rows = 1..N /\ Lengths(lens, N)
  BY SettingIs
<1>5. ASSUME NEW v \in Workers PROVE chunk[v] \in [1..n -> Rows] /\ Loads(chunk[v]) \in [1..n -> Nat \ {0}]
  <2>1. chunk[v] \in [1..n -> Rows]
    BY <1>2, <1>3 DEF Busy, Chunks, Slice
  <2>2. chunk[v] \in Seq(1..N) /\ Len(chunk[v]) = n
    BY <1>4, <2>1, FunctionIsSeq
  <2>3. Loads(chunk[v]) \in [1..n -> Nat \ {0}]
    BY <1>4, <2>2, LoadsAre
  <2> QED
    BY <2>1, <2>3
<1> QED
  BY <1>1, <1>2, <1>3, <1>5

\* What a step of the workers that keeps the chunks leaves alone.
LEMMA FrameOfWork ==
  ASSUME conf' = conf, lens' = lens, batch' = batch, chunk' = chunk
  PROVE  /\ Size' = Size /\ Rows' = Rows /\ Workers' = Workers /\ (Chunks' <=> Chunks)
         /\ \A v : Loads(chunk[v])' = Loads(chunk[v])
BY Frame, WorkFrame

\* Count keeps what holds of the workers.
LEMMA CountKeeps ==
  ASSUME Setting, BatchInv, WorkInv, conf' = conf, lens' = lens, batch' = batch, NEW w \in Workers, Count(w)
  PROVE  Busy'
<1>1. /\ at[w] = "count" /\ at' = [at EXCEPT ![w] = "reduce"]
      /\ count' = [count EXCEPT ![w] = Min({Len(chunk[w]), CeilDiv(Tokens(chunk[w]), MaxTokenLen)})]
      /\ UNCHANGED <<chunk, heap, micro, turn, out>>
  BY DEF Count
<1>2. Busy /\ \A v \in Workers : chunk[v] \in [1..Size -> Rows]
  BY <1>1, ActiveIs
<1>3. PICK n \in Nat \ {0} : n = Size
  BY <1>1, ActiveIs
<1>4. Starting
  <2>1. \A k : ~Working(k)
    BY <1>1 DEF Working, Progress
  <2> QED
    BY <1>2, <2>1 DEF Busy
<1>5. Size' = Size /\ Workers' = Workers /\ (Chunks' <=> Chunks)
  BY <1>1, FrameOfWork
<1>6. PICK c : c = Min({Len(chunk[w]), CeilDiv(Tokens(chunk[w]), MaxTokenLen)})
  OBVIOUS
<1>7. c \in 1..n
  <2>1. PICK N \in Nat \ {0} : N = NRows /\ Rows = 1..N /\ Lengths(lens, N)
    BY SettingIs
  <2>2. PICK s : s = chunk[w]
    OBVIOUS
  <2>3. s \in [1..n -> 1..N]
    BY <1>2, <1>3, <2>1, <2>2
  <2>4. s \in Seq(1..N) /\ Len(s) = n
    BY <2>3, FunctionIsSeq
  <2>5. Tokens(s) \in Nat /\ Tokens(s) >= n
    BY <2>1, <2>4, TokensAre
  <2>6. PICK t \in Nat \ {0} : t = Tokens(s)
    BY <2>5
  <2>7. PICK most \in Nat \ {0} : most = MaxTokenLen
    BY SettingIs
  <2>8. Min({n, CeilDiv(t, most)}) \in 1..n
    BY CountIs
  <2> QED
    BY <1>6, <2>2, <2>4, <2>6, <2>7, <2>8
<1>8. \A v \in Workers : v # w => at'[v] = at[v] /\ count'[v] = count[v]
  BY <1>1, <1>4 DEF Starting
<1>9. at'[w] = "reduce" /\ count'[w] = c /\ DOMAIN count' = Workers /\ at' \in [Workers -> {"count", "reduce"}]
  BY <1>1, <1>4, <1>6 DEF Starting
<1>10. \A v \in Workers : IF at'[v] = "count" THEN count'[v] = 0 ELSE count'[v] \in 1..Size
  BY <1>3, <1>4, <1>7, <1>8, <1>9 DEF Starting
<1>11. Starting'
  BY <1>1, <1>4, <1>5, <1>9, <1>10 DEF Starting
<1> QED
  BY <1>2, <1>5, <1>11 DEF Busy

\* There is a worker, and finitely many.
LEMMA WorkerZero ==
  ASSUME Setting
  PROVE  0 \in Workers /\ IsFiniteSet(Workers) /\ \A w \in Workers : w \in Nat
<1>1. PICK W \in Nat \ {0} : W = conf.world
  BY SettingIs
<1>2. Workers = 0..W - 1
  BY <1>1, SettingIs
<1>3. IsFiniteSet(0..W - 1)
  <2>1. 0 \in Int /\ W - 1 \in Int
    OBVIOUS
  <2> QED
    BY <2>1, FS_Interval
<1> QED
  BY <1>2, <1>3

\* After the all-reduce the workers agree on a number between 1 and the size of a chunk.
LEMMA AllReduceKeeps ==
  ASSUME Setting, BatchInv, WorkInv, conf' = conf, lens' = lens, batch' = batch, AllReduce
  PROVE  Busy'
<1>1. PICK most : most = Max({count[w] : w \in Workers})
  OBVIOUS
<1>2. /\ \A w \in Workers : at[w] = "reduce"
      /\ count' = [w \in Workers |-> most]
      /\ heap' = [w \in Workers |-> Singles(Loads(chunk[w]), most)]
      /\ at' = [w \in Workers |-> "merge"]
      /\ UNCHANGED <<chunk, micro, turn, out>>
  BY <1>1 DEF AllReduce
<1>3. 0 \in Workers /\ IsFiniteSet(Workers)
  BY WorkerZero
<1>4. Busy /\ \A v \in Workers : Loads(chunk[v]) \in [1..Size -> Nat \ {0}]
  BY <1>2, <1>3, ActiveIs
<1>5. PICK n \in Nat \ {0} : n = Size
  BY <1>2, <1>3, ActiveIs
<1>6. Starting
  <2>1. \A k : ~Working(k)
    BY <1>2, <1>3 DEF Working, Progress
  <2> QED
    BY <1>4, <2>1 DEF Busy
<1>7. /\ Size' = Size /\ Rows' = Rows /\ Workers' = Workers /\ (Chunks' <=> Chunks)
      /\ \A v : Loads(chunk[v])' = Loads(chunk[v])
  BY <1>2, FrameOfWork
<1>8. \A w \in Workers : count[w] \in 1..n
  BY <1>2, <1>5, <1>6 DEF Starting
<1>9. most \in 1..n
  <2>1. PICK S : S = {count[w] : w \in Workers}
    OBVIOUS
  <2>2. S \in SUBSET (1..n) /\ count[0] \in S
    BY <1>3, <1>8, <2>1
  <2>3. IsFiniteSet(S)
    <3>1. IsFiniteSet(1..n)
      BY FS_Interval
    <3> QED
      BY <2>2, <3>1, FS_Subset
  <2>4. Max(S) \in S
    <3>1. S \in SUBSET Int /\ S # {}
      BY <2>2
    <3> QED
      BY <2>3, <3>1, Extremes
  <2> QED
    BY <1>1, <2>1, <2>2, <2>4
<1>10. PICK k \in Nat \ {0} : k = most /\ k \in 1..n
  BY <1>9
<1>11. ASSUME NEW w \in Workers PROVE Merging(heap'[w], Loads(chunk[w]), k, Size)
  <2>1. PICK loads : loads = Loads(chunk[w])
    OBVIOUS
  <2>2. loads \in [1..n -> Nat \ {0}]
    BY <1>4, <1>5, <2>1
  <2>3. Merging(Singles(loads, k), loads, k, n)
    BY <2>2, MergingStarts
  <2>4. heap'[w] = Singles(loads, k)
    BY <1>2, <1>10, <2>1
  <2> QED
    BY <1>5, <2>1, <2>3, <2>4
<1>12. turn = 1 /\ micro = [w \in Workers |-> <<>>] /\ out = [w \in Workers |-> <<>>]
  BY <1>6 DEF Starting
<1>13. ASSUME NEW w \in Workers PROVE Progress(at'[w], turn', micro'[w], out'[w], chunk'[w], k, Size, Rows)
  <2>1. at'[w] = "merge" /\ turn' = 1 /\ micro'[w] = <<>> /\ out'[w] = <<>>
    BY <1>2, <1>12
  <2> QED
    BY <2>1 DEF Progress
<1>14. Working(k)'
  <2>1. k \in 1..Size /\ turn' \in 1..k + 1
    BY <1>2, <1>5, <1>10, <1>12
  <2>2. count' = [w \in Workers |-> k]
    BY <1>2, <1>10
  <2>3. at' \in [Workers -> {"merge", "forward", "returned"}] /\ DOMAIN heap' = Workers /\ DOMAIN micro' = Workers /\ DOMAIN out' = Workers
    BY <1>2, <1>12
  <2> QED
    BY <1>7, <1>11, <1>13, <2>1, <2>2, <2>3 DEF Working
<1> QED
  BY <1>4, <1>7, <1>14 DEF Busy

\* Merge keeps what holds of the workers.
LEMMA MergeKeeps ==
  ASSUME Setting, BatchInv, WorkInv, conf' = conf, lens' = lens, batch' = batch, NEW w \in Workers, Merge(w)
  PROVE  Busy'
<1>1. at[w] = "merge" /\ UNCHANGED <<at, chunk, count, micro, turn, out>>
  BY DEF Merge
<1>2. PICK s \in heap[w] : \E t \in heap[w] : PoppedTwo(s, t, heap[w]) /\ heap' = [heap EXCEPT ![w] = MergeTwo(s, t, heap[w])]
  BY DEF Merge
<1>3. PICK t \in heap[w] : PoppedTwo(s, t, heap[w]) /\ heap' = [heap EXCEPT ![w] = MergeTwo(s, t, heap[w])]
  BY <1>2
<1>4. Busy /\ \A v \in Workers : Loads(chunk[v]) \in [1..Size -> Nat \ {0}]
  BY <1>1, ActiveIs
<1>5. PICK n \in Nat \ {0} : n = Size
  BY <1>1, ActiveIs
<1>6. PICK k : Working(k)
  <2>1. ~Starting
    BY <1>1 DEF Starting
  <2> QED
    BY <1>4, <2>1 DEF Busy
<1>7. k \in Nat \ {0}
  BY <1>5, <1>6 DEF Working
<1>8. /\ Size' = Size /\ Rows' = Rows /\ Workers' = Workers /\ (Chunks' <=> Chunks)
      /\ \A v : Loads(chunk[v])' = Loads(chunk[v])
  BY <1>1, FrameOfWork
<1>9. Merging(heap'[w], Loads(chunk[w]), k, Size)
  <2>1. PICK loads : loads = Loads(chunk[w])
    OBVIOUS
  <2>2. PICK h : h = heap[w]
    OBVIOUS
  <2>3. loads \in [1..n -> Nat \ {0}] /\ Merging(h, loads, k, n)
    BY <1>4, <1>5, <1>6, <2>1, <2>2 DEF Working
  <2>4. s \in h /\ t \in h /\ PoppedTwo(s, t, h)
    BY <1>3, <2>2
  <2>5. Merging(MergeTwo(s, t, h), loads, k, n)
    BY <1>7, <2>3, <2>4, MergingGoesOn
  <2>6. heap'[w] = MergeTwo(s, t, h)
    BY <1>3, <1>6, <2>2 DEF Working
  <2> QED
    BY <1>5, <2>1, <2>5, <2>6
<1>10. \A v \in Workers : v # w => heap'[v] = heap[v]
  BY <1>3, <1>6 DEF Working
<1>11. \A v \in Workers : Merging(heap'[v], Loads(chunk[v]), k, Size)
  BY <1>6, <1>9, <1>10 DEF Working
<1>12. DOMAIN heap' = Workers
  BY <1>3, <1>6 DEF Working
<1>13. Working(k)'
  BY <1>1, <1>6, <1>8, <1>11, <1>12 DEF Working
<1> QED
  BY <1>4, <1>8, <1>13 DEF Busy

\* Cut keeps what holds of the workers.
LEMMA CutKeeps ==
  ASSUME Setting, BatchInv, WorkInv, conf' = conf, lens' = lens, batch' = batch, NEW w \in Workers, Cut(w)
  PROVE  Busy'
<1>1. /\ at[w] = "merge" /\ Cardinality(heap[w]) = 1 /\ at' = [at EXCEPT ![w] = "forward"]
      /\ UNCHANGED <<chunk, count, heap, turn, out>>
  BY DEF Cut
<1>2. PICK s \in heap[w] : micro' = [micro EXCEPT ![w] = MicroBatches(s)]
  BY DEF Cut
<1>3. Busy
  BY <1>1, ActiveIs
<1>4. PICK n \in Nat \ {0} : n = Size
  BY <1>1, ActiveIs
<1>5. PICK k : Working(k)
  <2>1. ~Starting
    BY <1>1 DEF Starting
  <2> QED
    BY <1>3, <2>1 DEF Busy
<1>6. k \in Nat \ {0} /\ k <= n
  BY <1>4, <1>5 DEF Working
<1>7. /\ Size' = Size /\ Rows' = Rows /\ Workers' = Workers /\ (Chunks' <=> Chunks)
      /\ \A v : Loads(chunk[v])' = Loads(chunk[v])
  BY <1>1, FrameOfWork
<1>8. turn = 1 /\ out[w] = <<>>
  <2>1. Progress(at[w], turn, micro[w], out[w], chunk[w], k, Size, Rows)
    BY <1>5 DEF Working
  <2> QED
    BY <1>1, <2>1 DEF Progress
<1>9. Progress(at'[w], turn', micro'[w], out'[w], chunk'[w], k, Size, Rows)
  <2>1. PICK h : h = heap[w]
    OBVIOUS
  <2>2. PICK loads : loads = Loads(chunk[w])
    OBVIOUS
  <2>3. Merging(h, loads, k, n)
    BY <1>4, <1>5, <2>1, <2>2 DEF Working
  <2>4. s \in h /\ Cardinality(h) = 1
    BY <1>1, <1>2, <2>1
  <2>5. Progress("forward", 1, MicroBatches(s), <<>>, chunk[w], k, n, Rows)
    BY <1>6, <2>3, <2>4, CutProgress
  <2>6. at'[w] = "forward" /\ turn' = 1 /\ micro'[w] = MicroBatches(s) /\ out'[w] = <<>> /\ chunk'[w] = chunk[w]
    BY <1>1, <1>2, <1>5, <1>8 DEF Working
  <2> QED
    BY <1>4, <2>5, <2>6
<1>10. \A v \in Workers : v # w => at'[v] = at[v] /\ micro'[v] = micro[v]
  BY <1>1, <1>2, <1>5 DEF Working
<1>11. \A v \in Workers : Progress(at'[v], turn', micro'[v], out'[v], chunk'[v], k, Size, Rows)
  <2> TAKE v \in Workers
  <2>1. CASE v = w
    BY <1>9, <2>1
  <2>2. CASE v # w
    <3>1. Progress(at[v], turn, micro[v], out[v], chunk[v], k, Size, Rows)
      BY <1>5 DEF Working
    <3> QED
      BY <1>1, <1>10, <2>2, <3>1
  <2> QED
    BY <2>1, <2>2
<1>12. DOMAIN at' = Workers /\ DOMAIN micro' = Workers
  BY <1>1, <1>2, <1>5 DEF Working
<1>13. Working(k)'
  BY <1>1, <1>5, <1>7, <1>11, <1>12 DEF Working
<1> QED
  BY <1>3, <1>7, <1>13 DEF Busy

\* A worker in its forward passes has the number of micro-batches that was agreed on.
LEMMA MicroLength ==
  ASSUME Setting, BatchInv, WorkInv, NEW k, Working(k), k \in Nat \ {0}, Size \in Nat, NEW w \in Workers, at[w] = "forward"
  PROVE  Len(micro[w]) = k
<1>1. Progress(at[w], turn, micro[w], out[w], chunk[w], k, Size, Rows)
  BY DEF Working
<1>2. PICK m : m = micro[w]
  OBVIOUS
<1>3. PICK n \in Nat : n = Size
  OBVIOUS
<1>4. Spots(m, k, 1..n)
  BY <1>1, <1>2, <1>3 DEF Progress
<1>5. Len(m) = k
  BY <1>4, SpotsFlatten
<1> QED
  BY <1>2, <1>5

\* Forward keeps what holds of the workers.
LEMMA ForwardKeeps ==
  ASSUME Setting, BatchInv, WorkInv, conf' = conf, lens' = lens, batch' = batch, Forward
  PROVE  Busy'
<1>1. /\ \A w \in Workers : at[w] = "forward" /\ turn <= Len(micro[w])
      /\ out' = [w \in Workers |-> out[w] \o Samples(w, micro[w][turn])]
      /\ turn' = turn + 1
      /\ UNCHANGED <<at, chunk, count, heap, micro>>
  BY DEF Forward
<1>2. 0 \in Workers
  BY WorkerZero
<1>3. Busy /\ \A v \in Workers : chunk[v] \in [1..Size -> Rows]
  BY <1>1, <1>2, ActiveIs
<1>4. PICK n \in Nat \ {0} : n = Size
  BY <1>1, <1>2, ActiveIs
<1>5. PICK k : Working(k)
  <2>1. ~Starting
    BY <1>1, <1>2 DEF Starting
  <2> QED
    BY <1>3, <2>1 DEF Busy
<1>6. k \in Nat \ {0} /\ k <= n
  BY <1>4, <1>5 DEF Working
<1>7. /\ Size' = Size /\ Rows' = Rows /\ Workers' = Workers /\ (Chunks' <=> Chunks)
      /\ \A v : Loads(chunk[v])' = Loads(chunk[v])
  BY <1>1, FrameOfWork
<1>8. PICK i \in Nat \ {0} : i = turn /\ i <= k
  <2>1. Len(micro[0]) = k
    BY <1>1, <1>2, <1>4, <1>5, <1>6, MicroLength
  <2>2. turn \in 1..k + 1
    BY <1>5 DEF Working
  <2> QED
    BY <1>1, <1>2, <1>6, <2>1, <2>2
<1>9. ASSUME NEW w \in Workers PROVE Progress(at'[w], turn', micro'[w], out'[w], chunk'[w], k, Size, Rows)
  <2>1. PICK c : c = chunk[w]
    OBVIOUS
  <2>2. PICK m : m = micro[w]
    OBVIOUS
  <2>3. PICK o : o = out[w]
    OBVIOUS
  <2>4. PICK S : S = Rows
    OBVIOUS
  <2>5. c \in [1..n -> S]
    BY <1>3, <1>4, <2>1, <2>4
  <2>6. Progress("forward", i, m, o, c, k, n, S)
    <3>1. Progress(at[w], turn, micro[w], out[w], chunk[w], k, Size, Rows)
      BY <1>5 DEF Working
    <3> QED
      BY <1>1, <1>4, <1>8, <2>1, <2>2, <2>3, <2>4, <3>1
  <2>7. Progress("forward", i + 1, m, o \o [j \in DOMAIN m[i] |-> c[m[i][j]]], c, k, n, S)
    BY <1>6, <1>8, <2>5, <2>6, ForwardProgress
  <2>8. out'[w] = o \o [j \in DOMAIN m[i] |-> c[m[i][j]]]
    BY <1>1, <1>8, <2>1, <2>2, <2>3 DEF Samples
  <2>9. at'[w] = "forward" /\ turn' = i + 1 /\ micro'[w] = m /\ chunk'[w] = c
    BY <1>1, <1>8, <2>1, <2>2
  <2> QED
    BY <1>4, <2>4, <2>7, <2>8, <2>9
<1>10. turn' \in 1..k + 1
  BY <1>1, <1>6, <1>8
<1>11. DOMAIN out' = Workers
  BY <1>1
<1>12. Working(k)'
  BY <1>1, <1>5, <1>7, <1>9, <1>10, <1>11 DEF Working
<1> QED
  BY <1>3, <1>7, <1>12 DEF Busy

\* Restore gives a worker its chunk back as its output.
LEMMA RestoreKeeps ==
  ASSUME Setting, BatchInv, WorkInv, conf' = conf, lens' = lens, batch' = batch, NEW w \in Workers, Restore(w)
  PROVE  Busy'
<1>1. /\ at[w] = "forward" /\ turn > Len(micro[w]) /\ at' = [at EXCEPT ![w] = "returned"]
      /\ out' = [out EXCEPT ![w] = Restored(out[w], FlattenSeq(micro[w]))]
      /\ UNCHANGED <<chunk, count, heap, micro, turn>>
  BY DEF Restore
<1>2. Busy /\ \A v \in Workers : chunk[v] \in [1..Size -> Rows]
  BY <1>1, ActiveIs
<1>3. PICK n \in Nat \ {0} : n = Size
  BY <1>1, ActiveIs
<1>4. PICK k : Working(k)
  <2>1. ~Starting
    BY <1>1 DEF Starting
  <2> QED
    BY <1>2, <2>1 DEF Busy
<1>5. k \in Nat \ {0} /\ k <= n
  BY <1>3, <1>4 DEF Working
<1>6. /\ Size' = Size /\ Rows' = Rows /\ Workers' = Workers /\ (Chunks' <=> Chunks)
      /\ \A v : Loads(chunk[v])' = Loads(chunk[v])
  BY <1>1, FrameOfWork
<1>7. turn = k + 1
  <2>1. Len(micro[w]) = k
    BY <1>1, <1>3, <1>4, <1>5, MicroLength
  <2>2. turn \in 1..k + 1
    BY <1>4 DEF Working
  <2> QED
    BY <1>1, <1>5, <2>1, <2>2
<1>8. Progress(at'[w], turn', micro'[w], out'[w], chunk'[w], k, Size, Rows)
  <2>1. PICK c : c = chunk[w]
    OBVIOUS
  <2>2. PICK m : m = micro[w]
    OBVIOUS
  <2>3. PICK o : o = out[w]
    OBVIOUS
  <2>4. PICK S : S = Rows
    OBVIOUS
  <2>5. c \in [1..n -> S]
    BY <1>2, <1>3, <2>1, <2>4
  <2>6. Progress("forward", k + 1, m, o, c, k, n, S)
    <3>1. Progress(at[w], turn, micro[w], out[w], chunk[w], k, Size, Rows)
      BY <1>4 DEF Working
    <3> QED
      BY <1>1, <1>3, <1>7, <2>1, <2>2, <2>3, <2>4, <3>1
  <2>7. Progress("returned", k + 1, m, Restored(o, FlattenSeq(m)), c, k, n, S)
    BY <1>5, <2>5, <2>6, RestoreProgress
  <2>8. /\ at'[w] = "returned" /\ turn' = k + 1 /\ micro'[w] = m /\ chunk'[w] = c
        /\ out'[w] = Restored(o, FlattenSeq(m))
    BY <1>1, <1>4, <1>7, <2>1, <2>2, <2>3 DEF Working
  <2> QED
    BY <1>3, <2>4, <2>7, <2>8
<1>9. \A v \in Workers : v # w => at'[v] = at[v] /\ out'[v] = out[v]
  BY <1>1, <1>4 DEF Working
<1>10. \A v \in Workers : Progress(at'[v], turn', micro'[v], out'[v], chunk'[v], k, Size, Rows)
  <2> TAKE v \in Workers
  <2>1. CASE v = w
    BY <1>8, <2>1
  <2>2. CASE v # w
    <3>1. Progress(at[v], turn, micro[v], out[v], chunk[v], k, Size, Rows)
      BY <1>4 DEF Working
    <3> QED
      BY <1>1, <1>9, <2>2, <3>1
  <2> QED
    BY <2>1, <2>2
<1>11. DOMAIN at' = Workers /\ DOMAIN out' = Workers
  BY <1>1, <1>4 DEF Working
<1>12. Working(k)'
  BY <1>1, <1>4, <1>6, <1>10, <1>11 DEF Working
<1> QED
  BY <1>2, <1>6, <1>12 DEF Busy

-----------------------------------------------------------------------------
\* The invariant and the theorems.

\* Every step keeps what holds of the workers.
LEMMA WorkNext ==
  ASSUME Setting, BatchInv, WorkInv, [Next]_vars, Setting', BatchInv'
  PROVE  WorkInv'
<1>1. conf' = conf /\ lens' = lens
  BY SettingKept
<1>2. Workers' = Workers
  BY <1>1, Frame
<1>3. CASE Dispatch
  BY <1>1, <1>3, DispatchKeeps
<1>4. CASE Collect
  BY <1>1, <1>4, CollectKeeps
<1>5. CASE Balance \/ Reorder \/ Filter \/ DispatchFails
  <2>1. /\ pc \in {"balance", "filter", "dispatch"} /\ pc' \in {"balance", "filter", "dispatch", "chunk_error"}
        /\ UNCHANGED <<onWorkers, result>>
    BY <1>5 DEF Balance, Reorder, Filter, DispatchFails
  <2>2. Idle /\ result = <<>>
    BY <2>1 DEF WorkInv
  <2>3. Idle'
    BY <1>2, <2>1, <2>2 DEF Idle, onWorkers
  <2> QED
    BY <2>1, <2>2, <2>3 DEF WorkInv
<1>6. CASE Work
  <2>1. pc' = pc /\ batch' = batch /\ result' = result
    BY <1>6 DEF Work
  <2>2. Busy' /\ pc \in {"wait", "done"}
    <3>1. CASE AllReduce
      <4>1. 0 \in Workers /\ at[0] = "reduce"
        BY <3>1, WorkerZero DEF AllReduce
      <4> QED
        BY <1>1, <2>1, <3>1, <4>1, AllReduceKeeps, ActiveIs
    <3>2. CASE Forward
      <4>1. 0 \in Workers /\ at[0] = "forward"
        BY <3>2, WorkerZero DEF Forward
      <4> QED
        BY <1>1, <2>1, <3>2, <4>1, ForwardKeeps, ActiveIs
    <3>3. ASSUME NEW w \in Workers, Count(w) PROVE Busy' /\ pc \in {"wait", "done"}
      <4>1. at[w] = "count"
        BY <3>3 DEF Count
      <4> QED
        BY <1>1, <2>1, <3>3, <4>1, CountKeeps, ActiveIs
    <3>4. ASSUME NEW w \in Workers, Merge(w) PROVE Busy' /\ pc \in {"wait", "done"}
      <4>1. at[w] = "merge"
        BY <3>4 DEF Merge
      <4> QED
        BY <1>1, <2>1, <3>4, <4>1, MergeKeeps, ActiveIs
    <3>5. ASSUME NEW w \in Workers, Cut(w) PROVE Busy' /\ pc \in {"wait", "done"}
      <4>1. at[w] = "merge"
        BY <3>5 DEF Cut
      <4> QED
        BY <1>1, <2>1, <3>5, <4>1, CutKeeps, ActiveIs
    <3>6. ASSUME NEW w \in Workers, Restore(w) PROVE Busy' /\ pc \in {"wait", "done"}
      <4>1. at[w] = "forward"
        BY <3>6 DEF Restore
      <4> QED
        BY <1>1, <2>1, <3>6, <4>1, RestoreKeeps, ActiveIs
    <3> QED
      BY <1>6, <3>1, <3>2, <3>3, <3>4, <3>5, <3>6 DEF Work
  <2> QED
    BY <2>1, <2>2 DEF WorkInv, Busy
<1>7. CASE UNCHANGED vars
  <2>1. /\ pc' = pc /\ batch' = batch /\ result' = result /\ at' = at /\ chunk' = chunk /\ count' = count
        /\ heap' = heap /\ micro' = micro /\ turn' = turn /\ out' = out
    BY <1>7 DEF vars, onWorkers
  <2>2. /\ Size' = Size /\ Rows' = Rows /\ Workers' = Workers /\ (Chunks' <=> Chunks)
        /\ \A v : Loads(chunk[v])' = Loads(chunk[v])
    BY <1>1, <2>1, FrameOfWork
  <2>3. Idle => Idle'
    BY <2>1, <2>2 DEF Idle
  <2>4. Starting => Starting'
    BY <2>1, <2>2 DEF Starting
  <2>5. \A k : Working(k) => Working(k)'
    BY <2>1, <2>2 DEF Working
  <2> QED
    BY <2>1, <2>2, <2>3, <2>4, <2>5 DEF WorkInv
<1> QED
  BY <1>3, <1>4, <1>5, <1>6, <1>7 DEF Next, Driver, Wait

\* The inductive invariant.
Inv == Setting /\ DriverInv /\ BatchInv /\ WorkInv

\* The invariant holds at the start.
LEMMA InvInit == Init => Inv
BY DriverInit, BatchInit, WorkInit DEF Inv

\* Every step keeps the invariant.
LEMMA InvNext == Inv /\ [Next]_vars => Inv'
BY DriverNext, BatchNext, WorkNext DEF Inv

\* The invariant holds in every state.
THEOREM InvHolds == Spec => []Inv
BY InvInit, InvNext, PTL DEF Spec

\* The invariant has the result in the order of the batch.
LEMMA InvResult ==
  ASSUME Inv
  PROVE  ResultsMatchRows
BY DEF Inv, WorkInv, ResultsMatchRows

\* The invariant bounds the spreads.
LEMMA InvSpread ==
  ASSUME Inv
  PROVE  SpreadBounded
<1>1. \A s \in driver : Spread(s) <= Differ
  BY DEF Inv, DriverInv, Heap
<1>2. ASSUME NEW w \in Workers, NEW s \in heap[w] PROVE Spread(s) <= Max(ToSet(Loads(chunk[w])))
  <2>1. pc \in {"wait", "done"} /\ ~Starting
    BY <1>2 DEF Inv, BatchInv, EarlyPcs, LatePcs, WorkInv, Idle, Starting
  <2>2. PICK k : Working(k)
    BY <2>1 DEF Inv, WorkInv
  <2> QED
    BY <2>2 DEF Working, Merging, Heap
<1> QED
  BY <1>1, <1>2 DEF SpreadBounded, Differ

\* The invariant has every row in one place of the heap.
LEMMA InvPartition ==
  ASSUME Inv
  PROVE  Partitioned
<1>1. Holds(driver, Rows)
  <2>1. Holds(driver, 1..NRows)
    BY DEF Inv, DriverInv, Heap
  <2>2. Rows = 1..NRows
    BY SettingIs DEF Inv
  <2> QED
    BY <2>1, <2>2
<1>2. ASSUME NEW w \in Workers, heap[w] # {}
      PROVE  /\ Holds(heap[w], DOMAIN chunk[w])
             /\ Cardinality(heap[w]) = 1 => \A s \in heap[w] : \A i \in DOMAIN s : s[i].items # <<>>
  <2>1. pc \in {"wait", "done"} /\ ~Starting
    BY <1>2 DEF Inv, BatchInv, EarlyPcs, LatePcs, WorkInv, Idle, Starting
  <2>2. PICK k : Working(k)
    BY <2>1 DEF Inv, WorkInv
  <2>3. PICK n \in Nat \ {0} : n = Size
    BY <2>1, SizeIs DEF Inv
  <2>4. k \in Nat \ {0} /\ k <= n
    BY <2>2, <2>3 DEF Working
  <2>5. PICK h : h = heap[w]
    OBVIOUS
  <2>6. PICK loads : loads = Loads(chunk[w])
    OBVIOUS
  <2>7. Merging(h, loads, k, n)
    BY <2>2, <2>3, <2>5, <2>6 DEF Working
  <2>8. Holds(h, 1..n)
    BY <2>7 DEF Merging, Heap
  <2>9. DOMAIN chunk[w] = 1..n
    BY <2>1, <2>3 DEF Inv, WorkInv, Chunks, Slice
  <2>10. ASSUME Cardinality(h) = 1, NEW s \in h, NEW i \in DOMAIN s PROVE s[i].items # <<>>
    <3>1. s \in [1..k -> KKSet] /\ \A j \in 1..k : Len(s[j].items) > 0
      BY <2>4, <2>7, <2>10, OneHeap
    <3>2. Len(s[i].items) > 0
      BY <3>1
    <3>3. s[i].items # <<>>
      BY <3>2
    <3> QED
      BY <3>3
  <2> QED
    BY <2>5, <2>8, <2>9, <2>10
<1>3. ASSUME Cardinality(driver) = 1, NEW s \in driver, NEW i \in DOMAIN s
      PROVE  Len(s[i].items) * conf.world = Cardinality(Rows)
  <2>1. PICK n \in Nat : n = NRows
    BY SettingIs DEF Inv
  <2>2. s \in [1..conf.world -> KKSet] /\ \A j \in 1..conf.world : Len(s[j].items) * conf.world = n
    BY <1>3, <2>1, OneState DEF Inv
  <2>3. Cardinality(Rows) = n
    <3>1. Cardinality(1..n) = n
      BY FS_Interval
    <3> QED
      BY <2>1, <3>1, SettingIs DEF Inv
  <2> QED
    BY <2>2, <2>3
<1>4. Cardinality({}) # 1
  BY FS_EmptySet
<1> QED
  BY <1>1, <1>2, <1>3, <1>4 DEF Partitioned

\* The invariant types the state.
LEMMA InvTypes ==
  ASSUME Inv
  PROVE  TypeOK
<1>0. conf \in Configs /\ lens \in conf.lens /\ pc \in Ended \cup {"balance", "filter", "dispatch", "wait"}
  BY DEF Inv, Setting, BatchInv, EarlyPcs, LatePcs, Ended
<1>e. <<>> \in Seq(Rows) /\ <<>> \in Seq(Seq(Rows))
  OBVIOUS
<1>1. PICK N \in Nat \ {0} : N = NRows /\ Rows = 1..N
  BY SettingIs DEF Inv
<1>2. batch \in Seq(Rows) /\ IsInjective(batch)
  <2>1. PICK R : R \in SUBSET Rows /\ OnceEach(batch, R)
    <3>1. CASE pc \in EarlyPcs
      BY <1>1, <3>1 DEF Inv, BatchInv
    <3>2. CASE pc \in LatePcs
      <4>1. PICK P : Filtered(P)
        BY <3>2 DEF Inv, BatchInv
      <4>2. RowsOf(P, conf.prompts, conf.n) \subseteq Rows
        BY DEF RowsOf, Rows
      <4> QED
        BY <4>1, <4>2 DEF Filtered
    <3> QED
      BY <3>1, <3>2 DEF Inv, BatchInv
  <2>2. PICK n \in Nat : n = Len(batch)
    BY <2>1 DEF OnceEach
  <2>3. batch \in [1..n -> R]
    BY <2>1, <2>2, SeqIsFunction DEF OnceEach
  <2>4. batch \in [1..n -> Rows]
    BY <2>1, <2>3
  <2>5. batch \in Seq(Rows)
    BY <2>4, FunctionIsSeq
  <2>6. IsInjective(batch)
    <3>1. \A i, j \in 1..n : batch[i] = batch[j] => i = j
      BY <2>1, <2>2 DEF OnceEach
    <3>2. DOMAIN batch = 1..n
      BY <2>3
    <3> QED
      BY <3>1, <3>2 DEF IsInjective
  <2> QED
    BY <2>5, <2>6
<1>3. result \in Seq(Rows)
  BY <1>2 DEF Inv, WorkInv
<1>4. CASE Idle
  <2>1. \A w \in Workers : chunk[w] = <<>> /\ out[w] = <<>> /\ micro[w] = <<>> /\ count[w] = 0
    BY <1>4 DEF Idle
  <2>2. at \in [Workers -> {"idle", "count", "reduce", "merge", "forward", "returned"}] /\ turn \in Nat \ {0}
    BY <1>4 DEF Idle
  <2>3. \A w \in Workers : /\ chunk[w] \in Seq(Rows) /\ out[w] \in Seq(Rows) /\ micro[w] \in Seq(Seq(Rows))
                           /\ count[w] \in 0..Len(chunk[w])
    <3> TAKE w \in Workers
    <3>1. chunk[w] = <<>> /\ out[w] = <<>> /\ micro[w] = <<>> /\ count[w] = 0
      BY <2>1
    <3>2. Len(<<>>) = 0
      OBVIOUS
    <3>3. 0 \in 0..Len(chunk[w])
      BY <3>1, <3>2
    <3> QED
      BY <1>e, <3>1, <3>3
  <2> QED
    BY <1>0, <1>2, <1>3, <2>2, <2>3 DEF TypeOK
<1>5. CASE pc \in {"wait", "done"}
  <2>1. Chunks /\ (Starting \/ \E k : Working(k))
    BY <1>5 DEF Inv, WorkInv
  <2>2. PICK n \in Nat \ {0} : n = Size /\ n <= N
    BY <1>1, <1>5, SizeIs DEF Inv
  <2>3. \A w \in Workers : chunk[w] \in Seq(Rows) /\ Len(chunk[w]) = n
    <3> TAKE w \in Workers
    <3>1. chunk[w] \in [1..n -> Rows]
      BY <2>1, <2>2 DEF Chunks, Slice
    <3> QED
      BY <3>1, FunctionIsSeq
  <2>4. CASE Starting
    <3>1. \A w \in Workers : out[w] = <<>> /\ micro[w] = <<>> /\ count[w] \in 0..n
      BY <2>2, <2>4 DEF Starting
    <3>2. at \in [Workers -> {"idle", "count", "reduce", "merge", "forward", "returned"}] /\ turn \in Nat \ {0}
      BY <2>4 DEF Starting
    <3>3. \A w \in Workers : /\ chunk[w] \in Seq(Rows) /\ out[w] \in Seq(Rows) /\ micro[w] \in Seq(Seq(Rows))
                             /\ count[w] \in 0..Len(chunk[w])
      <4> TAKE w \in Workers
      <4>1. chunk[w] \in Seq(Rows) /\ Len(chunk[w]) = n
        BY <2>3
      <4>2. out[w] = <<>> /\ micro[w] = <<>> /\ count[w] \in 0..n
        BY <3>1
      <4> QED
        BY <1>e, <4>1, <4>2
    <3> QED
      BY <1>0, <1>2, <1>3, <3>2, <3>3 DEF TypeOK
  <2>5. ASSUME NEW k, Working(k) PROVE TypeOK
    <3>1. k \in 1..n /\ turn \in Nat \ {0}
      BY <2>2, <2>5 DEF Working
    <3>2. ASSUME NEW w \in Workers
          PROVE  /\ at[w] \in {"merge", "forward", "returned"}
                 /\ out[w] \in Seq(Rows) /\ micro[w] \in Seq(Seq(Rows))
      <4>1. PICK m : m = micro[w]
        OBVIOUS
      <4>2. PICK o : o = out[w]
        OBVIOUS
      <4>3. Progress(at[w], turn, m, o, chunk[w], k, n, Rows)
        BY <2>2, <2>5, <4>1, <4>2 DEF Working
      <4>4. m = <<>> \/ Spots(m, k, 1..n)
        BY <4>3 DEF Progress
      <4>5. m \in Seq(Seq(Rows))
        <5>1. CASE m = <<>>
          BY <5>1
        <5>2. CASE Spots(m, k, 1..n)
          <6>1. m \in [1..k -> Seq(1..n)]
            BY <5>2 DEF Spots
          <6>2. \A q \in Seq(1..n) : q \in Seq(Rows)
            <7> TAKE q \in Seq(1..n)
            <7>1. PICK l \in Nat : l = Len(q)
              OBVIOUS
            <7>2. q \in [1..l -> 1..n]
              BY <7>1, SeqIsFunction
            <7>3. q \in [1..l -> Rows]
              BY <1>1, <2>2, <7>2
            <7> QED
              BY <7>3, FunctionIsSeq
          <6>3. m \in [1..k -> Seq(Rows)]
            BY <6>1, <6>2
          <6> QED
            BY <3>1, <6>3, FunctionIsSeq
        <5> QED
          BY <4>4, <5>1, <5>2
      <4>6. o = <<>> \/ Sampled(o, chunk[w], m, turn, Rows) \/ o = chunk[w]
        BY <4>3 DEF Progress
      <4>7. o \in Seq(Rows)
        <5>1. chunk[w] \in Seq(Rows)
          BY <2>3
        <5>2. Sampled(o, chunk[w], m, turn, Rows) => o \in Seq(Rows)
          BY DEF Sampled
        <5> QED
          BY <1>e, <4>6, <5>1, <5>2
      <4>8. at[w] \in {"merge", "forward", "returned"}
        BY <4>3 DEF Progress
      <4> QED
        BY <4>1, <4>2, <4>5, <4>7, <4>8
    <3>3. \A w \in Workers : count[w] \in 0..n
      BY <2>5, <3>1 DEF Working
    <3>4. at \in [Workers -> {"idle", "count", "reduce", "merge", "forward", "returned"}]
      BY <2>5 DEF Working
    <3>5. \A w \in Workers : /\ chunk[w] \in Seq(Rows) /\ out[w] \in Seq(Rows) /\ micro[w] \in Seq(Seq(Rows))
                             /\ count[w] \in 0..Len(chunk[w])
      BY <2>3, <3>2, <3>3
    <3> QED
      BY <1>0, <1>2, <1>3, <3>1, <3>4, <3>5 DEF TypeOK
  <2> QED
    BY <2>1, <2>4, <2>5
<1> QED
  BY <1>4, <1>5 DEF Inv, BatchInv, EarlyPcs, LatePcs, WorkInv

\* A worker that waits in a collective is joined by all: nobody has left before the all_reduce
\* or returned before a forward pass, and all run the same number of passes.
CollectivesJoined ==
  \A v, w \in Workers :
    /\ at[v] = "reduce" => at[w] \in {"count", "reduce"}
    /\ at[v] = "forward" /\ turn <= Len(micro[v]) => at[w] \in {"merge", "forward"}
    /\ at[v] = "forward" /\ at[w] = "forward" => Len(micro[v]) = Len(micro[w])

LEMMA InvCollectives ==
  ASSUME Inv
  PROVE  CollectivesJoined
<1>1. \/ at = [w \in Workers |-> "idle"]
      \/ at \in [Workers -> {"count", "reduce"}]
      \/ \E k : Working(k)
  BY DEF Inv, WorkInv, Idle, Starting, BatchInv, EarlyPcs, LatePcs
<1>2. CASE at = [w \in Workers |-> "idle"] \/ at \in [Workers -> {"count", "reduce"}]
  <2>1. \A v \in Workers : at[v] \in {"idle", "count", "reduce"} /\ at[v] # "forward"
    BY <1>2
  <2>2. \A v, w \in Workers : at[v] = "reduce" => at[w] \in {"count", "reduce"}
    BY <1>2
  <2> QED BY <2>1, <2>2 DEF CollectivesJoined
<1>3. CASE \E k : Working(k)
  <2>1. PICK k : Working(k)
    BY <1>3
  <2>2. \A w \in Workers : at[w] \in {"merge", "forward", "returned"}
    BY <2>1 DEF Working
  <2>3. k \in Nat
    BY <2>1 DEF Working, Size
  <2>4. ASSUME NEW w \in Workers
        PROVE  /\ at[w] = "forward" => Len(micro[w]) = k
               /\ at[w] = "returned" => turn = k + 1
    <3>1. CASE at[w] = "forward"
      <4>1. DOMAIN micro[w] = 1..k
        BY <2>1, <3>1 DEF Working, Progress, Spots
      <4> QED BY <2>3, <3>1, <4>1
    <3>2. CASE at[w] = "returned"
      BY <2>1, <3>2 DEF Working, Progress
    <3> QED BY <3>1, <3>2
  <2>5. ASSUME NEW v \in Workers, NEW w \in Workers, at[v] = "forward", turn <= Len(micro[v])
        PROVE  at[w] \in {"merge", "forward"}
    <3>1. turn <= k
      BY <2>4, <2>5
    <3>2. at[w] # "returned"
      BY <2>3, <2>4, <3>1
    <3> QED BY <2>2, <3>2
  <2> QED BY <2>2, <2>4, <2>5 DEF CollectivesJoined
<1> QED
  BY <1>1, <1>2, <1>3

\* The driver's and the workers' state has its types, and no row of the batch is
\* repeated, for every batch and every setting.
THEOREM TypesHold == Spec => []TypeOK
BY InvHolds, InvTypes, PTL

\* karmarkar_karp: at every merge, in the driver and in every worker, the heap holds every
\* row once; the driver's parts are of one size, and no micro-batch is empty.
THEOREM Partitions == Spec => []Partitioned
BY InvHolds, InvPartition, PTL

\* karmarkar_karp: whatever the lengths, no rank is given more work than another by more
\* than one sample can differ from another, and no micro-batch is heavier than another by
\* more than its heaviest sample.
THEOREM SpreadsBounded == Spec => []SpreadBounded
BY InvHolds, InvSpread, PTL

\* compute_log_prob: every row of the result belongs to the same row of the batch, after
\* balancing, filtering, chunking, micro-batching and restoring.
THEOREM ResultsInOrder == Spec => []ResultsMatchRows
BY InvHolds, InvResult, PTL

\* compute_log_prob: no worker waits in the all_reduce or in a forward pass for one that has
\* gone another way.
THEOREM CollectivesMeet == Spec => []CollectivesJoined
BY InvHolds, InvCollectives, PTL
===============================================================================

----------------------------- MODULE DataLemmas -----------------------------
(***************************************************************************)
(* Facts about data that the proofs of several components need: least      *)
(* elements and induction over the naturals, stated of sets because the    *)
(* provers do not instantiate a theorem's operator parameter, and totals   *)
(* of functions into the naturals, as the number of squares of their bar   *)
(* chart, and into the integers, as what is gained less what is lost.      *)
(***************************************************************************)
EXTENDS Integers, FiniteSets, FiniteSetsExt, FiniteSetTheorems, WellFoundedInduction, TLAPS

\* A set of naturals has a least element.
LEMMA LeastNatural ==
    ASSUME NEW T \in SUBSET Nat, T # {}
    PROVE  \E n \in T : \A m \in T : n <= m
<1>. DEFINE F == {0 .. n : n \in T}
<1>1. F \subseteq FiniteSubsetsOf(Nat)
  <2>. SUFFICES ASSUME NEW n \in T PROVE 0 .. n \in FiniteSubsetsOf(Nat)
    OBVIOUS
  <2>1. IsFiniteSet(0 .. n)
    BY FS_Interval
  <2>2. 0 .. n \in SUBSET Nat
    OBVIOUS
  <2>. QED
    BY <2>1, <2>2 DEF FiniteSubsetsOf
<1>2. PICK S \in F : \A U \in F : ~ (<<U, S>> \in StrictSubsetOrdering(Nat))
  <2>1. F # {}
    OBVIOUS
  <2>2. IsWellFoundedOn(StrictSubsetOrdering(Nat), FiniteSubsetsOf(Nat))
    BY FS_StrictSubsetOrderingWellFounded
  <2>. HIDE DEF F
  <2>. QED
    BY <1>1, <2>1, <2>2, WFMin
<1>3. PICK n \in T : S = 0 .. n
  OBVIOUS
<1>4. ASSUME NEW m \in T, m < n PROVE FALSE
  <2>1. 0 .. m \subseteq 0 .. n /\ n \notin 0 .. m /\ n \in 0 .. n
    BY <1>4
  <2>2. <<0 .. m, 0 .. n>> \in StrictSubsetOrdering(Nat)
    BY <2>1 DEF StrictSubsetOrdering
  <2>. QED
    BY <1>2, <1>3, <2>2
<1>. QED
  BY <1>4

\* Induction: a set with zero and every successor is all of the naturals.
LEMMA InductionOnNaturals ==
    ASSUME NEW T \in SUBSET Nat, 0 \in T, \A n \in T : n + 1 \in T
    PROVE  T = Nat
<1>. SUFFICES ASSUME Nat \ T # {} PROVE FALSE
  OBVIOUS
<1>1. PICK n \in Nat \ T : \A m \in Nat \ T : n <= m
  BY LeastNatural
<1>2. n - 1 \in Nat /\ n - 1 + 1 = n
  BY <1>1
<1>3. n - 1 \in T
  BY <1>1, <1>2
<1>. QED
  BY <1>1, <1>2, <1>3

-----------------------------------------------------------------------------
(* Totals. *)

Bars(f) == UNION {{i} \X (1 .. f[i]) : i \in DOMAIN f}
BarTotal(f) == Cardinality(Bars(f))

LEMMA OneBar ==
    ASSUME NEW i, NEW n \in Nat
    PROVE  IsFiniteSet({i} \X (1 .. n)) /\ Cardinality({i} \X (1 .. n)) = n
<1>. DEFINE A == {i}
            B == 1 .. n
<1>1. IsFiniteSet(A) /\ Cardinality(A) = 1
  BY FS_Singleton
<1>2. IsFiniteSet(B) /\ Cardinality(B) = n
  BY FS_Interval
<1>3. IsFiniteSet(A \X B) /\ Cardinality(A \X B) = Cardinality(A) * Cardinality(B)
  <2>. HIDE DEF A, B
  <2>. QED
    BY <1>1, <1>2, FS_Product
<1>4. Cardinality(A) * Cardinality(B) = n
  BY <1>1, <1>2
<1>. QED
  BY <1>3, <1>4

LEMMA BarsFinite ==
    ASSUME NEW S, IsFiniteSet(S), NEW f \in [S -> Nat]
    PROVE  IsFiniteSet(Bars(f)) /\ BarTotal(f) \in Nat
<1>. DEFINE B == {{i} \X (1 .. f[i]) : i \in S}
            bar == [i \in S |-> {i} \X (1 .. f[i])]
<1>1. \A b \in B : IsFiniteSet(b)
  <2>. SUFFICES ASSUME NEW i \in S PROVE IsFiniteSet({i} \X (1 .. f[i]))
    OBVIOUS
  <2>1. f[i] \in Nat
    OBVIOUS
  <2>. QED
    BY <2>1, OneBar
<1>2. bar \in Surjection(S, B)
  <2>1. bar \in [S -> B]
    OBVIOUS
  <2>2. \A b \in B : \E i \in S : bar[i] = b
    OBVIOUS
  <2>. QED
    BY <2>1, <2>2 DEF Surjection
<1>3. IsFiniteSet(B)
  BY <1>2, FS_Surjection
<1>4. IsFiniteSet(UNION B)
  BY <1>1, <1>3, FS_UNION
<1>5. Bars(f) = UNION B
  BY DEF Bars
<1>. QED
  BY <1>4, <1>5, FS_CardinalityType DEF BarTotal

\* One value changes, and the total by as much.
LEMMA TotalChanged ==
    ASSUME NEW S, IsFiniteSet(S), NEW f \in [S -> Nat], NEW i \in S, NEW n \in Nat
    PROVE  /\ BarTotal([f EXCEPT ![i] = n]) = BarTotal(f) - f[i] + n
           /\ BarTotal(f) \in Nat /\ BarTotal(f) >= f[i]
<1>. DEFINE g == [f EXCEPT ![i] = n]
            h == [f EXCEPT ![i] = 0]
<1>1. ASSUME NEW k \in [S -> Nat], \A j \in S \ {i} : k[j] = f[j]
      PROVE  BarTotal(k) = BarTotal(h) + k[i]
  <2>1. Bars(k) = Bars(h) \cup ({i} \X (1 .. k[i]))
    <3>1. \A p : p \in Bars(k) <=> \E j \in S : p \in {j} \X (1 .. k[j])
      BY DEF Bars
    <3>2. \A p : p \in Bars(h) <=> \E j \in S : p \in {j} \X (1 .. h[j])
      BY DEF Bars
    <3>3. \A j \in S \ {i} : h[j] = k[j]
      BY <1>1
    <3>4. 1 .. h[i] = {}
      OBVIOUS
    <3>. HIDE DEF h
    <3>. QED
      BY <3>1, <3>2, <3>3, <3>4
  <2>2. Bars(h) \cap ({i} \X (1 .. k[i])) = {}
    <3>1. \A p : p \in Bars(h) <=> \E j \in S : p \in {j} \X (1 .. h[j])
      BY DEF Bars
    <3>2. 1 .. h[i] = {}
      OBVIOUS
    <3>. HIDE DEF h
    <3>. QED
      BY <3>1, <3>2
  <2>3. IsFiniteSet(Bars(h)) /\ Cardinality(Bars(h)) \in Nat
    BY BarsFinite DEF BarTotal
  <2>4. IsFiniteSet({i} \X (1 .. k[i])) /\ Cardinality({i} \X (1 .. k[i])) = k[i] /\ k[i] \in Nat
    BY OneBar
  <2>5. Cardinality(Bars(h) \cap ({i} \X (1 .. k[i]))) = 0
    BY <2>2, FS_EmptySet
  <2>6. Cardinality(Bars(h) \cup ({i} \X (1 .. k[i]))) = Cardinality(Bars(h)) + k[i] - 0
    <3>. DEFINE B == Bars(h)
                C == {i} \X (1 .. k[i])
    <3>1. IsFiniteSet(B) /\ IsFiniteSet(C)
      BY <2>3, <2>4
    <3>2. Cardinality(B \cup C) = Cardinality(B) + Cardinality(C) - Cardinality(B \cap C)
      <4>. HIDE DEF B, C
      <4>. QED
        BY <3>1, FS_Union
    <3>. QED
      BY <2>4, <2>5, <3>2
  <2>. HIDE DEF h
  <2>. QED
    BY <2>1, <2>3, <2>4, <2>6 DEF BarTotal
<1>2. BarTotal(f) = BarTotal(h) + f[i]
  BY <1>1
<1>3. g \in [S -> Nat] /\ (\A j \in S \ {i} : g[j] = f[j]) /\ g[i] = n
  OBVIOUS
<1>4. BarTotal(g) = BarTotal(h) + n
  <2>. HIDE DEF h, g
  <2>. QED
    BY <1>1, <1>3
<1>5. BarTotal(h) \in Nat
  BY BarsFinite
<1>6. f[i] \in Nat
  OBVIOUS
<1>. HIDE DEF g, h
<1>. QED
  BY <1>2, <1>4, <1>5, <1>6 DEF g

\* Nothing adds up to nothing.
LEMMA TotalNone ==
    ASSUME NEW f, \A i \in DOMAIN f : f[i] = 0
    PROVE  BarTotal(f) = 0
<1>1. Bars(f) = {}
  <2>1. \A i \in DOMAIN f : {i} \X (1 .. f[i]) = {}
    OBVIOUS
  <2>. QED
    BY <2>1 DEF Bars
<1>. QED
  BY <1>1, FS_EmptySet DEF BarTotal

-----------------------------------------------------------------------------
(* The sums of the community modules are recursive functions over the       *)
(* subsets of a set; over a finite set they are the totals of bar charts.   *)

Total(f) == MapThenSumSet(LAMBDA i : f[i], DOMAIN f)

\* The total is one value and the total of the others.
LEMMA TotalSplit ==
    ASSUME NEW S, IsFiniteSet(S), NEW f \in [S -> Nat], NEW x \in S
    PROVE  BarTotal(f) = f[x] + BarTotal([i \in S \ {x} |-> f[i]])
<1>. DEFINE h == [i \in S \ {x} |-> f[i]]
            B == Bars(h)
            C == {x} \X (1 .. f[x])
<1>1. Bars(f) = B \cup C
  <2>1. \A p : p \in Bars(f) <=> \E j \in S : p \in {j} \X (1 .. f[j])
    BY DEF Bars
  <2>2. \A p : p \in B <=> \E j \in S \ {x} : p \in {j} \X (1 .. f[j])
    BY DEF Bars
  <2>. HIDE DEF B
  <2>. QED
    BY <2>1, <2>2
<1>2. B \cap C = {}
  <2>1. \A p : p \in B <=> \E j \in S \ {x} : p \in {j} \X (1 .. f[j])
    BY DEF Bars
  <2>. HIDE DEF B
  <2>. QED
    BY <2>1
<1>3. IsFiniteSet(B) /\ Cardinality(B) \in Nat
  <2>1. IsFiniteSet(S \ {x})
    BY FS_Subset
  <2>2. h \in [S \ {x} -> Nat]
    OBVIOUS
  <2>. HIDE DEF h
  <2>. QED
    BY <2>1, <2>2, BarsFinite DEF BarTotal
<1>4. IsFiniteSet(C) /\ Cardinality(C) = f[x] /\ f[x] \in Nat
  BY OneBar
<1>5. Cardinality(B \cup C) = Cardinality(B) + Cardinality(C) - Cardinality(B \cap C)
  <2>. HIDE DEF B, C
  <2>. QED
    BY <1>3, <1>4, FS_Union
<1>6. Cardinality(B \cap C) = 0
  BY <1>2, FS_EmptySet
<1>7. BarTotal(f) = Cardinality(B \cup C) /\ BarTotal(h) = Cardinality(B)
  BY <1>1 DEF BarTotal
<1>. HIDE DEF B, C, h
<1>8. BarTotal(f) = f[x] + BarTotal(h)
  BY <1>3, <1>4, <1>5, <1>6, <1>7
<1>. QED
  BY <1>8 DEF h

\* Totals of functions that are the same but for their names and zeros.
LEMMA TotalMoved ==
    ASSUME NEW S, IsFiniteSet(S), NEW f \in [S -> Nat],
           NEW T, IsFiniteSet(T), NEW g \in [T -> Nat], NEW p \in Injection(T, S),
           \A t \in T : f[p[t]] = g[t],
           \A s \in S : (\A t \in T : p[t] # s) => f[s] = 0
    PROVE  BarTotal(f) = BarTotal(g)
<1>. DEFINE B == [x \in Bars(g) |-> <<p[x[1]], x[2]>>]
<1>0. p \in [T -> S] /\ \A a, b \in T : p[a] = p[b] => a = b
  BY DEF Injection, IsInjective
<1>1. \A x \in Bars(g) : \E t \in T : \E k \in 1 .. g[t] : x = <<t, k>>
  BY DEF Bars
<1>2. \A x \in Bars(f) : \E s \in S : \E k \in 1 .. f[s] : x = <<s, k>>
  BY DEF Bars
<1>3. \A t \in T : \A k \in 1 .. g[t] : <<t, k>> \in Bars(g)
  BY DEF Bars
<1>4. \A s \in S : \A k \in 1 .. f[s] : <<s, k>> \in Bars(f)
  BY DEF Bars
<1>5. \A t \in T : \A k \in 1 .. g[t] : <<p[t], k>> \in Bars(f)
  BY <1>0, <1>4
<1>6. B \in [Bars(g) -> Bars(f)]
  <2>. SUFFICES ASSUME NEW x \in Bars(g) PROVE <<p[x[1]], x[2]>> \in Bars(f)
    OBVIOUS
  <2>1. PICK t \in T, k \in Nat : k \in 1 .. g[t] /\ x = <<t, k>>
    BY <1>1
  <2>2. x[1] = t /\ x[2] = k
    BY <2>1
  <2>3. <<p[t], k>> \in Bars(f)
    BY <2>1, <1>5
  <2>. QED
    BY <2>2, <2>3
<1>7. \A x, y \in Bars(g) : B[x] = B[y] => x = y
  <2>. SUFFICES ASSUME NEW x \in Bars(g), NEW y \in Bars(g), B[x] = B[y] PROVE x = y
    OBVIOUS
  <2>1. PICK t \in T, k \in Nat : k \in 1 .. g[t] /\ x = <<t, k>>
    BY <1>1
  <2>2. PICK u \in T, l \in Nat : l \in 1 .. g[u] /\ y = <<u, l>>
    BY <1>1
  <2>3. <<p[t], k>> = <<p[u], l>>
    BY <2>1, <2>2
  <2>4. p[t] = p[u] /\ k = l
    BY <2>3
  <2>. QED
    BY <1>0, <2>1, <2>2, <2>4
<1>8. \A y \in Bars(f) : \E x \in Bars(g) : B[x] = y
  <2>. SUFFICES ASSUME NEW y \in Bars(f) PROVE \E x \in Bars(g) : B[x] = y
    OBVIOUS
  <2>1. PICK s \in S, k \in Nat : k \in 1 .. f[s] /\ y = <<s, k>>
    BY <1>2
  <2>2. f[s] # 0
    BY <2>1
  <2>3. PICK t \in T : p[t] = s
    BY <2>2
  <2>4. k \in 1 .. g[t] /\ <<t, k>> \in Bars(g)
    BY <1>3, <2>1, <2>3
  <2>5. B[<<t, k>>] = y
    BY <2>1, <2>3, <2>4
  <2>. QED
    BY <2>4, <2>5
<1>9. ExistsBijection(Bars(g), Bars(f))
  <2>. HIDE DEF B
  <2>. QED
    BY <1>6, <1>7, <1>8 DEF ExistsBijection, Bijection, Injection, Surjection, IsInjective
<1>. QED
  BY <1>9, BarsFinite, FS_Bijection DEF BarTotal

LEMMA TotalAdded ==
    ASSUME NEW S, IsFiniteSet(S), NEW f \in [S -> Nat], NEW g \in [S -> Nat],
           NEW h \in [S -> Nat], \A i \in S : h[i] = f[i] + g[i]
    PROVE  BarTotal(h) = BarTotal(f) + BarTotal(g)
<1>. DEFINE B == [x \in Bars(g) |-> <<x[1], f[x[1]] + x[2]>>]
            Upper == {B[x] : x \in Bars(g)}
<1>1. \A x \in Bars(g) : \E t \in S : \E k \in 1 .. g[t] : x = <<t, k>>
  BY DEF Bars
<1>2. \A x \in Bars(f) : \E s \in S : \E k \in 1 .. f[s] : x = <<s, k>>
  BY DEF Bars
<1>3. \A t \in S : \A k \in 1 .. g[t] : <<t, k>> \in Bars(g) /\ B[<<t, k>>] = <<t, f[t] + k>>
  BY DEF Bars
<1>4. \A s \in S : \A k \in 1 .. f[s] : <<s, k>> \in Bars(f)
  BY DEF Bars
<1>5. h \in [S -> Nat]
  OBVIOUS
<1>6. \A x \in Bars(h) : \E s \in S : \E k \in 1 .. f[s] + g[s] : x = <<s, k>>
  BY DEF Bars
<1>7. \A s \in S : \A k \in 1 .. f[s] + g[s] : <<s, k>> \in Bars(h)
  BY DEF Bars
<1>. HIDE DEF B
<1>8. Bars(h) = Bars(f) \cup Upper
  <2>1. ASSUME NEW x \in Bars(h) PROVE x \in Bars(f) \cup Upper
    <3>1. PICK s \in S, k \in Nat : k \in 1 .. f[s] + g[s] /\ x = <<s, k>>
      BY <1>6
    <3>2. CASE k <= f[s]
      <4>1. k \in 1 .. f[s]
        BY <3>1, <3>2
      <4>. QED
        BY <3>1, <4>1, <1>4
    <3>3. CASE k > f[s]
      <4>1. k - f[s] \in 1 .. g[s] /\ f[s] + (k - f[s]) = k
        BY <3>1, <3>3
      <4>2. <<s, k - f[s]>> \in Bars(g) /\ B[<<s, k - f[s]>>] = x
        BY <4>1, <1>3, <3>1
      <4>. QED
        BY <4>2
    <3>. QED
      BY <3>2, <3>3
  <2>2. ASSUME NEW x \in Bars(f) PROVE x \in Bars(h)
    <3>1. PICK s \in S, k \in Nat : k \in 1 .. f[s] /\ x = <<s, k>>
      BY <1>2
    <3>2. k \in 1 .. f[s] + g[s]
      BY <3>1
    <3>. QED
      BY <3>1, <3>2, <1>7
  <2>3. ASSUME NEW x \in Bars(g) PROVE B[x] \in Bars(h)
    <3>1. PICK s \in S, k \in Nat : k \in 1 .. g[s] /\ x = <<s, k>>
      BY <1>1
    <3>2. f[s] + k \in 1 .. f[s] + g[s]
      BY <3>1
    <3>. QED
      BY <3>1, <3>2, <1>3, <1>7
  <2>. QED
    BY <2>1, <2>2, <2>3
<1>9. Bars(f) \cap Upper = {}
  <2>. SUFFICES ASSUME NEW x \in Bars(f), NEW y \in Bars(g), x = B[y] PROVE FALSE
    OBVIOUS
  <2>1. PICK s \in S, k \in Nat : k \in 1 .. f[s] /\ x = <<s, k>>
    BY <1>2
  <2>2. PICK t \in S, l \in Nat : l \in 1 .. g[t] /\ y = <<t, l>>
    BY <1>1
  <2>3. <<s, k>> = <<t, f[t] + l>>
    BY <2>1, <2>2, <1>3
  <2>4. s = t /\ k = f[t] + l
    BY <2>3
  <2>. QED
    BY <2>1, <2>2, <2>4
<1>10. ExistsBijection(Bars(g), Upper)
  <2>1. \A x, y \in Bars(g) : B[x] = B[y] => x = y
    <3>. SUFFICES ASSUME NEW x \in Bars(g), NEW y \in Bars(g), B[x] = B[y] PROVE x = y
      OBVIOUS
    <3>1. PICK t \in S, k \in Nat : k \in 1 .. g[t] /\ x = <<t, k>>
      BY <1>1
    <3>2. PICK u \in S, l \in Nat : l \in 1 .. g[u] /\ y = <<u, l>>
      BY <1>1
    <3>3. <<t, f[t] + k>> = <<u, f[u] + l>>
      BY <3>1, <3>2, <1>3
    <3>4. t = u /\ f[t] + k = f[u] + l
      BY <3>3
    <3>5. k = l
      BY <3>4
    <3>. QED
      BY <3>1, <3>2, <3>4, <3>5
  <2>2. DOMAIN B = Bars(g) /\ B = [x \in Bars(g) |-> B[x]]
    BY DEF B
  <2>3. B \in [Bars(g) -> Upper]
    BY <2>2
  <2>. QED
    BY <2>1, <2>3 DEF ExistsBijection, Bijection, Injection, Surjection, IsInjective
<1>11. IsFiniteSet(Bars(f)) /\ IsFiniteSet(Bars(g)) /\ BarTotal(f) \in Nat /\ BarTotal(g) \in Nat
  BY BarsFinite
<1>12. IsFiniteSet(Upper) /\ Cardinality(Upper) = Cardinality(Bars(g))
  BY <1>10, <1>11, FS_Bijection
<1>13. Cardinality(Bars(f) \cup Upper) = Cardinality(Bars(f)) + Cardinality(Upper)
  <2>1. Cardinality({}) = 0
    BY FS_EmptySet
  <2>. HIDE DEF Upper
  <2>2. Cardinality(Bars(f) \cup Upper) = Cardinality(Bars(f)) + Cardinality(Upper) - Cardinality(Bars(f) \cap Upper)
    BY <1>11, <1>12, FS_Union
  <2>3. Cardinality(Bars(f)) \in Nat /\ Cardinality(Upper) \in Nat
    BY <1>11, <1>12, FS_CardinalityType
  <2>4. Cardinality(Bars(f) \cap Upper) = 0
    BY <2>1, <1>9, Zenon
  <2>. QED
    BY <2>2, <2>3, <2>4
<1>. QED
  BY <1>8, <1>12, <1>13 DEF BarTotal

\* A total of one value many times over.
LEMMA TotalConstant ==
    ASSUME NEW S, IsFiniteSet(S), NEW n \in Nat
    PROVE  BarTotal([i \in S |-> n]) = Cardinality(S) * n
<1>. DEFINE f == [i \in S |-> n]
<1>1. Bars(f) = S \X (1 .. n)
  <2>1. \A i \in S : {i} \X (1 .. f[i]) = {i} \X (1 .. n)
    OBVIOUS
  <2>2. DOMAIN f = S
    OBVIOUS
  <2>. HIDE DEF f
  <2>. QED
    BY <2>1, <2>2 DEF Bars
<1>2. IsFiniteSet(1 .. n) /\ Cardinality(1 .. n) = n
  BY FS_Interval
<1>. HIDE DEF f
<1>3. BarTotal(f) = Cardinality(S) * n
  BY <1>1, <1>2, FS_Product DEF BarTotal
<1>. QED
  BY <1>3 DEF f

-----------------------------------------------------------------------------
(* Sums of integers: what is above zero less what is below. *)

Gains(f) == [i \in DOMAIN f |-> IF f[i] > 0 THEN f[i] ELSE 0]
Losses(f) == [i \in DOMAIN f |-> IF f[i] < 0 THEN 0 - f[i] ELSE 0]
Balance(f) == BarTotal(Gains(f)) - BarTotal(Losses(f))

LEMMA BalanceParts ==
    ASSUME NEW S, IsFiniteSet(S), NEW f \in [S -> Int]
    PROVE  /\ Gains(f) \in [S -> Nat] /\ Losses(f) \in [S -> Nat]
           /\ \A i \in S : f[i] = Gains(f)[i] - Losses(f)[i]
           /\ BarTotal(Gains(f)) \in Nat /\ BarTotal(Losses(f)) \in Nat
           /\ Balance(f) \in Int
<1>1. \A i \in S : f[i] \in Int
  OBVIOUS
<1>2. Gains(f) \in [S -> Nat]
  BY <1>1 DEF Gains
<1>3. Losses(f) \in [S -> Nat]
  BY <1>1 DEF Losses
<1>4. \A i \in S : f[i] = Gains(f)[i] - Losses(f)[i]
  BY <1>1 DEF Gains, Losses
<1>5. BarTotal(Gains(f)) \in Nat /\ BarTotal(Losses(f)) \in Nat
  BY <1>2, <1>3, BarsFinite
<1>. QED
  BY <1>2, <1>3, <1>4, <1>5 DEF Balance

\* A part of the function has a part of the total.
LEMMA TotalJoined ==
    ASSUME NEW S, IsFiniteSet(S), NEW f \in [S -> Nat], NEW A \in SUBSET S
    PROVE  BarTotal(f) = BarTotal([i \in A |-> f[i]]) + BarTotal([i \in S \ A |-> f[i]])
<1>. DEFINE g == [i \in A |-> f[i]]
            h == [i \in S \ A |-> f[i]]
            B == Bars(g)
            C == Bars(h)
<1>1. g \in [A -> Nat] /\ h \in [S \ A -> Nat] /\ IsFiniteSet(A) /\ IsFiniteSet(S \ A)
  BY FS_Subset
<1>2. Bars(f) = B \cup C /\ B \cap C = {}
  BY DEF Bars
<1>3. /\ IsFiniteSet(B) /\ IsFiniteSet(C) /\ BarTotal(g) = Cardinality(B) /\ BarTotal(h) = Cardinality(C)
      /\ BarTotal(g) \in Nat /\ BarTotal(h) \in Nat
  <2>. HIDE DEF g, h
  <2>. QED
    BY <1>1, BarsFinite DEF BarTotal
<1>4. BarTotal(f) = Cardinality(B \cup C)
  <2>. HIDE DEF B, C
  <2>. QED
    BY <1>2 DEF BarTotal
<1>5. Cardinality(B \cup C) = Cardinality(B) + Cardinality(C) - Cardinality(B \cap C)
  <2>. HIDE DEF B, C
  <2>. QED
    BY <1>3, FS_Union
<1>6. Cardinality(B \cap C) = 0
  <2>. HIDE DEF B, C
  <2>. QED
    BY <1>2, FS_EmptySet
<1>7. BarTotal(f) = BarTotal(g) + BarTotal(h)
  <2>. HIDE DEF g, h, B, C
  <2>. QED
    BY <1>3, <1>4, <1>5, <1>6
<1>. QED
  BY <1>7

LEMMA BalanceJoined ==
    ASSUME NEW S, IsFiniteSet(S), NEW f \in [S -> Int], NEW A \in SUBSET S
    PROVE  Balance(f) = Balance([i \in A |-> f[i]]) + Balance([i \in S \ A |-> f[i]])
<1>. DEFINE g == [i \in A |-> f[i]]
            h == [i \in S \ A |-> f[i]]
            p == Gains(f)
            n == Losses(f)
<1>1. /\ Gains(g) = [i \in A |-> p[i]] /\ Losses(g) = [i \in A |-> n[i]]
      /\ Gains(h) = [i \in S \ A |-> p[i]] /\ Losses(h) = [i \in S \ A |-> n[i]]
  BY DEF Gains, Losses
<1>2. p \in [S -> Nat] /\ n \in [S -> Nat]
  BY BalanceParts
<1>3. IsFiniteSet(A) /\ IsFiniteSet(S \ A) /\ g \in [A -> Int] /\ h \in [S \ A -> Int]
  BY FS_Subset
<1>4. /\ BarTotal(Gains(g)) \in Nat /\ BarTotal(Losses(g)) \in Nat
      /\ BarTotal(Gains(h)) \in Nat /\ BarTotal(Losses(h)) \in Nat
  <2>. HIDE DEF g, h, p, n
  <2>. QED
    BY <1>3, BalanceParts
<1>5. /\ BarTotal(p) = BarTotal([i \in A |-> p[i]]) + BarTotal([i \in S \ A |-> p[i]])
      /\ BarTotal(n) = BarTotal([i \in A |-> n[i]]) + BarTotal([i \in S \ A |-> n[i]])
  <2>. HIDE DEF p, n
  <2>. QED
    BY <1>2, TotalJoined
<1>6. /\ BarTotal(p) = BarTotal(Gains(g)) + BarTotal(Gains(h))
      /\ BarTotal(n) = BarTotal(Losses(g)) + BarTotal(Losses(h))
  <2>. HIDE DEF p, n, g, h
  <2>. QED
    BY <1>1, <1>5
<1>7. Balance(f) = Balance(g) + Balance(h)
  <2>. HIDE DEF g, h
  <2>. QED
    BY <1>4, <1>6 DEF Balance
<1>. QED
  BY <1>7

LEMMA BalanceNone ==
    ASSUME NEW f, \A i \in DOMAIN f : f[i] = 0
    PROVE  Balance(f) = 0
<1>1. \A i \in DOMAIN f : Gains(f)[i] = 0 /\ Losses(f)[i] = 0
  BY DEF Gains, Losses
<1>2. DOMAIN Gains(f) = DOMAIN f /\ DOMAIN Losses(f) = DOMAIN f
  BY DEF Gains, Losses
<1>3. BarTotal(Gains(f)) = 0 /\ BarTotal(Losses(f)) = 0
  BY <1>1, <1>2, TotalNone
<1>. QED
  BY <1>3 DEF Balance

LEMMA BalanceOne ==
    ASSUME NEW x, NEW n \in Int
    PROVE  Balance([i \in {x} |-> n]) = n
<1>. DEFINE f == [i \in {x} |-> n]
<1>1. ASSUME NEW k \in Nat PROVE BarTotal([i \in {x} |-> k]) = k
  <2>1. IsFiniteSet({x}) /\ Cardinality({x}) = 1
    BY FS_Singleton
  <2>2. BarTotal([i \in {x} |-> k]) = Cardinality({x}) * k
    BY <2>1, TotalConstant
  <2>. QED
    BY <2>1, <2>2
<1>2. Gains(f) = [i \in {x} |-> IF n > 0 THEN n ELSE 0]
  BY DEF Gains
<1>3. Losses(f) = [i \in {x} |-> IF n < 0 THEN 0 - n ELSE 0]
  BY DEF Losses
<1>4. (IF n > 0 THEN n ELSE 0) \in Nat /\ (IF n < 0 THEN 0 - n ELSE 0) \in Nat
  OBVIOUS
<1>5. BarTotal(Gains(f)) = IF n > 0 THEN n ELSE 0
  BY <1>1, <1>2, <1>4
<1>6. BarTotal(Losses(f)) = IF n < 0 THEN 0 - n ELSE 0
  BY <1>1, <1>3, <1>4
<1>7. Balance(f) = n
  <2>. HIDE DEF f
  <2>. QED
    BY <1>5, <1>6 DEF Balance
<1>. QED
  BY <1>7

LEMMA BalanceSplit ==
    ASSUME NEW S, IsFiniteSet(S), NEW f \in [S -> Int], NEW x \in S
    PROVE  Balance(f) = f[x] + Balance([i \in S \ {x} |-> f[i]])
<1>1. Balance(f) = Balance([i \in {x} |-> f[i]]) + Balance([i \in S \ {x} |-> f[i]])
  <2>1. {x} \in SUBSET S
    OBVIOUS
  <2>. QED
    BY <2>1, BalanceJoined
<1>2. [i \in {x} |-> f[i]] = [i \in {x} |-> f[x]] /\ f[x] \in Int
  OBVIOUS
<1>3. Balance([i \in {x} |-> f[x]]) = f[x]
  BY <1>2, BalanceOne
<1>. QED
  BY <1>1, <1>2, <1>3

\* The recursion of MapThenFoldSet, the addends of a function f.
Adds(g, f, S) ==
    g = [s \in SUBSET S |-> IF s = {} THEN 0
                            ELSE f[CHOOSE x \in s : TRUE] + g[s \ {CHOOSE x \in s : TRUE}]]

LEMMA TotalUnfolds ==
    ASSUME NEW f
    PROVE  Total(f) = (CHOOSE g : Adds(g, f, DOMAIN f))[DOMAIN f]
BY DEF Total, MapThenSumSet, MapThenFoldSet, Adds

\* The recursion has one solution, the balances of the parts.
LEMMA TotalIsBalance ==
    ASSUME NEW S, IsFiniteSet(S), NEW f \in [S -> Int]
    PROVE  Total(f) = Balance(f)
<1>. DEFINE c(s) == CHOOSE x \in s : TRUE
            G == [s \in SUBSET S |-> Balance([i \in s |-> f[i]])]
<1>1. ASSUME NEW s \in SUBSET S, s # {}
      PROVE  /\ c(s) \in s
             /\ G[s] = f[c(s)] + G[s \ {c(s)}]
  <2>. DEFINE h == [i \in s |-> f[i]]
              k == [i \in s \ {c(s)} |-> f[i]]
  <2>1. c(s) \in s
    BY <1>1
  <2>2. IsFiniteSet(s)
    BY FS_Subset
  <2>3. h[c(s)] = f[c(s)] /\ [i \in s \ {c(s)} |-> h[i]] = k
    BY <2>1
  <2>4. Balance(h) = h[c(s)] + Balance([i \in s \ {c(s)} |-> h[i]])
    <3>1. h \in [s -> Int]
      OBVIOUS
    <3>. HIDE DEF h, c, G, k
    <3>. QED
      BY ZenonT(60), <2>1, <2>2, <3>1, BalanceSplit
  <2>5. G[s] = Balance(h) /\ G[s \ {c(s)}] = Balance(k)
    OBVIOUS
  <2>. HIDE DEF G, h, k, c
  <2>. QED
    BY <2>1, <2>3, <2>4, <2>5
<1>2. G[{}] = 0
  <2>1. Balance([i \in {} |-> f[i]]) = 0
    BY BalanceNone
  <2>. QED
    BY <2>1
<1>3. Adds(G, f, S)
  <2>1. G = [s \in SUBSET S |-> G[s]]
    OBVIOUS
  <2>2. ASSUME NEW s \in SUBSET S
        PROVE  G[s] = IF s = {} THEN 0 ELSE f[c(s)] + G[s \ {c(s)}]
    <3>. HIDE DEF G, c
    <3>. QED
      BY <1>1, <1>2
  <2>. HIDE DEF G
  <2>. QED
    BY <2>1, <2>2 DEF Adds
<1>4. ASSUME NEW g, Adds(g, f, S) PROVE g = G
  <2>1. /\ g = [s \in SUBSET S |-> g[s]]
        /\ \A s \in SUBSET S : g[s] = IF s = {} THEN 0 ELSE f[c(s)] + g[s \ {c(s)}]
    <3>. HIDE DEF G
    <3>. QED
      BY <1>4 DEF Adds
  <2>. DEFINE T == {Cardinality(s) : s \in {u \in SUBSET S : g[u] # G[u]}}
  <2>2. T \subseteq Nat
    <3>. SUFFICES ASSUME NEW s \in SUBSET S PROVE Cardinality(s) \in Nat
      OBVIOUS
    <3>. QED
      BY FS_Subset, FS_CardinalityType
  <2>3. T = {}
    <3>. SUFFICES ASSUME T # {} PROVE FALSE
      OBVIOUS
    <3>1. PICK n \in T : \A m \in T : n <= m
      <4>. HIDE DEF T
      <4>. QED
        BY <2>2, LeastNatural
    <3>2. PICK s \in SUBSET S : g[s] # G[s] /\ n = Cardinality(s)
      <4>. HIDE DEF G
      <4>. QED
        OBVIOUS
    <3>. DEFINE r == s \ {c(s)}
    <3>3. s # {}
      <4>. HIDE DEF G
      <4>. QED
        BY <1>2, <2>1, <3>2
    <3>4. c(s) \in s /\ G[s] = f[c(s)] + G[r]
      <4>. HIDE DEF G, c
      <4>. QED
        BY <1>1, <3>3
    <3>5. g[s] = f[c(s)] + g[r]
      <4>. HIDE DEF G, c
      <4>. QED
        BY <2>1, <3>3
    <3>6. r \in SUBSET S /\ g[r] # G[r]
      <4>. HIDE DEF G, c
      <4>. QED
        BY <3>2, <3>4, <3>5
    <3>7. Cardinality(r) = Cardinality(s) - 1 /\ Cardinality(s) \in Nat
      <4>1. IsFiniteSet(s)
        BY FS_Subset
      <4>. HIDE DEF c, G
      <4>. QED
        BY <3>4, <4>1, FS_RemoveElement, FS_CardinalityType
    <3>8. Cardinality(r) \in T
      <4>. HIDE DEF G, r
      <4>. QED
        BY <3>6
    <3>. HIDE DEF T, r
    <3>. QED
      BY <3>1, <3>2, <3>7, <3>8
  <2>4. \A s \in SUBSET S : g[s] = G[s]
    <3>. HIDE DEF G
    <3>. QED
      BY <2>3
  <2>5. G = [s \in SUBSET S |-> G[s]]
    OBVIOUS
  <2>. HIDE DEF G
  <2>. QED
    BY <2>1, <2>4, <2>5
<1>5. DOMAIN f = S /\ S \in SUBSET S /\ f = [i \in S |-> f[i]]
  OBVIOUS
<1>6. (CHOOSE g : Adds(g, f, S)) = G
  <2>. HIDE DEF G
  <2>. QED
    BY <1>3, <1>4
<1>7. G[S] = Balance(f)
  BY <1>5
<1>. QED
  <2>. HIDE DEF G
  <2>. QED
    BY <1>5, <1>6, <1>7, TotalUnfolds

LEMMA SumIsBalance ==
    ASSUME NEW S, IsFiniteSet(S), NEW f \in [S -> Int]
    PROVE  SumFunction(f) = Balance(f)
<1>1. SumFunction(f) = Total(f)
  BY DEF SumFunction, SumFunctionOnSet, FoldFunctionOnSet, Total, MapThenSumSet
<1>. QED
  BY <1>1, TotalIsBalance

LEMMA BalanceOfNaturals ==
    ASSUME NEW S, IsFiniteSet(S), NEW f \in [S -> Nat]
    PROVE  Balance(f) = BarTotal(f)
<1>1. \A i \in S : f[i] \in Nat
  OBVIOUS
<1>2. Gains(f) = f
  <2>1. \A i \in S : (IF f[i] > 0 THEN f[i] ELSE 0) = f[i]
    BY <1>1
  <2>. QED
    BY <2>1 DEF Gains
<1>3. \A i \in DOMAIN Losses(f) : Losses(f)[i] = 0
  BY <1>1 DEF Losses
<1>4. BarTotal(Losses(f)) = 0
  BY <1>3, TotalNone
<1>5. BarTotal(f) \in Nat
  BY BarsFinite
<1>. QED
  BY <1>2, <1>4, <1>5 DEF Balance

LEMMA TotalIsBarTotal ==
    ASSUME NEW S, IsFiniteSet(S), NEW f \in [S -> Nat]
    PROVE  Total(f) = BarTotal(f)
BY TotalIsBalance, BalanceOfNaturals

LEMMA SumIsBarTotal ==
    ASSUME NEW S, IsFiniteSet(S), NEW f \in [S -> Nat]
    PROVE  SumFunction(f) = BarTotal(f)
<1>1. SumFunction(f) = Total(f)
  BY DEF SumFunction, SumFunctionOnSet, FoldFunctionOnSet, Total, MapThenSumSet
<1>. QED
  BY <1>1, TotalIsBarTotal

\* Balances of functions that are the same but for their names and zeros.
LEMMA BalanceMoved ==
    ASSUME NEW S, IsFiniteSet(S), NEW f \in [S -> Int],
           NEW T, IsFiniteSet(T), NEW g \in [T -> Int], NEW p \in Injection(T, S),
           \A t \in T : f[p[t]] = g[t],
           \A s \in S : (\A t \in T : p[t] # s) => f[s] = 0
    PROVE  Balance(f) = Balance(g)
<1>1. p \in [T -> S]
  BY DEF Injection
<1>2. \A t \in T : Gains(f)[p[t]] = Gains(g)[t] /\ Losses(f)[p[t]] = Losses(g)[t]
  BY <1>1 DEF Gains, Losses
<1>3. \A s \in S : (\A t \in T : p[t] # s) => Gains(f)[s] = 0 /\ Losses(f)[s] = 0
  BY DEF Gains, Losses
<1>4. /\ Gains(f) \in [S -> Nat] /\ Losses(f) \in [S -> Nat]
      /\ Gains(g) \in [T -> Nat] /\ Losses(g) \in [T -> Nat]
  BY BalanceParts
<1>5. BarTotal(Gains(f)) = BarTotal(Gains(g))
  BY <1>2, <1>3, <1>4, TotalMoved
<1>6. BarTotal(Losses(f)) = BarTotal(Losses(g))
  BY <1>2, <1>3, <1>4, TotalMoved
<1>. QED
  BY <1>5, <1>6 DEF Balance

-----------------------------------------------------------------------------
(* Remainders. *)

\* Division by a positive number.
LEMMA Division ==
    ASSUME NEW R \in Nat \ {0}, NEW x \in Nat
    PROVE  x \div R \in Nat /\ x % R \in 0 .. R - 1 /\ x = R * (x \div R) + (x % R)
<1>. DEFINE q == x \div R
            s == x % R
<1>1. s \in 0 .. R - 1 /\ q \in Int /\ x = R * q + s
  OBVIOUS
<1>2. ASSUME q < 0 PROVE FALSE
  <2>1. - q >= 1
    BY <1>1, <1>2
  <2>2. R * (- q) >= R
    BY <1>1, <2>1
  <2>. QED
    BY <1>1, <2>2
<1>. QED
  BY <1>1, <1>2

\* Quotient and remainder are the only ones.
LEMMA DivisionUnique ==
    ASSUME NEW R \in Nat \ {0}, NEW q \in Nat, NEW s \in 0 .. R - 1, NEW p \in Nat, NEW r \in 0 .. R - 1,
           R * q + s = R * p + r
    PROVE  q = p /\ s = r
<1>1. ASSUME q < p PROVE FALSE
  <2>1. R * (p - q) >= R
    <3>1. p - q >= 1 /\ p - q \in Int
      BY <1>1
    <3>. QED
      BY <3>1
  <2>2. R * (p - q) = R * p - R * q
    OBVIOUS
  <2>. QED
    BY <2>1, <2>2
<1>2. ASSUME p < q PROVE FALSE
  <2>1. R * (q - p) >= R
    <3>1. q - p >= 1 /\ q - p \in Int
      BY <1>2
    <3>. QED
      BY <3>1
  <2>2. R * (q - p) = R * q - R * p
    OBVIOUS
  <2>. QED
    BY <2>1, <2>2
<1>. QED
  BY <1>1, <1>2

\* The remainder counts round and round.
LEMMA RemainderSteps ==
    ASSUME NEW R \in Nat \ {0}, NEW x \in Nat
    PROVE  /\ (x + 1) % R = ((x % R) + 1) % R
           /\ (x + R) % R = x % R
           /\ (x % R) % R = x % R
<1>. DEFINE q == x \div R
            s == x % R
<1>1. q \in Nat /\ s \in 0 .. R - 1 /\ x = R * q + s
  BY Division
<1>. HIDE DEF q, s
<1>2. ASSUME NEW y \in Nat, NEW p \in Nat, NEW r \in 0 .. R - 1, y = R * p + r
      PROVE  y % R = r
  <2>1. y \div R \in Nat /\ y % R \in 0 .. R - 1 /\ y = R * (y \div R) + (y % R)
    BY Division
  <2>. DEFINE pp == y \div R
              rr == y % R
  <2>. HIDE DEF pp, rr
  <2>2. rr = r
    BY <1>2, <2>1, DivisionUnique DEF pp, rr
  <2>. QED
    BY <2>2 DEF rr
<1>3. s % R = s
  <2>1. s = R * 0 + s /\ s \in Nat
    BY <1>1
  <2>. QED
    BY <1>1, <1>2, <2>1
<1>4. (x + R) % R = s
  <2>1. x + R = R * (q + 1) + s /\ x + R \in Nat /\ q + 1 \in Nat
    BY <1>1
  <2>. QED
    BY <1>1, <1>2, <2>1
<1>5. (x + 1) % R = (s + 1) % R
  <2>1. CASE s + 1 < R
    <3>1. x + 1 = R * q + (s + 1) /\ x + 1 \in Nat /\ s + 1 \in 0 .. R - 1
      BY <1>1, <2>1
    <3>2. s + 1 = R * 0 + (s + 1) /\ s + 1 \in Nat
      BY <3>1
    <3>. QED
      BY <1>1, <1>2, <3>1, <3>2
  <2>2. CASE s + 1 = R
    <3>1. x + 1 = R * (q + 1) + 0 /\ x + 1 \in Nat /\ q + 1 \in Nat /\ 0 \in 0 .. R - 1
      BY <1>1, <2>2
    <3>2. s + 1 = R * 1 + 0 /\ s + 1 \in Nat
      BY <2>2
    <3>3. (x + 1) % R = 0 /\ (s + 1) % R = 0
      BY <1>2, <3>1, <3>2
    <3>. QED
      BY <3>3
  <2>. QED
    BY <1>1, <2>1, <2>2
<1>. QED
  BY <1>3, <1>4, <1>5 DEF s

\* Within a window of R numbers remainders tell them apart.
LEMMA RemainderWindow ==
    ASSUME NEW R \in Nat \ {0}, NEW x \in Nat, NEW y \in Nat, x % R = y % R, x - y < R, y - x < R
    PROVE  x = y
<1>. DEFINE p == x \div R
            q == y \div R
            s == x % R
<1>1. p \in Nat /\ q \in Nat /\ s \in 0 .. R - 1 /\ x = R * p + s /\ y = R * q + s
  BY Division
<1>. HIDE DEF p, q, s
<1>2. ASSUME p < q PROVE FALSE
  <2>1. R * (q - p) >= R /\ R * (q - p) = R * q - R * p
    <3>1. q - p >= 1 /\ q - p \in Int
      BY <1>1, <1>2
    <3>. QED
      BY <1>1, <3>1
  <2>2. y - x = R * q - R * p
    BY <1>1
  <2>. QED
    BY <1>1, <2>1, <2>2
<1>3. ASSUME q < p PROVE FALSE
  <2>1. R * (p - q) >= R /\ R * (p - q) = R * p - R * q
    <3>1. p - q >= 1 /\ p - q \in Int
      BY <1>1, <1>3
    <3>. QED
      BY <1>1, <3>1
  <2>2. x - y = R * p - R * q
    BY <1>1
  <2>. QED
    BY <1>1, <2>1, <2>2
<1>4. p = q
  BY <1>1, <1>2, <1>3
<1>. QED
  BY <1>1, <1>4

-----------------------------------------------------------------------------
\* A recursion over finitely many ranks has a solution: a function whose value
\* at each place is what G makes of its values at places of lower rank.
Causal(D, V, rank, G) ==
    \A i \in D : \A f, g \in [D -> V] :
        (\A j \in D : rank[j] < rank[i] => f[j] = g[j]) => G[i][f] = G[i][g]

Solvable(D, V, G) == \E f \in [D -> V] : \A i \in D : f[i] = G[i][f]

\* Such a function is built rank by rank, from the lowest.
LEMMA BoundedRecursion ==
    \A D, V, v, M, rank, G :
        /\ v \in V /\ M \in Nat /\ rank \in [D -> 0 .. M]
        /\ G \in [D -> [[D -> V] -> V]] /\ Causal(D, V, rank, G)
        => Solvable(D, V, G)
<1>. TAKE D, V, v, M, rank, G
<1>. HAVE /\ v \in V /\ M \in Nat /\ rank \in [D -> 0 .. M]
          /\ G \in [D -> [[D -> V] -> V]] /\ Causal(D, V, rank, G)
<1>0. \A i \in D : \A f, g \in [D -> V] :
         (\A j \in D : rank[j] < rank[i] => f[j] = g[j]) => G[i][f] = G[i][g]
  BY DEF Causal
<1>. DEFINE Solves(f, n) == \A i \in D : rank[i] < n => f[i] = G[i][f]
            T == {n \in Nat : \E f \in [D -> V] : Solves(f, n)}
<1>1. 0 \in T
  <2>1. [i \in D |-> v] \in [D -> V]
    OBVIOUS
  <2>2. Solves([i \in D |-> v], 0)
    OBVIOUS
  <2>. QED
    BY <2>1, <2>2
<1>2. ASSUME NEW n \in T PROVE n + 1 \in T
  <2>1. PICK f \in [D -> V] : Solves(f, n)
    OBVIOUS
  <2>. DEFINE g == [i \in D |-> IF rank[i] = n THEN G[i][f] ELSE f[i]]
  <2>2. g \in [D -> V]
    OBVIOUS
  <2>3. \A i \in D : rank[i] < n + 1 => G[i][g] = G[i][f]
    <3>. TAKE i \in D
    <3>. HAVE rank[i] < n + 1
    <3>1. \A j \in D : rank[j] < rank[i] => g[j] = f[j]
      <4>. TAKE j \in D
      <4>. HAVE rank[j] < rank[i]
      <4>1. rank[j] # n
        OBVIOUS
      <4>. QED
        BY <4>1
    <3>. HIDE DEF g
    <3>. QED
      BY <1>0, <2>2, <3>1
  <2>4. \A i \in D : rank[i] < n + 1 => g[i] = G[i][f]
    <3>. TAKE i \in D
    <3>. HAVE rank[i] < n + 1
    <3>1. rank[i] = n \/ rank[i] < n
      <4>1. n \in Int /\ rank[i] \in Int /\ rank[i] < n + 1
        OBVIOUS
      <4>2. \A a, b \in Int : a < b + 1 => a = b \/ a < b
        OBVIOUS
      <4>. QED
        BY ONLY <4>1, <4>2
    <3>. QED
      BY <2>1, <3>1
  <2>. HIDE DEF g
  <2>5. Solves(g, n + 1)
    BY <2>3, <2>4
  <2>. QED
    BY <2>2, <2>5
<1>3. T = Nat
  <2>. HIDE DEF T
  <2>1. T \in SUBSET Nat
    BY DEF T
  <2>. QED
    BY <1>1, <1>2, <2>1, InductionOnNaturals
<1>4. M + 1 \in T
  <2>. HIDE DEF T
  <2>. QED
    BY <1>3
<1>5. PICK f \in [D -> V] : Solves(f, M + 1)
  BY <1>4
<1>6. \A i \in D : rank[i] < M + 1
  OBVIOUS
<1>7. \A i \in D : f[i] = G[i][f]
  BY <1>5, <1>6
<1>. QED
  BY <1>7 DEF Solvable

\* A bounded set of numbers has its maximum.
LEMMA GreatestMember ==
    ASSUME NEW S \in SUBSET Int, S # {}, NEW a \in Int, NEW B \in Int, \A x \in S : a <= x /\ x <= B
    PROVE  Max(S) \in S /\ Max(S) \in Int /\ \A y \in S : y <= Max(S)
<1>. DEFINE T == {B - x : x \in S}
<1>1. T \in SUBSET Nat /\ T # {}
  <2>1. \A x \in S : B - x \in Nat
    OBVIOUS
  <2>. QED
    BY <2>1
<1>2. PICK m \in T : \A k \in T : m <= k
  BY <1>1, LeastNatural
<1>3. PICK s \in S : m = B - s
  OBVIOUS
<1>4. \A y \in S : s >= y
  <2>. TAKE y \in S
  <2>1. B - y \in T
    OBVIOUS
  <2>2. m <= B - y
    BY <1>2, <2>1
  <2>. QED
    BY <1>3, <2>2
<1>5. \E x \in S : \A y \in S : x >= y
  BY <1>4
<1>6. Max(S) \in S /\ \A y \in S : Max(S) >= y
  BY <1>5 DEF Max
<1>. QED
  BY <1>6

\* A set bounded from below has its minimum.
LEMMA LeastMember ==
    ASSUME NEW S \in SUBSET Int, S # {}, NEW a \in Int, \A x \in S : a <= x
    PROVE  Min(S) \in S /\ Min(S) \in Int /\ \A y \in S : Min(S) <= y
<1>. DEFINE T == {x - a : x \in S}
<1>1. T \in SUBSET Nat /\ T # {}
  <2>1. \A x \in S : x - a \in Nat
    OBVIOUS
  <2>. QED
    BY <2>1
<1>2. PICK m \in T : \A k \in T : m <= k
  BY <1>1, LeastNatural
<1>3. PICK s \in S : m = s - a
  OBVIOUS
<1>4. \A y \in S : s <= y
  <2>. TAKE y \in S
  <2>1. y - a \in T
    OBVIOUS
  <2>2. m <= y - a
    BY <1>2, <2>1
  <2>. QED
    BY <1>3, <2>2
<1>5. \E x \in S : \A y \in S : x <= y
  BY <1>4
<1>6. Min(S) \in S /\ \A y \in S : Min(S) <= y
  BY <1>5 DEF Min
<1>. QED
  BY <1>6

\* A finite set of numbers is bounded.
LEMMA FiniteBounds ==
    ASSUME NEW S \in SUBSET Int, IsFiniteSet(S)
    PROVE  \E a, b \in Int : \A x \in S : a <= x /\ x <= b
<1>. DEFINE Within(U) == \E a, b \in Int : \A x \in U : a <= x /\ x <= b
            T == {n \in Nat : \A U \in SUBSET S : IsFiniteSet(U) /\ Cardinality(U) = n => Within(U)}
<1>1. 0 \in T
  <2>1. \A U \in SUBSET S : IsFiniteSet(U) /\ Cardinality(U) = 0 => U = {}
    BY FS_EmptySet
  <2>2. Within({})
    <3>1. 0 \in Int
      OBVIOUS
    <3>. QED
      BY <3>1
  <2>. HIDE DEF Within
  <2>. QED
    BY <2>1, <2>2
<1>2. ASSUME NEW n \in T PROVE n + 1 \in T
  <2>1. n \in Nat
    OBVIOUS
  <2>2. ASSUME NEW U \in SUBSET S, IsFiniteSet(U), Cardinality(U) = n + 1 PROVE Within(U)
    <3>1. U # {}
      <4>1. n + 1 # 0
        BY <2>1
      <4>. QED
        BY <2>2, <4>1, FS_EmptySet
    <3>2. PICK y \in U : TRUE
      BY <3>1
    <3>3. IsFiniteSet(U \ {y}) /\ Cardinality(U \ {y}) = n
      <4>1. IsFiniteSet(U \ {y}) /\ Cardinality(U \ {y}) = Cardinality(U) - 1
        BY <2>2, FS_RemoveElement
      <4>. QED
        BY <2>1, <2>2, <4>1
    <3>4. Within(U \ {y})
      <4>1. U \ {y} \in SUBSET S
        OBVIOUS
      <4>. HIDE DEF Within
      <4>. QED
        BY <3>3, <4>1
    <3>5. PICK a \in Int, b \in Int : \A x \in U \ {y} : a <= x /\ x <= b
      BY <3>4
    <3>. DEFINE c == IF a <= y THEN a ELSE y
                d == IF y <= b THEN b ELSE y
    <3>6. y \in Int
      OBVIOUS
    <3>7. c \in Int /\ d \in Int /\ c <= y /\ y <= d /\ c <= a /\ b <= d
      BY <3>6
    <3>. HIDE DEF c, d
    <3>8. \A x \in U : c <= x /\ x <= d
      <4>. TAKE x \in U
      <4>1. x \in Int
        OBVIOUS
      <4>2. CASE x = y
        BY <3>7, <4>2
      <4>3. CASE x # y
        <5>1. a <= x /\ x <= b
          BY <3>5, <4>3
        <5>. QED
          BY <3>7, <4>1, <5>1
      <4>. QED
        BY <4>2, <4>3
    <3>. QED
      BY <3>7, <3>8
  <2>. HIDE DEF Within
  <2>. QED
    BY <2>1, <2>2
<1>. HIDE DEF T
<1>3. T = Nat
  <2>1. T \in SUBSET Nat
    BY DEF T
  <2>. QED
    BY <1>1, <1>2, <2>1, InductionOnNaturals
<1>4. Cardinality(S) \in T
  BY <1>3, FS_CardinalityType
<1>5. Within(S)
  <2>. HIDE DEF Within
  <2>. QED
    BY <1>4 DEF T
<1>. QED
  BY <1>5

=============================================================================

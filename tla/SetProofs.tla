----------------------------- MODULE SetProofs -----------------------------
(***************************************************************************)
(* What the operators of the community modules compute, for every finite   *)
(* set: Min, Max, SumFunctionOnSet.  The library's induction theorems      *)
(* take a predicate; here an induction is the choice of a least            *)
(* counterexample in a well-founded order, which needs none.               *)
(***************************************************************************)
EXTENDS Integers, Functions, FiniteSetsExt, FiniteSetTheorems, TLAPS

\* A set of natural numbers has a least one.
LEMMA MinFacts ==
    ASSUME NEW S \in SUBSET Nat, S # {}
    PROVE  Min(S) \in S /\ \A x \in S : Min(S) <= x
<1>1. PICK n \in S : \A m \in S : <<m, n>> \notin OpToRel(<, Nat)
    BY NatLessThanWellFounded, WFMin
<1>2. \A m \in S : ~ (m < n)
    BY <1>1 DEF OpToRel
<1>3. \A m \in S : n <= m
    BY <1>2
<1> QED
    BY <1>3 DEF Min

\* A finite one has a greatest: a least subset without would not be the least.
LEMMA MaxFacts ==
    ASSUME NEW S \in SUBSET Nat, S # {}, IsFiniteSet(S)
    PROVE  Max(S) \in S /\ \A x \in S : Max(S) >= x
<1> DEFINE Endless == {T \in SUBSET S : T # {} /\ \A m \in T : \E x \in T : x > m}
<1>1. Endless = {}
    <2> SUFFICES ASSUME Endless # {} PROVE FALSE
        OBVIOUS
    <2>1. Endless \subseteq FiniteSubsetsOf(S)
        BY FS_FiniteSubsetsOfFinite
    <2>2. PICK T \in Endless : \A U \in Endless : <<U, T>> \notin StrictSubsetOrdering(S)
        <3>1. IsWellFoundedOn(StrictSubsetOrdering(S), FiniteSubsetsOf(S))
            BY FS_StrictSubsetOrderingWellFounded
        <3> HIDE DEF Endless
        <3> QED
            BY <2>1, <3>1, WFMin
    <2>3. PICK m \in T, x \in T : x > m
        OBVIOUS
    <2>4. T \ {m} \in SUBSET S /\ T \ {m} # {} /\ T \ {m} # T
        BY <2>3
    <2>5. T \ {m} \notin Endless
        BY <2>2, <2>4 DEF StrictSubsetOrdering
    <2>6. PICK n \in T \ {m} : \A y \in T \ {m} : ~ (y > n)
        BY <2>4, <2>5
    <2>7. PICK z \in T : z > n
        OBVIOUS
    <2> QED
        BY <2>3, <2>6, <2>7
<1>2. \E m \in S : \A x \in S : m >= x
    BY <1>1
<1> QED
    BY <1>2 DEF Max

---------------------------------------------------------------------------
(* Sums                                                                    *)

\* The recursion behind SumFunctionOnSet: g gives the sum of each subset of S.
Pick(s) == CHOOSE x \in s : TRUE
Sums(S, f, g) ==
    g = [s \in SUBSET S |-> IF s = {} THEN 0 ELSE f[Pick(s)] + g[s \ {Pick(s)}]]

\* What the folds of the library compute is this recursion.
LEMMA SumIsSums ==
    ASSUME NEW S, NEW f
    PROVE  SumFunctionOnSet(f, S) = (CHOOSE g : Sums(S, f, g))[S]
BY DEF SumFunctionOnSet, FoldFunctionOnSet, MapThenFoldSet, Sums, Pick

\* There is such a function: for the subsets up to every size.
LEMMA SumsExist ==
    ASSUME NEW S, IsFiniteSet(S), NEW f
    PROVE  \E g : Sums(S, f, g)
<1> DEFINE UpTo(n) == {s \in SUBSET S : Cardinality(s) <= n}
           Good(n, g) ==
             g = [s \in UpTo(n) |-> IF s = {} THEN 0 ELSE f[Pick(s)] + g[s \ {Pick(s)}]]
           Bad == {n \in Nat : ~ \E g : Good(n, g)}
<1>1. \A s \in SUBSET S : IsFiniteSet(s) /\ Cardinality(s) \in Nat /\ Cardinality(s) <= Cardinality(S)
    BY FS_Subset, FS_CardinalityType
<1>2. ASSUME NEW s \in SUBSET S, s # {}
      PROVE  Pick(s) \in s /\ Cardinality(s \ {Pick(s)}) = Cardinality(s) - 1
    <2>1. Pick(s) \in s
        BY <1>2 DEF Pick
    <2> QED
        BY <1>1, <2>1, FS_RemoveElement
<1>3. ASSUME NEW n \in Nat, NEW g, n > 0, Good(n - 1, g)
      PROVE  \E h : Good(n, h)
    <2> DEFINE h == [s \in UpTo(n) |-> IF s = {} THEN 0 ELSE f[Pick(s)] + g[s \ {Pick(s)}]]
    <2>1. ASSUME NEW t \in UpTo(n - 1) PROVE h[t] = g[t] /\ t \in UpTo(n)
        <3>1. t \in UpTo(n)
            BY <1>1
        <3> QED
            BY <1>3, <3>1
    <2>2. ASSUME NEW s \in UpTo(n), s # {} PROVE h[s \ {Pick(s)}] = g[s \ {Pick(s)}]
        <3>1. s \ {Pick(s)} \in SUBSET S /\ Cardinality(s \ {Pick(s)}) = Cardinality(s) - 1
            BY <1>2, <2>2
        <3>2. s \ {Pick(s)} \in UpTo(n - 1)
            BY <1>1, <3>1
        <3> QED
            BY <2>1, <3>2
    <2>3. Good(n, h)
        BY <2>2
    <2> QED
        BY <2>3
<1>4. \E g : Good(0, g)
    <2> DEFINE g == [s \in UpTo(0) |-> 0]
    <2>1. UpTo(0) = {{}}
        BY <1>1, FS_EmptySet
    <2>2. Good(0, g)
        BY <2>1
    <2> QED
        BY <2>2
<1>5. Bad = {}
    <2> SUFFICES ASSUME Bad # {} PROVE FALSE
        OBVIOUS
    <2>1. Bad \in SUBSET Nat
        OBVIOUS
    <2>2. PICK n \in Bad : \A m \in Bad : n <= m
        <3> HIDE DEF Bad
        <3> QED
            BY <2>1, MinFacts
    <2>3. n # 0
        <3>1. ~ \E g : Good(n, g)
            OBVIOUS
        <3> HIDE DEF Good, Bad
        <3> QED
            BY <1>4, <3>1
    <2>4. n \in Nat /\ n > 0 /\ n - 1 \in Nat /\ n - 1 \notin Bad
        <3>1. n \in Nat
            BY <2>1
        <3> HIDE DEF Bad
        <3> QED
            BY <2>2, <2>3, <3>1
    <2>5. PICK g : Good(n - 1, g)
        BY <2>4
    <2>6. \E h : Good(n, h)
        <3> HIDE DEF Good
        <3> QED
            BY <1>3, <2>4, <2>5
    <2> QED
        BY <2>6
<1>6. Cardinality(S) \in Nat
    BY FS_CardinalityType
<1>7. PICK g : Good(Cardinality(S), g)
    BY <1>5, <1>6
<1>8. UpTo(Cardinality(S)) = SUBSET S
    BY <1>1
<1> QED
    BY <1>7, <1>8 DEF Sums

\* It depends on nothing but the values on the set.
LEMMA SumsAgree ==
    ASSUME NEW S, NEW T, NEW e, NEW f, NEW g, NEW h, IsFiniteSet(T), T \subseteq S,
           \A x \in T : e[x] = f[x], Sums(S, e, g), Sums(T, f, h)
    PROVE  \A s \in SUBSET T : g[s] = h[s]
<1> DEFINE Bad == {s \in SUBSET T : g[s] # h[s]}
<1> SUFFICES ASSUME Bad # {} PROVE FALSE
    OBVIOUS
<1>1. Bad \subseteq FiniteSubsetsOf(T)
    BY FS_FiniteSubsetsOfFinite
<1>2. PICK s \in Bad : \A t \in Bad : <<t, s>> \notin StrictSubsetOrdering(T)
    <2>1. IsWellFoundedOn(StrictSubsetOrdering(T), FiniteSubsetsOf(T))
        BY FS_StrictSubsetOrderingWellFounded
    <2> HIDE DEF Bad
    <2> QED
        BY <1>1, <2>1, WFMin
<1>3. s # {}
    BY DEF Sums
<1>4. Pick(s) \in s
    BY <1>3 DEF Pick
<1>5. s \ {Pick(s)} \notin Bad
    BY <1>2, <1>4 DEF StrictSubsetOrdering
<1>6. g[s \ {Pick(s)}] = h[s \ {Pick(s)}] /\ e[Pick(s)] = f[Pick(s)]
    BY <1>4, <1>5
<1>7. g[s] = e[Pick(s)] + g[s \ {Pick(s)}]
    BY <1>3 DEF Sums
<1>8. h[s] = f[Pick(s)] + h[s \ {Pick(s)}]
    BY <1>3 DEF Sums
<1> QED
    BY <1>6, <1>7, <1>8

\* Functions that agree on a set have the same sum.
LEMMA SumSame ==
    ASSUME NEW S, IsFiniteSet(S), NEW e, NEW f, \A x \in S : e[x] = f[x]
    PROVE  SumFunctionOnSet(e, S) = SumFunctionOnSet(f, S)
<1>1. PICK g : g = CHOOSE k : Sums(S, e, k)
    OBVIOUS
<1>2. PICK h : h = CHOOSE k : Sums(S, f, k)
    OBVIOUS
<1>3. Sums(S, e, g) /\ Sums(S, f, h)
    BY <1>1, <1>2, SumsExist
<1>4. g[S] = h[S]
    BY <1>3, SumsAgree
<1> QED
    BY <1>1, <1>2, <1>4, SumIsSums

\* Nothing sums to zero.
LEMMA SumEmpty ==
    ASSUME NEW f
    PROVE  SumFunctionOnSet(f, {}) = 0
<1>1. PICK g : g = CHOOSE k : Sums({}, f, k)
    OBVIOUS
<1>2. Sums({}, f, g)
    BY <1>1, SumsExist, FS_EmptySet
<1>3. g[{}] = 0
    BY <1>2 DEF Sums
<1> QED
    BY <1>1, <1>3, SumIsSums

\* One step of the recursion.
LEMMA SumUnfold ==
    ASSUME NEW S, IsFiniteSet(S), S # {}, NEW f
    PROVE  /\ Pick(S) \in S
           /\ SumFunctionOnSet(f, S) = f[Pick(S)] + SumFunctionOnSet(f, S \ {Pick(S)})
<1>1. PICK T : T = S \ {Pick(S)}
    OBVIOUS
<1>2. Pick(S) \in S /\ IsFiniteSet(T) /\ T \subseteq S
    BY <1>1, FS_Subset DEF Pick
<1>3. PICK g : g = CHOOSE k : Sums(S, f, k)
    OBVIOUS
<1>4. PICK h : h = CHOOSE k : Sums(T, f, k)
    OBVIOUS
<1>5. Sums(S, f, g) /\ Sums(T, f, h)
    BY <1>2, <1>3, <1>4, SumsExist
<1>6. g[T] = h[T]
    BY <1>2, <1>5, SumsAgree
<1>7. g[S] = f[Pick(S)] + g[T]
    BY <1>1, <1>5 DEF Sums
<1> QED
    BY <1>1, <1>2, <1>3, <1>4, <1>6, <1>7, SumIsSums

\* A sum of integers is one, and any element may be taken out of it.
LEMMA SumRemove ==
    ASSUME NEW S, IsFiniteSet(S), NEW f, \A x \in S : f[x] \in Int
    PROVE  /\ SumFunctionOnSet(f, S) \in Int
           /\ \A y \in S : SumFunctionOnSet(f, S) = f[y] + SumFunctionOnSet(f, S \ {y})
<1> DEFINE Sum(s) == SumFunctionOnSet(f, s)
           Good(s) == Sum(s) \in Int /\ \A y \in s : Sum(s) = f[y] + Sum(s \ {y})
           Bad == {s \in SUBSET S : ~ Good(s)}
<1> SUFFICES ASSUME Bad # {} PROVE FALSE
    OBVIOUS
<1>1. Bad \subseteq FiniteSubsetsOf(S)
    BY FS_FiniteSubsetsOfFinite
<1>2. PICK s \in Bad : \A t \in Bad : <<t, s>> \notin StrictSubsetOrdering(S)
    <2>1. IsWellFoundedOn(StrictSubsetOrdering(S), FiniteSubsetsOf(S))
        BY FS_StrictSubsetOrderingWellFounded
    <2> HIDE DEF Bad
    <2> QED
        BY <1>1, <2>1, WFMin
<1>3. ASSUME NEW y \in s PROVE Good(s \ {y})
    <2>1. s \ {y} \in SUBSET S /\ s \ {y} # s /\ s \ {y} \subseteq s
        OBVIOUS
    <2>2. <<s \ {y}, s>> \in StrictSubsetOrdering(S)
        BY <2>1 DEF StrictSubsetOrdering
    <2>3. s \ {y} \notin Bad
        <3> HIDE DEF Bad
        <3> QED
            BY <1>2, <2>2
    <2> QED
        BY <2>1, <2>3
<1>4. s # {}
    BY SumEmpty
<1>5. IsFiniteSet(s)
    BY FS_Subset
<1>6. PICK p : p = Pick(s)
    OBVIOUS
<1>7. p \in s /\ Sum(s) = f[p] + Sum(s \ {p})
    BY <1>4, <1>5, <1>6, SumUnfold
<1>8. Sum(s) \in Int
    BY <1>3, <1>7
<1>9. ASSUME NEW y \in s PROVE Sum(s) = f[y] + Sum(s \ {y})
    <2>1. CASE y = p
        BY <1>7, <2>1
    <2>2. CASE y # p
        <3>1. Sum(s \ {p}) = f[y] + Sum((s \ {p}) \ {y}) /\ Sum(s \ {p}) \in Int
            BY <1>3, <1>7, <2>2
        <3>2. Sum(s \ {y}) = f[p] + Sum((s \ {y}) \ {p}) /\ Sum(s \ {y}) \in Int
            BY <1>3, <1>7, <2>2
        <3>3. (s \ {p}) \ {y} = (s \ {y}) \ {p}
            OBVIOUS
        <3>4. PICK r : r = Sum((s \ {p}) \ {y})
            OBVIOUS
        <3>5. f[p] \in Int /\ f[y] \in Int /\ r \in Int
            <4>1. y \in s \ {p}
                BY <2>2
            <4>2. Good((s \ {p}) \ {y})
                <5>1. (s \ {p}) \ {y} \in SUBSET S /\ (s \ {p}) \ {y} # s /\ (s \ {p}) \ {y} \subseteq s
                    BY <1>7
                <5>2. <<(s \ {p}) \ {y}, s>> \in StrictSubsetOrdering(S)
                    BY <5>1 DEF StrictSubsetOrdering
                <5>3. (s \ {p}) \ {y} \notin Bad
                    <6> HIDE DEF Bad
                    <6> QED
                        BY <1>2, <5>2
                <5> QED
                    BY <5>1, <5>3
            <4> QED
                BY <1>7, <3>4, <4>2
        <3>6. PICK a, b, c : a = Sum(s) /\ b = Sum(s \ {p}) /\ c = Sum(s \ {y})
            OBVIOUS
        <3>7. a = f[p] + b /\ b = f[y] + r /\ c = f[p] + r
            BY <1>7, <3>1, <3>2, <3>3, <3>4, <3>6
        <3>8. a = f[y] + c
            BY <3>5, <3>7
        <3> QED
            BY <3>6, <3>8
    <2> QED
        BY <2>1, <2>2
<1> QED
    BY <1>8, <1>9

\* A sum of natural numbers is one.
LEMMA SumNat ==
    ASSUME NEW S, IsFiniteSet(S), NEW f, \A x \in S : f[x] \in Nat
    PROVE  SumFunctionOnSet(f, S) \in Nat
<1> DEFINE Bad == {s \in SUBSET S : SumFunctionOnSet(f, s) \notin Nat}
<1> SUFFICES ASSUME Bad # {} PROVE FALSE
    OBVIOUS
<1>1. Bad \subseteq FiniteSubsetsOf(S)
    BY FS_FiniteSubsetsOfFinite
<1>2. PICK s \in Bad : \A t \in Bad : <<t, s>> \notin StrictSubsetOrdering(S)
    <2>1. IsWellFoundedOn(StrictSubsetOrdering(S), FiniteSubsetsOf(S))
        BY FS_StrictSubsetOrderingWellFounded
    <2> HIDE DEF Bad
    <2> QED
        BY <1>1, <2>1, WFMin
<1>3. s # {}
    BY SumEmpty
<1>4. IsFiniteSet(s)
    BY FS_Subset
<1>5. PICK p : p = Pick(s)
    OBVIOUS
<1>6. p \in s /\ SumFunctionOnSet(f, s) = f[p] + SumFunctionOnSet(f, s \ {p})
    BY <1>3, <1>4, <1>5, SumUnfold
<1>7. s \ {p} \notin Bad
    BY <1>1, <1>2, <1>6 DEF StrictSubsetOrdering
<1>8. SumFunctionOnSet(f, s \ {p}) \in Nat /\ f[p] \in Nat
    BY <1>6, <1>7
<1> QED
    BY <1>6, <1>8

\* Pairs with at most c of every first component.
LEMMA GroupBound ==
    ASSUME NEW R, IsFiniteSet(R), NEW S, IsFiniteSet(S), NEW c \in Nat,
           \A s \in S : Cardinality({t \in R : t[1] = s}) <= c
    PROVE  Cardinality({t \in R : t[1] \in S}) <= Cardinality(S) * c
<1> DEFINE Of(s) == {t \in R : t[1] \in s}
           One(y) == {t \in R : t[1] = y}
           Good(s) == Cardinality(Of(s)) <= Cardinality(s) * c
           Bad == {s \in SUBSET S : ~ Good(s)}
<1> SUFFICES ASSUME Bad # {} PROVE FALSE
    OBVIOUS
<1>1. Bad \subseteq FiniteSubsetsOf(S)
    BY FS_FiniteSubsetsOfFinite
<1>2. PICK s \in Bad : \A t \in Bad : <<t, s>> \notin StrictSubsetOrdering(S)
    <2>1. IsWellFoundedOn(StrictSubsetOrdering(S), FiniteSubsetsOf(S))
        BY FS_StrictSubsetOrderingWellFounded
    <2> HIDE DEF Bad
    <2> QED
        BY <1>1, <2>1, WFMin
<1>3. IsFiniteSet(s) /\ s \subseteq S /\ ~ Good(s)
    BY FS_Subset
<1>4. s # {}
    <2> SUFFICES ASSUME s = {} PROVE FALSE
        OBVIOUS
    <2>1. Of(s) = {} /\ Cardinality(s) = 0 /\ Cardinality({}) = 0
        BY FS_EmptySet
    <2> HIDE DEF Of
    <2>2. Cardinality(Of(s)) = 0
        BY <2>1
    <2>3. Cardinality(s) * c = 0
        BY <2>1
    <2> QED
        BY <1>3, <2>2, <2>3
<1>5. PICK y \in s : TRUE
    BY <1>4
<1>6. s \ {y} \notin Bad /\ s \ {y} \in SUBSET S
    BY <1>1, <1>2, <1>3, <1>5 DEF StrictSubsetOrdering
<1>7. Cardinality(Of(s \ {y})) <= Cardinality(s \ {y}) * c
    BY <1>6
<1>8. Cardinality(s \ {y}) = Cardinality(s) - 1 /\ Cardinality(s) \in Nat
    BY <1>3, <1>5, FS_RemoveElement, FS_CardinalityType
<1>9. Of(s) = Of(s \ {y}) \union One(y)
    BY <1>5
<1>10. IsFiniteSet(Of(s \ {y})) /\ IsFiniteSet(One(y)) /\ Cardinality(One(y)) <= c
    BY <1>3, <1>5, FS_Subset
<1> HIDE DEF Of, One, Bad
<1>11. PICK a, b, d, n : /\ a = Cardinality(Of(s \ {y})) /\ b = Cardinality(One(y))
                         /\ d = Cardinality(Of(s \ {y}) \cap One(y)) /\ n = Cardinality(s)
    OBVIOUS
<1>12. IsFiniteSet(Of(s \ {y}) \cap One(y))
    BY <1>10, FS_Subset
<1>13. a \in Nat /\ b \in Nat /\ d \in Nat /\ n \in Nat
    BY <1>8, <1>10, <1>11, <1>12, FS_CardinalityType
<1>14. Cardinality(Of(s)) = a + b - d
    BY <1>9, <1>10, <1>11, FS_Union
<1>15. a <= (n - 1) * c /\ b <= c
    BY <1>7, <1>8, <1>10, <1>11
<1>16. (n - 1) * c = n * c - c /\ n * c \in Nat
    BY <1>13
<1>17. a + b - d <= n * c
    BY <1>13, <1>15, <1>16
<1> QED
    BY <1>3, <1>11, <1>14, <1>17
=============================================================================

------------------------------ MODULE FiniteLemmas -----------------------------
(***************************************************************************)
(* Facts about finite sets that the proofs about the components share:     *)
(* sums, as MapThenSumSet of the community modules computes them, and      *)
(* greatest and least members.  The smallest set of which a claim fails    *)
(* takes the place of induction.                                           *)
(***************************************************************************)
EXTENDS Integers, FiniteSetsExt, FiniteSetTheorems, WellFoundedInduction, TLAPS

\* Among some parts of a finite set there is one that contains no other.
LEMMA LeastSet ==
  ASSUME NEW S, IsFiniteSet(S), NEW F, F \subseteq SUBSET S, F # {}
  PROVE  \E T \in F : \A U \in F : U \subseteq T => U = T
<1> DEFINE R == StrictSubsetOrdering(S)
<1>1. IsWellFoundedOn(R, FiniteSubsetsOf(S))
  BY FS_StrictSubsetOrderingWellFounded
<1>2. F \subseteq FiniteSubsetsOf(S)
  BY FS_Subset DEF FiniteSubsetsOf
<1> HIDE DEF R
<1>3. PICK m \in F : \A n \in F : <<n, m>> \notin R
  BY <1>1, <1>2, WFMin
<1>4. \A n \in F : ~(n \subseteq m /\ n # m)
  BY <1>2, <1>3 DEF R, StrictSubsetOrdering, FiniteSubsetsOf
<1> QED BY <1>4

Total(f, S) == MapThenSumSet(LAMBDA x : f[x], S)

AnyOf(s) == CHOOSE x \in s : TRUE

\* What the recursive function behind the sum of f over S satisfies.
Totals(g, f, S) ==
  g = [s \in SUBSET S |-> IF s = {} THEN 0 ELSE f[AnyOf(s)] + g[s \ {AnyOf(s)}]]

\* A function that sums f over the subsets of S does so over those of T.
LEMMA TotalsUnique ==
  ASSUME NEW f, NEW S, NEW T, T \subseteq S, IsFiniteSet(T),
         NEW g, Totals(g, f, S), NEW h, Totals(h, f, T)
  PROVE  g[T] = h[T]
<1> DEFINE Differ == {s \in SUBSET T : g[s] # h[s]}
<1>1. SUFFICES ASSUME Differ # {} PROVE FALSE
  OBVIOUS
<1>2. Differ \subseteq SUBSET T
  OBVIOUS
<1>3. PICK s \in Differ : \A u \in Differ : u \subseteq s => u = s
  <2> HIDE DEF Differ
  <2> QED BY <1>1, <1>2, LeastSet
<1>4. s \in SUBSET T /\ s \in SUBSET S /\ g[s] # h[s]
  OBVIOUS
<1>5. s # {}
  BY <1>4 DEF Totals
<1>6. AnyOf(s) \in s
  BY <1>5 DEF AnyOf
<1>7. s \ {AnyOf(s)} \notin Differ
  BY <1>3, <1>6
<1>8. g[s \ {AnyOf(s)}] = h[s \ {AnyOf(s)}]
  BY <1>4, <1>7
<1>9. g[s] = f[AnyOf(s)] + g[s \ {AnyOf(s)}] /\ h[s] = f[AnyOf(s)] + h[s \ {AnyOf(s)}]
  BY <1>4, <1>5 DEF Totals
<1> QED BY <1>4, <1>8, <1>9

\* Every finite set has such a function.
LEMMA TotalsExist ==
  ASSUME NEW f, NEW S, IsFiniteSet(S) PROVE \E g : Totals(g, f, S)
<1> DEFINE Without == {T \in SUBSET S : ~\E g : Totals(g, f, T)}
<1>1. SUFFICES ASSUME Without # {} PROVE FALSE
  OBVIOUS
<1>2. Without \subseteq SUBSET S
  OBVIOUS
<1>3. PICK T \in Without : \A U \in Without : U \subseteq T => U = T
  <2> HIDE DEF Without
  <2> QED BY <1>1, <1>2, LeastSet
<1> DEFINE Sum(s) == (CHOOSE g : Totals(g, f, s))[s]
           g == [s \in SUBSET T |-> IF s = {} THEN 0 ELSE f[AnyOf(s)] + Sum(s \ {AnyOf(s)})]
<1>4. ASSUME NEW U \in SUBSET T, U # T PROVE Totals(CHOOSE h : Totals(h, f, U), f, U)
  <2>1. \E h : Totals(h, f, U)
    BY <1>3, <1>4
  <2> QED BY <2>1
<1>5. ASSUME NEW U \in SUBSET T, U # T PROVE g[U] = Sum(U)
  <2>1. PICK h : h = (CHOOSE k : Totals(k, f, U)) /\ Totals(h, f, U)
    BY <1>4, <1>5
  <2>2. h[U] = IF U = {} THEN 0 ELSE f[AnyOf(U)] + h[U \ {AnyOf(U)}]
    BY <2>1 DEF Totals
  <2>3. CASE U = {}
    BY <2>1, <2>2, <2>3
  <2>4. CASE U # {}
    <3>1. AnyOf(U) \in U
      BY <2>4 DEF AnyOf
    <3>2. Totals(CHOOSE k : Totals(k, f, U \ {AnyOf(U)}), f, U \ {AnyOf(U)})
      <4>1. U \ {AnyOf(U)} \in SUBSET T /\ U \ {AnyOf(U)} # T
        BY <3>1
      <4> QED BY <4>1, <1>4
    <3>3. IsFiniteSet(U \ {AnyOf(U)})
      BY <1>2, FS_Subset
    <3>4. h[U \ {AnyOf(U)}] = Sum(U \ {AnyOf(U)})
      BY <2>1, <3>2, <3>3, TotalsUnique
    <3>5. g[U] = f[AnyOf(U)] + Sum(U \ {AnyOf(U)})
      BY <2>4
    <3>6. h[U] = f[AnyOf(U)] + h[U \ {AnyOf(U)}] /\ Sum(U) = h[U]
      BY <2>1, <2>2, <2>4
    <3> HIDE DEF g, Sum
    <3> QED BY <3>4, <3>5, <3>6
  <2> QED BY <2>3, <2>4
<1>6. Totals(g, f, T)
  <2>1. ASSUME NEW s \in SUBSET T, s # {} PROVE Sum(s \ {AnyOf(s)}) = g[s \ {AnyOf(s)}]
    <3>1. AnyOf(s) \in s
      BY <2>1 DEF AnyOf
    <3>2. s \ {AnyOf(s)} \in SUBSET T /\ s \ {AnyOf(s)} # T
      BY <3>1
    <3> HIDE DEF g, Sum
    <3> QED BY <3>2, <1>5
  <2>2. \A s \in SUBSET T : g[s] = IF s = {} THEN 0 ELSE f[AnyOf(s)] + Sum(s \ {AnyOf(s)})
    OBVIOUS
  <2>3. \A s \in SUBSET T : g[s] = IF s = {} THEN 0 ELSE f[AnyOf(s)] + g[s \ {AnyOf(s)}]
    <3> HIDE DEF g, Sum
    <3> QED BY <2>1, <2>2
  <2>4. g = [s \in SUBSET T |-> g[s]]
    OBVIOUS
  <2> HIDE DEF g, Sum
  <2> QED BY <2>3, <2>4 DEF Totals
<1> QED BY <1>3, <1>6

\* The fold of the community modules is the value of any such function.
LEMMA TotalIs ==
  ASSUME NEW f, NEW S, IsFiniteSet(S), NEW g, Totals(g, f, S)
  PROVE  Total(f, S) = g[S]
<1>1. Total(f, S) = (CHOOSE h : Totals(h, f, S))[S]
  BY DEF Total, MapThenSumSet, MapThenFoldSet, Totals, AnyOf
<1>2. PICK h : h = (CHOOSE k : Totals(k, f, S)) /\ Totals(h, f, S)
  OBVIOUS
<1>3. h[S] = g[S]
  BY <1>2, TotalsUnique
<1> QED BY <1>1, <1>2, <1>3

\* The sum of nothing.
LEMMA TotalEmpty == ASSUME NEW f PROVE Total(f, {}) = 0
<1>1. PICK g : Totals(g, f, {})
  BY FS_EmptySet, TotalsExist
<1>2. g[{}] = 0
  BY <1>1 DEF Totals
<1> QED BY <1>1, <1>2, FS_EmptySet, TotalIs

\* The sum over a part is given by the function for the whole.
LEMMA TotalOfPart ==
  ASSUME NEW f, NEW S, IsFiniteSet(S), NEW g, Totals(g, f, S), NEW T \in SUBSET S
  PROVE  Total(f, T) = g[T]
<1>1. IsFiniteSet(T)
  BY FS_Subset
<1>2. PICK h : Totals(h, f, T)
  BY <1>1, TotalsExist
<1> QED BY <1>1, <1>2, TotalIs, TotalsUnique

\* Taking one element out, whichever.
LEMMA TotalRemove ==
  ASSUME NEW f, NEW S, IsFiniteSet(S), \A x \in S : f[x] \in Int
  PROVE  /\ Total(f, S) \in Int
         /\ \A x \in S : Total(f, S) = f[x] + Total(f, S \ {x})
<1>1. PICK g : Totals(g, f, S)
  BY TotalsExist
<1> DEFINE Good(s) == g[s] \in Int /\ \A x \in s : g[s] = f[x] + g[s \ {x}]
           Bad == {s \in SUBSET S : ~Good(s)}
<1>2. ASSUME Bad # {} PROVE FALSE
  <2>1. Bad \subseteq SUBSET S
    OBVIOUS
  <2>2. PICK s \in Bad : \A u \in Bad : u \subseteq s => u = s
    <3> HIDE DEF Bad
    <3> QED BY <1>2, <2>1, LeastSet
  <2>3. s \in SUBSET S /\ ~Good(s)
    OBVIOUS
  <2>4. \A u \in SUBSET s : u # s => Good(u)
    BY <2>2, <2>3
  <2> HIDE DEF Good, Bad
  <2>5. s # {}
    BY <1>1, <2>3 DEF Good, Totals
  <2> DEFINE a == AnyOf(s)
  <2>6. a \in s /\ f[a] \in Int
    BY <2>3, <2>5 DEF AnyOf
  <2>7. g[s] = f[a] + g[s \ {a}]
    BY <1>1, <2>3, <2>5 DEF Totals
  <2>8. Good(s \ {a})
    BY <2>4, <2>6
  <2> HIDE DEF a
  <2>9. g[s] \in Int
    BY <2>6, <2>7, <2>8 DEF Good
  <2>10. ASSUME NEW x \in s, x # a PROVE g[s] = f[x] + g[s \ {x}]
    <3>1. g[s \ {a}] = f[x] + g[(s \ {a}) \ {x}]
      BY <2>8, <2>10 DEF Good
    <3>2. Good(s \ {x}) /\ Good((s \ {x}) \ {a}) /\ Good((s \ {a}) \ {x})
      BY <2>4, <2>6, <2>10
    <3>3. g[s \ {x}] = f[a] + g[(s \ {x}) \ {a}]
      BY <2>6, <2>10, <3>2 DEF Good
    <3>4. (s \ {x}) \ {a} = (s \ {a}) \ {x}
      OBVIOUS
    <3>5. f[x] \in Int /\ g[(s \ {a}) \ {x}] \in Int
      BY <2>3, <3>2 DEF Good
    <3>6. g[s \ {a}] \in Int /\ g[s \ {x}] \in Int
      BY <2>8, <3>2 DEF Good
    <3>7. g[s \ {x}] = f[a] + g[(s \ {a}) \ {x}]
      BY <3>3, <3>4
    <3> QED BY <2>6, <2>7, <3>1, <3>5, <3>6, <3>7
  <2> QED BY <2>3, <2>7, <2>9, <2>10 DEF Good
<1>3. Good(S)
  BY <1>2
<1>4. \A T \in SUBSET S : Total(f, T) = g[T]
  BY <1>1, TotalOfPart
<1> QED BY <1>3, <1>4

\* Sums of two functions that compare.
LEMMA TotalCompare ==
  ASSUME NEW S, IsFiniteSet(S), NEW f, NEW g, \A x \in S : f[x] \in Int /\ g[x] \in Int
  PROVE  /\ (\A x \in S : f[x] = g[x]) => Total(f, S) = Total(g, S)
         /\ (\A x \in S : f[x] <= g[x]) => Total(f, S) <= Total(g, S)
<1> DEFINE Good(s) == /\ (\A x \in s : f[x] = g[x]) => Total(f, s) = Total(g, s)
                      /\ (\A x \in s : f[x] <= g[x]) => Total(f, s) <= Total(g, s)
           Bad == {s \in SUBSET S : ~Good(s)}
<1>1. ASSUME Bad # {} PROVE FALSE
  <2>1. Bad \subseteq SUBSET S
    OBVIOUS
  <2>2. PICK s \in Bad : \A u \in Bad : u \subseteq s => u = s
    <3> HIDE DEF Bad
    <3> QED BY <1>1, <2>1, LeastSet
  <2>3. s \in SUBSET S /\ ~Good(s)
    OBVIOUS
  <2>4. \A u \in SUBSET s : u # s => Good(u)
    BY <2>2, <2>3
  <2> HIDE DEF Good, Bad
  <2>5. s # {}
    BY <2>3, TotalEmpty DEF Good
  <2>6. PICK x \in s : TRUE
    BY <2>5
  <2>7. IsFiniteSet(s) /\ IsFiniteSet(s \ {x})
    BY <2>3, FS_Subset
  <2>8. /\ Total(f, s) = f[x] + Total(f, s \ {x}) /\ Total(f, s \ {x}) \in Int
        /\ Total(g, s) = g[x] + Total(g, s \ {x}) /\ Total(g, s \ {x}) \in Int
    BY <2>3, <2>7, TotalRemove
  <2>9. Good(s \ {x})
    BY <2>4
  <2>10. f[x] \in Int /\ g[x] \in Int
    BY <2>3
  <2> QED BY <2>3, <2>8, <2>9, <2>10 DEF Good
<1>2. Good(S)
  BY <1>1
<1> QED BY <1>2

\* A sum over more, of what is not less.
LEMMA TotalGrows ==
  ASSUME NEW T, IsFiniteSet(T), NEW S \in SUBSET T, NEW f, NEW g,
         \A x \in S : f[x] \in Int /\ f[x] <= g[x], \A x \in T : g[x] \in Nat
  PROVE  Total(f, S) <= Total(g, T)
<1>0. IsFiniteSet(S)
  BY FS_Subset
<1>1. Total(f, S) <= Total(g, S)
  BY <1>0, TotalCompare
<1> DEFINE Bad == {U \in SUBSET T : S \subseteq U /\ ~(Total(g, S) <= Total(g, U))}
<1>2. ASSUME Bad # {} PROVE FALSE
  <2>1. Bad \subseteq SUBSET T
    OBVIOUS
  <2>2. PICK U \in Bad : \A V \in Bad : V \subseteq U => V = U
    <3> HIDE DEF Bad
    <3> QED BY <1>2, <2>1, LeastSet
  <2>3. U \in SUBSET T /\ S \subseteq U /\ ~(Total(g, S) <= Total(g, U))
    OBVIOUS
  <2>4. Total(g, S) \in Int /\ Total(g, U) \in Int
    BY <1>0, <2>3, FS_Subset, TotalRemove
  <2>5. PICK x \in U : x \notin S
    BY <2>3, <2>4
  <2>6. U \ {x} \notin Bad
    BY <2>2, <2>5
  <2>7. Total(g, S) <= Total(g, U \ {x})
    BY <2>3, <2>5, <2>6
  <2>8. IsFiniteSet(U) /\ IsFiniteSet(U \ {x}) /\ g[x] \in Nat /\ \A y \in U : g[y] \in Int
    BY <2>3, FS_Subset
  <2>9. Total(g, U) = g[x] + Total(g, U \ {x}) /\ Total(g, U \ {x}) \in Int
    BY <2>8, TotalRemove
  <2> QED BY <2>3, <2>4, <2>7, <2>8, <2>9
<1>3. Total(g, S) <= Total(g, T)
  BY <1>2
<1>4. Total(f, S) \in Int /\ Total(g, S) \in Int /\ Total(g, T) \in Int
  BY <1>0, TotalRemove
<1> QED BY <1>1, <1>3, <1>4

\* One summand changes.
LEMMA TotalAt ==
  ASSUME NEW S, IsFiniteSet(S), NEW n \in S, NEW f, NEW g,
         \A x \in S : f[x] \in Int /\ g[x] \in Int,
         \A x \in S \ {n} : g[x] = f[x]
  PROVE  Total(g, S) = Total(f, S) + (g[n] - f[n])
<1>1. IsFiniteSet(S \ {n})
  BY FS_Subset
<1>2. Total(f, S) = f[n] + Total(f, S \ {n}) /\ Total(g, S) = g[n] + Total(g, S \ {n})
  BY TotalRemove
<1>3. Total(f, S \ {n}) \in Int /\ Total(g, S \ {n}) = Total(f, S \ {n})
  BY <1>1, TotalRemove, TotalCompare
<1> QED BY <1>2, <1>3

-----------------------------------------------------------------------------
(* Greatest and least members.                                             *)

\* A set of natural numbers that has a member has a least one.
LEMMA LeastNat ==
  ASSUME NEW N \in SUBSET Nat, N # {} PROVE \E m \in N : \A k \in N : m <= k
<1>1. PICK n \in N : TRUE
  OBVIOUS
<1> DEFINE F == {0 .. k : k \in {j \in N : j <= n}}
<1>2. IsFiniteSet(0 .. n)
  BY FS_Interval
<1>3. F \in SUBSET SUBSET (0 .. n) /\ 0 .. n \in F
  OBVIOUS
<1>4. PICK T \in F : \A U \in F : U \subseteq T => U = T
  <2> DEFINE S == 0 .. n
  <2>1. IsFiniteSet(S) /\ F \subseteq SUBSET S /\ F # {}
    BY <1>2, <1>3
  <2> HIDE DEF F, S
  <2> QED BY <2>1, LeastSet
<1>5. PICK m \in N : m <= n /\ T = 0 .. m
  OBVIOUS
<1>6. ASSUME NEW k \in N, k < m PROVE FALSE
  <2>1. 0 .. k \in F
    BY <1>5, <1>6
  <2>2. 0 .. k \subseteq 0 .. m /\ m \in 0 .. m /\ m \notin 0 .. k
    BY <1>6
  <2> QED BY <1>4, <1>5, <2>1, <2>2
<1> QED BY <1>6

\* The image of a finite set is finite.
LEMMA ImageFinite ==
  ASSUME NEW S, IsFiniteSet(S), NEW f PROVE IsFiniteSet({f[x] : x \in S})
<1> DEFINE T == {f[x] : x \in S}
           g == [x \in S |-> f[x]]
<1>1. g \in Surjection(S, T)
  BY DEF Surjection
<1> HIDE DEF g, T
<1>2. IsFiniteSet(T)
  BY <1>1, FS_Surjection
<1> QED BY <1>2 DEF T

\* A finite set of numbers has a greatest one.
LEMMA MaxIs ==
  ASSUME NEW S, IsFiniteSet(S), S # {}, \A x \in S : x \in Int
  PROVE  Max(S) \in S /\ \A y \in S : Max(S) >= y
<1> DEFINE Above(y) == {x \in S : x >= y}
           F == {Above(y) : y \in S}
<1>1. F \subseteq SUBSET S
  OBVIOUS
<1>2. PICK T \in F : \A U \in F : U \subseteq T => U = T
  <2>1. F # {}
    OBVIOUS
  <2>2. IsFiniteSet(S)
    OBVIOUS
  <2> HIDE DEF F, Above
  <2> QED BY <1>1, <2>1, <2>2, LeastSet
<1>3. PICK m \in S : T = Above(m)
  OBVIOUS
<1>4. ASSUME NEW y \in S, ~(m >= y) PROVE FALSE
  <2>1. Above(y) \in F
    OBVIOUS
  <2>2. y \in Int /\ m \in Int /\ y > m
    BY <1>4
  <2>3. Above(y) \subseteq Above(m)
    <3>1. ASSUME NEW x \in S, x >= y PROVE x >= m
      <4>1. x \in Int
        OBVIOUS
      <4> QED BY <2>2, <3>1, <4>1
    <3> QED BY <3>1
  <2>4. m \in Above(m) /\ m \notin Above(y)
    BY <1>4, <2>2
  <2> QED BY <1>2, <1>3, <2>1, <2>3, <2>4
<1>5. \E x \in S : \A y \in S : x >= y
  BY <1>4
<1> QED BY <1>5 DEF Max

\* The greater and the smaller of two.
LEMMA MinMaxOfTwo ==
  ASSUME NEW x \in Int, NEW y \in Int
  PROVE  /\ Max({x, y}) = IF x >= y THEN x ELSE y
         /\ Min({x, y}) = IF x <= y THEN x ELSE y
BY DEF Max, Min
=============================================================================

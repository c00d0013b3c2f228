---------------------------- MODULE TgeTheorems ----------------------------
(***************************************************************************)
(* Facts about the operators of TgeCommon that the proofs share: Decimal    *)
(* arithmetic, and sums.                                                    *)
(*                                                                         *)
(* Sums over finite sets, for the operator SumOver that the ledgers of the  *)
(* contracts are compared with. SumOver is a fold of the community modules, *)
(* a recursive function over the subsets of a set. That a function with     *)
(* this recursion exists and is unique, and that the order of summation     *)
(* does not matter, is shown by minimal counterexample: a set of finite     *)
(* sets has an element none of whose strict subsets belongs to it.          *)
(***************************************************************************)
EXTENDS TgeCommon, FiniteSetTheorems, TLAPS

\* The truncated quotient of naturals is a natural.
LEMMA DivNat == ASSUME NEW a \in Nat, NEW b \in Nat, b # 0 PROVE a \div b \in Nat
OBVIOUS

\* The product of naturals is a natural.
LEMMA MulNat == ASSUME NEW a \in Nat, NEW b \in Nat PROVE a * b \in Nat
OBVIOUS

\* Decimal::from_ratio of naturals gives a natural.
LEMMA FromRatioNat ==
    ASSUME NEW a \in Nat, NEW b \in Nat \ {0} PROVE FromRatio(a, b) \in Nat
<1>1. PICK n \in Nat : n = a * DECIMAL_FRACTIONAL
  BY ScaleAssumption
<1>2. n \div b \in Nat
  OBVIOUS
<1> QED BY <1>1, <1>2 DEF FromRatio

\* So does Uint128 * Decimal.
LEMMA MulFloorNat ==
    ASSUME NEW a \in Nat, NEW b \in Nat PROVE MulFloor(a, b) \in Nat
<1>1. PICK n \in Nat, d \in Nat \ {0} : n = a * b /\ d = DECIMAL_FRACTIONAL
  <2>1. a * b \in Nat
    OBVIOUS
  <2> QED BY <2>1, ScaleAssumption
<1>2. n \div d \in Nat
  BY <1>1
<1> QED BY <1>1, <1>2 DEF MulFloor

\* A truncated quotient times the divisor is at most the dividend.
LEMMA QuotientBelow ==
    ASSUME NEW a \in Nat, NEW b \in Nat \ {0}
    PROVE  b * (a \div b) <= a /\ a \div b \in Nat
OBVIOUS

\* A common positive factor of two products can be cancelled.
LEMMA ProductCancel ==
    ASSUME NEW a \in Nat \ {0}, NEW x \in Int, NEW y \in Int, a * x <= a * y
    PROVE  x <= y
OBVIOUS

\* There are finitely many users, so sums over any of them are defined.
LEMMA UsersFinite == IsFiniteSet(Users) /\ \A s \in SUBSET Users : IsFiniteSet(s)
BY UsersAssumption, FS_Subset
-----------------------------------------------------------------------------
\* The element a fold takes first.
First(s) == CHOOSE x \in s : TRUE

\* g is the recursive function of the fold of f over the subsets of S.
Sums(g, f, S) ==
    g = [s \in SUBSET S |-> IF s = {} THEN 0 ELSE f[First(s)] + g[s \ {First(s)}]]

\* The fold of a sum takes off one member, chosen as First.
LEMMA SumIsChoice ==
    ASSUME NEW f, NEW S
    PROVE  SumOver(f, S) = (CHOOSE g : Sums(g, f, S))[S]
BY DEF SumOver, FoldFunctionOnSet, MapThenFoldSet, Sums, First

\* First picks a member.
LEMMA FirstIn == ASSUME NEW s, s # {} PROVE First(s) \in s
BY DEF First

\* Every set of subsets of a finite set has a minimal element.
LEMMA MinimalSet ==
    ASSUME NEW S, IsFiniteSet(S), NEW T, T \subseteq SUBSET S, T # {}
    PROVE  \E s \in T : \A r \in T : ~(r \subseteq s /\ r # s)
<1>1. IsWellFoundedOn(StrictSubsetOrdering(S), FiniteSubsetsOf(S))
  BY FS_StrictSubsetOrderingWellFounded
<1>2. FiniteSubsetsOf(S) = SUBSET S
  BY FS_FiniteSubsetsOfFinite
<1>3. \E s \in T : \A r \in T : ~(<<r, s>> \in StrictSubsetOrdering(S))
  BY <1>1, <1>2, WFMin
<1>4. PICK s \in T : \A r \in T : ~(<<r, s>> \in StrictSubsetOrdering(S))
  BY <1>3
<1>5. ASSUME NEW r \in T, r \subseteq s, r # s PROVE FALSE
  <2>1. <<r, s>> \in StrictSubsetOrdering(S)
    BY <1>5 DEF StrictSubsetOrdering
  <2> QED BY <2>1, <1>4
<1> QED BY <1>5

\* Two such functions agree where both are defined.
LEMMA SumsUnique ==
    ASSUME NEW f, NEW A, IsFiniteSet(A), NEW B, NEW g, NEW h,
           Sums(g, f, A), Sums(h, f, B),
           NEW S \in SUBSET A, S \in SUBSET B
    PROVE  g[S] = h[S]
<1> DEFINE T == {s \in SUBSET A : s \in SUBSET B /\ g[s] # h[s]}
<1> SUFFICES ASSUME T # {} PROVE FALSE
  OBVIOUS
<1>1. PICK s \in T : \A r \in T : ~(r \subseteq s /\ r # s)
  <2>1. T \subseteq SUBSET A
    OBVIOUS
  <2> HIDE DEF T
  <2> QED BY <2>1, MinimalSet
<1>2. g[s] = IF s = {} THEN 0 ELSE f[First(s)] + g[s \ {First(s)}]
  BY DEF Sums
<1>3. h[s] = IF s = {} THEN 0 ELSE f[First(s)] + h[s \ {First(s)}]
  BY DEF Sums
<1>4. s # {}
  BY <1>2, <1>3
<1>5. s \ {First(s)} \subseteq s /\ s \ {First(s)} # s
  BY <1>4, FirstIn
<1>6. s \ {First(s)} \notin T
  BY <1>1, <1>5
<1>7. g[s \ {First(s)}] = h[s \ {First(s)}]
  BY <1>5, <1>6
<1> QED BY <1>2, <1>3, <1>4, <1>7

\* There is such a function for every finite set.
LEMMA SumsExists ==
    ASSUME NEW f, NEW S, IsFiniteSet(S)
    PROVE  \E g : Sums(g, f, S)
<1> DEFINE T == {s \in SUBSET S : ~\E g : Sums(g, f, s)}
<1> SUFFICES ASSUME T # {} PROVE FALSE
  OBVIOUS
<1>1. PICK s \in T : \A r \in T : ~(r \subseteq s /\ r # s)
  <2>1. T \subseteq SUBSET S
    OBVIOUS
  <2> HIDE DEF T
  <2> QED BY <2>1, MinimalSet
<1> DEFINE G(r) == CHOOSE g : Sums(g, f, r)
           rest(r) == r \ {First(r)}
           g == [r \in SUBSET s |-> IF r = {} THEN 0 ELSE f[First(r)] + G(rest(r))[rest(r)]]
<1>2. ASSUME NEW r \in SUBSET s, r # s PROVE Sums(G(r), f, r)
  <2>1. \E h : Sums(h, f, r)
    BY <1>1, <1>2
  <2> QED BY <2>1
<1>3. ASSUME NEW r \in SUBSET s, r # {}
      PROVE  rest(r) \in SUBSET s /\ rest(r) # s /\ rest(r) \in SUBSET r
  BY <1>3, FirstIn
<1>4. ASSUME NEW r \in SUBSET s, r # s PROVE g[r] = G(r)[r]
  <2>1. G(r)[r] = IF r = {} THEN 0 ELSE f[First(r)] + G(r)[rest(r)]
    <3>1. Sums(G(r), f, r) /\ r \in SUBSET r
      BY <1>2, <1>4
    <3> HIDE DEF G
    <3> QED BY <3>1 DEF Sums
  <2>2. CASE r = {}
    BY <2>1, <2>2
  <2>3. CASE r # {}
    <3>1. Sums(G(rest(r)), f, rest(r)) /\ Sums(G(r), f, r)
      BY <1>2, <1>3, <1>4, <2>3
    <3>2. IsFiniteSet(r) /\ rest(r) \in SUBSET r /\ rest(r) \in SUBSET rest(r)
      BY <1>3, <2>3, FS_Subset
    <3> HIDE DEF G, rest
    <3>3. G(r)[rest(r)] = G(rest(r))[rest(r)]
      BY <3>1, <3>2, SumsUnique
    <3> QED BY <2>1, <2>3, <3>3
  <2> QED BY <2>2, <2>3
<1>5. ASSUME NEW h, h = g PROVE Sums(h, f, s)
  <2>1. h = [r \in SUBSET s |-> h[r]]
    BY <1>5
  <2>2. \A r \in SUBSET s : r # {} => G(rest(r))[rest(r)] = h[rest(r)]
    BY <1>3, <1>4, <1>5
  <2>3. \A r \in SUBSET s :
            h[r] = IF r = {} THEN 0 ELSE f[First(r)] + G(rest(r))[rest(r)]
    BY <1>5
  <2>4. \A r \in SUBSET s : h[r] = IF r = {} THEN 0 ELSE f[First(r)] + h[rest(r)]
    BY <2>2, <2>3
  <2> HIDE DEF g, G
  <2> QED BY <2>1, <2>4 DEF Sums
<1> QED BY <1>5

\* What the fold promises: nothing gives 0, and a first element is added to
\* the sum of the rest.
LEMMA SumEmpty == ASSUME NEW f PROVE SumOver(f, {}) = 0
<1>1. IsFiniteSet({})
  BY FS_EmptySet
<1>2. PICK g : g = CHOOSE h : Sums(h, f, {})
  OBVIOUS
<1>3. Sums(g, f, {})
  BY <1>1, <1>2, SumsExists
<1>4. g[{}] = 0
  BY <1>3 DEF Sums
<1> QED BY <1>2, <1>4, SumIsChoice

\* A sum is the first member's value and the sum of the others.
LEMMA SumFirst ==
    ASSUME NEW f, NEW S, IsFiniteSet(S), S # {}
    PROVE  SumOver(f, S) = f[First(S)] + SumOver(f, S \ {First(S)})
<1> DEFINE R == S \ {First(S)}
<1>1. PICK g : g = CHOOSE h : Sums(h, f, S)
  OBVIOUS
<1>2. PICK gr : gr = CHOOSE h : Sums(h, f, R)
  OBVIOUS
<1>3. IsFiniteSet(R)
  BY FS_RemoveElement
<1>4. Sums(g, f, S) /\ Sums(gr, f, R)
  BY <1>1, <1>2, <1>3, SumsExists
<1>5. g[S] = f[First(S)] + g[R]
  BY <1>4 DEF Sums
<1>6. R \in SUBSET S /\ R \in SUBSET R
  OBVIOUS
<1> HIDE DEF R
<1>7. g[R] = gr[R]
  BY <1>4, <1>6, SumsUnique
<1>8. SumOver(f, S) = g[S] /\ SumOver(f, R) = gr[R]
  BY <1>1, <1>2, SumIsChoice
<1> QED BY <1>5, <1>7, <1>8 DEF R

\* A set T of subsets of S that, with each of its elements, contains what the
\* fold goes on with, must contain the empty set unless it is empty itself: the
\* form in which minimal counterexamples are used below, T being the subsets
\* for which a claim fails.
LEMMA SumInduction ==
    ASSUME NEW S, IsFiniteSet(S), NEW T \in SUBSET (SUBSET S),
           {} \notin T,
           \A s \in T : s \ {First(s)} \in T
    PROVE  T = {}
<1> SUFFICES ASSUME T # {} PROVE FALSE
  OBVIOUS
<1>1. PICK s \in T : \A r \in T : ~(r \subseteq s /\ r # s)
  BY MinimalSet
<1>2. s # {} /\ s \ {First(s)} \in T
  OBVIOUS
<1>3. s \ {First(s)} # s
  BY <1>2, FirstIn
<1> QED BY <1>1, <1>2, <1>3

\* Sums of integers are integers.
LEMMA SumInt ==
    ASSUME NEW S, IsFiniteSet(S), NEW f, \A x \in S : f[x] \in Int
    PROVE  SumOver(f, S) \in Int
<1> DEFINE T == {s \in SUBSET S : SumOver(f, s) \notin Int}
<1>1. {} \notin T
  BY SumEmpty
<1>2. ASSUME NEW s \in T PROVE s \ {First(s)} \in T
  <2>1. s # {} /\ IsFiniteSet(s)
    BY <1>1, FS_Subset
  <2>2. SumOver(f, s) = f[First(s)] + SumOver(f, s \ {First(s)})
    BY <2>1, SumFirst
  <2>3. f[First(s)] \in Int
    BY <2>1, FirstIn
  <2>4. SumOver(f, s \ {First(s)}) \notin Int
    BY <2>2, <2>3
  <2> QED BY <2>4
<1>3. T \in SUBSET (SUBSET S)
  OBVIOUS
<1> HIDE DEF T
<1>4. T = {}
  BY <1>1, <1>2, <1>3, SumInduction
<1> QED BY <1>4 DEF T

\* Any element may be taken first.
LEMMA SumRemove ==
    ASSUME NEW S, IsFiniteSet(S), NEW f, \A y \in S : f[y] \in Int, NEW x \in S
    PROVE  /\ SumOver(f, S) = f[x] + SumOver(f, S \ {x})
           /\ SumOver(f, S \ {x}) \in Int
<1>0. ASSUME NEW s \in SUBSET S
      PROVE  IsFiniteSet(s) /\ SumOver(f, s) \in Int
  <2>1. IsFiniteSet(s)
    BY FS_Subset
  <2> QED BY <2>1, SumInt
<1> DEFINE T == {s \in SUBSET S : \E y \in s : SumOver(f, s) # f[y] + SumOver(f, s \ {y})}
<1>1. ASSUME T # {} PROVE FALSE
  <2>1. PICK s \in T : \A r \in T : ~(r \subseteq s /\ r # s)
    <3>1. T \in SUBSET (SUBSET S)
      OBVIOUS
    <3> HIDE DEF T
    <3> QED BY <1>1, <3>1, MinimalSet
  <2>2. PICK y \in s : SumOver(f, s) # f[y] + SumOver(f, s \ {y})
    OBVIOUS
  <2>3. PICK z : z = First(s)
    OBVIOUS
  <2>4. z \in s /\ IsFiniteSet(s)
    BY <1>0, <2>3, FirstIn
  <2>5. SumOver(f, s) = f[z] + SumOver(f, s \ {z})
    BY <2>3, <2>4, SumFirst
  <2>6. y # z
    BY <2>2, <2>5
  <2>7. s \ {z} \notin T /\ s \ {y} \notin T
    BY <2>1, <2>4
  <2>8. SumOver(f, s \ {z}) = f[y] + SumOver(f, (s \ {z}) \ {y})
    BY <2>6, <2>7
  <2>9. SumOver(f, s \ {y}) = f[z] + SumOver(f, (s \ {y}) \ {z})
    BY <2>4, <2>6, <2>7
  <2>10. (s \ {z}) \ {y} = (s \ {y}) \ {z}
    OBVIOUS
  <2>11. f[y] \in Int /\ f[z] \in Int /\ SumOver(f, (s \ {y}) \ {z}) \in Int
    BY <1>0, <2>4
  <2>12. SumOver(f, s) = f[z] + (f[y] + SumOver(f, (s \ {y}) \ {z}))
    BY <2>5, <2>8, <2>10, Zenon
  <2>13. f[y] + SumOver(f, s \ {y}) = f[y] + (f[z] + SumOver(f, (s \ {y}) \ {z}))
    BY <2>9, Zenon
  <2>14. \A k, l, m \in Int : k + (l + m) = l + (k + m)
    OBVIOUS
  <2> QED BY <2>2, <2>11, <2>12, <2>13, <2>14, Zenon
<1>2. SumOver(f, S) = f[x] + SumOver(f, S \ {x})
  BY <1>1
<1> QED BY <1>0, <1>2

\* A sum depends on the values at the elements of the set only.
LEMMA SumEqual ==
    ASSUME NEW S, IsFiniteSet(S), NEW f, NEW g, \A x \in S : f[x] = g[x]
    PROVE  SumOver(f, S) = SumOver(g, S)
<1> DEFINE T == {s \in SUBSET S : SumOver(f, s) # SumOver(g, s)}
<1>1. {} \notin T
  BY SumEmpty
<1>2. ASSUME NEW s \in T PROVE s \ {First(s)} \in T
  <2>1. s # {} /\ IsFiniteSet(s)
    BY <1>1, FS_Subset
  <2>2. /\ SumOver(f, s) = f[First(s)] + SumOver(f, s \ {First(s)})
        /\ SumOver(g, s) = g[First(s)] + SumOver(g, s \ {First(s)})
    BY <2>1, SumFirst
  <2>3. f[First(s)] = g[First(s)]
    BY <2>1, FirstIn
  <2> QED BY <2>2, <2>3
<1>3. T \in SUBSET (SUBSET S)
  OBVIOUS
<1> HIDE DEF T
<1>4. T = {}
  BY <1>1, <1>2, <1>3, SumInduction
<1> QED BY <1>4 DEF T

\* Sums are monotonic.
LEMMA SumMonotonic ==
    ASSUME NEW S, IsFiniteSet(S), NEW f, NEW g,
           \A x \in S : f[x] \in Int /\ g[x] \in Int /\ f[x] <= g[x]
    PROVE  SumOver(f, S) <= SumOver(g, S)
<1> DEFINE T == {s \in SUBSET S : ~(SumOver(f, s) <= SumOver(g, s))}
<1>1. {} \notin T
  BY SumEmpty
<1>2. ASSUME NEW s \in T PROVE s \ {First(s)} \in T
  <2>1. s # {} /\ IsFiniteSet(s) /\ IsFiniteSet(s \ {First(s)})
    BY <1>1, FS_Subset
  <2>2. /\ SumOver(f, s) = f[First(s)] + SumOver(f, s \ {First(s)})
        /\ SumOver(g, s) = g[First(s)] + SumOver(g, s \ {First(s)})
    BY <2>1, SumFirst
  <2>3. First(s) \in S
    BY <2>1, FirstIn
  <2>4. /\ SumOver(f, s \ {First(s)}) \in Int
        /\ SumOver(g, s \ {First(s)}) \in Int
    BY <2>1, SumInt
  <2>5. ~(SumOver(f, s) <= SumOver(g, s))
    OBVIOUS
  <2>6. ~(SumOver(f, s \ {First(s)}) <= SumOver(g, s \ {First(s)}))
    BY <2>2, <2>3, <2>4, <2>5
  <2> QED BY <2>6
<1>3. T \in SUBSET (SUBSET S)
  OBVIOUS
<1> HIDE DEF T
<1>4. T = {}
  BY <1>1, <1>2, <1>3, SumInduction
<1> QED BY <1>4 DEF T

\* The sum of sums.
LEMMA SumAdd ==
    ASSUME NEW S, IsFiniteSet(S), NEW f, NEW g, NEW h,
           \A x \in S : f[x] \in Int /\ g[x] \in Int /\ h[x] = f[x] + g[x]
    PROVE  SumOver(h, S) = SumOver(f, S) + SumOver(g, S)
<1> DEFINE T == {s \in SUBSET S : SumOver(h, s) # SumOver(f, s) + SumOver(g, s)}
<1>1. {} \notin T
  BY SumEmpty
<1>2. ASSUME NEW s \in T PROVE s \ {First(s)} \in T
  <2>1. s # {} /\ IsFiniteSet(s) /\ IsFiniteSet(s \ {First(s)})
    BY <1>1, FS_Subset
  <2>2. /\ SumOver(f, s) = f[First(s)] + SumOver(f, s \ {First(s)})
        /\ SumOver(g, s) = g[First(s)] + SumOver(g, s \ {First(s)})
        /\ SumOver(h, s) = h[First(s)] + SumOver(h, s \ {First(s)})
    BY <2>1, SumFirst
  <2>3. First(s) \in S
    BY <2>1, FirstIn
  <2>4. /\ SumOver(f, s \ {First(s)}) \in Int
        /\ SumOver(g, s \ {First(s)}) \in Int
        /\ SumOver(h, s \ {First(s)}) \in Int
    BY <2>1, SumInt
  <2>5. SumOver(h, s) # SumOver(f, s) + SumOver(g, s)
    OBVIOUS
  <2>6. SumOver(h, s \ {First(s)})
          # SumOver(f, s \ {First(s)}) + SumOver(g, s \ {First(s)})
    BY <2>2, <2>3, <2>4, <2>5
  <2> QED BY <2>6
<1>3. T \in SUBSET (SUBSET S)
  OBVIOUS
<1> HIDE DEF T
<1>4. T = {}
  BY <1>1, <1>2, <1>3, SumInduction
<1> QED BY <1>4 DEF T

\* Sums of naturals are naturals; a sum of zeros is 0.
LEMMA SumZero ==
    ASSUME NEW S, IsFiniteSet(S), NEW f, \A x \in S : f[x] = 0
    PROVE  SumOver(f, S) = 0
<1>1. SumOver(f, S) \in Int /\ SumOver(f, S) = SumOver(f, S) + SumOver(f, S)
  BY SumInt, SumAdd
<1>2. PICK n \in Int : n = SumOver(f, S)
  BY <1>1
<1>3. n = n + n
  BY <1>1, <1>2
<1>4. n = 0
  BY <1>3
<1> QED BY <1>2, <1>4

\* A sum of naturals is a natural.
LEMMA SumNat ==
    ASSUME NEW S, IsFiniteSet(S), NEW f, \A x \in S : f[x] \in Nat
    PROVE  SumOver(f, S) \in Nat
<1> DEFINE z == [x \in S |-> 0]
<1>1. SumOver(z, S) = 0
  BY SumZero
<1>2. SumOver(z, S) <= SumOver(f, S)
  BY SumMonotonic
<1>3. SumOver(f, S) \in Int
  BY SumInt
<1> QED BY <1>1, <1>2, <1>3

\* Two functions that differ at one element.
ChangesAt(S, f, g, x, d) ==
    /\ x \in S /\ d \in Int
    /\ \A y \in S : f[y] \in Int
    /\ \A y \in S \ {x} : g[y] = f[y]
    /\ g[x] = f[x] + d

\* When one value changes the sum changes by the difference.
LEMMA SumUpdate ==
    ASSUME NEW S, IsFiniteSet(S), NEW f, NEW g, NEW x, NEW d, ChangesAt(S, f, g, x, d)
    PROVE  SumOver(g, S) = SumOver(f, S) + d
<1> USE DEF ChangesAt
<1>1. IsFiniteSet(S \ {x})
  BY FS_RemoveElement
<1>2. SumOver(f, S \ {x}) = SumOver(g, S \ {x})
  BY <1>1, SumEqual
<1>3. /\ SumOver(f, S) = f[x] + SumOver(f, S \ {x})
      /\ SumOver(g, S) = g[x] + SumOver(g, S \ {x})
      /\ SumOver(f, S \ {x}) \in Int
  <2>1. \A y \in S : g[y] \in Int
    OBVIOUS
  <2> QED BY <2>1, SumRemove
<1> QED BY <1>2, <1>3

\* A set in two parts.
LEMMA SumSplit ==
    ASSUME NEW S, IsFiniteSet(S), NEW R \in SUBSET S, NEW f, \A x \in S : f[x] \in Int
    PROVE  SumOver(f, S) = SumOver(f, R) + SumOver(f, S \ R)
<1> DEFINE T == {s \in SUBSET R : SumOver(f, S) # SumOver(f, s) + SumOver(f, S \ s)}
<1>0. IsFiniteSet(R)
  BY FS_Subset
<1>1. {} \notin T
  <2>1. S \ {} = S /\ SumOver(f, {}) = 0 /\ SumOver(f, S) \in Int
    BY SumEmpty, SumInt
  <2> QED BY <2>1
<1>2. ASSUME NEW s \in T PROVE s \ {First(s)} \in T
  <2>1. s # {} /\ IsFiniteSet(s) /\ IsFiniteSet(S \ s)
    BY <1>1, FS_Subset
  <2>2. PICK x : x = First(s)
    OBVIOUS
  <2>3. x \in s /\ x \in S
    BY <2>1, <2>2, FirstIn
  <2>4. /\ SumOver(f, s) = f[x] + SumOver(f, s \ {x})
        /\ SumOver(f, s \ {x}) \in Int
    BY <2>1, <2>3, SumRemove
  <2>5. PICK U : U = S \ (s \ {x})
    OBVIOUS
  <2>6. x \in U /\ U \ {x} = S \ s /\ U \subseteq S
    BY <2>3, <2>5
  <2>7. IsFiniteSet(U)
    BY <2>6, FS_Subset
  <2>8. /\ SumOver(f, U) = f[x] + SumOver(f, U \ {x})
        /\ SumOver(f, U \ {x}) \in Int
    BY <2>6, <2>7, SumRemove
  <2>9. f[x] \in Int
    BY <2>3
  <2>10. SumOver(f, s) + SumOver(f, S \ s) = SumOver(f, s \ {x}) + SumOver(f, U)
    <3>1. \A k, l, m \in Int : (k + l) + m = l + (k + m)
      OBVIOUS
    <3>2. /\ SumOver(f, s) + SumOver(f, S \ s)
               = (f[x] + SumOver(f, s \ {x})) + SumOver(f, U \ {x})
          /\ SumOver(f, s \ {x}) + SumOver(f, U)
               = SumOver(f, s \ {x}) + (f[x] + SumOver(f, U \ {x}))
      BY <2>4, <2>6, <2>8, Zenon
    <3> QED BY <2>4, <2>8, <2>9, <3>1, <3>2, Zenon
  <2>11. SumOver(f, S) # SumOver(f, s) + SumOver(f, S \ s)
    OBVIOUS
  <2> QED BY <2>2, <2>5, <2>10, <2>11
<1>3. T \in SUBSET (SUBSET R)
  OBVIOUS
<1> HIDE DEF T
<1>4. T = {}
  BY <1>0, <1>1, <1>2, <1>3, SumInduction
<1> QED BY <1>4 DEF T

\* No part of a sum of naturals exceeds the whole.
LEMMA SumSubset ==
    ASSUME NEW S, IsFiniteSet(S), NEW R \in SUBSET S, NEW f, \A x \in S : f[x] \in Nat
    PROVE  SumOver(f, R) <= SumOver(f, S)
<1>1. IsFiniteSet(R) /\ IsFiniteSet(S \ R)
  BY FS_Subset
<1>2. SumOver(f, R) \in Nat /\ SumOver(f, S \ R) \in Nat
  BY <1>1, SumNat
<1>3. SumOver(f, S) = SumOver(f, R) + SumOver(f, S \ R)
  BY SumSplit
<1> QED BY <1>2, <1>3

\* A sum of naturals is at least each of its values.
LEMMA SumMember ==
    ASSUME NEW S, IsFiniteSet(S), NEW x \in S, NEW f, \A y \in S : f[y] \in Nat
    PROVE  f[x] <= SumOver(f, S)
<1>1. IsFiniteSet(S \ {x})
  BY FS_RemoveElement
<1>2. SumOver(f, S \ {x}) \in Nat
  BY <1>1, SumNat
<1>3. SumOver(f, S) = f[x] + SumOver(f, S \ {x})
  BY SumRemove
<1> QED BY <1>2, <1>3

\* A product with a sum is the sum of the products.
LEMMA Distributive ==
    ASSUME NEW k \in Nat, NEW x \in Nat, NEW y \in Nat
    PROVE  k * (x + y) = k * x + k * y /\ k * x \in Nat /\ k * y \in Nat
OBVIOUS

\* If every term of one sum is at most a fixed part c / d of the term of the
\* other, so is the sum: rounding down term by term gives nothing away.
LEMMA SumOfParts ==
    ASSUME NEW S, IsFiniteSet(S), NEW f, NEW g, NEW c \in Nat, NEW d \in Nat,
           \A x \in S : f[x] \in Nat /\ g[x] \in Nat /\ d * g[x] <= c * f[x]
    PROVE  d * SumOver(g, S) <= c * SumOver(f, S)
<1> DEFINE T == {s \in SUBSET S : ~(d * SumOver(g, s) <= c * SumOver(f, s))}
<1>1. {} \notin T
  <2>1. d * 0 <= c * 0
    OBVIOUS
  <2> QED BY <2>1, SumEmpty
<1>2. ASSUME NEW s \in T PROVE s \ {First(s)} \in T
  <2>1. s # {} /\ IsFiniteSet(s) /\ IsFiniteSet(s \ {First(s)})
    BY <1>1, FS_Subset
  <2>2. PICK x, k, l : x = First(s) /\ k = SumOver(f, s \ {x}) /\ l = SumOver(g, s \ {x})
    OBVIOUS
  <2>3. SumOver(f, s) = f[x] + k /\ SumOver(g, s) = g[x] + l
    BY <2>1, <2>2, SumFirst
  <2>4. x \in S
    BY <2>1, <2>2, FirstIn
  <2>5. k \in Nat /\ l \in Nat
    BY <2>1, <2>2, SumNat
  <2>6. /\ c * (f[x] + k) = c * f[x] + c * k /\ c * f[x] \in Nat /\ c * k \in Nat
        /\ d * (g[x] + l) = d * g[x] + d * l /\ d * g[x] \in Nat /\ d * l \in Nat
    BY <2>4, <2>5, Distributive
  <2>7. ~(d * (g[x] + l) <= c * (f[x] + k))
    BY <2>3
  <2>8. d * g[x] <= c * f[x]
    BY <2>4
  <2>9. ~(d * l <= c * k)
    BY <2>6, <2>7, <2>8
  <2> QED BY <2>2, <2>9
<1>3. T \in SUBSET (SUBSET S)
  OBVIOUS
<1> HIDE DEF T
<1>4. T = {}
  BY <1>1, <1>2, <1>3, SumInduction
<1> QED BY <1>4 DEF T

\* A larger set with nothing in it besides.
LEMMA SumExtend ==
    ASSUME NEW S, IsFiniteSet(S), NEW R \in SUBSET S, NEW f, NEW g,
           \A x \in R : f[x] \in Int /\ g[x] = f[x],
           \A x \in S \ R : g[x] = 0
    PROVE  SumOver(g, S) = SumOver(f, R)
<1>1. IsFiniteSet(R) /\ IsFiniteSet(S \ R)
  BY FS_Subset
<1>2. SumOver(g, S) = SumOver(g, R) + SumOver(g, S \ R)
  BY SumSplit
<1>3. SumOver(g, S \ R) = 0
  BY <1>1, SumZero
<1>4. SumOver(g, R) = SumOver(f, R)
  BY <1>1, SumEqual
<1>5. SumOver(f, R) \in Int
  BY <1>1, SumInt
<1> QED BY <1>2, <1>3, <1>4, <1>5

\* The numbers of s, moved by m.
Shifted(m, s) == {m + i : i \in s}

\* Renumbering does not change a sum.
LEMMA SumShift ==
    ASSUME NEW m \in Nat, NEW n \in Nat, NEW g, NEW h,
           \A i \in 1..n : g[i] \in Int /\ h[m + i] = g[i]
    PROVE  SumOver(h, Shifted(m, 1..n)) = SumOver(g, 1..n)
<1> DEFINE T == {s \in SUBSET (1..n) : SumOver(h, Shifted(m, s)) # SumOver(g, s)}
<1>0. IsFiniteSet(1..n) /\ IsFiniteSet((m + 1)..(m + n))
  BY FS_Interval
<1>1. {} \notin T
  <2>1. Shifted(m, {}) = {}
    BY DEF Shifted
  <2> QED BY <2>1, SumEmpty
<1>2. ASSUME NEW s \in T PROVE s \ {First(s)} \in T
  <2>1. s # {} /\ IsFiniteSet(s) /\ s \subseteq 1..n
    BY <1>0, <1>1, FS_Subset
  <2>2. PICK x \in s : x = First(s)
    BY <2>1, FirstIn
  <2>3. IsFiniteSet(Shifted(m, s))
    <3>1. Shifted(m, s) \subseteq (m + 1)..(m + n)
      BY <2>1 DEF Shifted
    <3> QED BY <1>0, <3>1, FS_Subset
  <2>4. m + x \in Shifted(m, s)
    BY DEF Shifted
  <2>5. Shifted(m, s \ {x}) = Shifted(m, s) \ {m + x}
    <3>1. \A i, j \in Int : m + i = m + j => i = j
      OBVIOUS
    <3> QED BY <2>1, <3>1 DEF Shifted
  <2>6. \A y \in Shifted(m, s) : h[y] \in Int
    BY <2>1 DEF Shifted
  <2>7. SumOver(h, Shifted(m, s)) = h[m + x] + SumOver(h, Shifted(m, s) \ {m + x})
    BY <2>3, <2>4, <2>6, SumRemove
  <2>8. SumOver(g, s) = g[x] + SumOver(g, s \ {x})
    BY <2>1, SumRemove
  <2>9. h[m + x] = g[x]
    BY <2>1
  <2>10. SumOver(h, Shifted(m, s)) # SumOver(g, s)
    OBVIOUS
  <2>11. SumOver(h, Shifted(m, s \ {x})) # SumOver(g, s \ {x})
    BY <2>5, <2>7, <2>8, <2>9, <2>10, Zenon
  <2> QED BY <2>1, <2>2, <2>11
<1>3. T \in SUBSET (SUBSET (1..n))
  OBVIOUS
<1> HIDE DEF T
<1>4. T = {}
  BY <1>0, <1>1, <1>2, <1>3, SumInduction
<1> QED BY <1>4 DEF T

\* h is the m numbers of f followed by the n numbers of g.
Concatenates(m, n, f, g, h) ==
    /\ m \in Nat /\ n \in Nat
    /\ \A i \in 1..m : f[i] \in Int /\ h[i] = f[i]
    /\ \A i \in 1..n : g[i] \in Int /\ h[m + i] = g[i]

\* The sum along a concatenation.
LEMMA SumConcat ==
    ASSUME NEW m, NEW n, NEW f, NEW g, NEW h, Concatenates(m, n, f, g, h)
    PROVE  SumOver(h, 1..(m + n)) = SumOver(f, 1..m) + SumOver(g, 1..n)
<1> USE DEF Concatenates
<1>1. IsFiniteSet(1..m) /\ IsFiniteSet(1..n) /\ IsFiniteSet(1..(m + n))
  BY FS_Interval
<1>2. (1..(m + n)) \ (1..m) = Shifted(m, 1..n)
  <2>1. ASSUME NEW j \in (1..(m + n)) \ (1..m) PROVE j \in Shifted(m, 1..n)
    <3>1. j - m \in 1..n /\ j = m + (j - m)
      OBVIOUS
    <3> QED BY <3>1 DEF Shifted
  <2> QED BY <2>1 DEF Shifted
<1>3. \A j \in 1..(m + n) : h[j] \in Int
  <2>1. ASSUME NEW j \in 1..(m + n), j \notin 1..m PROVE h[j] \in Int
    <3>1. PICK i \in 1..n : j = m + i
      BY <1>2, <2>1 DEF Shifted
    <3> QED BY <3>1
  <2> QED BY <2>1
<1>4. 1..m \in SUBSET (1..(m + n))
  OBVIOUS
<1>5. SumOver(h, 1..(m + n)) = SumOver(h, 1..m) + SumOver(h, (1..(m + n)) \ (1..m))
  BY <1>1, <1>3, <1>4, SumSplit
<1>6. SumOver(h, 1..m) = SumOver(f, 1..m)
  BY <1>1, SumEqual
<1>7. SumOver(h, Shifted(m, 1..n)) = SumOver(g, 1..n)
  BY SumShift
<1> QED BY <1>2, <1>5, <1>6, <1>7

\* A set and its values before and after a change at one element, which may
\* come or go.
MovesAt(A, f, B, g, x, d) ==
    /\ d \in Int /\ A \ {x} = B \ {x}
    /\ \A y \in A : f[y] \in Int
    /\ \A y \in B : g[y] \in Int
    /\ \A y \in A \ {x} : g[y] = f[y]
    /\ (IF x \in B THEN g[x] ELSE 0) = (IF x \in A THEN f[x] ELSE 0) + d

\* The sum moves by as much as that element does.
LEMMA SumMove ==
    ASSUME NEW A, IsFiniteSet(A), NEW B, IsFiniteSet(B), NEW f, NEW g, NEW x, NEW d,
           MovesAt(A, f, B, g, x, d)
    PROVE  SumOver(g, B) = SumOver(f, A) + d
<1> DEFINE R == A \ {x}
<1>1. IsFiniteSet(R) /\ R \subseteq A /\ R \subseteq B /\ R = B \ {x}
  BY FS_RemoveElement DEF MovesAt
<1>2. SumOver(g, R) = SumOver(f, R)
  BY <1>1, SumEqual DEF MovesAt
<1>3. SumOver(f, R) \in Int
  BY <1>1, SumInt DEF MovesAt
<1>4. SumOver(f, A) = (IF x \in A THEN f[x] ELSE 0) + SumOver(f, R)
  <2>1. CASE x \in A
    BY <2>1, SumRemove DEF MovesAt
  <2>2. CASE x \notin A
    <3>1. SumOver(f, A) = SumOver(f, R)
      <4>1. R = A
        BY <2>2
      <4> QED BY <4>1
    <3>2. SumOver(f, R) = 0 + SumOver(f, R)
      BY <1>3
    <3> QED BY <2>2, <3>1, <3>2
  <2> QED BY <2>1, <2>2
<1>5. SumOver(g, B) = (IF x \in B THEN g[x] ELSE 0) + SumOver(g, R)
  <2>1. CASE x \in B
    <3>1. SumOver(g, B) = g[x] + SumOver(g, B \ {x})
      BY <2>1, SumRemove DEF MovesAt
    <3> QED BY <2>1, <3>1, <1>1
  <2>2. CASE x \notin B
    <3>1. SumOver(g, B) = SumOver(g, R)
      <4>1. R = B
        BY <2>2, <1>1
      <4> QED BY <4>1
    <3>2. SumOver(g, R) = 0 + SumOver(g, R)
      BY <1>2, <1>3
    <3> QED BY <2>2, <3>1, <3>2
  <2> QED BY <2>1, <2>2
<1>6. PICK a, b, s : /\ a = (IF x \in A THEN f[x] ELSE 0)
                     /\ b = (IF x \in B THEN g[x] ELSE 0)
                     /\ s = SumOver(f, R)
  OBVIOUS
<1>7. a \in Int /\ b = a + d /\ d \in Int
  BY <1>6 DEF MovesAt
<1>8. SumOver(f, A) = a + s /\ SumOver(g, B) = b + s /\ s \in Int
  BY <1>2, <1>3, <1>4, <1>5, <1>6
<1> QED BY <1>7, <1>8

\* The members of D that belong to somebody in s.
Belonging(D, owner, s) == {k \in D : owner[k] \in s}

\* What each owner in S has of the values c.
OwnedBy(S, D, owner, c, h) ==
    /\ \A k \in D : c[k] \in Int
    /\ \A u \in S : h[u] = SumOver(c, Belonging(D, owner, {u}))

\* Summed owner by owner, a sum is the sum over all that belong to the owners.
LEMMA SumByOwner ==
    ASSUME NEW S, IsFiniteSet(S), NEW D, IsFiniteSet(D), NEW owner, NEW c, NEW h,
           OwnedBy(S, D, owner, c, h)
    PROVE  SumOver(h, S) = SumOver(c, Belonging(D, owner, S))
<1> DEFINE T == {s \in SUBSET S : SumOver(h, s) # SumOver(c, Belonging(D, owner, s))}
<1>1. {} \notin T
  <2>1. Belonging(D, owner, {}) = {}
    BY DEF Belonging
  <2>2. SumOver(h, {}) = 0 /\ SumOver(c, {}) = 0
    BY SumEmpty
  <2> QED BY <2>1, <2>2
<1>2. ASSUME NEW s \in T PROVE s \ {First(s)} \in T
  <2>1. s # {} /\ IsFiniteSet(s) /\ IsFiniteSet(s \ {First(s)})
    BY <1>1, FS_Subset
  <2>2. PICK u : u = First(s)
    OBVIOUS
  <2>3. u \in S /\ u \in s /\ s \ {u} \in SUBSET S
    BY <2>1, <2>2, FirstIn
  <2>4. SumOver(h, s) = h[u] + SumOver(h, s \ {u})
    BY <2>1, <2>2, SumFirst
  <2>5. PICK B, R : B = Belonging(D, owner, s) /\ R = Belonging(D, owner, {u})
    OBVIOUS
  <2>6. R \in SUBSET B /\ B \subseteq D /\ B \ R = Belonging(D, owner, s \ {u})
    BY <2>3, <2>5 DEF Belonging
  <2>7. IsFiniteSet(B) /\ \A k \in B : c[k] \in Int
    BY <2>6, FS_Subset DEF OwnedBy
  <2>8. SumOver(c, B) = SumOver(c, R) + SumOver(c, B \ R)
    BY <2>6, <2>7, SumSplit
  <2>9. h[u] = SumOver(c, R)
    BY <2>3, <2>5 DEF OwnedBy
  <2>10. SumOver(h, s) # SumOver(c, B)
    BY <2>5
  <2>11. SumOver(h, s \ {u}) # SumOver(c, Belonging(D, owner, s \ {u}))
    BY <2>4, <2>6, <2>8, <2>9, <2>10
  <2> QED BY <2>2, <2>3, <2>11
<1>3. T \in SUBSET (SUBSET S)
  OBVIOUS
<1> HIDE DEF T
<1>4. T = {}
  BY <1>1, <1>2, <1>3, SumInduction
<1> QED BY <1>4 DEF T
=============================================================================

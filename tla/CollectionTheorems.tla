------------------------- MODULE CollectionTheorems -------------------------
(***************************************************************************)
(* What the sums of module Functions and Subsequence compute, for every    *)
(* finite set and every queue.  The induction theorems of the library take *)
(* an operator, which the provers cannot instantiate; the facts here come  *)
(* from smallest counterexamples instead, which exist since the naturals   *)
(* are well-founded.  That the recursion of a sum has a solution at all is *)
(* shown by one: the number of the units it adds up.                       *)
(***************************************************************************)
EXTENDS Integers, Sequences, FiniteSets, Functions, Subsequence,
        FiniteSetTheorems, SequenceTheorems, WellFoundedInduction, TLAPS

-----------------------------------------------------------------------------
(* Smallest counterexamples.                                               *)

\* The places of a sequence of length n.
LEMMA FirstNumbers ==
  ASSUME NEW n \in Nat
  PROVE  IsFiniteSet(1 .. n) /\ Cardinality(1 .. n) = n
<1>1. 1 \in Int /\ n \in Int
  OBVIOUS
<1>2. IsFiniteSet(1 .. n) /\ Cardinality(1 .. n) = IF 1 > n THEN 0 ELSE n - 1 + 1
  BY <1>1, FS_Interval
<1>3. n - 1 + 1 = n /\ (1 > n => n = 0)
  OBVIOUS
<1>4. QED BY <1>2, <1>3

\* A set of naturals that is not empty has a least element.
LEMMA LeastNumber ==
  ASSUME NEW T \in SUBSET Nat, T # {}
  PROVE  \E n \in T : \A m \in T : n <= m
<1> DEFINE less == OpToRel(<, Nat)
<1>1. \E x \in T : \A y \in T : ~ (<<y, x>> \in less)
  BY WFMin, NatLessThanWellFounded
<1>2. \A x, y \in Nat : <<y, x>> \in less <=> y < x
  BY DEF OpToRel
<1> HIDE DEF less
<1>3. PICK n \in T : \A y \in T : ~ (<<y, n>> \in less)
  BY <1>1
<1>4. \A m \in T : n <= m
  <2>1. ASSUME NEW m \in T PROVE n <= m
    <3>1. ~ (m < n)
      BY <1>2, <1>3
    <3>2. m \in Nat /\ n \in Nat
      OBVIOUS
    <3>3. QED BY <3>1, <3>2
  <2>2. QED BY <2>1
<1>5. QED BY <1>4

\* Of some bad subsets of a finite set, one is bad and has none that lacks one
\* element less and is bad as well.
LEMMA SmallestSubset ==
  ASSUME NEW S, IsFiniteSet(S), NEW Bad \in SUBSET (SUBSET S), Bad # {}
  PROVE  \E s \in Bad : \A x \in s : s \ {x} \notin Bad
<1> DEFINE sizes == {Cardinality(s) : s \in Bad}
<1>1. \A s \in Bad : IsFiniteSet(s) /\ Cardinality(s) \in Nat
  BY FS_Subset, FS_CardinalityType
<1>2. sizes \in SUBSET Nat /\ sizes # {}
  BY <1>1
<1>3. PICK n \in sizes : \A m \in sizes : n <= m
  <2> HIDE DEF sizes
  <2>1. QED BY <1>2, LeastNumber
<1>4. PICK s \in Bad : Cardinality(s) = n
  OBVIOUS
<1>5. ASSUME NEW x \in s, s \ {x} \in Bad
      PROVE  FALSE
  <2>1. Cardinality(s \ {x}) = Cardinality(s) - 1
    BY <1>1, FS_RemoveElement
  <2>2. n <= Cardinality(s \ {x})
    BY <1>3, <1>5
  <2>3. QED BY <2>1, <2>2, <1>4, <1>1
<1>6. QED BY <1>5

-----------------------------------------------------------------------------
(* Sums.                                                                   *)

\* A summand n is n units.
Units(f, s) == {u \in s \X Nat : u[2] < f[u[1]]}

\* An element more adds its value in units.
LEMMA UnitsStep ==
  ASSUME NEW S, NEW f \in [S -> Nat], NEW s \in SUBSET S, NEW x \in s,
         IsFiniteSet(Units(f, s \ {x}))
  PROVE  /\ IsFiniteSet(Units(f, s)) /\ Cardinality(Units(f, s)) \in Nat
         /\ Cardinality(Units(f, s)) = f[x] + Cardinality(Units(f, s \ {x}))
<1> DEFINE own == {x} \X (0 .. f[x] - 1)
<1>2. IsFiniteSet(own) /\ Cardinality(own) = f[x]
  <2>1. IsFiniteSet(0 .. f[x] - 1) /\ Cardinality(0 .. f[x] - 1) = f[x]
    BY FS_Interval, SMTT(30)
  <2>2. IsFiniteSet({x}) /\ Cardinality({x}) = 1
    BY FS_Singleton
  <2>3. QED BY <2>1, <2>2, FS_Product
<1>3. Units(f, s) = own \cup Units(f, s \ {x}) /\ own \cap Units(f, s \ {x}) = {}
  BY DEF Units
<1>4. Cardinality({}) = 0
  BY FS_EmptySet
<1> HIDE DEF own
<1>5. /\ IsFiniteSet(Units(f, s))
      /\ Cardinality(Units(f, s)) = f[x] + Cardinality(Units(f, s \ {x})) - 0
  <2>1. IsFiniteSet(own \cup Units(f, s \ {x}))
    BY <1>2, FS_Union
  <2>2. Cardinality(own \cup Units(f, s \ {x}))
        = Cardinality(own) + Cardinality(Units(f, s \ {x})) - Cardinality(own \cap Units(f, s \ {x}))
    BY <1>2, FS_Union
  <2>3. QED BY <1>2, <1>3, <1>4, <2>1, <2>2
<1>6. Cardinality(Units(f, s \ {x})) \in Nat /\ Cardinality(Units(f, s)) \in Nat
  BY <1>5, FS_CardinalityType
<1>7. QED BY <1>5, <1>6

\* The units of a finite set are finitely many.
LEMMA UnitsFinite ==
  ASSUME NEW S, IsFiniteSet(S), NEW f \in [S -> Nat], NEW t \in SUBSET S
  PROVE  IsFiniteSet(Units(f, t)) /\ Cardinality(Units(f, t)) \in Nat
<1> DEFINE Bad == {s \in SUBSET S : ~ IsFiniteSet(Units(f, s))}
<1>1. Bad \in SUBSET (SUBSET S)
  OBVIOUS
<1>2. ASSUME NEW s \in Bad, \A x \in s : s \ {x} \notin Bad
      PROVE  FALSE
  <2>1. CASE s = {}
    <3>1. Units(f, s) = {}
      BY <2>1 DEF Units
    <3>2. QED BY <3>1, FS_EmptySet
  <2>2. CASE s # {}
    <3>1. PICK x \in s : TRUE
      BY <2>2
    <3>2. IsFiniteSet(Units(f, s \ {x}))
      BY <1>2
    <3>3. QED BY <3>2, UnitsStep
  <2>3. QED BY <2>1, <2>2
<1>3. Bad = {}
  <2> HIDE DEF Bad
  <2>1. QED BY <1>1, <1>2, SmallestSubset
<1>4. QED BY <1>3, FS_CardinalityType

\* The sum of a function over its finite domain is the number of its units: they
\* solve the equations of the recursion, and a smallest set where another
\* solution differs cannot be.
LEMMA SumCounts ==
  ASSUME NEW S, IsFiniteSet(S), NEW f \in [S -> Nat]
  PROVE  SumFunction(f) = Cardinality(Units(f, S))
<1> DEFINE Def(g) == [s \in SUBSET S |-> IF s = {} THEN 0
                       ELSE f[CHOOSE x \in s : TRUE] + g[s \ {CHOOSE x \in s : TRUE}]]
           count == [s \in SUBSET S |-> Cardinality(Units(f, s))]
           iter == CHOOSE g : g = Def(g)
<1>1. SumFunction(f) = iter[S]
  BY DEF SumFunction, SumFunctionOnSet, FoldFunctionOnSet, MapThenFoldSet
<1>2. count = Def(count)
  <2>1. ASSUME NEW s \in SUBSET S, s # {}
        PROVE  count[s] = f[CHOOSE x \in s : TRUE] + count[s \ {CHOOSE x \in s : TRUE}]
    <3>1. PICK x \in s : x = CHOOSE y \in s : TRUE
      BY <2>1
    <3>2. s \ {x} \in SUBSET S
      OBVIOUS
    <3>3. IsFiniteSet(Units(f, s \ {x}))
      BY <3>2, UnitsFinite
    <3>4. count[s] = f[x] + count[s \ {x}]
      BY <3>2, <3>3, UnitsStep
    <3>5. QED BY <3>1, <3>4
  <2>2. count[{}] = 0
    <3>1. Units(f, {}) = {}
      BY DEF Units
    <3>2. QED BY <3>1, FS_EmptySet
  <2>3. QED BY <2>1, <2>2
<1>3. iter = Def(iter)
  BY <1>2
<1> DEFINE Bad == {s \in SUBSET S : iter[s] # count[s]}
<1>4. ASSUME NEW s \in Bad, \A x \in s : s \ {x} \notin Bad
      PROVE  FALSE
  <2>1. CASE s = {}
    BY <2>1, <1>2, <1>3
  <2>2. CASE s # {}
    <3>1. PICK x \in s : x = CHOOSE y \in s : TRUE
      BY <2>2
    <3>2. iter[s \ {x}] = count[s \ {x}]
      BY <1>4
    <3>3. iter[s] = f[x] + iter[s \ {x}]
      BY <1>3, <2>2, <3>1
    <3>4. count[s] = f[x] + count[s \ {x}]
      BY <1>2, <2>2, <3>1
    <3>5. QED BY <3>2, <3>3, <3>4
  <2>3. QED BY <2>1, <2>2
<1>5. Bad = {}
  <2>1. Bad \in SUBSET (SUBSET S)
    OBVIOUS
  <2> HIDE DEF Bad
  <2>2. QED BY <2>1, <1>4, SmallestSubset
<1>6. QED BY <1>1, <1>5

\* A sum of naturals is one.
LEMMA SumType ==
  ASSUME NEW S, IsFiniteSet(S), NEW f \in [S -> Nat]
  PROVE  SumFunction(f) \in Nat
BY SumCounts, UnitsFinite

\* The sum of nothing.
LEMMA SumEmpty ==
  ASSUME NEW f \in [{} -> Nat]
  PROVE  SumFunction(f) = 0
<1>1. Units(f, {}) = {}
  BY DEF Units
<1>2. IsFiniteSet({}) /\ Cardinality({}) = 0
  BY FS_EmptySet
<1>3. QED BY <1>1, <1>2, SumCounts

\* One more summand.
LEMMA SumExtend ==
  ASSUME NEW S, IsFiniteSet(S), NEW f \in [S -> Nat], NEW x, x \notin S,
         NEW g \in [S \cup {x} -> Nat], \A y \in S : g[y] = f[y]
  PROVE  SumFunction(g) = SumFunction(f) + g[x]
<1>1. IsFiniteSet(S \cup {x})
  BY FS_AddElement
<1>2. (S \cup {x}) \ {x} = S
  OBVIOUS
<1>3. Units(g, S) = Units(f, S)
  BY DEF Units
<1>4. IsFiniteSet(Units(g, S)) /\ Cardinality(Units(g, S)) \in Nat
  BY <1>3, UnitsFinite
<1>5. Cardinality(Units(g, S \cup {x})) = g[x] + Cardinality(Units(g, S))
  <2> DEFINE T == S \cup {x}
  <2>1. x \in T /\ T \in SUBSET T /\ T \ {x} = S /\ g \in [T -> Nat]
    BY <1>2
  <2> HIDE DEF T
  <2>2. IsFiniteSet(Units(g, T \ {x}))
    BY <1>4, <2>1
  <2>3. Cardinality(Units(g, T)) = g[x] + Cardinality(Units(g, T \ {x}))
    BY <2>1, <2>2, <1>4, UnitsStep
  <2>4. QED BY <2>1, <2>3 DEF T
<1>6. SumFunction(g) = Cardinality(Units(g, S \cup {x}))
  BY <1>1, SumCounts
<1>7. SumFunction(f) = Cardinality(Units(f, S))
  BY SumCounts
<1>8. g[x] \in Nat
  OBVIOUS
<1>9. QED BY <1>3, <1>4, <1>5, <1>6, <1>7, <1>8

\* More and larger summands make no smaller sum.
LEMMA SumMonotone ==
  ASSUME NEW T, IsFiniteSet(T), NEW S \in SUBSET T, NEW f \in [S -> Nat], NEW g \in [T -> Nat],
         \A x \in S : f[x] <= g[x]
  PROVE  SumFunction(f) <= SumFunction(g)
<1>1. IsFiniteSet(S)
  BY FS_Subset
<1>2. Units(f, S) \subseteq Units(g, T)
  <2>1. ASSUME NEW x \in S, NEW k \in Nat, k < f[x]
        PROVE  k < g[x]
    <3>1. f[x] \in Nat /\ g[x] \in Nat /\ f[x] <= g[x]
      OBVIOUS
    <3>2. QED BY <3>1, <2>1
  <2>2. QED BY <2>1 DEF Units
<1>3. IsFiniteSet(Units(g, T))
  BY UnitsFinite
<1>4. Cardinality(Units(f, S)) <= Cardinality(Units(g, T))
  BY <1>2, <1>3, FS_Subset
<1>5. QED BY <1>1, <1>4, SumCounts

\* A sum is at most the largest summand times their number.
LEMMA SumBound ==
  ASSUME NEW S, IsFiniteSet(S), NEW m \in Nat, NEW f \in [S -> 0 .. m]
  PROVE  SumFunction(f) <= m * Cardinality(S)
<1>1. f \in [S -> Nat]
  OBVIOUS
<1> DEFINE cells == S \X (0 .. m - 1)
<1>2. Units(f, S) \subseteq cells
  <2>1. ASSUME NEW x \in S, NEW k \in Nat, k < f[x]
        PROVE  k \in 0 .. m - 1
    <3>1. f[x] \in 0 .. m
      OBVIOUS
    <3>2. QED BY <3>1, <2>1
  <2>2. QED BY <2>1 DEF Units
<1>3. IsFiniteSet(0 .. m - 1) /\ Cardinality(0 .. m - 1) = m
  BY FS_Interval
<1>4. IsFiniteSet(cells) /\ Cardinality(cells) = Cardinality(S) * m
  BY <1>3, FS_Product
<1> HIDE DEF cells
<1>5. Cardinality(Units(f, S)) <= Cardinality(cells)
  BY <1>2, <1>4, FS_Subset
<1>6. SumFunction(f) = Cardinality(Units(f, S))
  BY <1>1, SumCounts
<1>7. Cardinality(S) \in Nat
  BY FS_CardinalityType
<1>8. Cardinality(S) * m = m * Cardinality(S)
  BY <1>7
<1>9. QED BY <1>4, <1>5, <1>6, <1>8

\* One summand changes.
LEMMA SumChange ==
  ASSUME NEW S, IsFiniteSet(S), NEW f \in [S -> Nat], NEW g \in [S -> Nat], NEW x \in S,
         \A y \in S \ {x} : g[y] = f[y]
  PROVE  SumFunction(g) + f[x] = SumFunction(f) + g[x]
<1>1. Units(g, S \ {x}) = Units(f, S \ {x})
  BY DEF Units
<1>2. IsFiniteSet(Units(f, S \ {x})) /\ Cardinality(Units(f, S \ {x})) \in Nat
  BY UnitsFinite
<1>3. S \in SUBSET S
  OBVIOUS
<1>4. Cardinality(Units(f, S)) = f[x] + Cardinality(Units(f, S \ {x}))
  BY <1>2, <1>3, UnitsStep
<1>5. Cardinality(Units(g, S)) = g[x] + Cardinality(Units(g, S \ {x}))
  BY <1>1, <1>2, <1>3, UnitsStep
<1>6. f[x] \in Nat /\ g[x] \in Nat
  OBVIOUS
<1>7. SumFunction(f) = Cardinality(Units(f, S)) /\ SumFunction(g) = Cardinality(Units(g, S))
  BY SumCounts
<1>8. QED BY <1>1, <1>2, <1>4, <1>5, <1>6, <1>7

\* A sum does not depend on the names of its summands.
LEMMA SumReindex ==
  ASSUME NEW S, IsFiniteSet(S), NEW T, NEW h \in Bijection(S, T),
         NEW f \in [S -> Nat], NEW g \in [T -> Nat], \A x \in S : g[h[x]] = f[x]
  PROVE  SumFunction(g) = SumFunction(f)
<1>1. h \in [S -> T] /\ (\A x, y \in S : h[x] = h[y] => x = y) /\ (\A z \in T : \E x \in S : h[x] = z)
  BY DEF Bijection, Injection, Surjection, IsInjective
<1> DEFINE over == [u \in Units(f, S) |-> <<h[u[1]], u[2]>>]
<1>2. over \in Bijection(Units(f, S), Units(g, T))
  <2>1. ASSUME NEW u \in Units(f, S) PROVE over[u] \in Units(g, T)
    BY <1>1 DEF Units
  <2>2. ASSUME NEW u \in Units(f, S), NEW v \in Units(f, S), over[u] = over[v] PROVE u = v
    <3>1. h[u[1]] = h[v[1]] /\ u[2] = v[2]
      BY <2>2
    <3>2. u = <<u[1], u[2]>> /\ v = <<v[1], v[2]>> /\ u[1] \in S /\ v[1] \in S
      BY DEF Units
    <3>3. QED BY <3>1, <3>2, <1>1
  <2>3. ASSUME NEW v \in Units(g, T) PROVE \E u \in Units(f, S) : over[u] = v
    <3>1. v[1] \in T /\ v[2] \in Nat /\ v[2] < g[v[1]] /\ v = <<v[1], v[2]>>
      BY DEF Units
    <3>2. PICK x \in S : h[x] = v[1]
      BY <3>1, <1>1
    <3>3. <<x, v[2]>> \in Units(f, S)
      BY <3>1, <3>2 DEF Units
    <3>4. over[<<x, v[2]>>] = v
      BY <3>1, <3>2, <3>3
    <3>5. QED BY <3>3, <3>4
  <2> HIDE DEF over
  <2>4. over \in [Units(f, S) -> Units(g, T)]
    BY <2>1 DEF over
  <2>5. QED BY <2>2, <2>3, <2>4 DEF Bijection, Injection, Surjection, IsInjective
<1>3. IsFiniteSet(Units(f, S))
  <2>1. S \in SUBSET S
    OBVIOUS
  <2>2. QED BY <2>1, UnitsFinite
<1> HIDE DEF over
<1>4. Cardinality(Units(g, T)) = Cardinality(Units(f, S))
  <2>1. ExistsBijection(Units(f, S), Units(g, T))
    BY <1>2 DEF ExistsBijection
  <2>2. QED BY <2>1, <1>3, FS_Bijection
<1>5. IsFiniteSet(T)
  <2>1. ExistsBijection(S, T)
    BY DEF ExistsBijection
  <2>2. QED BY <2>1, FS_Bijection
<1>6. QED BY <1>4, <1>5, SumCounts

\* f on U adds up g on S and h on T, which are disjoint.
Parts(U, f, S, g, T, h) ==
  /\ IsFiniteSet(S) /\ IsFiniteSet(T) /\ U = S \cup T /\ S \cap T = {}
  /\ f \in [U -> Nat] /\ g \in [S -> Nat] /\ h \in [T -> Nat]
  /\ \A x \in S : g[x] = f[x]
  /\ \A x \in T : h[x] = f[x]

\* A sum over a set in two parts is the two sums.
LEMMA SumUnion ==
  ASSUME NEW U, NEW f, NEW S, NEW g, NEW T, NEW h, Parts(U, f, S, g, T, h)
  PROVE  SumFunction(f) = SumFunction(g) + SumFunction(h)
<1>1. Units(f, U) = Units(g, S) \cup Units(h, T) /\ Units(g, S) \cap Units(h, T) = {}
  BY DEF Units, Parts
<1>2. /\ IsFiniteSet(Units(g, S)) /\ Cardinality(Units(g, S)) \in Nat
      /\ IsFiniteSet(Units(h, T)) /\ Cardinality(Units(h, T)) \in Nat
  <2>1. S \in SUBSET S /\ T \in SUBSET T
    OBVIOUS
  <2>2. QED BY <2>1, UnitsFinite DEF Parts
<1>3. Cardinality({}) = 0
  BY FS_EmptySet
<1>4. Cardinality(Units(g, S) \cup Units(h, T))
        = Cardinality(Units(g, S)) + Cardinality(Units(h, T))
  <2>1. Cardinality(Units(g, S) \cup Units(h, T))
          = Cardinality(Units(g, S)) + Cardinality(Units(h, T)) - Cardinality(Units(g, S) \cap Units(h, T))
    BY <1>2, FS_Union
  <2>2. Cardinality(Units(g, S) \cap Units(h, T)) = 0
    BY Zenon, <1>1, <1>3
  <2>3. QED BY <1>2, <2>1, <2>2
<1>5. IsFiniteSet(U)
  BY FS_Union DEF Parts
<1>6. /\ SumFunction(f) = Cardinality(Units(f, U))
      /\ SumFunction(g) = Cardinality(Units(g, S)) /\ SumFunction(h) = Cardinality(Units(h, T))
  BY <1>5, SumCounts DEF Parts
<1>7. QED BY <1>1, <1>4, <1>6

\* g on U is f on S with a value for x.
OneMore(U, g, S, f, x) ==
  /\ IsFiniteSet(S) /\ x \notin S /\ U = S \cup {x}
  /\ f \in [S -> Nat] /\ g \in [U -> Nat]
  /\ \A y \in S : g[y] = f[y]

\* A sum over one more element.
LEMMA SumOneMore ==
  ASSUME NEW U, NEW g, NEW S, NEW f, NEW x, OneMore(U, g, S, f, x)
  PROVE  SumFunction(g) = SumFunction(f) + g[x]
BY SumExtend DEF OneMore

\* Summands that are all the same.
LEMMA SumConstant ==
  ASSUME NEW S, IsFiniteSet(S), NEW c \in Nat
  PROVE  SumFunction([x \in S |-> c]) = c * Cardinality(S)
<1> DEFINE f == [x \in S |-> c]
           cells == S \X (0 .. c - 1)
<1>1. f \in [S -> Nat] /\ \A x \in S : f[x] = c
  OBVIOUS
<1> HIDE DEF f
<1>2. Units(f, S) = cells
  <2>1. \A k : k \in Nat /\ k < c <=> k \in 0 .. c - 1
    OBVIOUS
  <2>2. QED BY <1>1, <2>1 DEF Units
<1>3. IsFiniteSet(0 .. c - 1) /\ Cardinality(0 .. c - 1) = c
  BY FS_Interval
<1>4. Cardinality(cells) = Cardinality(S) * c
  BY <1>3, FS_Product
<1> HIDE DEF cells
<1>5. SumFunction(f) = Cardinality(cells)
  BY <1>1, <1>2, SumCounts
<1>6. Cardinality(S) \in Nat
  BY FS_CardinalityType
<1>7. Cardinality(S) * c = c * Cardinality(S)
  BY <1>6
<1>8. QED BY <1>4, <1>5, <1>7 DEF f

\* A sum is linear in its summands.
LEMMA SumLinear ==
  ASSUME NEW S, IsFiniteSet(S), NEW c \in Nat, NEW f \in [S -> Nat], NEW g \in [S -> Nat],
         NEW h \in [S -> Nat], \A x \in S : h[x] = c * f[x] + g[x]
  PROVE  SumFunction(h) = c * SumFunction(f) + SumFunction(g)
<1> DEFINE part(F, s) == [x \in s |-> F[x]]
           Wrong == {s \in SUBSET S :
                       SumFunction(part(h, s)) # c * SumFunction(part(f, s)) + SumFunction(part(g, s))}
<1>1. ASSUME NEW s \in Wrong, \A x \in s : s \ {x} \notin Wrong
      PROVE  FALSE
  <2>1. s \in SUBSET S /\ IsFiniteSet(s)
    BY FS_Subset
  <2>2. CASE s = {}
    <3>1. /\ SumFunction(part(h, s)) = 0 /\ SumFunction(part(f, s)) = 0
          /\ SumFunction(part(g, s)) = 0
      <4>1. part(h, s) \in [{} -> Nat] /\ part(f, s) \in [{} -> Nat] /\ part(g, s) \in [{} -> Nat]
        BY <2>2
      <4> HIDE DEF part
      <4>2. QED BY <4>1, SumEmpty
    <3>2. QED BY <3>1
  <2>3. CASE s # {}
    <3>1. PICK x \in s : TRUE
      BY <2>3
    <3> DEFINE r == s \ {x}
    <3>2. r \in SUBSET S /\ IsFiniteSet(r) /\ x \notin r /\ r \cup {x} = s /\ x \in S
      BY <2>1, FS_Subset
    <3>3. ASSUME NEW F \in [S -> Nat]
          PROVE  /\ SumFunction(part(F, s)) = SumFunction(part(F, r)) + F[x]
                 /\ SumFunction(part(F, r)) \in Nat /\ F[x] \in Nat
      <4> DEFINE p == part(F, r)
                 q == part(F, s)
      <4>1. OneMore(s, q, r, p, x) /\ q[x] = F[x] /\ p \in [r -> Nat] /\ IsFiniteSet(r)
        BY <2>1, <3>2 DEF OneMore
      <4> HIDE DEF p, q, r, part, Wrong
      <4>2. SumFunction(q) = SumFunction(p) + q[x]
        BY <4>1, SumOneMore
      <4>3. SumFunction(p) \in Nat
        BY <4>1, SumType
      <4>4. QED BY <3>2, <4>1, <4>2, <4>3 DEF p, q
    <3>4. SumFunction(part(h, r)) = c * SumFunction(part(f, r)) + SumFunction(part(g, r))
      BY <1>1, <3>2
    <3>5. h[x] = c * f[x] + g[x]
      BY <3>2
    <3> DEFINE a == SumFunction(part(f, r))
               b == SumFunction(part(g, r))
               u == f[x]
               v == g[x]
    <3>6. a \in Nat /\ b \in Nat /\ u \in Nat /\ v \in Nat
      BY <3>3
    <3>7. /\ SumFunction(part(h, s)) = (c * a + b) + (c * u + v)
          /\ c * SumFunction(part(f, s)) + SumFunction(part(g, s)) = c * (a + u) + (b + v)
      BY <3>3, <3>4, <3>5
    <3> HIDE DEF a, b, u, v, part
    <3>8. (c * a + b) + (c * u + v) = c * (a + u) + (b + v)
      BY <3>6
    <3>9. QED BY <3>7, <3>8
  <2>4. QED BY <2>2, <2>3
<1>2. Wrong = {}
  <2>1. Wrong \in SUBSET (SUBSET S)
    OBVIOUS
  <2> HIDE DEF Wrong
  <2>2. QED BY <2>1, <1>1, SmallestSubset
<1>3. part(f, S) = f /\ part(g, S) = g /\ part(h, S) = h
  OBVIOUS
<1>4. S \in SUBSET S
  OBVIOUS
<1> HIDE DEF part
<1>5. QED BY <1>2, <1>3, <1>4

-----------------------------------------------------------------------------
(* Subsequences.                                                           *)

\* h lists the positions in chosen in their order.
Lists(h, n, chosen) ==
  /\ h \in [1 .. n -> chosen]
  /\ \A j, k \in 1 .. n : j < k => h[j] < h[k]
  /\ \A i \in chosen : \E k \in 1 .. n : h[k] = i

\* The positions up to i.
Upto(i, chosen) == {j \in chosen : j <= i}

\* A function that is one to one on a set, and one that reaches all of another.
OneToOne(f, S) == \A x, y \in S : f[x] = f[y] => x = y
Reaches(f, S, T) == \A t \in T : \E x \in S : f[x] = t

\* A function onto a set leaves it no larger, and of the same size only when it
\* is one to one.
LEMMA OntoCounts ==
  ASSUME NEW S, IsFiniteSet(S), NEW T, NEW f \in [S -> T], Reaches(f, S, T)
  PROVE  /\ IsFiniteSet(T) /\ Cardinality(T) <= Cardinality(S)
         /\ Cardinality(T) = Cardinality(S) <=> OneToOne(f, S)
<1>1. f \in Surjection(S, T)
  BY DEF Surjection, Reaches
<1>2. /\ IsFiniteSet(T) /\ Cardinality(T) <= Cardinality(S)
      /\ Cardinality(T) = Cardinality(S) <=> f \in Injection(S, T)
  BY <1>1, FS_Surjection
<1>3. f \in Injection(S, T) <=> OneToOne(f, S)
  BY DEF Injection, IsInjective, OneToOne
<1>4. QED BY <1>2, <1>3

\* A function that is one to one is onto a set of the same size.
LEMMA IntoCounts ==
  ASSUME NEW S, NEW T, IsFiniteSet(T), NEW f \in [S -> T], OneToOne(f, S),
         Cardinality(S) = Cardinality(T)
  PROVE  Reaches(f, S, T)
<1>1. f \in Injection(S, T)
  BY DEF Injection, IsInjective, OneToOne
<1>2. f \in Surjection(S, T)
  BY <1>1, FS_Injection
<1>3. QED BY <1>2 DEF Surjection, Reaches

\* Positions have different ranks, and each rank has a position.
LEMMA RanksBiject ==
  ASSUME NEW chosen \in SUBSET Int, IsFiniteSet(chosen)
  PROVE  [i \in chosen |-> Cardinality(Upto(i, chosen))]
           \in Bijection(chosen, 1 .. Cardinality(chosen))
<1> DEFINE n == Cardinality(chosen)
           Rank(i) == Cardinality(Upto(i, chosen))
           rank == [i \in chosen |-> Rank(i)]
<1>1. n \in Nat
  BY FS_CardinalityType
<1>2. \A i \in chosen : IsFiniteSet(Upto(i, chosen)) /\ Rank(i) \in 1 .. n /\ Rank(i) \in Int
  <2> SUFFICES ASSUME NEW i \in chosen
               PROVE  IsFiniteSet(Upto(i, chosen)) /\ Rank(i) \in 1 .. n /\ Rank(i) \in Int
    OBVIOUS
  <2>1. Upto(i, chosen) \in SUBSET chosen /\ i \in Upto(i, chosen)
    BY DEF Upto
  <2>2. IsFiniteSet(Upto(i, chosen)) /\ Rank(i) <= n
    BY <2>1, FS_Subset
  <2>3. Rank(i) \in Nat /\ Rank(i) # 0
    BY <2>1, <2>2, FS_CardinalityType, FS_EmptySet
  <2>4. QED BY <1>1, <2>2, <2>3
<1>3. \A i, j \in chosen : i < j => Rank(i) < Rank(j)
  <2> SUFFICES ASSUME NEW i \in chosen, NEW j \in chosen, i < j
               PROVE  Rank(i) < Rank(j)
    OBVIOUS
  <2>1. i \in Int /\ j \in Int
    OBVIOUS
  <2>2. Upto(i, chosen) \in SUBSET Upto(j, chosen) /\ j \in Upto(j, chosen) /\ j \notin Upto(i, chosen)
    <3>1. ASSUME NEW k \in chosen, k <= i PROVE k <= j
      <4>1. k \in Int /\ i < j /\ k <= i
        BY <3>1
      <4>2. QED BY <4>1, <2>1
    <3>2. j <= j /\ ~(j <= i)
      BY <2>1
    <3>3. QED BY <3>1, <3>2 DEF Upto
  <2>3. Rank(i) <= Rank(j) /\ Rank(j) # Rank(i)
    BY <1>2, <2>2, FS_Subset
  <2>4. Rank(i) \in Int /\ Rank(j) \in Int
    BY <1>2
  <2> HIDE DEF Rank
  <2>5. QED BY <2>3, <2>4
<1>4. \A i, j \in chosen : Rank(i) = Rank(j) => i = j
  <2> SUFFICES ASSUME NEW i \in chosen, NEW j \in chosen, Rank(i) = Rank(j)
               PROVE  i = j
    OBVIOUS
  <2>1. Rank(i) \in Int /\ Rank(j) \in Int /\ i \in Int /\ j \in Int
    BY <1>2
  <2> HIDE DEF Rank
  <2>2. ~(i < j) /\ ~(j < i)
    BY <1>3, <2>1
  <2>3. QED BY <2>1, <2>2
<1>5. rank \in Injection(chosen, 1 .. n)
  <2>1. rank \in [chosen -> 1 .. n]
    BY <1>2
  <2>2. \A i, j \in chosen : rank[i] = rank[j] => i = j
    <3> HIDE DEF Rank
    <3>1. QED BY <1>4
  <2> HIDE DEF rank, n
  <2>3. QED BY <2>1, <2>2 DEF Injection, IsInjective
<1>6. IsFiniteSet(1 .. n) /\ Cardinality(1 .. n) = n
  BY <1>1, FS_Interval
<1>7. rank \in Surjection(chosen, 1 .. n)
  <2> HIDE DEF rank
  <2>1. QED BY <1>5, <1>6, FS_Injection
<1>8. QED BY <1>5, <1>7 DEF Bijection

\* A subsequence lists its positions in their order.
LEMMA SubsequenceFacts ==
  ASSUME NEW s, NEW chosen \in SUBSET Int, IsFiniteSet(chosen)
  PROVE  \E h : /\ Lists(h, Cardinality(chosen), chosen)
                /\ Subsequence(s, chosen) = [k \in 1 .. Cardinality(chosen) |-> s[h[k]]]
<1> DEFINE n == Cardinality(chosen)
           rank == [i \in chosen |-> Cardinality(Upto(i, chosen))]
           h == [k \in 1 .. n |-> CHOOSE i \in chosen : Cardinality(Upto(i, chosen)) = k]
<1>1. n \in Nat
  BY FS_CardinalityType
<1>2. /\ rank \in [chosen -> 1 .. n] /\ (\A i, j \in chosen : rank[i] = rank[j] => i = j)
      /\ \A k \in 1 .. n : \E i \in chosen : rank[i] = k
  <2>1. rank \in Bijection(chosen, 1 .. n)
    BY RanksBiject
  <2> HIDE DEF rank, n
  <2>2. QED BY <2>1 DEF Bijection, Injection, Surjection, IsInjective
<1>3. \A k \in 1 .. n : h[k] \in chosen /\ rank[h[k]] = k
  <2> SUFFICES ASSUME NEW k \in 1 .. n
               PROVE  h[k] \in chosen /\ rank[h[k]] = k
    OBVIOUS
  <2>1. \E i \in chosen : Cardinality(Upto(i, chosen)) = k
    BY <1>2
  <2>2. QED BY <2>1
<1>4. \A j, k \in 1 .. n : j < k => h[j] < h[k]
  <2> SUFFICES ASSUME NEW j \in 1 .. n, NEW k \in 1 .. n, j < k
               PROVE  h[j] < h[k]
    OBVIOUS
  <2>1. h[j] \in chosen /\ h[k] \in chosen /\ rank[h[j]] = j /\ rank[h[k]] = k
    BY <1>3
  <2> HIDE DEF h
  <2>2. ASSUME h[k] <= h[j] PROVE FALSE
    <3>1. Upto(h[k], chosen) \in SUBSET Upto(h[j], chosen)
      <4>1. ASSUME NEW i \in chosen, i <= h[k] PROVE i <= h[j]
        <5>1. i \in Int /\ h[k] \in Int /\ h[j] \in Int
          BY <2>1
        <5>2. QED BY <5>1, <2>2, <4>1
      <4>2. QED BY <4>1 DEF Upto
    <3>2. IsFiniteSet(Upto(h[j], chosen))
      <4>1. Upto(h[j], chosen) \in SUBSET chosen
        BY DEF Upto
      <4>2. QED BY <4>1, FS_Subset
    <3>3. Cardinality(Upto(h[k], chosen)) <= Cardinality(Upto(h[j], chosen))
      BY <3>1, <3>2, FS_Subset
    <3>4. k <= j
      BY <2>1, <3>3
    <3>5. j \in Int /\ k \in Int
      BY <1>1
    <3>6. QED BY <3>4, <3>5
  <2>3. h[j] \in Int /\ h[k] \in Int
    BY <2>1
  <2>4. QED BY <2>2, <2>3
<1>5. \A i \in chosen : \E k \in 1 .. n : h[k] = i
  <2> SUFFICES ASSUME NEW i \in chosen
               PROVE  \E k \in 1 .. n : h[k] = i
    OBVIOUS
  <2>1. rank[i] \in 1 .. n
    BY <1>2
  <2>2. h[rank[i]] \in chosen /\ rank[h[rank[i]]] = rank[i]
    BY <1>3, <2>1
  <2> HIDE DEF h, rank, n
  <2>3. h[rank[i]] = i
    BY <1>2, <2>2
  <2>4. QED BY <2>1, <2>3
<1>6. Subsequence(s, chosen) = [k \in 1 .. n |-> s[h[k]]]
  BY DEF Subsequence, Upto
<1>7. Lists(h, n, chosen)
  <2>1. h \in [1 .. n -> chosen]
    BY <1>3
  <2> HIDE DEF h, n
  <2>2. QED BY <2>1, <1>4, <1>5 DEF Lists
<1>8. QED BY <1>6, <1>7

\* The k-th position of a list in order has rank k, and so there is one list.
LEMMA ListsUnique ==
  ASSUME NEW chosen \in SUBSET Int, IsFiniteSet(chosen), NEW n \in Nat, NEW h, Lists(h, n, chosen)
  PROVE  /\ n = Cardinality(chosen)
         /\ \A k \in 1 .. n : Cardinality(Upto(h[k], chosen)) = k
<1>1. /\ h \in [1 .. n -> chosen]
      /\ \A j, k \in 1 .. n : h[j] <= h[k] <=> j <= k
  <2>1. h \in [1 .. n -> chosen] /\ \A j, k \in 1 .. n : j < k => h[j] < h[k]
    BY DEF Lists
  <2>2. ASSUME NEW j \in 1 .. n, NEW k \in 1 .. n
        PROVE  h[j] <= h[k] <=> j <= k
    <3>1. h[j] \in chosen /\ h[k] \in chosen
      BY <2>1
    <3>2. h[j] \in Int /\ h[k] \in Int /\ j \in Int /\ k \in Int
      <4>1. \A i \in chosen : i \in Int
        OBVIOUS
      <4>2. h[j] \in Int /\ h[k] \in Int
        BY <3>1, <4>1
      <4>3. QED BY <4>2
    <3>3. (j < k => h[j] < h[k]) /\ (k < j => h[k] < h[j])
      BY <2>1
    <3>4. QED BY <3>2, <3>3
  <2>3. QED BY <2>1, <2>2
<1>2. \A j, k \in 1 .. n : h[j] = h[k] => j = k
  <2> SUFFICES ASSUME NEW j \in 1 .. n, NEW k \in 1 .. n, h[j] = h[k] PROVE j = k
    OBVIOUS
  <2>1. h[j] \in chosen /\ j \in Int /\ k \in Int
    BY <1>1
  <2>2. h[j] <= h[k] /\ h[k] <= h[j]
    <3>1. \A i \in chosen : i \in Int
      OBVIOUS
    <3>2. h[j] \in Int
      BY <2>1, <3>1
    <3>3. h[j] <= h[j]
      BY <3>2
    <3>4. QED BY <3>3
  <2>3. j <= k /\ k <= j
    BY <1>1, <2>2
  <2>4. QED BY <2>1, <2>3
<1>3. ASSUME NEW m \in 0 .. n
      PROVE  Cardinality({h[k] : k \in 1 .. m}) = m
  <2> DEFINE T == {h[k] : k \in 1 .. m}
             b == [k \in 1 .. m |-> h[k]]
  <2>1. \A k \in 1 .. m : k \in 1 .. n
    OBVIOUS
  <2>2. b \in Bijection(1 .. m, T)
    <3>1. b \in [1 .. m -> T] /\ (\A j, k \in 1 .. m : b[j] = b[k] => j = k)
          /\ \A z \in T : \E k \in 1 .. m : b[k] = z
      BY <1>2, <2>1
    <3> HIDE DEF b, T
    <3>2. QED BY <3>1 DEF Bijection, Injection, Surjection, IsInjective
  <2>3. IsFiniteSet(1 .. m) /\ Cardinality(1 .. m) = m
    BY FS_Interval
  <2> HIDE DEF b, T
  <2>4. Cardinality(T) = m
    <3>1. ExistsBijection(1 .. m, T)
      BY <2>2 DEF ExistsBijection
    <3>2. QED BY <3>1, <2>3, FS_Bijection
  <2>5. QED BY <2>4 DEF T
<1>4. chosen = {h[k] : k \in 1 .. n}
  BY <1>1 DEF Lists
<1>5. n = Cardinality(chosen)
  BY <1>3, <1>4
<1>6. ASSUME NEW k \in 1 .. n PROVE Cardinality(Upto(h[k], chosen)) = k
  <2>1. Upto(h[k], chosen) = {h[j] : j \in 1 .. k}
    <3>1. \A i \in chosen : i <= h[k] => \E j \in 1 .. k : i = h[j]
      <4> SUFFICES ASSUME NEW i \in chosen, i <= h[k] PROVE \E j \in 1 .. k : i = h[j]
        OBVIOUS
      <4>1. PICK j \in 1 .. n : h[j] = i
        BY <1>4
      <4>2. j <= k
        BY <4>1, <1>1
      <4>3. QED BY <4>1, <4>2
    <3>2. \A j \in 1 .. k : h[j] \in chosen /\ h[j] <= h[k]
      BY <1>1
    <3>3. QED BY <3>1, <3>2 DEF Upto
  <2>2. QED BY <2>1, <1>3
<1>7. QED BY <1>5, <1>6

\* A list of the positions in order gives the subsequence.
LEMMA SubsequenceBy ==
  ASSUME NEW s, NEW chosen \in SUBSET Int, IsFiniteSet(chosen), NEW n \in Nat, NEW h, Lists(h, n, chosen)
  PROVE  n = Cardinality(chosen) /\ Subsequence(s, chosen) = [k \in 1 .. n |-> s[h[k]]]
<1>1. n = Cardinality(chosen) /\ \A k \in 1 .. n : Cardinality(Upto(h[k], chosen)) = k
  BY ListsUnique
<1>2. PICK g : /\ Lists(g, n, chosen)
               /\ Subsequence(s, chosen) = [k \in 1 .. n |-> s[g[k]]]
  BY <1>1, SubsequenceFacts
<1>3. \A k \in 1 .. n : Cardinality(Upto(g[k], chosen)) = k
  BY <1>2, ListsUnique
<1> DEFINE rank == [i \in chosen |-> Cardinality(Upto(i, chosen))]
<1>4. \A i, j \in chosen : rank[i] = rank[j] => i = j
  <2>1. rank \in Bijection(chosen, 1 .. Cardinality(chosen))
    BY RanksBiject
  <2> HIDE DEF rank
  <2>2. QED BY <2>1 DEF Bijection, Injection, IsInjective
<1>5. ASSUME NEW k \in 1 .. n PROVE g[k] = h[k]
  <2>1. g[k] \in chosen /\ h[k] \in chosen
    BY <1>2 DEF Lists
  <2>2. rank[g[k]] = k /\ rank[h[k]] = k
    BY <1>1, <1>3, <2>1
  <2> HIDE DEF rank
  <2>3. QED BY <1>4, <2>1, <2>2
<1>6. [k \in 1 .. n |-> s[g[k]]] = [k \in 1 .. n |-> s[h[k]]]
  BY <1>5
<1>7. QED BY <1>1, <1>2, <1>6

\* A subsequence has the elements at the positions, each as often as they do.
LEMMA SubsequenceElements ==
  ASSUME NEW T, NEW s \in Seq(T), NEW chosen \in SUBSET DOMAIN s
  PROVE  /\ Subsequence(s, chosen) \in Seq(T)
         /\ Len(Subsequence(s, chosen)) = Cardinality(chosen)
         /\ \A k \in DOMAIN Subsequence(s, chosen) :
              \E i \in chosen : Subsequence(s, chosen)[k] = s[i]
         /\ \A i \in chosen :
              \E k \in DOMAIN Subsequence(s, chosen) : Subsequence(s, chosen)[k] = s[i]
         /\ (\A i, j \in chosen : s[i] = s[j] => i = j)
            => \A j, k \in DOMAIN Subsequence(s, chosen) :
                 Subsequence(s, chosen)[j] = Subsequence(s, chosen)[k] => j = k
<1> DEFINE t == Subsequence(s, chosen)
           n == Cardinality(chosen)
<1>1. Len(s) \in Nat /\ DOMAIN s = 1 .. Len(s)
  OBVIOUS
<1>2. chosen \in SUBSET Int /\ IsFiniteSet(chosen)
  <2>1. IsFiniteSet(1 .. Len(s))
    BY <1>1, FS_Interval
  <2>2. QED BY <1>1, <2>1, FS_Subset
<1>3. n \in Nat
  BY <1>2, FS_CardinalityType
<1>4. PICK h : Lists(h, n, chosen) /\ t = [k \in 1 .. n |-> s[h[k]]]
  BY <1>2, SubsequenceFacts
<1>5. /\ h \in [1 .. n -> chosen] /\ (\A j, k \in 1 .. n : j < k => h[j] < h[k])
      /\ \A i \in chosen : \E k \in 1 .. n : h[k] = i
  BY <1>4 DEF Lists
<1>6. \A j, k \in 1 .. n : h[j] = h[k] => j = k
  <2> SUFFICES ASSUME NEW j \in 1 .. n, NEW k \in 1 .. n, h[j] = h[k] PROVE j = k
    OBVIOUS
  <2>1. \A i \in chosen : i \in Int
    BY <1>2
  <2>2. h[j] \in Int /\ j \in Int /\ k \in Int
    BY <1>5, <2>1
  <2>3. ~(j < k) /\ ~(k < j)
    BY <1>5, <2>2
  <2>4. QED BY <2>2, <2>3
<1>7. \A i \in chosen : s[i] \in T
  BY <1>1
<1> HIDE DEF t, n
<1>8. t \in Seq(T) /\ Len(t) = n /\ DOMAIN t = 1 .. n
  <2>1. \A k \in 1 .. n : s[h[k]] \in T
    BY <1>5, <1>7
  <2>2. QED BY <1>3, <1>4, <2>1
<1>9. \A k \in DOMAIN t : \E i \in chosen : t[k] = s[i]
  BY <1>4, <1>5, <1>8
<1>10. \A i \in chosen : \E k \in DOMAIN t : t[k] = s[i]
  BY <1>4, <1>5, <1>8
<1>11. ASSUME \A i, j \in chosen : s[i] = s[j] => i = j,
              NEW j \in DOMAIN t, NEW k \in DOMAIN t, t[j] = t[k]
       PROVE  j = k
  <2>1. h[j] \in chosen /\ h[k] \in chosen /\ s[h[j]] = s[h[k]]
    BY <1>4, <1>5, <1>8, <1>11
  <2>2. h[j] = h[k]
    BY <1>11, <2>1
  <2>3. QED BY <1>6, <1>8, <2>2
<1>12. QED BY <1>8, <1>9, <1>10, <1>11 DEF t, n

\* Moving the chosen elements to other positions, in the same order, changes nothing.
LEMMA SubsequenceMoved ==
  ASSUME NEW s, NEW t, NEW I \in SUBSET Int, IsFiniteSet(I), NEW J \in SUBSET Int, IsFiniteSet(J),
         NEW move \in [I -> J], \A i, j \in I : i < j => move[i] < move[j],
         \A j \in J : \E i \in I : move[i] = j,
         \A i \in I : t[move[i]] = s[i]
  PROVE  Subsequence(t, J) = Subsequence(s, I)
<1> DEFINE n == Cardinality(I)
<1>1. n \in Nat
  BY FS_CardinalityType
<1>2. PICK h : Lists(h, n, I) /\ Subsequence(s, I) = [k \in 1 .. n |-> s[h[k]]]
  BY SubsequenceFacts
<1>3. /\ h \in [1 .. n -> I] /\ (\A j, k \in 1 .. n : j < k => h[j] < h[k])
      /\ \A i \in I : \E k \in 1 .. n : h[k] = i
  BY <1>2 DEF Lists
<1> DEFINE m == [k \in 1 .. n |-> move[h[k]]]
<1> HIDE DEF n
<1>4. Lists(m, n, J)
  <2>1. m \in [1 .. n -> J]
    BY <1>3
  <2>2. \A j, k \in 1 .. n : j < k => m[j] < m[k]
    BY <1>3
  <2>3. \A j \in J : \E k \in 1 .. n : m[k] = j
    BY <1>3
  <2>4. QED BY <2>1, <2>2, <2>3 DEF Lists
<1>5. Subsequence(t, J) = [k \in 1 .. n |-> t[m[k]]]
  <2> HIDE DEF m
  <2>1. QED BY <1>1, <1>4, SubsequenceBy
<1>6. \A k \in 1 .. n : t[m[k]] = s[h[k]]
  BY <1>3
<1>7. QED BY <1>2, <1>5, <1>6

\* A new last element that is chosen.
LEMMA SubsequenceAppend ==
  ASSUME NEW T, NEW s \in Seq(T), NEW x \in T, NEW I \in SUBSET DOMAIN s
  PROVE  Subsequence(Append(s, x), I \cup {Len(s) + 1}) = Append(Subsequence(s, I), x)
<1> DEFINE n == Cardinality(I)
           l == Len(s)
           J == I \cup {l + 1}
<1>1. l \in Nat /\ DOMAIN s = 1 .. l /\ I \in SUBSET Int /\ J \in SUBSET Int /\ l + 1 \notin I
  OBVIOUS
<1>2. IsFiniteSet(I) /\ IsFiniteSet(J) /\ n \in Nat
  <2>1. IsFiniteSet(1 .. l)
    BY <1>1, FS_Interval
  <2>2. IsFiniteSet(I)
    BY <1>1, <2>1, FS_Subset
  <2>3. QED BY <2>2, FS_CardinalityType, FS_AddElement
<1>3. PICK h : Lists(h, n, I) /\ Subsequence(s, I) = [k \in 1 .. n |-> s[h[k]]]
  <2> HIDE DEF J
  <2>1. I \in SUBSET Int /\ IsFiniteSet(I)
    BY <1>1, <1>2
  <2>2. QED BY <2>1, SubsequenceFacts
<1>4. /\ h \in [1 .. n -> I] /\ (\A j, k \in 1 .. n : j < k => h[j] < h[k])
      /\ \A i \in I : \E k \in 1 .. n : h[k] = i
  BY <1>3 DEF Lists
<1> DEFINE m == [k \in 1 .. n + 1 |-> IF k = n + 1 THEN l + 1 ELSE h[k]]
<1> HIDE DEF n
<1>5. \A k \in 1 .. n + 1 : k # n + 1 => k \in 1 .. n
  BY <1>2
<1>6. Lists(m, n + 1, J)
  <2>1. m \in [1 .. n + 1 -> J]
    BY <1>4, <1>5
  <2>2. ASSUME NEW j \in 1 .. n + 1, NEW k \in 1 .. n + 1, j < k PROVE m[j] < m[k]
    <3>1. j \in 1 .. n /\ m[j] = h[j] /\ h[j] \in 1 .. l
      BY <1>1, <1>2, <1>4, <2>2
    <3>2. CASE k = n + 1
      BY <1>1, <3>1, <3>2
    <3>3. CASE k # n + 1
      BY <1>4, <1>5, <2>2, <3>1, <3>3
    <3>4. QED BY <3>2, <3>3
  <2>3. \A j \in J : \E k \in 1 .. n + 1 : m[k] = j
    <3>1. n + 1 \in 1 .. n + 1 /\ m[n + 1] = l + 1
      BY <1>2
    <3>2. ASSUME NEW i \in I PROVE \E k \in 1 .. n + 1 : m[k] = i
      <4>1. PICK k \in 1 .. n : h[k] = i
        BY <1>4
      <4>2. k \in 1 .. n + 1 /\ k # n + 1
        BY <1>2
      <4>3. QED BY <4>1, <4>2
    <3>3. QED BY <3>1, <3>2
  <2> HIDE DEF m, J
  <2>4. QED BY <2>1, <2>2, <2>3 DEF Lists
<1>7. Subsequence(Append(s, x), J) = [k \in 1 .. n + 1 |-> Append(s, x)[m[k]]]
  <2> DEFINE u == Append(s, x)
  <2>1. n + 1 \in Nat /\ J \in SUBSET Int /\ IsFiniteSet(J) /\ Lists(m, n + 1, J)
    BY <1>1, <1>2, <1>6
  <2> HIDE DEF m, J, u
  <2>2. Subsequence(u, J) = [k \in 1 .. n + 1 |-> u[m[k]]]
    BY <2>1, SubsequenceBy
  <2>3. QED BY <2>2 DEF u
<1>8. ASSUME NEW k \in 1 .. n + 1
      PROVE  Append(s, x)[m[k]] = IF k = n + 1 THEN x ELSE s[h[k]]
  <2>1. CASE k = n + 1
    BY <2>1
  <2>2. CASE k # n + 1
    <3>1. m[k] = h[k] /\ h[k] \in 1 .. l
      BY <1>1, <1>4, <1>5, <2>2
    <3>2. QED BY <1>1, <3>1, <2>2
  <2>3. QED BY <2>1, <2>2
<1> HIDE DEF m, J
<1>9. [k \in 1 .. n + 1 |-> Append(s, x)[m[k]]]
      = [k \in 1 .. n + 1 |-> IF k = n + 1 THEN x ELSE s[h[k]]]
  BY <1>8
<1>10. [k \in 1 .. n |-> s[h[k]]] \in Seq(T)
  BY <1>1, <1>2, <1>4
<1>11. Append([k \in 1 .. n |-> s[h[k]]], x)
       = [k \in 1 .. n + 1 |-> IF k = n + 1 THEN x ELSE s[h[k]]]
  BY <1>2, <1>10
<1>12. QED BY <1>3, <1>7, <1>9, <1>11 DEF J

\* A sequence without its element i.
LEMMA CutFacts ==
  ASSUME NEW T, NEW s \in Seq(T), NEW i \in DOMAIN s
  PROVE  /\ SubSeq(s, 1, i - 1) \o SubSeq(s, i + 1, Len(s)) \in Seq(T)
         /\ SubSeq(s, 1, i - 1) \o SubSeq(s, i + 1, Len(s))
              = [k \in 1 .. Len(s) - 1 |-> IF k < i THEN s[k] ELSE s[k + 1]]
<1> DEFINE a == SubSeq(s, 1, i - 1)
           b == SubSeq(s, i + 1, Len(s))
           n == Len(s)
<1>1. n \in Nat /\ i \in 1 .. n /\ i - 1 \in Nat /\ n - i \in Nat
  OBVIOUS
<1>2. /\ a \in Seq(T) /\ Len(a) = i - 1 /\ \A k \in 1 .. i - 1 : a[k] = s[k]
      /\ b \in Seq(T) /\ Len(b) = n - i /\ \A k \in 1 .. n - i : b[k] = s[k + i]
  BY <1>1
<1> HIDE DEF a, b
<1>3. /\ a \o b \in Seq(T) /\ Len(a \o b) = Len(a) + Len(b)
      /\ \A k \in 1 .. Len(a) + Len(b) : (a \o b)[k] = IF k <= Len(a) THEN a[k] ELSE b[k - Len(a)]
  BY <1>2, ConcatProperties
<1>4. Len(a) + Len(b) = n - 1 /\ Len(a) = i - 1
  BY <1>1, <1>2
<1>5. ASSUME NEW k \in 1 .. n - 1 PROVE (a \o b)[k] = IF k < i THEN s[k] ELSE s[k + 1]
  <2>1. (a \o b)[k] = IF k <= i - 1 THEN a[k] ELSE b[k - (i - 1)]
    BY <1>3, <1>4
  <2>2. CASE k < i
    BY <1>1, <1>2, <2>1, <2>2
  <2>3. CASE ~(k < i)
    <3>1. k - (i - 1) \in 1 .. n - i /\ (k - (i - 1)) + i = k + 1 /\ ~(k <= i - 1)
      BY <1>1, <2>3
    <3>2. QED BY <1>2, <2>1, <2>3, <3>1
  <2>4. QED BY <2>2, <2>3
<1>6. a \o b = [k \in 1 .. n - 1 |-> (a \o b)[k]]
  BY <1>3, <1>4, LenProperties
<1>7. QED BY <1>3, <1>5, <1>6 DEF a, b

\* One chosen element less.
LEMMA SubsequenceWithout ==
  ASSUME NEW T, NEW s \in Seq(T), NEW I \in SUBSET DOMAIN s, NEW i \in I
  PROVE  /\ Subsequence(s, I) \in Seq(T)
         /\ \E m \in DOMAIN Subsequence(s, I) :
              /\ Subsequence(s, I)[m] = s[i]
              /\ (\A j \in I : i <= j) => m = 1
              /\ Subsequence(s, I \ {i}) = SubSeq(Subsequence(s, I), 1, m - 1)
                                        \o SubSeq(Subsequence(s, I), m + 1, Len(Subsequence(s, I)))
<1> DEFINE n == Cardinality(I)
           l == Len(s)
           t == Subsequence(s, I)
<1>1. l \in Nat /\ DOMAIN s = 1 .. l /\ I \in SUBSET Int /\ I \ {i} \in SUBSET Int
  OBVIOUS
<1>2. IsFiniteSet(I) /\ IsFiniteSet(I \ {i}) /\ n \in Nat
  <2>1. IsFiniteSet(1 .. l)
    BY <1>1, FS_Interval
  <2>2. IsFiniteSet(I)
    BY <1>1, <2>1, FS_Subset
  <2>3. QED BY <2>2, FS_CardinalityType, FS_RemoveElement
<1>3. PICK h : Lists(h, n, I) /\ t = [k \in 1 .. n |-> s[h[k]]]
  BY <1>1, <1>2, SubsequenceFacts
<1>4. /\ h \in [1 .. n -> I] /\ (\A j, k \in 1 .. n : j < k => h[j] < h[k])
      /\ \A j \in I : \E k \in 1 .. n : h[k] = j
  BY <1>3 DEF Lists
<1>5. PICK m \in 1 .. n : h[m] = i
  BY <1>4
<1> HIDE DEF n, t
<1>6. t \in Seq(T) /\ Len(t) = n /\ DOMAIN t = 1 .. n
  BY <1>1, <1>2, <1>3, <1>4
<1>7. t[m] = s[i]
  BY <1>3, <1>5
<1>8. ASSUME \A j \in I : i <= j PROVE m = 1
  <2>1. m # 1 => h[1] < h[m]
    BY <1>2, <1>4
  <2>2. 1 \in 1 .. n /\ h[1] \in I
    BY <1>2, <1>4
  <2>3. h[1] \in Int /\ i \in Int /\ i <= h[1]
    BY <1>1, <1>8, <2>2
  <2>4. QED BY <1>5, <2>1, <2>3
<1> DEFINE g == [k \in 1 .. n - 1 |-> IF k < m THEN h[k] ELSE h[k + 1]]
<1>9. \A k \in 1 .. n - 1 : k \in 1 .. n /\ k + 1 \in 1 .. n /\ k \in Int
  BY <1>2
<1>10. \A j, k \in 1 .. n : h[j] = h[k] => j = k
  <2> SUFFICES ASSUME NEW j \in 1 .. n, NEW k \in 1 .. n, h[j] = h[k] PROVE j = k
    OBVIOUS
  <2>1. \A o \in I : o \in Int
    BY <1>1
  <2>2. h[j] \in Int /\ j \in Int /\ k \in Int
    BY <1>4, <2>1
  <2>3. ~(j < k) /\ ~(k < j)
    BY <1>4, <2>2
  <2>4. QED BY <2>2, <2>3
<1>11. Lists(g, n - 1, I \ {i})
  <2>1. ASSUME NEW k \in 1 .. n - 1 PROVE g[k] \in I \ {i}
    <3>1. CASE k < m
      BY <1>4, <1>5, <1>9, <1>10, <3>1
    <3>2. CASE ~(k < m)
      <4>1. k + 1 # m
        BY <1>9, <3>2
      <4>2. QED BY <1>4, <1>5, <1>9, <1>10, <3>2, <4>1
    <3>3. QED BY <3>1, <3>2
  <2>2. ASSUME NEW j \in 1 .. n - 1, NEW k \in 1 .. n - 1, j < k PROVE g[j] < g[k]
    <3>1. CASE k < m
      <4>1. j < m
        BY <1>9, <2>2, <3>1
      <4>2. QED BY <1>4, <1>9, <2>2, <3>1, <4>1
    <3>2. CASE ~(k < m) /\ j < m
      <4>1. j < k + 1
        BY <1>9, <2>2
      <4>2. QED BY <1>4, <1>9, <3>2, <4>1
    <3>3. CASE ~(k < m) /\ ~(j < m)
      <4>1. j + 1 < k + 1
        BY <1>9, <2>2
      <4>2. QED BY <1>4, <1>9, <3>3, <4>1
    <3>4. QED BY <3>1, <3>2, <3>3
  <2>3. ASSUME NEW j \in I \ {i} PROVE \E k \in 1 .. n - 1 : g[k] = j
    <3>1. PICK k \in 1 .. n : h[k] = j
      BY <1>4
    <3>2. k # m
      BY <3>1, <1>5
    <3>3. CASE k < m
      <4>1. k \in 1 .. n - 1
        BY <1>2, <3>3
      <4>2. QED BY <3>1, <3>3, <4>1
    <3>4. CASE k > m
      <4>1. k - 1 \in 1 .. n - 1 /\ ~(k - 1 < m) /\ (k - 1) + 1 = k
        BY <1>2, <3>4
      <4>2. QED BY <3>1, <4>1
    <3>5. QED BY <3>2, <3>3, <3>4
  <2>4. g \in [1 .. n - 1 -> I \ {i}]
    BY <2>1
  <2> HIDE DEF g
  <2>5. QED BY <2>2, <2>3, <2>4 DEF Lists
<1>12. Subsequence(s, I \ {i}) = [k \in 1 .. n - 1 |-> s[g[k]]]
  <2> HIDE DEF g
  <2>1. n - 1 \in Nat
    BY <1>2
  <2>2. QED BY <1>1, <1>2, <1>11, <2>1, SubsequenceBy
<1> DEFINE rest == SubSeq(t, 1, m - 1) \o SubSeq(t, m + 1, Len(t))
<1>13. rest = [k \in 1 .. n - 1 |-> IF k < m THEN t[k] ELSE t[k + 1]]
  <2> HIDE DEF g
  <2>1. t \in Seq(T) /\ m \in DOMAIN t
    BY <1>6
  <2>2. SubSeq(t, 1, m - 1) \o SubSeq(t, m + 1, Len(t))
          = [k \in 1 .. Len(t) - 1 |-> IF k < m THEN t[k] ELSE t[k + 1]]
    <3> HIDE DEF rest
    <3>1. QED BY ONLY <2>1, CutFacts
  <2>3. QED BY ONLY <1>6, <2>2
<1>14. ASSUME NEW k \in 1 .. n - 1
       PROVE  s[g[k]] = IF k < m THEN t[k] ELSE t[k + 1]
  BY <1>3, <1>9
<1>15. Subsequence(s, I \ {i}) = rest
  <2> HIDE DEF g, rest
  <2>1. QED BY <1>12, <1>13, <1>14
<1>16. QED BY <1>5, <1>6, <1>7, <1>8, <1>15 DEF t
=============================================================================

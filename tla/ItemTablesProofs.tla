--------------------------- MODULE ItemTablesProofs ---------------------------
(***************************************************************************)
(* Proofs about ItemTables for any characters, retainers, kinds, tasks,    *)
(* amounts, prices and bounds.                                             *)
(*                                                                         *)
(* The inductive invariant ItemInv has three parts: the homes (OneHome,    *)
(* slots below the next id, one gil row per character), what removals in   *)
(* progress have read (ReadInv), and that an undisturbed removal still     *)
(* sees its stacks as they are (ExactInv).  Each operation is first        *)
(* brought to a view, what it does to ids, kinds, quantities and rows, and *)
(* the invariant is shown from the view.                                   *)
(***************************************************************************)
EXTENDS ItemTables, Integers, FiniteSets, FiniteSetsExt, FiniteSetTheorems, WellFoundedInduction, TLAPS

-----------------------------------------------------------------------------
(* Natural numbers *)

\* Induction over the natural numbers, from the well-foundedness of <: every set of them that is
\* not empty has a least element.
LEMMA LessWellFounded == \E R : IsWellFoundedOn(R, Nat) /\ \A x, y \in Nat : <<x, y>> \in R <=> x < y
<1>1. IsWellFoundedOn(OpToRel(<, Nat), Nat)
  BY NatLessThanWellFounded
<1>2. \A x, y \in Nat : <<x, y>> \in OpToRel(<, Nat) <=> x < y
  BY DEF OpToRel
<1> QED BY <1>1, <1>2, Zenon

\* A nonempty set of natural numbers has a least element.
LEMMA LeastNat ==
  ASSUME NEW T, T \subseteq Nat, T # {}
  PROVE  \E n \in T : \A m \in T : n <= m
<1>1. PICK R : IsWellFoundedOn(R, Nat) /\ (\A x, y \in Nat : <<x, y>> \in R <=> x < y)
  BY LessWellFounded
<1>2. IsWellFoundedOn(R, Nat)
  BY <1>1
<1>3. PICK x \in T : \A y \in T : ~ (<<y, x>> \in R)
  BY <1>2, WFMin, Zenon
<1>4. \A y \in T : ~ (y < x)
  BY <1>1, <1>3
<1>5. \A y \in T : y \in Nat /\ x \in Nat
  BY <1>3
<1> QED BY <1>4, <1>5

\* A set that holds 0, and n + 1 with n, holds every natural number.
LEMMA Induct ==
  ASSUME NEW T, 0 \in T, \A n \in Nat : n \in T => n + 1 \in T
  PROVE  Nat \subseteq T
<1> SUFFICES ASSUME Nat \ T # {} PROVE FALSE
  OBVIOUS
<1>1. PICK n \in Nat \ T : \A m \in Nat \ T : n <= m
  BY LeastNat
<1>2. n # 0 /\ n - 1 \in Nat /\ n - 1 \in T
  BY <1>1
<1> QED BY <1>1, <1>2

\* FiniteSetsExt!Max and Min, of a set with an upper bound and of two numbers.
LEMMA MaxIn ==
  ASSUME NEW n \in Int, NEW S, S \subseteq Int, \A x \in S : x <= n, S # {}
  PROVE  Max(S) \in S /\ \A x \in S : x <= Max(S)
<1> DEFINE T == {k \in Nat : n - k \in S}
<1>1. PICK s \in S : s \in Int /\ s <= n
  OBVIOUS
<1>2. n - s \in T
  <2>1. n - s \in Nat /\ n - (n - s) = s
    BY <1>1
  <2> QED BY <1>1, <2>1
<1> HIDE DEF T
<1>3. PICK t \in T : \A u \in T : t <= u
  <2>1. T \subseteq Nat /\ T # {}
    BY <1>2 DEF T
  <2> QED BY <2>1, LeastNat
<1>4. n - t \in S /\ t \in Nat
  BY DEF T
<1>5. ASSUME NEW x \in S PROVE n - t >= x
  <2>1. x \in Int /\ n - x \in Nat /\ n - (n - x) = x
    OBVIOUS
  <2>2. n - x \in T
    BY <2>1 DEF T
  <2>3. t <= n - x
    BY <1>3, <2>2
  <2> QED BY <1>4, <2>1, <2>3
<1>6. \E z \in S : \A x \in S : z >= x
  BY <1>4, <1>5
<1>7. Max(S) \in S /\ \A x \in S : Max(S) >= x
  BY <1>6 DEF Max
<1>8. \A x \in S : x \in Int
  OBVIOUS
<1> QED BY <1>7, <1>8

\* The lesser of two numbers, for the Min of FiniteSetsExt.
LEMMA MinOfTwo ==
  ASSUME NEW a \in Int, NEW b \in Int
  PROVE  Min({a, b}) = IF a <= b THEN a ELSE b
<1>1. \E x \in {a, b} : \A y \in {a, b} : x <= y
  <2>1. CASE a <= b
    BY <2>1
  <2>2. CASE b <= a
    BY <2>2
  <2> QED BY <2>1, <2>2
<1>2. Min({a, b}) \in {a, b} /\ \A y \in {a, b} : Min({a, b}) <= y
  BY <1>1 DEF Min
<1> QED BY <1>2

\* The greater of two numbers, for the Max of FiniteSetsExt.
LEMMA MaxOfTwo ==
  ASSUME NEW a \in Int, NEW b \in Int
  PROVE  Max({a, b}) = IF a >= b THEN a ELSE b
<1>1. \E x \in {a, b} : \A y \in {a, b} : x >= y
  <2>1. CASE a <= b
    BY <2>1
  <2>2. CASE b <= a
    BY <2>2
  <2> QED BY <2>1, <2>2
<1>2. Max({a, b}) \in {a, b} /\ \A y \in {a, b} : Max({a, b}) >= y
  BY <1>1 DEF Max
<1> QED BY <1>2

\* A rest of n in stacks of m: all stacks but the last are full.
LEMMA Stacks ==
  ASSUME NEW n \in Nat, NEW m \in Nat \ {0}
  PROVE  LET k == (n + m - 1) \div m IN k \in Nat /\ \A j \in 0..(k - 1) : j * m <= n
<1> DEFINE k == (n + m - 1) \div m
<1>1. k \in Nat /\ m * k <= n + m - 1
  OBVIOUS
<1> HIDE DEF k
<1>2. ASSUME NEW j \in 0..(k - 1) PROVE j * m <= n
  <2>1. PICK d \in Nat : k = j + 1 + d
    <3>1. k - 1 - j \in Nat /\ k = j + 1 + (k - 1 - j)
      BY <1>1
    <3> QED BY <3>1
  <2>2. m * k = m * j + m + m * d
    BY <2>1
  <2>3. m * d \in Nat /\ m * j = j * m /\ m * j \in Nat
    BY <2>1
  <2> QED BY <1>1, <2>2, <2>3
<1> QED BY <1>1, <1>2 DEF k

-----------------------------------------------------------------------------
(* Sums *)

\* The element a sum takes next.
Chosen(s) == CHOOSE x \in s : TRUE

\* f is a number at every element of S, which is finite.
Summable(f, S) == IsFiniteSet(S) /\ \A x \in S : f[x] \in Int

\* The recursive function of a sum over the subsets of S has a solution.
SumBy(f, S, g) == g = [s \in SUBSET S |-> IF s = {} THEN 0 ELSE f[Chosen(s)] + g[s \ {Chosen(s)}]]

\* The element chosen is in the set.
LEMMA ChosenIn ==
  ASSUME NEW s, s # {}
  PROVE  Chosen(s) \in s
BY DEF Chosen

\* What is left when the chosen element is taken out is finite and one less.
LEMMA ChosenRest ==
  ASSUME NEW S, IsFiniteSet(S), NEW s \in SUBSET S, s # {}
  PROVE  /\ Chosen(s) \in S /\ s \ {Chosen(s)} \in SUBSET S /\ IsFiniteSet(s) /\ IsFiniteSet(s \ {Chosen(s)})
         /\ Cardinality(s) \in Nat /\ Cardinality(s \ {Chosen(s)}) \in Nat
         /\ Cardinality(s) = Cardinality(s \ {Chosen(s)}) + 1
<1>1. Chosen(s) \in s
  BY ChosenIn
<1>2. IsFiniteSet(s)
  BY FS_Subset
<1>3. IsFiniteSet(s \ {Chosen(s)}) /\ Cardinality(s \ {Chosen(s)}) = Cardinality(s) - 1
  BY <1>1, <1>2, FS_RemoveElement
<1>4. Cardinality(s) \in Nat /\ Cardinality(s \ {Chosen(s)}) \in Nat
  BY <1>2, <1>3, FS_CardinalityType
<1> QED BY <1>1, <1>2, <1>3, <1>4

\* A set of n + 1 elements has n without any one of them.
LEMMA OneLess ==
  ASSUME NEW s, IsFiniteSet(s), NEW n \in Nat, Cardinality(s) = n + 1
  PROVE  /\ s # {} /\ Chosen(s) \in s
         /\ \A x \in s : IsFiniteSet(s \ {x}) /\ Cardinality(s \ {x}) = n
<1>1. s # {}
  <2>1. Cardinality(s) # 0
    OBVIOUS
  <2> QED BY <2>1, FS_EmptySet
<1>2. ASSUME NEW x \in s PROVE IsFiniteSet(s \ {x}) /\ Cardinality(s \ {x}) = n
  <2>1. IsFiniteSet(s \ {x}) /\ Cardinality(s \ {x}) = Cardinality(s) - 1
    BY FS_RemoveElement
  <2> QED BY <2>1
<1> QED BY <1>1, <1>2, ChosenIn

\* A function on the subsets that satisfies the equation of the sum exists.
LEMMA SumExists ==
  ASSUME NEW f, NEW S, Summable(f, S)
  PROVE  \E g \in [SUBSET S -> Int] : SumBy(f, S, g)
<1> DEFINE D(n) == {s \in SUBSET S : Cardinality(s) <= n}
           Solves(g, s) == g[s] = IF s = {} THEN 0 ELSE f[Chosen(s)] + g[s \ {Chosen(s)}]
           T == {n \in Nat : \E g \in [D(n) -> Int] : \A s \in D(n) : Solves(g, s)}
<1>1. IsFiniteSet(S) /\ (\A x \in S : f[x] \in Int)
  BY DEF Summable
<1>2. \A s \in SUBSET S : Cardinality(s) \in Nat /\ (Cardinality(s) = 0 <=> s = {})
  BY <1>1, FS_Subset, FS_EmptySet, FS_CardinalityType
<1>3. 0 \in T
  <2>1. D(0) = {{}}
    BY <1>2
  <2>2. [s \in D(0) |-> 0] \in [D(0) -> Int] /\ \A s \in D(0) : Solves([z \in D(0) |-> 0], s)
    BY <2>1
  <2> HIDE DEF D, Solves
  <2> QED BY <2>2
<1>4. ASSUME NEW n \in Nat, n \in T PROVE n + 1 \in T
  <2>1. PICK g \in [D(n) -> Int] : \A s \in D(n) : Solves(g, s)
    BY <1>4
  <2> DEFINE h == [s \in D(n + 1) |-> IF s \in D(n) THEN g[s] ELSE f[Chosen(s)] + g[s \ {Chosen(s)}]]
  <2>2. ASSUME NEW s \in D(n + 1), s # {} PROVE f[Chosen(s)] \in Int /\ s \ {Chosen(s)} \in D(n)
    <3>1. Chosen(s) \in S /\ s \ {Chosen(s)} \in SUBSET S /\ Cardinality(s \ {Chosen(s)}) \in Nat /\ Cardinality(s) \in Nat
          /\ Cardinality(s) = Cardinality(s \ {Chosen(s)}) + 1
      BY <1>1, <2>2, ChosenRest
    <3> QED BY <1>1, <3>1
  <2>3. {} \in D(n) /\ D(n) \subseteq D(n + 1)
    BY <1>2
  <2> HIDE DEF D
  <2>4. h \in [D(n + 1) -> Int]
    <3> SUFFICES ASSUME NEW s \in D(n + 1) PROVE h[s] \in Int
      OBVIOUS
    <3>1. CASE s \in D(n)
      BY <3>1
    <3>2. CASE s \notin D(n)
      <4>1. f[Chosen(s)] \in Int /\ s \ {Chosen(s)} \in D(n)
        BY <2>2, <2>3, <3>2
      <4> QED BY <3>2, <4>1
    <3> QED BY <3>1, <3>2
  <2>5. ASSUME NEW s \in D(n + 1) PROVE Solves(h, s)
    <3>1. CASE s = {}
      <4>1. g[s] = 0
        BY <2>1, <2>3, <3>1
      <4> QED BY <2>3, <3>1, <4>1
    <3>2. CASE s # {}
      <4>1. s \ {Chosen(s)} \in D(n) /\ h[s \ {Chosen(s)}] = g[s \ {Chosen(s)}]
        BY <2>2, <2>3, <3>2
      <4>2. h[s] = f[Chosen(s)] + g[s \ {Chosen(s)}]
        <5>1. CASE s \in D(n)
          BY <2>1, <3>2, <5>1
        <5>2. CASE s \notin D(n)
          BY <5>2
        <5> QED BY <5>1, <5>2
      <4> HIDE DEF h
      <4> QED BY <3>2, <4>1, <4>2
    <3> QED BY <3>1, <3>2
  <2> HIDE DEF h, Solves
  <2> QED BY <2>4, <2>5
<1>5. Cardinality(S) \in T /\ Cardinality(S) \in Nat
  <2>1. Cardinality(S) \in Nat
    BY <1>1, FS_CardinalityType
  <2> HIDE DEF T
  <2> QED BY <1>3, <1>4, <2>1, Induct
<1>6. D(Cardinality(S)) = SUBSET S
  BY <1>1, FS_Subset
<1>7. PICK g \in [SUBSET S -> Int] : \A s \in SUBSET S : Solves(g, s)
  <2>1. \E g \in [D(Cardinality(S)) -> Int] : \A s \in D(Cardinality(S)) : Solves(g, s)
    BY <1>5
  <2> HIDE DEF D, Solves
  <2> QED BY <1>6, <2>1
<1>8. g = [s \in SUBSET S |-> IF s = {} THEN 0 ELSE f[Chosen(s)] + g[s \ {Chosen(s)}]]
  BY <1>7
<1> QED BY <1>8 DEF SumBy

\* SumFunctionOnSet solves its recursive equation, on every subset.
SumIter(f, S) == CHOOSE g : SumBy(f, S, g)

\* The library's sum is that function.
LEMMA SumIs ==
  ASSUME NEW f, NEW S
  PROVE  SumFunctionOnSet(f, S) = SumIter(f, S)[S]
BY DEF SumFunctionOnSet, FoldFunctionOnSet, MapThenFoldSet, SumIter, SumBy, Chosen

\* The function chosen satisfies the equation.
LEMMA SumIterIs ==
  ASSUME NEW f, NEW S, Summable(f, S)
  PROVE  /\ SumIter(f, S)[{}] = 0
         /\ \A s \in SUBSET S : s # {} => SumIter(f, S)[s] = f[Chosen(s)] + SumIter(f, S)[s \ {Chosen(s)}]
<1>1. SumBy(f, S, SumIter(f, S))
  BY SumExists DEF SumIter
<1>2. PICK g : g = SumIter(f, S)
  OBVIOUS
<1>3. \A s \in SUBSET S : g[s] = IF s = {} THEN 0 ELSE f[Chosen(s)] + g[s \ {Chosen(s)}]
  BY <1>1, <1>2 DEF SumBy
<1> QED BY <1>2, <1>3

\* Where two functions agree, so do their sums, whichever larger set the recursion starts from.
LEMMA SumIterAgree ==
  ASSUME NEW f, NEW S, Summable(f, S), NEW g, NEW R, Summable(g, R), \A x \in S \cap R : f[x] = g[x]
  PROVE  \A s \in SUBSET (S \cap R) : SumIter(f, S)[s] = SumIter(g, R)[s]
<1> DEFINE T == {n \in Nat : \A s \in SUBSET (S \cap R) : Cardinality(s) = n => SumIter(f, S)[s] = SumIter(g, R)[s]}
<1>0. IsFiniteSet(S) /\ IsFiniteSet(R)
  BY DEF Summable
<1>1. 0 \in T
  <2> SUFFICES ASSUME NEW s \in SUBSET (S \cap R), Cardinality(s) = 0 PROVE SumIter(f, S)[s] = SumIter(g, R)[s]
    OBVIOUS
  <2>1. s \in SUBSET S
    OBVIOUS
  <2>2. s = {}
    BY <1>0, <2>1, FS_Subset, FS_EmptySet
  <2> QED BY <2>2, SumIterIs
<1>2. ASSUME NEW n \in Nat, n \in T PROVE n + 1 \in T
  <2> SUFFICES ASSUME NEW s \in SUBSET (S \cap R), Cardinality(s) = n + 1 PROVE SumIter(f, S)[s] = SumIter(g, R)[s]
    OBVIOUS
  <2>1. s \in SUBSET S /\ s \in SUBSET R
    OBVIOUS
  <2>0. IsFiniteSet(s)
    BY <1>0, <2>1, FS_Subset
  <2>2. s # {} /\ Chosen(s) \in s /\ Cardinality(s \ {Chosen(s)}) = n
    BY <2>0, OneLess
  <2>3. Chosen(s) \in s /\ Cardinality(s \ {Chosen(s)}) = n /\ s \ {Chosen(s)} \in SUBSET (S \cap R)
    BY <2>2
  <2>4. SumIter(f, S)[s \ {Chosen(s)}] = SumIter(g, R)[s \ {Chosen(s)}]
    BY <1>2, <2>3
  <2>5. f[Chosen(s)] = g[Chosen(s)]
    BY <2>3
  <2> QED BY <2>1, <2>2, <2>4, <2>5, SumIterIs
<1>3. Nat \subseteq T
  <2> HIDE DEF T
  <2> QED BY <1>1, <1>2, Induct
<1>4. ASSUME NEW s \in SUBSET (S \cap R) PROVE Cardinality(s) \in Nat
  <2>1. s \in SUBSET S
    OBVIOUS
  <2> QED BY <1>0, <2>1, FS_Subset, FS_CardinalityType
<1> QED BY <1>3, <1>4

\* A part of what can be summed can be summed.
LEMMA SummableSubset ==
  ASSUME NEW f, NEW S, Summable(f, S), NEW R \in SUBSET S
  PROVE  Summable(f, R)
BY FS_Subset DEF Summable

\* Equal summands, equal sums.
LEMMA SumAgree ==
  ASSUME NEW f, NEW g, NEW S, Summable(f, S), \A x \in S : f[x] = g[x]
  PROVE  SumFunctionOnSet(f, S) = SumFunctionOnSet(g, S)
<1>1. Summable(g, S)
  BY DEF Summable
<1>2. SumIter(f, S)[S] = SumIter(g, S)[S]
  BY <1>1, SumIterAgree
<1> QED BY <1>2, SumIs

\* The sum of nothing is 0, and a sum is its first element and the sum of the rest.
LEMMA SumChosen ==
  ASSUME NEW f, NEW S, Summable(f, S)
  PROVE  /\ S = {} => SumFunctionOnSet(f, S) = 0
         /\ S # {} => SumFunctionOnSet(f, S) = f[Chosen(S)] + SumFunctionOnSet(f, S \ {Chosen(S)})
<1>1. CASE S = {}
  BY <1>1, SumIs, SumIterIs
<1>2. CASE S # {}
  <2> DEFINE R == S \ {Chosen(S)}
  <2>1. R \in SUBSET S /\ R \in SUBSET (S \cap R)
    OBVIOUS
  <2>2. Summable(f, R)
    BY <2>1, SummableSubset
  <2>3. SumIter(f, S)[R] = SumIter(f, R)[R]
    <3> HIDE DEF R
    <3> QED BY <2>1, <2>2, SumIterAgree
  <2>4. SumIter(f, S)[S] = f[Chosen(S)] + SumIter(f, S)[R]
    BY <1>2, SumIterIs
  <2> QED BY <1>2, <2>3, <2>4, SumIs
<1> QED BY <1>1, <1>2

\* The sum of nothing is 0.
LEMMA SumEmpty ==
  ASSUME NEW f
  PROVE  SumFunctionOnSet(f, {}) = 0
<1>1. Summable(f, {})
  BY FS_EmptySet DEF Summable
<1> QED BY <1>1, SumChosen

\* A sum of integers is an integer.
LEMMA SumInt ==
  ASSUME NEW f, NEW S, Summable(f, S)
  PROVE  SumFunctionOnSet(f, S) \in Int
<1> DEFINE T == {n \in Nat : \A s : Summable(f, s) /\ Cardinality(s) = n => SumFunctionOnSet(f, s) \in Int}
<1>1. 0 \in T
  <2> SUFFICES ASSUME NEW s, Summable(f, s), Cardinality(s) = 0 PROVE SumFunctionOnSet(f, s) \in Int
    OBVIOUS
  <2>1. s = {}
    BY FS_EmptySet DEF Summable
  <2> QED BY <2>1, SumEmpty
<1>2. ASSUME NEW n \in Nat, n \in T PROVE n + 1 \in T
  <2> SUFFICES ASSUME NEW s, Summable(f, s), Cardinality(s) = n + 1 PROVE SumFunctionOnSet(f, s) \in Int
    OBVIOUS
  <2>1. s # {} /\ IsFiniteSet(s) /\ s \in SUBSET s
    BY FS_EmptySet DEF Summable
  <2>2. Chosen(s) \in s /\ Cardinality(s \ {Chosen(s)}) = n /\ s \ {Chosen(s)} \in SUBSET s
    BY <2>1, ChosenRest, ChosenIn
  <2>3. Summable(f, s \ {Chosen(s)})
    BY <2>2, SummableSubset
  <2>4. SumFunctionOnSet(f, s \ {Chosen(s)}) \in Int
    BY <1>2, <2>2, <2>3
  <2>5. f[Chosen(s)] \in Int
    BY <2>2 DEF Summable
  <2> QED BY <2>1, <2>4, <2>5, SumChosen
<1>3. Nat \subseteq T
  <2> HIDE DEF T
  <2> QED BY <1>1, <1>2, Induct
<1>4. Cardinality(S) \in Nat
  BY FS_CardinalityType DEF Summable
<1> QED BY <1>3, <1>4

\* The order does not matter: any element may be taken out of a sum.
LEMMA SumTake ==
  ASSUME NEW f, NEW S, Summable(f, S), NEW x \in S
  PROVE  /\ SumFunctionOnSet(f, S) = f[x] + SumFunctionOnSet(f, S \ {x})
         /\ f[x] \in Int /\ SumFunctionOnSet(f, S) \in Int /\ SumFunctionOnSet(f, S \ {x}) \in Int
<1> DEFINE Sum(s) == SumFunctionOnSet(f, s)
           T == {n \in Nat : \A s : Summable(f, s) /\ Cardinality(s) = n => \A y \in s : Sum(s) = f[y] + Sum(s \ {y})}
<1>1. 0 \in T
  <2> SUFFICES ASSUME NEW s, Summable(f, s), Cardinality(s) = 0 PROVE s = {}
    OBVIOUS
  <2> QED BY FS_EmptySet DEF Summable
<1>2. ASSUME NEW n \in Nat, n \in T PROVE n + 1 \in T
  <2> SUFFICES ASSUME NEW s, Summable(f, s), Cardinality(s) = n + 1, NEW y \in s PROVE Sum(s) = f[y] + Sum(s \ {y})
    OBVIOUS
  <2>1. s # {} /\ IsFiniteSet(s) /\ s \in SUBSET s
    BY DEF Summable
  <2>2. PICK z : z = Chosen(s)
    OBVIOUS
  <2>3. z \in s /\ Cardinality(s \ {z}) = n /\ s \ {z} \in SUBSET s /\ s \ {y} \in SUBSET s
    BY <2>1, <2>2, OneLess
  <2>4. Cardinality(s \ {y}) = n
    BY <2>1, OneLess
  <2>5. Summable(f, s \ {z}) /\ Summable(f, s \ {y})
    BY <2>3, SummableSubset
  <2>6. Sum(s) = f[z] + Sum(s \ {z})
    BY <2>1, <2>2, SumChosen
  <2>7. CASE y = z
    BY <2>6, <2>7
  <2>8. CASE y # z
    <3>1. Sum(s \ {z}) = f[y] + Sum((s \ {z}) \ {y})
      BY <1>2, <2>3, <2>5, <2>8
    <3>2. Sum(s \ {y}) = f[z] + Sum((s \ {y}) \ {z})
      BY <1>2, <2>3, <2>4, <2>5, <2>8
    <3>3. (s \ {z}) \ {y} = (s \ {y}) \ {z}
      OBVIOUS
    <3>4. (s \ {y}) \ {z} \in SUBSET s
      OBVIOUS
    <3>5. Summable(f, (s \ {y}) \ {z})
      BY <3>4, SummableSubset
    <3>6. f[y] \in Int /\ f[z] \in Int /\ Sum((s \ {y}) \ {z}) \in Int
      BY <2>3, <3>5, SumInt DEF Summable
    <3>7. PICK d : d = Sum((s \ {y}) \ {z})
      OBVIOUS
    <3>8. Sum(s \ {z}) = f[y] + d /\ Sum(s \ {y}) = f[z] + d
      BY <3>1, <3>2, <3>3, <3>7
    <3>9. f[y] \in Int /\ f[z] \in Int /\ d \in Int
      BY <3>6, <3>7
    <3>10. f[z] + (f[y] + d) = f[y] + (f[z] + d)
      BY <3>9
    <3> QED BY <2>6, <3>8, <3>10
  <2> QED BY <2>7, <2>8
<1>3. Nat \subseteq T
  <2> HIDE DEF T
  <2> QED BY <1>1, <1>2, Induct
<1>4. Cardinality(S) \in Nat
  BY FS_CardinalityType DEF Summable
<1>5. Sum(S) = f[x] + Sum(S \ {x})
  BY <1>3, <1>4
<1>6. S \ {x} \in SUBSET S
  OBVIOUS
<1>7. Summable(f, S \ {x}) /\ f[x] \in Int
  BY <1>6, SummableSubset DEF Summable
<1> QED BY <1>5, <1>7, SumInt

\* A sum of natural numbers is one, and no less than any of them.
LEMMA SumNat ==
  ASSUME NEW f, NEW S, IsFiniteSet(S), \A x \in S : f[x] \in Nat
  PROVE  SumFunctionOnSet(f, S) \in Nat /\ \A x \in S : f[x] <= SumFunctionOnSet(f, S)
<1> DEFINE Counted(s) == IsFiniteSet(s) /\ \A x \in s : f[x] \in Nat
           T == {n \in Nat : \A s : Counted(s) /\ Cardinality(s) = n => SumFunctionOnSet(f, s) \in Nat}
<1>0. ASSUME NEW s, Counted(s) PROVE Summable(f, s)
  BY <1>0 DEF Summable
<1>1. 0 \in T
  <2> SUFFICES ASSUME NEW s, Counted(s), Cardinality(s) = 0 PROVE SumFunctionOnSet(f, s) \in Nat
    OBVIOUS
  <2>1. s = {}
    BY FS_EmptySet
  <2> QED BY <2>1, SumEmpty
<1>2. ASSUME NEW n \in Nat, n \in T PROVE n + 1 \in T
  <2> SUFFICES ASSUME NEW s, Counted(s), Cardinality(s) = n + 1 PROVE SumFunctionOnSet(f, s) \in Nat
    OBVIOUS
  <2>1. s # {} /\ s \in SUBSET s /\ Summable(f, s)
    BY <1>0, FS_EmptySet
  <2>2. Chosen(s) \in s /\ Cardinality(s \ {Chosen(s)}) = n /\ IsFiniteSet(s \ {Chosen(s)})
    BY OneLess
  <2>3. SumFunctionOnSet(f, s \ {Chosen(s)}) \in Nat /\ f[Chosen(s)] \in Nat
    BY <1>2, <2>2
  <2> QED BY <2>1, <2>3, SumChosen
<1>3. Nat \subseteq T
  <2> HIDE DEF T
  <2> QED BY <1>1, <1>2, Induct
<1>4. ASSUME NEW s, Counted(s) PROVE SumFunctionOnSet(f, s) \in Nat
  <2>1. Cardinality(s) \in Nat
    BY <1>4, FS_CardinalityType
  <2> QED BY <1>3, <1>4, <2>1
<1>5. ASSUME NEW x \in S PROVE f[x] <= SumFunctionOnSet(f, S)
  <2>1. S \ {x} \in SUBSET S
    OBVIOUS
  <2>2. Counted(S \ {x})
    BY <2>1, FS_Subset
  <2>3. SumFunctionOnSet(f, S \ {x}) \in Nat
    BY <1>4, <2>2
  <2>4. SumFunctionOnSet(f, S) = f[x] + SumFunctionOnSet(f, S \ {x}) /\ f[x] \in Nat
    BY <1>0, SumTake
  <2> QED BY <2>3, <2>4
<1> QED BY <1>4, <1>5

\* The sum over one element.
LEMMA SumOne ==
  ASSUME NEW f, NEW x, f[x] \in Int
  PROVE  SumFunctionOnSet(f, {x}) = f[x]
<1>1. Summable(f, {x}) /\ Summable(f, {})
  BY FS_Singleton, FS_EmptySet DEF Summable
<1>2. {x} \ {x} = {}
  OBVIOUS
<1>3. SumFunctionOnSet(f, {x}) = f[x] + SumFunctionOnSet(f, {x} \ {x})
  BY <1>1, SumTake
<1>4. SumFunctionOnSet(f, {x} \ {x}) = 0
  BY <1>2, SumEmpty
<1> QED BY <1>3, <1>4

\* What one element adds to a sum.
Part(f, S, x) == IF x \in S THEN f[x] ELSE 0

\* A sum with one element apart, whether it is there or not.
LEMMA PartOut ==
  ASSUME NEW f, NEW S, Summable(f, S), NEW x
  PROVE  /\ SumFunctionOnSet(f, S) = Part(f, S, x) + SumFunctionOnSet(f, S \ {x})
         /\ Part(f, S, x) \in Int /\ SumFunctionOnSet(f, S \ {x}) \in Int /\ Summable(f, S \ {x})
<1>1. Summable(f, S \ {x}) /\ SumFunctionOnSet(f, S \ {x}) \in Int
  <2>1. Summable(f, S \ {x})
    BY SummableSubset
  <2> QED BY <2>1, SumInt
<1>2. CASE x \in S
  BY <1>1, <1>2, SumTake DEF Part
<1>3. CASE x \notin S
  <2>1. S \ {x} = S
    BY <1>3
  <2>2. Part(f, S, x) = 0
    BY <1>3 DEF Part
  <2>3. SumFunctionOnSet(f, S \ {x}) = SumFunctionOnSet(f, S)
    BY <2>1
  <2> QED BY <1>1, <2>2, <2>3
<1> QED BY <1>2, <1>3

\* A sum with four of its elements apart, those that are there being different.
LEMMA FourOut ==
  ASSUME NEW f, NEW S, Summable(f, S), NEW a, NEW b, NEW d, NEW e,
         a = b \/ a = d \/ a = e => a \notin S, b = d \/ b = e => b \notin S, d = e => d \notin S
  PROVE  /\ SumFunctionOnSet(f, S) = Part(f, S, a) + Part(f, S, b) + Part(f, S, d) + Part(f, S, e) + SumFunctionOnSet(f, S \ {a, b, d, e})
         /\ Part(f, S, a) \in Int /\ Part(f, S, b) \in Int /\ Part(f, S, d) \in Int /\ Part(f, S, e) \in Int
         /\ SumFunctionOnSet(f, S \ {a, b, d, e}) \in Int
<1> DEFINE A == S \ {a}
           B == A \ {b}
           D == B \ {d}
<1>4. /\ SumFunctionOnSet(f, S) = Part(f, S, a) + SumFunctionOnSet(f, A)
      /\ Part(f, S, a) \in Int /\ SumFunctionOnSet(f, A) \in Int /\ Summable(f, A)
  BY PartOut
<1>5. /\ SumFunctionOnSet(f, A) = Part(f, A, b) + SumFunctionOnSet(f, B)
      /\ Part(f, A, b) \in Int /\ SumFunctionOnSet(f, B) \in Int /\ Summable(f, B)
  <2> HIDE DEF A
  <2> QED BY <1>4, PartOut
<1>6. /\ SumFunctionOnSet(f, B) = Part(f, B, d) + SumFunctionOnSet(f, D)
      /\ Part(f, B, d) \in Int /\ SumFunctionOnSet(f, D) \in Int /\ Summable(f, D)
  <2> HIDE DEF A, B
  <2> QED BY <1>5, PartOut
<1>7. /\ SumFunctionOnSet(f, D) = Part(f, D, e) + SumFunctionOnSet(f, D \ {e})
      /\ Part(f, D, e) \in Int /\ SumFunctionOnSet(f, D \ {e}) \in Int
  <2>1. Summable(f, D)
    BY <1>6
  <2> HIDE DEF A, B, D
  <2> QED BY <2>1, PartOut
<1>8. D \ {e} = S \ {a, b, d, e}
  OBVIOUS
<1>9. (b \in A <=> b \in S) /\ (d \in B <=> d \in S) /\ (e \in D <=> e \in S)
  <2>1. b \in A <=> b \in S
    OBVIOUS
  <2>2. d \in B <=> d \in S
    OBVIOUS
  <2>3. e \in D <=> e \in S
    OBVIOUS
  <2> QED BY <2>1, <2>2, <2>3
<1> HIDE DEF A, B, D
<1>10. Part(f, A, b) = Part(f, S, b) /\ Part(f, B, d) = Part(f, S, d) /\ Part(f, D, e) = Part(f, S, e)
  BY <1>9 DEF Part
<1>11. SumFunctionOnSet(f, D \ {e}) = SumFunctionOnSet(f, S \ {a, b, d, e})
  BY <1>8
<1> QED BY <1>4, <1>5, <1>6, <1>7, <1>10, <1>11

\* Two sums: what four elements lose and gain cancels, and the others are as they were.
Cancels(f, S, g, T, a, b, d, e, p, n) ==
  /\ IsFiniteSet(S) /\ IsFiniteSet(T) /\ f \in [S -> Nat] /\ g \in [T -> Nat] /\ p \in Nat /\ n \in Nat
  /\ a = b \/ a = d \/ a = e => a \notin S /\ a \notin T
  /\ b = d \/ b = e => b \notin S /\ b \notin T
  /\ d = e => d \notin S /\ d \notin T
  /\ \A i : i \notin {a, b, d, e} => (i \in S <=> i \in T)
  /\ \A i : i \in S /\ i \notin {a, b, d, e} => f[i] = g[i]
  /\ Part(g, T, a) = Part(f, S, a) + p /\ Part(g, T, d) = Part(f, S, d) - p
  /\ Part(g, T, b) = Part(f, S, b) + n /\ Part(g, T, e) = Part(f, S, e) - n

\* Then the sums are equal.
LEMMA SameCount ==
  ASSUME NEW f, NEW S, NEW g, NEW T, NEW a, NEW b, NEW d, NEW e, NEW p, NEW n,
         Cancels(f, S, g, T, a, b, d, e, p, n)
  PROVE  SumFunctionOnSet(f, S) = SumFunctionOnSet(g, T)
<1> USE DEF Cancels
<1>1. Summable(f, S) /\ Summable(g, T)
  BY DEF Summable
<1>2. /\ SumFunctionOnSet(f, S) = Part(f, S, a) + Part(f, S, b) + Part(f, S, d) + Part(f, S, e) + SumFunctionOnSet(f, S \ {a, b, d, e})
      /\ Part(f, S, a) \in Int /\ Part(f, S, b) \in Int /\ Part(f, S, d) \in Int /\ Part(f, S, e) \in Int
      /\ SumFunctionOnSet(f, S \ {a, b, d, e}) \in Int
  BY <1>1, FourOut
<1>3. /\ SumFunctionOnSet(g, T) = Part(g, T, a) + Part(g, T, b) + Part(g, T, d) + Part(g, T, e) + SumFunctionOnSet(g, T \ {a, b, d, e})
      /\ Part(g, T, a) \in Int /\ Part(g, T, b) \in Int /\ Part(g, T, d) \in Int /\ Part(g, T, e) \in Int
      /\ SumFunctionOnSet(g, T \ {a, b, d, e}) \in Int
  BY <1>1, FourOut
<1>4. S \ {a, b, d, e} = T \ {a, b, d, e}
  OBVIOUS
<1>5. Summable(f, S \ {a, b, d, e})
  BY <1>1, SummableSubset
<1>6. SumFunctionOnSet(f, S \ {a, b, d, e}) = SumFunctionOnSet(g, S \ {a, b, d, e})
  BY <1>5, SumAgree
<1>7. SumFunctionOnSet(g, S \ {a, b, d, e}) = SumFunctionOnSet(g, T \ {a, b, d, e})
  BY <1>4
<1>8. PICK r \in Int : r = SumFunctionOnSet(f, S \ {a, b, d, e}) /\ r = SumFunctionOnSet(g, T \ {a, b, d, e})
  BY <1>2, <1>6, <1>7
<1>9. SumFunctionOnSet(f, S) = Part(f, S, a) + Part(f, S, b) + Part(f, S, d) + Part(f, S, e) + r
  BY <1>2, <1>8
<1>10. SumFunctionOnSet(g, T) = (Part(f, S, a) + p) + (Part(f, S, b) + n) + (Part(f, S, d) - p) + (Part(f, S, e) - n) + r
  BY <1>3, <1>8
<1> QED BY <1>2, <1>9, <1>10

\* The sum of a function with one element apart.
LEMMA TotalTake ==
  ASSUME NEW R, IsFiniteSet(R), NEW f, f = [r \in R |-> f[r]], \A r \in R : f[r] \in Nat, NEW x \in R
  PROVE  /\ SumFunction(f) = f[x] + SumFunctionOnSet(f, R \ {x})
         /\ SumFunctionOnSet(f, R \ {x}) \in Nat /\ f[x] \in Nat /\ SumFunction(f) \in Nat
<1>1. SumFunction(f) = SumFunctionOnSet(f, R)
  BY DEF SumFunction
<1>2. Summable(f, R)
  BY DEF Summable
<1>3. IsFiniteSet(R \ {x})
  BY FS_RemoveElement
<1>4. SumFunctionOnSet(f, R \ {x}) \in Nat
  BY <1>3, SumNat
<1>5. SumFunctionOnSet(f, R) = f[x] + SumFunctionOnSet(f, R \ {x})
  BY <1>2, SumTake
<1> QED BY <1>1, <1>4, <1>5

\* One value is lowered.
LEMMA TotalLowered ==
  ASSUME NEW R, IsFiniteSet(R), NEW x \in R, NEW f \in [R -> Nat], NEW g \in [R -> Nat], NEW n \in Nat,
         f[x] > n, g[x] = f[x] - n, \A r \in R \ {x} : g[r] = f[r]
  PROVE  SumFunction(f) \in Nat /\ SumFunction(f) > n /\ SumFunction(g) = SumFunction(f) - n
<1>1. /\ SumFunction(f) = f[x] + SumFunctionOnSet(f, R \ {x})
      /\ SumFunctionOnSet(f, R \ {x}) \in Nat /\ f[x] \in Nat /\ SumFunction(f) \in Nat
  BY TotalTake
<1>2. /\ SumFunction(g) = g[x] + SumFunctionOnSet(g, R \ {x})
      /\ SumFunctionOnSet(g, R \ {x}) \in Nat /\ g[x] \in Nat /\ SumFunction(g) \in Nat
  BY TotalTake
<1>3. Summable(f, R \ {x})
  <2>1. IsFiniteSet(R \ {x})
    BY FS_RemoveElement
  <2> QED BY <2>1 DEF Summable
<1>4. SumFunctionOnSet(f, R \ {x}) = SumFunctionOnSet(g, R \ {x})
  BY <1>3, SumAgree
<1> QED BY <1>1, <1>2, <1>4

\* One element is dropped.
LEMMA TotalDropped ==
  ASSUME NEW R, IsFiniteSet(R), NEW x \in R, NEW f \in [R -> Nat], NEW g, g = [r \in R \ {x} |-> f[r]]
  PROVE  SumFunction(f) \in Nat /\ SumFunction(g) \in Nat /\ f[x] \in Nat /\ SumFunction(f) = SumFunction(g) + f[x]
<1>1. /\ SumFunction(f) = f[x] + SumFunctionOnSet(f, R \ {x})
      /\ SumFunctionOnSet(f, R \ {x}) \in Nat /\ f[x] \in Nat /\ SumFunction(f) \in Nat
  BY TotalTake
<1>2. Summable(f, R \ {x})
  <2>1. IsFiniteSet(R \ {x})
    BY FS_RemoveElement
  <2> QED BY <2>1 DEF Summable
<1>3. SumFunctionOnSet(f, R \ {x}) = SumFunctionOnSet(g, R \ {x})
  BY <1>2, SumAgree
<1>4. SumFunction(g) = SumFunctionOnSet(g, R \ {x})
  BY DEF SumFunction
<1> QED BY <1>1, <1>3, <1>4

-----------------------------------------------------------------------------
(* Types and homes *)

\* The values the model ranges over: an item row, a row of a bag, what a removal has read and has
\* left to do.
ItemRows == [kind : Kinds, qty : Nat]
BagRows == [chara : Charas, pkg : Packages, id : Nat, slot : Nat]
StoredRows == [retainer : Retainers, id : Nat]
Listings == [retainer : Retainers, id : Nat, price : Prices]
ReadRows == [id : Nat, slot : Nat, qty : Nat]
Removals == [op : {"remove"}, chara : Charas, kind : Goods, left : Nat, clean : BOOLEAN,
             rows : SUBSET ReadRows, due : Nat]

TypeOK ==
  /\ newId \in Nat \ {0}
  /\ items \in [DOMAIN items -> ItemRows] /\ DOMAIN items \subseteq 1..(newId - 1)
  /\ bag \subseteq BagRows /\ stored \subseteq StoredRows /\ bazaar \subseteq Listings
  /\ task \in [Tasks -> {Idle} \cup Removals]

\* The rows of a bag are numbered below the item ids handed out.
SlotsBelow == \A x \in bag : x.slot < newId

\* A character has one row of currency at most, and it is gil.
OneGil == \A x \in bag : x.pkg = "currency" =>
  /\ items[x.id].kind = Gil
  /\ \A y \in bag : y.pkg = "currency" /\ y.chara = x.chara => y = x

HomeInv == OneHome /\ SlotsBelow /\ OneGil

\* What a removal has read is of its character's bag and kind, or gone.
ReadInv == \A t \in Tasks : task[t] # Idle => \A r \in task[t].rows :
  /\ r.id < newId /\ r.slot < newId
  /\ r.id \in DOMAIN items => items[r.id].kind = task[t].kind
  /\ \A x \in stored \cup bazaar : x.id # r.id
  /\ \A x \in bag : x.id = r.id => x.chara = task[t].chara /\ x.pkg = "normal"

\* The constants, by their bounds.
LEMMA Bounds ==
  /\ MaxStack \in Nat \ {0} /\ I32Max \in Nat \ {0} /\ MaxItems \in Nat \ {0}
  /\ \A n \in Amounts : n \in Nat \ {0}
  /\ \A p \in Prices : p \in Nat
  /\ \A d \in GilDeltas : d \in Nat
BY ItemBounds

\* Item rows are finitely many, below the next id, and typed.
LEMMA ItemFacts ==
  ASSUME TypeOK
  PROVE  /\ newId \in Nat \ {0} /\ IsFiniteSet(DOMAIN items)
         /\ \A i \in DOMAIN items : i \in Nat /\ i < newId /\ items[i] \in ItemRows /\ items[i].kind \in Kinds /\ items[i].qty \in Nat
<1>1. newId \in Nat \ {0} /\ DOMAIN items \subseteq 1..(newId - 1) /\ newId - 1 \in Int /\ 1 \in Int
  BY DEF TypeOK
<1>2. IsFiniteSet(1..(newId - 1))
  BY <1>1, FS_Interval
<1>3. DOMAIN items \in SUBSET (1..(newId - 1))
  BY <1>1
<1>4. IsFiniteSet(DOMAIN items)
  BY <1>2, <1>3, FS_Subset
<1>5. \A i \in DOMAIN items : items[i] \in ItemRows
  BY DEF TypeOK
<1> QED BY <1>1, <1>4, <1>5 DEF ItemRows

\* Container rows are as many as there are item rows, so a set of them is finite.
LEMMA RowsFinite ==
  ASSUME TypeOK, OneHome, NEW R \in SUBSET Containers
  PROVE  IsFiniteSet(R)
<1> DEFINE f == [r \in R |-> r.id]
<1>1. f \in [R -> DOMAIN items] /\ \A a, b \in R : f[a] = f[b] => a = b
  BY DEF OneHome
<1>2. f \in Injection(R, DOMAIN items)
  <2> HIDE DEF f
  <2> QED BY <1>1 DEF Injection, IsInjective
<1> QED BY <1>2, ItemFacts, FS_Injection

\* Quantities of rows in a container, and their total.
LEMMA TotalFacts ==
  ASSUME TypeOK, OneHome, NEW R \in SUBSET Containers
  PROVE  /\ IsFiniteSet(R) /\ (\A r \in R : Qty(r) \in Nat)
         /\ Total(R) \in Nat /\ \A r \in R : Qty(r) <= Total(R)
         /\ \A r : R = {r} => Total(R) = Qty(r)
<1>1. IsFiniteSet(R)
  BY RowsFinite
<1>2. \A r \in R : Qty(r) \in Nat
  BY ItemFacts DEF OneHome, Qty
<1> DEFINE f == [r \in R |-> Qty(r)]
<1>3. \A r \in R : f[r] \in Nat /\ f[r] = Qty(r)
  BY <1>2
<1>4. Total(R) = SumFunctionOnSet(f, R)
  BY DEF Total, SumFunction
<1> HIDE DEF f
<1>5. SumFunctionOnSet(f, R) \in Nat /\ \A r \in R : f[r] <= SumFunctionOnSet(f, R)
  BY <1>1, <1>3, SumNat
<1>6. ASSUME NEW r, R = {r} PROVE Total(R) = Qty(r)
  <2>1. f[r] \in Int /\ f[r] = Qty(r)
    BY <1>3, <1>6
  <2>2. SumFunctionOnSet(f, {r}) = f[r]
    BY <2>1, SumOne
  <2> QED BY <1>4, <1>6, <2>1, <2>2
<1> QED BY <1>1, <1>2, <1>3, <1>4, <1>5, <1>6

\* A row put into a bag comes after every row of its package.
LEMMA SlotFacts ==
  ASSUME TypeOK, SlotsBelow, NEW c, NEW pkg
  PROVE  /\ NextSlot(c, pkg) \in Nat /\ NextSlot(c, pkg) <= newId
         /\ \A x \in bag : x.chara = c /\ x.pkg = pkg => x.slot < NextSlot(c, pkg)
<1> DEFINE S == {-1} \cup {r.slot : r \in {x \in bag : x.chara = c /\ x.pkg = pkg}}
<1>1. newId \in Nat \ {0} /\ \A x \in bag : x.slot \in Nat /\ x.slot < newId
  BY DEF TypeOK, SlotsBelow, BagRows
<1>2. S \subseteq Int /\ S # {} /\ (\A s \in S : s <= newId - 1) /\ (\A s \in S : s >= -1)
  BY <1>1
<1>3. newId - 1 \in Int
  BY <1>1
<1>4. Max(S) \in S /\ \A s \in S : s <= Max(S)
  <2> HIDE DEF S
  <2> QED BY <1>2, <1>3, MaxIn
<1>5. NextSlot(c, pkg) = Max(S) + 1
  BY DEF NextSlot
<1>6. \A x \in bag : x.chara = c /\ x.pkg = pkg => x.slot \in S
  OBVIOUS
<1> HIDE DEF S
<1>7. Max(S) \in Int /\ Max(S) >= -1 /\ Max(S) <= newId - 1
  BY <1>2, <1>4
<1> QED BY <1>1, <1>4, <1>5, <1>6, <1>7

\* The rows a step adds to the containers.
Fresh == (bag' \ bag) \cup (stored' \ stored) \cup (bazaar' \ bazaar)

\* The homes stay right when the rows a step adds are for new items, come after the others in
\* their bag, and add no second row of gil, and when no item loses its row while it has a home.
LEMMA HomeStep ==
  ASSUME TypeOK, TypeOK', HomeInv, newId <= newId',
         \A x \in Fresh : x.id >= newId /\ x.id \in DOMAIN items',
         \A x, y \in Fresh : x.id = y.id => x = y,
         \A x \in Containers : x \in Containers' => x.id \in DOMAIN items',
         \A i \in DOMAIN items : i \in DOMAIN items' => items'[i].kind = items[i].kind,
         \A x \in bag' \ bag :
            /\ x.slot < newId'
            /\ \A y \in bag : y.chara = x.chara /\ y.pkg = x.pkg => y.slot # x.slot
            /\ \A y \in bag' \ bag : y.chara = x.chara /\ y.pkg = x.pkg /\ y.slot = x.slot => y = x
            /\ x.pkg = "currency" =>
                 /\ items'[x.id].kind = Gil
                 /\ \A y \in bag : ~(y.pkg = "currency" /\ y.chara = x.chara)
                 /\ \A y \in bag' \ bag : y.pkg = "currency" /\ y.chara = x.chara => y = x
  PROVE  HomeInv'
<1>1. \A x \in Containers : x.id \in DOMAIN items /\ x.id \in Nat /\ x.id < newId
  BY ItemFacts DEF HomeInv, OneHome
<1>2. \A x \in Containers' : x \in Containers \/ x \in Fresh
  BY DEF Containers, Fresh
<1>3. \A x \in Fresh : x.id \in Nat
  BY DEF Fresh, TypeOK, BagRows, StoredRows, Listings
<1>4. newId \in Nat /\ newId' \in Nat
  BY DEF TypeOK
<1>5. \A x \in Containers' : x.id \in DOMAIN items'
  BY <1>2
<1>6. \A x, y \in Containers' : x.id = y.id => x = y
  <2> SUFFICES ASSUME NEW x \in Containers', NEW y \in Containers', x.id = y.id PROVE x = y
    OBVIOUS
  <2>1. CASE x \in Containers /\ y \in Containers
    BY <2>1 DEF HomeInv, OneHome
  <2>2. CASE x \in Fresh /\ y \in Fresh
    BY <2>2
  <2>3. ASSUME NEW a \in Containers, NEW b \in Fresh PROVE a.id # b.id
    <3>1. a.id < newId /\ b.id >= newId /\ a.id \in Nat /\ b.id \in Nat
      BY <1>1, <1>3
    <3> QED BY <1>4, <3>1
  <2> QED BY <1>2, <2>1, <2>2, <2>3
<1>7. ASSUME NEW x \in bag', NEW y \in bag', x.chara = y.chara, x.pkg = y.pkg, x.slot = y.slot PROVE x = y
  <2>1. CASE x \in bag /\ y \in bag
    BY <1>7, <2>1 DEF HomeInv, OneHome
  <2>2. CASE x \notin bag
    BY <1>7, <2>2
  <2>3. CASE y \notin bag
    BY <1>7, <2>3
  <2> QED BY <2>1, <2>2, <2>3
<1>8. OneHome'
  BY <1>5, <1>6, <1>7 DEF OneHome
<1>9. SlotsBelow'
  <2> SUFFICES ASSUME NEW x \in bag' PROVE x.slot < newId'
    BY DEF SlotsBelow
  <2>1. CASE x \in bag
    <3>1. x.slot < newId /\ x.slot \in Nat
      BY <2>1 DEF HomeInv, SlotsBelow, TypeOK, BagRows
    <3> QED BY <1>4, <3>1
  <2> QED BY <2>1
<1>10. OneGil'
  <2> SUFFICES ASSUME NEW x \in bag', x.pkg = "currency"
               PROVE  items'[x.id].kind = Gil /\ \A y \in bag' : y.pkg = "currency" /\ y.chara = x.chara => y = x
    BY DEF OneGil
  <2>1. CASE x \in bag
    <3>1. items[x.id].kind = Gil /\ x.id \in DOMAIN items /\ x.id \in DOMAIN items'
      BY <1>1, <1>5, <2>1 DEF HomeInv, OneGil, Containers
    <3>2. \A y \in bag' : y.pkg = "currency" /\ y.chara = x.chara => y = x
      BY <2>1 DEF HomeInv, OneGil
    <3> QED BY <3>1, <3>2
  <2>2. CASE x \notin bag
    BY <2>2
  <2> QED BY <2>1, <2>2
<1> QED BY <1>8, <1>9, <1>10 DEF HomeInv

-----------------------------------------------------------------------------
(* Tasks, and steps that keep what was read *)

\* A task is idle or in the middle of a removal.
LEMMA TaskFacts ==
  ASSUME TypeOK, NEW t \in Tasks
  PROVE  /\ task[t].op = "remove" <=> task[t] # Idle
         /\ task[t] # Idle => task[t] \in Removals /\ task[t].rows \subseteq ReadRows /\ task[t].left \in Nat
                              /\ task[t].chara \in Charas /\ task[t].kind \in Goods /\ task[t].due \in Nat /\ task[t].clean \in BOOLEAN
<1>1. task[t] = Idle \/ task[t] \in Removals
  BY DEF TypeOK
<1>2. Idle.op = "idle"
  BY DEF Idle
<1>3. ASSUME task[t] \in Removals
      PROVE  task[t].op = "remove" /\ task[t].rows \subseteq ReadRows /\ task[t].left \in Nat
             /\ task[t].chara \in Charas /\ task[t].kind \in Goods /\ task[t].due \in Nat /\ task[t].clean \in BOOLEAN
  BY <1>3 DEF Removals
<1> QED BY <1>1, <1>2, <1>3

\* A step leaves the removals of all tasks but one as they are, but for their history.
Kept(t) ==
  /\ task[t] = Idle <=> task'[t] = Idle
  /\ task[t] # Idle =>
       /\ task'[t].chara = task[t].chara /\ task'[t].kind = task[t].kind /\ task'[t].rows = task[t].rows
       /\ task'[t].left = task[t].left /\ task'[t].due = task[t].due
       /\ task'[t].clean => task[t].clean

\* What contesting the stacks of (c, k) does to every task: it only clears their history.
LEMMA ContestedFacts ==
  ASSUME TypeOK, NEW c, NEW k, NEW but, NEW N, N = Contested(c, k, but)
  PROVE  /\ N \in [Tasks -> {Idle} \cup Removals]
         /\ \A t \in Tasks : /\ task[t] = Idle => N[t] = Idle
                             /\ t \in but => N[t] = task[t]
                             /\ task[t] # Idle =>
                                  /\ N[t] # Idle /\ N[t].chara = task[t].chara /\ N[t].kind = task[t].kind
                                  /\ N[t].rows = task[t].rows /\ N[t].left = task[t].left /\ N[t].due = task[t].due
                                  /\ N[t].clean => task[t].clean /\ (t \in but \/ task[t].chara # c \/ task[t].kind # k)
<1>1. ASSUME NEW t \in Tasks
      PROVE  /\ N[t] \in {Idle} \cup Removals
             /\ task[t] = Idle => N[t] = Idle
             /\ t \in but => N[t] = task[t]
             /\ task[t] # Idle =>
                  /\ N[t] # Idle /\ N[t].chara = task[t].chara /\ N[t].kind = task[t].kind
                  /\ N[t].rows = task[t].rows /\ N[t].left = task[t].left /\ N[t].due = task[t].due
                  /\ N[t].clean => task[t].clean /\ (t \in but \/ task[t].chara # c \/ task[t].kind # k)
  <2>1. N[t] = IF t \notin but /\ task[t].op = "remove" /\ task[t].chara = c /\ task[t].kind = k
               THEN [task[t] EXCEPT !.clean = FALSE] ELSE task[t]
    BY DEF Contested
  <2>2. task[t] \in {Idle} \cup Removals
    BY DEF TypeOK
  <2>3. task[t].op = "remove" <=> task[t] # Idle
    BY TaskFacts
  <2>4. CASE t \notin but /\ task[t].op = "remove" /\ task[t].chara = c /\ task[t].kind = k
    <3>1. PICK s \in Removals : s = task[t]
      BY <2>2, <2>3, <2>4
    <3>2. [s EXCEPT !.clean = FALSE] \in Removals /\ [s EXCEPT !.clean = FALSE].clean = FALSE
          /\ [s EXCEPT !.clean = FALSE].op = "remove"
          /\ [s EXCEPT !.clean = FALSE].chara = s.chara /\ [s EXCEPT !.clean = FALSE].kind = s.kind
          /\ [s EXCEPT !.clean = FALSE].rows = s.rows /\ [s EXCEPT !.clean = FALSE].left = s.left
          /\ [s EXCEPT !.clean = FALSE].due = s.due
      BY DEF Removals
    <3>3. PICK z \in Removals : z = [s EXCEPT !.clean = FALSE]
      BY <3>2
    <3>4. N[t] = z /\ z.op = "remove" /\ z.clean = FALSE /\ z.chara = s.chara /\ z.kind = s.kind /\ z.rows = s.rows
          /\ z.left = s.left /\ z.due = s.due
      BY <2>1, <2>4, <3>1, <3>2, <3>3
    <3>5. z # Idle
      BY <3>4 DEF Idle
    <3> QED BY <2>3, <2>4, <3>1, <3>4, <3>5
  <2>5. CASE ~(t \notin but /\ task[t].op = "remove" /\ task[t].chara = c /\ task[t].kind = k)
    <3>1. N[t] = task[t]
      BY <2>1, <2>5
    <3> QED BY <2>2, <2>3, <2>5, <3>1
  <2> QED BY <2>4, <2>5
<1>2. N = [t \in Tasks |-> N[t]]
  BY DEF Contested
<1> QED BY <1>1, <1>2

\* A write to stacks leaves every removal where it was.
LEMMA ContestedKeeps ==
  ASSUME TypeOK, NEW c, NEW k, task' = Contested(c, k, {})
  PROVE  task' \in [Tasks -> {Idle} \cup Removals] /\ \A t \in Tasks : Kept(t)
<1>1. PICK N : N = Contested(c, k, {})
  OBVIOUS
<1>2. /\ N \in [Tasks -> {Idle} \cup Removals]
      /\ \A t \in Tasks :
                             /\ task[t] = Idle => N[t] = Idle
                             /\ task[t] # Idle =>
                                  /\ N[t] # Idle /\ N[t].chara = task[t].chara /\ N[t].kind = task[t].kind
                                  /\ N[t].rows = task[t].rows /\ N[t].left = task[t].left /\ N[t].due = task[t].due
                                  /\ N[t].clean => task[t].clean
  BY <1>1, ContestedFacts
<1>3. task' = N
  BY <1>1
<1>4. ASSUME NEW t \in Tasks PROVE Kept(t)
  <2>1. task'[t] = N[t]
    BY <1>3
  <2> QED BY <1>2, <2>1, Zenon DEF Kept
<1> QED BY <1>2, <1>3, <1>4

\* What was read stays what it was when ids are not reused and kinds do not change.
LEMMA ReadStep ==
  ASSUME TypeOK, TypeOK', HomeInv, ReadInv, newId <= newId',
         \A x \in Fresh : x.id >= newId,
         \A i \in DOMAIN items' : i < newId => i \in DOMAIN items /\ items'[i].kind = items[i].kind,
         \A t \in Tasks : task'[t] # Idle =>
            /\ task[t] # Idle /\ task'[t].rows \subseteq task[t].rows
            /\ task'[t].chara = task[t].chara /\ task'[t].kind = task[t].kind
  PROVE  ReadInv'
<1> SUFFICES ASSUME NEW t \in Tasks, task'[t] # Idle, NEW r \in task'[t].rows
             PROVE  /\ r.id < newId' /\ r.slot < newId'
                    /\ r.id \in DOMAIN items' => items'[r.id].kind = task'[t].kind
                    /\ \A x \in stored' \cup bazaar' : x.id # r.id
                    /\ \A x \in bag' : x.id = r.id => x.chara = task'[t].chara /\ x.pkg = "normal"
  BY DEF ReadInv
<1>1. task[t] # Idle /\ r \in task[t].rows /\ task'[t].chara = task[t].chara /\ task'[t].kind = task[t].kind
  OBVIOUS
<1>2. r \in ReadRows /\ r.id \in Nat /\ r.slot \in Nat
  BY <1>1, TaskFacts DEF ReadRows
<1>3. /\ r.id < newId /\ r.slot < newId
      /\ r.id \in DOMAIN items => items[r.id].kind = task[t].kind
      /\ \A x \in stored \cup bazaar : x.id # r.id
      /\ \A x \in bag : x.id = r.id => x.chara = task[t].chara /\ x.pkg = "normal"
  BY <1>1 DEF ReadInv
<1>4. newId \in Nat /\ newId' \in Nat /\ \A x \in Fresh : x.id \in Nat
  BY DEF TypeOK, Fresh, BagRows, StoredRows, Listings
<1>5. \A x \in Fresh : x.id # r.id
  BY <1>2, <1>3, <1>4
<1>6. /\ \A x \in stored' \cup bazaar' : x \in stored \cup bazaar \/ x \in Fresh
      /\ \A x \in bag' : x \in bag \/ x \in Fresh
  BY DEF Fresh
<1>7. r.id < newId' /\ r.slot < newId'
  BY <1>2, <1>3, <1>4
<1>8. r.id \in DOMAIN items' => items'[r.id].kind = task'[t].kind
  BY <1>1, <1>3
<1>9. \A x \in stored' \cup bazaar' : x.id # r.id
  BY <1>3, <1>5, <1>6
<1>10. \A x \in bag' : x.id = r.id => x.chara = task'[t].chara /\ x.pkg = "normal"
  BY <1>1, <1>3, <1>5, <1>6
<1> QED BY <1>7, <1>8, <1>9, <1>10

\* A step that keeps every item's id and kind and adds no container row.
LEMMA NoFresh ==
  ASSUME TypeOK, TypeOK', HomeInv, ReadInv, newId' = newId, DOMAIN items' = DOMAIN items,
         \A i \in DOMAIN items : items'[i].kind = items[i].kind,
         bag' \subseteq bag, stored' = stored, bazaar' = bazaar,
         \A t \in Tasks : task'[t] # Idle =>
            /\ task[t] # Idle /\ task'[t].rows \subseteq task[t].rows
            /\ task'[t].chara = task[t].chara /\ task'[t].kind = task[t].kind
  PROVE  HomeInv' /\ ReadInv'
<1>1. Fresh = {} /\ bag' \ bag = {}
  BY DEF Fresh
<1>2. newId <= newId' /\ newId \in Nat
  BY DEF TypeOK
<1>3. \A x \in Containers : x.id \in DOMAIN items'
  BY DEF HomeInv, OneHome
<1>4. HomeInv'
  BY <1>1, <1>2, <1>3, HomeStep
<1>5. ReadInv'
  BY <1>1, <1>2, ReadStep
<1> QED BY <1>4, <1>5

\* A new item row: the others are as they were.
LEMMA InsertFacts ==
  ASSUME TypeOK, NEW k \in Kinds, NEW n \in Nat, Insert(k, n)
  PROVE  /\ newId' = newId + 1 /\ newId' \in Nat \ {0}
         /\ items' \in [DOMAIN items' -> ItemRows] /\ DOMAIN items' \subseteq 1..(newId' - 1)
         /\ DOMAIN items' = DOMAIN items \cup {newId} /\ newId \notin DOMAIN items
         /\ (\A i \in DOMAIN items : items'[i] = items[i])
         /\ items'[newId].kind = k /\ items'[newId].qty = n
<1>1. newId \in Nat \ {0} /\ \A i \in DOMAIN items : i \in Nat /\ i >= 1 /\ i < newId /\ items[i] \in ItemRows
  BY ItemFacts DEF TypeOK
<1>2. newId' = newId + 1 /\ items' = [i \in DOMAIN items \cup {newId} |-> IF i = newId THEN [kind |-> k, qty |-> n] ELSE items[i]]
  BY DEF Insert
<1>3. [kind |-> k, qty |-> n] \in ItemRows
  BY DEF ItemRows
<1>4. newId \notin DOMAIN items
  BY <1>1
<1>5. DOMAIN items' = DOMAIN items \cup {newId} /\ items'[newId] = [kind |-> k, qty |-> n]
  BY <1>2
<1>6. \A i \in DOMAIN items : items'[i] = items[i]
  BY <1>2, <1>4
<1>7. \A i \in DOMAIN items' : items'[i] \in ItemRows
  BY <1>1, <1>3, <1>5, <1>6
<1>8. items' \in [DOMAIN items' -> ItemRows]
  BY <1>2, <1>7
<1>9. DOMAIN items' \subseteq 1..(newId' - 1)
  BY <1>1, <1>2, <1>5
<1> QED BY <1>1, <1>2, <1>4, <1>5, <1>6, <1>8, <1>9

\* Items whose quantities alone change.
LEMMA QtyTypes ==
  ASSUME TypeOK, NEW D, D = DOMAIN items, NEW q \in [D -> Nat], items' = [i \in D |-> [items[i] EXCEPT !.qty = q[i]]]
  PROVE  /\ items' \in [DOMAIN items' -> ItemRows] /\ DOMAIN items' = DOMAIN items
         /\ \A i \in DOMAIN items : items'[i].kind = items[i].kind /\ items'[i].qty = q[i]
<1>1. \A i \in D : items[i] \in ItemRows /\ q[i] \in Nat
  BY ItemFacts
<1>2. \A i \in D : [items[i] EXCEPT !.qty = q[i]] \in ItemRows /\ [items[i] EXCEPT !.qty = q[i]].kind = items[i].kind
                   /\ [items[i] EXCEPT !.qty = q[i]].qty = q[i]
  BY <1>1 DEF ItemRows
<1> QED BY <1>2

\* One item's quantity is set.
LEMMA SetQty ==
  ASSUME TypeOK, NEW j \in DOMAIN items, NEW n \in Nat, items' = [items EXCEPT ![j].qty = n]
  PROVE  /\ items' \in [DOMAIN items' -> ItemRows] /\ DOMAIN items' = DOMAIN items
         /\ \A i \in DOMAIN items : /\ items'[i].kind = items[i].kind
                                    /\ items'[i].qty = IF i = j THEN n ELSE items[i].qty
<1>1. \A i \in DOMAIN items : items[i] \in ItemRows
  BY ItemFacts
<1>2. \A i \in DOMAIN items : items'[i] = IF i = j THEN [items[i] EXCEPT !.qty = n] ELSE items[i]
  BY DEF TypeOK
<1>3. [items[j] EXCEPT !.qty = n] \in ItemRows /\ [items[j] EXCEPT !.qty = n].kind = items[j].kind /\ [items[j] EXCEPT !.qty = n].qty = n
  BY <1>1 DEF ItemRows
<1>4. DOMAIN items' = DOMAIN items
  OBVIOUS
<1>5. \A i \in DOMAIN items : items'[i] \in ItemRows
  BY <1>1, <1>2, <1>3
<1>6. items' \in [DOMAIN items' -> ItemRows]
  BY <1>4, <1>5 DEF TypeOK
<1> QED BY <1>2, <1>3, <1>4, <1>6

-----------------------------------------------------------------------------
(* The invariant of homes, and removals that are exact *)

\* The invariant of the proofs about homes.
Homes == TypeOK /\ HomeInv /\ ReadInv

\* The rows of one kind in one package, when every bag row has its item.
LEMMA RowFacts ==
  ASSUME Homes, NEW c, NEW pkg, NEW k
  PROVE  /\ Rows(c, pkg, k) \in SUBSET bag /\ Rows(c, pkg, k) \in SUBSET Containers
         /\ \A x \in bag : x.id \in DOMAIN items
         /\ \A x : x \in Rows(c, pkg, k) <=> x \in bag /\ x.chara = c /\ x.pkg = pkg /\ items[x.id].kind = k
<1>1. \A x \in bag : x.id \in DOMAIN items
  BY DEF Homes, HomeInv, OneHome, Containers
<1> QED BY <1>1 DEF Rows, Containers

\* A bag row for a new item.
LEMMA BagRowFacts ==
  ASSUME NEW c, NEW pkg, NEW i, NEW s
  PROVE  /\ BagRow(c, pkg, i, s).chara = c /\ BagRow(c, pkg, i, s).pkg = pkg
         /\ BagRow(c, pkg, i, s).id = i /\ BagRow(c, pkg, i, s).slot = s
         /\ c \in Charas /\ pkg \in Packages /\ i \in Nat /\ s \in Nat => BagRow(c, pkg, i, s) \in BagRows
BY DEF BagRow, BagRows

\* The rows of the containers, by their fields.
LEMMA Distinct ==
  ASSUME TypeOK
  PROVE  /\ \A x \in bag, y \in stored \cup bazaar : x # y
         /\ \A x \in stored, y \in bazaar : x # y
<1>1. \A x \in bag : "chara" \in DOMAIN x
  BY DEF TypeOK, BagRows
<1>2. \A y \in stored : "chara" \notin DOMAIN y /\ "price" \notin DOMAIN y
  BY DEF TypeOK, StoredRows
<1>3. \A y \in bazaar : "chara" \notin DOMAIN y /\ "price" \in DOMAIN y
  BY DEF TypeOK, Listings
<1> QED BY <1>1, <1>2, <1>3

\* What a removal reads of the stacks.
Seen(rows) == {[id |-> r.id, slot |-> r.slot, qty |-> Qty(r)] : r \in rows}

\* Each row read stands for a row of the bag, and each row of the bag for a row read.
LEMMA SeenFacts ==
  ASSUME NEW R
  PROVE  /\ \A s \in Seen(R) : \E x \in R : s = [id |-> x.id, slot |-> x.slot, qty |-> Qty(x)]
         /\ \A s \in Seen(R) : \E x \in R : s.id = x.id /\ s.slot = x.slot /\ s.qty = Qty(x)
         /\ \A x \in R : [id |-> x.id, slot |-> x.slot, qty |-> Qty(x)] \in Seen(R)
<1>1. \A s \in Seen(R) : \E x \in R : s = [id |-> x.id, slot |-> x.slot, qty |-> Qty(x)]
  BY DEF Seen
<1>2. \A s \in Seen(R) : \E x \in R : s.id = x.id /\ s.slot = x.slot /\ s.qty = Qty(x)
  <2> TAKE s \in Seen(R)
  <2>1. PICK x \in R : s = [id |-> x.id, slot |-> x.slot, qty |-> Qty(x)]
    BY <1>1
  <2> QED BY <2>1
<1>3. \A x \in R : [id |-> x.id, slot |-> x.slot, qty |-> Qty(x)] \in Seen(R)
  BY DEF Seen
<1> QED BY <1>1, <1>2, <1>3

\* An undisturbed removal sees the stacks as they are, and what is to be left is what is there less
\* what it has still to take.
Exact(t, c, k) ==
  /\ task[t].left > 0 => task[t].rows = Seen(Rows(c, "normal", k))
  /\ task[t].due = Max({0, Total(Rows(c, "normal", k)) - task[t].left})
ExactInv == \A t \in Tasks, c \in Charas, k \in Goods :
  task[t] # Idle /\ task[t].clean /\ task[t].chara = c /\ task[t].kind = k => Exact(t, c, k)

\* The stacks of one kind in one bag are what they were.
RowsKept(c, k) ==
  /\ Rows(c, "normal", k)' = Rows(c, "normal", k)
  /\ \A r \in Rows(c, "normal", k) : items'[r.id].qty = items[r.id].qty

\* A step that moves no row into or out of the stacks, and changes no quantity there, keeps them.
LEMMA SameRows ==
  ASSUME Homes, Homes', NEW c, NEW k,
         \A x \in bag : x.pkg = "normal" /\ x.chara = c /\ items[x.id].kind = k =>
             x \in bag' /\ items'[x.id].kind = k /\ items'[x.id].qty = items[x.id].qty,
         \A x \in bag' : x.pkg = "normal" /\ x.chara = c /\ items'[x.id].kind = k => x \in bag /\ items[x.id].kind = k
  PROVE  RowsKept(c, k)
<1>1. /\ \A x : x \in Rows(c, "normal", k) <=> x \in bag /\ x.chara = c /\ x.pkg = "normal" /\ items[x.id].kind = k
      /\ \A x \in bag : x.id \in DOMAIN items
  BY RowFacts
<1>2. \A x \in bag' : x.id \in DOMAIN items'
  BY DEF Homes, HomeInv, OneHome, Containers
<1>3. \A x : x \in Rows(c, "normal", k)' <=> x \in bag' /\ x.chara = c /\ x.pkg = "normal" /\ items'[x.id].kind = k
  BY <1>2 DEF Rows
<1>4. \A x : x \in Rows(c, "normal", k)' <=> x \in Rows(c, "normal", k)
  BY <1>1, <1>3
<1>5. Rows(c, "normal", k)' = Rows(c, "normal", k)
  BY <1>4 DEF Rows
<1> QED BY <1>1, <1>5 DEF RowsKept

\* Stacks that are kept look the same and have the same total.
LEMMA SameTotal ==
  ASSUME NEW c, NEW k, RowsKept(c, k)
  PROVE  /\ Seen(Rows(c, "normal", k))' = Seen(Rows(c, "normal", k))
         /\ Total(Rows(c, "normal", k))' = Total(Rows(c, "normal", k))
<1>1. PICK R : R = Rows(c, "normal", k)
  OBVIOUS
<1>2. Rows(c, "normal", k)' = R /\ \A r \in R : items'[r.id].qty = items[r.id].qty
  BY <1>1 DEF RowsKept
<1>3. {[id |-> r.id, slot |-> r.slot, qty |-> items'[r.id].qty] : r \in R} = {[id |-> r.id, slot |-> r.slot, qty |-> items[r.id].qty] : r \in R}
  BY <1>2
<1>4. [r \in R |-> items'[r.id].qty] = [r \in R |-> items[r.id].qty]
  BY <1>2
<1>5. Seen(Rows(c, "normal", k)) = {[id |-> r.id, slot |-> r.slot, qty |-> items[r.id].qty] : r \in R}
      /\ Seen(Rows(c, "normal", k))' = {[id |-> r.id, slot |-> r.slot, qty |-> items'[r.id].qty] : r \in R}
  BY <1>1, <1>2 DEF Seen, Qty
<1>6. Total(Rows(c, "normal", k)) = SumFunction([r \in R |-> items[r.id].qty])
      /\ Total(Rows(c, "normal", k))' = SumFunction([r \in R |-> items'[r.id].qty])
  BY <1>1, <1>2 DEF Total, Qty
<1> QED BY <1>3, <1>4, <1>5, <1>6

\* The removals whose stacks are kept stay exact.
LEMMA ExactStep ==
  ASSUME Homes, Homes', ExactInv,
         \A t \in Tasks : task'[t] # Idle /\ task'[t].clean =>
            Kept(t) /\ RowsKept(task[t].chara, task[t].kind)
  PROVE  ExactInv'
<1> SUFFICES ASSUME NEW t \in Tasks, NEW c \in Charas, NEW k \in Goods, task'[t] # Idle, task'[t].clean,
                    task'[t].chara = c, task'[t].kind = k
             PROVE  Exact(t, c, k)'
  BY DEF ExactInv
<1>1. Kept(t) /\ RowsKept(task[t].chara, task[t].kind)
  OBVIOUS
<1>2. /\ task[t].chara = c /\ task[t].kind = k /\ task'[t].rows = task[t].rows
      /\ task'[t].left = task[t].left /\ task'[t].due = task[t].due /\ task[t] # Idle /\ task[t].clean
  BY <1>1, Zenon DEF Kept
<1>3. Exact(t, c, k)
  BY <1>2 DEF ExactInv
<1>4. /\ Seen(Rows(c, "normal", k))' = Seen(Rows(c, "normal", k))
      /\ Total(Rows(c, "normal", k))' = Total(Rows(c, "normal", k))
  BY <1>1, <1>2, SameTotal
<1> QED BY <1>2, <1>3, <1>4 DEF Exact

\* A step that changes no stack of goods.
LEMMA ExactElsewhere ==
  ASSUME Homes, Homes', ExactInv, UNCHANGED task, bag \subseteq bag', \A x \in bag' \ bag : x.pkg # "normal",
         \A x \in bag : x.pkg = "normal" => items'[x.id].kind = items[x.id].kind /\ items'[x.id].qty = items[x.id].qty
  PROVE  ExactInv'
<1>1. ASSUME NEW c, NEW k PROVE RowsKept(c, k)
  BY SameRows
<1>2. \A t \in Tasks : task'[t] # Idle /\ task'[t].clean => Kept(t) /\ RowsKept(task[t].chara, task[t].kind)
  BY <1>1 DEF Kept
<1> QED BY <1>2, ExactStep

-----------------------------------------------------------------------------
(* Grants and listings *)

\* A new key item or gil row.
LEMMA InsertInBag ==
  ASSUME Homes, NEW c \in Charas, NEW pkg \in Packages, NEW k \in Kinds, NEW n \in Nat, NEW s \in Nat, s <= newId,
         Insert(k, n), bag' = bag \cup {BagRow(c, pkg, newId, s)}, UNCHANGED <<stored, bazaar, task>>,
         \A y \in bag : y.chara = c /\ y.pkg = pkg => y.slot # s,
         pkg # "normal", pkg = "currency" => k = Gil /\ \A y \in bag : ~(y.chara = c /\ y.pkg = "currency")
  PROVE  Homes' /\ (ExactInv => ExactInv')
<1>1. TypeOK /\ HomeInv /\ ReadInv
  BY DEF Homes
<1>2. /\ newId' = newId + 1 /\ newId' \in Nat \ {0}
      /\ items' \in [DOMAIN items' -> ItemRows] /\ DOMAIN items' \subseteq 1..(newId' - 1)
      /\ DOMAIN items' = DOMAIN items \cup {newId} /\ newId \notin DOMAIN items
      /\ (\A i \in DOMAIN items : items'[i] = items[i])
      /\ items'[newId].kind = k /\ items'[newId].qty = n
  BY <1>1, InsertFacts
<1>3. newId \in Nat \ {0}
  BY <1>1 DEF TypeOK
<1>4. PICK b : b = BagRow(c, pkg, newId, s)
  OBVIOUS
<1>5. b \in BagRows /\ b.chara = c /\ b.pkg = pkg /\ b.id = newId /\ b.slot = s
  BY <1>3, <1>4, BagRowFacts
<1>6. bag' = bag \cup {b}
  BY <1>4
<1>7. TypeOK'
  BY <1>1, <1>2, <1>5, <1>6 DEF TypeOK
<1>8. bag' \ bag \subseteq {b} /\ Fresh \subseteq {b}
  BY <1>6 DEF Fresh
<1>9. \A x \in Containers : x.id \in DOMAIN items
  BY <1>1 DEF HomeInv, OneHome
<1>10. \A x \in bag' \ bag :
            /\ x.slot < newId'
            /\ \A y \in bag : y.chara = x.chara /\ y.pkg = x.pkg => y.slot # x.slot
            /\ \A y \in bag' \ bag : y.chara = x.chara /\ y.pkg = x.pkg /\ y.slot = x.slot => y = x
            /\ x.pkg = "currency" =>
                 /\ items'[x.id].kind = Gil
                 /\ \A y \in bag : ~(y.pkg = "currency" /\ y.chara = x.chara)
                 /\ \A y \in bag' \ bag : y.pkg = "currency" /\ y.chara = x.chara => y = x
  BY <1>2, <1>3, <1>5, <1>8
<1>11. newId <= newId' /\ \A x \in Fresh : x.id >= newId /\ x.id \in DOMAIN items'
  BY <1>2, <1>3, <1>5, <1>8
<1>12. (\A x, y \in Fresh : x.id = y.id => x = y) /\ (\A x \in Containers : x.id \in DOMAIN items')
       /\ \A i \in DOMAIN items : i \in DOMAIN items' /\ items'[i].kind = items[i].kind
  BY <1>2, <1>8, <1>9
<1>13. HomeInv'
  BY <1>1, <1>7, <1>10, <1>11, <1>12, HomeStep
<1>14. \A i \in DOMAIN items' : i < newId => i \in DOMAIN items /\ items'[i].kind = items[i].kind
  BY <1>2, <1>3
<1>15. ReadInv'
  BY <1>1, <1>7, <1>11, <1>14, ReadStep
<1>16. Homes'
  BY <1>7, <1>13, <1>15 DEF Homes
<1>17. bag \subseteq bag' /\ (\A x \in bag' \ bag : x.pkg # "normal")
       /\ \A x \in bag : items'[x.id].kind = items[x.id].kind /\ items'[x.id].qty = items[x.id].qty
  BY <1>2, <1>5, <1>8, <1>9 DEF Containers
<1> QED BY <1>16, <1>17, ExactElsewhere

\* A row of a retainer, or a listing, for a new item.
LEMMA InsertElsewhere ==
  ASSUME Homes, NEW k \in Kinds, NEW n \in Nat, NEW z, z.id = newId, Insert(k, n), UNCHANGED <<bag, task>>,
         \/ z \in StoredRows /\ stored' = stored \cup {z} /\ bazaar' = bazaar
         \/ z \in Listings /\ bazaar' = bazaar \cup {z} /\ stored' = stored
  PROVE  Homes' /\ (ExactInv => ExactInv')
<1>1. TypeOK /\ HomeInv /\ ReadInv
  BY DEF Homes
<1>2. /\ newId' = newId + 1 /\ newId' \in Nat \ {0}
      /\ items' \in [DOMAIN items' -> ItemRows] /\ DOMAIN items' \subseteq 1..(newId' - 1)
      /\ DOMAIN items' = DOMAIN items \cup {newId} /\ newId \notin DOMAIN items
      /\ (\A i \in DOMAIN items : items'[i] = items[i])
      /\ items'[newId].kind = k /\ items'[newId].qty = n
  BY <1>1, InsertFacts
<1>3. newId \in Nat \ {0}
  BY <1>1 DEF TypeOK
<1>7. TypeOK'
  BY <1>1, <1>2 DEF TypeOK
<1>8. bag' \ bag = {} /\ Fresh \subseteq {z}
  BY DEF Fresh
<1>9. \A x \in Containers : x.id \in DOMAIN items
  BY <1>1 DEF HomeInv, OneHome
<1>11. newId <= newId' /\ \A x \in Fresh : x.id >= newId /\ x.id \in DOMAIN items'
  BY <1>2, <1>3, <1>8
<1>12. (\A x, y \in Fresh : x.id = y.id => x = y) /\ (\A x \in Containers : x.id \in DOMAIN items')
       /\ \A i \in DOMAIN items : i \in DOMAIN items' /\ items'[i].kind = items[i].kind
  BY <1>2, <1>8, <1>9
<1>13. HomeInv'
  BY <1>1, <1>7, <1>8, <1>11, <1>12, HomeStep
<1>14. \A i \in DOMAIN items' : i < newId => i \in DOMAIN items /\ items'[i].kind = items[i].kind
  BY <1>2, <1>3
<1>15. ReadInv'
  BY <1>1, <1>7, <1>11, <1>14, ReadStep
<1>16. Homes'
  BY <1>7, <1>13, <1>15 DEF Homes
<1>17. bag \subseteq bag' /\ (\A x \in bag' \ bag : x.pkg # "normal")
       /\ \A x \in bag : items'[x.id].kind = items[x.id].kind /\ items'[x.id].qty = items[x.id].qty
  BY <1>2, <1>8, <1>9 DEF Containers
<1> QED BY <1>16, <1>17, ExactElsewhere

\* A new quantity for one item.
LEMMA Requantified ==
  ASSUME Homes, NEW j \in DOMAIN items, NEW n \in Nat, items' = [items EXCEPT ![j].qty = n],
         UNCHANGED <<newId, bag, stored, bazaar, task>>,
         \A x \in bag : x.pkg = "normal" => x.id # j
  PROVE  Homes' /\ (ExactInv => ExactInv')
<1>1. TypeOK /\ HomeInv /\ ReadInv
  BY DEF Homes
<1>2. /\ items' \in [DOMAIN items' -> ItemRows] /\ DOMAIN items' = DOMAIN items
      /\ \A i \in DOMAIN items : items'[i].kind = items[i].kind /\ (i # j => items'[i].qty = items[i].qty)
  BY <1>1, SetQty
<1>3. TypeOK'
  BY <1>1, <1>2 DEF TypeOK
<1>4. HomeInv' /\ ReadInv'
  BY <1>1, <1>2, <1>3, NoFresh
<1>5. Homes'
  BY <1>3, <1>4 DEF Homes
<1>6. \A x \in bag : x.pkg = "normal" => items'[x.id].kind = items[x.id].kind /\ items'[x.id].qty = items[x.id].qty
  BY <1>2, RowFacts
<1> QED BY <1>5, <1>6, ExactElsewhere

\* Saturation keeps numbers and keeps them from falling below zero.
LEMMA SaturatedNat == \A n \in Int : Saturated(n) \in Int /\ (n \in Nat => Saturated(n) \in Nat)
BY Bounds DEF Saturated

\* One row that is not of the stacks is topped up.
LEMMA Topped ==
  ASSUME Homes, NEW j \in DOMAIN items, NEW n \in Nat, AddQty(j, n), UNCHANGED <<bag, stored, bazaar, task>>,
         \A x \in bag : x.pkg = "normal" => x.id # j
  PROVE  Homes' /\ (ExactInv => ExactInv')
<1>1. items[j].qty \in Nat
  BY ItemFacts DEF Homes
<1>2. Saturated(items[j].qty + n) \in Nat
  BY <1>1, SaturatedNat
<1>3. PICK m \in Nat : m = Saturated(items[j].qty + n)
  BY <1>2
<1>4. items' = [items EXCEPT ![j].qty = m]
  BY <1>3 DEF AddQty
<1> QED BY <1>4, Requantified DEF AddQty

\* add_key_item.
LEMMA HomeKeyItem ==
  ASSUME Homes, NEW c \in Charas, NEW k \in KeyItems, AddKeyItem(c, k)
  PROVE  Homes' /\ (ExactInv => ExactInv')
<1>1. NextSlot(c, "key") \in Nat /\ NextSlot(c, "key") <= newId
      /\ \A x \in bag : x.chara = c /\ x.pkg = "key" => x.slot < NextSlot(c, "key")
  BY SlotFacts DEF Homes, HomeInv
<1>2. \A x \in bag : x.slot \in Nat
  BY DEF Homes, TypeOK, BagRows
<1>3. \A x \in bag : x.chara = c /\ x.pkg = "key" => x.slot # NextSlot(c, "key")
  BY <1>1, <1>2
<1>4. PICK s \in Nat : s = NextSlot(c, "key")
  BY <1>1
<1>5. Insert(k, 1) /\ bag' = bag \cup {BagRow(c, "key", newId, s)} /\ UNCHANGED <<stored, bazaar, task>>
  BY <1>4 DEF AddKeyItem
<1>6. k \in Kinds /\ "key" \in Packages /\ 1 \in Nat /\ s <= newId /\ \A x \in bag : x.chara = c /\ x.pkg = "key" => x.slot # s
  BY <1>1, <1>3, <1>4 DEF Kinds, Packages
<1> QED BY <1>5, <1>6, InsertInBag

\* add_gil, for an amount added or taken.
LEMMA HomeGil ==
  ASSUME Homes, NEW c \in Charas, NEW d \in Int, AddGil(c, d)
  PROVE  Homes' /\ (ExactInv => ExactInv')
<1>1. UNCHANGED <<stored, bazaar, task>>
  BY DEF AddGil
<1>2. ASSUME NEW r \in Rows(c, "currency", Gil), items' = [items EXCEPT ![r.id].qty = Max({0, Saturated(@ + d)})],
             UNCHANGED <<newId, bag>>
      PROVE  Homes' /\ (ExactInv => ExactInv')
  <2>1. r.id \in DOMAIN items
    BY RowFacts
  <2>2. items[r.id].qty \in Nat
    BY <2>1, ItemFacts DEF Homes
  <2>3. Saturated(items[r.id].qty + d) \in Int
    BY <2>2, SaturatedNat
  <2>4. Max({0, Saturated(items[r.id].qty + d)}) \in Nat
    BY <2>3, MaxOfTwo
  <2>5. PICK m \in Nat : m = Max({0, Saturated(items[r.id].qty + d)})
    BY <2>4
  <2>6. items' = [items EXCEPT ![r.id].qty = m]
    BY <1>2, <2>5
  <2>7. r \in bag /\ r.pkg = "currency"
    BY RowFacts
  <2>8. \A x \in bag : x.pkg = "normal" => x.id # r.id
    BY <2>7 DEF Homes, HomeInv, OneHome, Containers
  <2> QED BY <1>1, <1>2, <2>1, <2>6, <2>8, Requantified
<1>3. ASSUME Rows(c, "currency", Gil) = {}, Insert(Gil, Max({0, d})), bag' = bag \cup {BagRow(c, "currency", newId, 0)}
      PROVE  Homes' /\ (ExactInv => ExactInv')
  <2>1. \A y \in bag : ~(y.chara = c /\ y.pkg = "currency")
    BY <1>3, RowFacts DEF Homes, HomeInv, OneGil
  <2>2. Max({0, d}) \in Nat
    BY MaxOfTwo
  <2>3. PICK m \in Nat : m = Max({0, d})
    BY <2>2
  <2>4. Gil \in Kinds /\ "currency" \in Packages /\ 0 \in Nat /\ 0 <= newId
    BY DEF Kinds, Packages, Homes, TypeOK
  <2>5. Insert(Gil, m)
    BY <1>3, <2>3
  <2> QED BY <1>1, <1>3, <2>1, <2>4, <2>5, InsertInBag
<1> QED BY <1>2, <1>3 DEF AddGil

\* add_retainer_inventory_item.
LEMMA HomeStored ==
  ASSUME Homes, NEW r \in Retainers, NEW k \in Goods, NEW n \in Nat, AddItemToRetainer(r, k, n)
  PROVE  Homes' /\ (ExactInv => ExactInv')
<1>1. UNCHANGED <<bag, bazaar, task>>
  BY DEF AddItemToRetainer
<1>2. ASSUME NEW x \in stored, AddQty(x.id, n), UNCHANGED stored PROVE Homes' /\ (ExactInv => ExactInv')
  <2>1. x.id \in DOMAIN items
    BY DEF Homes, HomeInv, OneHome, Containers
  <2>2. \A y \in bag : y # x
    BY Distinct DEF Homes
  <2>3. \A y \in bag : y.id # x.id
    BY <2>2 DEF Homes, HomeInv, OneHome, Containers
  <2> QED BY <1>1, <1>2, <2>1, <2>3, Topped
<1>3. ASSUME Insert(k, n), stored' = stored \cup {[retainer |-> r, id |-> newId]} PROVE Homes' /\ (ExactInv => ExactInv')
  <2>1. PICK z : z = [retainer |-> r, id |-> newId]
    OBVIOUS
  <2>2. z.id = newId /\ z \in StoredRows /\ k \in Kinds
    BY <2>1 DEF StoredRows, Kinds, Homes, TypeOK
  <2> QED BY <1>1, <1>3, <2>1, <2>2, InsertElsewhere
<1> QED BY <1>2, <1>3 DEF AddItemToRetainer

\* add_retainer_bazaar_item.
LEMMA HomeListed ==
  ASSUME Homes, NEW r \in Retainers, NEW k \in Goods, NEW n \in Nat, NEW p \in Prices, AddRetainerBazaarItem(r, k, n, p)
  PROVE  Homes' /\ (ExactInv => ExactInv')
<1>1. UNCHANGED <<bag, stored, task>>
  BY DEF AddRetainerBazaarItem
<1>2. ASSUME NEW x \in bazaar, AddQty(x.id, n), UNCHANGED bazaar PROVE Homes' /\ (ExactInv => ExactInv')
  <2>1. x.id \in DOMAIN items
    BY DEF Homes, HomeInv, OneHome, Containers
  <2>2. \A y \in bag : y # x
    BY Distinct DEF Homes
  <2>3. \A y \in bag : y.id # x.id
    BY <2>2 DEF Homes, HomeInv, OneHome, Containers
  <2> QED BY <1>1, <1>2, <2>1, <2>3, Topped
<1>3. ASSUME Insert(k, n), bazaar' = bazaar \cup {[retainer |-> r, id |-> newId, price |-> p]} PROVE Homes' /\ (ExactInv => ExactInv')
  <2>1. PICK z : z = [retainer |-> r, id |-> newId, price |-> p]
    OBVIOUS
  <2>2. z.id = newId /\ z \in Listings /\ k \in Kinds
    BY <2>1 DEF Listings, Kinds, Homes, TypeOK
  <2> QED BY <1>1, <1>3, <2>1, <2>2, InsertElsewhere
<1> QED BY <1>2, <1>3 DEF AddRetainerBazaarItem

-----------------------------------------------------------------------------
(* Removals *)

\* The row a removal takes next is one of those it read.
LEMMA LastIn ==
  ASSUME Homes, NEW t \in Tasks, task[t] # Idle, task[t].rows # {}
  PROVE  LastOf(task[t].rows) \in task[t].rows
<1> DEFINE S == {x.slot : x \in task[t].rows}
<1>1. newId \in Int /\ \A x \in task[t].rows : x.slot \in Int /\ x.slot <= newId
  <2>1. newId \in Nat /\ task[t].rows \subseteq ReadRows
    BY TaskFacts DEF Homes, TypeOK
  <2>2. \A x \in task[t].rows : x.slot < newId
    BY DEF Homes, ReadInv
  <2> QED BY <2>1, <2>2 DEF ReadRows
<1>2. S \subseteq Int /\ (\A s \in S : s <= newId) /\ S # {}
  BY <1>1
<1>3. Max(S) \in S /\ \A s \in S : s <= Max(S)
  <2> HIDE DEF S
  <2> QED BY <1>1, <1>2, MaxIn
<1>4. PICK r \in task[t].rows : r.slot = Max(S)
  BY <1>3
<1>5. \A x \in task[t].rows : x.slot \in S
  OBVIOUS
<1>6. \A x \in task[t].rows : x.slot <= r.slot
  BY <1>3, <1>4, <1>5
<1> QED BY <1>6 DEF LastOf

\* A removal that has dealt with one of its rows.
Dealt(N, t, m, r) == [N EXCEPT ![t].left = m, ![t].rows = @ \ {r}]

\* Only the task's own removal changes.
LEMMA DealtWith ==
  ASSUME NEW N \in [Tasks -> {Idle} \cup Removals], NEW t \in Tasks, N[t] # Idle, NEW m \in Nat, NEW r,
         NEW M, M = Dealt(N, t, m, r)
  PROVE  /\ M \in [Tasks -> {Idle} \cup Removals] /\ \A u \in Tasks \ {t} : M[u] = N[u]
         /\ M[t] # Idle /\ M[t].op = "remove" /\ M[t].left = m /\ M[t].rows = N[t].rows \ {r} /\ M[t].chara = N[t].chara
         /\ M[t].kind = N[t].kind /\ M[t].due = N[t].due /\ M[t].clean = N[t].clean
<1>1. PICK s \in Removals : s = N[t]
  OBVIOUS
<1>2. s.rows \in SUBSET ReadRows
  BY DEF Removals
<1>3. PICK z : z = [s EXCEPT !.left = m, !.rows = @ \ {r}]
  OBVIOUS
<1> USE DEF Dealt
<1>4. z \in Removals /\ z.op = "remove" /\ z.left = m /\ z.rows = s.rows \ {r} /\ z.chara = s.chara /\ z.kind = s.kind /\ z.due = s.due
      /\ z.clean = s.clean
  BY <1>2, <1>3 DEF Removals
<1>5. z # Idle
  BY <1>4 DEF Idle
<1>6. M[t] = z /\ \A u \in Tasks \ {t} : M[u] = N[u]
  BY <1>1, <1>3
<1>7. M = [u \in Tasks |-> M[u]]
  OBVIOUS
<1>8. M \in [Tasks -> {Idle} \cup Removals]
  BY <1>4, <1>6, <1>7
<1> QED BY <1>1, <1>4, <1>5, <1>6, <1>8

\* A step of a removal: what becomes of its task, and either its row's quantity is written or its
\* row leaves the bag.
RemoveView(t, r) ==
  /\ task[t] # Idle /\ task[t].left > 0 /\ r \in task[t].rows
  /\ task' \in [Tasks -> {Idle} \cup Removals]
  /\ task'[t] # Idle /\ task'[t].rows = task[t].rows \ {r} /\ task'[t].chara = task[t].chara /\ task'[t].kind = task[t].kind
  /\ task'[t].due = task[t].due /\ task'[t].clean = task[t].clean
  /\ \A u \in Tasks \ {t} : Kept(u) /\ (task'[u] # Idle /\ task'[u].clean => task[u].chara # task[t].chara \/ task[u].kind # task[t].kind)
  /\ UNCHANGED <<newId, stored, bazaar, hired>>

\* The two ways.
Writes(t, r) ==
  /\ r.qty > task[t].left
  /\ task'[t].left = 0
  /\ items' = IF r.id \in DOMAIN items THEN [items EXCEPT ![r.id].qty = r.qty - task[t].left] ELSE items
  /\ UNCHANGED bag
Drops(t, r) ==
  /\ r.qty <= task[t].left
  /\ task'[t].left = task[t].left - r.qty
  /\ bag' = {x \in bag : ~(x.chara = task[t].chara /\ x.id = r.id)}
  /\ UNCHANGED items

\* The step of a removal, read off the action.
LEMMA RemoveFacts ==
  ASSUME Homes, NEW t \in Tasks, RemoveRow(t)
  PROVE  \E r : RemoveView(t, r) /\ (Writes(t, r) \/ Drops(t, r))
<1>1. TypeOK /\ task[t] # Idle /\ task[t].left > 0 /\ task[t].rows # {}
  BY TaskFacts DEF Homes, RemoveRow
<1>2. PICK r : r = LastOf(task[t].rows)
  OBVIOUS
<1>3. r \in task[t].rows /\ task[t].rows \subseteq ReadRows /\ task[t].left \in Nat
  BY <1>1, <1>2, LastIn, TaskFacts
<1>4. r.qty \in Nat
  BY <1>3 DEF ReadRows
<1>5. PICK N : N = Contested(task[t].chara, task[t].kind, {t})
  OBVIOUS
<1>6. /\ N \in [Tasks -> {Idle} \cup Removals] /\ N[t] = task[t] /\ N[t] # Idle
      /\ \A u \in Tasks \ {t} :
            /\ task[u] = Idle => N[u] = Idle
            /\ task[u] # Idle =>
                  /\ N[u] # Idle /\ N[u].chara = task[u].chara /\ N[u].kind = task[u].kind
                  /\ N[u].rows = task[u].rows /\ N[u].left = task[u].left /\ N[u].due = task[u].due
                  /\ N[u].clean => task[u].clean /\ (task[u].chara # task[t].chara \/ task[u].kind # task[t].kind)
  BY <1>1, <1>5, ContestedFacts
<1>7. PICK m \in Nat :
        /\ task' = [N EXCEPT ![t].left = m, ![t].rows = @ \ {r}]
        /\ UNCHANGED <<newId, stored, bazaar, hired>>
        /\ \/ /\ r.qty > task[t].left /\ m = 0 /\ UNCHANGED bag
              /\ items' = IF r.id \in DOMAIN items THEN [items EXCEPT ![r.id].qty = r.qty - task[t].left] ELSE items
           \/ /\ r.qty <= task[t].left /\ m = task[t].left - r.qty
              /\ bag' = {x \in bag : ~(x.chara = task[t].chara /\ x.id = r.id)}
              /\ UNCHANGED items
  <2>1. UNCHANGED <<newId, stored, bazaar, hired>>
    BY DEF RemoveRow
  <2>2. CASE /\ r.qty > task[t].left
             /\ items' = IF r.id \in DOMAIN items THEN [items EXCEPT ![r.id].qty = r.qty - task[t].left] ELSE items
             /\ task' = [N EXCEPT ![t].left = 0, ![t].rows = @ \ {r}]
             /\ UNCHANGED bag
    BY <2>1, <2>2
  <2>3. CASE /\ r.qty <= task[t].left
             /\ bag' = {x \in bag : ~(x.chara = task[t].chara /\ x.id = r.id)}
             /\ task' = [N EXCEPT ![t].left = @ - r.qty, ![t].rows = @ \ {r}]
             /\ UNCHANGED items
    <3>1. PICK m \in Nat : m = task[t].left - r.qty
      BY <1>3, <1>4, <2>3
    <3>2. [N EXCEPT ![t].left = @ - r.qty, ![t].rows = @ \ {r}] = [N EXCEPT ![t].left = m, ![t].rows = @ \ {r}]
      BY <1>6, <3>1
    <3> QED BY <2>1, <2>3, <3>1, <3>2
  <2> QED BY <1>2, <1>5, <2>2, <2>3 DEF RemoveRow
<1>8. PICK M : M = task'
  OBVIOUS
<1>9. /\ M \in [Tasks -> {Idle} \cup Removals] /\ \A u \in Tasks \ {t} : M[u] = N[u]
      /\ M[t] # Idle /\ M[t].left = m /\ M[t].rows = N[t].rows \ {r} /\ M[t].chara = N[t].chara
      /\ M[t].kind = N[t].kind /\ M[t].due = N[t].due /\ M[t].clean = N[t].clean
  <2>1. M = Dealt(N, t, m, r)
    BY <1>7, <1>8, Zenon DEF Dealt
  <2>2. N \in [Tasks -> {Idle} \cup Removals] /\ N[t] # Idle
    BY <1>6, Zenon
  <2> QED BY <2>1, <2>2, DealtWith
<1>10. ASSUME NEW u \in Tasks \ {t}
       PROVE  Kept(u) /\ (task'[u] # Idle /\ task'[u].clean => task[u].chara # task[t].chara \/ task[u].kind # task[t].kind)
  <2>1. task'[u] = N[u]
    BY <1>8, <1>9
  <2> QED BY <1>6, <2>1, Zenon DEF Kept
<1>11. RemoveView(t, r)
  <2>1. /\ task'[t] = M[t] /\ M[t] # Idle /\ M[t].rows = task[t].rows \ {r} /\ M[t].chara = task[t].chara
        /\ M[t].kind = task[t].kind /\ M[t].due = task[t].due /\ M[t].clean = task[t].clean
    BY <1>6, <1>8, <1>9, Zenon
  <2>2. /\ task'[t] # Idle /\ task'[t].rows = task[t].rows \ {r} /\ task'[t].chara = task[t].chara
        /\ task'[t].kind = task[t].kind /\ task'[t].due = task[t].due /\ task'[t].clean = task[t].clean
    BY <2>1, Zenon
  <2>3. task' \in [Tasks -> {Idle} \cup Removals]
    BY <1>8, <1>9
  <2> QED BY <1>1, <1>3, <1>7, <1>10, <2>2, <2>3, Zenon DEF RemoveView
<1>12. task'[t].left = m
  BY <1>8, <1>9
<1>13. Writes(t, r) \/ Drops(t, r)
  BY <1>7, <1>12 DEF Writes, Drops
<1> QED BY <1>11, <1>13

\* A call of a removal.
LEMMA HomeRemoveRow ==
  ASSUME Homes, NEW t \in Tasks, RemoveRow(t)
  PROVE  Homes'
<1>1. PICK r : RemoveView(t, r) /\ (Writes(t, r) \/ Drops(t, r))
  BY RemoveFacts
<1>2. TypeOK /\ HomeInv /\ ReadInv
  BY DEF Homes
<1>3. r.qty \in Nat /\ task[t].left \in Nat
  BY <1>1, <1>2, TaskFacts DEF RemoveView, ReadRows
<1>4. newId' = newId /\ stored' = stored /\ bazaar' = bazaar /\ bag' \subseteq bag
  BY <1>1 DEF RemoveView, Writes, Drops
<1>5. /\ items' \in [DOMAIN items' -> ItemRows] /\ DOMAIN items' = DOMAIN items
      /\ \A i \in DOMAIN items : items'[i].kind = items[i].kind
  <2>1. CASE UNCHANGED items
    BY <1>2, <2>1 DEF TypeOK
  <2>2. CASE r.id \in DOMAIN items /\ r.qty > task[t].left /\ items' = [items EXCEPT ![r.id].qty = r.qty - task[t].left]
    <3>1. PICK n \in Nat : n = r.qty - task[t].left
      BY <1>3, <2>2
    <3> QED BY <1>2, <2>2, <3>1, SetQty
  <2> QED BY <1>1, <2>1, <2>2 DEF Writes, Drops
<1>6. TypeOK'
  BY <1>1, <1>2, <1>4, <1>5 DEF TypeOK, RemoveView
<1>7. \A u \in Tasks : task'[u] # Idle =>
            /\ task[u] # Idle /\ task'[u].rows \subseteq task[u].rows
            /\ task'[u].chara = task[u].chara /\ task'[u].kind = task[u].kind
  BY <1>1 DEF RemoveView, Kept
<1>8. HomeInv' /\ ReadInv'
  BY <1>2, <1>4, <1>5, <1>6, <1>7, NoFresh
<1> QED BY <1>6, <1>8 DEF Homes

\* A step that changes tasks only, by ending removals.
LEMMA HomeOtherTask ==
  ASSUME Homes, UNCHANGED <<items, newId, bag, stored, bazaar>>,
         task' \in [Tasks -> {Idle} \cup Removals], \A u \in Tasks : task'[u] = task[u] \/ task'[u] = Idle
  PROVE  Homes'
<1>1. TypeOK /\ HomeInv /\ ReadInv
  BY DEF Homes
<1>2. TypeOK'
  BY <1>1 DEF TypeOK
<1>3. HomeInv' /\ ReadInv'
  BY <1>1, <1>2, NoFresh
<1> QED BY <1>2, <1>3 DEF Homes

\* The end of a removal, and of the process.
LEMMA HomeRemoveEnds ==
  ASSUME Homes, (\E t \in Tasks : RemoveDone(t)) \/ Crash
  PROVE  Homes'
<1>1. task \in [Tasks -> {Idle} \cup Removals]
  BY DEF Homes, TypeOK
<1>2. task' \in [Tasks -> {Idle} \cup Removals] /\ \A u \in Tasks : task'[u] = task[u] \/ task'[u] = Idle
  BY <1>1 DEF RemoveDone, Crash
<1>3. UNCHANGED <<items, newId, bag, stored, bazaar>>
  BY DEF RemoveDone, Crash, tables
<1> QED BY <1>2, <1>3, HomeOtherTask

\* A removal begins.
LEMMA ReadView ==
  ASSUME Homes, NEW t \in Tasks, NEW c \in Charas, NEW k \in Goods, NEW n \in Nat, RemoveRead(t, c, k, n)
  PROVE  /\ task[t] = Idle /\ UNCHANGED tables
         /\ task' \in [Tasks -> {Idle} \cup Removals] /\ \A u \in Tasks \ {t} : task'[u] = task[u]
         /\ task'[t].chara = c /\ task'[t].kind = k /\ task'[t].left = n /\ task'[t].rows = Seen(Rows(c, "normal", k))
         /\ task'[t].due = Max({0, Total(Rows(c, "normal", k)) - n}) /\ task'[t] # Idle
<1> DEFINE R == Rows(c, "normal", k)
<1>1. R \in SUBSET bag /\ R \in SUBSET Containers
  BY RowFacts
<1>2. Total(R) \in Nat /\ \A r \in R : Qty(r) \in Nat
  BY <1>1, TotalFacts DEF Homes, HomeInv
<1>3. Max({0, Total(R) - n}) \in Nat
  BY <1>2, MaxOfTwo
<1>4. PICK d \in Nat : d = Max({0, Total(R) - n})
  BY <1>3
<1>5. \A r \in R : r.id \in Nat /\ r.slot \in Nat
  BY <1>1 DEF Homes, TypeOK, BagRows
<1>6. Seen(R) \subseteq ReadRows
  BY <1>2, <1>5 DEF Seen, ReadRows
<1>7. PICK s : s = [op |-> "remove", chara |-> c, kind |-> k, left |-> n, clean |-> TRUE, rows |-> Seen(R), due |-> d]
  OBVIOUS
<1>8. s \in Removals /\ s.op = "remove" /\ s.chara = c /\ s.kind = k /\ s.left = n /\ s.rows = Seen(R) /\ s.due = d
  BY <1>6, <1>7 DEF Removals
<1>9. s # Idle
  BY <1>8 DEF Idle
<1>10. task[t] = Idle /\ UNCHANGED tables /\ task' = [task EXCEPT ![t] = s]
  BY <1>4, <1>7 DEF RemoveRead, Seen
<1>11. task \in [Tasks -> {Idle} \cup Removals]
  BY DEF Homes, TypeOK
<1>12. task' \in [Tasks -> {Idle} \cup Removals] /\ task'[t] = s /\ \A u \in Tasks \ {t} : task'[u] = task[u]
  BY <1>8, <1>10, <1>11
<1> QED BY <1>4, <1>8, <1>9, <1>10, <1>12

\* The query of a removal.
LEMMA HomeRemoveRead ==
  ASSUME Homes, NEW t \in Tasks, NEW c \in Charas, NEW k \in Goods, NEW n \in Nat, RemoveRead(t, c, k, n)
  PROVE  Homes'
<1>1. /\ UNCHANGED tables
      /\ task' \in [Tasks -> {Idle} \cup Removals] /\ \A u \in Tasks \ {t} : task'[u] = task[u]
      /\ task'[t].chara = c /\ task'[t].kind = k /\ task'[t].rows = Seen(Rows(c, "normal", k))
  BY ReadView
<1>2. items' = items /\ newId' = newId /\ bag' = bag /\ stored' = stored /\ bazaar' = bazaar
  BY <1>1 DEF tables
<1>3. TypeOK'
  BY <1>1, <1>2 DEF Homes, TypeOK
<1>4. HomeInv'
  BY <1>2 DEF Homes, HomeInv, OneHome, SlotsBelow, OneGil, Containers
<1>5. ASSUME NEW s \in Seen(Rows(c, "normal", k))
      PROVE  /\ s.id < newId /\ s.slot < newId
             /\ s.id \in DOMAIN items => items[s.id].kind = k
             /\ \A x \in stored \cup bazaar : x.id # s.id
             /\ \A x \in bag : x.id = s.id => x.chara = c /\ x.pkg = "normal"
  <2>1. PICK r \in Rows(c, "normal", k) : s.id = r.id /\ s.slot = r.slot
    BY SeenFacts
  <2>2. r \in bag /\ r.chara = c /\ r.pkg = "normal" /\ items[r.id].kind = k /\ r.id \in DOMAIN items
    BY RowFacts
  <2>3. r.id < newId /\ r.slot < newId
    BY <2>2, ItemFacts DEF Homes, HomeInv, SlotsBelow
  <2>4. \A x \in Containers : x.id = r.id => x = r
    BY <2>2 DEF Homes, HomeInv, OneHome, Containers
  <2>5. \A x \in stored \cup bazaar : x # r
    <3>1. r \in BagRows /\ stored \subseteq StoredRows /\ bazaar \subseteq Listings
      BY <2>2 DEF Homes, TypeOK
    <3>2. DOMAIN r = {"chara", "pkg", "id", "slot"}
      BY <3>1 DEF BagRows
    <3>3. \A x \in stored \cup bazaar : "chara" \notin DOMAIN x
      BY <3>1 DEF StoredRows, Listings
    <3> QED BY <3>2, <3>3
  <2>6. \A x \in bag \cup stored \cup bazaar : x \in Containers
    BY DEF Containers
  <2> QED BY <2>1, <2>2, <2>3, <2>4, <2>5, <2>6
<1>6. ReadInv'
  <2> SUFFICES ASSUME NEW u \in Tasks, task'[u] # Idle, NEW s \in task'[u].rows
               PROVE  /\ s.id < newId' /\ s.slot < newId'
                      /\ s.id \in DOMAIN items' => items'[s.id].kind = task'[u].kind
                      /\ \A x \in stored' \cup bazaar' : x.id # s.id
                      /\ \A x \in bag' : x.id = s.id => x.chara = task'[u].chara /\ x.pkg = "normal"
    BY DEF ReadInv
  <2>1. CASE u = t
    BY <1>1, <1>2, <1>5, <2>1
  <2>2. CASE u # t
    BY <1>1, <1>2, <2>2 DEF Homes, ReadInv
  <2> QED BY <2>1, <2>2
<1> QED BY <1>3, <1>4, <1>6 DEF Homes

-----------------------------------------------------------------------------
(* Grants of goods *)

\* What a grant of n goods does: old items keep their kind, and their quantity unless they are of
\* the stacks topped up, and the new stacks follow the others.
HarvestView(c, k, N, s) ==
  /\ newId' = newId + N
  /\ DOMAIN items' = DOMAIN items \cup {newId + j - 1 : j \in 1..N}
  /\ items' \in [DOMAIN items' -> ItemRows]
  /\ \A i \in DOMAIN items :
       /\ items'[i].kind = items[i].kind
       /\ (\A r \in Rows(c, "normal", k) : r.id # i) => items'[i].qty = items[i].qty
  /\ \A j \in 1..N : items'[newId + j - 1].kind = k
  /\ bag' = bag \cup {BagRow(c, "normal", newId + j - 1, s + j - 1) : j \in 1..N}
  /\ task' = Contested(c, k, {})
  /\ UNCHANGED <<stored, bazaar, hired>>

\* add_harvest_item has that effect: the partial stacks are topped up by natural numbers, and no new
\* stack is negative because the last one starts within what is to be spilled.
LEMMA HarvestFacts ==
  ASSUME Homes, NEW c \in Charas, NEW k \in Goods, NEW n \in Nat, AddHarvestItem(c, k, n)
  PROVE  \E N \in Nat : HarvestView(c, k, N, NextSlot(c, "normal"))
<1> DEFINE rows == Rows(c, "normal", k)
           room == [r \in rows |-> Max({0, MaxStack - Qty(r)})]
           RoomBefore(r) == SumFunctionOnSet(room, {x \in rows : x.slot < r.slot})
           take == [r \in rows |-> Max({0, Min({room[r], n - RoomBefore(r)})})]
           rest == Max({0, n - SumFunction(room)})
           N == (rest + MaxStack - 1) \div MaxStack
<1>1. IsFiniteSet(rows) /\ \A r \in rows : Qty(r) \in Nat
  BY RowFacts, TotalFacts DEF Homes, HomeInv
<1>2. MaxStack \in Nat \ {0}
  BY Bounds
<1>3. \A r \in rows : room[r] \in Nat
  BY <1>1, <1>2, MaxOfTwo
<1>4. ASSUME NEW R \in SUBSET rows PROVE IsFiniteSet(R) /\ SumFunctionOnSet(room, R) \in Nat
  <2>1. IsFiniteSet(R)
    BY <1>1, FS_Subset
  <2>2. \A x \in R : room[x] \in Nat
    BY <1>3
  <2> HIDE DEF room
  <2> QED BY <2>1, <2>2, SumNat
<1>5. \A r \in rows : take[r] \in Nat
  <2> TAKE r \in rows
  <2>1. RoomBefore(r) \in Nat
    BY <1>4
  <2>2. room[r] \in Nat
    BY <1>3
  <2>3. take[r] = Max({0, Min({room[r], n - RoomBefore(r)})})
    OBVIOUS
  <2> HIDE DEF room, RoomBefore, take
  <2>4. n - RoomBefore(r) \in Int
    BY <2>1
  <2>5. Min({room[r], n - RoomBefore(r)}) \in Int
    BY <2>2, <2>4, MinOfTwo
  <2>6. PICK w \in Int : w = Min({room[r], n - RoomBefore(r)})
    BY <2>5
  <2>7. Max({0, w}) \in Nat
    BY MaxOfTwo
  <2> QED BY <2>3, <2>6, <2>7
<1>6. SumFunction(room) \in Nat
  <2>1. SumFunction(room) = SumFunctionOnSet(room, rows)
    BY DEF SumFunction
  <2> QED BY <1>4, <2>1
<1>7. rest \in Nat
  <2> HIDE DEF room
  <2> QED BY <1>6, MaxOfTwo
<1>8. N \in Nat /\ \A j \in 0..(N - 1) : j * MaxStack <= rest
  <2> HIDE DEF rest
  <2> QED BY <1>2, <1>7, Stacks
<1>9. Cardinality(1..N) = N
  <2> HIDE DEF N
  <2>1. 1 \in Int /\ N \in Int /\ N - 1 + 1 = N
    BY <1>8
  <2> QED BY <1>8, <2>1, FS_Interval
<1>10. /\ newId' = newId + Cardinality(1..N)
       /\ items' = [i \in DOMAIN items \cup {newId + j - 1 : j \in 1..N} |->
                      IF i \notin DOMAIN items
                      THEN [kind |-> k, qty |-> Min({MaxStack, rest - (i - newId) * MaxStack})]
                      ELSE [items[i] EXCEPT !.qty = @ + SumFunctionOnSet(take, {r \in rows : r.id = i})]]
       /\ bag' = bag \cup {BagRow(c, "normal", newId + j - 1, NextSlot(c, "normal") + j - 1) : j \in 1..N}
       /\ task' = Contested(c, k, {})
       /\ UNCHANGED <<stored, bazaar, hired>>
  BY DEF AddHarvestItem
<1> HIDE DEF N, rest, room, RoomBefore
<1>11. TypeOK /\ newId \in Nat \ {0} /\ \A i \in DOMAIN items : i \in Nat /\ i < newId /\ items[i] \in ItemRows /\ items[i].qty \in Nat
  BY ItemFacts DEF Homes
<1>12. ASSUME NEW i \in DOMAIN items
       PROVE  /\ items'[i] \in ItemRows /\ items'[i].kind = items[i].kind
              /\ (\A r \in rows : r.id # i) => items'[i].qty = items[i].qty
  <2> DEFINE T == {r \in rows : r.id = i}
  <2>1. PICK q : q = SumFunctionOnSet(take, T)
    OBVIOUS
  <2>2. IsFiniteSet(T)
    <3>1. T \in SUBSET rows
      OBVIOUS
    <3> QED BY <1>4, <3>1
  <2>3. \A r \in T : take[r] \in Nat
    BY <1>5
  <2> HIDE DEF take
  <2>4. q \in Nat
    <3> HIDE DEF T
    <3> QED BY <2>1, <2>2, <2>3, SumNat
  <2>5. (\A r \in rows : r.id # i) => q = 0
    <3> SUFFICES ASSUME \A r \in rows : r.id # i PROVE q = 0
      OBVIOUS
    <3>1. T = {}
      OBVIOUS
    <3> HIDE DEF T
    <3> QED BY <2>1, <3>1, SumEmpty
  <2>6. PICK z \in ItemRows : z = items[i]
    BY <1>11
  <2>7. items'[i] = [items[i] EXCEPT !.qty = @ + SumFunctionOnSet(take, {r \in rows : r.id = i})]
    BY <1>10
  <2>8. items'[i] = [z EXCEPT !.qty = @ + q]
    BY <2>1, <2>6, <2>7
  <2>9. z.qty \in Nat /\ z.kind \in Kinds
    BY DEF ItemRows
  <2>10. [z EXCEPT !.qty = @ + q] \in ItemRows /\ [z EXCEPT !.qty = @ + q].kind = z.kind /\ [z EXCEPT !.qty = @ + q].qty = z.qty + q
    BY <2>4, <2>9 DEF ItemRows
  <2> QED BY <2>5, <2>6, <2>8, <2>9, <2>10
<1>13. ASSUME NEW j \in 1..N
       PROVE  newId + j - 1 \notin DOMAIN items /\ items'[newId + j - 1] \in ItemRows /\ items'[newId + j - 1].kind = k
  <2>1. j \in Nat /\ j >= 1 /\ j <= N /\ N \in Nat
    BY <1>8
  <2>2. PICK i \in Nat : i = newId + j - 1
    BY <1>11, <2>1
  <2>3. i \notin DOMAIN items /\ i - newId \in 0..(N - 1)
    BY <1>11, <2>1, <2>2
  <2>4. PICK p \in Int : p = (i - newId) * MaxStack
    BY <1>2, <1>11
  <2>5. p <= rest
    BY <1>8, <2>3, <2>4
  <2>6. PICK q \in Nat : q = Min({MaxStack, rest - p})
    <3>1. rest - p \in Nat
      BY <1>7, <2>5
    <3>2. MaxStack \in Int /\ rest - p \in Int
      BY <1>2, <3>1
    <3> QED BY <1>2, <3>1, <3>2, MinOfTwo
  <2>7. items'[i] = [kind |-> k, qty |-> q]
    BY <1>10, <2>2, <2>3, <2>4, <2>6
  <2>8. [kind |-> k, qty |-> q] \in ItemRows /\ [kind |-> k, qty |-> q].kind = k
    BY DEF ItemRows, Kinds
  <2> QED BY <2>2, <2>3, <2>7, <2>8
<1>14. DOMAIN items' = DOMAIN items \cup {newId + j - 1 : j \in 1..N}
  BY <1>10
<1>15. items' \in [DOMAIN items' -> ItemRows]
  <2>1. \A i \in DOMAIN items' : items'[i] \in ItemRows
    BY <1>12, <1>13, <1>14
  <2>2. items' = [i \in DOMAIN items' |-> items'[i]]
    BY <1>10
  <2> QED BY <2>1, <2>2
<1>16. HarvestView(c, k, N, NextSlot(c, "normal"))
  BY <1>9, <1>10, <1>12, <1>13, <1>14, <1>15 DEF HarvestView
<1> QED BY <1>8, <1>16

\* The bag rows of new stacks.
Spill(c, m, s, N) == {BagRow(c, "normal", m + j - 1, s + j - 1) : j \in 1..N}

\* New stacks have consecutive ids and slots.
LEMMA SpillFacts ==
  ASSUME NEW c, NEW m \in Nat, NEW N \in Nat, NEW s \in Nat, NEW B,
         B = Spill(c, m, s, N), m > 0
  PROVE  /\ \A x \in B : \E j \in 1..N : x = BagRow(c, "normal", m + j - 1, s + j - 1)
         /\ \A x \in B : x.chara = c /\ x.pkg = "normal"
                         /\ x.id \in Nat /\ x.id >= m /\ x.id < m + N /\ x.slot = s + (x.id - m) /\ x.slot \in Nat
         /\ \A x \in B : x = BagRow(c, "normal", x.id, x.slot)
         /\ c \in Charas => B \subseteq BagRows
         /\ \A x, y \in B : x.id = y.id \/ x.slot = y.slot => x = y
<1>1. \A x \in B : \E j \in 1..N : x = BagRow(c, "normal", m + j - 1, s + j - 1)
  BY DEF Spill
<1>2. ASSUME NEW x \in B
      PROVE  /\ x.chara = c /\ x.pkg = "normal"
             /\ x.id \in Nat /\ x.id >= m /\ x.id < m + N /\ x.slot = s + (x.id - m) /\ x.slot \in Nat
             /\ x = BagRow(c, "normal", x.id, x.slot)
             /\ c \in Charas => x \in BagRows
  <2>1. PICK j \in 1..N : x = BagRow(c, "normal", m + j - 1, s + j - 1)
    BY <1>1
  <2>2. PICK i \in Nat : i = m + j - 1
    OBVIOUS
  <2>3. PICK a \in Nat : a = s + j - 1
    OBVIOUS
  <2>4. x = BagRow(c, "normal", i, a)
    BY <2>1, <2>2, <2>3
  <2>5. "normal" \in Packages
    BY DEF Packages
  <2>6. x.chara = c /\ x.pkg = "normal" /\ x.id = i /\ x.slot = a /\ (c \in Charas => x \in BagRows)
    BY <2>4, <2>5, BagRowFacts
  <2>7. i >= m /\ i < m + N /\ a = s + (i - m)
    BY <2>2, <2>3
  <2> QED BY <2>4, <2>6, <2>7
<1>3. ASSUME NEW x \in B, NEW y \in B, x.id = y.id \/ x.slot = y.slot PROVE x = y
  <2>1. x.id = y.id /\ x.slot = y.slot
    BY <1>2, <1>3
  <2>2. x = BagRow(c, "normal", x.id, x.slot) /\ y = BagRow(c, "normal", y.id, y.slot)
    BY <1>2
  <2> QED BY <2>1, <2>2
<1> QED BY <1>1, <1>2, <1>3

\* add_harvest_item.
LEMMA HomeHarvest ==
  ASSUME Homes, NEW c \in Charas, NEW k \in Goods, NEW n \in Nat, AddHarvestItem(c, k, n)
  PROVE  Homes'
<1>1. TypeOK /\ HomeInv /\ ReadInv /\ newId \in Nat \ {0} /\ newId > 0
  BY DEF Homes, TypeOK
<1>2. PICK N \in Nat : HarvestView(c, k, N, NextSlot(c, "normal"))
  BY HarvestFacts
<1>3. PICK s \in Nat : s = NextSlot(c, "normal") /\ s <= newId /\ \A x \in bag : x.chara = c /\ x.pkg = "normal" => x.slot < s
  BY <1>1, SlotFacts DEF HomeInv
<1>4. PICK B : B = Spill(c, newId, s, N)
  OBVIOUS
<1>5. bag' = bag \cup B
  BY <1>2, <1>3, <1>4 DEF HarvestView, Spill
<1>6. /\ \A x \in B : x.chara = c /\ x.pkg = "normal"
                      /\ x.id \in Nat /\ x.id >= newId /\ x.id < newId + N /\ x.slot = s + (x.id - newId) /\ x.slot \in Nat
      /\ B \subseteq BagRows
      /\ \A x, y \in B : x.id = y.id \/ x.slot = y.slot => x = y
  BY <1>1, <1>4, SpillFacts
<1>7. /\ newId' = newId + N /\ stored' = stored /\ bazaar' = bazaar
      /\ DOMAIN items' = DOMAIN items \cup {newId + j - 1 : j \in 1..N}
      /\ items' \in [DOMAIN items' -> ItemRows]
      /\ \A i \in DOMAIN items : items'[i].kind = items[i].kind
      /\ task' = Contested(c, k, {})
  BY <1>2 DEF HarvestView
<1>8. task' \in [Tasks -> {Idle} \cup Removals] /\ \A t \in Tasks : Kept(t)
  BY <1>1, <1>7, ContestedKeeps
<1>9. \A i \in DOMAIN items' : i \in Nat /\ i >= 1 /\ i <= newId' - 1 /\ (i < newId => i \in DOMAIN items)
  <2>1. \A i \in DOMAIN items : i \in Nat /\ i >= 1 /\ i < newId
    BY <1>1 DEF TypeOK
  <2> QED BY <1>1, <1>7, <2>1
<1>10. TypeOK'
  <2>1. newId' \in Nat \ {0} /\ DOMAIN items' \subseteq 1..(newId' - 1)
    BY <1>1, <1>7, <1>9
  <2> QED BY <1>1, <1>5, <1>6, <1>7, <1>8, <2>1 DEF TypeOK
<1>11. bag' \ bag \subseteq B /\ Fresh \subseteq B
  BY <1>5, <1>7 DEF Fresh
<1>12. \A x \in Containers : x.id \in DOMAIN items
  BY <1>1 DEF HomeInv, OneHome
<1>13. \A x \in B : x.id \in DOMAIN items'
  <2> SUFFICES ASSUME NEW x \in B PROVE x.id \in {newId + j - 1 : j \in 1..N}
    BY <1>7
  <2>1. PICK j \in 1..N : j = x.id - newId + 1
    BY <1>1, <1>6
  <2>2. x.id = newId + j - 1
    BY <1>1, <1>6, <2>1
  <2> QED BY <2>2
<1>14. \A x \in bag' \ bag :
            /\ x.slot < newId'
            /\ \A y \in bag : y.chara = x.chara /\ y.pkg = x.pkg => y.slot # x.slot
            /\ \A y \in bag' \ bag : y.chara = x.chara /\ y.pkg = x.pkg /\ y.slot = x.slot => y = x
            /\ x.pkg # "currency"
  <2> TAKE x \in bag' \ bag
  <2>1. x \in B /\ x.chara = c /\ x.pkg = "normal" /\ x.slot = s + (x.id - newId) /\ x.id >= newId /\ x.id < newId + N /\ x.id \in Nat
    BY <1>6, <1>11
  <2>2. x.slot < newId' /\ x.slot >= s
    BY <1>1, <1>3, <1>7, <2>1
  <2>3. \A y \in bag : y.slot \in Nat
    BY <1>1 DEF TypeOK, BagRows
  <2>4. \A y \in bag : y.chara = x.chara /\ y.pkg = x.pkg => y.slot # x.slot
    BY <1>1, <1>3, <2>1, <2>2, <2>3
  <2>5. \A y \in bag' \ bag : y.slot = x.slot => y = x
    BY <1>6, <1>11, <2>1
  <2> QED BY <2>1, <2>2, <2>4, <2>5
<1>15. newId <= newId' /\ \A x \in Fresh : x.id >= newId /\ x.id \in DOMAIN items'
  BY <1>1, <1>6, <1>7, <1>11, <1>13
<1>16. (\A x, y \in Fresh : x.id = y.id => x = y) /\ (\A x \in Containers : x.id \in DOMAIN items')
       /\ \A i \in DOMAIN items : i \in DOMAIN items' /\ items'[i].kind = items[i].kind
  BY <1>6, <1>7, <1>11, <1>12
<1>17. HomeInv'
  BY <1>1, <1>10, <1>14, <1>15, <1>16, HomeStep
<1>18. \A i \in DOMAIN items' : i < newId => i \in DOMAIN items /\ items'[i].kind = items[i].kind
  BY <1>7, <1>9
<1>19. \A t \in Tasks : task'[t] # Idle =>
            /\ task[t] # Idle /\ task'[t].rows \subseteq task[t].rows
            /\ task'[t].chara = task[t].chara /\ task'[t].kind = task[t].kind
  BY <1>8 DEF Kept
<1>20. ReadInv'
  BY <1>1, <1>10, <1>15, <1>18, <1>19, ReadStep
<1> QED BY <1>10, <1>17, <1>20 DEF Homes

-----------------------------------------------------------------------------
(* What a purchase does *)

Given(f, i) == IF i \in DOMAIN f THEN f[i] ELSE 0

\* A credit is a natural number, and only to a row that was there or to the new one.
LEMMA CreditFacts ==
  ASSUME NEW rows, NEW id, NEW n \in Nat, NEW i
  PROVE  /\ Given(Credit(rows, id, n), i) \in Nat
         /\ i # id /\ (\A r \in rows : r.id # i) => Given(Credit(rows, id, n), i) = 0
<1>1. PICK j : j = IF rows = {} THEN id ELSE (CHOOSE r \in rows : TRUE).id
  OBVIOUS
<1>2. Credit(rows, id, n) = [x \in {j} |-> n]
  BY <1>1 DEF Credit
<1>3. j = id \/ \E r \in rows : r.id = j
  <2>1. CASE rows = {}
    BY <1>1, <2>1
  <2>2. CASE rows # {}
    <3>1. (CHOOSE r \in rows : TRUE) \in rows
      BY <2>2
    <3> QED BY <1>1, <2>2, <3>1
  <2> QED BY <2>1, <2>2
<1>4. Given(Credit(rows, id, n), i) = IF i = j THEN n ELSE 0
  BY <1>2 DEF Given
<1> QED BY <1>3, <1>4

\* What a buyer can be debited: the one gil row holds at least the price.
LEMMA DebitFacts ==
  ASSUME Homes, NEW c \in Charas, NEW p \in Nat, BuyerGil(c) >= p
  PROVE  \A r \in GilRow(c) : GilRow(c) = {r} /\ Qty(r) \in Nat /\ (p > 0 => Qty(r) >= p) /\ Qty(r) - p >= 0
<1>1. GilRow(c) \in SUBSET bag /\ GilRow(c) \in SUBSET Containers
      /\ \A x : x \in GilRow(c) <=> x \in bag /\ x.chara = c /\ x.pkg = "currency" /\ items[x.id].kind = Gil
  BY RowFacts DEF GilRow
<1>2. /\ \A x \in GilRow(c) : Qty(x) \in Nat
      /\ Total(GilRow(c)) \in Nat /\ \A x : GilRow(c) = {x} => Total(GilRow(c)) = Qty(x)
  BY <1>1, TotalFacts DEF Homes, HomeInv
<1> TAKE r \in GilRow(c)
<1>3. GilRow(c) = {r}
  BY <1>1 DEF Homes, HomeInv, OneGil
<1>4. PICK q \in Nat : q = Qty(r) /\ Total(GilRow(c)) = q
  BY <1>2, <1>3
<1>5. BuyerGil(c) = q \/ BuyerGil(c) = 0
  BY <1>4 DEF BuyerGil
<1>6. q >= p
  BY <1>4, <1>5
<1> QED BY <1>3, <1>4, <1>6

\* A purchase: G and H are the rows it makes, for gil and for the goods bought.
PurchaseView(buyer, l, owner, G, H) ==
  /\ l \in bazaar /\ l.id \in DOMAIN items /\ buyer # owner
  /\ \/ G = {}
     \/ GilRow(owner) = {} /\ G = {BagRow(owner, "currency", newId, NextSlot(owner, "currency"))}
  /\ \/ H = {}
     \/ /\ Rows(buyer, "normal", items[l.id].kind) = {}
        /\ H = {BagRow(buyer, "normal", IF G = {} THEN newId ELSE newId + 1, NextSlot(buyer, "normal"))}
  /\ newId' = newId + (IF G = {} THEN 0 ELSE 1) + (IF H = {} THEN 0 ELSE 1)
  /\ DOMAIN items' = (DOMAIN items \ {l.id}) \cup {x.id : x \in G \cup H}
  /\ items' \in [DOMAIN items' -> ItemRows]
  /\ \A i \in DOMAIN items \ {l.id} :
       /\ items'[i].kind = items[i].kind
       /\ (\A r \in Rows(buyer, "normal", items[l.id].kind) \cup GilRow(owner) \cup GilRow(buyer) : r.id # i) => items'[i].qty = items[i].qty
  /\ \A x \in G : items'[x.id].kind = Gil
  /\ \A x \in H : items'[x.id].kind = items[l.id].kind
  /\ bag' = bag \cup G \cup H
  /\ bazaar' = bazaar \ {l}
  /\ task' = Contested(buyer, items[l.id].kind, {})
  /\ UNCHANGED <<stored, hired>>

\* The quantities after a purchase at price p: the owner's gil row, the buyer's stack and the
\* buyer's gil row change, each by its amount.
SaleView(buyer, l, owner, G, H, p, h) ==
  /\ p \in Nat /\ (p > 0 => GilRow(buyer) # {})
  /\ h \in Nat /\ h = IF G = {} THEN newId ELSE newId + 1
  /\ G = {} <=> (p = 0 \/ GilRow(owner) # {})
  /\ H = {} <=> Rows(buyer, "normal", items[l.id].kind) # {}
  /\ \A i \in DOMAIN items' :
       items'[i].qty = (IF i \in DOMAIN items THEN items[i].qty ELSE 0)
                       + (IF p = 0 THEN 0 ELSE Given(Credit(GilRow(owner), newId, p), i))
                       + Given(Credit(Rows(buyer, "normal", items[l.id].kind), h, items[l.id].qty), i)
                       - (IF \E r \in FirstOf(GilRow(buyer)) : r.id = i THEN p ELSE 0)

\* No rows, no total.
LEMMA TotalEmpty == Total({}) = 0
<1>1. PICK f : f = [r \in {} |-> Qty(r)]
  OBVIOUS
<1>2. Total({}) = SumFunctionOnSet(f, {})
  BY <1>1 DEF Total, SumFunction
<1> QED BY <1>2, SumEmpty

\* purchase_retainer_bazaar_item has that effect. The debit is covered because the buyer's gil is in
\* one row.
LEMMA PurchaseFacts ==
  ASSUME Homes, NEW buyer \in Charas, NEW l \in bazaar, NEW owner \in Charas, Purchase(buyer, l, owner)
  PROVE  \E G, H : /\ PurchaseView(buyer, l, owner, G, H)
                   /\ \E p, h : SaleView(buyer, l, owner, G, H, p, h)
<1>1. TypeOK /\ newId \in Nat \ {0} /\ \A i \in DOMAIN items : i \in Nat /\ i < newId /\ items[i] \in ItemRows /\ items[i].qty \in Nat /\ items[i].kind \in Kinds
  BY ItemFacts DEF Homes
<1>2. l.id \in DOMAIN items
  BY DEF Homes, HomeInv, OneHome, Containers
<1>3. l.price \in Nat
  BY Bounds DEF Homes, TypeOK, Listings
<1>4. PICK n \in Nat : n = Qty(l)
  BY <1>1, <1>2 DEF Qty
<1>5. PICK price \in Nat : price = TotalPrice(l)
  <2>1. l.price * n \in Nat
    BY <1>3
  <2> QED BY <1>4, <2>1, SaturatedNat DEF TotalPrice
<1>6. PICK k \in Kinds : k = items[l.id].kind
  BY <1>1, <1>2
<1>7. PICK own : own = Rows(buyer, "normal", k)
  OBVIOUS
<1>8. PICK ownersGil : ownersGil = GilRow(owner)
  OBVIOUS
<1>9. PICK buyersGil : buyersGil = GilRow(buyer)
  OBVIOUS
<1>10. PICK G : G = IF price = 0 THEN {} ELSE Made(ownersGil, owner, "currency", newId)
  OBVIOUS
<1>11. G = {} \/ (ownersGil = {} /\ G = {BagRow(owner, "currency", newId, NextSlot(owner, "currency"))})
  <2>1. PICK b : b = BagRow(owner, "currency", newId, NextSlot(owner, "currency"))
    OBVIOUS
  <2>2. Made(ownersGil, owner, "currency", newId) = IF ownersGil = {} THEN {b} ELSE {}
    BY <2>1 DEF Made
  <2> QED BY <1>10, <2>1, <2>2
<1>12. PICK gm \in {0, 1} : gm = IF G = {} THEN 0 ELSE 1
  OBVIOUS
<1>13. Cardinality(G) = gm
  <2>1. CASE G = {}
    BY <1>12, <2>1, FS_EmptySet
  <2>2. CASE G # {}
    BY <1>11, <1>12, <2>2, FS_Singleton
  <2> QED BY <2>1, <2>2
<1>14. PICK h \in Nat : h = newId + gm
  BY <1>1
<1>15. PICK H : H = Made(own, buyer, "normal", h)
  OBVIOUS
<1>16. H = {} \/ (own = {} /\ H = {BagRow(buyer, "normal", h, NextSlot(buyer, "normal"))})
  <2>1. PICK b : b = BagRow(buyer, "normal", h, NextSlot(buyer, "normal"))
    OBVIOUS
  <2>2. Made(own, buyer, "normal", h) = IF own = {} THEN {b} ELSE {}
    BY <2>1 DEF Made
  <2> QED BY <1>15, <2>1, <2>2
<1>17. PICK hm \in {0, 1} : hm = IF H = {} THEN 0 ELSE 1
  OBVIOUS
<1>18. PICK new : new = {r.id : r \in G \cup H}
  OBVIOUS
<1>19. /\ \A x \in G : x.id = newId
       /\ \A x \in H : x.id = h
  BY <1>11, <1>16, BagRowFacts
<1>20. new = (IF G = {} THEN {} ELSE {newId}) \cup (IF H = {} THEN {} ELSE {h})
  <2>1. \A i : i \in new <=> \E r \in G \cup H : i = r.id
    BY <1>18
  <2> QED BY <1>19, <2>1
<1>21. Cardinality(new) = gm + hm
  <2>1. gm = 1 => newId # h
    BY <1>1, <1>14
  <2>2. CASE G = {} /\ H = {}
    BY <1>12, <1>17, <1>20, <2>2, FS_EmptySet
  <2>3. CASE G = {} /\ H # {}
    <3>1. new = {h}
      BY <1>20, <2>3
    <3>2. Cardinality({h}) = 1
      BY FS_Singleton
    <3> QED BY <1>12, <1>17, <2>3, <3>1, <3>2
  <2>4. CASE G # {} /\ H = {}
    <3>1. new = {newId}
      BY <1>20, <2>4
    <3>2. Cardinality({newId}) = 1
      BY FS_Singleton
    <3> QED BY <1>12, <1>17, <2>4, <3>1, <3>2
  <2>5. CASE G # {} /\ H # {}
    <3>1. new = {newId} \cup {h} /\ newId # h /\ h \notin {newId}
      BY <1>12, <1>20, <2>1, <2>5
    <3>2. IsFiniteSet({newId}) /\ Cardinality({newId}) = 1
      BY FS_Singleton
    <3>3. Cardinality({newId} \cup {h}) = Cardinality({newId}) + 1
      BY <3>1, <3>2, FS_AddElement
    <3> QED BY <1>12, <1>17, <2>5, <3>1, <3>2, <3>3
  <2> QED BY <2>2, <2>3, <2>4, <2>5
<1>22. PICK f : f = IF price = 0 THEN [i \in {} |-> 0] ELSE Credit(ownersGil, newId, price)
  OBVIOUS
<1>23. PICK g : g = Credit(own, h, n)
  OBVIOUS
<1>24. ASSUME NEW i
       PROVE  /\ Given(f, i) \in Nat /\ Given(g, i) \in Nat
              /\ i # newId /\ (\A r \in ownersGil : r.id # i) => Given(f, i) = 0
              /\ i # h /\ (\A r \in own : r.id # i) => Given(g, i) = 0
  <2>1. Given([x \in {} |-> 0], i) = 0
    BY DEF Given
  <2>2. /\ Given(Credit(ownersGil, newId, price), i) \in Nat
        /\ i # newId /\ (\A r \in ownersGil : r.id # i) => Given(Credit(ownersGil, newId, price), i) = 0
    BY CreditFacts
  <2>3. /\ Given(Credit(own, h, n), i) \in Nat
        /\ i # h /\ (\A r \in own : r.id # i) => Given(Credit(own, h, n), i) = 0
    BY CreditFacts
  <2>4. CASE price = 0
    BY <1>22, <1>23, <2>1, <2>3, <2>4
  <2>5. CASE price # 0
    BY <1>22, <1>23, <2>2, <2>3, <2>5
  <2> QED BY <2>4, <2>5
<1>25. PICK debit : debit = {r.id : r \in FirstOf(buyersGil)}
  OBVIOUS
<1>26. \A i \in debit : (\E r \in buyersGil : r.id = i) /\ i \in DOMAIN items /\ items[i].qty >= price
  <2>1. FirstOf(buyersGil) \subseteq buyersGil
    BY DEF FirstOf
  <2>2. BuyerGil(buyer) >= price
    BY <1>5 DEF Purchase
  <2>3. \A r \in buyersGil : Qty(r) \in Nat /\ Qty(r) - price >= 0 /\ r.id \in DOMAIN items
    BY <1>9, <2>2, DebitFacts, RowFacts DEF GilRow
  <2> QED BY <1>1, <1>25, <2>1, <2>3 DEF Qty
<1>27. /\ newId' = newId + Cardinality(new)
       /\ items' = [i \in (DOMAIN items \ {l.id}) \cup new |->
                      IF i \in new THEN [kind |-> IF i = h /\ H # {} THEN k ELSE Gil, qty |-> Given(f, i) + Given(g, i)]
                      ELSE [items[i] EXCEPT !.qty = @ + (Given(f, i) + Given(g, i)) - (IF i \in debit THEN price ELSE 0)]]
       /\ bag' = bag \cup G \cup H
       /\ bazaar' = bazaar \ {l}
       /\ task' = Contested(buyer, k, {})
       /\ UNCHANGED <<stored, hired>> /\ owner # buyer
  BY <1>4, <1>5, <1>6, <1>7, <1>8, <1>9, <1>10, <1>13, <1>14, <1>15, <1>18, <1>22, <1>23, <1>25, ZenonT(60) DEF Purchase, Given
<1>28. ASSUME NEW i \in DOMAIN items \ {l.id}
       PROVE  /\ i \notin new /\ items'[i] \in ItemRows /\ items'[i].kind = items[i].kind
              /\ (\A r \in own \cup ownersGil \cup buyersGil : r.id # i) => items'[i].qty = items[i].qty
  <2>1. i < newId /\ i < h /\ i \in Nat
    BY <1>1, <1>14
  <2>2. i \notin new
    BY <1>1, <1>20, <2>1
  <2>3. PICK z \in ItemRows : z = items[i]
    BY <1>1
  <2>4. PICK a \in Nat : a = Given(f, i) + Given(g, i)
    BY <1>24
  <2>5. PICK d \in Nat : d = IF i \in debit THEN price ELSE 0
    OBVIOUS
  <2>6. z.qty >= d /\ z.qty \in Nat /\ z.kind \in Kinds
    BY <1>26, <2>3, <2>5 DEF ItemRows
  <2>7. items'[i] = [z EXCEPT !.qty = @ + a - d]
    BY <1>27, <2>2, <2>3, <2>4, <2>5
  <2>8. z.qty + a - d \in Nat
    BY <2>6
  <2>9. [z EXCEPT !.qty = @ + a - d] \in ItemRows /\ [z EXCEPT !.qty = @ + a - d].kind = z.kind
        /\ [z EXCEPT !.qty = @ + a - d].qty = z.qty + a - d
    BY <2>8 DEF ItemRows
  <2>10. (\A r \in own \cup ownersGil \cup buyersGil : r.id # i) => a = 0 /\ d = 0
    <3> SUFFICES ASSUME \A r \in own \cup ownersGil \cup buyersGil : r.id # i PROVE a = 0 /\ d = 0
      OBVIOUS
    <3>1. i # newId /\ i # h
      BY <1>1, <2>1
    <3>2. Given(f, i) = 0 /\ Given(g, i) = 0
      BY <1>24, <3>1
    <3>3. i \notin debit
      BY <1>26
    <3> QED BY <2>4, <2>5, <3>2, <3>3
  <2>11. (a = 0 /\ d = 0) => z.qty + a - d = z.qty
    BY <2>6
  <2> QED BY <2>2, <2>3, <2>7, <2>9, <2>10, <2>11
<1>29. ASSUME NEW i \in new
       PROVE  items'[i] \in ItemRows /\ (G # {} /\ i = newId => items'[i].kind = Gil) /\ (H # {} /\ i = h => items'[i].kind = k)
  <2>1. PICK a \in Nat : a = Given(f, i) + Given(g, i)
    BY <1>24
  <2>2. PICK y \in Kinds : y = IF i = h /\ H # {} THEN k ELSE Gil
    BY DEF Kinds
  <2>3. items'[i] = [kind |-> y, qty |-> a]
    BY <1>27, <2>1, <2>2
  <2>4. [kind |-> y, qty |-> a] \in ItemRows /\ [kind |-> y, qty |-> a].kind = y
    BY DEF ItemRows
  <2>5. G # {} => newId # h
    BY <1>1, <1>12, <1>14
  <2> QED BY <2>2, <2>3, <2>4, <2>5
<1>30. DOMAIN items' = (DOMAIN items \ {l.id}) \cup new
  BY <1>27
<1>31. items' \in [DOMAIN items' -> ItemRows]
  <2>1. \A i \in DOMAIN items' : items'[i] \in ItemRows
    BY <1>28, <1>29, <1>30
  <2>2. items' = [i \in DOMAIN items' |-> items'[i]]
    BY <1>27
  <2> QED BY <2>1, <2>2
<1>32. \A x \in G \cup H : x.id \in new
  BY <1>18
<1>33. newId' = newId + (IF G = {} THEN 0 ELSE 1) + (IF H = {} THEN 0 ELSE 1)
  <2>1. newId' = newId + (gm + hm) /\ newId + (gm + hm) = newId + gm + hm
    BY <1>1, <1>21, <1>27
  <2> QED BY <1>12, <1>17, <2>1
<1>34. H = {} \/ (own = {} /\ H = {BagRow(buyer, "normal", IF G = {} THEN newId ELSE newId + 1, NextSlot(buyer, "normal"))})
  <2>1. h = IF G = {} THEN newId ELSE newId + 1
    BY <1>1, <1>12, <1>14
  <2> QED BY <1>16, <2>1
<1>35. (\A x \in G : items'[x.id].kind = Gil) /\ (\A x \in H : items'[x.id].kind = k)
  BY <1>19, <1>29, <1>32
<1>36. PurchaseView(buyer, l, owner, G, H)
  <2>1. \A i \in DOMAIN items \ {l.id} :
           /\ items'[i].kind = items[i].kind
           /\ (\A r \in own \cup ownersGil \cup buyersGil : r.id # i) => items'[i].qty = items[i].qty
    BY <1>28
  <2>2. DOMAIN items' = (DOMAIN items \ {l.id}) \cup {x.id : x \in G \cup H}
    BY <1>18, <1>30
  <2> QED BY <1>2, <1>6, <1>7, <1>8, <1>9, <1>11, <1>27, <1>31, <1>33, <1>34, <1>35, <2>1, <2>2 DEF PurchaseView
<1>37. price > 0 => buyersGil # {}
  <2>1. BuyerGil(buyer) >= price
    BY <1>5 DEF Purchase
  <2>2. buyersGil = {} => BuyerGil(buyer) = 0
    BY <1>9, TotalEmpty DEF BuyerGil
  <2> QED BY <2>1, <2>2
<1>38. (G = {} <=> (price = 0 \/ ownersGil # {})) /\ (H = {} <=> own # {})
  <2>1. PICK b : b = BagRow(owner, "currency", newId, NextSlot(owner, "currency"))
    OBVIOUS
  <2>2. Made(ownersGil, owner, "currency", newId) = IF ownersGil = {} THEN {b} ELSE {}
    BY <2>1 DEF Made
  <2>3. PICK e : e = BagRow(buyer, "normal", h, NextSlot(buyer, "normal"))
    OBVIOUS
  <2>4. Made(own, buyer, "normal", h) = IF own = {} THEN {e} ELSE {}
    BY <2>3 DEF Made
  <2> QED BY <1>10, <1>15, <2>2, <2>4
<1>39. ASSUME NEW i \in DOMAIN items'
       PROVE  items'[i].qty = (IF i \in DOMAIN items THEN items[i].qty ELSE 0)
                              + (IF price = 0 THEN 0 ELSE Given(Credit(ownersGil, newId, price), i))
                              + Given(Credit(own, h, n), i)
                              - (IF \E r \in FirstOf(buyersGil) : r.id = i THEN price ELSE 0)
  <2>1. Given([x \in {} |-> 0], i) = 0
    BY DEF Given
  <2>2. PICK u \in Nat : u = Given(f, i)
    BY <1>24
  <2>3. PICK v \in Nat : v = Given(g, i)
    BY <1>24
  <2>4. u = IF price = 0 THEN 0 ELSE Given(Credit(ownersGil, newId, price), i)
    BY <1>22, <2>1, <2>2
  <2>5. v = Given(Credit(own, h, n), i)
    BY <1>23, <2>3
  <2>6. PICK d \in Nat : d = IF i \in debit THEN price ELSE 0
    OBVIOUS
  <2>7. d = IF \E r \in FirstOf(buyersGil) : r.id = i THEN price ELSE 0
    <3>1. i \in debit <=> \E r \in FirstOf(buyersGil) : r.id = i
      BY <1>25
    <3> QED BY <2>6, <3>1
  <2>8. CASE i \in new
    <3>1. i \notin DOMAIN items
      BY <1>1, <1>14, <1>20, <2>8
    <3>2. d = 0
      BY <1>26, <2>6, <3>1
    <3>3. PICK y : y = IF i = h /\ H # {} THEN k ELSE Gil
      OBVIOUS
    <3>4. items'[i] = [kind |-> y, qty |-> u + v]
      BY <1>27, <2>2, <2>3, <2>8, <3>3
    <3>5. items'[i].qty = u + v
      BY <3>4
    <3> QED BY <2>4, <2>5, <2>7, <3>1, <3>2, <3>5
  <2>9. CASE i \notin new
    <3>1. i \in DOMAIN items \ {l.id}
      BY <1>30, <2>9
    <3>2. PICK z \in ItemRows : z = items[i]
      BY <1>1, <3>1
    <3>3. items'[i] = [z EXCEPT !.qty = @ + (u + v) - d]
      BY <1>27, <2>2, <2>3, <2>6, <2>9, <3>1, <3>2
    <3>4. items'[i].qty = z.qty + (u + v) - d /\ z.qty \in Nat
      BY <3>3 DEF ItemRows
    <3> QED BY <2>4, <2>5, <2>7, <3>1, <3>2, <3>4
  <2> QED BY <2>8, <2>9
<1>40. SaleView(buyer, l, owner, G, H, price, h)
  <2>1. h = IF G = {} THEN newId ELSE newId + 1
    BY <1>1, <1>12, <1>14
  <2>2. n = items[l.id].qty
    BY <1>4 DEF Qty
  <2> QED BY <1>6, <1>7, <1>8, <1>9, <1>37, <1>38, <1>39, <2>1, <2>2 DEF SaleView
<1> QED BY <1>36, <1>40

-----------------------------------------------------------------------------
(* A purchase keeps the homes *)

\* The rows a purchase makes.
LEMMA MadeRows ==
  ASSUME Homes, NEW buyer \in Charas, NEW owner \in Charas, NEW l, NEW G, NEW H, PurchaseView(buyer, l, owner, G, H)
  PROVE  /\ \A x \in G : /\ x \in BagRows /\ x.chara = owner /\ x.pkg = "currency" /\ x.id = newId
                         /\ x.slot <= newId /\ G = {x} /\ newId < newId'
                         /\ \A y \in bag : ~(y.pkg = "currency" /\ y.chara = owner)
         /\ \A x \in H : /\ x \in BagRows /\ x.chara = buyer /\ x.pkg = "normal" /\ H = {x}
                         /\ x.id >= newId /\ x.id < newId' /\ x.slot < newId'
                         /\ \A y \in bag : y.pkg = "normal" /\ y.chara = buyer => y.slot # x.slot
         /\ \A x \in G, y \in H : x.id # y.id
         /\ newId' \in Nat /\ newId <= newId'
<1>1. TypeOK /\ HomeInv /\ newId \in Nat \ {0}
  BY DEF Homes, TypeOK
<1>2. newId' = newId + (IF G = {} THEN 0 ELSE 1) + (IF H = {} THEN 0 ELSE 1)
  BY DEF PurchaseView
<1>3. newId' \in Nat /\ newId <= newId' /\ (G # {} => newId < newId') /\ (H # {} => (IF G = {} THEN newId ELSE newId + 1) < newId')
  BY <1>1, <1>2
<1>4. \A y \in bag : y.slot \in Nat
  BY <1>1 DEF TypeOK, BagRows
<1>5. ASSUME NEW x \in G
      PROVE  /\ x \in BagRows /\ x.chara = owner /\ x.pkg = "currency" /\ x.id = newId
             /\ x.slot <= newId /\ G = {x} /\ \A y \in bag : ~(y.pkg = "currency" /\ y.chara = owner)
  <2>1. GilRow(owner) = {} /\ G = {BagRow(owner, "currency", newId, NextSlot(owner, "currency"))}
    BY DEF PurchaseView
  <2>2. PICK s \in Nat : s = NextSlot(owner, "currency") /\ s <= newId
    BY <1>1, SlotFacts DEF HomeInv
  <2>3. x = BagRow(owner, "currency", newId, s) /\ G = {x}
    BY <2>1, <2>2
  <2>4. "currency" \in Packages
    BY DEF Packages
  <2>5. \A y \in bag : ~(y.pkg = "currency" /\ y.chara = owner)
    BY <1>1, <2>1, RowFacts DEF HomeInv, OneGil, GilRow
  <2> QED BY <1>1, <2>2, <2>3, <2>4, <2>5, BagRowFacts
<1>6. ASSUME NEW x \in H
      PROVE  /\ x \in BagRows /\ x.chara = buyer /\ x.pkg = "normal" /\ H = {x}
             /\ x.id = (IF G = {} THEN newId ELSE newId + 1) /\ x.slot <= newId
             /\ \A y \in bag : y.pkg = "normal" /\ y.chara = buyer => y.slot # x.slot
  <2>1. PICK h \in Nat : h = IF G = {} THEN newId ELSE newId + 1
    BY <1>1
  <2>2. H = {BagRow(buyer, "normal", h, NextSlot(buyer, "normal"))}
    BY <2>1 DEF PurchaseView
  <2>3. PICK s \in Nat : s = NextSlot(buyer, "normal") /\ s <= newId /\ \A y \in bag : y.chara = buyer /\ y.pkg = "normal" => y.slot < s
    BY <1>1, SlotFacts DEF HomeInv
  <2>4. x = BagRow(buyer, "normal", h, s) /\ H = {x}
    BY <2>2, <2>3
  <2>5. "normal" \in Packages
    BY DEF Packages
  <2>6. x \in BagRows /\ x.chara = buyer /\ x.pkg = "normal" /\ x.id = h /\ x.slot = s
    BY <2>4, <2>5, BagRowFacts
  <2>7. \A y \in bag : y.pkg = "normal" /\ y.chara = buyer => y.slot # x.slot
    BY <1>4, <2>3, <2>6
  <2> QED BY <2>1, <2>3, <2>4, <2>6, <2>7
<1>7. \A x \in H : x.id >= newId /\ x.id < newId' /\ x.slot < newId'
  <2> TAKE x \in H
  <2>1. x.id = (IF G = {} THEN newId ELSE newId + 1) /\ x.slot <= newId /\ x.slot \in Nat
    BY <1>6 DEF BagRows
  <2>2. PICK i \in Nat, s \in Nat : i = x.id /\ s = x.slot
    BY <1>1, <2>1
  <2> QED BY <1>1, <1>3, <2>1, <2>2
<1>8. \A x \in G, y \in H : x.id # y.id
  <2> TAKE x \in G, y \in H
  <2>1. y.id = newId + 1 /\ x.id = newId
    BY <1>5, <1>6
  <2> QED BY <1>1, <2>1
<1> QED BY <1>3, <1>5, <1>6, <1>7, <1>8

\* purchase_retainer_bazaar_item.
LEMMA HomePurchase ==
  ASSUME Homes, NEW buyer \in Charas, NEW l \in bazaar, NEW owner \in Charas, Purchase(buyer, l, owner)
  PROVE  Homes'
<1>1. TypeOK /\ HomeInv /\ ReadInv /\ newId \in Nat \ {0}
  BY DEF Homes, TypeOK
<1>2. PICK G, H : PurchaseView(buyer, l, owner, G, H)
  BY PurchaseFacts
<1>3. /\ \A x \in G : /\ x \in BagRows /\ x.chara = owner /\ x.pkg = "currency" /\ x.id = newId
                      /\ x.slot <= newId /\ G = {x} /\ newId < newId'
                      /\ \A y \in bag : ~(y.pkg = "currency" /\ y.chara = owner)
      /\ \A x \in H : /\ x \in BagRows /\ x.chara = buyer /\ x.pkg = "normal" /\ H = {x}
                      /\ x.id >= newId /\ x.id < newId' /\ x.slot < newId'
                      /\ \A y \in bag : y.pkg = "normal" /\ y.chara = buyer => y.slot # x.slot
      /\ \A x \in G, y \in H : x.id # y.id
      /\ newId' \in Nat /\ newId <= newId'
  BY <1>2, MadeRows
<1>4. /\ DOMAIN items' = (DOMAIN items \ {l.id}) \cup {x.id : x \in G \cup H}
      /\ items' \in [DOMAIN items' -> ItemRows]
      /\ \A i \in DOMAIN items \ {l.id} : items'[i].kind = items[i].kind
      /\ (\A x \in G : items'[x.id].kind = Gil)
      /\ bag' = bag \cup (G \cup H) /\ bazaar' = bazaar \ {l} /\ stored' = stored
      /\ task' = Contested(buyer, items[l.id].kind, {})
  BY <1>2 DEF PurchaseView
<1>5. task' \in [Tasks -> {Idle} \cup Removals] /\ \A t \in Tasks : Kept(t)
  BY <1>1, <1>4, ContestedKeeps
<1>6. \A x \in G \cup H : x \in BagRows /\ x.id \in Nat /\ x.slot \in Nat /\ x.id >= newId /\ x.id < newId' /\ x.slot < newId' /\ x.id \in DOMAIN items'
  <2> TAKE x \in G \cup H
  <2>1. x \in BagRows /\ x.id \in Nat /\ x.slot \in Nat
    BY <1>3 DEF BagRows
  <2>2. PICK i \in Nat, s \in Nat : i = x.id /\ s = x.slot
    BY <2>1
  <2>3. i >= newId /\ i < newId' /\ s < newId'
    BY <1>1, <1>3, <2>2
  <2> QED BY <1>4, <2>1, <2>2, <2>3
<1>7. \A i \in DOMAIN items' : i \in Nat /\ i >= 1 /\ i <= newId' - 1 /\ (i < newId => i \in DOMAIN items \ {l.id})
  <2> TAKE i \in DOMAIN items'
  <2>1. CASE i \in DOMAIN items \ {l.id}
    <3>1. i \in Nat /\ i >= 1 /\ i < newId
      BY <1>1, <2>1 DEF TypeOK
    <3> QED BY <1>1, <1>3, <2>1, <3>1
  <2>2. CASE \E x \in G \cup H : i = x.id
    BY <1>1, <1>3, <1>6, <2>2
  <2> QED BY <1>4, <2>1, <2>2
<1>8. TypeOK'
  <2>1. newId' \in Nat \ {0}
    BY <1>1, <1>3
  <2>2. DOMAIN items' \subseteq 1..(newId' - 1)
    BY <1>3, <1>7
  <2> QED BY <1>1, <1>4, <1>5, <1>6, <2>1, <2>2 DEF TypeOK
<1>9. bag' \ bag \subseteq G \cup H /\ Fresh \subseteq G \cup H
  BY <1>4 DEF Fresh
<1>10. \A x \in Fresh : x.id >= newId /\ x.id \in DOMAIN items'
  BY <1>6, <1>9
<1>11. \A x, y \in Fresh : x.id = y.id => x = y
  <2>1. \A x, y \in G \cup H : x.id = y.id => x = y
    BY <1>3
  <2> QED BY <1>9, <2>1
<1>12. \A x \in Containers : x \in Containers' => x.id \in DOMAIN items'
  <2> SUFFICES ASSUME NEW x \in Containers, x \in Containers' PROVE x.id \in DOMAIN items'
    OBVIOUS
  <2>1. x.id \in DOMAIN items /\ l \in Containers
    BY <1>1, <1>2 DEF HomeInv, OneHome, PurchaseView, Containers
  <2>2. CASE x # l
    <3>1. x.id # l.id
      BY <1>1, <2>1, <2>2 DEF HomeInv, OneHome
    <3> QED BY <1>4, <2>1, <3>1
  <2>3. CASE x = l
    <3>1. x \notin bag' /\ x \notin stored'
      BY <1>4, <1>8, <1>1, <2>3, Distinct DEF TypeOK, BagRows, StoredRows, Listings
    <3>2. x \in bazaar'
      BY <3>1 DEF Containers
    <3> QED BY <1>4, <2>3, <3>2
  <2> QED BY <2>2, <2>3
<1>13. \A i \in DOMAIN items : i \in DOMAIN items' => items'[i].kind = items[i].kind
  <2> TAKE i \in DOMAIN items
  <2>1. i < newId
    BY <1>1, ItemFacts
  <2> QED BY <1>4, <1>7, <2>1
<1>14. \A x \in bag' \ bag :
            /\ x.slot < newId'
            /\ \A y \in bag : y.chara = x.chara /\ y.pkg = x.pkg => y.slot # x.slot
            /\ \A y \in bag' \ bag : y.chara = x.chara /\ y.pkg = x.pkg /\ y.slot = x.slot => y = x
            /\ x.pkg = "currency" =>
                 /\ items'[x.id].kind = Gil
                 /\ \A y \in bag : ~(y.pkg = "currency" /\ y.chara = x.chara)
                 /\ \A y \in bag' \ bag : y.pkg = "currency" /\ y.chara = x.chara => y = x
  <2> TAKE x \in bag' \ bag
  <2>1. x.slot < newId'
    BY <1>6, <1>9
  <2>2. CASE x \in G
    <3>1. x.chara = owner /\ x.pkg = "currency" /\ G = {x} /\ \A y \in bag : ~(y.pkg = "currency" /\ y.chara = owner)
      BY <1>3, <2>2
    <3>2. \A y \in H : y.pkg = "normal"
      BY <1>3
    <3>3. \A y \in bag' \ bag : y.pkg = "currency" => y = x
      BY <1>9, <3>1, <3>2
    <3> QED BY <1>4, <2>1, <2>2, <3>1, <3>3
  <2>3. CASE x \in H
    <3>1. x.chara = buyer /\ x.pkg = "normal" /\ H = {x} /\ \A y \in bag : y.pkg = "normal" /\ y.chara = buyer => y.slot # x.slot
      BY <1>3, <2>3
    <3>2. \A y \in G : y.pkg = "currency"
      BY <1>3
    <3>3. \A y \in bag' \ bag : y.pkg = "normal" => y = x
      BY <1>9, <3>1, <3>2
    <3> QED BY <2>1, <3>1, <3>3
  <2> QED BY <1>9, <2>2, <2>3
<1>15. HomeInv'
  BY <1>1, <1>3, <1>8, <1>10, <1>11, <1>12, <1>13, <1>14, HomeStep
<1>16. \A i \in DOMAIN items' : i < newId => i \in DOMAIN items /\ items'[i].kind = items[i].kind
  BY <1>4, <1>7
<1>17. \A t \in Tasks : task'[t] # Idle =>
            /\ task[t] # Idle /\ task'[t].rows \subseteq task[t].rows
            /\ task'[t].chara = task[t].chara /\ task'[t].kind = task[t].kind
  BY <1>5 DEF Kept
<1>18. ReadInv'
  BY <1>1, <1>3, <1>8, <1>10, <1>16, <1>17, ReadStep
<1> QED BY <1>8, <1>15, <1>18 DEF Homes

-----------------------------------------------------------------------------
(* Removals stay exact *)

\* A removal still undisturbed after a write to the stacks of (c, k) is of other stacks.
LEMMA ContestedClean ==
  ASSUME TypeOK, NEW c, NEW k, task' = Contested(c, k, {})
  PROVE  \A t \in Tasks : task'[t] # Idle /\ task'[t].clean => Kept(t) /\ (task[t].chara # c \/ task[t].kind # k)
<1>1. PICK N : N = Contested(c, k, {})
  OBVIOUS
<1>2. /\ N \in [Tasks -> {Idle} \cup Removals]
      /\ \A t \in Tasks : /\ task[t] = Idle => N[t] = Idle
                          /\ task[t] # Idle => (N[t].clean => task[t].clean /\ (task[t].chara # c \/ task[t].kind # k))
  BY <1>1, ContestedFacts
<1>3. task' = N /\ \A t \in Tasks : Kept(t)
  BY <1>1, ContestedKeeps
<1> TAKE t \in Tasks
<1>4. task'[t] = N[t]
  BY <1>3
<1> QED BY <1>2, <1>3, <1>4, Zenon

\* A grant of goods changes no stacks but those it contests.
LEMMA ExactHarvest ==
  ASSUME Homes, Homes', ExactInv, NEW c \in Charas, NEW k \in Goods, NEW N \in Nat, NEW s, HarvestView(c, k, N, s)
  PROVE  ExactInv'
<1>1. /\ DOMAIN items' = DOMAIN items \cup {newId + j - 1 : j \in 1..N}
      /\ \A i \in DOMAIN items :
           /\ items'[i].kind = items[i].kind
           /\ (\A r \in Rows(c, "normal", k) : r.id # i) => items'[i].qty = items[i].qty
      /\ \A j \in 1..N : items'[newId + j - 1].kind = k
      /\ bag' = bag \cup {BagRow(c, "normal", newId + j - 1, s + j - 1) : j \in 1..N}
      /\ task' = Contested(c, k, {})
  BY DEF HarvestView
<1>2. ASSUME NEW d, NEW m, d # c \/ m # k
      PROVE  RowsKept(d, m)
  <2>1. ASSUME NEW x \in bag, x.pkg = "normal", x.chara = d, items[x.id].kind = m
        PROVE  x \in bag' /\ items'[x.id].kind = m /\ items'[x.id].qty = items[x.id].qty
    <3>1. x \notin Rows(c, "normal", k)
      BY <1>2, <2>1, RowFacts
    <3>2. \A r \in Rows(c, "normal", k) : r.id # x.id
      BY <3>1, RowFacts DEF Homes, HomeInv, OneHome, Containers
    <3>3. x.id \in DOMAIN items
      BY RowFacts
    <3> QED BY <1>1, <2>1, <3>2, <3>3
  <2>2. ASSUME NEW x \in bag', x.pkg = "normal", x.chara = d, items'[x.id].kind = m
        PROVE  x \in bag /\ items[x.id].kind = m
    <3>1. CASE x \in bag
      <4>1. x.id \in DOMAIN items
        BY <3>1, RowFacts
      <4> QED BY <1>1, <2>2, <3>1, <4>1
    <3>2. CASE x \notin bag
      <4>1. PICK j \in 1..N : x = BagRow(c, "normal", newId + j - 1, s + j - 1)
        BY <1>1, <3>2
      <4>2. x.chara = c /\ x.id = newId + j - 1
        BY <4>1, BagRowFacts
      <4> QED BY <1>1, <1>2, <2>2, <4>2
    <3> QED BY <3>1, <3>2
  <2> QED BY <2>1, <2>2, SameRows
<1>3. \A t \in Tasks : task'[t] # Idle /\ task'[t].clean => Kept(t) /\ RowsKept(task[t].chara, task[t].kind)
  BY <1>1, <1>2, ContestedClean DEF Homes
<1> QED BY <1>3, ExactStep

\* A purchase changes no stacks but those it contests.
LEMMA ExactPurchase ==
  ASSUME Homes, Homes', ExactInv, NEW buyer \in Charas, NEW owner \in Charas, NEW l \in bazaar,
         NEW G, NEW H, PurchaseView(buyer, l, owner, G, H)
  PROVE  ExactInv'
<1>1. PICK k : k = items[l.id].kind
  OBVIOUS
<1>2. /\ \A i \in DOMAIN items \ {l.id} :
           /\ items'[i].kind = items[i].kind
           /\ (\A r \in Rows(buyer, "normal", k) \cup GilRow(owner) \cup GilRow(buyer) : r.id # i) => items'[i].qty = items[i].qty
      /\ \A x \in H : items'[x.id].kind = k
      /\ bag' = bag \cup G \cup H
      /\ task' = Contested(buyer, k, {})
  BY <1>1 DEF PurchaseView
<1>3. (\A x \in G : x.pkg = "currency") /\ (\A x \in H : x.chara = buyer)
  BY MadeRows
<1>4. \A x \in bag : x.id \in DOMAIN items \ {l.id}
  <2> TAKE x \in bag
  <2>1. x # l
    BY Distinct DEF Homes
  <2> QED BY <2>1 DEF Homes, HomeInv, OneHome, Containers
<1>5. ASSUME NEW d, NEW m, d # buyer \/ m # k
      PROVE  RowsKept(d, m)
  <2>1. ASSUME NEW x \in bag, x.pkg = "normal", x.chara = d, items[x.id].kind = m
        PROVE  x \in bag' /\ items'[x.id].kind = m /\ items'[x.id].qty = items[x.id].qty
    <3>1. x \notin Rows(buyer, "normal", k)
      BY <1>5, <2>1, RowFacts
    <3>2. \A r \in Rows(buyer, "normal", k) : r.id # x.id
      BY <3>1, RowFacts DEF Homes, HomeInv, OneHome, Containers
    <3>3. \A r \in GilRow(owner) \cup GilRow(buyer) : r \in bag /\ r.pkg = "currency"
      BY RowFacts DEF GilRow
    <3>4. \A r \in GilRow(owner) \cup GilRow(buyer) : r.id # x.id
      BY <2>1, <3>3 DEF Homes, HomeInv, OneHome, Containers
    <3> QED BY <1>2, <1>4, <2>1, <3>2, <3>4
  <2>2. ASSUME NEW x \in bag', x.pkg = "normal", x.chara = d, items'[x.id].kind = m
        PROVE  x \in bag /\ items[x.id].kind = m
    <3>1. CASE x \in bag
      BY <1>2, <1>4, <2>2, <3>1
    <3>2. CASE x \notin bag
      BY <1>2, <1>3, <1>5, <2>2, <3>2
    <3> QED BY <3>1, <3>2
  <2> QED BY <2>1, <2>2, SameRows
<1>6. \A t \in Tasks : task'[t] # Idle /\ task'[t].clean => Kept(t) /\ RowsKept(task[t].chara, task[t].kind)
  BY <1>2, <1>5, ContestedClean DEF Homes
<1> QED BY <1>6, ExactStep

\* Removals end, the tables stay.
LEMMA ExactTaskOnly ==
  ASSUME Homes, Homes', ExactInv, UNCHANGED <<items, bag>>,
         \A u \in Tasks : task'[u] = task[u] \/ task'[u] = Idle
  PROVE  ExactInv'
<1>1. ASSUME NEW c, NEW k PROVE RowsKept(c, k)
  BY SameRows
<1>2. \A t \in Tasks : task'[t] # Idle /\ task'[t].clean => Kept(t) /\ RowsKept(task[t].chara, task[t].kind)
  BY <1>1 DEF Kept
<1> QED BY <1>2, ExactStep

\* A removal that begins has read its stacks and takes nothing yet.
LEMMA ExactRead ==
  ASSUME Homes, Homes', ExactInv, NEW t \in Tasks, NEW c \in Charas, NEW k \in Goods, NEW n \in Nat, RemoveRead(t, c, k, n)
  PROVE  ExactInv'
<1>1. /\ task[t] = Idle /\ UNCHANGED tables
      /\ task' \in [Tasks -> {Idle} \cup Removals] /\ \A u \in Tasks \ {t} : task'[u] = task[u]
      /\ task'[t].chara = c /\ task'[t].kind = k /\ task'[t].left = n /\ task'[t].rows = Seen(Rows(c, "normal", k))
      /\ task'[t].due = Max({0, Total(Rows(c, "normal", k)) - n}) /\ task'[t] # Idle
  BY ReadView
<1>2. items' = items /\ bag' = bag
  BY <1>1 DEF tables
<1>3. ASSUME NEW d, NEW m
      PROVE  /\ Seen(Rows(d, "normal", m))' = Seen(Rows(d, "normal", m))
             /\ Total(Rows(d, "normal", m))' = Total(Rows(d, "normal", m))
  <2>1. RowsKept(d, m)
    BY <1>2, SameRows
  <2> QED BY <2>1, SameTotal
<1> SUFFICES ASSUME NEW u \in Tasks, NEW d \in Charas, NEW m \in Goods, task'[u] # Idle, task'[u].clean,
                    task'[u].chara = d, task'[u].kind = m
             PROVE  Exact(u, d, m)'
  BY DEF ExactInv
<1>4. CASE u = t
  <2>1. d = c /\ m = k
    BY <1>1, <1>4
  <2> QED BY <1>1, <1>3, <1>4, <2>1 DEF Exact
<1>5. CASE u # t
  <2>1. task'[u] = task[u]
    BY <1>1, <1>5
  <2>2. Exact(u, d, m)
    BY <2>1 DEF ExactInv
  <2> QED BY <1>3, <2>1, <2>2 DEF Exact
<1> QED BY <1>4, <1>5

\* The rows of one kind in one package after a step.
LEMMA RowsAfter ==
  ASSUME Homes', NEW c, NEW pkg, NEW k
  PROVE  \A x : x \in Rows(c, pkg, k)' <=> x \in bag' /\ x.chara = c /\ x.pkg = pkg /\ items'[x.id].kind = k
<1>1. \A x \in bag' : x.id \in DOMAIN items'
  BY DEF Homes, HomeInv, OneHome, Containers
<1> QED BY <1>1 DEF Rows

\* A removal and the bag it takes from: what the other stacks are afterwards.
LEMMA RemoveElsewhere ==
  ASSUME Homes, Homes', NEW t \in Tasks, NEW r, RemoveView(t, r), Writes(t, r) \/ Drops(t, r),
         NEW d, NEW m, task[t].chara # d \/ task[t].kind # m
  PROVE  RowsKept(d, m)
<1>1. TypeOK /\ task[t] # Idle /\ r \in task[t].rows
  BY DEF Homes, RemoveView
<1>2. \A x \in bag : x.id = r.id => x.chara = task[t].chara /\ x.pkg = "normal" /\ items[x.id].kind = task[t].kind
  BY <1>1, RowFacts DEF Homes, ReadInv
<1>3. task[t].left \in Nat /\ r.qty \in Nat
  BY <1>1, TaskFacts DEF ReadRows
<1>4. \A x \in bag : x.id \in DOMAIN items
  BY RowFacts
<1>5. bag' \subseteq bag /\ \A x \in bag : x.id # r.id => x \in bag'
  BY DEF Writes, Drops
<1>6. \A i \in DOMAIN items : items'[i].kind = items[i].kind /\ (i # r.id => items'[i].qty = items[i].qty)
  <2>1. CASE UNCHANGED items
    BY <2>1
  <2>2. CASE r.id \in DOMAIN items /\ r.qty > task[t].left /\ items' = [items EXCEPT ![r.id].qty = r.qty - task[t].left]
    <3>1. PICK n \in Nat : n = r.qty - task[t].left
      BY <1>3, <2>2
    <3> QED BY <1>1, <2>2, <3>1, SetQty
  <2> QED BY <2>1, <2>2 DEF Writes, Drops
<1>7. ASSUME NEW x \in bag, x.pkg = "normal", x.chara = d, items[x.id].kind = m
      PROVE  x \in bag' /\ items'[x.id].kind = m /\ items'[x.id].qty = items[x.id].qty
  <2>1. x.id # r.id
    BY <1>2, <1>7
  <2> QED BY <1>4, <1>5, <1>6, <1>7, <2>1
<1>8. ASSUME NEW x \in bag', x.pkg = "normal", x.chara = d, items'[x.id].kind = m
      PROVE  x \in bag /\ items[x.id].kind = m
  BY <1>4, <1>5, <1>6, <1>8
<1> QED BY <1>7, <1>8, SameRows

\* A removal that was undisturbed stays exact.
LEMMA RemoveExact ==
  ASSUME Homes, Homes', NEW t \in Tasks, NEW r, RemoveView(t, r), Writes(t, r) \/ Drops(t, r),
         NEW c \in Charas, NEW k \in Goods, task[t].chara = c, task[t].kind = k, Exact(t, c, k)
  PROVE  Exact(t, c, k)'
<1> DEFINE R == Rows(c, "normal", k)
<1>1. TypeOK /\ task[t] # Idle /\ r \in task[t].rows /\ task[t].left > 0 /\ task'[t].rows = task[t].rows \ {r} /\ task'[t].due = task[t].due
  BY DEF Homes, RemoveView
<1>2. task[t].left \in Nat /\ r.qty \in Nat
  BY <1>1, TaskFacts DEF ReadRows
<1>3. PICK m \in Nat : m = task[t].left
  BY <1>2
<1>4. task[t].rows = Seen(R) /\ task[t].due = Max({0, Total(R) - m})
  BY <1>1, <1>3 DEF Exact
<1>5. PICK x \in R : r = [id |-> x.id, slot |-> x.slot, qty |-> Qty(x)]
  BY <1>1, <1>4, SeenFacts
<1>6. r.id = x.id /\ r.slot = x.slot /\ r.qty = Qty(x)
  BY <1>5
<1>7. /\ R \in SUBSET bag /\ R \in SUBSET Containers
      /\ \A y : y \in R <=> y \in bag /\ y.chara = c /\ y.pkg = "normal" /\ items[y.id].kind = k
      /\ \A y \in bag : y.id \in DOMAIN items
  BY RowFacts
<1>8. IsFiniteSet(R) /\ \A y \in R : Qty(y) \in Nat
  BY <1>7, TotalFacts DEF Homes, HomeInv
<1>9. \A y \in R : y.id = x.id => y = x
  BY <1>7 DEF Homes, HomeInv, OneHome, Containers
<1>10. PICK f : f = [y \in R |-> Qty(y)]
  OBVIOUS
<1>11. f \in [R -> Nat] /\ Total(R) = SumFunction(f) /\ f[x] = r.qty
  BY <1>6, <1>8, <1>10 DEF Total
<1>12. \A y : y \in Rows(c, "normal", k)' <=> y \in bag' /\ y.chara = c /\ y.pkg = "normal" /\ items'[y.id].kind = k
  BY RowsAfter
<1>13. ASSUME Writes(t, r) PROVE Exact(t, c, k)'
  <2>1. /\ r.qty > m /\ task'[t].left = 0 /\ bag' = bag
        /\ items' = [items EXCEPT ![x.id].qty = r.qty - m]
    BY <1>3, <1>6, <1>7, <1>13 DEF Writes
  <2>2. PICK n \in Nat : n = r.qty - m
    BY <1>2, <2>1
  <2>3. \A i \in DOMAIN items : items'[i].kind = items[i].kind /\ items'[i].qty = IF i = x.id THEN n ELSE items[i].qty
    BY <1>1, <1>7, <2>1, <2>2, SetQty
  <2>4. Rows(c, "normal", k)' = R
    <3>1. \A y : y \in Rows(c, "normal", k)' <=> y \in R
      BY <1>7, <1>12, <2>1, <2>3
    <3> QED BY <3>1 DEF Rows
  <2>5. PICK g : g = [y \in R |-> items'[y.id].qty]
    OBVIOUS
  <2>6. Total(Rows(c, "normal", k))' = SumFunction(g)
    BY <2>4, <2>5 DEF Total, Qty
  <2>7. g \in [R -> Nat] /\ g[x] = f[x] - m /\ \A y \in R \ {x} : g[y] = f[y]
    BY <1>7, <1>8, <1>9, <1>10, <1>11, <2>2, <2>3, <2>5 DEF Qty
  <2>8. SumFunction(f) \in Nat /\ SumFunction(f) > m /\ SumFunction(g) = SumFunction(f) - m
    <3> HIDE DEF R
    <3> QED BY <1>8, <1>11, <2>1, <2>7, TotalLowered
  <2>9. PICK a \in Nat, b \in Nat : a = SumFunction(f) /\ b = SumFunction(g) /\ b = a - m
    BY <2>8
  <2>10. Max({0, a - m}) = b /\ Max({0, b}) = b
    <3>1. {0, a - m} = {0, b}
      BY <2>9
    <3>2. Max({0, b}) = IF 0 >= b THEN 0 ELSE b
      BY MaxOfTwo
    <3>3. Max({0, b}) = b
      BY <3>2
    <3> QED BY <3>1, <3>3
  <2>11. task[t].due = b
    BY <1>4, <1>11, <2>9, <2>10
  <2>12. Total(Rows(c, "normal", k))' = b
    BY <2>6, <2>9
  <2>13. {0, Total(Rows(c, "normal", k))' - task'[t].left} = {0, b}
    BY <2>1, <2>12
  <2>14. task'[t].due = Max({0, Total(Rows(c, "normal", k))' - task'[t].left})
    BY <1>1, <2>10, <2>11, <2>13
  <2> QED BY <2>1, <2>14 DEF Exact
<1>14. ASSUME Drops(t, r) PROVE Exact(t, c, k)'
  <2>1. /\ r.qty <= m /\ task'[t].left = m - r.qty /\ items' = items
        /\ bag' = {y \in bag : ~(y.chara = c /\ y.id = x.id)}
    BY <1>3, <1>6, <1>14 DEF Drops
  <2>2. Rows(c, "normal", k)' = R \ {x}
    <3>1. \A y : y \in Rows(c, "normal", k)' <=> y \in R \ {x}
      BY <1>7, <1>9, <1>12, <2>1
    <3> QED BY <3>1 DEF Rows
  <2>3. PICK g : g = [y \in R \ {x} |-> f[y]]
    OBVIOUS
  <2>4. g = [y \in R \ {x} |-> items'[y.id].qty]
    BY <1>10, <2>1, <2>3 DEF Qty
  <2>5. Total(Rows(c, "normal", k))' = SumFunction(g)
    BY <2>2, <2>4 DEF Total, Qty
  <2>6. SumFunction(f) \in Nat /\ SumFunction(g) \in Nat /\ SumFunction(f) = SumFunction(g) + f[x]
    <3> HIDE DEF R
    <3> QED BY <1>8, <1>11, <2>3, TotalDropped
  <2>7. Total(R) - m = SumFunction(g) - task'[t].left
    BY <1>2, <1>11, <2>1, <2>6
  <2>8. task'[t].due = Max({0, Total(Rows(c, "normal", k))' - task'[t].left})
    BY <1>1, <1>4, <2>5, <2>7
  <2>9. Seen(Rows(c, "normal", k))' = Seen(R) \ {r}
    <3>1. Seen(Rows(c, "normal", k))' = {[id |-> y.id, slot |-> y.slot, qty |-> items[y.id].qty] : y \in R \ {x}}
      BY <2>1, <2>2 DEF Seen, Qty
    <3>2. Seen(R) = {[id |-> y.id, slot |-> y.slot, qty |-> items[y.id].qty] : y \in R}
      BY DEF Seen, Qty
    <3>3. \A y \in R \ {x} : [id |-> y.id, slot |-> y.slot, qty |-> items[y.id].qty] # r
      <4> TAKE y \in R \ {x}
      <4>1. y.id # r.id
        BY <1>6, <1>9
      <4> QED BY <4>1
    <3>4. r = [id |-> x.id, slot |-> x.slot, qty |-> items[x.id].qty]
      BY <1>5 DEF Qty
    <3> HIDE DEF R
    <3> QED BY <3>1, <3>2, <3>3, <3>4
  <2> QED BY <1>1, <1>4, <2>8, <2>9 DEF Exact
<1> QED BY <1>13, <1>14

\* A call of a removal keeps its own account, and contests the removals of the same stacks.
LEMMA ExactRemoveRow ==
  ASSUME Homes, Homes', ExactInv, NEW t \in Tasks, RemoveRow(t)
  PROVE  ExactInv'
<1>1. PICK r : RemoveView(t, r) /\ (Writes(t, r) \/ Drops(t, r))
  BY RemoveFacts
<1> SUFFICES ASSUME NEW u \in Tasks, NEW c \in Charas, NEW k \in Goods, task'[u] # Idle, task'[u].clean,
                    task'[u].chara = c, task'[u].kind = k
             PROVE  Exact(u, c, k)'
  BY DEF ExactInv
<1>2. CASE u = t
  <2>1. task[t] # Idle /\ task[t].clean /\ task[t].chara = c /\ task[t].kind = k
    BY <1>1, <1>2, Zenon DEF RemoveView
  <2>2. Exact(t, c, k)
    BY <2>1 DEF ExactInv
  <2>3. Exact(t, c, k)'
    BY <1>1, <2>1, <2>2, RemoveExact
  <2> QED BY <1>2, <2>3
<1>3. CASE u # t
  <2>1. Kept(u) /\ (task[u].chara # task[t].chara \/ task[u].kind # task[t].kind)
    BY <1>1, <1>3, Zenon DEF RemoveView
  <2>2. /\ task[u].chara = c /\ task[u].kind = k /\ task'[u].rows = task[u].rows
        /\ task'[u].left = task[u].left /\ task'[u].due = task[u].due /\ task[u] # Idle /\ task[u].clean
    BY <2>1, Zenon DEF Kept
  <2>3. Exact(u, c, k)
    BY <2>2 DEF ExactInv
  <2>4. RowsKept(c, k)
    BY <1>1, <2>1, <2>2, RemoveElsewhere
  <2>5. /\ Seen(Rows(c, "normal", k))' = Seen(Rows(c, "normal", k))
        /\ Total(Rows(c, "normal", k))' = Total(Rows(c, "normal", k))
    BY <2>4, SameTotal
  <2> QED BY <2>2, <2>3, <2>5 DEF Exact
<1> QED BY <1>2, <1>3

-----------------------------------------------------------------------------
(* The invariant holds *)

ItemInv == Homes /\ ExactInv

\* The inductive invariant: at the start, in each group of actions, and in every step.
LEMMA InvInit == Init => ItemInv
<1> SUFFICES ASSUME Init PROVE ItemInv
  OBVIOUS
<1>1. items = <<>> /\ newId = 1 /\ bag = {} /\ stored = {} /\ bazaar = {} /\ task = [t \in Tasks |-> Idle]
  BY DEF Init
<1>2. DOMAIN items = {}
  BY <1>1
<1>3. items \in [DOMAIN items -> ItemRows]
  <2>1. items = [i \in DOMAIN items |-> items[i]]
    BY <1>1
  <2> QED BY <1>2, <2>1
<1>4. TypeOK
  BY <1>1, <1>2, <1>3 DEF TypeOK
<1>5. HomeInv
  BY <1>1 DEF HomeInv, OneHome, SlotsBelow, OneGil, Containers
<1>6. \A t \in Tasks : task[t] = Idle
  BY <1>1
<1> QED BY <1>4, <1>5, <1>6 DEF ItemInv, Homes, ReadInv, ExactInv

\* Grants keep it.
LEMMA GrantInv == ItemInv /\ Grant => ItemInv'
<1> SUFFICES ASSUME ItemInv, Grant PROVE ItemInv'
  OBVIOUS
<1>1. Homes /\ ExactInv
  BY DEF ItemInv
<1>2. ASSUME NEW c \in Charas, NEW k \in Goods \cup KeyItems, NEW n \in Nat, NEW pkg, AddItem(c, pkg, k, n) PROVE ItemInv'
  <2>1. CASE AddGil(c, n)
    BY <1>1, <2>1, HomeGil DEF ItemInv
  <2>2. CASE k \in KeyItems /\ AddKeyItem(c, k)
    BY <1>1, <2>2, HomeKeyItem DEF ItemInv
  <2>3. CASE k \in Goods /\ AddHarvestItem(c, k, n)
    <3>1. Homes'
      BY <1>1, <2>3, HomeHarvest
    <3>2. PICK N \in Nat : HarvestView(c, k, N, NextSlot(c, "normal"))
      BY <1>1, <2>3, HarvestFacts
    <3>3. PICK s : s = NextSlot(c, "normal")
      OBVIOUS
    <3>4. HarvestView(c, k, N, s)
      BY <3>2, <3>3
    <3> QED BY <1>1, <2>3, <3>1, <3>4, ExactHarvest DEF ItemInv
  <2> QED BY <1>2, <2>1, <2>2, <2>3 DEF AddItem
<1>3. ASSUME NEW c \in Charas, NEW d \in Int, AddGil(c, d) PROVE ItemInv'
  BY <1>1, <1>3, HomeGil DEF ItemInv
<1>4. PICK c \in Charas :
        \/ \E pkg \in Packages, k \in Goods \cup KeyItems, n \in Amounts : AddItem(c, pkg, k, n)
        \/ \E d \in GilDeltas : AddGil(c, d) \/ AddGil(c, -d)
  BY DEF Grant
<1>5. (\A n \in Amounts : n \in Nat) /\ (\A d \in GilDeltas : d \in Int /\ -d \in Int)
  BY Bounds
<1> QED BY <1>2, <1>3, <1>4, <1>5

\* Retainers, bazaars and purchases keep it.
LEMMA TradeInv == ItemInv /\ Trade => ItemInv'
<1> SUFFICES ASSUME ItemInv, Trade PROVE ItemInv'
  OBVIOUS
<1>1. Homes /\ ExactInv
  BY DEF ItemInv
<1>2. ASSUME NEW r \in Retainers, NEW k \in Goods, NEW n \in Amounts, AddItemToRetainer(r, k, n) PROVE ItemInv'
  BY <1>1, <1>2, Bounds, HomeStored DEF ItemInv
<1>3. ASSUME NEW r \in Retainers, NEW k \in Goods, NEW n \in Amounts, NEW p \in Prices, AddRetainerBazaarItem(r, k, n, p) PROVE ItemInv'
  BY <1>1, <1>3, Bounds, HomeListed DEF ItemInv
<1>4. ASSUME NEW c \in Charas, NEW r \in Retainers, HireRetainer(c, r) \/ DismissRetainer(c, r) PROVE ItemInv'
  <2>1. UNCHANGED <<items, newId, bag, stored, bazaar, task>>
    BY <1>4 DEF HireRetainer, DismissRetainer
  <2>2. Homes'
    BY <1>1, <2>1, HomeOtherTask DEF Homes, TypeOK
  <2> QED BY <1>1, <2>1, <2>2, ExactTaskOnly DEF ItemInv
<1>5. ASSUME NEW c \in Charas, NEW o \in Charas, NEW l \in bazaar, Purchase(c, l, o) PROVE ItemInv'
  <2>1. Homes'
    BY <1>1, <1>5, HomePurchase
  <2>2. PICK G, H : PurchaseView(c, l, o, G, H)
    BY <1>1, <1>5, PurchaseFacts
  <2> QED BY <1>1, <2>1, <2>2, ExactPurchase DEF ItemInv
<1> QED BY <1>2, <1>3, <1>4, <1>5 DEF Trade

\* Removals and the end of the process keep it.
LEMMA TaskInv == ItemInv /\ (Crash \/ \E t \in Tasks : TaskStep(t)) => ItemInv'
<1> SUFFICES ASSUME ItemInv, Crash \/ \E t \in Tasks : TaskStep(t) PROVE ItemInv'
  OBVIOUS
<1>1. Homes /\ ExactInv
  BY DEF ItemInv
<1>2. ASSUME NEW t \in Tasks, NEW c \in Charas, NEW k \in Goods, NEW n \in Amounts, RemoveRead(t, c, k, n) PROVE ItemInv'
  <2>1. n \in Nat
    BY Bounds
  <2>2. Homes'
    BY <1>1, <1>2, <2>1, HomeRemoveRead
  <2> QED BY <1>1, <1>2, <2>1, <2>2, ExactRead DEF ItemInv
<1>3. ASSUME NEW t \in Tasks, RemoveRow(t) PROVE ItemInv'
  <2>1. Homes'
    BY <1>1, <1>3, HomeRemoveRow
  <2> QED BY <1>1, <1>3, <2>1, ExactRemoveRow DEF ItemInv
<1>4. ASSUME Crash \/ \E t \in Tasks : RemoveDone(t) PROVE ItemInv'
  <2>1. Homes'
    BY <1>1, <1>4, HomeRemoveEnds
  <2>2. task \in [Tasks -> {Idle} \cup Removals]
    BY <1>1 DEF Homes, TypeOK
  <2>3. UNCHANGED <<items, bag>> /\ \A u \in Tasks : task'[u] = task[u] \/ task'[u] = Idle
    BY <1>4, <2>2 DEF Crash, RemoveDone, tables
  <2> QED BY <1>1, <2>1, <2>3, ExactTaskOnly DEF ItemInv
<1> QED BY <1>2, <1>3, <1>4 DEF TaskStep

\* Every step keeps it.
LEMMA InvNext == ItemInv /\ [Next]_vars => ItemInv'
<1> SUFFICES ASSUME ItemInv, [Next]_vars PROVE ItemInv'
  OBVIOUS
<1>1. ASSUME UNCHANGED vars PROVE ItemInv'
  <2>1. UNCHANGED <<items, newId, bag, stored, bazaar, task>>
    BY <1>1 DEF vars, tables
  <2>2. Homes'
    BY <2>1, HomeOtherTask DEF ItemInv, Homes, TypeOK
  <2> QED BY <2>1, <2>2, ExactTaskOnly DEF ItemInv
<1> QED BY <1>1, GrantInv, TradeInv, TaskInv DEF Next

\* The inductive invariant of the item tables holds in every reachable state, for any characters,
\* retainers, kinds, tasks and bounds.
THEOREM InvHolds == Spec => []ItemInv
<1>1. Init => ItemInv
  BY InvInit
<1>2. ItemInv /\ [Next]_vars => ItemInv'
  BY InvNext
<1> QED BY <1>1, <1>2, PTL DEF Spec

\* Every table has its type: quantities and ids are natural numbers, whatever is granted, listed,
\* bought and removed (database.rs add_*_item, purchase_retainer_bazaar_item).
THEOREM TypeCorrectness == Spec => []TypeOK
<1>1. ItemInv => TypeOK
  BY DEF ItemInv, Homes
<1> QED BY <1>1, InvHolds, PTL

\* An item row has one home and a home has its row, and no slot of a bag is used twice:
\* AUTOINCREMENT ids and COALESCE(MAX(slot), -1) + 1 are enough for it, however the calls interleave
\* and wherever the process ends.
THEOREM OneHomeHolds == Spec => []OneHome
<1>1. ItemInv => OneHome
  BY DEF ItemInv, Homes, HomeInv
<1> QED BY <1>1, InvHolds, PTL

\* No quantity a container holds falls below zero: the debit of purchase_retainer_bazaar_item has no
\* clamp, and needs none because buyer_gil is read from the one row it debits.
THEOREM NoDebtHolds == Spec => []NoDebt
<1>1. ItemInv => NoDebt
  <2> SUFFICES ASSUME ItemInv, NEW x \in Containers PROVE Qty(x) >= 0
    BY DEF NoDebt
  <2>1. TypeOK /\ x.id \in DOMAIN items
    BY DEF ItemInv, Homes, HomeInv, OneHome
  <2> QED BY <2>1, ItemFacts DEF Qty
<1> QED BY <1>1, InvHolds, PTL

\* apply_remove_item takes exactly what was asked, or all there was, when no other task wrote to the
\* stacks between its calls.
THEOREM UncontestedRemovalIsExactHolds == Spec => []UncontestedRemovalIsExact
<1>1. ItemInv => UncontestedRemovalIsExact
  <2> SUFFICES ASSUME ItemInv, NEW t \in Tasks, RemoveEnds(t), task[t].clean
               PROVE  Total(Rows(task[t].chara, "normal", task[t].kind)) = task[t].due
    BY DEF UncontestedRemovalIsExact
  <2>1. Homes /\ TypeOK /\ OneHome /\ ExactInv /\ task[t] # Idle
    BY TaskFacts DEF ItemInv, Homes, HomeInv, RemoveEnds
  <2>2. PICK c \in Charas, k \in Goods : c = task[t].chara /\ k = task[t].kind
    BY <2>1, TaskFacts
  <2>3. Exact(t, c, k)
    BY <2>1, <2>2 DEF ExactInv
  <2>4. PICK R : R = Rows(c, "normal", k)
    OBVIOUS
  <2>5. R \in SUBSET Containers
    BY <2>1, <2>4, RowFacts
  <2>6. Total(R) \in Nat
    BY <2>1, <2>5, TotalFacts
  <2>7. PICK m \in Nat : m = task[t].left
    BY <2>1, TaskFacts
  <2>8. /\ m > 0 => task[t].rows = Seen(R)
        /\ task[t].due = Max({0, Total(R) - m})
    BY <2>3, <2>4, <2>7 DEF Exact
  <2>9. CASE m = 0
    <3>1. {0, Total(R) - m} = {0, Total(R)}
      BY <2>6, <2>9
    <3>2. Max({0, Total(R)}) = IF 0 >= Total(R) THEN 0 ELSE Total(R)
      BY <2>6, MaxOfTwo
    <3>3. Max({0, Total(R)}) = Total(R)
      BY <2>6, <3>2
    <3> QED BY <2>2, <2>4, <2>8, <3>1, <3>3
  <2>10. CASE m > 0
    <3>1. Seen(R) = {}
      BY <2>7, <2>8, <2>10 DEF RemoveEnds
    <3>2. R = {}
      BY <3>1, SeenFacts
    <3>3. Total(R) = 0
      <4>1. PICK f : f = [r \in R |-> Qty(r)]
        OBVIOUS
      <4>2. Total(R) = SumFunctionOnSet(f, {})
        BY <3>2, <4>1 DEF Total, SumFunction
      <4> QED BY <4>2, SumEmpty
    <3>4. PICK e \in Int : e = Total(R) - m /\ e < 0
      BY <2>10, <3>3
    <3>5. Max({0, e}) = 0
      BY <3>4, MaxOfTwo
    <3> QED BY <2>2, <2>4, <2>8, <3>3, <3>4, <3>5
  <2> QED BY <2>9, <2>10
<1> QED BY <1>1, InvHolds, PTL

-----------------------------------------------------------------------------
(* A sale conserves *)

\* The item a credit goes to.
Target(rows, id) == IF rows = {} THEN id ELSE (CHOOSE r \in rows : TRUE).id

\* A credit goes to its target, whole.
LEMMA TargetFacts ==
  ASSUME NEW rows, NEW id, NEW n \in Nat
  PROVE  /\ \A i : Given(Credit(rows, id, n), i) = IF i = Target(rows, id) THEN n ELSE 0
         /\ rows = {} => Target(rows, id) = id
         /\ rows # {} => \E r \in rows : r.id = Target(rows, id)
<1>1. PICK j : j = Target(rows, id)
  OBVIOUS
<1>2. Credit(rows, id, n) = [x \in {j} |-> n]
  BY <1>1 DEF Credit, Target
<1>3. \A i : Given(Credit(rows, id, n), i) = IF i = j THEN n ELSE 0
  BY <1>2 DEF Given
<1>4. rows # {} => \E r \in rows : r.id = Target(rows, id)
  <2> SUFFICES ASSUME rows # {} PROVE \E r \in rows : r.id = Target(rows, id)
    OBVIOUS
  <2>1. (CHOOSE r \in rows : TRUE) \in rows
    OBVIOUS
  <2> QED BY <2>1 DEF Target
<1> QED BY <1>1, <1>3, <1>4 DEF Target

\* What is held of a kind, now and after a step.
LEMMA HeldFacts ==
  ASSUME Homes, Homes', NEW k
  PROVE  /\ \A i : i \in Held(k) <=> i \in DOMAIN items /\ items[i].kind = k /\ \E x \in Containers : x.id = i
         /\ \A i : i \in Held(k)' <=> i \in DOMAIN items' /\ items'[i].kind = k /\ \E x \in Containers' : x.id = i
         /\ IsFiniteSet(Held(k)) /\ IsFiniteSet(Held(k)')
         /\ \A i \in Held(k) : items[i].qty \in Nat
         /\ \A i \in Held(k)' : items'[i].qty \in Nat
<1>1. \A i : i \in Held(k) <=> i \in DOMAIN items /\ items[i].kind = k /\ \E x \in Containers : x.id = i
  BY DEF Held
<1>2. \A i : i \in Held(k)' <=> i \in DOMAIN items' /\ items'[i].kind = k /\ \E x \in Containers' : x.id = i
  BY DEF Held
<1>3. IsFiniteSet(DOMAIN items) /\ \A i \in DOMAIN items : items[i].qty \in Nat
  BY ItemFacts DEF Homes
<1>4. PICK D : D = DOMAIN items'
  OBVIOUS
<1>5. newId' - 1 \in Int /\ 1 \in Int /\ D \in SUBSET (1..(newId' - 1)) /\ \A i \in D : items'[i] \in ItemRows
  BY <1>4 DEF Homes, TypeOK
<1>6. IsFiniteSet(D)
  <2>1. IsFiniteSet(1..(newId' - 1))
    BY <1>5, FS_Interval
  <2> QED BY <1>5, <2>1, FS_Subset
<1>7. \A i \in D : items'[i].qty \in Nat
  BY <1>5 DEF ItemRows
<1>8. Held(k) \in SUBSET DOMAIN items /\ Held(k)' \in SUBSET D
  BY <1>1, <1>2, <1>4
<1>9. IsFiniteSet(Held(k)) /\ IsFiniteSet(Held(k)')
  BY <1>3, <1>6, <1>8, FS_Subset
<1> QED BY <1>1, <1>2, <1>3, <1>4, <1>7, <1>9


\* The containers of a purchase: the listing goes, and the rows made come.
LEMMA SaleContainers ==
  ASSUME Homes, Homes', NEW buyer \in Charas, NEW owner \in Charas, NEW l \in bazaar,
         NEW G, NEW H, PurchaseView(buyer, l, owner, G, H)
  PROVE  \A i : (\E x \in Containers' : x.id = i) <=> \/ i # l.id /\ \E x \in Containers : x.id = i
                                                     \/ \E x \in G \cup H : x.id = i
<1>1. bag' = bag \cup G \cup H /\ bazaar' = bazaar \ {l} /\ stored' = stored
  BY DEF PurchaseView
<1>2. \A x \in Containers' : x \in G \cup H \/ (x \in Containers /\ x # l)
  <2>1. \A x \in bag : x # l
    BY Distinct DEF Homes
  <2>2. \A x \in stored : x # l
    BY Distinct DEF Homes
  <2> QED BY <1>1, <2>1, <2>2 DEF Containers
<1>3. \A x \in Containers : x # l => x \in Containers' /\ x.id # l.id
  <2> TAKE x \in Containers
  <2>1. x # l => x \in Containers'
    BY <1>1 DEF Containers
  <2>2. x # l => x.id # l.id
    BY DEF Homes, HomeInv, OneHome, Containers
  <2> QED BY <2>1, <2>2
<1>4. \A x \in G \cup H : x \in Containers'
  BY <1>1 DEF Containers
<1> TAKE i
<1>5. ASSUME NEW x \in Containers', x.id = i
      PROVE  (i # l.id /\ \E y \in Containers : y.id = i) \/ \E y \in G \cup H : y.id = i
  BY <1>2, <1>3, <1>5
<1>6. ASSUME i # l.id, NEW x \in Containers, x.id = i PROVE \E y \in Containers' : y.id = i
  BY <1>3, <1>6
<1> QED BY <1>4, <1>5, <1>6

\* A purchase moves gil from a row of the buyer's to one of the owner's, and the goods from the
\* listing to the buyer's bag: of no kind is there more or less.
LEMMA SaleKeeps ==
  ASSUME Homes, Homes', NEW buyer \in Charas, NEW owner \in Charas, NEW l \in bazaar,
         NEW G, NEW H, PurchaseView(buyer, l, owner, G, H), NEW p, NEW h, SaleView(buyer, l, owner, G, H, p, h), NEW k
  PROVE  Count(k)' = Count(k)
<1>1. PICK K, n, e, own, GO, GB : K = items[l.id].kind /\ n = items[l.id].qty /\ e = l.id /\ own = Rows(buyer, "normal", K)
                                 /\ GO = GilRow(owner) /\ GB = GilRow(buyer)
  OBVIOUS
<1>2. /\ newId \in Nat \ {0}
      /\ \A i \in DOMAIN items : i \in Nat \ {0} /\ i < newId /\ items[i].qty \in Nat
  <2>1. TypeOK /\ DOMAIN items \subseteq 1..(newId - 1)
    BY DEF Homes, TypeOK
  <2> QED BY <2>1, ItemFacts
<1>3. e \in DOMAIN items /\ n \in Nat /\ l \in Containers
  BY <1>1, <1>2 DEF Homes, HomeInv, OneHome, Containers
<1>4. /\ p \in Nat /\ (p > 0 => GB # {})
      /\ h \in Nat /\ h = IF G = {} THEN newId ELSE newId + 1
      /\ G = {} <=> (p = 0 \/ GO # {})
      /\ H = {} <=> own # {}
      /\ \A i \in DOMAIN items' :
           items'[i].qty = (IF i \in DOMAIN items THEN items[i].qty ELSE 0)
                           + (IF p = 0 THEN 0 ELSE Given(Credit(GO, newId, p), i))
                           + Given(Credit(own, h, n), i)
                           - (IF \E r \in FirstOf(GB) : r.id = i THEN p ELSE 0)
  BY <1>1 DEF SaleView
<1>5. /\ buyer # owner
      /\ DOMAIN items' = (DOMAIN items \ {e}) \cup {x.id : x \in G \cup H}
      /\ \A i \in DOMAIN items \ {e} : items'[i].kind = items[i].kind
      /\ \A x \in G : items'[x.id].kind = Gil
      /\ \A x \in H : items'[x.id].kind = K
  BY <1>1 DEF PurchaseView
<1>6. /\ \A x \in G : x.id = newId
      /\ \A x \in H : x.id = h /\ x.id >= newId
      /\ \A x \in G, y \in H : x.id # y.id
  <2>1. \A x \in H : x.id = h
    <3> TAKE x \in H
    <3>1. H = {BagRow(buyer, "normal", h, NextSlot(buyer, "normal"))}
      BY <1>4 DEF PurchaseView
    <3> QED BY <3>1, BagRowFacts
  <2> QED BY <2>1, MadeRows
<1>7. /\ \A x \in GO : x \in bag /\ x.chara = owner /\ x.pkg = "currency" /\ items[x.id].kind = Gil
      /\ \A x \in GB : x \in bag /\ x.chara = buyer /\ x.pkg = "currency" /\ items[x.id].kind = Gil
      /\ \A x \in own : x \in bag /\ x.chara = buyer /\ x.pkg = "normal" /\ items[x.id].kind = K
  BY <1>1, RowFacts DEF GilRow
<1>8. /\ \A x \in bag : x.id \in DOMAIN items /\ x.id # e /\ x \in Containers
      /\ \A x, y \in bag : x.id = y.id => x = y
  <2>1. \A x \in bag : x # l
    BY Distinct DEF Homes
  <2> QED BY <1>1, <1>3, <2>1 DEF Homes, HomeInv, OneHome, Containers
<1>9. PICK a : a = IF p = 0 THEN 0 ELSE Target(GO, newId)
  OBVIOUS
<1>10. PICK b : b = Target(own, h)
  OBVIOUS
<1>11. PICK d : d = IF GB = {} THEN 0 ELSE (CHOOSE r \in GB : TRUE).id
  OBVIOUS
<1>12. /\ p = 0 => a = 0
       /\ p > 0 => \/ G # {} /\ a = newId
                   \/ G = {} /\ \E r \in GO : r.id = a
  <2>1. p > 0 /\ GO = {} => a = newId
    BY <1>4, <1>9, TargetFacts
  <2>2. p > 0 /\ GO # {} => \E r \in GO : r.id = a
    BY <1>4, <1>9, TargetFacts
  <2> QED BY <1>4, <1>9, <2>1, <2>2
<1>13. \/ H # {} /\ b = h
       \/ H = {} /\ \E r \in own : r.id = b
  <2>1. own = {} => b = h
    BY <1>3, <1>10, TargetFacts
  <2>2. own # {} => \E r \in own : r.id = b
    BY <1>3, <1>10, TargetFacts
  <2> QED BY <1>4, <2>1, <2>2
<1>14. /\ d = 0 => p = 0
       /\ d # 0 => \E r \in GB : r.id = d
       /\ \A i : i # 0 => ((\E r \in FirstOf(GB) : r.id = i) <=> i = d)
  <2>1. CASE GB = {}
    <3>1. p = 0
      BY <1>4, <2>1
    <3> QED BY <1>11, <2>1, <3>1 DEF FirstOf
  <2>2. CASE GB # {}
    <3>1. PICK r : r = CHOOSE x \in GB : TRUE
      OBVIOUS
    <3>2. r \in GB
      BY <2>2, <3>1
    <3>3. FirstOf(GB) = {r}
      BY <2>2, <3>1 DEF FirstOf
    <3>4. d = r.id /\ d # 0
      BY <1>2, <1>7, <1>8, <1>11, <2>2, <3>1, <3>2
    <3> QED BY <3>2, <3>3, <3>4
  <2> QED BY <2>1, <2>2
<1>15. \A i \in DOMAIN items' : i # 0
  BY <1>2, <1>4, <1>5, <1>6
<1>16. ASSUME NEW i \in DOMAIN items'
       PROVE  items'[i].qty = (IF i \in DOMAIN items THEN items[i].qty ELSE 0) + (IF i = a THEN p ELSE 0) + (IF i = b THEN n ELSE 0)
                              - (IF i = d THEN p ELSE 0)
  <2>1. Given(Credit(own, h, n), i) = IF i = b THEN n ELSE 0
    BY <1>3, <1>10, TargetFacts
  <2>2. (IF p = 0 THEN 0 ELSE Given(Credit(GO, newId, p), i)) = IF i = a THEN p ELSE 0
    <3>1. CASE p = 0
      BY <1>9, <1>15, <3>1
    <3>2. CASE p # 0
      BY <1>4, <1>9, <3>2, TargetFacts
    <3> QED BY <3>1, <3>2
  <2>3. (IF \E r \in FirstOf(GB) : r.id = i THEN p ELSE 0) = IF i = d THEN p ELSE 0
    BY <1>14, <1>15
  <2>4. PICK q : q = IF i \in DOMAIN items THEN items[i].qty ELSE 0
    OBVIOUS
  <2> QED BY <1>4, <2>1, <2>2, <2>3, <2>4
<1>17. PICK S, T : S = Held(k) /\ T = Held(k)'
  OBVIOUS
<1>18. /\ \A i : i \in S <=> i \in DOMAIN items /\ items[i].kind = k /\ \E x \in Containers : x.id = i
       /\ \A i : i \in T <=> i \in DOMAIN items' /\ items'[i].kind = k /\ \E x \in Containers' : x.id = i
       /\ IsFiniteSet(S) /\ IsFiniteSet(T)
       /\ \A i \in S : items[i].qty \in Nat
       /\ \A i \in T : items'[i].qty \in Nat
  BY <1>17, HeldFacts
<1>19. \A i : (\E x \in Containers' : x.id = i) <=> \/ i # e /\ \E x \in Containers : x.id = i
                                                  \/ \E x \in G \cup H : x.id = i
  BY <1>1, SaleContainers
<1>20. PICK f, g : f = [i \in S |-> items[i].qty] /\ g = [i \in T |-> items'[i].qty]
  OBVIOUS
<1>21. f \in [S -> Nat] /\ g \in [T -> Nat]
  BY <1>18, <1>20
<1>22. PICK P \in Nat, N \in Nat : P = (IF k = Gil THEN p ELSE 0) /\ N = IF k = K THEN n ELSE 0
  BY <1>3, <1>4
\* The row of an old item in a bag stays, with its kind.
<1>23. ASSUME NEW r \in bag
       PROVE  /\ r.id \in DOMAIN items /\ r.id \in DOMAIN items' /\ r.id \in Nat \ {0} /\ r.id < newId /\ r.id # e
              /\ r.id \in S <=> items[r.id].kind = k
              /\ r.id \in T <=> items[r.id].kind = k
  <2>1. /\ r.id \in DOMAIN items /\ r.id \in DOMAIN items' /\ r.id \in Nat \ {0} /\ r.id < newId /\ r.id # e
        /\ items'[r.id].kind = items[r.id].kind /\ r \in Containers
    BY <1>2, <1>5, <1>8
  <2>2. \E x \in Containers' : x.id = r.id
    BY <1>19, <2>1
  <2> QED BY <1>18, <2>1, <2>2
<1>24. e \notin T /\ 0 \notin S /\ 0 \notin T /\ (e \in S <=> k = K) /\ e \in Nat \ {0} /\ e < newId
  <2>1. e \notin DOMAIN items'
    BY <1>2, <1>3, <1>4, <1>5, <1>6
  <2> QED BY <1>1, <1>2, <1>3, <1>15, <1>18, <2>1
<1>25. ASSUME p > 0
       PROVE  a # b /\ a # d /\ a # e
  <2>1. CASE G # {} /\ a = newId
    <3>1. h = newId + 1
      BY <1>4, <2>1
    <3> QED BY <1>2, <1>7, <1>13, <1>14, <1>23, <1>24, <1>25, <2>1, <3>1
  <2>2. CASE \E r \in GO : r.id = a
    <3>1. PICK r \in GO : r.id = a
      BY <2>2
    <3>2. r \in bag /\ r.chara = owner /\ r.pkg = "currency" /\ a < newId /\ a # e /\ a \in Nat
      BY <1>7, <1>23, <3>1
    <3>3. a # b
      <4>1. h >= newId
        BY <1>2, <1>4
      <4>2. \A x \in own : x.id # a
        BY <1>7, <1>8, <3>1, <3>2
      <4> QED BY <1>2, <1>4, <1>13, <3>2, <4>1, <4>2
    <3>4. a # d
      <4>1. \A x \in GB : x.id # a
        BY <1>5, <1>7, <1>8, <3>1, <3>2
      <4> QED BY <1>14, <1>25, <4>1
    <3> QED BY <3>2, <3>3, <3>4
  <2> QED BY <1>12, <1>25, <2>1, <2>2
<1>26. b # d /\ b # e /\ d # e /\ b # 0
  <2>1. CASE H # {} /\ b = h
    <3>1. b >= newId
      BY <1>2, <1>4, <2>1
    <3>2. d # 0 => d < newId /\ d # e /\ d \in Nat
      BY <1>7, <1>14, <1>23
    <3> QED BY <1>2, <1>4, <1>24, <2>1, <3>1, <3>2
  <2>2. CASE \E r \in own : r.id = b
    <3>1. PICK r \in own : r.id = b
      BY <2>2
    <3>2. r \in bag /\ r.pkg = "normal" /\ b # e /\ b # 0
      BY <1>7, <1>23, <3>1
    <3>3. \A x \in GB : x.id # b
      BY <1>7, <1>8, <3>1, <3>2
    <3>4. d # 0 => d # e
      BY <1>7, <1>14, <1>23
    <3> QED BY <1>14, <1>24, <3>2, <3>3, <3>4
  <2> QED BY <1>13, <2>1, <2>2
<1>27. a = b \/ a = d \/ a = e => a \notin S /\ a \notin T
  BY <1>4, <1>12, <1>24, <1>25
<1>28. ASSUME NEW i, i \notin {a, b, d, e}
       PROVE  (i \in S <=> i \in T) /\ (i \in S => items'[i].qty = items[i].qty)
  <2>1. \A x \in G \cup H : x.id # i
    BY <1>4, <1>6, <1>12, <1>13, <1>28
  <2>2. i \in DOMAIN items' <=> i \in DOMAIN items
    BY <1>5, <1>28, <2>1
  <2>3. (\E x \in Containers' : x.id = i) <=> \E x \in Containers : x.id = i
    BY <1>19, <1>28, <2>1
  <2>4. i \in DOMAIN items => items'[i].kind = items[i].kind
    BY <1>5, <1>28
  <2>5. i \in DOMAIN items => items'[i].qty = items[i].qty
    BY <1>2, <1>16, <1>28, <2>2
  <2> QED BY <1>18, <2>2, <2>3, <2>4, <2>5
<1>29. \A i : i \in S /\ i \notin {a, b, d, e} => f[i] = g[i]
  BY <1>20, <1>28
<1>30. Part(g, T, a) = Part(f, S, a) + P
  <2>1. CASE p = 0
    BY <1>12, <1>22, <1>24, <2>1 DEF Part
  <2>2. CASE p > 0 /\ G # {} /\ a = newId
    <3>1. PICK x \in G : x.id = a
      BY <1>6, <2>2
    <3>2. a \notin S /\ a \notin DOMAIN items
      BY <1>2, <1>18, <2>2
    <3>3. a \in DOMAIN items' /\ items'[a].kind = Gil /\ (a \in T <=> k = Gil)
      <4>1. a \in {y.id : y \in G \cup H} /\ \E y \in G \cup H : y.id = a
        BY <3>1
      <4>2. a \in DOMAIN items' /\ \E y \in Containers' : y.id = a
        BY <1>5, <1>19, <4>1
      <4>3. items'[a].kind = Gil
        BY <1>5, <3>1
      <4> QED BY <1>18, <4>2, <4>3
    <3>4. items'[a].qty = p
      BY <1>4, <1>16, <1>25, <2>2, <3>2, <3>3
    <3> QED BY <1>20, <1>22, <3>2, <3>3, <3>4 DEF Part
  <2>3. CASE p > 0 /\ \E r \in GO : r.id = a
    <3>1. a \in DOMAIN items /\ a \in DOMAIN items' /\ (a \in S <=> k = Gil) /\ (a \in T <=> k = Gil)
      BY <1>7, <1>23, <2>3
    <3>2. items'[a].qty = items[a].qty + p /\ items[a].qty \in Nat
      BY <1>2, <1>4, <1>16, <1>25, <2>3, <3>1
    <3> QED BY <1>20, <1>22, <3>1, <3>2 DEF Part
  <2> QED BY <1>4, <1>12, <2>1, <2>2, <2>3
<1>31. Part(g, T, d) = Part(f, S, d) - P
  <2>1. CASE d = 0
    <3>1. P = 0
      BY <1>14, <1>22, <2>1
    <3>2. Part(g, T, d) = 0 /\ Part(f, S, d) = 0
      BY <1>24, <2>1 DEF Part
    <3> QED BY <3>1, <3>2
  <2>2. CASE d # 0
    <3>1. d \in DOMAIN items /\ d \in DOMAIN items' /\ (d \in S <=> k = Gil) /\ (d \in T <=> k = Gil)
      BY <1>7, <1>14, <1>23, <2>2
    <3>2. d = a => p = 0
      BY <1>4, <1>25
    <3>3. items'[d].qty = items[d].qty - p /\ items[d].qty \in Nat
      BY <1>2, <1>4, <1>16, <1>26, <3>1, <3>2
    <3> QED BY <1>20, <1>22, <3>1, <3>3 DEF Part
  <2> QED BY <2>1, <2>2
<1>32. Part(g, T, b) = Part(f, S, b) + N
  <2>1. CASE H # {} /\ b = h
    <3>1. PICK x \in H : x.id = b
      BY <1>6, <2>1
    <3>2. b \notin S /\ b \notin DOMAIN items
      BY <1>2, <1>4, <1>18, <2>1
    <3>3. b \in DOMAIN items' /\ items'[b].kind = K /\ (b \in T <=> k = K)
      <4>1. b \in {y.id : y \in G \cup H} /\ \E y \in G \cup H : y.id = b
        BY <3>1
      <4>2. b \in DOMAIN items' /\ \E y \in Containers' : y.id = b
        BY <1>5, <1>19, <4>1
      <4>3. items'[b].kind = K
        BY <1>5, <3>1
      <4> QED BY <1>18, <4>2, <4>3
    <3>4. a = b => p = 0
      BY <1>4, <1>25
    <3>5. items'[b].qty = n
      BY <1>3, <1>4, <1>16, <1>26, <3>2, <3>3, <3>4
    <3> QED BY <1>20, <1>22, <3>2, <3>3, <3>5 DEF Part
  <2>2. CASE \E r \in own : r.id = b
    <3>1. b \in DOMAIN items /\ b \in DOMAIN items' /\ (b \in S <=> k = K) /\ (b \in T <=> k = K)
      BY <1>7, <1>23, <2>2
    <3>2. a = b => p = 0
      BY <1>4, <1>25
    <3>3. items'[b].qty = items[b].qty + n /\ items[b].qty \in Nat
      BY <1>2, <1>3, <1>4, <1>16, <1>26, <3>1, <3>2
    <3> QED BY <1>20, <1>22, <3>1, <3>3 DEF Part
  <2> QED BY <1>13, <2>1, <2>2
<1>33. Part(g, T, e) = Part(f, S, e) - N
  BY <1>1, <1>3, <1>20, <1>22, <1>24 DEF Part
<1>34. SumFunctionOnSet(f, S) = SumFunctionOnSet(g, T)
  <2>1. \A i : i \notin {a, b, d, e} => (i \in S <=> i \in T)
    BY <1>28
  <2>2. (b = d \/ b = e => b \notin S /\ b \notin T) /\ (d = e => d \notin S /\ d \notin T)
    BY <1>26
  <2>3. IsFiniteSet(S) /\ IsFiniteSet(T)
    BY <1>18
  <2>4. Cancels(f, S, g, T, a, b, d, e, P, N)
    BY <1>21, <1>27, <1>29, <1>30, <1>31, <1>32, <1>33, <2>1, <2>2, <2>3 DEF Cancels
  <2> QED BY <2>4, SameCount
<1>35. Count(k) = SumFunctionOnSet(f, S)
  BY <1>17, <1>20 DEF Count, SumFunction
<1>36. Count(k)' = SumFunctionOnSet(g, T)
  BY <1>17, <1>20 DEF Count, SumFunction
<1> QED BY <1>34, <1>35, <1>36

\* The step that takes a listing out of a bazaar neither creates nor destroys gil or goods, for any
\* prices, quantities and owners (purchase_retainer_bazaar_item).
THEOREM SaleConservesHolds == Spec => SaleConserves
<1>1. ItemInv /\ ItemInv' /\ [Next]_vars => [bazaar \ bazaar' # {} => \A k \in Kinds : Count(k)' = Count(k)]_vars
  <2> SUFFICES ASSUME ItemInv, ItemInv', [Next]_vars, bazaar \ bazaar' # {}, NEW k \in Kinds PROVE Count(k)' = Count(k)
    OBVIOUS
  <2>1. Homes /\ Homes'
    BY DEF ItemInv
  <2>2. \E c, o \in Charas, l \in bazaar : Purchase(c, l, o)
    <3>1. CASE Grant
      <4>1. PICK c \in Charas :
              \/ \E pkg \in Packages, m \in Goods \cup KeyItems, n \in Amounts : AddItem(c, pkg, m, n)
              \/ \E d \in GilDeltas : AddGil(c, d) \/ AddGil(c, -d)
        BY <3>1 DEF Grant
      <4>2. ASSUME NEW d, AddGil(c, d) PROVE bazaar' = bazaar
        BY <4>2 DEF AddGil
      <4>3. ASSUME NEW pkg, NEW m, NEW n, AddItem(c, pkg, m, n) PROVE bazaar' = bazaar
        <5>1. AddGil(c, n) \/ AddKeyItem(c, m) \/ AddHarvestItem(c, m, n)
          BY <4>3 DEF AddItem
        <5>2. AddKeyItem(c, m) => bazaar' = bazaar
          BY DEF AddKeyItem
        <5>3. AddHarvestItem(c, m, n) => bazaar' = bazaar
          BY DEF AddHarvestItem
        <5> QED BY <4>2, <5>1, <5>2, <5>3
      <4> QED BY <4>1, <4>2, <4>3
    <3>2. CASE Trade
      BY <3>2 DEF Trade, AddItemToRetainer, AddRetainerBazaarItem, HireRetainer, DismissRetainer
    <3>3. CASE \E t \in Tasks : TaskStep(t)
      BY <3>3 DEF TaskStep, RemoveRead, RemoveRow, RemoveDone, tables
    <3>4. CASE Crash \/ UNCHANGED vars
      BY <3>4 DEF Crash, vars, tables
    <3> QED BY <3>1, <3>2, <3>3, <3>4 DEF Next
  <2>3. PICK c \in Charas, o \in Charas, l \in bazaar : Purchase(c, l, o)
    BY <2>2
  <2>4. PICK G, H : PurchaseView(c, l, o, G, H) /\ \E p, h : SaleView(c, l, o, G, H, p, h)
    BY <2>1, <2>3, PurchaseFacts
  <2>5. PICK p, h : SaleView(c, l, o, G, H, p, h)
    BY <2>4
  <2> QED BY <2>1, <2>4, <2>5, SaleKeeps
<1> QED BY <1>1, InvHolds, PTL DEF Spec, SaleConserves
=============================================================================

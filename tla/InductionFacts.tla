--------------------------- MODULE InductionFacts ---------------------------
(***************************************************************************)
(* Induction over numbers and finite sets, and what the recursive          *)
(* functions and sums of the models compute.                               *)
(*                                                                         *)
(* The induction rules take the property as the set of values that have    *)
(* it, so that citing them needs no operator argument.                     *)
(***************************************************************************)
EXTENDS Integers, FiniteSets, Functions, FiniteSetTheorems, TLAPS

\* Every nonempty set of naturals has a least element.
THEOREM LeastNumber ==
  ASSUME NEW T \in SUBSET Nat, T # {}
  PROVE  \E n \in T : \A m \in T : n <= m
<1> DEFINE Below(n) == 1..n
           Cuts == {Below(n) : n \in T}
<1>1. \A n \in Nat : Below(n) \in FiniteSubsetsOf(Nat)
  BY FS_Interval DEF FiniteSubsetsOf
<1>2. Cuts \subseteq FiniteSubsetsOf(Nat) /\ Cuts # {}
  BY <1>1, Zenon
<1>3. PICK c \in Cuts : \A d \in Cuts : ~(<<d, c>> \in StrictSubsetOrdering(Nat))
  <2> HIDE DEF Cuts
  <2> QED BY <1>2, WFMin, FS_StrictSubsetOrderingWellFounded
<1>4. PICK n \in T : c = Below(n)
  BY <1>3
<1>5. ASSUME NEW m \in T, m < n
      PROVE  FALSE
  <2>1. Below(m) \in Cuts
    BY <1>5
  <2>2. Below(m) \subseteq Below(n) /\ Below(m) # Below(n)
    <3>1. n \in Below(n) /\ n \notin Below(m)
      BY <1>5
    <3>2. QED BY <3>1, <1>5
  <2>3. <<Below(m), Below(n)>> \in StrictSubsetOrdering(Nat)
    <3>1. Below(m) \in SUBSET Nat /\ Below(n) \in SUBSET Nat
      OBVIOUS
    <3> HIDE DEF Below
    <3> QED BY <2>2, <3>1 DEF StrictSubsetOrdering
  <2> QED BY <1>3, <1>4, <2>1, <2>3, Zenon
<1>6. QED BY <1>5

\* What holds of 0, and of n + 1 if of n, holds of every natural.
THEOREM NumberInduction ==
  ASSUME NEW S, 0 \in S, \A n \in Nat : n \in S => n + 1 \in S
  PROVE  Nat \subseteq S
<1> DEFINE T == {n \in Nat : n \notin S}
<1> SUFFICES ASSUME T # {} PROVE FALSE
  OBVIOUS
<1>1. PICK n \in T : \A m \in T : n <= m
  BY LeastNumber, Zenon
<1>2. n - 1 \in Nat /\ n - 1 \notin T
  BY <1>1
<1> QED BY <1>1, <1>2

\* What holds of a subset of the finite set S if it holds of all smaller ones
\* holds of S.
THEOREM SubsetInduction ==
  ASSUME NEW S, IsFiniteSet(S), NEW P,
         \A T \in SUBSET S : (\A U \in SUBSET T : U # T => U \in P) => T \in P
  PROVE  S \in P
<1> DEFINE R == StrictSubsetOrdering(S)
           Bad == {T \in SUBSET S : T \notin P}
<1> SUFFICES ASSUME S \notin P PROVE FALSE
  OBVIOUS
<1>1. IsWellFoundedOn(R, SUBSET S)
  <2>1. FiniteSubsetsOf(S) = SUBSET S
    BY FS_FiniteSubsetsOfFinite, Zenon
  <2>2. IsWellFoundedOn(R, FiniteSubsetsOf(S))
    BY FS_StrictSubsetOrderingWellFounded, Zenon
  <2> QED BY <2>1, <2>2, Zenon
<1>2. Bad \subseteq SUBSET S /\ Bad # {}
  OBVIOUS
<1>3. PICK T \in Bad : \A U \in Bad : ~(<<U, T>> \in R)
  <2> HIDE DEF R, Bad
  <2> QED BY <1>1, <1>2, WFMin
<1>4. \A U \in SUBSET T : U # T => U \in P
  BY <1>3, Zenon DEF StrictSubsetOrdering
<1> QED BY <1>3, <1>4

-----------------------------------------------------------------------------
\* The first n cursors w of a loop that follows the links f from c.
IsIteration(w, f, c, n) == w = [k \in 0..n |-> IF k = 0 THEN c ELSE f[w[k - 1]]]

\* There are such cursors.
THEOREM IterateExists ==
  ASSUME NEW f, NEW c, NEW n \in Nat
  PROVE  \E w : IsIteration(w, f, c, n)
<1> DEFINE Solves(w, m) == w = [k \in 0..m |-> IF k = 0 THEN c ELSE f[w[k - 1]]]
           S == {m \in Nat : \E w : Solves(w, m)}
<1>1. 0 \in S
  <2>1. Solves([k \in 0..0 |-> c], 0)
    OBVIOUS
  <2> QED BY <2>1, Zenon
<1>2. ASSUME NEW m \in Nat, m \in S
      PROVE  m + 1 \in S
  <2>1. PICK w : Solves(w, m)
    BY <1>2
  <2> DEFINE v == [k \in 0..(m + 1) |-> IF k = 0 THEN c ELSE f[w[k - 1]]]
  <2>2. \A k \in 0..m : v[k] = w[k]
    BY <2>1
  <2>3. \A k \in 1..(m + 1) : k - 1 \in 0..m
    OBVIOUS
  <2>4. Solves(v, m + 1)
    BY <2>2, <2>3
  <2>5. m + 1 \in Nat
    OBVIOUS
  <2> HIDE DEF v, Solves
  <2> QED BY <2>4, <2>5
<1>3. Nat \subseteq S
  <2> HIDE DEF S
  <2> QED BY <1>1, <1>2, NumberInduction
<1> QED BY <1>3, Zenon DEF IsIteration

\* So the loop does follow them.
THEOREM Iterates ==
  ASSUME NEW f, NEW c, NEW n \in Nat
  PROVE  LET w[k \in 0..n] == IF k = 0 THEN c ELSE f[w[k - 1]]
         IN  /\ DOMAIN w = 0..n /\ w[0] = c
             /\ \A k \in 1..n : w[k] = f[w[k - 1]]
<1> DEFINE v == CHOOSE w : IsIteration(w, f, c, n)
<1>1. IsIteration(v, f, c, n)
  BY IterateExists
<1>2. DOMAIN v = 0..n /\ v[0] = c /\ \A k \in 1..n : v[k] = f[v[k - 1]]
  <2> HIDE DEF v
  <2> QED BY <1>1 DEF IsIteration
<1> QED BY <1>2 DEF IsIteration

-----------------------------------------------------------------------------
(* SumFunctionOnSet, a fold that picks the elements in an order of its own. *)

\* The element the fold takes out of s first.
Chosen(s) == CHOOSE x \in s : TRUE

\* The partial sums it of f over the sets of D.
IsSummation(it, f, D) ==
    it = [s \in D |-> IF s = {} THEN 0 ELSE f[Chosen(s)] + it[s \ {Chosen(s)}]]

\* it holds the sum of f over every subset of S.
SumsOver(it, f, S) == IsSummation(it, f, SUBSET S)

\* The fold, with its definitions expanded.
LEMMA SumExpanded ==
  ASSUME NEW f, NEW S
  PROVE  SumFunctionOnSet(f, S) = (CHOOSE it : SumsOver(it, f, S))[S]
BY DEF SumsOver, SumFunctionOnSet, FoldFunctionOnSet, MapThenFoldSet, IsSummation, Chosen

\* The fold takes out an element of the set.
LEMMA ChosenIn ==
  ASSUME NEW s, s # {}
  PROVE  Chosen(s) \in s
BY DEF Chosen

\* There is such a table of sums, built up by the size of the subsets.
LEMMA SummationExists ==
  ASSUME NEW f, NEW S, IsFiniteSet(S)
  PROVE  \E it : SumsOver(it, f, S)
<1> DEFINE Upto(n) == {s \in SUBSET S : Cardinality(s) <= n}
           P == {n \in Nat : \E it : IsSummation(it, f, Upto(n))}
           F(it, s) == IF s = {} THEN 0 ELSE f[Chosen(s)] + it[s \ {Chosen(s)}]
<1>1. ASSUME NEW s \in SUBSET S
      PROVE  IsFiniteSet(s) /\ Cardinality(s) \in Nat /\ (Cardinality(s) = 0 <=> s = {})
  BY FS_Subset, FS_CardinalityType, FS_EmptySet
<1>2. ASSUME NEW s \in SUBSET S, s # {}
      PROVE  /\ s \ {Chosen(s)} \in SUBSET S
             /\ Cardinality(s \ {Chosen(s)}) = Cardinality(s) - 1
  BY <1>1, <1>2, ChosenIn, FS_RemoveElement
<1>3. 0 \in P
  <2>1. \A s \in Upto(0) : s = {}
    BY <1>1
  <2>2. IsSummation([s \in Upto(0) |-> 0], f, Upto(0))
    BY <2>1 DEF IsSummation
  <2> QED BY <2>2, Zenon
<1>4. ASSUME NEW n \in Nat, n \in P
      PROVE  n + 1 \in P
  <2>1. PICK it : IsSummation(it, f, Upto(n))
    BY <1>4
  <2>2. it = [s \in Upto(n) |-> F(it, s)]
    BY <2>1, Zenon DEF IsSummation
  <2> DEFINE jt == [s \in Upto(n + 1) |-> F(it, s)]
  <2>3. Upto(n) \subseteq Upto(n + 1)
    BY <1>1
  <2>4. \A s \in Upto(n) : jt[s] = it[s]
    <3> HIDE DEF Upto, F
    <3> QED BY <2>2, <2>3
  <2>5. \A s \in Upto(n + 1) : s # {} => s \ {Chosen(s)} \in Upto(n)
    BY <1>1, <1>2
  <2>6. \A s \in Upto(n + 1) : F(it, s) = F(jt, s)
    <3> HIDE DEF Upto, jt
    <3> QED BY <2>4, <2>5
  <2>7. jt = [s \in Upto(n + 1) |-> F(jt, s)]
    <3> HIDE DEF F, Upto
    <3> QED BY <2>6
  <2>8. IsSummation(jt, f, Upto(n + 1))
    BY <2>7, Zenon DEF IsSummation
  <2>9. n + 1 \in Nat
    OBVIOUS
  <2> HIDE DEF jt, Upto
  <2> QED BY <2>8, <2>9
<1>5. Nat \subseteq P
  <2> HIDE DEF P
  <2> QED BY <1>3, <1>4, NumberInduction
<1>6. Cardinality(S) \in P
  <2> HIDE DEF P
  <2> QED BY <1>5, <1>1
<1>7. Upto(Cardinality(S)) = SUBSET S
  <2>1. \A s \in SUBSET S : Cardinality(s) <= Cardinality(S)
    BY FS_Subset
  <2> QED BY <2>1
<1> QED
  <2> HIDE DEF Upto
  <2> QED BY <1>6, <1>7, Zenon DEF SumsOver

\* The sum over a subset does not depend on the set it is taken in.
LEMMA SummationUnique ==
  ASSUME NEW f, NEW S, IsFiniteSet(S), NEW T, T \subseteq S,
         NEW it, SumsOver(it, f, S), NEW jt, SumsOver(jt, f, T)
  PROVE  it[T] = jt[T]
<1> DEFINE P == {U \in SUBSET T : it[U] = jt[U]}
<1>1. ASSUME NEW U \in SUBSET T, \A V \in SUBSET U : V # U => V \in P
      PROVE  U \in P
  <2>1. CASE U = {}
    BY <2>1 DEF SumsOver, IsSummation
  <2>2. CASE U # {}
    <3>1. Chosen(U) \in U /\ U \ {Chosen(U)} \in SUBSET U /\ U \ {Chosen(U)} # U
      BY <2>2, ChosenIn
    <3>2. it[U \ {Chosen(U)}] = jt[U \ {Chosen(U)}]
      BY <3>1, <1>1
    <3>3. /\ it[U] = f[Chosen(U)] + it[U \ {Chosen(U)}]
          /\ jt[U] = f[Chosen(U)] + jt[U \ {Chosen(U)}]
      BY <2>2, Zenon DEF SumsOver, IsSummation
    <3> QED BY <3>2, <3>3
  <2> QED BY <2>1, <2>2
<1>2. IsFiniteSet(T)
  BY FS_Subset
<1>3. T \in P
  <2> HIDE DEF P
  <2> QED BY <1>1, <1>2, SubsetInduction
<1> QED BY <1>3

\* The equation of the fold.
LEMMA SumEquation ==
  ASSUME NEW f, NEW S, IsFiniteSet(S)
  PROVE  SumFunctionOnSet(f, S) =
           IF S = {} THEN 0
           ELSE f[Chosen(S)] + SumFunctionOnSet(f, S \ {Chosen(S)})
<1> DEFINE T == S \ {Chosen(S)}
           it == CHOOSE i : SumsOver(i, f, S)
           jt == CHOOSE i : SumsOver(i, f, T)
<1>1. IsFiniteSet(T)
  BY FS_Subset
<1>2. SumsOver(it, f, S) /\ SumsOver(jt, f, T)
  <2>1. (\E i : SumsOver(i, f, S)) /\ (\E i : SumsOver(i, f, T))
    <3> HIDE DEF T
    <3> QED BY <1>1, SummationExists
  <2> QED BY <2>1
<1>3. SumFunctionOnSet(f, S) = it[S] /\ SumFunctionOnSet(f, T) = jt[T]
  BY SumExpanded, Zenon
<1> HIDE DEF it, jt
<1>4. it[T] = jt[T]
  <2>1. T \subseteq S
    OBVIOUS
  <2> HIDE DEF T
  <2>2. ASSUME NEW i, NEW j, SumsOver(i, f, S), SumsOver(j, f, T)
        PROVE  i[T] = j[T]
    BY <2>1, <2>2, SummationUnique
  <2> QED BY <2>2, <1>2
<1>5. it[S] = IF S = {} THEN 0 ELSE f[Chosen(S)] + it[T]
  BY <1>2, Zenon DEF SumsOver, IsSummation
<1> QED BY <1>3, <1>4, <1>5

\* A sum of naturals is one.
THEOREM SumType ==
  ASSUME NEW f, NEW S, IsFiniteSet(S), \A x \in S : f[x] \in Nat
  PROVE  SumFunctionOnSet(f, S) \in Nat
<1> DEFINE P == {T \in SUBSET S : SumFunctionOnSet(f, T) \in Nat}
<1>1. ASSUME NEW T \in SUBSET S, \A U \in SUBSET T : U # T => U \in P
      PROVE  T \in P
  <2>1. IsFiniteSet(T)
    BY FS_Subset
  <2>2. CASE T = {}
    <3>1. SumFunctionOnSet(f, T) = 0
      BY <2>1, <2>2, SumEquation, Zenon
    <3> QED BY <3>1
  <2>3. CASE T # {}
    <3>1. Chosen(T) \in T /\ T \ {Chosen(T)} \in P
      BY <2>3, <1>1, ChosenIn
    <3>2. SumFunctionOnSet(f, T) = f[Chosen(T)] + SumFunctionOnSet(f, T \ {Chosen(T)})
      BY <2>1, <2>3, SumEquation
    <3> QED BY <3>1, <3>2
  <2> QED BY <2>2, <2>3
<1>2. S \in P
  <2> HIDE DEF P
  <2> QED BY <1>1, SubsetInduction
<1> QED BY <1>2

\* Any element can be split off: the order of the fold does not matter.
THEOREM SumRemove ==
  ASSUME NEW f, NEW S, IsFiniteSet(S), \A y \in S : f[y] \in Nat, NEW x \in S
  PROVE  SumFunctionOnSet(f, S) = f[x] + SumFunctionOnSet(f, S \ {x})
<1> DEFINE Sum(T) == SumFunctionOnSet(f, T)
           P == {T \in SUBSET S : \A y \in T : Sum(T) = f[y] + Sum(T \ {y})}
<1>1. ASSUME NEW T \in SUBSET S, \A U \in SUBSET T : U # T => U \in P, NEW y \in T
      PROVE  Sum(T) = f[y] + Sum(T \ {y})
  <2> DEFINE c == Chosen(T)
             A == T \ {c}
             B == T \ {y}
             C == (T \ {c}) \ {y}
  <2>1. IsFiniteSet(T) /\ IsFiniteSet(C) /\ c \in T
    BY FS_Subset, ChosenIn
  <2>2. Sum(T) = f[c] + Sum(A)
    BY <2>1, SumEquation
  <2>3. CASE y # c
    <3>1. A \in P /\ B \in P /\ y \in A /\ c \in B /\ B \ {c} = C
      BY <2>1, <2>3, <1>1
    <3>2. Sum(A) = f[y] + Sum(C) /\ Sum(B) = f[c] + Sum(C)
      BY <3>1
    <3>3. Sum(C) \in Nat /\ f[y] \in Nat /\ f[c] \in Nat
      BY <2>1, SumType
    <3> HIDE DEF Sum, A, B, C, c
    <3>4. Sum(T) = f[y] + Sum(B)
      BY <2>2, <3>2, <3>3
    <3> QED BY <3>4 DEF B, Sum
  <2> QED BY <2>2, <2>3
<1>2. \A T \in SUBSET S : (\A U \in SUBSET T : U # T => U \in P) => T \in P
  <2> HIDE DEF Sum
  <2> QED BY <1>1
<1>3. S \in P
  <2> HIDE DEF P
  <2> QED BY <1>2, SubsetInduction
<1> QED BY <1>3

\* Adding one element to a set.
THEOREM SumAdd ==
  ASSUME NEW f, NEW S, IsFiniteSet(S), NEW x, x \notin S, f[x] \in Nat,
         \A y \in S : f[y] \in Nat
  PROVE  SumFunctionOnSet(f, S \cup {x}) = f[x] + SumFunctionOnSet(f, S)
<1> DEFINE T == S \cup {x}
<1>1. IsFiniteSet(T)
  BY FS_AddElement
<1>2. x \in T /\ T \ {x} = S /\ \A y \in T : f[y] \in Nat
  OBVIOUS
<1> HIDE DEF T
<1>3. SumFunctionOnSet(f, T) = f[x] + SumFunctionOnSet(f, T \ {x})
  BY <1>1, <1>2, SumRemove
<1> QED BY <1>2, <1>3 DEF T

\* The sum depends on the values in the set only.
THEOREM SumSame ==
  ASSUME NEW f, NEW g, NEW S, IsFiniteSet(S), \A x \in S : f[x] = g[x]
  PROVE  SumFunctionOnSet(f, S) = SumFunctionOnSet(g, S)
<1> DEFINE P == {T \in SUBSET S : SumFunctionOnSet(f, T) = SumFunctionOnSet(g, T)}
<1>1. ASSUME NEW T \in SUBSET S, \A U \in SUBSET T : U # T => U \in P
      PROVE  T \in P
  <2>1. IsFiniteSet(T)
    BY FS_Subset
  <2>2. CASE T = {}
    BY <2>1, <2>2, SumEquation, Zenon
  <2>3. CASE T # {}
    <3>1. Chosen(T) \in T /\ T \ {Chosen(T)} \in P
      BY <2>3, <1>1, ChosenIn
    <3>2. /\ SumFunctionOnSet(f, T) = f[Chosen(T)] + SumFunctionOnSet(f, T \ {Chosen(T)})
          /\ SumFunctionOnSet(g, T) = g[Chosen(T)] + SumFunctionOnSet(g, T \ {Chosen(T)})
      BY <2>1, <2>3, SumEquation
    <3> QED BY <3>1, <3>2
  <2> QED BY <2>2, <2>3
<1>2. S \in P
  <2> HIDE DEF P
  <2> QED BY <1>1, SubsetInduction
<1> QED BY <1>2

\* The sum over two disjoint sets.
THEOREM SumDisjoint ==
  ASSUME NEW f, NEW S, IsFiniteSet(S), NEW A \in SUBSET S, \A x \in S : f[x] \in Nat
  PROVE  SumFunctionOnSet(f, S) = SumFunctionOnSet(f, A) + SumFunctionOnSet(f, S \ A)
<1> DEFINE Sum(T) == SumFunctionOnSet(f, T)
           P == {T \in SUBSET S : Sum(T) = Sum(T \cap A) + Sum(T \ A)}
<1>1. ASSUME NEW T \in SUBSET S, \A U \in SUBSET T : U # T => U \in P
      PROVE  T \in P
  <2> DEFINE c == Chosen(T)
             U == T \ {c}
  <2>1. IsFiniteSet(T) /\ IsFiniteSet(T \cap A) /\ IsFiniteSet(T \ A)
    BY FS_Subset
  <2>2. CASE T = {}
    <3>1. T \cap A = {} /\ T \ A = {} /\ Sum(T) = 0
      BY <2>1, <2>2, SumEquation, Zenon
    <3> QED BY <3>1, <2>2
  <2>3. CASE T # {}
    <3>1. c \in T /\ U \in P
      BY <2>3, <1>1, ChosenIn
    <3>2. Sum(T) = f[c] + Sum(U) /\ Sum(U) = Sum(U \cap A) + Sum(U \ A)
      BY <3>1, <2>1, SumRemove
    <3>3. Sum(U \cap A) \in Nat /\ Sum(U \ A) \in Nat /\ f[c] \in Nat
      <4>1. IsFiniteSet(U \cap A) /\ IsFiniteSet(U \ A)
        BY <2>1, FS_Subset
      <4> QED BY <4>1, <3>1, SumType
    <3>4. CASE c \in A
      <4>1. (T \cap A) \ {c} = U \cap A /\ T \ A = U \ A /\ c \in T \cap A
        BY <3>1, <3>4
      <4>2. Sum(T \cap A) = f[c] + Sum((T \cap A) \ {c})
        BY <4>1, <2>1, SumRemove
      <4> HIDE DEF Sum, c, U
      <4>3. Sum(T) = Sum(T \cap A) + Sum(T \ A)
        BY <4>1, <4>2, <3>2, <3>3
      <4> QED BY <4>3
    <3>5. CASE c \notin A
      <4>1. (T \ A) \ {c} = U \ A /\ T \cap A = U \cap A /\ c \in T \ A
        BY <3>1, <3>5
      <4>2. Sum(T \ A) = f[c] + Sum((T \ A) \ {c})
        BY <4>1, <2>1, SumRemove
      <4> HIDE DEF Sum, c, U
      <4>3. Sum(T \ A) = f[c] + Sum(U \ A) /\ Sum(T \cap A) = Sum(U \cap A)
        BY <4>1, <4>2, Zenon
      <4>4. Sum(T) = Sum(T \cap A) + Sum(T \ A)
        BY <4>3, <3>2, <3>3
      <4> QED BY <4>4
    <3> QED BY <3>4, <3>5
  <2> QED BY <2>2, <2>3
<1>2. S \in P
  <2> HIDE DEF P
  <2> QED BY <1>1, SubsetInduction
<1>3. S \cap A = A
  OBVIOUS
<1> QED BY <1>2, <1>3
=============================================================================

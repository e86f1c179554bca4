----------------------------- MODULE FoldLemmas -----------------------------
(***************************************************************************)
(* Induction and recursion over the subsets of a finite set, what they say *)
(* of the sums and folds that the models take with the community modules,  *)
(* and what is in the lists that other lists are made of.                  *)
(*                                                                         *)
(* The induction principles are stated with sets in the place of           *)
(* predicates, so that they need no operator as a parameter.               *)
(***************************************************************************)
EXTENDS Integers, SequencesExt, FiniteSetTheorems, TLAPS

-----------------------------------------------------------------------------
(***************************************************************************)
(* Induction.                                                              *)
(***************************************************************************)

\* A set of naturals with no least element is empty.
LEMMA NatInduct ==
  ASSUME NEW P, 0 \in P, \A n \in Nat : n \in P => n + 1 \in P
  PROVE  \A n \in Nat : n \in P
<1> SUFFICES ASSUME Nat \ P # {}
             PROVE  FALSE
  OBVIOUS
<1>1. PICK k \in Nat \ P : \A j \in Nat \ P : <<j, k>> \notin OpToRel(<, Nat)
  BY NatLessThanWellFounded, WFMin
<1>2. k # 0 /\ k - 1 \in Nat /\ k - 1 < k /\ k = (k - 1) + 1
  OBVIOUS
<1>3. k - 1 \in P
  BY <1>1, <1>2 DEF OpToRel
<1> QED BY <1>1, <1>2, <1>3

\* What holds of a set whenever it holds of the set less any one element
\* holds of all subsets of a finite set.
LEMMA SubsetInduct ==
  ASSUME NEW S, IsFiniteSet(S), NEW P,
         \A T \in SUBSET S : (\A x \in T : T \ {x} \in P) => T \in P
  PROVE  \A T \in SUBSET S : T \in P
<1> DEFINE Q == {n \in Nat : \A T \in SUBSET S : Cardinality(T) = n => T \in P}
<1>1. \A T \in SUBSET S : IsFiniteSet(T) /\ Cardinality(T) \in Nat
  BY FS_Subset, FS_CardinalityType
<1>2. 0 \in Q
  <2>1. ASSUME NEW T \in SUBSET S, Cardinality(T) = 0
        PROVE  T \in P
    BY <1>1, <2>1, FS_EmptySet
  <2> QED BY <2>1
<1>3. ASSUME NEW n \in Nat, n \in Q
      PROVE  n + 1 \in Q
  <2>1. ASSUME NEW T \in SUBSET S, Cardinality(T) = n + 1
        PROVE  T \in P
    <3>1. ASSUME NEW x \in T
          PROVE  T \ {x} \in P
      <4>1. IsFiniteSet(T) /\ x \in T
        BY <1>1
      <4>2. Cardinality(T \ {x}) = (n + 1) - 1
        BY <2>1, <4>1, FS_RemoveElement
      <4>3. T \ {x} \in SUBSET S /\ Cardinality(T \ {x}) = n
        BY <4>2
      <4> QED BY <1>3, <4>3
    <3> QED BY <3>1
  <2> QED BY <2>1
<1>4. \A n \in Nat : n \in Q
  <2> HIDE DEF Q
  <2> QED BY <1>2, <1>3, NatInduct
<1> QED BY <1>1, <1>4

-----------------------------------------------------------------------------
(***************************************************************************)
(* Quotients.                                                              *)
(***************************************************************************)

\* The quotient is the one whose multiple x has come to.
LEMMA QuotientIs ==
  ASSUME NEW x \in Nat, NEW m \in Nat, m >= 1
  PROVE  /\ x \div m \in Nat
         /\ \A q \in Nat : x \div m = q <=> q * m <= x /\ x < (q + 1) * m
<1>1. x = m * (x \div m) + (x % m) /\ x % m \in 0 .. m - 1 /\ x \div m \in Int
  OBVIOUS
<1>2. PICK d \in Int : d = x \div m
  BY <1>1
<1>3. PICK e \in 0 .. m - 1 : e = x % m
  BY <1>1
<1>4. x = m * d + e
  BY <1>1, <1>2, <1>3
<1>5. d \in Nat
  <2> SUFFICES ASSUME d <= -1
               PROVE  FALSE
    BY <1>2
  <2>1. m * d <= -m
    OBVIOUS
  <2> QED BY <1>4, <2>1
<1>6. d * m <= x /\ x < (d + 1) * m
  <2>1. d * m = m * d /\ (d + 1) * m = m * d + m
    OBVIOUS
  <2> QED BY <1>4, <2>1
<1>7. ASSUME NEW q \in Nat, q * m <= x, x < (q + 1) * m
      PROVE  q = d
  <2>1. CASE q < d
    <3>1. (q + 1) * m <= d * m
      <4>1. q + 1 <= d
        BY <2>1, <1>2
      <4> QED BY <4>1
    <3> QED BY <1>6, <1>7, <3>1
  <2>2. CASE d < q
    <3>1. (d + 1) * m <= q * m
      <4>1. d + 1 <= q
        BY <2>2, <1>2
      <4> QED BY <4>1
    <3> QED BY <1>6, <1>7, <3>1
  <2> QED BY <2>1, <2>2
<1> QED BY <1>2, <1>5, <1>6, <1>7

LEMMA TimesOrdered ==
  ASSUME NEW a \in Nat, NEW b \in Nat, NEW m \in Nat, a <= b
  PROVE  a * m <= b * m
OBVIOUS

-----------------------------------------------------------------------------
(***************************************************************************)
(* Least and greatest elements.                                            *)
(***************************************************************************)

\* A finite set of integers that is not empty has a greatest element: the one
\* whose set of greater elements is minimal.
LEMMA GreatestExists ==
  ASSUME NEW S \in SUBSET Int, IsFiniteSet(S), S # {}
  PROVE  \E x \in S : \A y \in S : y <= x
<1> DEFINE Above(x) == {y \in S : y > x}
           T        == {Above(x) : x \in S}
<1>1. T \subseteq FiniteSubsetsOf(S) /\ T # {}
  <2>1. ASSUME NEW x \in S
        PROVE  Above(x) \in FiniteSubsetsOf(S)
    <3>1. Above(x) \in SUBSET S
      OBVIOUS
    <3>2. IsFiniteSet(Above(x))
      BY <3>1, FS_Subset
    <3> QED BY <3>1, <3>2 DEF FiniteSubsetsOf
  <2> HIDE DEF Above
  <2> QED BY <2>1
<1>2. PICK U \in T : \A V \in T : <<V, U>> \notin StrictSubsetOrdering(S)
  <2> HIDE DEF T
  <2> QED BY <1>1, FS_StrictSubsetOrderingWellFounded, WFMin
<1>3. PICK x \in S : U = Above(x)
  BY <1>2
<1>4. ASSUME NEW y \in S, y > x
      PROVE  FALSE
  <2>1. Above(y) \in T /\ Above(y) \in FiniteSubsetsOf(S) /\ U \in FiniteSubsetsOf(S)
    BY <1>1, <1>2
  <2>2. Above(y) \subseteq U /\ Above(y) # U
    <3>1. y \in U /\ y \notin Above(y)
      BY <1>3, <1>4
    <3>2. ASSUME NEW z \in Above(y)
          PROVE  z \in Above(x)
      <4>1. z \in Int /\ y \in Int /\ x \in Int /\ z > y
        OBVIOUS
      <4> QED BY <1>4, <4>1
    <3> QED BY <1>3, <3>1, <3>2
  <2>3. <<Above(y), U>> \in StrictSubsetOrdering(S)
    BY <2>1, <2>2 DEF StrictSubsetOrdering, FiniteSubsetsOf
  <2> QED BY <1>2, <2>1, <2>3
<1> QED BY <1>4

\* Every set of naturals that is not empty has a least element, Min(S).
LEMMA MinIs ==
  ASSUME NEW S \in SUBSET Nat, S # {}
  PROVE  Min(S) \in S /\ \A x \in S : Min(S) <= x
<1>1. \E x \in S : \A y \in S : x <= y
  <2> SUFFICES ASSUME \A x \in S : \E y \in S : ~(x <= y)
               PROVE  FALSE
    OBVIOUS
  <2> DEFINE P == {n \in Nat : \A x \in S : x > n}
  <2>1. 0 \in P
    OBVIOUS
  <2>2. \A n \in Nat : n \in P => n + 1 \in P
    OBVIOUS
  <2> HIDE DEF P
  <2>3. \A n \in Nat : n \in P
    BY <2>1, <2>2, NatInduct
  <2>4. PICK x \in S : TRUE
    OBVIOUS
  <2> QED BY <2>3, <2>4 DEF P
<1> QED BY <1>1 DEF Min

\* Max(S) is the greatest element of a finite set.
LEMMA MaxIs ==
  ASSUME NEW S \in SUBSET Nat, IsFiniteSet(S), S # {}
  PROVE  Max(S) \in S /\ \A x \in S : x <= Max(S)
<1>1. \E x \in S : \A y \in S : y <= x
  BY GreatestExists
<1> QED BY <1>1 DEF Max

-----------------------------------------------------------------------------
(***************************************************************************)
(* Recursion.                                                              *)
(***************************************************************************)

\* The values of f at T less one element.
Below(f, T) == [x \in T |-> f[T \ {x}]]

\* o[T][g] says what the value at T is when g has the values below T.
MapsInto(o, S, V) == \A T \in SUBSET S : \A g \in [T -> V] : o[T][g] \in V

Recurses(f, o, S, V) ==
  /\ f \in [SUBSET S -> V]
  /\ \A T \in SUBSET S : f[T] = o[T][Below(f, T)]

\* A value may be defined, for each subset of a finite set, from those of the
\* subset less one element: there is a function that satisfies the equation.
LEMMA RecursionExists ==
  ASSUME NEW S, IsFiniteSet(S), NEW V, NEW o, MapsInto(o, S, V)
  PROVE  \E f : Recurses(f, o, S, V)
<1> USE DEF MapsInto
<1> DEFINE Solves(f, n) == \A T \in SUBSET S : Cardinality(T) <= n => f[T] = o[T][Below(f, T)]
           Q == {n \in Nat : \E f \in [SUBSET S -> V] : Solves(f, n)}
<1>1. \A T \in SUBSET S : IsFiniteSet(T) /\ Cardinality(T) \in Nat
  BY FS_Subset, FS_CardinalityType
<1>2. \A f \in [SUBSET S -> V], T \in SUBSET S : Below(f, T) \in [T -> V]
  BY DEF Below
<1>3. 0 \in Q
  <2> DEFINE none == [x \in {} |-> x]
             f    == [T \in SUBSET S |-> o[{}][none]]
  <2>1. none \in [{} -> V]
    OBVIOUS
  <2>2. f \in [SUBSET S -> V]
    BY <2>1
  <2>3. ASSUME NEW T \in SUBSET S, Cardinality(T) <= 0
        PROVE  f[T] = o[T][Below(f, T)]
    <3>1. T = {}
      <4>1. Cardinality(T) = 0
        BY <1>1, <2>3
      <4> QED BY <1>1, <4>1, FS_EmptySet
    <3>2. Below(f, T) = none
      BY <3>1 DEF Below
    <3> QED BY <3>1, <3>2
  <2> QED BY <2>2, <2>3
<1>4. ASSUME NEW n \in Nat, n \in Q
      PROVE  n + 1 \in Q
  <2>1. PICK f \in [SUBSET S -> V] : Solves(f, n)
    BY <1>4
  <2> DEFINE g == [T \in SUBSET S |-> IF Cardinality(T) = n + 1 THEN o[T][Below(f, T)] ELSE f[T]]
  <2>2. g \in [SUBSET S -> V]
    BY <1>2
  <2>3. ASSUME NEW T \in SUBSET S, Cardinality(T) <= n + 1
        PROVE  g[T] = o[T][Below(g, T)]
    <3>1. Below(g, T) = Below(f, T)
      <4>1. ASSUME NEW x \in T
            PROVE  g[T \ {x}] = f[T \ {x}]
        <5>1. T \ {x} \in SUBSET S /\ Cardinality(T \ {x}) = Cardinality(T) - 1
          BY <1>1, FS_RemoveElement
        <5>2. Cardinality(T \ {x}) # n + 1
          BY <1>1, <2>3, <5>1
        <5> QED BY <5>1, <5>2
      <4> HIDE DEF g
      <4> QED BY <4>1 DEF Below
    <3>2. CASE Cardinality(T) = n + 1
      BY <3>1, <3>2
    <3>3. CASE Cardinality(T) # n + 1
      <4>1. Cardinality(T) <= n
        BY <1>1, <2>3, <3>3
      <4> QED BY <2>1, <3>1, <3>3, <4>1
    <3> QED BY <3>2, <3>3
  <2> HIDE DEF g
  <2> QED BY <2>2, <2>3
<1>5. \A n \in Nat : n \in Q
  <2> HIDE DEF Q
  <2> QED BY <1>3, <1>4, NatInduct
<1>6. IsFiniteSet(S) /\ Cardinality(S) \in Nat /\ \A T \in SUBSET S : Cardinality(T) <= Cardinality(S)
  BY FS_Subset, FS_CardinalityType
<1>7. PICK f \in [SUBSET S -> V] : Solves(f, Cardinality(S))
  BY <1>5, <1>6
<1> QED BY <1>6, <1>7 DEF Recurses

-----------------------------------------------------------------------------
(***************************************************************************)
(* Sums of naturals: SumFunctionOnSet(f, X) adds f[x] for the x in X, in   *)
(* the order in which elements are chosen.                                 *)
(***************************************************************************)

Choice(T) == CHOOSE x \in T : TRUE

\* it is the iteration by which the sum over X is defined.
SumSolves(f, X, it) ==
  it = [T \in SUBSET X |-> IF T = {} THEN 0 ELSE f[Choice(T)] + it[T \ {Choice(T)}]]

LEMMA ChoiceIsElement ==
  ASSUME NEW T, T # {}
  PROVE  Choice(T) \in T
BY DEF Choice

LEMMA SumIterates ==
  ASSUME NEW X, IsFiniteSet(X), NEW f, \A x \in X : f[x] \in Nat
  PROVE  \E it \in [SUBSET X -> Nat] : SumSolves(f, X, it)
<1> DEFINE o == [T \in SUBSET X |-> [g \in [T -> Nat] |->
                   IF T = {} THEN 0 ELSE f[Choice(T)] + g[Choice(T)]]]
<1>1. ASSUME NEW T \in SUBSET X, NEW g \in [T -> Nat]
      PROVE  o[T][g] \in Nat
  BY ChoiceIsElement
<1>2. PICK it : Recurses(it, o, X, Nat)
  <2> HIDE DEF o
  <2>1. MapsInto(o, X, Nat)
    BY <1>1 DEF MapsInto
  <2> QED BY <2>1, RecursionExists
<1>3. ASSUME NEW T \in SUBSET X
      PROVE  it[T] = IF T = {} THEN 0 ELSE f[Choice(T)] + it[T \ {Choice(T)}]
  <2>1. Below(it, T) \in [T -> Nat]
    BY <1>2 DEF Below, Recurses
  <2>2. T # {} => Below(it, T)[Choice(T)] = it[T \ {Choice(T)}]
    BY ChoiceIsElement DEF Below
  <2> QED BY <1>2, <2>1, <2>2 DEF Recurses
<1> QED BY <1>2, <1>3 DEF SumSolves, Recurses

LEMMA SumsAgree ==
  ASSUME NEW X, IsFiniteSet(X), NEW Y \in SUBSET X, NEW f, NEW i, NEW j,
         SumSolves(f, X, i), SumSolves(f, Y, j)
  PROVE  \A T \in SUBSET Y : j[T] = i[T]
<1> DEFINE P == {T \in SUBSET Y : j[T] = i[T]}
<1>1. IsFiniteSet(Y)
  BY FS_Subset
<1>2. ASSUME NEW T \in SUBSET Y, \A x \in T : T \ {x} \in P
      PROVE  T \in P
  <2>1. /\ j[T] = IF T = {} THEN 0 ELSE f[Choice(T)] + j[T \ {Choice(T)}]
        /\ i[T] = IF T = {} THEN 0 ELSE f[Choice(T)] + i[T \ {Choice(T)}]
    BY DEF SumSolves
  <2>2. T # {} => j[T \ {Choice(T)}] = i[T \ {Choice(T)}]
    BY <1>2, ChoiceIsElement
  <2> QED BY <2>1, <2>2
<1> HIDE DEF P
<1>3. \A T \in SUBSET Y : T \in P
  BY <1>1, <1>2, SubsetInduct
<1> QED BY <1>3 DEF P

\* The sum over a set is the value of the iteration over any larger one.
LEMMA SumIsIteration ==
  ASSUME NEW X, IsFiniteSet(X), NEW f, \A x \in X : f[x] \in Nat,
         NEW it, SumSolves(f, X, it), NEW Y \in SUBSET X
  PROVE  SumFunctionOnSet(f, Y) = it[Y]
<1> DEFINE j == CHOOSE k : SumSolves(f, Y, k)
<1>1. SumSolves(f, Y, j)
  BY FS_Subset, SumIterates
<1>2. SumFunctionOnSet(f, Y) = j[Y]
  BY DEF SumFunctionOnSet, FoldFunctionOnSet, MapThenFoldSet, SumSolves, Choice
<1> HIDE DEF j
<1> QED BY <1>1, <1>2, SumsAgree

LEMMA SumStep ==
  ASSUME NEW X, IsFiniteSet(X), NEW f, \A x \in X : f[x] \in Nat
  PROVE  /\ SumFunctionOnSet(f, X) \in Nat
         /\ X = {} => SumFunctionOnSet(f, X) = 0
         /\ X # {} => SumFunctionOnSet(f, X)
                       = f[Choice(X)] + SumFunctionOnSet(f, X \ {Choice(X)})
<1>1. PICK it \in [SUBSET X -> Nat] : SumSolves(f, X, it)
  BY SumIterates
<1>2. \A Y \in SUBSET X : SumFunctionOnSet(f, Y) = it[Y]
  BY <1>1, SumIsIteration
<1>3. it[X] = IF X = {} THEN 0 ELSE f[Choice(X)] + it[X \ {Choice(X)}]
  BY <1>1 DEF SumSolves
<1> QED BY <1>1, <1>2, <1>3

\* The order in which the elements are added does not matter.
LEMMA SumSplit ==
  ASSUME NEW X, IsFiniteSet(X), NEW f, \A x \in X : f[x] \in Nat
  PROVE  \A x \in X : SumFunctionOnSet(f, X) = f[x] + SumFunctionOnSet(f, X \ {x})
<1> DEFINE sum(T) == SumFunctionOnSet(f, T)
           P == {T \in SUBSET X : \A x \in T : sum(T) = f[x] + sum(T \ {x})}
<1>1. ASSUME NEW T \in SUBSET X
      PROVE  /\ sum(T) \in Nat
             /\ T # {} => sum(T) = f[Choice(T)] + sum(T \ {Choice(T)})
  BY FS_Subset, SumStep
<1>2. ASSUME NEW T \in SUBSET X, \A x \in T : T \ {x} \in P
      PROVE  T \in P
  <2>1. ASSUME NEW x \in T
        PROVE  sum(T) = f[x] + sum(T \ {x})
    <3> DEFINE c == Choice(T)
    <3>1. c \in T /\ sum(T) = f[c] + sum(T \ {c})
      BY <1>1, ChoiceIsElement
    <3>2. CASE c = x
      BY <3>1, <3>2
    <3>3. CASE c # x
      <4>1. sum(T \ {c}) = f[x] + sum((T \ {c}) \ {x})
        BY <1>2, <3>1, <3>3
      <4>2. sum(T \ {x}) = f[c] + sum((T \ {x}) \ {c})
        BY <1>2, <3>1, <3>3
      <4>3. (T \ {x}) \ {c} = (T \ {c}) \ {x}
        OBVIOUS
      <4>4. f[x] \in Nat /\ f[c] \in Nat /\ sum((T \ {c}) \ {x}) \in Nat
        BY <1>1, <3>1
      <4> HIDE DEF sum, c
      <4> QED BY <3>1, <4>1, <4>2, <4>3, <4>4
    <3> QED BY <3>2, <3>3
  <2> QED BY <2>1
<1> HIDE DEF P
<1>3. \A T \in SUBSET X : T \in P
  BY <1>2, SubsetInduct
<1> QED BY <1>3 DEF P

\* Functions that agree on a set have the same sum over it.
LEMMA SumSame ==
  ASSUME NEW X, IsFiniteSet(X), NEW f, NEW g,
         \A x \in X : f[x] \in Nat /\ g[x] = f[x]
  PROVE  SumFunctionOnSet(g, X) = SumFunctionOnSet(f, X)
<1> DEFINE sum(h, T) == SumFunctionOnSet(h, T)
           P == {T \in SUBSET X : sum(g, T) = sum(f, T)}
<1>1. ASSUME NEW T \in SUBSET X, \A x \in T : T \ {x} \in P
      PROVE  T \in P
  <2>1. IsFiniteSet(T)
    BY FS_Subset
  <2>2. CASE T = {}
    BY <2>1, <2>2, SumStep
  <2>3. CASE T # {}
    <3> DEFINE c == Choice(T)
    <3>1. c \in T
      BY <2>3, ChoiceIsElement
    <3>2. sum(f, T) = f[c] + sum(f, T \ {c}) /\ sum(g, T) = g[c] + sum(g, T \ {c})
      BY <2>1, <2>3, SumStep
    <3> QED BY <1>1, <3>1, <3>2
  <2> QED BY <2>2, <2>3
<1> HIDE DEF P
<1>2. \A T \in SUBSET X : T \in P
  BY <1>1, SubsetInduct
<1> QED BY <1>2 DEF P

\* A change at one element changes the sum by as much.
LEMMA SumUpdate ==
  ASSUME NEW X, IsFiniteSet(X), NEW f, NEW g, NEW a \in X, g[a] \in Nat,
         \A x \in X : f[x] \in Nat /\ (x # a => g[x] = f[x])
  PROVE  SumFunctionOnSet(g, X) + f[a] = SumFunctionOnSet(f, X) + g[a]
<1>1. IsFiniteSet(X \ {a})
  BY FS_RemoveElement
<1>2. SumFunctionOnSet(f, X) = f[a] + SumFunctionOnSet(f, X \ {a})
  BY SumSplit
<1>3. SumFunctionOnSet(g, X) = g[a] + SumFunctionOnSet(g, X \ {a})
  <2>1. \A x \in X : g[x] \in Nat
    OBVIOUS
  <2> QED BY <2>1, SumSplit
<1>4. SumFunctionOnSet(g, X \ {a}) = SumFunctionOnSet(f, X \ {a})
  BY <1>1, SumSame
<1>5. SumFunctionOnSet(f, X \ {a}) \in Nat /\ f[a] \in Nat
  BY <1>1, SumStep
<1> QED BY <1>2, <1>3, <1>4, <1>5

\* No term exceeds the sum, and a sum that is not zero has such a term.
LEMMA SumBounds ==
  ASSUME NEW X, IsFiniteSet(X), NEW f, \A x \in X : f[x] \in Nat
  PROVE  /\ SumFunctionOnSet(f, X) \in Nat
         /\ \A x \in X : f[x] <= SumFunctionOnSet(f, X)
         /\ SumFunctionOnSet(f, X) > 0 <=> \E x \in X : f[x] > 0
<1>1. SumFunctionOnSet(f, X) \in Nat
  BY SumStep
<1>2. ASSUME NEW x \in X
      PROVE  f[x] <= SumFunctionOnSet(f, X)
  <2>1. SumFunctionOnSet(f, X) = f[x] + SumFunctionOnSet(f, X \ {x})
    BY SumSplit
  <2>2. SumFunctionOnSet(f, X \ {x}) \in Nat
    BY FS_RemoveElement, SumStep
  <2> QED BY <2>1, <2>2
<1>3. ASSUME \A x \in X : f[x] = 0
      PROVE  SumFunctionOnSet(f, X) = 0
  <2> DEFINE P == {T \in SUBSET X : SumFunctionOnSet(f, T) = 0}
  <2>1. ASSUME NEW T \in SUBSET X, \A x \in T : T \ {x} \in P
        PROVE  T \in P
    <3>1. IsFiniteSet(T) /\ \A x \in T : f[x] \in Nat
      BY FS_Subset
    <3>2. CASE T = {}
      BY <3>1, <3>2, SumStep
    <3>3. CASE T # {}
      <4>1. Choice(T) \in T
        BY <3>3, ChoiceIsElement
      <4>2. SumFunctionOnSet(f, T \ {Choice(T)}) = 0 /\ f[Choice(T)] = 0
        BY <1>3, <2>1, <4>1
      <4>3. SumFunctionOnSet(f, T) = f[Choice(T)] + SumFunctionOnSet(f, T \ {Choice(T)})
        BY <3>1, <3>3, SumStep
      <4> QED BY <4>2, <4>3
    <3> QED BY <3>2, <3>3
  <2> HIDE DEF P
  <2>2. \A T \in SUBSET X : T \in P
    BY <2>1, SubsetInduct
  <2> QED BY <2>2 DEF P
<1> QED BY <1>1, <1>2, <1>3

\* A sum over fewer elements, none of them greater, is no greater.
LEMMA SumMonotone ==
  ASSUME NEW X, IsFiniteSet(X), NEW f, NEW g, NEW Y \in SUBSET X,
         \A x \in X : f[x] \in Nat, \A x \in Y : g[x] \in Nat /\ g[x] <= f[x]
  PROVE  SumFunctionOnSet(g, Y) <= SumFunctionOnSet(f, X)
<1> DEFINE sum(h, T) == SumFunctionOnSet(h, T)
           P == {T \in SUBSET X : sum(g, T \cap Y) <= sum(f, T)}
<1>1. ASSUME NEW T \in SUBSET X, \A x \in T : T \ {x} \in P
      PROVE  T \in P
  <2>1. /\ IsFiniteSet(T) /\ \A x \in T : f[x] \in Nat
        /\ IsFiniteSet(T \cap Y) /\ \A x \in T \cap Y : g[x] \in Nat
    <3>1. IsFiniteSet(T) /\ T \cap Y \in SUBSET X
      BY FS_Subset
    <3> QED BY <3>1, FS_Subset
  <2>2. CASE T = {}
    <3>1. T \cap Y = {}
      BY <2>2
    <3>2. sum(f, T) = 0
      BY <2>1, <2>2, SumStep
    <3>3. sum(g, T \cap Y) = 0
      BY <2>1, <3>1, SumStep
    <3> HIDE DEF sum
    <3> QED BY <3>2, <3>3 DEF P
  <2>3. CASE T # {}
    <3>1. PICK a \in T : TRUE
      BY <2>3
    <3>2. sum(f, T) = f[a] + sum(f, T \ {a})
      BY <2>1, SumSplit
    <3>3. /\ sum(f, T \ {a}) \in Nat
          /\ sum(g, (T \ {a}) \cap Y) \in Nat
          /\ sum(g, (T \ {a}) \cap Y) <= sum(f, T \ {a})
      <4>1. T \ {a} \in SUBSET X /\ (T \ {a}) \cap Y \in SUBSET X
        OBVIOUS
      <4>2. IsFiniteSet(T \ {a}) /\ IsFiniteSet((T \ {a}) \cap Y)
        BY <4>1, FS_Subset
      <4>3. sum(f, T \ {a}) \in Nat
        BY <4>2, SumStep
      <4>4. sum(g, (T \ {a}) \cap Y) \in Nat
        BY <4>2, SumStep
      <4> QED BY <1>1, <4>3, <4>4
    <3>4. CASE a \in Y
      <4>1. sum(g, T \cap Y) = g[a] + sum(g, (T \cap Y) \ {a})
        BY <2>1, <3>4, SumSplit
      <4>2. (T \cap Y) \ {a} = (T \ {a}) \cap Y
        OBVIOUS
      <4>3. f[a] \in Nat /\ g[a] \in Nat /\ g[a] <= f[a]
        BY <3>4
      <4>4. sum(g, T \cap Y) = g[a] + sum(g, (T \ {a}) \cap Y)
        BY <4>1, <4>2
      <4>5. sum(g, T \cap Y) <= sum(f, T)
        <5> HIDE DEF sum
        <5> QED BY <3>2, <3>3, <4>3, <4>4
      <4> QED BY <4>5
    <3>5. CASE a \notin Y
      <4>1. T \cap Y = (T \ {a}) \cap Y
        BY <3>5
      <4>2. f[a] \in Nat
        OBVIOUS
      <4>3. sum(g, T \cap Y) = sum(g, (T \ {a}) \cap Y)
        BY <4>1
      <4>4. sum(g, T \cap Y) <= sum(f, T)
        <5> HIDE DEF sum
        <5> QED BY <3>2, <3>3, <4>2, <4>3
      <4> QED BY <4>4
    <3> QED BY <3>4, <3>5
  <2> QED BY <2>2, <2>3
<1> HIDE DEF P
<1>2. \A T \in SUBSET X : T \in P
  BY <1>1, SubsetInduct
<1>3. X \cap Y = Y
  OBVIOUS
<1> QED BY <1>2, <1>3 DEF P
-----------------------------------------------------------------------------
(***************************************************************************)
(* Lists.                                                                  *)
(***************************************************************************)

LEMMA ConcatIs ==
  ASSUME NEW X, NEW a \in Seq(X), NEW b \in Seq(X)
  PROVE  /\ a \o b \in Seq(X) /\ Len(a \o b) = Len(a) + Len(b)
         /\ DOMAIN (a \o b) = 1 .. Len(a) + Len(b)
         /\ \A i \in 1 .. Len(a) + Len(b) :
              (a \o b)[i] = IF i <= Len(a) THEN a[i] ELSE b[i - Len(a)]
OBVIOUS

\* The first k members.
LEMMA BeginningIs ==
  ASSUME NEW X, NEW v \in Seq(X), NEW k \in 0 .. Len(v)
  PROVE  /\ SubSeq(v, 1, k) \in Seq(X) /\ Len(SubSeq(v, 1, k)) = k
         /\ DOMAIN SubSeq(v, 1, k) = 1 .. k
         /\ \A i \in 1 .. k : SubSeq(v, 1, k)[i] = v[i]
OBVIOUS

\* The members from place k on.
LEMMA RestIs ==
  ASSUME NEW X, NEW v \in Seq(X), NEW k \in 1 .. Len(v) + 1
  PROVE  /\ SubSeq(v, k, Len(v)) \in Seq(X) /\ Len(SubSeq(v, k, Len(v))) = Len(v) - k + 1
         /\ \A i \in 1 .. Len(v) - k + 1 : SubSeq(v, k, Len(v))[i] = v[i + k - 1]
OBVIOUS

LEMMA SameList ==
  ASSUME NEW X, NEW a \in Seq(X), NEW b \in Seq(X), Len(a) = Len(b),
         \A i \in 1 .. Len(a) : a[i] = b[i]
  PROVE  a = b
OBVIOUS

LEMMA AppendIs ==
  ASSUME NEW X, NEW v \in Seq(X), NEW x \in X
  PROVE  /\ Append(v, x) \in Seq(X) /\ Len(Append(v, x)) = Len(v) + 1
         /\ DOMAIN Append(v, x) = 1 .. Len(v) + 1
         /\ Append(v, x)[Len(v) + 1] = x
         /\ \A i \in 1 .. Len(v) : Append(v, x)[i] = v[i]
         /\ Front(Append(v, x)) = v /\ Last(Append(v, x)) = x
<1>1. /\ Append(v, x) \in Seq(X) /\ Len(Append(v, x)) = Len(v) + 1
      /\ DOMAIN Append(v, x) = 1 .. Len(v) + 1
      /\ Append(v, x)[Len(v) + 1] = x
      /\ \A i \in 1 .. Len(v) : Append(v, x)[i] = v[i]
  OBVIOUS
<1>2. Len(v) \in 0 .. Len(Append(v, x)) /\ Len(Append(v, x)) - 1 = Len(v)
  BY <1>1
<1> DEFINE w == Append(v, x)
           f == SubSeq(w, 1, Len(v))
<1>3. f \in Seq(X) /\ Len(f) = Len(v) /\ \A i \in 1 .. Len(v) : f[i] = w[i]
  <2> HIDE DEF w
  <2>1. w \in Seq(X) /\ Len(v) \in 0 .. Len(w)
    BY <1>1, <1>2 DEF w
  <2> QED BY <2>1, BeginningIs
<1>4. f = v
  <2>1. \A i \in 1 .. Len(f) : f[i] = v[i]
    BY <1>1, <1>3
  <2> HIDE DEF f
  <2> QED BY <1>3, <2>1, SameList
<1> QED BY <1>1, <1>2, <1>4 DEF Front, Last

\* A list that is not empty is its Front and its Last.
LEMMA FrontLast ==
  ASSUME NEW X, NEW v \in Seq(X), v # << >>
  PROVE  /\ Front(v) \in Seq(X) /\ Len(Front(v)) = Len(v) - 1 /\ Last(v) \in X
         /\ \A i \in 1 .. Len(v) - 1 : Front(v)[i] = v[i]
         /\ v = Append(Front(v), Last(v))
<1>1. Len(v) \in Nat /\ Len(v) >= 1 /\ Len(v) - 1 \in 0 .. Len(v)
  OBVIOUS
<1>2. /\ Front(v) \in Seq(X) /\ Len(Front(v)) = Len(v) - 1
      /\ \A i \in 1 .. Len(v) - 1 : Front(v)[i] = v[i]
  BY <1>1, BeginningIs DEF Front
<1>3. Last(v) \in X
  BY <1>1 DEF Last
<1> DEFINE w == Append(Front(v), Last(v))
<1>4. w \in Seq(X) /\ Len(w) = Len(v) /\ w[Len(v)] = Last(v) /\ \A i \in 1 .. Len(v) - 1 : w[i] = v[i]
  BY <1>1, <1>2, <1>3, AppendIs
<1>5. \A i \in 1 .. Len(w) : w[i] = v[i]
  BY <1>1, <1>4 DEF Last
<1> QED BY <1>2, <1>3, <1>4, <1>5, SameList

LEMMA InsertAtIs ==
  ASSUME NEW X, NEW v \in Seq(X), NEW k \in 1 .. Len(v) + 1, NEW e \in X
  PROVE  /\ InsertAt(v, k, e) \in Seq(X) /\ Len(InsertAt(v, k, e)) = Len(v) + 1
         /\ \A i \in 1 .. Len(v) + 1 :
              InsertAt(v, k, e)[i] = IF i < k THEN v[i] ELSE IF i = k THEN e ELSE v[i - 1]
<1> DEFINE n == Len(v)
           a == SubSeq(v, 1, k - 1)
           b == SubSeq(v, k, n)
           c == a \o <<e>>
           w == c \o b
<1>1. n \in Nat /\ k \in Nat /\ 1 <= k /\ k <= n + 1
  OBVIOUS
<1>2. a \in Seq(X) /\ Len(a) = k - 1 /\ \A i \in 1 .. k - 1 : a[i] = v[i]
  BY <1>1, BeginningIs
<1>3. b \in Seq(X) /\ Len(b) = n - k + 1 /\ \A i \in 1 .. n - k + 1 : b[i] = v[i + k - 1]
  BY RestIs
<1>4. <<e>> \in Seq(X) /\ Len(<<e>>) = 1 /\ <<e>>[1] = e
  OBVIOUS
<1> HIDE DEF a, b, n
<1>5. /\ c \in Seq(X) /\ Len(c) = k
      /\ \A i \in 1 .. k : c[i] = IF i <= k - 1 THEN a[i] ELSE <<e>>[i - (k - 1)]
  BY <1>1, <1>2, <1>4, ConcatIs
<1> HIDE DEF c
<1>6. /\ w \in Seq(X) /\ Len(w) = k + (n - k + 1)
      /\ \A i \in 1 .. k + (n - k + 1) : w[i] = IF i <= k THEN c[i] ELSE b[i - k]
  <2>1. /\ w \in Seq(X) /\ Len(w) = Len(c) + Len(b)
        /\ \A i \in 1 .. Len(c) + Len(b) : w[i] = IF i <= Len(c) THEN c[i] ELSE b[i - Len(c)]
    BY <1>3, <1>5, ConcatIs
  <2> HIDE DEF w
  <2> QED BY <1>3, <1>5, <2>1
<1>7. w = InsertAt(v, k, e)
  BY DEF InsertAt, a, b, c, n
<1> HIDE DEF w
<1>8. ASSUME NEW i \in 1 .. n + 1
      PROVE  w[i] = IF i < k THEN v[i] ELSE IF i = k THEN e ELSE v[i - 1]
  <2>1. i \in 1 .. k + (n - k + 1)
    BY <1>1
  <2>2. CASE i < k
    <3>1. i \in 1 .. k /\ i \in 1 .. k - 1 /\ i <= k - 1
      BY <1>1, <2>2
    <3> QED BY <1>1, <1>2, <1>5, <1>6, <2>1, <2>2, <3>1
  <2>3. CASE i = k
    <3>1. i \in 1 .. k /\ ~(i <= k - 1) /\ i - (k - 1) = 1
      BY <1>1, <2>3
    <3> QED BY <1>1, <1>4, <1>5, <1>6, <2>1, <2>3, <3>1
  <2>4. CASE i > k
    <3>1. ~(i <= k) /\ i - k \in 1 .. n - k + 1 /\ (i - k) + k - 1 = i - 1 /\ ~(i < k) /\ i # k
      BY <1>1, <2>4
    <3>2. b[i - k] = v[i - 1]
      BY <1>3, <3>1
    <3> QED BY <1>6, <2>1, <3>1, <3>2
  <2> QED BY <1>1, <2>2, <2>3, <2>4
<1>9. Len(w) = n + 1
  BY <1>1, <1>6
<1> QED BY <1>6, <1>7, <1>8, <1>9 DEF n

LEMMA RemoveAtIs ==
  ASSUME NEW X, NEW v \in Seq(X), NEW k \in 1 .. Len(v)
  PROVE  /\ RemoveAt(v, k) \in Seq(X) /\ Len(RemoveAt(v, k)) = Len(v) - 1
         /\ \A i \in 1 .. Len(v) - 1 : RemoveAt(v, k)[i] = IF i < k THEN v[i] ELSE v[i + 1]
<1> DEFINE n == Len(v)
           a == SubSeq(v, 1, k - 1)
           b == SubSeq(v, k + 1, n)
           w == a \o b
<1>1. n \in Nat /\ k \in Nat /\ 1 <= k /\ k <= n
  OBVIOUS
<1>2. a \in Seq(X) /\ Len(a) = k - 1 /\ \A i \in 1 .. k - 1 : a[i] = v[i]
  BY <1>1, BeginningIs
<1>3. b \in Seq(X) /\ Len(b) = n - k /\ \A i \in 1 .. n - k : b[i] = v[i + k]
  <2>1. k + 1 \in 1 .. Len(v) + 1
    BY <1>1
  <2>2. /\ b \in Seq(X) /\ Len(b) = n - (k + 1) + 1
        /\ \A i \in 1 .. n - (k + 1) + 1 : b[i] = v[i + (k + 1) - 1]
    BY <2>1, RestIs
  <2>3. n - (k + 1) + 1 = n - k /\ \A i \in 1 .. n - k : i + (k + 1) - 1 = i + k
    BY <1>1
  <2> HIDE DEF b, n
  <2> QED BY <2>2, <2>3
<1> HIDE DEF a, b, n
<1>4. /\ w \in Seq(X) /\ Len(w) = (k - 1) + (n - k)
      /\ \A i \in 1 .. (k - 1) + (n - k) : w[i] = IF i <= k - 1 THEN a[i] ELSE b[i - (k - 1)]
  <2>1. /\ w \in Seq(X) /\ Len(w) = Len(a) + Len(b)
        /\ \A i \in 1 .. Len(a) + Len(b) : w[i] = IF i <= Len(a) THEN a[i] ELSE b[i - Len(a)]
    BY <1>2, <1>3, ConcatIs
  <2> HIDE DEF w
  <2> QED BY <1>2, <1>3, <2>1
<1>5. w = RemoveAt(v, k)
  BY DEF RemoveAt, a, b, n
<1> HIDE DEF w
<1>6. ASSUME NEW i \in 1 .. n - 1
      PROVE  w[i] = IF i < k THEN v[i] ELSE v[i + 1]
  <2>1. i \in 1 .. (k - 1) + (n - k)
    BY <1>1
  <2>2. CASE i < k
    <3>1. i <= k - 1 /\ i \in 1 .. k - 1
      BY <1>1, <2>2
    <3> QED BY <1>2, <1>4, <2>1, <2>2, <3>1
  <2>3. CASE ~(i < k)
    <3>1. ~(i <= k - 1) /\ i - (k - 1) \in 1 .. n - k /\ (i - (k - 1)) + k = i + 1
      BY <1>1, <2>3
    <3>2. b[i - (k - 1)] = v[i + 1]
      BY <1>3, <3>1
    <3> QED BY <1>4, <2>1, <2>3, <3>1, <3>2
  <2> QED BY <2>2, <2>3
<1>7. Len(w) = n - 1
  BY <1>1, <1>4
<1> QED BY <1>4, <1>5, <1>6, <1>7 DEF n

\* The places of a list, and the last of some of them.
LEMMA PlacesAre ==
  ASSUME NEW X, NEW list \in Seq(X)
  PROVE  /\ DOMAIN list = 1 .. Len(list) /\ IsFiniteSet(DOMAIN list) /\ DOMAIN list \in SUBSET Nat
         /\ \A T \in SUBSET DOMAIN list : T # {} => Max(T) \in T /\ \A i \in T : i <= Max(T)
<1>1. Len(list) \in Int /\ 1 \in Int /\ DOMAIN list = 1 .. Len(list)
  OBVIOUS
<1>2. IsFiniteSet(1 .. Len(list))
  BY <1>1, FS_Interval
<1>3. DOMAIN list \in SUBSET Nat
  BY <1>1
<1>4. ASSUME NEW T \in SUBSET DOMAIN list, T # {}
      PROVE  Max(T) \in T /\ \A i \in T : i <= Max(T)
  <2>1. IsFiniteSet(T) /\ T \in SUBSET Nat
    BY <1>1, <1>2, <1>3, FS_Subset
  <2> QED BY <1>4, <2>1, MaxIs
<1> QED BY <1>1, <1>2, <1>3, <1>4

=============================================================================

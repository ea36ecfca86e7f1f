------------------------------ MODULE SumTheorems ------------------------------
(***************************************************************************)
(* Laws of SumOver, for every finite set and every function from it to the *)
(* natural numbers.  SumOver is defined by recursion over a set, from which *)
(* an element is chosen; that it does not matter which is SumRemove.  The  *)
(* sum is shown to be the cardinality of a set, for which the library has  *)
(* its theorems.  The induction is over the subsets of a finite set, with  *)
(* the set of those for which the claim holds in the place of a predicate. *)
(***************************************************************************)
EXTENDS Sums, Integers, FiniteSetTheorems, WellFoundedInduction, TLAPS

\* Induction over a finite set: what holds of a set when it holds of the set without any
\* one of its elements holds of all subsets.  F is the set of those it holds of.
LEMMA SetInduction ==
    ASSUME NEW S, IsFiniteSet(S), NEW F,
           \A T \in SUBSET S : (\A x \in T : T \ {x} \in F) => T \in F
    PROVE  \A T \in SUBSET S : T \in F
<1> DEFINE Bad == {T \in SUBSET S : T \notin F}
<1> SUFFICES ASSUME Bad # {} PROVE FALSE
    OBVIOUS
<1>1. IsWellFoundedOn(StrictSubsetOrdering(S), SUBSET S)
  <2>1. IsWellFoundedOn(StrictSubsetOrdering(S), FiniteSubsetsOf(S))
    BY FS_StrictSubsetOrderingWellFounded
  <2>2. FiniteSubsetsOf(S) = SUBSET S
    BY FS_FiniteSubsetsOfFinite
  <2> HIDE DEF Bad
  <2> QED BY <2>1, <2>2
<1>2. PICK U \in Bad : \A V \in Bad : ~(<<V, U>> \in StrictSubsetOrdering(S))
  <2>1. Bad \subseteq SUBSET S
    OBVIOUS
  <2> QED BY <1>1, <2>1, WFMin
<1>3. ASSUME NEW x \in U PROVE U \ {x} \in F
  <2>1. <<U \ {x}, U>> \in StrictSubsetOrdering(S)
    BY <1>3 DEF StrictSubsetOrdering
  <2> QED BY <1>2, <2>1
<1> QED BY <1>2, <1>3

\* f[x] many units for every x in S, the things a sum counts.
Units(f, S) == {p \in S \X Nat : 1 <= p[2] /\ p[2] <= f[p[1]]}

\* One more element has f[x] more units.
LEMMA UnitsRemove ==
    ASSUME NEW S, NEW f, NEW x \in S, f[x] \in Nat, IsFiniteSet(Units(f, S \ {x}))
    PROVE  /\ IsFiniteSet(Units(f, S))
           /\ Cardinality(Units(f, S)) = f[x] + Cardinality(Units(f, S \ {x}))
<1> DEFINE P == {x} \X (1..f[x])
           R == Units(f, S \ {x})
<1>1. Units(f, S) = P \cup R
    BY DEF Units
<1>2. P \cap R = {}
    BY DEF Units
<1>3. IsFiniteSet(P) /\ Cardinality(P) = f[x]
  <2>1. IsFiniteSet({x}) /\ Cardinality({x}) = 1
    BY FS_Singleton
  <2>2. IsFiniteSet(1..f[x]) /\ Cardinality(1..f[x]) = f[x]
    BY FS_Interval
  <2> HIDE DEF P
  <2>3. IsFiniteSet(P) /\ Cardinality(P) = 1 * f[x]
    BY <2>1, <2>2, FS_Product DEF P
  <2> QED BY <2>3
<1> HIDE DEF P, R
<1>4. IsFiniteSet(P \cup R) /\ Cardinality(P \cup R) = Cardinality(P) + Cardinality(R) - Cardinality(P \cap R)
    BY <1>3, FS_Union DEF R
<1>5. Cardinality(P \cap R) = 0
    BY <1>2, FS_EmptySet
<1>6. Cardinality(R) \in Nat
    BY FS_CardinalityType DEF R
<1> QED BY <1>1, <1>3, <1>4, <1>5, <1>6 DEF R

\* The units over a subset of a finite set are finitely many.
LEMMA UnitsFinite ==
    ASSUME NEW S, IsFiniteSet(S), NEW f, \A x \in S : f[x] \in Nat
    PROVE  \A T \in SUBSET S : IsFiniteSet(Units(f, T)) /\ Cardinality(Units(f, T)) \in Nat
<1> DEFINE F == {T \in SUBSET S : IsFiniteSet(Units(f, T))}
<1>1. ASSUME NEW T \in SUBSET S, \A x \in T : T \ {x} \in F
      PROVE  T \in F
  <2>1. CASE T = {}
    <3>1. Units(f, {}) = {}
      BY DEF Units
    <3> QED BY <2>1, <3>1, FS_EmptySet
  <2>2. ASSUME NEW x \in T PROVE T \in F
    <3>1. IsFiniteSet(Units(f, T \ {x}))
      BY <1>1
    <3>2. f[x] \in Nat
      OBVIOUS
    <3>3. IsFiniteSet(Units(f, T))
      BY <3>1, <3>2, UnitsRemove
    <3> QED BY <3>3
  <2> QED BY <2>1, <2>2
<1> HIDE DEF F
<1>2. \A T \in SUBSET S : T \in F
    BY <1>1, SetInduction
<1> QED BY <1>2, FS_CardinalityType DEF F

\* A sum counts its units: the recursion of MapThenSumSet has one solution, and the
\* number of units is one.
LEMMA SumIsCardinality ==
    ASSUME NEW S, IsFiniteSet(S), NEW f, \A x \in S : f[x] \in Nat
    PROVE  SumOver(f, S) = Cardinality(Units(f, S))
<1> DEFINE ch(s) == CHOOSE x \in s : TRUE
           Is(g) == g = [s \in SUBSET S |-> IF s = {} THEN 0 ELSE f[ch(s)] + g[s \ {ch(s)}]]
           w == [s \in SUBSET S |-> Cardinality(Units(f, s))]
           iter == CHOOSE g : Is(g)
<1>0. SumOver(f, S) = iter[S]
    BY DEF SumOver, MapThenSumSet, MapThenFoldSet
<1>1. \A s \in SUBSET S : s # {} => ch(s) \in s
    OBVIOUS
<1>2. \A s \in SUBSET S : \A x \in s : w[s] = f[x] + w[s \ {x}]
  <2> SUFFICES ASSUME NEW s \in SUBSET S, NEW x \in s
               PROVE  Cardinality(Units(f, s)) = f[x] + Cardinality(Units(f, s \ {x}))
    OBVIOUS
  <2>1. IsFiniteSet(Units(f, s \ {x}))
    BY UnitsFinite
  <2> QED BY <2>1, UnitsRemove
<1>3. w[{}] = 0
  <2>1. Units(f, {}) = {}
    BY DEF Units
  <2> QED BY <2>1, FS_EmptySet
<1>4. w \in [SUBSET S -> Nat]
    BY UnitsFinite
<1> HIDE DEF ch
<1>5. Is(w)
  <2>1. w = [s \in SUBSET S |-> w[s]]
    OBVIOUS
  <2>2. ASSUME NEW s \in SUBSET S PROVE w[s] = IF s = {} THEN 0 ELSE f[ch(s)] + w[s \ {ch(s)}]
    <3> HIDE DEF w
    <3> QED BY <1>1, <1>2, <1>3
  <2> HIDE DEF w
  <2> QED BY <2>1, <2>2
<1> HIDE DEF w
<1>6. Is(iter)
  <2> HIDE DEF Is
  <2> QED BY <1>5
<1> HIDE DEF iter
<1>7. \A s \in SUBSET S : iter[s] = w[s]
  <2> DEFINE F == {T \in SUBSET S : iter[T] = w[T]}
  <2>1. ASSUME NEW T \in SUBSET S, \A x \in T : T \ {x} \in F
        PROVE  T \in F
    <3>1. iter[T] = IF T = {} THEN 0 ELSE f[ch(T)] + iter[T \ {ch(T)}]
      BY <1>6
    <3>2. CASE T = {}
      BY <3>1, <3>2, <1>3
    <3>3. CASE T # {}
      <4>1. iter[T \ {ch(T)}] = w[T \ {ch(T)}]
        BY <2>1, <1>1, <3>3
      <4>2. w[T] = f[ch(T)] + w[T \ {ch(T)}]
        BY <1>1, <1>2, <3>3
      <4> QED BY <3>1, <3>3, <4>1, <4>2
    <3> QED BY <3>2, <3>3
  <2> HIDE DEF F
  <2>2. \A T \in SUBSET S : T \in F
    BY <2>1, SetInduction
  <2> QED BY <2>2 DEF F
<1> QED BY <1>0, <1>7 DEF w

\* A sum of natural numbers (days of requests, pieces of a product) is one.
LEMMA SumType ==
    ASSUME NEW S, IsFiniteSet(S), NEW f, \A x \in S : f[x] \in Nat
    PROVE  SumOver(f, S) \in Nat
BY SumIsCardinality, UnitsFinite

\* The sum over no rows.
LEMMA SumEmpty ==
    ASSUME NEW f
    PROVE  SumOver(f, {}) = 0
<1>1. Units(f, {}) = {}
    BY DEF Units
<1>2. SumOver(f, {}) = Cardinality(Units(f, {}))
    BY SumIsCardinality, FS_EmptySet
<1> QED BY <1>1, <1>2, FS_EmptySet

\* A sum only depends on the values at the elements summed over: a step that leaves these
\* rows alone leaves the sum alone.
LEMMA SumSame ==
    ASSUME NEW S, IsFiniteSet(S), NEW f, NEW g, \A x \in S : f[x] \in Nat /\ f[x] = g[x]
    PROVE  SumOver(f, S) = SumOver(g, S)
<1>1. Units(f, S) = Units(g, S)
    BY DEF Units
<1>2. SumOver(f, S) = Cardinality(Units(f, S)) /\ SumOver(g, S) = Cardinality(Units(g, S))
    BY SumIsCardinality
<1> QED BY <1>1, <1>2

\* Any element may be taken out of a sum.
LEMMA SumRemove ==
    ASSUME NEW S, IsFiniteSet(S), NEW f, \A x \in S : f[x] \in Nat, NEW x \in S
    PROVE  SumOver(f, S) = f[x] + SumOver(f, S \ {x})
<1>1. IsFiniteSet(S \ {x})
    BY FS_RemoveElement
<1>2. SumOver(f, S) = Cardinality(Units(f, S)) /\ SumOver(f, S \ {x}) = Cardinality(Units(f, S \ {x}))
    BY <1>1, SumIsCardinality
<1>3. IsFiniteSet(Units(f, S \ {x}))
    BY UnitsFinite
<1> QED BY <1>2, <1>3, UnitsRemove

\* One element changes its value, enters or leaves: the sums without it are the same.  The
\* form in which the steps of the models use the laws above.
LEMMA SumChange ==
    ASSUME NEW S, IsFiniteSet(S), NEW T, IsFiniteSet(T), NEW f, NEW g, NEW x,
           \A y \in S : f[y] \in Nat, \A y \in T : g[y] \in Nat,
           S \ {x} = T \ {x}, \A y \in S \ {x} : f[y] = g[y]
    PROVE  \E rest \in Nat :
               /\ SumOver(f, S) = rest + (IF x \in S THEN f[x] ELSE 0)
               /\ SumOver(g, T) = rest + (IF x \in T THEN g[x] ELSE 0)
<1> DEFINE rest == SumOver(f, S \ {x})
<1>1. IsFiniteSet(S \ {x})
    BY FS_RemoveElement
<1>2. rest \in Nat
    BY <1>1, SumType
<1>3. rest = SumOver(g, T \ {x})
    BY <1>1, SumSame
<1>4. SumOver(f, S) = rest + (IF x \in S THEN f[x] ELSE 0)
  <2>1. CASE x \in S
    <3>1. SumOver(f, S) = f[x] + rest
      BY <2>1, SumRemove
    <3>2. f[x] \in Nat
      BY <2>1
    <3> HIDE DEF rest
    <3> QED BY <3>1, <3>2, <2>1, <1>2
  <2>2. CASE x \notin S
    <3>1. S \ {x} = S
      BY <2>2
    <3>2. rest = SumOver(f, S)
      BY <3>1
    <3> HIDE DEF rest
    <3> QED BY <3>2, <2>2, <1>2
  <2> QED BY <2>1, <2>2
<1>5. SumOver(g, T) = rest + (IF x \in T THEN g[x] ELSE 0)
  <2>1. CASE x \in T
    <3>1. SumOver(g, T) = g[x] + SumOver(g, T \ {x})
      BY <2>1, SumRemove
    <3>2. g[x] \in Nat
      BY <2>1
    <3> HIDE DEF rest
    <3> QED BY <3>1, <3>2, <2>1, <1>2, <1>3
  <2>2. CASE x \notin T
    <3>1. T \ {x} = T
      BY <2>2
    <3>2. rest = SumOver(g, T)
      BY <3>1, <1>3
    <3> HIDE DEF rest
    <3> QED BY <3>2, <2>2, <1>2
  <2> QED BY <2>1, <2>2
<1> HIDE DEF rest
<1> QED BY <1>2, <1>4, <1>5


\* A sum of zeros: the lines of a cart that does not want the product.
LEMMA SumZero ==
    ASSUME NEW S, IsFiniteSet(S), NEW f, \A x \in S : f[x] = 0
    PROVE  SumOver(f, S) = 0
<1>1. Units(f, S) = {}
  BY DEF Units
<1>2. \A x \in S : f[x] \in Nat
  OBVIOUS
<1> QED
  BY <1>1, <1>2, SumIsCardinality, FS_EmptySet

============================================================================

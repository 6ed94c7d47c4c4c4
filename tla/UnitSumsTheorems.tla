-------------------------- MODULE UnitSumsTheorems --------------------------
(***************************************************************************)
(* What the theorems on stock and money need to know about SumOver.        *)
(***************************************************************************)
EXTENDS UnitSums, FiniteSetTheorems, TLAPS

\* The units one element contributes: finitely many, f[x] of them.
LEMMA UnitsOfCardinality ==
    ASSUME NEW f, NEW x, f[x] \in Nat
    PROVE  /\ IsFiniteSet(UnitsOf(f, x))
           /\ Cardinality(UnitsOf(f, x)) = f[x]
<1>1. IsFiniteSet(1 .. f[x]) /\ Cardinality(1 .. f[x]) = f[x]
  BY FS_Interval
<1>2. IsFiniteSet({x}) /\ Cardinality({x}) = 1
  BY FS_Singleton
<1>3. /\ IsFiniteSet({x} \X (1 .. f[x]))
      /\ Cardinality({x} \X (1 .. f[x])) = Cardinality({x}) * Cardinality(1 .. f[x])
  BY <1>1, <1>2, FS_Product
<1> QED
  BY <1>1, <1>2, <1>3 DEF UnitsOf

\* A finite set has finitely many units.
LEMMA UnitsFinite ==
    ASSUME NEW S, IsFiniteSet(S), NEW f, \A x \in S : f[x] \in Nat
    PROVE  IsFiniteSet(Units(f, S))
<1> DEFINE T == {UnitsOf(f, x) : x \in S}
           g == [x \in S |-> UnitsOf(f, x)]
<1>1. g \in Surjection(S, T)
  BY DEF Surjection
<1>2. IsFiniteSet(T)
  BY <1>1, FS_Surjection
<1>3. \A U \in T : IsFiniteSet(U)
  BY UnitsOfCardinality
<1>4. IsFiniteSet(UNION T)
  <2> HIDE DEF T
  <2> QED  BY <1>2, <1>3, FS_UNION
<1> QED
  BY <1>4 DEF Units

\* A sum is a natural number.
LEMMA SumType ==
    ASSUME NEW S, IsFiniteSet(S), NEW f, \A x \in S : f[x] \in Nat
    PROVE  SumOver(f, S) \in Nat
BY UnitsFinite, FS_CardinalityType DEF SumOver

\* The empty sum.
LEMMA SumEmpty ==
    ASSUME NEW f
    PROVE  SumOver(f, {}) = 0
<1>1. Units(f, {}) = {}
  BY DEF Units
<1> QED
  BY <1>1, FS_EmptySet DEF SumOver

\* Adding an element adds what it contributes.
LEMMA SumAdd ==
    ASSUME NEW S, IsFiniteSet(S), NEW f, \A y \in S : f[y] \in Nat,
           NEW x, x \notin S, f[x] \in Nat
    PROVE  SumOver(f, S \cup {x}) = SumOver(f, S) + f[x]
<1>1. Units(f, S \cup {x}) = Units(f, S) \cup UnitsOf(f, x)
  BY DEF Units
<1>2. Units(f, S) \cap UnitsOf(f, x) = {}
  BY DEF Units, UnitsOf
<1>3. IsFiniteSet(Units(f, S)) /\ IsFiniteSet(UnitsOf(f, x))
  BY UnitsFinite, UnitsOfCardinality
<1>4. Cardinality(Units(f, S)) \in Nat
  BY <1>3, FS_CardinalityType
<1>5. Cardinality(Units(f, S) \cup UnitsOf(f, x))
        = Cardinality(Units(f, S)) + Cardinality(UnitsOf(f, x))
          - Cardinality(Units(f, S) \cap UnitsOf(f, x))
  BY <1>3, FS_Union
<1>6. Cardinality(Units(f, S) \cap UnitsOf(f, x)) = 0
  BY <1>2, FS_EmptySet
<1>7. Cardinality(UnitsOf(f, x)) = f[x]
  BY UnitsOfCardinality
<1>8. /\ SumOver(f, S) = Cardinality(Units(f, S))
      /\ SumOver(f, S \cup {x}) = Cardinality(Units(f, S) \cup UnitsOf(f, x))
  BY <1>1 DEF SumOver
<1> QED
  BY <1>4, <1>5, <1>6, <1>7, <1>8

\* Removing an element removes what it contributes.
LEMMA SumRemove ==
    ASSUME NEW S, IsFiniteSet(S), NEW f, \A y \in S : f[y] \in Nat, NEW x \in S
    PROVE  SumOver(f, S) = SumOver(f, S \ {x}) + f[x]
<1>1. IsFiniteSet(S \ {x})
  BY FS_RemoveElement
<1>2. SumOver(f, (S \ {x}) \cup {x}) = SumOver(f, S \ {x}) + f[x]
  BY <1>1, SumAdd
<1>3. (S \ {x}) \cup {x} = S
  OBVIOUS
<1> QED
  BY <1>2, <1>3

\* A sum depends only on what is summed.
LEMMA SumCongruent ==
    ASSUME NEW S, NEW f, NEW g, \A x \in S : f[x] = g[x]
    PROVE  SumOver(f, S) = SumOver(g, S)
<1>1. Units(f, S) = Units(g, S)
  BY DEF Units, UnitsOf
<1> QED
  BY <1>1 DEF SumOver

\* A part sums to no more than the whole.
LEMMA SumMonotone ==
    ASSUME NEW T, IsFiniteSet(T), NEW f, \A y \in T : f[y] \in Nat, NEW S \in SUBSET T
    PROVE  SumOver(f, S) <= SumOver(f, T)
<1>1. IsFiniteSet(Units(f, T))
  BY UnitsFinite
<1>2. Units(f, S) \in SUBSET Units(f, T)
  BY DEF Units
<1> QED
  BY <1>1, <1>2, FS_Subset DEF SumOver
=============================================================================

------------------------------ MODULE NaturalSets ------------------------------
(***************************************************************************)
(* Least and greatest elements of sets of natural numbers: what the proofs  *)
(* need of page, part, file and run numbers.                                *)
(***************************************************************************)
EXTENDS Naturals, FiniteSets, FiniteSetsExt, FiniteSetTheorems, WellFoundedInduction, TLAPS

\* Any set of numbers has a least one: its initial segments are finite sets.
LEMMA LeastOf ==
  ASSUME NEW T \in SUBSET Nat, T # {}
  PROVE  \E x \in T : \A y \in T : x <= y
<1> DEFINE Below(x) == {z \in T : z <= x}
           initials == {Below(x) : x \in T}
<1>1. \A x \in T : Below(x) \in SUBSET Nat /\ IsFiniteSet(Below(x))
  <2> SUFFICES ASSUME NEW x \in T PROVE Below(x) \in SUBSET Nat /\ IsFiniteSet(Below(x))
    OBVIOUS
  <2>1. x \in Nat /\ Below(x) \in SUBSET Nat /\ \A y \in Below(x) : y <= x
    OBVIOUS
  <2> HIDE DEF Below
  <2> QED
    BY <2>1, FS_BoundedSetOfNaturals
<1>2. initials \subseteq FiniteSubsetsOf(Nat) /\ initials # {}
  BY <1>1 DEF FiniteSubsetsOf
<1>3. PICK M \in initials : \A N \in initials : ~ (<<N, M>> \in StrictSubsetOrdering(Nat))
  <2> HIDE DEF initials
  <2> QED
    BY <1>2, FS_StrictSubsetOrderingWellFounded, WFMin
<1>4. PICK x \in T : M = Below(x)
  BY <1>3
<1>5. ASSUME NEW y \in T, y < x PROVE FALSE
  <2>1. x \in Nat /\ y \in Nat
    OBVIOUS
  <2>2. Below(y) \subseteq Below(x)
    <3>1. ASSUME NEW z \in T, z <= y PROVE z <= x
      <4>1. z \in Nat
        OBVIOUS
      <4> QED
        BY <1>5, <2>1, <3>1, <4>1
    <3> QED
      BY <3>1
  <2>3. x \in Below(x) /\ x \notin Below(y)
    BY <1>5, <2>1
  <2>4. Below(y) \in initials
    OBVIOUS
  <2> HIDE DEF Below, initials
  <2> QED
    BY <1>1, <1>3, <1>4, <2>2, <2>3, <2>4 DEF StrictSubsetOrdering
<1> QED
  BY <1>5

\* The element of a finite set with the fewest above it has none above it.
LEMMA GreatestOf ==
  ASSUME NEW T \in SUBSET Nat, IsFiniteSet(T), T # {}
  PROVE  \E x \in T : \A y \in T : y <= x
<1> DEFINE Above(x) == {z \in T : z > x}
           counts == {Cardinality(Above(x)) : x \in T}
<1>1. \A x \in T : IsFiniteSet(Above(x)) /\ Cardinality(Above(x)) \in Nat
  BY FS_Subset, FS_CardinalityType
<1>2. counts \in SUBSET Nat /\ counts # {}
  BY <1>1
<1>3. PICK n \in counts : \A m \in counts : n <= m
  BY <1>2, LeastOf
<1>4. PICK x \in T : \A y \in T : Cardinality(Above(x)) <= Cardinality(Above(y))
  BY <1>3
<1>5. ASSUME NEW y \in T, y > x PROVE FALSE
  <2>1. Above(y) \in SUBSET Above(x) /\ y \in Above(x) /\ y \notin Above(y)
    <3>1. x \in Nat /\ y \in Nat
      OBVIOUS
    <3>2. ASSUME NEW z \in T, z > y PROVE z > x
      <4>1. z \in Nat
        OBVIOUS
      <4> QED
        BY <1>5, <3>1, <3>2, <4>1
    <3>3. Above(y) \in SUBSET Above(x)
      BY <3>2
    <3> QED
      BY <1>5, <3>1, <3>3
  <2>2. /\ Cardinality(Above(y)) <= Cardinality(Above(x))
        /\ Cardinality(Above(x)) = Cardinality(Above(y)) => Above(x) = Above(y)
    BY <1>1, <2>1, FS_Subset
  <2> HIDE DEF Above
  <2> QED
    BY <1>1, <1>4, <2>1, <2>2
<1> QED
  BY <1>5

\* The greatest and the least element, by the operators of FiniteSetsExt.
LEMMA MaxOf ==
  ASSUME NEW S \in SUBSET Nat, IsFiniteSet(S), S # {}
  PROVE  Max(S) \in S /\ \A k \in S : k <= Max(S)
<1>1. PICK x \in S : \A y \in S : y <= x
  BY GreatestOf
<1>2. \A y \in S : x >= y
  BY <1>1
<1> QED
  BY <1>2 DEF Max

LEMMA MinOf ==
  ASSUME NEW S \in SUBSET Nat, S # {}
  PROVE  Min(S) \in S
<1>1. PICK x \in S : \A y \in S : x <= y
  BY LeastOf
<1> QED
  BY <1>1 DEF Min

\* The first n elements of a set: its beginning, and empty only when it is.
FirstN(S, n) == {k \in S : Cardinality({j \in S : j <= k}) <= n}

LEMMA FirstOf ==
  ASSUME NEW S \in SUBSET Nat, IsFiniteSet(S), NEW n \in Nat \ {0}
  PROVE  /\ FirstN(S, n) \in SUBSET S /\ (S # {} => FirstN(S, n) # {})
         /\ \A k \in FirstN(S, n) : \A j \in S : j <= k => j \in FirstN(S, n)
<1> DEFINE Below(k) == {j \in S : j <= k}
           F == FirstN(S, n)
<1>1. \A k \in S : IsFiniteSet(Below(k)) /\ Cardinality(Below(k)) \in Nat
  BY FS_Subset, FS_CardinalityType
<1>2. ASSUME NEW k \in F, NEW j \in S, j <= k PROVE j \in F
  <2>1. k \in S /\ Cardinality(Below(k)) <= n
    BY DEF FirstN
  <2>2. Below(j) \subseteq Below(k)
    <3>1. \A i \in S : i <= j => i <= k
      BY <1>2, <2>1
    <3> QED
      BY <3>1
  <2>3. Cardinality(Below(j)) <= Cardinality(Below(k))
    BY <1>1, <2>1, <2>2, FS_Subset
  <2>4. Cardinality({i \in S : i <= j}) <= n
    BY <1>1, <2>1, <2>3
  <2> QED
    BY <2>4 DEF FirstN
<1>3. ASSUME S # {} PROVE F # {}
  <2>1. PICK x \in S : \A y \in S : x <= y
    BY <1>3, LeastOf
  <2>2. Below(x) = {x}
    <3>1. \A y \in S : y <= x <=> y = x
      BY <2>1
    <3> QED
      BY <3>1
  <2>3. Cardinality(Below(x)) = 1
    BY <2>2, FS_Singleton
  <2>4. Cardinality({j \in S : j <= x}) <= n
    BY <2>3
  <2> QED
    BY <2>4 DEF FirstN
<1>4. F \in SUBSET S
  BY DEF FirstN
<1> QED
  BY <1>2, <1>3, <1>4

\* A finite set has an i-th element: one with i - 1 elements below it.
LEMMA NthOf ==
  ASSUME NEW S \in SUBSET Nat, IsFiniteSet(S), NEW i \in 1..Cardinality(S)
  PROVE  \E d \in S : Cardinality({e \in S : e < d}) = i - 1
<1> DEFINE Upto(d) == {e \in S : e <= d}
           T == {d \in S : Cardinality(Upto(d)) >= i}
<1>1. Cardinality(S) \in Nat /\ i \in Nat /\ i >= 1 /\ i <= Cardinality(S) /\ S # {}
  BY FS_CardinalityType, FS_EmptySet
<1>2. T # {}
  <2>1. PICK g \in S : \A e \in S : e <= g
    BY <1>1, GreatestOf
  <2>2. Upto(g) = S
    BY <2>1
  <2> QED
    BY <1>1, <2>1, <2>2
<1>3. PICK d \in T : \A e \in T : d <= e
  BY <1>2, LeastOf
<1> DEFINE B == {e \in S : e < d}
<1>4. d \in S /\ d \in Nat /\ IsFiniteSet(B) /\ Cardinality(B) \in Nat
  BY FS_Subset, FS_CardinalityType
<1>5. Upto(d) = B \cup {d} /\ d \notin B
  <2>1. ASSUME NEW e \in S PROVE (e <= d <=> e < d \/ e = d) /\ ~ (d < d)
    <3>1. e \in Nat /\ d \in Nat
      BY <1>4
    <3> QED
      BY <3>1
  <2> HIDE DEF T
  <2> QED
    BY <1>4, <2>1
<1>6. Cardinality(Upto(d)) = Cardinality(B) + 1 /\ Cardinality(Upto(d)) >= i
  <2>1. Cardinality(Upto(d)) >= i
    OBVIOUS
  <2> HIDE DEF B, Upto, T
  <2> QED
    BY <1>4, <1>5, <2>1, FS_AddElement
<1>7. ASSUME Cardinality(B) >= i PROVE FALSE
  <2>1. B # {} /\ B \in SUBSET Nat
    <3>1. B \in SUBSET Nat
      OBVIOUS
    <3> HIDE DEF B, T
    <3> QED
      BY <1>1, <1>7, <3>1, FS_EmptySet
  <2>2. PICK g \in B : \A e \in B : e <= g
    <3> HIDE DEF B
    <3> QED
      BY <1>4, <2>1, GreatestOf
  <2>3. Upto(g) = B
    <3>1. ASSUME NEW e \in S PROVE e <= g <=> e < d
      <4>1. e \in Nat /\ g \in Nat /\ g < d
        OBVIOUS
      <4>2. e < d => e <= g
        BY <2>2
      <4> QED
        BY <1>4, <4>1, <4>2
    <3> QED
      BY <3>1
  <2>4. g \in T /\ g < d /\ g \in Nat
    BY <1>7, <2>3
  <2> HIDE DEF T, B
  <2> QED
    BY <1>3, <1>4, <2>4
<1>8. Cardinality(B) = i - 1
  <2> HIDE DEF B, Upto, T
  <2> QED
    BY <1>1, <1>4, <1>6, <1>7
<1> QED
  BY <1>4, <1>8

\* A greater element has more elements below it.
LEMMA RankOf ==
  ASSUME NEW S \in SUBSET Nat, IsFiniteSet(S), NEW d \in S
  PROVE  /\ Cardinality({x \in S : x < d}) \in 0..(Cardinality(S) - 1)
         /\ \A e \in S : d < e =>
               Cardinality({x \in S : x < d}) < Cardinality({x \in S : x < e})
<1> DEFINE Below(e) == {x \in S : x < e}
<1>1. \A e \in S : IsFiniteSet(Below(e)) /\ Cardinality(Below(e)) \in Nat
  BY FS_Subset, FS_CardinalityType
<1>2. Cardinality(S) \in Nat /\ d \in Nat
  BY FS_CardinalityType
<1>3. IsFiniteSet(Below(d) \cup {d}) /\ Cardinality(Below(d) \cup {d}) = Cardinality(Below(d)) + 1
  <2>1. d \notin Below(d)
    OBVIOUS
  <2> HIDE DEF Below
  <2> QED
    BY <1>1, <2>1, FS_AddElement
<1>4. Below(d) \cup {d} \in SUBSET S
  OBVIOUS
<1>5. ASSUME NEW e \in S, d < e PROVE Below(d) \cup {d} \in SUBSET Below(e)
  <2>1. \A x \in S : x < d => x < e
    <3> TAKE x \in S
    <3>1. x \in Nat /\ e \in Nat
      OBVIOUS
    <3> QED
      BY <1>2, <1>5, <3>1
  <2> QED
    BY <1>5, <2>1
<1>6. Cardinality(Below(d)) + 1 <= Cardinality(S)
  <2> HIDE DEF Below
  <2> QED
    BY <1>3, <1>4, FS_Subset
<1>7. ASSUME NEW e \in S, d < e PROVE Cardinality(Below(d)) < Cardinality(Below(e))
  <2>1. Cardinality(Below(d)) + 1 <= Cardinality(Below(e))
    <3>1. Below(d) \cup {d} \in SUBSET Below(e)
      BY <1>5, <1>7
    <3> HIDE DEF Below
    <3> QED
      BY <1>1, <1>3, <3>1, FS_Subset
  <2> HIDE DEF Below
  <2> QED
    BY <1>1, <2>1
<1>8. Cardinality(Below(d)) \in 0..(Cardinality(S) - 1)
  <2> HIDE DEF Below
  <2> QED
    BY <1>1, <1>2, <1>6
<1> QED
  BY <1>7, <1>8
===============================================================================

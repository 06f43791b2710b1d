---------------------------- MODULE LocateProofs ----------------------------
(***************************************************************************)
(* Theorems of Locate for any shelf, records, labels, widths of labels and *)
(* edits: where records are found, how wide their labels are, and in which *)
(* order they are shown.                                                   *)
(***************************************************************************)
EXTENDS Locate, BoundaryEditingProofs

-----------------------------------------------------------------------------
(* Sums over a finite set.                                                 *)

\* The element that a fold takes out first.
Taken(S) == CHOOSE x \in S : TRUE

\* The partial sums that SumFunctionOnSet is defined from.
PartialSums(f, S, g) ==
    g = [s \in SUBSET S |-> IF s = {} THEN 0 ELSE f[Taken(s)] + g[s \ {Taken(s)}]]

LEMMA SumByPartialSums ==
    ASSUME NEW f, NEW S
    PROVE  SumFunctionOnSet(f, S) = (CHOOSE g : PartialSums(f, S, g))[S]
BY DEF SumFunctionOnSet, FoldFunctionOnSet, MapThenFoldSet, PartialSums, Taken

LEMMA TakenIn ==
    ASSUME NEW S, S # {}
    PROVE  Taken(S) \in S
BY DEF Taken

LEMMA PartialSumNone ==
    ASSUME NEW f, NEW S, NEW g, PartialSums(f, S, g)
    PROVE  g[{}] = 0
<1>1. {} \in SUBSET S
  OBVIOUS
<1>2. QED
  BY <1>1, Zenon DEF PartialSums

LEMMA PartialSumSome ==
    ASSUME NEW f, NEW S, NEW g, PartialSums(f, S, g), NEW T \in SUBSET S, T # {}
    PROVE  g[T] = f[Taken(T)] + g[T \ {Taken(T)}]
BY Zenon DEF PartialSums

\* Two functions of partial sums agree on the subsets they share.
LEMMA PartialSumsAgree ==
    ASSUME NEW f, NEW S, NEW R, NEW g, NEW h, PartialSums(f, S, g),
           PartialSums(f, R, h), NEW T \in SUBSET S, T \in SUBSET R, IsFiniteSet(T)
    PROVE  g[T] = h[T]
<1> DEFINE Good == {U \in SUBSET T : g[U] = h[U]}
<1>1. ASSUME NEW U \in SUBSET T, \A V \in SUBSET U : V # U => V \in Good
      PROVE  U \in Good
  <2>1. U \in SUBSET S /\ U \in SUBSET R
    OBVIOUS
  <2>2. CASE U = {}
    <3>1. g[{}] = 0 /\ h[{}] = 0
      BY PartialSumNone, Zenon
    <3>2. QED
      BY <2>2, <3>1
  <2>3. CASE U # {}
    <3> DEFINE V == U \ {Taken(U)}
    <3>1. g[U] = f[Taken(U)] + g[V]
      BY <2>1, <2>3, PartialSumSome
    <3>4. h[U] = f[Taken(U)] + h[V]
      BY <2>1, <2>3, PartialSumSome
    <3>2. V \in SUBSET U /\ V # U
      BY <2>3, TakenIn
    <3>3. g[V] = h[V]
      BY <1>1, <3>2
    <3>5. QED
      BY <3>1, <3>3, <3>4
  <2>4. QED
    BY <2>2, <2>3
<1>2. T \in Good
  <2> HIDE DEF Good
  <2>1. QED
    BY <1>1, SubsetInduction
<1>3. QED
  BY <1>2

\* Of a finite set there are partial sums.
LEMMA PartialSumsExist ==
    ASSUME NEW f, NEW S, IsFiniteSet(S)
    PROVE  \E g : PartialSums(f, S, g)
<1> DEFINE Good == {T \in SUBSET S : \E g : PartialSums(f, T, g)}
<1>1. ASSUME NEW T \in SUBSET S, \A U \in SUBSET T : U # T => U \in Good
      PROVE  T \in Good
  <2> DEFINE Of(U) == CHOOSE g : PartialSums(f, U, g)
             G == [s \in SUBSET T |->
                     IF s = {} THEN 0 ELSE f[Taken(s)] + Of(s \ {Taken(s)})[s \ {Taken(s)}]]
  <2>1. ASSUME NEW s \in SUBSET T, s # {}
        PROVE  G[s \ {Taken(s)}] = Of(s \ {Taken(s)})[s \ {Taken(s)}]
    <3> DEFINE U == s \ {Taken(s)}
    <3>1. Taken(s) \in s
      BY <2>1, TakenIn
    <3>2. U \in SUBSET T /\ U # T /\ IsFiniteSet(U)
      BY <3>1, FS_Subset
    <3>3. PartialSums(f, U, Of(U))
      BY <1>1, <3>2
    <3>4. U \in SUBSET U
      OBVIOUS
    <3>5. CASE U = {}
      <4>1. Of(U)[{}] = 0
        BY <3>3, PartialSumNone, Zenon
      <4>2. QED
        BY <3>2, <3>5, <4>1
    <3>6. CASE U # {}
      <4> DEFINE V == U \ {Taken(U)}
      <4>0. Taken(U) \in U /\ V \in SUBSET U
        BY <3>6, TakenIn
      <4>1. Of(U)[U] = f[Taken(U)] + Of(U)[V]
        <5> HIDE DEF Of, U
        <5>1. QED
          BY <3>3, <3>4, <3>6, PartialSumSome
      <4>2. V \in SUBSET T /\ V # T /\ IsFiniteSet(V)
        BY <3>2, <4>0, FS_Subset
      <4>3. PartialSums(f, V, Of(V))
        BY <1>1, <4>2
      <4>4. Of(U)[V] = Of(V)[V]
        <5>1. V \in SUBSET V
          OBVIOUS
        <5> HIDE DEF Of, V, U
        <5>2. QED
          BY <3>3, <4>0, <4>2, <4>3, <5>1, PartialSumsAgree
      <4>5. G[U] = f[Taken(U)] + Of(V)[V]
        BY <3>2, <3>6
      <4>6. QED
        BY <4>1, <4>4, <4>5
    <3>7. QED
      BY <3>5, <3>6
  <2>2. PartialSums(f, T, G)
    <3> DEFINE H == [s \in SUBSET T |->
                      IF s = {} THEN 0 ELSE f[Taken(s)] + G[s \ {Taken(s)}]]
    <3>1. ASSUME NEW s \in SUBSET T
          PROVE  G[s] = H[s]
      <4>1. CASE s = {}
        BY <4>1
      <4>2. CASE s # {}
        <5>1. G[s] = f[Taken(s)] + Of(s \ {Taken(s)})[s \ {Taken(s)}]
          BY <4>2
        <5>2. G[s \ {Taken(s)}] = Of(s \ {Taken(s)})[s \ {Taken(s)}]
          BY <2>1, <4>2
        <5> HIDE DEF G, Of
        <5>3. H[s] = f[Taken(s)] + G[s \ {Taken(s)}]
          BY <4>2
        <5>4. QED
          BY <5>1, <5>2, <5>3
      <4>3. QED
        BY <4>1, <4>2
    <3>2. G = [s \in SUBSET T |-> G[s]]
      OBVIOUS
    <3>3. H = [s \in SUBSET T |-> H[s]]
      <4> HIDE DEF G
      <4>1. QED
        OBVIOUS
    <3>4. G = H
      <4> HIDE DEF G, H
      <4>1. QED
        BY <3>1, <3>2, <3>3
    <3>5. QED
      BY <3>4, Zenon DEF PartialSums
  <2>3. QED
    BY <2>2
<1>2. S \in Good
  <2> HIDE DEF Good
  <2>1. QED
    BY <1>1, SubsetInduction
<1>3. QED
  BY <1>2

\* The sum is the partial sum of any function of partial sums.
LEMMA SumIsPartialSum ==
    ASSUME NEW f, NEW S, IsFiniteSet(S), NEW g, PartialSums(f, S, g), NEW T \in SUBSET S
    PROVE  SumFunctionOnSet(f, T) = g[T]
<1>1. IsFiniteSet(T)
  BY FS_Subset
<1> DEFINE h == CHOOSE k : PartialSums(f, T, k)
<1>2. PartialSums(f, T, h)
  BY <1>1, PartialSumsExist
<1>3. SumFunctionOnSet(f, T) = h[T]
  BY SumByPartialSums
<1>4. T \in SUBSET T
  OBVIOUS
<1> HIDE DEF h
<1>5. h[T] = g[T]
  BY <1>1, <1>2, <1>4, PartialSumsAgree
<1>6. QED
  BY <1>3, <1>5

LEMMA SumOfNone ==
    ASSUME NEW f
    PROVE  SumFunctionOnSet(f, {}) = 0
<1>1. IsFiniteSet({})
  BY FS_EmptySet
<1>2. PICK g : PartialSums(f, {}, g)
  BY <1>1, PartialSumsExist
<1>3. {} \in SUBSET {}
  OBVIOUS
<1>4. SumFunctionOnSet(f, {}) = g[{}]
  BY <1>1, <1>2, <1>3, SumIsPartialSum
<1>5. g[{}] = 0
  BY <1>2, PartialSumNone, Zenon
<1>6. QED
  BY <1>4, <1>5

LEMMA SumTaken ==
    ASSUME NEW f, NEW S, IsFiniteSet(S), S # {}
    PROVE  SumFunctionOnSet(f, S) = f[Taken(S)] + SumFunctionOnSet(f, S \ {Taken(S)})
<1>1. PICK g : PartialSums(f, S, g)
  BY PartialSumsExist
<1> DEFINE T == S \ {Taken(S)}
<1>2. S \in SUBSET S
  OBVIOUS
<1>3. g[S] = f[Taken(S)] + g[T]
  BY <1>1, <1>2, PartialSumSome
<1>6. T \in SUBSET S
  OBVIOUS
<1> HIDE DEF T
<1>4. SumFunctionOnSet(f, S) = g[S] /\ SumFunctionOnSet(f, T) = g[T]
  BY <1>1, <1>2, <1>6, SumIsPartialSum
<1>5. QED
  BY <1>3, <1>4 DEF T

\* A sum of naturals is one.
LEMMA SumInNat ==
    ASSUME NEW f, NEW S, IsFiniteSet(S), \A x \in S : f[x] \in Nat
    PROVE  SumFunctionOnSet(f, S) \in Nat
<1> DEFINE Good == {T \in SUBSET S : SumFunctionOnSet(f, T) \in Nat}
<1>1. ASSUME NEW T \in SUBSET S, \A U \in SUBSET T : U # T => U \in Good
      PROVE  T \in Good
  <2>1. CASE T = {}
    BY <2>1, SumOfNone
  <2>2. CASE T # {}
    <3>1. Taken(T) \in T /\ IsFiniteSet(T)
      BY <2>2, TakenIn, FS_Subset
    <3>2. T \ {Taken(T)} \in Good
      BY <1>1, <3>1
    <3>3. SumFunctionOnSet(f, T \ {Taken(T)}) \in Nat /\ f[Taken(T)] \in Nat
      BY <3>1, <3>2
    <3>4. SumFunctionOnSet(f, T) = f[Taken(T)] + SumFunctionOnSet(f, T \ {Taken(T)})
      BY <2>2, <3>1, SumTaken
    <3>5. QED
      BY <3>3, <3>4
  <2>3. QED
    BY <2>1, <2>2
<1>2. S \in Good
  <2> HIDE DEF Good
  <2>1. QED
    BY <1>1, SubsetInduction
<1>3. QED
  BY <1>2

\* Any element may be taken out first.
LEMMA SumTake ==
    ASSUME NEW f, NEW S, IsFiniteSet(S), \A x \in S : f[x] \in Nat, NEW y \in S
    PROVE  SumFunctionOnSet(f, S) = f[y] + SumFunctionOnSet(f, S \ {y})
<1> DEFINE Good == {T \in SUBSET S :
                      \A z \in T : SumFunctionOnSet(f, T) = f[z] + SumFunctionOnSet(f, T \ {z})}
<1>1. ASSUME NEW T \in SUBSET S, \A U \in SUBSET T : U # T => U \in Good
      PROVE  T \in Good
  <2>1. SUFFICES ASSUME NEW z \in T
                 PROVE  SumFunctionOnSet(f, T) = f[z] + SumFunctionOnSet(f, T \ {z})
    OBVIOUS
  <2> DEFINE x == Taken(T)
  <2>2. x \in T /\ IsFiniteSet(T) /\ T # {}
    BY TakenIn, FS_Subset
  <2>3. SumFunctionOnSet(f, T) = f[x] + SumFunctionOnSet(f, T \ {x})
    BY <2>2, SumTaken
  <2>4. CASE z = x
    BY <2>3, <2>4
  <2>5. CASE z # x
    <3> DEFINE U == T \ {x}
               V == T \ {z}
               W == T \ {x, z}
    <3>1. U \in Good /\ V \in Good
      BY <1>1, <2>2
    <3>2. z \in U /\ x \in V /\ U \ {z} = W /\ V \ {x} = W
      BY <2>2, <2>5
    <3>3. SumFunctionOnSet(f, U) = f[z] + SumFunctionOnSet(f, W)
      BY <3>1, <3>2
    <3>4. SumFunctionOnSet(f, V) = f[x] + SumFunctionOnSet(f, W)
      BY <3>1, <3>2
    <3>5. SumFunctionOnSet(f, W) \in Nat
      <4>1. IsFiniteSet(W) /\ \A w \in W : f[w] \in Nat
        BY <2>2, FS_Subset
      <4> HIDE DEF W
      <4>2. QED
        BY <4>1, SumInNat
    <3>6. f[x] \in Nat /\ f[z] \in Nat
      BY <2>2
    <3> HIDE DEF U, V, W, x
    <3>7. f[x] + SumFunctionOnSet(f, U) = f[z] + SumFunctionOnSet(f, V)
      BY <3>3, <3>4, <3>5, <3>6
    <3>8. QED
      BY <2>3, <3>7 DEF U, V
  <2>6. QED
    BY <2>4, <2>5
<1>2. S \in Good
  <2> HIDE DEF Good
  <2>1. QED
    BY <1>1, SubsetInduction
<1>3. QED
  BY <1>2

\* A sum over a smaller set is not greater.
LEMMA SumMonotone ==
    ASSUME NEW f, NEW S, IsFiniteSet(S), \A x \in S : f[x] \in Nat, NEW R \in SUBSET S
    PROVE  SumFunctionOnSet(f, R) <= SumFunctionOnSet(f, S)
<1> DEFINE Good == {T \in SUBSET S :
                      R \subseteq T => SumFunctionOnSet(f, R) <= SumFunctionOnSet(f, T)}
<1>0. SumFunctionOnSet(f, R) \in Nat
  <2>1. IsFiniteSet(R)
    BY FS_Subset
  <2>2. QED
    BY <2>1, SumInNat
<1>1. ASSUME NEW T \in SUBSET S, \A U \in SUBSET T : U # T => U \in Good
      PROVE  T \in Good
  <2>1. SUFFICES ASSUME R \subseteq T, R # T
                 PROVE  SumFunctionOnSet(f, R) <= SumFunctionOnSet(f, T)
    BY <1>0
  <2>2. PICK y \in T : y \notin R
    BY <2>1
  <2> DEFINE U == T \ {y}
  <2>3. IsFiniteSet(T) /\ IsFiniteSet(U) /\ U \in SUBSET T /\ U # T /\ R \subseteq U
    BY <2>1, <2>2, FS_Subset
  <2>4. SumFunctionOnSet(f, R) <= SumFunctionOnSet(f, U)
    BY <1>1, <2>3
  <2>5. SumFunctionOnSet(f, T) = f[y] + SumFunctionOnSet(f, U)
    BY <2>3, SumTake
  <2>6. SumFunctionOnSet(f, U) \in Nat /\ f[y] \in Nat
    <3> HIDE DEF U
    <3>1. QED
      BY <2>3, SumInNat
  <2> HIDE DEF U
  <2>7. QED
    BY <1>0, <2>4, <2>5, <2>6
<1>2. S \in Good
  <2> HIDE DEF Good
  <2>1. QED
    BY <1>1, SubsetInduction
<1>3. QED
  BY <1>2

LEMMA SumAgrees ==
    ASSUME NEW f, NEW g, NEW S, IsFiniteSet(S), \A x \in S : f[x] = g[x]
    PROVE  SumFunctionOnSet(f, S) = SumFunctionOnSet(g, S)
<1> DEFINE Good == {T \in SUBSET S : SumFunctionOnSet(f, T) = SumFunctionOnSet(g, T)}
<1>1. ASSUME NEW T \in SUBSET S, \A U \in SUBSET T : U # T => U \in Good
      PROVE  T \in Good
  <2>1. CASE T = {}
    BY <2>1, SumOfNone
  <2>2. CASE T # {}
    <3>1. Taken(T) \in T /\ IsFiniteSet(T)
      BY <2>2, TakenIn, FS_Subset
    <3>2. T \ {Taken(T)} \in Good
      BY <1>1, <3>1
    <3>3. SumFunctionOnSet(f, T) = f[Taken(T)] + SumFunctionOnSet(f, T \ {Taken(T)})
      BY <2>2, <3>1, SumTaken
    <3>4. SumFunctionOnSet(g, T) = g[Taken(T)] + SumFunctionOnSet(g, T \ {Taken(T)})
      BY <2>2, <3>1, SumTaken
    <3>5. QED
      BY <3>1, <3>2, <3>3, <3>4
  <2>3. QED
    BY <2>1, <2>2
<1>2. S \in Good
  <2> HIDE DEF Good
  <2>1. QED
    BY <1>1, SubsetInduction
<1>3. QED
  BY <1>2

\* What is 0 adds nothing.
LEMMA SumOfPositive ==
    ASSUME NEW f, NEW S, IsFiniteSet(S), \A x \in S : f[x] \in Nat
    PROVE  SumFunctionOnSet(f, {x \in S : f[x] > 0}) = SumFunctionOnSet(f, S)
<1> DEFINE Some(T) == {x \in T : f[x] > 0}
           Good == {T \in SUBSET S : SumFunctionOnSet(f, Some(T)) = SumFunctionOnSet(f, T)}
<1>1. ASSUME NEW T \in SUBSET S, \A U \in SUBSET T : U # T => U \in Good
      PROVE  T \in Good
  <2>1. CASE Some(T) = T
    BY <2>1
  <2>2. CASE Some(T) # T
    <3>1. PICK y \in T : ~(f[y] > 0)
      BY <2>2
    <3> DEFINE U == T \ {y}
    <3>2. f[y] = 0 /\ IsFiniteSet(T) /\ \A x \in T : f[x] \in Nat
      BY <3>1, FS_Subset
    <3>3. Some(T) = Some(U)
      BY <3>1
    <3>4. SumFunctionOnSet(f, Some(U)) = SumFunctionOnSet(f, U)
      BY <1>1
    <3>5. SumFunctionOnSet(f, T) = f[y] + SumFunctionOnSet(f, U)
      BY <3>2, SumTake
    <3>6. SumFunctionOnSet(f, U) \in Nat
      <4>1. IsFiniteSet(U) /\ \A x \in U : f[x] \in Nat
        BY <3>2, FS_Subset
      <4> HIDE DEF U
      <4>2. QED
        BY <4>1, SumInNat
    <3>7. SumFunctionOnSet(f, T) = SumFunctionOnSet(f, U)
      <4> HIDE DEF U
      <4>1. QED
        BY <3>2, <3>5, <3>6
    <3>8. SumFunctionOnSet(f, Some(T)) = SumFunctionOnSet(f, T)
      BY <3>3, <3>4, <3>7
    <3>9. QED
      BY <3>8
  <2>3. QED
    BY <2>1, <2>2
<1>2. S \in Good
  <2> HIDE DEF Good
  <2>1. QED
    BY <1>1, SubsetInduction
<1>3. QED
  BY <1>2

\* One term is not greater than the sum.
LEMMA SumAtLeast ==
    ASSUME NEW f, NEW S, IsFiniteSet(S), \A x \in S : f[x] \in Nat, NEW y \in S
    PROVE  f[y] <= SumFunctionOnSet(f, S) /\ SumFunctionOnSet(f, S) \in Nat
<1>1. SumFunctionOnSet(f, S) = f[y] + SumFunctionOnSet(f, S \ {y})
  BY SumTake
<1>2. SumFunctionOnSet(f, S \ {y}) \in Nat
  <2>1. IsFiniteSet(S \ {y}) /\ \A x \in S \ {y} : f[x] \in Nat
    BY FS_Subset
  <2>2. QED
    BY <2>1, SumInNat
<1>3. QED
  BY <1>1, <1>2

-----------------------------------------------------------------------------
(* Division.                                                               *)

LEMMA Quotient ==
    ASSUME NEW a \in Nat, NEW k \in Nat \ {0}
    PROVE  /\ a \div k \in Nat
           /\ k * (a \div k) <= a
           /\ a < k * (a \div k) + k
OBVIOUS

LEMMA QuotientMonotone ==
    ASSUME NEW a \in Nat, NEW b \in Nat, NEW k \in Nat \ {0}, a <= b
    PROVE  a \div k <= b \div k
OBVIOUS

LEMMA QuotientOfMultiple ==
    ASSUME NEW a \in Nat, NEW k \in Nat \ {0}
    PROVE  (k * a) \div k = a
OBVIOUS

-----------------------------------------------------------------------------
(* The order of records and cuts.                                          *)

Keyed == Records \union Cuts

LEMMA PlaceOf ==
    ASSUME NEW l \in Labels
    PROVE  Place[l] \in Nat /\ LabelOrder[Place[l]] = l
<1>1. \E i \in DOMAIN LabelOrder : LabelOrder[i] = l
  BY DEF Labels
<1>2. Place[l] = CHOOSE i \in DOMAIN LabelOrder : LabelOrder[i] = l
  BY DEF Place
<1>3. Place[l] \in DOMAIN LabelOrder /\ LabelOrder[Place[l]] = l
  BY <1>1, <1>2, Zenon
<1>4. QED
  BY <1>3, SegmentsAssumption

\* Labels have different places.
LEMMA PlacesDiffer ==
    ASSUME NEW k \in Labels, NEW l \in Labels, Place[k] = Place[l]
    PROVE  k = l
BY PlaceOf

\* The order by key, in numbers.
LEMMA KeyOrder ==
    ASSUME NEW x \in Keyed, NEW y \in Keyed
    PROVE  /\ Place[x.label] \in Nat
           /\ x.catalog \in Nat
           /\ Precedes(x, y) <=> \/ Place[x.label] < Place[y.label]
                                 \/ Place[x.label] = Place[y.label] /\ x.catalog < y.catalog
           /\ AtMost(x, y) <=> \/ Place[x.label] < Place[y.label]
                               \/ Place[x.label] = Place[y.label] /\ x.catalog <= y.catalog
           /\ x.label = y.label <=> Place[x.label] = Place[y.label]
<1>1. /\ x.label \in Labels /\ y.label \in Labels
      /\ x.catalog \in Nat /\ y.catalog \in Nat
  BY SegmentsAssumption DEF Keyed
<1>2. Place[x.label] \in Nat /\ Place[y.label] \in Nat
  BY <1>1, PlaceOf
<1>3. x.label = y.label <=> Place[x.label] = Place[y.label]
  BY <1>1, PlacesDiffer
<1>4. QED
  BY <1>1, <1>2, <1>3 DEF Precedes, AtMost

LEMMA AtMostTransitive ==
    ASSUME NEW x \in Keyed, NEW y \in Keyed, NEW z \in Keyed, AtMost(x, y), AtMost(y, z)
    PROVE  AtMost(x, z)
BY KeyOrder

-----------------------------------------------------------------------------
(* The cube that holds a record.                                           *)

\* The cubes whose cut is at or before a record.
Before(shelf, r) == {c \in CutBearing(shelf) : AtMost(shelf[c], r)}

\* Cube d takes a record from cube c: its cut comes later, or is the same
\* and stands later on the shelf.
Outranks(shelf, d, c) ==
    Precedes(shelf[c], shelf[d]) \/ (AtMost(shelf[c], shelf[d]) /\ c <= d)

LEMMA CutsKeyed ==
    ASSUME NEW shelf \in Shelves, NEW c \in CutBearing(shelf)
    PROVE  c \in Cubes /\ shelf[c] \in Keyed
BY DEF Shelves, CutBearing, Keyed

LEMMA HolderOutranks ==
    ASSUME NEW shelf, NEW r
    PROVE  Holder(shelf, r) =
             {c \in Before(shelf, r) : \A d \in Before(shelf, r) : Outranks(shelf, c, d)}
BY DEF Holder, Before, Outranks

\* Outranks is a total order of the cubes with a cut.
LEMMA OutranksOrder ==
    ASSUME NEW shelf \in Shelves, NEW c \in CutBearing(shelf), NEW d \in CutBearing(shelf),
           NEW e \in CutBearing(shelf)
    PROVE  /\ Outranks(shelf, c, c)
           /\ Outranks(shelf, c, d) \/ Outranks(shelf, d, c)
           /\ Outranks(shelf, c, d) /\ Outranks(shelf, d, c) => c = d
           /\ Outranks(shelf, e, d) /\ Outranks(shelf, d, c) => Outranks(shelf, e, c)
<1>1. /\ c \in Nat /\ d \in Nat /\ e \in Nat
      /\ shelf[c] \in Keyed /\ shelf[d] \in Keyed /\ shelf[e] \in Keyed
  BY CutsKeyed, ShelfAssumption DEF Cubes
<1>2. QED
  BY <1>1, KeyOrder DEF Outranks

LEMMA CubesFinite == IsFiniteSet(Cubes) /\ Cubes \subseteq Nat
BY FS_Interval, ShelfAssumption DEF Cubes

\* A record after some cut is in one cube, any other is in none.
LEMMA OneHolder ==
    ASSUME NEW shelf \in Shelves, NEW r
    PROVE  /\ Before(shelf, r) = {} => Holder(shelf, r) = {}
           /\ Before(shelf, r) # {} => \E c \in Before(shelf, r) : Holder(shelf, r) = {c}
<1> DEFINE B == Before(shelf, r)
           Top(T, c) == \A d \in T : Outranks(shelf, c, d)
           Good == {T \in SUBSET B : T # {} => \E c \in T : Top(T, c)}
<1>1. B \subseteq CutBearing(shelf) /\ IsFiniteSet(B)
  <2>1. B \subseteq CutBearing(shelf) /\ CutBearing(shelf) \subseteq Cubes
    BY DEF Before, CutBearing
  <2>2. QED
    BY <2>1, CubesFinite, FS_Subset
<1>2. ASSUME NEW T \in SUBSET B, \A U \in SUBSET T : U # T => U \in Good
      PROVE  T \in Good
  <2>1. SUFFICES ASSUME T # {}
                 PROVE  \E c \in T : Top(T, c)
    OBVIOUS
  <2>2. PICK x \in T : TRUE
    BY <2>1
  <2> DEFINE U == T \ {x}
  <2>3. U \in Good
    BY <1>2, <2>2
  <2>4. x \in CutBearing(shelf) /\ T \subseteq CutBearing(shelf)
    BY <1>1
  <2>5. CASE U = {}
    <3>1. T = {x}
      BY <2>5
    <3>2. Outranks(shelf, x, x)
      BY <2>4, OutranksOrder
    <3>3. QED
      BY <3>1, <3>2
  <2>6. CASE U # {}
    <3>1. PICK m \in U : Top(U, m)
      BY <2>3, <2>6
    <3>2. CASE Outranks(shelf, m, x)
      BY <3>1, <3>2
    <3>3. CASE Outranks(shelf, x, m)
      <4>1. ASSUME NEW d \in T
            PROVE  Outranks(shelf, x, d)
        <5>1. CASE d = x
          BY <2>4, <5>1, OutranksOrder
        <5>2. CASE d # x
          <6>1. d \in CutBearing(shelf) /\ m \in CutBearing(shelf) /\ Outranks(shelf, m, d)
            BY <2>4, <3>1, <5>2
          <6>2. QED
            BY <2>4, <3>3, <6>1, OutranksOrder
        <5>3. QED
          BY <5>1, <5>2
      <4>2. QED
        BY <4>1
    <3>4. QED
      BY <2>4, <3>2, <3>3, OutranksOrder
  <2>7. QED
    BY <2>5, <2>6
<1>3. B \in Good
  <2> HIDE DEF Good, B
  <2>1. QED
    BY <1>1, <1>2, SubsetInduction
<1>4. Holder(shelf, r) = {c \in B : Top(B, c)}
  BY HolderOutranks
<1>5. ASSUME NEW c \in B, NEW d \in B, Top(B, c), Top(B, d)
      PROVE  c = d
  <2>1. Outranks(shelf, c, d) /\ Outranks(shelf, d, c)
    BY <1>5
  <2>2. QED
    BY <1>1, <2>1, OutranksOrder
<1>6. CASE B = {}
  BY <1>4, <1>6
<1>7. CASE B # {}
  <2>1. PICK c \in B : Top(B, c)
    BY <1>3, <1>7
  <2>2. Holder(shelf, r) = {c}
    BY <1>4, <1>5, <2>1
  <2>3. QED
    BY <1>7, <2>1, <2>2
<1>8. QED
  BY <1>6, <1>7

\* What a cube holds is after its cut and not after another that outranks it.
LEMMA HeldBy ==
    ASSUME NEW shelf \in Shelves, NEW r, NEW c \in Holder(shelf, r)
    PROVE  /\ c \in CutBearing(shelf) /\ AtMost(shelf[c], r)
           /\ Holder(shelf, r) = {c}
           /\ \A d \in CutBearing(shelf) : AtMost(shelf[d], r) => Outranks(shelf, c, d)
<1>1. c \in Before(shelf, r) /\ \A d \in Before(shelf, r) : Outranks(shelf, c, d)
  BY HolderOutranks
<1>2. Holder(shelf, r) = {c}
  BY OneHolder
<1>3. QED
  BY <1>1, <1>2 DEF Before

\* Of two records the later one is not in a cube that is outranked.
LEMMA HolderMonotone ==
    ASSUME NEW shelf \in Shelves, NEW r \in Records, NEW s \in Records, AtMost(r, s),
           NEW c \in Holder(shelf, r), NEW d \in Holder(shelf, s)
    PROVE  Outranks(shelf, d, c)
<1>1. c \in CutBearing(shelf) /\ AtMost(shelf[c], r)
  BY HeldBy
<1>2. AtMost(shelf[c], s)
  <2>1. shelf[c] \in Keyed /\ r \in Keyed /\ s \in Keyed
    BY <1>1, CutsKeyed DEF Keyed
  <2>2. QED
    BY <1>1, <2>1, AtMostTransitive
<1>3. QED
  BY <1>1, <1>2, HeldBy

\* A record after one that is in a cube is in a cube.
LEMMA HeldAfter ==
    ASSUME NEW shelf \in Shelves, NEW r \in Records, NEW s \in Records, AtMost(r, s),
           NEW c \in Holder(shelf, r)
    PROVE  \E d \in CutBearing(shelf) : Holder(shelf, s) = {d}
<1>1. c \in CutBearing(shelf) /\ AtMost(shelf[c], r)
  BY HeldBy
<1>2. AtMost(shelf[c], s)
  <2>1. shelf[c] \in Keyed /\ r \in Keyed /\ s \in Keyed
    BY <1>1, CutsKeyed DEF Keyed
  <2>2. QED
    BY <1>1, <2>1, AtMostTransitive
<1>3. Before(shelf, s) # {}
  BY <1>1, <1>2 DEF Before
<1>4. QED
  BY <1>3, OneHolder DEF Before

\* A record between two of a cube is in that cube.
LEMMA HeldBetween ==
    ASSUME NEW shelf \in Shelves, NEW r \in Records, NEW s \in Records, NEW t \in Records,
           AtMost(r, s), AtMost(s, t), NEW c, c \in Holder(shelf, r), c \in Holder(shelf, t)
    PROVE  c \in Holder(shelf, s)
<1>1. PICK d \in CutBearing(shelf) : Holder(shelf, s) = {d}
  BY HeldAfter
<1>2. Outranks(shelf, d, c) /\ Outranks(shelf, c, d)
  BY <1>1, HolderMonotone
<1>3. c \in CutBearing(shelf)
  BY HeldBy
<1>4. c = d
  BY <1>2, <1>3, OutranksOrder
<1>5. QED
  BY <1>1, <1>4

-----------------------------------------------------------------------------
(* What a cube holds of a label, and its segment.                          *)

LEMMA MinIsLeast ==
    ASSUME NEW S, IsFiniteSet(S), S \subseteq Int, S # {}
    PROVE  Min(S) \in S /\ \A n \in S : Min(S) <= n
BY MinimumExists DEF Min

\* The records of a label that a cube holds, and the labels it holds.
HeldOf(shelf, c, l) == {r \in Records : c \in Holder(shelf, r) /\ r.label = l}
LabelsIn(shelf, c) == {r.label : r \in {s \in Records : c \in Holder(shelf, s)}}
CountIn(shelf, c) == [k \in LabelsIn(shelf, c) |-> Cardinality(HeldOf(shelf, c, k))]

WidthsIn(shelf, ws, c) == [k \in LabelsIn(shelf, c) |-> Width(CountIn(shelf, c), ws[c], k)]
LabelsBefore(shelf, c, l) == {k \in LabelsIn(shelf, c) : Place[k] < Place[l]}

Lowest(shelf, c, l) == Min({r.catalog : r \in HeldOf(shelf, c, l)})
Earlier(l, n) == {r \in OfLabel(l) : r.catalog < n}
Ahead(r) == {s \in OfLabel(r.label) : \/ s.catalog < r.catalog
                                      \/ s.catalog = r.catalog /\ s.release < r.release}

LEMMA LabelsDerived ==
    ASSUME NEW shelf, NEW ws, NEW c \in Cubes
    PROVE  DOMAIN Derive(shelf, ws)[c] = LabelsIn(shelf, c)
BY DEF Derive, LabelsIn

\* The parts of a segment that derive computes.
LEMMA SegmentIs ==
    ASSUME NEW shelf, NEW ws, NEW c \in Cubes, NEW l \in LabelsIn(shelf, c)
    PROVE  /\ Derive(shelf, ws)[c][l].first = Cardinality(Earlier(l, Lowest(shelf, c, l)))
           /\ Derive(shelf, ws)[c][l].count = Cardinality(HeldOf(shelf, c, l))
           /\ Derive(shelf, ws)[c][l].last =
                Cardinality(Earlier(l, Lowest(shelf, c, l)))
                  + Cardinality(HeldOf(shelf, c, l)) - 1
           /\ Derive(shelf, ws)[c][l].width = Width(CountIn(shelf, c), ws[c], l)
           /\ Derive(shelf, ws)[c][l].offset =
                SumFunctionOnSet(WidthsIn(shelf, ws, c), LabelsBefore(shelf, c, l))
<1> DEFINE held == {r \in Records : c \in Holder(shelf, r)}
           labels == {r.label : r \in held}
           count == [k \in labels |-> Cardinality({r \in held : r.label = k})]
           lowest == Min({r.catalog : r \in {s \in held : s.label = l}})
           first == Cardinality({r \in OfLabel(l) : r.catalog < lowest})
           last == first + count[l] - 1
           width == Width(count, ws[c], l)
           offset == SumFunctionOnSet([k \in labels |-> Width(count, ws[c], k)],
                                      {k \in labels : Place[k] < Place[l]})
           seg == Derive(shelf, ws)[c][l]
<1>1. labels = LabelsIn(shelf, c)
  BY DEF LabelsIn
<1>2. seg = Segment(held, ws[c], l)
  <2>1. Derive(shelf, ws)[c] = [k \in labels |-> Segment(held, ws[c], k)]
    BY DEF Derive
  <2> HIDE DEF labels, held
  <2>2. QED
    BY <1>1, <2>1
<1>3. Segment(held, ws[c], l) =
        [first |-> first, last |-> last, count |-> count[l], width |-> width,
         offset |-> offset, continues |-> last < Cardinality(OfLabel(l)) - 1]
  BY DEF Segment
<1>4. \A k : {r \in held : r.label = k} = HeldOf(shelf, c, k)
  BY DEF HeldOf
<1>5. count = CountIn(shelf, c)
  BY <1>1, <1>4 DEF CountIn
<1>6. lowest = Lowest(shelf, c, l)
  BY <1>4 DEF Lowest
<1>7. first = Cardinality(Earlier(l, Lowest(shelf, c, l)))
  BY <1>6 DEF Earlier
<1>8. count[l] = Cardinality(HeldOf(shelf, c, l))
  BY <1>1, <1>4
<1>9. width = Width(CountIn(shelf, c), ws[c], l)
  <2> HIDE DEF count
  <2>1. QED
    BY <1>5
<1>10. offset = SumFunctionOnSet(WidthsIn(shelf, ws, c), LabelsBefore(shelf, c, l))
  <2> HIDE DEF count, labels
  <2>1. QED
    BY <1>1, <1>5 DEF WidthsIn, LabelsBefore
<1> HIDE DEF seg, count, first, lowest, labels, held, width, offset
<1>11. /\ seg.first = first /\ seg.count = count[l] /\ seg.last = last
       /\ seg.width = width /\ seg.offset = offset
  BY <1>2, <1>3
<1>12. QED
  BY <1>7, <1>8, <1>9, <1>10, <1>11, Zenon DEF seg, last

LEMMA LabelHeld ==
    ASSUME NEW shelf, NEW c, NEW l
    PROVE  l \in LabelsIn(shelf, c) <=> HeldOf(shelf, c, l) # {}
BY DEF LabelsIn, HeldOf

LEMMA RecordsOfLabel ==
    ASSUME NEW l, NEW S \in SUBSET OfLabel(l)
    PROVE  /\ IsFiniteSet(S) /\ Cardinality(S) \in Nat
           /\ \A r \in S : r \in Records /\ r.label = l /\ r.catalog \in Nat /\ r.release \in Nat
<1>1. \A r \in S : r \in Records /\ r.label = l /\ r.catalog \in Nat /\ r.release \in Nat
  BY SegmentsAssumption DEF OfLabel
<1>2. IsFiniteSet(S)
  BY <1>1, SegmentsAssumption, FS_Subset
<1>3. Cardinality(S) \in Nat
  BY <1>2, FS_CardinalityType
<1>4. QED
  BY <1>1, <1>2, <1>3

LEMMA CatalogsOfLabel ==
    ASSUME NEW l, NEW S \in SUBSET OfLabel(l)
    PROVE  {r.catalog : r \in S} \subseteq Nat /\ IsFiniteSet({r.catalog : r \in S})
<1>1. IsFiniteSet(S) /\ \A r \in S : r.catalog \in Nat
  BY RecordsOfLabel
<1> DEFINE N == {r.catalog : r \in S}
<1>4. IsFiniteSet(N)
  <2> DEFINE f == [r \in S |-> r.catalog]
  <2>1. f \in Surjection(S, N)
    BY DEF Surjection
  <2> HIDE DEF f, N
  <2>2. QED
    BY <1>1, <2>1, FS_Surjection
<1>5. QED
  BY <1>1, <1>4

\* The lowest catalog number that a cube holds of a label is of a record
\* that it holds.
LEMMA LowestHeld ==
    ASSUME NEW shelf, NEW c, NEW l, HeldOf(shelf, c, l) # {}
    PROVE  /\ Lowest(shelf, c, l) \in Nat
           /\ \E r \in HeldOf(shelf, c, l) : r.catalog = Lowest(shelf, c, l)
           /\ \A r \in HeldOf(shelf, c, l) : Lowest(shelf, c, l) <= r.catalog
<1> DEFINE H == HeldOf(shelf, c, l)
           N == {r.catalog : r \in H}
<1>1. H \in SUBSET OfLabel(l)
  BY DEF HeldOf, OfLabel
<1>2. N \subseteq Nat /\ IsFiniteSet(N) /\ N # {}
  <2>1. H # {}
    OBVIOUS
  <2> HIDE DEF H
  <2>2. {r.catalog : r \in H} \subseteq Nat /\ IsFiniteSet({r.catalog : r \in H})
    BY <1>1, CatalogsOfLabel, Zenon
  <2>3. {r.catalog : r \in H} # {}
    BY <2>1
  <2>4. QED
    BY <2>2, <2>3
<1>3. Min(N) \in N /\ \A n \in N : Min(N) <= n
  <2>1. N \subseteq Int
    BY <1>2
  <2> HIDE DEF N
  <2>2. QED
    BY <1>2, <2>1, MinIsLeast
<1>4. QED
  BY <1>2, <1>3 DEF Lowest

\* Of a label the records between two of a cube are in the cube.
LEMMA HeldOfBetween ==
    ASSUME NEW shelf \in Shelves, NEW c, NEW l, NEW r \in HeldOf(shelf, c, l),
           NEW t \in HeldOf(shelf, c, l), NEW s \in OfLabel(l),
           r.catalog <= s.catalog, s.catalog <= t.catalog
    PROVE  s \in HeldOf(shelf, c, l)
<1>1. /\ r \in Records /\ s \in Records /\ t \in Records
      /\ r.label = l /\ s.label = l /\ t.label = l
      /\ c \in Holder(shelf, r) /\ c \in Holder(shelf, t)
  BY DEF HeldOf, OfLabel
<1>2. AtMost(r, s) /\ AtMost(s, t)
  BY <1>1, KeyOrder DEF Keyed
<1>3. c \in Holder(shelf, s)
  BY <1>1, <1>2, HeldBetween
<1>4. QED
  BY <1>1, <1>3 DEF HeldOf

LEMMA CardinalityOfPart ==
    ASSUME NEW l, NEW S \in SUBSET OfLabel(l), NEW T \in SUBSET S
    PROVE  /\ Cardinality(T) \in Nat /\ Cardinality(S) \in Nat
           /\ Cardinality(T) <= Cardinality(S)
           /\ T # S => Cardinality(T) < Cardinality(S)
<1>1. IsFiniteSet(S) /\ Cardinality(S) \in Nat
  BY RecordsOfLabel
<1>2. Cardinality(T) \in Nat
  <2>1. T \in SUBSET OfLabel(l)
    OBVIOUS
  <2>2. QED
    BY <2>1, RecordsOfLabel
<1>3. Cardinality(T) <= Cardinality(S) /\ (Cardinality(S) = Cardinality(T) => S = T)
  BY <1>1, FS_Subset
<1>4. QED
  BY <1>1, <1>2, <1>3

LEMMA CardinalityOfBoth ==
    ASSUME NEW l, NEW S \in SUBSET OfLabel(l), NEW T \in SUBSET OfLabel(l), S \cap T = {}
    PROVE  /\ Cardinality(S) \in Nat /\ Cardinality(T) \in Nat
           /\ Cardinality(S \union T) = Cardinality(S) + Cardinality(T)
<1>1. /\ IsFiniteSet(S) /\ Cardinality(S) \in Nat
      /\ IsFiniteSet(T) /\ Cardinality(T) \in Nat
  BY RecordsOfLabel
<1>2. Cardinality(S \cap T) = 0
  BY FS_EmptySet
<1>3. Cardinality(S \cup T) = Cardinality(S) + Cardinality(T) - Cardinality(S \cap T)
  BY <1>1, FS_Union
<1>4. QED
  BY <1>1, <1>2, <1>3

LEMMA RankIs ==
    ASSUME NEW r \in Records
    PROVE  Rank[r] = Cardinality(Ahead(r)) /\ Ahead(r) \subseteq OfLabel(r.label) \ {r}
<1>1. Rank[r] = Cardinality(Ahead(r))
  BY DEF Rank, Ahead
<1>2. r.catalog \in Nat /\ r.release \in Nat
  BY SegmentsAssumption
<1>3. r \notin Ahead(r)
  BY <1>2 DEF Ahead
<1>4. QED
  BY <1>1, <1>3 DEF Ahead

LEMMA EarlierApart ==
    ASSUME NEW shelf, NEW c, NEW l, HeldOf(shelf, c, l) # {}
    PROVE  /\ Earlier(l, Lowest(shelf, c, l)) \in SUBSET OfLabel(l)
           /\ HeldOf(shelf, c, l) \in SUBSET OfLabel(l)
           /\ Earlier(l, Lowest(shelf, c, l)) \cap HeldOf(shelf, c, l) = {}
<1>1. HeldOf(shelf, c, l) \subseteq OfLabel(l) /\ Earlier(l, Lowest(shelf, c, l)) \subseteq OfLabel(l)
  BY DEF HeldOf, OfLabel, Earlier
<1>2. \A r \in OfLabel(l) : r.catalog \in Nat
  BY SegmentsAssumption DEF OfLabel
<1>3. QED
  BY <1>1, <1>2, LowestHeld DEF Earlier

LEMMA HeldCounts ==
    ASSUME NEW shelf, NEW c, NEW l
    PROVE  /\ Cardinality(Earlier(l, Lowest(shelf, c, l))) \in Nat
           /\ IsFiniteSet(HeldOf(shelf, c, l))
           /\ Cardinality(HeldOf(shelf, c, l)) \in Nat
           /\ HeldOf(shelf, c, l) # {} => Cardinality(HeldOf(shelf, c, l)) > 0
<1> DEFINE E == Earlier(l, Lowest(shelf, c, l))
           H == HeldOf(shelf, c, l)
<1>1. E \in SUBSET OfLabel(l) /\ H \in SUBSET OfLabel(l)
  BY DEF HeldOf, OfLabel, Earlier
<1> HIDE DEF E, H
<1>2. Cardinality(E) \in Nat /\ Cardinality(H) \in Nat /\ IsFiniteSet(H)
  BY <1>1, RecordsOfLabel
<1>3. H # {} => Cardinality(H) # 0
  BY <1>2, FS_EmptySet
<1>4. QED
  BY <1>2, <1>3 DEF E, H

\* The ranks of what a cube holds of a label are those of its segment.
LEMMA RankHeld ==
    ASSUME NEW shelf \in Shelves, NEW c, NEW l, NEW r \in HeldOf(shelf, c, l)
    PROVE  /\ Cardinality(Earlier(l, Lowest(shelf, c, l))) <= Rank[r]
           /\ Rank[r] < Cardinality(Earlier(l, Lowest(shelf, c, l)))
                          + Cardinality(HeldOf(shelf, c, l))
<1> DEFINE E == Earlier(l, Lowest(shelf, c, l))
           H == HeldOf(shelf, c, l)
<1>1. E \in SUBSET OfLabel(l) /\ H \in SUBSET OfLabel(l) /\ E \cap H = {}
  BY EarlierApart
<1>2. r \in Records /\ r.label = l /\ r \in OfLabel(l)
  BY DEF HeldOf, OfLabel
<1>3. Rank[r] = Cardinality(Ahead(r)) /\ Ahead(r) \subseteq OfLabel(l) \ {r}
  BY <1>2, RankIs
<1>4. \A s \in OfLabel(l) : s.catalog \in Nat
  BY SegmentsAssumption DEF OfLabel
<1>5. PICK t \in H : t.catalog = Lowest(shelf, c, l)
  BY LowestHeld
<1>6. Lowest(shelf, c, l) \in Nat /\ Lowest(shelf, c, l) <= r.catalog
  BY LowestHeld
<1>7. E \subseteq Ahead(r)
  BY <1>2, <1>4, <1>6 DEF Earlier, Ahead
<1>8. Ahead(r) \subseteq E \union (H \ {r})
  <2>1. SUFFICES ASSUME NEW s \in Ahead(r), s \notin E
                 PROVE  s \in H \ {r}
    OBVIOUS
  <2>2. s \in OfLabel(l) /\ s # r /\ s.catalog <= r.catalog /\ t.catalog <= s.catalog
    BY <1>2, <1>3, <1>4, <1>5, <1>6, <2>1 DEF Ahead, Earlier
  <2>3. s \in H
    BY <1>5, <2>2, HeldOfBetween
  <2>4. QED
    BY <2>2, <2>3
<1> HIDE DEF E, H
<1>9. Cardinality(H \ {r}) < Cardinality(H) /\ Cardinality(H) \in Nat
      /\ Cardinality(H \ {r}) \in Nat
  <2>1. H \ {r} \in SUBSET H /\ H \ {r} # H
    BY DEF H
  <2>2. QED
    BY <1>1, <2>1, CardinalityOfPart
<1>10. Cardinality(E \union (H \ {r})) = Cardinality(E) + Cardinality(H \ {r})
       /\ Cardinality(E) \in Nat
  <2>1. H \ {r} \in SUBSET OfLabel(l) /\ E \cap (H \ {r}) = {}
    BY <1>1
  <2>2. QED
    BY <1>1, <2>1, CardinalityOfBoth, ZenonT(30)
<1>11. Cardinality(E) <= Cardinality(Ahead(r)) /\ Cardinality(Ahead(r)) \in Nat
  <2>1. Ahead(r) \in SUBSET OfLabel(l) /\ E \in SUBSET Ahead(r)
    BY <1>3, <1>7
  <2>2. QED
    BY <2>1, CardinalityOfPart
<1>12. Cardinality(Ahead(r)) <= Cardinality(E \union (H \ {r}))
  <2>1. E \union (H \ {r}) \in SUBSET OfLabel(l)
        /\ Ahead(r) \in SUBSET (E \union (H \ {r}))
    BY <1>1, <1>8
  <2>2. QED
    BY <2>1, CardinalityOfPart
<1>13. QED
  BY <1>3, <1>9, <1>10, <1>11, <1>12 DEF E, H

\* The ranks of what it does not hold are not.
LEMMA RankElsewhere ==
    ASSUME NEW shelf \in Shelves, NEW c, NEW l, HeldOf(shelf, c, l) # {},
           NEW r \in OfLabel(l), r \notin HeldOf(shelf, c, l)
    PROVE  \/ Rank[r] < Cardinality(Earlier(l, Lowest(shelf, c, l)))
           \/ Rank[r] >= Cardinality(Earlier(l, Lowest(shelf, c, l)))
                           + Cardinality(HeldOf(shelf, c, l))
<1> DEFINE E == Earlier(l, Lowest(shelf, c, l))
           H == HeldOf(shelf, c, l)
<1>1. E \in SUBSET OfLabel(l) /\ H \in SUBSET OfLabel(l) /\ E \cap H = {}
  BY EarlierApart
<1>2. r \in Records /\ r.label = l
  BY DEF OfLabel
<1>3. Rank[r] = Cardinality(Ahead(r)) /\ Ahead(r) \subseteq OfLabel(l) \ {r}
  BY <1>2, RankIs
<1>4. \A s \in OfLabel(l) : s.catalog \in Nat
  BY SegmentsAssumption DEF OfLabel
<1>5. PICK t \in H : t.catalog = Lowest(shelf, c, l)
  BY LowestHeld
<1>6. Lowest(shelf, c, l) \in Nat
  BY LowestHeld
<1>7. CASE r.catalog < Lowest(shelf, c, l)
  <2>1. Ahead(r) \subseteq E /\ r \in E
    BY <1>2, <1>4, <1>6, <1>7 DEF Ahead, Earlier
  <2> HIDE DEF E
  <2>2. Cardinality(Ahead(r)) < Cardinality(E)
    <3>1. Ahead(r) \in SUBSET E /\ Ahead(r) # E
      BY <1>3, <2>1
    <3>2. QED
      BY <1>1, <3>1, CardinalityOfPart
  <2>3. QED
    BY <1>3, <2>2 DEF E
<1>8. CASE r.catalog >= Lowest(shelf, c, l)
  <2>1. ASSUME NEW s \in H
        PROVE  s.catalog < r.catalog
    <3>1. ~(r.catalog <= s.catalog)
      BY <1>5, <1>8, HeldOfBetween
    <3>2. QED
      BY <1>1, <1>4, <3>1
  <2>2. E \union H \subseteq Ahead(r)
    BY <1>1, <1>2, <1>4, <1>6, <1>8, <2>1 DEF Ahead, Earlier
  <2> HIDE DEF E, H
  <2>3. Cardinality(E \union H) = Cardinality(E) + Cardinality(H)
        /\ Cardinality(E) \in Nat /\ Cardinality(H) \in Nat
    BY <1>1, CardinalityOfBoth, ZenonT(30)
  <2>4. Cardinality(E \union H) <= Cardinality(Ahead(r)) /\ Cardinality(Ahead(r)) \in Nat
    <3>1. Ahead(r) \in SUBSET OfLabel(l) /\ E \union H \in SUBSET Ahead(r)
      BY <1>3, <2>2
    <3>2. QED
      BY <3>1, CardinalityOfPart
  <2>5. QED
    BY <1>3, <2>3, <2>4 DEF E, H
<1>9. QED
  BY <1>2, <1>4, <1>6, <1>7, <1>8

-----------------------------------------------------------------------------
(* Every record is found once.                                             *)

\* A record is found in the cubes that hold it.
LEMMA FoundIsHolder ==
    ASSUME NEW shelf \in Shelves, NEW ws, NEW r \in Records
    PROVE  /\ Ranked(Derive(shelf, ws), r.label, Rank[r]) = Holder(shelf, r)
           /\ \A c \in Cubes :
                 r \in RecordsIn(Derive(shelf, ws), c) <=> c \in Holder(shelf, r)
<1> DEFINE b == Derive(shelf, ws)
           l == r.label
<1>1. \A c \in Holder(shelf, r) : c \in Cubes
  BY HeldBy, CutsKeyed
<1>2. Rank[r] \in Nat
  <2>1. Ahead(r) \in SUBSET OfLabel(r.label)
    BY RankIs
  <2>2. Cardinality(Ahead(r)) \in Nat
    BY <2>1, RecordsOfLabel
  <2>3. QED
    BY <2>2, RankIs
<1>3. ASSUME NEW c \in Cubes
      PROVE  /\ c \in Holder(shelf, r) <=>
                  l \in DOMAIN b[c] /\ b[c][l].first <= Rank[r] /\ Rank[r] <= b[c][l].last
             /\ l \in DOMAIN b[c] => b[c][l].first \in Nat /\ b[c][l].last \in Int
  <2>1. DOMAIN b[c] = LabelsIn(shelf, c)
    BY LabelsDerived
  <2>2. CASE HeldOf(shelf, c, l) = {}
    <3>1. l \notin DOMAIN b[c]
      BY <2>1, <2>2, LabelHeld
    <3>2. c \notin Holder(shelf, r)
      BY <2>2 DEF HeldOf
    <3>3. QED
      BY <3>1, <3>2
  <2>3. CASE HeldOf(shelf, c, l) # {}
    <3> DEFINE first == Cardinality(Earlier(l, Lowest(shelf, c, l)))
               count == Cardinality(HeldOf(shelf, c, l))
    <3>1. l \in LabelsIn(shelf, c)
      BY <2>3, LabelHeld
    <3>2. /\ b[c][l].first = first /\ b[c][l].count = count
          /\ b[c][l].last = first + count - 1
      BY <3>1, SegmentIs
    <3>3. first \in Nat /\ count \in Nat
      BY <2>3, HeldCounts
    <3>4. r \in OfLabel(l) /\ (c \in Holder(shelf, r) <=> r \in HeldOf(shelf, c, l))
      BY DEF OfLabel, HeldOf
    <3>5. r \in HeldOf(shelf, c, l) => first <= Rank[r] /\ Rank[r] < first + count
      BY RankHeld
    <3>6. r \notin HeldOf(shelf, c, l) => Rank[r] < first \/ Rank[r] >= first + count
      BY <2>3, <3>4, RankElsewhere
    <3> HIDE DEF first, count, b
    <3>7. QED
      BY <1>2, <2>1, <3>1, <3>2, <3>3, <3>4, <3>5, <3>6
  <2>4. QED
    BY <2>2, <2>3
<1> HIDE DEF b
<1>4. \A c \in Cubes : r \in RecordsIn(b, c) <=> c \in Holder(shelf, r)
  BY <1>2, <1>3 DEF RecordsIn
<1>5. Ranked(b, l, Rank[r]) = Holder(shelf, r)
  BY <1>1, <1>3 DEF Ranked, LabelSpan
<1>6. QED
  BY <1>4, <1>5 DEF b

LEMMA FoundOnceOn ==
    ASSUME cache \in Shelves, NEW ws, bins = Derive(cache, ws)
    PROVE  FoundOnce
<1>1. SUFFICES ASSUME NEW r \in Records
               PROVE  LET found == Ranked(bins, r.label, Rank[r])
                          before == Before(cache, r)
                      IN /\ Cardinality(found) = (IF before = {} THEN 0 ELSE 1)
                         /\ found = {c \in Cubes : r \in RecordsIn(bins, c)}
                         /\ \A c \in found : /\ c \in before
                                             /\ \A d \in before : AtMost(cache[d], cache[c])
  BY Zenon DEF FoundOnce, Before
<1> DEFINE found == Ranked(bins, r.label, Rank[r])
           before == Before(cache, r)
<1>2. found = Holder(cache, r) /\ \A c \in Cubes : r \in RecordsIn(bins, c) <=> c \in found
  BY FoundIsHolder
<1>3. before = {} => Holder(cache, r) = {}
  BY OneHolder
<1>4. before # {} => \E c \in before : Holder(cache, r) = {c}
  BY OneHolder
<1>5. Cardinality(found) = IF before = {} THEN 0 ELSE 1
  <2> HIDE DEF found, before
  <2>1. CASE before = {}
    BY <1>2, <1>3, <2>1, FS_EmptySet
  <2>2. CASE before # {}
    BY <1>2, <1>4, <2>2, FS_Singleton
  <2>3. QED
    BY <2>1, <2>2
<1>6. \A c \in found : c \in Cubes
  BY <1>2, HeldBy, CutsKeyed
<1>7. ASSUME NEW c \in found
      PROVE  /\ c \in before
             /\ \A d \in before : AtMost(cache[d], cache[c])
  <2>1. c \in Holder(cache, r)
    BY <1>2
  <2>2. c \in before
    BY <2>1, HeldBy DEF Before
  <2>3. ASSUME NEW d \in before
        PROVE  AtMost(cache[d], cache[c])
    <3>1. c \in CutBearing(cache) /\ d \in CutBearing(cache) /\ AtMost(cache[d], r)
      BY <2>2 DEF Before
    <3>2. Outranks(cache, c, d)
      BY <2>1, <3>1, HeldBy
    <3>3. cache[c] \in Keyed /\ cache[d] \in Keyed
      BY <3>1, CutsKeyed
    <3>4. QED
      BY <3>2, <3>3, KeyOrder DEF Outranks
  <2>4. QED
    BY <2>2, <2>3
<1>8. found = {c \in Cubes : r \in RecordsIn(bins, c)}
  <2> HIDE DEF found
  <2>1. QED
    BY <1>2, <1>6
<1>9. QED
  BY <1>5, <1>7, <1>8

-----------------------------------------------------------------------------
(* Shares of a whole that are rounded down.                                *)

\* A sum in two parts.
LEMMA SumOfParts ==
    ASSUME NEW f, NEW S, IsFiniteSet(S), \A x \in S : f[x] \in Nat, NEW R \in SUBSET S
    PROVE  SumFunctionOnSet(f, S) = SumFunctionOnSet(f, R) + SumFunctionOnSet(f, S \ R)
<1> DEFINE Good == {T \in SUBSET S :
                      SumFunctionOnSet(f, T)
                        = SumFunctionOnSet(f, T \cap R) + SumFunctionOnSet(f, T \ R)}
<1>1. ASSUME NEW T \in SUBSET S, \A U \in SUBSET T : U # T => U \in Good
      PROVE  T \in Good
  <2>1. CASE T = {}
    <3>1. T \cap R = {} /\ T \ R = {}
      BY <2>1
    <3>2. SumFunctionOnSet(f, {}) = 0
      BY SumOfNone
    <3>3. QED
      BY <2>1, <3>1, <3>2
  <2>2. CASE T # {}
    <3>1. PICK y \in T : TRUE
      BY <2>2
    <3> DEFINE U == T \ {y}
               A == U \cap R
               B == U \ R
    <3>2. /\ IsFiniteSet(T) /\ IsFiniteSet(U) /\ IsFiniteSet(A) /\ IsFiniteSet(B)
          /\ IsFiniteSet(T \cap R) /\ IsFiniteSet(T \ R)
      BY FS_Subset
    <3>3. \A x \in T : f[x] \in Nat
      OBVIOUS
    <3>4. SumFunctionOnSet(f, U) = SumFunctionOnSet(f, A) + SumFunctionOnSet(f, B)
      BY <1>1, <3>1
    <3>5. SumFunctionOnSet(f, T) = f[y] + SumFunctionOnSet(f, U)
      BY <3>2, <3>3, SumTake
    <3>6. SumFunctionOnSet(f, A) \in Nat
      <4>1. \A x \in A : f[x] \in Nat
        OBVIOUS
      <4> HIDE DEF A
      <4>2. QED
        BY <3>2, <4>1, SumInNat
    <3>7. SumFunctionOnSet(f, B) \in Nat
      <4>1. \A x \in B : f[x] \in Nat
        OBVIOUS
      <4> HIDE DEF B
      <4>2. QED
        BY <3>2, <4>1, SumInNat
    <3>8. CASE y \in R
      <4> DEFINE C == T \cap R
      <4>1. y \in C /\ C \ {y} = A /\ T \ R = B /\ \A x \in C : f[x] \in Nat
        BY <3>8
      <4>2. IsFiniteSet(C)
        BY <3>2
      <4>3. SumFunctionOnSet(f, C) = f[y] + SumFunctionOnSet(f, A)
        <5> HIDE DEF C, A
        <5>1. SumFunctionOnSet(f, C) = f[y] + SumFunctionOnSet(f, C \ {y})
          BY <4>1, <4>2, SumTake
        <5>2. QED
          BY <4>1, <5>1
      <4>4. f[y] \in Nat
        BY <3>3
      <4>5. SumFunctionOnSet(f, T) = SumFunctionOnSet(f, C) + SumFunctionOnSet(f, B)
        <5> HIDE DEF U, A, B, C
        <5>1. QED
          BY <3>4, <3>5, <3>6, <3>7, <4>3, <4>4
      <4>6. QED
        BY <4>1, <4>5
    <3>9. CASE y \notin R
      <4> DEFINE C == T \ R
      <4>1. y \in C /\ C \ {y} = B /\ T \cap R = A /\ \A x \in C : f[x] \in Nat
        BY <3>9
      <4>2. IsFiniteSet(C)
        BY <3>2
      <4>3. SumFunctionOnSet(f, C) = f[y] + SumFunctionOnSet(f, B)
        <5> HIDE DEF C, B
        <5>1. SumFunctionOnSet(f, C) = f[y] + SumFunctionOnSet(f, C \ {y})
          BY <4>1, <4>2, SumTake
        <5>2. QED
          BY <4>1, <5>1
      <4>4. f[y] \in Nat
        BY <3>3
      <4>5. SumFunctionOnSet(f, T) = SumFunctionOnSet(f, A) + SumFunctionOnSet(f, C)
        <5> HIDE DEF U, A, B, C
        <5>1. QED
          BY <3>4, <3>5, <3>6, <3>7, <4>3, <4>4
      <4>6. QED
        BY <4>1, <4>5
    <3>10. QED
      BY <3>8, <3>9
  <2>3. QED
    BY <2>1, <2>2
<1>2. S \in Good
  <2> HIDE DEF Good
  <2>1. QED
    BY <1>1, SubsetInduction
<1>3. S \cap R = R
  OBVIOUS
<1>4. QED
  BY <1>2, <1>3

LEMMA RoundingStep ==
    ASSUME NEW F \in Nat \ {0}, NEW W \in Nat, NEW a \in Nat, NEW A \in Nat,
           NEW g \in Nat, NEW G \in Nat, NEW n \in Nat,
           F * g <= W * a, W * a <= F * g + (F - 1),
           F * G <= W * A, W * A <= F * G + (F - 1) * n
    PROVE  /\ F * (g + G) <= W * (a + A)
           /\ W * (a + A) <= F * (g + G) + (F - 1) * (n + 1)
<1>1. F * (g + G) = F * g + F * G /\ W * (a + A) = W * a + W * A
  OBVIOUS
<1>2. (F - 1) * (n + 1) = (F - 1) * n + (F - 1)
  OBVIOUS
<1> DEFINE p == F * g
           q == F * G
           r == W * a
           s == W * A
           t == (F - 1) * n
<1>3. p \in Nat /\ q \in Nat /\ r \in Nat /\ s \in Nat /\ t \in Nat
  OBVIOUS
<1>4. p <= r /\ r <= p + (F - 1) /\ q <= s /\ s <= q + t
  OBVIOUS
<1>5. p + q <= r + s /\ r + s <= p + q + (t + (F - 1))
  <2> HIDE DEF p, q, r, s, t
  <2>1. QED
    BY <1>3, <1>4
<1>6. QED
  BY <1>1, <1>2, <1>5

\* g shares W in the proportion of f, whose sum is F, and rounds down.
Shares(f, g, S, F, W) == \A x \in S : f[x] \in Nat /\ g[x] = (W * f[x]) \div F

\* There is nothing to round.
SharesEvenly(f, S, F, W) == \A x \in S : (W * f[x]) % F = 0

\* Shares of W in the proportion of f, rounded down, fall short of W by less
\* than one for each.
LEMMA SharesBounded ==
    ASSUME NEW f, NEW g, NEW S, IsFiniteSet(S), NEW F \in Nat \ {0}, NEW W \in Nat,
           Shares(f, g, S, F, W)
    PROVE  /\ SumFunctionOnSet(f, S) \in Nat /\ SumFunctionOnSet(g, S) \in Nat
           /\ F * SumFunctionOnSet(g, S) <= W * SumFunctionOnSet(f, S)
           /\ W * SumFunctionOnSet(f, S)
                <= F * SumFunctionOnSet(g, S) + (F - 1) * Cardinality(S)
<1>1. \A x \in S : f[x] \in Nat /\ g[x] \in Nat /\ F * g[x] <= W * f[x]
                   /\ W * f[x] <= F * g[x] + (F - 1)
  <2>1. SUFFICES ASSUME NEW x \in S
                 PROVE  g[x] \in Nat /\ F * g[x] <= W * f[x]
                        /\ W * f[x] <= F * g[x] + (F - 1)
    BY DEF Shares
  <2> DEFINE a == W * f[x]
  <2>2. a \in Nat /\ g[x] = a \div F
    BY DEF Shares
  <2> HIDE DEF a
  <2>3. g[x] \in Nat /\ F * g[x] <= a /\ a < F * g[x] + F
    BY <2>2, Quotient
  <2> DEFINE p == F * g[x]
  <2>4. p \in Nat
    BY <2>3
  <2> HIDE DEF p
  <2>5. a <= p + (F - 1)
    BY <2>2, <2>3, <2>4 DEF p
  <2>6. QED
    BY <2>3, <2>5 DEF a, p
<1> DEFINE Bounded(T) ==
             /\ F * SumFunctionOnSet(g, T) <= W * SumFunctionOnSet(f, T)
             /\ W * SumFunctionOnSet(f, T)
                  <= F * SumFunctionOnSet(g, T) + (F - 1) * Cardinality(T)
           Good == {T \in SUBSET S : Bounded(T)}
<1>2. ASSUME NEW T \in SUBSET S
      PROVE  /\ IsFiniteSet(T) /\ Cardinality(T) \in Nat
             /\ SumFunctionOnSet(f, T) \in Nat /\ SumFunctionOnSet(g, T) \in Nat
  <2>1. IsFiniteSet(T) /\ Cardinality(T) \in Nat
    BY FS_Subset, FS_CardinalityType
  <2>2. (\A x \in T : f[x] \in Nat) /\ (\A x \in T : g[x] \in Nat)
    BY <1>1
  <2>3. QED
    BY <2>1, <2>2, SumInNat
<1>3. ASSUME NEW T \in SUBSET S, \A U \in SUBSET T : U # T => U \in Good
      PROVE  T \in Good
  <2>1. CASE T = {}
    <3>1. SumFunctionOnSet(f, T) = 0 /\ SumFunctionOnSet(g, T) = 0 /\ Cardinality(T) = 0
      BY <2>1, SumOfNone, FS_EmptySet
    <3>2. QED
      BY <3>1
  <2>2. CASE T # {}
    <3>1. PICK y \in T : TRUE
      BY <2>2
    <3> DEFINE U == T \ {y}
    <3>2. U \in SUBSET S /\ Bounded(U)
      BY <1>3, <3>1
    <3>3. Cardinality(U) = Cardinality(T) - 1
      BY <1>2, FS_RemoveElement
    <3>4. SumFunctionOnSet(f, T) = f[y] + SumFunctionOnSet(f, U)
      <4>1. \A x \in T : f[x] \in Nat
        BY <1>1
      <4>2. QED
        BY <1>2, <4>1, SumTake
    <3>5. SumFunctionOnSet(g, T) = g[y] + SumFunctionOnSet(g, U)
      <4>1. \A x \in T : g[x] \in Nat
        BY <1>1
      <4>2. QED
        BY <1>2, <4>1, SumTake
    <3>6. /\ Cardinality(U) \in Nat
          /\ SumFunctionOnSet(f, U) \in Nat /\ SumFunctionOnSet(g, U) \in Nat
      <4> HIDE DEF U
      <4>1. QED
        BY <1>2, <3>2
    <3>7. /\ f[y] \in Nat /\ g[y] \in Nat /\ F * g[y] <= W * f[y]
          /\ W * f[y] <= F * g[y] + (F - 1)
      BY <1>1
    <3> DEFINE A == SumFunctionOnSet(f, U)
               G == SumFunctionOnSet(g, U)
               n == Cardinality(U)
    <3>8. F * G <= W * A /\ W * A <= F * G + (F - 1) * n
      BY <3>2
    <3>9. A \in Nat /\ G \in Nat /\ n \in Nat
      BY <3>6
    <3>10. SumFunctionOnSet(f, T) = f[y] + A /\ SumFunctionOnSet(g, T) = g[y] + G
      BY <3>4, <3>5
    <3>11. Cardinality(T) = n + 1
      BY <1>2, <3>3, <3>9
    <3> HIDE DEF A, G, n, U
    <3>12. /\ F * (g[y] + G) <= W * (f[y] + A)
           /\ W * (f[y] + A) <= F * (g[y] + G) + (F - 1) * (n + 1)
      BY <3>7, <3>8, <3>9, RoundingStep
    <3>13. Bounded(T)
      BY <3>10, <3>11, <3>12, Zenon
    <3>14. QED
      BY <3>13
  <2>3. QED
    BY <2>1, <2>2
<1>4. S \in Good
  <2> HIDE DEF Good
  <2>1. QED
    BY <1>3, SubsetInduction
<1>5. QED
  BY <1>2, <1>4

LEMMA NoRemainder ==
    ASSUME NEW a \in Nat, NEW k \in Nat \ {0}, a % k = 0
    PROVE  k * (a \div k) = a
OBVIOUS

\* They make up W when there is nothing to round.
LEMMA SharesExact ==
    ASSUME NEW f, NEW g, NEW S, IsFiniteSet(S), NEW F \in Nat \ {0}, NEW W \in Nat,
           Shares(f, g, S, F, W), SharesEvenly(f, S, F, W)
    PROVE  F * SumFunctionOnSet(g, S) = W * SumFunctionOnSet(f, S)
<1>0. ASSUME NEW x \in S
      PROVE  f[x] \in Nat /\ g[x] \in Nat /\ F * g[x] = W * f[x]
  <2> DEFINE a == W * f[x]
  <2>1. f[x] \in Nat /\ a \in Nat /\ g[x] = a \div F /\ a % F = 0
    BY DEF Shares, SharesEvenly
  <2> HIDE DEF a
  <2>2. g[x] \in Nat /\ F * g[x] = a
    BY <2>1, NoRemainder, Quotient
  <2>3. QED
    BY <2>1, <2>2 DEF a
<1> DEFINE Good == {T \in SUBSET S :
                      F * SumFunctionOnSet(g, T) = W * SumFunctionOnSet(f, T)}
<1>1. ASSUME NEW T \in SUBSET S, \A U \in SUBSET T : U # T => U \in Good
      PROVE  T \in Good
  <2>1. CASE T = {}
    <3>1. SumFunctionOnSet(f, T) = 0 /\ SumFunctionOnSet(g, T) = 0
      BY <2>1, SumOfNone
    <3>2. QED
      BY <3>1
  <2>2. CASE T # {}
    <3>1. PICK y \in T : TRUE
      BY <2>2
    <3> DEFINE U == T \ {y}
               A == SumFunctionOnSet(f, U)
               G == SumFunctionOnSet(g, U)
    <3>2. F * G = W * A
      BY <1>1
    <3>3. IsFiniteSet(T) /\ IsFiniteSet(U)
      BY FS_Subset
    <3>4. SumFunctionOnSet(f, T) = f[y] + A
      <4>1. \A x \in T : f[x] \in Nat
        BY <1>0
      <4>2. QED
        BY <3>3, <4>1, SumTake
    <3>5. SumFunctionOnSet(g, T) = g[y] + G
      <4>1. \A x \in T : g[x] \in Nat
        BY <1>0
      <4>2. QED
        BY <3>3, <4>1, SumTake
    <3>6. A \in Nat /\ G \in Nat
      <4>1. (\A x \in U : f[x] \in Nat) /\ (\A x \in U : g[x] \in Nat)
        BY <1>0
      <4> HIDE DEF U
      <4>2. QED
        BY <3>3, <4>1, SumInNat
    <3>7. f[y] \in Nat /\ g[y] \in Nat /\ F * g[y] = W * f[y]
      BY <1>0
    <3> HIDE DEF A, G, U
    <3>8. F * (g[y] + G) = W * (f[y] + A)
      <4>1. F * (g[y] + G) = F * g[y] + F * G /\ W * (f[y] + A) = W * f[y] + W * A
        BY <3>6, <3>7
      <4>2. QED
        BY <3>2, <3>7, <4>1
    <3>9. QED
      BY <3>4, <3>5, <3>8
  <2>3. QED
    BY <2>1, <2>2
<1>2. S \in Good
  <2> HIDE DEF Good
  <2>1. QED
    BY <1>1, SubsetInduction
<1>3. QED
  BY <1>2

-----------------------------------------------------------------------------
(* The widths of the labels in a cube.                                     *)

\* The labels whose width is set, what they ask for, and the others.
Chosen(count, set) == {k \in DOMAIN count : set[k] > 0}
Asked(count, set) == SumFunctionOnSet(set, Chosen(count, set))
Others(count, set) == DOMAIN count \ Chosen(count, set)
Counted(count, set) == SumFunctionOnSet(count, Others(count, set))

\* The set widths are scaled.
Scaled(count, set) ==
    Chosen(count, set) # {} /\ (Others(count, set) = {} \/ Asked(count, set) > Whole)

\* What a cube can hold and have set.
Counts(count, set) ==
    /\ IsFiniteSet(DOMAIN count)
    /\ \A k \in DOMAIN count : count[k] \in Nat /\ count[k] > 0 /\ set[k] \in Nat

LEMMA WidthTotals ==
    ASSUME NEW count, NEW set, Counts(count, set)
    PROVE  /\ IsFiniteSet(Chosen(count, set)) /\ IsFiniteSet(Others(count, set))
           /\ Asked(count, set) \in Nat
           /\ Counted(count, set) \in Nat
           /\ \A k \in Chosen(count, set) : set[k] <= Asked(count, set) /\ set[k] > 0
           /\ \A k \in Others(count, set) : count[k] <= Counted(count, set) /\ set[k] = 0
<1> DEFINE C == Chosen(count, set)
           O == Others(count, set)
<1>1. IsFiniteSet(C) /\ IsFiniteSet(O)
  <2>1. C \subseteq DOMAIN count /\ O \subseteq DOMAIN count
    BY DEF Chosen, Others
  <2>2. QED
    BY <2>1, FS_Subset DEF Counts
<1>2. /\ \A k \in C : set[k] \in Nat /\ set[k] > 0
      /\ \A k \in O : count[k] \in Nat /\ set[k] = 0
  BY DEF Counts, Chosen, Others
<1> HIDE DEF C, O
<1>3. /\ SumFunctionOnSet(set, C) \in Nat
      /\ \A k \in C : set[k] <= SumFunctionOnSet(set, C)
  BY <1>1, <1>2, SumInNat, SumAtLeast
<1>4. /\ SumFunctionOnSet(count, O) \in Nat
      /\ \A k \in O : count[k] <= SumFunctionOnSet(count, O)
  BY <1>1, <1>2, SumInNat, SumAtLeast
<1>5. QED
  BY <1>1, <1>2, <1>3, <1>4 DEF C, O, Asked, Counted

LEMMA WidthIs ==
    ASSUME NEW count, NEW set, NEW l
    PROVE  Width(count, set, l) =
             CASE Chosen(count, set) = {} -> (Whole * count[l]) \div Counted(count, set)
               [] Scaled(count, set) -> (Whole * set[l]) \div Asked(count, set)
               [] OTHER -> IF l \in Chosen(count, set) THEN set[l]
                           ELSE ((Whole - Asked(count, set)) * count[l])
                                  \div Counted(count, set)
BY Zenon DEF Width, Chosen, Scaled, Asked, Counted, Others

LEMMA WidthCases ==
    ASSUME NEW count, NEW set, Counts(count, set), NEW l \in DOMAIN count
    PROVE  /\ Chosen(count, set) = {} =>
                /\ l \in Others(count, set)
                /\ Counted(count, set) > 0
                /\ Width(count, set, l) = (Whole * count[l]) \div Counted(count, set)
           /\ Scaled(count, set) =>
                /\ Asked(count, set) > 0
                /\ Width(count, set, l) = (Whole * set[l]) \div Asked(count, set)
           /\ Chosen(count, set) # {} /\ ~Scaled(count, set) =>
                /\ Asked(count, set) <= Whole
                /\ l \in Chosen(count, set) => Width(count, set, l) = set[l]
                /\ l \in Others(count, set) =>
                     /\ Counted(count, set) > 0
                     /\ Width(count, set, l) =
                          ((Whole - Asked(count, set)) * count[l]) \div Counted(count, set)
<1>1. /\ Asked(count, set) \in Nat /\ Counted(count, set) \in Nat /\ Whole \in Nat
      /\ \A k \in Chosen(count, set) : set[k] <= Asked(count, set) /\ set[k] > 0
      /\ \A k \in Others(count, set) : count[k] <= Counted(count, set)
      /\ \A k \in DOMAIN count : count[k] \in Nat /\ count[k] > 0 /\ set[k] \in Nat
  BY WidthTotals, SegmentsAssumption DEF Counts
<1>2. /\ \A k \in Chosen(count, set) : k \in DOMAIN count
      /\ \A k \in DOMAIN count : k \in Others(count, set) <=> k \notin Chosen(count, set)
  BY DEF Chosen, Others
<1>3. CASE Chosen(count, set) = {}
  <2>1. ~Scaled(count, set) /\ l \in Others(count, set)
    BY <1>2, <1>3 DEF Scaled
  <2>2. Counted(count, set) > 0
    BY <1>1, <2>1
  <2>3. Width(count, set, l) = (Whole * count[l]) \div Counted(count, set)
    BY <1>3, <2>1, WidthIs
  <2>4. QED
    BY <1>3, <2>1, <2>2, <2>3
<1>4. CASE Chosen(count, set) # {} /\ Scaled(count, set)
  <2>1. Asked(count, set) > 0
    BY <1>1, <1>2, <1>4
  <2>2. Width(count, set, l) = (Whole * set[l]) \div Asked(count, set)
    BY <1>4, WidthIs
  <2>3. QED
    BY <1>4, <2>1, <2>2
<1>5. CASE Chosen(count, set) # {} /\ ~Scaled(count, set)
  <2>1. Asked(count, set) <= Whole
    BY <1>1, <1>5 DEF Scaled
  <2>2. l \in Chosen(count, set) => Width(count, set, l) = set[l]
    BY <1>5, WidthIs
  <2>3. ASSUME l \in Others(count, set)
        PROVE  /\ Counted(count, set) > 0
               /\ Width(count, set, l) =
                    ((Whole - Asked(count, set)) * count[l]) \div Counted(count, set)
    <3>1. l \notin Chosen(count, set) /\ Counted(count, set) > 0
      BY <1>1, <1>2, <2>3
    <3>2. Width(count, set, l) =
            ((Whole - Asked(count, set)) * count[l]) \div Counted(count, set)
      BY <1>5, <3>1, WidthIs
    <3>3. QED
      BY <3>1, <3>2
  <2>4. QED
    BY <1>5, <2>1, <2>2, <2>3
<1>6. QED
  BY <1>3, <1>4, <1>5 DEF Scaled

\* The width of a label is a natural number.
LEMMA WidthInNat ==
    ASSUME NEW count, NEW set, Counts(count, set), NEW l \in DOMAIN count
    PROVE  Width(count, set, l) \in Nat
<1>1. /\ Asked(count, set) \in Nat /\ Counted(count, set) \in Nat /\ Whole \in Nat
      /\ count[l] \in Nat /\ set[l] \in Nat
  BY WidthTotals, SegmentsAssumption DEF Counts
<1>2. l \in Others(count, set) <=> l \notin Chosen(count, set)
  BY DEF Chosen, Others
<1>3. CASE Chosen(count, set) = {}
  <2>1. /\ Counted(count, set) > 0
        /\ Width(count, set, l) = (Whole * count[l]) \div Counted(count, set)
    BY <1>3, WidthCases
  <2> DEFINE a == Whole * count[l]
  <2>2. a \in Nat
    BY <1>1
  <2> HIDE DEF a
  <2>3. a \div Counted(count, set) \in Nat
    BY <1>1, <2>1, <2>2, Quotient
  <2>4. QED
    BY <2>1, <2>3 DEF a
<1>4. CASE Scaled(count, set)
  <2>1. /\ Asked(count, set) > 0
        /\ Width(count, set, l) = (Whole * set[l]) \div Asked(count, set)
    BY <1>4, WidthCases
  <2> DEFINE a == Whole * set[l]
  <2>2. a \in Nat
    BY <1>1
  <2> HIDE DEF a
  <2>3. a \div Asked(count, set) \in Nat
    BY <1>1, <2>1, <2>2, Quotient
  <2>4. QED
    BY <2>1, <2>3 DEF a
<1>5. CASE Chosen(count, set) # {} /\ ~Scaled(count, set)
  <2>1. CASE l \in Chosen(count, set)
    BY <1>1, <1>5, <2>1, WidthCases
  <2>2. CASE l \in Others(count, set)
    <3>1. /\ Asked(count, set) <= Whole /\ Counted(count, set) > 0
          /\ Width(count, set, l) =
               ((Whole - Asked(count, set)) * count[l]) \div Counted(count, set)
      BY <1>5, <2>2, WidthCases
    <3> DEFINE a == (Whole - Asked(count, set)) * count[l]
    <3>2. a \in Nat
      <4>1. Whole - Asked(count, set) \in Nat
        BY <1>1, <3>1
      <4>2. QED
        BY <1>1, <4>1
    <3> HIDE DEF a
    <3>3. a \div Counted(count, set) \in Nat
      BY <1>1, <3>1, <3>2, Quotient
    <3>4. QED
      BY <3>1, <3>3 DEF a
  <2>3. QED
    BY <1>2, <2>1, <2>2
<1>6. QED
  BY <1>3, <1>4, <1>5

LEMMA SmallGap ==
    ASSUME NEW F \in Nat \ {0}, NEW W \in Nat, NEW G \in Nat, NEW n \in Nat \ {0},
           F * G <= W * F, W * F <= F * G + (F - 1) * n
    PROVE  G <= W /\ W - G < n
<1>1. G <= W
  <2>1. SUFFICES ASSUME G >= W + 1
                 PROVE  FALSE
    OBVIOUS
  <2>2. F * G >= F * (W + 1)
    BY <2>1
  <2>3. F * (W + 1) = W * F + F
    OBVIOUS
  <2>4. QED
    BY <2>2, <2>3
<1>2. W - G < n
  <2>1. SUFFICES ASSUME W - G >= n
                 PROVE  FALSE
    OBVIOUS
  <2>2. F * (W - G) >= F * n
    BY <1>1, <2>1
  <2>3. F * (W - G) = W * F - F * G /\ (F - 1) * n = F * n - n
    OBVIOUS
  <2>4. QED
    BY <2>2, <2>3
<1>3. QED
  BY <1>1, <1>2

\* The widths in a cube that is not empty.
WidthsOf(count, set) == [k \in DOMAIN count |-> Width(count, set, k)]

\* Every division that they take comes out.
Even(count, set) ==
    /\ Chosen(count, set) = {} =>
          SharesEvenly(count, DOMAIN count, Counted(count, set), Whole)
    /\ Scaled(count, set) =>
          SharesEvenly(set, DOMAIN count, Asked(count, set), Whole)
    /\ Chosen(count, set) # {} /\ ~Scaled(count, set) =>
          SharesEvenly(count, Others(count, set), Counted(count, set),
                       Whole - Asked(count, set))

\* Shares of W add up to W, less what is rounded.
LEMMA SharesFill ==
    ASSUME NEW f, NEW g, NEW S, IsFiniteSet(S), S # {}, NEW F \in Nat \ {0}, NEW W \in Nat,
           SumFunctionOnSet(f, S) = F,
           Shares(f, g, S, F, W)
    PROVE  /\ SumFunctionOnSet(g, S) \in Nat
           /\ SumFunctionOnSet(g, S) <= W
           /\ W - SumFunctionOnSet(g, S) < Cardinality(S)
           /\ SharesEvenly(f, S, F, W) => SumFunctionOnSet(g, S) = W
<1> DEFINE G == SumFunctionOnSet(g, S)
<1>1. G \in Nat /\ F * G <= W * F /\ W * F <= F * G + (F - 1) * Cardinality(S)
  BY SharesBounded
<1>2. Cardinality(S) \in Nat \ {0}
  BY FS_CardinalityType, FS_EmptySet
<1>3. G <= W /\ W - G < Cardinality(S)
  <2> HIDE DEF G
  <2>1. QED
    BY <1>1, <1>2, SmallGap
<1>4. ASSUME SharesEvenly(f, S, F, W)
      PROVE  G = W
  <2>2. F * G = W * SumFunctionOnSet(f, S)
    BY <1>4, SharesExact
  <2> HIDE DEF G
  <2>3. QED
    BY <1>1, <2>2
<1>5. QED
  BY <1>1, <1>3, <1>4

\* The widths in a cube fill it, less what is rounded.
LEMMA WidthsFill ==
    ASSUME NEW count, NEW set, Counts(count, set), DOMAIN count # {}
    PROVE  /\ SumFunctionOnSet(WidthsOf(count, set), DOMAIN count) \in Nat
           /\ SumFunctionOnSet(WidthsOf(count, set), DOMAIN count) <= Whole
           /\ Whole - SumFunctionOnSet(WidthsOf(count, set), DOMAIN count)
                < Cardinality(DOMAIN count)
           /\ Even(count, set) =>
                SumFunctionOnSet(WidthsOf(count, set), DOMAIN count) = Whole
<1> DEFINE D == DOMAIN count
           w == WidthsOf(count, set)
<1>1. /\ Asked(count, set) \in Nat /\ Counted(count, set) \in Nat
      /\ IsFiniteSet(Chosen(count, set)) /\ IsFiniteSet(Others(count, set))
      /\ Whole \in Nat /\ IsFiniteSet(D)
      /\ \A k \in D : count[k] \in Nat /\ set[k] \in Nat
  BY WidthTotals, SegmentsAssumption DEF Counts
<1>2. \A k \in D : w[k] = Width(count, set, k) /\ w[k] \in Nat
  BY WidthInNat DEF WidthsOf
<1>3. /\ Chosen(count, set) \in SUBSET D /\ Others(count, set) \in SUBSET D
      /\ D \ Chosen(count, set) = Others(count, set)
  BY DEF Chosen, Others
<1>4. CASE Chosen(count, set) = {}
  <2>1. Others(count, set) = D
    BY <1>3, <1>4
  <2>2. \A k \in D : /\ Counted(count, set) > 0
                     /\ Width(count, set, k) = (Whole * count[k]) \div Counted(count, set)
    BY <1>4, WidthCases
  <2>3. Counted(count, set) \in Nat \ {0}
    BY <1>1, <2>2
  <2>4. Shares(count, w, D, Counted(count, set), Whole)
    BY <1>1, <1>2, <2>2 DEF Shares
  <2>5. SumFunctionOnSet(count, D) = Counted(count, set)
    BY <2>1 DEF Counted
  <2>6. Even(count, set) => SharesEvenly(count, D, Counted(count, set), Whole)
    BY <1>4 DEF Even
  <2> HIDE DEF w, D
  <2>7. /\ SumFunctionOnSet(w, D) \in Nat
        /\ SumFunctionOnSet(w, D) <= Whole
        /\ Whole - SumFunctionOnSet(w, D) < Cardinality(D)
        /\ SharesEvenly(count, D, Counted(count, set), Whole)
              => SumFunctionOnSet(w, D) = Whole
    <3>1. D # {}
      BY DEF D
    <3>2. QED
      BY <1>1, <2>3, <2>4, <2>5, <3>1, SharesFill
  <2>8. QED
    BY <2>6, <2>7 DEF w, D
<1>5. CASE Scaled(count, set)
  <2>2. \A k \in D : /\ Asked(count, set) > 0
                     /\ Width(count, set, k) = (Whole * set[k]) \div Asked(count, set)
    BY <1>5, WidthCases
  <2>3. Asked(count, set) \in Nat \ {0}
    BY <1>1, <2>2
  <2>4. Shares(set, w, D, Asked(count, set), Whole)
    BY <1>1, <1>2, <2>2 DEF Shares
  <2>5. SumFunctionOnSet(set, D) = Asked(count, set)
    <3>1. Chosen(count, set) = {k \in D : set[k] > 0}
      BY DEF Chosen
    <3>2. SumFunctionOnSet(set, {k \in D : set[k] > 0}) = SumFunctionOnSet(set, D)
      BY <1>1, SumOfPositive
    <3>3. QED
      BY <3>1, <3>2 DEF Asked
  <2>6. Even(count, set) => SharesEvenly(set, D, Asked(count, set), Whole)
    BY <1>5 DEF Even
  <2> HIDE DEF w, D
  <2>7. /\ SumFunctionOnSet(w, D) \in Nat
        /\ SumFunctionOnSet(w, D) <= Whole
        /\ Whole - SumFunctionOnSet(w, D) < Cardinality(D)
        /\ SharesEvenly(set, D, Asked(count, set), Whole)
              => SumFunctionOnSet(w, D) = Whole
    <3>1. D # {}
      BY DEF D
    <3>2. QED
      BY <1>1, <2>3, <2>4, <2>5, <3>1, SharesFill
  <2>8. QED
    BY <2>6, <2>7 DEF w, D
<1>6. CASE Chosen(count, set) # {} /\ ~Scaled(count, set)
  <2> DEFINE C == Chosen(count, set)
             O == Others(count, set)
             rest == Whole - Asked(count, set)
             F == Counted(count, set)
  <2>1. Asked(count, set) <= Whole /\ O # {}
    <3>1. \E k \in DOMAIN count : TRUE
      OBVIOUS
    <3>2. Asked(count, set) <= Whole
      BY <1>6, <3>1, WidthCases
    <3>3. QED
      BY <1>6, <3>2 DEF Scaled
  <2>2. \A k \in C : w[k] = set[k]
    BY <1>2, <1>3, <1>6, WidthCases
  <2>3. (\A k \in O : F > 0) /\ Shares(count, w, O, F, rest)
    BY <1>1, <1>2, <1>3, <1>6, WidthCases DEF Shares
  <2>4. rest \in Nat /\ F \in Nat \ {0}
    BY <1>1, <2>1, <2>3
  <2>5. SumFunctionOnSet(w, C) = Asked(count, set)
    <3>1. SumFunctionOnSet(w, C) = SumFunctionOnSet(set, C)
      <4> HIDE DEF w, C
      <4>1. QED
        BY <1>1, <2>2, SumAgrees DEF C
    <3>2. QED
      BY <3>1 DEF Asked
  <2>6. SumFunctionOnSet(count, O) = F
    BY DEF Counted
  <2>7. SumFunctionOnSet(w, D) = SumFunctionOnSet(w, C) + SumFunctionOnSet(w, O)
    <3>1. SumFunctionOnSet(w, D) = SumFunctionOnSet(w, C) + SumFunctionOnSet(w, D \ C)
      <4> HIDE DEF w, C, D
      <4>1. QED
        BY <1>1, <1>2, <1>3, SumOfParts DEF C
    <3>2. QED
      BY <1>3, <3>1
  <2>8. IsFiniteSet(O) /\ O \in SUBSET D
    BY <1>1, <1>3
  <2>9. Cardinality(O) <= Cardinality(D) /\ Cardinality(O) \in Nat /\ Cardinality(D) \in Nat
    <3> HIDE DEF O, D
    <3>1. QED
      BY <1>1, <2>8, FS_Subset, FS_CardinalityType
  <2>10. Even(count, set) => SharesEvenly(count, O, F, rest)
    BY <1>6 DEF Even
  <2> HIDE DEF w, D, C, O, F, rest
  <2>11. /\ SumFunctionOnSet(w, O) \in Nat
         /\ SumFunctionOnSet(w, O) <= rest
         /\ rest - SumFunctionOnSet(w, O) < Cardinality(O)
         /\ SharesEvenly(count, O, F, rest) => SumFunctionOnSet(w, O) = rest
    BY <2>1, <2>3, <2>4, <2>6, <2>8, SharesFill
  <2>12. SumFunctionOnSet(w, D) = Asked(count, set) + SumFunctionOnSet(w, O)
    BY <2>5, <2>7
  <2>13. rest = Whole - Asked(count, set)
    BY DEF rest
  <2>14. /\ SumFunctionOnSet(w, D) \in Nat
         /\ SumFunctionOnSet(w, D) <= Whole
         /\ Whole - SumFunctionOnSet(w, D) < Cardinality(D)
    BY <1>1, <2>1, <2>9, <2>11, <2>12, <2>13
  <2>15. ASSUME Even(count, set)
         PROVE  SumFunctionOnSet(w, D) = Whole
    <3>1. SumFunctionOnSet(w, O) = rest
      BY <2>10, <2>11, <2>15
    <3>2. QED
      BY <1>1, <2>12, <2>13, <3>1
  <2>16. QED
    BY <2>14, <2>15 DEF w, D
<1>7. QED
  BY <1>4, <1>5, <1>6

-----------------------------------------------------------------------------
(* The segments of a cube fill it.                                         *)

WidthsTyped(ws) == ws \in [Cubes -> [Labels -> Nat]]

LEMMA CubeCounts ==
    ASSUME NEW shelf \in Shelves, NEW ws, WidthsTyped(ws), NEW c \in Cubes
    PROVE  /\ Counts(CountIn(shelf, c), ws[c])
           /\ DOMAIN CountIn(shelf, c) = LabelsIn(shelf, c)
           /\ IsFiniteSet(LabelsIn(shelf, c))
           /\ LabelsIn(shelf, c) \subseteq Labels
<1> DEFINE held == {r \in Records : c \in Holder(shelf, r)}
           L == LabelsIn(shelf, c)
           f == [r \in held |-> r.label]
<1>1. f \in Surjection(held, L)
  BY DEF Surjection, LabelsIn
<1>2. IsFiniteSet(held)
  BY SegmentsAssumption, FS_Subset
<1>3. IsFiniteSet(L)
  <2> HIDE DEF f, held, L
  <2>1. QED
    BY <1>1, <1>2, FS_Surjection
<1>4. L \subseteq Labels
  BY SegmentsAssumption DEF LabelsIn
<1>5. DOMAIN CountIn(shelf, c) = L
  BY DEF CountIn
<1>6. ASSUME NEW k \in L
      PROVE  /\ CountIn(shelf, c)[k] \in Nat /\ CountIn(shelf, c)[k] > 0
             /\ ws[c][k] \in Nat
  <2>1. CountIn(shelf, c)[k] = Cardinality(HeldOf(shelf, c, k))
    BY DEF CountIn
  <2>2. HeldOf(shelf, c, k) # {}
    BY LabelHeld
  <2>3. ws[c][k] \in Nat
    BY <1>4 DEF WidthsTyped
  <2>4. QED
    BY <2>1, <2>2, <2>3, HeldCounts
<1> HIDE DEF L
<1>7. Counts(CountIn(shelf, c), ws[c])
  BY <1>3, <1>5, <1>6 DEF Counts
<1>8. QED
  BY <1>3, <1>4, <1>5, <1>7 DEF L

LEMMA CubeFilled ==
    ASSUME NEW shelf \in Shelves, NEW ws, WidthsTyped(ws), NEW c \in Cubes,
           NEW bin, bin = Derive(shelf, ws)[c], DOMAIN bin # {}
    PROVE  /\ SumFunction([l \in DOMAIN bin |-> bin[l].width]) \in Nat
           /\ SumFunction([l \in DOMAIN bin |-> bin[l].width]) <= Whole
           /\ Whole - SumFunction([l \in DOMAIN bin |-> bin[l].width])
                < Cardinality(DOMAIN bin)
           /\ Even(CountIn(shelf, c), ws[c]) =>
                SumFunction([l \in DOMAIN bin |-> bin[l].width]) = Whole
<1> DEFINE count == CountIn(shelf, c)
           D == DOMAIN count
           w == [l \in DOMAIN bin |-> bin[l].width]
<1>1. Counts(count, ws[c]) /\ DOMAIN bin = D /\ D = LabelsIn(shelf, c)
  BY CubeCounts, LabelsDerived
<1>2. \A l \in D : bin[l].width = Width(count, ws[c], l)
  BY <1>1, SegmentIs
<1>3. w = WidthsOf(count, ws[c])
  <2> HIDE DEF count
  <2>1. QED
    BY <1>1, <1>2 DEF WidthsOf
<1>4. SumFunction(w) = SumFunctionOnSet(WidthsOf(count, ws[c]), D)
  <2>1. DOMAIN w = D
    BY <1>1
  <2> HIDE DEF w, count, D
  <2>2. QED
    BY <1>3, <2>1 DEF SumFunction
<1> HIDE DEF w, count
<1>5. QED
  BY <1>1, <1>4, WidthsFill DEF w, count

\* The segments of a cube do not overfill it, and fall short of it by less
\* than a unit for each label: what derive loses by rounding the shares.
NearlyFull ==
    \A c \in Cubes :
        DOMAIN bins[c] # {} =>
           LET total == SumFunction([l \in DOMAIN bins[c] |-> bins[c][l].width])
           IN total <= Whole /\ Whole - total < Cardinality(DOMAIN bins[c])

\* Every share of a width that derive computes comes out in whole units.
EvenWidths == \A c \in Cubes : Even(CountIn(cache, c), served[c])

LEMMA FilledOn ==
    ASSUME cache \in Shelves, WidthsTyped(served), bins = Derive(cache, served)
    PROVE  NearlyFull /\ (EvenWidths => SegmentsFillTheCube)
<1>1. ASSUME NEW c \in Cubes, DOMAIN bins[c] # {}
      PROVE  /\ SumFunction([l \in DOMAIN bins[c] |-> bins[c][l].width]) <= Whole
             /\ Whole - SumFunction([l \in DOMAIN bins[c] |-> bins[c][l].width])
                  < Cardinality(DOMAIN bins[c])
             /\ Even(CountIn(cache, c), served[c]) =>
                  SumFunction([l \in DOMAIN bins[c] |-> bins[c][l].width]) = Whole
  <2> DEFINE bin == bins[c]
  <2>1. bin = Derive(cache, served)[c] /\ DOMAIN bin # {}
    BY <1>1
  <2> HIDE DEF bin
  <2>2. /\ SumFunction([l \in DOMAIN bin |-> bin[l].width]) <= Whole
        /\ Whole - SumFunction([l \in DOMAIN bin |-> bin[l].width]) < Cardinality(DOMAIN bin)
        /\ Even(CountIn(cache, c), served[c]) =>
             SumFunction([l \in DOMAIN bin |-> bin[l].width]) = Whole
    BY <2>1, CubeFilled
  <2>3. QED
    BY <2>2, Zenon DEF bin
<1>2. NearlyFull
  BY <1>1, Zenon DEF NearlyFull
<1>3. EvenWidths => SegmentsFillTheCube
  BY <1>1, Zenon DEF EvenWidths, SegmentsFillTheCube
<1>4. QED
  BY <1>2, <1>3

-----------------------------------------------------------------------------
(* Least and greatest of one and two.                                      *)

LEMMA MinOfOne ==
    ASSUME NEW a \in Int
    PROVE  Min({a}) = a
<1>1. \A x \in {a} : (\A y \in {a} : x =< y) <=> x = a
  OBVIOUS
<1>2. QED
  BY <1>1 DEF Min

LEMMA MinOfTwo ==
    ASSUME NEW a \in Int, NEW b \in Int
    PROVE  Min({a, b}) = IF a <= b THEN a ELSE b
<1> DEFINE m == IF a <= b THEN a ELSE b
<1>1. m \in {a, b} /\ \A y \in {a, b} : m =< y
  OBVIOUS
<1>2. \A x \in {a, b} : (\A y \in {a, b} : x =< y) => x = m
  OBVIOUS
<1> HIDE DEF m
<1>3. Min({a, b}) = m
  BY <1>1, <1>2 DEF Min
<1>4. QED
  BY <1>3 DEF m

LEMMA MaxOfTwo ==
    ASSUME NEW a \in Int, NEW b \in Int
    PROVE  Max({a, b}) = IF a >= b THEN a ELSE b
<1> DEFINE m == IF a >= b THEN a ELSE b
<1>1. m \in {a, b} /\ \A y \in {a, b} : m >= y
  OBVIOUS
<1>2. \A x \in {a, b} : (\A y \in {a, b} : x >= y) => x = m
  OBVIOUS
<1> HIDE DEF m
<1>3. Max({a, b}) = m
  BY <1>1, <1>2 DEF Max
<1>4. QED
  BY <1>3 DEF m

-----------------------------------------------------------------------------
(* Positions and bands.                                                    *)

\* Where the n-th of k records stands in a segment of width w, which is one
\* of several or the only one of its cube.
Inner(several, n, w, k) ==
    IF several THEN ((2 * n + 1) * w) \div (2 * k)
    ELSE IF k = 1 THEN w \div 2
    ELSE (n * w) \div (k - 1)

LEMMA InnerInSegment ==
    ASSUME NEW several \in BOOLEAN, NEW k \in Nat \ {0}, NEW n \in 0..(k - 1), NEW w \in Nat
    PROVE  Inner(several, n, w, k) \in Nat /\ (several => Inner(several, n, w, k) <= w)
<1>1. CASE several
  <2> DEFINE a == (2 * n + 1) * w
  <2>1. a \in Nat /\ a <= (2 * k) * w
    <3>1. 2 * n + 1 \in Nat /\ 2 * n + 1 <= 2 * k /\ 2 * k \in Nat
      OBVIOUS
    <3>2. \A x, y \in Nat : x <= y => x * w \in Nat /\ x * w <= y * w
      OBVIOUS
    <3>3. QED
      BY <3>1, <3>2
  <2>2. (2 * k) * w \in Nat /\ 2 * k \in Nat \ {0}
    OBVIOUS
  <2> DEFINE d == 2 * k
  <2> HIDE DEF a, d
  <2>3. a \div d \in Nat /\ a \div d <= (d * w) \div d
    <3>1. d * w \in Nat /\ d \in Nat \ {0} /\ a \in Nat /\ a <= d * w
      BY <2>1, <2>2 DEF d
    <3> DEFINE b == d * w
    <3> HIDE DEF b
    <3>2. a \div d \in Nat /\ a \div d <= b \div d
      BY <3>1, Quotient, QuotientMonotone DEF b
    <3>3. QED
      BY <3>2 DEF b
  <2>4. (d * w) \div d = w
    <3>1. d \in Nat \ {0}
      BY <2>2 DEF d
    <3>2. QED
      BY <3>1, QuotientOfMultiple
  <2>5. Inner(several, n, w, k) = a \div d
    BY <1>1 DEF Inner, a, d
  <2>6. QED
    BY <2>3, <2>4, <2>5
<1>2. CASE ~several /\ k = 1
  <2>1. Inner(several, n, w, k) = w \div 2
    BY <1>2 DEF Inner
  <2>2. QED
    BY <1>2, <2>1
<1>3. CASE ~several /\ k # 1
  <2> DEFINE a == n * w
             d == k - 1
  <2>1. a \in Nat /\ d \in Nat \ {0}
    BY <1>3
  <2>2. Inner(several, n, w, k) = a \div d
    BY <1>3 DEF Inner
  <2> HIDE DEF a, d
  <2>3. a \div d \in Nat
    BY <2>1, Quotient
  <2>4. QED
    BY <1>3, <2>2, <2>3
<1>4. QED
  BY <1>1, <1>2, <1>3

LEMMA InnerMonotone ==
    ASSUME NEW several \in BOOLEAN, NEW k \in Nat \ {0}, NEW m \in 0..(k - 1),
           NEW n \in 0..(k - 1), m <= n, NEW w \in Nat
    PROVE  Inner(several, m, w, k) <= Inner(several, n, w, k)
<1>0. \A x, y \in Nat : x <= y => x * w \in Nat /\ y * w \in Nat /\ x * w <= y * w
  OBVIOUS
<1>1. CASE several
  <2> DEFINE a == (2 * m + 1) * w
             b == (2 * n + 1) * w
             d == 2 * k
  <2>1. a \in Nat /\ b \in Nat /\ a <= b /\ d \in Nat \ {0}
    <3>1. 2 * m + 1 \in Nat /\ 2 * n + 1 \in Nat /\ 2 * m + 1 <= 2 * n + 1
      OBVIOUS
    <3>2. QED
      BY <1>0, <3>1
  <2>2. Inner(several, m, w, k) = a \div d /\ Inner(several, n, w, k) = b \div d
    BY <1>1 DEF Inner
  <2> HIDE DEF a, b, d
  <2>3. QED
    BY <2>1, <2>2, QuotientMonotone
<1>2. CASE ~several /\ k = 1
  <2>1. m = n
    BY <1>2
  <2>2. Inner(several, n, w, k) = w \div 2
    BY <1>2 DEF Inner
  <2>3. QED
    BY <2>1, <2>2
<1>3. CASE ~several /\ k # 1
  <2> DEFINE a == m * w
             b == n * w
             d == k - 1
  <2>1. a \in Nat /\ b \in Nat /\ a <= b /\ d \in Nat \ {0}
    BY <1>0, <1>3
  <2>2. Inner(several, m, w, k) = a \div d /\ Inner(several, n, w, k) = b \div d
    BY <1>3 DEF Inner
  <2> HIDE DEF a, b, d
  <2>3. QED
    BY <2>1, <2>2, QuotientMonotone
<1>4. QED
  BY <1>1, <1>2, <1>3

\* A record is located in the cube that holds it.
LEMMA LocatedIn ==
    ASSUME NEW shelf \in Shelves, NEW ws, NEW r \in Records, NEW b, b = Derive(shelf, ws)
    PROVE  /\ Located(b, r) # NoBoundary => Holder(shelf, r) # {}
           /\ \A c \in Holder(shelf, r) :
                /\ Located(b, r).cube = c
                /\ Located(b, r).span = LabelSpan(b, r.label)
                /\ Located(b, r).band = Band(b[c], r)
                /\ Located(b, r).next = LeadsTo(b, c, r)
<1>1. Ranked(b, r.label, Rank[r]) = Holder(shelf, r)
  BY FoundIsHolder
<1>2. Holder(shelf, r) = {} => Located(b, r) = NoBoundary
  BY <1>1 DEF Located
<1>3. ASSUME NEW c \in Holder(shelf, r)
      PROVE  /\ Located(b, r).cube = c
             /\ Located(b, r).span = LabelSpan(b, r.label)
             /\ Located(b, r).band = Band(b[c], r)
             /\ Located(b, r).next = LeadsTo(b, c, r)
  <2>0. c \in CutBearing(shelf) /\ Holder(shelf, r) = {c}
    BY HeldBy
  <2>1. c \in Int
    <3>1. c \in Cubes
      BY <2>0, CutsKeyed
    <3>2. QED
      BY <3>1, CubesFinite
  <2>2. Min(Holder(shelf, r)) = c
    BY <2>0, <2>1, MinOfOne
  <2>3. Located(b, r) =
          [cube |-> c, span |-> LabelSpan(b, r.label),
           band |-> Band(b[c], r), next |-> LeadsTo(b, c, r)]
    BY <1>1, <2>0, <2>2 DEF Located
  <2>4. QED
    BY <2>3
<1>4. QED
  BY <1>2, <1>3

\* The segment of a record that is held, and where the record stands in it.
LEMMA StandsIn ==
    ASSUME NEW shelf \in Shelves, NEW ws, WidthsTyped(ws), NEW r \in Records,
           NEW c \in Holder(shelf, r), NEW bin, bin = Derive(shelf, ws)[c]
    PROVE  /\ r.label \in LabelsIn(shelf, c) /\ DOMAIN bin = LabelsIn(shelf, c)
           /\ bin[r.label].count \in Nat \ {0}
           /\ Rank[r] - bin[r.label].first \in 0..(bin[r.label].count - 1)
           /\ Rank[r] \in Nat /\ bin[r.label].first \in Nat
           /\ bin[r.label].width \in Nat
           /\ bin[r.label].width = WidthsIn(shelf, ws, c)[r.label]
           /\ bin[r.label].offset =
                SumFunctionOnSet(WidthsIn(shelf, ws, c), LabelsBefore(shelf, c, r.label))
           /\ bin[r.label].offset \in Nat
<1> DEFINE l == r.label
           first == Cardinality(Earlier(l, Lowest(shelf, c, l)))
           count == Cardinality(HeldOf(shelf, c, l))
           w == WidthsIn(shelf, ws, c)
           L == LabelsBefore(shelf, c, l)
<1>1. c \in Cubes
  BY HeldBy, CutsKeyed
<1>2. r \in HeldOf(shelf, c, l) /\ l \in LabelsIn(shelf, c)
  BY DEF HeldOf, LabelsIn
<1>3. DOMAIN bin = LabelsIn(shelf, c)
  BY <1>1, LabelsDerived
<1>4. /\ bin[l].first = first /\ bin[l].count = count
      /\ bin[l].width = Width(CountIn(shelf, c), ws[c], l)
      /\ bin[l].offset = SumFunctionOnSet(w, L)
  BY <1>1, <1>2, SegmentIs
<1>5. first \in Nat /\ count \in Nat \ {0}
  BY <1>2, HeldCounts
<1>6. first <= Rank[r] /\ Rank[r] < first + count
  BY <1>2, RankHeld
<1>7. Rank[r] \in Nat
  <2>1. Ahead(r) \in SUBSET OfLabel(r.label)
    BY RankIs
  <2>2. Cardinality(Ahead(r)) \in Nat
    BY <2>1, RecordsOfLabel
  <2>3. QED
    BY <2>2, RankIs
<1>8. /\ Counts(CountIn(shelf, c), ws[c])
      /\ DOMAIN CountIn(shelf, c) = LabelsIn(shelf, c)
      /\ IsFiniteSet(LabelsIn(shelf, c))
  BY <1>1, CubeCounts
<1>9. \A k \in LabelsIn(shelf, c) : w[k] = Width(CountIn(shelf, c), ws[c], k) /\ w[k] \in Nat
  BY <1>8, WidthInNat DEF WidthsIn
<1>10. SumFunctionOnSet(w, L) \in Nat
  <2>1. L \subseteq LabelsIn(shelf, c)
    BY DEF LabelsBefore
  <2>2. IsFiniteSet(L) /\ \A k \in L : w[k] \in Nat
    BY <1>8, <1>9, <2>1, FS_Subset
  <2> HIDE DEF L, w
  <2>3. QED
    BY <2>2, SumInNat
<1> HIDE DEF first, count, w, L
<1>11. Rank[r] - first \in 0..(count - 1)
  BY <1>5, <1>6, <1>7
<1>12. QED
  BY <1>2, <1>3, <1>4, <1>5, <1>7, <1>9, <1>10, <1>11 DEF w, L

LEMMA PositionIs ==
    ASSUME NEW bin, NEW r
    PROVE  Position(bin, r) =
             bin[r.label].offset
               + Inner(Cardinality(DOMAIN bin) > 1, Rank[r] - bin[r.label].first,
                       bin[r.label].width, bin[r.label].count)
BY DEF Position, Inner

\* The widths of the labels before one leave room for those of a later one.
LEMMA OffsetAfter ==
    ASSUME NEW shelf \in Shelves, NEW ws, WidthsTyped(ws), NEW c \in Cubes,
           NEW k \in LabelsIn(shelf, c), NEW l \in LabelsIn(shelf, c), Place[k] < Place[l]
    PROVE  SumFunctionOnSet(WidthsIn(shelf, ws, c), LabelsBefore(shelf, c, k))
             + WidthsIn(shelf, ws, c)[k]
               <= SumFunctionOnSet(WidthsIn(shelf, ws, c), LabelsBefore(shelf, c, l))
<1> DEFINE w == WidthsIn(shelf, ws, c)
           K == LabelsBefore(shelf, c, k)
           L == LabelsBefore(shelf, c, l)
           M == K \union {k}
<1>1. /\ Counts(CountIn(shelf, c), ws[c])
      /\ DOMAIN CountIn(shelf, c) = LabelsIn(shelf, c)
      /\ IsFiniteSet(LabelsIn(shelf, c)) /\ LabelsIn(shelf, c) \subseteq Labels
  BY CubeCounts
<1>2. \A j \in LabelsIn(shelf, c) : w[j] \in Nat /\ Place[j] \in Nat
  BY <1>1, WidthInNat, PlaceOf DEF WidthsIn
<1>3. /\ L \subseteq LabelsIn(shelf, c) /\ M \subseteq L /\ k \in M /\ M \ {k} = K
  BY <1>2 DEF LabelsBefore
<1>4. /\ IsFiniteSet(L) /\ IsFiniteSet(M)
      /\ \A j \in L : w[j] \in Nat
  BY <1>1, <1>2, <1>3, FS_Subset
<1>5. w[k] \in Nat
  BY <1>2
<1>6. /\ SumFunctionOnSet(w, M) = w[k] + SumFunctionOnSet(w, K)
      /\ SumFunctionOnSet(w, M) <= SumFunctionOnSet(w, L)
      /\ SumFunctionOnSet(w, K) \in Nat
  <2>1. IsFiniteSet(K) /\ (\A j \in K : w[j] \in Nat) /\ (\A j \in M : w[j] \in Nat)
    BY <1>3, <1>4, FS_Subset
  <2> HIDE DEF w, K, L, M
  <2>2. SumFunctionOnSet(w, K) \in Nat
    BY <2>1, SumInNat
  <2>3. SumFunctionOnSet(w, M) = w[k] + SumFunctionOnSet(w, M \ {k})
    BY <1>3, <1>4, <2>1, SumTake
  <2>4. SumFunctionOnSet(w, M) <= SumFunctionOnSet(w, L)
    BY <1>3, <1>4, SumMonotone
  <2>5. QED
    BY <1>3, <2>2, <2>3, <2>4
<1> HIDE DEF w, K, L
<1>7. QED
  BY <1>5, <1>6 DEF w, K, L

-----------------------------------------------------------------------------
(* Records are shown in order.                                             *)

\* On a shelf in order a cube that outranks another one does not stand
\* before it.
LEMMA OutranksInOrder ==
    ASSUME NEW shelf \in Shelves, InOrder(shelf), NEW c \in CutBearing(shelf),
           NEW d \in CutBearing(shelf), Outranks(shelf, d, c)
    PROVE  c <= d
<1>1. /\ c \in Nat /\ d \in Nat /\ shelf[c] \in Keyed /\ shelf[d] \in Keyed
  BY CutsKeyed, CubesFinite
<1>2. SUFFICES ASSUME d < c
               PROVE  FALSE
  BY <1>1
<1>3. AtMost(shelf[d], shelf[c])
  BY <1>2 DEF InOrder
<1>4. Precedes(shelf[c], shelf[d])
  BY <1>1, <1>2 DEF Outranks
<1>5. QED
  BY <1>3, <1>4 DEF AtMost

\* On a shelf in order the cubes follow the records.
LEMMA CubesFollow ==
    ASSUME NEW shelf \in Shelves, InOrder(shelf), NEW r \in Records, NEW s \in Records,
           AtMost(r, s), NEW c \in Holder(shelf, r), NEW d \in Holder(shelf, s)
    PROVE  c \in Cubes /\ d \in Cubes /\ c \in Nat /\ d \in Nat /\ c <= d
<1>1. c \in CutBearing(shelf) /\ d \in CutBearing(shelf)
  BY HeldBy
<1>2. Outranks(shelf, d, c)
  BY HolderMonotone
<1>3. QED
  BY <1>1, <1>2, OutranksInOrder, CutsKeyed, CubesFinite

LEMMA PrecedesAtMost ==
    ASSUME NEW r \in Records, NEW s \in Records, Precedes(r, s)
    PROVE  AtMost(r, s)
BY KeyOrder DEF Keyed

\* Of two records in a cube the earlier one has the smaller position.
LEMMA PositionsFollow ==
    ASSUME NEW shelf \in Shelves, NEW ws, WidthsTyped(ws), NEW r \in Records, NEW s \in Records,
           Precedes(r, s), NEW c, c \in Holder(shelf, r), c \in Holder(shelf, s),
           NEW bin, bin = Derive(shelf, ws)[c]
    PROVE  Position(bin, r) \in Nat /\ Position(bin, s) \in Nat
           /\ Position(bin, r) <= Position(bin, s)
<1> DEFINE several == Cardinality(DOMAIN bin) > 1
           k == bin[r.label]
           l == bin[s.label]
           m == Rank[r] - k.first
           n == Rank[s] - l.first
<1>1. /\ r.label \in LabelsIn(shelf, c) /\ DOMAIN bin = LabelsIn(shelf, c)
      /\ k.count \in Nat \ {0} /\ m \in 0..(k.count - 1)
      /\ Rank[r] \in Nat /\ k.first \in Nat
      /\ k.width \in Nat /\ k.offset \in Nat
      /\ k.width = WidthsIn(shelf, ws, c)[r.label]
      /\ k.offset = SumFunctionOnSet(WidthsIn(shelf, ws, c), LabelsBefore(shelf, c, r.label))
  BY StandsIn
<1>2. /\ s.label \in LabelsIn(shelf, c)
      /\ l.count \in Nat \ {0} /\ n \in 0..(l.count - 1)
      /\ Rank[s] \in Nat /\ l.first \in Nat
      /\ l.width \in Nat /\ l.offset \in Nat
      /\ l.offset = SumFunctionOnSet(WidthsIn(shelf, ws, c), LabelsBefore(shelf, c, s.label))
  BY StandsIn
<1>3. /\ Position(bin, r) = k.offset + Inner(several, m, k.width, k.count)
      /\ Position(bin, s) = l.offset + Inner(several, n, l.width, l.count)
  BY PositionIs, Zenon
<1>4. several \in BOOLEAN
  OBVIOUS
<1> HIDE DEF several
<1>5. /\ Inner(several, m, k.width, k.count) \in Nat
      /\ Inner(several, n, l.width, l.count) \in Nat
      /\ several => Inner(several, m, k.width, k.count) <= k.width
  <2> HIDE DEF k, l, m, n
  <2>1. QED
    BY <1>1, <1>2, <1>4, InnerInSegment
<1>6. CASE r.label = s.label
  <2>1. r.catalog < s.catalog /\ r.catalog \in Nat /\ s.catalog \in Nat
    BY <1>6, KeyOrder DEF Keyed
  <2>2. Rank[r] <= Rank[s]
    <3>1. Ahead(r) \in SUBSET Ahead(s)
      <4>1. \A t \in OfLabel(s.label) : t.catalog \in Nat
        BY SegmentsAssumption DEF OfLabel
      <4>2. QED
        BY <1>6, <2>1, <4>1 DEF Ahead
    <3>2. /\ Rank[r] = Cardinality(Ahead(r)) /\ Rank[s] = Cardinality(Ahead(s))
          /\ Ahead(s) \in SUBSET OfLabel(s.label)
      BY RankIs
    <3>3. Cardinality(Ahead(r)) <= Cardinality(Ahead(s))
      BY <3>1, <3>2, CardinalityOfPart
    <3>4. QED
      BY <3>2, <3>3
  <2>3. k = l /\ m <= n
    BY <1>1, <1>2, <1>6, <2>2
  <2>4. Inner(several, m, k.width, k.count) <= Inner(several, n, l.width, l.count)
    <3> HIDE DEF k, l, m, n
    <3>1. QED
      BY <1>1, <1>2, <1>4, <2>3, InnerMonotone
  <2>5. QED
    <3> HIDE DEF m, n
    <3>1. QED
      BY <1>1, <1>2, <1>3, <1>5, <2>3, <2>4
<1>7. CASE r.label # s.label
  <2>0. c \in Cubes
    BY HeldBy, CutsKeyed
  <2>1. Place[r.label] < Place[s.label]
    BY <1>7
       DEF Precedes
  <2>2. k.offset + k.width <= l.offset
    BY <1>1, <1>2, <2>0, <2>1, OffsetAfter
  <2>3. several
    <3>1. {r.label, s.label} \subseteq DOMAIN bin /\ IsFiniteSet(DOMAIN bin)
      BY <1>1, <1>2, <2>0, CubeCounts
    <3>2. Cardinality({r.label, s.label}) = 2
      <4>1. IsFiniteSet({r.label}) /\ Cardinality({r.label}) = 1
        BY FS_Singleton
      <4>2. Cardinality({r.label} \cup {s.label}) = 2
        BY <1>7, <4>1, FS_AddElement
      <4>3. {r.label} \cup {s.label} = {r.label, s.label}
        OBVIOUS
      <4>4. QED
        BY <4>2, <4>3
    <3>3. Cardinality({r.label, s.label}) <= Cardinality(DOMAIN bin)
      BY <3>1, FS_Subset
    <3>4. Cardinality(DOMAIN bin) \in Nat
      BY <3>1, FS_CardinalityType
    <3>5. QED
      BY <3>2, <3>3, <3>4 DEF several
  <2>4. Inner(several, m, k.width, k.count) <= k.width
    BY <1>5, <2>3
  <2>5. QED
    <3> HIDE DEF k, l, m, n
    <3>1. QED
      BY <1>1, <1>2, <1>3, <1>5, <2>2, <2>4
<1>8. QED
  BY <1>6, <1>7

LEMMA BandsFollow ==
    ASSUME NEW bin, NEW r, NEW s, Position(bin, r) \in Nat, Position(bin, s) \in Nat,
           Position(bin, r) <= Position(bin, s),
           Cardinality(OfLabel(r.label)) # 1, Cardinality(OfLabel(s.label)) # 1
    PROVE  /\ Band(bin, r).start <= Band(bin, s).start
           /\ Band(bin, r).end <= Band(bin, s).end
<1> DEFINE p == Position(bin, r)
           q == Position(bin, s)
<1>1. /\ Band(bin, r) = [start |-> Max({0, p - HalfWidth}), end |-> Min({Whole, p + HalfWidth})]
      /\ Band(bin, s) = [start |-> Max({0, q - HalfWidth}), end |-> Min({Whole, q + HalfWidth})]
  BY DEF Band
<1>2. p \in Nat /\ q \in Nat /\ p <= q /\ HalfWidth \in Nat /\ Whole \in Nat
  BY SegmentsAssumption
<1> HIDE DEF p, q
<1>3. p - HalfWidth \in Int /\ q - HalfWidth \in Int /\ p + HalfWidth \in Int
      /\ q + HalfWidth \in Int /\ Whole \in Int /\ 0 \in Int
  BY <1>2
<1>4. Max({0, p - HalfWidth}) <= Max({0, q - HalfWidth})
  BY <1>2, <1>3, MaxOfTwo
<1>5. Min({Whole, p + HalfWidth}) <= Min({Whole, q + HalfWidth})
  BY <1>2, <1>3, MinOfTwo
<1>6. QED
  BY <1>1, <1>4, <1>5

LEMMA ShownInOrderOn ==
    ASSUME cache \in Shelves, NEW ws, WidthsTyped(ws), bins = Derive(cache, ws)
    PROVE  ShownInOrder
<1>1. SUFFICES ASSUME InOrder(cache),
                      NEW r \in Records, NEW s \in Records,
                      Cardinality(OfLabel(r.label)) > 1,
                      Cardinality(OfLabel(s.label)) > 1,
                      Precedes(r, s),
                      Located(bins, r) # NoBoundary, Located(bins, s) # NoBoundary
               PROVE  \/ Located(bins, r).cube < Located(bins, s).cube
                      \/ /\ Located(bins, r).cube = Located(bins, s).cube
                         /\ Located(bins, r).band.start <= Located(bins, s).band.start
                         /\ Located(bins, r).band.end <= Located(bins, s).band.end
  BY DEF ShownInOrder
<1>2. PICK c : c \in Holder(cache, r)
  BY <1>1, LocatedIn
<1>3. PICK d : d \in Holder(cache, s)
  BY <1>1, LocatedIn
<1>4. /\ Located(bins, r).cube = c /\ Located(bins, r).band = Band(bins[c], r)
      /\ Located(bins, s).cube = d /\ Located(bins, s).band = Band(bins[d], s)
  BY <1>2, <1>3, LocatedIn
<1>5. c \in Nat /\ d \in Nat /\ c <= d
  BY <1>1, <1>2, <1>3, PrecedesAtMost, CubesFollow
<1>6. CASE c < d
  BY <1>4, <1>6
<1>7. CASE c = d
  <2> DEFINE bin == bins[c]
  <2>1. bin = Derive(cache, ws)[c]
    OBVIOUS
  <2> HIDE DEF bin
  <2>2. /\ Position(bin, r) \in Nat /\ Position(bin, s) \in Nat
        /\ Position(bin, r) <= Position(bin, s)
    BY <1>1, <1>2, <1>3, <1>7, <2>1, PositionsFollow
  <2>3. /\ Band(bin, r).start <= Band(bin, s).start
        /\ Band(bin, r).end <= Band(bin, s).end
    BY <1>1, <2>2, BandsFollow
  <2>4. QED
    BY <1>4, <1>7, <2>3 DEF bin
<1>8. QED
  BY <1>5, <1>6, <1>7

-----------------------------------------------------------------------------
(* A band leads on to the next record.                                     *)

LEMMA ReleasesOfLabel ==
    ASSUME NEW l, NEW S \in SUBSET OfLabel(l)
    PROVE  {r.release : r \in S} \subseteq Int /\ IsFiniteSet({r.release : r \in S})
<1>1. IsFiniteSet(S) /\ \A r \in S : r.release \in Nat
  BY RecordsOfLabel
<1> DEFINE N == {r.release : r \in S}
<1>2. IsFiniteSet(N)
  <2> DEFINE f == [r \in S |-> r.release]
  <2>1. f \in Surjection(S, N)
    BY DEF Surjection
  <2> HIDE DEF f, N
  <2>2. QED
    BY <1>1, <2>1, FS_Surjection
<1>3. QED
  BY <1>1, <1>2

\* The first record of a segment has the segment's first rank.
LEMMA FirstRank ==
    ASSUME NEW shelf \in Shelves, NEW c, NEW l, HeldOf(shelf, c, l) # {}
    PROVE  \E s \in HeldOf(shelf, c, l) :
              /\ s.catalog = Lowest(shelf, c, l)
              /\ Rank[s] = Cardinality(Earlier(l, Lowest(shelf, c, l)))
<1> DEFINE H == HeldOf(shelf, c, l)
           low == Lowest(shelf, c, l)
           S == {r \in H : r.catalog = low}
           N == {r.release : r \in S}
<1>1. S \in SUBSET OfLabel(l) /\ S # {} /\ H \subseteq OfLabel(l)
  <2>1. H \subseteq OfLabel(l)
    BY DEF HeldOf, OfLabel
  <2>2. \E r \in H : r.catalog = low
    BY LowestHeld
  <2>3. QED
    BY <2>1, <2>2
<1>2. N \subseteq Int /\ IsFiniteSet(N) /\ N # {}
  <2> HIDE DEF S
  <2>1. {r.release : r \in S} \subseteq Int /\ IsFiniteSet({r.release : r \in S})
    BY <1>1, ReleasesOfLabel, Zenon
  <2>2. {r.release : r \in S} # {}
    BY <1>1
  <2>3. QED
    BY <2>1, <2>2
<1>3. Min(N) \in N /\ \A n \in N : Min(N) <= n
  <2> HIDE DEF N
  <2>1. QED
    BY <1>2, MinIsLeast
<1>4. PICK s \in S : \A t \in S : s.release <= t.release
  BY <1>3
<1>5. s \in H /\ s.catalog = low /\ s \in Records /\ s.label = l
  BY <1>1 DEF OfLabel
<1>6. \A t \in OfLabel(l) : t.catalog \in Nat /\ t.release \in Nat
  BY SegmentsAssumption DEF OfLabel
<1>7. low \in Nat
  BY LowestHeld
<1>8. Ahead(s) \subseteq Earlier(l, low)
  <2>1. SUFFICES ASSUME NEW t \in Ahead(s)
                 PROVE  t \in Earlier(l, low)
    OBVIOUS
  <2>2. t \in OfLabel(l)
    BY <1>5 DEF Ahead
  <2>3. CASE t.catalog < low
    BY <2>2, <2>3 DEF Earlier
  <2>4. CASE t.catalog = low /\ t.release < s.release
    <3>1. s \in OfLabel(l) /\ s.catalog <= t.catalog /\ t.catalog <= s.catalog
      BY <1>1, <1>5, <1>6, <2>4
    <3>2. t \in H
      BY <1>5, <2>2, <3>1, HeldOfBetween
    <3>3. t \in S
      BY <2>4, <3>2
    <3>4. s.release <= t.release /\ s.release \in Nat /\ t.release \in Nat
      BY <1>4, <1>6, <2>2, <3>1, <3>3
    <3>5. QED
      BY <2>4, <3>4
  <2>5. QED
    BY <1>5, <2>1, <2>3, <2>4 DEF Ahead
<1>9. Earlier(l, low) \subseteq Ahead(s)
  BY <1>5 DEF Earlier, Ahead
<1>10. Rank[s] = Cardinality(Earlier(l, low))
  <2>1. Ahead(s) = Earlier(l, low)
    BY <1>8, <1>9
  <2>2. Rank[s] = Cardinality(Ahead(s))
    BY <1>5, RankIs
  <2>3. QED
    BY <2>1, <2>2
<1>11. QED
  BY <1>5, <1>10

\* On a shelf in order the next cube of a label starts with the rank after
\* the last one of the cube before.
LEMMA NextSegment ==
    ASSUME NEW shelf \in Shelves, InOrder(shelf), NEW l, NEW c \in Cubes, NEW d \in Cubes,
           HeldOf(shelf, c, l) # {}, HeldOf(shelf, d, l) # {}, c < d,
           \A e \in Cubes : HeldOf(shelf, e, l) # {} /\ e > c => d <= e
    PROVE  Cardinality(Earlier(l, Lowest(shelf, d, l))) =
             Cardinality(Earlier(l, Lowest(shelf, c, l))) + Cardinality(HeldOf(shelf, c, l))
<1> DEFINE low == Lowest(shelf, c, l)
           next == Lowest(shelf, d, l)
           H == HeldOf(shelf, c, l)
<1>1. /\ \A t \in OfLabel(l) : t \in Records /\ t.label = l /\ t.catalog \in Nat
      /\ \A e : \A t \in HeldOf(shelf, e, l) : t \in OfLabel(l) /\ e \in Holder(shelf, t)
      /\ \A e : \A t \in OfLabel(l) : e \in Holder(shelf, t) => t \in HeldOf(shelf, e, l)
  BY SegmentsAssumption DEF OfLabel, HeldOf
<1>2. low \in Nat /\ next \in Nat
  BY LowestHeld
<1>3. PICK p \in H : p.catalog = low
  BY LowestHeld
<1>4. PICK q \in HeldOf(shelf, d, l) : q.catalog = next
  BY LowestHeld
<1>5. c \in Nat /\ d \in Nat
  BY CubesFinite
<1>6. \A t, u \in OfLabel(l) : t.catalog <= u.catalog => AtMost(t, u)
  BY <1>1, KeyOrder DEF Keyed
<1>7. ASSUME NEW t \in H
      PROVE  t.catalog < next
  <2>1. SUFFICES ASSUME q.catalog <= t.catalog
                 PROVE  FALSE
    BY <1>1, <1>2, <1>4
  <2>2. AtMost(q, t) /\ q \in Records /\ t \in Records
        /\ d \in Holder(shelf, q) /\ c \in Holder(shelf, t)
    BY <1>1, <1>4, <1>6, <2>1
  <2>3. d <= c
    BY <2>2, CubesFollow
  <2>4. QED
    BY <1>5, <2>3
<1>8. Earlier(l, next) \subseteq Earlier(l, low) \union H
  <2>1. SUFFICES ASSUME NEW t \in OfLabel(l), t.catalog < next, ~(t.catalog < low)
                 PROVE  t \in H
    BY DEF Earlier
  <2>2. AtMost(p, t) /\ AtMost(t, q)
    BY <1>1, <1>2, <1>3, <1>4, <1>6, <2>1
  <2>3. p \in Records /\ q \in Records /\ t \in Records
        /\ c \in Holder(shelf, p) /\ d \in Holder(shelf, q)
    BY <1>1, <1>3, <1>4
  <2>4. PICK e \in CutBearing(shelf) : Holder(shelf, t) = {e}
    BY <2>2, <2>3, HeldAfter
  <2>5. e \in Holder(shelf, t)
    BY <2>4
  <2>6. c <= e /\ e <= d /\ e \in Cubes /\ e \in Nat
    BY <2>2, <2>3, <2>5, CubesFollow
  <2>7. t \in HeldOf(shelf, e, l)
    BY <1>1, <2>5
  <2>8. e # d
    <3>1. SUFFICES ASSUME e = d
                   PROVE  FALSE
      OBVIOUS
    <3>2. next <= t.catalog
      BY <2>7, <3>1, LowestHeld
    <3>3. QED
      BY <1>1, <1>2, <2>1, <3>2
  <2>9. e = c
    BY <1>5, <2>6, <2>7, <2>8
  <2>10. QED
    BY <2>7, <2>9
<1>9. Earlier(l, low) \union H \subseteq Earlier(l, next)
  <2>1. low < next
    BY <1>3, <1>7
  <2>2. QED
    BY <1>1, <1>2, <1>7, <2>1 DEF Earlier
<1>10. Earlier(l, next) = Earlier(l, low) \union H
  BY <1>8, <1>9
<1>11. Earlier(l, low) \in SUBSET OfLabel(l) /\ H \in SUBSET OfLabel(l)
       /\ Earlier(l, low) \cap H = {}
  BY EarlierApart
<1> DEFINE E == Earlier(l, low)
<1> HIDE DEF E, H
<1>12. Cardinality(E \union H) = Cardinality(E) + Cardinality(H)
  BY <1>11, CardinalityOfBoth DEF E
<1>13. QED
  BY <1>10, <1>12 DEF E, H

LEMMA BandLeadsOnOn ==
    ASSUME cache \in Shelves, NEW ws, bins = Derive(cache, ws)
    PROVE  BandLeadsOn
<1>1. SUFFICES ASSUME InOrder(cache), NEW r \in Records, Located(bins, r) # NoBoundary,
                      NEW d \in Located(bins, r).next
               PROVE  /\ d \in Located(bins, r).span
                      /\ \E s \in RecordsIn(bins, d) :
                            /\ s.label = r.label
                            /\ Rank[s] = bins[Located(bins, r).cube][r.label].last + 1
  BY DEF BandLeadsOn
<1> DEFINE l == r.label
           span == LabelSpan(bins, l)
<1>2. PICK c : c \in Holder(cache, r)
  BY <1>1, LocatedIn
<1>3. /\ Located(bins, r).cube = c /\ Located(bins, r).span = span
      /\ Located(bins, r).next = LeadsTo(bins, c, r)
  BY <1>2, LocatedIn
<1> DEFINE later == {e \in span : e > c}
<1>4. later # {} /\ d = Min(later)
  <2>1. LeadsTo(bins, c, r) = {Min(later)} \/ LeadsTo(bins, c, r) = {}
    BY DEF LeadsTo
  <2>2. later = {} => LeadsTo(bins, c, r) = {}
    BY DEF LeadsTo
  <2>3. QED
    BY <1>1, <1>3, <2>1, <2>2
<1>5. later \subseteq Int /\ IsFiniteSet(later) /\ later \subseteq Cubes
  <2>1. later \subseteq Cubes
    BY DEF LabelSpan
  <2> HIDE DEF later
  <2>2. IsFiniteSet(later)
    BY <2>1, CubesFinite, FS_Subset
  <2>3. Cubes \subseteq Int
    BY CubesFinite
  <2>4. QED
    BY <2>1, <2>2, <2>3
<1>6. d \in later /\ \A e \in later : d <= e
  <2> HIDE DEF later
  <2>1. QED
    BY <1>4, <1>5, MinIsLeast
<1>7. c \in Cubes /\ d \in Cubes /\ c < d
  <2>1. c \in CutBearing(cache)
    BY <1>2, HeldBy
  <2>2. QED
    BY <1>5, <1>6, <2>1, CutsKeyed
<1>8. \A e \in Cubes : e \in span <=> HeldOf(cache, e, l) # {}
  <2>1. \A e \in Cubes : DOMAIN bins[e] = LabelsIn(cache, e)
    BY LabelsDerived
  <2>2. QED
    BY <2>1, LabelHeld DEF LabelSpan
<1>9. /\ HeldOf(cache, d, l) # {} /\ HeldOf(cache, c, l) # {}
      /\ \A e \in Cubes : HeldOf(cache, e, l) # {} /\ e > c => d <= e
  <2>1. HeldOf(cache, c, l) # {}
    BY <1>2 DEF HeldOf
  <2>2. QED
    BY <1>6, <1>7, <1>8, <2>1
<1>10. PICK s \in HeldOf(cache, d, l) :
         Rank[s] = Cardinality(Earlier(l, Lowest(cache, d, l)))
  BY <1>9, FirstRank
<1>11. Cardinality(Earlier(l, Lowest(cache, d, l))) =
         Cardinality(Earlier(l, Lowest(cache, c, l))) + Cardinality(HeldOf(cache, c, l))
  BY <1>1, <1>7, <1>9, NextSegment
<1>12. bins[c][l].last =
         Cardinality(Earlier(l, Lowest(cache, c, l))) + Cardinality(HeldOf(cache, c, l)) - 1
  <2>1. l \in LabelsIn(cache, c)
    BY <1>9, LabelHeld
  <2>2. QED
    BY <1>7, <2>1, SegmentIs
<1>13. Rank[s] = bins[c][l].last + 1
  <2>1. /\ Cardinality(Earlier(l, Lowest(cache, c, l))) \in Nat
        /\ Cardinality(HeldOf(cache, c, l)) \in Nat
    BY HeldCounts
  <2> HIDE DEF l
  <2>2. QED
    BY <1>10, <1>11, <1>12, <2>1
<1>14. s \in Records /\ s.label = l /\ d \in Holder(cache, s)
  BY DEF HeldOf
<1>15. s \in RecordsIn(bins, d)
  BY <1>7, <1>14, FoundIsHolder
<1>16. QED
  BY <1>3, <1>6, <1>13, <1>14, <1>15

-----------------------------------------------------------------------------
(* Behaviours.                                                             *)

\* The widths of a cube's labels once a body is written over them.
Merged(set, body) == [l \in Labels |-> IF l \in DOMAIN body THEN body[l] ELSE set[l]]

\* What the check asks of the widths of the labels in a cube.
Fits(set, labels) ==
    LET asked == SumFunctionOnSet(set, labels)
    IN asked <= Whole /\ (asked \in {0, Whole} \/ \E l \in labels : set[l] = 0)

\* A width request, and what its check has accepted.
Requests ==
    [step : {"checked", "committed"}, request : Bodies,
     accepted : UNION {[labels -> Nat] : labels \in SUBSET Labels}]

\* What a check accepts fits a cube of the labels it was made for, and the
\* widths in the body are part of it.
CheckFits(r) ==
    /\ IsFiniteSet(DOMAIN r.accepted)
    /\ Fits(r.accepted, DOMAIN r.accepted)
    /\ DOMAIN r.request.body \subseteq DOMAIN r.accepted

LocateInv ==
    /\ IInv
    /\ WidthsTyped(widths) /\ WidthsTyped(served)
    /\ bins = Derive(cache, served)
    /\ resize \in [Sizers -> {NoResize} \union Requests]
    /\ \A z \in Sizers : resize[z].step # "none" => CheckFits(resize[z])

LEMMA ServedInitially == LocateInit => LocateInv
<1> SUFFICES ASSUME LocateInit
             PROVE  LocateInv
  OBVIOUS
<1>1. IInv
  BY Initially DEF LocateInit
<1>2. widths \in [Cubes -> [Labels -> 0..Whole]]
  BY LocateAssumption DEF LocateInit
<1>3. WidthsTyped(widths) /\ WidthsTyped(served)
  BY <1>2, SegmentsAssumption DEF LocateInit, WidthsTyped
<1>4. bins = Derive(cache, served)
  BY DEF LocateInit, Init
<1>5. /\ resize \in [Sizers -> {NoResize} \union Requests]
      /\ \A z \in Sizers : resize[z].step = "none"
  BY DEF LocateInit, NoResize
<1>6. QED
  BY <1>1, <1>3, <1>4, <1>5 DEF LocateInv

\* The widths of a file, written over those that are stored.
LEMMA FileWidthsType ==
    ASSUME WidthsTyped(widths), NEW a, StoreFileWidths(a)
    PROVE  WidthsTyped(widths')
<1>1. CASE UNCHANGED widths
  BY <1>1 DEF WidthsTyped
<1>2. ASSUME NEW given \in FileWidths,
             widths' = [c \in Cubes |-> [l \in Labels |->
                           IF cuts'[c] = NoCut THEN 0
                           ELSE IF given[c][l] > 0 THEN given[c][l]
                           ELSE widths[c][l]]]
      PROVE  WidthsTyped(widths')
  <2>1. given \in [Cubes -> [Labels -> Nat]]
    <3>1. given \in [Cubes -> [Labels -> 0..Whole]]
      BY <1>2, LocateAssumption
    <3>2. 0..Whole \subseteq Nat
      BY SegmentsAssumption
    <3>3. QED
      BY <3>1, <3>2
  <2>2. ASSUME NEW c \in Cubes, NEW l \in Labels
        PROVE  given[c][l] \in Nat /\ widths[c][l] \in Nat
    BY <2>1 DEF WidthsTyped
  <2>3. QED
    BY <1>2, <2>2 DEF WidthsTyped
<1>3. QED
  BY <1>1, <1>2 DEF StoreFileWidths

\* An edit serves nothing; its rebuild serves what is committed.
LEMMA EditShelfStep ==
    ASSUME LocateInv, EditShelf
    PROVE  LocateInv'
<1>1. PICK a \in Admins :
        \/ /\ Transact(a)
           /\ StoreFileWidths(a)
           /\ UNCHANGED <<served, bins, resize>>
        \/ /\ Rebuild(a)
           /\ served' = widths
           /\ bins' = Derive(cuts, widths)
           /\ UNCHANGED <<widths, resize>>
  BY DEF EditShelf
<1>2. IInv'
  <2>1. Next
    BY <1>1 DEF Next
  <2>2. QED
    BY <2>1, InvariantStep DEF LocateInv
<1>3. resize' = resize
  BY <1>1
<1>4. CASE /\ Transact(a)
           /\ StoreFileWidths(a)
           /\ UNCHANGED <<served, bins, resize>>
  <2>1. cache' = cache
    BY <1>4, ZenonT(30) DEF Transact, Replay, Plan, PlanEdit, PlanInsert, PlanImport, PlanRevert,
       Validated, Begin, FetchCurrent, Restorable, Skip, Write, Commit, Abort,
       DeadlockVictim, RebuildFails
  <2>2. WidthsTyped(widths') /\ WidthsTyped(served')
    BY <1>4, FileWidthsType DEF LocateInv
  <2>3. bins' = Derive(cache', served')
    BY <1>4, <2>1 DEF LocateInv
  <2>4. QED
    BY <1>2, <1>3, <2>2, <2>3, ZenonT(30) DEF LocateInv, WidthsTyped, CheckFits
<1>5. CASE /\ Rebuild(a)
           /\ served' = widths
           /\ bins' = Derive(cuts, widths)
           /\ UNCHANGED <<widths, resize>>
  <2>1. cache' = cuts
    BY <1>5 DEF Rebuild
  <2>2. /\ bins' = Derive(cache', served')
        /\ WidthsTyped(widths') /\ WidthsTyped(served')
    BY <1>5, <2>1 DEF LocateInv
  <2>3. QED
    BY <1>2, <1>3, <2>2, ZenonT(30) DEF LocateInv, WidthsTyped, CheckFits
<1>6. QED
  BY <1>1, <1>4, <1>5

\* The invariant of BoundaryEditing, where its variables are left alone.
LEMMA ShelfLeftAlone ==
    ASSUME IInv, UNCHANGED vars
    PROVE  IInv'
BY InvariantStep

\* One request moves: it is done with, or what its check accepted fits.
LEMMA RequestMoves ==
    ASSUME LocateInv, NEW z \in Sizers, NEW r \in {NoResize} \union Requests,
           r = NoResize \/ CheckFits(r),
           resize' = [resize EXCEPT ![z] = r]
    PROVE  /\ resize' \in [Sizers -> {NoResize} \union Requests]
           /\ \A y \in Sizers : resize'[y].step # "none" => CheckFits(resize'[y])
<1>1. resize' \in [Sizers -> {NoResize} \union Requests]
  BY DEF LocateInv
<1>2. ASSUME NEW y \in Sizers, resize'[y].step # "none"
      PROVE  CheckFits(resize'[y])
  <2>1. CASE y = z
    BY <1>2, <2>1 DEF LocateInv, NoResize
  <2>2. CASE y # z
    BY <1>2, <2>2 DEF LocateInv
  <2>3. QED
    BY <2>1, <2>2
<1>3. QED
  BY <1>1, <1>2

LEMMA CheckWidthsStep ==
    ASSUME LocateInv, NEW z \in Sizers, NEW request \in Bodies,
           CheckWidths(z, request)
    PROVE  LocateInv'
<1> DEFINE c == request.cube
           body == request.body
           labels == DOMAIN bins[c]
           after == Resulting(bins[c], served[c], body)
           r == [step |-> "checked", request |-> request, accepted |-> after]
<1>1. /\ UNCHANGED <<vars, widths, served, bins>>
      /\ resize' = [resize EXCEPT ![z] = r]
      /\ c \in Cubes /\ \A l \in DOMAIN body : body[l] \in Nat
  <2>1. c \in Cubes /\ \A l \in DOMAIN body : body[l] \in 0..Whole
    BY LocateAssumption
  <2>2. QED
    BY <2>1, SegmentsAssumption DEF CheckWidths
<1>2. IInv'
  BY <1>1, ShelfLeftAlone DEF LocateInv
<1>3. labels = LabelsIn(cache, c) /\ IsFiniteSet(labels) /\ labels \subseteq Labels
  <2>1. cache \in Shelves
    BY DEF LocateInv, IInv, TypeOK
  <2>2. QED
    BY <1>1, <2>1, CubeCounts, LabelsDerived DEF LocateInv
<1>4. /\ DOMAIN body \subseteq labels
      /\ SumFunction(after) <= Whole
      /\ SumFunction(after) \in {0, Whole} \/ \E l \in labels : after[l] = 0
  BY Zenon DEF CheckWidths, WidthsAccepted
<1>5. after \in [labels -> Nat] /\ DOMAIN after = labels
  <2>1. \A l \in labels : served[c][l] \in Nat
    BY <1>1, <1>3 DEF LocateInv, WidthsTyped
  <2>2. QED
    BY <1>1, <2>1 DEF Resulting
<1> HIDE DEF labels, after
<1>6. SumFunction(after) = SumFunctionOnSet(after, labels)
  BY <1>5 DEF SumFunction
<1>7. r \in Requests
  BY <1>3, <1>5 DEF Requests
<1>8. CheckFits(r)
  BY <1>3, <1>4, <1>5, <1>6 DEF CheckFits, Fits
<1>9. /\ resize' \in [Sizers -> {NoResize} \union Requests]
      /\ \A y \in Sizers : resize'[y].step # "none" => CheckFits(resize'[y])
  <2> HIDE DEF r
  <2>1. QED
    BY <1>1, <1>7, <1>8, RequestMoves
<1>10. cache' = cache /\ widths' = widths /\ served' = served /\ bins' = bins
  BY <1>1 DEF vars
<1>11. QED
  BY <1>1, <1>2, <1>9, <1>10 DEF LocateInv, WidthsTyped

LEMMA CommitWidthsStep ==
    ASSUME LocateInv, NEW z \in Sizers, CommitWidths(z)
    PROVE  LocateInv'
<1> DEFINE request == resize[z].request
           c == request.cube
           body == request.body
           r == [resize[z] EXCEPT !.step = "committed"]
<1>1. /\ UNCHANGED <<vars, served, bins>>
      /\ resize[z].step = "checked"
      /\ resize' = [resize EXCEPT ![z] = r]
      /\ widths' = [widths EXCEPT ![c] = Merged(widths[c], body)]
  BY DEF CommitWidths, Merged, LocateInv
<1>2. IInv'
  BY <1>1, ShelfLeftAlone DEF LocateInv
<1>3. resize[z] \in Requests /\ CheckFits(resize[z])
  BY <1>1 DEF LocateInv, NoResize
<1>4. request \in Bodies
  BY <1>3 DEF Requests
<1>5. /\ c \in Cubes /\ DOMAIN body \subseteq Labels
      /\ \A l \in DOMAIN body : body[l] \in 0..Whole
  BY <1>4, LocateAssumption
<1>6. widths \in [Cubes -> [Labels -> Nat]]
  BY DEF LocateInv, WidthsTyped
<1>7. Merged(widths[c], body) \in [Labels -> Nat]
  <2>1. \A l \in Labels : widths[c][l] \in Nat
    BY <1>5, <1>6
  <2>2. \A l \in DOMAIN body : body[l] \in Nat
    BY <1>5, SegmentsAssumption
  <2>3. QED
    BY <2>1, <2>2 DEF Merged
<1>8. widths' \in [Cubes -> [Labels -> Nat]]
  BY <1>1, <1>5, <1>6, <1>7
<1>9. r \in Requests /\ r.request = resize[z].request /\ r.accepted = resize[z].accepted
  BY <1>3 DEF Requests
<1>10. CheckFits(r)
  BY <1>3, <1>9 DEF CheckFits
<1>11. /\ resize' \in [Sizers -> {NoResize} \union Requests]
       /\ \A y \in Sizers : resize'[y].step # "none" => CheckFits(resize'[y])
  <2> HIDE DEF r
  <2>1. QED
    BY <1>1, <1>9, <1>10, RequestMoves
<1>12. cache' = cache /\ served' = served /\ bins' = bins
  BY <1>1 DEF vars
<1>13. QED
  BY <1>2, <1>8, <1>11, <1>12 DEF LocateInv, WidthsTyped

\* To the shelf this is a rebuild that answers no edit.
LEMMA CacheServed ==
    ASSUME IInv, cache' = cuts,
           UNCHANGED <<cuts, history, ids, committed, keys, told, clock, pc, work>>
    PROVE  IInv'
<1>1. cuts \in Shelves
  BY DEF IInv, TypeOK
<1>2. cache' \in Shelves
  BY <1>1
<1>3. TypeOK'
  BY <1>2 DEF IInv, TypeOK
<1>4. Begun'
  BY Zenon DEF IInv, Begun, Open
<1>5. Logged'
  BY Zenon DEF IInv, Logged, Open
<1>6. Alone'
  BY ZenonT(30) DEF IInv, Alone, Open, Own
<1>7. Latest'
  BY ZenonT(30) DEF IInv, Latest, IsLatest
<1>8. QED
  BY <1>3, <1>4, <1>5, <1>6, <1>7 DEF IInv

LEMMA ServeWidthsStep ==
    ASSUME LocateInv, NEW z \in Sizers, ServeWidths(z)
    PROVE  LocateInv'
<1>1. /\ cache' = cuts /\ served' = widths /\ bins' = Derive(cuts, widths)
      /\ widths' = widths
      /\ resize' = [resize EXCEPT ![z] = NoResize]
  BY DEF ServeWidths
<1>2. IInv'
  BY CacheServed DEF LocateInv, ServeWidths
<1>3. /\ resize' \in [Sizers -> {NoResize} \union Requests]
      /\ \A y \in Sizers : resize'[y].step # "none" => CheckFits(resize'[y])
  BY <1>1, RequestMoves
<1>4. QED
  BY <1>1, <1>2, <1>3 DEF LocateInv, WidthsTyped

LEMMA ResizeFailsStep ==
    ASSUME LocateInv, NEW z \in Sizers, ResizeFails(z)
    PROVE  LocateInv'
<1>1. /\ UNCHANGED <<vars, widths, served, bins>>
      /\ resize' = [resize EXCEPT ![z] = NoResize]
  BY DEF ResizeFails
<1>2. IInv'
  BY <1>1, ShelfLeftAlone DEF LocateInv
<1>3. /\ resize' \in [Sizers -> {NoResize} \union Requests]
      /\ \A y \in Sizers : resize'[y].step # "none" => CheckFits(resize'[y])
  BY <1>1, RequestMoves
<1>4. cache' = cache
  BY <1>1 DEF vars
<1>5. QED
  BY <1>1, <1>2, <1>3, <1>4 DEF LocateInv, WidthsTyped

LEMMA LocateStep == LocateInv /\ [LocateNext]_lVars => LocateInv'
<1> SUFFICES ASSUME LocateInv, [LocateNext]_lVars
             PROVE  LocateInv'
  OBVIOUS
<1>1. CASE UNCHANGED lVars
  <2>1. UNCHANGED <<vars, widths, served, bins, resize>> /\ cache' = cache
    BY <1>1 DEF lVars, vars
  <2>2. IInv'
    BY <2>1, ShelfLeftAlone DEF LocateInv
  <2>3. QED
    BY <2>1, <2>2 DEF LocateInv, WidthsTyped, CheckFits
<1>2. QED
  BY <1>1, EditShelfStep, CheckWidthsStep, CommitWidthsStep, ServeWidthsStep, ResizeFailsStep
  DEF LocateNext

\* The inductive invariant of Locate: what is served was derived from the cuts
\* and the widths that the cache holds, and what the check of a width request
\* accepted fits its cube, whatever other requests and imports write meanwhile.
THEOREM LocateInvariantCorrect == LocateSpec => []LocateInv
<1>1. QED
  BY ServedInitially, LocateStep, PTL DEF LocateSpec

LEMMA ServedFromShelf ==
    ASSUME LocateInv
    PROVE  cache \in Shelves /\ WidthsTyped(served) /\ bins = Derive(cache, served)
BY DEF LocateInv, IInv, TypeOK

\* Every record is found in one cube only, no cut stands between the cut of
\* its cube and the record, and only records before every cut are in none.
THEOREM FoundOnceCorrect == LocateSpec => []FoundOnce
<1>1. LocateInv => FoundOnce
  BY ServedFromShelf, FoundOnceOn
<1>2. QED
  BY <1>1, LocateInvariantCorrect, PTL

\* The segments of a cube that holds records take its whole width, less than
\* a unit for each label being lost to rounding down.
THEOREM NearlyFullCorrect == LocateSpec => []NearlyFull
<1>1. LocateInv => NearlyFull
  BY ServedFromShelf, FilledOn
<1>2. QED
  BY <1>1, LocateInvariantCorrect, PTL

\* Where every division of a width comes out, the segments fill the cube.
\* derive computes with floats and allows 1e-6 for their rounding, so that it
\* does not raise, whatever widths were set and whatever labels came and went.
THEOREM SegmentsFillCorrect == LocateSpec => [](EvenWidths => SegmentsFillTheCube)
<1>1. LocateInv => (EvenWidths => SegmentsFillTheCube)
  BY ServedFromShelf, FilledOn
<1>2. QED
  BY <1>1, LocateInvariantCorrect, PTL

\* On a shelf in order no record is shown after one that follows it, and a
\* band that leads on leads to the cube of the label's next record.
THEOREM OrderIsShownCorrect == LocateSpec => []OrderIsShown
<1>1. LocateInv => OrderIsShown
  BY ServedFromShelf, ShownInOrderOn, BandLeadsOnOn DEF OrderIsShown
<1>2. QED
  BY <1>1, LocateInvariantCorrect, PTL

-----------------------------------------------------------------------------
(* Widths that are set are shown.                                          *)

\* Widths that fit, of which none is left out, are not scaled.
LEMMA FittingIsNotScaled ==
    ASSUME NEW count, NEW set, Counts(count, set), Fits(set, DOMAIN count),
           NEW l \in DOMAIN count, set[l] > 0
    PROVE  Width(count, set, l) = set[l]
<1> DEFINE D == DOMAIN count
           asked == Asked(count, set)
<1>1. IsFiniteSet(D) /\ \A k \in D : set[k] \in Nat
  BY DEF Counts
<1>2. /\ asked \in Nat /\ Whole \in Nat /\ Whole > 0 /\ set[l] \in Nat
      /\ l \in Chosen(count, set) /\ set[l] <= asked
  <2>1. l \in Chosen(count, set)
    BY DEF Chosen
  <2>2. asked \in Nat /\ \A k \in Chosen(count, set) : set[k] <= asked
    BY WidthTotals
  <2>3. Whole \in Nat /\ Whole > 0
    BY SegmentsAssumption
  <2>4. QED
    BY <1>1, <2>1, <2>2, <2>3
<1>3. asked = SumFunctionOnSet(set, D)
  <2>1. Chosen(count, set) = {k \in D : set[k] > 0}
    BY DEF Chosen
  <2> HIDE DEF D
  <2>2. SumFunctionOnSet(set, {k \in D : set[k] > 0}) = SumFunctionOnSet(set, D)
    BY <1>1, SumOfPositive
  <2>3. QED
    BY <2>1, <2>2 DEF Asked
<1>4. asked <= Whole /\ (asked \in {0, Whole} \/ \E k \in D : set[k] = 0)
  BY <1>3 DEF Fits
<1> HIDE DEF asked
<1>5. CASE Scaled(count, set)
  <2>1. Others(count, set) = {}
    BY <1>2, <1>4, <1>5 DEF Scaled, asked
  <2>2. \A k \in D : set[k] > 0
    BY <2>1 DEF Others, Chosen
  <2>3. asked = Whole
    <3>1. ~\E k \in D : set[k] = 0
      BY <1>1, <2>2
    <3>2. QED
      BY <1>2, <1>4, <3>1
  <2>4. Width(count, set, l) = (Whole * set[l]) \div asked
    BY <1>5, WidthCases DEF asked
  <2>5. (Whole * set[l]) \div Whole = set[l]
    BY <1>2, QuotientOfMultiple
  <2>6. QED
    BY <2>3, <2>4, <2>5
<1>6. CASE ~Scaled(count, set)
  BY <1>2, <1>6, WidthCases
<1>7. QED
  BY <1>5, <1>6

\* Widths that agree on the labels of a cube sum and fit alike.
LEMMA FitsAlike ==
    ASSUME NEW labels, IsFiniteSet(labels), NEW set, NEW other,
           \A l \in labels : set[l] = other[l],
           Fits(other, labels)
    PROVE  Fits(set, labels)
<1>1. SumFunctionOnSet(set, labels) = SumFunctionOnSet(other, labels)
  BY SumAgrees
<1>2. QED
  BY <1>1 DEF Fits

LEMMA ShownWhenServed ==
    ASSUME LocateInv, NEW z \in Sizers, ServeWidths(z),
           DOMAIN bins'[resize[z].request.cube] = DOMAIN resize[z].accepted,
           \A l \in DOMAIN resize[z].accepted :
              served'[resize[z].request.cube][l] = resize[z].accepted[l],
           NEW l \in DOMAIN resize[z].accepted, resize[z].accepted[l] > 0
    PROVE  bins'[resize[z].request.cube][l].width = resize[z].accepted[l]
<1> DEFINE c == resize[z].request.cube
           labels == DOMAIN resize[z].accepted
           count == CountIn(cuts, c)
<1>1. /\ resize[z].step = "committed" /\ bins' = Derive(cuts, widths)
      /\ served' = widths
      /\ cuts \in Shelves /\ WidthsTyped(widths)
  BY DEF ServeWidths, LocateInv, IInv, TypeOK
<1>2. resize[z] \in Requests /\ CheckFits(resize[z])
  BY <1>1 DEF LocateInv, NoResize
<1>3. c \in Cubes
  BY <1>2, LocateAssumption DEF Requests
<1>4. \A k \in labels : widths[c][k] = resize[z].accepted[k]
  BY <1>1
<1>5. Fits(widths[c], labels)
  <2>1. IsFiniteSet(labels) /\ Fits(resize[z].accepted, labels)
    BY <1>2 DEF CheckFits
  <2> HIDE DEF labels, c
  <2>2. QED
    BY <1>4, <2>1, FitsAlike
<1>6. Counts(count, widths[c]) /\ DOMAIN count = LabelsIn(cuts, c)
  BY <1>1, <1>3, CubeCounts
<1>7. LabelsIn(cuts, c) = labels
  BY <1>1, <1>3, LabelsDerived
<1>8. l \in LabelsIn(cuts, c) /\ l \in DOMAIN count
  BY <1>6, <1>7
<1>9. Derive(cuts, widths)[c][l].width = Width(count, widths[c], l)
  BY <1>1, <1>3, <1>8, SegmentIs
<1>10. Width(count, widths[c], l) = widths[c][l]
  <2>1. widths[c][l] > 0
    BY <1>4
  <2>2. DOMAIN count = labels
    BY <1>6, <1>7
  <2> HIDE DEF count, c, labels
  <2>3. QED
    BY <1>5, <1>6, <1>8, <2>1, <2>2, FittingIsNotScaled
<1>11. QED
  BY <1>1, <1>4, <1>9, <1>10

\* All the widths that a check accepts are shown unscaled when the request is
\* answered, if derive works on the labels and the other widths that the check
\* took for granted, whatever edits, imports and requests came between.
THEOREM SetWidthsCorrect == LocateSpec => SetWidthsAreShown
<1>1. ASSUME LocateInv, NEW z \in Sizers, ServeWidths(z)
      PROVE  LET bin == bins'[resize[z].request.cube]
                 loaded == served'[resize[z].request.cube]
                 accepted == resize[z].accepted
             IN /\ DOMAIN bin = DOMAIN accepted
                /\ \A l \in DOMAIN accepted : loaded[l] = accepted[l]
                => \A l \in DOMAIN accepted :
                      accepted[l] > 0 => bin[l].width = accepted[l]
  BY <1>1, ShownWhenServed
<1>2. LocateInv =>
        [\A z \in Sizers : ServeWidths(z) =>
            LET bin == bins'[resize[z].request.cube]
                loaded == served'[resize[z].request.cube]
                accepted == resize[z].accepted
            IN /\ DOMAIN bin = DOMAIN accepted
               /\ \A l \in DOMAIN accepted : loaded[l] = accepted[l]
               => \A l \in DOMAIN accepted :
                     accepted[l] > 0 => bin[l].width = accepted[l]]_lVars
  BY <1>1
<1>3. QED
  BY <1>2, LocateInvariantCorrect, PTL DEF LocateSpec, SetWidthsAreShown
=============================================================================

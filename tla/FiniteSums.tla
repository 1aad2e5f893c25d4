----------------------------- MODULE FiniteSums -----------------------------
(***************************************************************************)
(* Facts the proofs about the system rest on and the library does not      *)
(* state in a form the provers can use: least and greatest elements of     *)
(* sets of natural numbers, induction with the property given as a set,    *)
(* and the sum of a function over a finite set, however it is folded.      *)
(***************************************************************************)
EXTENDS Integers, FiniteSets, Functions, FiniteSetTheorems, NaturalsInduction,
        WellFoundedInduction, TLAPS

LEMMA LeastNatural ==
  ASSUME NEW S \in SUBSET Nat, S # {}
  PROVE  \E n \in S : \A m \in S : n <= m
<1>1. PICK n \in S : \A m \in S : ~ (<<m, n>> \in OpToRel(<, Nat))
  BY NatLessThanWellFounded, WFMin
<1>2. ASSUME NEW m \in S
      PROVE  n <= m
  <2>1. m \in Nat /\ n \in Nat
    OBVIOUS
  <2>2. ~ (m < n)
    BY <1>1, <2>1 DEF OpToRel
  <2>3. QED
    BY <2>1, <2>2
<1>3. QED
  BY <1>2

\* Of a finite set, the element with the fewest above it has none above it.
LEMMA GreatestNatural ==
  ASSUME NEW S \in SUBSET Nat, S # {}, IsFiniteSet(S)
  PROVE  \E n \in S : \A m \in S : m <= n
<1> DEFINE Above(k) == {m \in S : k < m}
           Sizes == {Cardinality(Above(n)) : n \in S}
<1>1. \A n \in S : IsFiniteSet(Above(n)) /\ Cardinality(Above(n)) \in Nat
  BY FS_Subset, FS_CardinalityType
<1>2. Sizes \in SUBSET Nat /\ Sizes # {}
  BY <1>1
<1> HIDE DEF Sizes
<1>3. PICK c \in Sizes : \A k \in Sizes : c <= k
  BY <1>2, LeastNatural
<1>4. PICK n \in S : c = Cardinality(Above(n))
  BY <1>3 DEF Sizes
<1>5. ASSUME NEW m \in S, ~ (m <= n)
      PROVE  FALSE
  <2>1. m \in Nat /\ n \in Nat
    OBVIOUS
  <2>2. Above(m) \subseteq Above(n) /\ m \in Above(n) /\ m \notin Above(m)
    <3>1. n < m
      BY <1>5, <2>1
    <3>2. \A k \in S : m < k => n < k
      <4>1. \A k \in S : k \in Nat
        OBVIOUS
      <4>2. QED
        BY <2>1, <3>1, <4>1
    <3>3. ~ (m < m)
      BY <2>1
    <3>4. Above(m) \subseteq Above(n)
      BY <3>2
    <3>5. m \in Above(n) /\ m \notin Above(m)
      BY <3>1, <3>3
    <3>6. QED
      BY <3>4, <3>5
  <2> HIDE DEF Above
  <2>3. Cardinality(Above(m)) < Cardinality(Above(n))
    BY <1>1, <2>2, FS_Subset
  <2>4. Cardinality(Above(m)) \in Sizes
    BY DEF Sizes
  <2>5. QED
    BY <1>1, <1>3, <1>4, <2>3, <2>4
<1>6. QED
  BY <1>5

LEMMA NaturalInduction ==
  ASSUME NEW N, 0 \in N, \A n \in Nat : n \in N => n + 1 \in N
  PROVE  Nat \subseteq N
<1> SUFFICES ASSUME Nat \ N # {}
             PROVE  FALSE
  OBVIOUS
<1>1. PICK n \in Nat \ N : \A m \in Nat \ N : n <= m
  BY LeastNatural
<1>2. n - 1 \in Nat /\ (n - 1) + 1 = n
  BY <1>1
<1>3. n - 1 \in N
  BY <1>1, <1>2
<1>4. QED
  BY <1>1, <1>2, <1>3

\* A collection that has a part of S whenever it has what is left of it
\* without one element, has every part of S.
LEMMA SubsetInduction ==
  ASSUME NEW S, IsFiniteSet(S), NEW G,
         \A T \in SUBSET S : (\A x \in T : T \ {x} \in G) => T \in G
  PROVE  S \in G
<1> DEFINE Small(n) == \A T \in SUBSET S : Cardinality(T) = n => T \in G
           N == {n \in Nat : Small(n)}
<1>1. \A T \in SUBSET S : IsFiniteSet(T) /\ Cardinality(T) \in Nat
  BY FS_Subset, FS_CardinalityType
<1>2. 0 \in N
  <2>1. \A T \in SUBSET S : Cardinality(T) = 0 => T = {}
    BY <1>1, FS_EmptySet
  <2>2. QED
    BY <2>1
<1>3. ASSUME NEW n \in Nat, n \in N
      PROVE  n + 1 \in N
  <2> SUFFICES ASSUME NEW T \in SUBSET S, Cardinality(T) = n + 1
               PROVE  T \in G
    OBVIOUS
  <2>1. \A U \in SUBSET S : Cardinality(U) = n => U \in G
    BY <1>3
  <2>2. ASSUME NEW x \in T
        PROVE  T \ {x} \in G
    <3>1. IsFiniteSet(T)
      BY <1>1
    <3>2. Cardinality(T \ {x}) = Cardinality(T) - 1
      BY <3>1, FS_RemoveElement
    <3>3. QED
      BY <2>1, <3>2
  <2>3. QED
    BY <2>2
<1> HIDE DEF N
<1>4. Nat \subseteq N
  BY <1>2, <1>3, NaturalInduction
<1>5. Cardinality(S) \in Nat
  BY <1>1
<1>6. Small(Cardinality(S))
  BY <1>4, <1>5 DEF N
<1>7. QED
  BY <1>6
-----------------------------------------------------------------------------
(***************************************************************************)
(* Sums.                                                                   *)
(***************************************************************************)
Total(f, S) == FoldFunctionOnSet(+, 0, f, S)

AnyOf(S) == CHOOSE x \in S : TRUE

\* The sums of f over the parts of S, as the fold defines them: g is a fixed
\* point of what one more element adds.
AddOne(f, g, S) == [T \in SUBSET S |-> IF T = {} THEN 0 ELSE f[AnyOf(T)] + g[T \ {AnyOf(T)}]]
Sums(f, S) == CHOOSE g : g = AddOne(f, g, S)

LEMMA TotalIsSums ==
  ASSUME NEW f, NEW S
  PROVE  Total(f, S) = Sums(f, S)[S]
  BY DEF Total, FoldFunctionOnSet, MapThenFoldSet, Sums, AddOne, AnyOf

\* There is such a point: apply AddOne once for each element of S.
LEMMA SumsAreFixed ==
  ASSUME NEW f, NEW S, IsFiniteSet(S)
  PROVE  Sums(f, S) = AddOne(f, Sums(f, S), S)
<1> DEFINE Good(n, g) == \A T \in SUBSET S : Cardinality(T) <= n => g[T] = AddOne(f, g, S)[T]
           N == {n \in Nat : \E g : Good(n, g)}
<1>1. \A T \in SUBSET S : IsFiniteSet(T) /\ Cardinality(T) \in Nat /\ Cardinality(T) <= Cardinality(S)
  BY FS_Subset, FS_CardinalityType
<1>2. \A T \in SUBSET S : T # {} =>
        /\ AnyOf(T) \in T /\ T \ {AnyOf(T)} \in SUBSET S
        /\ Cardinality(T \ {AnyOf(T)}) = Cardinality(T) - 1
  <2> SUFFICES ASSUME NEW T \in SUBSET S, T # {}
               PROVE  /\ AnyOf(T) \in T /\ T \ {AnyOf(T)} \in SUBSET S
                      /\ Cardinality(T \ {AnyOf(T)}) = Cardinality(T) - 1
    OBVIOUS
  <2>1. AnyOf(T) \in T
    BY DEF AnyOf
  <2>2. IsFiniteSet(T)
    BY <1>1
  <2>3. Cardinality(T \ {AnyOf(T)}) = Cardinality(T) - 1
    BY <2>1, <2>2, FS_RemoveElement
  <2>4. QED
    BY <2>1, <2>3
<1>3. ASSUME NEW n \in Nat, NEW g, Good(n, g)
      PROVE  Good(n + 1, AddOne(f, g, S))
  <2> DEFINE h == AddOne(f, g, S)
  <2>1. \A T \in SUBSET S : h[T] = IF T = {} THEN 0 ELSE f[AnyOf(T)] + g[T \ {AnyOf(T)}]
    BY DEF AddOne
  <2> HIDE DEF h
  <2>2. \A T \in SUBSET S : AddOne(f, h, S)[T] = IF T = {} THEN 0 ELSE f[AnyOf(T)] + h[T \ {AnyOf(T)}]
    BY DEF AddOne
  <2>3. ASSUME NEW T \in SUBSET S, Cardinality(T) <= n + 1
        PROVE  h[T] = AddOne(f, h, S)[T]
    <3>1. CASE T = {}
      BY <2>1, <2>2, <3>1
    <3>2. CASE T # {}
      <4>1. T \ {AnyOf(T)} \in SUBSET S /\ Cardinality(T \ {AnyOf(T)}) <= n
        BY <1>1, <1>2, <2>3, <3>2
      <4>2. g[T \ {AnyOf(T)}] = h[T \ {AnyOf(T)}]
        BY <1>3, <4>1 DEF h
      <4>3. QED
        BY <2>1, <2>2, <3>2, <4>2
    <3>3. QED
      BY <3>1, <3>2
  <2>4. QED
    BY <2>3 DEF h
<1>4. 0 \in N
  <2> DEFINE g == [T \in SUBSET S |-> 0]
  <2>1. ASSUME NEW T \in SUBSET S, Cardinality(T) <= 0
        PROVE  g[T] = AddOne(f, g, S)[T]
    <3>1. T = {}
      BY <1>1, <2>1, FS_EmptySet
    <3>2. QED
      BY <3>1 DEF AddOne
  <2>2. Good(0, g)
    BY <2>1
  <2>3. QED
    BY <2>2
<1>5. ASSUME NEW n \in Nat, n \in N
      PROVE  n + 1 \in N
  <2>1. PICK g : Good(n, g)
    BY <1>5
  <2>2. Good(n + 1, AddOne(f, g, S))
    BY <1>3, <2>1
  <2>3. QED
    BY <2>2
<1>6. Cardinality(S) \in N
  <2> HIDE DEF N
  <2>1. Cardinality(S) \in Nat
    BY FS_CardinalityType
  <2>2. QED
    BY <1>4, <1>5, <2>1, NaturalInduction
<1>7. PICK g : Good(Cardinality(S), g)
  BY <1>6
<1> DEFINE h == AddOne(f, g, S)
<1>8. \A T \in SUBSET S : g[T] = h[T]
  BY <1>1, <1>7
<1>9. h = AddOne(f, h, S)
  BY <1>2, <1>8 DEF AddOne
<1>10. QED
  BY <1>9 DEF Sums

\* It does not matter in which finite set the parts are taken.
LEMMA SumsAreTotals ==
  ASSUME NEW f, NEW S, IsFiniteSet(S)
  PROVE  \A U : IsFiniteSet(U) /\ S \subseteq U => Sums(f, U)[S] = Total(f, S)
<1> DEFINE Agrees(T) == \A U : IsFiniteSet(U) /\ T \subseteq U => Sums(f, U)[T] = Total(f, T)
           G == {T \in SUBSET S : Agrees(T)}
<1>1. ASSUME NEW T \in SUBSET S, \A x \in T : T \ {x} \in G
      PROVE  T \in G
  <2>1. IsFiniteSet(T)
    BY FS_Subset
  <2>2. \A U : IsFiniteSet(U) /\ T \subseteq U =>
          Sums(f, U)[T] = IF T = {} THEN 0 ELSE f[AnyOf(T)] + Sums(f, U)[T \ {AnyOf(T)}]
    <3> SUFFICES ASSUME NEW U, IsFiniteSet(U), T \subseteq U
                 PROVE  Sums(f, U)[T] = IF T = {} THEN 0 ELSE f[AnyOf(T)] + Sums(f, U)[T \ {AnyOf(T)}]
      OBVIOUS
    <3>1. Sums(f, U) = AddOne(f, Sums(f, U), U)
      BY SumsAreFixed
    <3> DEFINE g == Sums(f, U)
    <3> HIDE DEF g
    <3>2. g = AddOne(f, g, U)
      BY <3>1 DEF g
    <3>3. g[T] = IF T = {} THEN 0 ELSE f[AnyOf(T)] + g[T \ {AnyOf(T)}]
      BY <3>2 DEF AddOne
    <3>4. QED
      BY <3>3 DEF g
  <2>3. CASE T = {}
    BY <2>1, <2>2, <2>3, TotalIsSums
  <2>4. CASE T # {}
    <3>1. AnyOf(T) \in T
      BY <2>4 DEF AnyOf
    <3>2. Agrees(T \ {AnyOf(T)})
      BY <1>1, <3>1
    <3>3. \A U : IsFiniteSet(U) /\ T \subseteq U =>
            Sums(f, U)[T] = f[AnyOf(T)] + Total(f, T \ {AnyOf(T)})
      BY <2>2, <2>4, <3>2
    <3>4. Total(f, T) = f[AnyOf(T)] + Total(f, T \ {AnyOf(T)})
      BY <2>1, <3>3, TotalIsSums
    <3>5. QED
      BY <3>3, <3>4
  <2>5. QED
    BY <2>3, <2>4
<1> HIDE DEF G
<1>2. S \in G
  BY <1>1, SubsetInduction
<1>3. QED
  BY <1>2 DEF G

LEMMA TotalUnfolds ==
  ASSUME NEW f, NEW S, IsFiniteSet(S)
  PROVE  Total(f, S) = IF S = {} THEN 0 ELSE f[AnyOf(S)] + Total(f, S \ {AnyOf(S)})
<1> DEFINE g == Sums(f, S)
<1>1. g = AddOne(f, g, S)
  BY SumsAreFixed
<1>2. g[S] = Total(f, S)
  BY TotalIsSums
<1>3. IsFiniteSet(S \ {AnyOf(S)}) /\ S \ {AnyOf(S)} \subseteq S
  BY FS_Subset
<1>4. g[S \ {AnyOf(S)}] = Total(f, S \ {AnyOf(S)})
  BY <1>3, SumsAreTotals
<1> HIDE DEF g
<1>5. g[S] = IF S = {} THEN 0 ELSE f[AnyOf(S)] + g[S \ {AnyOf(S)}]
  BY <1>1 DEF AddOne
<1>6. QED
  BY <1>2, <1>4, <1>5

LEMMA TotalType ==
  ASSUME NEW f, NEW S, IsFiniteSet(S), \A x \in S : f[x] \in Int
  PROVE  Total(f, S) \in Int
<1> DEFINE G == {T \in SUBSET S : Total(f, T) \in Int}
<1>1. ASSUME NEW T \in SUBSET S, \A x \in T : T \ {x} \in G
      PROVE  T \in G
  <2>1. Total(f, T) = IF T = {} THEN 0 ELSE f[AnyOf(T)] + Total(f, T \ {AnyOf(T)})
    BY FS_Subset, TotalUnfolds
  <2>2. T # {} => AnyOf(T) \in T
    BY DEF AnyOf
  <2>3. T # {} => f[AnyOf(T)] \in Int /\ Total(f, T \ {AnyOf(T)}) \in Int
    BY <1>1, <2>2
  <2>4. QED
    BY <2>1, <2>3
<1> HIDE DEF G
<1>2. S \in G
  BY <1>1, SubsetInduction
<1>3. QED
  BY <1>2 DEF G

\* Any element may be taken out first.
LEMMA TotalRemove ==
  ASSUME NEW f, NEW S, IsFiniteSet(S), \A x \in S : f[x] \in Int, NEW x \in S
  PROVE  Total(f, S) = f[x] + Total(f, S \ {x})
<1> DEFINE Splits(T) == \A y \in T : Total(f, T) = f[y] + Total(f, T \ {y})
           G == {T \in SUBSET S : Splits(T)}
<1>1. ASSUME NEW T \in SUBSET S, \A y \in T : T \ {y} \in G
      PROVE  T \in G
  <2> SUFFICES ASSUME NEW y \in T
               PROVE  Total(f, T) = f[y] + Total(f, T \ {y})
    OBVIOUS
  <2> DEFINE a == AnyOf(T)
  <2>1. a \in T
    BY DEF AnyOf
  <2>2. IsFiniteSet(T)
    BY FS_Subset
  <2>3. Total(f, T) = f[a] + Total(f, T \ {a})
    BY <2>2, TotalUnfolds
  <2> HIDE DEF a
  <2>4. CASE a = y
    BY <2>3, <2>4
  <2>5. CASE a # y
    <3> DEFINE R == T \ {a, y}
    <3>1. (T \ {a}) \ {y} = R /\ (T \ {y}) \ {a} = R /\ R \in SUBSET S
      OBVIOUS
    <3> HIDE DEF R
    <3>2. Splits(T \ {a}) /\ Splits(T \ {y})
      BY <1>1, <2>1
    <3>3. Total(f, T \ {a}) = f[y] + Total(f, R)
      BY <2>5, <3>1, <3>2
    <3>4. Total(f, T \ {y}) = f[a] + Total(f, R)
      BY <2>1, <2>5, <3>1, <3>2
    <3>5. Total(f, R) \in Int
      <4>1. IsFiniteSet(R) /\ \A z \in R : f[z] \in Int
        BY <3>1, FS_Subset
      <4>2. QED
        BY <4>1, TotalType
    <3>6. f[a] \in Int /\ f[y] \in Int
      BY <2>1
    <3>7. QED
      BY <2>3, <3>3, <3>4, <3>5, <3>6
  <2>6. QED
    BY <2>4, <2>5
<1> HIDE DEF G
<1>2. S \in G
  BY <1>1, SubsetInduction
<1>3. QED
  BY <1>2 DEF G
-----------------------------------------------------------------------------
LEMMA TotalOfNone ==
  ASSUME NEW f
  PROVE  Total(f, {}) = 0
  BY FS_EmptySet, TotalUnfolds

LEMMA TotalAdd ==
  ASSUME NEW f, NEW S, IsFiniteSet(S), NEW x, x \notin S, \A y \in S \cup {x} : f[y] \in Int
  PROVE  Total(f, S \cup {x}) = f[x] + Total(f, S)
<1>1. IsFiniteSet(S \cup {x})
  BY FS_AddElement
<1>2. x \in S \cup {x} /\ (S \cup {x}) \ {x} = S
  OBVIOUS
<1>3. QED
  BY <1>1, <1>2, TotalRemove

LEMMA TotalSame ==
  ASSUME NEW f, NEW g, NEW S, IsFiniteSet(S), \A x \in S : f[x] = g[x]
  PROVE  Total(f, S) = Total(g, S)
<1> DEFINE G == {T \in SUBSET S : Total(f, T) = Total(g, T)}
<1>1. ASSUME NEW T \in SUBSET S, \A x \in T : T \ {x} \in G
      PROVE  T \in G
  <2>1. /\ Total(f, T) = IF T = {} THEN 0 ELSE f[AnyOf(T)] + Total(f, T \ {AnyOf(T)})
        /\ Total(g, T) = IF T = {} THEN 0 ELSE g[AnyOf(T)] + Total(g, T \ {AnyOf(T)})
    BY FS_Subset, TotalUnfolds
  <2>2. T # {} => AnyOf(T) \in T
    BY DEF AnyOf
  <2>3. T # {} => f[AnyOf(T)] = g[AnyOf(T)] /\ Total(f, T \ {AnyOf(T)}) = Total(g, T \ {AnyOf(T)})
    BY <1>1, <2>2
  <2>4. QED
    BY <2>1, <2>3
<1> HIDE DEF G
<1>2. S \in G
  BY <1>1, SubsetInduction
<1>3. QED
  BY <1>2 DEF G

LEMMA TotalOfNaturals ==
  ASSUME NEW f, NEW S, IsFiniteSet(S), \A x \in S : f[x] \in Nat
  PROVE  Total(f, S) \in Nat
<1> DEFINE G == {T \in SUBSET S : Total(f, T) \in Nat}
<1>1. ASSUME NEW T \in SUBSET S, \A x \in T : T \ {x} \in G
      PROVE  T \in G
  <2>1. Total(f, T) = IF T = {} THEN 0 ELSE f[AnyOf(T)] + Total(f, T \ {AnyOf(T)})
    BY FS_Subset, TotalUnfolds
  <2>2. T # {} => AnyOf(T) \in T
    BY DEF AnyOf
  <2>3. T # {} => f[AnyOf(T)] \in Nat /\ Total(f, T \ {AnyOf(T)}) \in Nat
    BY <1>1, <2>2
  <2>4. QED
    BY <2>1, <2>3
<1> HIDE DEF G
<1>2. S \in G
  BY <1>1, SubsetInduction
<1>3. QED
  BY <1>2 DEF G

LEMMA TotalOfPart ==
  ASSUME NEW f, NEW S, IsFiniteSet(S), \A x \in S : f[x] \in Nat, NEW T \in SUBSET S
  PROVE  Total(f, T) <= Total(f, S)
<1> DEFINE Above(U) == T \subseteq U => Total(f, T) <= Total(f, U)
           G == {U \in SUBSET S : Above(U)}
<1>1. ASSUME NEW U \in SUBSET S, \A x \in U : U \ {x} \in G
      PROVE  U \in G
  <2> SUFFICES ASSUME T \subseteq U
               PROVE  Total(f, T) <= Total(f, U)
    OBVIOUS
  <2>1. IsFiniteSet(U) /\ IsFiniteSet(T)
    BY FS_Subset
  <2>2. Total(f, T) \in Nat
    BY <2>1, TotalOfNaturals
  <2>3. CASE T = U
    BY <2>2, <2>3
  <2>4. CASE T # U
    <3>1. PICK x \in U : x \notin T
      BY <2>4
    <3>2. Total(f, T) <= Total(f, U \ {x})
      BY <1>1, <3>1
    <3>3. f[x] \in Nat /\ \A y \in U : f[y] \in Int
      OBVIOUS
    <3>4. Total(f, U) = f[x] + Total(f, U \ {x})
      BY <2>1, <3>3, TotalRemove
    <3>5. Total(f, U \ {x}) \in Nat
      <4>1. IsFiniteSet(U \ {x}) /\ \A y \in U \ {x} : f[y] \in Nat
        BY <2>1, FS_Subset
      <4>2. QED
        BY <4>1, TotalOfNaturals
    <3>6. QED
      BY <2>2, <3>2, <3>3, <3>4, <3>5
  <2>5. QED
    BY <2>3, <2>4
<1> HIDE DEF G
<1>2. S \in G
  BY <1>1, SubsetInduction
<1>3. QED
  BY <1>2 DEF G

LEMMA TotalPlus ==
  ASSUME NEW f, NEW g, NEW h, NEW S, IsFiniteSet(S),
         \A x \in S : f[x] \in Int /\ g[x] \in Int /\ h[x] = f[x] + g[x]
  PROVE  Total(h, S) = Total(f, S) + Total(g, S)
<1> DEFINE G == {T \in SUBSET S : Total(h, T) = Total(f, T) + Total(g, T)}
<1>1. ASSUME NEW T \in SUBSET S, \A x \in T : T \ {x} \in G
      PROVE  T \in G
  <2> DEFINE a == AnyOf(T)
             R == T \ {a}
  <2>1. /\ Total(f, T) = IF T = {} THEN 0 ELSE f[a] + Total(f, R)
        /\ Total(g, T) = IF T = {} THEN 0 ELSE g[a] + Total(g, R)
        /\ Total(h, T) = IF T = {} THEN 0 ELSE h[a] + Total(h, R)
    BY FS_Subset, TotalUnfolds
  <2>2. T # {} => a \in T
    BY DEF AnyOf
  <2>3. IsFiniteSet(R) /\ R \in SUBSET S
    BY FS_Subset
  <2>4. T # {} => f[a] \in Int /\ g[a] \in Int /\ h[a] = f[a] + g[a]
    BY <2>2
  <2>5. T # {} => Total(h, R) = Total(f, R) + Total(g, R)
    BY <1>1, <2>2
  <2>6. Total(f, R) \in Int /\ Total(g, R) \in Int
    BY <2>3, TotalType
  <2> HIDE DEF a, R
  <2>7. Total(h, T) = Total(f, T) + Total(g, T)
    BY <2>1, <2>4, <2>5, <2>6
  <2>8. QED
    BY <2>7
<1> HIDE DEF G
<1>2. S \in G
  BY <1>1, SubsetInduction
<1>3. QED
  BY <1>2 DEF G

\* What is nothing outside of T need not be counted outside of T.
LEMMA TotalWhereNotZero ==
  ASSUME NEW f, NEW S, IsFiniteSet(S), NEW T \in SUBSET S,
         \A x \in S : f[x] \in Int, \A x \in S \ T : f[x] = 0
  PROVE  Total(f, S) = Total(f, T)
<1> DEFINE Same(U) == T \subseteq U => Total(f, U) = Total(f, T)
           G == {U \in SUBSET S : Same(U)}
<1>1. ASSUME NEW U \in SUBSET S, \A x \in U : U \ {x} \in G
      PROVE  U \in G
  <2> SUFFICES ASSUME T \subseteq U, T # U
               PROVE  Total(f, U) = Total(f, T)
    OBVIOUS
  <2>1. IsFiniteSet(U) /\ IsFiniteSet(T)
    BY FS_Subset
  <2>2. PICK x \in U : x \notin T
    OBVIOUS
  <2>3. Total(f, U \ {x}) = Total(f, T)
    BY <1>1, <2>2
  <2>4. Total(f, U) = f[x] + Total(f, U \ {x})
    <3>1. \A y \in U : f[y] \in Int
      OBVIOUS
    <3>2. QED
      BY <2>1, <3>1, TotalRemove
  <2>5. f[x] = 0 /\ Total(f, T) \in Int
    <3>1. \A y \in T : f[y] \in Int
      OBVIOUS
    <3>2. QED
      BY <2>1, <2>2, <3>1, TotalType
  <2>6. QED
    BY <2>3, <2>4, <2>5
<1> HIDE DEF G
<1>2. S \in G
  BY <1>1, SubsetInduction
<1>3. QED
  BY <1>2 DEF G
=============================================================================

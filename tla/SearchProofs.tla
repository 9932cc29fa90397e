---------------------------- MODULE SearchProofs ----------------------------
(***************************************************************************)
(* Theorems about the search tools, for any number of threads, notes,      *)
(* links and calls: the embedding cache keeps what was used last, the      *)
(* searcher's table handle is stale only when an opening raced an          *)
(* invalidation, and the metadata cache, which nothing invalidates, never  *)
(* gives an old answer; find_link_clusters finds the connected components  *)
(* of every graph and find_bridge_notes its articulation points; the link  *)
(* tools agree about every vault; and the ranking of a search, the folder  *)
(* tree, the tag filters and the list of recent notes are what their       *)
(* declarative definitions say.                                            *)
(*                                                                         *)
(* Loops and recursive functions are reasoned about with well-founded      *)
(* induction over sets of exceptions: the least number at which a claim    *)
(* fails does not exist.                                                   *)
(***************************************************************************)
EXTENDS ServerCaches, GraphTools, LinkIndex, SearchRanking, VaultQueries,
        TLAPS, FiniteSetTheorems, SequenceTheorems, FunctionTheorems,
        WellFoundedInduction

(***************************************************************************)
(* Induction, with a set for the induction hypothesis                      *)
(***************************************************************************)

\* A non-empty set of natural numbers has a least element.
LEMMA LeastNumber ==
    ASSUME NEW T \in SUBSET Nat, T # {}
    PROVE  \E m \in T : \A n \in T : m <= n
<1>1. PICK m \in T : \A n \in T : ~(<<n, m>> \in OpToRel(<, Nat))
  BY NatLessThanWellFounded, WFMin, Zenon
<1>2. \A n \in T : ~(n < m)
  <2>1. \A n \in Nat : n < m => <<n, m>> \in OpToRel(<, Nat)
    BY DEF OpToRel
  <2>. QED
    BY <1>1, <2>1
<1>. QED
  BY <1>2

LEMMA LeastIsLeast ==
    ASSUME NEW S \in SUBSET Nat, S # {}
    PROVE  Min(S) \in S /\ \A y \in S : Min(S) <= y
<1>1. \E x \in S : \A y \in S : x <= y
  BY LeastNumber
<1>. QED
  BY <1>1 DEF Min

\* A non-empty set of numbers up to n has a greatest element.
LEMMA GreatestNumber ==
    ASSUME NEW n \in Nat, NEW T \in SUBSET (0..n), T # {}
    PROVE  \E m \in T : \A k \in T : k <= m
<1>1. PICK U : U = {i \in Nat : n - i \in T}
  OBVIOUS
<1>2. U # {}
  <2>1. PICK k \in T : TRUE
    OBVIOUS
  <2>2. n - k \in Nat /\ n - (n - k) = k
    OBVIOUS
  <2>. QED
    BY <1>1, <2>2
<1>3. PICK i \in U : \A j \in U : i <= j
  BY <1>1, <1>2, LeastNumber
<1>4. ASSUME NEW k \in T PROVE k <= n - i
  <2>1. n - k \in Nat /\ n - (n - k) = k
    OBVIOUS
  <2>2. i <= n - k
    BY <1>1, <1>3, <2>1
  <2>. QED
    BY <1>1, <2>2
<1>. QED
  BY <1>1, <1>3, <1>4

LEMMA NumberInduction ==
    ASSUME NEW P, 0 \in P, \A n \in Nat : n \in P => n + 1 \in P
    PROVE  Nat \subseteq P
<1> SUFFICES ASSUME ~(Nat \subseteq P) PROVE FALSE
  OBVIOUS
<1> DEFINE T == Nat \ P
<1>1. PICK m \in T : \A n \in T : m <= n
  <2>1. T \in SUBSET Nat /\ T # {}
    OBVIOUS
  <2>. QED
    BY <2>1, LeastNumber
<1>2. m # 0 /\ m - 1 \in Nat
  BY <1>1
<1>3. m - 1 \in P
  BY <1>1, <1>2
<1>. QED
  BY <1>1, <1>2, <1>3

LEMMA IntervalInduction ==
    ASSUME NEW N \in Nat, NEW P, 0 \in P,
           \A n \in 0..N : n \in P /\ n < N => n + 1 \in P
    PROVE  \A n \in 0..N : n \in P
<1> DEFINE Q == {n \in Nat : n <= N => n \in P}
<1>1. 0 \in Q /\ \A n \in Nat : n \in Q => n + 1 \in Q
  OBVIOUS
<1>2. Nat \subseteq Q
  <2>. HIDE DEF Q
  <2>. QED
    BY <1>1, NumberInduction
<1>. QED
  BY <1>2

\* What holds of the empty set and of a set with one element more holds of
\* every finite set.
LEMMA SubsetInduction ==
    ASSUME NEW S, IsFiniteSet(S), NEW P, {} \in P,
           \A T \in SUBSET S, x \in S : T \in P => T \cup {x} \in P
    PROVE  \A T \in SUBSET S : T \in P
<1> DEFINE Q == {n \in Nat : \A T \in SUBSET S : Cardinality(T) = n => T \in P}
<1>1. \A T \in SUBSET S : IsFiniteSet(T) /\ Cardinality(T) \in Nat
  BY FS_Subset, FS_CardinalityType
<1>2. 0 \in Q
  BY <1>1, FS_EmptySet
<1>3. ASSUME NEW n \in Nat, n \in Q PROVE n + 1 \in Q
  <2> SUFFICES ASSUME NEW T \in SUBSET S, Cardinality(T) = n + 1
               PROVE  T \in P
    OBVIOUS
  <2>1. T # {}
    <3>1. Cardinality({}) = 0 /\ n + 1 # 0
      BY FS_EmptySet
    <3>. QED
      BY <3>1
  <2>2. PICK x \in T : TRUE
    BY <2>1
  <2>3. Cardinality(T \ {x}) = n
    <3>1. Cardinality(T \ {x}) = Cardinality(T) - 1
      BY <1>1, <2>2, FS_RemoveElement
    <3>. QED
      BY <3>1
  <2>4. T \ {x} \in P
    BY <1>3, <2>3
  <2>5. (T \ {x}) \cup {x} = T
    BY <2>2
  <2>. QED
    BY <2>4, <2>5
<1>4. Nat \subseteq Q
  <2>. HIDE DEF Q
  <2>. QED
    BY <1>2, <1>3, NumberInduction
<1>. QED
  BY <1>1, <1>4

(***************************************************************************)
(* Sorting                                                                 *)
(***************************************************************************)

\* R is a strict total order on S.
IsStrictOrder(R, S) ==
    /\ \A x \in S : <<x, x>> \notin R
    /\ \A x, y, z \in S : <<x, y>> \in R /\ <<y, z>> \in R => <<x, z>> \in R
    /\ \A x, y \in S : x # y => <<x, y>> \in R \/ <<y, x>> \in R

Before(R, S, x) == {y \in S : <<y, x>> \in R}

\* Every place from the first to the last is taken by one element.
PlacesTaken(R, S) ==
    /\ \A x \in S : Cardinality(Before(R, S, x)) \in 0..(Cardinality(S) - 1)
    /\ \A x, y \in S : <<x, y>> \in R =>
          Cardinality(Before(R, S, x)) < Cardinality(Before(R, S, y))
    /\ \A k \in 0..(Cardinality(S) - 1) :
          \E x \in S : Cardinality(Before(R, S, x)) = k

LEMMA PlacesAreTaken ==
    ASSUME NEW S, IsFiniteSet(S), NEW R, IsStrictOrder(R, S)
    PROVE  PlacesTaken(R, S)
<1> DEFINE N == Cardinality(S)
           rank == [x \in S |-> Cardinality(Before(R, S, x))]
<1>1. N \in Nat
  BY FS_CardinalityType
<1>2. ASSUME NEW T \in SUBSET S, NEW U \in SUBSET T, U # T
      PROVE  /\ Cardinality(U) \in Nat /\ Cardinality(T) \in Nat
             /\ Cardinality(U) < Cardinality(T)
  <2>1. IsFiniteSet(T) /\ IsFiniteSet(U)
    BY <1>2, FS_Subset
  <2>2. Cardinality(U) \in Nat /\ Cardinality(T) \in Nat
    BY <2>1, FS_CardinalityType
  <2>3. Cardinality(U) <= Cardinality(T) /\ Cardinality(U) # Cardinality(T)
    BY <1>2, <2>1, FS_Subset
  <2>. QED
    BY <2>2, <2>3
<1>3. ASSUME NEW x \in S
      PROVE  Cardinality(Before(R, S, x)) \in 0..(N - 1)
  <2>1. Before(R, S, x) \in SUBSET S /\ Before(R, S, x) # S
    BY DEF Before, IsStrictOrder
  <2>2. /\ Cardinality(Before(R, S, x)) \in Nat
        /\ Cardinality(Before(R, S, x)) < N
    BY <1>2, <2>1
  <2>. QED
    BY <1>1, <2>2
<1>4. ASSUME NEW x \in S, NEW y \in S, <<x, y>> \in R
      PROVE  Cardinality(Before(R, S, x)) < Cardinality(Before(R, S, y))
  <2>1. /\ Before(R, S, y) \in SUBSET S
        /\ Before(R, S, x) \in SUBSET Before(R, S, y)
        /\ Before(R, S, x) # Before(R, S, y)
    BY <1>4 DEF Before, IsStrictOrder
  <2>. QED
    BY <1>2, <2>1
<1>5. rank \in Injection(S, 0..(N - 1))
  <2>1. rank \in [S -> 0..(N - 1)]
    BY <1>3
  <2>2. ASSUME NEW x \in S, NEW y \in S, x # y PROVE rank[x] # rank[y]
    <3>1. rank[x] \in Int /\ rank[y] \in Int
      BY <1>1, <2>1
    <3>2. <<x, y>> \in R \/ <<y, x>> \in R
      BY <2>2 DEF IsStrictOrder
    <3>. QED
      BY <1>4, <3>1, <3>2
  <2>. QED
    BY <2>1, <2>2 DEF Injection, IsInjective
<1>6. IsFiniteSet(0..(N - 1)) /\ Cardinality(0..(N - 1)) = N
  BY <1>1, FS_Interval
<1>7. rank \in Surjection(S, 0..(N - 1))
  <2>. HIDE DEF rank
  <2>. QED
    BY <1>5, <1>6, FS_Injection
<1>8. \A k \in 0..(N - 1) : \E x \in S : rank[x] = k
  BY <1>7 DEF Surjection
<1>. QED
  BY <1>3, <1>4, <1>8 DEF PlacesTaken


\* s has every member of S once, in the order R.
InOrder(s, S, R) ==
    /\ s \in Seq(S) /\ Len(s) = Cardinality(S)
    /\ \A i, j \in 1..Cardinality(S) : i < j => <<s[i], s[j]>> \in R
    /\ \A x \in S : \E i \in 1..Cardinality(S) : s[i] = x

LEMMA SortedIsSorted ==
    ASSUME NEW S, IsFiniteSet(S), NEW R, IsStrictOrder(R, S)
    PROVE  InOrder(Sorted(S, R), S, R)
<1> DEFINE N == Cardinality(S)
           rank(x) == Cardinality(Before(R, S, x))
<1>1. N \in Nat
  BY FS_CardinalityType
<1>2. /\ \A x \in S : rank(x) \in 0..(N - 1)
      /\ \A x, y \in S : <<x, y>> \in R => rank(x) < rank(y)
      /\ \A k \in 0..(N - 1) : \E x \in S : rank(x) = k
  BY PlacesAreTaken DEF PlacesTaken
<1>3. Sorted(S, R) = [i \in 1..N |-> CHOOSE x \in S : rank(x) = i - 1]
  BY DEF Sorted, Before
<1>. HIDE DEF rank
<1>4. ASSUME NEW i \in 1..N
      PROVE  Sorted(S, R)[i] \in S /\ rank(Sorted(S, R)[i]) = i - 1
  <2>1. i - 1 \in 0..(N - 1)
    BY <1>1
  <2>2. \E x \in S : rank(x) = i - 1
    BY <1>2, <2>1
  <2>3. Sorted(S, R)[i] = CHOOSE x \in S : rank(x) = i - 1
    BY <1>3
  <2>. QED
    BY <2>2, <2>3
<1>5. PICK s \in [1..N -> S] :
         s = Sorted(S, R) /\ \A i \in 1..N : rank(s[i]) = i - 1
  BY <1>3, <1>4
<1>6. s \in Seq(S) /\ Len(s) = N
  BY <1>1, <1>5, LenProperties
<1>7. \A x, y \in S : rank(x) = rank(y) => x = y
  <2> SUFFICES ASSUME NEW x \in S, NEW y \in S, rank(x) = rank(y), x # y
               PROVE  FALSE
    OBVIOUS
  <2>1. <<x, y>> \in R \/ <<y, x>> \in R
    BY DEF IsStrictOrder
  <2>2. rank(x) < rank(y) \/ rank(y) < rank(x)
    BY <1>2, <2>1
  <2>3. rank(x) \in Int /\ rank(y) \in Int
    BY <1>2
  <2>. QED
    BY <2>2, <2>3
<1>8. ASSUME NEW x \in S PROVE \E i \in 1..N : s[i] = x
  <2>1. PICK k \in 0..(N - 1) : rank(x) = k
    BY <1>2
  <2>2. k + 1 \in 1..N /\ (k + 1) - 1 = k
    BY <1>1, <2>1
  <2>3. s[k + 1] = x
    BY <1>5, <1>7, <2>1, <2>2
  <2>. QED
    BY <2>2, <2>3
<1>9. ASSUME NEW i \in 1..N, NEW j \in 1..N, i < j PROVE <<s[i], s[j]>> \in R
  <2>1. /\ s[i] \in S /\ s[j] \in S /\ rank(s[i]) = i - 1 /\ rank(s[j]) = j - 1
    BY <1>5
  <2>2. s[i] # s[j]
    BY <1>1, <1>9, <2>1
  <2>3. <<s[i], s[j]>> \in R \/ <<s[j], s[i]>> \in R
    BY <2>1, <2>2 DEF IsStrictOrder
  <2>4. <<s[j], s[i]>> \in R => j - 1 < i - 1
    BY <1>2, <2>1
  <2>. QED
    BY <1>1, <1>9, <2>3, <2>4
<1>. QED
  BY <1>5, <1>6, <1>8, <1>9 DEF InOrder

\* The place of an element is the number of those before it.
LEMMA SortedPlace ==
    ASSUME NEW S, IsFiniteSet(S), NEW R, IsStrictOrder(R, S), NEW x \in S,
           NEW j, j = Cardinality(Before(R, S, x)) + 1
    PROVE  j \in 1..Cardinality(S) /\ Sorted(S, R)[j] = x
<1>1. PICK N \in Nat : N = Cardinality(S)
  BY FS_CardinalityType
<1>2. /\ \A y \in S : Cardinality(Before(R, S, y)) \in 0..(N - 1)
      /\ \A y, z \in S : <<y, z>> \in R =>
            Cardinality(Before(R, S, y)) < Cardinality(Before(R, S, z))
  BY <1>1, PlacesAreTaken DEF PlacesTaken
<1>3. j \in 1..N /\ j - 1 = Cardinality(Before(R, S, x))
  BY <1>2
<1>4. ASSUME NEW y \in S, Cardinality(Before(R, S, y)) = j - 1 PROVE y = x
  <2>1. y # x => <<x, y>> \in R \/ <<y, x>> \in R
    BY DEF IsStrictOrder
  <2>2. Cardinality(Before(R, S, x)) \in Int
    BY <1>2
  <2>. QED
    BY <1>2, <1>3, <1>4, <2>1, <2>2
<1>5. Sorted(S, R)[j] = CHOOSE y \in S : Cardinality(Before(R, S, y)) = j - 1
  BY <1>1, <1>3 DEF Sorted, Before
<1>. QED
  BY <1>1, <1>3, <1>4, <1>5

\* The numbers of S, the least first.
IsAscending(s, S) ==
    /\ s \in Seq(S) /\ Len(s) = Cardinality(S) /\ Cardinality(S) \in Nat
    /\ \A i \in 1..Cardinality(S) : s[i] \in S
    /\ \A i, j \in 1..Cardinality(S) : i < j => s[i] < s[j]
    /\ \A x \in S : \E i \in 1..Cardinality(S) : s[i] = x

LEMMA AscendingIsAscending ==
    ASSUME NEW S \in SUBSET Nat, IsFiniteSet(S)
    PROVE  IsAscending(Ascending(S), S)
<1>1. PICK R : R = {p \in S \X S : p[1] < p[2]}
  OBVIOUS
<1>2. IsStrictOrder(R, S)
  BY <1>1 DEF IsStrictOrder
<1>3. PICK s : s = Sorted(S, R)
  OBVIOUS
<1>4. InOrder(s, S, R)
  BY <1>2, <1>3, SortedIsSorted
<1>5. Cardinality(S) \in Nat
  BY FS_CardinalityType
<1>6. s = Ascending(S)
  BY <1>1, <1>3 DEF Ascending
<1>7. \A i \in 1..Cardinality(S) : s[i] \in S
  BY <1>4, <1>5 DEF InOrder
<1>8. \A i, j \in 1..Cardinality(S) : i < j => s[i] < s[j]
  BY <1>1, <1>4 DEF InOrder
<1>. QED
  BY <1>4, <1>5, <1>6, <1>7, <1>8 DEF InOrder, IsAscending

LEMMA AscendingHasAll ==
    ASSUME NEW S \in SUBSET Nat, IsFiniteSet(S)
    PROVE  Ascending(S) \in Seq(S) /\ ToSet(Ascending(S)) = S
<1>1. PICK s : s = Ascending(S)
  OBVIOUS
<1>2. IsAscending(s, S)
  BY <1>1, AscendingIsAscending
<1>3. s \in Seq(S) /\ DOMAIN s = 1..Cardinality(S)
  BY <1>2 DEF IsAscending
<1>4. ToSet(s) = S
  BY <1>2, <1>3 DEF IsAscending, ToSet
<1>. QED
  BY <1>1, <1>3, <1>4

(***************************************************************************)
(* Filtering                                                               *)
(***************************************************************************)

\* t has the elements of s at the places of I, a being these places in order.
PlacedAt(t, s, I, a) ==
    /\ IsAscending(a, I) /\ Len(t) = Cardinality(I)
    /\ \A k \in 1..Cardinality(I) : t[k] = s[a[k]] /\ a[k] \in 1..Len(s)

LEMMA AtPlaces ==
    ASSUME NEW T, NEW s \in Seq(T), NEW I \in SUBSET (1..Len(s))
    PROVE  At(s, I) \in Seq(T) /\ \E a : PlacedAt(At(s, I), s, I, a)
<1>1. Len(s) \in Nat /\ \A i \in 1..Len(s) : s[i] \in T
  BY LenProperties, ElementOfSeq
<1>2. IsFiniteSet(I) /\ I \in SUBSET Nat
  <2>1. IsFiniteSet(1..Len(s))
    BY <1>1, FS_Interval
  <2>2. 1..Len(s) \subseteq Nat
    BY <1>1
  <2>. QED
    BY <2>1, <2>2, FS_Subset
<1>3. PICK a : a = Ascending(I)
  OBVIOUS
<1>4. IsAscending(a, I)
  BY <1>2, <1>3, AscendingIsAscending
<1>5. PICK n \in Nat : n = Cardinality(I)
  BY <1>4 DEF IsAscending
<1>6. \A k \in 1..n : a[k] \in 1..Len(s)
  BY <1>4, <1>5 DEF IsAscending
<1>7. At(s, I) = [k \in 1..n |-> s[a[k]]]
  BY <1>3, <1>5 DEF At
<1>8. PICK t \in [1..n -> T] : t = At(s, I) /\ \A k \in 1..n : t[k] = s[a[k]]
  BY <1>1, <1>6, <1>7
<1>9. t \in Seq(T) /\ Len(t) = n
  BY <1>8, LenProperties
<1>. QED
  BY <1>4, <1>5, <1>6, <1>8, <1>9 DEF PlacedAt

\* Every element of s is there once.
OnceEach(s) == \A i, j \in 1..Len(s) : s[i] = s[j] => i = j

\* The elements of a sequence at some places, when each is there once.
LEMMA AtKeepsOnce ==
    ASSUME NEW T, NEW s \in Seq(T), OnceEach(s), NEW I \in SUBSET (1..Len(s))
    PROVE  /\ At(s, I) \in Seq(T) /\ OnceEach(At(s, I))
           /\ ToSet(At(s, I)) = {s[i] : i \in I}
<1>1. PICK t : t = At(s, I)
  OBVIOUS
<1>2. t \in Seq(T) /\ \E a : PlacedAt(t, s, I, a)
  BY <1>1, AtPlaces
<1>3. PICK a : PlacedAt(t, s, I, a)
  BY <1>2
<1>4. PICK n \in Nat : n = Cardinality(I)
  BY <1>3 DEF PlacedAt, IsAscending
<1>5. /\ Len(t) = n
      /\ \A k \in 1..n : t[k] = s[a[k]] /\ a[k] \in 1..Len(s) /\ a[k] \in I
      /\ \A j, k \in 1..n : j < k => a[j] < a[k]
      /\ \A i \in I : \E k \in 1..n : a[k] = i
  BY <1>3, <1>4 DEF PlacedAt, IsAscending
<1>6. OnceEach(t)
  <2> SUFFICES ASSUME NEW j \in 1..n, NEW k \in 1..n, t[j] = t[k]
               PROVE  j = k
    BY <1>5 DEF OnceEach
  <2>1. a[j] = a[k]
    BY <1>5 DEF OnceEach
  <2>2. a[j] \in Int /\ a[k] \in Int
    BY <1>5
  <2>. QED
    BY <1>4, <1>5, <2>1, <2>2
<1>7. DOMAIN t = 1..n
  BY <1>2, <1>5
<1>8. ToSet(t) = {t[k] : k \in 1..n}
  BY <1>7 DEF ToSet
<1>9. ToSet(t) = {s[i] : i \in I}
  BY <1>5, <1>8
<1>. QED
  BY <1>1, <1>2, <1>6, <1>9

LEMMA WithoutOne ==
    ASSUME NEW T, NEW s \in Seq(T), OnceEach(s), NEW x
    PROVE  /\ Without(s, x) \in Seq(T) /\ OnceEach(Without(s, x))
           /\ ToSet(Without(s, x)) = ToSet(s) \ {x}
<1>1. DOMAIN s = 1..Len(s)
  BY LenProperties
<1>2. PICK I : I = {i \in 1..Len(s) : s[i] # x}
  OBVIOUS
<1>3. I \in SUBSET (1..Len(s)) /\ Without(s, x) = At(s, I)
  BY <1>2 DEF Without
<1>4. /\ At(s, I) \in Seq(T) /\ OnceEach(At(s, I))
      /\ ToSet(At(s, I)) = {s[i] : i \in I}
  BY <1>3, AtKeepsOnce
<1>5. {s[i] : i \in I} = ToSet(s) \ {x}
  BY <1>1, <1>2 DEF ToSet
<1>. QED
  BY <1>3, <1>4, <1>5

\* What holds of the elements of s in their order holds of a selection.
OrderedBy(s, R) == \A i, j \in 1..Len(s) : i < j => <<s[i], s[j]>> \in R

LEMMA AtKeepsOrder ==
    ASSUME NEW T, NEW s \in Seq(T), NEW R, OrderedBy(s, R),
           NEW I \in SUBSET (1..Len(s))
    PROVE  OrderedBy(At(s, I), R)
<1>1. PICK t : t = At(s, I)
  OBVIOUS
<1>2. PICK a : PlacedAt(t, s, I, a)
  BY <1>1, AtPlaces
<1>3. PICK n \in Nat : n = Cardinality(I)
  BY <1>2 DEF PlacedAt, IsAscending
<1>4. /\ Len(t) = n
      /\ \A k \in 1..n : t[k] = s[a[k]] /\ a[k] \in 1..Len(s)
      /\ \A j, k \in 1..n : j < k => a[j] < a[k]
  BY <1>2, <1>3 DEF PlacedAt, IsAscending
<1>5. OrderedBy(t, R)
  BY <1>4 DEF OrderedBy
<1>. QED
  BY <1>1, <1>5

\* t has the first elements of s, at most limit of them.
IsCut(t, s, limit, m) ==
    /\ m \in 0..Len(s) /\ m = (IF limit < Len(s) THEN limit ELSE Len(s))
    /\ Len(t) = m /\ \A i \in 1..m : t[i] = s[i]

LEMMA TakeCuts ==
    ASSUME NEW T, NEW s \in Seq(T), NEW limit \in Nat
    PROVE  Take(s, limit) \in Seq(T) /\ \E m : IsCut(Take(s, limit), s, limit, m)
<1>1. PICK n \in Nat : n = Len(s)
  BY LenProperties
<1>2. PICK m : m = IF limit < n THEN limit ELSE n
  OBVIOUS
<1>3. m \in 0..n /\ m \in Int
  BY <1>1, <1>2
<1>4. \A i \in 1..m : s[i] \in T
  BY <1>1, <1>3, ElementOfSeq
<1>5. PICK t : t = SubSeq(s, 1, m)
  OBVIOUS
<1>6. /\ t \in Seq(T) /\ Len(t) = (IF 1 <= m THEN m - 1 + 1 ELSE 0)
      /\ \A i \in 1..(m - 1 + 1) : t[i] = s[1 + i - 1]
  BY <1>3, <1>4, <1>5, SubSeqProperties
<1>7. Len(t) = m /\ \A i \in 1..m : t[i] = s[i]
  <2>1. m - 1 + 1 = m
    BY <1>3
  <2>2. \A i \in 1..m : 1 + i - 1 = i
    BY <1>3
  <2>. QED
    BY <1>3, <1>6, <2>1, <2>2
<1>8. t = Take(s, limit)
  BY <1>1, <1>2, <1>5 DEF Take
<1>. QED
  BY <1>1, <1>2, <1>3, <1>6, <1>7, <1>8 DEF IsCut

\* As many elements as places, when each is there once.
LEMMA OnceCounted ==
    ASSUME NEW T, NEW s \in Seq(T), OnceEach(s)
    PROVE  IsFiniteSet(ToSet(s)) /\ Cardinality(ToSet(s)) = Len(s)
<1>1. PICK n \in Nat : n = Len(s)
  BY LenProperties
<1>2. DOMAIN s = 1..n
  BY <1>1, LenProperties
<1>3. PICK S : S = ToSet(s)
  OBVIOUS
<1>4. S = {s[i] : i \in 1..n}
  BY <1>2, <1>3 DEF ToSet
<1>5. PICK g : g = [i \in 1..n |-> s[i]]
  OBVIOUS
<1>6. g \in Bijection(1..n, S)
  <2>1. g \in [1..n -> S]
    BY <1>4, <1>5
  <2>2. \A i, j \in 1..n : g[i] = g[j] => i = j
    BY <1>1, <1>5 DEF OnceEach
  <2>3. \A x \in S : \E i \in 1..n : g[i] = x
    BY <1>4, <1>5
  <2>. QED
    BY <2>1, <2>2, <2>3 DEF Bijection, Injection, IsInjective, Surjection
<1>7. IsFiniteSet(1..n) /\ Cardinality(1..n) = n
  BY FS_Interval
<1>8. ExistsBijection(1..n, S)
  BY <1>6 DEF ExistsBijection
<1>9. IsFiniteSet(S) /\ Cardinality(S) = n
  BY <1>7, <1>8, FS_Bijection
<1>. QED
  BY <1>1, <1>3, <1>9

LEMMA TakeKeepsOnce ==
    ASSUME NEW T, NEW s \in Seq(T), OnceEach(s), NEW limit \in Nat
    PROVE  Take(s, limit) \in Seq(T) /\ OnceEach(Take(s, limit))
<1>1. PICK t : t = Take(s, limit)
  OBVIOUS
<1>2. t \in Seq(T) /\ \E m : IsCut(t, s, limit, m)
  BY <1>1, TakeCuts
<1>3. PICK m : IsCut(t, s, limit, m)
  BY <1>2
<1>4. OnceEach(t)
  <2>1. Len(s) \in Nat
    BY LenProperties
  <2>2. m \in 0..Len(s) /\ Len(t) = m /\ \A i \in 1..m : t[i] = s[i]
    BY <1>3 DEF IsCut
  <2>3. \A i \in 1..m : i \in 1..Len(s)
    BY <2>1, <2>2
  <2>. QED
    BY <2>2, <2>3 DEF OnceEach
<1>. QED
  BY <1>1, <1>2, <1>4

(***************************************************************************)
(* Adding up                                                               *)
(***************************************************************************)

\* The members of T that h sends to x.
Fibre(h, T, x) == {y \in T : h[y] = x}

\* The sizes of the parts add up to the size of the whole.
LEMMA TotalOfParts ==
    ASSUME NEW T, IsFiniteSet(T), NEW S, NEW h \in [T -> S],
           NEW g, DOMAIN g = S,
           \A x \in S : g[x] = Cardinality(Fibre(h, T, x))
    PROVE  Total(g) = Cardinality(T)
<1>1. ASSUME NEW x \in S PROVE ExistsBijection(1..g[x], Fibre(h, T, x))
  <2>1. IsFiniteSet(Fibre(h, T, x))
    BY FS_Subset DEF Fibre
  <2>. QED
    BY <2>1, FS_CardinalityType
<1>2. PICK b : \A x \in S : b[x] \in Bijection(1..g[x], Fibre(h, T, x))
  <2> DEFINE c == [x \in S |-> CHOOSE f : f \in Bijection(1..g[x], Fibre(h, T, x))]
  <2>1. ASSUME NEW x \in S PROVE c[x] \in Bijection(1..g[x], Fibre(h, T, x))
    <3>1. \E f : f \in Bijection(1..g[x], Fibre(h, T, x))
      BY <1>1 DEF ExistsBijection
    <3>2. c[x] = CHOOSE f : f \in Bijection(1..g[x], Fibre(h, T, x))
      OBVIOUS
    <3>. HIDE DEF c
    <3>. QED
      BY <3>1, <3>2
  <2>. QED
    BY <2>1
<1>3. ASSUME NEW x \in S
      PROVE  /\ \A k \in 1..g[x] : b[x][k] \in T /\ h[b[x][k]] = x
             /\ \A j, k \in 1..g[x] : b[x][j] = b[x][k] => j = k
             /\ \A y \in T : h[y] = x => \E k \in 1..g[x] : b[x][k] = y
  <2>1. /\ b[x] \in [1..g[x] -> Fibre(h, T, x)]
        /\ \A j, k \in 1..g[x] : b[x][j] = b[x][k] => j = k
        /\ \A y \in Fibre(h, T, x) : \E k \in 1..g[x] : b[x][k] = y
    <3>1. PICK f, K, F : f = b[x] /\ K = 1..g[x] /\ F = Fibre(h, T, x)
      OBVIOUS
    <3>2. f \in Bijection(K, F)
      BY <1>2, <3>1
    <3>3. /\ f \in [K -> F] /\ \A j, k \in K : f[j] = f[k] => j = k
          /\ \A y \in F : \E k \in K : f[k] = y
      BY <3>2 DEF Bijection, Injection, IsInjective, Surjection
    <3>. QED
      BY <3>1, <3>3
  <2>2. \A k \in 1..g[x] : b[x][k] \in Fibre(h, T, x)
    BY <2>1
  <2>. QED
    BY <2>1, <2>2 DEF Fibre
<1>4. PICK P : P = UNION {{x} \X (1..g[x]) : x \in S}
  OBVIOUS
<1>5. \A p : p \in P <=> \E x \in S : \E k \in 1..g[x] : p = <<x, k>>
  BY <1>4
<1>6. PICK m : m = [p \in P |-> b[p[1]][p[2]]]
  OBVIOUS
<1>7. ASSUME NEW p \in P
      PROVE  /\ p[1] \in S /\ p[2] \in 1..g[p[1]] /\ p = <<p[1], p[2]>>
             /\ m[p] = b[p[1]][p[2]] /\ m[p] \in T /\ h[m[p]] = p[1]
  <2>1. PICK x \in S : \E k \in 1..g[x] : p = <<x, k>>
    BY <1>5
  <2>2. PICK k \in 1..g[x] : p = <<x, k>>
    BY <2>1
  <2>3. m[p] = b[x][k]
    BY <1>6, <2>2
  <2>. QED
    BY <1>3, <2>2, <2>3
<1>8. m \in [P -> T]
  BY <1>6, <1>7
<1>9. ASSUME NEW p \in P, NEW q \in P, m[p] = m[q] PROVE p = q
  <2>1. p[1] = q[1]
    BY <1>7, <1>9
  <2>2. p[2] = q[2]
    BY <1>3, <1>7, <1>9, <2>1
  <2>. QED
    BY <1>7, <2>1, <2>2
<1>10. ASSUME NEW y \in T PROVE \E p \in P : m[p] = y
  <2>1. PICK k \in 1..g[h[y]] : b[h[y]][k] = y
    BY <1>3
  <2>2. <<h[y], k>> \in P
    BY <1>5
  <2>3. m[<<h[y], k>>] = b[h[y]][k]
    BY <1>6, <2>2
  <2>. QED
    BY <2>1, <2>2, <2>3
<1>11. m \in Bijection(P, T)
  BY <1>8, <1>9, <1>10 DEF Bijection, Injection, IsInjective, Surjection
<1>12. ExistsBijection(T, P)
  <2>1. ExistsBijection(P, T)
    BY <1>11 DEF ExistsBijection
  <2>. QED
    BY <2>1, Fun_ExistsBijSymmetric
<1>13. Cardinality(P) = Cardinality(T)
  BY <1>12, FS_Bijection
<1>. QED
  BY <1>4, <1>13 DEF Total

\* g counts the members of T that h sends to each x of S.
CountsParts(g, S, h, T) ==
    /\ h \in [T -> S] /\ DOMAIN g = S
    /\ \A x \in S : g[x] = Cardinality(Fibre(h, T, x))

LEMMA PartsAddUp ==
    ASSUME NEW T, IsFiniteSet(T), NEW S, NEW h, NEW g, CountsParts(g, S, h, T)
    PROVE  Total(g) = Cardinality(T)
<1>1. /\ h \in [T -> S] /\ DOMAIN g = S
      /\ \A x \in S : g[x] = Cardinality(Fibre(h, T, x))
  BY DEF CountsParts
<1>. QED
  BY <1>1, TotalOfParts

(***************************************************************************)
(* Loops                                                                   *)
(***************************************************************************)

\* The states a loop goes through: h[i] after i passes.
IsLoop(h, N, S, start, step) ==
    /\ h \in [0..N -> S] /\ h[0] = start
    /\ \A i \in 1..N : h[i] = step[<<i, h[i - 1]>>]

LEMMA LoopRuns ==
    ASSUME NEW N \in Nat, NEW S, NEW start \in S,
           NEW step, \A i \in 1..N, x \in S : step[<<i, x>>] \in S
    PROVE  \E h : IsLoop(h, N, S, start, step)
<1>1. PICK P : P = {n \in 0..N : \E h : IsLoop(h, n, S, start, step)}
  OBVIOUS
<1>2. 0 \in P
  <2>1. PICK h : h = [i \in 0..0 |-> start]
    OBVIOUS
  <2>2. h[0] = start /\ h \in [0..0 -> S]
    BY <2>1
  <2>3. IsLoop(h, 0, S, start, step)
    BY <2>2 DEF IsLoop
  <2>. QED
    BY <1>1, <2>3
<1>3. ASSUME NEW n \in 0..N, n \in P /\ n < N PROVE n + 1 \in P
  <2>1. PICK h : IsLoop(h, n, S, start, step)
    BY <1>1, <1>3
  <2>2. n \in 0..n /\ n + 1 \in 1..N /\ h[n] \in S
    BY <1>3, <2>1 DEF IsLoop
  <2>3. PICK g : g = [i \in 0..(n + 1) |->
                       IF i = n + 1 THEN step[<<n + 1, h[n]>>] ELSE h[i]]
    OBVIOUS
  <2>4. \A i \in 0..n : i \in 0..(n + 1) /\ i # n + 1 /\ g[i] = h[i] /\ h[i] \in S
    BY <1>3, <2>1, <2>3 DEF IsLoop
  <2>5. g[n + 1] = step[<<n + 1, h[n]>>] /\ g[n + 1] \in S
    <3>1. n + 1 \in 0..(n + 1)
      BY <1>3
    <3>. QED
      BY <2>2, <2>3, <3>1
  <2>6. g \in [0..(n + 1) -> S]
    <3>1. \A i \in 0..(n + 1) : i \in 0..n \/ i = n + 1
      BY <1>3
    <3>2. \A i \in 0..(n + 1) : g[i] \in S
      BY <2>4, <2>5, <3>1
    <3>. QED
      BY <2>3, <3>2
  <2>7. ASSUME NEW i \in 1..(n + 1) PROVE g[i] = step[<<i, g[i - 1]>>]
    <3>1. i - 1 \in 0..n /\ (i - 1) \in 0..n /\ g[i - 1] = h[i - 1]
      BY <1>3, <2>4
    <3>2. CASE i = n + 1
      BY <1>3, <2>5, <3>1, <3>2
    <3>3. CASE i # n + 1
      <4>1. i \in 1..n /\ i \in 0..n
        BY <1>3, <3>3
      <4>2. h[i] = step[<<i, h[i - 1]>>]
        BY <2>1, <4>1 DEF IsLoop
      <4>. QED
        BY <2>4, <3>1, <4>1, <4>2
    <3>. QED
      BY <3>2, <3>3
  <2>8. g[0] = start
    <3>1. 0 \in 0..n
      BY <1>3
    <3>. QED
      BY <2>1, <2>4, <3>1 DEF IsLoop
  <2>9. IsLoop(g, n + 1, S, start, step)
    BY <2>6, <2>7, <2>8 DEF IsLoop
  <2>10. n + 1 \in 0..N
    BY <1>3
  <2>. QED
    BY <1>1, <2>9, <2>10
<1>4. N \in 0..N
  OBVIOUS
<1>5. N \in P
  BY <1>2, <1>3, <1>4, IntervalInduction
<1>. QED
  BY <1>1, <1>5

\* The sums on the way.
IsSums(h, s) ==
    /\ h \in [0..Len(s) -> Nat] /\ h[0] = 0
    /\ \A i \in 1..Len(s) : h[i] = h[i - 1] + s[i]

LEMMA AddUpIsSum ==
    ASSUME NEW s \in Seq(Nat)
    PROVE  \E h : IsSums(h, s) /\ AddUp(s) = h[Len(s)]
<1>1. PICK n \in Nat : n = Len(s)
  BY LenProperties
<1>2. \A i \in 1..n : s[i] \in Nat
  BY <1>1, ElementOfSeq
<1>3. PICK step : step = [p \in (1..n) \X Nat |-> p[2] + s[p[1]]]
  OBVIOUS
<1>4. \A i \in 1..n, x \in Nat : step[<<i, x>>] = x + s[i]
  BY <1>3
<1>5. \A i \in 1..n, x \in Nat : step[<<i, x>>] \in Nat
  <2> TAKE i \in 1..n, x \in Nat
  <2>1. step[<<i, x>>] = x + s[i]
    BY <1>4
  <2>2. x + s[i] \in Nat
    BY <1>2
  <2>. QED
    BY <2>1, <2>2
<1>6. PICK h : IsLoop(h, n, Nat, 0, step)
  <2>1. 0 \in Nat
    OBVIOUS
  <2>. QED
    BY <1>5, <2>1, LoopRuns
<1>7. h \in [0..n -> Nat] /\ h[0] = 0 /\ \A i \in 1..n : h[i] = h[i - 1] + s[i]
  <2>1. h \in [0..n -> Nat] /\ h[0] = 0 /\ \A i \in 1..n : h[i] = step[<<i, h[i - 1]>>]
    BY <1>6 DEF IsLoop
  <2>2. \A i \in 1..n : i - 1 \in 0..n
    OBVIOUS
  <2>. QED
    BY <1>4, <2>1, <2>2
<1>8. h = [i \in 0..n |-> IF i = 0 THEN 0 ELSE h[i - 1] + s[i]]
  <2>1. \A i \in 0..n : h[i] = IF i = 0 THEN 0 ELSE h[i - 1] + s[i]
    <3> TAKE i \in 0..n
    <3>1. CASE i = 0
      BY <1>7, <3>1
    <3>2. CASE i # 0
      <4>1. i \in 1..n
        BY <3>2
      <4>. QED
        BY <1>7, <3>2, <4>1
    <3>. QED
      BY <3>1, <3>2
  <2>. QED
    BY <1>7, <2>1
<1>9. PICK f : /\ f = CHOOSE g : g = [i \in 0..n |-> IF i = 0 THEN 0 ELSE g[i - 1] + s[i]]
               /\ f = [i \in 0..n |-> IF i = 0 THEN 0 ELSE f[i - 1] + s[i]]
  BY <1>8
<1>10. AddUp(s) = f[n]
  BY <1>1, <1>9 DEF AddUp
<1>11. \A i \in 0..n : f[i] = h[i]
  <2>1. PICK P : P = {i \in 0..n : f[i] = h[i]}
    OBVIOUS
  <2>2. 0 \in P
    <3>1. 0 \in 0..n
      OBVIOUS
    <3>2. f[0] = 0
      BY <1>9, <3>1
    <3>. QED
      BY <1>7, <2>1, <3>1, <3>2
  <2>3. ASSUME NEW i \in 0..n, i \in P /\ i < n PROVE i + 1 \in P
    <3>1. i + 1 \in 0..n /\ i + 1 \in 1..n /\ (i + 1) - 1 = i /\ i + 1 # 0
      BY <2>3
    <3>2. f[i + 1] = f[(i + 1) - 1] + s[i + 1]
      BY <1>9, <3>1
    <3>. QED
      BY <1>7, <2>1, <2>3, <3>1, <3>2
  <2>4. \A i \in 0..n : i \in P
    BY <2>2, <2>3, IntervalInduction
  <2>. QED
    BY <2>1, <2>4
<1>12. n \in 0..n
  OBVIOUS
<1>. QED
  BY <1>1, <1>7, <1>10, <1>11, <1>12 DEF IsSums

\* The sum, and how it compares with its terms.
SumFacts(s) ==
    /\ AddUp(s) \in Nat
    /\ \A i \in 1..Len(s) : AddUp(s) >= s[i]
    /\ (\A i \in 1..Len(s) : s[i] = 0) => AddUp(s) = 0
    /\ \A i \in 1..Len(s) :
          (\A j \in 1..Len(s) : j # i => s[j] = 0) => AddUp(s) = s[i]

LEMMA AddUpFacts ==
    ASSUME NEW s \in Seq(Nat)
    PROVE  SumFacts(s)
<1>1. PICK n \in Nat : n = Len(s)
  BY LenProperties
<1>2. \A i \in 1..n : s[i] \in Nat
  BY <1>1, ElementOfSeq
<1>3. PICK h : IsSums(h, s) /\ AddUp(s) = h[n]
  BY <1>1, AddUpIsSum
<1>4. h \in [0..n -> Nat] /\ h[0] = 0 /\ \A i \in 1..n : h[i] = h[i - 1] + s[i]
  BY <1>1, <1>3 DEF IsSums
<1>5. \A i \in 0..n : h[i] \in Nat
  BY <1>4
<1>6. n \in 0..n
  OBVIOUS
<1>7. \A m \in 0..n : \A i \in 1..m : h[m] >= s[i]
  <2>1. PICK P : P = {m \in 0..n : \A i \in 1..m : h[m] >= s[i]}
    OBVIOUS
  <2>2. 0 \in P
    BY <2>1
  <2>3. ASSUME NEW m \in 0..n, m \in P /\ m < n PROVE m + 1 \in P
    <3>1. m + 1 \in 0..n /\ m + 1 \in 1..n /\ (m + 1) - 1 = m
      BY <2>3
    <3>2. h[m + 1] = h[m] + s[m + 1] /\ h[m] \in Nat /\ s[m + 1] \in Nat
      BY <1>2, <1>4, <1>5, <3>1
    <3>3. ASSUME NEW i \in 1..(m + 1) PROVE h[m + 1] >= s[i]
      <4>1. CASE i = m + 1
        BY <3>2, <4>1
      <4>2. CASE i # m + 1
        <5>1. i \in 1..m /\ i \in 1..n
          BY <2>3, <4>2
        <5>2. h[m] >= s[i] /\ s[i] \in Nat
          BY <1>2, <2>1, <2>3, <5>1
        <5>. QED
          BY <3>2, <5>2
      <4>. QED
        BY <4>1, <4>2
    <3>. QED
      BY <2>1, <3>1, <3>3
  <2>4. \A m \in 0..n : m \in P
    BY <2>2, <2>3, IntervalInduction
  <2>. QED
    BY <2>1, <2>4
<1>8. ASSUME \A i \in 1..n : s[i] = 0 PROVE h[n] = 0
  <2>1. PICK P : P = {m \in 0..n : h[m] = 0}
    OBVIOUS
  <2>2. 0 \in P
    BY <1>4, <2>1
  <2>3. ASSUME NEW m \in 0..n, m \in P /\ m < n PROVE m + 1 \in P
    <3>1. m + 1 \in 0..n /\ m + 1 \in 1..n /\ (m + 1) - 1 = m
      BY <2>3
    <3>2. h[m + 1] = h[m] + s[m + 1]
      BY <1>4, <3>1
    <3>. QED
      BY <1>8, <2>1, <2>3, <3>1, <3>2
  <2>4. \A m \in 0..n : m \in P
    BY <2>2, <2>3, IntervalInduction
  <2>. QED
    BY <1>6, <2>1, <2>4
<1>9. ASSUME NEW i \in 1..n, \A j \in 1..n : j # i => s[j] = 0
      PROVE  h[n] = s[i]
  <2>1. PICK P : P = {m \in 0..n : h[m] = IF m < i THEN 0 ELSE s[i]}
    OBVIOUS
  <2>2. 0 \in P
    BY <1>4, <2>1
  <2>3. ASSUME NEW m \in 0..n, m \in P /\ m < n PROVE m + 1 \in P
    <3>1. m + 1 \in 0..n /\ m + 1 \in 1..n /\ (m + 1) - 1 = m
      BY <2>3
    <3>2. h[m + 1] = h[m] + s[m + 1] /\ s[i] \in Nat
      BY <1>2, <1>4, <3>1
    <3>3. CASE m + 1 = i
      BY <2>1, <2>3, <3>1, <3>2, <3>3
    <3>4. CASE m + 1 # i
      <4>1. s[m + 1] = 0
        BY <1>9, <3>1, <3>4
      <4>2. (m + 1 < i) <=> (m < i)
        BY <3>4
      <4>. QED
        BY <2>1, <2>3, <3>1, <3>2, <4>1, <4>2
    <3>. QED
      BY <3>3, <3>4
  <2>4. \A m \in 0..n : m \in P
    BY <2>2, <2>3, IntervalInduction
  <2>. QED
    BY <1>6, <2>1, <2>4
<1>. QED
  BY <1>1, <1>3, <1>5, <1>6, <1>7, <1>8, <1>9 DEF SumFacts

(***************************************************************************)
(* The table handle                                                        *)
(*                                                                         *)
(* What is said of the handle must be said of a handle on its way to the   *)
(* attribute, too: one that a thread has opened is as new as the last      *)
(* invalidation unless that one met it.                                    *)
(***************************************************************************)

WorkFields == {"step", "kind", "query", "ref", "opened"}

IsWork(x) == DOMAIN x = WorkFields /\ x = [k \in WorkFields |-> x[k]]

\* A handle opened at version n is excused.
Excused(n) == n \in Nat /\ (n < told => raced)

HandleInv ==
    /\ indexed \in Nat /\ told \in Nat /\ told <= indexed
    /\ raced \in BOOLEAN
    /\ table # NoTable => Excused(table)
    /\ DOMAIN work = Searchers /\ work = [t \in Searchers |-> work[t]]
    /\ \A t \in Searchers :
          IsWork(work[t]) /\ (work[t].step = "store" => Excused(work[t].ref))

LEMMA NoWorkIsWork == IsWork(NoWork) /\ NoWork.step = "rest"
BY DEF NoWork, IsWork, WorkFields

LEMMA HandleInitInv == SearcherInit => HandleInv
<1> SUFFICES ASSUME SearcherInit PROVE HandleInv
  OBVIOUS
<1>1. \A t \in Searchers : work[t] = NoWork
  BY DEF SearcherInit
<1>2. \A t \in Searchers : IsWork(work[t]) /\ work[t].step # "store"
  BY <1>1, NoWorkIsWork
<1>3. DOMAIN work = Searchers /\ work = [t \in Searchers |-> work[t]]
  BY DEF SearcherInit
<1>4. indexed \in Nat /\ told \in Nat /\ told <= indexed /\ table = NoTable
  BY DEF SearcherInit
<1>5. raced \in BOOLEAN
  BY DEF SearcherInit
<1>. QED
  BY <1>2, <1>3, <1>4, <1>5 DEF HandleInv

\* One thread goes on, and no handle is stored or invalidated.
LEMMA WorkGoesOn ==
    ASSUME HandleInv, NEW t \in Searchers, NEW y, IsWork(y),
           y.step = "store" => y.ref \in Nat /\ told <= y.ref,
           work' = [work EXCEPT ![t] = y],
           UNCHANGED <<indexed, told, raced, table>>
    PROVE  HandleInv'
BY DEF HandleInv, Excused

LEMMA SearchStepsKeepHandle ==
    ASSUME HandleInv, NEW t \in Searchers, BeginWork(t) \/ SearchSteps(t)
    PROVE  HandleInv'
<1>1. IsWork(work[t]) /\ indexed \in Nat /\ told <= indexed
  BY DEF HandleInv
<1>2. ASSUME NEW step, step # "store", Turn(t, step),
             UNCHANGED <<indexed, told, raced, table>>
      PROVE  HandleInv'
  <2> DEFINE y == [work[t] EXCEPT !.step = step]
  <2>1. IsWork(y) /\ y.step # "store" /\ work' = [work EXCEPT ![t] = y]
    BY <1>1, <1>2 DEF IsWork, WorkFields, Turn
  <2>. HIDE DEF y
  <2>. QED
    BY <1>2, <2>1, WorkGoesOn
<1>3. ASSUME EndWork(t), UNCHANGED <<indexed, told, raced, table>>
      PROVE  HandleInv'
  BY <1>3, NoWorkIsWork, WorkGoesOn DEF EndWork
<1>4. CASE BeginWork(t)
  <2>1. PICK kind \in SearchKinds, q \in Queries :
           work' = [work EXCEPT ![t] =
                      [NoWork EXCEPT !.kind = kind, !.query = q,
                         !.step = IF kind = "search" THEN "lookup" ELSE "check"]]
    BY <1>4 DEF BeginWork
  <2> DEFINE y == [NoWork EXCEPT !.kind = kind, !.query = q,
                     !.step = IF kind = "search" THEN "lookup" ELSE "check"]
  <2>2. IsWork(y) /\ y.step # "store"
    BY NoWorkIsWork DEF IsWork, WorkFields
  <2>3. UNCHANGED <<indexed, told, raced, table>> /\ work' = [work EXCEPT ![t] = y]
    BY <1>4, <2>1 DEF BeginWork, handleVars
  <2>. HIDE DEF y
  <2>. QED
    BY <2>2, <2>3, WorkGoesOn
<1>5. CASE LookUp(t)
  BY <1>2, <1>5 DEF LookUp, ServeEmbedding, handleVars
<1>6. CASE EmbedQuery(t)
  BY <1>2, <1>3, <1>6 DEF EmbedQuery, handleVars
<1>7. CASE InsertEmbedding(t)
  BY <1>2, <1>7 DEF InsertEmbedding, ServeEmbedding, handleVars
<1>8. CASE CheckTable(t)
  BY <1>2, <1>3, <1>8 DEF CheckTable, handleVars
<1>9. CASE OpenTable(t)
  <2> DEFINE y == [work[t] EXCEPT !.step = "store", !.ref = indexed]
  <2>1. /\ work' = [work EXCEPT ![t] = y]
        /\ UNCHANGED <<indexed, told, raced, table>>
    BY <1>1, <1>9 DEF OpenTable, handleVars, IsWork, WorkFields
  <2>2. IsWork(y) /\ y.ref = indexed
    BY <1>1 DEF IsWork, WorkFields
  <2>. HIDE DEF y
  <2>. QED
    BY <1>1, <2>1, <2>2, WorkGoesOn
<1>10. CASE StoreTable(t)
  <2> DEFINE y == [work[t] EXCEPT !.step = "return", !.ref = NoTable]
  <2>1. /\ work' = [work EXCEPT ![t] = y] /\ table' = work[t].ref
        /\ UNCHANGED <<indexed, told, raced>> /\ work[t].step = "store"
    BY <1>1, <1>10 DEF StoreTable, IsWork, WorkFields
  <2>2. IsWork(y) /\ y.step # "store"
    BY <1>1 DEF IsWork, WorkFields
  <2>. HIDE DEF y
  <2>. QED
    BY <2>1, <2>2 DEF HandleInv, Excused
<1>11. CASE ReturnTable(t)
  <2>1. UNCHANGED <<indexed, told, raced, table>>
    BY <1>11 DEF ReturnTable, handleVars
  <2>2. CASE EndWork(t)
    BY <1>3, <2>1, <2>2
  <2>3. CASE work' = [work EXCEPT ![t].step = "lookup", ![t].opened = TRUE]
    <3> DEFINE y == [work[t] EXCEPT !.step = "lookup", !.opened = TRUE]
    <3>1. work' = [work EXCEPT ![t] = y] /\ IsWork(y) /\ y.step # "store"
      BY <1>1, <2>3 DEF IsWork, WorkFields
    <3>. HIDE DEF y
    <3>. QED
      BY <2>1, <3>1, WorkGoesOn
  <2>. QED
    BY <1>11, <2>2, <2>3 DEF ReturnTable
<1>. QED
  BY <1>4, <1>5, <1>6, <1>7, <1>8, <1>9, <1>10, <1>11 DEF SearchSteps

LEMMA HandleNextKeeps ==
    ASSUME HandleInv, [SearcherNext]_searcherVars
    PROVE  HandleInv'
<1>1. CASE UNCHANGED searcherVars
  BY <1>1 DEF searcherVars, HandleInv, Excused
<1>2. CASE CommitIndex \/ CommitSync
  BY <1>2 DEF CommitIndex, CommitSync, HandleInv, Excused
<1>3. CASE InvalidateCache
  <2>1. raced' = Opening /\ raced' \in BOOLEAN
    BY <1>3 DEF InvalidateCache, Opening
  <2>2. \A t \in Searchers : work[t].step = "store" => raced'
    BY <2>1 DEF Opening
  <2>. QED
    BY <1>3, <2>1, <2>2 DEF InvalidateCache, HandleInv, Excused
<1>. QED
  BY <1>1, <1>2, <1>3, SearchStepsKeepHandle DEF SearcherNext

\* A handle older than the last invalidation was being stored while that one
\* ran: in no other order do _open_table and invalidate_cache leave one,
\* whatever threads search and however often the index is written.
THEOREM HandleStaleOnlyIfRaced == SearcherSpec => []StaleOnlyIfRaced
<1>1. HandleInv => StaleOnlyIfRaced
  BY DEF HandleInv, Excused, StaleOnlyIfRaced
<1>. QED
  BY HandleInitInv, HandleNextKeeps, <1>1, PTL DEF SearcherSpec

(***************************************************************************)
(* The metadata cache                                                      *)
(*                                                                         *)
(* A call reads the file after its stat(), so it may find a later text; it *)
(* finds an earlier one never, since no save repeats a number.  The        *)
(* invariant follows a call from its stat() to its answer: the file is the *)
(* one it saw, a later one or gone, and what it has read is what the file  *)
(* was, if the file is still the one it saw.                               *)
(***************************************************************************)

Entries == [key : MetadataNotes \X Nat, found : Nat]

ReadFields == {"step", "note", "stat", "found"}

IsRead(x) == DOMAIN x = ReadFields /\ x = [k \in ReadFields |-> x[k]]

\* Metadata found for a key: of the file stat() saw or a later one, or none.
NotOlder(found, stat) == found = NoFields \/ found >= stat

\* What a key leads to is what the file holds, if it is still the key's.
Current(n, stat, found) ==
    text[n] = stat /\ <<n, stat>> \notin blank => found = stat

\* A call that has its stat().
CallSound(x) ==
    /\ x.note \in MetadataNotes /\ x.stat \in 1..saves /\ x.found \in Nat
    /\ NotOlder(text[x.note], x.stat)
    /\ x.step \in {"set", "answered"} => NotOlder(x.found, x.stat)
    /\ x.step = "set" => Current(x.note, x.stat, x.found)

EntrySound(e) ==
    /\ e.key[2] \in 1..saves /\ NotOlder(e.found, e.key[2])
    /\ Current(e.key[1], e.key[2], e.found)

\* A key has one entry.
OneEach(s) == \A i, j \in DOMAIN s : s[i].key = s[j].key => i = j

MetadataInv ==
    /\ text \in [MetadataNotes -> Nat] /\ saves \in Nat
    /\ \A n \in MetadataNotes : text[n] <= saves
    /\ entries \in Seq(Entries) /\ Len(entries) <= MaxSize /\ OneEach(entries)
    /\ \A i \in DOMAIN entries : EntrySound(entries[i])
    /\ DOMAIN reading = Readers /\ reading = [t \in Readers |-> reading[t]]
    /\ \A t \in Readers :
          IsRead(reading[t]) /\ (reading[t].step # "rest" => CallSound(reading[t]))

LEMMA NoReadIsRead == IsRead(NoRead) /\ NoRead.step = "rest"
BY DEF NoRead, IsRead, ReadFields

LEMMA MetadataInitInv == MetadataInit => MetadataInv
<1> SUFFICES ASSUME MetadataInit PROVE MetadataInv
  OBVIOUS
<1>1. \A t \in Readers : reading[t] = NoRead
  BY DEF MetadataInit
<1>2. \A t \in Readers : IsRead(reading[t]) /\ reading[t].step = "rest"
  BY <1>1, NoReadIsRead
<1>3. entries \in Seq(Entries) /\ Len(entries) = 0 /\ DOMAIN entries = {}
  BY DEF MetadataInit
<1>4. Len(entries) <= MaxSize
  BY <1>3, MetadataAssumption
<1>. QED
  BY <1>2, <1>3, <1>4 DEF MetadataInit, MetadataInv, OneEach

\* A sequence without its ith element.
LEMMA RemoveAtProperties ==
    ASSUME NEW S, NEW s \in Seq(S), NEW i \in 1..Len(s)
    PROVE  /\ RemoveAt(s, i) \in Seq(S) /\ Len(RemoveAt(s, i)) = Len(s) - 1
           /\ \A j \in 1..(Len(s) - 1) :
                 RemoveAt(s, i)[j] = IF j < i THEN s[j] ELSE s[j + 1]
<1>1. Len(s) \in Nat /\ i \in Nat /\ 1 <= i /\ i <= Len(s)
  BY LenProperties
<1> DEFINE a == SubSeq(s, 1, i - 1)
           b == SubSeq(s, i + 1, Len(s))
<1>2. a \in Seq(S) /\ Len(a) = i - 1 /\ \A j \in 1..(i - 1) : a[j] = s[j]
  BY <1>1
<1>3. /\ b \in Seq(S) /\ Len(b) = Len(s) - i
      /\ \A j \in 1..(Len(s) - i) : b[j] = s[i + j]
  BY <1>1
<1>. HIDE DEF a, b
<1>4. RemoveAt(s, i) = a \o b
  BY DEF RemoveAt, a, b
<1>5. a \o b \in Seq(S) /\ Len(a \o b) = Len(s) - 1
  <2>1. a \o b \in Seq(S) /\ Len(a \o b) = Len(a) + Len(b)
    BY <1>2, <1>3, ConcatProperties
  <2>. QED
    BY <1>1, <1>2, <1>3, <2>1
<1>6. ASSUME NEW j \in 1..(Len(s) - 1)
      PROVE  (a \o b)[j] = IF j < i THEN s[j] ELSE s[j + 1]
  <2>1. CASE j < i
    BY <1>1, <1>2, <1>3, <2>1
  <2>2. CASE ~(j < i)
    <3>1. /\ j - (i - 1) \in 1..(Len(s) - i) /\ j > Len(a)
          /\ j \in 1..(Len(a) + Len(b))
      BY <1>1, <1>2, <1>3, <2>2
    <3>2. (a \o b)[j] = b[j - Len(a)]
      BY <1>2, <1>3, <3>1, ConcatProperties
    <3>3. b[j - (i - 1)] = s[i + (j - (i - 1))] /\ i + (j - (i - 1)) = j + 1
      BY <1>1, <1>3, <3>1
    <3>. QED
      BY <1>2, <2>2, <3>2, <3>3
  <2>. QED
    BY <2>1, <2>2
<1>. QED
  BY <1>4, <1>5, <1>6

\* An entry put last, in place of the one its key had.
LEMMA PutLastProperties ==
    ASSUME entries \in Seq(Entries), OneEach(entries),
           NEW key \in MetadataNotes \X Nat, NEW found \in Nat
    PROVE  /\ PutLast(key, found) \in Seq(Entries)
           /\ Len(PutLast(key, found)) \in 1..(Len(entries) + 1)
           /\ Position(key) # {} => Len(PutLast(key, found)) = Len(entries)
           /\ OneEach(PutLast(key, found))
           /\ \A i \in DOMAIN PutLast(key, found) :
                 \/ PutLast(key, found)[i] = [key |-> key, found |-> found]
                 \/ \E j \in DOMAIN entries : PutLast(key, found)[i] = entries[j]
<1> DEFINE new == [key |-> key, found |-> found]
           at == Position(key)
           others == IF at = {} THEN entries
                     ELSE RemoveAt(entries, CHOOSE i \in at : TRUE)
<1>1. Len(entries) \in Nat /\ DOMAIN entries = 1..Len(entries)
  BY LenProperties
<1>2. /\ others \in Seq(Entries) /\ Len(others) \in 0..Len(entries)
      /\ at # {} => Len(others) = Len(entries) - 1
      /\ OneEach(others)
      /\ \A j \in DOMAIN others :
            others[j].key # key /\ \E k \in DOMAIN entries : others[j] = entries[k]
  <2>1. CASE at = {}
    <3>1. others = entries
      BY <2>1
    <3>2. \A j \in DOMAIN entries : entries[j].key # key
      BY <2>1 DEF Position
    <3>. HIDE DEF others
    <3>. QED
      BY <1>1, <2>1, <3>1, <3>2
  <2>2. CASE at # {}
    <3>1. PICK i : i = CHOOSE k \in at : TRUE
      OBVIOUS
    <3>2. i \in DOMAIN entries /\ entries[i].key = key /\ i \in 1..Len(entries)
      BY <1>1, <2>2, <3>1 DEF Position
    <3>3. others = RemoveAt(entries, i)
      BY <2>2, <3>1
    <3>. HIDE DEF others
    <3>4. /\ others \in Seq(Entries) /\ Len(others) = Len(entries) - 1
          /\ \A j \in 1..(Len(entries) - 1) :
                others[j] = IF j < i THEN entries[j] ELSE entries[j + 1]
      BY <3>2, <3>3, RemoveAtProperties
    <3>5. DOMAIN others = 1..(Len(entries) - 1)
      BY <3>4
    <3>6. OneEach(others)
      <4> SUFFICES ASSUME NEW j \in DOMAIN others, NEW k \in DOMAIN others,
                          others[j].key = others[k].key
                   PROVE  j = k
        BY DEF OneEach
      <4> DEFINE J == IF j < i THEN j ELSE j + 1
                 K == IF k < i THEN k ELSE k + 1
      <4>1. /\ J \in DOMAIN entries /\ K \in DOMAIN entries
            /\ others[j] = entries[J] /\ others[k] = entries[K]
        BY <1>1, <3>2, <3>4, <3>5
      <4>2. J = K
        BY <4>1 DEF OneEach
      <4>. QED
        BY <1>1, <3>2, <3>5, <4>2
    <3>7. ASSUME NEW j \in DOMAIN others
          PROVE  /\ others[j].key # key
                 /\ \E k \in DOMAIN entries : others[j] = entries[k]
      <4> DEFINE k == IF j < i THEN j ELSE j + 1
      <4>1. k \in DOMAIN entries /\ k # i /\ others[j] = entries[k]
        BY <1>1, <3>2, <3>4, <3>5
      <4>2. entries[k].key # entries[i].key
        BY <3>2, <4>1 DEF OneEach
      <4>. QED
        BY <3>2, <4>1, <4>2
    <3>. QED
      BY <1>1, <3>2, <3>4, <3>6, <3>7
  <2>. QED
    BY <2>1, <2>2
<1>3. PutLast(key, found) = Append(others, new) /\ new \in Entries /\ new.key = key
  BY DEF PutLast, Entries
<1>. HIDE DEF others, new, at
<1> DEFINE put == Append(others, new)
<1>4. /\ put \in Seq(Entries) /\ Len(put) = Len(others) + 1
      /\ DOMAIN put = 1..(Len(others) + 1) /\ put[Len(others) + 1] = new
      /\ \A i \in 1..Len(others) : put[i] = others[i]
  BY <1>2, <1>3
<1>5. Len(others) \in Nat /\ DOMAIN others = 1..Len(others)
  BY <1>2
<1>. HIDE DEF put
<1>6. OneEach(put)
  <2> SUFFICES ASSUME NEW i \in DOMAIN put, NEW j \in DOMAIN put,
                      put[i].key = put[j].key
               PROVE  i = j
    BY DEF OneEach
  <2>1. CASE i \in DOMAIN others /\ j \in DOMAIN others
    BY <1>2, <1>4, <1>5, <2>1 DEF OneEach
  <2>2. CASE i \in DOMAIN others /\ j = Len(others) + 1
    BY <1>2, <1>3, <1>4, <1>5, <2>2
  <2>3. CASE i = Len(others) + 1 /\ j \in DOMAIN others
    BY <1>2, <1>3, <1>4, <1>5, <2>3
  <2>. QED
    BY <1>4, <1>5, <2>1, <2>2, <2>3
<1>7. \A i \in DOMAIN put :
         put[i] = new \/ \E j \in DOMAIN entries : put[i] = entries[j]
  BY <1>2, <1>4, <1>5
<1>8. /\ Len(put) \in 1..(Len(entries) + 1)
      /\ at # {} => Len(put) = Len(entries)
  <2>1. /\ Len(others) \in 0..Len(entries) /\ Len(put) = Len(others) + 1
        /\ at # {} => Len(others) = Len(entries) - 1
    BY <1>2, <1>4
  <2>2. PICK m, n, k : m = Len(put) /\ n = Len(others) /\ k = Len(entries)
    OBVIOUS
  <2>3. /\ k \in Nat /\ n \in 0..k /\ m = n + 1
        /\ at # {} => n = k - 1
    BY <1>1, <2>1, <2>2
  <2>4. m \in 1..(k + 1) /\ (n = k - 1 => m = k)
    BY <2>3
  <2>. QED
    BY <2>2, <2>3, <2>4
<1>9. PutLast(key, found) = put
  BY <1>3 DEF put
<1>. QED
  BY <1>4, <1>6, <1>7, <1>8, <1>9 DEF new, at

\* The oldest entry goes.
LEMMA TailProperties ==
    ASSUME NEW s \in Seq(Entries), s # <<>>, OneEach(s)
    PROVE  /\ Tail(s) \in Seq(Entries) /\ Len(Tail(s)) = Len(s) - 1
           /\ OneEach(Tail(s))
           /\ \A i \in DOMAIN Tail(s) : \E j \in DOMAIN s : Tail(s)[i] = s[j]
<1>1. /\ Tail(s) \in Seq(Entries) /\ Len(Tail(s)) = Len(s) - 1
      /\ \A i \in 1..Len(Tail(s)) : Tail(s)[i] = s[i + 1]
  BY HeadTailProperties
<1>2. /\ Len(s) \in Nat /\ DOMAIN s = 1..Len(s)
      /\ DOMAIN Tail(s) = 1..(Len(s) - 1)
  BY <1>1, LenProperties
<1>3. \A i \in DOMAIN Tail(s) : i + 1 \in DOMAIN s /\ Tail(s)[i] = s[i + 1]
  BY <1>1, <1>2
<1>4. OneEach(Tail(s))
  BY <1>2, <1>3 DEF OneEach
<1>. QED
  BY <1>1, <1>3, <1>4

\* A sound entry is put last and the cache keeps its bound.
LEMMA StoredEntriesSound ==
    ASSUME MetadataInv, NEW key \in MetadataNotes \X Nat, NEW found \in Nat,
           EntrySound([key |-> key, found |-> found]),
           UNCHANGED <<text, saves, blank>>,
           \/ Position(key) # {} /\ entries' = PutLast(key, found)
           \/ entries' = IF Len(PutLast(key, found)) > MaxSize
                         THEN Tail(PutLast(key, found)) ELSE PutLast(key, found)
    PROVE  /\ entries' \in Seq(Entries) /\ Len(entries') <= MaxSize
           /\ OneEach(entries')
           /\ \A i \in DOMAIN entries' : EntrySound(entries[i])'
<1> DEFINE put == PutLast(key, found)
           new == [key |-> key, found |-> found]
<1>1. /\ put \in Seq(Entries) /\ Len(put) \in 1..(Len(entries) + 1)
      /\ Position(key) # {} => Len(put) = Len(entries)
      /\ OneEach(put)
      /\ \A i \in DOMAIN put :
            put[i] = new \/ \E j \in DOMAIN entries : put[i] = entries[j]
  BY PutLastProperties DEF MetadataInv
<1>2. Len(entries) \in Nat /\ Len(entries) <= MaxSize /\ MaxSize \in Nat
  BY MetadataAssumption, LenProperties DEF MetadataInv
<1>3. \A i \in DOMAIN put : EntrySound(put[i])
  BY <1>1 DEF MetadataInv
<1>4. \/ Position(key) # {} /\ entries' = put
      \/ entries' = IF Len(put) > MaxSize THEN Tail(put) ELSE put
  OBVIOUS
<1>. HIDE DEF put
<1>5. /\ entries' \in Seq(Entries) /\ Len(entries') <= MaxSize
      /\ OneEach(entries')
      /\ \A i \in DOMAIN entries' : \E j \in DOMAIN put : entries'[i] = put[j]
  <2>1. CASE entries' = put /\ Len(put) <= MaxSize
    BY <1>1, <2>1
  <2>2. CASE entries' = Tail(put) /\ Len(put) > MaxSize
    <3>1. put # <<>> /\ Len(put) \in Nat
      BY <1>1, <1>2
    <3>2. /\ entries' \in Seq(Entries) /\ Len(entries') = Len(put) - 1
          /\ OneEach(entries')
          /\ \A i \in DOMAIN entries' : \E j \in DOMAIN put : entries'[i] = put[j]
      BY <1>1, <2>2, <3>1, TailProperties
    <3>. QED
      BY <1>1, <1>2, <3>1, <3>2
  <2>. QED
    BY <1>1, <1>2, <1>4, <2>1, <2>2
<1>6. \A e : EntrySound(e) => EntrySound(e)'
  BY DEF EntrySound, Current
<1>7. ASSUME NEW i \in DOMAIN entries' PROVE EntrySound(entries[i])'
  <2>1. PICK e : e = entries'[i]
    OBVIOUS
  <2>2. EntrySound(e)
    BY <1>3, <1>5, <1>7, <2>1
  <2>. QED
    BY <1>6, <2>1, <2>2
<1>. QED
  BY <1>5, <1>7

\* The calls while one thread's call goes on and the files stay.
LEMMA ReadersStay ==
    ASSUME MetadataInv, NEW t \in Readers, NEW y, IsRead(y),
           reading' = [reading EXCEPT ![t] = y],
           UNCHANGED <<text, saves>>, blank \subseteq blank',
           y.step # "rest" => CallSound(y)'
    PROVE  /\ DOMAIN reading' = Readers
           /\ reading' = [q \in Readers |-> reading'[q]]
           /\ \A q \in Readers :
                 /\ IsRead(reading'[q])
                 /\ reading'[q].step # "rest" => CallSound(reading[q])'
<1>1. /\ DOMAIN reading' = Readers /\ reading' = [q \in Readers |-> reading'[q]]
      /\ reading'[t] = y /\ \A q \in Readers : q # t => reading'[q] = reading[q]
  BY DEF MetadataInv
<1>2. \A x : CallSound(x) => CallSound(x)'
  BY DEF CallSound, Current
<1>3. ASSUME NEW q \in Readers
      PROVE  /\ IsRead(reading'[q])
             /\ reading'[q].step # "rest" => CallSound(reading[q])'
  <2>1. PICK x : x = reading'[q]
    OBVIOUS
  <2>2. IsRead(x) /\ (x.step # "rest" => CallSound(x)')
    <3>1. CASE q = t
      BY <1>1, <2>1, <3>1
    <3>2. CASE q # t
      BY <1>1, <1>2, <1>3, <2>1, <3>2 DEF MetadataInv
    <3>. QED
      BY <3>1, <3>2
  <2>. QED
    BY <2>1, <2>2
<1>. QED
  BY <1>1, <1>3

\* A step of one call that leaves the entries alone.
LEMMA CallGoesOn ==
    ASSUME MetadataInv, NEW t \in Readers, NEW y, IsRead(y),
           reading' = [reading EXCEPT ![t] = y],
           UNCHANGED <<text, saves, entries>>, blank \subseteq blank',
           y.step # "rest" => CallSound(y)'
    PROVE  MetadataInv'
<1>1. /\ DOMAIN reading' = Readers
      /\ reading' = [q \in Readers |-> reading'[q]]
      /\ \A q \in Readers :
            /\ IsRead(reading'[q])
            /\ reading'[q].step # "rest" => CallSound(reading[q])'
  BY ReadersStay
<1>2. \A i \in DOMAIN entries' : EntrySound(entries[i])'
  BY DEF MetadataInv, EntrySound, Current
<1>. QED
  BY <1>1, <1>2 DEF MetadataInv

\* A file changes: saved again, with a number no key has, or removed.
LEMMA TextChanges ==
    ASSUME MetadataInv, NEW n \in MetadataNotes, SaveText(n) \/ RemoveText(n)
    PROVE  MetadataInv'
<1>1. PICK m : /\ text' = [text EXCEPT ![n] = m]
               /\ \/ m = saves + 1 /\ saves' = saves + 1
                  \/ m = Removed /\ saves' = saves
  BY DEF SaveText, RemoveText
<1>2. UNCHANGED <<entries, reading, blank>>
  BY DEF SaveText, RemoveText
<1>3. saves \in Nat /\ saves' \in Nat /\ saves <= saves' /\ m \in Nat /\ m <= saves'
  BY <1>1 DEF MetadataInv, Removed
<1>4. /\ text' \in [MetadataNotes -> Nat] /\ text'[n] = m
      /\ \A k \in MetadataNotes : k # n => text'[k] = text[k]
      /\ \A k \in MetadataNotes : text'[k] <= saves'
  BY <1>1, <1>3 DEF MetadataInv
<1>5. ASSUME NEW k \in MetadataNotes, NEW stat \in 1..saves
      PROVE  /\ text'[k] = stat => text[k] = stat
             /\ NotOlder(text[k], stat) => NotOlder(text'[k], stat)
  <2>1. k # n => text'[k] = text[k]
    BY <1>4
  <2>2. m # stat /\ NotOlder(m, stat)
    BY <1>1, <1>3 DEF Removed, NotOlder, NoFields
  <2>. QED
    BY <1>4, <2>1, <2>2
<1>6. ASSUME NEW e \in Entries, EntrySound(e) PROVE EntrySound(e)'
  <2>1. e.key[1] \in MetadataNotes /\ e.key[2] \in 1..saves
    BY <1>6 DEF Entries, EntrySound
  <2>2. e.key[2] \in 1..saves'
    BY <1>3, <2>1
  <2>. QED
    BY <1>2, <1>5, <1>6, <2>1, <2>2 DEF EntrySound, Current
<1>7. ASSUME NEW x, CallSound(x) PROVE CallSound(x)'
  <2>1. x.note \in MetadataNotes /\ x.stat \in 1..saves
    BY <1>7 DEF CallSound
  <2>2. x.stat \in 1..saves'
    BY <1>3, <2>1
  <2>. QED
    BY <1>2, <1>5, <1>7, <2>1, <2>2 DEF CallSound, Current
<1>8. ASSUME NEW i \in DOMAIN entries' PROVE EntrySound(entries[i])'
  <2>1. PICK e : e = entries'[i]
    OBVIOUS
  <2>2. e \in Entries /\ EntrySound(e)
    BY <1>2, <1>8, <2>1 DEF MetadataInv
  <2>. QED
    BY <1>6, <2>1, <2>2
<1>9. ASSUME NEW t \in Readers
      PROVE  /\ IsRead(reading'[t])
             /\ reading'[t].step # "rest" => CallSound(reading[t])'
  <2>1. PICK x : x = reading'[t]
    OBVIOUS
  <2>2. IsRead(x) /\ (x.step # "rest" => CallSound(x))
    BY <1>2, <1>9, <2>1 DEF MetadataInv
  <2>. QED
    BY <1>7, <2>1, <2>2
<1>. QED
  BY <1>2, <1>3, <1>4, <1>8, <1>9 DEF MetadataInv

LEMMA StatNoteKeeps ==
    ASSUME MetadataInv, NEW t \in Readers, NEW n \in MetadataNotes, StatNote(t, n)
    PROVE  MetadataInv'
<1>1. UNCHANGED <<text, entries, saves, blank>>
  BY DEF StatNote
<1>2. CASE text[n] = Removed
  <2>1. reading' = [reading EXCEPT ![t] = NoRead]
    BY <1>2 DEF StatNote
  <2>. QED
    BY <1>1, <2>1, NoReadIsRead, CallGoesOn
<1>3. CASE text[n] # Removed
  <2> DEFINE y == [NoRead EXCEPT !.step = "get", !.note = n, !.stat = text[n]]
  <2>1. reading' = [reading EXCEPT ![t] = y]
    BY <1>3 DEF StatNote
  <2>2. /\ IsRead(y) /\ y.step = "get" /\ y.note = n /\ y.stat = text[n]
        /\ y.found = NoRead.found
    BY NoReadIsRead DEF IsRead, ReadFields
  <2>3. NoRead.found = 0
    BY DEF NoRead
  <2>4. PICK x : x = y
    OBVIOUS
  <2>. HIDE DEF y
  <2>5. text[n] \in 1..saves /\ saves \in Nat
    BY <1>3 DEF MetadataInv, Removed
  <2>6. CallSound(x)'
    BY <1>1, <2>2, <2>3, <2>4, <2>5 DEF CallSound, NotOlder
  <2>. QED
    BY <1>1, <2>1, <2>2, <2>4, <2>6, CallGoesOn
<1>. QED
  BY <1>2, <1>3

LEMMA ReadFrontmatterKeeps ==
    ASSUME MetadataInv, NEW t \in Readers, ReadFrontmatter(t)
    PROVE  MetadataInv'
<1>1. /\ UNCHANGED <<text, entries, saves>> /\ reading[t].step = "read"
      /\ IsRead(reading[t]) /\ CallSound(reading[t])
  BY DEF ReadFrontmatter, MetadataInv
<1>2. PICK m \in Nat :
         /\ reading' = [reading EXCEPT ![t].step = "set", ![t].found = m]
         /\ \/ m = text[reading[t].note] /\ UNCHANGED blank
            \/ m = NoFields /\ blank' = blank \cup {CacheKey(t)}
  <2>1. text[reading[t].note] \in Nat /\ NoFields \in Nat
    BY <1>1 DEF CallSound, MetadataInv, NoFields
  <2>. QED
    BY <2>1 DEF ReadFrontmatter
<1> DEFINE y == [reading[t] EXCEPT !.step = "set", !.found = m]
<1>3. /\ reading' = [reading EXCEPT ![t] = y] /\ IsRead(y)
      /\ y.note = reading[t].note /\ y.stat = reading[t].stat
      /\ y.step = "set" /\ y.found = m
  BY <1>1, <1>2 DEF IsRead, ReadFields
<1>4. PICK x : x = y
  OBVIOUS
<1>. HIDE DEF y
<1>5. /\ x.note = reading[t].note /\ x.stat = reading[t].stat
      /\ x.note \in MetadataNotes /\ x.stat \in 1..saves
      /\ NotOlder(text[x.note], x.stat)
      /\ x.step = "set" /\ x.found = m
  BY <1>1, <1>3, <1>4 DEF CallSound
<1>6. NotOlder(m, x.stat)
  BY <1>2, <1>5 DEF NotOlder
<1>7. Current(x.note, x.stat, m)'
  BY <1>1, <1>2, <1>5 DEF Current, CacheKey
<1>8. CallSound(x)'
  BY <1>1, <1>5, <1>6, <1>7 DEF CallSound
<1>9. blank \subseteq blank'
  BY <1>2
<1>. QED
  BY <1>1, <1>3, <1>4, <1>8, <1>9, CallGoesOn

\* The call ends with an entry put last.
LEMMA AnswerKeeps ==
    ASSUME MetadataInv, NEW t \in Readers, NEW y, NEW found \in Nat,
           reading[t].step # "rest", NotOlder(found, reading[t].stat),
           Current(reading[t].note, reading[t].stat, found),
           IsRead(y), y.step = "answered", y.note = reading[t].note,
           y.stat = reading[t].stat, y.found = found,
           reading' = [reading EXCEPT ![t] = y],
           UNCHANGED <<text, saves, blank>>,
           \/ /\ Position(CacheKey(t)) # {}
              /\ entries' = PutLast(CacheKey(t), found)
           \/ LET put == PutLast(CacheKey(t), found)
              IN  entries' = IF Len(put) > MaxSize THEN Tail(put) ELSE put
    PROVE  MetadataInv'
<1>1. PICK key : key = CacheKey(t)
  OBVIOUS
<1>2. CallSound(reading[t])
  BY DEF MetadataInv
<1>3. /\ key \in MetadataNotes \X Nat /\ key[1] = reading[t].note
      /\ key[2] = reading[t].stat /\ key[2] \in 1..saves
  BY <1>1, <1>2 DEF CacheKey, CallSound
<1>4. EntrySound([key |-> key, found |-> found])
  BY <1>3 DEF EntrySound
<1>5. /\ entries' \in Seq(Entries) /\ Len(entries') <= MaxSize
      /\ OneEach(entries')
      /\ \A i \in DOMAIN entries' : EntrySound(entries[i])'
  BY <1>1, <1>3, <1>4, StoredEntriesSound
<1>6. CallSound(y)'
  BY <1>2 DEF CallSound, Current
<1>7. /\ DOMAIN reading' = Readers
      /\ reading' = [q \in Readers |-> reading'[q]]
      /\ \A q \in Readers :
            /\ IsRead(reading'[q])
            /\ reading'[q].step # "rest" => CallSound(reading[q])'
  BY <1>6, ReadersStay
<1>. QED
  BY <1>5, <1>7 DEF MetadataInv

LEMMA GetEntryKeeps ==
    ASSUME MetadataInv, NEW t \in Readers, GetEntry(t)
    PROVE  MetadataInv'
<1>1. /\ UNCHANGED <<text, saves, blank>> /\ reading[t].step = "get"
      /\ IsRead(reading[t]) /\ CallSound(reading[t])
  BY DEF GetEntry, MetadataInv
<1>2. CASE Position(CacheKey(t)) = {}
  <2> DEFINE y == [reading[t] EXCEPT !.step = "read"]
  <2>1. reading' = [reading EXCEPT ![t] = y] /\ UNCHANGED entries
    BY <1>2 DEF GetEntry
  <2>2. /\ IsRead(y) /\ y.step = "read" /\ y.note = reading[t].note
        /\ y.stat = reading[t].stat /\ y.found = reading[t].found
    BY <1>1 DEF IsRead, ReadFields
  <2>3. PICK x : x = y
    OBVIOUS
  <2>. HIDE DEF y
  <2>4. CallSound(x)'
    BY <1>1, <2>2, <2>3 DEF CallSound
  <2>. QED
    BY <1>1, <2>1, <2>2, <2>3, <2>4, CallGoesOn
<1>3. CASE Position(CacheKey(t)) # {}
  <2>1. PICK i \in Position(CacheKey(t)) :
           /\ entries' = PutLast(CacheKey(t), entries[i].found)
           /\ reading' = [reading EXCEPT ![t].step = "answered",
                                         ![t].found = entries[i].found]
    BY <1>3 DEF GetEntry
  <2>2. PICK found : found = entries[i].found
    OBVIOUS
  <2> DEFINE y == [reading[t] EXCEPT !.step = "answered", !.found = found]
  <2>3. reading' = [reading EXCEPT ![t] = y]
    BY <1>1, <2>1, <2>2 DEF IsRead, ReadFields
  <2>4. /\ IsRead(y) /\ y.step = "answered" /\ y.note = reading[t].note
        /\ y.stat = reading[t].stat /\ y.found = found
    BY <1>1 DEF IsRead, ReadFields
  <2>. HIDE DEF y
  <2>5. i \in DOMAIN entries /\ entries[i].key = CacheKey(t)
    BY <2>1 DEF Position
  <2>6. entries[i] \in Entries /\ EntrySound(entries[i])
    BY <2>5 DEF MetadataInv
  <2>7. found \in Nat /\ NotOlder(found, reading[t].stat)
        /\ Current(reading[t].note, reading[t].stat, found)
    BY <2>2, <2>5, <2>6 DEF Entries, EntrySound, CacheKey
  <2>8. entries' = PutLast(CacheKey(t), found)
    BY <2>1, <2>2
  <2>. QED
    BY <1>1, <1>3, <2>3, <2>4, <2>7, <2>8, AnswerKeeps
<1>. QED
  BY <1>2, <1>3

LEMMA SetEntryKeeps ==
    ASSUME MetadataInv, NEW t \in Readers, SetEntry(t)
    PROVE  MetadataInv'
<1>1. /\ UNCHANGED <<text, saves, blank>> /\ reading[t].step = "set"
      /\ IsRead(reading[t]) /\ CallSound(reading[t])
  BY DEF SetEntry, MetadataInv
<1>2. PICK found : found = reading[t].found
  OBVIOUS
<1> DEFINE y == [reading[t] EXCEPT !.step = "answered"]
<1>3. /\ reading' = [reading EXCEPT ![t] = y] /\ IsRead(y)
      /\ y.step = "answered" /\ y.note = reading[t].note
      /\ y.stat = reading[t].stat /\ y.found = found
  BY <1>1, <1>2 DEF SetEntry, IsRead, ReadFields
<1>. HIDE DEF y
<1>4. /\ found \in Nat /\ NotOlder(found, reading[t].stat)
      /\ Current(reading[t].note, reading[t].stat, found)
  BY <1>1, <1>2 DEF CallSound
<1>5. entries' = IF Len(PutLast(CacheKey(t), found)) > MaxSize
                 THEN Tail(PutLast(CacheKey(t), found))
                 ELSE PutLast(CacheKey(t), found)
  BY <1>2 DEF SetEntry
<1>. QED
  BY <1>1, <1>3, <1>4, <1>5, AnswerKeeps

LEMMA MetadataNextKeeps ==
    ASSUME MetadataInv, [MetadataNext]_metadataVars
    PROVE  MetadataInv'
<1>1. CASE UNCHANGED metadataVars
  BY <1>1 DEF metadataVars, MetadataInv, CallSound, EntrySound, Current
<1>2. CASE MetadataNext
  BY <1>2, TextChanges, StatNoteKeeps, GetEntryKeeps, ReadFrontmatterKeeps,
     SetEntryKeeps DEF MetadataNext
<1>. QED
  BY <1>1, <1>2

\* get_note_metadata never answers from an older file than its stat() saw,
\* and an entry the file as it is now leads to was parsed from that file,
\* however saves, removals and other threads come between stat(), the read
\* and cache.set; only a read that raised or a removal gives no fields.
THEOREM MetadataAlwaysCurrent == MetadataSpec => []MetadataIsCurrent
<1>1. MetadataInv => MetadataIsCurrent
  <2> SUFFICES ASSUME MetadataInv PROVE MetadataIsCurrent
    OBVIOUS
  <2>1. ASSUME NEW i \in DOMAIN entries,
               entries[i].key = <<entries[i].key[1], text[entries[i].key[1]]>>,
               entries[i].key \notin blank
        PROVE  entries[i].found = text[entries[i].key[1]]
    <3>1. EntrySound(entries[i])
      BY DEF MetadataInv
    <3>2. entries[i].key[2] = text[entries[i].key[1]]
      BY <2>1
    <3>. QED
      BY <2>1, <3>1, <3>2 DEF EntrySound, Current
  <2>2. ASSUME NEW t \in Readers, reading[t].step = "answered",
               reading[t].found < reading[t].stat
        PROVE  reading[t].found = NoFields
    BY <2>2 DEF MetadataInv, CallSound, NotOlder
  <2>3. Len(entries) <= MaxSize /\ OneEach(entries)
    BY DEF MetadataInv
  <2>. QED
    BY <2>1, <2>2, <2>3 DEF MetadataIsCurrent, OneEach
<1>. QED
  BY MetadataInitInv, MetadataNextKeeps, <1>1, PTL DEF MetadataSpec

(***************************************************************************)
(* The cache of query embeddings                                           *)
(*                                                                         *)
(* Of the queries served, the cache has the ones used last, in the order   *)
(* of their last use; one it does not have was used before all of them,    *)
(* and then the cache is full.                                             *)
(***************************************************************************)

IsLru(r, s) ==
    /\ r \in Seq(ToSet(s)) /\ Len(r) <= CacheSize
    /\ \A i, j \in 1..Len(r) : i < j => LastUse(s, r[i]) < LastUse(s, r[j])
    /\ \A q \in ToSet(s) \ ToSet(r) :
          /\ Len(r) = CacheSize
          /\ \A i \in 1..Len(r) : LastUse(s, q) < LastUse(s, r[i])

CacheInv ==
    /\ served \in Seq(ToSet(served)) /\ hits \in Nat /\ misses \in Nat
    /\ hits + misses = Len(served)
    /\ IsLru(recent, served)

\* The place i is the last one of q in s.
IsLast(s, q, i) ==
    i \in 1..Len(s) /\ s[i] = q /\ \A j \in 1..Len(s) : s[j] = q => j <= i

LEMMA LastUseIsLast ==
    ASSUME NEW T, NEW s \in Seq(T), NEW q \in ToSet(s)
    PROVE  IsLast(s, q, LastUse(s, q))
<1>1. PICK n \in Nat : n = Len(s)
  BY LenProperties
<1>2. PICK P : P = {i \in 1..n : s[i] = q}
  OBVIOUS
<1>3. P # {}
  BY <1>1, <1>2, LenProperties DEF ToSet
<1>4. P \in SUBSET (0..n)
  BY <1>2
<1>5. PICK m \in P : \A k \in P : k <= m
  BY <1>3, <1>4, GreatestNumber
<1>6. m \in 1..n /\ s[m] = q /\ \A j \in (m + 1)..n : s[j] # q
  BY <1>2, <1>5
<1>7. PICK u : u = LastUse(s, q)
  OBVIOUS
<1>8. u \in 1..n /\ s[u] = q /\ \A j \in (u + 1)..n : s[j] # q
  BY <1>1, <1>6, <1>7 DEF LastUse
<1>9. \A j \in 1..n : s[j] = q => j <= u
  BY <1>8
<1>. QED
  BY <1>1, <1>7, <1>8, <1>9 DEF IsLast

LEMMA LastIsLastUse ==
    ASSUME NEW T, NEW s \in Seq(T), NEW q, NEW i, IsLast(s, q, i)
    PROVE  LastUse(s, q) = i
<1>1. q \in ToSet(s)
  BY LenProperties DEF IsLast, ToSet
<1>2. PICK u : u = LastUse(s, q)
  OBVIOUS
<1>3. IsLast(s, q, u)
  BY <1>1, <1>2, LastUseIsLast
<1>4. Len(s) \in Nat
  BY LenProperties
<1>. QED
  BY <1>2, <1>3, <1>4 DEF IsLast

LEMMA LastUseNumber ==
    ASSUME NEW T, NEW s \in Seq(T), NEW q \in ToSet(s)
    PROVE  LastUse(s, q) \in 1..Len(s) /\ LastUse(s, q) \in Nat /\ Len(s) \in Nat
BY LastUseIsLast, LenProperties DEF IsLast

\* A use of q: no other query's last use moves.
UseAdded(T, s, q, t) ==
    /\ t \in Seq(T \cup {q}) /\ ToSet(t) = ToSet(s) \cup {q}
    /\ Len(t) = Len(s) + 1 /\ LastUse(t, q) = Len(s) + 1
    /\ \A p \in ToSet(s) : p # q => LastUse(t, p) = LastUse(s, p)

LEMMA LastUseAfter ==
    ASSUME NEW T, NEW s \in Seq(T), NEW q, NEW t, t = Append(s, q)
    PROVE  UseAdded(T, s, q, t)
<1>1. PICK n \in Nat : n = Len(s)
  BY LenProperties
<1>2. s \in Seq(T \cup {q})
  BY <1>1, LenProperties, ElementOfSeq
<1>3. /\ t \in Seq(T \cup {q}) /\ Len(t) = n + 1 /\ t[n + 1] = q
      /\ \A i \in 1..n : t[i] = s[i]
  BY <1>1, <1>2
<1>4. DOMAIN s = 1..n /\ DOMAIN t = 1..(n + 1)
  BY <1>1, <1>3, LenProperties
<1>5. ToSet(t) = ToSet(s) \cup {q}
  <2>1. \A i \in 1..(n + 1) : i = n + 1 \/ i \in 1..n
    OBVIOUS
  <2>2. 1..n \subseteq 1..(n + 1) /\ n + 1 \in 1..(n + 1)
    OBVIOUS
  <2>3. ToSet(s) = {s[i] : i \in 1..n} /\ ToSet(t) = {t[i] : i \in 1..(n + 1)}
    BY <1>4 DEF ToSet
  <2>4. \A x \in ToSet(t) : x \in ToSet(s) \cup {q}
    BY <1>3, <2>1, <2>3
  <2>5. \A x \in ToSet(s) \cup {q} : x \in ToSet(t)
    BY <1>3, <2>2, <2>3
  <2>. QED
    BY <2>4, <2>5
<1>6. LastUse(t, q) = n + 1
  <2>1. IsLast(t, q, n + 1)
    BY <1>3 DEF IsLast
  <2>. QED
    BY <1>3, <2>1, LastIsLastUse
<1>7. ASSUME NEW p \in ToSet(s), p # q PROVE LastUse(t, p) = LastUse(s, p)
  <2>1. PICK u : u = LastUse(s, p)
    OBVIOUS
  <2>2. u \in 1..n /\ s[u] = p /\ \A j \in 1..n : s[j] = p => j <= u
    BY <1>1, <2>1, LastUseIsLast DEF IsLast
  <2>3. u \in 1..(n + 1) /\ t[u] = p
    BY <1>3, <2>2
  <2>4. \A j \in 1..(n + 1) : t[j] = p => j <= u
    BY <1>3, <1>7, <2>2
  <2>5. IsLast(t, p, u)
    BY <1>3, <2>3, <2>4 DEF IsLast
  <2>. QED
    BY <1>3, <2>1, <2>5, LastIsLastUse
<1>. QED
  BY <1>1, <1>3, <1>5, <1>6, <1>7 DEF UseAdded

\* A query is put behind the other ones that stay.
LEMMA PutBehind ==
    ASSUME NEW s, s \in Seq(ToSet(s)), NEW q, NEW t, t = Append(s, q),
           NEW v \in Seq(ToSet(s)), Len(v) < CacheSize, q \notin ToSet(v),
           \A i, j \in 1..Len(v) : i < j => LastUse(s, v[i]) < LastUse(s, v[j]),
           \A p \in ToSet(s) \ (ToSet(v) \cup {q}) :
              /\ Len(v) + 1 = CacheSize
              /\ \A i \in 1..Len(v) : LastUse(s, p) < LastUse(s, v[i]),
           NEW r, r = Append(v, q)
    PROVE  IsLru(r, t)
<1>1. PICK n \in Nat : n = Len(s)
  BY LenProperties
<1>2. PICK k \in Nat : k = Len(v)
  BY LenProperties
<1>3. /\ t \in Seq(ToSet(s) \cup {q}) /\ ToSet(t) = ToSet(s) \cup {q}
      /\ LastUse(t, q) = n + 1
      /\ \A p \in ToSet(s) : p # q => LastUse(t, p) = LastUse(s, p)
  <2>1. PICK T : T = ToSet(s)
    OBVIOUS
  <2>2. UseAdded(T, s, q, t)
    BY <2>1, LastUseAfter
  <2>. QED
    BY <1>1, <2>1, <2>2 DEF UseAdded
<1>4. /\ r \in Seq(ToSet(s) \cup {q}) /\ ToSet(r) = ToSet(v) \cup {q}
      /\ Len(r) = k + 1 /\ r[k + 1] = q /\ \A i \in 1..k : r[i] = v[i]
  <2>1. r \in Seq(ToSet(s) \cup {q}) /\ ToSet(r) = ToSet(v) \cup {q}
    <3>1. PICK T : T = ToSet(s)
      OBVIOUS
    <3>2. UseAdded(T, v, q, r)
      BY <3>1, LastUseAfter
    <3>. QED
      BY <3>1, <3>2 DEF UseAdded
  <2>2. Len(r) = k + 1 /\ r[k + 1] = q /\ \A i \in 1..k : r[i] = v[i]
    BY <1>2
  <2>. QED
    BY <2>1, <2>2
<1>5. \A i \in 1..k : v[i] \in ToSet(s) /\ v[i] # q
  BY <1>2, LenProperties, ElementOfSeq DEF ToSet
<1>6. \A p \in ToSet(s) : p # q => LastUse(t, p) \in 1..n
  BY <1>1, <1>3, LastUseNumber
<1>7. CacheSize \in Nat
  BY SearcherAssumption
<1>8. ASSUME NEW i \in 1..(k + 1), NEW j \in 1..(k + 1), i < j
      PROVE  LastUse(t, r[i]) < LastUse(t, r[j])
  <2>1. i \in 1..k /\ r[i] = v[i] /\ r[i] \in ToSet(s) /\ r[i] # q
    BY <1>2, <1>4, <1>5, <1>8
  <2>2. CASE j = k + 1
    BY <1>3, <1>4, <1>6, <2>1, <2>2
  <2>3. CASE j # k + 1
    <3>1. j \in 1..k /\ r[j] = v[j] /\ r[j] \in ToSet(s) /\ r[j] # q
      BY <1>4, <1>5, <2>3
    <3>. QED
      BY <1>2, <1>3, <1>8, <2>1, <3>1
  <2>. QED
    BY <2>2, <2>3
<1>9. ASSUME NEW p \in ToSet(t) \ ToSet(r)
      PROVE  /\ k + 1 = CacheSize
             /\ \A i \in 1..(k + 1) : LastUse(t, p) < LastUse(t, r[i])
  <2>1. p \in ToSet(s) \ (ToSet(v) \cup {q})
    BY <1>3, <1>4
  <2>2. ASSUME NEW i \in 1..(k + 1) PROVE LastUse(t, p) < LastUse(t, r[i])
    <3>1. CASE i = k + 1
      BY <1>3, <1>4, <1>6, <2>1, <3>1
    <3>2. CASE i # k + 1
      <4>1. i \in 1..k /\ r[i] = v[i] /\ r[i] \in ToSet(s) /\ r[i] # q
        BY <1>4, <1>5, <3>2
      <4>. QED
        BY <1>2, <1>3, <2>1, <4>1
    <3>. QED
      BY <3>1, <3>2
  <2>. QED
    BY <1>2, <2>1, <2>2
<1>10. k + 1 <= CacheSize
  BY <1>2, <1>7
<1>. QED
  BY <1>3, <1>4, <1>8, <1>9, <1>10 DEF IsLru

\* In the order of last use nothing is there twice.
LEMMA LruOnce ==
    ASSUME NEW s, s \in Seq(ToSet(s)), NEW r, IsLru(r, s)
    PROVE  OnceEach(r)
<1> SUFFICES ASSUME NEW i \in 1..Len(r), NEW j \in 1..Len(r), r[i] = r[j], i # j
             PROVE  FALSE
  BY DEF OnceEach
<1>1. Len(r) \in Nat /\ r[i] \in ToSet(s)
  BY LenProperties, ElementOfSeq DEF IsLru
<1>2. LastUse(s, r[i]) \in Nat
  BY <1>1, LastUseNumber
<1>3. i < j \/ j < i
  BY <1>1
<1>. QED
  BY <1>2, <1>3 DEF IsLru

\* A hit: move_to_end.
LEMMA HitKeepsLru ==
    ASSUME NEW s, s \in Seq(ToSet(s)), NEW r, IsLru(r, s), NEW q \in ToSet(r)
    PROVE  IsLru(Append(Without(r, q), q), Append(s, q))
<1>1. PICK k \in Nat : k = Len(r)
  BY LenProperties DEF IsLru
<1>2. /\ r \in Seq(ToSet(s)) /\ DOMAIN r = 1..k /\ OnceEach(r) /\ k <= CacheSize
      /\ \A i \in 1..k : r[i] \in ToSet(s)
  BY <1>1, LruOnce, LenProperties, ElementOfSeq DEF IsLru
<1>3. PICK v, I : v = Without(r, q) /\ I = {i \in 1..k : r[i] # q}
  OBVIOUS
<1>4. v \in Seq(ToSet(s)) /\ ToSet(v) = ToSet(r) \ {q}
  BY <1>2, <1>3, WithoutOne
<1>5. PICK m \in 1..k : r[m] = q
  BY <1>2 DEF ToSet
<1>6. I = (1..k) \ {m}
  BY <1>1, <1>2, <1>3, <1>5 DEF OnceEach
<1>7. Cardinality(I) = k - 1
  <2>1. IsFiniteSet(1..k) /\ Cardinality(1..k) = k
    BY <1>5, FS_Interval
  <2>. QED
    BY <1>5, <1>6, <2>1, FS_RemoveElement
<1>8. v = At(r, I) /\ I \in SUBSET (1..Len(r))
  BY <1>1, <1>3 DEF Without
<1>9. Len(v) = k - 1
  BY <1>2, <1>7, <1>8, AtPlaces DEF PlacedAt
<1>10. PICK R : R = {p \in ToSet(s) \X ToSet(s) : LastUse(s, p[1]) < LastUse(s, p[2])}
  OBVIOUS
<1>11. OrderedBy(v, R)
  <2>1. OrderedBy(r, R)
    BY <1>1, <1>2, <1>10 DEF OrderedBy, IsLru
  <2>. QED
    BY <1>2, <1>8, <2>1, AtKeepsOrder
<1>12. \A i, j \in 1..Len(v) : i < j => LastUse(s, v[i]) < LastUse(s, v[j])
  BY <1>10, <1>11 DEF OrderedBy
<1>13. CacheSize \in Nat /\ k - 1 < CacheSize /\ q \notin ToSet(v)
  BY <1>2, <1>4, <1>5, SearcherAssumption
<1>14. ASSUME NEW p \in ToSet(s) \ (ToSet(v) \cup {q})
       PROVE  /\ Len(v) + 1 = CacheSize
              /\ \A i \in 1..Len(v) : LastUse(s, p) < LastUse(s, v[i])
  <2>1. p \in ToSet(s) \ ToSet(r)
    BY <1>4
  <2>2. k = CacheSize /\ \A i \in 1..k : LastUse(s, p) < LastUse(s, r[i])
    BY <1>1, <2>1 DEF IsLru
  <2>3. \A x \in ToSet(v) : LastUse(s, p) < LastUse(s, x)
    <3>1. \A x \in ToSet(r) : \E i \in 1..k : r[i] = x
      BY <1>2 DEF ToSet
    <3>. QED
      BY <1>4, <2>2, <3>1
  <2>4. \A i \in 1..Len(v) : v[i] \in ToSet(v)
    BY <1>4, LenProperties DEF ToSet
  <2>. QED
    BY <1>9, <2>2, <2>3, <2>4
<1>. QED
  <2>1. PICK t, u : t = Append(s, q) /\ u = Append(v, q)
    OBVIOUS
  <2>2. Len(v) < CacheSize
    BY <1>9, <1>13
  <2>3. IsLru(u, t)
    BY <1>4, <1>12, <1>13, <1>14, <2>1, <2>2, PutBehind
  <2>. QED
    BY <1>3, <2>1, <2>3

\* A miss: the entry used longest ago makes room.
LEMMA MissKeepsLru ==
    ASSUME NEW s, s \in Seq(ToSet(s)), NEW r, IsLru(r, s), NEW q, q \notin ToSet(r)
    PROVE  IsLru(Append(IF Len(r) >= CacheSize THEN Tail(r) ELSE r, q),
                 Append(s, q))
<1>1. PICK k \in Nat : k = Len(r)
  BY LenProperties DEF IsLru
<1>2. /\ r \in Seq(ToSet(s)) /\ DOMAIN r = 1..k /\ k <= CacheSize
      /\ CacheSize \in Nat \ {0}
      /\ \A i \in 1..k : r[i] \in ToSet(s)
      /\ \A i, j \in 1..k : i < j => LastUse(s, r[i]) < LastUse(s, r[j])
      /\ \A p \in ToSet(s) \ ToSet(r) :
            k = CacheSize /\ \A i \in 1..k : LastUse(s, p) < LastUse(s, r[i])
  BY <1>1, LenProperties, ElementOfSeq, SearcherAssumption DEF IsLru
<1>3. PICK t : t = Append(s, q)
  OBVIOUS
<1>4. ToSet(r) = {r[i] : i \in 1..k}
  BY <1>2 DEF ToSet
<1>5. CASE k < CacheSize
  <2>1. ToSet(s) \ ToSet(r) = {}
    BY <1>2, <1>5
  <2>2. PICK u : u = Append(r, q)
    OBVIOUS
  <2>3. IsLru(u, t)
    BY <1>1, <1>2, <1>3, <1>5, <2>1, <2>2, PutBehind
  <2>. QED
    BY <1>1, <1>2, <1>3, <1>5, <2>2, <2>3
<1>6. CASE k = CacheSize
  <2>1. PICK v : v = Tail(r)
    OBVIOUS
  <2>2. /\ v \in Seq(ToSet(s)) /\ Len(v) = k - 1
        /\ \A i \in 1..(k - 1) : v[i] = r[i + 1] /\ i + 1 \in 1..k
    BY <1>1, <1>2, <1>6, <2>1
  <2>3. DOMAIN v = 1..(k - 1)
    BY <2>2, LenProperties
  <2>4. \A x \in ToSet(v) : \E i \in 2..k : x = r[i]
    <3> SUFFICES ASSUME NEW i \in 1..(k - 1) PROVE \E j \in 2..k : v[i] = r[j]
      BY <2>3 DEF ToSet
    <3>1. i + 1 \in 2..k
      BY <1>1
    <3>. QED
      BY <2>2, <3>1
  <2>5. \A i \in 2..k : r[i] \in ToSet(v)
    <3> SUFFICES ASSUME NEW i \in 2..k PROVE r[i] \in ToSet(v)
      OBVIOUS
    <3>1. i - 1 \in 1..(k - 1) /\ (i - 1) + 1 = i
      BY <1>1
    <3>2. v[i - 1] = r[i]
      BY <2>2, <3>1
    <3>. QED
      BY <2>3, <3>1, <3>2 DEF ToSet
  <2>6. q \notin ToSet(v)
    BY <1>4, <2>4
  <2>7. \A i, j \in 1..Len(v) : i < j => LastUse(s, v[i]) < LastUse(s, v[j])
    BY <1>1, <1>2, <2>2
  <2>8. ASSUME NEW p \in ToSet(s) \ (ToSet(v) \cup {q})
        PROVE  /\ Len(v) + 1 = CacheSize
               /\ \A i \in 1..Len(v) : LastUse(s, p) < LastUse(s, v[i])
    <3>1. Len(v) + 1 = CacheSize
      BY <1>1, <1>6, <2>2
    <3>2. CASE p \in ToSet(r)
      <4>1. PICK i \in 1..k : p = r[i]
        BY <1>4, <3>2
      <4>2. i = 1
        BY <1>1, <2>5, <2>8, <4>1
      <4>. QED
        BY <1>1, <1>2, <2>2, <3>1, <4>1, <4>2
    <3>3. CASE p \notin ToSet(r)
      BY <1>2, <2>2, <3>1, <3>3
    <3>. QED
      BY <3>2, <3>3
  <2>9. PICK u : u = Append(v, q)
    OBVIOUS
  <2>10. Len(v) < CacheSize
    BY <1>1, <1>6, <2>2
  <2>11. IsLru(u, t)
    BY <1>3, <2>2, <2>6, <2>7, <2>8, <2>9, <2>10, PutBehind
  <2>. QED
    BY <1>1, <1>3, <1>6, <2>1, <2>9, <2>11
<1>. QED
  BY <1>1, <1>2, <1>5, <1>6

\* The queries used last are the end of all of them in the order of their
\* last use.
LEMMA LruIsEnd ==
    ASSUME NEW s, s \in Seq(ToSet(s)), NEW r, IsLru(r, s), NEW used,
           used = ByLastUse(s), NEW kept,
           kept = IF Len(used) > CacheSize THEN CacheSize ELSE Len(used)
    PROVE  r = SubSeq(used, Len(used) - kept + 1, Len(used))
<1>1. PICK S, R : S = ToSet(s) /\ R = {p \in S \X S : LastUse(s, p[1]) < LastUse(s, p[2])}
  OBVIOUS
<1>2. \A p \in S : LastUse(s, p) \in 1..Len(s) /\ LastUse(s, p) \in Nat
  BY <1>1, LastUseNumber
<1>3. \A p, q \in S : LastUse(s, p) = LastUse(s, q) => p = q
  BY <1>1, LastUseIsLast DEF IsLast
<1>4. \A p, q \in S : <<p, q>> \in R <=> LastUse(s, p) < LastUse(s, q)
  BY <1>1
<1>5. IsStrictOrder(R, S)
  BY <1>2, <1>3, <1>4 DEF IsStrictOrder
<1>6. IsFiniteSet(S)
  <2>1. IsFiniteSet(1..Len(s))
    BY LenProperties, FS_Interval
  <2>2. PICK f : f = [p \in S |-> LastUse(s, p)]
    OBVIOUS
  <2>3. f \in Injection(S, 1..Len(s))
    BY <1>2, <1>3, <2>2 DEF Injection, IsInjective
  <2>. QED
    BY <2>1, <2>3, FS_Injection
<1>7. PICK n \in Nat : n = Cardinality(S)
  BY <1>6, FS_CardinalityType
<1>8. used = Sorted(S, R) /\ Len(used) = n /\ used \in Seq(S)
  <2>1. used = Sorted(S, R)
    BY <1>1 DEF ByLastUse
  <2>2. InOrder(used, S, R)
    BY <1>5, <1>6, <2>1, SortedIsSorted
  <2>. QED
    BY <1>7, <2>1, <2>2 DEF InOrder
<1>9. PICK k \in Nat : k = Len(r)
  BY LenProperties DEF IsLru
<1>10. /\ r \in Seq(S) /\ OnceEach(r) /\ k <= CacheSize /\ CacheSize \in Nat
       /\ DOMAIN r = 1..k /\ \A i \in 1..k : r[i] \in S
  BY <1>1, <1>9, LruOnce, LenProperties, ElementOfSeq, SearcherAssumption DEF IsLru
<1>11. PICK K : K = ToSet(r)
  OBVIOUS
<1>12. K = {r[i] : i \in 1..k} /\ K \in SUBSET S
  BY <1>10, <1>11 DEF ToSet
<1>13. IsFiniteSet(K)
  BY <1>6, <1>12, FS_Subset
<1>14. \A m \in 0..k : /\ IsFiniteSet({r[i] : i \in 1..m})
                       /\ Cardinality({r[i] : i \in 1..m}) = m
  <2> TAKE m \in 0..k
  <2>1. PICK f, V : f = [i \in 1..m |-> r[i]] /\ V = {r[i] : i \in 1..m}
    OBVIOUS
  <2>2. \A i \in 1..m : i \in 1..k
    OBVIOUS
  <2>3. f \in [1..m -> V] /\ (\A i, j \in 1..m : f[i] = f[j] => i = j)
        /\ \A x \in V : \E i \in 1..m : f[i] = x
    BY <1>9, <1>10, <2>1, <2>2 DEF OnceEach
  <2>4. ExistsBijection(1..m, V)
    BY <2>3 DEF ExistsBijection, Bijection, Injection, IsInjective, Surjection
  <2>5. IsFiniteSet(1..m) /\ Cardinality(1..m) = m
    BY FS_Interval
  <2>. QED
    BY <2>1, <2>4, <2>5, FS_Bijection
<1>15. Cardinality(K) = k
  <2>1. k \in 0..k
    OBVIOUS
  <2>. QED
    BY <1>12, <1>14, <2>1
<1>16. k = (IF n > CacheSize THEN CacheSize ELSE n) /\ k <= n
  <2>1. k <= n /\ (k = n => K = S)
    BY <1>6, <1>7, <1>12, <1>15, FS_Subset
  <2>2. CASE K = S
    BY <1>7, <1>10, <1>15, <2>2
  <2>3. CASE K # S
    <3>1. k = CacheSize
      BY <1>1, <1>9, <1>11, <1>12, <2>3 DEF IsLru
    <3>. QED
      BY <2>1, <2>2, <2>3, <3>1, <1>7, <1>15
  <2>. QED
    BY <2>2, <2>3
<1>17. ASSUME NEW i \in 1..k PROVE used[n - k + i] = r[i]
  <2>1. PICK A, B, x : A = S \ K /\ B = {r[j] : j \in 1..(i - 1)} /\ x = r[i]
    OBVIOUS
  <2>2. x \in S
    BY <1>10, <2>1
  <2>3. ASSUME NEW y \in S PROVE LastUse(s, y) < LastUse(s, x) <=> y \in A \cup B
    <3>1. CASE y \in A
      BY <1>1, <1>9, <1>11, <2>1, <3>1 DEF IsLru
    <3>2. CASE y \notin A
      <4>1. PICK j \in 1..k : y = r[j]
        BY <1>12, <2>1, <3>2
      <4>2. CASE j < i
        <5>1. j \in 1..(i - 1)
          BY <4>2
        <5>. QED
          BY <1>9, <2>1, <4>1, <4>2, <5>1 DEF IsLru
      <4>3. CASE ~(j < i)
        <5>1. ~(LastUse(s, y) < LastUse(s, x))
          <6>1. CASE j = i
            BY <1>2, <2>1, <2>2, <4>1, <6>1
          <6>2. CASE i < j
            <7>1. LastUse(s, x) < LastUse(s, y)
              BY <1>9, <2>1, <4>1, <6>2 DEF IsLru
            <7>. QED
              BY <1>2, <2>2, <7>1
          <6>. QED
            BY <4>3, <6>1, <6>2
        <5>2. y \notin B
          <6> SUFFICES ASSUME NEW l \in 1..(i - 1), y = r[l] PROVE FALSE
            BY <2>1
          <6>1. l \in 1..k /\ r[l] = r[j]
            BY <4>1
          <6>2. l = j
            BY <1>9, <1>10, <4>1, <6>1 DEF OnceEach
          <6>. QED
            BY <4>3, <6>2
        <5>. QED
          BY <3>2, <5>1, <5>2
      <4>. QED
        BY <4>2, <4>3
    <3>. QED
      BY <3>1, <3>2
  <2>4. Before(R, S, x) = A \cup B
    <3>1. A \cup B \subseteq S
      <4>1. \A j \in 1..(i - 1) : j \in 1..k
        OBVIOUS
      <4>. QED
        BY <1>10, <2>1, <4>1
    <3>. QED
      BY <1>4, <2>2, <2>3, <3>1 DEF Before
  <2>5. IsFiniteSet(A) /\ Cardinality(A) = n - k
    <3>1. S \cap K = K
      BY <1>12
    <3>2. /\ IsFiniteSet(S \ K)
          /\ Cardinality(S \ K) = Cardinality(S) - Cardinality(S \cap K)
      BY <1>6, FS_Difference
    <3>. QED
      BY <1>7, <1>15, <2>1, <3>1, <3>2
  <2>6. i - 1 \in 0..k
    OBVIOUS
  <2>7. IsFiniteSet(B) /\ Cardinality(B) = i - 1
    BY <1>14, <2>1, <2>6
  <2>8. A \cap B = {}
    <3>1. \A j \in 1..(i - 1) : r[j] \in K
      BY <1>12
    <3>. QED
      BY <2>1, <3>1
  <2>9. Cardinality(A \cup B) = (n - k) + (i - 1)
    <3>1. Cardinality(A \cup B) =
            Cardinality(A) + Cardinality(B) - Cardinality(A \cap B)
      BY <2>5, <2>7, FS_Union
    <3>2. Cardinality(A \cap B) = 0
      BY <2>8, FS_EmptySet
    <3>. QED
      BY <2>5, <2>7, <3>1, <3>2
  <2>10. n - k + i = Cardinality(Before(R, S, x)) + 1
    BY <2>4, <2>9
  <2>11. Sorted(S, R)[n - k + i] = x
    BY <1>5, <1>6, <2>2, <2>10, SortedPlace
  <2>. QED
    BY <1>8, <2>1, <2>11
<1>18. PICK t : t = SubSeq(used, n - k + 1, n)
  OBVIOUS
<1>19. t \in Seq(S) /\ Len(t) = k /\ \A i \in 1..k : t[i] = used[n - k + i]
  <2>1. n - k + 1 \in Int /\ n - k + 1 >= 1
    BY <1>16
  <2>2. \A i \in (n - k + 1)..n : used[i] \in S
    BY <1>8, <2>1, ElementOfSeq
  <2>3. /\ t \in Seq(S)
        /\ Len(t) = (IF n - k + 1 <= n THEN n - (n - k + 1) + 1 ELSE 0)
        /\ \A i \in 1..(n - (n - k + 1) + 1) : t[i] = used[(n - k + 1) + i - 1]
    BY <1>18, <2>1, <2>2, SubSeqProperties
  <2>4. n - (n - k + 1) + 1 = k /\ (n - k + 1 <= n <=> k > 0)
    OBVIOUS
  <2>5. \A i \in 1..k : (n - k + 1) + i - 1 = n - k + i
    OBVIOUS
  <2>. QED
    BY <2>3, <2>4, <2>5
<1>20. r = t
  <2>1. \A i \in 1..k : r[i] = t[i]
    BY <1>17, <1>19
  <2>. QED
    BY <1>9, <1>10, <1>19, <2>1, SeqEqual
<1>. QED
  BY <1>8, <1>16, <1>18, <1>20

LEMMA CacheInvInit == SearcherInit => CacheInv
<1> SUFFICES ASSUME SearcherInit PROVE CacheInv
  OBVIOUS
<1>1. served = <<>> /\ recent = <<>> /\ hits = 0 /\ misses = 0
  BY DEF SearcherInit
<1>2. ToSet(served) = {} /\ served \in Seq({}) /\ Len(served) = 0
  BY <1>1 DEF ToSet
<1>3. CacheSize \in Nat
  BY SearcherAssumption
<1>4. IsLru(recent, served)
  BY <1>1, <1>2, <1>3 DEF IsLru
<1>. QED
  BY <1>1, <1>2, <1>4 DEF CacheInv

\* An embedding is handed out.
LEMMA ServedKeepsCache ==
    ASSUME CacheInv, NEW q, served' = Append(served, q),
           \/ hits' = hits + 1 /\ misses' = misses
           \/ hits' = hits /\ misses' = misses + 1,
           \/ /\ Contains(recent, q)
              /\ recent' = Append(Without(recent, q), q)
           \/ /\ ~Contains(recent, q)
              /\ recent' = Append(IF Len(recent) >= CacheSize THEN Tail(recent)
                                  ELSE recent, q)
    PROVE  CacheInv'
<1>1. PICK s, r, T : s = served /\ r = recent /\ T = ToSet(served)
  OBVIOUS
<1>2. s \in Seq(T) /\ IsLru(r, s) /\ T = ToSet(s)
  BY <1>1 DEF CacheInv
<1>3. PICK t : t = Append(s, q)
  OBVIOUS
<1>4. t \in Seq(ToSet(t)) /\ Len(t) = Len(s) + 1 /\ Len(s) \in Nat
  <2>1. UseAdded(T, s, q, t)
    BY <1>2, <1>3, LastUseAfter
  <2>. QED
    BY <1>2, <2>1, LenProperties DEF UseAdded
<1>5. Contains(recent, q) <=> q \in ToSet(r)
  <2>1. r \in Seq(T)
    BY <1>2 DEF IsLru
  <2>2. DOMAIN r = 1..Len(r)
    BY <2>1, LenProperties
  <2>. QED
    BY <1>1, <2>2 DEF Contains, ToSet
<1>6. IsLru(recent', t)
  <2>1. CASE /\ Contains(recent, q)
             /\ recent' = Append(Without(recent, q), q)
    <3>1. PICK u : u = recent'
      OBVIOUS
    <3>2. IsLru(u, t)
      BY <1>1, <1>2, <1>3, <1>5, <2>1, <3>1, HitKeepsLru
    <3>. QED
      BY <3>1, <3>2
  <2>2. CASE /\ ~Contains(recent, q)
             /\ recent' = Append(IF Len(recent) >= CacheSize THEN Tail(recent)
                                 ELSE recent, q)
    <3>1. PICK u : u = recent'
      OBVIOUS
    <3>2. IsLru(u, t)
      BY <1>1, <1>2, <1>3, <1>5, <2>2, <3>1, MissKeepsLru
    <3>. QED
      BY <3>1, <3>2
  <2>. QED
    BY <2>1, <2>2
<1>7. served' = t
  BY <1>1, <1>3
<1>8. hits' \in Nat /\ misses' \in Nat /\ hits' + misses' = Len(served')
  BY <1>1, <1>4, <1>7 DEF CacheInv
<1>. QED
  BY <1>4, <1>6, <1>7, <1>8 DEF CacheInv

LEMMA CacheNextKeeps == CacheInv /\ [SearcherNext]_searcherVars => CacheInv'
<1> SUFFICES ASSUME CacheInv, [SearcherNext]_searcherVars PROVE CacheInv'
  OBVIOUS
<1>1. CASE UNCHANGED cacheVars
  BY <1>1 DEF cacheVars, CacheInv
<1>2. ASSUME NEW t \in Searchers, LookUp(t) PROVE CacheInv'
  <2>1. CASE Contains(recent, work[t].query)
    <3>1. PICK q : q = work[t].query
      OBVIOUS
    <3>2. /\ served' = Append(served, q) /\ hits' = hits + 1 /\ misses' = misses
          /\ recent' = Append(Without(recent, q), q)
      BY <1>2, <2>1, <3>1 DEF LookUp, MoveToEnd, ServeEmbedding
    <3>. QED
      BY <2>1, <3>1, <3>2, ServedKeepsCache
  <2>2. CASE ~Contains(recent, work[t].query)
    BY <1>1, <1>2, <2>2 DEF LookUp, cacheVars
  <2>. QED
    BY <2>1, <2>2
<1>3. ASSUME NEW t \in Searchers, InsertEmbedding(t) PROVE CacheInv'
  <2>1. PICK q : q = work[t].query
    OBVIOUS
  <2>2. served' = Append(served, q) /\ misses' = misses + 1 /\ hits' = hits
    BY <1>3, <2>1 DEF InsertEmbedding, ServeEmbedding
  <2>3. \/ /\ Contains(recent, q)
           /\ recent' = Append(Without(recent, q), q)
        \/ /\ ~Contains(recent, q)
           /\ recent' = Append(IF Len(recent) >= CacheSize THEN Tail(recent)
                               ELSE recent, q)
    BY <1>3, <2>1 DEF InsertEmbedding, MoveToEnd
  <2>. QED
    BY <2>2, <2>3, ServedKeepsCache
<1>4. CASE UNCHANGED searcherVars
  BY <1>1, <1>4 DEF searcherVars, cacheVars
<1>5. ASSUME NEW t \in Searchers,
             \/ BeginWork(t) \/ EmbedQuery(t) \/ CheckTable(t) \/ OpenTable(t)
             \/ StoreTable(t) \/ ReturnTable(t)
      PROVE  CacheInv'
  BY <1>1, <1>5
     DEF BeginWork, EmbedQuery, CheckTable, OpenTable, StoreTable, ReturnTable
<1>6. CASE CommitIndex \/ CommitSync \/ InvalidateCache
  BY <1>1, <1>6 DEF CommitIndex, CommitSync, InvalidateCache
<1>. QED
  BY <1>2, <1>3, <1>4, <1>5, <1>6 DEF SearcherNext, SearchSteps

\* Whatever searches overlap, the embedding cache of the searcher holds
\* exactly the queries served last, in the order of their last use, and hits
\* and misses add up to the embeddings handed out.
THEOREM CacheIsLru == SearcherSpec => []CacheKeepsMostRecent
<1>1. CacheInv => CacheKeepsMostRecent
  <2> SUFFICES ASSUME CacheInv PROVE CacheKeepsMostRecent
    OBVIOUS
  <2>1. PICK s, r, used : s = served /\ r = recent /\ used = ByLastUse(served)
    OBVIOUS
  <2>2. PICK kept : kept = IF Len(used) > CacheSize THEN CacheSize ELSE Len(used)
    OBVIOUS
  <2>3. s \in Seq(ToSet(s)) /\ IsLru(r, s) /\ used = ByLastUse(s)
    BY <2>1 DEF CacheInv
  <2>4. r = SubSeq(used, Len(used) - kept + 1, Len(used))
    BY <2>2, <2>3, LruIsEnd
  <2>. QED
    BY <2>1, <2>2, <2>4 DEF CacheKeepsMostRecent, CacheInv
<1>. QED
  BY <1>1, CacheInvInit, CacheNextKeeps, PTL DEF SearcherSpec

(***************************************************************************)
(* What the server remembers                                               *)
(***************************************************************************)

\* The invariant CachesSound of every behaviour in which the searcher and the
\* metadata reads run: the embedding cache of core/searcher.py keeps what was
\* used last, its table handle is stale only after a race, and the metadata
\* cache of crud/cache.py gives no old answer.
THEOREM ServerCachesSound == SearcherSpec /\ MetadataSpec => []CachesSound
<1>1. CacheKeepsMostRecent /\ StaleOnlyIfRaced /\ MetadataIsCurrent
        => CachesSound
  BY DEF CachesSound
<1>. QED
  BY <1>1, CacheIsLru, HandleStaleOnlyIfRaced, MetadataAlwaysCurrent, PTL

(***************************************************************************)
(* Reachability                                                            *)
(***************************************************************************)

\* No edge of the notes in s leaves t.
Closed(t, s) == \A w \in t : adjacency[w] \cap s \subseteq t

\* One more step along the edges.
Wider(r, s) == r \cup (s \cap UNION {adjacency[w] : w \in r})

\* The sets Reach goes through.
IsWalk(g, n, v, s) ==
    g = [k \in 0..n |-> IF k = 0 THEN {v} \cap s ELSE Wider(g[k - 1], s)]

LEMMA WalkExists ==
    ASSUME NEW v, NEW s, NEW n \in Nat
    PROVE  \E g : IsWalk(g, n, v, s)
<1> DEFINE P == {m \in Nat : \E g : IsWalk(g, m, v, s)}
<1>1. 0 \in P
  <2> DEFINE g == [k \in 0..0 |-> {v} \cap s]
  <2>1. IsWalk(g, 0, v, s)
    BY DEF IsWalk
  <2>. QED
    BY <2>1
<1>2. ASSUME NEW m \in Nat, m \in P PROVE m + 1 \in P
  <2>1. PICK g : IsWalk(g, m, v, s)
    BY <1>2
  <2> DEFINE h == [k \in 0..(m + 1) |->
                     IF k = m + 1 THEN Wider(g[m], s) ELSE g[k]]
  <2>2. ASSUME NEW k \in 0..(m + 1)
        PROVE  h[k] = IF k = 0 THEN {v} \cap s ELSE Wider(h[k - 1], s)
    <3>1. CASE k = m + 1
      BY <3>1
    <3>2. CASE k # m + 1
      <4>1. k \in 0..m
        BY <3>2
      <4>2. g[k] = IF k = 0 THEN {v} \cap s ELSE Wider(g[k - 1], s)
        BY <2>1, <4>1 DEF IsWalk
      <4>3. k # 0 => h[k - 1] = g[k - 1]
        BY <4>1
      <4>. QED
        BY <3>2, <4>2, <4>3
    <3>. QED
      BY <3>1, <3>2
  <2>3. IsWalk(h, m + 1, v, s)
    <3>1. h = [k \in 0..(m + 1) |-> h[k]]
      OBVIOUS
    <3>. HIDE DEF h
    <3>. QED
      BY <2>2, <3>1 DEF IsWalk
  <2>. QED
    BY <2>3
<1>3. Nat \subseteq P
  <2>. HIDE DEF P
  <2>. QED
    BY <1>1, <1>2, NumberInduction
<1>. QED
  BY <1>3

LEMMA ReachIsWalk ==
    ASSUME NEW v, NEW s, Cardinality(Vertices) \in Nat
    PROVE  \E g : /\ IsWalk(g, Cardinality(Vertices), v, s)
                  /\ Reach(v, s) = g[Cardinality(Vertices)]
<1>1. \E g : IsWalk(g, Cardinality(Vertices), v, s)
  BY WalkExists
<1>. QED
  BY <1>1 DEF Reach, IsWalk, Wider

LEMMA WalkStaysIn ==
    ASSUME NEW v, NEW s, NEW n \in Nat, NEW g, IsWalk(g, n, v, s),
           NEW t, v \in t, Closed(t, s)
    PROVE  \A k \in 0..n : g[k] \subseteq t \cap s
<1> DEFINE P == {k \in Nat : k <= n => g[k] \subseteq t \cap s}
<1>0. \A k \in 0..n :
         g[k] = IF k = 0 THEN {v} \cap s ELSE Wider(g[k - 1], s)
  BY DEF IsWalk
<1>1. 0 \in P
  BY <1>0
<1>2. ASSUME NEW k \in 0..n, k \in P, k < n PROVE k + 1 \in P
  <2>1. g[k + 1] = Wider(g[k], s)
    <3>1. k + 1 \in 0..n /\ k + 1 # 0 /\ (k + 1) - 1 = k
      BY <1>2
    <3>. QED
      BY <1>0, <3>1
  <2>2. g[k] \subseteq t \cap s
    BY <1>2
  <2>. QED
    BY <2>1, <2>2 DEF Wider, Closed
<1>3. \A k \in 0..n : k \in P
  <2>. HIDE DEF P
  <2>. QED
    BY <1>1, <1>2, IntervalInduction
<1>. QED
  BY <1>3

\* In a finite set the walk is closed before its length exceeds the size of
\* the set.
LEMMA WalkCloses ==
    ASSUME NEW s, IsFiniteSet(s), NEW v \in s, NEW n \in Nat, NEW g,
           IsWalk(g, n, v, s), Cardinality(s) <= n
    PROVE  v \in g[n] /\ Closed(g[n], s)
<1>0. \A k \in 0..n :
         g[k] = IF k = 0 THEN {v} \cap s ELSE Wider(g[k - 1], s)
  BY DEF IsWalk
<1>1. \A k \in 0..n : g[k] \subseteq s
  <2>1. Closed(s, s)
    BY DEF Closed
  <2>. QED
    BY <2>1, WalkStaysIn
<1>2. \A t \in SUBSET s : IsFiniteSet(t) /\ Cardinality(t) \in Nat
                           /\ Cardinality(t) <= Cardinality(s)
  BY FS_Subset, FS_CardinalityType
<1>3. Cardinality(s) \in Nat
  BY <1>2
<1> DEFINE P == {k \in Nat : k <= n =>
                   v \in g[k] /\ (Closed(g[k], s) \/ Cardinality(g[k]) >= k + 1)}
<1>4. 0 \in P
  <2>1. g[0] = {v}
    BY <1>0
  <2>2. Cardinality(g[0]) = 1
    BY <2>1, FS_Singleton
  <2>. QED
    BY <2>1, <2>2
<1>5. ASSUME NEW k \in 0..n, k \in P, k < n PROVE k + 1 \in P
  <2>1. g[k + 1] = Wider(g[k], s) /\ v \in g[k]
    <3>1. k + 1 \in 0..n /\ k + 1 # 0 /\ (k + 1) - 1 = k
      BY <1>5
    <3>. QED
      BY <1>0, <1>5, <3>1
  <2>2. g[k] \subseteq g[k + 1] /\ v \in g[k + 1]
    BY <2>1 DEF Wider
  <2>3. CASE Closed(g[k], s)
    <3>1. g[k + 1] = g[k]
      BY <1>1, <1>5, <2>1, <2>3 DEF Wider, Closed
    <3>. QED
      BY <2>2, <2>3, <3>1
  <2>4. CASE ~Closed(g[k], s)
    <3>1. g[k + 1] # g[k]
      BY <2>1, <2>4 DEF Wider, Closed
    <3>2. Cardinality(g[k]) >= k + 1
      BY <1>5, <2>4
    <3>3. g[k + 1] \in SUBSET s /\ g[k] \in SUBSET s
      BY <1>1, <1>5
    <3>4. /\ Cardinality(g[k]) <= Cardinality(g[k + 1])
          /\ Cardinality(g[k]) # Cardinality(g[k + 1])
      BY <1>2, <2>2, <3>1, <3>3, FS_Subset
    <3>5. Cardinality(g[k]) \in Nat /\ Cardinality(g[k + 1]) \in Nat
      BY <1>2, <3>3
    <3>6. Cardinality(g[k + 1]) >= k + 2
      BY <3>2, <3>4, <3>5
    <3>. QED
      BY <2>2, <3>6
  <2>. QED
    BY <2>3, <2>4
<1>6. \A k \in 0..n : k \in P
  <2>. HIDE DEF P
  <2>. QED
    BY <1>4, <1>5, IntervalInduction
<1>7. v \in g[n] /\ (Closed(g[n], s) \/ Cardinality(g[n]) >= n + 1)
  BY <1>6
<1>8. Cardinality(g[n]) \in Nat /\ Cardinality(g[n]) <= Cardinality(s)
  BY <1>1, <1>2
<1>. QED
  BY <1>3, <1>7, <1>8

\* Reach(v, s) is the least set with v that no edge of s leaves.
LEMMA ReachIsLeast ==
    ASSUME NEW s \in SUBSET Vertices, NEW v \in s
    PROVE  /\ v \in Reach(v, s) /\ Reach(v, s) \subseteq s
           /\ Closed(Reach(v, s), s)
           /\ \A t : v \in t /\ Closed(t, s) => Reach(v, s) \subseteq t
<1>1. PICK n \in Nat : /\ IsFiniteSet(s) /\ n = Cardinality(Vertices)
                       /\ Cardinality(s) <= n
  BY GraphAssumption, FS_Subset, FS_CardinalityType
<1>2. PICK g : IsWalk(g, n, v, s) /\ Reach(v, s) = g[n]
  BY <1>1, ReachIsWalk
<1>3. v \in Reach(v, s) /\ Closed(Reach(v, s), s)
  BY <1>1, <1>2, WalkCloses
<1>4. ASSUME NEW t, v \in t, Closed(t, s) PROVE Reach(v, s) \subseteq t \cap s
  <2>1. n \in 0..n
    OBVIOUS
  <2>2. \A k \in 0..n : g[k] \subseteq t \cap s
    BY <1>2, <1>4, WalkStaysIn
  <2>. QED
    BY <1>2, <2>1, <2>2
<1>5. Closed(s, s)
  BY DEF Closed
<1>. QED
  BY <1>3, <1>4, <1>5

(***************************************************************************)
(* Clusters                                                                *)
(***************************************************************************)

\* Edges have no direction.
GraphIsUndirected ==
    /\ adjacency \in [Vertices -> SUBSET Vertices]
    /\ \A v \in Vertices : \A w \in adjacency[v] : v \in adjacency[w]

\* Nothing that no edge leaves has a part of c only.
Together(c) ==
    \A t \in SUBSET Linked : Closed(t, Linked) /\ t \cap c # {} => c \subseteq t

\* c is a connected component of the linked notes.
IsComponent(c) == c # {} /\ Closed(c, Linked) /\ Together(c)

ClustersInv ==
    /\ GraphIsUndirected
    /\ clusters \subseteq SUBSET Linked
    /\ cluster \subseteq Linked /\ queue \subseteq Linked
    /\ visited = cluster \cup UNION clusters
    /\ cluster \cap UNION clusters = {}
    /\ queue \cap visited = {}
    /\ \A c \in clusters : IsComponent(c)
    /\ Together(cluster \cup queue)
    /\ \A v \in cluster : adjacency[v] \subseteq cluster \cup queue

LEMMA ClustersInitInv == GraphInit => ClustersInv
<1> SUFFICES ASSUME GraphInit PROVE ClustersInv
  OBVIOUS
<1>1. PICK edges : adjacency = Adjacency(edges)
  BY DEF GraphInit
<1>2. GraphIsUndirected
  <2>1. \A v, w : {v, w} = {w, v}
    OBVIOUS
  <2>. QED
    BY <1>1, <2>1 DEF Adjacency, GraphIsUndirected
<1>3. /\ visited = {} /\ queue = {} /\ cluster = {} /\ clusters = {}
  BY DEF GraphInit
<1>. QED
  BY <1>2, <1>3 DEF ClustersInv, Together

\* The neighbours of a linked note are linked.
LEMMA NeighboursAreLinked ==
    ASSUME GraphIsUndirected, NEW v \in Vertices
    PROVE  adjacency[v] \subseteq Linked
BY DEF GraphIsUndirected, Linked

LEMMA StartKeepsClusters ==
    ASSUME ClustersInv, NEW v \in Vertices, StartCluster(v)
    PROVE  ClustersInv'
<1>1. /\ cluster = {} /\ v \in Linked \ visited /\ queue' = {v}
      /\ UNCHANGED <<adjacency, visited, cluster, clusters>>
  BY DEF StartCluster
<1>2. Linked' = Linked
  BY <1>1 DEF Linked
<1>3. Together(cluster \cup queue)'
  BY <1>1, <1>2 DEF Together, Closed
<1>4. \A c \in clusters : IsComponent(c)'
  BY <1>1, <1>2 DEF ClustersInv, IsComponent, Together, Closed
<1>. QED
  BY <1>1, <1>2, <1>3, <1>4 DEF ClustersInv, GraphIsUndirected

LEMMA GrowKeepsClusters ==
    ASSUME ClustersInv, NEW v \in Vertices, GrowCluster(v)
    PROVE  ClustersInv'
<1>1. /\ v \in queue /\ visited' = visited \cup {v}
      /\ cluster' = cluster \cup {v}
      /\ queue' = (queue \ {v}) \cup (adjacency[v] \ visited')
      /\ UNCHANGED <<adjacency, clusters>>
  BY DEF GrowCluster
<1>2. Linked' = Linked
  BY <1>1 DEF Linked
<1>3. adjacency[v] \subseteq Linked /\ v \in Linked /\ GraphIsUndirected
  BY <1>1, NeighboursAreLinked DEF ClustersInv
<1>4. adjacency[v] \cap UNION clusters = {}
  <2> SUFFICES ASSUME NEW c \in clusters, NEW w \in c, w \in adjacency[v]
               PROVE  FALSE
    OBVIOUS
  <2>1. v \in adjacency[w]
    BY DEF ClustersInv, GraphIsUndirected
  <2>2. Closed(c, Linked)
    BY DEF ClustersInv, IsComponent
  <2>3. v \in c
    BY <1>3, <2>1, <2>2 DEF Closed
  <2>. QED
    BY <1>1, <2>3 DEF ClustersInv
<1>5. adjacency[v] \subseteq cluster' \cup queue'
  BY <1>1, <1>4 DEF ClustersInv
<1>6. cluster' \cup queue' = cluster \cup queue \cup adjacency[v]
  BY <1>1, <1>5
<1>7. Together(cluster \cup queue)'
  <2> SUFFICES ASSUME NEW t \in SUBSET Linked, Closed(t, Linked),
                      t \cap (cluster \cup queue \cup adjacency[v]) # {}
               PROVE  cluster \cup queue \cup adjacency[v] \subseteq t
    BY <1>1, <1>2, <1>6 DEF Together, Closed
  <2>1. t \cap (cluster \cup queue) # {}
    <3>1. CASE t \cap adjacency[v] # {}
      <4>1. PICK w \in t : w \in adjacency[v]
        BY <3>1
      <4>2. v \in adjacency[w]
        BY <1>3, <4>1 DEF GraphIsUndirected
      <4>3. v \in t
        BY <1>3, <4>1, <4>2 DEF Closed
      <4>. QED
        BY <1>1, <4>3
    <3>. QED
      BY <3>1
  <2>2. cluster \cup queue \subseteq t
    BY <2>1 DEF ClustersInv, Together
  <2>3. adjacency[v] \subseteq t
    BY <1>1, <1>3, <2>2 DEF Closed
  <2>. QED
    BY <2>2, <2>3
<1>8. \A c \in clusters : IsComponent(c)'
  BY <1>1, <1>2 DEF ClustersInv, IsComponent, Together, Closed
<1>9. \A u \in cluster' : adjacency[u] \subseteq cluster' \cup queue'
  BY <1>1, <1>5, <1>6 DEF ClustersInv
<1>10. /\ cluster' \subseteq Linked /\ queue' \subseteq Linked
       /\ clusters \subseteq SUBSET Linked
  BY <1>1, <1>3 DEF ClustersInv
<1>11. /\ visited' = cluster' \cup UNION clusters
       /\ cluster' \cap UNION clusters = {} /\ queue' \cap visited' = {}
  BY <1>1 DEF ClustersInv
<1>. QED
  BY <1>1, <1>2, <1>3, <1>7, <1>8, <1>9, <1>10, <1>11
     DEF ClustersInv, GraphIsUndirected

LEMMA EndKeepsClusters ==
    ASSUME ClustersInv, EndCluster
    PROVE  ClustersInv'
<1>1. /\ cluster # {} /\ queue = {} /\ clusters' = clusters \cup {cluster}
      /\ cluster' = {} /\ UNCHANGED <<adjacency, visited, queue>>
  BY DEF EndCluster
<1>2. Linked' = Linked
  BY <1>1 DEF Linked
<1>3. IsComponent(cluster)
  BY <1>1 DEF ClustersInv, IsComponent, Closed
<1>4. \A c \in clusters' : IsComponent(c)'
  <2>1. \A c \in clusters' : IsComponent(c)
    BY <1>1, <1>3 DEF ClustersInv
  <2>. QED
    BY <1>1, <1>2, <2>1 DEF IsComponent, Together, Closed
<1>5. Together(cluster \cup queue)'
  BY <1>1 DEF Together
<1>. QED
  BY <1>1, <1>2, <1>4, <1>5 DEF ClustersInv, GraphIsUndirected

LEMMA OthersKeepClusters ==
    ASSUME ClustersInv, UNCHANGED <<adjacency, clusterVars>>
    PROVE  ClustersInv'
<1>1. UNCHANGED <<adjacency, visited, queue, cluster, clusters>>
  BY DEF clusterVars
<1>2. Linked' = Linked
  BY <1>1 DEF Linked
<1>. QED
  BY <1>1, <1>2
     DEF ClustersInv, GraphIsUndirected, IsComponent, Together, Closed

LEMMA StepKeepsClusters == ClustersInv /\ [GraphNext]_graphVars => ClustersInv'
<1> SUFFICES ASSUME ClustersInv, [GraphNext]_graphVars PROVE ClustersInv'
  OBVIOUS
<1>1. ASSUME NEW v \in Vertices, StartCluster(v) PROVE ClustersInv'
  BY <1>1, StartKeepsClusters
<1>2. ASSUME NEW v \in Vertices, GrowCluster(v) PROVE ClustersInv'
  BY <1>2, GrowKeepsClusters
<1>3. ASSUME NEW v \in Vertices, StartSearch(v) PROVE ClustersInv'
  BY <1>3, OthersKeepClusters DEF StartSearch
<1>4. CASE EndCluster
  BY <1>4, EndKeepsClusters
<1>5. CASE VisitNeighbour
  BY <1>5, OthersKeepClusters DEF VisitNeighbour
<1>6. CASE LeaveNote
  BY <1>6, OthersKeepClusters DEF LeaveNote
<1>7. CASE UNCHANGED graphVars
  BY <1>7, OthersKeepClusters DEF graphVars
<1>. QED
  BY <1>1, <1>2, <1>3, <1>4, <1>5, <1>6, <1>7 DEF GraphNext

\* A component is what any of its notes reaches.
LEMMA ComponentIsReach ==
    ASSUME GraphIsUndirected, NEW c \in SUBSET Linked, IsComponent(c),
           NEW v \in c
    PROVE  c = Reach(v, Linked)
<1>1. Linked \in SUBSET Vertices
  BY DEF Linked
<1>2. /\ v \in Reach(v, Linked) /\ Reach(v, Linked) \subseteq Linked
      /\ Closed(Reach(v, Linked), Linked)
      /\ Reach(v, Linked) \subseteq c
  BY <1>1, ReachIsLeast DEF IsComponent
<1>3. c \subseteq Reach(v, Linked)
  BY <1>2 DEF IsComponent, Together
<1>. QED
  BY <1>2, <1>3

\* The sets of two members of t.
PairsOf(t) == {{p[1], p[2]} : p \in {p \in t \X t : p[1] # p[2]}}

LEMMA NewPairs ==
    ASSUME NEW t, IsFiniteSet(t), NEW x, x \notin t
    PROVE  /\ PairsOf(t \cup {x}) = PairsOf(t) \cup {{x, y} : y \in t}
           /\ IsFiniteSet({{x, y} : y \in t})
           /\ Cardinality({{x, y} : y \in t}) <= Cardinality(t)
<1>1. PairsOf(t \cup {x}) = PairsOf(t) \cup {{x, y} : y \in t}
  <2>1. ASSUME NEW e \in PairsOf(t \cup {x})
        PROVE  e \in PairsOf(t) \cup {{x, y} : y \in t}
    <3>1. PICK a \in t \cup {x}, b \in t \cup {x} : a # b /\ e = {a, b}
      BY DEF PairsOf
    <3>2. CASE a \in t /\ b \in t
      <4>1. <<a, b>> \in {p \in t \X t : p[1] # p[2]}
            /\ e = {<<a, b>>[1], <<a, b>>[2]}
        BY <3>1, <3>2
      <4>. QED
        BY <4>1 DEF PairsOf
    <3>3. CASE a = x
      BY <3>1, <3>3
    <3>4. CASE b = x
      BY <3>1, <3>4
    <3>. QED
      BY <3>1, <3>2, <3>3, <3>4
  <2>2. ASSUME NEW y \in t PROVE {x, y} \in PairsOf(t \cup {x})
    <3>1. /\ <<x, y>> \in {p \in (t \cup {x}) \X (t \cup {x}) : p[1] # p[2]}
          /\ {x, y} = {<<x, y>>[1], <<x, y>>[2]}
      OBVIOUS
    <3>. QED
      BY <3>1 DEF PairsOf
  <2>3. PairsOf(t) \subseteq PairsOf(t \cup {x})
    BY DEF PairsOf
  <2>. QED
    BY <2>1, <2>2, <2>3
<1>2. /\ IsFiniteSet({{x, y} : y \in t})
      /\ Cardinality({{x, y} : y \in t}) <= Cardinality(t)
  <2> DEFINE f == [y \in t |-> {x, y}]
             u == {{x, y} : y \in t}
  <2>1. f \in Surjection(t, u)
    BY DEF Surjection
  <2>. QED
    BY <2>1, FS_Surjection
<1>. QED
  BY <1>1, <1>2

LEMMA PairsAreFew ==
    ASSUME NEW c, IsFiniteSet(c)
    PROVE  /\ IsFiniteSet(PairsOf(c))
           /\ 2 * Cardinality(PairsOf(c)) <= Cardinality(c) * (Cardinality(c) - 1)
<1> DEFINE Few(t) == /\ IsFiniteSet(PairsOf(t))
                     /\ 2 * Cardinality(PairsOf(t))
                          <= Cardinality(t) * (Cardinality(t) - 1)
           P == {t \in SUBSET c : Few(t)}
<1>1. {} \in P
  <2>1. PairsOf({}) = {}
    BY DEF PairsOf
  <2>. QED
    BY <2>1, FS_EmptySet
<1>2. ASSUME NEW t \in SUBSET c, NEW x \in c, t \in P PROVE t \cup {x} \in P
  <2>1. CASE x \in t
    <3>1. t \cup {x} = t
      BY <2>1
    <3>. QED
      BY <1>2, <3>1
  <2>2. CASE x \notin t
    <3> DEFINE u == {{x, y} : y \in t}
    <3>1. IsFiniteSet(t) /\ Cardinality(t) \in Nat
      BY FS_Subset, FS_CardinalityType
    <3>2. PairsOf(t \cup {x}) = PairsOf(t) \cup u /\ IsFiniteSet(u)
          /\ Cardinality(u) <= Cardinality(t)
      BY <2>2, <3>1, NewPairs
    <3>3. IsFiniteSet(PairsOf(t))
          /\ 2 * Cardinality(PairsOf(t)) <= Cardinality(t) * (Cardinality(t) - 1)
      BY <1>2
    <3>4. Cardinality(u) \in Nat /\ Cardinality(PairsOf(t)) \in Nat
      BY <3>2, <3>3, FS_CardinalityType
    <3>. HIDE DEF u
    <3>5. /\ IsFiniteSet(PairsOf(t) \cup u)
          /\ Cardinality(PairsOf(t) \cup u)
               = Cardinality(PairsOf(t)) + Cardinality(u)
                   - Cardinality(PairsOf(t) \cap u)
          /\ Cardinality(PairsOf(t) \cap u) \in Nat
      BY <3>2, <3>3, FS_Union, FS_Intersection, FS_CardinalityType
    <3>6. Cardinality(t \cup {x}) = Cardinality(t) + 1
      BY <2>2, <3>1, FS_AddElement
    <3>7. ASSUME NEW k \in Nat, NEW p \in Nat, NEW m \in Nat, NEW i \in Nat,
                 2 * p <= k * (k - 1), m <= k
          PROVE  2 * (p + m - i) <= (k + 1) * ((k + 1) - 1)
      <4>1. (k + 1) * ((k + 1) - 1) = k * (k - 1) + 2 * k
        OBVIOUS
      <4>. QED
        BY <3>7, <4>1
    <3>8. 2 * Cardinality(PairsOf(t) \cup u)
             <= Cardinality(t \cup {x}) * (Cardinality(t \cup {x}) - 1)
      BY <3>1, <3>2, <3>3, <3>4, <3>5, <3>6, <3>7
    <3>. QED
      BY <3>2, <3>5, <3>8
  <2>. QED
    BY <2>1, <2>2
<1>3. c \in P
  <2>. HIDE DEF P
  <2>. QED
    BY <1>1, <1>2, SubsetInduction
<1>. QED
  BY <1>3

\* The density of a cluster is at most one.
LEMMA DensityAtMostOne ==
    ASSUME NEW c \in SUBSET Vertices
    PROVE  Cardinality(InternalEdges(c)) <= PossibleEdges(c)
<1>1. IsFiniteSet(c) /\ Cardinality(c) \in Nat
  BY GraphAssumption, FS_Subset, FS_CardinalityType
<1>2. InternalEdges(c) \in SUBSET PairsOf(c)
  BY DEF InternalEdges, PairsOf
<1>3. /\ IsFiniteSet(PairsOf(c))
      /\ 2 * Cardinality(PairsOf(c)) <= Cardinality(c) * (Cardinality(c) - 1)
  BY <1>1, PairsAreFew
<1>4. /\ Cardinality(InternalEdges(c)) \in Nat /\ Cardinality(PairsOf(c)) \in Nat
      /\ Cardinality(InternalEdges(c)) <= Cardinality(PairsOf(c))
  BY <1>2, <1>3, FS_Subset, FS_CardinalityType
<1>5. PICK k \in Nat, p \in Nat, e \in Nat :
         /\ k = Cardinality(c) /\ p = Cardinality(PairsOf(c))
         /\ e = Cardinality(InternalEdges(c))
  BY <1>1, <1>4
<1>6. 2 * p <= k * (k - 1) /\ e <= p /\ k * (k - 1) \in Int
  BY <1>3, <1>4, <1>5
<1>7. e <= (k * (k - 1)) \div 2
  <2>1. PICK m \in Int : m = k * (k - 1)
    BY <1>6
  <2>2. 2 * e <= m
    BY <1>6, <2>1
  <2>3. e <= m \div 2
    BY <2>2
  <2>. QED
    BY <2>1, <2>3
<1>. QED
  BY <1>5, <1>7 DEF PossibleEdges

\* The invariant gives the property.
LEMMA ClustersInvImplies == ClustersInv => ClustersAreComponents
<1> SUFFICES ASSUME ClustersInv PROVE ClustersAreComponents
  OBVIOUS
<1>1. Linked \subseteq Vertices /\ GraphIsUndirected
  BY DEF Linked, ClustersInv
<1>2. \A c \in clusters : c \in SUBSET Linked /\ IsComponent(c) /\ c # {}
  BY DEF ClustersInv, IsComponent
<1>3. \A c \in clusters : \A v \in c : c = Reach(v, Linked)
  BY <1>1, <1>2, ComponentIsReach
<1>4. clusters \subseteq Components(Linked)
  <2> SUFFICES ASSUME NEW c \in clusters PROVE c \in Components(Linked)
    OBVIOUS
  <2>1. PICK v \in c : TRUE
    BY <1>2
  <2>2. v \in Linked /\ c = Reach(v, Linked)
    BY <1>2, <1>3, <2>1
  <2>. QED
    BY <2>2 DEF Components
<1>5. \A c \in clusters : Cardinality(InternalEdges(c)) <= PossibleEdges(c)
  BY <1>1, <1>2, DensityAtMostOne
<1>6. ASSUME ClustersDone PROVE Components(Linked) \subseteq clusters
  <2> SUFFICES ASSUME NEW v \in Linked PROVE Reach(v, Linked) \in clusters
    BY DEF Components
  <2>1. v \in UNION clusters
    BY <1>6 DEF ClustersDone, ClustersInv
  <2>2. PICK c \in clusters : v \in c
    BY <2>1
  <2>. QED
    BY <1>3, <2>2
<1>7. ASSUME ClustersDone, NEW min \in MinSizes
      PROVE  AnsweredClusters(min) =
               {c \in Components(Linked) : Cardinality(c) >= min}
  <2>1. clusters = Components(Linked)
    BY <1>4, <1>6, <1>7
  <2>. QED
    BY <2>1 DEF AnsweredClusters
<1>. QED
  BY <1>4, <1>5, <1>7 DEF ClustersAreComponents

\* find_link_clusters finds the connected components of the linked notes, each
\* whole and once, whatever the graph and the order in which the neighbours
\* are taken, and the density of none exceeds one.
THEOREM ClustersFound == GraphSpec => []ClustersAreComponents
<1>1. GraphInit => ClustersInv
  BY ClustersInitInv
<1>2. ClustersInv /\ [GraphNext]_graphVars => ClustersInv'
  BY StepKeepsClusters
<1>3. ClustersInv => ClustersAreComponents
  BY ClustersInvImplies
<1>. QED
  BY <1>1, <1>2, <1>3, PTL DEF GraphSpec

\* The top of a stack is replaced.
LEMMA FrontAndLast ==
    ASSUME NEW S, NEW s \in Seq(S), s # <<>>
    PROVE  /\ Len(s) \in Nat \ {0} /\ Last(s) = s[Len(s)] /\ Last(s) \in S
           /\ Front(s) \in Seq(S) /\ Len(Front(s)) = Len(s) - 1
           /\ \A i \in 1..(Len(s) - 1) : Front(s)[i] = s[i]
<1>1. Len(s) \in Nat \ {0}
  BY EmptySeq, LenProperties
<1>2. Front(s) = SubSeq(s, 1, Len(s) - 1) /\ Last(s) = s[Len(s)]
  BY DEF Front, Last
<1>3. /\ Front(s) \in Seq(S) /\ Len(Front(s)) = Len(s) - 1
      /\ \A i \in 1..(Len(s) - 1) : Front(s)[i] = s[i]
  <2>1. PICK n \in Nat : n = Len(s) - 1
    BY <1>1
  <2>2. \A i \in 1..n : s[i] \in S
    BY <1>1, <2>1
  <2>3. /\ SubSeq(s, 1, n) \in Seq(S)
        /\ Len(SubSeq(s, 1, n)) = n
        /\ \A i \in 1..n : SubSeq(s, 1, n)[i] = s[i]
    <3>1. /\ SubSeq(s, 1, n) \in Seq(S)
          /\ Len(SubSeq(s, 1, n)) = IF 1 <= n THEN n - 1 + 1 ELSE 0
          /\ \A i \in 1..(n - 1 + 1) : SubSeq(s, 1, n)[i] = s[1 + i - 1]
      BY <2>2, SubSeqProperties
    <3>. QED
      BY <3>1
  <2>. QED
    BY <1>2, <2>1, <2>3
<1>4. s[Len(s)] \in S
  BY <1>1
<1>. QED
  BY <1>1, <1>2, <1>3, <1>4

LEMMA TopReplaced ==
    ASSUME NEW S, NEW s \in Seq(S), s # <<>>, NEW x \in S
    PROVE  /\ Append(Front(s), x) \in Seq(S)
           /\ Len(Append(Front(s), x)) = Len(s)
           /\ Append(Front(s), x)[Len(s)] = x
           /\ \A i \in 1..Len(s) : i # Len(s) => Append(Front(s), x)[i] = s[i]
<1>1. /\ Len(s) \in Nat \ {0} /\ Front(s) \in Seq(S)
      /\ Len(Front(s)) = Len(s) - 1
      /\ \A i \in 1..(Len(s) - 1) : Front(s)[i] = s[i]
  BY FrontAndLast
<1>. QED
  BY <1>1, AppendProperties

(***************************************************************************)
(* The depth-first search                                                  *)
(*                                                                         *)
(* The invariant speaks of the tree of the search: sub[v] is what was      *)
(* discovered below v, v itself included.                                  *)
(***************************************************************************)

Discovered == DOMAIN discovery
OnStack == {stack[i][1] : i \in 1..Len(stack)}
Left == Discovered \ OnStack

\* What the stack holds: a note and the neighbours left to visit.
StackEntry == Vertices \X Seq(Vertices)

\* No set that no edge leaves has a part of c only, in whatever part of the
\* graph that has all of c.
Connected(c) ==
    \A s, t \in SUBSET Vertices :
       c \subseteq s /\ t \subseteq s /\ Closed(t, s) /\ t \cap c # {}
         => c \subseteq t

SearchType ==
    /\ GraphIsUndirected
    /\ clock \in Nat
    /\ Discovered \subseteq Linked
    /\ discovery \in [Discovered -> 1..clock]
    /\ \A v, w \in Discovered : discovery[v] = discovery[w] => v = w
    /\ low \in [Discovered -> Nat]
    /\ parent \in [Discovered -> Discovered \cup {Root}]
    /\ stack \in Seq(StackEntry)
    /\ OnStack \subseteq Discovered

\* The stack is the path to the note that is looked at, and what left it has
\* no neighbour left.
SearchPath ==
    /\ \A i \in 1..Len(stack) :
          parent[stack[i][1]] = IF i = 1 THEN Root ELSE stack[i - 1][1]
    /\ \A i, j \in 1..Len(stack) :
          i < j => discovery[stack[i][1]] < discovery[stack[j][1]]
    /\ \A i \in 1..Len(stack) :
          /\ ToSet(stack[i][2]) \subseteq adjacency[stack[i][1]]
          /\ adjacency[stack[i][1]] \ ToSet(stack[i][2]) \subseteq Discovered
    /\ \A v \in Left : adjacency[v] \subseteq Discovered

TreeOrder(sub) ==
    /\ \A v \in Discovered : v \in sub[v]
    /\ \A v \in Discovered : \A w \in sub[v] :
          sub[w] \subseteq sub[v] /\ discovery[v] <= discovery[w]
    /\ \A v, w \in Discovered : sub[v] \cap sub[w] # {} =>
          v \in sub[w] \/ w \in sub[v]

TreeParents(sub) ==
    /\ \A v \in Discovered : parent[v] # Root =>
          /\ parent[v] \in adjacency[v] /\ discovery[parent[v]] < discovery[v]
          /\ v \in sub[parent[v]]
    /\ \A v \in Discovered : \A w \in sub[v] : w # v =>
          /\ parent[w] \in sub[v]
          /\ \E c \in Discovered : parent[c] = v /\ w \in sub[c]
    /\ \A v \in Discovered :
          \E r \in Discovered : parent[r] = Root /\ v \in sub[r]

TreeStack(sub) ==
    /\ \A v \in OnStack : stack[Len(stack)][1] \in sub[v]
    /\ \A v \in Left : sub[v] \subseteq Left

TreeEdges(sub) ==
    /\ \A v \in Discovered : \A w \in adjacency[v] \cap Discovered :
          v \in sub[w] \/ w \in sub[v]
    /\ \A v \in Discovered : Connected(sub[v])
    /\ \A v \in Discovered : \A w \in sub[v] :
          w # v => Connected(sub[v] \ sub[w])

SearchTree(sub) ==
    /\ sub \in [Discovered -> SUBSET Discovered]
    /\ TreeOrder(sub) /\ TreeParents(sub) /\ TreeStack(sub) /\ TreeEdges(sub)

Lows(sub) ==
    /\ \A v \in Discovered : low[v] <= discovery[v]
    /\ \A v \in Discovered : low[v] = discovery[v] \/
          \E x \in sub[v] : \E y \in adjacency[x] \cap Discovered :
             low[v] = discovery[y]
    /\ \A v \in Left : \A y \in adjacency[v] :
          y # parent[v] => low[v] <= discovery[y]
    /\ \A i \in 1..Len(stack) : \A y \in adjacency[stack[i][1]] :
          y \notin ToSet(stack[i][2]) /\ y # parent[stack[i][1]]
            => low[stack[i][1]] <= discovery[y]
    /\ \A v \in Left : parent[v] # Root => low[parent[v]] <= low[v]
    /\ \A v \in Left : \A x \in sub[v] : low[v] <= low[x]

ChildrenOf(v) == {c \in Discovered : parent[c] = v}

\* The branches of v that nothing but v connects with the rest.
SeparatedFrom(v) ==
    {c \in Left : parent[c] = v /\ parent[v] # Root /\ low[c] >= discovery[v]}

Counts ==
    /\ childCount \in [Vertices -> Nat] /\ separatedCount \in [Vertices -> Nat]
    /\ \A v \in Vertices : childCount[v] = Cardinality(ChildrenOf(v))
    /\ \A v \in Vertices : separatedCount[v] = Cardinality(SeparatedFrom(v))
    /\ DOMAIN scores = {v \in Left : IF parent[v] = Root THEN childCount[v] > 1
                                     ELSE separatedCount[v] > 0}
    /\ \A v \in DOMAIN scores :
          scores[v] = IF parent[v] = Root THEN childCount[v] - 1
                      ELSE separatedCount[v]

SearchInv ==
    SearchType /\ SearchPath /\ (\E sub : SearchTree(sub) /\ Lows(sub)) /\ Counts

-----------------------------------------------------------------------------

LEMMA ConnectedAgain ==
    ASSUME adjacency' = adjacency, NEW c, Connected(c)
    PROVE  Connected(c)'
BY DEF Connected, Closed

LEMMA OneIsConnected ==
    ASSUME NEW v
    PROVE  Connected({v})
BY DEF Connected

\* A neighbour, or what a neighbour is connected with, can be added.
LEMMA ConnectedWith ==
    ASSUME GraphIsUndirected, NEW c \in SUBSET Vertices, Connected(c),
           NEW d \in SUBSET Vertices, Connected(d),
           NEW x \in c, NEW y \in d, y \in adjacency[x]
    PROVE  Connected(c \cup d)
<1> SUFFICES ASSUME NEW s \in SUBSET Vertices, NEW t \in SUBSET Vertices,
                    c \cup d \subseteq s, t \subseteq s, Closed(t, s),
                    t \cap (c \cup d) # {}
             PROVE  c \cup d \subseteq t
  BY DEF Connected
<1>1. x \in adjacency[y]
  BY DEF GraphIsUndirected
<1>2. t \cap c # {} => c \subseteq t
  BY DEF Connected
<1>3. t \cap d # {} => d \subseteq t
  BY DEF Connected
<1>4. x \in t => y \in t
  BY DEF Closed
<1>5. y \in t => x \in t
  BY <1>1 DEF Closed
<1>. QED
  BY <1>2, <1>3, <1>4, <1>5

\* What a step of the search does, for a note that is discovered ...
NoteFound(w, p) ==
    /\ w \in Linked /\ w \notin Discovered
    /\ adjacency' = adjacency /\ clock' = clock + 1
    /\ discovery' = With(discovery, w, clock + 1)
    /\ low' = With(low, w, clock + 1) /\ parent' = With(parent, w, p)
    /\ stack' \in Seq(StackEntry)
    /\ Len(stack') = Len(stack) + 1
    /\ stack'[Len(stack')][1] = w
    /\ ToSet(stack'[Len(stack')][2]) = adjacency[w]
    /\ \A i \in 1..Len(stack) :
          /\ stack'[i][1] = stack[i][1]
          /\ ToSet(stack'[i][2]) \subseteq ToSet(stack[i][2])
          /\ ToSet(stack[i][2]) \subseteq ToSet(stack'[i][2]) \cup {w}
    /\ Len(stack) = 0 => p = Root
    /\ Len(stack) # 0 => p = stack[Len(stack)][1] /\ w \in adjacency[p]

\* ... one that was discovered before ...
NoteSeen(v, w) ==
    /\ Len(stack) # 0 /\ v = stack[Len(stack)][1]
    /\ w \in Discovered /\ w \in adjacency[v]
    /\ UNCHANGED <<adjacency, clock, discovery, parent>>
    /\ low' = IF w # parent[v]
              THEN [low EXCEPT ![v] = Lesser(@, discovery[w])] ELSE low
    /\ stack' \in Seq(StackEntry)
    /\ Len(stack') = Len(stack)
    /\ \A i \in 1..Len(stack) :
          /\ stack'[i][1] = stack[i][1]
          /\ ToSet(stack'[i][2]) \subseteq ToSet(stack[i][2])
          /\ i # Len(stack) => ToSet(stack[i][2]) = ToSet(stack'[i][2])
          /\ ToSet(stack[i][2]) \subseteq ToSet(stack'[i][2]) \cup {w}

\* ... and one that leaves the stack.
NoteLeft(v) ==
    /\ Len(stack) # 0 /\ v = stack[Len(stack)][1]
    /\ ToSet(stack[Len(stack)][2]) = {}
    /\ UNCHANGED <<adjacency, clock, discovery, parent>>
    /\ low' = IF parent[v] = Root THEN low
              ELSE [low EXCEPT ![parent[v]] = Lesser(@, low[v])]
    /\ stack' \in Seq(StackEntry)
    /\ Len(stack') = Len(stack) - 1
    /\ \A i \in 1..(Len(stack) - 1) : stack'[i] = stack[i]

LEMMA HeadAndTail ==
    ASSUME NEW S, NEW s \in Seq(S), s # <<>>
    PROVE  /\ Head(s) \in S /\ Tail(s) \in Seq(S) /\ Head(s) \in ToSet(s)
           /\ ToSet(Tail(s)) \subseteq ToSet(s)
           /\ ToSet(s) \subseteq ToSet(Tail(s)) \cup {Head(s)}
<1>1. PICK n \in Nat : n = Len(s) /\ n # 0
  BY EmptySeq, LenProperties
<1>2. /\ Head(s) = s[1] /\ Tail(s) \in Seq(S) /\ Len(Tail(s)) = n - 1
      /\ \A i \in 1..(n - 1) : Tail(s)[i] = s[i + 1]
  BY <1>1, HeadTailProperties
<1>3. \A i \in 1..n : i = 1 \/ (i - 1 \in 1..(n - 1) /\ s[i] = Tail(s)[i - 1])
  BY <1>1, <1>2
<1>4. ToSet(s) = {s[i] : i \in 1..n}
      /\ ToSet(Tail(s)) = {Tail(s)[i] : i \in 1..(n - 1)}
  <2>1. DOMAIN s = 1..n /\ DOMAIN Tail(s) = 1..(n - 1)
    BY <1>1, <1>2, LenProperties
  <2>. QED
    BY <2>1 DEF ToSet
<1>5. ToSet(Tail(s)) \subseteq ToSet(s)
  BY <1>1, <1>2, <1>4
<1>6. ToSet(s) \subseteq ToSet(Tail(s)) \cup {Head(s)}
  BY <1>2, <1>3, <1>4
<1>7. s[1] \in S /\ s[1] \in ToSet(s)
  BY <1>1, <1>4
<1>. QED
  BY <1>2, <1>5, <1>6, <1>7

LEMMA StartFindsNote ==
    ASSUME SearchType, NEW v \in Vertices, StartSearch(v)
    PROVE  NoteFound(v, Root)
<1>1. /\ stack = <<>> /\ Discover(v, Root, stack)
      /\ UNCHANGED adjacency
      /\ Linked \ Discovered # {} /\ v = Min(Linked \ Discovered)
  BY DEF StartSearch, Discovered
<1>2. v \in Linked \ Discovered
  <2>1. Linked \ Discovered \in SUBSET Nat
    BY GraphAssumption DEF Linked
  <2>2. \E m \in Linked \ Discovered : \A n \in Linked \ Discovered : m <= n
    BY <1>1, <2>1, LeastNumber
  <2>. QED
    BY <1>1, <2>2 DEF Min
<1>3. /\ Ascending(adjacency[v]) \in Seq(adjacency[v])
      /\ ToSet(Ascending(adjacency[v])) = adjacency[v]
      /\ adjacency[v] \subseteq Vertices
  <2>1. adjacency[v] \in SUBSET Vertices
    BY DEF SearchType, GraphIsUndirected
  <2>2. adjacency[v] \in SUBSET Nat /\ IsFiniteSet(adjacency[v])
    BY <2>1, GraphAssumption, FS_Subset
  <2>. QED
    BY <2>1, <2>2, AscendingHasAll
<1>4. Ascending(adjacency[v]) \in Seq(Vertices)
  BY <1>3
<1>5. stack' = <<<<v, Ascending(adjacency[v])>>>>
  BY <1>1 DEF Discover
<1>6. /\ clock' = clock + 1 /\ discovery' = With(discovery, v, clock + 1)
      /\ low' = With(low, v, clock + 1) /\ parent' = With(parent, v, Root)
  BY <1>1 DEF Discover
<1>7. /\ stack' \in Seq(StackEntry) /\ Len(stack') = 1
      /\ stack'[1][1] = v /\ stack'[1][2] = Ascending(adjacency[v])
      /\ Len(stack) = 0
  BY <1>1, <1>4, <1>5 DEF StackEntry
<1>. QED
  BY <1>1, <1>2, <1>3, <1>6, <1>7 DEF NoteFound

LEMMA VisitFindsOrSees ==
    ASSUME SearchType, SearchPath, VisitNeighbour
    PROVE  /\ Len(stack) # 0
           /\ \E w \in Vertices :
                 \/ /\ NoteFound(w, stack[Len(stack)][1])
                    /\ childCount' = [childCount EXCEPT
                                        ![stack[Len(stack)][1]] = @ + 1]
                 \/ /\ NoteSeen(stack[Len(stack)][1], w)
                    /\ UNCHANGED childCount
<1> DEFINE top == stack[Len(stack)]
<1>1. stack \in Seq(StackEntry) /\ stack # <<>> /\ Last(stack)[2] # <<>>
  BY DEF SearchType, VisitNeighbour
<1>2. /\ Len(stack) \in Nat \ {0} /\ Last(stack) = top /\ top \in StackEntry
      /\ Front(stack) \in Seq(StackEntry)
  BY <1>1, FrontAndLast
<1>3. PICK v \in Vertices, nb \in Seq(Vertices) :
         top = <<v, nb>> /\ top[1] = v /\ top[2] = nb
  BY <1>2 DEF StackEntry
<1>4. nb # <<>>
  BY <1>1, <1>2, <1>3
<1>5. PICK w \in Vertices : /\ w = Head(nb) /\ Tail(nb) \in Seq(Vertices)
                            /\ w \in ToSet(nb)
                            /\ ToSet(Tail(nb)) \subseteq ToSet(nb)
                            /\ ToSet(nb) \subseteq ToSet(Tail(nb)) \cup {w}
  BY <1>3, <1>4, HeadAndTail
<1>6. w \in adjacency[v]
  <2>1. ToSet(stack[Len(stack)][2]) \subseteq adjacency[stack[Len(stack)][1]]
    <3>1. Len(stack) \in 1..Len(stack)
      BY <1>2
    <3>2. \A i \in 1..Len(stack) :
             ToSet(stack[i][2]) \subseteq adjacency[stack[i][1]]
      BY DEF SearchPath
    <3>. QED
      BY <3>1, <3>2
  <2>. QED
    BY <1>3, <1>5, <2>1
<1>7. w \in Linked
  BY <1>6, NeighboursAreLinked DEF SearchType
<1>8. PICK s : s = Append(Front(stack), <<v, Tail(nb)>>)
  OBVIOUS
<1>9. /\ s \in Seq(StackEntry) /\ Len(s) = Len(stack)
      /\ s[Len(stack)] = <<v, Tail(nb)>>
      /\ \A i \in 1..Len(stack) : i # Len(stack) => s[i] = stack[i]
  <2>1. <<v, Tail(nb)>> \in StackEntry
    BY <1>5 DEF StackEntry
  <2>. QED
    BY <1>1, <1>8, <2>1, TopReplaced
<1>10. \A i \in 1..Len(stack) :
          /\ s[i][1] = stack[i][1]
          /\ ToSet(s[i][2]) \subseteq ToSet(stack[i][2])
          /\ i # Len(stack) => ToSet(stack[i][2]) = ToSet(s[i][2])
          /\ ToSet(stack[i][2]) \subseteq ToSet(s[i][2]) \cup {w}
  <2> SUFFICES ASSUME NEW i \in 1..Len(stack)
               PROVE  /\ s[i][1] = stack[i][1]
                      /\ ToSet(s[i][2]) \subseteq ToSet(stack[i][2])
                      /\ i # Len(stack) => ToSet(stack[i][2]) = ToSet(s[i][2])
                      /\ ToSet(stack[i][2]) \subseteq ToSet(s[i][2]) \cup {w}
    OBVIOUS
  <2>1. CASE i = Len(stack)
    <3>1. s[i][1] = v /\ s[i][2] = Tail(nb)
      BY <1>9, <2>1
    <3>2. stack[i][1] = v /\ stack[i][2] = nb
      BY <1>3, <2>1
    <3>. QED
      BY <1>5, <2>1, <3>1, <3>2
  <2>2. CASE i # Len(stack)
    BY <1>9, <2>2
  <2>. QED
    BY <2>1, <2>2
<1>11. /\ w \notin DOMAIN discovery =>
              /\ childCount' = [childCount EXCEPT ![v] = @ + 1]
              /\ Discover(w, v, s)
       /\ w \in DOMAIN discovery =>
              /\ stack' = s
              /\ low' = IF w # parent[v]
                        THEN [low EXCEPT ![v] = Lesser(@, discovery[w])]
                        ELSE low
              /\ UNCHANGED <<childCount, clock, discovery, parent>>
       /\ adjacency' = adjacency
  BY <1>2, <1>3, <1>5, <1>8 DEF VisitNeighbour
<1>12. CASE w \in DOMAIN discovery
  <2>1. NoteSeen(v, w)
    <3>1. /\ stack' = s /\ UNCHANGED <<adjacency, clock, discovery, parent>>
          /\ low' = IF w # parent[v]
                    THEN [low EXCEPT ![v] = Lesser(@, discovery[w])] ELSE low
      BY <1>11, <1>12
    <3>2. Len(stack) # 0 /\ v = stack[Len(stack)][1] /\ w \in Discovered
      BY <1>2, <1>3, <1>12 DEF Discovered
    <3>. QED
      BY <1>6, <1>9, <1>10, <3>1, <3>2 DEF NoteSeen
  <2>. QED
    BY <1>2, <1>3, <1>11, <1>12, <2>1
<1>13. CASE w \notin DOMAIN discovery
  <2>1. /\ Ascending(adjacency[w]) \in Seq(adjacency[w])
        /\ ToSet(Ascending(adjacency[w])) = adjacency[w]
        /\ adjacency[w] \subseteq Vertices
    <3>1. adjacency[w] \in SUBSET Vertices
      BY DEF SearchType, GraphIsUndirected
    <3>2. adjacency[w] \in SUBSET Nat /\ IsFiniteSet(adjacency[w])
      BY <3>1, GraphAssumption, FS_Subset
    <3>. QED
      BY <3>1, <3>2, AscendingHasAll
  <2>2. Ascending(adjacency[w]) \in Seq(Vertices)
    BY <2>1
  <2>3. PICK e \in StackEntry : e = <<w, Ascending(adjacency[w])>>
    BY <2>2 DEF StackEntry
  <2>4. /\ stack' = Append(s, e) /\ clock' = clock + 1
        /\ discovery' = With(discovery, w, clock + 1)
        /\ low' = With(low, w, clock + 1) /\ parent' = With(parent, w, v)
    BY <1>11, <1>13, <2>3 DEF Discover
  <2>5. /\ stack' \in Seq(StackEntry) /\ Len(stack') = Len(stack) + 1
        /\ stack'[Len(stack) + 1] = e
        /\ \A i \in 1..Len(stack) : stack'[i] = s[i]
    BY <1>2, <1>9, <2>4, AppendProperties
  <2>6. NoteFound(w, v)
    <3>1. \A i \in 1..Len(stack) :
             /\ stack'[i][1] = stack[i][1]
             /\ ToSet(stack'[i][2]) \subseteq ToSet(stack[i][2])
             /\ ToSet(stack[i][2]) \subseteq ToSet(stack'[i][2]) \cup {w}
      <4> TAKE i \in 1..Len(stack)
      <4>1. stack'[i] = s[i]
        BY <2>5
      <4>2. /\ s[i][1] = stack[i][1]
            /\ ToSet(s[i][2]) \subseteq ToSet(stack[i][2])
            /\ ToSet(stack[i][2]) \subseteq ToSet(s[i][2]) \cup {w}
        BY <1>10
      <4>3. stack'[i][1] = s[i][1] /\ ToSet(stack'[i][2]) = ToSet(s[i][2])
        BY <4>1
      <4>. QED
        BY <4>2, <4>3
    <3>2. e[1] = w /\ ToSet(e[2]) = adjacency[w]
      BY <2>1, <2>3
    <3>. QED
      BY <1>2, <1>3, <1>6, <1>7, <1>11, <1>13, <2>4, <2>5, <3>1, <3>2
         DEF NoteFound, Discovered
  <2>. QED
    BY <1>2, <1>3, <1>11, <1>13, <2>6
<1>. QED
  BY <1>12, <1>13

LEMMA LeaveLeavesNote ==
    ASSUME SearchType, LeaveNote
    PROVE  NoteLeft(stack[Len(stack)][1])
<1> DEFINE top == stack[Len(stack)]
<1>1. stack \in Seq(StackEntry) /\ stack # <<>> /\ Last(stack)[2] = <<>>
      /\ stack' = Front(stack)
  BY DEF SearchType, LeaveNote
<1>2. /\ Len(stack) \in Nat \ {0} /\ Last(stack) = top /\ top \in StackEntry
      /\ Front(stack) \in Seq(StackEntry) /\ Len(Front(stack)) = Len(stack) - 1
      /\ \A i \in 1..(Len(stack) - 1) : Front(stack)[i] = stack[i]
  BY <1>1, FrontAndLast
<1>3. ToSet(top[2]) = {}
  BY <1>1, <1>2 DEF ToSet
<1>4. PICK v : v = top[1]
  OBVIOUS
<1>5. /\ UNCHANGED <<adjacency, clock, discovery, parent>>
      /\ low' = IF parent[v] = Root THEN low
                ELSE [low EXCEPT ![parent[v]] = Lesser(@, low[v])]
  BY <1>2, <1>4 DEF LeaveNote
<1>. QED
  BY <1>1, <1>2, <1>3, <1>4, <1>5 DEF NoteLeft

-----------------------------------------------------------------------------

LEMMA FoundEffects ==
    ASSUME SearchType, NEW w, NEW p, NoteFound(w, p)
    PROVE  /\ w \in Vertices /\ w \notin Discovered /\ Linked' = Linked
           /\ Discovered' = Discovered \cup {w}
           /\ OnStack' = OnStack \cup {w} /\ Left' = Left
           /\ \A u \in Discovered : /\ discovery'[u] = discovery[u]
                                    /\ low'[u] = low[u] /\ parent'[u] = parent[u]
           /\ discovery'[w] = clock + 1 /\ low'[w] = clock + 1 /\ parent'[w] = p
           /\ DOMAIN low' = Discovered' /\ DOMAIN parent' = Discovered'
           /\ \/ p = Root /\ OnStack = {}
              \/ /\ p \in OnStack /\ p \in Discovered
                 /\ p = stack[Len(stack)][1] /\ w \in adjacency[p]
<1>1. /\ w \in Linked /\ w \notin Discovered /\ w \in Vertices
      /\ Linked' = Linked /\ Len(stack) \in Nat /\ Len(stack') = Len(stack) + 1
  BY LenProperties DEF NoteFound, Linked, SearchType
<1>2. Discovered' = Discovered \cup {w}
  BY DEF NoteFound, With, Discovered
<1>3. DOMAIN low = Discovered /\ DOMAIN parent = Discovered
  BY DEF SearchType
<1>4. /\ \A u \in Discovered : /\ discovery'[u] = discovery[u]
                               /\ low'[u] = low[u] /\ parent'[u] = parent[u]
      /\ discovery'[w] = clock + 1 /\ low'[w] = clock + 1 /\ parent'[w] = p
      /\ DOMAIN low' = Discovered' /\ DOMAIN parent' = Discovered'
  BY <1>1, <1>2, <1>3 DEF NoteFound, With, Discovered
<1>5. OnStack' = OnStack \cup {w}
  <2>1. PICK n \in Nat : n = Len(stack)
    BY <1>1
  <2>2. /\ \A i \in 1..n : stack'[i][1] = stack[i][1]
        /\ stack'[n + 1][1] = w /\ Len(stack') = n + 1
    BY <1>1, <2>1 DEF NoteFound
  <2>3. 1..(n + 1) = (1..n) \cup {n + 1}
    BY <2>1
  <2>4. OnStack' = {stack'[i][1] : i \in 1..(n + 1)}
    BY <2>2 DEF OnStack
  <2>5. OnStack = {stack[i][1] : i \in 1..n}
    BY <2>1 DEF OnStack
  <2>. QED
    BY <2>2, <2>3, <2>4, <2>5
<1>6. OnStack \subseteq Discovered
  BY DEF SearchType
<1>7. Left' = Left
  BY <1>1, <1>2, <1>5, <1>6 DEF Left
<1>8. \/ p = Root /\ OnStack = {}
      \/ /\ p \in OnStack /\ p \in Discovered /\ p = stack[Len(stack)][1]
         /\ w \in adjacency[p]
  <2>1. CASE Len(stack) = 0
    BY <2>1 DEF NoteFound, OnStack
  <2>2. CASE Len(stack) # 0
    <3>1. Len(stack) \in 1..Len(stack)
      BY <1>1, <2>2
    <3>2. stack[Len(stack)][1] \in OnStack
      BY <3>1 DEF OnStack
    <3>. QED
      BY <1>6, <2>2, <3>2 DEF NoteFound
  <2>. QED
    BY <2>1, <2>2
<1>. QED
  BY <1>1, <1>2, <1>4, <1>5, <1>7, <1>8

LEMMA FoundKeepsType ==
    ASSUME SearchType, NEW w, NEW p, NoteFound(w, p)
    PROVE  SearchType'
<1>1. /\ w \in Vertices /\ w \notin Discovered /\ Linked' = Linked
      /\ Discovered' = Discovered \cup {w} /\ OnStack' = OnStack \cup {w}
      /\ \A u \in Discovered : /\ discovery'[u] = discovery[u]
                               /\ low'[u] = low[u] /\ parent'[u] = parent[u]
      /\ discovery'[w] = clock + 1 /\ low'[w] = clock + 1 /\ parent'[w] = p
      /\ DOMAIN low' = Discovered' /\ DOMAIN parent' = Discovered'
      /\ p \in Discovered \cup {Root}
  BY FoundEffects
<1>2. /\ w \in Linked /\ adjacency' = adjacency /\ clock' = clock + 1
      /\ stack' \in Seq(StackEntry)
  BY DEF NoteFound
<1>3. clock \in Nat /\ \A u \in Discovered : discovery[u] \in 1..clock
  BY DEF SearchType
<1>4. /\ discovery' = [u \in Discovered' |-> discovery'[u]]
      /\ low' = [u \in Discovered' |-> low'[u]]
      /\ parent' = [u \in Discovered' |-> parent'[u]]
  <2>1. /\ discovery' = With(discovery, w, clock + 1)
        /\ low' = With(low, w, clock + 1) /\ parent' = With(parent, w, p)
    BY DEF NoteFound
  <2>2. DOMAIN low = Discovered /\ DOMAIN parent = Discovered
    BY DEF SearchType
  <2>. QED
    BY <1>1, <2>1, <2>2 DEF With, Discovered
<1>5. \A u \in Discovered' : discovery'[u] \in 1..clock'
  BY <1>1, <1>2, <1>3
<1>6. \A u, v \in Discovered' : discovery'[u] = discovery'[v] => u = v
  <2>1. \A u, v \in Discovered : discovery[u] = discovery[v] => u = v
    BY DEF SearchType
  <2>2. \A u \in Discovered : discovery'[u] # clock + 1
    BY <1>1, <1>3
  <2>. QED
    BY <1>1, <2>1, <2>2
<1>7. \A u \in Discovered' : low'[u] \in Nat
  BY <1>1, <1>3 DEF SearchType
<1>8. \A u \in Discovered' : parent'[u] \in Discovered' \cup {Root}
  BY <1>1 DEF SearchType
<1>9. GraphIsUndirected' /\ (clock \in Nat)'
  BY <1>2, <1>3 DEF SearchType, GraphIsUndirected
<1>10. (Discovered \subseteq Linked)' /\ (OnStack \subseteq Discovered)'
  BY <1>1, <1>2 DEF SearchType
<1>11. /\ discovery' \in [Discovered' -> 1..clock']
       /\ low' \in [Discovered' -> Nat]
       /\ parent' \in [Discovered' -> Discovered' \cup {Root}]
  BY <1>4, <1>5, <1>7, <1>8
<1>. QED
  BY <1>2, <1>6, <1>9, <1>10, <1>11 DEF SearchType

LEMMA FoundKeepsPath ==
    ASSUME SearchType, SearchPath, NEW w, NEW p, NoteFound(w, p)
    PROVE  SearchPath'
<1>1. PICK n \in Nat : n = Len(stack)
  BY LenProperties DEF SearchType
<1>2. /\ Discovered' = Discovered \cup {w} /\ Left' = Left
      /\ \A u \in Discovered : /\ discovery'[u] = discovery[u]
                               /\ parent'[u] = parent[u]
      /\ discovery'[w] = clock + 1 /\ parent'[w] = p
  BY FoundEffects
<1>3. /\ Len(stack') = n + 1 /\ stack'[n + 1][1] = w
      /\ ToSet(stack'[n + 1][2]) = adjacency[w] /\ adjacency' = adjacency
      /\ \A i \in 1..n : /\ stack'[i][1] = stack[i][1]
                         /\ ToSet(stack'[i][2]) \subseteq ToSet(stack[i][2])
                         /\ ToSet(stack[i][2]) \subseteq ToSet(stack'[i][2]) \cup {w}
      /\ n = 0 => p = Root
      /\ n # 0 => p = stack[n][1]
  BY <1>1 DEF NoteFound
<1>4. \A i \in 1..n : stack[i][1] \in Discovered
  BY <1>1 DEF SearchType, OnStack
<1>5. \A i \in 1..(n + 1) : i = n + 1 \/ i \in 1..n
  OBVIOUS
<1>6. \A i \in 1..(n + 1) :
         parent'[stack'[i][1]] = IF i = 1 THEN Root ELSE stack'[i - 1][1]
  <2> TAKE i \in 1..(n + 1)
  <2>1. CASE i = n + 1
    <3>1. parent'[stack'[i][1]] = p
      BY <1>2, <1>3, <2>1
    <3>2. i # 1 => n \in 1..n /\ i - 1 = n
      BY <2>1
    <3>3. i # 1 => stack'[i - 1][1] = p
      BY <1>3, <3>2
    <3>4. i = 1 => n = 0
      BY <2>1
    <3>. QED
      BY <1>3, <3>1, <3>3, <3>4
  <2>2. CASE i \in 1..n
    <3>1. parent[stack[i][1]] = IF i = 1 THEN Root ELSE stack[i - 1][1]
      BY <1>1, <2>2 DEF SearchPath
    <3>2. parent'[stack'[i][1]] = parent[stack[i][1]]
      BY <1>2, <1>3, <1>4, <2>2
    <3>3. i # 1 => i - 1 \in 1..n
      BY <2>2
    <3>4. i # 1 => stack'[i - 1][1] = stack[i - 1][1]
      BY <1>3, <3>3
    <3>. QED
      BY <3>1, <3>2, <3>4
  <2>. QED
    BY <1>5, <2>1, <2>2
<1>7. \A i, j \in 1..(n + 1) : i < j =>
         discovery'[stack'[i][1]] < discovery'[stack'[j][1]]
  <2> SUFFICES ASSUME NEW i \in 1..(n + 1), NEW j \in 1..(n + 1), i < j
               PROVE  discovery'[stack'[i][1]] < discovery'[stack'[j][1]]
    OBVIOUS
  <2>1. i \in 1..n
    BY <1>5
  <2>2. discovery'[stack'[i][1]] = discovery[stack[i][1]]
    BY <1>2, <1>3, <1>4, <2>1
  <2>3. CASE j = n + 1
    <3>1. discovery[stack[i][1]] \in 1..clock /\ clock \in Nat
      BY <1>4, <2>1 DEF SearchType
    <3>2. discovery'[stack'[j][1]] = clock + 1
      BY <1>2, <1>3, <2>3
    <3>. QED
      BY <2>2, <3>1, <3>2
  <2>4. CASE j \in 1..n
    <3>1. discovery[stack[i][1]] < discovery[stack[j][1]]
      BY <1>1, <2>1, <2>4 DEF SearchPath
    <3>2. discovery'[stack'[j][1]] = discovery[stack[j][1]]
      BY <1>2, <1>3, <1>4, <2>4
    <3>. QED
      BY <2>2, <3>1, <3>2
  <2>. QED
    BY <1>5, <2>3, <2>4
<1>8. \A i \in 1..(n + 1) :
         /\ ToSet(stack'[i][2]) \subseteq adjacency[stack'[i][1]]
         /\ adjacency[stack'[i][1]] \ ToSet(stack'[i][2]) \subseteq Discovered'
  <2> TAKE i \in 1..(n + 1)
  <2>1. CASE i = n + 1
    BY <1>3, <2>1
  <2>2. CASE i \in 1..n
    <3>1. /\ ToSet(stack[i][2]) \subseteq adjacency[stack[i][1]]
          /\ adjacency[stack[i][1]] \ ToSet(stack[i][2]) \subseteq Discovered
      BY <1>1, <2>2 DEF SearchPath
    <3>2. /\ stack'[i][1] = stack[i][1]
          /\ ToSet(stack'[i][2]) \subseteq ToSet(stack[i][2])
          /\ ToSet(stack[i][2]) \subseteq ToSet(stack'[i][2]) \cup {w}
      BY <1>3, <2>2
    <3>. QED
      BY <1>2, <3>1, <3>2
  <2>. QED
    BY <1>5, <2>1, <2>2
<1>9. \A v \in Left' : adjacency'[v] \subseteq Discovered'
  BY <1>2, <1>3 DEF SearchPath
<1>. QED
  BY <1>3, <1>6, <1>7, <1>8, <1>9 DEF SearchPath

\* The subtrees once w is discovered below everything on the stack.
Grown(sub, w) ==
    [u \in Discovered \cup {w} |->
       IF u = w THEN {w} ELSE IF u \in OnStack THEN sub[u] \cup {w} ELSE sub[u]]

\* q is such a tree: what the proofs below use of it.
GrownTree(q, sub, w, p) ==
    /\ q \in [Discovered \cup {w} -> SUBSET (Discovered \cup {w})]
    /\ q[w] = {w}
    /\ \A u \in OnStack : q[u] = sub[u] \cup {w} /\ p \in sub[u]
    /\ \A u \in Left : q[u] = sub[u] /\ sub[u] \subseteq Left
    /\ \A u \in Discovered : /\ u \in OnStack \/ u \in Left
                             /\ sub[u] \subseteq Discovered
    /\ w \notin Discovered

LEMMA TreeGrows ==
    ASSUME SearchType, NEW w, NEW p, NoteFound(w, p), NEW sub, SearchTree(sub)
    PROVE  \E q : GrownTree(q, sub, w, p)
<1>1. /\ w \notin Discovered
      /\ \/ p = Root /\ OnStack = {}
         \/ p \in OnStack /\ p \in Discovered /\ p = stack[Len(stack)][1]
  BY FoundEffects
<1>2. PICK q : q = Grown(sub, w)
  OBVIOUS
<1>3. /\ \A u \in Discovered : sub[u] \subseteq Discovered
      /\ OnStack \subseteq Discovered /\ Left = Discovered \ OnStack
  BY DEF SearchTree, SearchType, Left
<1>4. q \in [Discovered \cup {w} -> SUBSET (Discovered \cup {w})]
  BY <1>2, <1>3 DEF Grown
<1>5. /\ q[w] = {w} /\ \A u \in OnStack : q[u] = sub[u] \cup {w}
      /\ \A u \in Left : q[u] = sub[u]
  BY <1>1, <1>2, <1>3 DEF Grown
<1>6. /\ \A u \in OnStack : p \in sub[u]
      /\ \A u \in Left : sub[u] \subseteq Left
  BY <1>1 DEF SearchTree, TreeStack
<1>. QED
  BY <1>1, <1>3, <1>4, <1>5, <1>6 DEF GrownTree

LEMMA FoundKeepsOrder ==
    ASSUME SearchType, NEW w, NEW p, NoteFound(w, p), NEW sub, SearchTree(sub),
           NEW q, GrownTree(q, sub, w, p)
    PROVE  TreeOrder(q)'
<1>1. /\ Discovered' = Discovered \cup {w}
      /\ \A u \in Discovered : discovery'[u] = discovery[u]
      /\ discovery'[w] = clock + 1
  BY FoundEffects
<1>2. clock \in Nat /\ \A u \in Discovered : discovery[u] \in 1..clock
  BY DEF SearchType
<1>3. \A u \in Discovered : discovery'[u] <= discovery'[w]
  BY <1>1, <1>2
<1>4. TreeOrder(sub)
  BY DEF SearchTree
<1>5. ASSUME NEW u \in Discovered' PROVE u \in q[u]
  BY <1>1, <1>4 DEF GrownTree, TreeOrder
<1>6. \A u \in Discovered : sub[u] \subseteq q[u] /\ q[u] \subseteq sub[u] \cup {w}
  BY DEF GrownTree
<1>7. ASSUME NEW v \in Discovered', NEW u \in q[v]
      PROVE  q[u] \subseteq q[v] /\ discovery'[v] <= discovery'[u]
  <2>1. CASE v = w
    <3>1. u = w
      BY <1>7, <2>1 DEF GrownTree
    <3>. QED
      BY <1>1, <1>2, <2>1, <3>1
  <2>2. CASE v \in OnStack /\ u = w
    <3>1. v \in Discovered
      BY <1>1, <1>7, <2>2 DEF GrownTree, SearchType
    <3>. QED
      BY <1>3, <2>2, <3>1 DEF GrownTree
  <2>3. CASE v \in Discovered /\ u \in sub[v]
    <3>1. u \in Discovered /\ sub[u] \subseteq sub[v] /\ discovery[v] <= discovery[u]
      BY <1>4, <2>3 DEF GrownTree, TreeOrder
    <3>2. q[u] \subseteq q[v]
      <4>1. CASE v \in OnStack
        BY <1>6, <3>1, <4>1 DEF GrownTree
      <4>2. CASE v \in Left
        BY <2>3, <3>1, <4>2 DEF GrownTree
      <4>. QED
        BY <2>3, <4>1, <4>2 DEF GrownTree
    <3>. QED
      BY <1>1, <2>3, <3>1, <3>2
  <2>4. v = w \/ (v \in OnStack /\ u = w) \/ (v \in Discovered /\ u \in sub[v])
    BY <1>1, <1>7 DEF GrownTree
  <2>. QED
    BY <2>1, <2>2, <2>3, <2>4
<1>8. ASSUME NEW v \in Discovered', NEW u \in Discovered', q[v] \cap q[u] # {}
      PROVE  v \in q[u] \/ u \in q[v]
  <2>1. CASE v = w
    BY <1>8, <2>1 DEF GrownTree
  <2>2. CASE u = w
    BY <1>8, <2>2 DEF GrownTree
  <2>3. CASE v \in Discovered /\ u \in Discovered
    <3>1. sub[v] \cap sub[u] # {}
      <4>1. PICK x : x \in q[v] \cap q[u]
        BY <1>8
      <4>2. CASE x = w
        <5>1. v \in OnStack /\ u \in OnStack
          BY <2>3, <4>1, <4>2 DEF GrownTree
        <5>. QED
          BY <5>1 DEF GrownTree
      <4>3. CASE x # w
        BY <1>6, <2>3, <4>1, <4>3
      <4>. QED
        BY <4>2, <4>3
    <3>2. v \in sub[u] \/ u \in sub[v]
      BY <1>4, <2>3, <3>1 DEF TreeOrder
    <3>. QED
      BY <1>6, <2>3, <3>2
  <2>. QED
    BY <1>1, <2>1, <2>2, <2>3
<1>. QED
  BY <1>5, <1>7, <1>8 DEF TreeOrder

LEMMA FoundKeepsParents ==
    ASSUME SearchType, SearchPath, NEW w, NEW p, NoteFound(w, p), NEW sub,
           SearchTree(sub), NEW q, GrownTree(q, sub, w, p)
    PROVE  TreeParents(q)'
<1>1. /\ Discovered' = Discovered \cup {w} /\ w \in Vertices
      /\ \A u \in Discovered : /\ discovery'[u] = discovery[u]
                               /\ parent'[u] = parent[u]
      /\ discovery'[w] = clock + 1 /\ parent'[w] = p
      /\ \/ p = Root /\ OnStack = {}
         \/ /\ p \in OnStack /\ p \in Discovered
            /\ p = stack[Len(stack)][1] /\ w \in adjacency[p]
  BY FoundEffects
<1>2. /\ clock \in Nat /\ \A u \in Discovered : discovery[u] \in 1..clock
      /\ \A u \in Discovered : parent[u] \in Discovered \cup {Root}
      /\ Discovered \subseteq Vertices /\ Root \notin Vertices
      /\ OnStack \subseteq Discovered
  BY GraphAssumption DEF SearchType, Linked, Root
<1>3. TreeParents(sub) /\ adjacency' = adjacency
  BY DEF SearchTree, NoteFound
<1>4. \A u \in Discovered : sub[u] \subseteq q[u] /\ q[u] \subseteq sub[u] \cup {w}
  BY DEF GrownTree
<1>5. ASSUME NEW v \in Discovered', parent'[v] # Root
      PROVE  /\ parent'[v] \in adjacency[v]
             /\ discovery'[parent'[v]] < discovery'[v]
             /\ v \in q[parent'[v]]
  <2>1. CASE v = w
    <3>1. p \in OnStack /\ p \in Discovered /\ w \in adjacency[p] /\ parent'[v] = p
      BY <1>1, <1>5, <2>1
    <3>2. p \in adjacency[w]
      BY <1>2, <3>1 DEF SearchType, GraphIsUndirected
    <3>3. discovery'[p] < discovery'[w]
      BY <1>1, <1>2, <3>1
    <3>. QED
      BY <2>1, <3>1, <3>2, <3>3 DEF GrownTree
  <2>2. CASE v \in Discovered
    <3>1. parent'[v] = parent[v] /\ parent[v] \in Discovered
      BY <1>1, <1>2, <1>5, <2>2
    <3>2. /\ parent[v] \in adjacency[v] /\ discovery[parent[v]] < discovery[v]
          /\ v \in sub[parent[v]]
      BY <1>2, <1>3, <1>5, <2>2, <3>1 DEF TreeParents
    <3>. QED
      BY <1>1, <1>4, <2>2, <3>1, <3>2
  <2>. QED
    BY <1>1, <2>1, <2>2
<1>6. ASSUME NEW v \in Discovered', NEW u \in q[v], u # v
      PROVE  /\ parent'[u] \in q[v]
             /\ \E c \in Discovered' : parent'[c] = v /\ u \in q[c]
  <2>1. v \in Discovered
    BY <1>1, <1>6 DEF GrownTree
  <2>2. CASE u = w
    <3>1. v \in OnStack
      BY <2>1, <2>2 DEF GrownTree
    <3>2. p \in sub[v] /\ p \in OnStack /\ p = stack[Len(stack)][1]
      BY <1>1, <3>1 DEF GrownTree
    <3>3. parent'[u] \in q[v]
      BY <1>1, <1>4, <2>1, <2>2, <3>2
    <3>4. CASE v = p
      BY <1>1, <2>2, <3>4 DEF GrownTree
    <3>5. CASE v # p
      <4>1. PICK n \in Nat : n = Len(stack)
        BY LenProperties DEF SearchType
      <4>2. PICK i \in 1..n : v = stack[i][1]
        BY <3>1, <4>1 DEF OnStack
      <4>3. i # n /\ i + 1 \in 1..n /\ i + 1 # 1 /\ (i + 1) - 1 = i
        BY <3>2, <3>5, <4>1, <4>2
      <4>4. parent[stack[i + 1][1]] = v /\ stack[i + 1][1] \in OnStack
        <5>1. stack[i + 1][1] \in OnStack
          BY <4>1, <4>3 DEF OnStack
        <5>2. \A j \in 1..n :
                 parent[stack[j][1]] = IF j = 1 THEN Root ELSE stack[j - 1][1]
          BY <4>1 DEF SearchPath
        <5>. QED
          BY <4>2, <4>3, <5>1, <5>2
      <4>5. PICK c \in OnStack : parent[c] = v
        BY <4>4
      <4>6. c \in Discovered /\ parent'[c] = v /\ w \in q[c]
        BY <1>1, <1>2, <4>5 DEF GrownTree
      <4>. QED
        BY <1>1, <2>2, <3>3, <4>6
    <3>. QED
      BY <1>1, <3>3, <3>4, <3>5
  <2>3. CASE u # w
    <3>1. u \in sub[v] /\ u \in Discovered
      BY <1>4, <2>1, <2>3 DEF GrownTree
    <3>2. parent[u] \in sub[v]
      BY <1>3, <1>6, <2>1, <3>1 DEF TreeParents
    <3>3. PICK c \in Discovered : parent[c] = v /\ u \in sub[c]
      BY <1>3, <1>6, <2>1, <3>1 DEF TreeParents
    <3>. QED
      BY <1>1, <1>4, <2>1, <3>1, <3>2, <3>3
  <2>. QED
    BY <2>2, <2>3
<1>7. ASSUME NEW v \in Discovered'
      PROVE  \E r \in Discovered' : parent'[r] = Root /\ v \in q[r]
  <2>1. CASE v \in Discovered
    <3>1. PICK r \in Discovered : parent[r] = Root /\ v \in sub[r]
      BY <1>3, <2>1 DEF TreeParents
    <3>. QED
      BY <1>1, <1>4, <3>1
  <2>2. CASE v = w /\ p = Root
    BY <1>1, <2>2 DEF GrownTree
  <2>3. CASE v = w /\ p # Root
    <3>1. p \in OnStack /\ p \in Discovered
      BY <1>1, <2>3
    <3>2. PICK r \in Discovered : parent[r] = Root /\ p \in sub[r]
      BY <1>3, <3>1 DEF TreeParents
    <3>3. r \in OnStack
      BY <3>1, <3>2 DEF GrownTree, Left
    <3>. QED
      BY <1>1, <2>3, <3>2, <3>3 DEF GrownTree
  <2>. QED
    BY <1>1, <2>1, <2>2, <2>3
<1>. QED
  BY <1>3, <1>5, <1>6, <1>7 DEF TreeParents

LEMMA FoundKeepsEdges ==
    ASSUME SearchType, SearchPath, NEW w, NEW p, NoteFound(w, p), NEW sub,
           SearchTree(sub), NEW q, GrownTree(q, sub, w, p)
    PROVE  TreeEdges(q)'
<1>1. /\ Discovered' = Discovered \cup {w} /\ w \in Vertices
      /\ \/ p = Root /\ OnStack = {}
         \/ p \in OnStack /\ p \in Discovered /\ w \in adjacency[p]
  BY FoundEffects
<1>2. /\ Discovered \subseteq Vertices /\ GraphIsUndirected
      /\ OnStack \subseteq Discovered /\ Left \subseteq Discovered
  BY DEF SearchType, Linked, Left
<1>3. TreeEdges(sub) /\ adjacency' = adjacency
  BY DEF SearchTree, NoteFound
<1>4. \A u \in Discovered : sub[u] \subseteq q[u] /\ q[u] \subseteq sub[u] \cup {w}
  BY DEF GrownTree
<1>5. ASSUME NEW b \in Discovered, w \in adjacency[b] \/ b \in adjacency[w]
      PROVE  w \in q[b]
  <2>1. w \in adjacency[b]
    BY <1>1, <1>2, <1>5 DEF GraphIsUndirected
  <2>2. b \notin Left
    BY <2>1 DEF SearchPath, GrownTree
  <2>. QED
    BY <2>2 DEF GrownTree
<1>6. ASSUME NEW a \in Discovered', NEW b \in adjacency[a] \cap Discovered'
      PROVE  a \in q[b] \/ b \in q[a]
  <2>1. CASE a = w /\ b = w
    BY <2>1 DEF GrownTree
  <2>2. CASE a = w /\ b \in Discovered
    BY <1>5, <1>6, <2>2
  <2>3. CASE a \in Discovered /\ b = w
    BY <1>5, <1>6, <2>3
  <2>4. CASE a \in Discovered /\ b \in Discovered
    BY <1>3, <1>4, <1>6, <2>4 DEF TreeEdges
  <2>. QED
    BY <1>1, <2>1, <2>2, <2>3, <2>4
<1>7. ASSUME NEW c \in SUBSET Discovered, Connected(c), p \in c, OnStack # {}
      PROVE  Connected(c \cup {w})
  <2>1. w \in adjacency[p] /\ Connected({w})
    BY <1>1, <1>7, OneIsConnected
  <2>. QED
    BY <1>1, <1>2, <1>7, <2>1, ConnectedWith
<1>8. ASSUME NEW v \in Discovered' PROVE Connected(q[v])
  <2>1. CASE v = w
    <3>1. q[v] = {w} /\ Connected({w})
      BY <2>1, OneIsConnected DEF GrownTree
    <3>. QED
      BY <3>1
  <2>2. CASE v \in OnStack
    <3>1. Connected(sub[v]) /\ sub[v] \in SUBSET Discovered
      BY <1>2, <1>3, <2>2 DEF TreeEdges, GrownTree
    <3>2. q[v] = sub[v] \cup {w} /\ p \in sub[v]
      BY <2>2 DEF GrownTree
    <3>. QED
      BY <1>7, <2>2, <3>1, <3>2
  <2>3. CASE v \in Left
    BY <1>2, <1>3, <2>3 DEF TreeEdges, GrownTree
  <2>. QED
    BY <1>1, <2>1, <2>2, <2>3 DEF GrownTree
<1>9. ASSUME NEW v \in Discovered', NEW u \in q[v], u # v
      PROVE  Connected(q[v] \ q[u])
  <2>1. v \in Discovered
    BY <1>1, <1>9 DEF GrownTree
  <2>2. CASE u = w
    <3>1. q[v] \ q[u] = sub[v]
      <4>1. v \in OnStack /\ sub[v] \subseteq Discovered /\ w \notin Discovered
        BY <2>1, <2>2 DEF GrownTree
      <4>. QED
        BY <2>2, <4>1 DEF GrownTree
    <3>. QED
      BY <1>3, <2>1, <3>1 DEF TreeEdges
  <2>3. CASE u # w
    <3>1. /\ u \in sub[v] /\ u \in Discovered /\ sub[v] \subseteq Discovered
          /\ Connected(sub[v] \ sub[u])
      BY <1>3, <1>4, <1>9, <2>1, <2>3 DEF TreeEdges, GrownTree
    <3>2. CASE u \in OnStack
      <4>1. v \in OnStack
        BY <2>1, <3>1, <3>2 DEF GrownTree, Left
      <4>2. q[v] \ q[u] = sub[v] \ sub[u]
        BY <3>1, <3>2, <4>1 DEF GrownTree
      <4>. QED
        BY <3>1, <4>2
    <3>3. CASE v \in Left
      <4>1. u \in Left
        BY <3>1, <3>3 DEF GrownTree
      <4>. QED
        BY <3>1, <3>3, <4>1 DEF GrownTree
    <3>4. CASE u \in Left /\ v \in OnStack
      <4>1. /\ q[v] = sub[v] \cup {w} /\ q[u] = sub[u] /\ sub[u] \subseteq Left
            /\ p \in sub[v] /\ p \notin Left
        <5>1. p \in OnStack
          BY <1>1, <3>4
        <5>. QED
          BY <3>4, <5>1 DEF GrownTree, Left
      <4>2. w \notin sub[u]
        BY <1>2, <4>1 DEF GrownTree
      <4>3. q[v] \ q[u] = (sub[v] \ sub[u]) \cup {w}
        BY <4>1, <4>2
      <4>4. sub[v] \ sub[u] \in SUBSET Discovered /\ p \in sub[v] \ sub[u]
        BY <3>1, <4>1
      <4>5. Connected((sub[v] \ sub[u]) \cup {w})
        BY <1>7, <3>1, <3>4, <4>4
      <4>. QED
        BY <4>3, <4>5
    <3>. QED
      BY <2>1, <3>1, <3>2, <3>3, <3>4 DEF GrownTree
  <2>. QED
    BY <2>2, <2>3
<1>10. /\ \A v \in Discovered' : Connected(q[v])'
       /\ \A v \in Discovered' : \A u \in q[v] : u # v => Connected(q[v] \ q[u])'
  <2>1. \A c : Connected(c) => Connected(c)'
    BY <1>3, ConnectedAgain
  <2>. QED
    BY <1>8, <1>9, <2>1
<1>. QED
  BY <1>3, <1>6, <1>10 DEF TreeEdges

LEMMA FoundKeepsTree ==
    ASSUME SearchType, SearchPath, NEW w, NEW p, NoteFound(w, p), NEW sub,
           SearchTree(sub), NEW q, GrownTree(q, sub, w, p)
    PROVE  SearchTree(q)'
<1>1. TreeOrder(q)' /\ TreeParents(q)' /\ TreeEdges(q)'
  BY FoundKeepsOrder, FoundKeepsParents, FoundKeepsEdges
<1>2. /\ Discovered' = Discovered \cup {w} /\ OnStack' = OnStack \cup {w}
      /\ Left' = Left
  BY FoundEffects
<1>3. stack'[Len(stack')][1] = w
  BY DEF NoteFound
<1>4. TreeStack(q)'
  BY <1>2, <1>3 DEF TreeStack, GrownTree
<1>5. (q \in [Discovered -> SUBSET Discovered])'
  BY <1>2 DEF GrownTree
<1>. QED
  BY <1>1, <1>4, <1>5 DEF SearchTree

LEMMA FoundKeepsLows ==
    ASSUME SearchType, SearchPath, NEW w, NEW p, NoteFound(w, p), NEW sub,
           SearchTree(sub), Lows(sub), NEW q, GrownTree(q, sub, w, p)
    PROVE  Lows(q)'
<1>1. /\ Discovered' = Discovered \cup {w} /\ Left' = Left /\ w \notin Discovered
      /\ \A u \in Discovered : /\ discovery'[u] = discovery[u]
                               /\ low'[u] = low[u] /\ parent'[u] = parent[u]
      /\ discovery'[w] = clock + 1 /\ low'[w] = clock + 1 /\ parent'[w] = p
  BY FoundEffects
<1>2. /\ clock \in Nat /\ \A u \in Discovered : discovery[u] \in 1..clock
      /\ \A u \in Discovered : low[u] \in Nat
      /\ \A u \in Discovered : parent[u] \in Discovered \cup {Root}
      /\ Left \subseteq Discovered
  BY DEF SearchType, Left
<1>3. adjacency' = adjacency
  BY DEF NoteFound
<1>4. \A v \in Discovered' : low'[v] <= discovery'[v]
  BY <1>1, <1>2 DEF Lows
<1>5. \A v \in Discovered' : low'[v] = discovery'[v] \/
         \E x \in q[v] : \E y \in adjacency[x] \cap Discovered' :
            low'[v] = discovery'[y]
  <2> TAKE v \in Discovered'
  <2>1. CASE v = w
    BY <1>1, <2>1
  <2>2. CASE v \in Discovered
    <3>1. sub[v] \subseteq q[v]
      BY <2>2 DEF GrownTree
    <3>2. CASE low[v] = discovery[v]
      BY <1>1, <2>2, <3>2
    <3>3. CASE low[v] # discovery[v]
      <4>1. PICK x \in sub[v] : \E y \in adjacency[x] \cap Discovered :
               low[v] = discovery[y]
        BY <2>2, <3>3 DEF Lows
      <4>2. PICK y \in adjacency[x] \cap Discovered : low[v] = discovery[y]
        BY <4>1
      <4>3. low'[v] = discovery'[y] /\ y \in adjacency[x] \cap Discovered'
        BY <1>1, <2>2, <4>2
      <4>. QED
        BY <3>1, <4>3
    <3>. QED
      BY <3>2, <3>3
  <2>. QED
    BY <1>1, <2>1, <2>2
<1>6. \A v \in Left : \A y \in adjacency[v] :
         y # parent'[v] => low'[v] <= discovery'[y]
  <2> SUFFICES ASSUME NEW v \in Left, NEW y \in adjacency[v], y # parent'[v]
               PROVE  low'[v] <= discovery'[y]
    OBVIOUS
  <2>1. v \in Discovered /\ y \in Discovered
    BY <1>2 DEF SearchPath
  <2>2. low[v] <= discovery[y]
    BY <1>1, <2>1 DEF Lows
  <2>. QED
    BY <1>1, <2>1, <2>2
<1>7. \A i \in 1..Len(stack') : \A y \in adjacency[stack'[i][1]] :
         y \notin ToSet(stack'[i][2]) /\ y # parent'[stack'[i][1]]
           => low'[stack'[i][1]] <= discovery'[y]
  <2> SUFFICES ASSUME NEW i \in 1..Len(stack'),
                      NEW y \in adjacency[stack'[i][1]],
                      y \notin ToSet(stack'[i][2]), y # parent'[stack'[i][1]]
               PROVE  low'[stack'[i][1]] <= discovery'[y]
    OBVIOUS
  <2>1. PICK n \in Nat : n = Len(stack) /\ Len(stack') = n + 1
    BY LenProperties DEF SearchType, NoteFound
  <2>2. i # n + 1
    BY <2>1 DEF NoteFound
  <2>3. i \in 1..n
    BY <2>1, <2>2
  <2>4. PICK v \in Discovered : v = stack[i][1] /\ v = stack'[i][1]
    BY <2>1, <2>3 DEF SearchType, OnStack, NoteFound
  <2>5. ToSet(stack[i][2]) \subseteq ToSet(stack'[i][2]) \cup {w}
    BY <2>1, <2>3 DEF NoteFound
  <2>6. CASE y \in ToSet(stack[i][2])
    <3>1. y = w
      BY <2>5, <2>6
    <3>2. low[v] <= discovery[v]
      BY <2>4 DEF Lows
    <3>. QED
      BY <1>1, <1>2, <2>4, <3>1, <3>2
  <2>7. CASE y \notin ToSet(stack[i][2])
    <3>1. y \in Discovered
      BY <2>1, <2>3, <2>4, <2>7 DEF SearchPath
    <3>2. low[v] <= discovery[y]
      <4>1. y \in adjacency[stack[i][1]] /\ y # parent[stack[i][1]]
        BY <1>1, <2>4
      <4>. QED
        BY <2>1, <2>3, <2>4, <2>7, <4>1 DEF Lows
    <3>. QED
      BY <1>1, <2>4, <3>1, <3>2
  <2>. QED
    BY <2>6, <2>7
<1>8. \A v \in Left : parent'[v] # Root => low'[parent'[v]] <= low'[v]
  BY <1>1, <1>2 DEF Lows
<1>9. \A v \in Left : \A x \in q[v] : low'[v] <= low'[x]
  <2> SUFFICES ASSUME NEW v \in Left, NEW x \in q[v] PROVE low'[v] <= low'[x]
    OBVIOUS
  <2>1. x \in sub[v] /\ x \in Discovered /\ v \in Discovered
    BY <1>2 DEF GrownTree
  <2>. QED
    BY <1>1, <2>1 DEF Lows
<1>. QED
  BY <1>1, <1>3, <1>4, <1>5, <1>6, <1>7, <1>8, <1>9 DEF Lows

LEMMA FoundKeepsCounts ==
    ASSUME SearchType, Counts, NEW w, NEW p, NoteFound(w, p),
           separatedCount' = separatedCount, scores' = scores,
           childCount' = IF p = Root THEN childCount
                         ELSE [childCount EXCEPT ![p] = @ + 1]
    PROVE  Counts'
<1>1. /\ Discovered' = Discovered \cup {w} /\ Left' = Left /\ w \notin Discovered
      /\ \A u \in Discovered : /\ discovery'[u] = discovery[u]
                               /\ low'[u] = low[u] /\ parent'[u] = parent[u]
      /\ parent'[w] = p /\ OnStack' = OnStack \cup {w} /\ w \in Vertices
      /\ p = Root \/ (p \in OnStack /\ p \in Discovered)
  BY FoundEffects
<1>2. /\ Discovered \subseteq Vertices /\ Left \subseteq Discovered
      /\ Root \notin Vertices /\ Left \cap OnStack = {}
      /\ \A u \in Discovered : parent[u] \in Discovered \cup {Root}
  BY GraphAssumption DEF SearchType, Linked, Root, Left
<1>3. \A u \in Vertices : ChildrenOf(u)' =
         IF u = p THEN ChildrenOf(u) \cup {w} ELSE ChildrenOf(u)
  BY <1>1, <1>2 DEF ChildrenOf
<1>4. \A u \in Vertices : SeparatedFrom(u)' = SeparatedFrom(u)
  BY <1>1, <1>2 DEF SeparatedFrom
<1>5. \A u \in Vertices : childCount[u] = Cardinality(ChildrenOf(u))
      /\ childCount[u] \in Nat
  BY DEF Counts
<1>6. childCount' \in [Vertices -> Nat]
  BY <1>1, <1>2 DEF Counts
<1>7. ASSUME NEW u \in Vertices
      PROVE  childCount'[u] = Cardinality(ChildrenOf(u)')
  <2>1. CASE u # p
    BY <1>1, <1>2, <1>3, <1>5, <2>1 DEF Counts
  <2>2. CASE u = p
    <3>1. childCount'[u] = childCount[u] + 1
      BY <1>1, <1>2, <2>2 DEF Counts
    <3>2. w \notin ChildrenOf(u) /\ IsFiniteSet(ChildrenOf(u))
      BY <1>1, <1>2, GraphAssumption, FS_Subset DEF ChildrenOf
    <3>3. Cardinality(ChildrenOf(u) \cup {w}) = Cardinality(ChildrenOf(u)) + 1
      BY <3>2, FS_AddElement
    <3>. QED
      BY <1>3, <1>5, <2>2, <3>1, <3>3
  <2>. QED
    BY <2>1, <2>2
<1>8. \A u \in Vertices : separatedCount'[u] = Cardinality(SeparatedFrom(u)')
  BY <1>4 DEF Counts
<1>9. \A u \in Left : u # p /\ childCount'[u] = childCount[u]
                      /\ parent'[u] = parent[u]
  BY <1>1, <1>2 DEF Counts
<1>10. DOMAIN scores' = {u \in Left : IF parent'[u] = Root THEN childCount'[u] > 1
                                      ELSE separatedCount'[u] > 0}
  <2>1. DOMAIN scores = {u \in Left : IF parent[u] = Root THEN childCount[u] > 1
                                      ELSE separatedCount[u] > 0}
    BY DEF Counts
  <2>. QED
    BY <1>9, <2>1
<1>11. \A u \in DOMAIN scores' :
          scores'[u] = IF parent'[u] = Root THEN childCount'[u] - 1
                       ELSE separatedCount'[u]
  <2>1. \A u \in DOMAIN scores :
           /\ u \in Left
           /\ scores[u] = IF parent[u] = Root THEN childCount[u] - 1
                          ELSE separatedCount[u]
    BY DEF Counts
  <2>. QED
    BY <1>9, <2>1
<1>12. separatedCount' \in [Vertices -> Nat]
  BY DEF Counts
<1>. QED
  BY <1>1, <1>6, <1>7, <1>8, <1>10, <1>11, <1>12 DEF Counts

LEMMA FoundKeepsSearch ==
    ASSUME SearchInv, NEW w, NEW p, NoteFound(w, p),
           separatedCount' = separatedCount, scores' = scores,
           childCount' = IF p = Root THEN childCount
                         ELSE [childCount EXCEPT ![p] = @ + 1]
    PROVE  SearchInv'
<1>1. SearchType /\ SearchPath /\ Counts
  BY DEF SearchInv
<1>2. PICK sub : SearchTree(sub) /\ Lows(sub)
  BY DEF SearchInv
<1>3. PICK q : GrownTree(q, sub, w, p)
  BY <1>1, <1>2, TreeGrows
<1>4. SearchType' /\ SearchPath' /\ Counts'
  BY <1>1, FoundKeepsType, FoundKeepsPath, FoundKeepsCounts
<1>5. SearchTree(q)' /\ Lows(q)'
  BY <1>1, <1>2, <1>3, FoundKeepsTree, FoundKeepsLows
<1>. QED
  BY <1>4, <1>5 DEF SearchInv

-----------------------------------------------------------------------------

LEMMA SeenEffects ==
    ASSUME SearchType, NEW v, NEW w, NoteSeen(v, w)
    PROVE  /\ Linked' = Linked /\ Discovered' = Discovered
           /\ OnStack' = OnStack /\ Left' = Left
           /\ v \in OnStack /\ v \in Discovered /\ v \notin Left
           /\ low' \in [Discovered -> Nat]
           /\ \A u \in Discovered : low'[u] <= low[u]
           /\ \A u \in Discovered : u # v => low'[u] = low[u]
           /\ low'[v] = low[v] \/ low'[v] = discovery[w]
           /\ w # parent[v] => low'[v] <= discovery[w]
<1>1. Linked' = Linked /\ Discovered' = Discovered
  BY DEF NoteSeen, Linked, Discovered
<1>2. PICK n \in Nat : n = Len(stack) /\ n # 0 /\ Len(stack') = n
  BY LenProperties DEF NoteSeen, SearchType
<1>3. \A i \in 1..n : stack'[i][1] = stack[i][1]
  BY <1>2 DEF NoteSeen
<1>4. OnStack' = OnStack
  <2>1. OnStack' = {stack'[i][1] : i \in 1..n} /\ OnStack = {stack[i][1] : i \in 1..n}
    BY <1>2 DEF OnStack
  <2>. QED
    BY <1>3, <2>1
<1>5. v \in OnStack
  <2>1. n \in 1..n /\ v = stack[n][1]
    BY <1>2 DEF NoteSeen
  <2>. QED
    BY <1>2, <2>1 DEF OnStack
<1>6. v \in Discovered /\ v \notin Left /\ Left' = Left
  BY <1>1, <1>4, <1>5 DEF Left, SearchType
<1>7. /\ low \in [Discovered -> Nat] /\ w \in Discovered
      /\ discovery[w] \in Nat /\ low[v] \in Nat
      /\ low' = IF w # parent[v]
                THEN [low EXCEPT ![v] = Lesser(low[v], discovery[w])] ELSE low
  BY <1>6 DEF SearchType, NoteSeen
<1>8. /\ Lesser(low[v], discovery[w]) \in Nat
      /\ Lesser(low[v], discovery[w]) <= low[v]
      /\ Lesser(low[v], discovery[w]) <= discovery[w]
      /\ \/ Lesser(low[v], discovery[w]) = low[v]
         \/ Lesser(low[v], discovery[w]) = discovery[w]
  BY <1>7 DEF Lesser
<1>9. /\ low' \in [Discovered -> Nat]
      /\ \A u \in Discovered : low'[u] <= low[u]
      /\ \A u \in Discovered : u # v => low'[u] = low[u]
      /\ low'[v] = low[v] \/ low'[v] = discovery[w]
      /\ w # parent[v] => low'[v] <= discovery[w]
  BY <1>6, <1>7, <1>8
<1>. QED
  BY <1>1, <1>4, <1>5, <1>6, <1>9

LEMMA SeenKeepsType ==
    ASSUME SearchType, NEW v, NEW w, NoteSeen(v, w)
    PROVE  SearchType'
<1>1. /\ Linked' = Linked /\ Discovered' = Discovered /\ OnStack' = OnStack
      /\ low' \in [Discovered -> Nat]
  BY SeenEffects
<1>2. /\ UNCHANGED <<adjacency, clock, discovery, parent>>
      /\ stack' \in Seq(StackEntry)
  BY DEF NoteSeen
<1>3. GraphIsUndirected'
  BY <1>2 DEF SearchType, GraphIsUndirected
<1>. QED
  BY <1>1, <1>2, <1>3 DEF SearchType

LEMMA SeenKeepsPath ==
    ASSUME SearchType, SearchPath, NEW v, NEW w, NoteSeen(v, w)
    PROVE  SearchPath'
<1>1. PICK n \in Nat : n = Len(stack) /\ Len(stack') = n
  BY LenProperties DEF SearchType, NoteSeen
<1>2. /\ Discovered' = Discovered /\ Left' = Left
      /\ UNCHANGED <<adjacency, discovery, parent>> /\ w \in Discovered
  BY SeenEffects DEF NoteSeen
<1>3. \A i \in 1..n : /\ stack'[i][1] = stack[i][1]
                      /\ ToSet(stack'[i][2]) \subseteq ToSet(stack[i][2])
                      /\ ToSet(stack[i][2]) \subseteq ToSet(stack'[i][2]) \cup {w}
  BY <1>1 DEF NoteSeen
<1>4. \A i \in 1..n :
         parent[stack'[i][1]] = IF i = 1 THEN Root ELSE stack'[i - 1][1]
  <2> TAKE i \in 1..n
  <2>1. parent[stack[i][1]] = IF i = 1 THEN Root ELSE stack[i - 1][1]
    BY <1>1 DEF SearchPath
  <2>2. i # 1 => i - 1 \in 1..n
    OBVIOUS
  <2>3. i # 1 => stack'[i - 1][1] = stack[i - 1][1]
    BY <1>3, <2>2
  <2>4. stack'[i][1] = stack[i][1]
    BY <1>3
  <2>. QED
    BY <2>1, <2>3, <2>4
<1>5. \A i, j \in 1..n :
         i < j => discovery[stack'[i][1]] < discovery[stack'[j][1]]
  BY <1>1, <1>3 DEF SearchPath
<1>6. \A i \in 1..n :
         /\ ToSet(stack'[i][2]) \subseteq adjacency[stack'[i][1]]
         /\ adjacency[stack'[i][1]] \ ToSet(stack'[i][2]) \subseteq Discovered
  <2> TAKE i \in 1..n
  <2>1. /\ ToSet(stack[i][2]) \subseteq adjacency[stack[i][1]]
        /\ adjacency[stack[i][1]] \ ToSet(stack[i][2]) \subseteq Discovered
    BY <1>1 DEF SearchPath
  <2>. QED
    BY <1>2, <1>3, <2>1
<1>7. \A u \in Left : adjacency[u] \subseteq Discovered
  BY DEF SearchPath
<1>. QED
  BY <1>1, <1>2, <1>4, <1>5, <1>6, <1>7 DEF SearchPath

\* The tree depends on nothing else of the search.
LEMMA TreeAgain ==
    ASSUME NEW sub, SearchTree(sub),
           UNCHANGED <<adjacency, discovery, parent>>, TreeStack(sub)'
    PROVE  SearchTree(sub)'
<1>1. Discovered' = Discovered
  BY DEF Discovered
<1>2. TreeOrder(sub)'
  BY <1>1 DEF SearchTree, TreeOrder
<1>3. TreeParents(sub)'
  BY <1>1 DEF SearchTree, TreeParents
<1>4. TreeEdges(sub)'
  <2>1. \A c : Connected(c) => Connected(c)'
    BY ConnectedAgain
  <2>. QED
    BY <1>1, <2>1 DEF SearchTree, TreeEdges
<1>. QED
  BY <1>1, <1>2, <1>3, <1>4 DEF SearchTree

LEMMA SeenKeepsTree ==
    ASSUME SearchType, NEW v, NEW w, NoteSeen(v, w), NEW sub, SearchTree(sub)
    PROVE  SearchTree(sub)'
<1>1. OnStack' = OnStack /\ Left' = Left
  BY SeenEffects
<1>2. stack'[Len(stack')][1] = stack[Len(stack)][1]
  <2>1. PICK n \in Nat : n = Len(stack) /\ n # 0 /\ Len(stack') = n
    BY LenProperties DEF NoteSeen, SearchType
  <2>2. n \in 1..n
    BY <2>1
  <2>. QED
    BY <2>1, <2>2 DEF NoteSeen
<1>3. TreeStack(sub)'
  BY <1>1, <1>2 DEF SearchTree, TreeStack
<1>. QED
  BY <1>3, TreeAgain DEF NoteSeen

LEMMA SeenKeepsLows ==
    ASSUME SearchType, SearchPath, NEW v, NEW w, NoteSeen(v, w), NEW sub,
           SearchTree(sub), Lows(sub)
    PROVE  Lows(sub)'
<1>1. /\ Discovered' = Discovered /\ Left' = Left
      /\ v \in Discovered /\ v \notin Left
      /\ low' \in [Discovered -> Nat]
      /\ \A u \in Discovered : low'[u] <= low[u]
      /\ \A u \in Discovered : u # v => low'[u] = low[u]
      /\ low'[v] = low[v] \/ low'[v] = discovery[w]
      /\ w # parent[v] => low'[v] <= discovery[w]
  BY SeenEffects
<1>2. /\ UNCHANGED <<adjacency, discovery, parent>>
      /\ w \in Discovered /\ w \in adjacency[v]
  BY DEF NoteSeen
<1>3. /\ \A u \in Discovered : discovery[u] \in Nat /\ low[u] \in Nat
                               /\ low'[u] \in Nat
      /\ \A u \in Discovered : parent[u] \in Discovered \cup {Root}
      /\ Left \subseteq Discovered
  BY <1>1 DEF SearchType, Left
<1>4. \A u \in Discovered : low'[u] <= discovery[u]
  BY <1>1, <1>3 DEF Lows
<1>5. \A u \in Discovered : low'[u] = discovery[u] \/
         \E x \in sub[u] : \E y \in adjacency[x] \cap Discovered :
            low'[u] = discovery[y]
  <2> TAKE u \in Discovered
  <2>1. CASE low'[u] = low[u]
    BY <2>1 DEF Lows
  <2>2. CASE low'[u] # low[u]
    <3>1. u = v /\ low'[u] = discovery[w]
      BY <1>1, <2>2
    <3>2. v \in sub[v]
      BY <1>1 DEF SearchTree, TreeOrder
    <3>. QED
      BY <1>2, <3>1, <3>2
  <2>. QED
    BY <2>1, <2>2
<1>6. \A u \in Left : \A y \in adjacency[u] :
         y # parent[u] => low'[u] <= discovery[y]
  BY <1>1, <1>3 DEF Lows
<1>7. \A i \in 1..Len(stack') : \A y \in adjacency[stack'[i][1]] :
         y \notin ToSet(stack'[i][2]) /\ y # parent[stack'[i][1]]
           => low'[stack'[i][1]] <= discovery[y]
  <2> SUFFICES ASSUME NEW i \in 1..Len(stack'),
                      NEW y \in adjacency[stack'[i][1]],
                      y \notin ToSet(stack'[i][2]), y # parent[stack'[i][1]]
               PROVE  low'[stack'[i][1]] <= discovery[y]
    OBVIOUS
  <2>1. PICK n \in Nat : n = Len(stack) /\ Len(stack') = n
    BY LenProperties DEF SearchType, NoteSeen
  <2>2. i \in 1..n
    BY <2>1
  <2>3. PICK u \in Discovered : u = stack[i][1] /\ u = stack'[i][1]
    BY <2>1, <2>2 DEF SearchType, OnStack, NoteSeen
  <2>4. /\ ToSet(stack[i][2]) \subseteq ToSet(stack'[i][2]) \cup {w}
        /\ i # n => ToSet(stack[i][2]) = ToSet(stack'[i][2])
        /\ i = n => u = v
    BY <2>1, <2>2, <2>3 DEF NoteSeen
  <2>5. CASE y \in ToSet(stack[i][2])
    <3>1. y = w /\ i = n /\ u = v
      BY <2>4, <2>5
    <3>. QED
      BY <1>1, <2>3, <3>1
  <2>6. CASE y \notin ToSet(stack[i][2])
    <3>1. y \in Discovered
      BY <2>1, <2>2, <2>3, <2>6 DEF SearchPath
    <3>2. low[u] <= discovery[y]
      <4>1. y \in adjacency[stack[i][1]] /\ y # parent[stack[i][1]]
        BY <2>3
      <4>. QED
        BY <2>1, <2>2, <2>3, <2>6, <4>1 DEF Lows
    <3>3. low'[u] <= low[u] /\ low'[u] \in Nat /\ low[u] \in Nat
          /\ discovery[y] \in Nat
      BY <1>1, <1>3, <3>1
    <3>. QED
      BY <2>3, <3>2, <3>3
  <2>. QED
    BY <2>5, <2>6
<1>8. ASSUME NEW u \in Left, parent[u] # Root PROVE low'[parent[u]] <= low'[u]
  <2>1. /\ low'[u] = low[u] /\ u \in Discovered /\ parent[u] \in Discovered
        /\ low[parent[u]] <= low[u]
    BY <1>1, <1>3, <1>8 DEF Lows
  <2>2. /\ low'[parent[u]] <= low[parent[u]] /\ low'[parent[u]] \in Nat
        /\ low[parent[u]] \in Nat /\ low[u] \in Nat
    BY <1>1, <1>3, <2>1
  <2>. QED
    BY <2>1, <2>2
<1>9. \A u \in Left : \A x \in sub[u] : low'[u] <= low'[x]
  <2> SUFFICES ASSUME NEW u \in Left, NEW x \in sub[u] PROVE low'[u] <= low'[x]
    OBVIOUS
  <2>1. x \in Left
    BY DEF SearchTree, TreeStack
  <2>. QED
    BY <1>1, <1>3, <2>1 DEF Lows
<1>. QED
  BY <1>1, <1>2, <1>4, <1>5, <1>6, <1>7, <1>8, <1>9 DEF Lows

LEMMA SeenKeepsCounts ==
    ASSUME SearchType, Counts, NEW v, NEW w, NoteSeen(v, w),
           UNCHANGED <<childCount, separatedCount, scores>>
    PROVE  Counts'
<1>1. /\ Discovered' = Discovered /\ Left' = Left /\ v \notin Left
      /\ \A u \in Discovered : u # v => low'[u] = low[u]
  BY SeenEffects
<1>2. Left \subseteq Discovered /\ UNCHANGED <<discovery, parent>>
  BY DEF Left, NoteSeen
<1>3. \A u \in Vertices : ChildrenOf(u)' = ChildrenOf(u)
  BY <1>1, <1>2 DEF ChildrenOf
<1>4. \A u \in Vertices : SeparatedFrom(u)' = SeparatedFrom(u)
  BY <1>1, <1>2 DEF SeparatedFrom
<1>. QED
  BY <1>1, <1>2, <1>3, <1>4 DEF Counts

LEMMA SeenKeepsSearch ==
    ASSUME SearchInv, NEW v, NEW w, NoteSeen(v, w),
           UNCHANGED <<childCount, separatedCount, scores>>
    PROVE  SearchInv'
<1>1. SearchType /\ SearchPath /\ Counts
  BY DEF SearchInv
<1>2. PICK sub : SearchTree(sub) /\ Lows(sub)
  BY DEF SearchInv
<1>3. SearchType' /\ SearchPath' /\ Counts'
  BY <1>1, SeenKeepsType, SeenKeepsPath, SeenKeepsCounts
<1>4. SearchTree(sub)' /\ Lows(sub)'
  BY <1>1, <1>2, SeenKeepsTree, SeenKeepsLows
<1>. QED
  BY <1>3, <1>4 DEF SearchInv

-----------------------------------------------------------------------------

LEMMA LeftEffects ==
    ASSUME SearchType, SearchPath, NEW v, NoteLeft(v)
    PROVE  /\ Linked' = Linked /\ Discovered' = Discovered
           /\ v \in OnStack /\ v \in Discovered /\ v \notin Left
           /\ OnStack' = OnStack \ {v} /\ Left' = Left \cup {v}
           /\ adjacency[v] \subseteq Discovered
           /\ low' \in [Discovered -> Nat]
           /\ \A u \in Discovered : low'[u] <= low[u]
           /\ \A u \in Discovered : u # parent[v] => low'[u] = low[u]
           /\ \/ parent[v] = Root /\ OnStack' = {}
              \/ /\ parent[v] \in OnStack' /\ parent[v] # Root
                 /\ parent[v] \in Discovered
                 /\ parent[v] = stack'[Len(stack')][1]
                 /\ low'[parent[v]] <= low[v]
                 /\ \/ low'[parent[v]] = low[parent[v]]
                    \/ low'[parent[v]] = low[v]
<1>1. Linked' = Linked /\ Discovered' = Discovered
  BY DEF NoteLeft, Linked, Discovered
<1>2. PICK n \in Nat : n = Len(stack) /\ n # 0 /\ Len(stack') = n - 1
  BY LenProperties DEF NoteLeft, SearchType
<1>3. \A i \in 1..(n - 1) : stack'[i] = stack[i]
  BY <1>2 DEF NoteLeft
<1>4. n \in 1..n /\ v = stack[n][1] /\ ToSet(stack[n][2]) = {}
  BY <1>2 DEF NoteLeft
<1>5. v \in OnStack
  BY <1>2, <1>4 DEF OnStack
<1>6. v \in Discovered /\ v \notin Left
  BY <1>5 DEF SearchType, Left
<1>7. \A i \in 1..(n - 1) : i \in 1..n /\ stack[i][1] # v /\ stack[i][1] \in Discovered
  <2> TAKE i \in 1..(n - 1)
  <2>1. i \in 1..n /\ i < n
    BY <1>2
  <2>2. discovery[stack[i][1]] < discovery[v]
    BY <1>2, <1>4, <2>1 DEF SearchPath
  <2>3. discovery[v] \in Nat
    BY <1>6 DEF SearchType
  <2>4. stack[i][1] \in Discovered
    BY <1>2, <2>1 DEF SearchType, OnStack
  <2>. QED
    BY <2>1, <2>2, <2>3, <2>4
<1>8. OnStack' = OnStack \ {v}
  <2>1. OnStack' = {stack'[i][1] : i \in 1..(n - 1)}
        /\ OnStack = {stack[i][1] : i \in 1..n}
    BY <1>2 DEF OnStack
  <2>2. \A i \in 1..n : i = n \/ i \in 1..(n - 1)
    OBVIOUS
  <2>. QED
    BY <1>3, <1>4, <1>7, <2>1, <2>2
<1>9. Left' = Left \cup {v}
  BY <1>1, <1>5, <1>6, <1>8 DEF Left
<1>10. adjacency[v] \subseteq Discovered
  <2>1. adjacency[stack[n][1]] \ ToSet(stack[n][2]) \subseteq Discovered
    BY <1>2, <1>4 DEF SearchPath
  <2>. QED
    BY <1>4, <2>1
<1>11. \/ parent[v] = Root /\ OnStack' = {}
       \/ /\ parent[v] \in OnStack' /\ parent[v] = stack'[Len(stack')][1]
          /\ parent[v] \in Discovered
  <2>1. parent[v] = IF n = 1 THEN Root ELSE stack[n - 1][1]
    BY <1>2, <1>4 DEF SearchPath
  <2>2. CASE n = 1
    <3>1. OnStack' = {stack'[i][1] : i \in 1..0}
      BY <1>2, <2>2 DEF OnStack
    <3>2. 1..0 = {}
      OBVIOUS
    <3>. QED
      BY <2>1, <2>2, <3>1, <3>2
  <2>3. CASE n # 1
    <3>1. n - 1 \in 1..(n - 1)
      BY <1>2, <2>3
    <3>2. stack'[n - 1][1] = parent[v]
      BY <1>3, <2>1, <2>3, <3>1
    <3>3. stack'[n - 1][1] \in OnStack'
      BY <1>2, <3>1 DEF OnStack
    <3>. QED
      BY <1>2, <1>7, <2>1, <2>3, <3>1, <3>2, <3>3
  <2>. QED
    BY <2>2, <2>3
<1>12. Root \notin Discovered
  BY GraphAssumption DEF SearchType, Linked, Root
<1>13. /\ low \in [Discovered -> Nat] /\ low[v] \in Nat
       /\ low' = IF parent[v] = Root THEN low
                 ELSE [low EXCEPT ![parent[v]] = Lesser(low[parent[v]], low[v])]
  BY <1>6 DEF SearchType, NoteLeft
<1>14. CASE parent[v] = Root
  <2>1. low' = low
    BY <1>13, <1>14
  <2>2. /\ low' \in [Discovered -> Nat]
        /\ \A u \in Discovered : low'[u] <= low[u]
        /\ \A u \in Discovered : u # parent[v] => low'[u] = low[u]
    <3>1. low \in [Discovered -> Nat]
      BY <1>13
    <3>2. \A u \in Discovered : low[u] \in Nat
      BY <3>1
    <3>. QED
      BY <2>1, <3>1, <3>2
  <2>3. OnStack' = {}
    BY <1>11, <1>12, <1>14
  <2>. QED
    BY <1>1, <1>5, <1>6, <1>8, <1>9, <1>10, <1>14, <2>2, <2>3
<1>15. CASE parent[v] # Root
  <2>1. PICK p \in Discovered : p = parent[v] /\ low[p] \in Nat
    BY <1>11, <1>13, <1>15
  <2>2. /\ Lesser(low[p], low[v]) \in Nat
        /\ Lesser(low[p], low[v]) <= low[p]
        /\ Lesser(low[p], low[v]) <= low[v]
        /\ \/ Lesser(low[p], low[v]) = low[p]
           \/ Lesser(low[p], low[v]) = low[v]
    BY <1>13, <2>1 DEF Lesser
  <2>3. low' = [low EXCEPT ![p] = Lesser(low[p], low[v])]
    BY <1>13, <1>15, <2>1
  <2>4. /\ low' \in [Discovered -> Nat]
        /\ \A u \in Discovered : low'[u] <= low[u]
        /\ \A u \in Discovered : u # p => low'[u] = low[u]
        /\ low'[p] <= low[v]
        /\ low'[p] = low[p] \/ low'[p] = low[v]
    BY <1>13, <2>1, <2>2, <2>3
  <2>5. p \in OnStack' /\ p = stack'[Len(stack')][1]
    BY <1>11, <1>15, <2>1
  <2>. QED
    BY <1>1, <1>5, <1>6, <1>8, <1>9, <1>10, <1>15, <2>1, <2>4, <2>5
<1>. QED
  BY <1>14, <1>15

LEMMA LeftKeepsType ==
    ASSUME SearchType, SearchPath, NEW v, NoteLeft(v)
    PROVE  SearchType'
<1>1. /\ Linked' = Linked /\ Discovered' = Discovered
      /\ OnStack' = OnStack \ {v} /\ low' \in [Discovered -> Nat]
  BY LeftEffects
<1>2. /\ UNCHANGED <<adjacency, clock, discovery, parent>>
      /\ stack' \in Seq(StackEntry)
  BY DEF NoteLeft
<1>3. GraphIsUndirected'
  BY <1>2 DEF SearchType, GraphIsUndirected
<1>. QED
  BY <1>1, <1>2, <1>3 DEF SearchType

LEMMA LeftKeepsPath ==
    ASSUME SearchType, SearchPath, NEW v, NoteLeft(v)
    PROVE  SearchPath'
<1>1. PICK n \in Nat : n = Len(stack) /\ n # 0 /\ Len(stack') = n - 1
  BY LenProperties DEF SearchType, NoteLeft
<1>2. /\ Discovered' = Discovered /\ Left' = Left \cup {v}
      /\ UNCHANGED <<adjacency, discovery, parent>>
      /\ adjacency[v] \subseteq Discovered
  BY LeftEffects DEF NoteLeft
<1>3. \A i \in 1..(n - 1) : stack'[i] = stack[i] /\ i \in 1..n
  BY <1>1 DEF NoteLeft
<1>4. \A i \in 1..(n - 1) :
         parent[stack'[i][1]] = IF i = 1 THEN Root ELSE stack'[i - 1][1]
  <2> TAKE i \in 1..(n - 1)
  <2>1. parent[stack[i][1]] = IF i = 1 THEN Root ELSE stack[i - 1][1]
    BY <1>1, <1>3 DEF SearchPath
  <2>2. i # 1 => i - 1 \in 1..(n - 1)
    OBVIOUS
  <2>3. i # 1 => stack'[i - 1] = stack[i - 1]
    BY <1>3, <2>2
  <2>4. stack'[i] = stack[i]
    BY <1>3
  <2>. QED
    BY <2>1, <2>3, <2>4
<1>5. \A i, j \in 1..(n - 1) :
         i < j => discovery[stack'[i][1]] < discovery[stack'[j][1]]
  BY <1>1, <1>3 DEF SearchPath
<1>6. \A i \in 1..(n - 1) :
         /\ ToSet(stack'[i][2]) \subseteq adjacency[stack'[i][1]]
         /\ adjacency[stack'[i][1]] \ ToSet(stack'[i][2]) \subseteq Discovered
  <2> TAKE i \in 1..(n - 1)
  <2>1. /\ ToSet(stack[i][2]) \subseteq adjacency[stack[i][1]]
        /\ adjacency[stack[i][1]] \ ToSet(stack[i][2]) \subseteq Discovered
    BY <1>1, <1>3 DEF SearchPath
  <2>2. stack'[i] = stack[i]
    BY <1>3
  <2>3. stack'[i][1] = stack[i][1] /\ ToSet(stack'[i][2]) = ToSet(stack[i][2])
    BY <2>2
  <2>. QED
    BY <2>1, <2>3
<1>7. \A u \in Left' : adjacency[u] \subseteq Discovered
  BY <1>2 DEF SearchPath
<1>. QED
  BY <1>1, <1>2, <1>4, <1>5, <1>6, <1>7 DEF SearchPath

\* What is below the top of the stack, and not the top, has left it.
LEMMA BelowTopHasLeft ==
    ASSUME SearchType, NEW v, NoteLeft(v), v \in Discovered,
           NEW sub, SearchTree(sub), NEW x \in sub[v], x # v
    PROVE  x \in Left
<1>1. x \in Discovered /\ discovery[v] <= discovery[x]
  BY DEF SearchTree, TreeOrder
<1>2. CASE x \in OnStack
  <2>1. v \in sub[x]
    BY <1>2 DEF SearchTree, TreeStack, NoteLeft
  <2>2. discovery[x] <= discovery[v]
    BY <1>1, <2>1 DEF SearchTree, TreeOrder
  <2>3. discovery[x] \in Nat /\ discovery[v] \in Nat
    BY <1>1 DEF SearchType
  <2>4. discovery[x] = discovery[v]
    BY <1>1, <2>2, <2>3
  <2>. QED
    BY <1>1, <2>4 DEF SearchType
<1>. QED
  BY <1>1, <1>2 DEF Left

LEMMA LeftKeepsTree ==
    ASSUME SearchType, SearchPath, NEW v, NoteLeft(v), NEW sub, SearchTree(sub)
    PROVE  SearchTree(sub)'
<1>1. /\ v \in Discovered /\ OnStack' = OnStack \ {v} /\ Left' = Left \cup {v}
      /\ \/ OnStack' = {}
         \/ parent[v] = stack'[Len(stack')][1]
  BY LeftEffects
<1>2. OnStack \subseteq Discovered
  BY DEF SearchType
<1>3. ASSUME NEW u \in OnStack' PROVE stack'[Len(stack')][1] \in sub[u]
  <2>1. u \in OnStack /\ u # v /\ u \in Discovered
    BY <1>1, <1>2, <1>3
  <2>2. v \in sub[u]
    BY <2>1 DEF SearchTree, TreeStack, NoteLeft
  <2>3. parent[v] \in sub[u]
    BY <2>1, <2>2 DEF SearchTree, TreeParents
  <2>. QED
    BY <1>1, <1>3, <2>3
<1>4. \A u \in Left' : sub[u] \subseteq Left'
  <2>1. sub[v] \subseteq Left \cup {v}
    BY <1>1, BelowTopHasLeft
  <2>. QED
    BY <1>1, <2>1 DEF SearchTree, TreeStack
<1>5. TreeStack(sub)'
  BY <1>3, <1>4 DEF TreeStack
<1>. QED
  BY <1>5, TreeAgain DEF NoteLeft

LEMMA LeftKeepsLows ==
    ASSUME SearchType, SearchPath, NEW v, NoteLeft(v), NEW sub,
           SearchTree(sub), Lows(sub)
    PROVE  Lows(sub)'
<1>1. /\ Discovered' = Discovered /\ Left' = Left \cup {v}
      /\ v \in Discovered /\ v \notin Left /\ OnStack' = OnStack \ {v}
      /\ low' \in [Discovered -> Nat]
      /\ \A u \in Discovered : low'[u] <= low[u]
      /\ \A u \in Discovered : u # parent[v] => low'[u] = low[u]
      /\ \/ parent[v] = Root
         \/ /\ parent[v] \in OnStack' /\ parent[v] # Root
            /\ parent[v] \in Discovered
            /\ low'[parent[v]] <= low[v]
            /\ \/ low'[parent[v]] = low[parent[v]]
               \/ low'[parent[v]] = low[v]
      /\ adjacency[v] \subseteq Discovered
  BY LeftEffects
<1>2. UNCHANGED <<adjacency, discovery, parent>>
  BY DEF NoteLeft
<1>3. /\ \A u \in Discovered : discovery[u] \in Nat /\ low[u] \in Nat
                               /\ low'[u] \in Nat
      /\ \A u \in Discovered : parent[u] \in Discovered \cup {Root}
      /\ Left \subseteq Discovered /\ Left \cap OnStack = {}
      /\ Root \notin Discovered
  BY <1>1, GraphAssumption DEF SearchType, Left, Linked, Root
<1>4. \A u \in Left' : u \in Discovered /\ low'[u] = low[u] /\ u # parent[v]
  BY <1>1, <1>3
<1>5. \A u \in Discovered : low'[u] <= discovery[u]
  <2> TAKE u \in Discovered
  <2>1. low'[u] <= low[u] /\ low[u] <= discovery[u]
    BY <1>1 DEF Lows
  <2>. QED
    BY <1>3, <2>1
<1>6. \A u \in Discovered : low'[u] = discovery[u] \/
         \E x \in sub[u] : \E y \in adjacency[x] \cap Discovered :
            low'[u] = discovery[y]
  <2> TAKE u \in Discovered
  <2>1. CASE low'[u] = low[u]
    BY <2>1 DEF Lows
  <2>2. CASE low'[u] # low[u]
    <3>1. u = parent[v] /\ parent[v] # Root /\ low'[u] = low[v]
      BY <1>1, <1>3, <2>2
    <3>2. v \in sub[u] /\ u \in adjacency[v] /\ u \in sub[u]
      BY <1>1, <3>1 DEF SearchTree, TreeParents, TreeOrder
    <3>3. CASE low[v] = discovery[v]
      <4>1. v \in adjacency[u]
        <5>1. u \in Vertices /\ v \in Vertices
          BY <1>1 DEF SearchType, Linked
        <5>. QED
          BY <3>2, <5>1 DEF SearchType, GraphIsUndirected
      <4>. QED
        BY <1>1, <3>1, <3>2, <3>3, <4>1
    <3>4. CASE low[v] # discovery[v]
      <4>1. PICK x \in sub[v] : \E y \in adjacency[x] \cap Discovered :
               low[v] = discovery[y]
        BY <1>1, <3>4 DEF Lows
      <4>2. x \in sub[u]
        BY <3>2, <4>1 DEF SearchTree, TreeOrder
      <4>. QED
        BY <3>1, <4>1, <4>2
    <3>. QED
      BY <3>3, <3>4
  <2>. QED
    BY <2>1, <2>2
<1>7. PICK n \in Nat : n = Len(stack) /\ n # 0 /\ Len(stack') = n - 1
  BY LenProperties DEF SearchType, NoteLeft
<1>8. \A y \in adjacency[v] : y # parent[v] => low[v] <= discovery[y]
  <2>1. n \in 1..n /\ v = stack[n][1] /\ ToSet(stack[n][2]) = {}
    BY <1>7 DEF NoteLeft
  <2>2. \A y \in adjacency[stack[n][1]] :
           y \notin ToSet(stack[n][2]) /\ y # parent[stack[n][1]]
             => low[stack[n][1]] <= discovery[y]
    BY <1>7, <2>1 DEF Lows
  <2>. QED
    BY <2>1, <2>2
<1>9. \A u \in Left' : \A y \in adjacency[u] :
         y # parent[u] => low'[u] <= discovery[y]
  <2>1. \A u \in Left : \A y \in adjacency[u] :
           y # parent[u] => low[u] <= discovery[y]
    BY DEF Lows
  <2>. QED
    BY <1>1, <1>4, <1>8, <2>1
<1>10. \A i \in 1..Len(stack') : \A y \in adjacency[stack'[i][1]] :
         y \notin ToSet(stack'[i][2]) /\ y # parent[stack'[i][1]]
           => low'[stack'[i][1]] <= discovery[y]
  <2> SUFFICES ASSUME NEW i \in 1..Len(stack'),
                      NEW y \in adjacency[stack'[i][1]],
                      y \notin ToSet(stack'[i][2]), y # parent[stack'[i][1]]
               PROVE  low'[stack'[i][1]] <= discovery[y]
    OBVIOUS
  <2>1. i \in 1..(n - 1) /\ i \in 1..n
    BY <1>7
  <2>2. stack'[i] = stack[i]
    BY <1>7, <2>1 DEF NoteLeft
  <2>3. PICK u \in Discovered : u = stack[i][1]
    BY <1>7, <2>1 DEF SearchType, OnStack
  <2>4. /\ u = stack'[i][1] /\ y \notin ToSet(stack[i][2])
        /\ y \in adjacency[stack[i][1]] /\ y # parent[stack[i][1]]
    BY <2>2, <2>3
  <2>5. y \in Discovered
    BY <1>7, <2>1, <2>4 DEF SearchPath
  <2>6. low[u] <= discovery[y]
    BY <1>7, <2>1, <2>3, <2>4 DEF Lows
  <2>7. low'[u] <= low[u] /\ low'[u] \in Nat /\ low[u] \in Nat
        /\ discovery[y] \in Nat
    BY <1>1, <1>3, <2>5
  <2>. QED
    BY <2>4, <2>6, <2>7
<1>11. ASSUME NEW u \in Left', parent[u] # Root PROVE low'[parent[u]] <= low'[u]
  <2>1. CASE u = v
    BY <1>1, <1>4, <1>11, <2>1
  <2>2. CASE u \in Left
    <3>1. /\ low'[u] = low[u] /\ u \in Discovered /\ parent[u] \in Discovered
          /\ low[parent[u]] <= low[u]
      BY <1>3, <1>4, <1>11, <2>2 DEF Lows
    <3>2. /\ low'[parent[u]] <= low[parent[u]] /\ low'[parent[u]] \in Nat
          /\ low[parent[u]] \in Nat /\ low[u] \in Nat
      BY <1>1, <1>3, <3>1
    <3>. QED
      BY <3>1, <3>2
  <2>. QED
    BY <1>1, <2>1, <2>2
<1>12. ASSUME NEW u \in Left', NEW x \in sub[u] PROVE low'[u] <= low'[x]
  <2>1. CASE u \in Left
    <3>1. x \in Left
      BY <2>1 DEF SearchTree, TreeStack
    <3>2. low[u] <= low[x]
      BY <2>1 DEF Lows
    <3>. QED
      BY <1>1, <1>4, <3>1, <3>2
  <2>2. CASE u = v /\ x = v
    BY <1>1, <1>3, <2>2
  <2>3. CASE u = v /\ x # v
    <3>1. PICK c \in Discovered : parent[c] = v /\ x \in sub[c]
      BY <1>1, <2>3 DEF SearchTree, TreeParents
    <3>2. c \in sub[v] /\ c # v
      <4>1. v # Root
        BY <1>1, <1>3
      <4>2. c \in sub[v] /\ discovery[v] < discovery[c]
        BY <3>1, <4>1 DEF SearchTree, TreeParents
      <4>. QED
        BY <1>1, <1>3, <4>2
    <3>3. c \in Left /\ x \in Left
      BY <1>1, <2>3, <3>2, BelowTopHasLeft
    <3>4. low[v] <= low[c] /\ low[c] <= low[x]
      BY <1>1, <1>3, <3>1, <3>3 DEF Lows
    <3>5. /\ low'[u] = low[v] /\ low'[x] = low[x] /\ low[v] \in Nat
          /\ low[c] \in Nat /\ low[x] \in Nat
      BY <1>1, <1>3, <1>4, <2>3, <3>3
    <3>. QED
      BY <3>4, <3>5
  <2>. QED
    BY <1>1, <2>1, <2>2, <2>3
<1>. QED
  BY <1>1, <1>2, <1>5, <1>6, <1>9, <1>10, <1>11, <1>12 DEF Lows

LEMMA LeaveCounts ==
    ASSUME SearchType, LeaveNote, NEW v, v = stack[Len(stack)][1]
    PROVE  /\ childCount' = childCount
           /\ parent[v] = Root =>
                /\ separatedCount' = separatedCount
                /\ scores' = IF childCount[v] > 1
                             THEN With(scores, v, childCount[v] - 1) ELSE scores
           /\ parent[v] # Root =>
                /\ separatedCount' = IF Separates(v)
                     THEN [separatedCount EXCEPT ![parent[v]] = @ + 1]
                     ELSE separatedCount
                /\ scores' = IF separatedCount[v] > 0
                             THEN With(scores, v, separatedCount[v]) ELSE scores
<1>1. Last(stack)[1] = v
  <2>1. stack \in Seq(StackEntry) /\ stack # <<>>
    BY DEF SearchType, LeaveNote
  <2>2. Last(stack) = stack[Len(stack)]
    BY <2>1, FrontAndLast
  <2>. QED
    BY <2>2
<1>. QED
  BY <1>1 DEF LeaveNote

LEMMA LeftKeepsCounts ==
    ASSUME SearchType, SearchPath, Counts, LeaveNote, NEW v, NoteLeft(v)
    PROVE  Counts'
<1>1. /\ Discovered' = Discovered /\ Left' = Left \cup {v}
      /\ v \in Discovered /\ v \notin Left /\ OnStack' = OnStack \ {v}
      /\ \A u \in Discovered : u # parent[v] => low'[u] = low[u]
      /\ \/ parent[v] = Root
         \/ /\ parent[v] \in OnStack' /\ parent[v] # Root
            /\ parent[v] \in Discovered
  BY LeftEffects
<1>2. UNCHANGED <<adjacency, discovery, parent>> /\ v = stack[Len(stack)][1]
  BY DEF NoteLeft
<1>3. /\ childCount' = childCount
      /\ parent[v] = Root =>
           /\ separatedCount' = separatedCount
           /\ scores' = IF childCount[v] > 1
                        THEN With(scores, v, childCount[v] - 1) ELSE scores
      /\ parent[v] # Root =>
           /\ separatedCount' = IF Separates(v)
                THEN [separatedCount EXCEPT ![parent[v]] = @ + 1]
                ELSE separatedCount
           /\ scores' = IF separatedCount[v] > 0
                        THEN With(scores, v, separatedCount[v]) ELSE scores
  BY <1>2, LeaveCounts
<1>4. /\ \A u \in Discovered : parent[u] \in Discovered \cup {Root}
      /\ Left \subseteq Discovered /\ Left \cap OnStack = {}
      /\ Root \notin Vertices /\ Discovered \subseteq Vertices
  BY GraphAssumption DEF SearchType, Left, Linked, Root
<1>5. \A u \in Left' : u \in Discovered /\ low'[u] = low[u] /\ u # parent[v]
  BY <1>1, <1>4
<1>6. \A u \in Vertices : ChildrenOf(u)' = ChildrenOf(u)
  BY <1>1, <1>2 DEF ChildrenOf
<1>7. ASSUME NEW u \in Vertices
      PROVE  /\ separatedCount'[u] = Cardinality(SeparatedFrom(u)')
             /\ separatedCount'[u] \in Nat
  <2>1. separatedCount[u] = Cardinality(SeparatedFrom(u)) /\ separatedCount[u] \in Nat
    BY DEF Counts
  <2>2. CASE u = parent[v] /\ Separates(v)
    <3>1. separatedCount'[u] = separatedCount[u] + 1
      BY <1>3, <1>4, <2>2 DEF Counts
    <3>2. SeparatedFrom(u)' = SeparatedFrom(u) \cup {v}
      BY <1>1, <1>2, <1>5, <2>2 DEF SeparatedFrom, Separates
    <3>3. v \notin SeparatedFrom(u) /\ IsFiniteSet(SeparatedFrom(u))
      BY <1>1, <1>4, GraphAssumption, FS_Subset DEF SeparatedFrom
    <3>4. Cardinality(SeparatedFrom(u) \cup {v}) = Cardinality(SeparatedFrom(u)) + 1
      BY <3>3, FS_AddElement
    <3>. QED
      BY <2>1, <3>1, <3>2, <3>4
  <2>3. CASE u # parent[v]
    <3>1. separatedCount'[u] = separatedCount[u]
      BY <1>3, <2>3 DEF Counts
    <3>2. SeparatedFrom(u)' = SeparatedFrom(u)
      BY <1>1, <1>2, <1>5, <2>3 DEF SeparatedFrom
    <3>. QED
      BY <2>1, <3>1, <3>2
  <2>4. CASE u = parent[v] /\ ~Separates(v)
    <3>1. separatedCount'[u] = separatedCount[u]
      BY <1>3, <1>4, <2>4
    <3>2. SeparatedFrom(u)' = SeparatedFrom(u)
      BY <1>1, <1>2, <1>5, <2>4 DEF SeparatedFrom, Separates
    <3>. QED
      BY <2>1, <3>1, <3>2
  <2>. QED
    BY <2>2, <2>3, <2>4
<1>8. separatedCount' \in [Vertices -> Nat]
  <2>1. separatedCount \in [Vertices -> Nat]
    BY DEF Counts
  <2>2. separatedCount' = [u \in Vertices |-> separatedCount'[u]]
    BY <1>3, <2>1
  <2>. QED
    BY <1>7, <2>2
<1>9. \A u \in Left' : separatedCount'[u] = separatedCount[u]
  <2>1. separatedCount \in [Vertices -> Nat]
    BY DEF Counts
  <2>2. \/ separatedCount' = separatedCount
        \/ separatedCount' = [separatedCount EXCEPT ![parent[v]] = @ + 1]
    BY <1>3
  <2>3. \A u \in Vertices : u # parent[v] => separatedCount'[u] = separatedCount[u]
    BY <2>1, <2>2
  <2>. QED
    BY <1>4, <1>5, <2>3
<1>10. /\ DOMAIN scores' = {u \in Left' : IF parent[u] = Root THEN childCount[u] > 1
                                          ELSE separatedCount[u] > 0}
       /\ \A u \in DOMAIN scores' :
             scores'[u] = IF parent[u] = Root THEN childCount[u] - 1
                          ELSE separatedCount[u]
  <2> DEFINE Scored(u) == IF parent[u] = Root THEN childCount[u] > 1
                          ELSE separatedCount[u] > 0
             Score(u) == IF parent[u] = Root THEN childCount[u] - 1
                         ELSE separatedCount[u]
  <2>1. /\ DOMAIN scores = {u \in Left : Scored(u)}
        /\ \A u \in DOMAIN scores : scores[u] = Score(u)
    BY DEF Counts
  <2>2. scores' = IF Scored(v) THEN With(scores, v, Score(v)) ELSE scores
    BY <1>3
  <2>3. /\ DOMAIN scores' = {u \in Left \cup {v} : Scored(u)}
        /\ \A u \in DOMAIN scores' : scores'[u] = Score(u)
    <3>. HIDE DEF Scored, Score
    <3>. QED
      BY <1>1, <2>1, <2>2 DEF With
  <2>. QED
    BY <1>1, <2>3
<1>11. /\ DOMAIN scores' = {u \in Left' : IF parent'[u] = Root THEN childCount'[u] > 1
                                          ELSE separatedCount'[u] > 0}
       /\ \A u \in DOMAIN scores' :
             scores'[u] = IF parent'[u] = Root THEN childCount'[u] - 1
                          ELSE separatedCount'[u]
  BY <1>2, <1>3, <1>9, <1>10
<1>12. /\ childCount' \in [Vertices -> Nat]
       /\ \A u \in Vertices : childCount'[u] = Cardinality(ChildrenOf(u)')
  BY <1>3, <1>6 DEF Counts
<1>. QED
  BY <1>7, <1>8, <1>11, <1>12 DEF Counts

LEMMA LeftKeepsSearch ==
    ASSUME SearchInv, LeaveNote
    PROVE  SearchInv'
<1>1. SearchType /\ SearchPath /\ Counts
  BY DEF SearchInv
<1>2. PICK sub : SearchTree(sub) /\ Lows(sub)
  BY DEF SearchInv
<1>3. PICK v : v = stack[Len(stack)][1]
  OBVIOUS
<1>4. NoteLeft(v)
  BY <1>1, <1>3, LeaveLeavesNote
<1>5. SearchType' /\ SearchPath' /\ Counts'
  BY <1>1, <1>4, LeftKeepsType, LeftKeepsPath, LeftKeepsCounts
<1>6. SearchTree(sub)' /\ Lows(sub)'
  BY <1>1, <1>2, <1>4, LeftKeepsTree, LeftKeepsLows
<1>. QED
  BY <1>5, <1>6 DEF SearchInv

-----------------------------------------------------------------------------

LEMMA SearchInitInv == GraphInit => SearchInv
<1> SUFFICES ASSUME GraphInit PROVE SearchInv
  OBVIOUS
<1>1. GraphIsUndirected
  BY ClustersInitInv DEF ClustersInv
<1>2. /\ discovery = <<>> /\ low = <<>> /\ parent = <<>> /\ stack = <<>>
      /\ scores = <<>> /\ clock = 0
      /\ childCount = [v \in Vertices |-> 0]
      /\ separatedCount = [v \in Vertices |-> 0]
  BY DEF GraphInit
<1>3. Discovered = {} /\ OnStack = {} /\ Left = {} /\ DOMAIN scores = {}
      /\ Len(stack) = 0
  <2>1. DOMAIN <<>> = {} /\ Len(<<>>) = 0 /\ 1..0 = {}
    OBVIOUS
  <2>2. OnStack = {}
    BY <1>2, <2>1 DEF OnStack
  <2>. QED
    BY <1>2, <2>1, <2>2 DEF Discovered, Left
<1>4. SearchType
  <2>1. /\ discovery \in [{} -> 1..clock] /\ low \in [{} -> Nat]
        /\ parent \in [{} -> {} \cup {Root}] /\ stack \in Seq(StackEntry)
    BY <1>2
  <2>. QED
    BY <1>1, <1>2, <1>3, <2>1 DEF SearchType
<1>5. SearchPath
  <2>1. 1..Len(stack) = {}
    BY <1>3
  <2>. QED
    BY <1>3, <2>1 DEF SearchPath
<1>6. \E sub : SearchTree(sub) /\ Lows(sub)
  <2>1. PICK sub \in [{} -> SUBSET {}] : TRUE
    <3>1. [x \in {} |-> {}] \in [{} -> SUBSET {}]
      OBVIOUS
    <3>. QED
      BY <3>1
  <2>2. SearchTree(sub)
    BY <1>3, <2>1 DEF SearchTree, TreeOrder, TreeParents, TreeStack, TreeEdges
  <2>3. 1..Len(stack) = {}
    BY <1>3
  <2>4. Lows(sub)
    BY <1>3, <2>3 DEF Lows
  <2>. QED
    BY <2>2, <2>4
<1>7. Counts
  <2>1. \A v \in Vertices : ChildrenOf(v) = {} /\ SeparatedFrom(v) = {}
    BY <1>3 DEF ChildrenOf, SeparatedFrom
  <2>2. Cardinality({}) = 0
    BY FS_EmptySet
  <2>3. /\ childCount \in [Vertices -> Nat] /\ separatedCount \in [Vertices -> Nat]
        /\ \A v \in Vertices : childCount[v] = 0 /\ separatedCount[v] = 0
    BY <1>2
  <2>. QED
    BY <1>3, <2>1, <2>2, <2>3 DEF Counts
<1>. QED
  BY <1>4, <1>5, <1>6, <1>7 DEF SearchInv

\* The other tool leaves the search alone.
LEMMA SearchUntouched ==
    ASSUME SearchInv, UNCHANGED <<adjacency, bridgeVars>>
    PROVE  SearchInv'
<1>1. UNCHANGED <<adjacency, discovery, low, parent, childCount,
                  separatedCount, scores, clock, stack>>
  BY DEF bridgeVars
<1>2. /\ Discovered' = Discovered /\ OnStack' = OnStack /\ Left' = Left
      /\ Linked' = Linked
  BY <1>1 DEF Discovered, OnStack, Left, Linked
<1>3. SearchType'
  BY <1>1, <1>2 DEF SearchInv, SearchType, GraphIsUndirected
<1>4. SearchPath'
  BY <1>1, <1>2 DEF SearchInv, SearchPath
<1>5. PICK sub : SearchTree(sub) /\ Lows(sub)
  BY DEF SearchInv
<1>6. TreeStack(sub)'
  BY <1>1, <1>2, <1>5 DEF SearchTree, TreeStack
<1>7. SearchTree(sub)'
  BY <1>1, <1>5, <1>6, TreeAgain
<1>8. Lows(sub)'
  BY <1>1, <1>2, <1>5 DEF Lows
<1>9. Counts'
  <2>1. \A u \in Vertices : /\ ChildrenOf(u)' = ChildrenOf(u)
                            /\ SeparatedFrom(u)' = SeparatedFrom(u)
    BY <1>1, <1>2 DEF ChildrenOf, SeparatedFrom
  <2>. QED
    BY <1>1, <1>2, <2>1 DEF SearchInv, Counts
<1>. QED
  BY <1>3, <1>4, <1>7, <1>8, <1>9 DEF SearchInv

LEMMA SearchInvInductive == SearchInv /\ [GraphNext]_graphVars => SearchInv'
<1> SUFFICES ASSUME SearchInv, [GraphNext]_graphVars PROVE SearchInv'
  OBVIOUS
<1>0. SearchType /\ SearchPath
  BY DEF SearchInv
<1>1. ASSUME NEW v \in Vertices, StartSearch(v) PROVE SearchInv'
  <2>1. NoteFound(v, Root)
    BY <1>0, <1>1, StartFindsNote
  <2>2. UNCHANGED <<childCount, separatedCount, scores>>
    BY <1>1 DEF StartSearch
  <2>. QED
    BY <2>1, <2>2, FoundKeepsSearch
<1>2. CASE VisitNeighbour
  <2>1. PICK v : v = stack[Len(stack)][1]
    OBVIOUS
  <2>2. Len(stack) # 0 /\ separatedCount' = separatedCount /\ scores' = scores
    BY <1>0, <1>2, VisitFindsOrSees DEF VisitNeighbour
  <2>3. PICK w \in Vertices :
           \/ /\ NoteFound(w, v)
              /\ childCount' = [childCount EXCEPT ![v] = @ + 1]
           \/ NoteSeen(v, w) /\ UNCHANGED childCount
    BY <1>0, <1>2, <2>1, VisitFindsOrSees
  <2>4. v # Root
    <3>1. Len(stack) \in 1..Len(stack)
      <4>1. Len(stack) \in Nat
        BY <1>0, LenProperties DEF SearchType
      <4>. QED
        BY <2>2, <4>1
    <3>2. v \in OnStack
      BY <2>1, <3>1 DEF OnStack
    <3>. QED
      BY <1>0, <3>2, GraphAssumption DEF SearchType, Linked, Root
  <2>5. CASE NoteFound(w, v) /\ childCount' = [childCount EXCEPT ![v] = @ + 1]
    BY <2>2, <2>4, <2>5, FoundKeepsSearch
  <2>6. CASE NoteSeen(v, w) /\ UNCHANGED childCount
    BY <2>2, <2>6, SeenKeepsSearch
  <2>. QED
    BY <2>3, <2>5, <2>6
<1>3. CASE LeaveNote
  BY <1>3, LeftKeepsSearch
<1>4. ASSUME NEW v \in Vertices, StartCluster(v) \/ GrowCluster(v)
      PROVE  SearchInv'
  BY <1>4, SearchUntouched DEF StartCluster, GrowCluster
<1>5. CASE EndCluster
  BY <1>5, SearchUntouched DEF EndCluster
<1>6. CASE UNCHANGED graphVars
  BY <1>6, SearchUntouched DEF graphVars
<1>. QED
  BY <1>1, <1>2, <1>3, <1>4, <1>5, <1>6 DEF GraphNext

(***************************************************************************)
(* Components, and what removing a note does to them                       *)
(***************************************************************************)

\* c is a connected component of the notes in s.
IsPart(c, s) == c # {} /\ c \subseteq s /\ Closed(c, s) /\ Connected(c)

LEMMA ReachIsPart ==
    ASSUME GraphIsUndirected, NEW s \in SUBSET Vertices, NEW v \in s
    PROVE  IsPart(Reach(v, s), s)
<1>1. PICK r : r = Reach(v, s)
  OBVIOUS
<1>2. /\ v \in r /\ r \subseteq s /\ Closed(r, s)
      /\ \A t : v \in t /\ Closed(t, s) => r \subseteq t
  BY <1>1, ReachIsLeast
<1>3. ASSUME NEW u \in SUBSET Vertices, NEW t \in SUBSET Vertices,
             r \subseteq u, t \subseteq u, Closed(t, u), t \cap r # {}
      PROVE  r \subseteq t
  <2>1. Closed(t \cap r, s)
    BY <1>2, <1>3 DEF Closed
  <2>2. Closed(r \ t, s)
    <3> SUFFICES ASSUME NEW w \in r \ t, NEW y \in adjacency[w] \cap s
                 PROVE  y \in r \ t
      BY DEF Closed
    <3>1. y \in r
      BY <1>2 DEF Closed
    <3>2. w \in adjacency[y] /\ w \in u
      BY <1>2, <1>3 DEF GraphIsUndirected
    <3>3. y \in t => w \in t
      BY <1>3, <3>2 DEF Closed
    <3>. QED
      BY <3>1, <3>3
  <2>3. CASE v \in t
    BY <1>2, <2>1, <2>3
  <2>4. CASE v \notin t
    BY <1>2, <1>3, <2>2, <2>4
  <2>. QED
    BY <2>3, <2>4
<1>4. Connected(r)
  BY <1>3 DEF Connected
<1>. QED
  BY <1>1, <1>2, <1>4 DEF IsPart

LEMMA PartIsReach ==
    ASSUME NEW s \in SUBSET Vertices, NEW c, IsPart(c, s), NEW v \in c
    PROVE  Reach(v, s) = c
<1>1. v \in s /\ c \subseteq s /\ Closed(c, s) /\ Connected(c)
  BY DEF IsPart
<1>2. PICK r : r = Reach(v, s)
  OBVIOUS
<1>3. /\ v \in r /\ r \subseteq s /\ Closed(r, s)
      /\ \A t : v \in t /\ Closed(t, s) => r \subseteq t
  BY <1>1, <1>2, ReachIsLeast
<1>4. r \subseteq c
  BY <1>1, <1>3
<1>5. c \subseteq r
  BY <1>1, <1>3 DEF Connected
<1>. QED
  BY <1>2, <1>4, <1>5

\* The components are the parts of any division of s into connected parts
\* that no edge leaves.
LEMMA ComponentsAre ==
    ASSUME NEW s \in SUBSET Vertices, NEW P, UNION P = s,
           \A c \in P : IsPart(c, s)
    PROVE  Components(s) = P
<1>1. ASSUME NEW v \in s PROVE Reach(v, s) \in P
  <2>1. PICK c \in P : v \in c
    OBVIOUS
  <2>. QED
    BY <2>1, PartIsReach
<1>2. ASSUME NEW c \in P PROVE \E v \in s : c = Reach(v, s)
  <2>1. PICK v \in c : TRUE
    BY DEF IsPart
  <2>. QED
    BY <2>1, PartIsReach
<1>. QED
  BY <1>1, <1>2 DEF Components

LEMMA ComponentsAreParts ==
    ASSUME GraphIsUndirected, NEW s \in SUBSET Vertices
    PROVE  /\ \A c \in Components(s) : IsPart(c, s)
           /\ UNION Components(s) = s
           /\ \A c, d \in Components(s) : c \cap d # {} => c = d
           /\ IsFiniteSet(Components(s)) /\ Cardinality(Components(s)) \in Nat
<1>1. \A c \in Components(s) : IsPart(c, s)
  BY ReachIsPart DEF Components
<1>2. \A v \in s : v \in Reach(v, s)
  BY ReachIsLeast
<1>3. UNION Components(s) = s
  <2>1. UNION Components(s) \subseteq s
    BY <1>1 DEF IsPart
  <2>2. s \subseteq UNION Components(s)
    BY <1>2 DEF Components
  <2>. QED
    BY <2>1, <2>2
<1>4. ASSUME NEW c \in Components(s), NEW d \in Components(s), c \cap d # {}
      PROVE  c = d
  <2>1. PICK v : v \in c /\ v \in d
    BY <1>4
  <2>2. Reach(v, s) = c
    BY <1>1, <2>1, PartIsReach
  <2>3. Reach(v, s) = d
    BY <1>1, <2>1, PartIsReach
  <2>. QED
    BY <2>2, <2>3
<1>5. IsFiniteSet(Components(s))
  <2>1. IsFiniteSet(SUBSET s)
    BY GraphAssumption, FS_Subset, FS_SUBSET
  <2>2. Components(s) \in SUBSET (SUBSET s)
    BY <1>1 DEF IsPart
  <2>. QED
    BY <2>1, <2>2, FS_Subset
<1>. QED
  BY <1>1, <1>3, <1>4, <1>5, FS_CardinalityType

\* The note v is removed, and its component falls into the parts of P.
LEMMA CutsInto ==
    ASSUME GraphIsUndirected, NEW s \in SUBSET Vertices,
           NEW k \in Components(s), NEW v \in k, NEW P, UNION P = k \ {v},
           \A c \in P : IsPart(c, s \ {v}), IsFiniteSet(P)
    PROVE  Cardinality(Components(s \ {v})) =
             Cardinality(Components(s)) - 1 + Cardinality(P)
<1>1. PICK C : C = Components(s)
  OBVIOUS
<1>2. /\ \A c \in C : IsPart(c, s)
      /\ UNION C = s
      /\ \A c, d \in C : c \cap d # {} => c = d
      /\ IsFiniteSet(C) /\ Cardinality(C) \in Nat /\ k \in C
  BY <1>1, ComponentsAreParts
<1>3. PICK Q : Q = (C \ {k}) \cup P
  OBVIOUS
<1>4. \A c \in Q : IsPart(c, s \ {v})
  <2> SUFFICES ASSUME NEW c \in C, c # k PROVE IsPart(c, s \ {v})
    BY <1>3
  <2>1. v \notin c
    BY <1>2
  <2>2. IsPart(c, s)
    BY <1>2
  <2>. QED
    BY <2>1, <2>2 DEF IsPart, Closed
<1>5. UNION Q = s \ {v}
  <2>1. UNION Q \subseteq s \ {v}
    BY <1>4 DEF IsPart
  <2>2. ASSUME NEW x \in s \ {v} PROVE x \in UNION Q
    <3>1. PICK c \in C : x \in c
      BY <1>2
    <3>. QED
      BY <1>3, <3>1
  <2>. QED
    BY <2>1, <2>2
<1>6. Components(s \ {v}) = Q
  BY <1>4, <1>5, ComponentsAre
<1>7. (C \ {k}) \cap P = {}
  <2> SUFFICES ASSUME NEW c \in P, c \in C, c # k PROVE FALSE
    OBVIOUS
  <2>1. c # {} /\ c \subseteq k
    BY DEF IsPart
  <2>. QED
    BY <1>2, <2>1
<1>8. /\ IsFiniteSet(C \ {k})
      /\ Cardinality(C \ {k}) = Cardinality(C) - 1
  BY <1>2, FS_RemoveElement
<1>9. Cardinality(Q) = Cardinality(C \ {k}) + Cardinality(P)
                         - Cardinality((C \ {k}) \cap P)
  BY <1>3, <1>8, FS_Union
<1>10. Cardinality((C \ {k}) \cap P) = 0 /\ Cardinality(P) \in Nat
  BY <1>7, FS_EmptySet, FS_CardinalityType
<1>. QED
  BY <1>1, <1>2, <1>6, <1>8, <1>9, <1>10

\* Branches that each have an edge to b are connected through it.
LEMMA ConnectedThrough ==
    ASSUME GraphIsUndirected, NEW b \in SUBSET Vertices, Connected(b),
           NEW D \in SUBSET (SUBSET Vertices), \A d \in D : Connected(d),
           \A d \in D : \E x \in d : \E y \in b : y \in adjacency[x]
    PROVE  Connected(b \cup UNION D)
<1> SUFFICES ASSUME NEW s \in SUBSET Vertices, NEW t \in SUBSET Vertices,
                    b \cup UNION D \subseteq s, t \subseteq s, Closed(t, s),
                    t \cap (b \cup UNION D) # {}
             PROVE  b \cup UNION D \subseteq t
  BY DEF Connected
<1>1. t \cap b # {} => b \subseteq t
  BY DEF Connected
<1>2. ASSUME NEW d \in D
      PROVE  (t \cap b # {} => d \subseteq t) /\ (t \cap d # {} => t \cap b # {})
  <2>1. PICK x \in d : \E y \in b : y \in adjacency[x]
    OBVIOUS
  <2>2. PICK y \in b : y \in adjacency[x]
    BY <2>1
  <2>3. /\ x \in adjacency[y] /\ x \in s /\ y \in s
    BY <2>2 DEF GraphIsUndirected
  <2>4. x \in t <=> y \in t
    BY <2>2, <2>3 DEF Closed
  <2>5. Connected(d) /\ d \subseteq s /\ d \in SUBSET Vertices
    OBVIOUS
  <2>6. t \cap d # {} => d \subseteq t
    BY <2>5 DEF Connected
  <2>. QED
    BY <1>1, <2>2, <2>4, <2>6
<1>3. t \cap b # {}
  BY <1>2
<1>. QED
  BY <1>1, <1>2, <1>3

(***************************************************************************)
(* The search has ended                                                    *)
(***************************************************************************)

SearchEnded(sub) ==
    /\ SearchType /\ SearchTree(sub) /\ Lows(sub)
    /\ Discovered = Linked /\ Left = Linked

\* What is below v was discovered after it, and v is the only one of them
\* with its number.
LEMMA BelowIsLater ==
    ASSUME NEW sub, SearchEnded(sub), NEW v \in Linked, NEW w \in sub[v]
    PROVE  /\ w \in Linked /\ sub[w] \subseteq sub[v]
           /\ discovery[v] \in Nat /\ discovery[w] \in Nat
           /\ w = v \/ discovery[v] < discovery[w]
<1>1. /\ w \in Linked /\ sub[w] \subseteq sub[v]
      /\ discovery[v] <= discovery[w]
  BY DEF SearchEnded, SearchTree, TreeOrder
<1>2. discovery[v] \in Nat /\ discovery[w] \in Nat
  BY <1>1 DEF SearchEnded, SearchType
<1>3. discovery[v] = discovery[w] => w = v
  BY <1>1 DEF SearchEnded, SearchType
<1>. QED
  BY <1>1, <1>2, <1>3

\* The child c of v: it is below v, and what leaves its branch goes to v or
\* to something v is below.
LEMMA ChildrenBelow ==
    ASSUME NEW sub, SearchEnded(sub), NEW v \in Linked, NEW c \in ChildrenOf(v)
    PROVE  /\ c \in Linked /\ c \in sub[v] /\ sub[c] \subseteq sub[v]
           /\ discovery[v] < discovery[c]
           /\ v \notin sub[c]
<1>1. c \in Discovered /\ parent[c] = v /\ v # Root /\ c \in Linked
  BY GraphAssumption DEF ChildrenOf, SearchEnded, Linked, Root
<1>2. c \in sub[v] /\ discovery[v] < discovery[c]
  BY <1>1 DEF SearchEnded, SearchTree, TreeParents
<1>3. sub[c] \subseteq sub[v] /\ discovery[v] \in Nat /\ discovery[c] \in Nat
  BY <1>2, BelowIsLater
<1>4. v \notin sub[c]
  <2>1. v \in sub[c] => v = c \/ discovery[c] < discovery[v]
    BY <1>1, BelowIsLater
  <2>. QED
    BY <1>2, <1>3, <2>1
<1>. QED
  BY <1>1, <1>2, <1>3, <1>4

LEMMA EdgesGoUp ==
    ASSUME NEW sub, SearchEnded(sub), NEW c \in Linked, NEW x \in sub[c],
           NEW y \in adjacency[x], y \notin sub[c]
    PROVE  y \in Linked /\ c \in sub[y] /\ c # y /\ parent[c] \in sub[y]
<1>1. x \in Linked /\ sub[x] \subseteq sub[c] /\ x \in Vertices
  BY BelowIsLater DEF Linked
<1>2. y \in Linked
  BY <1>1, NeighboursAreLinked DEF SearchEnded, SearchType
<1>3. x \in sub[y] \/ y \in sub[x]
  BY <1>1, <1>2 DEF SearchEnded, SearchTree, TreeEdges
<1>4. x \in sub[y]
  BY <1>1, <1>3
<1>5. y \in sub[c] \/ c \in sub[y]
  BY <1>2, <1>4 DEF SearchEnded, SearchTree, TreeOrder
<1>6. c \in sub[c]
  BY DEF SearchEnded, SearchTree, TreeOrder
<1>7. c \in sub[y] /\ c # y
  BY <1>5, <1>6
<1>8. parent[c] \in sub[y]
  BY <1>2, <1>7 DEF SearchEnded, SearchTree, TreeParents
<1>. QED
  BY <1>2, <1>7, <1>8

\* The tree of a root is a component.
LEMMA RootTreeIsComponent ==
    ASSUME NEW sub, SearchEnded(sub), NEW r \in Linked, parent[r] = Root
    PROVE  sub[r] \in Components(Linked)
<1>1. /\ Linked \in SUBSET Vertices /\ Root \notin Vertices
  BY GraphAssumption DEF Linked, Root
<1>2. r \in sub[r] /\ sub[r] \subseteq Linked /\ Connected(sub[r])
  BY DEF SearchEnded, SearchTree, TreeOrder, TreeEdges
<1>3. Closed(sub[r], Linked)
  <2> SUFFICES ASSUME NEW x \in sub[r], NEW y \in adjacency[x], y \notin sub[r]
               PROVE  FALSE
    BY DEF Closed
  <2>1. y \in Linked /\ Root \in sub[y]
    BY EdgesGoUp
  <2>2. sub[y] \subseteq Linked
    BY <2>1 DEF SearchEnded, SearchTree
  <2>. QED
    BY <1>1, <2>1, <2>2
<1>4. IsPart(sub[r], Linked)
  BY <1>2, <1>3 DEF IsPart
<1>5. Reach(r, Linked) = sub[r]
  BY <1>1, <1>2, <1>4, PartIsReach
<1>. QED
  BY <1>5 DEF Components

\* As many branches as there are children they start from.
LEMMA BranchesCounted ==
    ASSUME NEW sub, SearchEnded(sub), NEW C \in SUBSET Linked
    PROVE  /\ IsFiniteSet(C) /\ IsFiniteSet({sub[c] : c \in C})
           /\ Cardinality({sub[c] : c \in C}) = Cardinality(C)
<1>1. IsFiniteSet(C)
  BY GraphAssumption, FS_Subset DEF Linked
<1>2. PICK T : T = {sub[c] : c \in C}
  OBVIOUS
<1>3. PICK f : f = [c \in C |-> sub[c]]
  OBVIOUS
<1>4. \A c, d \in C : sub[c] = sub[d] => c = d
  <2> SUFFICES ASSUME NEW c \in C, NEW d \in C, sub[c] = sub[d] PROVE c = d
    OBVIOUS
  <2>1. c \in sub[d] /\ d \in sub[c]
    BY DEF SearchEnded, SearchTree, TreeOrder
  <2>2. /\ discovery[d] \in Nat /\ discovery[c] \in Nat
        /\ c = d \/ discovery[d] < discovery[c]
    BY <2>1, BelowIsLater
  <2>3. d = c \/ discovery[c] < discovery[d]
    BY <2>1, BelowIsLater
  <2>. QED
    BY <2>2, <2>3
<1>5. f \in Bijection(C, T)
  <2>1. f \in Injection(C, T)
    BY <1>2, <1>3, <1>4 DEF Injection, IsInjective
  <2>2. f \in Surjection(C, T)
    BY <1>2, <1>3 DEF Surjection
  <2>. QED
    BY <2>1, <2>2 DEF Bijection
<1>6. ExistsBijection(C, T)
  BY <1>5 DEF ExistsBijection
<1>. QED
  BY <1>1, <1>2, <1>6, FS_Bijection

\* Everything below v other than v is in a branch.
LEMMA BranchesCover ==
    ASSUME NEW sub, SearchEnded(sub), NEW v \in Linked
    PROVE  /\ v \in sub[v]
           /\ UNION {sub[c] : c \in ChildrenOf(v)} = sub[v] \ {v}
<1>1. v \in sub[v]
  BY DEF SearchEnded, SearchTree, TreeOrder
<1>2. \A c \in ChildrenOf(v) : sub[c] \subseteq sub[v] \ {v}
  BY ChildrenBelow
<1>3. ASSUME NEW w \in sub[v], w # v PROVE \E c \in ChildrenOf(v) : w \in sub[c]
  <2>1. PICK c \in Discovered : parent[c] = v /\ w \in sub[c]
    BY <1>3 DEF SearchEnded, SearchTree, TreeParents
  <2>. QED
    BY <2>1 DEF ChildrenOf
<1>. QED
  BY <1>1, <1>2, <1>3

\* Without the root, each of its branches is a component.
LEMMA RootCut ==
    ASSUME NEW sub, SearchEnded(sub), NEW v \in Linked, parent[v] = Root
    PROVE  Cardinality(Components(Linked \ {v})) =
             Cardinality(Components(Linked)) - 1 + Cardinality(ChildrenOf(v))
<1>1. /\ Linked \in SUBSET Vertices /\ Root \notin Vertices
      /\ GraphIsUndirected
  BY GraphAssumption DEF Linked, Root, SearchEnded, SearchType
<1>2. PICK P : P = {sub[c] : c \in ChildrenOf(v)}
  OBVIOUS
<1>3. v \in sub[v] /\ UNION P = sub[v] \ {v} /\ sub[v] \in Components(Linked)
  BY <1>2, BranchesCover, RootTreeIsComponent
<1>4. ASSUME NEW c \in ChildrenOf(v) PROVE IsPart(sub[c], Linked \ {v})
  <2>1. c \in Linked /\ v \notin sub[c] /\ parent[c] = v
    BY ChildrenBelow DEF ChildrenOf
  <2>2. c \in sub[c] /\ sub[c] \subseteq Linked /\ Connected(sub[c])
    BY <2>1 DEF SearchEnded, SearchTree, TreeOrder, TreeEdges
  <2>3. Closed(sub[c], Linked \ {v})
    <3> SUFFICES ASSUME NEW x \in sub[c], NEW y \in adjacency[x],
                        y \notin sub[c], y # v
                 PROVE  FALSE
      BY DEF Closed
    <3>1. y \in Linked /\ v \in sub[y]
      BY <2>1, EdgesGoUp
    <3>2. Root \in sub[y]
      BY <3>1 DEF SearchEnded, SearchTree, TreeParents
    <3>3. sub[y] \subseteq Linked
      BY <3>1 DEF SearchEnded, SearchTree
    <3>. QED
      BY <1>1, <3>2, <3>3
  <2>. QED
    BY <2>1, <2>2, <2>3 DEF IsPart
<1>5. ChildrenOf(v) \in SUBSET Linked
  BY DEF ChildrenOf, SearchEnded
<1>6. IsFiniteSet(P) /\ Cardinality(P) = Cardinality(ChildrenOf(v))
  BY <1>2, <1>5, BranchesCounted
<1>7. \A c \in P : IsPart(c, Linked \ {v})
  BY <1>2, <1>4
<1>8. Cardinality(Components(Linked \ {v})) =
        Cardinality(Components(Linked)) - 1 + Cardinality(P)
  <2>1. PICK k \in Components(Linked) : k = sub[v] /\ v \in k
    BY <1>3
  <2>2. UNION P = k \ {v}
    BY <1>3, <2>1
  <2>. QED
    BY <1>1, <1>6, <1>7, <2>1, <2>2, CutsInto
<1>. QED
  BY <1>6, <1>8

\* A branch of v that reaches above v has the edge that does.
LEMMA BranchReachesUp ==
    ASSUME NEW sub, SearchEnded(sub), NEW v \in Linked, NEW c \in ChildrenOf(v),
           low[c] < discovery[v]
    PROVE  \E x \in sub[c] : \E y \in adjacency[x] :
              y \in Linked /\ discovery[y] < discovery[v]
<1>1. c \in Linked /\ discovery[v] < discovery[c]
  BY ChildrenBelow
<1>2. low[c] \in Nat /\ discovery[v] \in Nat /\ discovery[c] \in Nat
  BY <1>1 DEF SearchEnded, SearchType
<1>3. low[c] # discovery[c]
  BY <1>1, <1>2
<1>4. PICK x \in sub[c] : \E y \in adjacency[x] \cap Discovered :
         low[c] = discovery[y]
  BY <1>1, <1>3 DEF SearchEnded, Lows
<1>5. PICK y \in adjacency[x] \cap Discovered : low[c] = discovery[y]
  BY <1>4
<1>6. y \in Linked
  BY <1>5 DEF SearchEnded
<1>. QED
  BY <1>5, <1>6

\* Nothing leaves a branch of v that does not reach above v, except to v.
LEMMA SeparatedIsPart ==
    ASSUME NEW sub, SearchEnded(sub), NEW v \in Linked,
           NEW c \in SeparatedFrom(v)
    PROVE  IsPart(sub[c], Linked \ {v})
<1>1. c \in ChildrenOf(v) /\ parent[c] = v /\ low[c] >= discovery[v]
  BY DEF SeparatedFrom, ChildrenOf, Left
<1>2. c \in Linked /\ v \notin sub[c]
  BY <1>1, ChildrenBelow
<1>3. c \in sub[c] /\ sub[c] \subseteq Linked /\ Connected(sub[c])
  BY <1>2 DEF SearchEnded, SearchTree, TreeOrder, TreeEdges
<1>4. Closed(sub[c], Linked \ {v})
  <2> SUFFICES ASSUME NEW x \in sub[c], NEW y \in adjacency[x],
                      y \notin sub[c], y # v
               PROVE  FALSE
    BY DEF Closed
  <2>1. y \in Linked /\ v \in sub[y]
    BY <1>1, <1>2, EdgesGoUp
  <2>2. discovery[y] < discovery[v] /\ discovery[y] \in Nat /\ discovery[v] \in Nat
    BY <2>1, BelowIsLater
  <2>3. y # parent[x]
    <3>1. x # c => parent[x] \in sub[c]
      BY <1>2 DEF SearchEnded, SearchTree, TreeParents
    <3>. QED
      BY <1>1, <3>1
  <2>4. x \in Left /\ c \in Left
    BY <1>2, <1>3 DEF SearchEnded
  <2>5. low[x] <= discovery[y] /\ low[c] <= low[x]
    BY <2>3, <2>4 DEF SearchEnded, Lows
  <2>6. low[x] \in Nat /\ low[c] \in Nat
    BY <1>2, <1>3 DEF SearchEnded, SearchType
  <2>. QED
    BY <1>1, <2>2, <2>5, <2>6
<1>. QED
  BY <1>2, <1>3, <1>4 DEF IsPart

LEMMA BranchesDisjoint ==
    ASSUME NEW sub, SearchEnded(sub), NEW v \in Linked,
           NEW c \in ChildrenOf(v), NEW d \in ChildrenOf(v), c # d
    PROVE  sub[c] \cap sub[d] = {}
<1> SUFFICES ASSUME sub[c] \cap sub[d] # {} PROVE FALSE
  OBVIOUS
<1>1. /\ c \in Linked /\ d \in Linked /\ v \notin sub[c] /\ v \notin sub[d]
      /\ parent[c] = v /\ parent[d] = v
  BY ChildrenBelow DEF ChildrenOf
<1>2. c \in sub[d] \/ d \in sub[c]
  BY <1>1 DEF SearchEnded, SearchTree, TreeOrder
<1>3. c \in sub[d] => v \in sub[d]
  BY <1>1 DEF SearchEnded, SearchTree, TreeParents
<1>4. d \in sub[c] => v \in sub[c]
  BY <1>1 DEF SearchEnded, SearchTree, TreeParents
<1>. QED
  BY <1>1, <1>2, <1>3, <1>4

\* Without a note that is no root, its separated branches are components,
\* and the rest of its component is one.
LEMMA InnerCut ==
    ASSUME NEW sub, SearchEnded(sub), NEW v \in Linked, parent[v] # Root
    PROVE  Cardinality(Components(Linked \ {v})) =
             Cardinality(Components(Linked)) + Cardinality(SeparatedFrom(v))
<1>1. Linked \in SUBSET Vertices /\ GraphIsUndirected
  BY DEF Linked, SearchEnded, SearchType
<1>2. PICK r \in Linked : parent[r] = Root /\ v \in sub[r]
  BY DEF SearchEnded, SearchTree, TreeParents
<1>3. r # v /\ parent[v] \in sub[r] /\ parent[v] \in Linked
  <2>1. r # v
    BY <1>2
  <2>2. parent[v] \in sub[r]
    BY <1>2, <2>1 DEF SearchEnded, SearchTree, TreeParents
  <2>. QED
    BY <1>2, <2>1, <2>2, BelowIsLater
<1>4. sub[r] \in Components(Linked) /\ sub[r] \subseteq Linked
      /\ Closed(sub[r], Linked)
  <2>1. sub[r] \in Components(Linked)
    BY <1>2, RootTreeIsComponent
  <2>. QED
    BY <1>1, <2>1, ComponentsAreParts DEF IsPart
<1>5. v \in sub[v] /\ UNION {sub[c] : c \in ChildrenOf(v)} = sub[v] \ {v}
      /\ sub[v] \subseteq sub[r]
  BY <1>2, BranchesCover, BelowIsLater
<1>6. PICK b : b = sub[r] \ sub[v]
  OBVIOUS
<1>7. PICK D : D = {sub[c] : c \in ChildrenOf(v) \ SeparatedFrom(v)}
  OBVIOUS
<1>8. PICK P : P = {sub[c] : c \in SeparatedFrom(v)}
  OBVIOUS
<1>9. PICK rest : rest = b \cup UNION D
  OBVIOUS
<1>10. SeparatedFrom(v) \subseteq ChildrenOf(v) /\ ChildrenOf(v) \subseteq Linked
  BY DEF SeparatedFrom, ChildrenOf, SearchEnded
<1>11. rest \cup UNION P = sub[r] \ {v}
  <2>1. (UNION D) \cup (UNION P) = UNION {sub[c] : c \in ChildrenOf(v)}
    BY <1>7, <1>8, <1>10
  <2>2. (UNION D) \cup (UNION P) = sub[v] \ {v}
    BY <1>5, <2>1
  <2>3. b \cup (sub[v] \ {v}) = sub[r] \ {v}
    <3>1. v \in sub[v] /\ sub[v] \subseteq sub[r]
      BY <1>5
    <3>. QED
      BY <1>6, <3>1
  <2>. QED
    BY <1>9, <2>2, <2>3
<1>12. parent[v] \in b
  <2>1. discovery[parent[v]] < discovery[v]
    BY DEF SearchEnded, SearchTree, TreeParents
  <2>2. parent[v] \notin sub[v]
    <3>1. parent[v] \in sub[v] => /\ discovery[v] \in Nat
                                  /\ discovery[parent[v]] \in Nat
                                  /\ \/ parent[v] = v
                                     \/ discovery[v] < discovery[parent[v]]
      BY BelowIsLater
    <3>. QED
      BY <2>1, <3>1
  <2>. QED
    BY <1>3, <1>6, <2>2
<1>13. ASSUME NEW c \in SeparatedFrom(v) PROVE rest \cap sub[c] = {}
  <2>1. c \in ChildrenOf(v) /\ sub[c] \subseteq sub[v]
    BY <1>10, ChildrenBelow
  <2>2. \A d \in ChildrenOf(v) \ SeparatedFrom(v) : sub[d] \cap sub[c] = {}
    BY <2>1, BranchesDisjoint
  <2>. QED
    BY <1>6, <1>7, <1>9, <2>1, <2>2
<1>14. Connected(rest)
  <2>1. Connected(b) /\ b \in SUBSET Vertices
    BY <1>1, <1>2, <1>3, <1>4, <1>6 DEF SearchEnded, SearchTree, TreeEdges
  <2>2. ASSUME NEW c \in ChildrenOf(v) \ SeparatedFrom(v)
        PROVE  /\ Connected(sub[c]) /\ sub[c] \in SUBSET Vertices
               /\ \E x \in sub[c] : \E y \in b : y \in adjacency[x]
    <3>1. c \in Linked /\ sub[c] \subseteq sub[v]
      BY ChildrenBelow
    <3>2. Connected(sub[c]) /\ sub[c] \in SUBSET Vertices
      BY <1>1, <3>1 DEF SearchEnded, SearchTree, TreeEdges
    <3>3. low[c] < discovery[v]
      <4>1. ~(low[c] >= discovery[v])
        BY <3>1 DEF ChildrenOf, SeparatedFrom, SearchEnded
      <4>2. low[c] \in Nat /\ discovery[v] \in Nat
        BY <3>1 DEF SearchEnded, SearchType
      <4>. QED
        BY <4>1, <4>2
    <3>4. PICK x \in sub[c] : \E y \in adjacency[x] :
              y \in Linked /\ discovery[y] < discovery[v]
      BY <3>3, BranchReachesUp
    <3>5. PICK y \in adjacency[x] : y \in Linked /\ discovery[y] < discovery[v]
      BY <3>4
    <3>6. y \in sub[r]
      BY <1>4, <1>5, <3>1, <3>5 DEF Closed
    <3>7. y \notin sub[v]
      <4>1. y \in sub[v] => /\ discovery[v] \in Nat /\ discovery[y] \in Nat
                            /\ y = v \/ discovery[v] < discovery[y]
        BY BelowIsLater
      <4>. QED
        BY <3>5, <4>1
    <3>. QED
      BY <1>6, <3>2, <3>5, <3>6, <3>7
  <2>3. D \in SUBSET (SUBSET Vertices) /\ \A d \in D : Connected(d)
    BY <1>7, <2>2
  <2>4. \A d \in D : \E x \in d : \E y \in b : y \in adjacency[x]
    BY <1>7, <2>2
  <2>. QED
    BY <1>1, <1>9, <2>1, <2>3, <2>4, ConnectedThrough
<1>15. \A c \in P : IsPart(c, Linked \ {v})
  BY <1>8, SeparatedIsPart
<1>16. IsPart(rest, Linked \ {v})
  <2>1. rest \subseteq Linked \ {v}
    BY <1>4, <1>11
  <2>2. Closed(rest, Linked \ {v})
    <3> SUFFICES ASSUME NEW x \in rest, NEW y \in adjacency[x], y \in Linked,
                        y # v, y \notin rest
                 PROVE  FALSE
      BY DEF Closed
    <3>1. y \in sub[r] \ {v}
      BY <1>4, <1>11 DEF Closed
    <3>2. PICK c \in SeparatedFrom(v) : y \in sub[c]
      BY <1>8, <1>11, <3>1
    <3>3. x \in adjacency[y] /\ x \in Linked \ {v}
      BY <1>1, <2>1 DEF GraphIsUndirected
    <3>4. x \in sub[c]
      BY <3>2, <3>3, SeparatedIsPart DEF IsPart, Closed
    <3>. QED
      BY <1>13, <3>4
  <2>. QED
    BY <1>9, <1>12, <1>14, <2>1, <2>2 DEF IsPart
<1>17. /\ IsFiniteSet(P \cup {rest})
       /\ Cardinality(P \cup {rest}) = Cardinality(SeparatedFrom(v)) + 1
       /\ Cardinality(SeparatedFrom(v)) \in Nat
  <2>1. /\ IsFiniteSet(SeparatedFrom(v)) /\ IsFiniteSet(P)
        /\ Cardinality(P) = Cardinality(SeparatedFrom(v))
    BY <1>8, <1>10, BranchesCounted
  <2>2. rest \notin P
    <3>1. \A c \in SeparatedFrom(v) : rest \cap sub[c] = {}
      BY <1>13
    <3>2. rest # {}
      BY <1>9, <1>12
    <3>. QED
      BY <1>8, <3>1, <3>2
  <2>. QED
    BY <2>1, <2>2, FS_AddElement, FS_CardinalityType
<1>18. Cardinality(Components(Linked \ {v})) =
         Cardinality(Components(Linked)) - 1 + Cardinality(P \cup {rest})
  <2>1. PICK Q : Q = P \cup {rest}
    OBVIOUS
  <2>2. UNION Q = sub[r] \ {v} /\ IsFiniteSet(Q)
        /\ \A c \in Q : IsPart(c, Linked \ {v})
    BY <1>11, <1>15, <1>16, <1>17, <2>1
  <2>. QED
    BY <1>1, <1>2, <1>4, <2>1, <2>2, CutsInto
<1>19. Cardinality(Components(Linked)) \in Nat
  BY <1>1, ComponentsAreParts
<1>. QED
  BY <1>17, <1>18, <1>19

LEMMA SearchInvImplies == SearchInv => BridgesAreCuts
<1> SUFFICES ASSUME SearchInv, BridgesDone PROVE BridgesAreCuts
  BY DEF BridgesAreCuts
<1>1. PICK sub : SearchTree(sub) /\ Lows(sub)
  BY DEF SearchInv
<1>2. Discovered = Linked /\ Left = Linked
  <2>1. Len(stack) = 0 /\ 1..0 = {}
    BY DEF BridgesDone
  <2>2. OnStack = {}
    BY <2>1 DEF OnStack
  <2>. QED
    BY <2>2 DEF Left, Discovered, BridgesDone
<1>3. SearchEnded(sub)
  BY <1>1, <1>2 DEF SearchEnded, SearchInv
<1>4. Linked \in SUBSET Vertices /\ GraphIsUndirected
  BY DEF Linked, SearchInv, SearchType
<1> DEFINE added(v) == Cardinality(Components(Linked \ {v}))
           before == Cardinality(Components(Linked))
<1>5. before \in Nat
  BY <1>4, ComponentsAreParts
<1>6. \A v \in Linked :
         /\ childCount[v] \in Nat /\ separatedCount[v] \in Nat
         /\ added(v) = IF parent[v] = Root THEN before - 1 + childCount[v]
                       ELSE before + separatedCount[v]
  <2> TAKE v \in Linked
  <2>1. /\ childCount[v] \in Nat /\ separatedCount[v] \in Nat
        /\ childCount[v] = Cardinality(ChildrenOf(v))
        /\ separatedCount[v] = Cardinality(SeparatedFrom(v))
    BY <1>4 DEF SearchInv, Counts
  <2>2. CASE parent[v] = Root
    BY <1>3, <2>1, <2>2, RootCut
  <2>3. CASE parent[v] # Root
    BY <1>3, <2>1, <2>3, InnerCut
  <2>. QED
    BY <2>1, <2>2, <2>3
<1>7. /\ DOMAIN scores = {v \in Linked : IF parent[v] = Root THEN childCount[v] > 1
                                         ELSE separatedCount[v] > 0}
      /\ \A v \in DOMAIN scores :
            scores[v] = IF parent[v] = Root THEN childCount[v] - 1
                        ELSE separatedCount[v]
  BY <1>2 DEF SearchInv, Counts
<1>8. /\ DOMAIN scores = {v \in Linked : added(v) > before}
      /\ \A v \in DOMAIN scores : scores[v] = added(v) - before
  <2>. HIDE DEF added, before
  <2>1. \A v \in Linked :
           (IF parent[v] = Root THEN childCount[v] > 1 ELSE separatedCount[v] > 0)
             <=> added(v) > before
    BY <1>5, <1>6
  <2>2. \A v \in Linked :
           (IF parent[v] = Root THEN childCount[v] - 1 ELSE separatedCount[v])
             = added(v) - before
    BY <1>5, <1>6
  <2>3. DOMAIN scores = {v \in Linked : added(v) > before}
    BY <1>7, <2>1
  <2>. QED
    BY <1>7, <2>2, <2>3
<1>. QED
  BY <1>8 DEF BridgesAreCuts

\* find_bridge_notes is right: when the search has ended, the notes with a
\* score are exactly those whose removal adds components, and the score is
\* how many it adds.
THEOREM BridgesFound == GraphSpec => []BridgesAreCuts
<1>1. GraphInit => SearchInv
  BY SearchInitInv
<1>2. SearchInv /\ [GraphNext]_graphVars => SearchInv'
  BY SearchInvInductive
<1>3. SearchInv => BridgesAreCuts
  BY SearchInvImplies
<1>. QED
  BY <1>1, <1>2, <1>3, PTL DEF GraphSpec

\* Both graph tools compute what they are named for.
THEOREM GraphToolsAreCorrect == GraphSpec => []GraphAnswersCorrect
<1>1. ClustersAreComponents /\ BridgesAreCuts => GraphAnswersCorrect
  BY DEF GraphAnswersCorrect
<1>. QED
  BY <1>1, ClustersFound, BridgesFound, PTL

(***************************************************************************)
(* The rows of the link table                                              *)
(***************************************************************************)

\* A row, and the link of the text it was made from.
IsRow(r) ==
    r = [from |-> r.from, type |-> r.type, name |-> r.name, to |-> r.to,
         resolved |-> r.resolved]
LinkOf(r) == [type |-> r.type, name |-> r.name]

\* A note may be the target of a name.
Answers(n, name) == name \in {FullName[n], StemName[n]} \cup Aliases[n]

\* Every link of the texts b of the notes p has exactly one row in rows.
OneRowEach(rows, b, p) ==
    /\ \A r \in rows : IsRow(r) /\ r.from \in p /\ LinkOf(r) \in b[r.from]
    /\ \A r, q \in rows : r.from = q.from /\ LinkOf(r) = LinkOf(q) => r = q
    /\ \A n \in p : \A l \in b[n] :
          \E r \in rows : r.from = n /\ LinkOf(r) = l

\* What a row says of its target.
RowIsSound(r) ==
    /\ r.type \in LinkTypes /\ r.resolved \in BOOLEAN
    /\ r.type = "external" => r.resolved /\ r.to = NoNote
    /\ r.type # "external" /\ r.resolved =>
          r.to \in Notes /\ Answers(r.to, r.name)
    /\ ~r.resolved => r.to = NoNote

\* Every note of the catalog is there once.
CatalogOnce ==
    /\ newest \in Seq(Notes)
    /\ \A i, j \in 1..Len(newest) : newest[i] = newest[j] => i = j
    /\ body \in [Notes -> Bodies \cup {{}}]

\* After a rebuild, the rows are resolved as far as the notes allow.
Fresh ==
    ~edited => \A r \in Internal :
                  ~r.resolved <=> Resolutions(Present, r.name) = {}

LinkInv ==
    /\ CatalogOnce
    /\ OneRowEach(links, body, Present)
    /\ \A r \in links : RowIsSound(r)
    /\ Fresh

LEMMA LinkConstants ==
    /\ Notes \subseteq Nat /\ IsFiniteSet(Notes) /\ NoNote \notin Notes
    /\ \A content \in Bodies \cup {{}} :
          /\ IsFiniteSet(content)
          /\ \A l \in content : /\ l = [type |-> l.type, name |-> l.name]
                                /\ l.type \in LinkTypes
BY LinkAssumption, FS_EmptySet

\* The rows of a text that was just parsed.
LEMMA ParsedRows ==
    ASSUME NEW n \in Notes, NEW content \in Bodies \cup {{}}
    PROVE  /\ \A r \in ParsedLinks(n, content) :
                 /\ IsRow(r) /\ r.from = n /\ LinkOf(r) \in content
                 /\ RowIsSound(r)
                 /\ r.type # "external" => ~r.resolved
           /\ \A r, q \in ParsedLinks(n, content) :
                 LinkOf(r) = LinkOf(q) => r = q
           /\ \A l \in content :
                 \E r \in ParsedLinks(n, content) : LinkOf(r) = l
<1>1. \A l \in content : /\ l = [type |-> l.type, name |-> l.name]
                         /\ l.type \in LinkTypes
  BY LinkConstants
<1>2. ASSUME NEW r \in ParsedLinks(n, content)
      PROVE  \E l \in content :
                r = [from |-> n, type |-> l.type, name |-> l.name,
                     to |-> NoNote, resolved |-> l.type = "external"]
  BY DEF ParsedLinks
<1>3. ASSUME NEW r \in ParsedLinks(n, content)
      PROVE  /\ IsRow(r) /\ r.from = n /\ LinkOf(r) \in content
             /\ r.to = NoNote /\ r.type \in LinkTypes
             /\ r.resolved = (r.type = "external")
  BY <1>1, <1>2 DEF IsRow, LinkOf
<1>4. ASSUME NEW r \in ParsedLinks(n, content)
      PROVE  RowIsSound(r) /\ (r.type # "external" => ~r.resolved)
  BY <1>3 DEF RowIsSound
<1>5. ASSUME NEW r \in ParsedLinks(n, content),
             NEW q \in ParsedLinks(n, content), LinkOf(r) = LinkOf(q)
      PROVE  r = q
  <2>1. r.type = q.type /\ r.name = q.name
    BY <1>5 DEF LinkOf
  <2>. QED
    BY <1>3, <2>1 DEF IsRow
<1>6. ASSUME NEW l \in content
      PROVE  \E r \in ParsedLinks(n, content) : LinkOf(r) = l
  <2>1. PICK r : r = [from |-> n, type |-> l.type, name |-> l.name,
                      to |-> NoNote, resolved |-> l.type = "external"]
    OBVIOUS
  <2>2. r \in ParsedLinks(n, content)
    BY <2>1 DEF ParsedLinks
  <2>. QED
    BY <1>1, <2>1, <2>2 DEF LinkOf
<1>. QED
  BY <1>3, <1>4, <1>5, <1>6

\* The rows of all the notes of the catalog.
LEMMA AllParsedRows ==
    ASSUME NEW p \in SUBSET Notes, NEW b \in [Notes -> Bodies \cup {{}}],
           NEW rows, rows = UNION {ParsedLinks(n, b[n]) : n \in p}
    PROVE  /\ OneRowEach(rows, b, p)
           /\ \A r \in rows : RowIsSound(r) /\ (r.type # "external" => ~r.resolved)
<1>1. \A n \in p : b[n] \in Bodies \cup {{}}
  OBVIOUS
<1>2. \A r : r \in rows <=> \E n \in p : r \in ParsedLinks(n, b[n])
  OBVIOUS
<1>3. \A n \in p : \A r \in ParsedLinks(n, b[n]) :
        /\ IsRow(r) /\ r.from = n /\ LinkOf(r) \in b[n] /\ RowIsSound(r)
        /\ r.type # "external" => ~r.resolved
  BY <1>1, ParsedRows
<1>4. \A r \in rows : IsRow(r) /\ r.from \in p /\ LinkOf(r) \in b[r.from]
                      /\ r \in ParsedLinks(r.from, b[r.from])
  BY <1>2, <1>3
<1>5. ASSUME NEW r \in rows, NEW q \in rows, r.from = q.from,
             LinkOf(r) = LinkOf(q)
      PROVE  r = q
  <2>1. PICK n \in p : n = r.from
    BY <1>4
  <2>2. r \in ParsedLinks(n, b[n]) /\ q \in ParsedLinks(n, b[n])
    BY <1>4, <1>5, <2>1
  <2>. QED
    BY <1>1, <1>5, <2>2, ParsedRows
<1>6. ASSUME NEW n \in p, NEW l \in b[n]
      PROVE  \E r \in rows : r.from = n /\ LinkOf(r) = l
  <2>1. PICK r \in ParsedLinks(n, b[n]) : LinkOf(r) = l
    BY <1>1, ParsedRows
  <2>. QED
    BY <1>2, <1>3, <2>1
<1>. QED
  BY <1>2, <1>3, <1>4, <1>5, <1>6 DEF OneRowEach

\* What one resolution makes of a row.
ResolvedRow(r, p, choice) ==
    IF ~r.resolved /\ Resolutions(p, r.name) # {}
    THEN [r EXCEPT !.to = choice[r.name], !.resolved = TRUE]
    ELSE r

LEMMA ResolvedRowIs ==
    ASSUME NEW r, IsRow(r), RowIsSound(r), NEW p \in SUBSET Notes, NEW choice,
           Resolutions(p, r.name) # {} =>
              choice[r.name] \in Resolutions(p, r.name),
           NEW q, q = ResolvedRow(r, p, choice)
    PROVE  /\ IsRow(q) /\ q.from = r.from /\ LinkOf(q) = LinkOf(r)
           /\ RowIsSound(q)
           /\ (r.type # "external" => ~r.resolved) =>
                 (q.type # "external" =>
                    (~q.resolved <=> Resolutions(p, q.name) = {}))
<1>1. CASE ~r.resolved /\ Resolutions(p, r.name) # {}
  <2>1. q = [from |-> r.from, type |-> r.type, name |-> r.name,
             to |-> choice[r.name], resolved |-> TRUE]
    BY <1>1 DEF ResolvedRow, IsRow
  <2>2. r.type # "external"
    BY <1>1 DEF RowIsSound
  <2>3. choice[r.name] \in Notes /\ Answers(choice[r.name], r.name)
    BY <1>1 DEF Resolutions, Answers
  <2>4. IsRow(q) /\ q.from = r.from /\ LinkOf(q) = LinkOf(r)
    BY <2>1 DEF IsRow, LinkOf
  <2>5. q.type = r.type /\ q.name = r.name /\ q.to = choice[r.name] /\ q.resolved = TRUE
    BY <2>1
  <2>6. RowIsSound(q)
    BY <2>2, <2>3, <2>5 DEF RowIsSound
  <2>. QED
    BY <1>1, <2>4, <2>5, <2>6
<1>2. CASE ~(~r.resolved /\ Resolutions(p, r.name) # {})
  <2>1. q = r
    BY <1>2 DEF ResolvedRow
  <2>. QED
    BY <1>2, <2>1
<1>. QED
  BY <1>1, <1>2

\* A resolution keeps one row for every link.
LEMMA ResolvedRows ==
    ASSUME NEW p \in SUBSET Notes, NEW b, NEW rows, OneRowEach(rows, b, p),
           \A r \in rows : RowIsSound(r), NEW choice,
           \A r \in rows : Resolutions(p, r.name) # {} =>
              choice[r.name] \in Resolutions(p, r.name),
           NEW result, result = ResolvedLinks(rows, p, choice)
    PROVE  /\ OneRowEach(result, b, p)
           /\ \A q \in result : RowIsSound(q)
           /\ (\A r \in rows : r.type # "external" => ~r.resolved) =>
                 \A q \in result : q.type # "external" =>
                    (~q.resolved <=> Resolutions(p, q.name) = {})
<1>1. \A q : q \in result <=> \E r \in rows : q = ResolvedRow(r, p, choice)
  BY DEF ResolvedLinks, ResolvedRow
<1>2. ASSUME NEW r \in rows, NEW q, q = ResolvedRow(r, p, choice)
      PROVE  /\ IsRow(q) /\ q.from = r.from /\ LinkOf(q) = LinkOf(r)
             /\ RowIsSound(q)
             /\ (r.type # "external" => ~r.resolved) =>
                   (q.type # "external" =>
                      (~q.resolved <=> Resolutions(p, q.name) = {}))
  <2>1. /\ IsRow(r) /\ RowIsSound(r)
        /\ Resolutions(p, r.name) # {} =>
              choice[r.name] \in Resolutions(p, r.name)
    BY DEF OneRowEach
  <2>. QED
    BY <1>2, <2>1, ResolvedRowIs, Zenon
<1>3. \A q \in result : IsRow(q) /\ q.from \in p /\ LinkOf(q) \in b[q.from]
  BY <1>1, <1>2 DEF OneRowEach
<1>4. ASSUME NEW x \in result, NEW y \in result, x.from = y.from,
             LinkOf(x) = LinkOf(y)
      PROVE  x = y
  <2>1. PICK r \in rows : x = ResolvedRow(r, p, choice)
    BY <1>1
  <2>2. PICK q \in rows : y = ResolvedRow(q, p, choice)
    BY <1>1
  <2>3. r.from = q.from /\ LinkOf(r) = LinkOf(q)
    BY <1>2, <1>4, <2>1, <2>2
  <2>. QED
    BY <2>1, <2>2, <2>3 DEF OneRowEach
<1>5. ASSUME NEW n \in p, NEW l \in b[n]
      PROVE  \E q \in result : q.from = n /\ LinkOf(q) = l
  <2>1. PICK r \in rows : r.from = n /\ LinkOf(r) = l
    BY DEF OneRowEach
  <2>2. PICK q : q = ResolvedRow(r, p, choice)
    OBVIOUS
  <2>. QED
    BY <1>1, <1>2, <2>1, <2>2
<1>. QED
  BY <1>1, <1>2, <1>3, <1>4, <1>5 DEF OneRowEach

(***************************************************************************)
(* The catalog                                                             *)
(***************************************************************************)

LEMMA WithoutNote ==
    ASSUME CatalogOnce, NEW n
    PROVE  /\ Without(newest, n) \in Seq(Notes)
           /\ OnceEach(Without(newest, n))
           /\ ToSet(Without(newest, n)) = Present \ {n}
<1>1. PICK s : s = newest
  OBVIOUS
<1>2. s \in Seq(Notes) /\ OnceEach(s)
  BY <1>1 DEF CatalogOnce, OnceEach
<1>. QED
  BY <1>1, <1>2, WithoutOne DEF Present

\* A note put first into a catalog that does not have it.
LEMMA PutFirst ==
    ASSUME NEW n \in Notes, NEW s \in Seq(Notes), OnceEach(s), n \notin ToSet(s),
           NEW t, t = <<n>> \o s
    PROVE  /\ t \in Seq(Notes) /\ OnceEach(t) /\ ToSet(t) = ToSet(s) \cup {n}
<1>1. PICK k \in Nat : k = Len(s)
  BY LenProperties
<1>2. DOMAIN s = 1..k /\ \A i \in 1..k : s[i] \in Notes
  BY <1>1, LenProperties, ElementOfSeq
<1>3. t \in Seq(Notes) /\ Len(t) = k + 1 /\ DOMAIN t = 1..(k + 1)
  BY <1>1, LenProperties
<1>4. t[1] = n /\ \A i \in 1..k : t[i + 1] = s[i]
  BY <1>1
<1>5. \A j \in 2..(k + 1) : t[j] = s[j - 1] /\ j - 1 \in 1..k
  BY <1>1, <1>4
<1>6. \A i \in 1..k : s[i] # n
  BY <1>2 DEF ToSet
<1>7. OnceEach(t)
  <2> SUFFICES ASSUME NEW i \in 1..(k + 1), NEW j \in 1..(k + 1), t[i] = t[j]
               PROVE  i = j
    BY <1>3 DEF OnceEach
  <2>1. CASE i = 1 /\ j = 1
    BY <2>1
  <2>2. CASE i = 1 /\ j # 1
    BY <1>1, <1>4, <1>5, <1>6, <2>2
  <2>3. CASE i # 1 /\ j = 1
    BY <1>1, <1>4, <1>5, <1>6, <2>3
  <2>4. CASE i # 1 /\ j # 1
    <3>1. i - 1 \in 1..k /\ j - 1 \in 1..k /\ s[i - 1] = s[j - 1]
      BY <1>1, <1>5, <2>4
    <3>2. i - 1 = j - 1
      BY <1>1, <3>1 DEF OnceEach
    <3>. QED
      BY <1>1, <3>2
  <2>. QED
    BY <2>1, <2>2, <2>3, <2>4
<1>8. ToSet(t) = ToSet(s) \cup {n}
  <2>1. \A x \in ToSet(t) : x \in ToSet(s) \cup {n}
    <3> SUFFICES ASSUME NEW i \in 1..(k + 1) PROVE t[i] \in ToSet(s) \cup {n}
      BY <1>3 DEF ToSet
    <3>1. CASE i = 1
      BY <1>4, <3>1
    <3>2. CASE i # 1
      <4>1. t[i] = s[i - 1] /\ i - 1 \in 1..k
        BY <1>1, <1>5, <3>2
      <4>. QED
        BY <1>2, <4>1 DEF ToSet
    <3>. QED
      BY <3>1, <3>2
  <2>2. \A x \in ToSet(s) : x \in ToSet(t)
    <3> SUFFICES ASSUME NEW i \in 1..k PROVE s[i] \in ToSet(t)
      BY <1>2 DEF ToSet
    <3>1. i + 1 \in 1..(k + 1) /\ t[i + 1] = s[i]
      BY <1>1, <1>4
    <3>. QED
      BY <1>3, <3>1 DEF ToSet
  <2>3. n \in ToSet(t)
    <3>1. 1 \in 1..(k + 1)
      BY <1>1
    <3>. QED
      BY <1>3, <1>4, <3>1 DEF ToSet
  <2>. QED
    BY <2>1, <2>2, <2>3
<1>. QED
  BY <1>3, <1>7, <1>8

(***************************************************************************)
(* The invariant                                                           *)
(***************************************************************************)

LEMMA LinkInvInit == LinkInit => LinkInv
<1> SUFFICES ASSUME LinkInit PROVE LinkInv
  OBVIOUS
<1>1. newest = <<>> /\ Present = {} /\ links = {}
  BY DEF LinkInit, Present, ToSet
<1>2. CatalogOnce
  BY <1>1 DEF LinkInit, CatalogOnce
<1>. QED
  BY <1>1, <1>2 DEF LinkInv, OneRowEach, Fresh, Internal

LEMMA RebuildKeepsLinkInv == LinkInv /\ RebuildLinks => LinkInv'
<1> SUFFICES ASSUME LinkInv, RebuildLinks PROVE LinkInv'
  OBVIOUS
<1>1. PICK choice \in PathMaps(Present) :
         /\ links' = ResolvedLinks(UNION {ParsedLinks(n, body[n]) :
                                          n \in Present}, Present, choice)
         /\ edited' = FALSE /\ UNCHANGED <<newest, body>>
  BY DEF RebuildLinks
<1>2. PICK p, b, rows, result :
         /\ p = Present /\ b = body /\ result = links'
         /\ rows = UNION {ParsedLinks(n, b[n]) : n \in p}
  OBVIOUS
<1>3. p \in SUBSET Notes /\ b \in [Notes -> Bodies \cup {{}}]
  BY <1>2 DEF LinkInv, CatalogOnce, Present, ToSet
<1>4. /\ OneRowEach(rows, b, p) /\ \A r \in rows : RowIsSound(r)
      /\ \A r \in rows : r.type # "external" => ~r.resolved
  BY <1>2, <1>3, AllParsedRows
<1>5. ASSUME NEW r \in rows, Resolutions(p, r.name) # {}
      PROVE  choice[r.name] \in Resolutions(p, r.name)
  <2>1. r.from \in p /\ LinkOf(r) \in b[r.from]
    BY <1>4 DEF OneRowEach
  <2>2. LinkOf(r).name = r.name
    BY DEF LinkOf
  <2>3. r.name \in UNION {{l.name : l \in body[n]} : n \in Present}
    BY <1>2, <2>1, <2>2
  <2>. QED
    BY <1>1, <1>2, <1>5, <2>3 DEF PathMaps
<1>6. result = ResolvedLinks(rows, p, choice)
  BY <1>1, <1>2
<1>7. /\ OneRowEach(result, b, p)
      /\ \A q \in result : RowIsSound(q)
      /\ \A q \in result : q.type # "external" =>
            (~q.resolved <=> Resolutions(p, q.name) = {})
  <2>1. \A r \in rows : Resolutions(p, r.name) # {} =>
              choice[r.name] \in Resolutions(p, r.name)
    BY <1>5
  <2>. QED
    BY <1>3, <1>4, <1>6, <2>1, ResolvedRows
<1>8. Present' = p /\ body' = b /\ links' = result
  BY <1>1, <1>2 DEF Present
<1>9. CatalogOnce'
  BY <1>1 DEF LinkInv, CatalogOnce
<1>10. Fresh'
  BY <1>7, <1>8 DEF Fresh, Internal
<1>. QED
  BY <1>7, <1>8, <1>9, <1>10 DEF LinkInv

\* The rows after those of one note were replaced.
LEMMA ReplacedRows ==
    ASSUME NEW p \in SUBSET Notes, NEW b \in [Notes -> Bodies \cup {{}}],
           NEW rows, OneRowEach(rows, b, p), \A r \in rows : RowIsSound(r),
           NEW n \in Notes, NEW content \in Bodies, NEW result,
           result = {r \in rows : r.from # n} \cup ParsedLinks(n, content),
           NEW c, c = [b EXCEPT ![n] = content]
    PROVE  /\ OneRowEach(result, c, p \cup {n})
           /\ \A r \in result : RowIsSound(r)
<1>1. /\ \A r \in ParsedLinks(n, content) :
            IsRow(r) /\ r.from = n /\ LinkOf(r) \in content /\ RowIsSound(r)
      /\ \A r, q \in ParsedLinks(n, content) : LinkOf(r) = LinkOf(q) => r = q
      /\ \A l \in content : \E r \in ParsedLinks(n, content) : LinkOf(r) = l
  BY ParsedRows
<1>2. c[n] = content /\ \A m \in Notes : m # n => c[m] = b[m]
  OBVIOUS
<1>3. \A r \in result : IsRow(r) /\ r.from \in p \cup {n}
                        /\ LinkOf(r) \in c[r.from] /\ RowIsSound(r)
  BY <1>1, <1>2 DEF OneRowEach
<1>4. ASSUME NEW r \in result, NEW q \in result, r.from = q.from,
             LinkOf(r) = LinkOf(q)
      PROVE  r = q
  BY <1>1, <1>4 DEF OneRowEach
<1>5. ASSUME NEW m \in p \cup {n}, NEW l \in c[m]
      PROVE  \E r \in result : r.from = m /\ LinkOf(r) = l
  BY <1>1, <1>2 DEF OneRowEach
<1>. QED
  BY <1>3, <1>4, <1>5 DEF OneRowEach

LEMMA ReplaceKeepsLinkInv ==
    ASSUME LinkInv, NEW n \in Notes, ReplaceLinks(n)
    PROVE  LinkInv'
<1>1. PICK content \in Bodies :
         /\ body' = [body EXCEPT ![n] = content]
         /\ newest' = <<n>> \o Without(newest, n)
         /\ links' = {r \in links : r.from # n} \cup ParsedLinks(n, content)
         /\ edited' = TRUE
  BY DEF ReplaceLinks
<1>2. CatalogOnce /\ body \in [Notes -> Bodies \cup {{}}]
  BY DEF LinkInv, CatalogOnce
<1>3. PICK s : s = Without(newest, n)
  OBVIOUS
<1>4. s \in Seq(Notes) /\ OnceEach(s) /\ ToSet(s) = Present \ {n}
  BY <1>2, <1>3, WithoutNote
<1>5. PICK t : t = <<n>> \o s
  OBVIOUS
<1>6. t \in Seq(Notes) /\ OnceEach(t) /\ ToSet(t) = ToSet(s) \cup {n}
  <2>1. n \notin ToSet(s)
    BY <1>4
  <2>. QED
    BY <1>4, <1>5, <2>1, PutFirst
<1>7. newest' = t /\ Present' = Present \cup {n}
  BY <1>1, <1>3, <1>4, <1>5, <1>6 DEF Present
<1>8. CatalogOnce'
  <2>1. body' \in [Notes -> Bodies \cup {{}}]
    BY <1>1, <1>2
  <2>. QED
    BY <1>6, <1>7, <2>1 DEF CatalogOnce, OnceEach
<1>9. PICK p, b, rows, result, c :
         /\ p = Present /\ b = body /\ rows = links
         /\ result = links' /\ c = body'
  OBVIOUS
<1>10. OneRowEach(result, c, p \cup {n}) /\ \A r \in result : RowIsSound(r)
  <2>1. p \in SUBSET Notes
    BY <1>2, <1>9 DEF CatalogOnce, Present, ToSet
  <2>2. OneRowEach(rows, b, p) /\ \A r \in rows : RowIsSound(r)
    BY <1>9 DEF LinkInv
  <2>3. result = {r \in rows : r.from # n} \cup ParsedLinks(n, content)
    BY <1>1, <1>9
  <2>4. c = [b EXCEPT ![n] = content] /\ b \in [Notes -> Bodies \cup {{}}]
    BY <1>1, <1>2, <1>9
  <2>. QED
    BY <2>1, <2>2, <2>3, <2>4, ReplacedRows
<1>. QED
  BY <1>1, <1>7, <1>8, <1>9, <1>10 DEF LinkInv, Fresh

LEMMA DeleteKeepsLinkInv ==
    ASSUME LinkInv, NEW n \in Notes, DeleteLinks(n)
    PROVE  LinkInv'
<1>1. /\ body' = [body EXCEPT ![n] = {}]
      /\ newest' = Without(newest, n)
      /\ links' = {r \in links : r.from # n}
      /\ edited' = TRUE
  BY DEF DeleteLinks
<1>2. CatalogOnce /\ body \in [Notes -> Bodies \cup {{}}]
  BY DEF LinkInv, CatalogOnce
<1>3. PICK s : s = Without(newest, n)
  OBVIOUS
<1>4. s \in Seq(Notes) /\ OnceEach(s) /\ ToSet(s) = Present \ {n}
  BY <1>2, <1>3, WithoutNote
<1>5. newest' = s /\ Present' = Present \ {n}
  BY <1>1, <1>3, <1>4 DEF Present
<1>6. CatalogOnce'
  <2>1. body' \in [Notes -> Bodies \cup {{}}]
    BY <1>1, <1>2
  <2>. QED
    BY <1>4, <1>5, <2>1 DEF CatalogOnce, OnceEach
<1>7. Present \subseteq Notes
  BY <1>2 DEF CatalogOnce, Present, ToSet
<1>8. \A m \in Present' : m \in Notes /\ m # n /\ body'[m] = body[m]
  BY <1>1, <1>2, <1>5, <1>7
<1>9. OneRowEach(links', body', Present')
  BY <1>1, <1>5, <1>8 DEF LinkInv, OneRowEach
<1>. QED
  BY <1>1, <1>6, <1>9 DEF LinkInv, Fresh

LEMMA LinkInvariant == LinkSpec => []LinkInv
<1>1. LinkInv /\ [LinkNext]_linkVars => LinkInv'
  <2> SUFFICES ASSUME LinkInv, [LinkNext]_linkVars PROVE LinkInv'
    OBVIOUS
  <2>1. CASE UNCHANGED linkVars
    BY <2>1 DEF LinkInv, linkVars, CatalogOnce, Fresh, Internal, Present
  <2>2. CASE RebuildLinks
    BY <2>2, RebuildKeepsLinkInv
  <2>3. ASSUME NEW n \in Notes, ReplaceLinks(n) PROVE LinkInv'
    BY <2>3, ReplaceKeepsLinkInv
  <2>4. ASSUME NEW n \in Notes, DeleteLinks(n) PROVE LinkInv'
    BY <2>4, DeleteKeepsLinkInv
  <2>. QED
    BY <2>1, <2>2, <2>3, <2>4 DEF LinkNext
<1>. QED
  BY <1>1, LinkInvInit, PTL DEF LinkSpec

(***************************************************************************)
(* Counting rows                                                           *)
(***************************************************************************)

LEMMA LinksFinite ==
    ASSUME LinkInv
    PROVE  IsFiniteSet(links)
<1>1. /\ CatalogOnce /\ OneRowEach(links, body, Present)
  BY DEF LinkInv
<1>2. PICK S : S = {body[n] : n \in Notes}
  OBVIOUS
<1>3. IsFiniteSet(S)
  <2>1. PICK f : f = [n \in Notes |-> body[n]]
    OBVIOUS
  <2>2. f \in Surjection(Notes, S)
    BY <1>2, <2>1 DEF Surjection
  <2>. QED
    BY <2>2, LinkConstants, FS_Surjection
<1>4. \A T \in S : IsFiniteSet(T)
  BY <1>1, <1>2, LinkConstants DEF CatalogOnce
<1>5. PICK U : U = UNION S
  OBVIOUS
<1>6. IsFiniteSet(U)
  BY <1>3, <1>4, <1>5, FS_UNION
<1>7. IsFiniteSet(Notes \X U)
  BY <1>6, LinkConstants, FS_Product
<1>8. PICK f : f = [r \in links |-> <<r.from, LinkOf(r)>>]
  OBVIOUS
<1>9. \A r \in links : r.from \in Notes /\ LinkOf(r) \in U
  <2>1. Present \subseteq Notes
    BY <1>1 DEF CatalogOnce, Present, ToSet
  <2>. QED
    BY <1>1, <1>2, <1>5, <2>1 DEF OneRowEach
<1>10. f \in [links -> Notes \X U]
  BY <1>8, <1>9
<1>11. ASSUME NEW r \in links, NEW q \in links, f[r] = f[q] PROVE r = q
  <2>1. r.from = q.from /\ LinkOf(r) = LinkOf(q)
    BY <1>8, <1>11
  <2>. QED
    BY <1>1, <2>1 DEF OneRowEach
<1>12. f \in Injection(links, Notes \X U)
  BY <1>10, <1>11 DEF Injection, IsInjective
<1>. QED
  BY <1>7, <1>12, FS_Injection

\* A finite set in two parts.
LEMMA TwoParts ==
    ASSUME NEW S, IsFiniteSet(S), NEW A, NEW B, S = A \cup B, A \cap B = {}
    PROVE  /\ Cardinality(S) = Cardinality(A) + Cardinality(B)
           /\ IsFiniteSet(A) /\ IsFiniteSet(B)
           /\ Cardinality(A) \in Nat /\ Cardinality(B) \in Nat
           /\ Cardinality(S) \in Nat
<1>1. IsFiniteSet(A) /\ IsFiniteSet(B)
  BY FS_Subset
<1>2. Cardinality(A \cap B) = 0
  BY FS_EmptySet
<1>3. Cardinality(A) \in Nat /\ Cardinality(B) \in Nat /\ Cardinality(S) \in Nat
  BY <1>1, FS_CardinalityType
<1>4. Cardinality(A \cup B) = Cardinality(A) + Cardinality(B) - Cardinality(A \cap B)
  BY <1>1, FS_Union
<1>. QED
  BY <1>1, <1>2, <1>3, <1>4

\* get_outlinks counts every row of the note under its type.
LEMMA OutlinksAreOwn ==
    ASSUME LinkInv, NEW n \in Present
    PROVE  Outlinks(n).total = Cardinality(body[n])
<1>1. PICK own : own = {r \in links : r.from = n}
  OBVIOUS
<1>2. IsFiniteSet(own)
  BY <1>1, LinksFinite, FS_Subset
<1>3. Cardinality(own) = Cardinality(body[n])
  <2>1. PICK f : f = [r \in own |-> LinkOf(r)]
    OBVIOUS
  <2>2. f \in [own -> body[n]]
    BY <1>1, <2>1 DEF LinkInv, OneRowEach
  <2>3. \A r, q \in own : f[r] = f[q] => r = q
    BY <1>1, <2>1 DEF LinkInv, OneRowEach
  <2>4. \A l \in body[n] : \E r \in own : f[r] = l
    BY <1>1, <2>1 DEF LinkInv, OneRowEach
  <2>5. f \in Bijection(own, body[n])
    BY <2>2, <2>3, <2>4 DEF Bijection, Injection, IsInjective, Surjection
  <2>6. ExistsBijection(own, body[n])
    BY <2>5 DEF ExistsBijection
  <2>. QED
    BY <1>2, <2>6, FS_Bijection
<1>4. PICK W, M, E, X :
         /\ W = {r \in own : r.type = "wikilink"}
         /\ M = {r \in own : r.type = "markdown"}
         /\ E = {r \in own : r.type = "embed"}
         /\ X = {r \in own : r.type = "external"}
  OBVIOUS
<1>5. Outlinks(n).total = Cardinality(W) + Cardinality(M) + Cardinality(E)
                            + Cardinality(X)
  BY <1>1, <1>4 DEF Outlinks
<1>6. own = ((W \cup M) \cup E) \cup X
  BY <1>1, <1>4 DEF LinkInv, RowIsSound, LinkTypes
<1>7. /\ W \cap M = {} /\ (W \cup M) \cap E = {}
      /\ ((W \cup M) \cup E) \cap X = {}
  BY <1>4
<1>8. PICK A, B : A = W \cup M /\ B = (W \cup M) \cup E
  OBVIOUS
<1>9. /\ Cardinality(own) = Cardinality(B) + Cardinality(X)
      /\ IsFiniteSet(B) /\ Cardinality(X) \in Nat
  <2>1. own = B \cup X /\ B \cap X = {}
    BY <1>6, <1>7, <1>8
  <2>. QED
    BY <1>2, <2>1, TwoParts
<1>10. /\ Cardinality(B) = Cardinality(A) + Cardinality(E)
       /\ IsFiniteSet(A) /\ Cardinality(E) \in Nat
  <2>1. B = A \cup E /\ A \cap E = {}
    BY <1>7, <1>8
  <2>. QED
    BY <1>9, <2>1, TwoParts
<1>11. /\ Cardinality(A) = Cardinality(W) + Cardinality(M)
       /\ Cardinality(W) \in Nat /\ Cardinality(M) \in Nat
  BY <1>7, <1>8, <1>10, TwoParts
<1>. QED
  BY <1>3, <1>5, <1>9, <1>10, <1>11

\* What the rows that are not external add up to.
LEMMA InternalRows ==
    ASSUME LinkInv
    PROVE  /\ IsFiniteSet(Internal)
           /\ Cardinality(Internal) = LinkStats.total - LinkStats.external
           /\ Cardinality({r \in Internal : r.resolved})
                 = LinkStats.resolved - LinkStats.external
<1>1. IsFiniteSet(links)
  BY LinksFinite
<1>2. PICK I, X, R, D :
         /\ I = Internal /\ X = {r \in links : r.type = "external"}
         /\ R = {r \in links : r.resolved} /\ D = {r \in Internal : r.resolved}
  OBVIOUS
<1>3. /\ LinkStats.total = Cardinality(links)
      /\ LinkStats.resolved = Cardinality(R)
      /\ LinkStats.external = Cardinality(X)
  BY <1>2 DEF LinkStats
<1>4. links = I \cup X /\ I \cap X = {}
  BY <1>2 DEF Internal
<1>5. /\ Cardinality(links) = Cardinality(I) + Cardinality(X) /\ IsFiniteSet(I)
      /\ Cardinality(I) \in Nat /\ Cardinality(X) \in Nat
  BY <1>1, <1>4, TwoParts
<1>6. R = D \cup X /\ D \cap X = {}
  BY <1>2 DEF Internal, LinkInv, RowIsSound
<1>7. IsFiniteSet(R)
  BY <1>1, <1>2, FS_Subset
<1>8. Cardinality(R) = Cardinality(D) + Cardinality(X) /\ Cardinality(D) \in Nat
  BY <1>6, <1>7, TwoParts
<1>. QED
  BY <1>2, <1>3, <1>5, <1>8

LEMMA DegreesAddUp ==
    ASSUME LinkInv
    PROVE  LET nodes == GraphData.nodes
           IN  /\ Total([n \in DOMAIN nodes |-> nodes[n].outlinks])
                     = LinkStats.total - LinkStats.external
               /\ Total([n \in DOMAIN nodes |-> nodes[n].backlinks])
                     = LinkStats.resolved - LinkStats.external
               /\ \A e \in GraphData.edges : e[2] \in DOMAIN nodes
<1>1. PICK T, D, nodes : /\ T = Internal /\ D = {r \in Internal : r.resolved}
                         /\ nodes = GraphData.nodes
  OBVIOUS
<1>2. PICK S : S = DOMAIN nodes
  OBVIOUS
<1>3. \A r \in D : r.to \in Notes /\ r.to # NoNote
  BY <1>1, LinkConstants DEF Internal, LinkInv, RowIsSound
<1>4. nodes = [n \in {r.from : r \in T} \cup ({r.to : r \in D} \ {NoNote}) |->
                 [outlinks |-> Cardinality({r \in T : r.from = n}),
                  backlinks |-> Cardinality({r \in T : r.resolved /\ r.to = n})]]
  BY <1>1 DEF GraphData
<1>5. /\ S = {r.from : r \in T} \cup ({r.to : r \in D} \ {NoNote})
      /\ \A n \in S : /\ nodes[n].outlinks = Cardinality({r \in T : r.from = n})
                      /\ nodes[n].backlinks =
                           Cardinality({r \in T : r.resolved /\ r.to = n})
  BY <1>2, <1>4
<1>6. IsFiniteSet(T) /\ IsFiniteSet(D)
  <2>1. D \in SUBSET T
    BY <1>1
  <2>. QED
    BY <1>1, <2>1, InternalRows, FS_Subset
<1>7. Total([n \in S |-> nodes[n].outlinks]) = Cardinality(T)
  <2>1. PICK h, g : h = [r \in T |-> r.from] /\ g = [n \in S |-> nodes[n].outlinks]
    OBVIOUS
  <2>2. h \in [T -> S]
    BY <1>5, <2>1
  <2>3. ASSUME NEW n \in S PROVE g[n] = Cardinality(Fibre(h, T, n))
    <3>1. Fibre(h, T, n) = {r \in T : r.from = n}
      BY <2>1 DEF Fibre
    <3>. QED
      BY <1>5, <2>1, <3>1
  <2>4. DOMAIN g = S
    BY <2>1
  <2>5. Total(g) = Cardinality(T)
    BY <1>6, <2>2, <2>3, <2>4, TotalOfParts
  <2>. QED
    BY <2>1, <2>5
<1>8. Total([n \in S |-> nodes[n].backlinks]) = Cardinality(D)
  <2>1. PICK h, g : h = [r \in D |-> r.to] /\ g = [n \in S |-> nodes[n].backlinks]
    OBVIOUS
  <2>2. h \in [D -> S]
    BY <1>3, <1>5, <2>1
  <2>3. ASSUME NEW n \in S PROVE g[n] = Cardinality(Fibre(h, D, n))
    <3>1. Fibre(h, D, n) = {r \in T : r.resolved /\ r.to = n}
      BY <1>1, <2>1 DEF Fibre
    <3>. QED
      BY <1>5, <2>1, <3>1
  <2>4. DOMAIN g = S
    BY <2>1
  <2>5. Total(g) = Cardinality(D)
    BY <1>6, <2>2, <2>3, <2>4, TotalOfParts
  <2>. QED
    BY <2>1, <2>5
<1>9. \A e \in GraphData.edges : e[2] \in S
  BY <1>1, <1>3, <1>5 DEF GraphData
<1>10. /\ Cardinality(T) = LinkStats.total - LinkStats.external
       /\ Cardinality(D) = LinkStats.resolved - LinkStats.external
  BY <1>1, InternalRows
<1>. QED
  BY <1>1, <1>2, <1>7, <1>8, <1>9, <1>10

LEMMA TextsAreFollowed == LinkInv => LinksFollowTexts
<1> SUFFICES ASSUME LinkInv PROVE LinksFollowTexts
  OBVIOUS
<1>1. \A r \in links : r.from \in Present
  BY DEF LinkInv, OneRowEach
<1>. QED
  BY <1>1, OutlinksAreOwn, DegreesAddUp DEF LinksFollowTexts

LEMMA NamesAreResolved == LinkInv => ResolutionIsByName
BY LinkConstants DEF LinkInv, RowIsSound, Answers, Fresh, ResolutionIsByName

(***************************************************************************)
(* Orphans                                                                 *)
(***************************************************************************)

\* A note is an orphan when no row of another note and no link of its own
\* reaches it.
IsAlone(n) ==
    /\ Backlinks(n) = {}
    /\ \A l \in body[n] : l.name \notin {FullName[n], StemName[n]}
    /\ \A r \in links : r.from = n => r.to # n

LEMMA OrphansAreAlone ==
    ASSUME LinkInv, NEW n \in Present
    PROVE  IsOrphan(n) <=> IsAlone(n)
<1>1. Backlinks(n) = {} <=>
        \A r \in links : r.to = n \/ r.name \in {FullName[n], StemName[n]} =>
                            r.from = n
  BY DEF Backlinks
<1>2. (\A l \in body[n] : l.name \notin {FullName[n], StemName[n]}) <=>
        \A r \in links : r.from = n => r.name \notin {FullName[n], StemName[n]}
  <2>1. ASSUME NEW r \in links, r.from = n
        PROVE  \E l \in body[n] : l.name = r.name
    <3>1. LinkOf(r) \in body[n] /\ LinkOf(r).name = r.name
      BY <2>1 DEF LinkInv, OneRowEach, LinkOf
    <3>. QED
      BY <3>1
  <2>2. ASSUME NEW l \in body[n]
        PROVE  \E r \in links : r.from = n /\ l.name = r.name
    <3>1. PICK r \in links : r.from = n /\ LinkOf(r) = l
      BY DEF LinkInv, OneRowEach
    <3>. QED
      BY <3>1 DEF LinkOf
  <2>. QED
    BY <2>1, <2>2
<1>. QED
  BY <1>1, <1>2 DEF IsOrphan, IsAlone

\* The places of the orphans in the catalog, and how find_orphan_notes gives
\* them: the last ones, from the end.
OrphansListed(answer, I, a, n, m) ==
    /\ I = {i \in 1..Len(newest) : IsOrphan(newest[i])}
    /\ n = Cardinality(I) /\ IsAscending(a, I)
    /\ answer.orphans = n /\ m \in 0..n
    /\ answer.notes \in Seq(Notes) /\ Len(answer.notes) = m
    /\ \A k \in 1..m : answer.notes[k] = newest[a[n - k + 1]]
    /\ answer.hasMore <=> n > m

LEMMA OrphanAnswer ==
    ASSUME LinkInv, NEW limit \in Nat
    PROVE  \E I, a, m : \E n \in Nat :
              OrphansListed(OrphanNotes(limit), I, a, n, m)
<1>1. PICK s, I : s = newest /\ I = {i \in 1..Len(newest) : IsOrphan(newest[i])}
  OBVIOUS
<1>2. s \in Seq(Notes) /\ I \in SUBSET (1..Len(s))
  BY <1>1 DEF LinkInv, CatalogOnce
<1>3. PICK t : t = At(s, I)
  OBVIOUS
<1>4. t \in Seq(Notes) /\ \E a : PlacedAt(t, s, I, a)
  BY <1>2, <1>3, AtPlaces
<1>5. PICK a : PlacedAt(t, s, I, a)
  BY <1>4
<1>6. PICK n \in Nat : n = Cardinality(I)
  BY <1>5 DEF PlacedAt, IsAscending
<1>7. /\ IsAscending(a, I) /\ Len(t) = n
      /\ \A k \in 1..n : t[k] = s[a[k]]
  BY <1>5, <1>6 DEF PlacedAt
<1>8. PICK u : u = Reverse(t)
  OBVIOUS
<1>9. u \in Seq(Notes) /\ Len(u) = n /\ \A k \in 1..n : u[k] = t[n - k + 1]
  <2>1. u = [i \in 1..n |-> t[(n - i) + 1]]
    BY <1>7, <1>8 DEF Reverse
  <2>2. \A i \in 1..n : t[n - i + 1] \in Notes
    <3> SUFFICES ASSUME NEW i \in 1..n PROVE t[n - i + 1] \in Notes
      OBVIOUS
    <3>1. n - i + 1 \in 1..Len(t)
      BY <1>7
    <3>. QED
      BY <1>4, <3>1, ElementOfSeq
  <2>3. u \in [1..n -> Notes]
    BY <2>1, <2>2
  <2>. QED
    BY <2>1, <2>3, LenProperties
<1>10. PICK v : v = Take(u, limit)
  OBVIOUS
<1>11. v \in Seq(Notes) /\ \E m : IsCut(v, u, limit, m)
  BY <1>9, <1>10, TakeCuts
<1>12. PICK m : IsCut(v, u, limit, m)
  BY <1>11
<1>13. m \in 0..n /\ Len(v) = m
  BY <1>9, <1>12 DEF IsCut
<1>14. \A k \in 1..m : v[k] = s[a[n - k + 1]]
  <2> SUFFICES ASSUME NEW k \in 1..m PROVE v[k] = s[a[n - k + 1]]
    OBVIOUS
  <2>1. k \in 1..n /\ n - k + 1 \in 1..n
    BY <1>13
  <2>. QED
    BY <1>7, <1>9, <1>12, <2>1 DEF IsCut
<1>15. /\ OrphanNotes(limit).orphans = Len(t) /\ OrphanNotes(limit).notes = v
       /\ OrphanNotes(limit).hasMore <=> Len(t) > Len(v)
  BY <1>1, <1>3, <1>8, <1>10 DEF OrphanNotes
<1>16. OrphansListed(OrphanNotes(limit), I, a, n, m)
  BY <1>1, <1>6, <1>7, <1>11, <1>13, <1>14, <1>15 DEF OrphansListed
<1>. QED
  BY <1>16

LEMMA OrphansAgree == LinkInv => OrphansAgreeWithBacklinks
<1> SUFFICES ASSUME LinkInv, NEW limit \in Limits
             PROVE  LET answer == OrphanNotes(limit)
                        orphans == {n \in Present : IsAlone(n)}
                        age(n) == CHOOSE i \in 1..Len(newest) : newest[i] = n
                    IN  /\ answer.orphans = Cardinality(orphans)
                        /\ ToSet(answer.notes) \subseteq orphans
                        /\ \A n \in orphans \ ToSet(answer.notes) :
                              \A i \in 1..Len(answer.notes) :
                                 age(answer.notes[i]) > age(n)
                        /\ answer.hasMore <=> orphans # ToSet(answer.notes)
  BY DEF OrphansAgreeWithBacklinks, IsAlone
<1> DEFINE answer == OrphanNotes(limit)
           orphans == {n \in Present : IsAlone(n)}
           age(n) == CHOOSE i \in 1..Len(newest) : newest[i] = n
<1>1. limit \in Nat
  BY LinkAssumption
<1>2. PICK I, a, m : \E n \in Nat : OrphansListed(answer, I, a, n, m)
  BY <1>1, OrphanAnswer
<1>3. PICK n \in Nat : OrphansListed(answer, I, a, n, m)
  BY <1>2
<1>4. PICK notes, O : notes = answer.notes /\ O = orphans
  OBVIOUS
<1>5. /\ newest \in Seq(Notes) /\ DOMAIN newest = 1..Len(newest)
      /\ \A i, j \in 1..Len(newest) : newest[i] = newest[j] => i = j
  BY DEF LinkInv, CatalogOnce
<1>6. /\ \A i \in I : i \in 1..Len(newest) /\ newest[i] \in O
      /\ \A x \in O : \E i \in I : newest[i] = x
  <2>1. \A i \in 1..Len(newest) : newest[i] \in Present
    BY <1>5 DEF Present, ToSet
  <2>2. \A x \in Present : \E i \in 1..Len(newest) : newest[i] = x
    BY <1>5 DEF Present, ToSet
  <2>. QED
    BY <1>3, <1>4, <2>1, <2>2, OrphansAreAlone DEF OrphansListed
<1>7. Cardinality(O) = n
  <2>1. PICK f : f = [i \in I |-> newest[i]]
    OBVIOUS
  <2>2. f \in [I -> O] /\ (\A i, j \in I : f[i] = f[j] => i = j)
        /\ \A x \in O : \E i \in I : f[i] = x
    BY <1>5, <1>6, <2>1
  <2>3. ExistsBijection(I, O)
    BY <2>2 DEF ExistsBijection, Bijection, Injection, IsInjective, Surjection
  <2>4. IsFiniteSet(I)
    <3>1. IsFiniteSet(1..Len(newest))
      BY <1>5, FS_Interval
    <3>. QED
      BY <1>3, <3>1, FS_Subset DEF OrphansListed
  <2>. QED
    BY <1>3, <2>3, <2>4, FS_Bijection DEF OrphansListed
<1>8. /\ \A k \in 1..n : a[k] \in I /\ a[k] \in Nat
      /\ \A j, k \in 1..n : j < k => a[j] < a[k]
      /\ \A i \in I : \E k \in 1..n : a[k] = i
  <2>1. I \subseteq Nat
    BY <1>3, <1>5 DEF OrphansListed
  <2>. QED
    BY <1>3, <2>1 DEF IsAscending, OrphansListed
<1>9. /\ m \in 0..n /\ notes \in Seq(Notes) /\ Len(notes) = m
      /\ DOMAIN notes = 1..m
      /\ \A k \in 1..m : /\ n - k + 1 \in 1..n
                         /\ notes[k] = newest[a[n - k + 1]]
  <2>1. m \in 0..n /\ notes \in Seq(Notes) /\ Len(notes) = m
    BY <1>3, <1>4 DEF OrphansListed
  <2>2. \A k \in 1..m : notes[k] = newest[a[n - k + 1]]
    BY <1>3, <1>4 DEF OrphansListed
  <2>3. \A k \in 1..m : n - k + 1 \in 1..n
    BY <2>1
  <2>. QED
    BY <2>1, <2>2, <2>3
<1>10. ToSet(notes) \subseteq O
  <2>1. ASSUME NEW k \in 1..m PROVE notes[k] \in O
    <3>1. PICK j \in 1..n : notes[k] = newest[a[j]]
      BY <1>9
    <3>2. a[j] \in I
      BY <1>8
    <3>. QED
      BY <1>6, <3>1, <3>2
  <2>. QED
    BY <1>9, <2>1 DEF ToSet
<1>11. \A i \in 1..Len(newest) : age(newest[i]) = i
  BY <1>5
<1>. HIDE DEF age, answer, orphans
<1>12. ASSUME NEW x \in O \ ToSet(notes)
       PROVE  \E q \in 1..n : /\ x = newest[a[q]]
                              /\ \A k \in 1..m : n - k + 1 # q
  <2>1. PICK i \in I : newest[i] = x
    BY <1>6
  <2>2. PICK q \in 1..n : a[q] = i
    BY <1>8
  <2>3. ASSUME NEW k \in 1..m, n - k + 1 = q PROVE FALSE
    <3>1. notes[k] = x
      BY <1>9, <2>1, <2>2, <2>3
    <3>2. x \in ToSet(notes)
      BY <1>9, <3>1 DEF ToSet
    <3>. QED
      BY <3>2
  <2>. QED
    BY <2>1, <2>2, <2>3
<1>13. ASSUME NEW x \in O \ ToSet(notes), NEW i \in 1..m
       PROVE  age(notes[i]) > age(x)
  <2>1. PICK q \in 1..n : x = newest[a[q]] /\ \A k \in 1..m : n - k + 1 # q
    BY <1>12
  <2>2. q < n - i + 1
    <3> SUFFICES ASSUME q >= n - i + 1 PROVE FALSE
      BY <1>9
    <3>1. n - q + 1 \in 1..m
      BY <1>9
    <3>2. n - (n - q + 1) + 1 = q
      OBVIOUS
    <3>. QED
      BY <2>1, <3>1, <3>2
  <2>3. notes[i] = newest[a[n - i + 1]] /\ n - i + 1 \in 1..n
    BY <1>9
  <2>4. a[q] < a[n - i + 1]
    BY <1>8, <2>2, <2>3
  <2>5. age(x) = a[q] /\ age(notes[i]) = a[n - i + 1]
    <3>1. a[q] \in 1..Len(newest) /\ a[n - i + 1] \in 1..Len(newest)
      BY <1>6, <1>8, <2>3
    <3>. QED
      BY <1>11, <2>1, <2>3, <3>1
  <2>6. a[q] \in Nat /\ a[n - i + 1] \in Nat
    BY <1>8, <2>3
  <2>. QED
    BY <2>4, <2>5, <2>6
<1>14. n > m <=> O # ToSet(notes)
  <2>1. ASSUME n > m PROVE O # ToSet(notes)
    <3>1. 1 \in 1..n /\ \A k \in 1..m : n - k + 1 # 1
      BY <1>9, <2>1
    <3>2. newest[a[1]] \in O
      BY <1>6, <1>8, <3>1
    <3>3. newest[a[1]] \notin ToSet(notes)
      <4> SUFFICES ASSUME NEW k \in 1..m, notes[k] = newest[a[1]] PROVE FALSE
        BY <1>9 DEF ToSet
      <4>1. PICK j \in 1..n : j = n - k + 1
        BY <1>9
      <4>2. j # 1 /\ newest[a[j]] = newest[a[1]]
        BY <1>9, <3>1, <4>1
      <4>3. a[j] = a[1]
        BY <1>5, <1>6, <1>8, <3>1, <4>2
      <4>4. a[1] < a[j] /\ a[1] \in Nat /\ a[j] \in Nat
        BY <1>8, <3>1, <4>2
      <4>. QED
        BY <4>3, <4>4
    <3>. QED
      BY <3>2, <3>3
  <2>2. ASSUME n = m PROVE O = ToSet(notes)
    <3>1. \A x \in O : x \in ToSet(notes)
      <4> SUFFICES ASSUME NEW x \in O, x \notin ToSet(notes) PROVE FALSE
        OBVIOUS
      <4>1. PICK q \in 1..n : x = newest[a[q]] /\ \A k \in 1..m : n - k + 1 # q
        BY <1>12
      <4>2. n - q + 1 \in 1..m /\ n - (n - q + 1) + 1 = q
        BY <2>2
      <4>. QED
        BY <4>1, <4>2
    <3>. QED
      BY <1>10, <3>1
  <2>. QED
    BY <1>9, <2>1, <2>2
<1>15. answer.orphans = n /\ (answer.hasMore <=> n > m)
  BY <1>3 DEF OrphansListed
<1>16. /\ answer.orphans = Cardinality(O) /\ ToSet(answer.notes) \subseteq O
       /\ answer.hasMore <=> O # ToSet(answer.notes)
  BY <1>4, <1>7, <1>10, <1>14, <1>15
<1>17. \A x \in O \ ToSet(answer.notes) : \A i \in 1..Len(answer.notes) :
          age(answer.notes[i]) > age(x)
  BY <1>4, <1>9, <1>13
<1>. QED
  BY <1>4, <1>16, <1>17 DEF answer, orphans, age

(***************************************************************************)
(* Broken links                                                            *)
(***************************************************************************)

LEMMA BrokenRows ==
    ASSUME LinkInv
    PROVE  /\ Unresolved(links) = {r \in links : ~r.resolved}
           /\ IsFiniteSet(Unresolved(links))
           /\ \A r \in Unresolved(links) : r.from \in Notes
<1>1. Unresolved(links) = {r \in links : ~r.resolved}
  BY DEF Unresolved, LinkInv, RowIsSound
<1>2. Present \subseteq Notes
  BY DEF LinkInv, CatalogOnce, Present, ToSet
<1>3. \A r \in links : r.from \in Notes
  BY <1>2 DEF LinkInv, OneRowEach
<1>4. IsFiniteSet(links)
  BY LinksFinite
<1>5. PICK B : B = Unresolved(links)
  OBVIOUS
<1>6. B \in SUBSET links
  BY <1>1, <1>5
<1>7. IsFiniteSet(B)
  BY <1>4, <1>6, FS_Subset
<1>. QED
  BY <1>1, <1>3, <1>5, <1>6, <1>7

\* find_broken_links, link_stats and get_outlinks count the same rows.
LEMMA BrokenTotals ==
    ASSUME LinkInv
    PROVE  /\ Cardinality(Unresolved(links)) = LinkStats.broken
           /\ Cardinality(Unresolved(links)) =
                Total([n \in Notes |-> Outlinks(n).broken])
                  + Cardinality({r \in links : r.type = "embed" /\ ~r.resolved})
<1>1. PICK B, T, E :
         /\ B = Unresolved(links)
         /\ T = {r \in links : ~r.resolved /\ r.type \in {"wikilink", "markdown"}}
         /\ E = {r \in links : r.type = "embed" /\ ~r.resolved}
  OBVIOUS
<1>2. IsFiniteSet(B) /\ B = {r \in links : ~r.resolved}
  BY <1>1, BrokenRows
<1>3. B = T \cup E /\ T \cap E = {}
  BY <1>1, <1>2 DEF LinkInv, RowIsSound, LinkTypes
<1>4. Cardinality(B) = Cardinality(T) + Cardinality(E) /\ IsFiniteSet(T)
  BY <1>2, <1>3, TwoParts
<1>5. Total([n \in Notes |-> Outlinks(n).broken]) = Cardinality(T)
  <2>1. PICK h, g : /\ h = [r \in T |-> r.from]
                    /\ g = [n \in Notes |-> Outlinks(n).broken]
    OBVIOUS
  <2>2. h \in [T -> Notes]
    BY <1>1, <1>3, <2>1, BrokenRows
  <2>3. ASSUME NEW n \in Notes PROVE g[n] = Cardinality(Fibre(h, T, n))
    <3>1. PICK own : own = {r \in links : r.from = n}
      OBVIOUS
    <3>2. Outlinks(n).broken = Cardinality({r \in own : /\ ~r.resolved
                                   /\ r.type \in {"wikilink", "markdown"}})
      BY <3>1 DEF Outlinks
    <3>3. Fibre(h, T, n) = {r \in own : /\ ~r.resolved
                                   /\ r.type \in {"wikilink", "markdown"}}
      BY <1>1, <2>1, <3>1 DEF Fibre
    <3>. QED
      BY <2>1, <3>2, <3>3
  <2>4. DOMAIN g = Notes
    BY <2>1
  <2>5. Total(g) = Cardinality(T)
    BY <1>4, <2>2, <2>3, <2>4, TotalOfParts
  <2>. QED
    BY <2>1, <2>5
<1>6. LinkStats.broken = Cardinality(B)
  BY <1>1 DEF LinkStats, Unresolved
<1>. QED
  BY <1>1, <1>4, <1>5, <1>6

\* How many broken links a note has.
BrokenIn(n) == Cardinality({r \in Unresolved(links) : r.from = n})

LEMMA BrokenInIs ==
    ASSUME LinkInv, NEW n
    PROVE  /\ BrokenIn(n) \in Nat
           /\ BrokenIn(n) = Cardinality({r \in links : r.from = n /\ ~r.resolved})
           /\ BrokenIn(n) > 0 <=> \E r \in Unresolved(links) : r.from = n
<1>1. PICK B, O : /\ B = Unresolved(links)
                  /\ O = {r \in Unresolved(links) : r.from = n}
  OBVIOUS
<1>2. IsFiniteSet(B) /\ B = {r \in links : ~r.resolved}
  BY <1>1, BrokenRows
<1>3. IsFiniteSet(O)
  BY <1>1, <1>2, FS_Subset
<1>4. Cardinality(O) \in Nat /\ (Cardinality(O) = 0 <=> O = {})
  BY <1>3, FS_CardinalityType, FS_EmptySet
<1>5. O = {r \in links : r.from = n /\ ~r.resolved}
  BY <1>1, <1>2
<1>6. Cardinality(O) > 0 <=> \E r \in B : r.from = n
  BY <1>1, <1>4
<1>. QED
  BY <1>1, <1>4, <1>5, <1>6 DEF BrokenIn

\* The notes find_broken_links returns: the first ones of a ranking.
BrokenListed(answer, affected, ranked, m) ==
    /\ affected = {r.from : r \in Unresolved(links)}
    /\ ranked \in Seq(affected) /\ Len(ranked) = Cardinality(affected)
    /\ \A i, j \in 1..Cardinality(affected) :
          i < j => BrokenIn(ranked[i]) >= BrokenIn(ranked[j]) /\ ranked[i] # ranked[j]
    /\ \A x \in affected : \E i \in 1..Cardinality(affected) : ranked[i] = x
    /\ answer.total = Cardinality(Unresolved(links))
    /\ m \in 0..Cardinality(affected)
    /\ Len(answer.notes) = m
    /\ \A i \in 1..m : answer.notes[i].path = ranked[i]
    /\ answer.hasMore <=> Cardinality(affected) > m

LEMMA BrokenAnswer ==
    ASSUME LinkInv, NEW limit \in Nat
    PROVE  \E affected, ranked, m :
              BrokenListed(BrokenLinks(limit), affected, ranked, m)
<1>1. PICK B, A : B = Unresolved(links) /\ A = {r.from : r \in B}
  OBVIOUS
<1>2. IsFiniteSet(B) /\ \A r \in B : r.from \in Notes
  BY <1>1, BrokenRows
<1>3. IsFiniteSet(A) /\ A \subseteq Notes /\ A \subseteq Nat
  <2>1. A \in SUBSET Notes
    BY <1>1, <1>2
  <2>. QED
    BY <2>1, LinkConstants, FS_Subset
<1>4. PICK R : R = {p \in A \X A :
                      \/ BrokenIn(p[1]) > BrokenIn(p[2])
                      \/ BrokenIn(p[1]) = BrokenIn(p[2]) /\ p[1] < p[2]}
  OBVIOUS
<1>5. \A n \in A : BrokenIn(n) \in Nat /\ n \in Nat
  BY <1>3, BrokenInIs
<1>6. \A x, y \in A : <<x, y>> \in R <=>
         \/ BrokenIn(x) > BrokenIn(y)
         \/ BrokenIn(x) = BrokenIn(y) /\ x < y
  BY <1>4
<1>7. IsStrictOrder(R, A)
  <2>1. \A x \in A : <<x, x>> \notin R
    BY <1>5, <1>6
  <2>2. ASSUME NEW x \in A, NEW y \in A, NEW z \in A,
               <<x, y>> \in R, <<y, z>> \in R
        PROVE  <<x, z>> \in R
    BY <1>5, <1>6, <2>2
  <2>3. ASSUME NEW x \in A, NEW y \in A, x # y
        PROVE  <<x, y>> \in R \/ <<y, x>> \in R
    BY <1>5, <1>6, <2>3
  <2>. QED
    BY <2>1, <2>2, <2>3 DEF IsStrictOrder
<1>8. PICK s : s = Sorted(A, R)
  OBVIOUS
<1>9. InOrder(s, A, R)
  BY <1>3, <1>7, <1>8, SortedIsSorted
<1>10. PICK n \in Nat : n = Cardinality(A)
  BY <1>3, FS_CardinalityType
<1>11. PICK t : t = Take(s, limit)
  OBVIOUS
<1>12. s \in Seq(A) /\ Len(s) = n
  BY <1>9, <1>10 DEF InOrder
<1>13. t \in Seq(A) /\ \E m : IsCut(t, s, limit, m)
  BY <1>11, <1>12, TakeCuts
<1>14. PICK m : IsCut(t, s, limit, m)
  BY <1>13
<1>15. m \in 0..n /\ Len(t) = m /\ \A i \in 1..m : t[i] = s[i]
  BY <1>12, <1>14 DEF IsCut
<1>16. PICK answer : answer = BrokenLinks(limit)
  OBVIOUS
<1>17. R = {p \in A \X A :
              \/ Cardinality({r \in B : r.from = p[1]}) >
                   Cardinality({r \in B : r.from = p[2]})
              \/ /\ Cardinality({r \in B : r.from = p[1]}) =
                      Cardinality({r \in B : r.from = p[2]})
                 /\ p[1] < p[2]}
  BY <1>1, <1>4 DEF BrokenIn
<1>18. answer = [total |-> Cardinality(B), affected |-> Len(s),
                 notes |-> [i \in 1..Len(t) |->
                              [path |-> t[i], broken |-> {r \in B : r.from = t[i]}]],
                 hasMore |-> Len(s) > Len(t)]
  BY <1>1, <1>8, <1>11, <1>16, <1>17 DEF BrokenLinks
<1>19. /\ answer.total = Cardinality(B)
       /\ answer.notes = [i \in 1..m |->
                            [path |-> t[i], broken |-> {r \in B : r.from = t[i]}]]
       /\ answer.hasMore <=> n > m
  BY <1>12, <1>15, <1>18
<1>20. Len(answer.notes) = m /\ \A i \in 1..m : answer.notes[i].path = s[i]
  BY <1>15, <1>19
<1>21. ASSUME NEW i \in 1..n, NEW j \in 1..n, i < j
       PROVE  BrokenIn(s[i]) >= BrokenIn(s[j]) /\ s[i] # s[j]
  <2>1. <<s[i], s[j]>> \in R /\ s[i] \in A /\ s[j] \in A
    BY <1>9, <1>10, <1>12, <1>21 DEF InOrder
  <2>. QED
    BY <1>5, <1>6, <2>1
<1>22. \A x \in A : \E i \in 1..n : s[i] = x
  BY <1>9, <1>10 DEF InOrder
<1>23. BrokenListed(answer, A, s, m)
  BY <1>1, <1>10, <1>12, <1>15, <1>19, <1>20, <1>21, <1>22 DEF BrokenListed
<1>. QED
  BY <1>16, <1>23

\* The notes it lists have the most broken links, and it says when it left
\* one out.
WorstListed(answer, listed) ==
    /\ answer.total = Cardinality(Unresolved(links))
    /\ \A x \in listed, y \in Notes \ listed : BrokenIn(x) >= BrokenIn(y)
    /\ answer.hasMore <=> \E y \in Notes \ listed : BrokenIn(y) > 0

LEMMA WorstAreListed ==
    ASSUME LinkInv, NEW limit \in Limits, NEW answer,
           answer = BrokenLinks(limit), NEW listed,
           listed = {answer.notes[i].path : i \in 1..Len(answer.notes)}
    PROVE  WorstListed(answer, listed)
<1>1. limit \in Nat
  BY LinkAssumption
<1>2. PICK A, s, m : BrokenListed(answer, A, s, m)
  BY <1>1, BrokenAnswer
<1>3. A \subseteq Notes /\ IsFiniteSet(A)
  <2>1. A \in SUBSET Notes
    BY <1>2, BrokenRows DEF BrokenListed
  <2>. QED
    BY <2>1, LinkConstants, FS_Subset
<1>4. PICK n \in Nat : n = Cardinality(A)
  BY <1>3, FS_CardinalityType
<1>5. /\ s \in Seq(A) /\ Len(s) = n /\ m \in 0..n
      /\ \A i, j \in 1..n : i < j => BrokenIn(s[i]) >= BrokenIn(s[j]) /\ s[i] # s[j]
      /\ \A x \in A : \E i \in 1..n : s[i] = x
      /\ answer.total = Cardinality(Unresolved(links))
      /\ answer.hasMore <=> n > m
  BY <1>2, <1>4 DEF BrokenListed
<1>6. listed = {s[i] : i \in 1..m}
  <2>1. Len(answer.notes) = m /\ \A i \in 1..m : answer.notes[i].path = s[i]
    BY <1>2 DEF BrokenListed
  <2>. QED
    BY <2>1
<1>7. \A y : BrokenIn(y) \in Nat /\ (BrokenIn(y) > 0 <=> y \in A)
  <2> SUFFICES ASSUME NEW y
               PROVE  BrokenIn(y) \in Nat /\ (BrokenIn(y) > 0 <=> y \in A)
    OBVIOUS
  <2>1. y \in A <=> \E r \in Unresolved(links) : r.from = y
    BY <1>2 DEF BrokenListed
  <2>2. /\ BrokenIn(y) \in Nat
        /\ BrokenIn(y) > 0 <=> \E r \in Unresolved(links) : r.from = y
    BY BrokenInIs
  <2>. QED
    BY <2>1, <2>2
<1>8. ASSUME NEW y \in A \ listed PROVE \E j \in 1..n : j > m /\ s[j] = y
  <2>1. PICK j \in 1..n : s[j] = y
    BY <1>5
  <2>2. j \notin 1..m
    BY <1>6, <2>1
  <2>. QED
    BY <1>5, <2>1, <2>2
<1>9. ASSUME NEW x \in listed, NEW y \in Notes \ listed
      PROVE  BrokenIn(x) >= BrokenIn(y)
  <2>1. CASE y \notin A
    <3>1. BrokenIn(y) \in Nat /\ ~(BrokenIn(y) > 0) /\ BrokenIn(x) \in Nat
      BY <1>7, <2>1
    <3>. QED
      BY <3>1
  <2>2. CASE y \in A
    <3>1. PICK j \in 1..n : j > m /\ s[j] = y
      BY <1>8, <2>2
    <3>2. PICK i \in 1..m : s[i] = x
      BY <1>6
    <3>3. i \in 1..n /\ i < j
      BY <1>5, <3>1
    <3>. QED
      BY <1>5, <3>1, <3>2, <3>3
  <2>. QED
    BY <2>1, <2>2
<1>10. ASSUME n > m PROVE \E y \in Notes \ listed : BrokenIn(y) > 0
  <2>1. PICK j \in 1..n : j = m + 1
    BY <1>5, <1>10
  <2>2. s[j] \in A
    BY <1>5, <2>1, ElementOfSeq
  <2>3. s[j] \notin listed
    <3> SUFFICES ASSUME NEW i \in 1..m, s[i] = s[j] PROVE FALSE
      BY <1>6
    <3>1. i \in 1..n /\ i < j
      BY <1>5, <2>1
    <3>. QED
      BY <1>5, <3>1
  <2>. QED
    BY <1>3, <1>7, <2>2, <2>3
<1>11. ASSUME n = m, NEW y \in Notes \ listed PROVE ~(BrokenIn(y) > 0)
  <2> SUFFICES ASSUME y \in A PROVE FALSE
    BY <1>7
  <2>1. PICK j \in 1..n : j > m /\ s[j] = y
    BY <1>8, <1>11
  <2>. QED
    BY <1>11, <2>1
<1>12. n > m \/ n = m
  BY <1>5
<1>. QED
  BY <1>5, <1>9, <1>10, <1>11, <1>12 DEF WorstListed

LEMMA BrokenAgree == LinkInv => BrokenCountsAgree
<1> SUFFICES ASSUME LinkInv PROVE BrokenCountsAgree
  OBVIOUS
<1>1. \A y : BrokenIn(y) = Cardinality({r \in links : r.from = y /\ ~r.resolved})
  BY BrokenInIs
<1>2. \A limit \in Limits :
         LET answer == BrokenLinks(limit)
             listed == {answer.notes[i].path : i \in 1..Len(answer.notes)}
         IN  WorstListed(answer, listed)
  <2> TAKE limit \in Limits
  <2>1. PICK answer : answer = BrokenLinks(limit)
    OBVIOUS
  <2>2. PICK listed :
           listed = {answer.notes[i].path : i \in 1..Len(answer.notes)}
    OBVIOUS
  <2>3. WorstListed(answer, listed)
    BY <2>1, <2>2, WorstAreListed
  <2>. QED
    BY <2>1, <2>2, <2>3
<1>. QED
  BY <1>1, <1>2, BrokenTotals DEF BrokenCountsAgree, WorstListed

\* The rows of links follow the notes through edits, deletions and rebuilds:
\* every link of an indexed text has one row, no link is resolved to a note
\* that does not answer to it, and get_backlinks, get_outlinks,
\* find_orphan_notes, find_broken_links, link_stats and graph_data agree.
THEOREM LinkToolsAgree == LinkSpec => []LinkAnswersAgree
<1>1. LinkInv => LinkAnswersAgree
  BY TextsAreFollowed, NamesAreResolved, OrphansAgree, BrokenAgree
     DEF LinkAnswersAgree
<1>. QED
  BY <1>1, LinkInvariant, PTL

(***************************************************************************)
(* The searches                                                            *)
(*                                                                         *)
(* Every answer is made in one step from what the index returns, so the    *)
(* invariant is the property: it is shown of each tool's answer.           *)
(***************************************************************************)

LEMMA RankingConstants ==
    /\ CandidatesMin \in Nat \ {0} /\ CandidatesMax \in Nat \ {0}
    /\ CandidatesTimes \in Nat \ {0} /\ RerankMax \in Nat \ {0}
    /\ RerankTimes \in Nat \ {0} /\ IsFiniteSet(Rows) /\ Scores \subseteq Int
    /\ TopKs \subseteq Nat \ {0} /\ Cardinality(Rows) \in Nat
<1>1. IsFiniteSet(Rows)
  BY RankingAssumption
<1>2. Cardinality(Rows) \in Nat
  BY <1>1, FS_CardinalityType
<1>. QED
  BY <1>1, <1>2, RankingAssumption

LEMMA CandidatesNumber ==
    ASSUME NEW k \in Nat PROVE ComputeCandidates(k) \in Nat \ {0}
<1>1. k * CandidatesTimes \in Nat
  BY RankingConstants
<1>. QED
  BY <1>1, RankingConstants DEF ComputeCandidates, Lesser2, Greater2

\* The window that is reranked holds the answer.
LEMMA PoolHoldsAnswer ==
    ASSUME NEW topK \in Nat, NEW n \in Nat
    PROVE  /\ RerankPoolSize(topK, n) \in 0..n
           /\ Lesser2(topK, RerankPoolSize(topK, n)) = Lesser2(topK, n)
<1>1. topK * RerankTimes \in Nat
  BY RankingConstants
<1>2. PICK w \in Nat : w = Lesser2(RerankMax, topK * RerankTimes)
  BY <1>1, RankingConstants DEF Lesser2
<1>. QED
  BY <1>2 DEF RerankPoolSize, Lesser2, Greater2

(***************************************************************************)
(* The reranking                                                           *)
(***************************************************************************)

\* out has the best rows of from, by score and then by place.
IsReranked(out, from, topK, relevance) ==
    /\ out \in Seq(Rows) /\ Len(out) = Lesser2(topK, Len(from))
    /\ \E place :
          /\ \A i \in 1..Len(out) : place[i] \in 1..Len(from)
          /\ \A i \in 1..Len(out) : out[i] = from[place[i]]
          /\ \A i, j \in 1..Len(out) : i < j =>
                \/ relevance[Key[out[i]]] > relevance[Key[out[j]]]
                \/ /\ relevance[Key[out[i]]] = relevance[Key[out[j]]]
                   /\ place[i] < place[j]

LEMMA RerankRanks ==
    ASSUME NEW from \in Seq(Rows), NEW topK \in Nat, NEW relevance \in Relevances
    PROVE  IsReranked(Rerank(from, topK, relevance), from, topK, relevance)
<1>1. PICK n \in Nat : n = Len(from)
  BY LenProperties
<1>2. PICK m : m = RerankPoolSize(topK, n)
  OBVIOUS
<1>3. m \in Nat /\ m <= n /\ Lesser2(topK, m) = Lesser2(topK, n)
  BY <1>2, PoolHoldsAnswer
<1>4. PICK pool : pool = Take(from, m)
  OBVIOUS
<1>5. pool \in Seq(Rows) /\ \E c : IsCut(pool, from, m, c)
  BY <1>3, <1>4, TakeCuts
<1>6. Len(pool) = m /\ \A i \in 1..m : pool[i] = from[i]
  BY <1>1, <1>3, <1>5 DEF IsCut
<1>7. \A i \in 1..m : pool[i] \in Rows
  BY <1>5, <1>6, ElementOfSeq
<1>8. PICK score : score = [i \in 1..m |-> relevance[Key[pool[i]]]]
  OBVIOUS
<1>9. \A i \in 1..m : score[i] \in Int /\ score[i] = relevance[Key[pool[i]]]
  <2>1. \A i \in 1..m : relevance[Key[pool[i]]] \in Scores
    BY <1>7 DEF Relevances
  <2>. QED
    BY <1>8, <2>1, RankingConstants
<1>10. PICK R : R = {p \in (1..m) \X (1..m) :
                      \/ score[p[1]] > score[p[2]]
                      \/ score[p[1]] = score[p[2]] /\ p[1] < p[2]}
  OBVIOUS
<1>11. IsStrictOrder(R, 1..m)
  <2>1. \A x \in 1..m : <<x, x>> \notin R
    BY <1>3, <1>9, <1>10
  <2>2. \A x, y, z \in 1..m : <<x, y>> \in R /\ <<y, z>> \in R => <<x, z>> \in R
    BY <1>3, <1>9, <1>10
  <2>3. \A x, y \in 1..m : x # y => <<x, y>> \in R \/ <<y, x>> \in R
    BY <1>3, <1>9, <1>10
  <2>. QED
    BY <2>1, <2>2, <2>3 DEF IsStrictOrder
<1>12. IsFiniteSet(1..m) /\ Cardinality(1..m) = m
  BY <1>3, FS_Interval
<1>13. PICK ranked : ranked = Sorted(1..m, R)
  OBVIOUS
<1>14. InOrder(ranked, 1..m, R)
  BY <1>11, <1>12, <1>13, SortedIsSorted
<1>15. /\ \A i \in 1..m : ranked[i] \in 1..m
       /\ \A i, j \in 1..m : i < j => <<ranked[i], ranked[j]>> \in R
  <2>1. ranked \in Seq(1..m) /\ Len(ranked) = m
    BY <1>12, <1>14 DEF InOrder
  <2>2. \A i \in 1..m : ranked[i] \in 1..m
    BY <2>1, ElementOfSeq
  <2>. QED
    BY <1>12, <1>14, <2>2 DEF InOrder
<1>16. PICK all : all = [i \in 1..m |-> pool[ranked[i]]]
  OBVIOUS
<1>17. all \in Seq(Rows) /\ Len(all) = m
  <2>1. all \in [1..m -> Rows]
    BY <1>7, <1>15, <1>16
  <2>. QED
    BY <1>3, <2>1, LenProperties
<1>18. PICK out : out = Take(all, topK)
  OBVIOUS
<1>19. out = Rerank(from, topK, relevance)
  <2>1. R = {p \in (1..m) \X (1..m) :
               \/ relevance[Key[pool[p[1]]]] > relevance[Key[pool[p[2]]]]
               \/ /\ relevance[Key[pool[p[1]]]] = relevance[Key[pool[p[2]]]]
                  /\ p[1] < p[2]}
    BY <1>9, <1>10
  <2>. QED
    BY <1>1, <1>2, <1>4, <1>6, <1>13, <1>16, <1>18, <2>1 DEF Rerank
<1>20. out \in Seq(Rows) /\ \E c : IsCut(out, all, topK, c)
  BY <1>17, <1>18, TakeCuts
<1>21. PICK c : IsCut(out, all, topK, c)
  BY <1>20
<1>22. /\ Len(out) = c /\ c \in 0..m /\ c = Lesser2(topK, m)
       /\ \A i \in 1..c : out[i] = all[i]
  BY <1>3, <1>17, <1>21 DEF IsCut, Lesser2
<1>23. \A i \in 1..c : i \in 1..m
  BY <1>3, <1>22
<1>24. \A i \in 1..c : /\ ranked[i] \in 1..m /\ ranked[i] \in 1..n
                       /\ out[i] = pool[ranked[i]] /\ out[i] = from[ranked[i]]
  <2> TAKE i \in 1..c
  <2>1. i \in 1..m
    BY <1>23
  <2>2. ranked[i] \in 1..m /\ out[i] = pool[ranked[i]]
    BY <1>15, <1>16, <1>22, <2>1
  <2>3. ranked[i] \in 1..n /\ pool[ranked[i]] = from[ranked[i]]
    BY <1>3, <1>6, <2>2
  <2>. QED
    BY <2>2, <2>3
<1>25. ASSUME NEW i \in 1..c, NEW j \in 1..c, i < j
       PROVE  \/ relevance[Key[out[i]]] > relevance[Key[out[j]]]
              \/ /\ relevance[Key[out[i]]] = relevance[Key[out[j]]]
                 /\ ranked[i] < ranked[j]
  <2>1. <<ranked[i], ranked[j]>> \in R
    BY <1>15, <1>23, <1>25
  <2>2. \/ score[ranked[i]] > score[ranked[j]]
        \/ score[ranked[i]] = score[ranked[j]] /\ ranked[i] < ranked[j]
    BY <1>10, <2>1
  <2>. QED
    BY <1>9, <1>24, <2>2
<1>26. Len(out) = Lesser2(topK, Len(from))
  BY <1>1, <1>3, <1>22
<1>27. IsReranked(out, from, topK, relevance)
  BY <1>1, <1>20, <1>22, <1>24, <1>25, <1>26 DEF IsReranked
<1>. QED
  BY <1>19, <1>27

\* The same as the property says it.
FillsTopK(out, from, topK, relevance) ==
    /\ Len(out) = Lesser2(topK, Len(from))
    /\ \A i, j \in DOMAIN out : i < j =>
          \/ relevance[Key[out[i]]] > relevance[Key[out[j]]]
          \/ /\ relevance[Key[out[i]]] = relevance[Key[out[j]]]
             /\ (CHOOSE p \in DOMAIN from : from[p] = out[i])
                  < (CHOOSE p \in DOMAIN from : from[p] = out[j])

LEMMA RerankFills ==
    ASSUME NEW from \in Seq(Rows), OnceEach(from), NEW topK \in Nat,
           NEW relevance \in Relevances,
           NEW out, out = Rerank(from, topK, relevance)
    PROVE  FillsTopK(out, from, topK, relevance)
<1>1. IsReranked(out, from, topK, relevance)
  BY RerankRanks
<1>2. PICK place :
          /\ \A i \in 1..Len(out) : place[i] \in 1..Len(from)
          /\ \A i \in 1..Len(out) : out[i] = from[place[i]]
          /\ \A i, j \in 1..Len(out) : i < j =>
                \/ relevance[Key[out[i]]] > relevance[Key[out[j]]]
                \/ /\ relevance[Key[out[i]]] = relevance[Key[out[j]]]
                   /\ place[i] < place[j]
  BY <1>1 DEF IsReranked
<1>3. DOMAIN out = 1..Len(out) /\ DOMAIN from = 1..Len(from)
  BY <1>1, LenProperties DEF IsReranked
<1>4. ASSUME NEW i \in 1..Len(out)
      PROVE  place[i] = CHOOSE p \in DOMAIN from : from[p] = out[i]
  <2>1. \A p \in DOMAIN from : from[p] = out[i] => p = place[i]
    BY <1>2, <1>3 DEF OnceEach
  <2>2. place[i] \in DOMAIN from /\ from[place[i]] = out[i]
    BY <1>2, <1>3
  <2>. QED
    BY <2>1, <2>2
<1>5. ASSUME NEW i \in DOMAIN out, NEW j \in DOMAIN out, i < j
      PROVE  \/ relevance[Key[out[i]]] > relevance[Key[out[j]]]
             \/ /\ relevance[Key[out[i]]] = relevance[Key[out[j]]]
                /\ (CHOOSE p \in DOMAIN from : from[p] = out[i])
                     < (CHOOSE p \in DOMAIN from : from[p] = out[j])
  <2>1. i \in 1..Len(out) /\ j \in 1..Len(out)
    BY <1>3
  <2>2. \/ relevance[Key[out[i]]] > relevance[Key[out[j]]]
        \/ /\ relevance[Key[out[i]]] = relevance[Key[out[j]]]
           /\ place[i] < place[j]
    BY <1>2, <1>5, <2>1
  <2>3. /\ place[i] = CHOOSE p \in DOMAIN from : from[p] = out[i]
        /\ place[j] = CHOOSE p \in DOMAIN from : from[p] = out[j]
    BY <1>4, <2>1
  <2>. QED
    BY <2>2, <2>3, Zenon
<1>. QED
  BY <1>1, <1>5 DEF FillsTopK, IsReranked

(***************************************************************************)
(* What the index returns                                                  *)
(***************************************************************************)

IsRanking(s) ==
    s \in Seq(Rows) /\ OnceEach(s) /\ Len(s) \in 0..Cardinality(Rows)

LEMMA SeqsAreRankings ==
    ASSUME NEW S \in SUBSET Rows, NEW s \in SetToSeqs(S) PROVE IsRanking(s)
<1>1. IsFiniteSet(S) /\ Cardinality(S) <= Cardinality(Rows)
  BY RankingConstants, FS_Subset
<1>2. PICK n \in Nat : n = Cardinality(S)
  BY <1>1, FS_CardinalityType
<1>3. s \in [1..n -> S] /\ \A i, j \in 1..n : i # j => s[i] # s[j]
  BY <1>2 DEF SetToSeqs
<1>4. s \in Seq(Rows) /\ Len(s) = n
  <2>1. s \in [1..n -> Rows]
    BY <1>3
  <2>. QED
    BY <2>1, LenProperties
<1>. QED
  BY <1>1, <1>2, <1>3, <1>4, RankingConstants DEF IsRanking, OnceEach

LEMMA IndexAnswers ==
    /\ \A s \in Rankings : IsRanking(s)
    /\ \A s \in Matches : IsRanking(s)
<1>1. \A s \in Rankings : IsRanking(s)
  <2>1. Rows \in SUBSET Rows
    OBVIOUS
  <2>. QED
    BY <2>1, SeqsAreRankings DEF Rankings
<1>2. \A s \in Matches : IsRanking(s)
  BY SeqsAreRankings DEF Matches
<1>. QED
  BY <1>1, <1>2

LEMMA RankingTaken ==
    ASSUME NEW s, IsRanking(s), NEW limit \in Nat PROVE IsRanking(Take(s, limit))
<1>1. s \in Seq(Rows) /\ OnceEach(s) /\ Len(s) \in 0..Cardinality(Rows)
  BY DEF IsRanking
<1>2. PICK t : t = Take(s, limit)
  OBVIOUS
<1>3. t \in Seq(Rows) /\ OnceEach(t)
  BY <1>1, <1>2, TakeKeepsOnce
<1>4. \E m : IsCut(t, s, limit, m)
  BY <1>1, <1>2, TakeCuts
<1>5. Len(t) \in 0..Cardinality(Rows)
  BY <1>1, <1>4, RankingConstants DEF IsCut
<1>. QED
  BY <1>2, <1>3, <1>5 DEF IsRanking

(***************************************************************************)
(* The notes of find_similar_notes                                         *)
(***************************************************************************)

\* The first topK of the notes, by their nearest chunk.
AreNearest(listed, raw, notes, topK) ==
    /\ listed \in Seq(notes) /\ OnceEach(listed)
    /\ \A n \in notes \ ToSet(listed) :
          /\ Len(listed) = topK
          /\ \A m \in ToSet(listed) : Nearest(raw, m) < Nearest(raw, n)

LEMMA GroupedAreNearest ==
    ASSUME NEW raw \in Seq(Rows), NEW reference, NEW topK \in Nat
    PROVE  AreNearest(Take(GroupByNote(raw, reference), topK), raw,
                      {Note[r] : r \in ToSet(raw)} \ {reference}, topK)
<1>0. PICK notes : notes = {Note[r] : r \in ToSet(raw)} \ {reference}
  OBVIOUS
<1>1. PICK n \in Nat : n = Len(raw)
  BY LenProperties
<1>2. DOMAIN raw = 1..n
  BY <1>1, LenProperties
<1>3. \A x \in notes : \E i \in 1..n : Note[raw[i]] = x
  BY <1>0, <1>2 DEF ToSet
<1>4. ASSUME NEW x \in notes
      PROVE  Nearest(raw, x) \in 1..n /\ Note[raw[Nearest(raw, x)]] = x
  <2>1. PICK S : S = {i \in 1..Len(raw) : Note[raw[i]] = x}
    OBVIOUS
  <2>2. S \in SUBSET Nat /\ S # {}
    BY <1>1, <1>3, <2>1
  <2>3. Min(S) \in S
    BY <2>2, LeastIsLeast
  <2>4. Nearest(raw, x) = Min(S)
    BY <2>1 DEF Nearest
  <2>. QED
    BY <1>1, <2>1, <2>3, <2>4
<1>5. IsFiniteSet(notes)
  <2>1. IsFiniteSet(1..n)
    BY FS_Interval
  <2>2. PICK f : f = [i \in 1..n |-> Note[raw[i]]]
    OBVIOUS
  <2>3. IsFiniteSet({f[i] : i \in 1..n})
    <3>1. f \in [1..n -> {f[i] : i \in 1..n}]
      BY <2>2
    <3>2. f \in Surjection(1..n, {f[i] : i \in 1..n})
      BY <3>1 DEF Surjection
    <3>. QED
      BY <2>1, <3>2, FS_Surjection
  <2>4. notes \subseteq {f[i] : i \in 1..n}
    BY <1>3, <2>2
  <2>. QED
    BY <2>3, <2>4, FS_Subset
<1>6. PICK N \in Nat : N = Cardinality(notes)
  BY <1>5, FS_CardinalityType
<1>7. PICK R : R = {p \in notes \X notes : Nearest(raw, p[1]) < Nearest(raw, p[2])}
  OBVIOUS
<1>8. IsStrictOrder(R, notes)
  <2>1. PICK at : at = [x \in notes |-> Nearest(raw, x)]
    OBVIOUS
  <2>2. /\ \A x \in notes : at[x] \in Int
        /\ \A x, y \in notes : at[x] = at[y] => x = y
    BY <1>1, <1>4, <2>1
  <2>3. \A x, y \in notes : <<x, y>> \in R <=> at[x] < at[y]
    BY <1>7, <2>1
  <2>. QED
    BY <2>2, <2>3 DEF IsStrictOrder
<1>9. PICK g : g = Sorted(notes, R)
  OBVIOUS
<1>10. g = GroupByNote(raw, reference)
  BY <1>0, <1>7, <1>9 DEF GroupByNote, ByNearest
<1>11. InOrder(g, notes, R)
  BY <1>5, <1>8, <1>9, SortedIsSorted
<1>12. /\ g \in Seq(notes) /\ Len(g) = N
       /\ \A i, j \in 1..N : i < j => Nearest(raw, g[i]) < Nearest(raw, g[j])
       /\ \A x \in notes : \E i \in 1..N : g[i] = x
  BY <1>6, <1>7, <1>11 DEF InOrder
<1>13. PICK t : t = Take(g, topK)
  OBVIOUS
<1>14. t \in Seq(notes) /\ \E c : IsCut(t, g, topK, c)
  BY <1>12, <1>13, TakeCuts
<1>15. PICK c : IsCut(t, g, topK, c)
  BY <1>14
<1>16. /\ Len(t) = c /\ c \in 0..N /\ c = (IF topK < N THEN topK ELSE N)
       /\ \A i \in 1..c : t[i] = g[i] /\ i \in 1..N
  BY <1>6, <1>12, <1>15 DEF IsCut
<1>17. \A i \in 1..N : g[i] \in notes /\ Nearest(raw, g[i]) \in Int
  BY <1>1, <1>4, <1>12, ElementOfSeq
<1>18. OnceEach(t)
  BY <1>6, <1>12, <1>16, <1>17 DEF OnceEach
<1>19. ToSet(t) = {t[i] : i \in 1..c}
  BY <1>14, <1>16 DEF ToSet
<1>20. ASSUME NEW x \in notes, x \notin ToSet(t)
       PROVE  c = topK /\ \A m \in ToSet(t) : Nearest(raw, m) < Nearest(raw, x)
  <2>1. PICK i \in 1..N : g[i] = x
    BY <1>12
  <2>2. i > c
    BY <1>6, <1>16, <1>19, <1>20, <2>1
  <2>3. c = topK
    BY <1>6, <1>16, <2>2
  <2>4. ASSUME NEW m \in ToSet(t) PROVE Nearest(raw, m) < Nearest(raw, x)
    <3>1. PICK j \in 1..c : t[j] = m
      BY <1>19
    <3>2. g[j] = m /\ j \in 1..N /\ j < i
      BY <1>6, <1>16, <2>2, <3>1
    <3>. QED
      BY <1>12, <2>1, <3>2
  <2>. QED
    BY <2>3, <2>4
<1>21. AreNearest(t, raw, notes, topK)
  BY <1>14, <1>16, <1>18, <1>20 DEF AreNearest
<1>. QED
  BY <1>0, <1>10, <1>13, <1>21

(***************************************************************************)
(* The fusion of two rankings                                              *)
(***************************************************************************)

\* A quotient without a remainder.
LEMMA Divides ==
    ASSUME NEW a \in Nat \ {0}, Scale % a = 0
    PROVE  Scale \div a \in Nat \ {0} /\ Scale = a * (Scale \div a)
<1>1. Scale \in Nat \ {0}
  BY RankingAssumption
<1>2. Scale \div a \in Int
  BY <1>1
<1>3. Scale = a * (Scale \div a) + (Scale % a)
  BY <1>1
<1>4. PICK q \in Int : q = Scale \div a
  BY <1>2
<1>5. Scale = a * q
  BY <1>2, <1>3, <1>4
<1>6. q > 0
  BY <1>1, <1>5
<1>. QED
  BY <1>4, <1>5, <1>6

\* A better rank adds more.
LEMMA BetterRankAddsMore ==
    ASSUME NEW i \in 1..Cardinality(Rows), NEW j \in 1..Cardinality(Rows)
    PROVE  /\ Reciprocal(i) \in Nat \ {0} /\ Reciprocal(j) \in Nat \ {0}
           /\ i < j => Reciprocal(i) > Reciprocal(j)
<1>1. PICK a, b : a = RrfK + i /\ b = RrfK + j
  OBVIOUS
<1>2. a \in Nat \ {0} /\ b \in Nat \ {0} /\ (i < j => a < b)
  BY <1>1, RankingAssumption, RankingConstants
<1>3. Scale % a = 0 /\ Scale % b = 0
  BY <1>1, RankingAssumption
<1>4. PICK x, y : x = Scale \div a /\ y = Scale \div b
  OBVIOUS
<1>5. x \in Nat \ {0} /\ Scale = a * x
  BY <1>2, <1>3, <1>4, Divides
<1>6. y \in Nat \ {0} /\ Scale = b * y
  BY <1>2, <1>3, <1>4, Divides
<1>7. x = Reciprocal(i) /\ y = Reciprocal(j)
  BY <1>1, <1>4 DEF Reciprocal
<1>8. ASSUME a < b PROVE x > y
  <2> SUFFICES ASSUME x <= y PROVE FALSE
    BY <1>5, <1>6
  <2>1. PICK d \in Nat, e \in Nat \ {0} : y = x + d /\ b = a + e
    <3>1. y - x \in Nat /\ y = x + (y - x)
      BY <1>5, <1>6
    <3>2. b - a \in Nat \ {0} /\ b = a + (b - a)
      BY <1>2, <1>8
    <3>. QED
      BY <3>1, <3>2
  <2>2. b * y = a * x + a * d + e * x + e * d
    BY <1>2, <1>5, <2>1
  <2>3. a * d \in Nat /\ e * d \in Nat /\ a * x \in Nat
    BY <1>2, <1>5, <2>1
  <2>4. e * x > 0
    BY <1>5, <2>1
  <2>. QED
    BY <1>5, <1>6, <2>2, <2>3, <2>4
<1>. QED
  BY <1>2, <1>5, <1>6, <1>7, <1>8

\* What one ranking gives a key.
ScoreFacts(s, k) ==
    /\ ScoreIn(s, k) \in Nat
    /\ Ranks(s, k) = {} => ScoreIn(s, k) = 0
    /\ \A i \in Ranks(s, k) : ScoreIn(s, k) >= Reciprocal(i)
    /\ \A i \in Ranks(s, k) : Ranks(s, k) = {i} => ScoreIn(s, k) = Reciprocal(i)

LEMMA ScoresOfRanks ==
    ASSUME NEW s, IsRanking(s), NEW k PROVE ScoreFacts(s, k)
<1>1. PICK n \in Nat : n = Len(s)
  BY LenProperties DEF IsRanking
<1>2. \A i \in 1..n : Reciprocal(i) \in Nat
  <2> TAKE i \in 1..n
  <2>1. i \in 1..Cardinality(Rows)
    BY <1>1, RankingConstants DEF IsRanking
  <2>. QED
    BY <2>1, BetterRankAddsMore
<1>3. PICK t : t = [i \in 1..n |-> IF Key[s[i]] = k THEN Reciprocal(i) ELSE 0]
  OBVIOUS
<1>4. t \in Seq(Nat) /\ Len(t) = n
  <2>1. t \in [1..n -> Nat]
    BY <1>2, <1>3
  <2>. QED
    BY <2>1, LenProperties
<1>5. SumFacts(t)
  BY <1>4, AddUpFacts
<1>6. ScoreIn(s, k) = AddUp(t)
  BY <1>1, <1>3 DEF ScoreIn
<1>7. PICK S : S = Ranks(s, k)
  OBVIOUS
<1>8. S = {i \in 1..n : Key[s[i]] = k}
  BY <1>1, <1>7 DEF Ranks
<1>9. \A i \in 1..n : t[i] = IF i \in S THEN Reciprocal(i) ELSE 0
  BY <1>3, <1>8
<1>10. AddUp(t) \in Nat
  BY <1>5 DEF SumFacts
<1>11. S = {} => AddUp(t) = 0
  BY <1>4, <1>5, <1>9 DEF SumFacts
<1>12. ASSUME NEW i \in S PROVE AddUp(t) >= Reciprocal(i)
  <2>1. i \in 1..n /\ t[i] = Reciprocal(i)
    BY <1>8, <1>9
  <2>. QED
    BY <1>4, <1>5, <2>1 DEF SumFacts
<1>13. ASSUME NEW i \in S, S = {i} PROVE AddUp(t) = Reciprocal(i)
  <2>1. i \in 1..n /\ t[i] = Reciprocal(i)
    BY <1>8, <1>9
  <2>2. \A j \in 1..n : j # i => t[j] = 0
    BY <1>9, <1>13
  <2>. QED
    BY <1>4, <1>5, <2>1, <2>2 DEF SumFacts
<1>. QED
  BY <1>6, <1>7, <1>10, <1>11, <1>12, <1>13 DEF ScoreFacts

\* A key that is ahead in a ranking that found the other, or that finds what
\* the other does not, gets no less from it, and more from the first.
LeadsIn(s, j, k) ==
    \/ Ranks(s, k) = {}
    \/ /\ Cardinality(Ranks(s, k)) = 1 /\ Ranks(s, j) # {}
       /\ Min(Ranks(s, j)) < Min(Ranks(s, k))

LEMMA RanksAreRanks ==
    ASSUME NEW s, IsRanking(s), NEW k
    PROVE  /\ Ranks(s, k) \in SUBSET (1..Cardinality(Rows))
           /\ Ranks(s, k) \in SUBSET Nat /\ IsFiniteSet(Ranks(s, k))
           /\ Ranks(s, k) # {} => Min(Ranks(s, k)) \in Ranks(s, k)
<1>1. PICK S : S = Ranks(s, k)
  OBVIOUS
<1>2. S \in SUBSET (1..Cardinality(Rows))
  BY <1>1, RankingConstants DEF IsRanking, Ranks
<1>3. S \in SUBSET Nat
  BY <1>2, RankingConstants
<1>4. IsFiniteSet(S)
  <2>1. IsFiniteSet(1..Cardinality(Rows))
    BY RankingConstants, FS_Interval
  <2>. QED
    BY <1>2, <2>1, FS_Subset
<1>5. S # {} => Min(S) \in S
  BY <1>3, LeastIsLeast
<1>. QED
  BY <1>1, <1>2, <1>3, <1>4, <1>5

LEMMA LeaderScoresMore ==
    ASSUME NEW s, IsRanking(s), NEW j, NEW k, LeadsIn(s, j, k)
    PROVE  /\ ScoreIn(s, j) \in Nat /\ ScoreIn(s, k) \in Nat
           /\ ScoreIn(s, j) >= ScoreIn(s, k)
           /\ Ranks(s, k) # {} => ScoreIn(s, j) > ScoreIn(s, k)
<1>1. /\ ScoreFacts(s, j) /\ ScoreFacts(s, k)
  BY ScoresOfRanks
<1>2. CASE Ranks(s, k) = {}
  BY <1>1, <1>2 DEF ScoreFacts
<1>3. CASE Ranks(s, k) # {}
  <2>1. PICK S, T : S = Ranks(s, j) /\ T = Ranks(s, k)
    OBVIOUS
  <2>2. Cardinality(T) = 1 /\ S # {} /\ T # {} /\ Min(S) < Min(T)
    BY <1>3, <2>1 DEF LeadsIn
  <2>3. Min(S) \in S /\ Min(T) \in T /\ IsFiniteSet(T)
    BY <2>1, <2>2, RanksAreRanks
  <2>4. T = {Min(T)}
    <3>1. PICK x : T = {x}
      BY <2>2, <2>3, FS_Singleton
    <3>. QED
      BY <2>3, <3>1
  <2>5. PICK a \in 1..Cardinality(Rows), b \in 1..Cardinality(Rows) :
           a = Min(S) /\ b = Min(T)
    <3>1. Min(S) \in 1..Cardinality(Rows) /\ Min(T) \in 1..Cardinality(Rows)
      BY <2>1, <2>3, RanksAreRanks
    <3>. QED
      BY <3>1
  <2>6. Reciprocal(a) > Reciprocal(b) /\ Reciprocal(a) \in Nat /\ Reciprocal(b) \in Nat
    <3>1. a < b
      BY <2>2, <2>5
    <3>. QED
      BY <3>1, BetterRankAddsMore
  <2>7. ScoreIn(s, j) >= Reciprocal(a)
    BY <1>1, <2>1, <2>3, <2>5 DEF ScoreFacts
  <2>8. ScoreIn(s, k) = Reciprocal(b)
    BY <1>1, <2>1, <2>3, <2>4, <2>5 DEF ScoreFacts
  <2>9. ScoreIn(s, j) \in Nat /\ ScoreIn(s, k) \in Nat
    BY <1>1 DEF ScoreFacts
  <2>. QED
    BY <2>6, <2>7, <2>8, <2>9
<1>. QED
  BY <1>2, <1>3

KeysOf(v, f) == {Key[r] : r \in ToSet(v \o f)}

LEMMA KeysHaveRanks ==
    ASSUME NEW v, IsRanking(v), NEW f, IsRanking(f)
    PROVE  /\ v \o f \in Seq(Rows) /\ Len(v \o f) \in Nat
           /\ \A k \in KeysOf(v, f) :
                 /\ \E i \in 1..Len(v \o f) : Key[(v \o f)[i]] = k
                 /\ Ranks(v, k) # {} \/ Ranks(f, k) # {}
<1>1. v \in Seq(Rows) /\ f \in Seq(Rows)
  BY DEF IsRanking
<1>2. PICK all : all = v \o f
  OBVIOUS
<1>3. all \in Seq(Rows) /\ Len(all) = Len(v) + Len(f)
  BY <1>1, <1>2, ConcatProperties
<1>4. \A i \in 1..Len(all) : all[i] = IF i <= Len(v) THEN v[i] ELSE f[i - Len(v)]
  BY <1>1, <1>2, ConcatProperties
<1>5. Len(all) \in Nat /\ DOMAIN all = 1..Len(all)
  BY <1>3, LenProperties
<1>6. ASSUME NEW k \in KeysOf(v, f) PROVE \E i \in 1..Len(all) : Key[all[i]] = k
  BY <1>2, <1>5 DEF KeysOf, ToSet
<1>7. ASSUME NEW k \in KeysOf(v, f) PROVE Ranks(v, k) # {} \/ Ranks(f, k) # {}
  <2>1. PICK i \in 1..Len(all) : Key[all[i]] = k
    BY <1>6
  <2>2. Len(v) \in Nat /\ Len(f) \in Nat
    BY <1>1, LenProperties
  <2>3. CASE i <= Len(v)
    <3>1. i \in 1..Len(v) /\ Key[v[i]] = k
      BY <1>3, <1>4, <2>1, <2>2, <2>3
    <3>. QED
      BY <3>1 DEF Ranks
  <2>4. CASE ~(i <= Len(v))
    <3>1. i - Len(v) \in 1..Len(f) /\ Key[f[i - Len(v)]] = k
      BY <1>3, <1>4, <2>1, <2>2, <2>4
    <3>. QED
      BY <3>1 DEF Ranks
  <2>. QED
    BY <2>3, <2>4
<1>. QED
  BY <1>2, <1>3, <1>5, <1>6, <1>7

\* The entry e of the key k.
IsEntry(e, k, v, f) ==
    /\ e.row \in Rows /\ Key[e.row] = k
    /\ e.score = FusedScore(k, v, f) /\ e.score \in Nat
    /\ e.best \in Nat /\ e.order \in 1..Len(v \o f)
    /\ Key[(v \o f)[e.order]] = k

LEMMA EntriesAreEntries ==
    ASSUME NEW v, IsRanking(v), NEW f, IsRanking(f), NEW k \in KeysOf(v, f)
    PROVE  IsEntry(FusedEntry(k, v, f), k, v, f)
<1>1. PICK all : all = v \o f
  OBVIOUS
<1>2. PICK n \in Nat : n = Len(all)
  BY <1>1, KeysHaveRanks
<1>3. all \in Seq(Rows) /\ \E i \in 1..n : Key[all[i]] = k
  <2>1. v \o f \in Seq(Rows) /\ \E i \in 1..Len(v \o f) : Key[(v \o f)[i]] = k
    BY KeysHaveRanks
  <2>. QED
    BY <1>1, <1>2, <2>1
<1>4. PICK S : S = Ranks(all, k)
  OBVIOUS
<1>5. S = {i \in 1..n : Key[all[i]] = k}
  BY <1>2, <1>4 DEF Ranks
<1>6. S \in SUBSET Nat /\ S # {}
  BY <1>3, <1>5
<1>7. Min(S) \in S
  BY <1>6, LeastIsLeast
<1>8. PICK m : m = Min(S)
  OBVIOUS
<1>9. m \in 1..n /\ Key[all[m]] = k /\ all[m] \in Rows
  BY <1>2, <1>3, <1>5, <1>7, <1>8, ElementOfSeq
<1>10. PICK B : B = Ranks(v, k) \cup Ranks(f, k)
  OBVIOUS
<1>11. B \in SUBSET Nat /\ B # {}
  BY <1>10, KeysHaveRanks, RanksAreRanks
<1>12. Min(B) \in Nat
  BY <1>11, LeastIsLeast
<1>13. FusedScore(k, v, f) \in Nat
  BY ScoresOfRanks DEF FusedScore, ScoreFacts
<1>14. FusedEntry(k, v, f) = [row |-> all[m], score |-> FusedScore(k, v, f),
                              best |-> Min(B), order |-> m]
  BY <1>1, <1>4, <1>8, <1>10 DEF FusedEntry
<1>. QED
  BY <1>1, <1>2, <1>9, <1>12, <1>13, <1>14 DEF IsEntry

\* merged has the keys with the best scores, each once.
IsFused(merged, v, f, limit) ==
    /\ merged \in Seq(Rows)
    /\ Len(merged) = Lesser2(Cardinality(KeysOf(v, f)), limit)
    /\ \A i \in 1..Len(merged) : Key[merged[i]] \in KeysOf(v, f)
    /\ \A i, j \in 1..Len(merged) : Key[merged[i]] = Key[merged[j]] => i = j
    /\ \A k \in KeysOf(v, f), i \in 1..Len(merged) :
          FusedScore(k, v, f) > FusedScore(Key[merged[i]], v, f) =>
            \E j \in 1..Len(merged) : j < i /\ Key[merged[j]] = k

LEMMA KeysFinite ==
    ASSUME NEW v, IsRanking(v), NEW f, IsRanking(f)
    PROVE  IsFiniteSet(KeysOf(v, f)) /\ Cardinality(KeysOf(v, f)) \in Nat
<1>1. PICK n \in Nat : n = Len(v \o f)
  BY KeysHaveRanks
<1>2. PICK g : g = [i \in 1..n |-> Key[(v \o f)[i]]]
  OBVIOUS
<1>3. PICK K : K = {g[i] : i \in 1..n}
  OBVIOUS
<1>4. g \in Surjection(1..n, K)
  BY <1>2, <1>3 DEF Surjection
<1>5. IsFiniteSet(1..n)
  BY FS_Interval
<1>6. IsFiniteSet(K)
  BY <1>4, <1>5, FS_Surjection
<1>7. KeysOf(v, f) \subseteq K
  BY <1>1, <1>2, <1>3, KeysHaveRanks
<1>8. IsFiniteSet(KeysOf(v, f))
  BY <1>6, <1>7, FS_Subset
<1>. QED
  BY <1>8, FS_CardinalityType

\* The key of sorted orders the entries.
LEMMA AheadOrders ==
    ASSUME NEW v, IsRanking(v), NEW f, IsRanking(f), NEW E,
           \A e \in E : \E k : IsEntry(e, k, v, f),
           \A e, g \in E : Key[e.row] = Key[g.row] => e = g
    PROVE  IsStrictOrder({p \in E \X E : Ahead(p[1], p[2])}, E)
<1>1. PICK n \in Nat : n = Len(v \o f)
  BY KeysHaveRanks
<1>2. \A e \in E : /\ e.score \in Int /\ e.best \in Int /\ e.order \in Int
                   /\ Key[(v \o f)[e.order]] = Key[e.row]
  BY <1>1 DEF IsEntry
<1>3. \A e, g \in E : e.order = g.order => e = g
  BY <1>2
<1>4. PICK R : R = {p \in E \X E : Ahead(p[1], p[2])}
  OBVIOUS
<1>5. \A e, g \in E : <<e, g>> \in R <=> Ahead(e, g)
  BY <1>4
<1>6. \A e \in E : <<e, e>> \notin R
  BY <1>2, <1>5 DEF Ahead
<1>7. ASSUME NEW e \in E, NEW g \in E, NEW h \in E, Ahead(e, g), Ahead(g, h)
      PROVE  Ahead(e, h)
  BY <1>2, <1>7 DEF Ahead
<1>8. ASSUME NEW e \in E, NEW g \in E, e # g PROVE Ahead(e, g) \/ Ahead(g, e)
  <2>1. e.order # g.order
    BY <1>3, <1>8
  <2>. QED
    BY <1>2, <2>1 DEF Ahead
<1>9. IsStrictOrder(R, E)
  BY <1>5, <1>6, <1>7, <1>8 DEF IsStrictOrder
<1>. QED
  BY <1>4, <1>9

LEMMA FuseFuses ==
    ASSUME NEW v, IsRanking(v), NEW f, IsRanking(f), NEW limit \in Nat
    PROVE  IsFused(Fuse(v, f, limit), v, f, limit)
<1>1. PICK K : K = KeysOf(v, f)
  OBVIOUS
<1>2. PICK entry : entry = [k \in K |-> FusedEntry(k, v, f)]
  OBVIOUS
<1>3. \A k \in K : IsEntry(entry[k], k, v, f)
  BY <1>1, <1>2, EntriesAreEntries
<1>4. \A k \in K : /\ entry[k].row \in Rows /\ Key[entry[k].row] = k
                   /\ entry[k].score = FusedScore(k, v, f) /\ entry[k].score \in Nat
  BY <1>3 DEF IsEntry
<1>5. PICK E : E = {entry[k] : k \in K}
  OBVIOUS
<1>6. \A e \in E : \E k : IsEntry(e, k, v, f)
  BY <1>3, <1>5
<1>7. \A e, g \in E : Key[e.row] = Key[g.row] => e = g
  BY <1>4, <1>5
<1>8. IsFiniteSet(K)
  BY <1>1, KeysFinite
<1>9. PICK N \in Nat : N = Cardinality(K)
  BY <1>1, KeysFinite
<1>10. entry \in Bijection(K, E)
  <2>1. entry \in [K -> E]
    BY <1>2, <1>5
  <2>2. \A j, k \in K : entry[j] = entry[k] => j = k
    BY <1>4
  <2>3. \A e \in E : \E k \in K : entry[k] = e
    BY <1>5
  <2>. QED
    BY <2>1, <2>2, <2>3 DEF Bijection, Injection, IsInjective, Surjection
<1>11. IsFiniteSet(E) /\ Cardinality(E) = N
  <2>1. ExistsBijection(K, E)
    BY <1>10 DEF ExistsBijection
  <2>. QED
    BY <1>8, <1>9, <2>1, FS_Bijection
<1>12. PICK R : R = {p \in E \X E : Ahead(p[1], p[2])}
  OBVIOUS
<1>13. IsStrictOrder(R, E)
  BY <1>6, <1>7, <1>12, AheadOrders
<1>14. PICK ranked : ranked = Sorted(E, R)
  OBVIOUS
<1>15. InOrder(ranked, E, R)
  BY <1>11, <1>13, <1>14, SortedIsSorted
<1>16. /\ ranked \in Seq(E) /\ Len(ranked) = N
       /\ \A i, j \in 1..N : i < j => <<ranked[i], ranked[j]>> \in R
       /\ \A e \in E : \E i \in 1..N : ranked[i] = e
  BY <1>11, <1>15 DEF InOrder
<1>17. \A i \in 1..N : ranked[i] \in E
  BY <1>16, ElementOfSeq
<1>18. PICK key : key = [i \in 1..N |-> Key[ranked[i].row]]
  OBVIOUS
<1>19. \A i \in 1..N : key[i] \in K /\ entry[key[i]] = ranked[i]
  <2> TAKE i \in 1..N
  <2>1. PICK k \in K : ranked[i] = entry[k]
    BY <1>5, <1>17
  <2>2. key[i] = k
    BY <1>4, <1>18, <2>1
  <2>. QED
    BY <2>1, <2>2
<1>20. PICK all : all = [i \in 1..N |-> ranked[i].row]
  OBVIOUS
<1>21. \A i \in 1..N : all[i] \in Rows /\ Key[all[i]] = key[i]
  BY <1>4, <1>18, <1>19, <1>20
<1>22. all \in Seq(Rows) /\ Len(all) = N
  <2>1. all \in [1..N -> Rows]
    BY <1>20, <1>21
  <2>. QED
    BY <2>1, LenProperties
<1>23. PICK merged : merged = Take(all, limit)
  OBVIOUS
<1>24. merged = Fuse(v, f, limit)
  <2>1. E = {FusedEntry(k, v, f) : k \in K}
    BY <1>2, <1>5
  <2>. QED
    BY <1>1, <1>11, <1>12, <1>14, <1>20, <1>23, <2>1 DEF Fuse, KeysOf
<1>25. merged \in Seq(Rows) /\ \E c : IsCut(merged, all, limit, c)
  BY <1>22, <1>23, TakeCuts
<1>26. PICK c : IsCut(merged, all, limit, c)
  BY <1>25
<1>27. Len(merged) = c /\ c \in 0..N /\ c = Lesser2(N, limit)
  BY <1>22, <1>26 DEF IsCut, Lesser2
<1>28. \A i \in 1..c : i \in 1..N /\ merged[i] = all[i]
  BY <1>22, <1>26, <1>27 DEF IsCut
<1>29. \A i \in 1..c : Key[merged[i]] = key[i] /\ key[i] \in K
  BY <1>19, <1>21, <1>28
<1>30. \A i, j \in 1..N : key[i] = key[j] => i = j
  <2> SUFFICES ASSUME NEW i \in 1..N, NEW j \in 1..N, key[i] = key[j], i # j
               PROVE  FALSE
    OBVIOUS
  <2>1. ranked[i] = ranked[j] /\ ranked[i] \in E
    BY <1>17, <1>19
  <2>2. <<ranked[i], ranked[j]>> \in R \/ <<ranked[j], ranked[i]>> \in R
    BY <1>16
  <2>. QED
    BY <1>13, <2>1, <2>2 DEF IsStrictOrder
<1>31. ASSUME NEW k \in K, NEW i \in 1..c,
              FusedScore(k, v, f) > FusedScore(key[i], v, f)
       PROVE  \E j \in 1..c : j < i /\ key[j] = k
  <2>1. i \in 1..N
    BY <1>28
  <2>2. PICK j \in 1..N : ranked[j] = entry[k]
    BY <1>5, <1>16
  <2>3. key[j] = k
    BY <1>4, <1>18, <2>2
  <2>4. entry[k].score > ranked[i].score /\ entry[k].score \in Nat /\ ranked[i].score \in Nat
    BY <1>4, <1>19, <1>31, <2>1
  <2>5. j # i
    BY <2>2, <2>4
  <2>6. ~(i < j)
    <3> SUFFICES ASSUME i < j PROVE FALSE
      OBVIOUS
    <3>1. <<ranked[i], ranked[j]>> \in R
      BY <1>16, <2>1
    <3>2. Ahead(ranked[i], ranked[j])
      BY <1>12, <3>1
    <3>. QED
      BY <2>2, <2>4, <3>2 DEF Ahead
  <2>7. j < i /\ j \in 1..c
    BY <1>27, <2>5, <2>6
  <2>. QED
    BY <2>3, <2>7
<1>32. IsFused(merged, v, f, limit)
  <2>1. \A i \in 1..c : Key[merged[i]] \in K
    BY <1>29
  <2>2. \A i, j \in 1..c : Key[merged[i]] = Key[merged[j]] => i = j
    BY <1>28, <1>29, <1>30
  <2>3. \A k \in K, i \in 1..c :
          FusedScore(k, v, f) > FusedScore(Key[merged[i]], v, f) =>
            \E j \in 1..c : j < i /\ Key[merged[j]] = k
    <3> SUFFICES ASSUME NEW k \in K, NEW i \in 1..c,
                        FusedScore(k, v, f) > FusedScore(Key[merged[i]], v, f)
                 PROVE  \E j \in 1..c : j < i /\ Key[merged[j]] = k
      OBVIOUS
    <3>1. FusedScore(k, v, f) > FusedScore(key[i], v, f)
      BY <1>29
    <3>2. PICK j \in 1..c : j < i /\ key[j] = k
      BY <1>31, <3>1
    <3>. QED
      BY <1>29, <3>2
  <2>4. Len(merged) = Lesser2(Cardinality(K), limit)
    BY <1>9, <1>27
  <2>. QED
    BY <1>1, <1>25, <1>27, <2>1, <2>2, <2>3, <2>4 DEF IsFused
<1>. QED
  BY <1>24, <1>32

\* The same as the property says it.
PlaceOf(merged, k) == CHOOSE i \in DOMAIN merged : Key[merged[i]] = k

RespectsBoth(merged, found, merges, v, f, limit) ==
    /\ Len(merged) = Lesser2(Cardinality(found), limit)
    /\ Cardinality(merges) = Len(merged)
    /\ \A j \in found, k \in merges :
          LeadsIn(v, j, k) /\ LeadsIn(f, j, k) =>
            j \in merges /\ PlaceOf(merged, j) < PlaceOf(merged, k)

LEMMA FusedRespectsBoth ==
    ASSUME NEW v, IsRanking(v), NEW f, IsRanking(f), NEW limit \in Nat,
           NEW merged, merged = Fuse(v, f, limit)
    PROVE  /\ merged \in Seq(Rows) /\ OnceEach(merged)
           /\ RespectsBoth(merged, KeysOf(v, f), {Key[r] : r \in ToSet(merged)},
                           v, f, limit)
<1>1. IsFused(merged, v, f, limit)
  BY FuseFuses
<1>2. PICK K : K = KeysOf(v, f)
  OBVIOUS
<1>3. PICK n \in Nat : n = Len(merged)
  BY <1>1, LenProperties DEF IsFused
<1>4. /\ merged \in Seq(Rows) /\ n = Lesser2(Cardinality(K), limit)
      /\ \A i \in 1..n : Key[merged[i]] \in K
      /\ \A i, j \in 1..n : Key[merged[i]] = Key[merged[j]] => i = j
  BY <1>1, <1>2, <1>3 DEF IsFused
<1>5. \A k \in K, i \in 1..n :
        FusedScore(k, v, f) > FusedScore(Key[merged[i]], v, f) =>
          \E j \in 1..n : j < i /\ Key[merged[j]] = k
  BY <1>1, <1>2, <1>3 DEF IsFused
<1>6. DOMAIN merged = 1..n
  BY <1>3, <1>4, LenProperties
<1>7. OnceEach(merged)
  BY <1>3, <1>4 DEF OnceEach
<1>8. PICK M : M = {Key[r] : r \in ToSet(merged)}
  OBVIOUS
<1>9. PICK g : g = [i \in 1..n |-> Key[merged[i]]]
  OBVIOUS
<1>10. \A x : x \in M <=> \E i \in 1..n : g[i] = x
  BY <1>6, <1>8, <1>9 DEF ToSet
<1>11. Cardinality(M) = n
  <2>1. g \in [1..n -> M]
    BY <1>9, <1>10
  <2>2. \A i, j \in 1..n : g[i] = g[j] => i = j
    BY <1>4, <1>9
  <2>3. g \in Bijection(1..n, M)
    BY <1>10, <2>1, <2>2 DEF Bijection, Injection, IsInjective, Surjection
  <2>4. ExistsBijection(1..n, M)
    BY <2>3 DEF ExistsBijection
  <2>5. IsFiniteSet(1..n) /\ Cardinality(1..n) = n
    BY FS_Interval
  <2>. QED
    BY <2>4, <2>5, FS_Bijection
<1>12. ASSUME NEW k, NEW i \in 1..n, g[i] = k
       PROVE  i = PlaceOf(merged, k)
  <2>1. i \in DOMAIN merged /\ Key[merged[i]] = k
    BY <1>6, <1>9, <1>12
  <2>2. \A p \in DOMAIN merged : Key[merged[p]] = k => p = i
    BY <1>4, <1>6, <2>1
  <2>. QED
    BY <2>1, <2>2 DEF PlaceOf
<1>13. ASSUME NEW j \in K, NEW k \in M, LeadsIn(v, j, k), LeadsIn(f, j, k)
       PROVE  j \in M /\ PlaceOf(merged, j) < PlaceOf(merged, k)
  <2>1. PICK i \in 1..n : g[i] = k
    BY <1>10
  <2>2. k \in K /\ Key[merged[i]] = k
    BY <1>4, <1>9, <2>1
  <2>3. Ranks(v, k) # {} \/ Ranks(f, k) # {}
    BY <1>2, <2>2, KeysHaveRanks
  <2>4. /\ ScoreIn(v, j) \in Nat /\ ScoreIn(v, k) \in Nat
        /\ ScoreIn(v, j) >= ScoreIn(v, k)
        /\ Ranks(v, k) # {} => ScoreIn(v, j) > ScoreIn(v, k)
    BY <1>13, LeaderScoresMore
  <2>5. /\ ScoreIn(f, j) \in Nat /\ ScoreIn(f, k) \in Nat
        /\ ScoreIn(f, j) >= ScoreIn(f, k)
        /\ Ranks(f, k) # {} => ScoreIn(f, j) > ScoreIn(f, k)
    BY <1>13, LeaderScoresMore
  <2>6. FusedScore(j, v, f) > FusedScore(k, v, f)
    BY <2>3, <2>4, <2>5 DEF FusedScore
  <2>7. PICK h \in 1..n : h < i /\ Key[merged[h]] = j
    BY <1>5, <2>2, <2>6
  <2>8. g[h] = j
    BY <1>9, <2>7
  <2>9. j \in M
    BY <1>10, <2>8
  <2>10. h = PlaceOf(merged, j) /\ i = PlaceOf(merged, k)
    BY <1>12, <2>1, <2>8
  <2>. QED
    BY <2>7, <2>9, <2>10
<1>14. RespectsBoth(merged, K, M, v, f, limit)
  BY <1>3, <1>4, <1>11, <1>13 DEF RespectsBoth
<1>. QED
  BY <1>2, <1>4, <1>7, <1>8, <1>14

LeadsBoth(lists, j, k) ==
    \A l \in 1..2 :
        \/ Ranks(lists[l], k) = {}
        \/ /\ Cardinality(Ranks(lists[l], k)) = 1 /\ Ranks(lists[l], j) # {}
           /\ Min(Ranks(lists[l], j)) < Min(Ranks(lists[l], k))

BothRespected(merged, lists, topK) ==
    /\ Len(merged) = Lesser2(Cardinality({Key[r] : r \in ToSet(lists[1] \o lists[2])}),
                             ComputeCandidates(topK))
    /\ Cardinality({Key[r] : r \in ToSet(merged)}) = Len(merged)
    /\ \A j \in {Key[r] : r \in ToSet(lists[1] \o lists[2])},
          k \in {Key[r] : r \in ToSet(merged)} :
          j # k /\ LeadsBoth(lists, j, k) =>
            /\ j \in {Key[r] : r \in ToSet(merged)}
            /\ PlaceOf(merged, j) < PlaceOf(merged, k)

LEMMA LeadersRespected ==
    ASSUME NEW merged, NEW v, NEW f, NEW topK,
           RespectsBoth(merged, KeysOf(v, f), {Key[r] : r \in ToSet(merged)},
                        v, f, ComputeCandidates(topK))
    PROVE  BothRespected(merged, <<v, f>>, topK)
<1>1. PICK lists : lists = <<v, f>>
  OBVIOUS
<1>2. lists[1] = v /\ lists[2] = f
  BY <1>1
<1>3. PICK K, M : K = KeysOf(v, f) /\ M = {Key[r] : r \in ToSet(merged)}
  OBVIOUS
<1>4. RespectsBoth(merged, K, M, v, f, ComputeCandidates(topK))
  BY <1>3
<1>5. \A j, k : LeadsBoth(lists, j, k) => LeadsIn(v, j, k) /\ LeadsIn(f, j, k)
  <2>1. 1 \in 1..2 /\ 2 \in 1..2
    OBVIOUS
  <2>. QED
    BY <1>2, <2>1 DEF LeadsBoth, LeadsIn
<1>6. \A j \in K, k \in M : j # k /\ LeadsBoth(lists, j, k) =>
         j \in M /\ PlaceOf(merged, j) < PlaceOf(merged, k)
  BY <1>4, <1>5 DEF RespectsBoth
<1>7. K = {Key[r] : r \in ToSet(lists[1] \o lists[2])}
  BY <1>2, <1>3 DEF KeysOf
<1>8. /\ Len(merged) = Lesser2(Cardinality(K), ComputeCandidates(topK))
      /\ Cardinality(M) = Len(merged)
  BY <1>4 DEF RespectsBoth
<1>9. BothRespected(merged, lists, topK)
  BY <1>3, <1>6, <1>7, <1>8, Zenon DEF BothRespected
<1>. QED
  BY <1>1, <1>9

(***************************************************************************)
(* The groups of search_duplicates                                         *)
(*                                                                         *)
(* After i passes the notes seen are those of the groups and some of the   *)
(* first i, the groups are disjoint, each is of one note and later ones    *)
(* similar to it, and of a similar pair whose first is among the first i   *)
(* notes one is in a group.                                                *)
(***************************************************************************)

GroupingStates == [seen : SUBSET Peers, groups : SUBSET (SUBSET Peers)]

SeenIsGrouped(seen, groups, i) ==
    /\ \A g \in groups : g \subseteq seen
    /\ \A x \in seen : x <= i \/ \E g \in groups : x \in g

AreGroups(groups, similar) ==
    /\ \A g, h \in groups : g # h => g \cap h = {}
    /\ \A g \in groups : \E m \in g :
          \A j \in g : j = m \/ (m < j /\ {m, j} \in similar)

PairsGrouped(groups, i, similar) ==
    \A a, b \in Peers : a <= i /\ a < b /\ {a, b} \in similar =>
       \E g \in groups : a \in g \/ b \in g

GroupingInv(d, i, similar) ==
    /\ SeenIsGrouped(d.seen, d.groups, i)
    /\ AreGroups(d.groups, similar)
    /\ PairsGrouped(d.groups, i, similar)

LEMMA GroupFromTypes ==
    ASSUME NEW d \in GroupingStates, NEW i \in Peers, NEW similar
    PROVE  GroupFrom(d, i, similar) \in GroupingStates
<1>1. PICK G : G = GroupOf(d.seen, i, similar)
  OBVIOUS
<1>2. G \in SUBSET Peers
  BY <1>1 DEF GroupOf
<1>3. d.seen \in SUBSET Peers /\ d.groups \in SUBSET (SUBSET Peers)
  BY DEF GroupingStates
<1>4. PICK H : H = IF G = {} THEN {} ELSE {{i} \cup G}
  OBVIOUS
<1>5. d.groups \cup H \in SUBSET (SUBSET Peers)
  BY <1>2, <1>3, <1>4
<1>6. d.seen \cup {i} \cup G \in SUBSET Peers
  BY <1>2, <1>3
<1>7. [seen |-> d.seen \cup {i} \cup G, groups |-> d.groups \cup H]
        \in GroupingStates
  BY <1>5, <1>6 DEF GroupingStates
<1>. QED
  BY <1>1, <1>4, <1>7 DEF GroupFrom

LEMMA GroupFromKeeps ==
    ASSUME NEW n \in Nat, Peers = 1..n, NEW i \in 1..n, NEW similar,
           NEW d \in GroupingStates, GroupingInv(d, i - 1, similar)
    PROVE  GroupingInv(GroupFrom(d, i, similar), i, similar)
<1>1. PICK G : G = {j \in Peers : j > i /\ j \notin d.seen /\ {i, j} \in similar}
  OBVIOUS
<1>2. PICK S, Q : S = d.seen /\ Q = d.groups
  OBVIOUS
<1>0. S \in SUBSET Peers
  BY <1>2 DEF GroupingStates
<1>3. /\ SeenIsGrouped(S, Q, i - 1) /\ AreGroups(Q, similar)
      /\ PairsGrouped(Q, i - 1, similar)
  BY <1>2 DEF GroupingInv
<1>4. PICK H, e : /\ H = IF G = {} THEN {} ELSE {{i} \cup G}
                  /\ e = [seen |-> S \cup {i} \cup G, groups |-> Q \cup H]
  OBVIOUS
<1>5. /\ i \in S => GroupFrom(d, i, similar) = d
      /\ i \notin S => GroupFrom(d, i, similar) = e
  <2>1. G = GroupOf(d.seen, i, similar)
    BY <1>1 DEF GroupOf
  <2>. QED
    BY <1>2, <1>4, <2>1 DEF GroupFrom
<1>6. CASE i \in S
  <2>1. ASSUME NEW a \in Peers, NEW b \in Peers,
               a <= i, a < b, {a, b} \in similar
        PROVE  \E g \in Q : a \in g \/ b \in g
    <3>1. CASE a <= i - 1
      BY <1>3, <2>1, <3>1 DEF PairsGrouped
    <3>2. CASE ~(a <= i - 1)
      <4>1. a = i
        BY <2>1, <3>2
      <4>2. \E g \in Q : i \in g
        BY <1>3, <1>6 DEF SeenIsGrouped
      <4>. QED
        BY <4>1, <4>2
    <3>. QED
      BY <3>1, <3>2
  <2>2. SeenIsGrouped(S, Q, i)
    <3>1. \A x \in S : x <= i \/ \E g \in Q : x \in g
      BY <1>0, <1>3 DEF SeenIsGrouped
    <3>. QED
      BY <1>3, <3>1 DEF SeenIsGrouped
  <2>3. PairsGrouped(Q, i, similar)
    BY <2>1 DEF PairsGrouped
  <2>4. GroupingInv(d, i, similar)
    BY <1>2, <1>3, <2>2, <2>3 DEF GroupingInv
  <2>. QED
    BY <1>5, <1>6, <2>4
<1>7. CASE i \notin S
  <2>1. PICK N : N = {i} \cup G
    OBVIOUS
  <2>2. e.seen = S \cup N /\ e.groups = Q \cup H
    BY <1>4, <2>1
  <2>3. \A h \in H : h = N
    BY <1>4, <2>1
  <2>4. N \cap S = {} /\ \A j \in G : j \in Peers /\ N \in H
    BY <1>1, <1>2, <1>4, <1>7, <2>1
  <2>5. \A g \in e.groups : g \in Q \/ g = N
    BY <2>2, <2>3
  <2>6. \A g \in e.groups : g \subseteq e.seen
    BY <1>3, <2>2, <2>5 DEF SeenIsGrouped
  <2>7. \A x \in e.seen : x <= i \/ \E g \in e.groups : x \in g
    <3> TAKE x \in e.seen
    <3>1. CASE x \in S
      <4>1. CASE x <= i - 1
        BY <1>0, <3>1, <4>1
      <4>2. CASE ~(x <= i - 1)
        BY <1>3, <2>2, <3>1, <4>2 DEF SeenIsGrouped
      <4>. QED
        BY <4>1, <4>2
    <3>2. CASE x = i
      BY <3>2
    <3>3. CASE x \in G
      BY <2>1, <2>2, <2>4, <3>3
    <3>. QED
      BY <2>1, <2>2, <3>1, <3>2, <3>3
  <2>8. \A g, h \in e.groups : g # h => g \cap h = {}
    <3>1. \A g \in Q : g \cap N = {}
      BY <1>3, <2>4 DEF SeenIsGrouped
    <3>. QED
      BY <1>3, <2>5, <3>1 DEF AreGroups
  <2>9. \A g \in e.groups : \E m \in g :
          \A j \in g : j = m \/ (m < j /\ {m, j} \in similar)
    <3>1. i \in N /\ \A j \in N : j = i \/ (i < j /\ {i, j} \in similar)
      BY <1>1, <2>1
    <3> TAKE g \in e.groups
    <3>2. CASE g \in Q
      BY <1>3, <3>2 DEF AreGroups
    <3>3. CASE g = N
      BY <3>1, <3>3
    <3>. QED
      BY <2>5, <3>2, <3>3
  <2>10. ASSUME NEW a \in Peers, NEW b \in Peers,
                a <= i, a < b, {a, b} \in similar
         PROVE  \E g \in e.groups : a \in g \/ b \in g
    <3>1. CASE a <= i - 1
      BY <1>3, <2>2, <2>10, <3>1 DEF PairsGrouped
    <3>2. CASE ~(a <= i - 1)
      <4>1. a = i /\ b > i
        BY <2>10, <3>2
      <4>2. CASE b \in S
        <5>1. ~(b <= i - 1)
          BY <4>1
        <5>2. PICK g \in Q : b \in g
          BY <1>3, <4>2, <5>1 DEF SeenIsGrouped
        <5>. QED
          BY <2>2, <5>2
      <4>3. CASE b \notin S
        <5>1. b \in G
          BY <1>1, <1>2, <2>10, <4>1, <4>3
        <5>2. N \in e.groups /\ b \in N
          BY <2>1, <2>2, <2>4, <5>1
        <5>. QED
          BY <5>2
      <4>. QED
        BY <4>2, <4>3
    <3>. QED
      BY <3>1, <3>2
  <2>11. GroupingInv(e, i, similar)
    <3>1. SeenIsGrouped(e.seen, e.groups, i)
      BY <2>6, <2>7, Zenon DEF SeenIsGrouped
    <3>2. AreGroups(e.groups, similar)
      BY <2>8, <2>9, Zenon DEF AreGroups
    <3>3. PairsGrouped(e.groups, i, similar)
      BY <2>10 DEF PairsGrouped
    <3>. QED
      BY <3>1, <3>2, <3>3 DEF GroupingInv
  <2>. QED
    BY <1>5, <1>7, <2>11
<1>. QED
  BY <1>6, <1>7

LEMMA GroupsFound ==
    ASSUME NEW similar \in SUBSET Pairs, NEW n \in Nat, n = Cardinality(Peers)
    PROVE  /\ DuplicatesUpTo(similar)[n] \in GroupingStates
           /\ GroupingInv(DuplicatesUpTo(similar)[n], n, similar)
<1>1. Peers = 1..n
  BY RankingAssumption
<1>2. PICK start : start = [seen |-> {}, groups |-> {}]
  OBVIOUS
<1>3. start \in GroupingStates
  BY <1>2 DEF GroupingStates
<1>4. PICK step : step = [p \in (1..n) \X GroupingStates |->
                            GroupFrom(p[2], p[1], similar)]
  OBVIOUS
<1>5. \A i \in 1..n, d \in GroupingStates :
         step[<<i, d>>] = GroupFrom(d, i, similar)
  BY <1>4
<1>6. \A i \in 1..n, d \in GroupingStates : step[<<i, d>>] \in GroupingStates
  <2> TAKE i \in 1..n, d \in GroupingStates
  <2>1. i \in Peers
    BY <1>1
  <2>2. GroupFrom(d, i, similar) \in GroupingStates
    BY <2>1, GroupFromTypes
  <2>. QED
    BY <1>5, <2>2
<1>7. PICK h : IsLoop(h, n, GroupingStates, start, step)
  BY <1>3, <1>6, LoopRuns
<1>8. /\ h \in [0..n -> GroupingStates] /\ h[0] = start
      /\ \A i \in 1..n : h[i] = step[<<i, h[i - 1]>>]
  BY <1>7 DEF IsLoop
<1>9. \A i \in 1..n : /\ i - 1 \in 0..n /\ h[i - 1] \in GroupingStates
                      /\ h[i] = GroupFrom(h[i - 1], i, similar)
  <2> TAKE i \in 1..n
  <2>1. i - 1 \in 0..n
    OBVIOUS
  <2>2. h[i - 1] \in GroupingStates
    BY <1>8, <2>1
  <2>. QED
    BY <1>5, <1>8, <2>1, <2>2
<1>10. \A i \in 0..n : h[i] = IF i = 0 THEN start
                              ELSE GroupFrom(h[i - 1], i, similar)
  <2> TAKE i \in 0..n
  <2>1. CASE i = 0
    BY <1>8, <2>1
  <2>2. CASE i # 0
    <3>1. i \in 1..n
      BY <2>2
    <3>. QED
      BY <1>9, <2>2, <3>1
  <2>. QED
    BY <2>1, <2>2
<1>11. h = [i \in 0..n |-> IF i = 0 THEN start
                           ELSE GroupFrom(h[i - 1], i, similar)]
  BY <1>8, <1>10
<1>12. PICK f : /\ f = CHOOSE g : g = [i \in 0..n |-> IF i = 0 THEN start
                                        ELSE GroupFrom(g[i - 1], i, similar)]
                /\ f = [i \in 0..n |-> IF i = 0 THEN start
                                        ELSE GroupFrom(f[i - 1], i, similar)]
  BY <1>11
<1>13. DuplicatesUpTo(similar) = f
  BY <1>2, <1>12 DEF DuplicatesUpTo
<1>14. PICK P : P = {i \in 0..n : f[i] \in GroupingStates /\ GroupingInv(f[i], i, similar)}
  OBVIOUS
<1>15. 0 \in P
  <2>1. 0 \in 0..n
    OBVIOUS
  <2>2. f[0] = start
    BY <1>12, <2>1
  <2>3. GroupingInv(start, 0, similar)
    BY <1>1, <1>2 DEF GroupingInv, SeenIsGrouped, AreGroups, PairsGrouped
  <2>. QED
    BY <1>3, <1>14, <2>1, <2>2, <2>3
<1>16. ASSUME NEW i \in 0..n, i \in P /\ i < n PROVE i + 1 \in P
  <2>1. i + 1 \in 0..n /\ i + 1 \in 1..n /\ (i + 1) - 1 = i /\ i + 1 # 0
    BY <1>16
  <2>2. f[i + 1] = GroupFrom(f[(i + 1) - 1], i + 1, similar)
    BY <1>12, <2>1
  <2>3. PICK d, j : d = f[i] /\ j = i + 1
    OBVIOUS
  <2>4. j \in 1..n /\ j - 1 = i /\ d \in GroupingStates /\ GroupingInv(d, j - 1, similar)
    BY <1>14, <1>16, <2>1, <2>3
  <2>5. GroupFrom(d, j, similar) \in GroupingStates
    BY <1>1, <2>4, GroupFromTypes
  <2>6. GroupingInv(GroupFrom(d, j, similar), j, similar)
    BY <1>1, <2>4, GroupFromKeeps
  <2>. QED
    BY <1>14, <2>1, <2>2, <2>3, <2>5, <2>6
<1>17. n \in 0..n
  OBVIOUS
<1>18. n \in P
  BY <1>15, <1>16, <1>17, IntervalInduction
<1>. QED
  BY <1>13, <1>14, <1>18

(***************************************************************************)
(* The answers                                                             *)
(***************************************************************************)

LEMMA SearchAnswer ==
    ASSUME NEW topK \in TopKs, NEW from \in Seq(Rows), OnceEach(from),
           NEW relevance \in Relevances,
           answered' = [tool |-> "search", topK |-> topK, from |-> from,
                        relevance |-> relevance,
                        rows |-> Rerank(from, topK, relevance)]
    PROVE  RankingCorrect'
<1>1. PICK out : out = Rerank(from, topK, relevance)
  OBVIOUS
<1>2. topK \in Nat
  BY RankingConstants
<1>3. FillsTopK(out, from, topK, relevance)
  BY <1>1, <1>2, RerankFills
<1>4. /\ answered'.tool = "search" /\ answered'.topK = topK
      /\ answered'.from = from /\ answered'.relevance = relevance
      /\ answered'.rows = out
  BY <1>1
<1>5. ResultsFillTopK'
  <2>1. FillsTopK(answered'.rows, answered'.from, answered'.topK, answered'.relevance)
    BY <1>3, <1>4
  <2>. QED
    BY <2>1, Zenon DEF FillsTopK, ResultsFillTopK
<1>6. /\ answered'.tool # "hybrid" /\ answered'.tool # "similar"
      /\ answered'.tool # "duplicates"
  BY <1>4
<1>. QED
  BY <1>5, <1>6 DEF RankingCorrect, FusionRespectsBoth, SimilarAreNearest,
                    DuplicatesReportedOnce

LEMMA SemanticCorrect ==
    ASSUME NEW topK \in TopKs, NEW rows, SemanticSearch(topK, rows)
    PROVE  RankingCorrect'
<1>1. PICK nearest \in Rankings, relevance \in Relevances :
         answered' =
           [tool |-> "search", topK |-> topK,
            from |-> Take(At(nearest, {i \in 1..Len(nearest) : nearest[i] \in rows}),
                          ComputeCandidates(topK)),
            relevance |-> relevance,
            rows |-> Rerank(Take(At(nearest, {i \in 1..Len(nearest) : nearest[i] \in rows}),
                                 ComputeCandidates(topK)), topK, relevance)]
  BY DEF SemanticSearch
<1>2. PICK I : I = {i \in 1..Len(nearest) : nearest[i] \in rows}
  OBVIOUS
<1>3. nearest \in Seq(Rows) /\ OnceEach(nearest) /\ I \in SUBSET (1..Len(nearest))
  BY <1>2, IndexAnswers DEF IsRanking
<1>4. PICK s : s = At(nearest, I)
  OBVIOUS
<1>5. s \in Seq(Rows) /\ OnceEach(s)
  BY <1>3, <1>4, AtKeepsOnce
<1>6. ComputeCandidates(topK) \in Nat
  BY RankingConstants, CandidatesNumber
<1>7. PICK from : from = Take(s, ComputeCandidates(topK))
  OBVIOUS
<1>8. from \in Seq(Rows) /\ OnceEach(from)
  BY <1>5, <1>6, <1>7, TakeKeepsOnce
<1>9. answered' = [tool |-> "search", topK |-> topK, from |-> from,
                   relevance |-> relevance,
                   rows |-> Rerank(from, topK, relevance)]
  BY <1>1, <1>2, <1>4, <1>7
<1>. QED
  BY <1>8, <1>9, SearchAnswer

LEMMA AdvancedCorrect ==
    ASSUME NEW topK \in TopKs, NEW excluded, AdvancedSearch(topK, excluded)
    PROVE  RankingCorrect'
<1>1. PICK limit : limit = IF excluded = {} THEN ComputeCandidates(topK)
                           ELSE Lesser2(ComputeCandidates(topK) * 2, CandidatesMax)
  OBVIOUS
<1>2. PICK nearest, relevance, read, from :
         /\ nearest \in Rankings /\ relevance \in Relevances
         /\ read = Take(nearest, limit)
         /\ from = At(read, {i \in 1..Len(read) : Key[read[i]] \notin excluded})
         /\ answered' = [tool |-> "search", topK |-> topK, from |-> from,
                         relevance |-> relevance,
                         rows |-> Rerank(from, topK, relevance)]
  BY <1>1 DEF AdvancedSearch
<1>. nearest \in Rankings /\ relevance \in Relevances
  BY <1>2
<1>3. limit \in Nat
  <2>1. ComputeCandidates(topK) \in Nat
    BY RankingConstants, CandidatesNumber
  <2>. QED
    BY <1>1, <2>1, RankingConstants DEF Lesser2
<1>4. nearest \in Seq(Rows) /\ OnceEach(nearest)
  BY IndexAnswers DEF IsRanking
<1>5. read \in Seq(Rows) /\ OnceEach(read)
  BY <1>2, <1>3, <1>4, TakeKeepsOnce
<1>6. PICK I : I = {i \in 1..Len(read) : Key[read[i]] \notin excluded}
  OBVIOUS
<1>7. I \in SUBSET (1..Len(read)) /\ from = At(read, I)
  BY <1>2, <1>6
<1>8. from \in Seq(Rows) /\ OnceEach(from)
  BY <1>5, <1>7, AtKeepsOnce
<1>. QED
  BY <1>2, <1>8, SearchAnswer

LEMMA HybridCorrect ==
    ASSUME NEW topK \in TopKs, HybridSearch(topK)
    PROVE  RankingCorrect'
<1>1. PICK limit : limit = ComputeCandidates(topK)
  OBVIOUS
<1>2. PICK nearest, matching, relevance, v, f, merged :
         /\ nearest \in Rankings /\ matching \in Matches /\ relevance \in Relevances
         /\ v = Take(nearest, limit) /\ f = Take(matching, limit)
         /\ merged = Fuse(v, f, limit)
         /\ answered' = [tool |-> "hybrid", topK |-> topK, from |-> merged,
                         lists |-> <<v, f>>, relevance |-> relevance,
                         rows |-> Rerank(merged, topK, relevance)]
  BY <1>1 DEF HybridSearch
<1>. nearest \in Rankings /\ matching \in Matches /\ relevance \in Relevances
  BY <1>2
<1>3. limit \in Nat
  BY <1>1, RankingConstants, CandidatesNumber
<1>4. IsRanking(nearest) /\ IsRanking(matching)
  BY IndexAnswers
<1>5. IsRanking(v) /\ IsRanking(f)
  BY <1>2, <1>3, <1>4, RankingTaken
<1>6. PICK K, M : K = KeysOf(v, f) /\ M = {Key[r] : r \in ToSet(merged)}
  OBVIOUS
<1>7. /\ merged \in Seq(Rows) /\ OnceEach(merged)
      /\ RespectsBoth(merged, K, M, v, f, limit)
  <2>1. merged = Fuse(v, f, limit)
    BY <1>2
  <2>. QED
    BY <1>3, <1>5, <1>6, <2>1, FusedRespectsBoth
<1>8. PICK out : out = Rerank(merged, topK, relevance)
  OBVIOUS
<1>9. topK \in Nat
  BY RankingConstants
<1>10. FillsTopK(out, merged, topK, relevance)
  BY <1>7, <1>8, <1>9, RerankFills
<1>11. /\ answered'.tool = "hybrid" /\ answered'.topK = topK
       /\ answered'.from = merged /\ answered'.relevance = relevance
       /\ answered'.rows = out /\ answered'.lists = <<v, f>>
  BY <1>2, <1>8
<1>12. ResultsFillTopK'
  <2>1. FillsTopK(answered'.rows, answered'.from, answered'.topK, answered'.relevance)
    BY <1>10, <1>11
  <2>. QED
    BY <2>1, Zenon DEF FillsTopK, ResultsFillTopK
<1>13. FusionRespectsBoth'
  <2>1. BothRespected(merged, <<v, f>>, topK)
    BY <1>1, <1>6, <1>7, LeadersRespected
  <2>2. BothRespected(answered'.from, answered'.lists, answered'.topK)
    BY <1>11, <2>1
  <2>. QED
    BY <2>2, Zenon DEF BothRespected, LeadsBoth, PlaceOf, FusionRespectsBoth
<1>14. /\ answered'.tool # "similar" /\ answered'.tool # "duplicates"
  BY <1>11
<1>. QED
  BY <1>12, <1>13, <1>14 DEF RankingCorrect, SimilarAreNearest,
                             DuplicatesReportedOnce

LEMMA SimilarCorrect ==
    ASSUME NEW topK \in TopKs, NEW reference, SimilarNotes(topK, reference)
    PROVE  RankingCorrect'
<1>1. PICK nearest, raw, listed :
         /\ nearest \in Rankings
         /\ raw = Take(nearest, ComputeCandidates(topK * 3))
         /\ listed = Take(GroupByNote(raw, reference), topK)
         /\ answered' = [tool |-> "similar", topK |-> topK, from |-> raw,
                         reference |-> reference, notes |-> listed]
  BY DEF SimilarNotes
<1>. nearest \in Rankings
  BY <1>1
<1>2. topK \in Nat /\ topK * 3 \in Nat
  BY RankingConstants
<1>3. ComputeCandidates(topK * 3) \in Nat
  BY <1>2, CandidatesNumber
<1>4. IsRanking(nearest)
  BY IndexAnswers
<1>5. IsRanking(raw)
  BY <1>1, <1>3, <1>4, RankingTaken
<1>6. PICK notes : notes = {Note[r] : r \in ToSet(raw)} \ {reference}
  OBVIOUS
<1>7. AreNearest(listed, raw, notes, topK)
  <2>1. raw \in Seq(Rows)
    BY <1>5 DEF IsRanking
  <2>. QED
    BY <1>1, <1>2, <1>6, <2>1, GroupedAreNearest
<1>8. /\ listed \in Seq(notes) /\ OnceEach(listed)
      /\ \A n \in notes \ ToSet(listed) :
            /\ Len(listed) = topK
            /\ \A m \in ToSet(listed) : Nearest(raw, m) < Nearest(raw, n)
  BY <1>7 DEF AreNearest
<1>9. ToSet(listed) \subseteq notes /\ Cardinality(ToSet(listed)) = Len(listed)
  <2>1. DOMAIN listed = 1..Len(listed) /\ \A i \in 1..Len(listed) : listed[i] \in notes
    BY <1>8, LenProperties, ElementOfSeq
  <2>2. ToSet(listed) \subseteq notes
    BY <2>1 DEF ToSet
  <2>. QED
    BY <1>8, <2>2, OnceCounted
<1>10. /\ answered'.tool = "similar" /\ answered'.topK = topK
       /\ answered'.from = raw /\ answered'.reference = reference
       /\ answered'.notes = listed
  BY <1>1
<1>11. SimilarAreNearest'
  BY <1>6, <1>8, <1>9, <1>10, Zenon DEF SimilarAreNearest
<1>12. /\ answered'.tool # "search" /\ answered'.tool # "hybrid"
       /\ answered'.tool # "duplicates"
  BY <1>10
<1>. QED
  BY <1>11, <1>12 DEF RankingCorrect, ResultsFillTopK, FusionRespectsBoth,
                      DuplicatesReportedOnce

LEMMA DuplicatesCorrect ==
    ASSUME SearchDuplicates PROVE RankingCorrect'
<1>1. PICK similar \in SUBSET Pairs :
         answered' = [tool |-> "duplicates", similar |-> similar,
                      groups |-> DuplicatesUpTo(similar)[Cardinality(Peers)].groups]
  BY DEF SearchDuplicates
<1>2. PICK n \in Nat : n = Cardinality(Peers)
  BY RankingAssumption, FS_CardinalityType
<1>3. PICK d : d = DuplicatesUpTo(similar)[n]
  OBVIOUS
<1>4. d \in GroupingStates /\ GroupingInv(d, n, similar)
  BY <1>2, <1>3, GroupsFound
<1>5. PICK Q : Q = d.groups
  OBVIOUS
<1>6. Peers = 1..n /\ Q \in SUBSET (SUBSET Peers)
  BY <1>2, <1>4, <1>5, RankingAssumption DEF GroupingStates
<1>7. \A g, h \in Q : g # h => g \cap h = {}
  BY <1>4, <1>5 DEF GroupingInv, SeenIsGrouped, AreGroups, PairsGrouped
<1>8. ASSUME NEW g \in Q, NEW j \in g \ {Min(g)} PROVE {Min(g), j} \in similar
  <2>1. PICK m \in g : \A i \in g : i = m \/ (m < i /\ {m, i} \in similar)
    BY <1>4, <1>5 DEF GroupingInv, SeenIsGrouped, AreGroups, PairsGrouped
  <2>2. g \in SUBSET Nat /\ g # {}
    BY <1>6, <2>1
  <2>3. Min(g) \in g /\ \A y \in g : Min(g) <= y
    BY <2>2, LeastIsLeast
  <2>4. Min(g) = m
    <3>1. Min(g) \in Nat /\ m \in Nat /\ Min(g) <= m
      BY <2>2, <2>3
    <3>2. Min(g) = m \/ m < Min(g)
      BY <2>1, <2>3
    <3>. QED
      BY <3>1, <3>2
  <2>. QED
    BY <1>8, <2>1, <2>4
<1>9. ASSUME NEW p \in similar PROVE \E g \in Q : g \cap p # {}
  <2>1. PICK a \in Peers, b \in Peers : p = {a, b} /\ a < b
    BY DEF Pairs
  <2>2. a <= n
    BY <1>6
  <2>3. \E g \in Q : a \in g \/ b \in g
    BY <1>4, <1>5, <2>1, <2>2 DEF GroupingInv, SeenIsGrouped, AreGroups, PairsGrouped
  <2>. QED
    BY <2>1, <2>3
<1>10. answered'.tool = "duplicates" /\ answered'.similar = similar /\ answered'.groups = Q
  BY <1>1, <1>2, <1>3, <1>5
<1>11. DuplicatesReportedOnce'
  BY <1>7, <1>8, <1>9, <1>10, Zenon DEF DuplicatesReportedOnce
<1>12. /\ answered'.tool # "search" /\ answered'.tool # "hybrid"
       /\ answered'.tool # "similar"
  BY <1>10
<1>. QED
  BY <1>11, <1>12 DEF RankingCorrect, ResultsFillTopK, FusionRespectsBoth,
                      SimilarAreNearest

LEMMA NoAnswerIsCorrect == answered = NoAnswer => RankingCorrect
  BY DEF NoAnswer, RankingCorrect, ResultsFillTopK, FusionRespectsBoth,
         SimilarAreNearest, DuplicatesReportedOnce

LEMMA RankingNextCorrect ==
    ASSUME RankingCorrect, [RankingNext]_answered PROVE RankingCorrect'
<1>1. CASE UNCHANGED answered
  <2>1. ResultsFillTopK' <=> ResultsFillTopK
    <3>1. ResultsFillTopK <=>
            (answered.tool \in {"search", "hybrid"} =>
               FillsTopK(answered.rows, answered.from, answered.topK,
                         answered.relevance))
      BY Zenon DEF FillsTopK, ResultsFillTopK
    <3>2. ResultsFillTopK' <=>
            (answered'.tool \in {"search", "hybrid"} =>
               FillsTopK(answered'.rows, answered'.from, answered'.topK,
                         answered'.relevance))
      BY Zenon DEF FillsTopK, ResultsFillTopK
    <3>. QED
      BY <1>1, <3>1, <3>2
  <2>2. FusionRespectsBoth' <=> FusionRespectsBoth
    <3>1. FusionRespectsBoth <=>
            (answered.tool = "hybrid" =>
               BothRespected(answered.from, answered.lists, answered.topK))
      BY Zenon DEF BothRespected, LeadsBoth, PlaceOf, FusionRespectsBoth
    <3>2. FusionRespectsBoth' <=>
            (answered'.tool = "hybrid" =>
               BothRespected(answered'.from, answered'.lists, answered'.topK))
      BY Zenon DEF BothRespected, LeadsBoth, PlaceOf, FusionRespectsBoth
    <3>. QED
      BY <1>1, <3>1, <3>2
  <2>3. DuplicatesReportedOnce' <=> DuplicatesReportedOnce
    BY <1>1 DEF DuplicatesReportedOnce
  <2>4. SimilarAreNearest' <=> SimilarAreNearest
    BY <1>1 DEF SimilarAreNearest
  <2>. QED
    BY <2>1, <2>2, <2>3, <2>4 DEF RankingCorrect
<1>2. CASE RankingNext
  BY <1>2, SemanticCorrect, SimilarCorrect, HybridCorrect, AdvancedCorrect,
     DuplicatesCorrect DEF RankingNext
<1>. QED
  BY <1>1, <1>2

\* The searches of core/searcher.py return what they promise: no window,
\* pool or cap on the way cuts off a result of the answer, the fusion keeps
\* an order both rankings agree on, find_similar_notes leaves out no nearer
\* note, and search_duplicates reports every similar pair, no note twice.
THEOREM RankingIsCorrect == RankingSpec => []RankingCorrect
<1>1. RankingInit => RankingCorrect
  BY NoAnswerIsCorrect DEF RankingInit
<1>2. RankingCorrect /\ [RankingNext]_answered => RankingCorrect'
  BY RankingNextCorrect
<1>. QED
  BY <1>1, <1>2, PTL DEF RankingSpec

(***************************************************************************)
(* The catalog and tag queries                                             *)
(*                                                                         *)
(* As with the searches, the invariant is the property, shown of each      *)
(* tool's answer; the tree of folders needs an invariant of its loop.      *)
(***************************************************************************)

LEMMA QueryConstants ==
    /\ QueryNotes \subseteq Nat /\ IsFiniteSet(QueryNotes) /\ Times \subseteq Nat
    /\ Depths \subseteq Nat \ {0} /\ QueryLimits \subseteq Nat \ {0}
    /\ TagLists \subseteq Seq(Tags)
    /\ \A t \in Tags : Lower[Lower[t]] = Lower[t] /\ t \in Like[t]
    /\ Cardinality(QueryNotes) \in Nat
<1>1. IsFiniteSet(QueryNotes)
  BY QueryAssumption
<1>2. Cardinality(QueryNotes) \in Nat
  BY <1>1, FS_CardinalityType
<1>. QED
  BY <1>1, <1>2, QueryAssumption

(***************************************************************************)
(* get_recent_notes                                                        *)
(***************************************************************************)

LEMMA FirstPlaces ==
    ASSUME NEW T, NEW s \in Seq(T), NEW m \in 0..Len(s)
    PROVE  /\ At(s, 1..m) \in Seq(T) /\ Len(At(s, 1..m)) = m
           /\ \A k \in 1..m : At(s, 1..m)[k] = s[k]
<1>1. PICK n \in Nat : n = Len(s)
  BY LenProperties
<1>2. m \in Nat /\ m <= n
  BY <1>1
<1>3. IsFiniteSet(1..m) /\ Cardinality(1..m) = m
  BY <1>2, FS_Interval
<1>4. PICK R : R = {p \in (1..m) \X (1..m) : p[1] < p[2]}
  OBVIOUS
<1>5. IsStrictOrder(R, 1..m)
  BY <1>2, <1>4 DEF IsStrictOrder
<1>6. PICK order : order = Ascending(1..m)
  OBVIOUS
<1>7. order = Sorted(1..m, R)
  BY <1>4, <1>6 DEF Ascending
<1>8. ASSUME NEW k \in 1..m PROVE order[k] = k
  <2>1. Before(R, 1..m, k) = 1..(k - 1)
    BY <1>2, <1>4 DEF Before
  <2>2. k - 1 \in Nat /\ (k - 1) + 1 = k
    BY <1>2
  <2>3. Cardinality(1..(k - 1)) = k - 1
    BY <2>2, FS_Interval
  <2>4. k = Cardinality(Before(R, 1..m, k)) + 1
    BY <2>1, <2>2, <2>3
  <2>5. Sorted(1..m, R)[k] = k
    BY <1>3, <1>5, <2>4, SortedPlace
  <2>. QED
    BY <1>7, <2>5
<1>9. PICK t : t = [k \in 1..m |-> s[order[k]]]
  OBVIOUS
<1>10. t = At(s, 1..m)
  BY <1>3, <1>6, <1>9 DEF At
<1>11. \A k \in 1..m : t[k] = s[k] /\ t[k] \in T
  <2>1. \A k \in 1..m : k \in 1..n /\ s[k] \in T
    BY <1>1, <1>2, ElementOfSeq
  <2>. QED
    BY <1>8, <1>9, <2>1
<1>12. t \in Seq(T) /\ Len(t) = m
  <2>1. t \in [1..m -> T]
    BY <1>9, <1>11
  <2>. QED
    BY <1>2, <2>1, LenProperties
<1>. QED
  BY <1>10, <1>11, <1>12

LEMMA DownwardClosed ==
    ASSUME NEW c \in Nat, NEW I \in SUBSET (1..c),
           \A i \in I, j \in 1..c : j < i => j \in I
    PROVE  \E m \in 0..c : I = 1..m
<1>1. CASE I = {}
  <2>1. 0 \in 0..c /\ I = 1..0
    BY <1>1
  <2>. QED
    BY <2>1
<1>2. CASE I # {}
  <2>1. I \in SUBSET (0..c)
    OBVIOUS
  <2>2. PICK m \in I : \A k \in I : k <= m
    BY <1>2, <2>1, GreatestNumber
  <2>3. m \in 0..c /\ m \in 1..c
    BY <2>2
  <2>4. \A j \in 1..m : j \in 1..c /\ j \in I
    BY <2>2, <2>3
  <2>5. \A j \in I : j \in 1..m
    BY <2>2, <2>3
  <2>. QED
    BY <2>3, <2>4, <2>5
<1>. QED
  BY <1>1, <1>2

\* What the property says of the notes, the newest of the window.
AreNewest(notes, window, limit, mtime) ==
    /\ ToSet(notes) \subseteq window
    /\ Len(notes) = Min({limit, Cardinality(window)})
    /\ \A i, j \in DOMAIN notes : i < j => mtime[notes[i]] >= mtime[notes[j]]
    /\ \A n \in window \ ToSet(notes), m \in ToSet(notes) : mtime[m] >= mtime[n]

LEMMA SmallerOfTwo ==
    ASSUME NEW a \in Nat, NEW b \in Nat
    PROVE  Min({a, b}) = IF a < b THEN a ELSE b
<1>1. PICK S : S = {a, b}
  OBVIOUS
<1>2. S \in SUBSET Nat /\ S # {}
  BY <1>1
<1>3. Min(S) \in S /\ \A y \in S : Min(S) <= y
  BY <1>2, LeastIsLeast
<1>4. /\ Min(S) = a \/ Min(S) = b
      /\ Min(S) <= a /\ Min(S) <= b
  BY <1>1, <1>3
<1>5. Min(S) = IF a < b THEN a ELSE b
  BY <1>4
<1>. QED
  BY <1>1, <1>5

LEMMA PageHasNewest ==
    ASSUME NEW rows \in SUBSET QueryNotes, NEW mtime \in [QueryNotes -> Times],
           NEW cutoff \in Times, NEW limit \in Nat,
           NEW listed \in ByTime(rows, mtime), NEW page, NEW within,
           page = Take(listed, 2 * limit),
           within = {i \in 1..Len(page) : mtime[page[i]] >= cutoff}
    PROVE  AreNewest(Take(At(page, within), limit),
                     {n \in rows : mtime[n] >= cutoff}, limit, mtime)
<1>1. IsFiniteSet(rows)
  BY QueryConstants, FS_Subset
<1>2. PICK n \in Nat : n = Cardinality(rows)
  BY <1>1, FS_CardinalityType
<1>3. /\ listed \in [1..n -> rows]
      /\ \A i, j \in 1..n : i # j => listed[i] # listed[j]
      /\ \A i, j \in 1..n : i < j => mtime[listed[i]] >= mtime[listed[j]]
  BY <1>2 DEF ByTime, SetToSeqs
<1>4. listed \in Seq(rows) /\ Len(listed) = n
  BY <1>3, LenProperties
<1>5. \A i \in 1..n : listed[i] \in rows /\ mtime[listed[i]] \in Nat
  BY <1>3, QueryConstants
<1>6. \A x \in rows : \E i \in 1..n : listed[i] = x
  <2>1. IsFiniteSet(1..n) /\ Cardinality(1..n) = n
    BY FS_Interval
  <2>2. listed \in Injection(1..n, rows)
    BY <1>3 DEF Injection, IsInjective
  <2>3. listed \in Surjection(1..n, rows)
    BY <1>1, <1>2, <2>1, <2>2, FS_Injection
  <2>. QED
    BY <2>3 DEF Surjection
<1>7. PICK c : IsCut(page, listed, 2 * limit, c)
  BY <1>4, TakeCuts
<1>8. page \in Seq(rows)
  BY <1>4, TakeCuts
<1>9. /\ c \in Nat /\ c <= n /\ Len(page) = c
      /\ c = (IF 2 * limit < n THEN 2 * limit ELSE n)
      /\ \A i \in 1..c : page[i] = listed[i] /\ i \in 1..n
  BY <1>4, <1>7 DEF IsCut
<1>10. PICK W : W = {i \in 1..n : mtime[listed[i]] >= cutoff}
  OBVIOUS
<1>11. PICK w \in 0..n : W = 1..w
  <2>1. W \in SUBSET (1..n)
    BY <1>10
  <2>2. ASSUME NEW i \in W, NEW j \in 1..n, j < i PROVE j \in W
    <3>1. mtime[listed[j]] >= mtime[listed[i]] /\ mtime[listed[i]] >= cutoff
      BY <1>3, <1>10, <2>2
    <3>2. mtime[listed[j]] \in Nat /\ mtime[listed[i]] \in Nat /\ cutoff \in Nat
      BY <1>5, <1>10, QueryConstants
    <3>3. mtime[listed[j]] >= cutoff
      BY <3>1, <3>2
    <3>. QED
      BY <1>10, <3>3
  <2>. QED
    BY <2>1, <2>2, DownwardClosed
<1>12. PICK m \in Nat : m = IF w < c THEN w ELSE c
  BY <1>9
<1>13. within = 1..m
  <2>1. \A i \in 1..c : i \in within <=> i \in W
    BY <1>9, <1>10
  <2>2. within \subseteq 1..c
    BY <1>9
  <2>3. \A i \in 1..c : i \in W <=> i <= w
    BY <1>9, <1>11
  <2>4. \A i \in 1..c : i \in 1..m <=> i <= w
    BY <1>9, <1>11, <1>12
  <2>5. 1..m \subseteq 1..c
    BY <1>9, <1>11, <1>12
  <2>. QED
    BY <2>1, <2>2, <2>3, <2>4, <2>5
<1>14. PICK kept : kept = At(page, within)
  OBVIOUS
<1>15. m \in 0..Len(page)
  BY <1>9, <1>11, <1>12
<1>16. kept \in Seq(rows) /\ Len(kept) = m /\ \A i \in 1..m : kept[i] = page[i]
  <2>1. PICK k : k = At(page, 1..m)
    OBVIOUS
  <2>2. k \in Seq(rows) /\ Len(k) = m /\ \A i \in 1..m : k[i] = page[i]
    BY <1>8, <1>15, <2>1, FirstPlaces
  <2>. QED
    BY <1>13, <1>14, <2>1, <2>2
<1>17. PICK notes : notes = Take(kept, limit)
  OBVIOUS
<1>18. notes \in Seq(rows)
  BY <1>16, <1>17, TakeCuts
<1>19. PICK l : IsCut(notes, kept, limit, l)
  BY <1>16, <1>17, TakeCuts
<1>20. l \in Nat /\ l = (IF limit < m THEN limit ELSE m) /\ Len(notes) = l
  BY <1>16, <1>19 DEF IsCut
<1>21. l = (IF limit < w THEN limit ELSE w) /\ l <= w /\ l <= m /\ l <= n /\ m <= c
  BY <1>9, <1>11, <1>12, <1>20
<1>22. \A i \in 1..l : i \in 1..n /\ i \in 1..w /\ notes[i] = listed[i]
  <2> TAKE i \in 1..l
  <2>1. i \in 1..m /\ i \in 1..c /\ i \in 1..n /\ i \in 1..w
    BY <1>9, <1>11, <1>20, <1>21
  <2>2. notes[i] = kept[i] /\ kept[i] = page[i] /\ page[i] = listed[i]
    BY <1>9, <1>16, <1>19, <1>20, <2>1 DEF IsCut
  <2>. QED
    BY <2>1, <2>2
<1>23. PICK V : V = {x \in rows : mtime[x] >= cutoff}
  OBVIOUS
<1>24. \A x : x \in V <=> \E i \in 1..w : listed[i] = x
  <2>1. \A i \in 1..n : listed[i] \in V <=> i \in 1..w
    BY <1>5, <1>10, <1>11, <1>23
  <2>2. \A i \in 1..w : i \in 1..n
    BY <1>11
  <2>. QED
    BY <1>6, <1>23, <2>1, <2>2
<1>25. Cardinality(V) = w
  <2>1. PICK g : g = [i \in 1..w |-> listed[i]]
    OBVIOUS
  <2>2. g \in [1..w -> V] /\ \A x \in V : \E i \in 1..w : g[i] = x
    BY <1>24, <2>1
  <2>3. \A i, j \in 1..w : g[i] = g[j] => i = j
    <3>1. \A i \in 1..w : i \in 1..n
      BY <1>11
    <3>. QED
      BY <1>3, <2>1, <3>1
  <2>4. g \in Bijection(1..w, V)
    BY <2>2, <2>3 DEF Bijection, Injection, IsInjective, Surjection
  <2>5. ExistsBijection(1..w, V)
    BY <2>4 DEF ExistsBijection
  <2>6. IsFiniteSet(1..w) /\ Cardinality(1..w) = w
    <3>1. w \in Nat
      BY <1>11
    <3>. QED
      BY <3>1, FS_Interval
  <2>. QED
    BY <2>5, <2>6, FS_Bijection
<1>26. DOMAIN notes = 1..l
  BY <1>18, <1>20, LenProperties
<1>27. \A x : x \in ToSet(notes) <=> \E i \in 1..l : listed[i] = x
  BY <1>22, <1>26 DEF ToSet
<1>28. ToSet(notes) \subseteq V
  BY <1>22, <1>24, <1>27
<1>29. Len(notes) = Min({limit, Cardinality(V)})
  <2>1. w \in Nat
    BY <1>11
  <2>2. Min({limit, w}) = IF limit < w THEN limit ELSE w
    BY <2>1, SmallerOfTwo
  <2>. QED
    BY <1>20, <1>21, <1>25, <2>2
<1>30. \A i, j \in DOMAIN notes : i < j => mtime[notes[i]] >= mtime[notes[j]]
  BY <1>3, <1>22, <1>26
<1>31. ASSUME NEW x \in V \ ToSet(notes), NEW y \in ToSet(notes)
       PROVE  mtime[y] >= mtime[x]
  <2>1. PICK i \in 1..w : listed[i] = x
    BY <1>24
  <2>2. PICK j \in 1..l : listed[j] = y
    BY <1>27
  <2>3. ~(i \in 1..l)
    BY <1>27, <1>31, <2>1
  <2>4. i \in 1..n /\ j \in 1..n /\ j < i
    BY <1>11, <1>20, <1>22, <2>3
  <2>. QED
    BY <1>3, <2>1, <2>2, <2>4
<1>32. AreNewest(notes, V, limit, mtime)
  BY <1>28, <1>29, <1>30, <1>31 DEF AreNewest
<1>. QED
  BY <1>14, <1>17, <1>23, <1>32

(***************************************************************************)
(* folder_tree                                                             *)
(***************************************************************************)

FolderParts == UNION {ToSet(f) : f \in Folders}

LEMMA FoldersAreSequences == Folders \subseteq Seq(FolderParts)
  BY QueryAssumption DEF FolderParts

LEMMA SameSequence ==
    ASSUME NEW A, NEW s \in Seq(A), NEW t \in Seq(A), Len(s) = Len(t),
           \A i \in 1..Len(s) : s[i] = t[i]
    PROVE  s = t
<1>1. PICK n \in Nat : n = Len(s)
  BY LenProperties
<1>2. s \in [1..n -> A] /\ t \in [1..n -> A]
  BY <1>1, LenProperties
<1>. QED
  BY <1>1, <1>2

\* s is the beginning of t.
Begins(s, t) == Len(s) <= Len(t) /\ \A i \in 1..Len(s) : s[i] = t[i]

LEMMA PrefixBegins ==
    ASSUME NEW A, NEW s \in Seq(A), NEW t \in Seq(A)
    PROVE  IsPrefix(s, t) <=> Begins(s, t)
<1>1. PICK n \in Nat, m \in Nat : n = Len(s) /\ m = Len(t)
  BY LenProperties
<1>2. PICK u, v : u = SubSeq(s, 1, n) /\ v = SubSeq(t, 1, n)
  OBVIOUS
<1>3. n - 1 + 1 = n /\ n \in Int /\ \A i \in 1..n : 1 + i - 1 = i
  OBVIOUS
<1>4. \A i \in 1..n : s[i] \in A
  BY <1>1, ElementOfSeq
<1>5. /\ u \in Seq(A) /\ Len(u) = (IF 1 <= n THEN n - 1 + 1 ELSE 0)
      /\ \A i \in 1..(n - 1 + 1) : u[i] = s[1 + i - 1]
  BY <1>1, <1>2, <1>4, SubSeqProperties
<1>6. u \in Seq(A) /\ Len(u) = n /\ \A i \in 1..n : u[i] = s[i]
  BY <1>3, <1>5
<1>7. ASSUME n <= m
      PROVE  v \in Seq(A) /\ Len(v) = n /\ \A i \in 1..n : v[i] = t[i]
  <2>1. \A i \in 1..n : t[i] \in A
    BY <1>1, <1>7, ElementOfSeq
  <2>2. /\ v \in Seq(A) /\ Len(v) = (IF 1 <= n THEN n - 1 + 1 ELSE 0)
        /\ \A i \in 1..(n - 1 + 1) : v[i] = t[1 + i - 1]
    BY <1>1, <1>2, <2>1, SubSeqProperties
  <2>. QED
    BY <1>3, <2>2
<1>8. IsPrefix(s, t) <=> n <= m /\ u = v
  BY <1>1, <1>2 DEF IsPrefix
<1>9. Begins(s, t) <=> n <= m /\ \A i \in 1..n : s[i] = t[i]
  BY <1>1 DEF Begins
<1>10. CASE n <= m
  <2>1. u = v <=> \A i \in 1..n : u[i] = v[i]
    BY <1>6, <1>7, <1>10, SameSequence
  <2>. QED
    BY <1>6, <1>7, <1>8, <1>9, <1>10, <2>1
<1>11. CASE ~(n <= m)
  BY <1>8, <1>9, <1>11
<1>. QED
  BY <1>10, <1>11

\* A path leads through the beginnings of a folder.
LEMMA PathIsBeginnings ==
    ASSUME NEW A, NEW f \in Seq(A)
    PROVE  \A p : p \in PathTo(f) <=> p \in Seq(A) /\ Len(p) \in 1..Len(f) /\ Begins(p, f)
<1>1. PICK n \in Nat : n = Len(f)
  BY LenProperties
<1>2. ASSUME NEW k \in 1..n
      PROVE  /\ SubSeq(f, 1, k) \in Seq(A) /\ Len(SubSeq(f, 1, k)) = k
             /\ \A i \in 1..k : SubSeq(f, 1, k)[i] = f[i]
  <2>1. k - 1 + 1 = k /\ 1 <= k /\ k \in Int /\ \A i \in 1..k : 1 + i - 1 = i
    OBVIOUS
  <2>2. \A i \in 1..k : f[i] \in A
    BY <1>1, ElementOfSeq
  <2>3. PICK t : t = SubSeq(f, 1, k)
    OBVIOUS
  <2>4. /\ t \in Seq(A) /\ Len(t) = (IF 1 <= k THEN k - 1 + 1 ELSE 0)
        /\ \A i \in 1..(k - 1 + 1) : t[i] = f[1 + i - 1]
    BY <2>1, <2>2, <2>3, SubSeqProperties
  <2>. QED
    BY <2>1, <2>3, <2>4
<1>3. ASSUME NEW p, p \in PathTo(f)
      PROVE  p \in Seq(A) /\ Len(p) \in 1..n /\ Begins(p, f)
  <2>1. PICK k \in 1..n : p = SubSeq(f, 1, k)
    BY <1>1, <1>3 DEF PathTo
  <2>2. p \in Seq(A) /\ Len(p) = k /\ \A i \in 1..k : p[i] = f[i]
    BY <1>2, <2>1
  <2>3. k <= n
    BY <2>1
  <2>. QED
    BY <1>1, <2>2, <2>3 DEF Begins
<1>4. ASSUME NEW p, p \in Seq(A), Len(p) \in 1..n, Begins(p, f)
      PROVE  p \in PathTo(f)
  <2>1. PICK k \in 1..n : k = Len(p)
    BY <1>4
  <2>2. PICK t : t = SubSeq(f, 1, k)
    OBVIOUS
  <2>3. t \in Seq(A) /\ Len(t) = k /\ \A i \in 1..k : t[i] = f[i]
    BY <1>2, <2>2
  <2>4. \A i \in 1..k : p[i] = f[i]
    BY <1>4, <2>1 DEF Begins
  <2>5. p = t
    BY <1>4, <2>1, <2>3, <2>4, SameSequence
  <2>. QED
    BY <1>1, <2>2, <2>5 DEF PathTo
<1>. QED
  BY <1>1, <1>3, <1>4

\* What cutting a folder to a depth leaves.
CutFolder(c, f, depth) ==
    /\ c \in Seq(FolderParts) /\ Len(c) <= depth
    /\ \A p \in Seq(FolderParts) : Len(p) <= depth => (Begins(p, c) <=> Begins(p, f))
    /\ \A p : p \in PathTo(c) <=> p \in PathTo(f) /\ Len(p) <= depth
    /\ c # <<>> => c \in PathTo(c)
    /\ <<>> \notin PathTo(c)

LEMMA FolderIsCut ==
    ASSUME NEW f \in Folders, NEW depth \in Nat \ {0}
    PROVE  CutFolder(Take(f, depth), f, depth)
<1>1. PICK A : A = FolderParts
  OBVIOUS
<1>2. f \in Seq(A)
  BY <1>1, FoldersAreSequences
<1>3. PICK c : c = Take(f, depth)
  OBVIOUS
<1>4. PICK n \in Nat : n = Len(f)
  BY <1>2, LenProperties
<1>5. c \in Seq(A) /\ \E m : IsCut(c, f, depth, m)
  BY <1>2, <1>3, TakeCuts
<1>6. PICK m : IsCut(c, f, depth, m)
  BY <1>5
<1>7. /\ m \in Nat /\ m = (IF depth < n THEN depth ELSE n) /\ Len(c) = m
      /\ \A i \in 1..m : c[i] = f[i]
  BY <1>4, <1>6 DEF IsCut
<1>8. m <= depth /\ m <= n
  BY <1>7
<1>9. ASSUME NEW p \in Seq(A), Len(p) <= depth PROVE Begins(p, c) <=> Begins(p, f)
  <2>1. PICK k \in Nat : k = Len(p)
    BY LenProperties
  <2>2. k <= m <=> k <= n
    BY <1>7, <1>9, <2>1
  <2>3. k <= m => \A i \in 1..k : c[i] = f[i]
    BY <1>7, <2>1
  <2>4. Begins(p, c) <=> k <= m /\ \A i \in 1..k : p[i] = c[i]
    BY <1>7, <2>1 DEF Begins
  <2>5. Begins(p, f) <=> k <= n /\ \A i \in 1..k : p[i] = f[i]
    BY <1>4, <2>1 DEF Begins
  <2>. QED
    BY <2>2, <2>3, <2>4, <2>5
<1>10. /\ \A p : p \in PathTo(c) <=> p \in Seq(A) /\ Len(p) \in 1..Len(c) /\ Begins(p, c)
       /\ \A p : p \in PathTo(f) <=> p \in Seq(A) /\ Len(p) \in 1..Len(f) /\ Begins(p, f)
  BY <1>2, <1>5, PathIsBeginnings
<1>11. ASSUME NEW p \in Seq(A)
       PROVE  Len(p) \in 1..m <=> Len(p) \in 1..n /\ Len(p) <= depth
  <2>1. PICK k \in Nat : k = Len(p)
    BY LenProperties
  <2>2. k \in 1..m <=> k \in 1..n /\ k <= depth
    BY <1>7
  <2>. QED
    BY <2>1, <2>2
<1>12. \A p : p \in PathTo(c) <=> p \in PathTo(f) /\ Len(p) <= depth
  <2> TAKE p
  <2>1. CASE p \in Seq(A)
    BY <1>4, <1>7, <1>8, <1>9, <1>10, <1>11, <2>1
  <2>2. CASE p \notin Seq(A)
    BY <1>10, <2>2
  <2>. QED
    BY <2>1, <2>2
<1>13. c # <<>> => c \in PathTo(c)
  <2> SUFFICES ASSUME c # <<>> PROVE c \in PathTo(c)
    OBVIOUS
  <2>1. m # 0
    BY <1>5, <1>7, EmptySeq
  <2>2. Len(c) \in 1..Len(c)
    BY <1>7, <2>1
  <2>3. Begins(c, c)
    BY <1>7 DEF Begins
  <2>. QED
    BY <1>5, <1>10, <2>2, <2>3
<1>14. <<>> \notin PathTo(c)
  <2>1. Len(<<>>) = 0 /\ ~(0 \in 1..m)
    OBVIOUS
  <2>. QED
    BY <1>7, <1>10, <2>1
<1>. QED
  BY <1>1, <1>3, <1>5, <1>7, <1>8, <1>9, <1>12, <1>13, <1>14 DEF CutFolder

(***************************************************************************)
(* The loop of folder_tree                                                 *)
(*                                                                         *)
(* After i rows the tree has the folders on the way to them, cut to the    *)
(* depth, and a node counts the notes of these rows that are cut to it.    *)
(***************************************************************************)

NodesOf(f, depth) == PathTo(Take(f, depth)) \cup {Take(f, depth)}

CutTo(folder, rows, i, depth, p) ==
    {n \in QueryNotes : /\ Take(folder[n], depth) = p
                        /\ \E j \in 1..i : folder[n] = rows[j]}

TreeInv(tree, folder, rows, i, depth) ==
    /\ \A p : p \in DOMAIN tree <=> \E j \in 1..i : p \in NodesOf(rows[j], depth)
    /\ \A p \in DOMAIN tree :
          tree[p] = Cardinality(CutTo(folder, rows, i, depth, p))

\* The folders of the notes, how many notes each has, and their rows.
IsListing(folder, F, count, rows) ==
    /\ folder \in [QueryNotes -> F] /\ F \in SUBSET Folders
    /\ count \in [F -> Nat]
    /\ \A f \in F : count[f] = Cardinality({n \in QueryNotes : folder[n] = f})
    /\ rows \in Seq(F) /\ OnceEach(rows)
    /\ \A f \in F : \E j \in 1..Len(rows) : rows[j] = f

LEMMA ListingOfFolders ==
    ASSUME NEW folder \in [QueryNotes -> Folders], NEW F, NEW count, NEW rows,
           F = {folder[n] : n \in QueryNotes},
           count = [f \in F |-> Cardinality({n \in QueryNotes : folder[n] = f})],
           rows \in SetToSeqs(F)
    PROVE  IsListing(folder, F, count, rows)
<1>1. folder \in [QueryNotes -> F] /\ F \in SUBSET Folders
  OBVIOUS
<1>2. IsFiniteSet(F)
  <2>1. folder \in Surjection(QueryNotes, F)
    BY <1>1 DEF Surjection
  <2>. QED
    BY <2>1, QueryConstants, FS_Surjection
<1>3. PICK N \in Nat : N = Cardinality(F)
  BY <1>2, FS_CardinalityType
<1>4. rows \in [1..N -> F] /\ \A i, j \in 1..N : i # j => rows[i] # rows[j]
  BY <1>3 DEF SetToSeqs
<1>5. rows \in Seq(F) /\ Len(rows) = N
  BY <1>4, LenProperties
<1>6. rows \in Surjection(1..N, F)
  <2>1. IsFiniteSet(1..N) /\ Cardinality(1..N) = N
    BY FS_Interval
  <2>2. rows \in Injection(1..N, F)
    BY <1>4 DEF Injection, IsInjective
  <2>. QED
    BY <1>2, <1>3, <2>1, <2>2, FS_Injection
<1>7. \A f \in F : \E j \in 1..Len(rows) : rows[j] = f
  BY <1>5, <1>6 DEF Surjection
<1>8. OnceEach(rows)
  BY <1>4, <1>5 DEF OnceEach
<1>9. ASSUME NEW f \in F
      PROVE  /\ count[f] = Cardinality({n \in QueryNotes : folder[n] = f})
             /\ count[f] \in Nat
  <2>1. PICK S : S = {n \in QueryNotes : folder[n] = f}
    OBVIOUS
  <2>2. S \subseteq QueryNotes
    BY <2>1
  <2>3. IsFiniteSet(S)
    BY <2>2, QueryConstants, FS_Subset
  <2>4. Cardinality(S) \in Nat
    BY <2>3, FS_CardinalityType
  <2>5. count[f] = Cardinality(S)
    BY <2>1
  <2>. QED
    BY <2>1, <2>4, <2>5
<1>10. count \in [F -> Nat]
  BY <1>9
<1>. QED
  BY <1>1, <1>5, <1>7, <1>8, <1>9, <1>10 DEF IsListing

LEMMA InsertKeepsTree ==
    ASSUME NEW folder, NEW F, NEW count, NEW rows,
           IsListing(folder, F, count, rows), NEW depth \in Nat \ {0},
           NEW i \in 0..Len(rows), i < Len(rows),
           NEW tree, TreeInv(tree, folder, rows, i, depth)
    PROVE  TreeInv(InsertPath(tree, rows[i + 1], count[rows[i + 1]], depth),
                   folder, rows, i + 1, depth)
<1>1. /\ folder \in [QueryNotes -> F] /\ count \in [F -> Nat]
      /\ \A f \in F : count[f] = Cardinality({n \in QueryNotes : folder[n] = f})
      /\ rows \in Seq(F) /\ OnceEach(rows)
  BY DEF IsListing
<1>2. PICK N \in Nat : N = Len(rows)
  BY <1>1, LenProperties
<1>3. i \in Nat /\ i + 1 \in 1..N /\ \A j \in 1..i : j \in 1..N /\ j # i + 1
  BY <1>2
<1>4. PICK f : f = rows[i + 1]
  OBVIOUS
<1>5. f \in F
  BY <1>1, <1>2, <1>3, <1>4, ElementOfSeq
<1>6. PICK last, c : last = Take(f, depth) /\ c = count[f]
  OBVIOUS
<1>7. PICK t : t = InsertPath(tree, f, c, depth)
  OBVIOUS
<1>8. t = [p \in DOMAIN tree \cup PathTo(last) \cup {last} |->
             (IF p \in DOMAIN tree THEN tree[p] ELSE 0)
               + (IF p = last THEN c ELSE 0)]
  BY <1>6, <1>7 DEF InsertPath
<1>9. NodesOf(f, depth) = PathTo(last) \cup {last}
  BY <1>6 DEF NodesOf
<1>10. \A p : p \in DOMAIN tree <=> \E j \in 1..i : p \in NodesOf(rows[j], depth)
  BY DEF TreeInv
<1>11. \A j : j \in 1..(i + 1) <=> j \in 1..i \/ j = i + 1
  BY <1>3
<1>12. \A p : p \in DOMAIN t <=> \E j \in 1..(i + 1) : p \in NodesOf(rows[j], depth)
  <2>1. \A p : p \in DOMAIN t <=> p \in DOMAIN tree \/ p \in NodesOf(f, depth)
    BY <1>8, <1>9
  <2>. QED
    BY <1>4, <1>10, <1>11, <2>1
<1>13. ASSUME NEW p \in DOMAIN t
       PROVE  t[p] = Cardinality(CutTo(folder, rows, i + 1, depth, p))
  <2>1. PICK Old : Old = CutTo(folder, rows, i, depth, p)
    OBVIOUS
  <2>2. PICK New : New = {n \in QueryNotes : folder[n] = f}
    OBVIOUS
  <2>3. IsFiniteSet(Old) /\ IsFiniteSet(New)
    <3>1. Old \subseteq QueryNotes /\ New \subseteq QueryNotes
      BY <2>1, <2>2 DEF CutTo
    <3>. QED
      BY <3>1, QueryConstants, FS_Subset
  <2>4. Cardinality(Old) \in Nat /\ Cardinality(New) \in Nat /\ Cardinality(New) = c
    BY <1>1, <1>5, <1>6, <2>2, <2>3, FS_CardinalityType
  <2>5. Old \cap New = {}
    <3>1. \A j \in 1..i : rows[j] # f
      BY <1>1, <1>2, <1>3, <1>4 DEF OnceEach
    <3>. QED
      BY <2>1, <2>2, <3>1 DEF CutTo
  <2>6. (IF p \in DOMAIN tree THEN tree[p] ELSE 0) = Cardinality(Old)
    <3>1. CASE p \in DOMAIN tree
      BY <2>1, <3>1 DEF TreeInv
    <3>2. CASE p \notin DOMAIN tree
      <4>1. Old = {}
        <5> SUFFICES ASSUME NEW n \in Old PROVE FALSE
          OBVIOUS
        <5>1. PICK j \in 1..i : folder[n] = rows[j]
          BY <2>1 DEF CutTo
        <5>2. p \in NodesOf(rows[j], depth)
          BY <2>1, <5>1 DEF CutTo, NodesOf
        <5>. QED
          BY <1>10, <3>2, <5>2
      <4>. QED
        BY <3>2, <4>1, FS_EmptySet
    <3>. QED
      BY <3>1, <3>2
  <2>7. CASE p = last
    <3>1. CutTo(folder, rows, i + 1, depth, p) = Old \cup New
      <4>1. ASSUME NEW n \in QueryNotes
            PROVE  n \in CutTo(folder, rows, i + 1, depth, p) <=> n \in Old \cup New
        <5>1. (\E j \in 1..(i + 1) : folder[n] = rows[j])
                <=> (\E j \in 1..i : folder[n] = rows[j]) \/ folder[n] = f
          BY <1>4, <1>11
        <5>2. folder[n] = f => Take(folder[n], depth) = p
          BY <1>6, <2>7
        <5>. QED
          BY <2>1, <2>2, <5>1, <5>2 DEF CutTo
      <4>2. CutTo(folder, rows, i + 1, depth, p) \subseteq QueryNotes
        BY DEF CutTo
      <4>3. Old \cup New \subseteq QueryNotes
        BY <2>1, <2>2 DEF CutTo
      <4>. QED
        BY <4>1, <4>2, <4>3
    <3>2. Cardinality(Old \cup New) = Cardinality(Old) + Cardinality(New)
      <4>1. Cardinality(Old \cup New) =
              Cardinality(Old) + Cardinality(New) - Cardinality(Old \cap New)
        BY <2>3, FS_Union
      <4>2. Cardinality(Old \cap New) = 0
        BY <2>5, FS_EmptySet
      <4>. QED
        BY <2>4, <4>1, <4>2
    <3>3. t[p] = Cardinality(Old) + c
      BY <1>8, <1>13, <2>6, <2>7
    <3>. QED
      BY <2>4, <3>1, <3>2, <3>3
  <2>8. CASE p # last
    <3>1. CutTo(folder, rows, i + 1, depth, p) = Old
      <4>1. ASSUME NEW n \in QueryNotes
            PROVE  n \in CutTo(folder, rows, i + 1, depth, p) <=> n \in Old
        <5>1. (\E j \in 1..(i + 1) : folder[n] = rows[j])
                <=> (\E j \in 1..i : folder[n] = rows[j]) \/ folder[n] = f
          BY <1>4, <1>11
        <5>2. folder[n] = f => Take(folder[n], depth) # p
          BY <1>6, <2>8
        <5>. QED
          BY <2>1, <5>1, <5>2 DEF CutTo
      <4>2. CutTo(folder, rows, i + 1, depth, p) \subseteq QueryNotes
        BY DEF CutTo
      <4>3. Old \subseteq QueryNotes
        BY <2>1 DEF CutTo
      <4>. QED
        BY <4>1, <4>2, <4>3
    <3>2. t[p] = Cardinality(Old) + 0
      BY <1>8, <1>13, <2>6, <2>8
    <3>. QED
      BY <2>4, <3>1, <3>2
  <2>. QED
    BY <2>7, <2>8
<1>14. TreeInv(t, folder, rows, i + 1, depth)
  BY <1>12, <1>13 DEF TreeInv
<1>. QED
  BY <1>4, <1>6, <1>7, <1>14

\* The trees a loop over rows of folders can build.
SomeTrees == UNION {[D -> Nat] : D \in SUBSET Seq(FolderParts)}

LEMMA InsertMakesTree ==
    ASSUME NEW tree \in SomeTrees, NEW f \in Folders, NEW c \in Nat,
           NEW depth \in Nat \ {0}
    PROVE  InsertPath(tree, f, c, depth) \in SomeTrees
<1>1. PICK last : last = Take(f, depth)
  OBVIOUS
<1>2. CutFolder(last, f, depth)
  BY <1>1, FolderIsCut
<1>3. last \in Seq(FolderParts)
  BY <1>2 DEF CutFolder
<1>4. PathTo(last) \subseteq Seq(FolderParts)
  BY <1>3, PathIsBeginnings
<1>5. PICK D \in SUBSET Seq(FolderParts) : tree \in [D -> Nat]
  BY DEF SomeTrees
<1>6. PICK E : E = D \cup PathTo(last) \cup {last}
  OBVIOUS
<1>7. E \in SUBSET Seq(FolderParts)
  BY <1>3, <1>4, <1>6
<1>8. PICK t : t = InsertPath(tree, f, c, depth)
  OBVIOUS
<1>9. t = [p \in E |-> (IF p \in D THEN tree[p] ELSE 0) + (IF p = last THEN c ELSE 0)]
  BY <1>1, <1>5, <1>6, <1>8 DEF InsertPath
<1>10. ASSUME NEW p \in E PROVE t[p] \in Nat
  <2>1. PICK a \in Nat : a = IF p \in D THEN tree[p] ELSE 0
    BY <1>5
  <2>2. PICK b \in Nat : b = IF p = last THEN c ELSE 0
    OBVIOUS
  <2>3. t[p] = a + b
    BY <1>9, <2>1, <2>2
  <2>. QED
    BY <2>3
<1>11. t \in [E -> Nat]
  BY <1>9, <1>10
<1>. QED
  BY <1>7, <1>8, <1>11 DEF SomeTrees

LEMMA TreeIsBuilt ==
    ASSUME NEW folder, NEW F, NEW count, NEW rows,
           IsListing(folder, F, count, rows), NEW depth \in Nat \ {0}
    PROVE  /\ TreeUpTo(rows, count, depth)[Len(rows)] \in SomeTrees
           /\ TreeInv(TreeUpTo(rows, count, depth)[Len(rows)], folder, rows,
                      Len(rows), depth)
<1>1. F \in SUBSET Folders /\ count \in [F -> Nat] /\ rows \in Seq(F)
  BY DEF IsListing
<1>2. PICK n \in Nat : n = Len(rows)
  BY <1>1, LenProperties
<1>3. \A i \in 1..n : rows[i] \in F /\ rows[i] \in Folders /\ count[rows[i]] \in Nat
  BY <1>1, <1>2, ElementOfSeq
<1>4. PICK start : start = [p \in {} |-> 0]
  OBVIOUS
<1>5. start \in SomeTrees
  <2>1. {} \in SUBSET Seq(FolderParts)
    OBVIOUS
  <2>2. start \in [{} -> Nat]
    BY <1>4
  <2>. QED
    BY <2>1, <2>2 DEF SomeTrees
<1>6. PICK step : step = [p \in (1..n) \X SomeTrees |->
                            InsertPath(p[2], rows[p[1]], count[rows[p[1]]], depth)]
  OBVIOUS
<1>7. \A i \in 1..n, t \in SomeTrees :
         step[<<i, t>>] = InsertPath(t, rows[i], count[rows[i]], depth)
  BY <1>6
<1>8. \A i \in 1..n, t \in SomeTrees : step[<<i, t>>] \in SomeTrees
  <2> TAKE i \in 1..n, t \in SomeTrees
  <2>1. InsertPath(t, rows[i], count[rows[i]], depth) \in SomeTrees
    BY <1>3, InsertMakesTree
  <2>. QED
    BY <1>7, <2>1
<1>9. PICK h : IsLoop(h, n, SomeTrees, start, step)
  BY <1>5, <1>8, LoopRuns
<1>10. /\ h \in [0..n -> SomeTrees] /\ h[0] = start
       /\ \A i \in 1..n : h[i] = step[<<i, h[i - 1]>>]
  BY <1>9 DEF IsLoop
<1>11. \A i \in 1..n : h[i] = InsertPath(h[i - 1], rows[i], count[rows[i]], depth)
  <2> TAKE i \in 1..n
  <2>1. i - 1 \in 0..n
    OBVIOUS
  <2>2. h[i - 1] \in SomeTrees
    BY <1>10, <2>1
  <2>. QED
    BY <1>7, <1>10, <2>2
<1>12. \A i \in 0..n : h[i] = IF i = 0 THEN start
           ELSE InsertPath(h[i - 1], rows[i], count[rows[i]], depth)
  <2> TAKE i \in 0..n
  <2>1. CASE i = 0
    BY <1>10, <2>1
  <2>2. CASE i # 0
    <3>1. i \in 1..n
      BY <2>2
    <3>. QED
      BY <1>11, <2>2, <3>1
  <2>. QED
    BY <2>1, <2>2
<1>13. h = [i \in 0..n |-> IF i = 0 THEN start
             ELSE InsertPath(h[i - 1], rows[i], count[rows[i]], depth)]
  BY <1>10, <1>12
<1>14. PICK g : /\ g = CHOOSE e : e = [i \in 0..n |-> IF i = 0 THEN start
                      ELSE InsertPath(e[i - 1], rows[i], count[rows[i]], depth)]
                /\ g = [i \in 0..n |-> IF i = 0 THEN start
                      ELSE InsertPath(g[i - 1], rows[i], count[rows[i]], depth)]
  BY <1>13
<1>15. TreeUpTo(rows, count, depth) = g
  BY <1>2, <1>4, <1>14 DEF TreeUpTo
<1>16. PICK P : P = {i \in 0..n : g[i] \in SomeTrees /\ TreeInv(g[i], folder, rows, i, depth)}
  OBVIOUS
<1>17. 0 \in P
  <2>1. 0 \in 0..n
    OBVIOUS
  <2>2. g[0] = start
    BY <1>14, <2>1
  <2>3. DOMAIN start = {} /\ 1..0 = {}
    BY <1>4
  <2>4. TreeInv(start, folder, rows, 0, depth)
    BY <2>3 DEF TreeInv
  <2>. QED
    BY <1>5, <1>16, <2>1, <2>2, <2>4
<1>18. ASSUME NEW i \in 0..n, i \in P /\ i < n PROVE i + 1 \in P
  <2>1. i + 1 \in 0..n /\ i + 1 \in 1..n /\ (i + 1) - 1 = i /\ i + 1 # 0
    BY <1>18
  <2>2. g[i + 1] = InsertPath(g[(i + 1) - 1], rows[i + 1], count[rows[i + 1]], depth)
    BY <1>14, <2>1
  <2>3. PICK t : t = g[i]
    OBVIOUS
  <2>4. t \in SomeTrees /\ TreeInv(t, folder, rows, i, depth)
    BY <1>16, <1>18, <2>3
  <2>5. i \in 0..Len(rows) /\ i < Len(rows)
    BY <1>2, <1>18
  <2>6. TreeInv(InsertPath(t, rows[i + 1], count[rows[i + 1]], depth),
                folder, rows, i + 1, depth)
    BY <2>4, <2>5, InsertKeepsTree
  <2>7. InsertPath(t, rows[i + 1], count[rows[i + 1]], depth) \in SomeTrees
    BY <1>3, <2>1, <2>4, InsertMakesTree
  <2>. QED
    BY <1>16, <2>1, <2>2, <2>3, <2>6, <2>7
<1>19. n \in 0..n
  OBVIOUS
<1>20. n \in P
  BY <1>17, <1>18, <1>19, IntervalInduction
<1>. QED
  BY <1>2, <1>15, <1>16, <1>20

(***************************************************************************)
(* The tree that is answered                                               *)
(***************************************************************************)

\* What the property says of the tree.
CountsNotes(tree, folder, depth, folders, notes) ==
    /\ DOMAIN tree \ {<<>>} = {p \in UNION {PathTo(folder[n]) : n \in QueryNotes} :
                                 Len(p) <= depth}
    /\ \A p \in DOMAIN tree \cup {<<>>} :
          Total([q \in {q \in DOMAIN tree : IsPrefix(p, q)} |-> tree[q]])
            = Cardinality({n \in QueryNotes : IsPrefix(p, folder[n])})
    /\ notes = Cardinality(QueryNotes)
    /\ folders = Cardinality({p \in UNION {PathTo(folder[n]) : n \in QueryNotes} :
                                Len(p) <= depth})

LEMMA NotesAddUp ==
    ASSUME NEW folder, NEW F, NEW count, NEW rows,
           IsListing(folder, F, count, rows)
    PROVE  Total(count) = Cardinality(QueryNotes)
<1>1. /\ folder \in [QueryNotes -> F] /\ DOMAIN count = F
      /\ \A f \in F : count[f] = Cardinality({n \in QueryNotes : folder[n] = f})
  BY DEF IsListing
<1>2. \A f \in F : count[f] = Cardinality(Fibre(folder, QueryNotes, f))
  BY <1>1 DEF Fibre
<1>3. IsFiniteSet(QueryNotes)
  BY QueryConstants
<1>4. CountsParts(count, F, folder, QueryNotes)
  BY <1>1, <1>2 DEF CountsParts
<1>. QED
  BY <1>3, <1>4, PartsAddUp

\* The nodes of the tree and their counts, when all rows are in.
IsWholeTree(tree, folder, depth) ==
    /\ \A p : p \in DOMAIN tree <=>
                \E n \in QueryNotes : p \in NodesOf(folder[n], depth)
    /\ \A p \in DOMAIN tree :
          tree[p] = Cardinality({n \in QueryNotes : Take(folder[n], depth) = p})

LEMMA TreeIsWhole ==
    ASSUME NEW folder, NEW F, NEW count, NEW rows,
           IsListing(folder, F, count, rows), NEW depth,
           F = {folder[n] : n \in QueryNotes},
           NEW tree, TreeInv(tree, folder, rows, Len(rows), depth)
    PROVE  IsWholeTree(tree, folder, depth)
<1>1. /\ folder \in [QueryNotes -> F] /\ rows \in Seq(F)
      /\ \A f \in F : \E j \in 1..Len(rows) : rows[j] = f
  BY DEF IsListing
<1>2. PICK k \in Nat : k = Len(rows)
  BY <1>1, LenProperties
<1>3. \A n \in QueryNotes : \E j \in 1..k : folder[n] = rows[j]
  BY <1>1, <1>2
<1>4. \A j \in 1..k : \E n \in QueryNotes : folder[n] = rows[j]
  <2>1. \A j \in 1..k : rows[j] \in F
    BY <1>1, <1>2, ElementOfSeq
  <2>. QED
    BY <2>1
<1>5. /\ \A p : p \in DOMAIN tree <=> \E j \in 1..k : p \in NodesOf(rows[j], depth)
      /\ \A p \in DOMAIN tree : tree[p] = Cardinality(CutTo(folder, rows, k, depth, p))
  BY <1>2 DEF TreeInv
<1>6. \A p : CutTo(folder, rows, k, depth, p)
               = {n \in QueryNotes : Take(folder[n], depth) = p}
  BY <1>3 DEF CutTo
<1>7. \A p : (\E j \in 1..k : p \in NodesOf(rows[j], depth))
               <=> \E n \in QueryNotes : p \in NodesOf(folder[n], depth)
  BY <1>3, <1>4
<1>. QED
  BY <1>5, <1>6, <1>7 DEF IsWholeTree

\* The nodes but the root are the folders down to the depth.
AreShown(nodes, folder, depth) ==
    /\ nodes \ {<<>>} = {p \in UNION {PathTo(folder[n]) : n \in QueryNotes} :
                           Len(p) <= depth}
    /\ UNION {PathTo(Take(folder[n], depth)) : n \in QueryNotes}
         = {p \in UNION {PathTo(folder[n]) : n \in QueryNotes} : Len(p) <= depth}

LEMMA FoldersShown ==
    ASSUME NEW folder \in [QueryNotes -> Folders], NEW depth \in Nat \ {0},
           NEW tree, IsWholeTree(tree, folder, depth)
    PROVE  AreShown(DOMAIN tree, folder, depth)
<1>0. PICK S, U :
        /\ S = {p \in UNION {PathTo(folder[n]) : n \in QueryNotes} : Len(p) <= depth}
        /\ U = UNION {PathTo(Take(folder[n], depth)) : n \in QueryNotes}
  OBVIOUS
<1>1. \A n \in QueryNotes :
         /\ \A p : p \in PathTo(Take(folder[n], depth)) <=>
                     p \in PathTo(folder[n]) /\ Len(p) <= depth
         /\ Take(folder[n], depth) # <<>> =>
              Take(folder[n], depth) \in PathTo(Take(folder[n], depth))
         /\ <<>> \notin PathTo(Take(folder[n], depth))
  <2> TAKE n \in QueryNotes
  <2>1. folder[n] \in Folders
    OBVIOUS
  <2>2. CutFolder(Take(folder[n], depth), folder[n], depth)
    BY <2>1, FolderIsCut
  <2>. QED
    BY <2>2 DEF CutFolder
<1>2. \A p : p \in S <=> \E n \in QueryNotes : p \in PathTo(Take(folder[n], depth))
  BY <1>0, <1>1
<1>3. \A p : p \in U <=> \E n \in QueryNotes : p \in PathTo(Take(folder[n], depth))
  BY <1>0
<1>4. \A p : p \in DOMAIN tree <=>
               \E n \in QueryNotes : \/ p \in PathTo(Take(folder[n], depth))
                                     \/ p = Take(folder[n], depth)
  BY DEF IsWholeTree, NodesOf
<1>5. \A p : p \in DOMAIN tree \ {<<>>} <=>
               \E n \in QueryNotes : p \in PathTo(Take(folder[n], depth))
  BY <1>1, <1>4
<1>6. DOMAIN tree \ {<<>>} = S /\ U = S
  BY <1>2, <1>3, <1>5
<1>. QED
  BY <1>0, <1>6 DEF AreShown

\* A folder and everything below it in the tree count the notes there.
LEMMA NodesAddUp ==
    ASSUME NEW folder \in [QueryNotes -> Folders], NEW depth \in Nat \ {0},
           NEW tree, IsWholeTree(tree, folder, depth),
           NEW p \in DOMAIN tree \cup {<<>>}
    PROVE  Total([q \in {q \in DOMAIN tree : IsPrefix(p, q)} |-> tree[q]])
             = Cardinality({n \in QueryNotes : IsPrefix(p, folder[n])})
<1>1. PICK A : A = FolderParts
  OBVIOUS
<1>2. PICK cut : cut = [n \in QueryNotes |-> Take(folder[n], depth)]
  OBVIOUS
<1>3. ASSUME NEW n \in QueryNotes
      PROVE  /\ folder[n] \in Seq(A) /\ cut[n] \in Seq(A) /\ cut[n] \in DOMAIN tree
             /\ Len(cut[n]) <= depth
             /\ \A q \in Seq(A) : Len(q) <= depth =>
                  (IsPrefix(q, cut[n]) <=> IsPrefix(q, folder[n]))
             /\ \A q \in PathTo(cut[n]) : q \in Seq(A) /\ Len(q) <= depth
  <2>1. folder[n] \in Folders
    OBVIOUS
  <2>2. CutFolder(cut[n], folder[n], depth)
    BY <1>2, <2>1, FolderIsCut
  <2>3. folder[n] \in Seq(A) /\ cut[n] \in Seq(A) /\ Len(cut[n]) <= depth
    BY <1>1, <2>1, <2>2, FoldersAreSequences DEF CutFolder
  <2>4. cut[n] \in DOMAIN tree
    BY <1>2 DEF IsWholeTree, NodesOf
  <2>5. ASSUME NEW q \in Seq(A), Len(q) <= depth
        PROVE  IsPrefix(q, cut[n]) <=> IsPrefix(q, folder[n])
    <3>1. Begins(q, cut[n]) <=> Begins(q, folder[n])
      BY <1>1, <2>2, <2>5 DEF CutFolder
    <3>2. IsPrefix(q, cut[n]) <=> Begins(q, cut[n])
      BY <2>3, PrefixBegins
    <3>3. IsPrefix(q, folder[n]) <=> Begins(q, folder[n])
      BY <2>3, PrefixBegins
    <3>. QED
      BY <3>1, <3>2, <3>3
  <2>6. \A q \in PathTo(cut[n]) : q \in Seq(A) /\ Len(q) <= depth
    <3>1. \A q \in PathTo(cut[n]) : Len(q) <= depth
      BY <2>2 DEF CutFolder
    <3>2. \A q \in PathTo(cut[n]) : q \in Seq(A)
      BY <2>3, PathIsBeginnings
    <3>. QED
      BY <3>1, <3>2
  <2>. QED
    BY <2>3, <2>4, <2>5, <2>6
<1>4. p \in Seq(A) /\ Len(p) <= depth
  <2>1. CASE p = <<>>
    BY <2>1
  <2>2. CASE p # <<>>
    <3>1. PICK n \in QueryNotes : p \in PathTo(cut[n]) \/ p = cut[n]
      BY <1>2, <2>2 DEF IsWholeTree, NodesOf
    <3>. QED
      BY <1>3, <3>1
  <2>. QED
    BY <2>1, <2>2
<1>5. PICK T : T = {n \in QueryNotes : IsPrefix(p, folder[n])}
  OBVIOUS
<1>6. PICK S : S = {q \in DOMAIN tree : IsPrefix(p, q)}
  OBVIOUS
<1>7. PICK h : h = [n \in T |-> cut[n]]
  OBVIOUS
<1>8. \A n \in QueryNotes : n \in T <=> IsPrefix(p, cut[n])
  BY <1>3, <1>4, <1>5
<1>9. h \in [T -> S]
  BY <1>3, <1>5, <1>6, <1>7, <1>8
<1>10. PICK g : g = [q \in S |-> tree[q]]
  OBVIOUS
<1>11. DOMAIN g = S
  BY <1>10
<1>12. ASSUME NEW q \in S PROVE g[q] = Cardinality(Fibre(h, T, q))
  <2>1. tree[q] = Cardinality({n \in QueryNotes : Take(folder[n], depth) = q})
    BY <1>6 DEF IsWholeTree
  <2>2. {n \in QueryNotes : Take(folder[n], depth) = q} = {n \in QueryNotes : cut[n] = q}
    BY <1>2
  <2>3. \A n \in QueryNotes : cut[n] = q => n \in T
    BY <1>6, <1>8
  <2>4. {n \in QueryNotes : cut[n] = q} = Fibre(h, T, q)
    BY <1>5, <1>7, <2>3 DEF Fibre
  <2>. QED
    BY <1>10, <2>1, <2>2, <2>4
<1>13. IsFiniteSet(T)
  <2>1. T \subseteq QueryNotes
    BY <1>5
  <2>. QED
    BY <2>1, QueryConstants, FS_Subset
<1>14. Total(g) = Cardinality(T)
  <2>1. CountsParts(g, S, h, T)
    BY <1>9, <1>11, <1>12 DEF CountsParts
  <2>. QED
    BY <1>13, <2>1, PartsAddUp
<1>. QED
  BY <1>5, <1>6, <1>10, <1>14

LEMMA TreeCorrect ==
    ASSUME NEW depth \in Depths, TreeOfFolders(depth) PROVE QueriesCorrect'
<1>1. PICK folder, F, count :
         /\ folder \in [QueryNotes -> Folders]
         /\ F = {folder[n] : n \in QueryNotes}
         /\ count = [f \in F |-> Cardinality({n \in QueryNotes : folder[n] = f})]
         /\ \E rows \in SetToSeqs(F) :
              queried' = [tool |-> "tree", depth |-> depth, folder |-> folder,
                          tree |-> TreeUpTo(rows, count, depth)[Len(rows)],
                          folders |-> Cardinality(UNION {PathTo(Take(f, depth)) : f \in F}),
                          notes |-> Total(count)]
  BY Zenon DEF TreeOfFolders
<1>. folder \in [QueryNotes -> Folders]
  BY <1>1
<1>2. PICK rows \in SetToSeqs(F) :
              queried' = [tool |-> "tree", depth |-> depth, folder |-> folder,
                          tree |-> TreeUpTo(rows, count, depth)[Len(rows)],
                          folders |-> Cardinality(UNION {PathTo(Take(f, depth)) : f \in F}),
                          notes |-> Total(count)]
  BY <1>1
<1>3. IsListing(folder, F, count, rows)
  BY <1>1, <1>2, ListingOfFolders
<1>4. depth \in Nat \ {0}
  BY QueryConstants
<1>5. PICK tree : tree = TreeUpTo(rows, count, depth)[Len(rows)]
  OBVIOUS
<1>6. TreeInv(tree, folder, rows, Len(rows), depth)
  BY <1>3, <1>4, <1>5, TreeIsBuilt
<1>7. IsWholeTree(tree, folder, depth)
  BY <1>1, <1>3, <1>6, TreeIsWhole
<1>8. PICK S : S = {p \in UNION {PathTo(folder[n]) : n \in QueryNotes} : Len(p) <= depth}
  OBVIOUS
<1>9. PICK U : U = UNION {PathTo(Take(folder[n], depth)) : n \in QueryNotes}
  OBVIOUS
<1>10. DOMAIN tree \ {<<>>} = S /\ U = S
  <2>1. AreShown(DOMAIN tree, folder, depth)
    BY <1>4, <1>7, FoldersShown
  <2>. QED
    BY <1>8, <1>9, <2>1 DEF AreShown
<1>11. UNION {PathTo(Take(f, depth)) : f \in F} = U
  <2>1. {PathTo(Take(f, depth)) : f \in F} = {PathTo(Take(folder[n], depth)) : n \in QueryNotes}
    BY <1>1
  <2>. QED
    BY <1>9, <2>1
<1>12. Total(count) = Cardinality(QueryNotes)
  BY <1>3, NotesAddUp
<1>13. \A p \in DOMAIN tree \cup {<<>>} :
          Total([q \in {q \in DOMAIN tree : IsPrefix(p, q)} |-> tree[q]])
            = Cardinality({n \in QueryNotes : IsPrefix(p, folder[n])})
  BY <1>4, <1>7, NodesAddUp
<1>14. CountsNotes(tree, folder, depth, Cardinality(U), Total(count))
  BY <1>8, <1>10, <1>12, <1>13, Zenon DEF CountsNotes
<1>15. /\ queried'.tool = "tree" /\ queried'.tree = tree /\ queried'.folder = folder
       /\ queried'.depth = depth /\ queried'.folders = Cardinality(U)
       /\ queried'.notes = Total(count)
  BY <1>2, <1>5, <1>11
<1>16. TreeCountsNotes'
  <2>1. CountsNotes(queried'.tree, queried'.folder, queried'.depth,
                    queried'.folders, queried'.notes)
    BY <1>14, <1>15
  <2>. QED
    BY <2>1, Zenon DEF CountsNotes, TreeCountsNotes
<1>17. /\ queried'.tool # "recent" /\ queried'.tool # "search"
       /\ queried'.tool # "tags"
  BY <1>15
<1>. QED
  BY <1>16, <1>17 DEF QueriesCorrect, RecentAreNewest, AllTagsAreThere,
                      ListedTagsAreFound

(***************************************************************************)
(* Recent notes and tags                                                   *)
(***************************************************************************)

LEMMA RecentCorrect ==
    ASSUME NEW limit \in QueryLimits, RecentNotes(limit) PROVE QueriesCorrect'
<1>1. PICK mtime \in [QueryNotes -> Times], folder \in [QueryNotes -> Folders],
           filter \in Folders, cutoff \in Times :
         \E listed \in ByTime({n \in QueryNotes : Under(folder[n], filter)}, mtime) :
              queried' = [tool |-> "recent", limit |-> limit, mtime |-> mtime,
                          window |-> {n \in {n \in QueryNotes : Under(folder[n], filter)} :
                                        mtime[n] >= cutoff},
                          notes |-> Take(At(Take(listed, 2 * limit),
                            {i \in 1..Len(Take(listed, 2 * limit)) :
                               mtime[Take(listed, 2 * limit)[i]] >= cutoff}), limit)]
  BY Zenon DEF RecentNotes
<1>0. PICK rows : rows = {n \in QueryNotes : Under(folder[n], filter)}
  OBVIOUS
<1>2. PICK listed \in ByTime(rows, mtime) :
              queried' = [tool |-> "recent", limit |-> limit, mtime |-> mtime,
                          window |-> {n \in rows : mtime[n] >= cutoff},
                          notes |-> Take(At(Take(listed, 2 * limit),
                            {i \in 1..Len(Take(listed, 2 * limit)) :
                               mtime[Take(listed, 2 * limit)[i]] >= cutoff}), limit)]
  BY <1>0, <1>1
<1>3. PICK page : page = Take(listed, 2 * limit)
  OBVIOUS
<1>4. PICK within : within = {i \in 1..Len(page) : mtime[page[i]] >= cutoff}
  OBVIOUS
<1>5. PICK V, notes : V = {n \in rows : mtime[n] >= cutoff} /\ notes = Take(At(page, within), limit)
  OBVIOUS
<1>6. rows \in SUBSET QueryNotes /\ limit \in Nat
  BY <1>0, QueryConstants
<1>7. AreNewest(notes, V, limit, mtime)
  BY <1>2, <1>3, <1>4, <1>5, <1>6, PageHasNewest
<1>8. queried' = [tool |-> "recent", limit |-> limit, mtime |-> mtime,
                  window |-> V, notes |-> notes]
  BY <1>2, <1>3, <1>4, <1>5
<1>9. /\ queried'.tool = "recent" /\ queried'.notes = notes /\ queried'.window = V
      /\ queried'.limit = limit /\ queried'.mtime = mtime
  BY <1>8
<1>10. RecentAreNewest'
  <2>1. AreNewest(queried'.notes, queried'.window, queried'.limit, queried'.mtime)
    BY <1>7, <1>9
  <2>. QED
    BY <2>1, Zenon DEF AreNewest, RecentAreNewest
<1>11. /\ queried'.tool # "tree" /\ queried'.tool # "search"
       /\ queried'.tool # "tags"
  BY <1>9
<1>. QED
  BY <1>10, <1>11 DEF QueriesCorrect, TreeCountsNotes, AllTagsAreThere,
                      ListedTagsAreFound

\* The patterns of a tag match every list it is in.
LEMMA OwnTagMatches ==
    ASSUME NEW list \in Seq(Tags), NEW t \in ToSet(list)
    PROVE  MatchesTag(list, t)
<1>1. PICK n \in Nat : n = Len(list)
  BY LenProperties
<1>2. DOMAIN list = 1..n
  BY <1>1, LenProperties
<1>3. PICK i \in 1..n : list[i] = t
  BY <1>2 DEF ToSet
<1>4. t \in Tags
  BY <1>1, <1>3, ElementOfSeq
<1>5. t \in Like[t]
  BY <1>4, QueryConstants
<1>6. CASE n = 1
  <2>1. i = 1
    BY <1>3, <1>6
  <2>2. list = <<t>>
    BY <1>1, <1>2, <1>3, <1>6, <2>1
  <2>. QED
    BY <2>2 DEF MatchesTag
<1>7. CASE n # 1
  <2>1. n > 1
    BY <1>3, <1>7
  <2>. QED
    BY <1>1, <1>5, <2>1 DEF MatchesTag
<1>. QED
  BY <1>6, <1>7

LEMMA TagsCorrect ==
    ASSUME NEW limit \in QueryLimits, TagStats(limit) PROVE QueriesCorrect'
<1>0. PICK tags \in [QueryNotes -> TagLists], folder \in SUBSET QueryNotes :
         \E ranked \in SetToSeqs(UNION {ToSet(tags[n]) : n \in folder}) :
            queried' = [tool |-> "tags", limit |-> limit, tags |-> tags,
                        folder |-> folder,
                        total |-> Cardinality(UNION {ToSet(tags[n]) : n \in folder}),
                        top |-> [i \in DOMAIN Take(ranked, limit) |->
                          <<ranked[i], Cardinality({n \in folder : ranked[i] \in ToSet(tags[n])})>>]]
  BY DEF TagStats
<1>1. PICK ranked :
            queried' = [tool |-> "tags", limit |-> limit, tags |-> tags,
                        folder |-> folder,
                        total |-> Cardinality(UNION {ToSet(tags[n]) : n \in folder}),
                        top |-> [i \in DOMAIN Take(ranked, limit) |->
                          <<ranked[i], Cardinality({n \in folder : ranked[i] \in ToSet(tags[n])})>>]]
  BY <1>0
<1>2. PICK top : top = [i \in DOMAIN Take(ranked, limit) |->
                          <<ranked[i], Cardinality({n \in folder : ranked[i] \in ToSet(tags[n])})>>]
  OBVIOUS
<1>3. /\ queried'.tool = "tags" /\ queried'.tags = tags /\ queried'.folder = folder
      /\ queried'.top = top
  BY <1>1, <1>2
<1>4. ASSUME NEW i \in DOMAIN top, NEW t, t = top[i][1], NEW found,
             found = {n \in folder : MatchesTag(tags[n], t)}
      PROVE  top[i][2] = Cardinality(found \ {n \in found : t \notin ToSet(tags[n])})
  <2>1. t = ranked[i] /\ top[i][2] = Cardinality({n \in folder : ranked[i] \in ToSet(tags[n])})
    BY <1>2, <1>4
  <2>2. ASSUME NEW n \in folder, t \in ToSet(tags[n]) PROVE n \in found
    <3>1. tags[n] \in Seq(Tags)
      BY QueryConstants
    <3>2. MatchesTag(tags[n], t)
      BY <2>2, <3>1, OwnTagMatches
    <3>. QED
      BY <1>4, <3>2
  <2>3. found \subseteq folder
    BY <1>4
  <2>4. {n \in folder : ranked[i] \in ToSet(tags[n])}
          = found \ {n \in found : t \notin ToSet(tags[n])}
    BY <2>1, <2>2, <2>3
  <2>. QED
    BY <2>1, <2>4
<1>5. ListedTagsAreFound'
  <2>1. \A i \in DOMAIN top :
          top[i][2] = Cardinality({n \in folder : MatchesTag(tags[n], top[i][1])}
                       \ {n \in {n \in folder : MatchesTag(tags[n], top[i][1])} :
                             top[i][1] \notin ToSet(tags[n])})
    BY <1>4, Zenon
  <2>2. \A i \in DOMAIN queried'.top :
          queried'.top[i][2] =
            Cardinality({n \in queried'.folder : MatchesTag(queried'.tags[n], queried'.top[i][1])}
              \ {n \in {n \in queried'.folder :
                          MatchesTag(queried'.tags[n], queried'.top[i][1])} :
                    queried'.top[i][1] \notin ToSet(queried'.tags[n])})
    BY <1>3, <2>1
  <2>. QED
    BY <2>2, Zenon DEF ListedTagsAreFound
<1>6. /\ queried'.tool # "tree" /\ queried'.tool # "search"
      /\ queried'.tool # "recent"
  BY <1>3
<1>. QED
  BY <1>5, <1>6 DEF QueriesCorrect, TreeCountsNotes, AllTagsAreThere,
                    RecentAreNewest

LEMMA SearchCorrect ==
    ASSUME NEW limit \in QueryLimits, NEW requested \in (SUBSET Tags) \ {{}},
           NEW all \in BOOLEAN, SearchByTags(limit, requested, all)
    PROVE  QueriesCorrect'
<1>1. PICK wanted : wanted = {Lower[t] : t \in requested}
  OBVIOUS
<1>0. PICK tags \in [QueryNotes -> TagLists] :
         /\ queried'.tool = "search" /\ queried'.tags = tags
         /\ queried'.wanted = {Lower[t] : t \in requested} /\ queried'.matchAll = all
         /\ queried'.found =
              {n \in {n \in QueryNotes :
                        \E t \in {Lower[t] : t \in requested} : MatchesTag(tags[n], t)} :
                 all => HasAll(tags[n], {Lower[t] : t \in requested})}
  BY DEF SearchByTags
<1>2. PICK kept :
         /\ kept = {n \in {n \in QueryNotes : \E t \in wanted : MatchesTag(tags[n], t)} :
                      all => HasAll(tags[n], wanted)}
         /\ queried'.tool = "search" /\ queried'.tags = tags
         /\ queried'.wanted = wanted /\ queried'.matchAll = all
         /\ queried'.found = kept
  BY <1>0, <1>1
<1>3. wanted # {} /\ \A t \in wanted : Lower[t] = t
  <2>1. requested # {} /\ requested \subseteq Tags
    OBVIOUS
  <2>. QED
    BY <1>1, <2>1, QueryConstants
<1>4. ASSUME all, NEW n \in QueryNotes, NEW stored, stored = ToSet(tags[n])
      PROVE  /\ n \in kept => wanted \subseteq {Lower[t] : t \in stored}
             /\ wanted \subseteq stored => n \in kept
  <2>1. n \in kept => wanted \subseteq {Lower[t] : t \in stored}
    BY <1>2, <1>4 DEF HasAll
  <2>2. ASSUME wanted \subseteq stored PROVE n \in kept
    <3>1. PICK t \in wanted : TRUE
      BY <1>3
    <3>2. tags[n] \in Seq(Tags) /\ t \in ToSet(tags[n])
      BY <1>4, <2>2, QueryConstants
    <3>3. MatchesTag(tags[n], t)
      BY <3>2, OwnTagMatches
    <3>4. HasAll(tags[n], wanted)
      BY <1>3, <1>4, <2>2 DEF HasAll
    <3>. QED
      BY <1>2, <3>3, <3>4
  <2>. QED
    BY <2>1, <2>2
<1>5. AllTagsAreThere'
  BY <1>2, <1>4 DEF AllTagsAreThere
<1>6. /\ queried'.tool # "tree" /\ queried'.tool # "tags"
      /\ queried'.tool # "recent"
  BY <1>2
<1>. QED
  BY <1>5, <1>6 DEF QueriesCorrect, TreeCountsNotes, ListedTagsAreFound,
                    RecentAreNewest

LEMMA QueriesNextCorrect ==
    ASSUME QueriesCorrect, [QueriesNext]_queried PROVE QueriesCorrect'
<1>1. CASE UNCHANGED queried
  <2>1. RecentAreNewest' <=> RecentAreNewest
    <3>1. RecentAreNewest <=> (queried.tool = "recent" =>
            AreNewest(queried.notes, queried.window, queried.limit, queried.mtime))
      BY Zenon DEF AreNewest, RecentAreNewest
    <3>2. RecentAreNewest' <=> (queried'.tool = "recent" =>
            AreNewest(queried'.notes, queried'.window, queried'.limit, queried'.mtime))
      BY Zenon DEF AreNewest, RecentAreNewest
    <3>. QED
      BY <1>1, <3>1, <3>2
  <2>2. TreeCountsNotes' <=> TreeCountsNotes
    <3>1. TreeCountsNotes <=> (queried.tool = "tree" =>
            CountsNotes(queried.tree, queried.folder, queried.depth,
                        queried.folders, queried.notes))
      BY Zenon DEF CountsNotes, TreeCountsNotes
    <3>2. TreeCountsNotes' <=> (queried'.tool = "tree" =>
            CountsNotes(queried'.tree, queried'.folder, queried'.depth,
                        queried'.folders, queried'.notes))
      BY Zenon DEF CountsNotes, TreeCountsNotes
    <3>. QED
      BY <1>1, <3>1, <3>2
  <2>3. AllTagsAreThere' <=> AllTagsAreThere
    BY <1>1 DEF AllTagsAreThere
  <2>4. ListedTagsAreFound' <=> ListedTagsAreFound
    BY <1>1 DEF ListedTagsAreFound
  <2>. QED
    BY <2>1, <2>2, <2>3, <2>4 DEF QueriesCorrect
<1>2. CASE QueriesNext
  BY <1>2, RecentCorrect, TagsCorrect, SearchCorrect, TreeCorrect DEF QueriesNext
<1>. QED
  BY <1>1, <1>2

\* The catalog and tag queries of server/search_tools.py answer what the vault
\* has: get_recent_notes lists the newest notes of its window although it
\* reads one page, the tree of folder_tree counts every note once whatever
\* the depth, match_all finds exactly the notes with all tags, and the counts
\* of tag_stats are those of a search.
THEOREM QueriesAreCorrect == QueriesSpec => []QueriesCorrect
<1>1. QueriesInit => QueriesCorrect
  BY DEF QueriesInit, NoQuery, QueriesCorrect, RecentAreNewest, TreeCountsNotes,
         AllTagsAreThere, ListedTagsAreFound
<1>2. QueriesCorrect /\ [QueriesNext]_queried => QueriesCorrect'
  BY QueriesNextCorrect
<1>. QED
  BY <1>1, <1>2, PTL DEF QueriesSpec

=============================================================================

------------------------------ MODULE ViewsProofs ------------------------------
(***************************************************************************)
(* Theorems about what customers and staff are shown: lists by pages, the  *)
(* recommendations, the dashboard, the reports and their files, whatever   *)
(* is in the tables.  A walk through a list of orders goes on while others *)
(* change it, and has an inductive invariant.  The other views write       *)
(* nothing, so each property is one of the initial states; the proofs are  *)
(* about what the queries return.  Sums and folds are reasoned about as    *)
(* functions on the parts of a finite set, which are shown to exist by     *)
(* induction on how large the parts are.                                   *)
(***************************************************************************)
EXTENDS Listings, OrderPages, Recommendations, Dashboards, Exports, WellFoundedInduction,
        FiniteSetTheorems, TLAPS

(***************************************************************************)
(* Numbers and induction.                                                  *)
(***************************************************************************)
LEMMA LeastNumber ==
    ASSUME NEW T, T \subseteq Nat, T # {}
    PROVE  \E m \in T : \A n \in T : m <= n
<1>1. PICK m \in T : \A n \in T : ~(<<n, m>> \in OpToRel(<, Nat))
    BY NatLessThanWellFounded, WFMin, Zenon
<1>2. \A n \in T : ~(n < m)
    BY <1>1 DEF OpToRel
<1> QED BY <1>2

(***************************************************************************)
(* Induction, with the set of what a claim holds of in place of the claim. *)
(***************************************************************************)
LEMMA NumberInduction ==
    ASSUME NEW P, 0 \in P, \A n \in Nat : n \in P => n + 1 \in P
    PROVE  Nat \subseteq P
<1> SUFFICES ASSUME Nat \ P # {} PROVE FALSE
    OBVIOUS
<1>1. PICK n \in Nat \ P : \A m \in Nat \ P : n <= m
    BY LeastNumber
<1>2. n \in Nat \ {0} /\ n - 1 \in Nat
    BY <1>1
<1>3. n - 1 \in P
    BY <1>1, <1>2
<1>4. (n - 1) + 1 \in P
    BY <1>2, <1>3
<1> QED BY <1>1, <1>2, <1>4

\* What holds of no elements, and of one more whenever of some, holds of the set.
LEMMA SetInduction ==
    ASSUME NEW S, IsFiniteSet(S), NEW P, {} \in P,
           \A T \in SUBSET S : \A x \in S \ T : T \in P => T \cup {x} \in P
    PROVE  S \in P
<1> DEFINE Large == {n \in Nat : \A T \in SUBSET S : Cardinality(T) = n => T \in P}
<1>1. \A T \in SUBSET S : IsFiniteSet(T) /\ Cardinality(T) \in Nat
    BY FS_Subset, FS_CardinalityType
<1>2. 0 \in Large
    BY <1>1, FS_EmptySet
<1>3. ASSUME NEW n \in Nat, n \in Large PROVE n + 1 \in Large
  <2>1. ASSUME NEW T \in SUBSET S, Cardinality(T) = n + 1 PROVE T \in P
    <3>0. T # {}
      <4>1. T = {} => Cardinality(T) = 0
          BY FS_EmptySet
      <4> QED BY <2>1, <4>1
    <3>1. PICK x \in T : TRUE
        BY <3>0
    <3>2. Cardinality(T \ {x}) = n
      <4>1. IsFiniteSet(T) /\ Cardinality(T \ {x}) = Cardinality(T) - 1
          BY <1>1, <3>1, FS_RemoveElement
      <4> QED BY <1>1, <2>1, <4>1
    <3>3. T \ {x} \in P
        BY <1>3, <3>2
    <3>4. (T \ {x}) \cup {x} = T /\ x \in S \ (T \ {x}) /\ T \ {x} \in SUBSET S
        BY <3>1
    <3> QED BY <3>3, <3>4
  <2> QED BY <2>1
<1> HIDE DEF Large
<1>4. Nat \subseteq Large
    BY <1>2, <1>3, NumberInduction
<1>5. Cardinality(S) \in Large
    BY <1>1, <1>4
<1> QED BY <1>5 DEF Large

(***************************************************************************)
(* Counting.                                                               *)
(***************************************************************************)
Apart(f, S) == \A x, y \in S : f[x] = f[y] => x = y

ImageOf(f, S) == {f[x] : x \in S}

\* Elements told apart have as many images.
LEMMA ImageCounts ==
    ASSUME NEW S, IsFiniteSet(S), NEW f
    PROVE  /\ IsFiniteSet(ImageOf(f, S))
           /\ Cardinality(ImageOf(f, S)) <= Cardinality(S)
           /\ Apart(f, S) => Cardinality(ImageOf(f, S)) = Cardinality(S)
<1> DEFINE g == [x \in S |-> f[x]]
<1>1. g \in Surjection(S, ImageOf(f, S))
    BY DEF Surjection, ImageOf
<1>2. Apart(f, S) => g \in Injection(S, ImageOf(f, S))
    BY DEF Injection, IsInjective, ImageOf, Apart
<1> HIDE DEF g
<1> QED BY <1>1, <1>2, FS_Surjection

\* A set is as large as a part of it only if it is that part.
LEMMA PartCounts ==
    ASSUME NEW S, IsFiniteSet(S), NEW T \in SUBSET S
    PROVE  /\ IsFiniteSet(T) /\ Cardinality(T) \in Nat /\ Cardinality(S) \in Nat
           /\ Cardinality(T) <= Cardinality(S)
           /\ Cardinality(T) = Cardinality(S) => T = S
           /\ T # S => Cardinality(T) < Cardinality(S)
BY FS_Subset, FS_CardinalityType

\* The places of a list are as many as its length.
LEMMA UpToCounts ==
    ASSUME NEW n \in Nat
    PROVE  IsFiniteSet(1 .. n) /\ Cardinality(1 .. n) = n
BY FS_Interval

(***************************************************************************)
(* Sums.  The sum of w over a set is the value of a recursive function on  *)
(* its subsets: there is such a function, by induction on the set, and it  *)
(* does not matter in which order it takes the elements.                   *)
(***************************************************************************)
Pick(s) == CHOOSE x \in s : TRUE

Sums(w, g, S) ==
    \A s \in SUBSET S : g[s] = IF s = {} THEN 0 ELSE w[Pick(s)] + g[s \ {Pick(s)}]

Weighs(w, S) == \A x \in S : w[x] \in Int

\* There is one for every finite set.
LEMMA SumsExist ==
    ASSUME NEW S, IsFiniteSet(S), NEW w, Weighs(w, S)
    PROVE  \E g \in [SUBSET S -> Int] : Sums(w, g, S)
<1> DEFINE Small(n) == {s \in SUBSET S : Cardinality(s) <= n}
           Solves(h, n) == \A s \in Small(n) :
                h[s] = IF s = {} THEN 0 ELSE w[Pick(s)] + h[s \ {Pick(s)}]
           P == {n \in Nat : \E h \in [Small(n) -> Int] : Solves(h, n)}
<1>1. \A s \in SUBSET S : IsFiniteSet(s) /\ Cardinality(s) \in Nat
    BY FS_Subset, FS_CardinalityType
<1>2. \A s \in SUBSET S : s # {} =>
        /\ Pick(s) \in s /\ s \ {Pick(s)} \in SUBSET S
        /\ Cardinality(s \ {Pick(s)}) = Cardinality(s) - 1
    BY <1>1, FS_RemoveElement DEF Pick
<1>3. 0 \in P
  <2> DEFINE h == [s \in Small(0) |-> 0]
  <2>1. \A s \in Small(0) : s = {}
      BY <1>1, FS_EmptySet
  <2>2. h \in [Small(0) -> Int] /\ Solves(h, 0)
      BY <2>1
  <2> HIDE DEF h, Small, Solves
  <2> QED BY <2>2
<1>4. ASSUME NEW n \in Nat, n \in P PROVE n + 1 \in P
  <2>1. PICK h \in [Small(n) -> Int] : Solves(h, n)
      BY <1>4
  <2> DEFINE k == [s \in Small(n + 1) |->
                      IF s = {} THEN 0 ELSE w[Pick(s)] + h[s \ {Pick(s)}]]
  <2>2. \A s \in Small(n + 1) : s # {} =>
          /\ s \ {Pick(s)} \in Small(n) /\ s \ {Pick(s)} \in Small(n + 1)
          /\ w[Pick(s)] \in Int
      BY <1>1, <1>2 DEF Weighs
  <2>3. k \in [Small(n + 1) -> Int]
      BY <2>1, <2>2
  <2>4. \A s \in Small(n) : s \in Small(n + 1) /\ k[s] = h[s]
      BY <1>1, <2>1
  <2>5. Solves(k, n + 1)
      BY <2>2, <2>4
  <2> HIDE DEF k, Small, Solves
  <2> QED BY <2>3, <2>5
<1> HIDE DEF P
<1>5. Nat \subseteq P
    BY <1>3, <1>4, NumberInduction
<1>6. Cardinality(S) \in P /\ Small(Cardinality(S)) = SUBSET S
    BY <1>1, <1>5, FS_Subset
<1> QED BY <1>6 DEF P, Sums

\* Such functions agree on the sets they share.
LEMMA SumsAgree ==
    ASSUME NEW S, IsFiniteSet(S), NEW w, NEW T \in SUBSET S,
           NEW g, Sums(w, g, S), NEW h, Sums(w, h, T)
    PROVE  g[T] = h[T]
<1> DEFINE P == {n \in Nat : \A s \in SUBSET T : Cardinality(s) = n => g[s] = h[s]}
<1>1. \A s \in SUBSET T : s \in SUBSET S /\ IsFiniteSet(s) /\ Cardinality(s) \in Nat
    BY FS_Subset, FS_CardinalityType
<1>2. 0 \in P
    BY <1>1, FS_EmptySet DEF Sums
<1>3. ASSUME NEW n \in Nat, n \in P PROVE n + 1 \in P
  <2>1. ASSUME NEW s \in SUBSET T, Cardinality(s) = n + 1 PROVE g[s] = h[s]
    <3>1. s # {} /\ Pick(s) \in s
        BY <2>1, FS_EmptySet DEF Pick
    <3>2. Cardinality(s \ {Pick(s)}) = Cardinality(s) - 1 /\ s \ {Pick(s)} \in SUBSET T
        BY <1>1, <3>1, FS_RemoveElement
    <3>3. g[s \ {Pick(s)}] = h[s \ {Pick(s)}]
        BY <1>3, <2>1, <3>2
    <3> QED BY <1>1, <3>1, <3>3 DEF Sums
  <2> QED BY <2>1
<1> HIDE DEF P
<1>4. Nat \subseteq P
    BY <1>2, <1>3, NumberInduction
<1> QED BY <1>1, <1>4 DEF P

\* What the sum over S stands for.
SumOf(w, S) == SumFunctionOnSet(w, S)

\* The library's sum is that function.
LEMMA SumSolves ==
    ASSUME NEW S, IsFiniteSet(S), NEW w, Weighs(w, S)
    PROVE  \E g \in [SUBSET S -> Int] : Sums(w, g, S) /\ SumOf(w, S) = g[S]
<1> DEFINE Eq(g) == g = [s \in SUBSET S |->
                            IF s = {} THEN 0
                            ELSE w[CHOOSE x \in s : TRUE] + g[s \ {CHOOSE x \in s : TRUE}]]
           all == CHOOSE g : Eq(g)
<1>1. SumOf(w, S) = all[S]
    BY DEF SumOf, SumFunctionOnSet, FoldFunctionOnSet, MapThenFoldSet
<1>2. PICK g \in [SUBSET S -> Int] : Sums(w, g, S)
    BY SumsExist
<1>3. Eq(g)
    BY <1>2 DEF Sums, Pick
<1>4. Eq(all)
    BY <1>3
<1> HIDE DEF all
<1>5. Sums(w, all, S)
    BY <1>4 DEF Sums, Pick
<1>6. g[S] = all[S]
    BY <1>2, <1>5, SumsAgree
<1> QED BY <1>1, <1>2, <1>6

LEMMA SumOfNone ==
    ASSUME NEW w
    PROVE  SumOf(w, {}) = 0
<1>1. PICK g \in [SUBSET {} -> Int] : Sums(w, g, {}) /\ SumOf(w, {}) = g[{}]
    BY SumSolves, FS_EmptySet DEF Weighs
<1> QED BY <1>1 DEF Sums

LEMMA SumType ==
    ASSUME NEW S, IsFiniteSet(S), NEW w, Weighs(w, S)
    PROVE  SumOf(w, S) \in Int
<1>1. PICK g \in [SUBSET S -> Int] : Sums(w, g, S) /\ SumOf(w, S) = g[S]
    BY SumSolves
<1> QED BY <1>1

\* The sum takes the picked element first,
LEMMA SumOfPicked ==
    ASSUME NEW S, IsFiniteSet(S), NEW w, Weighs(w, S), S # {}
    PROVE  /\ Pick(S) \in S
           /\ SumOf(w, S) = w[Pick(S)] + SumOf(w, S \ {Pick(S)})
<1> DEFINE T == S \ {Pick(S)}
<1>1. Pick(S) \in S
    BY DEF Pick
<1>2. T \in SUBSET S /\ IsFiniteSet(T) /\ Weighs(w, T)
    BY FS_Subset DEF Weighs
<1>3. PICK g \in [SUBSET S -> Int] : Sums(w, g, S) /\ SumOf(w, S) = g[S]
    BY SumSolves
<1>4. PICK h \in [SUBSET T -> Int] : Sums(w, h, T) /\ SumOf(w, T) = h[T]
    BY <1>2, SumSolves
<1>5. g[T] = h[T]
    BY <1>2, <1>3, <1>4, SumsAgree
<1>6. g[S] = w[Pick(S)] + g[T]
    BY <1>3 DEF Sums
<1> QED BY <1>1, <1>3, <1>4, <1>5, <1>6

\* but any other may be taken first.
LEMMA SumWithout ==
    ASSUME NEW S, IsFiniteSet(S), NEW w, Weighs(w, S), NEW x \in S
    PROVE  SumOf(w, S) = w[x] + SumOf(w, S \ {x})
<1> DEFINE P == {n \in Nat : \A T \in SUBSET S : Cardinality(T) = n =>
                    \A y \in T : SumOf(w, T) = w[y] + SumOf(w, T \ {y})}
<1>1. \A T \in SUBSET S : IsFiniteSet(T) /\ Cardinality(T) \in Nat /\ Weighs(w, T)
    BY FS_Subset, FS_CardinalityType DEF Weighs
<1>2. 0 \in P
    BY <1>1, FS_EmptySet
<1>3. ASSUME NEW n \in Nat, n \in P PROVE n + 1 \in P
  <2>1. ASSUME NEW T \in SUBSET S, Cardinality(T) = n + 1, NEW y \in T
        PROVE  SumOf(w, T) = w[y] + SumOf(w, T \ {y})
    <3> DEFINE p == Pick(T)
    <3>1. p \in T /\ SumOf(w, T) = w[p] + SumOf(w, T \ {p})
        BY <1>1, SumOfPicked
    <3>2. CASE y # p
      <4>1. \A z \in T : T \ {z} \in SUBSET S /\ Cardinality(T \ {z}) = n
        <5>1. \A z \in T : Cardinality(T \ {z}) = Cardinality(T) - 1
            BY <1>1, FS_RemoveElement
        <5> QED BY <2>1, <5>1
      <4>2. SumOf(w, T \ {p}) = w[y] + SumOf(w, (T \ {p}) \ {y})
          BY <1>3, <3>1, <3>2, <4>1
      <4>3. SumOf(w, T \ {y}) = w[p] + SumOf(w, (T \ {p}) \ {y})
        <5>1. (T \ {p}) \ {y} = (T \ {y}) \ {p}
            OBVIOUS
        <5> QED BY <1>3, <3>1, <3>2, <4>1, <5>1
      <4>5. w[p] \in Int /\ w[y] \in Int /\ SumOf(w, (T \ {p}) \ {y}) \in Int
        <5>1. (T \ {p}) \ {y} \in SUBSET S
            OBVIOUS
        <5> QED BY <1>1, <3>1, <5>1, SumType DEF Weighs
      <4> DEFINE rest == SumOf(w, (T \ {p}) \ {y})
                 a == w[p]
                 b == w[y]
      <4>6. SumOf(w, T) = a + (b + rest)
          BY <3>1, <4>2
      <4>7. SumOf(w, T \ {y}) = a + rest
          BY <4>3
      <4>8. a \in Int /\ b \in Int /\ rest \in Int
          BY <4>5
      <4> HIDE DEF a, b, rest
      <4>9. a + (b + rest) = b + (a + rest)
          BY <4>8
      <4> QED BY <4>6, <4>7, <4>9 DEF b
    <3> QED BY <3>1, <3>2
  <2> QED BY <2>1
<1> HIDE DEF P
<1>4. Nat \subseteq P
    BY <1>2, <1>3, NumberInduction
<1> QED BY <1>1, <1>4 DEF P

\* An element more adds its weight.
LEMMA SumWith ==
    ASSUME NEW S, IsFiniteSet(S), NEW x, x \notin S, NEW w, Weighs(w, S), w[x] \in Int
    PROVE  SumOf(w, S \cup {x}) = w[x] + SumOf(w, S)
<1>1. (S \cup {x}) \ {x} = S
    OBVIOUS
<1>2. IsFiniteSet(S \cup {x}) /\ Weighs(w, S \cup {x})
    BY FS_AddElement DEF Weighs
<1> QED BY <1>1, <1>2, SumWithout

(***************************************************************************)
(* Rows in the order of a query.  The order is a relation here: a set of   *)
(* pairs of rows, the first of which belongs before the second.            *)
(***************************************************************************)
InOrder(rows, R) == \A i, j \in DOMAIN rows : i < j => <<rows[j], rows[i]>> \notin R

StrictlyOrders(R, S) ==
    /\ \A a \in S : <<a, a>> \notin R
    /\ \A a, b, c \in S : <<a, b>> \in R /\ <<b, c>> \in R => <<a, c>> \in R

\* A list of the rows of a set has each of them once.
LEMMA ListsCover ==
    ASSUME NEW S, IsFiniteSet(S), NEW rows \in SetToSeqs(S)
    PROVE  /\ Cardinality(S) \in Nat
           /\ rows \in [1 .. Cardinality(S) -> S]
           /\ rows \in Seq(S) /\ Len(rows) = Cardinality(S)
           /\ Apart(rows, 1 .. Cardinality(S))
           /\ \A x \in S : \E i \in 1 .. Cardinality(S) : rows[i] = x
           /\ Range(rows) = S
<1> DEFINE D == 1 .. Cardinality(S)
<1>1. Cardinality(S) \in Nat /\ IsFiniteSet(D) /\ Cardinality(D) = Cardinality(S)
    BY FS_CardinalityType, UpToCounts
<1>2. rows \in [D -> S] /\ Apart(rows, D)
    BY DEF SetToSeqs, Apart
<1>3. Cardinality(ImageOf(rows, D)) = Cardinality(S)
    BY <1>1, <1>2, ImageCounts
<1>4. ImageOf(rows, D) \in SUBSET S
    BY <1>2 DEF ImageOf
<1>5. ImageOf(rows, D) = S
    BY <1>3, <1>4, PartCounts
<1>6. \A x \in S : \E i \in D : rows[i] = x
    BY <1>5 DEF ImageOf
<1>7. Range(rows) = S
    BY <1>2, <1>5 DEF Range, ImageOf
<1>8. rows \in Seq(S) /\ Len(rows) = Cardinality(S)
    BY <1>1, <1>2
<1> QED BY <1>1, <1>2, <1>6, <1>7, <1>8

\* Some row has none behind it.
LEMMA LastExists ==
    ASSUME NEW S, IsFiniteSet(S), S # {}, NEW R, StrictlyOrders(R, S)
    PROVE  \E x \in S : \A y \in S : <<x, y>> \notin R
<1> DEFINE Behind(x) == {y \in S : <<x, y>> \in R}
           sizes == {Cardinality(Behind(x)) : x \in S}
<1>1. \A x \in S : IsFiniteSet(Behind(x)) /\ Cardinality(Behind(x)) \in Nat
    BY FS_Subset, FS_CardinalityType
<1>2. PICK n \in sizes : \A m \in sizes : n <= m
  <2>1. sizes # {} /\ sizes \subseteq Nat
      BY <1>1
  <2> HIDE DEF sizes
  <2> QED BY <2>1, LeastNumber
<1>3. PICK x \in S : n = Cardinality(Behind(x))
    BY <1>2
<1>4. ASSUME NEW y \in S, <<x, y>> \in R PROVE FALSE
  <2>1. Behind(y) \in SUBSET Behind(x) /\ y \in Behind(x) /\ y \notin Behind(y)
      BY <1>4 DEF StrictlyOrders
  <2>2. Cardinality(Behind(y)) < Cardinality(Behind(x))
    <3> HIDE DEF Behind
    <3>1. Behind(y) # Behind(x)
        BY <2>1
    <3> QED BY <1>1, <2>1, <3>1, PartCounts
  <2>3. n <= Cardinality(Behind(y))
      BY <1>2
  <2> HIDE DEF sizes, Behind
  <2> QED BY <1>1, <1>3, <2>2, <2>3
<1> QED BY <1>4

\* Some list of the rows is in order.
LEMMA OrderedListsExist ==
    ASSUME NEW S, IsFiniteSet(S), NEW R, StrictlyOrders(R, S)
    PROVE  \E rows \in SetToSeqs(S) : InOrder(rows, R)
<1> DEFINE P == {n \in Nat : \A T \in SUBSET S : Cardinality(T) = n =>
                    \E rows \in SetToSeqs(T) : InOrder(rows, R)}
<1>1. \A T \in SUBSET S : IsFiniteSet(T) /\ Cardinality(T) \in Nat /\ StrictlyOrders(R, T)
    BY FS_Subset, FS_CardinalityType DEF StrictlyOrders
<1>2. 0 \in P
  <2>1. ASSUME NEW T \in SUBSET S, Cardinality(T) = 0
        PROVE  \E rows \in SetToSeqs(T) : InOrder(rows, R)
    <3> DEFINE rows == [i \in 1 .. 0 |-> i]
    <3>1. rows \in SetToSeqs(T)
        BY <2>1 DEF SetToSeqs
    <3>2. InOrder(rows, R)
        BY DEF InOrder
    <3> QED BY <3>1, <3>2
  <2> QED BY <2>1
<1>3. ASSUME NEW n \in Nat, n \in P PROVE n + 1 \in P
  <2>1. ASSUME NEW T \in SUBSET S, Cardinality(T) = n + 1
        PROVE  \E rows \in SetToSeqs(T) : InOrder(rows, R)
    <3>1. T # {}
      <4>1. T = {} => Cardinality(T) = 0
          BY FS_EmptySet
      <4> QED BY <2>1, <4>1
    <3>2. PICK x \in T : \A y \in T : <<x, y>> \notin R
        BY <1>1, <3>1, LastExists
    <3> DEFINE U == T \ {x}
    <3>3. U \in SUBSET S /\ Cardinality(U) = n
      <4>1. Cardinality(U) = Cardinality(T) - 1
          BY <1>1, FS_RemoveElement
      <4> QED BY <2>1, <4>1
    <3>4. PICK rest \in SetToSeqs(U) : InOrder(rest, R)
        BY <1>3, <3>3
    <3>5. rest \in [1 .. n -> U] /\ Apart(rest, 1 .. n)
        BY <1>1, <3>3, ListsCover
    <3> DEFINE rows == [i \in 1 .. (n + 1) |-> IF i = n + 1 THEN x ELSE rest[i]]
    <3>6. \A i \in 1 .. (n + 1) : i = n + 1 \/ i \in 1 .. n
        OBVIOUS
    <3>7. rows \in [1 .. (n + 1) -> T]
        BY <3>5, <3>6
    <3>8. ASSUME NEW i \in 1 .. (n + 1), NEW j \in 1 .. (n + 1), i # j
          PROVE  rows[i] # rows[j]
        BY <3>5, <3>6, <3>8 DEF Apart
    <3>9. rows \in SetToSeqs(T)
        BY <2>1, <3>7, <3>8 DEF SetToSeqs
    <3>10. ASSUME NEW i \in 1 .. (n + 1), NEW j \in 1 .. (n + 1), i < j
           PROVE  <<rows[j], rows[i]>> \notin R
      <4>1. i \in 1 .. n
          BY <3>10
      <4>2. CASE j = n + 1
        <5>1. rows[j] = x /\ rows[i] \in T
            BY <3>7, <4>2
        <5> QED BY <3>2, <5>1
      <4>3. CASE j \in 1 .. n
        <5>1. rows[j] = rest[j] /\ rows[i] = rest[i]
            BY <4>1, <4>3
        <5> QED BY <3>4, <3>5, <3>10, <4>1, <4>3, <5>1 DEF InOrder
      <4> QED BY <3>6, <4>2, <4>3
    <3>11. InOrder(rows, R)
        BY <3>10 DEF InOrder
    <3> QED BY <3>9, <3>11
  <2> QED BY <2>1
<1> HIDE DEF P
<1>4. Nat \subseteq P
    BY <1>2, <1>3, NumberInduction
<1> QED BY <1>1, <1>4 DEF P

\* How many rows come before a place of a list.
LEMMA FirstCount ==
    ASSUME NEW n \in Nat, NEW rows, Apart(rows, 1 .. n), NEW k \in 0 .. n
    PROVE  /\ IsFiniteSet(ImageOf(rows, 1 .. k))
           /\ Cardinality(ImageOf(rows, 1 .. k)) = k
<1>1. k \in Nat /\ 1 .. k \subseteq 1 .. n
    OBVIOUS
<1>2. Apart(rows, 1 .. k)
    BY <1>1 DEF Apart
<1> QED BY <1>1, <1>2, UpToCounts, ImageCounts

\* The library's maximum of a set of places.
LEMMA MaxOf ==
    ASSUME NEW n \in Nat, NEW s \in SUBSET (1 .. n), s # {}
    PROVE  Max(s) \in s /\ \A i \in s : Max(s) >= i
<1> DEFINE below == {n - i : i \in s}
<1>1. below \subseteq Nat /\ below # {}
  <2>1. \A i \in s : n - i \in Nat
      OBVIOUS
  <2> QED BY <2>1
<1>2. PICK d \in below : \A e \in below : d <= e
    BY <1>1, LeastNumber
<1>3. PICK m \in s : d = n - m
    BY <1>2
<1>4. \A i \in s : n - m <= n - i
    BY <1>2, <1>3
<1>5. \A i \in s : m >= i
    BY <1>3, <1>4
<1> QED BY <1>3, <1>5 DEF Max

LEMMA MaxOfPrefix ==
    ASSUME NEW k \in Nat \ {0}
    PROVE  Max(1 .. k) = k /\ (1 .. k) \ {k} = 1 .. (k - 1)
<1>1. k \in 1 .. k /\ 1 .. k # {}
    OBVIOUS
<1>2. Max(1 .. k) \in 1 .. k /\ Max(1 .. k) >= k
    BY <1>1, MaxOf
<1>3. Max(1 .. k) = k
    BY <1>2
<1> QED BY <1>3

(***************************************************************************)
(* Folding a sequence from the left is a recursive function of the set of  *)
(* its places.  Such a function exists.                                    *)
(***************************************************************************)
Folds(step, base, seq, g, D) ==
    \A s \in SUBSET D :
        g[s] = IF s = {} THEN base ELSE step[<<g[s \ {Max(s)}], seq[Max(s)]>>]

LEMMA FoldsExist ==
    ASSUME NEW X, NEW Y, NEW step \in [X \X Y -> X], NEW base \in X,
           NEW n \in Nat, NEW seq \in [1 .. n -> Y]
    PROVE  \E g \in [SUBSET (1 .. n) -> X] : Folds(step, base, seq, g, 1 .. n)
<1> DEFINE Exist(k) == \E g \in [SUBSET (1 .. k) -> X] : Folds(step, base, seq, g, 1 .. k)
           none == {k \in 0 .. n : ~Exist(k)}
<1>1. none = {}
  <2> SUFFICES ASSUME none # {} PROVE FALSE
      OBVIOUS
  <2>0. none \subseteq Nat
      OBVIOUS
  <2>1. PICK k \in none : \A m \in none : k <= m
      BY <2>0, LeastNumber
  <2>2. CASE k = 0
    <3> DEFINE g == [s \in SUBSET (1 .. 0) |-> base]
    <3>1. \A s \in SUBSET (1 .. 0) : s = {}
        OBVIOUS
    <3>2. g \in [SUBSET (1 .. 0) -> X] /\ Folds(step, base, seq, g, 1 .. 0)
        BY <3>1 DEF Folds
    <3> QED BY <2>1, <2>2, <3>2
  <2>3. CASE k # 0
    <3>1. k \in 1 .. n /\ k \in Nat \ {0} /\ k - 1 \in Nat /\ k - 1 \in 0 .. n
        BY <2>1, <2>3
    <3>2. Exist(k - 1)
      <4>1. k \in Nat /\ ~(k <= k - 1)
          BY <3>1
      <4>2. k - 1 \notin none
          BY <2>1, <4>1
      <4> QED BY <3>1, <4>2
    <3>3. PICK g \in [SUBSET (1 .. k - 1) -> X] : Folds(step, base, seq, g, 1 .. k - 1)
        BY <3>2
    <3> DEFINE h == [s \in SUBSET (1 .. k) |->
                        IF k \in s THEN step[<<g[s \ {k}], seq[k]>>] ELSE g[s]]
    <3>4. \A s \in SUBSET (1 .. k) : s \ {k} \in SUBSET (1 .. k - 1)
        BY <3>1
    <3>5. \A s \in SUBSET (1 .. k) : k \notin s => s \in SUBSET (1 .. k - 1)
        BY <3>1
    <3>6. seq[k] \in Y
        BY <3>1
    <3>7. h \in [SUBSET (1 .. k) -> X]
      <4>1. \A s \in SUBSET (1 .. k) : g[s \ {k}] \in X
          BY <3>4
      <4>2. \A s \in SUBSET (1 .. k) : step[<<g[s \ {k}], seq[k]>>] \in X
          BY <3>6, <4>1
      <4> QED BY <3>5, <4>2
    <3>8. ASSUME NEW s \in SUBSET (1 .. k)
          PROVE  h[s] = IF s = {} THEN base
                        ELSE step[<<h[s \ {Max(s)}], seq[Max(s)]>>]
      <4>1. CASE k \in s
        <5>1. Max(s) \in 1 .. k /\ Max(s) >= k
            BY <3>1, <4>1, MaxOf
        <5>2. Max(s) = k
            BY <3>1, <5>1
        <5>3. h[s \ {k}] = g[s \ {k}] /\ s # {}
            BY <4>1
        <5> QED BY <4>1, <5>2, <5>3
      <4>2. CASE k \notin s
        <5>1. s \in SUBSET (1 .. k - 1) /\ h[s] = g[s]
            BY <3>5, <4>2
        <5>2. s \ {Max(s)} \in SUBSET (1 .. k) /\ k \notin s \ {Max(s)}
            BY <4>2
        <5>3. h[s \ {Max(s)}] = g[s \ {Max(s)}]
            BY <5>2
        <5>4. g[s] = IF s = {} THEN base
                     ELSE step[<<g[s \ {Max(s)}], seq[Max(s)]>>]
            BY <3>3, <5>1 DEF Folds
        <5> HIDE DEF h
        <5> QED BY <5>1, <5>3, <5>4
      <4> QED BY <4>1, <4>2
    <3>9. Folds(step, base, seq, h, 1 .. k)
        BY <3>8 DEF Folds
    <3> QED BY <2>1, <3>7, <3>9
  <2> QED BY <2>2, <2>3
<1>2. n \in 0 .. n
    OBVIOUS
<1>3. Exist(n)
    BY <1>1, <1>2
<1> QED BY <1>3

(***************************************************************************)
(* Orders by keys, and pages.                                              *)
(***************************************************************************)
\* x comes before y in the order of tuples of numbers.
KeyBefore(x, y) == \E k \in DOMAIN x : x[k] < y[k] /\ \A j \in 1 .. k - 1 : x[j] = y[j]

\* Tuples are ordered.
LEMMA KeysOrder ==
    ASSUME NEW m \in Nat
    PROVE  /\ \A x \in [1 .. m -> Int] : ~KeyBefore(x, x)
           /\ \A x, y, z \in [1 .. m -> Int] :
                KeyBefore(x, y) /\ KeyBefore(y, z) => KeyBefore(x, z)
           /\ \A x, y \in [1 .. m -> Int] : KeyBefore(x, y) \/ KeyBefore(y, x) \/ x = y
<1>1. \A x \in [1 .. m -> Int] : ~KeyBefore(x, x)
    BY DEF KeyBefore
<1>2. ASSUME NEW x \in [1 .. m -> Int], NEW y \in [1 .. m -> Int], NEW z \in [1 .. m -> Int],
             KeyBefore(x, y), KeyBefore(y, z)
      PROVE  KeyBefore(x, z)
  <2>1. PICK k \in 1 .. m : x[k] < y[k] /\ \A j \in 1 .. k - 1 : x[j] = y[j]
      BY <1>2 DEF KeyBefore
  <2>2. PICK l \in 1 .. m : y[l] < z[l] /\ \A j \in 1 .. l - 1 : y[j] = z[j]
      BY <1>2 DEF KeyBefore
  <2>3. CASE k <= l
    <3>1. x[k] < z[k]
      <4>1. y[k] <= z[k]
          BY <2>2, <2>3, SMTT(20)
      <4> QED BY <2>1, <4>1
    <3>2. \A j \in 1 .. k - 1 : x[j] = z[j]
        BY <2>1, <2>2, <2>3
    <3> QED BY <3>1, <3>2 DEF KeyBefore
  <2>4. CASE l < k
    <3>1. x[l] < z[l] /\ \A j \in 1 .. l - 1 : x[j] = z[j]
        BY <2>1, <2>2, <2>4
    <3> QED BY <3>1 DEF KeyBefore
  <2> QED BY <2>3, <2>4
<1>3. ASSUME NEW x \in [1 .. m -> Int], NEW y \in [1 .. m -> Int], x # y
      PROVE  KeyBefore(x, y) \/ KeyBefore(y, x)
  <2> DEFINE apart == {k \in 1 .. m : x[k] # y[k]}
  <2>1. apart \subseteq Nat /\ apart # {}
      BY <1>3, SMTT(20)
  <2>2. PICK k \in apart : \A l \in apart : k <= l
      BY <2>1, LeastNumber
  <2>3. k \in 1 .. m /\ x[k] # y[k] /\ x[k] \in Int /\ y[k] \in Int
      BY <2>2
  <2>4. \A j \in 1 .. k - 1 : x[j] = y[j]
      BY <2>2
  <2>5. x[k] < y[k] \/ y[k] < x[k]
      BY <2>3
  <2> QED BY <2>3, <2>4, <2>5 DEF KeyBefore
<1> QED BY <1>1, <1>2, <1>3

LEMMA ThreeKeys ==
    \A a, b, c \in Int : <<a, b>> \o <<c>> = <<a, b, c>>
<1> TAKE a, b, c \in Int
<1> DEFINE s == <<a, b>> \o <<c>>
<1>1. <<a, b>> \in Seq(Int) /\ <<c>> \in Seq(Int) /\ Len(<<a, b>>) = 2 /\ Len(<<c>>) = 1
    OBVIOUS
<1>2. s \in Seq(Int) /\ Len(s) = 3
    BY <1>1
<1>3. s[1] = a /\ s[2] = b /\ s[3] = c
    BY <1>1
<1>4. s = [i \in 1 .. 3 |-> s[i]]
    BY <1>2
<1>5. <<a, b, c>> = [i \in 1 .. 3 |-> <<a, b, c>>[i]]
    OBVIOUS
<1> HIDE DEF s
<1>6. \A i \in 1 .. 3 : s[i] = <<a, b, c>>[i]
    BY <1>3
<1>7. s = <<a, b, c>>
    BY <1>4, <1>5, <1>6
<1> QED BY <1>7 DEF s

LEMMA SortKeysType ==
    ASSUME NEW sort \in Sorts, NEW food \in FoodRows, ListingsAssumption
    PROVE  SortKeys(sort, food) \in [1 .. (IF sort = "newest" THEN 1 ELSE 3) -> Int]
<1>1. \A a, b, c \in Int : <<a, b>> \o <<c>> = <<a, b, c>>
    BY ThreeKeys, Zenon
<1>2. \A a, b, c \in Int : <<a, b, c>> \in [1 .. 3 -> Int]
    OBVIOUS
<1>3. \A a \in Int : <<a>> \in [1 .. 1 -> Int]
    OBVIOUS
<1>4. /\ food.rating \in Int /\ food.ratings \in Int /\ food.name \in Int
      /\ food.createdAt \in Int /\ food.price \in Int /\ food.popularity \in Int
      /\ food.discount = NoValue \/ food.discount \in Int
    BY DEF FoodRows
<1>5. CASE sort = "rating"
    BY <1>2, <1>4, <1>5 DEF SortKeys
<1>6. CASE sort = "newest"
    BY <1>3, <1>4, <1>6 DEF SortKeys
<1>7. CASE sort = "popular"
    BY <1>2, <1>4, <1>7 DEF SortKeys
<1>8. CASE sort = "price_asc"
  <2>1. CASE food.discount = NoValue
    <3>1. SortKeys(sort, food) = <<1, 0>> \o <<food.price>>
        BY <1>8, <2>1 DEF SortKeys
    <3> QED BY <1>1, <1>2, <1>4, <1>8, <3>1
  <2>2. CASE food.discount # NoValue
    <3>1. SortKeys(sort, food) = <<0, 1 * food.discount>> \o <<food.price>>
        BY <1>8, <2>2 DEF SortKeys
    <3>2. 1 * food.discount \in Int
        BY <1>4, <2>2
    <3> QED BY <1>1, <1>2, <1>4, <1>8, <3>1, <3>2
  <2> QED BY <2>1, <2>2
<1>9. CASE sort = "price_desc"
  <2>1. CASE food.discount = NoValue
    <3>1. SortKeys(sort, food) = <<1, 0>> \o <<-food.price>>
        BY <1>9, <2>1 DEF SortKeys
    <3>2. -food.price \in Int
        BY <1>4
    <3> QED BY <1>1, <1>2, <1>4, <1>9, <3>1, <3>2
  <2>2. CASE food.discount # NoValue
    <3>1. SortKeys(sort, food) = <<0, (-1) * food.discount>> \o <<-food.price>>
        BY <1>9, <2>2 DEF SortKeys
    <3>2. (-1) * food.discount \in Int /\ -food.price \in Int
        BY <1>4, <2>2
    <3> QED BY <1>1, <1>2, <1>4, <1>9, <3>1, <3>2
  <2> QED BY <2>1, <2>2
<1> QED BY <1>5, <1>6, <1>7, <1>8, <1>9 DEF Sorts

LEMMA PriceKeys ==
    ASSUME NEW food \in FoodRows, ListingsAssumption
    PROVE  SortKeys("price_asc", food) =
               IF food.discount = NoValue THEN <<1, 0, food.price>>
               ELSE <<0, food.discount, food.price>>
<1>1. \A a, b, c \in Int : <<a, b>> \o <<c>> = <<a, b, c>>
    BY ThreeKeys, Zenon
<1>4. food.price \in Int /\ (food.discount = NoValue \/ food.discount \in Int)
    BY DEF FoodRows
<1>5. CASE food.discount = NoValue
  <2>1. SortKeys("price_asc", food) = <<1, 0>> \o <<food.price>>
      BY <1>5 DEF SortKeys
  <2> QED BY <1>1, <1>4, <1>5, <2>1
<1>6. CASE food.discount # NoValue
  <2>1. SortKeys("price_asc", food) = <<0, 1 * food.discount>> \o <<food.price>>
      BY <1>6 DEF SortKeys
  <2>2. 1 * food.discount = food.discount
      BY <1>4, <1>6
  <2> QED BY <1>1, <1>4, <1>6, <2>1, <2>2
<1> QED BY <1>5, <1>6

BeforeIn(sort) == {p \in menu \X menu : Before(sort, p[1], p[2])}

\* The sort orders of the menu order it strictly, and leave the tied foods open.
LEMMA MenuOrders ==
    ASSUME ListingsAssumption, menu \in Menus, NEW sort \in Sorts
    PROVE  /\ StrictlyOrders(BeforeIn(sort), menu)
           /\ \A a, b \in menu : Before(sort, a, b) \/ Before(sort, b, a) \/ Tied(sort, a, b)
           /\ Results(sort) = {rows \in SetToSeqs(menu) : InOrder(rows, BeforeIn(sort))}
<1> DEFINE m == IF sort = "newest" THEN 1 ELSE 3
           K == [1 .. m -> Int]
<1>1. menu \subseteq FoodRows
    BY DEF ListingsAssumption
<1>2. \A a \in menu : SortKeys(sort, a) \in K
    BY <1>1, SortKeysType
<1>3. \A a, b : Before(sort, a, b) <=> KeyBefore(SortKeys(sort, a), SortKeys(sort, b))
    BY DEF Before, KeyBefore
<1>4. m \in Nat
    OBVIOUS
<1>5. /\ \A x \in K : ~KeyBefore(x, x)
      /\ \A x, y, z \in K : KeyBefore(x, y) /\ KeyBefore(y, z) => KeyBefore(x, z)
      /\ \A x, y \in K : KeyBefore(x, y) \/ KeyBefore(y, x) \/ x = y
    BY <1>4, KeysOrder
<1> HIDE DEF m, K
<1>6. StrictlyOrders(BeforeIn(sort), menu)
    BY <1>2, <1>3, <1>5 DEF StrictlyOrders, BeforeIn
<1>7. \A a, b \in menu : Before(sort, a, b) \/ Before(sort, b, a) \/ Tied(sort, a, b)
    BY <1>2, <1>3, <1>5 DEF Tied
<1>8. \A rows \in SetToSeqs(menu) :
        InOrder(rows, BeforeIn(sort)) <=>
            \A i, j \in DOMAIN rows : i < j => ~Before(sort, rows[j], rows[i])
    BY DEF InOrder, BeforeIn, SetToSeqs
<1>9. Results(sort) = {rows \in SetToSeqs(menu) :
                        \A i, j \in DOMAIN rows : i < j => ~Before(sort, rows[j], rows[i])}
    BY DEF Results, Arrangements
<1> QED BY <1>6, <1>7, <1>8, <1>9

\* The pages announced hold every place of the list, each on one of them.
LEMMA PagesHoldPlaces ==
    ASSUME NEW n \in Nat, NEW limit \in Nat \ {0}
    PROVE  /\ TotalPages(n, limit) \in Nat
           /\ n <= TotalPages(n, limit) * limit
           /\ n = 0 => TotalPages(n, limit) = 0
           /\ \A i \in 1 .. n : \E p \in 1 .. TotalPages(n, limit) :
                Skip(p, limit) < i /\ i <= Skip(p, limit) + limit
<1>1. \A a \in Nat : /\ a \div limit \in Nat
                     /\ (a \div limit) * limit <= a
                     /\ a < (a \div limit) * limit + limit
    OBVIOUS
<1>2. \A a, b \in Nat : a <= b => a \div limit <= b \div limit
  <2> TAKE a, b \in Nat
  <2> HAVE a <= b
  <2> DEFINE x == a \div limit
             y == b \div limit
  <2>1. x \in Nat /\ y \in Nat /\ x * limit <= a /\ b < y * limit + limit
      BY <1>1
  <2> HIDE DEF x, y
  <2>2. y + 1 <= x => (y + 1) * limit <= x * limit
      BY <2>1
  <2>3. (y + 1) * limit = y * limit + limit /\ y * limit \in Nat /\ x * limit \in Nat
      BY <2>1
  <2>4. x <= y
      BY <2>1, <2>2, <2>3
  <2> QED BY <2>4 DEF x, y
<1>3. n + limit - 1 \in Nat /\ TotalPages(n, limit) = (n + limit - 1) \div limit
    BY DEF TotalPages
<1>4. TotalPages(n, limit) \in Nat
    BY <1>1, <1>3
<1>5. n <= TotalPages(n, limit) * limit
  <2> DEFINE t == TotalPages(n, limit) * limit
  <2>1. n + limit - 1 < t + limit /\ t \in Nat
      BY <1>1, <1>3
  <2> HIDE DEF t
  <2>2. n <= t
      BY <2>1
  <2> QED BY <2>2 DEF t
<1>6. n = 0 => TotalPages(n, limit) = 0
  <2> DEFINE t == TotalPages(n, limit)
  <2>1. t * limit <= n + limit - 1 /\ t \in Nat
      BY <1>1, <1>3
  <2> HIDE DEF t
  <2>2. t >= 1 => t * limit >= limit
      BY <2>1
  <2>3. n = 0 => t = 0
      BY <2>1, <2>2
  <2> QED BY <2>3 DEF t
<1>7. ASSUME NEW i \in 1 .. n
      PROVE  \E p \in 1 .. TotalPages(n, limit) :
                Skip(p, limit) < i /\ i <= Skip(p, limit) + limit
  <2> DEFINE q == (i - 1) \div limit
  <2>1. i - 1 \in Nat /\ q \in Nat /\ q * limit <= i - 1 /\ i - 1 < q * limit + limit
      BY <1>1
  <2>2. (i - 1 + limit) \div limit <= TotalPages(n, limit)
      BY <1>2, <1>3
  <2>3. (i - 1 + limit) \div limit >= q + 1
    <3> DEFINE r == (i - 1 + limit) \div limit
    <3>1. r \in Nat /\ i - 1 + limit < r * limit + limit
        BY <1>1
    <3> HIDE DEF r, q
    <3>2. r <= q => r * limit <= q * limit
        BY <2>1, <3>1
    <3>3. r * limit \in Nat /\ q * limit \in Nat
        BY <2>1, <3>1
    <3>4. r >= q + 1
        BY <2>1, <3>1, <3>2, <3>3
    <3> QED BY <3>4 DEF r
  <2> HIDE DEF q
  <2>4. q + 1 \in 1 .. TotalPages(n, limit)
    <3>1. (i - 1 + limit) \div limit \in Nat
        BY <1>1
    <3> QED BY <1>4, <2>1, <2>2, <2>3, <3>1
  <2>5. Skip(q + 1, limit) = q * limit
    <3>1. (q + 1) - 1 = q
        BY <2>1
    <3> QED BY <3>1 DEF Skip
  <2>6. q * limit \in Nat
      BY <2>1
  <2>7. Skip(q + 1, limit) < i /\ i <= Skip(q + 1, limit) + limit
      BY <2>1, <2>5, <2>6
  <2> QED BY <2>4, <2>7
<1> QED BY <1>4, <1>5, <1>6, <1>7

\* A row that is in one list by place e, and in another one after it.
AreApart(S, R, rows1, rows2, n1, n2, e) ==
    /\ IsFiniteSet(S) /\ StrictlyOrders(R, S)
    /\ rows1 \in SetToSeqs(S) /\ InOrder(rows1, R)
    /\ rows2 \in SetToSeqs(S) /\ InOrder(rows2, R)
    /\ n1 \in 1 .. Cardinality(S) /\ n2 \in 1 .. Cardinality(S)
    /\ rows1[n1] = rows2[n2] /\ e \in Nat /\ n1 <= e /\ e < n2

\* A row on an earlier page in one order and on a later one in another leaves a
\* row behind the earlier page that does not come after it.
LEMMA PagesOverlap ==
    ASSUME NEW S, NEW R, NEW rows1, NEW rows2, NEW n1, NEW n2, NEW e,
           AreApart(S, R, rows1, rows2, n1, n2, e)
    PROVE  \E k \in 1 .. Cardinality(S) :
                e < k /\ <<rows1[n1], rows1[k]>> \notin R /\ <<rows1[k], rows1[n1]>> \notin R
<1> SUFFICES ASSUME IsFiniteSet(S), StrictlyOrders(R, S),
                    rows1 \in SetToSeqs(S), InOrder(rows1, R),
                    rows2 \in SetToSeqs(S), InOrder(rows2, R),
                    n1 \in 1 .. Cardinality(S), n2 \in 1 .. Cardinality(S),
                    rows1[n1] = rows2[n2], e \in Nat, n1 <= e, e < n2
             PROVE  \E k \in 1 .. Cardinality(S) :
                        /\ e < k
                        /\ <<rows1[n1], rows1[k]>> \notin R /\ <<rows1[k], rows1[n1]>> \notin R
    BY DEF AreApart
<1> DEFINE N == Cardinality(S)
           row == rows1[n1]
           C == {x \in S : <<row, x>> \notin R}
<1>1. /\ N \in Nat /\ row \in S
      /\ rows1 \in [1 .. N -> S] /\ Apart(rows1, 1 .. N)
      /\ rows2 \in [1 .. N -> S] /\ Apart(rows2, 1 .. N)
      /\ \A x \in S : \E i \in 1 .. N : rows1[i] = x
  <2>1. /\ N \in Nat /\ rows1 \in [1 .. N -> S] /\ Apart(rows1, 1 .. N)
        /\ \A x \in S : \E i \in 1 .. N : rows1[i] = x
      BY ListsCover
  <2>2. rows2 \in [1 .. N -> S] /\ Apart(rows2, 1 .. N)
      BY ListsCover
  <2> QED BY <2>1, <2>2
<1>2. \A k \in 1 .. N : e < k => <<rows1[k], row>> \notin R
    BY <1>1 DEF InOrder
<1> SUFFICES ASSUME \A k \in 1 .. N : e < k => <<row, rows1[k]>> \in R
             PROVE  FALSE
    BY <1>2
<1>3. C \subseteq ImageOf(rows1, 1 .. e)
  <2>1. ASSUME NEW x \in C PROVE x \in ImageOf(rows1, 1 .. e)
    <3>1. PICK i \in 1 .. N : rows1[i] = x
        BY <1>1
    <3>2. i \in 1 .. e
        BY <3>1
    <3> QED BY <3>1, <3>2 DEF ImageOf
  <2> QED BY <2>1
<1>4. ImageOf(rows2, 1 .. n2) \subseteq C
  <2>1. ASSUME NEW i \in 1 .. n2 PROVE rows2[i] \in C
    <3>1. rows2[i] \in S
        BY <1>1
    <3>2. CASE i = n2
        BY <1>1, <3>1, <3>2 DEF StrictlyOrders
    <3>3. CASE i # n2
        BY <1>1, <3>1, <3>3 DEF InOrder
    <3> QED BY <3>2, <3>3
  <2> QED BY <2>1 DEF ImageOf
<1>5. e \in 0 .. N /\ n2 \in 0 .. N
    BY <1>1
<1>6. /\ IsFiniteSet(ImageOf(rows1, 1 .. e)) /\ Cardinality(ImageOf(rows1, 1 .. e)) = e
      /\ Cardinality(ImageOf(rows2, 1 .. n2)) = n2
    BY <1>1, <1>5, FirstCount
<1> HIDE DEF C
<1>7. ImageOf(rows2, 1 .. n2) \in SUBSET ImageOf(rows1, 1 .. e)
    BY <1>3, <1>4
<1>8. n2 <= e
    BY <1>6, <1>7, PartCounts
<1> QED BY <1>8

\* The rows of a page are those in its places.
PlacesOn(n, p, limit) == {k \in 1 .. n : Skip(p, limit) < k /\ k <= Skip(p, limit) + limit}

IsPage(S, n, rows, p, limit) ==
    /\ Skip(p, limit) \in Nat
    /\ PageOf(rows, p, limit) \in Seq(S)
    /\ Range(PageOf(rows, p, limit)) = ImageOf(rows, PlacesOn(n, p, limit))

\* Those are the rows of PageOf.
LEMMA PageRows ==
    ASSUME NEW S, NEW n \in Nat, NEW rows \in [1 .. n -> S],
           NEW limit \in Nat \ {0}, NEW p \in Nat \ {0}
    PROVE  IsPage(S, n, rows, p, limit)
<1> DEFINE m == Skip(p, limit)
           end == m + limit
           last == IF n < end THEN n ELSE end
           page == PageOf(rows, p, limit)
<1>1. m \in Nat
    BY DEF Skip
<1>2. rows \in Seq(S) /\ Len(rows) = n
    OBVIOUS
<1>3. page = SubSeq(rows, m + 1, last)
    BY <1>2 DEF PageOf
<1> HIDE DEF m, page
<1>4. last \in Nat /\ last <= n /\ m + 1 \in Nat
    BY <1>1
<1>5. page = [i \in 1 .. (last - m) |-> rows[m + i]]
    BY <1>1, <1>2, <1>3, <1>4
<1>6. \A i \in 1 .. (last - m) : m + i \in 1 .. n
    BY <1>1, <1>4
<1>7. page \in Seq(S)
  <2>1. CASE last - m \in Nat
      BY <1>5, <1>6, <2>1, SMTT(20)
  <2>2. CASE last - m \notin Nat
    <3>1. 1 .. (last - m) = 1 .. 0
        BY <1>1, <1>4, <2>2
    <3>2. page = <<>>
        BY <1>5, <3>1
    <3> QED BY <3>2
  <2> QED BY <2>1, <2>2
<1> DEFINE places == {k \in 1 .. n : m < k /\ k <= m + limit}
<1>8. Range(page) = {rows[m + i] : i \in 1 .. (last - m)}
    BY <1>5 DEF Range
<1>9. {rows[m + i] : i \in 1 .. (last - m)} = {rows[i] : i \in places}
  <2>1. ASSUME NEW i \in 1 .. (last - m) PROVE m + i \in places
      BY <1>1, <1>4
  <2>2. ASSUME NEW i \in places PROVE i - m \in 1 .. (last - m) /\ m + (i - m) = i
      BY <1>1, <1>4
  <2> HIDE DEF last, places
  <2>3. \A i \in places : \E k \in 1 .. (last - m) : m + k = i
      BY <2>2
  <2> QED BY <2>1, <2>3
<1>10. places = PlacesOn(n, p, limit)
    BY DEF PlacesOn, m
<1> HIDE DEF places
<1>11. Range(page) = ImageOf(rows, PlacesOn(n, p, limit))
    BY <1>8, <1>9, <1>10 DEF ImageOf
<1> QED BY <1>1, <1>7, <1>11 DEF m, page, IsPage

\* A page ends where the next begins, or before.
LEMMA EarlierPagesEnd ==
    ASSUME NEW limit \in Nat \ {0}, NEW p \in Nat \ {0}, NEW q \in Nat, p < q
    PROVE  Skip(p, limit) + limit <= Skip(q, limit)
<1>1. q - 1 >= p
    OBVIOUS
<1>2. (q - 1) * limit >= p * limit
    BY <1>1
<1>3. (p - 1) * limit + limit = p * limit
    OBVIOUS
<1> QED BY <1>2, <1>3 DEF Skip

\* A food is on one page, or on several and tied with one that is not on all of them.
LEMMA FoodsOnPages ==
    ASSUME ListingsAssumption, ListingsInit, NEW sort \in Sorts, NEW limit \in PageSizes,
           NEW food \in menu
    PROVE  LET pages == 1 .. TotalPages(Cardinality(menu), limit)
               found == {[page |-> p, foods |-> Range(PageOf(rows, p, limit))] :
                            p \in pages, rows \in Results(sort)}
               on == {f.page : f \in {g \in found : food \in g.foods}}
           IN \/ Cardinality(on) = 1
              \/ /\ Cardinality(on) > 1
                 /\ \E f \in found : /\ food \in f.foods
                                     /\ \E other \in menu \ f.foods : Tied(sort, food, other)
<1> DEFINE N == Cardinality(menu)
           last == TotalPages(N, limit)
           pages == 1 .. last
           R == BeforeIn(sort)
           found == {[page |-> p, foods |-> Range(PageOf(rows, p, limit))] :
                            p \in pages, rows \in Results(sort)}
           on == {f.page : f \in {g \in found : food \in g.foods}}
           OnPage(rows, p) == food \in Range(PageOf(rows, p, limit))
           At(rows, p, i) == /\ i \in 1 .. N /\ rows[i] = food
                             /\ Skip(p, limit) < i /\ i <= Skip(p, limit) + limit
<1> SUFFICES \/ Cardinality(on) = 1
             \/ /\ Cardinality(on) > 1
                /\ \E f \in found : /\ food \in f.foods
                                    /\ \E other \in menu \ f.foods : Tied(sort, food, other)
    OBVIOUS
<1>1. menu \in Menus /\ limit \in Nat \ {0} /\ IsFiniteSet(menu)
    BY DEF ListingsInit, ListingsAssumption
<1>2. /\ StrictlyOrders(R, menu)
      /\ \A a, b \in menu : Before(sort, a, b) \/ Before(sort, b, a) \/ Tied(sort, a, b)
      /\ Results(sort) = {rows \in SetToSeqs(menu) : InOrder(rows, R)}
    BY <1>1, MenuOrders
<1>3. N \in Nat /\ \A rows \in Results(sort) :
        /\ rows \in SetToSeqs(menu) /\ InOrder(rows, R)
        /\ rows \in [1 .. N -> menu] /\ Apart(rows, 1 .. N)
        /\ \A x \in menu : \E i \in 1 .. N : rows[i] = x
  <2>1. N \in Nat
      BY <1>1, FS_CardinalityType
  <2>2. ASSUME NEW rows \in Results(sort)
        PROVE  /\ rows \in SetToSeqs(menu) /\ InOrder(rows, R)
               /\ rows \in [1 .. N -> menu] /\ Apart(rows, 1 .. N)
               /\ \A x \in menu : \E i \in 1 .. N : rows[i] = x
    <3>1. rows \in SetToSeqs(menu) /\ InOrder(rows, R)
        BY <1>2
    <3> QED BY <1>1, <3>1, ListsCover
  <2> QED BY <2>1, <2>2
<1>4. last \in Nat /\ \A i \in 1 .. N : \E p \in pages :
                Skip(p, limit) < i /\ i <= Skip(p, limit) + limit
    BY <1>1, <1>3, PagesHoldPlaces
<1>5. \A p \in pages : p \in Nat \ {0}
    BY <1>4
<1>6. \A rows \in Results(sort), p \in pages :
        /\ Skip(p, limit) \in Nat
        /\ Range(PageOf(rows, p, limit)) = ImageOf(rows, PlacesOn(N, p, limit))
        /\ OnPage(rows, p) <=> \E i : At(rows, p, i)
  <2> TAKE rows \in Results(sort), p \in pages
  <2>1. /\ Skip(p, limit) \in Nat
        /\ Range(PageOf(rows, p, limit)) = ImageOf(rows, PlacesOn(N, p, limit))
    <3>1. N \in Nat /\ rows \in [1 .. N -> menu] /\ limit \in Nat \ {0} /\ p \in Nat \ {0}
        BY <1>1, <1>3, <1>5
    <3> HIDE DEF N
    <3>2. IsPage(menu, N, rows, p, limit)
        BY <3>1, PageRows, Zenon
    <3> QED BY <3>2 DEF IsPage
  <2> QED BY <2>1 DEF ImageOf, PlacesOn
<1>7. PICK rows0 \in Results(sort) : TRUE
    BY <1>1, <1>2, OrderedListsExist
<1>8. PICK p0 \in pages : OnPage(rows0, p0)
  <2>1. PICK i \in 1 .. N : rows0[i] = food
      BY <1>3, <1>7
  <2>2. PICK p \in pages : Skip(p, limit) < i /\ i <= Skip(p, limit) + limit
      BY <1>4
  <2>3. At(rows0, p, i)
      BY <2>1, <2>2
  <2>4. OnPage(rows0, p)
    <3>1. \E j : At(rows0, p, j)
        BY <2>3
    <3> HIDE DEF At, OnPage
    <3> QED BY <1>6, <3>1
  <2> QED BY <2>4
<1>9. on = {p \in pages : \E rows \in Results(sort) : OnPage(rows, p)}
  <2>1. ASSUME NEW p \in on PROVE p \in pages /\ \E rows \in Results(sort) : OnPage(rows, p)
    <3>1. PICK f \in found : food \in f.foods /\ p = f.page
        OBVIOUS
    <3>2. PICK q \in pages, rows \in Results(sort) :
            f = [page |-> q, foods |-> Range(PageOf(rows, q, limit))]
        BY <3>1
    <3>3. p = q /\ OnPage(rows, p)
        BY <3>1, <3>2
    <3> QED BY <3>3
  <2>2. ASSUME NEW p \in pages, NEW rows \in Results(sort), OnPage(rows, p) PROVE p \in on
    <3> DEFINE f == [page |-> p, foods |-> Range(PageOf(rows, p, limit))]
    <3>1. f \in found /\ food \in f.foods /\ f.page = p
        BY <2>2
    <3> HIDE DEF f, found
    <3> QED BY <3>1
  <2> HIDE DEF on, OnPage
  <2> QED BY <2>1, <2>2
<1> HIDE DEF OnPage, At, found
<1>10. p0 \in on
  <2>1. p0 \in pages /\ \E rows \in Results(sort) : OnPage(rows, p0)
      BY <1>8
  <2> HIDE DEF pages, on
  <2> QED BY <1>9, <2>1
<1>11. IsFiniteSet(on) /\ Cardinality(on) \in Nat
  <2>1. IsFiniteSet(pages)
      BY <1>4, FS_Interval
  <2> QED BY <1>9, <2>1, FS_Subset, FS_CardinalityType
<1>12. CASE on = {p0}
  <2>1. Cardinality(on) = 1
      BY <1>12, FS_Singleton
  <2> QED BY <2>1
<1>13. CASE on # {p0}
  <2>1. PICK q0 \in on : q0 # p0
      BY <1>10, <1>13
  <2>2. Cardinality(on) > 1
    <3>1. Cardinality({p0}) = 1 /\ {p0} \in SUBSET on /\ {p0} # on
        BY <1>10, <1>13, FS_Singleton
    <3> HIDE DEF on
    <3> QED BY <1>11, <3>1, PartCounts
  <2>3. PICK p1 \in on, p2 \in on : p1 < p2
    <3>1. p0 \in Nat /\ q0 \in Nat
        BY <1>5, <1>8, <1>9, <2>1
    <3> HIDE DEF on
    <3> QED BY <1>10, <2>1, <3>1
  <2>4. PICK rows1 \in Results(sort), rows2 \in Results(sort) :
          p1 \in pages /\ p2 \in pages /\ OnPage(rows1, p1) /\ OnPage(rows2, p2)
      BY <1>9, <2>3
  <2>5. PICK n1 : At(rows1, p1, n1)
      BY <1>6, <2>4
  <2>6. PICK n2 : At(rows2, p2, n2)
      BY <1>6, <2>4
  <2> DEFINE e == Skip(p1, limit) + limit
  <2>7. e \in Nat /\ n1 <= e /\ e < n2
    <3>1. e <= Skip(p2, limit)
        BY <1>1, <1>5, <2>3, <2>4, EarlierPagesEnd
    <3>2. Skip(p1, limit) \in Nat /\ Skip(p2, limit) \in Nat
        BY <1>6, <2>4
    <3> QED BY <1>1, <2>5, <2>6, <3>1, <3>2 DEF At
  <2>8. PICK k \in 1 .. N :
          e < k /\ <<rows1[n1], rows1[k]>> \notin R /\ <<rows1[k], rows1[n1]>> \notin R
    <3>1. /\ rows1 \in SetToSeqs(menu) /\ InOrder(rows1, R)
          /\ rows2 \in SetToSeqs(menu) /\ InOrder(rows2, R)
        BY <1>3
    <3>2. n1 \in 1 .. N /\ n2 \in 1 .. N /\ rows1[n1] = rows2[n2]
        BY <2>5, <2>6 DEF At
    <3> DEFINE S == menu
    <3>3. IsFiniteSet(S) /\ StrictlyOrders(R, S)
        BY <1>1, <1>2
    <3>4. /\ rows1 \in SetToSeqs(S) /\ InOrder(rows1, R)
          /\ rows2 \in SetToSeqs(S) /\ InOrder(rows2, R)
        BY <3>1
    <3>5. n1 \in 1 .. Cardinality(S) /\ n2 \in 1 .. Cardinality(S)
        BY <3>2
    <3> HIDE DEF e, R, S
    <3>6. \E k \in 1 .. Cardinality(S) :
            e < k /\ <<rows1[n1], rows1[k]>> \notin R /\ <<rows1[k], rows1[n1]>> \notin R
      <4>1. AreApart(S, R, rows1, rows2, n1, n2, e)
          BY <2>7, <3>2, <3>3, <3>4, <3>5 DEF AreApart
      <4> QED BY <4>1, PagesOverlap
    <3> QED BY <3>6 DEF S
  <2>9. rows1[k] \in menu /\ rows1[n1] = food
      BY <1>3, <2>5 DEF At
  <2>10. Tied(sort, food, rows1[k])
      BY <1>2, <2>8, <2>9 DEF BeforeIn
  <2> DEFINE foods == Range(PageOf(rows1, p1, limit))
  <2>11. rows1[k] \notin foods
    <3>1. foods = ImageOf(rows1, PlacesOn(N, p1, limit))
        BY <1>6, <2>4
    <3>2. \A i \in 1 .. N : rows1[i] = rows1[k] => i = k
        BY <1>3 DEF Apart
    <3>3. ~(k <= e)
        BY <2>7, <2>8
    <3> HIDE DEF foods
    <3> QED BY <3>1, <3>2, <3>3 DEF ImageOf, PlacesOn
  <2>12. [page |-> p1, foods |-> foods] \in found
      BY <2>4 DEF found
  <2>13. food \in foods
      BY <2>4 DEF OnPage
  <2>14. rows1[k] \in menu \ foods
      BY <2>9, <2>11
  <2> HIDE DEF foods
  <2>15. \E f \in found : /\ food \in f.foods
                          /\ \E other \in menu \ f.foods : Tied(sort, food, other)
      BY <2>10, <2>12, <2>13, <2>14
  <2> HIDE DEF on
  <2> QED BY <2>2, <2>15
<1> QED BY <1>12, <1>13

\* Only a food with a discount comes before one that costs less, which has none.
LEMMA PricesAscend ==
    ASSUME ListingsAssumption, ListingsInit, NEW rows \in Results("price_asc"),
           NEW i \in DOMAIN rows, NEW j \in DOMAIN rows, i < j,
           FinalPrice(rows[j]) < FinalPrice(rows[i])
    PROVE  rows[i].discount # NoValue /\ rows[j].discount = NoValue
<1> DEFINE a == rows[i]
           b == rows[j]
<1>1. menu \in Menus /\ IsFiniteSet(menu) /\ menu \subseteq FoodRows
    BY DEF ListingsInit, ListingsAssumption
<1>2. "price_asc" \in Sorts
    BY DEF Sorts
<1>3. rows \in SetToSeqs(menu) /\ InOrder(rows, BeforeIn("price_asc"))
    BY <1>1, <1>2, MenuOrders
<1>4. a \in FoodRows /\ b \in FoodRows /\ a \in menu /\ b \in menu
    BY <1>1, <1>3, ListsCover
<1>5. ~Before("price_asc", b, a)
    BY <1>3, <1>4 DEF InOrder, BeforeIn
<1> HIDE DEF a, b
<1>6. /\ a.price \in Int /\ a.discount \in Int \cup {NoValue}
      /\ b.price \in Int /\ b.discount \in Int \cup {NoValue}
    BY <1>4 DEF FoodRows
<1> DEFINE x == SortKeys("price_asc", b)
           y == SortKeys("price_asc", a)
<1>7. /\ x = IF b.discount = NoValue THEN <<1, 0, b.price>> ELSE <<0, b.discount, b.price>>
      /\ y = IF a.discount = NoValue THEN <<1, 0, a.price>> ELSE <<0, a.discount, a.price>>
    BY <1>4, PriceKeys
<1>8. DOMAIN x = 1 .. 3
    BY <1>7
<1>9. \A k \in 1 .. 3 : ~(x[k] < y[k] /\ \A l \in 1 .. k - 1 : x[l] = y[l])
    BY <1>5, <1>8 DEF Before
<1> HIDE DEF x, y
<1>10. /\ ~(x[1] < y[1])
       /\ ~(x[2] < y[2] /\ x[1] = y[1])
       /\ ~(x[3] < y[3] /\ x[1] = y[1] /\ x[2] = y[2])
  <2>1. \A l \in 1 .. 1 - 1 : FALSE
      OBVIOUS
  <2>2. \A l \in 1 .. 2 - 1 : l = 1
      OBVIOUS
  <2>3. \A l \in 1 .. 3 - 1 : l = 1 \/ l = 2
      OBVIOUS
  <2> QED BY <1>9, <2>1, <2>2, <2>3
<1>11. FinalPrice(b) < FinalPrice(a)
    BY DEF a, b
<1>12. a.discount # NoValue /\ b.discount = NoValue
  <2>1. CASE a.discount = NoValue /\ b.discount = NoValue
      BY <1>6, <1>7, <1>10, <1>11, <2>1 DEF FinalPrice
  <2>2. CASE a.discount = NoValue /\ b.discount # NoValue
      BY <1>6, <1>7, <1>10, <1>11, <2>2 DEF FinalPrice
  <2>3. CASE a.discount # NoValue /\ b.discount # NoValue
      BY <1>6, <1>7, <1>10, <1>11, <2>3 DEF FinalPrice
  <2> QED BY <2>1, <2>2, <2>3
<1> QED BY <1>12 DEF a, b

LEMMA MenuPages == ListingsAssumption /\ ListingsInit => FoodsAreOnOnePageUnlessTied
<1> SUFFICES ASSUME ListingsAssumption, ListingsInit PROVE FoodsAreOnOnePageUnlessTied
    OBVIOUS
<1> QED BY FoodsOnPages, PricesAscend DEF FoodsAreOnOnePageUnlessTied

\* On which pages a food of the menu is found, for menus and pages of any size and
\* whatever order each query returns tied foods in (findAll).
THEOREM PageSafety == ListingsSpec => []FoodsAreOnOnePageUnlessTied
<1>1. ListingsInit /\ [FALSE]_menu => ListingsInit'
    BY DEF ListingsInit
<1>2. ListingsInit => FoodsAreOnOnePageUnlessTied
    BY ListingsAssumption, MenuPages
<1> QED BY <1>1, <1>2, PTL DEF ListingsSpec

(***************************************************************************)
(* Orders listed by the time of their creation, the last first.            *)
(***************************************************************************)
LEMMA FinitePart ==
    ASSUME NEW S, IsFiniteSet(S), NEW T \in SUBSET S
    PROVE  /\ IsFiniteSet(T) /\ Cardinality(T) \in Nat
           /\ Cardinality(T) <= Cardinality(S)
BY FS_Subset, FS_CardinalityType

LEMMA SingleAtMost ==
    ASSUME NEW A, IsFiniteSet(A), NEW B, IsFiniteSet(B),
           \A x, y \in B \ A : x = y
    PROVE  Cardinality(B) <= Cardinality(A) + 1
<1>1. CASE B \ A = {}
  <2>1. B \in SUBSET A
      BY <1>1
  <2> QED BY <2>1, FinitePart, FS_CardinalityType
<1>2. CASE B \ A # {}
  <2>1. PICK x \in B \ A : TRUE
      BY <1>2
  <2>2. B \in SUBSET (A \cup {x})
      BY <2>1
  <2>3. /\ IsFiniteSet(A \cup {x})
        /\ Cardinality(A \cup {x}) = Cardinality(A) + 1
      BY <2>1, FS_AddElement
  <2> QED BY <2>2, <2>3, FinitePart
<1> QED BY <1>1, <1>2

\* A place is counted from one, to as many as there are, and no two orders have
\* the same.
LEMMA PlacesOfOrders ==
    ASSUME NEW S \in SUBSET Nat, IsFiniteSet(S), NEW t \in S
    PROVE  /\ Place(S, t) \in Nat /\ 0 < Place(S, t)
           /\ Place(S, t) <= Cardinality(S)
           /\ \A u \in S : t < u => Place(S, u) < Place(S, t)
<1> DEFINE after(u) == {v \in S : v > u}
<1>1. \A u \in S : /\ IsFiniteSet(after(u)) /\ Cardinality(after(u)) \in Nat
                   /\ Cardinality(after(u) \cup {u}) = Cardinality(after(u)) + 1
  <2> TAKE u \in S
  <2>1. after(u) \in SUBSET S
      OBVIOUS
  <2>2. IsFiniteSet(after(u)) /\ Cardinality(after(u)) \in Nat
      BY <2>1, FinitePart
  <2>3. u \notin after(u)
      OBVIOUS
  <2> HIDE DEF after
  <2> QED BY <2>2, <2>3, FS_AddElement
<1>2. Cardinality(after(t) \cup {t}) <= Cardinality(S)
  <2>1. after(t) \cup {t} \in SUBSET S
      OBVIOUS
  <2> HIDE DEF after
  <2> QED BY <2>1, FinitePart
<1>3. \A u \in S : t < u => Cardinality(after(u) \cup {u}) <= Cardinality(after(t))
  <2> TAKE u \in S
  <2> HAVE t < u
  <2>1. \A v \in S : v \in Nat
      OBVIOUS
  <2>2. \A v \in S : v > u => v > t
      BY <2>1
  <2>3. after(u) \cup {u} \in SUBSET after(t)
      BY <2>1, <2>2
  <2> HIDE DEF after
  <2> QED BY <1>1, <2>3, FinitePart
<1>4. \A u \in S : Place(S, u) = 1 + Cardinality(after(u))
    BY DEF Place
<1> HIDE DEF after
<1>5. Place(S, t) \in Nat /\ 0 < Place(S, t) /\ Place(S, t) <= Cardinality(S)
  <2>1. Cardinality(S) \in Nat
      BY FS_CardinalityType
  <2> QED BY <1>1, <1>2, <1>4, <2>1
<1>6. ASSUME NEW u \in S, t < u PROVE Place(S, u) < Place(S, t)
  <2>1. Cardinality(after(u)) \in Nat /\ Cardinality(after(t)) \in Nat
      BY <1>1
  <2>2. Cardinality(after(u)) + 1 <= Cardinality(after(t))
      BY <1>1, <1>3, <1>6
  <2> QED BY <1>4, <2>1, <2>2
<1> QED BY <1>5, <1>6

LEMMA PlacesDiffer ==
    ASSUME NEW S \in SUBSET Nat, IsFiniteSet(S), NEW t \in S, NEW u \in S,
           Place(S, t) = Place(S, u)
    PROVE  t = u
<1>1. t \in Nat /\ u \in Nat
    OBVIOUS
<1>2. t < u \/ u < t \/ t = u
    BY <1>1
<1>3. ASSUME t < u PROVE FALSE
  <2>1. Place(S, u) < Place(S, t)
      BY <1>3, PlacesOfOrders
  <2>2. Place(S, t) \in Nat
      BY PlacesOfOrders
  <2> QED BY <2>1, <2>2
<1>4. ASSUME u < t PROVE FALSE
  <2>1. Place(S, t) < Place(S, u)
      BY <1>4, PlacesOfOrders
  <2>2. Place(S, t) \in Nat
      BY PlacesOfOrders
  <2> QED BY <2>1, <2>2
<1> QED BY <1>2, <1>3, <1>4

\* An order more moves those before it by one.
LEMMA PlacesMove ==
    ASSUME NEW S \in SUBSET Nat, IsFiniteSet(S), NEW x \in Nat \ S, NEW t \in S
    PROVE  /\ x > t => Place(S \cup {x}, t) = Place(S, t) + 1
           /\ ~(x > t) => Place(S \cup {x}, t) = Place(S, t)
<1> DEFINE after == {v \in S : v > t}
<1>1. IsFiniteSet(after) /\ Cardinality(after) \in Nat /\ x \notin after
  <2>1. after \in SUBSET S
      OBVIOUS
  <2> QED BY <2>1, FinitePart
<1>2. x > t => {v \in S \cup {x} : v > t} = after \cup {x}
    OBVIOUS
<1>3. ~(x > t) => {v \in S \cup {x} : v > t} = after
    OBVIOUS
<1>4. Place(S, t) = 1 + Cardinality(after)
    BY DEF Place
<1>5. Cardinality(after \cup {x}) = Cardinality(after) + 1
  <2> HIDE DEF after
  <2> QED BY <1>1, FS_AddElement
<1>6. Place(S \cup {x}, t) = 1 + Cardinality({v \in S \cup {x} : v > t})
    BY DEF Place
<1> HIDE DEF after
<1> QED BY <1>1, <1>2, <1>3, <1>4, <1>5, <1>6

\* The orders of K within the first places of S, and those beyond.
WithinPlaces(S, K, end) == {t \in K : Place(S, t) <= end}

BeyondPlaces(S, K, end) == {t \in K \cap S : Place(S, t) > end}

\* Of some orders at most one falls out of the first places when another comes.
LEMMA OneComes ==
    ASSUME NEW S \in SUBSET Nat, IsFiniteSet(S), NEW x \in Nat \ S,
           NEW K \in SUBSET S, NEW some \in SUBSET Nat, NEW end \in Int
    PROVE  /\ WithinPlaces(S \cup {x}, K, end) \in SUBSET WithinPlaces(S, K, end)
           /\ \A t, u \in WithinPlaces(S, K, end) \ WithinPlaces(S \cup {x}, K, end) : t = u
           /\ BeyondPlaces(S, some, end) \in SUBSET BeyondPlaces(S \cup {x}, some, end)
           /\ \A t, u \in BeyondPlaces(S \cup {x}, some, end) \ BeyondPlaces(S, some, end) :
                t = u
<1> DEFINE more == S \cup {x}
<1>1. IsFiniteSet(more) /\ more \in SUBSET Nat
    BY FS_AddElement
<1>2. \A t \in S : /\ Place(S, t) \in Nat /\ Place(more, t) \in Nat
                   /\ x > t => Place(more, t) = Place(S, t) + 1
                   /\ ~(x > t) => Place(more, t) = Place(S, t)
  <2> TAKE t \in S
  <2>1. Place(S, t) \in Nat
      BY PlacesOfOrders
  <2> QED BY <2>1, PlacesMove
<1>3. \A t, u \in more : Place(more, t) = Place(more, u) => t = u
  <2> HIDE DEF more
  <2> QED BY <1>1, PlacesDiffer
<1>4. Place(more, x) \in Nat /\ \A t \in S : x > t => Place(more, x) < Place(more, t)
  <2>1. x \in more /\ \A t \in S : t \in more /\ (x > t => t < x)
      OBVIOUS
  <2> HIDE DEF more
  <2>2. Place(more, x) \in Nat
      BY <1>1, <2>1, PlacesOfOrders
  <2>3. ASSUME NEW t \in S, x > t PROVE Place(more, x) < Place(more, t)
    <3>1. t \in more /\ t < x
        BY <2>1, <2>3
    <3> QED BY <1>1, <2>1, <3>1, PlacesOfOrders
  <2> QED BY <2>2, <2>3
<1> HIDE DEF more
<1>5. WithinPlaces(more, K, end) \in SUBSET WithinPlaces(S, K, end)
  <2> SUFFICES ASSUME NEW t \in K, Place(more, t) <= end PROVE Place(S, t) <= end
      BY DEF WithinPlaces
  <2>1. t \in S /\ end \in Int
      OBVIOUS
  <2> QED BY <1>2, <2>1
<1>6. ASSUME NEW t \in K, Place(S, t) <= end, ~(Place(more, t) <= end)
      PROVE  Place(more, t) = end + 1
    BY <1>2, <1>6
<1>7. \A t, u \in WithinPlaces(S, K, end) \ WithinPlaces(more, K, end) : t = u
  <2> SUFFICES ASSUME NEW t \in K, NEW u \in K,
                      Place(S, t) <= end, ~(Place(more, t) <= end),
                      Place(S, u) <= end, ~(Place(more, u) <= end)
               PROVE  t = u
      BY DEF WithinPlaces
  <2>1. Place(more, t) = Place(more, u)
      BY <1>6
  <2> QED BY <1>3, <2>1 DEF more
<1>8. BeyondPlaces(S, some, end) \in SUBSET BeyondPlaces(more, some, end)
  <2> SUFFICES ASSUME NEW t \in some \cap S, Place(S, t) > end
               PROVE  t \in more /\ Place(more, t) > end
      BY DEF BeyondPlaces
  <2> QED BY <1>2 DEF more
<1>9. ASSUME NEW t \in more, Place(more, t) > end, t \in S => ~(Place(S, t) > end)
      PROVE  \/ t = x
             \/ t \in S /\ x > t /\ Place(more, t) = end + 1
  <2>1. CASE t = x
      BY <2>1
  <2>2. CASE t \in S
      BY <1>2, <1>9, <2>2
  <2> QED BY <2>1, <2>2 DEF more
<1>10. ASSUME NEW t \in S, x > t, Place(more, t) = end + 1
       PROVE  ~(Place(more, x) > end)
    BY <1>4, <1>10
<1>11. \A t, u \in BeyondPlaces(more, some, end) \ BeyondPlaces(S, some, end) : t = u
  <2> SUFFICES ASSUME NEW t \in more, NEW u \in more,
                      Place(more, t) > end, t \in S => ~(Place(S, t) > end),
                      Place(more, u) > end, u \in S => ~(Place(S, u) > end)
               PROVE  t = u
      BY DEF BeyondPlaces
  <2>1. CASE t = x /\ u = x
      BY <2>1
  <2>2. CASE t # x /\ u # x
      BY <1>3, <1>9, <2>2
  <2>3. CASE t = x /\ u # x
    <3>1. u \in S /\ x > u /\ Place(more, u) = end + 1
        BY <1>9, <2>3
    <3> QED BY <1>10, <2>3, <3>1
  <2>4. CASE t # x /\ u = x
    <3>1. t \in S /\ x > t /\ Place(more, t) = end + 1
        BY <1>9, <2>4
    <3> QED BY <1>10, <2>4, <3>1
  <2> QED BY <2>1, <2>2, <2>3, <2>4
<1> QED BY <1>5, <1>7, <1>8, <1>11 DEF more

\* What is missed or lies beyond grows by no more than leave or come, when one row
\* is written.
LEMMA OneMoves ==
    ASSUME NEW S \in SUBSET Nat, IsFiniteSet(S), NEW x \in Nat, NEW T \in SUBSET Nat,
           T \ {x} = S \ {x}, NEW K \in SUBSET S, NEW some \in SUBSET Nat, NEW end \in Int
    PROVE  /\ IsFiniteSet(T)
           /\ Cardinality(S \ T) \in Nat /\ Cardinality(T \ S) \in Nat
           /\ Cardinality(WithinPlaces(S, K, end)) \in Nat
           /\ Cardinality(WithinPlaces(T, K \cap T, end)) \in Nat
           /\ Cardinality(WithinPlaces(T, K \cap T, end))
                <= Cardinality(WithinPlaces(S, K, end)) + Cardinality(S \ T)
           /\ Cardinality(BeyondPlaces(S, some, end)) \in Nat
           /\ Cardinality(BeyondPlaces(T, some, end)) \in Nat
           /\ Cardinality(BeyondPlaces(T, some, end))
                <= Cardinality(BeyondPlaces(S, some, end)) + Cardinality(T \ S)
<1>1. IsFiniteSet(T)
  <2>1. T \in SUBSET (S \cup {x})
      OBVIOUS
  <2> QED BY <2>1, FinitePart, FS_AddElement
<1>2. /\ WithinPlaces(S, K, end) \in SUBSET S /\ WithinPlaces(T, K \cap T, end) \in SUBSET T
      /\ BeyondPlaces(S, some, end) \in SUBSET S /\ BeyondPlaces(T, some, end) \in SUBSET T
      /\ S \ T \in SUBSET S /\ T \ S \in SUBSET T
    BY DEF WithinPlaces, BeyondPlaces
<1>3. /\ IsFiniteSet(WithinPlaces(S, K, end)) /\ Cardinality(WithinPlaces(S, K, end)) \in Nat
      /\ IsFiniteSet(WithinPlaces(T, K \cap T, end))
      /\ Cardinality(WithinPlaces(T, K \cap T, end)) \in Nat
      /\ IsFiniteSet(BeyondPlaces(S, some, end))
      /\ Cardinality(BeyondPlaces(S, some, end)) \in Nat
      /\ IsFiniteSet(BeyondPlaces(T, some, end))
      /\ Cardinality(BeyondPlaces(T, some, end)) \in Nat
      /\ Cardinality(S \ T) \in Nat /\ Cardinality(T \ S) \in Nat
    BY <1>1, <1>2, FinitePart
<1>4. CASE T = S
  <2>1. K \cap T = K
      BY <1>4
  <2>2. /\ WithinPlaces(T, K \cap T, end) = WithinPlaces(S, K, end)
        /\ BeyondPlaces(T, some, end) = BeyondPlaces(S, some, end)
      BY <1>4, <2>1
  <2> QED BY <1>1, <1>3, <2>2
<1>5. CASE T # S /\ x \notin S
  <2>1. T = S \cup {x} /\ x \in Nat \ S /\ K \cap T = K /\ T \ S = {x}
    <3>1. \A y : y # x => (y \in T <=> y \in S)
        OBVIOUS
    <3>2. x \in T
        BY <1>5, <3>1
    <3> QED BY <1>5, <3>1, <3>2
  <2>2. Cardinality(T \ S) = 1
      BY <2>1, FS_Singleton
  <2>3. /\ WithinPlaces(T, K, end) \in SUBSET WithinPlaces(S, K, end)
        /\ \A t, u \in BeyondPlaces(T, some, end) \ BeyondPlaces(S, some, end) : t = u
    <3>1. /\ WithinPlaces(S \cup {x}, K, end) \in SUBSET WithinPlaces(S, K, end)
          /\ \A t, u \in BeyondPlaces(S \cup {x}, some, end)
                          \ BeyondPlaces(S, some, end) : t = u
        BY <1>5, OneComes
    <3> QED BY <2>1, <3>1
  <2>4. Cardinality(WithinPlaces(T, K, end)) <= Cardinality(WithinPlaces(S, K, end))
      BY <1>3, <2>3, FinitePart
  <2>5. Cardinality(BeyondPlaces(T, some, end))
          <= Cardinality(BeyondPlaces(S, some, end)) + 1
      BY <1>3, <2>3, SingleAtMost
  <2> QED BY <1>1, <1>3, <2>1, <2>2, <2>4, <2>5
<1>6. CASE T # S /\ x \in S
  <2>1. S = T \cup {x} /\ x \in Nat \ T /\ K \cap T \in SUBSET T /\ S \ T = {x}
      BY <1>6
  <2>2. Cardinality(S \ T) = 1
      BY <2>1, FS_Singleton
  <2>3. /\ \A t, u \in WithinPlaces(T, K \cap T, end) \ WithinPlaces(S, K \cap T, end) :
              t = u
        /\ BeyondPlaces(T, some, end) \in SUBSET BeyondPlaces(S, some, end)
    <3>1. /\ \A t, u \in WithinPlaces(T, K \cap T, end)
                          \ WithinPlaces(T \cup {x}, K \cap T, end) : t = u
          /\ BeyondPlaces(T, some, end) \in SUBSET BeyondPlaces(T \cup {x}, some, end)
      <4> DEFINE KT == K \cap T
      <4>1. KT \in SUBSET T /\ x \in Nat \ T
          BY <2>1
      <4> HIDE DEF KT
      <4>2. /\ \A t, u \in WithinPlaces(T, KT, end) \ WithinPlaces(T \cup {x}, KT, end) :
                  t = u
            /\ BeyondPlaces(T, some, end) \in SUBSET BeyondPlaces(T \cup {x}, some, end)
          BY <1>1, <4>1, OneComes
      <4> QED BY <4>2 DEF KT
    <3> QED BY <2>1, <3>1
  <2>4. WithinPlaces(S, K \cap T, end) \in SUBSET WithinPlaces(S, K, end)
      BY DEF WithinPlaces
  <2>5. \A t, u \in WithinPlaces(T, K \cap T, end) \ WithinPlaces(S, K, end) : t = u
      BY <2>3, <2>4
  <2>6. Cardinality(WithinPlaces(T, K \cap T, end))
          <= Cardinality(WithinPlaces(S, K, end)) + 1
      BY <1>3, <2>5, SingleAtMost
  <2>7. Cardinality(BeyondPlaces(T, some, end)) <= Cardinality(BeyondPlaces(S, some, end))
      BY <1>3, <2>3, FinitePart
  <2> QED BY <1>1, <1>3, <2>2, <2>6, <2>7
<1> QED BY <1>4, <1>5, <1>6

(***************************************************************************)
(* The walk: what is missed and what lies beyond the pages shown.          *)
(***************************************************************************)
LEMMA PageEnds ==
    ASSUME NEW page \in Nat \ {0}, NEW limit \in Nat \ {0}
    PROVE  /\ Skip(page, limit) \in Nat /\ Skip(page + 1, limit) \in Nat
           /\ Skip(page + 1, limit) = Skip(page, limit) + limit
           /\ Skip(page + 1, limit) = page * limit
<1>1. (page - 1) * limit \in Nat /\ page * limit \in Nat
    OBVIOUS
<1>2. page * limit = (page - 1) * limit + limit
    OBVIOUS
<1>3. page + 1 - 1 = page
    OBVIOUS
<1> QED BY <1>1, <1>2, <1>3 DEF Skip

\* The last of the pages counted ends with the list.
LEMMA LastPageEnds ==
    ASSUME NEW n \in Nat, NEW limit \in Nat \ {0}, NEW page \in Nat \ {0},
           page + 1 > TotalPages(n, limit)
    PROVE  n <= Skip(page + 1, limit)
<1> DEFINE all == TotalPages(n, limit)
<1>1. all \in Nat /\ n <= all * limit
    BY PagesHoldPlaces
<1> HIDE DEF all
<1>2. all <= page
    BY <1>1 DEF all
<1>3. all * limit <= page * limit /\ all * limit \in Nat /\ page * limit \in Nat
  <2>1. page * limit = all * limit + (page - all) * limit
      BY <1>1
  <2>2. page - all \in Nat
      BY <1>1, <1>2
  <2>3. (page - all) * limit \in Nat /\ all * limit \in Nat
      BY <1>1, <2>2
  <2> QED BY <2>1, <2>3
<1>4. Skip(page + 1, limit) = page * limit
    BY PageEnds
<1> DEFINE a == all * limit
           b == page * limit
<1>5. a \in Nat /\ b \in Nat /\ n <= a /\ a <= b
    BY <1>1, <1>3
<1> HIDE DEF a, b
<1>6. n <= b
    BY <1>5
<1> QED BY <1>4, <1>6 DEF b

LEMMA ListedType ==
    /\ Listed \in SUBSET OrderIds /\ Listed \in SUBSET Nat /\ IsFiniteSet(Listed)
    /\ Cardinality(Listed) \in Nat
    /\ \A t \in Listed : Place(Listed, t) \in Nat
<1>1. Listed \in SUBSET OrderIds /\ OrderIds \in SUBSET Nat /\ IsFiniteSet(OrderIds)
    BY PagesAssumption DEF Listed
<1>2. IsFiniteSet(Listed) /\ Cardinality(Listed) \in Nat
    BY <1>1, FinitePart
<1>3. Listed \in SUBSET Nat
    BY <1>1
<1> QED BY <1>1, <1>2, <1>3, PlacesOfOrders

LEMMA FiniteOrders ==
    ASSUME NEW some \in SUBSET OrderIds
    PROVE  IsFiniteSet(some) /\ Cardinality(some) \in Nat
BY PagesAssumption, FinitePart

\* What is missed and what lies beyond are parts of the orders.
LEMMA CountsType ==
    ASSUME PagesType, NEW some \in SUBSET OrderIds, NEW end
    PROVE  /\ Missed(some, end) \in SUBSET OrderIds
           /\ Beyond(some, end) \in SUBSET OrderIds
           /\ IsFiniteSet(Missed(some, end)) /\ IsFiniteSet(Beyond(some, end))
           /\ Cardinality(Missed(some, end)) \in Nat
           /\ Cardinality(Beyond(some, end)) \in Nat
<1>1. Missed(some, end) \in SUBSET OrderIds /\ Beyond(some, end) \in SUBSET OrderIds
    BY ListedType DEF PagesType, Missed, Beyond
<1> QED BY <1>1, FiniteOrders

\* An order that is written moves what comes later by a place at most.
LEMMA OrderWritten ==
    ASSUME PagesInv, NEW t \in OrderIds, NEW row \in OrderRows, WriteOrder(t, row),
           recovering' \in SUBSET DOMAIN readRows, recovered' \in SUBSET DOMAIN readRows,
           changes' \in 0 .. MaxChanges
    PROVE  PagesInv'
<1> DEFINE S == Listed
           T == Listed'
           gone == Cardinality(S \ T)
           come == Cardinality(T \ S)
<1>1. PICK page, limit, some, soon :
        /\ page = nextPage /\ limit = wanted.limit
        /\ some = shown /\ soon = Upcoming
    OBVIOUS
<1>2. /\ nextPage' = page /\ wanted'.limit = limit /\ wanted' = wanted
      /\ shown' = some /\ Upcoming' = soon /\ readRows' = readRows
      /\ lastPage' = lastPage /\ counted' = counted /\ reading' = reading
      /\ repeats' = repeats
    BY <1>1 DEF WriteOrder, Upcoming
<1>3. /\ steady' = steady \cap T
      /\ departures' = departures + gone /\ arrivals' = arrivals + come
      /\ orders' = [orders EXCEPT ![t] = row]
    BY DEF WriteOrder
<1>4. /\ orders \in [OrderIds -> OrderRows \cup {NoOrder}]
      /\ page \in Nat \ {0} /\ limit \in Nat \ {0}
      /\ some \in SUBSET OrderIds /\ soon \in SUBSET OrderIds
      /\ steady \in SUBSET S
      /\ departures \in Nat /\ arrivals \in Nat /\ repeats \in Nat
      /\ reading \in BOOLEAN /\ counted \in Nat /\ lastPage \in Nat
    BY <1>1 DEF PagesInv, PagesType, Upcoming
<1>5. S \in SUBSET Nat /\ IsFiniteSet(S) /\ S \in SUBSET OrderIds
    BY ListedType
<1>6. /\ T \in SUBSET Nat /\ T \in SUBSET OrderIds /\ T \ {t} = S \ {t} /\ t \in Nat
      /\ OrderIds \in SUBSET Nat
  <2>1. OrderIds \in SUBSET Nat
      BY PagesAssumption
  <2>2. \A u \in OrderIds : u # t => orders'[u] = orders[u]
      BY <1>3, <1>4
  <2>3. T = {u \in OrderIds : /\ orders'[u] # NoOrder
                              /\ wanted.filter.status \in {Unfiltered, orders'[u].status}
                              /\ HasPayments(wanted.filter, orders'[u].payments)}
      BY <1>2 DEF Listed, HasStatus
  <2>4. S = {u \in OrderIds : /\ orders[u] # NoOrder
                              /\ wanted.filter.status \in {Unfiltered, orders[u].status}
                              /\ HasPayments(wanted.filter, orders[u].payments)}
      BY DEF Listed, HasStatus
  <2> HIDE DEF S, T
  <2>5. \A u \in OrderIds : u # t => (u \in T <=> u \in S)
      BY <2>2, <2>3, <2>4
  <2>6. T \in SUBSET OrderIds /\ S \in SUBSET OrderIds
      BY <2>3, <2>4
  <2> QED BY <2>1, <2>5, <2>6
<1> HIDE DEF S, T
<1>7. ASSUME NEW K \in SUBSET OrderIds, NEW end \in Nat
      PROVE  /\ gone \in Nat /\ come \in Nat
             /\ Cardinality(WithinPlaces(S, steady \ K, end)) \in Nat
             /\ Cardinality(WithinPlaces(T, steady' \ K, end)) \in Nat
             /\ Cardinality(WithinPlaces(T, steady' \ K, end))
                  <= Cardinality(WithinPlaces(S, steady \ K, end)) + gone
             /\ Cardinality(BeyondPlaces(S, K, end)) \in Nat
             /\ Cardinality(BeyondPlaces(T, K, end)) \in Nat
             /\ Cardinality(BeyondPlaces(T, K, end))
                  <= Cardinality(BeyondPlaces(S, K, end)) + come
  <2>1. steady' \ K = (steady \ K) \cap T
      BY <1>3
  <2>2. steady \ K \in SUBSET S /\ K \in SUBSET Nat /\ end \in Int
      BY <1>4, <1>6
  <2> DEFINE left == steady \ K
  <2> HIDE DEF left
  <2>3. left \in SUBSET S
      BY <2>2 DEF left
  <2>4. /\ IsFiniteSet(T)
        /\ Cardinality(S \ T) \in Nat /\ Cardinality(T \ S) \in Nat
        /\ Cardinality(WithinPlaces(S, left, end)) \in Nat
        /\ Cardinality(WithinPlaces(T, left \cap T, end)) \in Nat
        /\ Cardinality(WithinPlaces(T, left \cap T, end))
             <= Cardinality(WithinPlaces(S, left, end)) + Cardinality(S \ T)
        /\ Cardinality(BeyondPlaces(S, K, end)) \in Nat
        /\ Cardinality(BeyondPlaces(T, K, end)) \in Nat
        /\ Cardinality(BeyondPlaces(T, K, end))
             <= Cardinality(BeyondPlaces(S, K, end)) + Cardinality(T \ S)
      BY <1>5, <1>6, <2>2, <2>3, OneMoves
  <2> QED BY <2>1, <2>4 DEF left
<1>8. gone \in Nat /\ come \in Nat
    BY <1>7
<1> HIDE DEF gone, come
<1>9. ASSUME NEW K \in SUBSET OrderIds
      PROVE  /\ Cardinality(steady \ K) \in Nat
             /\ Cardinality(steady' \ K) \in Nat
             /\ Cardinality(steady' \ K) <= Cardinality(steady \ K)
  <2>1. steady' \ K \in SUBSET (steady \ K) /\ steady \ K \in SUBSET OrderIds
      BY <1>3, <1>4, <1>5
  <2>2. IsFiniteSet(steady \ K) /\ Cardinality(steady \ K) \in Nat
      BY <2>1, FiniteOrders
  <2> QED BY <2>1, <2>2, FinitePart
<1>10. PagesType'
  <2>1. orders' \in [OrderIds -> OrderRows \cup {NoOrder}]
      BY <1>3, <1>4
  <2>2. steady' \in SUBSET T
      BY <1>3
  <2>3. \A u \in DOMAIN readRows : u \in OrderIds /\ orders[u] # NoOrder
      BY DEF PagesInv, PagesType
  <2>4. \A u \in DOMAIN readRows : orders'[u] # NoOrder
      BY <1>3, <1>4, <2>3, PagesAssumption
  <2> QED BY <1>1, <1>2, <1>3, <1>4, <1>8, <2>1, <2>2, <2>4
          DEF PagesInv, PagesType, Upcoming, T
<1>11. ShownInv'
  <2> DEFINE end == Skip(page, limit)
  <2>1. end \in Nat
      BY <1>4, PageEnds
  <2> HIDE DEF end
  <2>2. /\ Cardinality(WithinPlaces(S, steady \ some, end)) <= departures
        /\ repeats + Cardinality(BeyondPlaces(S, some, end)) <= arrivals
        /\ page > lastPage => ~reading /\ Cardinality(steady \ some) <= departures
      BY <1>1 DEF PagesInv, ShownInv, Missed, Beyond, WithinPlaces, BeyondPlaces, S, end
  <2>3. /\ Cardinality(WithinPlaces(T, steady' \ some, end)) <= departures'
        /\ repeats + Cardinality(BeyondPlaces(T, some, end)) <= arrivals'
    <3> DEFINE m == Cardinality(WithinPlaces(S, steady \ some, end))
               n == Cardinality(WithinPlaces(T, steady' \ some, end))
               b == Cardinality(BeyondPlaces(S, some, end))
               c == Cardinality(BeyondPlaces(T, some, end))
    <3>1. m \in Nat /\ n \in Nat /\ n <= m + gone /\ b \in Nat /\ c \in Nat /\ c <= b + come
        BY <1>4, <1>7, <2>1
    <3>2. m <= departures /\ repeats + b <= arrivals
        BY <2>2
    <3> HIDE DEF m, n, b, c
    <3>3. n <= departures' /\ repeats + c <= arrivals'
        BY <1>3, <1>4, <1>8, <3>1, <3>2
    <3> QED BY <3>3 DEF n, c
  <2>4. ASSUME page > lastPage PROVE ~reading /\ Cardinality(steady' \ some) <= departures'
    <3> DEFINE m == Cardinality(steady \ some)
               n == Cardinality(steady' \ some)
    <3>1. m \in Nat /\ n \in Nat /\ n <= m
        BY <1>4, <1>9
    <3>2. ~reading /\ m <= departures
        BY <2>2, <2>4
    <3> HIDE DEF m, n
    <3>3. n <= departures'
        BY <1>3, <1>4, <1>8, <3>1, <3>2
    <3> QED BY <3>2, <3>3 DEF n
  <2> QED BY <1>2, <2>3, <2>4
          DEF ShownInv, Missed, Beyond, WithinPlaces, BeyondPlaces, T, end
<1>12. ASSUME reading PROVE UpcomingInv'
  <2> DEFINE end == Skip(page + 1, limit)
             seen == some \cup soon
  <2>1. end \in Nat /\ seen \in SUBSET OrderIds
      BY <1>4, PageEnds
  <2> HIDE DEF end, seen
  <2>2. /\ Cardinality(WithinPlaces(S, steady \ seen, end)) <= departures
        /\ repeats + Cardinality(soon \cap some) + Cardinality(BeyondPlaces(S, seen, end))
             <= arrivals
        /\ \A u \in soon \cap steady : HasStatus(readRows[u])
        /\ page + 1 > counted => Cardinality(steady \ seen) <= departures
      BY <1>1, <1>12
         DEF PagesInv, UpcomingInv, Missed, Beyond, WithinPlaces, BeyondPlaces, S, end, seen
  <2>3. Cardinality(soon \cap some) \in Nat
      BY <1>4, FiniteOrders
  <2>4. /\ Cardinality(WithinPlaces(T, steady' \ seen, end)) <= departures'
        /\ repeats + Cardinality(soon \cap some) + Cardinality(BeyondPlaces(T, seen, end))
             <= arrivals'
    <3> DEFINE m == Cardinality(WithinPlaces(S, steady \ seen, end))
               n == Cardinality(WithinPlaces(T, steady' \ seen, end))
               b == Cardinality(BeyondPlaces(S, seen, end))
               c == Cardinality(BeyondPlaces(T, seen, end))
               again == Cardinality(soon \cap some)
    <3>1. m \in Nat /\ n \in Nat /\ n <= m + gone /\ b \in Nat /\ c \in Nat /\ c <= b + come
        BY <1>7, <2>1
    <3>2. m <= departures /\ repeats + again + b <= arrivals /\ again \in Nat
        BY <2>2, <2>3
    <3> HIDE DEF m, n, b, c, again
    <3>3. n <= departures' /\ repeats + again + c <= arrivals'
        BY <1>3, <1>4, <1>8, <3>1, <3>2
    <3> QED BY <3>3 DEF n, c, again
  <2>5. ASSUME page + 1 > counted PROVE Cardinality(steady' \ seen) <= departures'
    <3> DEFINE m == Cardinality(steady \ seen)
               n == Cardinality(steady' \ seen)
    <3>1. m \in Nat /\ n \in Nat /\ n <= m
        BY <1>9, <2>1
    <3>2. m <= departures
        BY <2>2, <2>5
    <3> HIDE DEF m, n
    <3>3. n <= departures'
        BY <1>3, <1>4, <1>8, <3>1, <3>2
    <3> QED BY <3>3 DEF n
  <2>6. \A u \in soon \cap steady' : HasStatus(readRows[u])'
      BY <1>2, <1>3, <2>2 DEF HasStatus
  <2> QED BY <1>2, <2>4, <2>5, <2>6
          DEF UpcomingInv, Missed, Beyond, WithinPlaces, BeyondPlaces, T, end, seen
<1> QED BY <1>2, <1>10, <1>11, <1>12 DEF PagesInv

LEMMA PagesBegin == PagesInit => PagesInv
<1> SUFFICES ASSUME PagesInit PROVE PagesInv
    OBVIOUS
<1>1. /\ nextPage = 1 /\ lastPage = 1 /\ reading = FALSE /\ shown = {} /\ steady = Listed
      /\ repeats = 0 /\ departures = 0 /\ arrivals = 0
      /\ wanted \in [filter : ListFilters, limit : Nat \ {0}]
    BY PagesAssumption DEF PagesInit
<1>2. PagesType
  <2>1. orders \in [OrderIds -> OrderRows \cup {NoOrder}]
      BY PagesAssumption DEF PagesInit
  <2>2. DOMAIN readRows = {} /\ counted = 0 /\ recovering = {} /\ recovered = {}
      BY DEF PagesInit
  <2>3. changes \in 0 .. MaxChanges
      BY PagesAssumption DEF PagesInit
  <2>4. /\ nextPage \in Nat \ {0} /\ lastPage \in Nat /\ counted \in Nat
        /\ repeats \in Nat /\ departures \in Nat /\ arrivals \in Nat
      BY <1>1, <2>2
  <2>5. reading \in BOOLEAN /\ shown \subseteq OrderIds /\ steady \subseteq Listed
      BY <1>1
  <2>6. /\ DOMAIN readRows \subseteq OrderIds
        /\ \A t \in DOMAIN readRows : readRows[t] \in OrderStatuses /\ orders[t] # NoOrder
        /\ recovering \subseteq DOMAIN readRows /\ recovered \subseteq DOMAIN readRows
      BY <2>2
  <2> QED BY <1>1, <2>1, <2>3, <2>4, <2>5, <2>6 DEF PagesType
<1>3. Skip(nextPage, wanted.limit) = 0
  <2>1. wanted.limit \in Nat
      BY <1>1
  <2> QED BY <1>1, <2>1 DEF Skip
<1>4. Missed(shown, 0) = {} /\ Beyond(shown, 0) = {}
  <2>1. \A t \in Listed : ~(Place(Listed, t) <= 0)
      BY ListedType, PlacesOfOrders
  <2> QED BY <1>1, <2>1 DEF Missed, Beyond
<1> QED BY <1>1, <1>2, <1>3, <1>4, FS_EmptySet DEF PagesInv, ShownInv

\* The row of an order that is settled is one.
LEMMA FinalizedType ==
    ASSUME NEW row \in OrderRows PROVE Finalized(row) \subseteq OrderRows
<1>1. "PLACED" \in OrderStatuses /\ "CAPTURED" \in PaymentStatuses
    BY DEF OrderStatuses, PaymentStatuses
<1>2. /\ row.status \in OrderStatuses /\ row.payments \in SUBSET PaymentStatuses
      /\ row.captured \in BOOLEAN
      /\ row = [status |-> row.status, payments |-> row.payments, captured |-> row.captured]
    BY DEF OrderRows
<1>3. \A others \in {row.payments} \cup {row.payments \ {s} : s \in row.payments} :
        others \cup {"CAPTURED"} \in SUBSET PaymentStatuses
    BY <1>1, <1>2
<1> SUFFICES ASSUME NEW others \in {row.payments} \cup {row.payments \ {s} : s \in row.payments}
             PROVE  [row EXCEPT !.status = IF @ = "PENDING_PAYMENT" THEN "PLACED" ELSE @,
                                !.payments = others \cup {"CAPTURED"}] \in OrderRows
    BY DEF Finalized
<1>4. others \cup {"CAPTURED"} \in SUBSET PaymentStatuses
    BY <1>3
<1>5. (IF row.status = "PENDING_PAYMENT" THEN "PLACED" ELSE row.status) \in OrderStatuses
    BY <1>1, <1>2
<1> QED BY <1>4, <1>5 DEF OrderRows

\* A page that is found goes on where those shown end, and no row is missed
\* between them that was listed all the while.
LEMMA PageFound ==
    ASSUME PagesInv, FindPage PROVE PagesInv'
<1>1. PICK page, limit, end, after, found, some, all :
        /\ page = nextPage /\ limit = wanted.limit /\ some = shown
        /\ end = Skip(nextPage, wanted.limit) /\ after = Skip(nextPage + 1, wanted.limit)
        /\ found = OrdersOn(nextPage) /\ all = Cardinality(Listed)
    OBVIOUS
<1>2. PagesType /\ ShownInv /\ ~reading /\ page <= lastPage
    BY <1>1 DEF PagesInv, FindPage
<1>3. /\ page \in Nat \ {0} /\ limit \in Nat \ {0} /\ lastPage \in Nat
      /\ some \in SUBSET OrderIds /\ steady \in SUBSET Listed
      /\ departures \in Nat /\ arrivals \in Nat /\ repeats \in Nat
    BY <1>1, <1>2 DEF PagesType
<1>4. end \in Nat /\ after \in Nat /\ after = end + limit
    BY <1>1, <1>3, PageEnds
<1>5. found = {t \in Listed : end < Place(Listed, t) /\ Place(Listed, t) <= after}
    BY <1>1, <1>4 DEF OrdersOn
<1>6. /\ Listed \in SUBSET OrderIds /\ all \in Nat
      /\ \A t \in Listed : Place(Listed, t) \in Nat /\ Place(Listed, t) <= all
    BY <1>1, ListedType, PlacesOfOrders
<1>7. found \in SUBSET OrderIds
    BY <1>5, <1>6
<1>8. /\ orders' = orders /\ wanted' = wanted /\ nextPage' = nextPage /\ lastPage' = lastPage
      /\ shown' = shown /\ steady' = steady /\ repeats' = repeats
      /\ departures' = departures /\ arrivals' = arrivals /\ changes' = changes
      /\ reading' = TRUE
      /\ readRows' = [t \in found |-> orders[t].status]
      /\ counted' = TotalPages(all, limit)
      /\ recovering' \in SUBSET found /\ recovered' = {}
    BY <1>1 DEF FindPage
<1>9. Listed' = Listed
    BY <1>8 DEF Listed, HasStatus
<1>10. \A t \in Listed : HasStatus(orders[t].status) /\ orders[t].status \in OrderStatuses
  <2> TAKE t \in Listed
  <2>1. t \in OrderIds /\ orders[t] # NoOrder /\ HasStatus(orders[t].status)
      BY DEF Listed
  <2>2. orders[t] \in OrderRows
      BY <1>2, <2>1 DEF PagesType
  <2> QED BY <2>1, <2>2 DEF OrderRows
<1>11. TotalPages(all, limit) \in Nat
    BY <1>3, <1>6, PagesHoldPlaces
<1>12. PagesType'
  <2>1. /\ DOMAIN readRows' = found
        /\ \A t \in found : readRows'[t] \in OrderStatuses /\ orders[t] # NoOrder
      BY <1>5, <1>8, <1>10 DEF Listed
  <2> QED BY <1>2, <1>7, <1>8, <1>9, <1>11, <2>1 DEF PagesType
<1>13. ShownInv'
    BY <1>1, <1>2, <1>3, <1>8, <1>9 DEF ShownInv, Missed, Beyond
<1> DEFINE seen == some \cup found
<1>14. seen \in SUBSET OrderIds /\ found \cap some \in SUBSET OrderIds
    BY <1>3, <1>7
<1> HIDE DEF seen
<1>15. /\ Cardinality(Missed(some, end)) <= departures
       /\ repeats + Cardinality(Beyond(some, end)) <= arrivals
    BY <1>1, <1>2 DEF ShownInv
<1>16. Cardinality(Missed(seen, after)) <= departures
  <2>1. Missed(seen, after) \in SUBSET Missed(some, end)
      BY <1>3, <1>4, <1>5, <1>6 DEF Missed, seen
  <2>2. Cardinality(Missed(seen, after)) <= Cardinality(Missed(some, end))
      BY <1>2, <1>3, <2>1, CountsType, FinitePart
  <2>3. Cardinality(Missed(seen, after)) \in Nat /\ Cardinality(Missed(some, end)) \in Nat
      BY <1>2, <1>3, <1>14, CountsType
  <2> QED BY <1>3, <1>15, <2>2, <2>3
<1>17. repeats + Cardinality(found \cap some) + Cardinality(Beyond(seen, after)) <= arrivals
  <2> DEFINE again == found \cap some
             later == Beyond(seen, after)
  <2>1. /\ again \cup later \in SUBSET Beyond(some, end)
        /\ again \cap later = {}
      BY <1>3, <1>4, <1>5, <1>6 DEF Beyond, seen
  <2>2. /\ IsFiniteSet(again) /\ Cardinality(again) \in Nat
        /\ IsFiniteSet(later) /\ Cardinality(later) \in Nat
      BY <1>2, <1>14, CountsType, FiniteOrders
  <2>3. /\ IsFiniteSet(Beyond(some, end)) /\ Cardinality(Beyond(some, end)) \in Nat
      BY <1>2, <1>3, CountsType
  <2> HIDE DEF again, later
  <2>4. Cardinality(again \cup later) = Cardinality(again) + Cardinality(later)
    <3>1. Cardinality(again \cap later) = 0
        BY <2>1, FS_EmptySet
    <3>2. Cardinality(again \cup later)
            = Cardinality(again) + Cardinality(later) - Cardinality(again \cap later)
        BY <2>2, FS_Union
    <3> QED BY <2>2, <3>1, <3>2
  <2>5. Cardinality(again \cup later) <= Cardinality(Beyond(some, end))
      BY <2>1, <2>3, FinitePart
  <2>6. repeats + Cardinality(again) + Cardinality(later) <= arrivals
      BY <1>3, <1>15, <2>2, <2>3, <2>4, <2>5
  <2> QED BY <2>6 DEF again, later
<1>18. page + 1 > TotalPages(all, limit) => Cardinality(steady \ seen) <= departures
  <2> HAVE page + 1 > TotalPages(all, limit)
  <2>1. all <= after
      BY <1>1, <1>3, <1>6, LastPageEnds
  <2>2. \A t \in Listed : Place(Listed, t) <= after
      BY <1>4, <1>6, <2>1
  <2>3. steady \ seen = Missed(seen, after)
      BY <1>3, <2>2 DEF Missed
  <2> QED BY <1>16, <2>3
<1>19. \A t \in found : HasStatus(readRows'[t]) /\ HasStatus(readRows[t])' = HasStatus(readRows'[t])
    BY <1>5, <1>8, <1>10 DEF HasStatus
<1>20. UpcomingInv'
  <2>1. Upcoming' = found
      BY <1>8 DEF Upcoming
  <2>2. /\ nextPage' = page /\ wanted'.limit = limit /\ shown' = some
        /\ Skip(page + 1, limit) = after
      BY <1>1, <1>8
  <2> QED BY <1>8, <1>9, <1>16, <1>17, <1>18, <1>19, <2>1, <2>2
          DEF UpcomingInv, Missed, Beyond, seen
<1> QED BY <1>12, <1>13, <1>20 DEF PagesInv

\* Of the rows of a page that were listed all the while none is left out.
LEMMA PageShown ==
    ASSUME PagesInv, ShowPage PROVE PagesInv'
<1>1. PICK page, limit, after, some, seen, visible :
        /\ page = nextPage /\ limit = wanted.limit /\ some = shown
        /\ after = Skip(nextPage + 1, wanted.limit)
        /\ seen = shown \cup Upcoming /\ visible = Visible
    OBVIOUS
<1>2. PagesType /\ UpcomingInv /\ recovering = {} /\ recovered = {}
    BY DEF PagesInv, ShowPage
<1>3. /\ page \in Nat \ {0} /\ limit \in Nat \ {0}
      /\ some \in SUBSET OrderIds /\ Upcoming \in SUBSET OrderIds /\ steady \in SUBSET Listed
      /\ departures \in Nat /\ arrivals \in Nat /\ repeats \in Nat /\ counted \in Nat
    BY <1>1, <1>2 DEF PagesType, Upcoming
<1>4. visible \in SUBSET Upcoming /\ Upcoming \cap steady \in SUBSET visible
    BY <1>1, <1>2 DEF UpcomingInv, Visible, Upcoming
<1>5. /\ orders' = orders /\ wanted' = wanted /\ nextPage' = page + 1 /\ lastPage' = counted
      /\ shown' = some \cup visible /\ steady' = steady
      /\ repeats' = repeats + Cardinality(visible \cap some)
      /\ departures' = departures /\ arrivals' = arrivals /\ changes' = changes
      /\ reading' = FALSE /\ readRows' = <<>> /\ counted' = 0
      /\ recovering' = {} /\ recovered' = {}
    BY <1>1, <1>2 DEF ShowPage
<1>6. Listed' = Listed
    BY <1>5 DEF Listed, HasStatus
<1> DEFINE more == some \cup visible
           again == visible \cap some
           upcoming == Upcoming \cap some
<1>7. /\ more \in SUBSET OrderIds /\ seen \in SUBSET OrderIds
      /\ again \in SUBSET upcoming /\ upcoming \in SUBSET OrderIds
    BY <1>1, <1>3, <1>4
<1>8. /\ Missed(more, after) \in SUBSET Missed(seen, after)
      /\ Beyond(more, after) \in SUBSET Beyond(seen, after)
      /\ steady \ more \in SUBSET (steady \ seen)
    BY <1>1, <1>4 DEF Missed, Beyond
<1>9. steady \ seen \in SUBSET OrderIds
    BY <1>3, ListedType
<1> HIDE DEF more, again, upcoming
<1>10. /\ Cardinality(Missed(more, after)) <= Cardinality(Missed(seen, after))
       /\ Cardinality(Beyond(more, after)) <= Cardinality(Beyond(seen, after))
       /\ Cardinality(steady \ more) <= Cardinality(steady \ seen)
       /\ Cardinality(again) <= Cardinality(upcoming)
    BY <1>2, <1>7, <1>8, <1>9, CountsType, FiniteOrders, FinitePart
<1>11. /\ Cardinality(Missed(more, after)) \in Nat /\ Cardinality(Missed(seen, after)) \in Nat
       /\ Cardinality(Beyond(more, after)) \in Nat /\ Cardinality(Beyond(seen, after)) \in Nat
       /\ Cardinality(again) \in Nat /\ Cardinality(upcoming) \in Nat
       /\ Cardinality(steady \ seen) \in Nat /\ Cardinality(steady \ more) \in Nat
  <2>1. steady \ more \in SUBSET OrderIds /\ again \in SUBSET OrderIds
      BY <1>7, <1>8, <1>9
  <2> QED BY <1>2, <1>7, <1>9, <2>1, CountsType, FiniteOrders
<1>12. /\ Cardinality(Missed(seen, after)) <= departures
       /\ repeats + Cardinality(upcoming) + Cardinality(Beyond(seen, after)) <= arrivals
       /\ page + 1 > counted => Cardinality(steady \ seen) <= departures
    BY <1>1, <1>2 DEF UpcomingInv, upcoming
<1>13. /\ Cardinality(Missed(more, after)) <= departures
       /\ repeats' + Cardinality(Beyond(more, after)) <= arrivals
       /\ page + 1 > counted => Cardinality(steady \ more) <= departures
       /\ repeats' \in Nat
  <2>1. repeats' = repeats + Cardinality(again)
      BY <1>5 DEF again
  <2> QED BY <1>3, <1>10, <1>11, <1>12, <2>1
<1>14. PagesType'
  <2>1. page + 1 \in Nat \ {0} /\ DOMAIN <<>> = {}
      BY <1>3
  <2> QED BY <1>2, <1>3, <1>5, <1>6, <1>7, <1>13, <2>1 DEF PagesType, more
<1>15. ShownInv'
  <2>1. Skip(nextPage', wanted'.limit) = after
      BY <1>1, <1>5
  <2> QED BY <1>5, <1>6, <1>13, <2>1 DEF ShownInv, Missed, Beyond, more
<1> QED BY <1>5, <1>14, <1>15 DEF PagesInv

\* Steps that write no order and end no page.
LEMMA PageGoesOn ==
    ASSUME PagesInv,
           UNCHANGED <<orders, wanted, nextPage, lastPage, reading, counted, changes, shown,
                       steady, repeats, departures, arrivals>>,
           DOMAIN readRows' = DOMAIN readRows,
           \A t \in DOMAIN readRows : \/ readRows'[t] = readRows[t]
                                     \/ readRows'[t] = orders[t].status,
           recovering' \in SUBSET DOMAIN readRows, recovered' \in SUBSET DOMAIN readRows
    PROVE  PagesInv'
<1>1. Listed' = Listed /\ Upcoming' = Upcoming
    BY DEF Listed, HasStatus, Upcoming
<1>2. \A t \in DOMAIN readRows : t \in Listed => HasStatus(orders[t].status)
    BY DEF Listed
<1>3. PagesType /\ ShownInv /\ (reading => UpcomingInv)
    BY DEF PagesInv
<1>4. PagesType'
  <2>1. \A t \in DOMAIN readRows : readRows'[t] \in OrderStatuses /\ orders'[t] # NoOrder
    <3> TAKE t \in DOMAIN readRows
    <3>1. t \in OrderIds /\ orders[t] # NoOrder /\ readRows[t] \in OrderStatuses
        BY <1>3 DEF PagesType
    <3>2. orders[t] \in OrderRows
        BY <1>3, <3>1 DEF PagesType
    <3>3. orders[t].status \in OrderStatuses
        BY <3>2 DEF OrderRows
    <3> QED BY <3>1, <3>3
  <2> QED BY <1>1, <1>3, <2>1 DEF PagesType
<1>5. ShownInv'
    BY <1>1, <1>3 DEF ShownInv, Missed, Beyond
<1>6. ASSUME reading PROVE UpcomingInv'
  <2>1. \A t \in Upcoming \cap steady : HasStatus(readRows[t])
      BY <1>3, <1>6 DEF UpcomingInv
  <2>2. \A t \in Upcoming \cap steady : HasStatus(readRows[t])'
    <3> TAKE t \in Upcoming \cap steady
    <3>1. t \in DOMAIN readRows /\ t \in Listed /\ HasStatus(readRows[t])
        BY <1>3, <2>1 DEF PagesType, Upcoming
    <3>2. HasStatus(orders[t].status)
        BY <1>2, <3>1
    <3> QED BY <3>1, <3>2 DEF HasStatus
  <2> QED BY <1>1, <1>3, <1>6, <2>2 DEF UpcomingInv, Missed, Beyond
<1> QED BY <1>4, <1>5, <1>6 DEF PagesInv

LEMMA PageFails ==
    ASSUME PagesInv, FailPage PROVE PagesInv'
<1>1. /\ PagesType /\ ShownInv
      /\ UNCHANGED <<orders, wanted, nextPage, lastPage, changes, shown, steady, repeats,
                     departures, arrivals>>
      /\ reading' = FALSE /\ readRows' = <<>> /\ counted' = 0
      /\ recovering' = {} /\ recovered' = {}
    BY DEF PagesInv, FailPage
<1>2. Listed' = Listed
    BY <1>1 DEF Listed, HasStatus
<1>3. PagesType'
  <2>1. DOMAIN <<>> = {}
      OBVIOUS
  <2> QED BY <1>1, <1>2, <2>1 DEF PagesType
<1>4. ShownInv'
    BY <1>1, <1>2 DEF ShownInv, Missed, Beyond
<1> QED BY <1>1, <1>3, <1>4 DEF PagesInv

LEMMA PagesStep == PagesInv /\ [PagesNext]_pageVars => PagesInv'
<1> SUFFICES ASSUME PagesInv, [PagesNext]_pageVars PROVE PagesInv'
    OBVIOUS
<1>1. PagesType
    BY DEF PagesInv
<1>2. Rows \subseteq OrderRows /\ NoOrder \notin OrderRows
    BY PagesAssumption
<1>3. CASE FindPage
    BY <1>3, PageFound
<1>4. CASE FailPage
    BY <1>4, PageFails
<1>5. CASE ShowPage
    BY <1>5, PageShown
<1>6. ASSUME NEW t \in OrderIds, RecoverPayment(t) PROVE PagesInv'
  <2>1. PICK row \in Finalized(orders[t]) : WriteOrder(t, row)
      BY <1>6 DEF RecoverPayment
  <2>2. orders[t] \in OrderRows
      BY <1>1, <1>6 DEF PagesType, RecoverPayment
  <2>3. row \in OrderRows
      BY <2>1, <2>2, FinalizedType
  <2>4. /\ recovering' \in SUBSET DOMAIN readRows /\ recovered' \in SUBSET DOMAIN readRows
        /\ changes' \in 0 .. MaxChanges
      BY <1>1, <1>6 DEF PagesType, RecoverPayment
  <2> QED BY <2>1, <2>3, <2>4, OrderWritten
<1>7. ASSUME NEW t \in OrderIds, CreateOrder(t) \/ ChangeOrder(t) PROVE PagesInv'
  <2>1. PICK row \in Rows : WriteOrder(t, row)
      BY <1>7 DEF CreateOrder, ChangeOrder
  <2>2. /\ recovering' \in SUBSET DOMAIN readRows /\ recovered' \in SUBSET DOMAIN readRows
      BY <1>1, <1>7 DEF PagesType, CreateOrder, ChangeOrder
  <2>3. changes' \in 0 .. MaxChanges
      BY <1>1, <1>7, PagesAssumption DEF PagesType, CreateOrder, ChangeOrder
  <2> QED BY <1>2, <2>1, <2>2, <2>3, OrderWritten
<1>8. ASSUME NEW t \in OrderIds, ReadAgain(t) PROVE PagesInv'
    BY <1>1, <1>8, PageGoesOn DEF PagesType, ReadAgain
<1>9. ASSUME NEW t \in OrderIds, KeepAsRead(t) PROVE PagesInv'
    BY <1>1, <1>9, PageGoesOn DEF PagesType, KeepAsRead
<1>10. CASE UNCHANGED pageVars
    BY <1>1, <1>10, PageGoesOn DEF PagesType, pageVars
<1> QED BY <1>3, <1>4, <1>5, <1>6, <1>7, <1>8, <1>9, <1>10 DEF PagesNext

\* What a walk through the pages of a list of orders misses, for lists, pages and
\* filters of any kind, pages that settle payments and pages that fail, and whatever
\* other requests do to the orders meanwhile (findRecentOrders, findAdminOrders).
THEOREM WalkSafety == PagesSpec => []WalksMissAtMostDepartures
<1>1. PagesInv => WalksMissAtMostDepartures
    BY DEF PagesInv, ShownInv, WalksMissAtMostDepartures
<1> QED BY <1>1, PagesBegin, PagesStep, PTL DEF PagesSpec

\* What it shows again (findRecentOrders, findAdminOrders).
THEOREM RepeatSafety == PagesSpec => []RepeatsNeedArrivals
<1>1. PagesInv => RepeatsNeedArrivals
  <2> SUFFICES ASSUME PagesInv PROVE repeats <= arrivals
      BY DEF RepeatsNeedArrivals
  <2> DEFINE later == Cardinality(Beyond(shown, Skip(nextPage, wanted.limit)))
  <2>1. repeats \in Nat /\ arrivals \in Nat /\ shown \in SUBSET OrderIds /\ PagesType
      BY DEF PagesInv, PagesType
  <2>2. later \in Nat
      BY <2>1, CountsType
  <2>3. repeats + later <= arrivals
      BY DEF PagesInv, ShownInv
  <2> HIDE DEF later
  <2> QED BY <2>1, <2>2, <2>3
<1> QED BY <1>1, PagesBegin, PagesStep, PTL DEF PagesSpec

(***************************************************************************)
(* Places picked from a list.                                              *)
(***************************************************************************)
\* The places picked are listed in their order, each once.
LEMMA PlacesInOrder ==
    ASSUME NEW n \in Nat, NEW S \in SUBSET (1 .. n)
    PROVE  /\ IsFiniteSet(S) /\ Cardinality(S) \in Nat
           /\ InPlace(S) \in [1 .. Cardinality(S) -> S]
           /\ InPlace(S) \in Seq(S) /\ Len(InPlace(S)) = Cardinality(S)
           /\ Range(InPlace(S)) = S
           /\ Apart(InPlace(S), 1 .. Cardinality(S))
           /\ \A i, j \in 1 .. Cardinality(S) : i < j => InPlace(S)[i] < InPlace(S)[j]
<1> DEFINE R == {p \in Nat \X Nat : p[1] < p[2]}
           rows == InPlace(S)
           all == {r \in SetToSeqs(S) : \A i, j \in DOMAIN r : i < j => ~(r[j] < r[i])}
<1>1. IsFiniteSet(S) /\ Cardinality(S) \in Nat
  <2>1. IsFiniteSet(1 .. n)
      BY FS_Interval
  <2> QED BY <2>1, FS_Subset, FS_CardinalityType
<1>2. \A a \in S : a \in Nat
    OBVIOUS
<1>3. StrictlyOrders(R, S)
    BY <1>2 DEF StrictlyOrders
<1>4. PICK some \in SetToSeqs(S) : InOrder(some, R)
    BY <1>1, <1>3, OrderedListsExist
<1>5. some \in all
  <2>1. some \in [1 .. Cardinality(S) -> S]
      BY DEF SetToSeqs
  <2>2. \A i, j \in DOMAIN some : i < j => <<some[j], some[i]>> \notin R
      BY <1>4 DEF InOrder
  <2>3. \A i \in DOMAIN some : some[i] \in Nat
      BY <1>2, <2>1
  <2>4. \A i, j \in DOMAIN some : i < j => ~(some[j] < some[i])
      BY <2>2, <2>3
  <2> QED BY <2>4
<1>6. rows = CHOOSE r \in all : TRUE
    BY DEF InPlace, Arranged, Arrangements
<1>7. rows \in all
    BY <1>5, <1>6
<1> HIDE DEF rows
<1>8. /\ rows \in [1 .. Cardinality(S) -> S] /\ rows \in Seq(S) /\ Len(rows) = Cardinality(S)
      /\ Range(rows) = S /\ Apart(rows, 1 .. Cardinality(S))
    BY <1>1, <1>7, ListsCover
<1>9. ASSUME NEW i \in 1 .. Cardinality(S), NEW j \in 1 .. Cardinality(S), i < j
      PROVE  rows[i] < rows[j]
  <2>1. ~(rows[j] < rows[i])
      BY <1>7, <1>8, <1>9
  <2>2. rows[i] # rows[j] /\ rows[i] \in Nat /\ rows[j] \in Nat
    <3>1. rows[i] # rows[j]
        BY <1>8, <1>9 DEF Apart
    <3>2. rows[i] \in S /\ rows[j] \in S
        BY <1>8
    <3> QED BY <1>2, <3>1, <3>2
  <2> QED BY <2>1, <2>2
<1> QED BY <1>1, <1>8, <1>9 DEF rows


LEMMA Grown ==
    ASSUME NEW S, IsFiniteSet(S), NEW T \in SUBSET S, NEW x \in S \ T
    PROVE  /\ IsFiniteSet(T) /\ Cardinality(T) \in Nat
           /\ T \cup {x} \in SUBSET S
           /\ Cardinality(T \cup {x}) = Cardinality(T) + 1
BY FS_Subset, FS_CardinalityType, FS_AddElement

\* Equal weights have equal sums.
LEMMA SumSame ==
    ASSUME NEW S, IsFiniteSet(S), NEW w, NEW v, Weighs(w, S), \A x \in S : w[x] = v[x]
    PROVE  SumOf(w, S) = SumOf(v, S)
<1> DEFINE P == {T \in SUBSET S : SumOf(w, T) = SumOf(v, T)}
<1>1. {} \in P
    BY SumOfNone
<1>2. ASSUME NEW T \in SUBSET S, NEW x \in S \ T, T \in P PROVE T \cup {x} \in P
  <2>1. IsFiniteSet(T) /\ Weighs(w, T) /\ Weighs(v, T) /\ w[x] \in Int /\ v[x] \in Int
      BY Grown DEF Weighs
  <2>2. /\ SumOf(w, T \cup {x}) = w[x] + SumOf(w, T)
        /\ SumOf(v, T \cup {x}) = v[x] + SumOf(v, T)
      BY <2>1, SumWith
  <2> QED BY <1>2, <2>2
<1> HIDE DEF P
<1>3. S \in P
    BY <1>1, <1>2, SetInduction
<1> QED BY <1>3 DEF P

\* The sum of sums.
LEMMA SumAdds ==
    ASSUME NEW S, IsFiniteSet(S), NEW w, NEW u, NEW v, Weighs(w, S), Weighs(u, S),
           \A x \in S : v[x] = w[x] + u[x]
    PROVE  SumOf(v, S) = SumOf(w, S) + SumOf(u, S)
<1> DEFINE P == {T \in SUBSET S : SumOf(v, T) = SumOf(w, T) + SumOf(u, T)}
<1>1. {} \in P
    BY SumOfNone
<1>2. ASSUME NEW T \in SUBSET S, NEW x \in S \ T, T \in P PROVE T \cup {x} \in P
  <2>1. /\ IsFiniteSet(T) /\ Weighs(w, T) /\ Weighs(u, T) /\ Weighs(v, T)
        /\ w[x] \in Int /\ u[x] \in Int /\ v[x] = w[x] + u[x] /\ v[x] \in Int
    <3>1. IsFiniteSet(T)
        BY Grown
    <3>2. \A y \in S : w[y] \in Int /\ u[y] \in Int /\ v[y] \in Int
        BY DEF Weighs
    <3> QED BY <3>1, <3>2 DEF Weighs
  <2>2. /\ SumOf(w, T \cup {x}) = w[x] + SumOf(w, T)
        /\ SumOf(u, T \cup {x}) = u[x] + SumOf(u, T)
        /\ SumOf(v, T \cup {x}) = v[x] + SumOf(v, T)
      BY <2>1, SumWith
  <2>3. SumOf(w, T) \in Int /\ SumOf(u, T) \in Int
      BY <2>1, SumType
  <2>4. SumOf(v, T) = SumOf(w, T) + SumOf(u, T)
      BY <1>2
  <2> QED BY <2>1, <2>2, <2>3, <2>4
<1> HIDE DEF P
<1>3. S \in P
    BY <1>1, <1>2, SetInduction
<1> QED BY <1>3 DEF P

\* Elements that all weigh the same.
LEMMA SumOfEqual ==
    ASSUME NEW S, IsFiniteSet(S), NEW w, NEW c \in Nat, NEW part \in SUBSET S,
           \A x \in S : w[x] = IF x \in part THEN c ELSE 0
    PROVE  SumOf(w, S) = c * Cardinality(part)
<1> DEFINE P == {T \in SUBSET S : SumOf(w, T) = c * Cardinality(T \cap part)}
<1>0. Weighs(w, S)
    BY DEF Weighs
<1>1. {} \in P
    BY SumOfNone, FS_EmptySet
<1>2. ASSUME NEW T \in SUBSET S, NEW x \in S \ T, T \in P PROVE T \cup {x} \in P
  <2>1. IsFiniteSet(T) /\ Weighs(w, T) /\ w[x] \in Int
      BY <1>0, Grown DEF Weighs
  <2>2. SumOf(w, T \cup {x}) = w[x] + SumOf(w, T)
      BY <2>1, SumWith
  <2>3. SumOf(w, T) \in Int /\ SumOf(w, T) = c * Cardinality(T \cap part)
      BY <1>2, <2>1, SumType
  <2>4. T \cap part \in SUBSET S /\ Cardinality(T \cap part) \in Nat
      BY FS_Subset, FS_CardinalityType
  <2>5. CASE x \in part
    <3>1. (T \cup {x}) \cap part = (T \cap part) \cup {x} /\ x \in S \ (T \cap part)
        BY <2>5
    <3>2. Cardinality((T \cap part) \cup {x}) = Cardinality(T \cap part) + 1
        BY <2>4, <3>1, Grown
    <3> DEFINE k == Cardinality(T \cap part)
    <3>3. k \in Nat
        BY <2>4
    <3> HIDE DEF k
    <3>4. c * (k + 1) = c + c * k
        BY <3>3
    <3>5. w[x] = c
        BY <2>5
    <3> QED BY <2>2, <2>3, <3>1, <3>2, <3>4, <3>5 DEF k
  <2>6. CASE x \notin part
    <3>1. (T \cup {x}) \cap part = T \cap part
        BY <2>6
    <3>2. w[x] = 0
        BY <2>6
    <3> QED BY <2>2, <2>3, <3>1, <3>2
  <2> QED BY <2>5, <2>6
<1> HIDE DEF P
<1>3. S \in P
    BY <1>1, <1>2, SetInduction
<1>4. S \cap part = part
    OBVIOUS
<1> QED BY <1>3, <1>4 DEF P

\* In an order that tells all rows apart, a row's place is how many come before it.
LEMMA RowPlace ==
    ASSUME NEW S, IsFiniteSet(S), NEW R, StrictlyOrders(R, S),
           \A x, y \in S : x = y \/ <<x, y>> \in R \/ <<y, x>> \in R,
           NEW rows \in SetToSeqs(S), InOrder(rows, R), NEW k \in 1 .. Cardinality(S)
    PROVE  /\ rows[k] \in S /\ k \in Nat
           /\ Cardinality({x \in S : <<x, rows[k]>> \in R}) = k - 1
<1> DEFINE m == Cardinality(S)
<1>1. /\ m \in Nat /\ rows \in [1 .. m -> S] /\ Apart(rows, 1 .. m)
      /\ \A x \in S : \E i \in 1 .. m : rows[i] = x
    BY ListsCover
<1>2. \A i \in 1 .. m : <<rows[i], rows[k]>> \in R <=> i < k
  <2> TAKE i \in 1 .. m
  <2>1. rows[i] \in S /\ rows[k] \in S
      BY <1>1
  <2>2. i < k => <<rows[k], rows[i]>> \notin R
      BY <1>1 DEF InOrder
  <2>3. k < i => <<rows[i], rows[k]>> \notin R
      BY <1>1 DEF InOrder
  <2>4. i < k => rows[i] # rows[k]
      BY <1>1 DEF Apart
  <2>5. i = k => <<rows[i], rows[k]>> \notin R
      BY <2>1 DEF StrictlyOrders
  <2>6. i < k \/ i = k \/ k < i
      BY <1>1
  <2> QED BY <2>1, <2>2, <2>3, <2>4, <2>5, <2>6
<1>3. {x \in S : <<x, rows[k]>> \in R} = ImageOf(rows, 1 .. k - 1)
  <2>1. \A i \in 1 .. m : i \in 1 .. k - 1 <=> i < k
      BY <1>1
  <2>2. 1 .. k - 1 \subseteq 1 .. m
      BY <1>1
  <2>3. \A i \in 1 .. m : rows[i] \in S
      BY <1>1
  <2> HIDE DEF m
  <2> QED BY <1>1, <1>2, <2>1, <2>2, <2>3 DEF ImageOf
<1>4. k - 1 \in 0 .. m /\ k \in Nat /\ rows[k] \in S
    BY <1>1
<1>5. Cardinality(ImageOf(rows, 1 .. k - 1)) = k - 1
    BY <1>1, <1>4, FirstCount
<1> QED BY <1>3, <1>4, <1>5

\* The first rows of a list of n.
IsFirst(some, rows, n, limit) ==
    /\ Len(some) = IF n < limit THEN n ELSE limit
    /\ Range(some) = {rows[i] : i \in {k \in 1 .. n : k <= limit}}

\* The rows that FirstOf keeps.
LEMMA FirstRows ==
    ASSUME NEW S, NEW n \in Nat, NEW rows \in [1 .. n -> S], NEW limit \in Nat
    PROVE  IsFirst(FirstOf(limit, rows), rows, n, limit)
<1> DEFINE last == IF n < limit THEN n ELSE limit
           some == FirstOf(limit, rows)
<1>1. rows \in Seq(S) /\ Len(rows) = n
    OBVIOUS
<1>2. some = SubSeq(rows, 1, last)
    BY <1>1 DEF FirstOf
<1>3. last \in Nat /\ last <= n
    OBVIOUS
<1>4. some \in Seq(S) /\ Len(some) = last /\ \A i \in 1 .. last : some[i] = rows[i]
    BY <1>1, <1>2, <1>3
<1>5. 1 .. last = {i \in 1 .. n : i <= limit}
    OBVIOUS
<1> HIDE DEF some, last
<1>6. DOMAIN some = 1 .. last
    BY <1>3, <1>4
<1>7. Range(some) = {rows[i] : i \in {k \in 1 .. n : k <= limit}}
    BY <1>4, <1>5, <1>6 DEF Range
<1>8. Len(some) = IF n < limit THEN n ELSE limit
    BY <1>4 DEF last
<1> QED BY <1>1, <1>5, <1>6, <1>7, <1>8 DEF some, IsFirst

(***************************************************************************)
(* What is in the menu, and the scores.                                    *)
(***************************************************************************)
\* h[k] is the list after k of the tags.
Tagged(values, n, h) ==
    /\ h[0] = <<>>
    /\ \A k \in 1 .. n : h[k] = AddTag(h[k - 1], values[k])
    /\ h[n] = NormalizeList(values)

\* NormalizeList adds the tags one by one.
LEMMA TagsExist ==
    ASSUME NEW n \in Nat, NEW values \in [1 .. n -> STRING]
    PROVE  \E h : Tagged(values, n, h)
<1> DEFINE Eq(g) == g = [s \in SUBSET (1 .. n) |->
                            IF s = {} THEN <<>>
                            ELSE AddTag(g[s \ {Max(s)}], values[Max(s)])]
           all == CHOOSE g : Eq(g)
           step == [p \in Seq(STRING) \X STRING |-> AddTag(p[1], p[2])]
           h == [k \in 0 .. n |-> all[1 .. k]]
<1>1. DOMAIN values = 1 .. n
    OBVIOUS
<1>2. NormalizeList(values) = all[1 .. n]
    BY <1>1 DEF NormalizeList, FoldLeft, MapThenFoldSet
<1>3. step \in [Seq(STRING) \X STRING -> Seq(STRING)]
  <2>1. ASSUME NEW X, NEW list, list \in Seq(X), NEW tag, tag \in X
        PROVE  AddTag(list, tag) \in Seq(X)
    <3>1. Append(list, tag) \in Seq(X)
        BY <2>1
    <3>2. AddTag(list, tag) = list \/ AddTag(list, tag) = Append(list, tag)
        BY Zenon DEF AddTag
    <3> QED BY <2>1, <3>1, <3>2
  <2>2. \A p \in Seq(STRING) \X STRING : p[1] \in Seq(STRING) /\ p[2] \in STRING
      OBVIOUS
  <2> QED BY <2>1, <2>2
<1>4. \E g : Eq(g)
  <2>0. <<>> \in Seq(STRING)
      OBVIOUS
  <2>1. PICK g \in [SUBSET (1 .. n) -> Seq(STRING)] : Folds(step, <<>>, values, g, 1 .. n)
      BY <1>3, <2>0, FoldsExist
  <2>2. ASSUME NEW s \in SUBSET (1 .. n), s # {}
        PROVE  g[s] = AddTag(g[s \ {Max(s)}], values[Max(s)])
    <3>1. Max(s) \in 1 .. n /\ s \ {Max(s)} \in SUBSET (1 .. n)
        BY <2>2, MaxOf
    <3>2. g[s \ {Max(s)}] \in Seq(STRING) /\ values[Max(s)] \in STRING
        BY <3>1
    <3>3. g[s] = step[<<g[s \ {Max(s)}], values[Max(s)]>>]
        BY <2>1, <2>2 DEF Folds
    <3> QED BY <3>2, <3>3
  <2>3. g[{}] = <<>>
      BY <2>1 DEF Folds
  <2>4. Eq(g)
      BY <2>2, <2>3
  <2> QED BY <2>4
<1>5. Eq(all)
    BY <1>4
<1> HIDE DEF all
<1>6. h[0] = <<>>
  <2>1. 1 .. 0 = {}
      OBVIOUS
  <2>2. all[{}] = <<>>
      BY <1>5
  <2>3. 0 \in 0 .. n
      OBVIOUS
  <2> QED BY <2>1, <2>2, <2>3
<1>7. ASSUME NEW k \in 1 .. n PROVE h[k] = AddTag(h[k - 1], values[k])
  <2>1. k \in Nat \ {0} /\ k \in 0 .. n /\ k - 1 \in 0 .. n
      OBVIOUS
  <2>2. 1 .. k \in SUBSET (1 .. n) /\ k \in 1 .. k
      BY <2>1
  <2>3. Max(1 .. k) = k /\ (1 .. k) \ {k} = 1 .. (k - 1)
      BY <2>1, MaxOfPrefix
  <2>4. all[1 .. k] = AddTag(all[1 .. (k - 1)], values[k])
      BY <1>5, <2>2, <2>3
  <2> QED BY <2>1, <2>4
<1>8. h[n] = all[1 .. n]
    OBVIOUS
<1> HIDE DEF h
<1>9. Tagged(values, n, h)
    BY <1>2, <1>6, <1>7, <1>8 DEF Tagged
<1> QED BY <1>9

IsTags(tags) == tags \in Seq(STRING) /\ Apart(tags, 1 .. Len(tags))

\* A list that is one element longer.
IsAppended(X, s, x) ==
    /\ Append(s, x) \in Seq(X) /\ Len(Append(s, x)) = Len(s) + 1 /\ Len(s) \in Nat
    /\ Append(s, x)[Len(s) + 1] = x
    /\ \A i \in 1 .. Len(s) : Append(s, x)[i] = s[i]

LEMMA AppendIs ==
    ASSUME NEW X, NEW s \in Seq(X), NEW x \in X
    PROVE  IsAppended(X, s, x)
BY DEF IsAppended

\* No tag is repeated in the list that is kept.
LEMMA TagsAreApart ==
    ASSUME NEW values \in Seq(STRING)
    PROVE  IsTags(NormalizeList(values))
<1> DEFINE n == Len(values)
<1>1. n \in Nat /\ values \in [1 .. n -> STRING]
    OBVIOUS
<1>2. PICK h : Tagged(values, n, h)
    BY <1>1, TagsExist
<1> HIDE DEF n
<1> DEFINE P == {k \in Nat : k <= n => IsTags(h[k])}
<1>3. 0 \in P
  <2>1. h[0] = <<>>
      BY <1>2 DEF Tagged
  <2>2. IsTags(<<>>)
      BY DEF IsTags, Apart
  <2> QED BY <2>1, <2>2
<1>4. ASSUME NEW k \in Nat, k \in P PROVE k + 1 \in P
  <2>1. ASSUME k + 1 <= n PROVE IsTags(h[k + 1])
    <3>1. k + 1 \in 1 .. n /\ (k + 1) - 1 = k /\ k <= n
        BY <1>1, <2>1
    <3>2. h[k + 1] = AddTag(h[k], values[k + 1])
        BY <1>2, <3>1 DEF Tagged
    <3>3. IsTags(h[k]) /\ values[k + 1] \in STRING
        BY <1>1, <1>4, <3>1
    <3> DEFINE list == h[k]
               tag == values[k + 1]
    <3>4. list \in Seq(STRING) /\ Apart(list, 1 .. Len(list)) /\ tag \in STRING
        BY <3>3 DEF IsTags
    <3> HIDE DEF list, tag
    <3>5. CASE tag = "" \/ tag \in Range(list)
      <4>1. AddTag(list, tag) = list
          BY <3>5, Zenon DEF AddTag
      <4> QED BY <3>2, <3>3, <4>1 DEF list, tag
    <3>6. CASE ~(tag = "" \/ tag \in Range(list))
      <4>1. AddTag(list, tag) = Append(list, tag)
          BY <3>6, Zenon DEF AddTag
      <4> DEFINE new == Append(list, tag)
                 m == Len(list)
      <4>2. /\ new \in Seq(STRING) /\ Len(new) = m + 1 /\ m \in Nat
            /\ new[m + 1] = tag /\ \A i \in 1 .. m : new[i] = list[i]
        <5>1. list \in Seq(STRING) /\ tag \in STRING
            BY <3>4
        <5>2. IsAppended(STRING, list, tag)
            BY <5>1, AppendIs, Zenon
        <5> QED BY <5>2 DEF IsAppended
      <4>3. \A i \in 1 .. m : list[i] # tag
        <5>1. DOMAIN list = 1 .. m
            BY <3>4
        <5>2. tag \notin {list[i] : i \in 1 .. m}
            BY <3>6, <5>1, Zenon DEF Range
        <5> QED BY <5>2
      <4>4. \A i \in 1 .. m + 1 : i \in 1 .. m \/ i = m + 1
          BY <4>2
      <4> HIDE DEF new, m
      <4>5. ASSUME NEW i \in 1 .. m + 1, NEW j \in 1 .. m + 1, new[i] = new[j] PROVE i = j
        <5>1. CASE i \in 1 .. m /\ j \in 1 .. m
            BY <3>4, <4>2, <4>5, <5>1 DEF Apart, m
        <5>2. CASE i = m + 1 /\ j \in 1 .. m
            BY <4>2, <4>3, <4>5, <5>2
        <5>3. CASE j = m + 1 /\ i \in 1 .. m
            BY <4>2, <4>3, <4>5, <5>3
        <5> QED BY <4>4, <5>1, <5>2, <5>3
      <4>6. IsTags(new)
          BY <4>2, <4>5 DEF IsTags, Apart
      <4> QED BY <3>2, <4>1, <4>6 DEF list, tag, new
    <3> QED BY <3>5, <3>6, Zenon
  <2> QED BY <2>1
<1> HIDE DEF P
<1>5. Nat \subseteq P
    BY <1>3, <1>4, NumberInduction
<1>6. IsTags(h[n])
  <2>1. n \in P
      BY <1>1, <1>5
  <2> QED BY <1>1, <2>1 DEF P
<1> QED BY <1>2, <1>6 DEF Tagged

\* What is known of a kitchen.
LEMMA KitchenType ==
    ASSUME RecommendationsAssumption, RecommendationsInit
    PROVE  /\ KitchenFoods \subseteq Int /\ IsFiniteSet(KitchenFoods)
           /\ \A food \in KitchenFoods :
                kitchen[food].base \in Int /\ IsTags(kitchen[food].tags)
           /\ IsFiniteSet(RecentItems)
           /\ \A item \in RecentItems : item[2] \in KitchenFoods
<1>1. PICK inputs \in Kitchens : kitchen = [food \in DOMAIN inputs |-> NewFood(inputs[food])]
    BY DEF RecommendationsInit
<1>2. KitchenFoods = DOMAIN inputs
    BY <1>1 DEF KitchenFoods
<1>3. KitchenFoods \subseteq Int /\ IsFiniteSet(KitchenFoods)
    BY <1>2 DEF RecommendationsAssumption
<1>4. ASSUME NEW food \in KitchenFoods
      PROVE  kitchen[food].base \in Int /\ IsTags(kitchen[food].tags)
  <2>1. inputs[food] \in FoodInputs
      BY <1>2 DEF RecommendationsAssumption
  <2>2. kitchen[food] = NewFood(inputs[food])
      BY <1>1, <1>2
  <2>3. /\ NewFood(inputs[food]).base = inputs[food].base
        /\ NewFood(inputs[food]).tags = NormalizeList(inputs[food].tags)
        /\ inputs[food].base \in Int /\ inputs[food].tags \in Seq(STRING)
      BY <2>1 DEF NewFood, FoodInputs
  <2> QED BY <2>2, <2>3, TagsAreApart
<1>5. \A item \in RecentItems : item \in (1 .. RecentOrders) \X KitchenFoods
    BY DEF RecentItems, RecommendationsInit
<1>6. IsFiniteSet((1 .. RecentOrders) \X KitchenFoods)
  <2>1. IsFiniteSet(1 .. RecentOrders)
      BY FS_Interval DEF RecommendationsAssumption
  <2> QED BY <1>3, <2>1, FS_Product
<1>7. IsFiniteSet(RecentItems)
    BY <1>5, <1>6, FS_Subset
<1> QED BY <1>3, <1>4, <1>5, <1>7

TagsOf(food) == kitchen[food].tags

Slots(food) == DOMAIN TagsOf(food)

LEMMA SlotsType ==
    ASSUME RecommendationsAssumption, RecommendationsInit, NEW food \in KitchenFoods
    PROVE  /\ IsFiniteSet(Slots(food)) /\ Cardinality(Slots(food)) \in Nat
           /\ Apart(TagsOf(food), Slots(food))
<1>1. IsTags(TagsOf(food))
    BY KitchenType DEF TagsOf
<1>2. Slots(food) = 1 .. Len(TagsOf(food)) /\ Len(TagsOf(food)) \in Nat
    BY <1>1 DEF IsTags, Slots
<1>3. IsFiniteSet(1 .. Len(TagsOf(food)))
    BY <1>2, FS_Interval
<1> QED BY <1>1, <1>2, <1>3, FS_CardinalityType DEF IsTags

\* A tag is in a food at most once.
LEMMA TimesIs ==
    ASSUME RecommendationsAssumption, RecommendationsInit, NEW food \in KitchenFoods, NEW tag
    PROVE  Times(tag, food) = IF \E i \in Slots(food) : TagsOf(food)[i] = tag THEN 1 ELSE 0
<1> DEFINE where == {i \in Slots(food) : TagsOf(food)[i] = tag}
<1>1. Times(tag, food) = Cardinality(where)
    BY DEF Times, Slots, TagsOf
<1>2. Apart(TagsOf(food), Slots(food))
    BY SlotsType
<1>3. CASE \E i \in Slots(food) : TagsOf(food)[i] = tag
  <2>1. PICK i \in Slots(food) : TagsOf(food)[i] = tag
      BY <1>3
  <2>2. where = {i}
      BY <1>2, <2>1 DEF Apart
  <2>3. Cardinality(where) = 1
      BY <2>2, FS_Singleton
  <2> QED BY <1>1, <1>3, <2>3
<1>4. CASE ~\E i \in Slots(food) : TagsOf(food)[i] = tag
  <2>1. where = {}
      BY <1>4
  <2>2. Cardinality(where) = 0
      BY <2>1, FS_EmptySet
  <2> QED BY <1>1, <1>4, <2>2
<1> QED BY <1>3, <1>4

LEMMA TimesType ==
    ASSUME RecommendationsAssumption, RecommendationsInit, NEW food \in KitchenFoods, NEW tag
    PROVE  Times(tag, food) \in Int
BY TimesIs

LEMMA FavouritesType ==
    ASSUME RecommendationsAssumption, RecommendationsInit, NEW favourites \in SUBSET KitchenFoods
    PROVE  IsFiniteSet(favourites) /\ \A food \in favourites : food \in KitchenFoods
BY KitchenType, FS_Subset

\* What a new favourite adds to the scores of categories,
LEMMA CategoryGrows ==
    ASSUME RecommendationsAssumption, RecommendationsInit, NEW category,
           NEW favourites \in SUBSET KitchenFoods, NEW food \in KitchenFoods \ favourites
    PROVE  /\ CategoryScore(category, favourites) \in Int
           /\ CategoryScore(category, favourites \cup {food}) =
                CategoryScore(category, favourites)
                    + (IF kitchen[food].category = category THEN 4 ELSE 0)
<1> DEFINE ordered == {item \in RecentItems : kitchen[item[2]].category = category}
           liked == {f \in favourites : kitchen[f].category = category}
           now == {f \in favourites \cup {food} : kitchen[f].category = category}
<1>1. Cardinality(ordered) \in Nat
  <2>1. IsFiniteSet(RecentItems)
      BY KitchenType
  <2> QED BY <2>1, FS_Subset, FS_CardinalityType
<1>2. IsFiniteSet(liked) /\ Cardinality(liked) \in Nat /\ food \notin liked
    BY FavouritesType, FS_Subset, FS_CardinalityType
<1>3. Cardinality(now) = Cardinality(liked)
                            + (IF kitchen[food].category = category THEN 1 ELSE 0)
  <2>1. CASE kitchen[food].category = category
    <3>1. now = liked \cup {food}
        BY <2>1
    <3> HIDE DEF liked, now
    <3>2. Cardinality(liked \cup {food}) = Cardinality(liked) + 1
        BY <1>2, FS_AddElement
    <3> QED BY <2>1, <3>1, <3>2
  <2>2. CASE kitchen[food].category # category
    <3>1. now = liked
        BY <2>2
    <3> HIDE DEF liked, now
    <3>2. Cardinality(liked) + 0 = Cardinality(liked)
        BY <1>2
    <3> QED BY <2>2, <3>1, <3>2
  <2> QED BY <2>1, <2>2
<1>4. /\ CategoryScore(category, favourites) = 3 * Cardinality(ordered) + 4 * Cardinality(liked)
      /\ CategoryScore(category, favourites \cup {food}) =
            3 * Cardinality(ordered) + 4 * Cardinality(now)
    BY DEF CategoryScore
<1> HIDE DEF ordered, liked, now
<1> QED BY <1>1, <1>2, <1>3, <1>4

TimesIn(tag, foods) == [food \in foods |-> Times(tag, food)]

TimesOrdered(tag) == [item \in RecentItems |-> Times(tag, item[2])]

\* The score of a tag as two sums.
LEMMA TagScoreIs ==
    ASSUME NEW tag, NEW favourites
    PROVE  TagScore(tag, favourites) =
                SumOf(TimesOrdered(tag), RecentItems)
                    + 2 * SumOf(TimesIn(tag, favourites), favourites)
BY DEF TagScore, SumFunction, SumOf, TimesOrdered, TimesIn

LEMMA TagType ==
    ASSUME RecommendationsAssumption, RecommendationsInit, NEW tag,
           NEW favourites \in SUBSET KitchenFoods
    PROVE  TagScore(tag, favourites) \in Int
<1>1. IsFiniteSet(favourites) /\ IsFiniteSet(RecentItems)
    BY FavouritesType, KitchenType
<1>2. Weighs(TimesOrdered(tag), RecentItems)
    BY KitchenType, TimesType DEF Weighs, TimesOrdered
<1>3. Weighs(TimesIn(tag, favourites), favourites)
    BY FavouritesType, TimesType DEF Weighs, TimesIn
<1>4. /\ SumOf(TimesOrdered(tag), RecentItems) \in Int
      /\ SumOf(TimesIn(tag, favourites), favourites) \in Int
    BY <1>1, <1>2, <1>3, SumType
<1> QED BY <1>4, TagScoreIs

\* to those of tags,
LEMMA TagGrows ==
    ASSUME RecommendationsAssumption, RecommendationsInit, NEW tag,
           NEW favourites \in SUBSET KitchenFoods, NEW food \in KitchenFoods \ favourites
    PROVE  /\ TagScore(tag, favourites) \in Int
           /\ TagScore(tag, favourites \cup {food}) =
                TagScore(tag, favourites) + 2 * Times(tag, food)
<1> DEFINE w == TimesIn(tag, favourites)
           v == TimesIn(tag, favourites \cup {food})
           o == TimesOrdered(tag)
<1>1. IsFiniteSet(favourites) /\ IsFiniteSet(RecentItems)
    BY FavouritesType, KitchenType
<1>2. Weighs(o, RecentItems)
    BY KitchenType, TimesType DEF Weighs, TimesOrdered
<1>3. \A f \in favourites \cup {food} : f \in KitchenFoods /\ Times(tag, f) \in Int
    BY TimesType
<1>4. Weighs(w, favourites) /\ Weighs(v, favourites)
    BY <1>3 DEF Weighs, TimesIn
<1>5. v[food] = Times(tag, food) /\ v[food] \in Int /\ \A f \in favourites : w[f] = v[f]
    BY <1>3 DEF TimesIn
<1>6. SumOf(o, RecentItems) \in Int /\ SumOf(w, favourites) \in Int
    BY <1>1, <1>2, <1>4, SumType
<1> HIDE DEF w, v, o
<1>7. SumOf(v, favourites \cup {food}) = v[food] + SumOf(v, favourites)
    BY <1>1, <1>4, <1>5, SumWith
<1>8. SumOf(w, favourites) = SumOf(v, favourites)
    BY <1>1, <1>4, <1>5, SumSame
<1>9. TagScore(tag, favourites) = SumOf(o, RecentItems) + 2 * SumOf(w, favourites)
    BY TagScoreIs DEF o, w
<1>10. TagScore(tag, favourites \cup {food}) =
            SumOf(o, RecentItems) + 2 * SumOf(v, favourites \cup {food})
    BY TagScoreIs DEF o, v
<1> QED BY <1>5, <1>6, <1>7, <1>8, <1>9, <1>10

\* What the tags of a food score together.
TagScores(food, favourites) == [i \in Slots(food) |-> TagScore(TagsOf(food)[i], favourites)]

\* The slots of a food whose tag another food has too.
Shared(food, other) ==
    {i \in Slots(food) : \E j \in Slots(other) : TagsOf(other)[j] = TagsOf(food)[i]}

\* A food shares no more tags with another than it has.
LEMMA SharedCounts ==
    ASSUME RecommendationsAssumption, RecommendationsInit,
           NEW food \in KitchenFoods, NEW other \in KitchenFoods
    PROVE  /\ Cardinality(Shared(food, other)) \in Nat
           /\ Cardinality(Shared(food, other)) <= Cardinality(Slots(other))
           /\ Shared(other, other) = Slots(other)
<1> DEFINE where == [i \in Shared(food, other) |->
                        CHOOSE j \in Slots(other) : TagsOf(other)[j] = TagsOf(food)[i]]
<1>1. \A i \in Shared(food, other) :
        where[i] \in Slots(other) /\ TagsOf(other)[where[i]] = TagsOf(food)[i]
    BY DEF Shared
<1> HIDE DEF where
<1>2. IsFiniteSet(Shared(food, other)) /\ Cardinality(Shared(food, other)) \in Nat
    BY SlotsType, FS_Subset, FS_CardinalityType DEF Shared
<1>3. Apart(where, Shared(food, other))
  <2>1. \A i, j \in Shared(food, other) : TagsOf(food)[i] = TagsOf(food)[j] => i = j
      BY SlotsType DEF Apart, Shared
  <2> QED BY <1>1, <2>1 DEF Apart
<1>4. Cardinality(ImageOf(where, Shared(food, other))) = Cardinality(Shared(food, other))
    BY <1>2, <1>3, ImageCounts
<1>5. ImageOf(where, Shared(food, other)) \in SUBSET Slots(other)
    BY <1>1 DEF ImageOf
<1>6. Cardinality(Shared(food, other)) <= Cardinality(Slots(other))
  <2>1. IsFiniteSet(Slots(other))
      BY SlotsType
  <2> QED BY <1>4, <1>5, <2>1, PartCounts
<1>7. Shared(other, other) = Slots(other)
    BY DEF Shared
<1> QED BY <1>2, <1>6, <1>7

\* and to those of all the tags of a food.
LEMMA TagsGrow ==
    ASSUME RecommendationsAssumption, RecommendationsInit, NEW food \in KitchenFoods,
           NEW favourites \in SUBSET KitchenFoods, NEW x \in KitchenFoods \ favourites
    PROVE  /\ SumOf(TagScores(food, favourites), Slots(food)) \in Int
           /\ SumOf(TagScores(food, favourites \cup {x}), Slots(food)) =
                SumOf(TagScores(food, favourites), Slots(food))
                    + 2 * Cardinality(Shared(food, x))
<1> DEFINE w == TagScores(food, favourites)
           v == TagScores(food, favourites \cup {x})
           u == [i \in Slots(food) |-> 2 * Times(TagsOf(food)[i], x)]
<1>1. IsFiniteSet(Slots(food))
    BY SlotsType
<1>2. \A i \in Slots(food) : v[i] = w[i] + u[i]
    BY TagGrows DEF TagScores
<1>3. Weighs(w, Slots(food))
    BY TagGrows DEF TagScores, Weighs
<1>4. \A i \in Slots(food) : u[i] = IF i \in Shared(food, x) THEN 2 ELSE 0
  <2>1. \A i \in Slots(food) : Times(TagsOf(food)[i], x) = IF i \in Shared(food, x) THEN 1 ELSE 0
      BY TimesIs DEF Shared
  <2> QED BY <2>1
<1> HIDE DEF w, u, v
<1>5. Weighs(u, Slots(food))
    BY <1>4 DEF Weighs
<1>6. SumOf(v, Slots(food)) = SumOf(w, Slots(food)) + SumOf(u, Slots(food))
    BY <1>1, <1>2, <1>3, <1>5, SumAdds
<1>7. SumOf(u, Slots(food)) = 2 * Cardinality(Shared(food, x))
  <2>1. Shared(food, x) \in SUBSET Slots(food) /\ 2 \in Nat
      BY DEF Shared
  <2> QED BY <1>1, <1>4, <2>1, SumOfEqual
<1>8. SumOf(w, Slots(food)) \in Int
    BY <1>1, <1>3, SumType
<1> QED BY <1>6, <1>7, <1>8 DEF w, v

LEMMA ScoresType ==
    ASSUME RecommendationsAssumption, RecommendationsInit, NEW food \in KitchenFoods,
           NEW favourites \in SUBSET KitchenFoods
    PROVE  Scores(favourites)[food] \in Int
<1> DEFINE Rest == (IF kitchen[food].featured THEN 8 ELSE 0)
           Own == (IF food \in Purchased THEN 12 ELSE 0)
           tags == SumOf(TagScores(food, favourites), Slots(food))
           cat == CategoryScore(kitchen[food].category, favourites)
<1>1. Scores(favourites)[food] = kitchen[food].base + cat + tags + Rest - Own
    BY DEF Scores, SumFunction, SumOf, TagScores, Slots, TagsOf
<1>2. kitchen[food].base \in Int /\ Rest \in Int /\ Own \in Int
    BY KitchenType
<1>3. cat \in Int
  <2>1. IsFiniteSet(RecentItems) /\ IsFiniteSet(favourites)
      BY KitchenType, FavouritesType
  <2>2. \A part \in SUBSET RecentItems : Cardinality(part) \in Nat
      BY <2>1, FS_Subset, FS_CardinalityType
  <2>3. \A part \in SUBSET favourites : Cardinality(part) \in Nat
      BY <2>1, FS_Subset, FS_CardinalityType
  <2> QED BY <2>2, <2>3 DEF CategoryScore
<1>4. tags \in Int
  <2>1. Weighs(TagScores(food, favourites), Slots(food))
      BY TagType DEF Weighs, TagScores
  <2> QED BY <2>1, SlotsType, SumType
<1> HIDE DEF Rest, Own, tags, cat
<1> QED BY <1>1, <1>2, <1>3, <1>4

\* The score of a food grows as its category and its tags do.
LEMMA ScoresGrow ==
    ASSUME RecommendationsAssumption, RecommendationsInit, NEW food \in KitchenFoods,
           NEW favourites \in SUBSET KitchenFoods, NEW x \in KitchenFoods \ favourites
    PROVE  /\ Scores(favourites)[food] \in Int
           /\ Scores(favourites \cup {x})[food] =
                Scores(favourites)[food]
                    + (IF kitchen[x].category = kitchen[food].category THEN 4 ELSE 0)
                    + 2 * Cardinality(Shared(food, x))
<1> DEFINE Rest == (IF kitchen[food].featured THEN 8 ELSE 0)
           Own == (IF food \in Purchased THEN 12 ELSE 0)
           Tag(f) == SumOf(TagScores(food, f), Slots(food))
           Cat(f) == CategoryScore(kitchen[food].category, f)
           base == kitchen[food].base
           more == IF kitchen[x].category = kitchen[food].category THEN 4 ELSE 0
           share == Cardinality(Shared(food, x))
<1>1. \A f : Scores(f)[food] = base + Cat(f) + Tag(f) + Rest - Own
    BY DEF Scores, SumFunction, SumOf, TagScores, Slots, TagsOf
<1>2. base \in Int /\ Rest \in Int /\ Own \in Int /\ more \in Int /\ share \in Int
    BY KitchenType, SharedCounts
<1>3. Cat(favourites) \in Int /\ Cat(favourites \cup {x}) = Cat(favourites) + more
    BY CategoryGrows
<1>4. Tag(favourites) \in Int /\ Tag(favourites \cup {x}) = Tag(favourites) + 2 * share
    BY TagsGrow
<1> HIDE DEF Rest, Own, Tag, Cat, base, more, share
<1>5. Scores(favourites)[food] \in Int
    BY <1>1, <1>2, <1>3, <1>4
<1>6. Scores(favourites \cup {x})[food] = Scores(favourites)[food] + more + 2 * share
    BY <1>1, <1>2, <1>3, <1>4
<1> QED BY <1>5, <1>6 DEF more, share

\* No food gains more from a favourite than itself.
LEMMA FavouriteGainsMost ==
    ASSUME RecommendationsAssumption, RecommendationsInit,
           NEW favourites \in SUBSET KitchenFoods,
           NEW x \in KitchenFoods, NEW other \in KitchenFoods
    PROVE  /\ Scores(favourites)[x] \in Int /\ Scores(favourites)[other] \in Int
           /\ Scores(favourites \cup {x})[x] \in Int /\ Scores(favourites \cup {x})[other] \in Int
           /\ Scores(favourites \cup {x})[other] - Scores(favourites)[other] <=
                Scores(favourites \cup {x})[x] - Scores(favourites)[x]
<1>1. CASE x \notin favourites
  <2>1. /\ Scores(favourites)[x] \in Int /\ Scores(favourites)[other] \in Int
        /\ Scores(favourites \cup {x})[x] = Scores(favourites)[x] + 4
              + 2 * Cardinality(Shared(x, x))
        /\ Scores(favourites \cup {x})[other] = Scores(favourites)[other]
              + (IF kitchen[x].category = kitchen[other].category THEN 4 ELSE 0)
              + 2 * Cardinality(Shared(other, x))
      BY <1>1, ScoresGrow, ZenonT(30)
  <2>2. /\ Cardinality(Shared(other, x)) \in Nat /\ Cardinality(Shared(x, x)) \in Nat
        /\ Cardinality(Shared(other, x)) <= Cardinality(Shared(x, x))
      BY SharedCounts
  <2>3. \A p, q \in Int, more \in {0, 4}, y, z \in Nat :
          y <= z => /\ p + 4 + 2 * z \in Int /\ q + more + 2 * y \in Int
                    /\ (q + more + 2 * y) - q <= (p + 4 + 2 * z) - p
      OBVIOUS
  <2> DEFINE more == IF kitchen[x].category = kitchen[other].category THEN 4 ELSE 0
             y == Cardinality(Shared(other, x))
             z == Cardinality(Shared(x, x))
             p == Scores(favourites)[x]
             q == Scores(favourites)[other]
  <2>4. more \in {0, 4} /\ y \in Nat /\ z \in Nat /\ y <= z /\ p \in Int /\ q \in Int
      BY <2>1, <2>2
  <2>5. /\ Scores(favourites \cup {x})[x] = p + 4 + 2 * z
        /\ Scores(favourites \cup {x})[other] = q + more + 2 * y
      BY <2>1
  <2> HIDE DEF more, y, z
  <2>6. /\ p + 4 + 2 * z \in Int /\ q + more + 2 * y \in Int
        /\ (q + more + 2 * y) - q <= (p + 4 + 2 * z) - p
      BY <2>3, <2>4
  <2> QED BY <2>4, <2>5, <2>6
<1>2. CASE x \in favourites
  <2>1. favourites \cup {x} = favourites
      BY <1>2
  <2>2. Scores(favourites)[x] \in Int /\ Scores(favourites)[other] \in Int
      BY ScoresType
  <2>3. \A a, b \in Int : a - a <= b - b
      OBVIOUS
  <2>4. Scores(favourites)[other] - Scores(favourites)[other] <=
          Scores(favourites)[x] - Scores(favourites)[x]
      BY <2>2, <2>3
  <2> QED BY <2>1, <2>2, <2>4
<1> QED BY <1>1, <1>2

Available == {food \in KitchenFoods : kitchen[food].available}

IsPlaced(R, S, rows, k) ==
    /\ rows[k] \in S /\ k \in Nat
    /\ Cardinality({x \in S : <<x, rows[k]>> \in R}) = k - 1

TellsApart(R, S) == \A x, y \in S : x = y \/ <<x, y>> \in R \/ <<y, x>> \in R

\* The same of a row told apart from all others.
LEMMA RowPlaced ==
    ASSUME NEW S, IsFiniteSet(S), NEW R, StrictlyOrders(R, S), TellsApart(R, S),
           NEW rows \in SetToSeqs(S), InOrder(rows, R), NEW k \in 1 .. Cardinality(S)
    PROVE  IsPlaced(R, S, rows, k)
BY RowPlace DEF IsPlaced, TellsApart

AheadIn(scores) == {p \in KitchenFoods \X KitchenFoods : Ahead(scores, p[1], p[2])}

\* A food is recommended if few enough available ones are ahead of it.
LEMMA RecommendedFoods ==
    ASSUME RecommendationsAssumption, RecommendationsInit, NEW scores,
           \A food \in KitchenFoods : scores[food] \in Int,
           NEW limit \in Nat, NEW food \in KitchenFoods
    PROVE  food \in Range(FindForUser(scores, limit)) <=>
                /\ food \in Available
                /\ Cardinality({other \in Available : Ahead(scores, other, food)}) < limit
<1> DEFINE S == Available
           R == AheadIn(scores)
           all == {r \in SetToSeqs(S) : \A i, j \in DOMAIN r : i < j => ~Ahead(scores, r[j], r[i])}
           rows == CHOOSE r \in all : TRUE
           N == Cardinality(S)
<1>1. IsFiniteSet(S) /\ S \in SUBSET KitchenFoods /\ KitchenFoods \subseteq Int
    BY KitchenType, FS_Subset DEF Available
<1>2. \A a, b : a \in KitchenFoods /\ b \in KitchenFoods => (<<a, b>> \in R <=> Ahead(scores, a, b))
    BY DEF AheadIn
<1>3. \A a \in S : a \in KitchenFoods /\ a \in Int /\ scores[a] \in Int
    BY <1>1
<1> HIDE DEF R
<1>4. StrictlyOrders(R, S) /\ \A x, y \in S : x = y \/ <<x, y>> \in R \/ <<y, x>> \in R
  <2>0. \A a, b \in S : <<a, b>> \in R <=> scores[a] > scores[b] \/ (scores[a] = scores[b] /\ a < b)
      BY <1>2, <1>3, Zenon DEF Ahead
  <2> HIDE DEF S
  <2>1. \A a \in S : <<a, a>> \notin R
      BY <2>0, <1>3
  <2>2. \A a, b, c \in S : <<a, b>> \in R /\ <<b, c>> \in R => <<a, c>> \in R
    <3> TAKE a, b, c \in S
    <3> DEFINE i == scores[a]
               j == scores[b]
               k == scores[c]
    <3>1. i \in Int /\ j \in Int /\ k \in Int /\ a \in Int /\ b \in Int /\ c \in Int
        BY <1>3
    <3>2. /\ <<a, b>> \in R <=> i > j \/ (i = j /\ a < b)
          /\ <<b, c>> \in R <=> j > k \/ (j = k /\ b < c)
          /\ <<a, c>> \in R <=> i > k \/ (i = k /\ a < c)
        BY <2>0
    <3> HIDE DEF i, j, k
    <3> QED BY <3>1, <3>2
  <2>3. \A x, y \in S : x = y \/ <<x, y>> \in R \/ <<y, x>> \in R
    <3> TAKE x, y \in S
    <3> DEFINE i == scores[x]
               j == scores[y]
    <3>1. i \in Int /\ j \in Int /\ x \in Int /\ y \in Int
        BY <1>3
    <3>2. /\ <<x, y>> \in R <=> i > j \/ (i = j /\ x < y)
          /\ <<y, x>> \in R <=> j > i \/ (j = i /\ y < x)
        BY <2>0
    <3> HIDE DEF i, j
    <3> QED BY <3>1, <3>2
  <2> QED BY <2>1, <2>2, <2>3 DEF StrictlyOrders
<1>5. \A r \in SetToSeqs(S) : r \in all <=> InOrder(r, R)
  <2> TAKE r \in SetToSeqs(S)
  <2>1. \A i \in DOMAIN r : r[i] \in KitchenFoods
      BY <1>1 DEF SetToSeqs
  <2> QED BY <1>2, <2>1 DEF InOrder
<1>6. PICK some \in SetToSeqs(S) : InOrder(some, R)
    BY <1>1, <1>4, OrderedListsExist
<1>7. rows \in all
  <2>1. some \in all
      BY <1>5, <1>6
  <2> QED BY <2>1
<1>8. FindForUser(scores, limit) = FirstOf(limit, rows)
    BY DEF FindForUser, Arranged, Arrangements, Available
<1> HIDE DEF rows, S
<1>9. rows \in SetToSeqs(S) /\ InOrder(rows, R)
    BY <1>5, <1>7
<1> HIDE DEF all
<1>10. /\ N \in Nat /\ rows \in [1 .. N -> S] /\ Apart(rows, 1 .. N)
       /\ \A x \in S : \E i \in 1 .. N : rows[i] = x
    BY <1>1, <1>9, ListsCover
<1>11. Range(FindForUser(scores, limit)) = {rows[i] : i \in {k \in 1 .. N : k <= limit}}
  <2> HIDE DEF N
  <2>1. limit \in Nat /\ N \in Nat /\ rows \in [1 .. N -> S]
      BY <1>10
  <2>2. IsFirst(FirstOf(limit, rows), rows, N, limit)
      BY <2>1, FirstRows, Zenon
  <2> QED BY <1>8, <2>2 DEF IsFirst
<1>12. \A k \in 1 .. N : Cardinality({x \in S : Ahead(scores, x, rows[k])}) = k - 1 /\ k \in Nat
  <2> TAKE k \in 1 .. N
  <2>1. rows[k] \in S /\ k \in Nat /\ Cardinality({x \in S : <<x, rows[k]>> \in R}) = k - 1
    <3>1. IsFiniteSet(S) /\ StrictlyOrders(R, S) /\ k \in 1 .. Cardinality(S)
        BY <1>1, <1>4
    <3>2. TellsApart(R, S)
        BY <1>4, Zenon DEF TellsApart
    <3>3. IsPlaced(R, S, rows, k)
        BY <3>1, <3>2, <1>9, RowPlaced, Zenon
    <3> QED BY <3>3 DEF IsPlaced
  <2>2. {x \in S : <<x, rows[k]>> \in R} = {x \in S : Ahead(scores, x, rows[k])}
      BY <1>2, <1>3, <2>1
  <2> QED BY <2>1, <2>2
<1>13. ASSUME food \in Range(FindForUser(scores, limit))
       PROVE  food \in S /\ Cardinality({x \in S : Ahead(scores, x, food)}) < limit
  <2>1. PICK k \in 1 .. N : k <= limit /\ food = rows[k]
      BY <1>11, <1>13
  <2>2. Cardinality({x \in S : Ahead(scores, x, food)}) = k - 1 /\ k \in Nat
      BY <1>12, <2>1
  <2>3. food \in S
      BY <1>10, <2>1
  <2> QED BY <2>1, <2>2, <2>3
<1>14. ASSUME food \in S, Cardinality({x \in S : Ahead(scores, x, food)}) < limit
       PROVE  food \in Range(FindForUser(scores, limit))
  <2>1. PICK k \in 1 .. N : food = rows[k]
      BY <1>10, <1>14
  <2>2. Cardinality({x \in S : Ahead(scores, x, food)}) = k - 1 /\ k \in Nat
      BY <1>12, <2>1
  <2>3. k <= limit
      BY <1>14, <2>2
  <2> QED BY <1>11, <2>1, <2>3
<1> QED BY <1>13, <1>14 DEF S

\* A favourite falls behind no food it was ahead of.
LEMMA FavouriteStays ==
    ASSUME RecommendationsAssumption, RecommendationsInit,
           NEW favourites \in SUBSET KitchenFoods, NEW food \in KitchenFoods,
           NEW other \in KitchenFoods, other # food
    PROVE  /\ Ahead(Scores(favourites), food, other) =>
                Ahead(Scores(favourites \cup {food}), food, other)
           /\ Ahead(Scores(favourites \cup {food}), other, food) =>
                Ahead(Scores(favourites), other, food)
<1> DEFINE a == Scores(favourites)[food]
           b == Scores(favourites)[other]
           c == Scores(favourites \cup {food})[food]
           d == Scores(favourites \cup {food})[other]
<1>1. a \in Int /\ b \in Int /\ c \in Int /\ d \in Int /\ d - b <= c - a
    BY FavouriteGainsMost
<1>2. food \in Int /\ other \in Int
    BY KitchenType
<1>3. /\ Ahead(Scores(favourites), food, other) <=> a > b \/ (a = b /\ food < other)
      /\ Ahead(Scores(favourites), other, food) <=> b > a \/ (a = b /\ other < food)
      /\ Ahead(Scores(favourites \cup {food}), food, other) <=> c > d \/ (c = d /\ food < other)
      /\ Ahead(Scores(favourites \cup {food}), other, food) <=> d > c \/ (c = d /\ other < food)
    BY DEF Ahead
<1> HIDE DEF a, b, c, d
<1> QED BY <1>1, <1>2, <1>3

\* Without orders and favourites no reason names a liking.
LEMMA NothingKnown ==
    ASSUME RecommendationsAssumption, RecommendationsInit,
           NEW favourites \in SUBSET KitchenFoods, NEW food \in KitchenFoods,
           ~Personalized(favourites)
    PROVE  Reason(food, favourites) \notin {"tag", "category"}
<1>1. RecentItems = {} /\ favourites = {}
    BY DEF Personalized
<1>2. \A tag : TagScore(tag, favourites) = 0
  <2> TAKE tag
  <2>1. /\ SumOf(TimesOrdered(tag), RecentItems) = 0
        /\ SumOf(TimesIn(tag, favourites), favourites) = 0
      BY <1>1, SumOfNone
  <2> QED BY <2>1, TagScoreIs
<1>3. CategoryScore(kitchen[food].category, favourites) = 0
  <2>1. /\ {item \in RecentItems : kitchen[item[2]].category = kitchen[food].category} = {}
        /\ {f \in favourites : kitchen[f].category = kitchen[food].category} = {}
      BY <1>1
  <2>2. Cardinality({}) = 0
      BY FS_EmptySet
  <2>3. CategoryScore(kitchen[food].category, favourites) = 3 * Cardinality({}) + 4 * Cardinality({})
      BY <2>1, Zenon DEF CategoryScore
  <2> QED BY <2>2, <2>3
<1> QED BY <1>2, <1>3 DEF Reason

LEMMA Favourites ==
    RecommendationsAssumption /\ RecommendationsInit => FavouritesNeverSink
<1> SUFFICES ASSUME RecommendationsAssumption, RecommendationsInit,
                    NEW favourites \in SUBSET KitchenFoods, NEW food \in KitchenFoods
             PROVE  /\ \A other \in KitchenFoods \ {food} :
                        Ahead(Scores(favourites), food, other) =>
                            Ahead(Scores(favourites \cup {food}), food, other)
                    /\ \A limit \in 1 .. Cardinality(KitchenFoods) :
                        food \in Range(FindForUser(Scores(favourites), limit)) =>
                            food \in Range(FindForUser(Scores(favourites \cup {food}), limit))
                    /\ Reason(food, favourites) \in {"tag", "category"} =>
                            Personalized(favourites)
    BY DEF FavouritesNeverSink
<1>1. \A other \in KitchenFoods \ {food} :
        Ahead(Scores(favourites), food, other) => Ahead(Scores(favourites \cup {food}), food, other)
    BY FavouriteStays
<1>2. ASSUME NEW limit \in 1 .. Cardinality(KitchenFoods),
             food \in Range(FindForUser(Scores(favourites), limit))
      PROVE  food \in Range(FindForUser(Scores(favourites \cup {food}), limit))
  <2> DEFINE before == {other \in Available : Ahead(Scores(favourites), other, food)}
             after == {other \in Available : Ahead(Scores(favourites \cup {food}), other, food)}
  <2>1. limit \in Nat
      BY KitchenType, FS_CardinalityType
  <2>2. /\ \A f \in KitchenFoods : Scores(favourites)[f] \in Int
        /\ \A f \in KitchenFoods : Scores(favourites \cup {food})[f] \in Int
    <3>1. favourites \cup {food} \in SUBSET KitchenFoods
        OBVIOUS
    <3> QED BY <3>1, ScoresType
  <2>3. food \in Available /\ Cardinality(before) < limit
      BY <1>2, <2>1, <2>2, RecommendedFoods
  <2>4. after \in SUBSET before
    <3>1. ~Ahead(Scores(favourites \cup {food}), food, food)
      <4>1. food \in Int /\ Scores(favourites \cup {food})[food] \in Int
          BY <2>2, KitchenType
      <4> QED BY <4>1 DEF Ahead
    <3>2. \A other \in after : other \in KitchenFoods /\ other # food
        BY <3>1 DEF Available
    <3> QED BY <3>2, FavouriteStays
  <2>5. IsFiniteSet(before)
      BY KitchenType, FS_Subset DEF Available
  <2>6. Cardinality(after) < limit
    <3> HIDE DEF before, after
    <3> QED BY <2>1, <2>3, <2>4, <2>5, PartCounts
  <2> QED BY <2>1, <2>2, <2>3, <2>6, RecommendedFoods
<1>3. Reason(food, favourites) \in {"tag", "category"} => Personalized(favourites)
    BY NothingKnown
<1> QED BY <1>1, <1>2, <1>3

\* A favourite never moves its food down, in any kitchen and after any orders
\* (findForUser).
THEOREM RecommendationSafety == RecommendationsSpec => []FavouritesNeverSink
<1>1. RecommendationsInit /\ [FALSE]_<<kitchen, history>> => RecommendationsInit'
    BY DEF RecommendationsInit, NewFood, KitchenFoods
<1>2. RecommendationsInit => FavouritesNeverSink
    BY RecommendationsAssumption, Favourites
<1> QED BY <1>1, <1>2, PTL DEF RecommendationsSpec

(***************************************************************************)
(* Days.                                                                   *)
(***************************************************************************)
LEMMA DayBounds ==
    ASSUME NEW H \in Nat \ {0}, NEW t \in Int
    PROVE  /\ t \div H \in Int /\ t % H \in 0 .. H - 1
           /\ t = (t \div H) * H + (t % H)
OBVIOUS

\* The day of a time is the one it lies in.
LEMMA DayOf ==
    ASSUME NEW H \in Nat \ {0}, NEW t \in Int, NEW q \in Int
    PROVE  t \div H = q <=> q * H <= t /\ t < (q + 1) * H
<1> DEFINE d == t \div H
           r == t % H
<1>1. d \in Int /\ r \in 0 .. H - 1 /\ t = d * H + r
    BY DayBounds
<1> HIDE DEF d, r
<1>2. (q + 1) * H = q * H + H
    OBVIOUS
<1>3. ASSUME d < q PROVE d * H + H <= q * H
  <2>1. d + 1 <= q
      BY <1>1, <1>3
  <2>2. (d + 1) * H <= q * H
    <3>1. q - (d + 1) \in Nat
        BY <1>1, <2>1
    <3>2. (q - (d + 1)) * H \in Nat
        BY <3>1
    <3> QED BY <1>1, <3>2
  <2> QED BY <1>1, <2>2
<1>4. ASSUME q < d PROVE q * H + H <= d * H
  <2>1. d - (q + 1) \in Nat
      BY <1>1, <1>4
  <2>2. (d - (q + 1)) * H \in Nat
      BY <2>1
  <2> QED BY <1>1, <2>2
<1>5. d = q => d * H = q * H
    OBVIOUS
<1> DEFINE dh == d * H
           qh == q * H
<1>6. dh \in Int /\ qh \in Int
    BY <1>1
<1>7. /\ t = dh + r
      /\ d < q => dh + H <= qh
      /\ q < d => qh + H <= dh
      /\ d = q => dh = qh
    BY <1>1, <1>3, <1>4, <1>5
<1>8. (q + 1) * H = qh + H
    BY <1>2
<1> HIDE DEF dh
<1>9. d = q <=> qh <= t /\ t < qh + H
  <2> HIDE DEF qh
  <2> QED BY <1>1, <1>6, <1>7
<1> QED BY <1>8, <1>9 DEF d

(***************************************************************************)
(* Sums by keys.                                                           *)
(***************************************************************************)
LEMMA SumOfUnion ==
    ASSUME NEW S, IsFiniteSet(S), NEW w, Weighs(w, S),
           NEW A \in SUBSET S, NEW B \in SUBSET S, A \cap B = {}
    PROVE  SumOf(w, A \cup B) = SumOf(w, A) + SumOf(w, B)
<1>0. IsFiniteSet(A) /\ IsFiniteSet(B)
    BY FS_Subset
<1> DEFINE P == {T \in SUBSET B : SumOf(w, A \cup T) = SumOf(w, A) + SumOf(w, T)}
<1>1. {} \in P
  <2>1. SumOf(w, A) \in Int
      BY <1>0, SumType DEF Weighs
  <2>2. A \cup {} = A
      OBVIOUS
  <2> QED BY <2>1, <2>2, SumOfNone
<1>2. ASSUME NEW T \in SUBSET B, NEW x \in B \ T, T \in P PROVE T \cup {x} \in P
  <2>1. IsFiniteSet(T) /\ IsFiniteSet(A \cup T)
      BY <1>0, FS_Subset, FS_Union
  <2>2. Weighs(w, A) /\ Weighs(w, T) /\ Weighs(w, A \cup T) /\ w[x] \in Int
      BY DEF Weighs
  <2>3. x \notin A \cup T
      OBVIOUS
  <2>4. SumOf(w, (A \cup T) \cup {x}) = w[x] + SumOf(w, A \cup T)
      BY <2>1, <2>2, <2>3, SumWith
  <2>5. SumOf(w, T \cup {x}) = w[x] + SumOf(w, T)
      BY <2>1, <2>2, SumWith
  <2>6. (A \cup T) \cup {x} = A \cup (T \cup {x})
      OBVIOUS
  <2>7. SumOf(w, A) \in Int /\ SumOf(w, T) \in Int
      BY <1>0, <2>1, <2>2, SumType
  <2>8. SumOf(w, A \cup T) = SumOf(w, A) + SumOf(w, T)
      BY <1>2
  <2>9. SumOf(w, A \cup (T \cup {x})) = SumOf(w, A) + SumOf(w, T \cup {x})
    <3> DEFINE a == SumOf(w, A)
               b == SumOf(w, T)
               c == w[x]
    <3>1. a \in Int /\ b \in Int /\ c \in Int
        BY <2>2, <2>7
    <3>2. SumOf(w, A \cup (T \cup {x})) = c + (a + b) /\ SumOf(w, T \cup {x}) = c + b
        BY <2>4, <2>5, <2>6, <2>8
    <3> HIDE DEF a, b, c
    <3>3. c + (a + b) = a + (c + b)
        BY <3>1
    <3> QED BY <3>2, <3>3 DEF a
  <2>10. T \cup {x} \in SUBSET B
      OBVIOUS
  <2> QED BY <2>9, <2>10
<1> HIDE DEF P
<1>3. B \in P
    BY <1>0, <1>1, <1>2, SetInduction
<1> QED BY <1>3 DEF P

\* Those of a set that have one of the keys.
Keyed(S, k, K) == {x \in S : k[x] \in K}

SumsByKey(u, w, S, k, K) == \A q \in K : u[q] = SumOf(w, Keyed(S, k, {q}))

\* The sums of each key add up to the sum of all keys.
LEMMA SumByKeys ==
    ASSUME NEW S, IsFiniteSet(S), NEW w, Weighs(w, S), NEW k,
           NEW K, IsFiniteSet(K), NEW u, SumsByKey(u, w, S, k, K)
    PROVE  SumOf(u, K) = SumOf(w, Keyed(S, k, K))
<1> DEFINE P == {T \in SUBSET K : SumOf(u, T) = SumOf(w, Keyed(S, k, T))}
<1>0. \A T : Keyed(S, k, T) \in SUBSET S /\ IsFiniteSet(Keyed(S, k, T)) /\ Weighs(w, Keyed(S, k, T))
    BY FS_Subset DEF Keyed, Weighs
<1>00. \A q \in K : u[q] \in Int
    BY <1>0, SumType DEF SumsByKey
<1>1. {} \in P
  <2>1. Keyed(S, k, {}) = {}
      BY DEF Keyed
  <2> QED BY <2>1, SumOfNone
<1>2. ASSUME NEW T \in SUBSET K, NEW q \in K \ T, T \in P PROVE T \cup {q} \in P
  <2>1. IsFiniteSet(T) /\ Weighs(u, T) /\ u[q] \in Int
      BY <1>00, FS_Subset DEF Weighs
  <2>2. SumOf(u, T \cup {q}) = u[q] + SumOf(u, T)
      BY <2>1, SumWith
  <2>3. /\ Keyed(S, k, T \cup {q}) = Keyed(S, k, T) \cup Keyed(S, k, {q})
        /\ Keyed(S, k, T) \cap Keyed(S, k, {q}) = {}
      BY DEF Keyed
  <2>4. SumOf(w, Keyed(S, k, T) \cup Keyed(S, k, {q})) =
          SumOf(w, Keyed(S, k, T)) + SumOf(w, Keyed(S, k, {q}))
    <3> DEFINE A == Keyed(S, k, T)
               B == Keyed(S, k, {q})
    <3>1. A \in SUBSET S /\ B \in SUBSET S /\ A \cap B = {}
        BY <1>0, <2>3
    <3> HIDE DEF A, B
    <3>2. SumOf(w, A \cup B) = SumOf(w, A) + SumOf(w, B)
        BY <3>1, SumOfUnion
    <3> QED BY <3>2 DEF A, B
  <2>5. SumOf(u, T) = SumOf(w, Keyed(S, k, T)) /\ u[q] = SumOf(w, Keyed(S, k, {q}))
      BY <1>2 DEF SumsByKey
  <2>6. SumOf(u, T) \in Int /\ u[q] \in Int
      BY <2>1, SumType
  <2>7. SumOf(u, T \cup {q}) = SumOf(w, Keyed(S, k, T \cup {q}))
    <3> DEFINE a == SumOf(w, Keyed(S, k, T))
               b == SumOf(w, Keyed(S, k, {q}))
    <3>1. a \in Int /\ b \in Int
        BY <2>5, <2>6
    <3>2. /\ SumOf(u, T \cup {q}) = b + a
          /\ SumOf(w, Keyed(S, k, T \cup {q})) = a + b
        BY <2>2, <2>3, <2>4, <2>5
    <3> HIDE DEF a, b
    <3> QED BY <3>1, <3>2
  <2> QED BY <2>7
<1> HIDE DEF P
<1>3. K \in P
    BY <1>1, <1>2, SetInduction
<1> QED BY <1>3 DEF P

\* A count is the sum of ones.
LEMMA SumOfOnes ==
    ASSUME NEW S, IsFiniteSet(S), NEW w, \A x \in S : w[x] = 1
    PROVE  SumOf(w, S) = Cardinality(S)
<1>1. \A x \in S : w[x] = IF x \in S THEN 1 ELSE 0
    OBVIOUS
<1>2. SumOf(w, S) = 1 * Cardinality(S)
    BY <1>1, SumOfEqual
<1> QED BY <1>2, FS_CardinalityType

(***************************************************************************)
(* What is in the book.                                                    *)
(***************************************************************************)
Totals == [i \in DOMAIN book |-> book[i].total]

Dates == [i \in DOMAIN book |-> DateKey(When(book[i]))]

\* What is known of a book.
LEMMA BookType ==
    ASSUME DashboardsAssumption, DashboardsInit
    PROVE  /\ book \in Seq(BookRows(0 .. Now, STRING, Int))
           /\ IsFiniteSet(DOMAIN book) /\ Len(book) \in Nat /\ DOMAIN book = 1 .. Len(book)
           /\ \A i \in DOMAIN book :
                /\ book[i] \in BookRows(0 .. Now, STRING, Int)
                /\ book[i].placedAt = Unset \/ book[i].placedAt \in 0 .. Now
                /\ book[i].createdAt \in 0 .. Now /\ book[i].createdAt \in Int
                /\ When(book[i]) \in 0 .. Now /\ When(book[i]) \in Int
                /\ book[i].total \in Int
                /\ book[i].user \in Range(Customers)
<1>1. book \in Seq(BookRows(0 .. Now, STRING, Int))
    BY DEF DashboardsAssumption, DashboardsInit
<1>2. Len(book) \in Nat /\ DOMAIN book = 1 .. Len(book)
    BY <1>1
<1>3. IsFiniteSet(DOMAIN book)
    BY <1>2, UpToCounts
<1>4. ASSUME NEW i \in DOMAIN book
      PROVE  /\ book[i] \in BookRows(0 .. Now, STRING, Int)
             /\ book[i].placedAt = Unset \/ book[i].placedAt \in 0 .. Now
             /\ book[i].createdAt \in 0 .. Now /\ book[i].createdAt \in Int
             /\ When(book[i]) \in 0 .. Now /\ When(book[i]) \in Int
             /\ book[i].total \in Int
             /\ book[i].user \in Range(Customers)
  <2>1. book[i] \in BookRows(0 .. Now, STRING, Int)
      BY <1>1, <1>2
  <2>2. /\ book[i].placedAt = Unset \/ book[i].placedAt \in 0 .. Now
        /\ book[i].createdAt \in 0 .. Now
        /\ book[i].total \in Int
        /\ book[i].user \in Range(Customers)
      BY <2>1 DEF BookRows
  <2>3. When(book[i]) \in 0 .. Now
      BY <2>2 DEF When
  <2> QED BY <2>1, <2>2, <2>3
<1> QED BY <1>1, <1>2, <1>3, <1>4

LEMMA OrdersInBook ==
    ASSUME DashboardsAssumption, DashboardsInit, NEW statuses
    PROVE  /\ OrdersIn(statuses) \in SUBSET DOMAIN book
           /\ IsFiniteSet(OrdersIn(statuses))
BY BookType, FS_Subset DEF OrdersIn

LEMMA SpentIs ==
    ASSUME DashboardsAssumption, DashboardsInit, NEW some \in SUBSET DOMAIN book
    PROVE  Spent(some) = SumOf(Totals, some) /\ Spent(some) \in Int
<1> DEFINE w == [i \in some |-> book[i].total]
<1>1. IsFiniteSet(some)
    BY BookType, FS_Subset
<1>2. \A i \in some : w[i] \in Int /\ Totals[i] = w[i]
    BY BookType DEF Totals
<1>3. Spent(some) = SumOf(w, some)
    BY DEF Spent, SumFunction, SumOf
<1> HIDE DEF w
<1>4. Weighs(w, some) /\ Weighs(Totals, some)
    BY <1>2 DEF Weighs
<1>5. SumOf(w, some) = SumOf(Totals, some)
    BY <1>1, <1>2, <1>4, SumSame
<1>6. SumOf(Totals, some) \in Int
    BY <1>1, <1>4, SumType
<1> QED BY <1>3, <1>5, <1>6

\* Orders count when they were placed, or when they were created if never.
AreOfWindow(some, a, b) ==
    /\ some = {i \in OrdersIn(RevenueStatuses) : a <= When(book[i]) /\ When(book[i]) < b}
    /\ some \in SUBSET DOMAIN book
    /\ IsFiniteSet(some)

LEMMA RevenueOrdersAre ==
    ASSUME DashboardsAssumption, DashboardsInit, NEW a \in Int, NEW b \in Int
    PROVE  AreOfWindow(RevenueOrders(a, b), a, b)
<1>1. ASSUME NEW i \in OrdersIn(RevenueStatuses)
      PROVE  i \in RevenueOrders(a, b) <=> a <= When(book[i]) /\ When(book[i]) < b
  <2>1. i \in DOMAIN book
      BY DEF OrdersIn
  <2>2. /\ book[i].placedAt = Unset \/ book[i].placedAt \in Int
        /\ book[i].createdAt \in Int /\ Unset \notin Int
      BY <2>1, BookType DEF DashboardsAssumption
  <2> QED BY <2>2 DEF RevenueOrders, Within, When
<1>2. RevenueOrders(a, b) \in SUBSET OrdersIn(RevenueStatuses)
    BY DEF RevenueOrders
<1>3. RevenueOrders(a, b) = {i \in OrdersIn(RevenueStatuses) :
                                a <= When(book[i]) /\ When(book[i]) < b}
    BY <1>1, <1>2
<1> QED BY <1>2, <1>3, OrdersInBook, FS_Subset DEF AreOfWindow

(***************************************************************************)
(* The clock of a server.                                                  *)
(***************************************************************************)
LEMMA MinOf ==
    ASSUME NEW S, S \subseteq Nat, S # {}
    PROVE  Min(S) \in S /\ \A n \in S : Min(S) <= n
<1>1. PICK m \in S : \A n \in S : m <= n
    BY LeastNumber
<1> QED BY <1>1 DEF Min

IsZone(zone) ==
    /\ Len(zone) \in Nat \ {0} /\ DOMAIN zone = 1 .. Len(zone)
    /\ \A k \in 1 .. Len(zone) : zone[k].since \in Int /\ zone[k].offset \in Int
    /\ \A k \in 2 .. Len(zone) :
        /\ zone[k].offset - zone[k - 1].offset <= HoursPerDay
        /\ \A j \in 2 .. k - 1 : zone[j].since + HoursPerDay <= zone[k].since

LEMMA ZoneType ==
    ASSUME DashboardsAssumption, NEW zone \in Zones
    PROVE  /\ IsZone(zone) /\ HoursPerDay \in Nat \ {0} /\ HoursPerDay \in Int
           /\ Now \in Int /\ ActiveDays \in Int
<1> DEFINE E == [since : Int, offset : Int]
<1>1. zone \in TimeZones
    BY DEF DashboardsAssumption
<1>2. zone \in Seq(E) /\ zone # <<>>
    BY <1>1 DEF TimeZones
<1>3. \A k \in 2 .. Len(zone) :
        /\ zone[k].offset - zone[k - 1].offset <= HoursPerDay
        /\ \A j \in 2 .. k - 1 : zone[j].since + HoursPerDay <= zone[k].since
    BY <1>1 DEF TimeZones
<1> HIDE DEF E
<1>4. /\ Len(zone) \in Nat \ {0} /\ DOMAIN zone = 1 .. Len(zone)
      /\ \A k \in 1 .. Len(zone) : zone[k] \in E
    BY <1>2
<1>5. \A k \in 1 .. Len(zone) : zone[k].since \in Int /\ zone[k].offset \in Int
    BY <1>4 DEF E
<1> QED BY <1>3, <1>4, <1>5 DEF IsZone, DashboardsAssumption

\* The clock goes by the last of the changes that have come.
GoesBy(zone, t, k) ==
    /\ k \in 1 .. Len(zone)
    /\ k < Len(zone) => t < zone[k + 1].since
    /\ \A n \in 1 .. k - 1 : zone[n + 1].since <= t

LEMMA OffsetIs ==
    ASSUME NEW zone, IsZone(zone), NEW t \in Int
    PROVE  \E k \in 1 .. Len(zone) : GoesBy(zone, t, k) /\ OffsetAt(zone, t) = zone[k].offset
<1> DEFINE S == {n \in DOMAIN zone : n < Len(zone) => t < zone[n + 1].since}
           k == Min(S)
<1>1. Len(zone) \in S /\ S \subseteq Nat /\ S \subseteq 1 .. Len(zone)
    BY DEF IsZone
<1>2. OffsetAt(zone, t) = zone[k].offset
    BY DEF OffsetAt
<1>3. k \in S /\ \A n \in S : k <= n
  <2> HIDE DEF S
  <2> QED BY <1>1, MinOf
<1> HIDE DEF k
<1>4. ASSUME NEW n \in 1 .. k - 1 PROVE zone[n + 1].since <= t
  <2>1. n \in 1 .. Len(zone) /\ n < Len(zone) /\ n \notin S /\ n + 1 \in 1 .. Len(zone)
    <3> HIDE DEF S
    <3>1. k \in 1 .. Len(zone) /\ Len(zone) \in Nat
        BY <1>1, <1>3 DEF IsZone
    <3>2. n \in Int /\ n < k
        BY <3>1
    <3> QED BY <1>3, <3>1, <3>2
  <2>2. ~(t < zone[n + 1].since) /\ zone[n + 1].since \in Int
      BY <2>1 DEF IsZone
  <2> QED BY <2>2
<1>5. GoesBy(zone, t, k)
    BY <1>1, <1>3, <1>4 DEF GoesBy
<1> QED BY <1>1, <1>2, <1>3, <1>5

\* What the clock is taken to show is told by one of the offsets,
ToldBy(zone, local, k) ==
    /\ k \in 1 .. Len(zone)
    /\ k < Len(zone) =>
        \/ local - zone[k].offset < zone[k + 1].since
        \/ local - zone[k + 1].offset < zone[k + 1].since
    /\ \A n \in 1 .. k - 1 :
        /\ zone[n + 1].since <= local - zone[n].offset
        /\ zone[n + 1].since <= local - zone[n + 1].offset

LEMMA UtcIs ==
    ASSUME NEW zone, IsZone(zone), NEW local \in Int
    PROVE  \E k \in 1 .. Len(zone) :
                ToldBy(zone, local, k) /\ UtcOf(zone, local) = local - zone[k].offset
<1> DEFINE Comes(n) ==
              \E m \in {n, n + 1} : local - zone[m].offset < zone[n + 1].since
           S == {n \in DOMAIN zone : n < Len(zone) => Comes(n)}
           k == Min(S)
<1>1. Len(zone) \in S /\ S \subseteq Nat /\ S \subseteq 1 .. Len(zone)
    BY DEF IsZone
<1>2. UtcOf(zone, local) = local - zone[k].offset
    BY DEF UtcOf
<1>3. k \in S /\ \A n \in S : k <= n
  <2> HIDE DEF S
  <2> QED BY <1>1, MinOf
<1> HIDE DEF k
<1>4. ASSUME NEW n \in 1 .. k - 1
      PROVE  /\ zone[n + 1].since <= local - zone[n].offset
             /\ zone[n + 1].since <= local - zone[n + 1].offset
  <2>1. n \in 1 .. Len(zone) /\ n < Len(zone) /\ n \notin S /\ n + 1 \in 1 .. Len(zone)
    <3> HIDE DEF S
    <3>1. k \in 1 .. Len(zone) /\ Len(zone) \in Nat
        BY <1>1, <1>3 DEF IsZone
    <3>2. n \in Int /\ n < k
        BY <3>1
    <3> QED BY <1>3, <3>1, <3>2
  <2>2. /\ ~(local - zone[n].offset < zone[n + 1].since)
        /\ ~(local - zone[n + 1].offset < zone[n + 1].since)
      BY <2>1 DEF IsZone
  <2>3. zone[n + 1].since \in Int /\ zone[n].offset \in Int /\ zone[n + 1].offset \in Int
      BY <2>1 DEF IsZone
  <2> QED BY <2>2, <2>3
<1>5. ToldBy(zone, local, k)
    BY <1>1, <1>3, <1>4 DEF ToldBy
<1> QED BY <1>1, <1>2, <1>3, <1>5

\* and by no other.
LEMMA ToldByOne ==
    ASSUME NEW zone, IsZone(zone), NEW local \in Int, NEW k, ToldBy(zone, local, k)
    PROVE  UtcOf(zone, local) = local - zone[k].offset
<1>1. PICK n \in 1 .. Len(zone) :
        ToldBy(zone, local, n) /\ UtcOf(zone, local) = local - zone[n].offset
    BY UtcIs
<1>2. Len(zone) \in Nat /\ k \in 1 .. Len(zone)
    BY DEF IsZone, ToldBy
<1>3. ASSUME NEW i \in 1 .. Len(zone), NEW j \in 1 .. Len(zone), i < j,
             ToldBy(zone, local, i), ToldBy(zone, local, j)
      PROVE  FALSE
  <2>1. i < Len(zone) /\ i \in 1 .. j - 1 /\ i + 1 \in 1 .. Len(zone)
      BY <1>2, <1>3
  <2>2. \/ local - zone[i].offset < zone[i + 1].since
        \/ local - zone[i + 1].offset < zone[i + 1].since
      BY <1>3, <2>1 DEF ToldBy
  <2>3. /\ zone[i + 1].since <= local - zone[i].offset
        /\ zone[i + 1].since <= local - zone[i + 1].offset
      BY <1>3, <2>1 DEF ToldBy
  <2>4. zone[i + 1].since \in Int /\ zone[i].offset \in Int /\ zone[i + 1].offset \in Int
      BY <2>1 DEF IsZone
  <2> QED BY <2>2, <2>3, <2>4, SMTT(30)
<1>4. n = k
    BY <1>1, <1>2, <1>3
<1> QED BY <1>1, <1>4

\* Hours are numbers.
LEMMA ClockType ==
    ASSUME NEW zone, IsZone(zone), NEW t \in Int, HoursPerDay \in Nat \ {0}
    PROVE  /\ OffsetAt(zone, t) \in Int /\ LocalTime(zone, t) \in Int /\ UtcOf(zone, t) \in Int
           /\ StartOfDay(zone, t) \in Int
           /\ \A days \in Int : AddDays(zone, t, days) \in Int
<1>1. OffsetAt(zone, t) \in Int /\ LocalTime(zone, t) \in Int
  <2>1. PICK k \in 1 .. Len(zone) : OffsetAt(zone, t) = zone[k].offset
      BY OffsetIs
  <2> QED BY <2>1 DEF LocalTime, IsZone
<1>2. ASSUME NEW local \in Int PROVE UtcOf(zone, local) \in Int
  <2>1. PICK k \in 1 .. Len(zone) : UtcOf(zone, local) = local - zone[k].offset
      BY UtcIs
  <2> QED BY <2>1 DEF IsZone
<1>3. StartOfDay(zone, t) \in Int
  <2> DEFINE d == LocalTime(zone, t) \div HoursPerDay
  <2>1. d \in Int
      BY <1>1, DayBounds
  <2> HIDE DEF d
  <2>2. d * HoursPerDay \in Int
      BY <2>1
  <2> QED BY <1>2, <2>2 DEF StartOfDay, d
<1>4. ASSUME NEW days \in Int PROVE AddDays(zone, t, days) \in Int
  <2>1. days * HoursPerDay \in Int
      OBVIOUS
  <2>2. LocalTime(zone, t) + days * HoursPerDay \in Int
      BY <1>1, <2>1
  <2> QED BY <1>2, <2>2 DEF AddDays
<1> QED BY <1>1, <1>2, <1>3, <1>4

\* Where a place before another and the next one are.
LEMMA PlacesBefore ==
    ASSUME NEW m \in Nat, NEW k \in 1 .. m, k < m, NEW n \in 1 .. (k + 1) - 1
    PROVE  n \in 1 .. m /\ n + 1 \in 1 .. m
OBVIOUS

\* The hour at which the clock shows what it shows at the hour of a local time is
\* that hour: of two the earlier, and after a time the clock skips there is no
\* other.
LEMMA ClockKept ==
    ASSUME NEW zone, IsZone(zone), NEW local \in Int, HoursPerDay \in Nat \ {0}
    PROVE  UtcOf(zone, LocalTime(zone, UtcOf(zone, local))) = UtcOf(zone, local)
<1>1. PICK k \in 1 .. Len(zone) :
        ToldBy(zone, local, k) /\ UtcOf(zone, local) = local - zone[k].offset
    BY UtcIs
<1>2. PICK t \in Int : t = UtcOf(zone, local)
    BY ClockType
<1>3. PICK j \in 1 .. Len(zone) : GoesBy(zone, t, j) /\ OffsetAt(zone, t) = zone[j].offset
    BY OffsetIs
<1>4. /\ Len(zone) \in Nat /\ t = local - zone[k].offset
      /\ LocalTime(zone, t) = t + zone[j].offset
      /\ \A n \in 1 .. Len(zone) : zone[n].since \in Int /\ zone[n].offset \in Int
    BY <1>1, <1>2, <1>3 DEF LocalTime, IsZone
<1>5. k <= j
  <2> SUFFICES ASSUME j < k PROVE FALSE
      BY <1>4
  <2>1. j + 1 \in 2 .. k /\ k \in 2 .. Len(zone) /\ k - 1 \in 1 .. k - 1 /\ j < Len(zone)
      BY <1>4
  <2>2. t < zone[j + 1].since
      BY <1>3, <2>1 DEF GoesBy
  <2>3. zone[(k - 1) + 1].since <= local - zone[(k - 1) + 1].offset
      BY <1>1, <2>1 DEF ToldBy
  <2>4. zone[k].since <= t
    <3>1. (k - 1) + 1 = k
        BY <2>1
    <3> QED BY <1>4, <2>3, <3>1
  <2>5. zone[j + 1].since <= zone[k].since
    <3>1. CASE j + 1 = k
        BY <1>4, <2>1, <3>1
    <3>2. CASE j + 1 # k
      <4>1. j + 1 \in 2 .. k - 1
          BY <2>1, <3>2
      <4>2. zone[j + 1].since + HoursPerDay <= zone[k].since
          BY <2>1, <4>1 DEF IsZone
      <4>3. j + 1 \in 1 .. Len(zone)
          BY <2>1
      <4> QED BY <1>4, <4>2, <4>3, SMTT(30)
    <3> QED BY <3>1, <3>2
  <2>6. j + 1 \in 1 .. Len(zone)
      BY <2>1
  <2> QED BY <1>4, <2>2, <2>4, <2>5, <2>6
<1>6. CASE j = k
  <2>1. LocalTime(zone, t) = local
      BY <1>4, <1>6
  <2> QED BY <1>2, <2>1
<1>7. CASE k < j
  <2>1. /\ k < Len(zone) /\ k \in 1 .. j - 1 /\ k + 1 \in 1 .. Len(zone)
        /\ k + 1 \in 2 .. Len(zone)
      BY <1>4, <1>7
  <2>2. zone[k + 1].since <= t
      BY <1>3, <2>1 DEF GoesBy
  <2>3. local - zone[k + 1].offset < zone[k + 1].since
      BY <1>1, <1>4, <2>1, <2>2 DEF ToldBy
  <2>4. zone[k + 1].offset - zone[k].offset <= HoursPerDay
    <3>1. (k + 1) - 1 = k
        OBVIOUS
    <3>2. zone[k + 1].offset - zone[(k + 1) - 1].offset <= HoursPerDay
        BY <2>1 DEF IsZone
    <3> QED BY <3>1, <3>2
  <2>5. t < zone[k + 1].since + HoursPerDay
      BY <1>4, <2>1, <2>3, <2>4, SMTT(30)
  <2>6. j = k + 1
    <3> SUFFICES ASSUME k + 1 < j PROVE FALSE
        BY <1>7
    <3>1. j \in 2 .. Len(zone) /\ k + 1 \in 2 .. j - 1 /\ j - 1 \in 1 .. j - 1
        BY <1>4, <2>1
    <3>2. zone[k + 1].since + HoursPerDay <= zone[j].since
        BY <3>1 DEF IsZone
    <3>3. zone[(j - 1) + 1].since <= t
        BY <1>3, <3>1 DEF GoesBy
    <3>4. zone[j].since <= t
      <4>1. (j - 1) + 1 = j
          BY <3>1
      <4> QED BY <3>3, <4>1
    <3> DEFINE u == zone[k + 1].since + HoursPerDay
               v == zone[j].since
    <3>5. u \in Int /\ v \in Int
      <4>1. zone[k + 1].since \in Int /\ zone[j].since \in Int
          BY <1>4, <2>1
      <4> QED BY <4>1
    <3>6. t < u /\ u <= v /\ v <= t
        BY <2>5, <3>2, <3>4
    <3> HIDE DEF u, v
    <3> QED BY <3>5, <3>6
  <2> DEFINE again == LocalTime(zone, t)
  <2> DEFINE a == zone[k].offset
             b == zone[k + 1].offset
             s == zone[k + 1].since
  <2>70. a \in Int /\ b \in Int /\ s \in Int
      BY <1>4, <2>1
  <2>71. again = t + b /\ t = local - a /\ s <= t /\ local - b < s
      BY <1>4, <2>2, <2>3, <2>6
  <2> HIDE DEF again, a, b, s
  <2>72. again \in Int /\ local <= again /\ a <= b /\ again - b = t /\ s <= again - a
      BY <2>70, <2>71
  <2>7. again = t + zone[k + 1].offset /\ again \in Int /\ local <= again
      BY <2>71, <2>72 DEF b
  <2>8. ToldBy(zone, again, k + 1)
    <3>1. k + 1 < Len(zone) => again - zone[k + 1].offset < zone[(k + 1) + 1].since
      <4> SUFFICES ASSUME k + 1 < Len(zone) PROVE t < zone[(k + 1) + 1].since
          BY <1>4, <2>1, <2>7, SMTT(30)
      <4> QED BY <1>3, <2>6 DEF GoesBy
    <3>2. ASSUME NEW n \in 1 .. (k + 1) - 1
          PROVE  /\ zone[n + 1].since <= again - zone[n].offset
                 /\ zone[n + 1].since <= again - zone[n + 1].offset
      <4>1. n \in 1 .. Len(zone) /\ n + 1 \in 1 .. Len(zone)
          BY <1>4, <2>1, PlacesBefore, Zenon
      <4>2. CASE n = k
        <5> QED BY <2>71, <2>72, <4>2 DEF a, b, s
      <4>3. CASE n # k
        <5>1. n \in 1 .. k - 1
            BY <4>3
        <5>2. /\ zone[n + 1].since <= local - zone[n].offset
              /\ zone[n + 1].since <= local - zone[n + 1].offset
            BY <1>1, <5>1 DEF ToldBy
        <5>3. zone[n + 1].since \in Int /\ zone[n].offset \in Int /\ zone[n + 1].offset \in Int
            BY <1>4, <4>1
        <5> DEFINE c == zone[n].offset
                   d == zone[n + 1].offset
                   u == zone[n + 1].since
        <5>4. /\ u \in Int /\ c \in Int /\ d \in Int
              /\ u <= local - c /\ u <= local - d
            BY <5>2, <5>3
        <5> HIDE DEF c, d, u
        <5>5. u <= again - c /\ u <= again - d
            BY <2>72, <5>4
        <5> QED BY <5>5 DEF c, d, u
      <4> QED BY <4>2, <4>3
    <3> QED BY <2>1, <3>1, <3>2 DEF ToldBy
  <2>9. UtcOf(zone, again) = again - zone[k + 1].offset
      BY <2>7, <2>8, ToldByOne
  <2>10. again - zone[k + 1].offset = t
      BY <2>72 DEF b
  <2> QED BY <1>2, <2>9, <2>10 DEF again
<1> QED BY <1>4, <1>5, <1>6, <1>7

\* A clock that is never changed.
LEMMA FixedClock ==
    ASSUME NEW zone, IsZone(zone), Len(zone) = 1, HoursPerDay \in Nat \ {0}, NEW t \in Int
    PROVE  /\ zone[1].offset \in Int
           /\ StartOfDay(zone, t) =
                ((t + zone[1].offset) \div HoursPerDay) * HoursPerDay - zone[1].offset
           /\ \A days \in Int : AddDays(zone, t, days) = t + days * HoursPerDay
<1> DEFINE off == zone[1].offset
<1>1. off \in Int
    BY DEF IsZone
<1>2. \A k \in 1 .. Len(zone) : k = 1
    OBVIOUS
<1>3. LocalTime(zone, t) = t + off
    BY <1>2, OffsetIs DEF LocalTime
<1>4. \A local \in Int : UtcOf(zone, local) = local - off
    BY <1>2, UtcIs
<1> HIDE DEF off
<1>5. StartOfDay(zone, t) = ((t + off) \div HoursPerDay) * HoursPerDay - off
  <2> DEFINE d == (t + off) \div HoursPerDay
  <2>1. t + off \in Int
      BY <1>1
  <2>2. d \in Int
      BY <2>1, DayBounds
  <2> HIDE DEF d
  <2>3. d * HoursPerDay \in Int
      BY <2>2
  <2>4. StartOfDay(zone, t) = UtcOf(zone, d * HoursPerDay)
      BY <1>3 DEF StartOfDay, d
  <2> QED BY <1>4, <2>3, <2>4 DEF d
<1>6. ASSUME NEW days \in Int PROVE AddDays(zone, t, days) = t + days * HoursPerDay
  <2> DEFINE h == days * HoursPerDay
  <2>1. h \in Int
      OBVIOUS
  <2> HIDE DEF h
  <2>2. (t + off) + h \in Int
      BY <1>1, <2>1
  <2>3. AddDays(zone, t, days) = UtcOf(zone, (t + off) + h)
      BY <1>3 DEF AddDays, h
  <2>4. AddDays(zone, t, days) = ((t + off) + h) - off
      BY <1>4, <2>2, <2>3
  <2>5. ((t + off) + h) - off = t + h
      BY <1>1, <2>1
  <2> QED BY <2>4, <2>5 DEF h
<1> QED BY <1>1, <1>5, <1>6 DEF off

\* Whole days: multiples of the hours of a day.
LEMMA Multiples ==
    ASSUME NEW H \in Nat, NEW a \in Int, NEW b \in Int
    PROVE  /\ a * H \in Int /\ b * H \in Int /\ (a + b) * H = a * H + b * H
           /\ (a + 1) * H = a * H + H
           /\ a <= b => a * H <= b * H
           /\ a < b => a * H + H <= b * H
<1>1. a * H \in Int /\ b * H \in Int /\ (a + b) * H = a * H + b * H
    OBVIOUS
<1>2. (a + 1) * H = a * H + H
    OBVIOUS
<1>3. ASSUME a <= b PROVE a * H <= b * H
  <2>1. b - a \in Nat
      BY <1>3
  <2>2. (b - a) * H \in Nat
      BY <2>1
  <2>3. (b - a) * H = b * H - a * H
      OBVIOUS
  <2> QED BY <2>2, <2>3, <1>1
<1>4. ASSUME a < b PROVE a * H + H <= b * H
  <2>1. b - (a + 1) \in Nat
      BY <1>4
  <2>2. (b - (a + 1)) * H \in Nat
      BY <2>1
  <2>3. (b - (a + 1)) * H = b * H - (a * H + H)
      OBVIOUS
  <2> QED BY <2>2, <2>3, <1>1
<1> QED BY <1>1, <1>2, <1>3, <1>4

\* A date before another is that of a time before the other date begins.
LEMMA DayBefore ==
    ASSUME NEW H \in Nat \ {0}, NEW t \in Int, NEW p \in Int
    PROVE  t \div H < p <=> t < p * H
<1> DEFINE d == t \div H
           r == t % H
           dh == d * H
           ph == p * H
<1>1. d \in Int /\ r \in 0 .. H - 1 /\ t = dh + r /\ H \in Nat
    BY DayBounds
<1> HIDE DEF d, r
<1>2. dh \in Int /\ ph \in Int /\ (d < p => dh + H <= ph) /\ (p <= d => ph <= dh)
    BY <1>1, Multiples
<1> HIDE DEF dh, ph
<1>3. d < p <=> t < ph
    BY <1>1, <1>2
<1> QED BY <1>3 DEF d, ph

(***************************************************************************)
(* The trend.                                                              *)
(***************************************************************************)
DaysBegin(days, zone) ==
    [day \in 0 .. days - 1 |-> AddDays(zone, TrendStart(days, zone), day)]

TrendKeys(days, zone) ==
    {DateKey(AddDays(zone, TrendStart(days, zone), day)) : day \in 0 .. days - 1}

TrendOrders(days, zone) == RevenueOrders(TrendStart(days, zone), Tomorrow(zone))

LostOrders(days, zone) ==
    {i \in TrendOrders(days, zone) : DateKey(When(book[i])) \notin TrendKeys(days, zone)}

LEMMA WindowType ==
    ASSUME DashboardsAssumption, NEW zone \in Zones, NEW days \in 1 .. MaxDays
    PROVE  /\ days \in Nat \ {0} /\ days \in Int
           /\ Today(zone) \in Int /\ Tomorrow(zone) \in Int /\ TrendStart(days, zone) \in Int
           /\ \A day \in 0 .. days - 1 : DaysBegin(days, zone)[day] \in Int
           /\ \A t \in Int, k \in Int : AddDays(zone, t, k) \in Int
<1>1. IsZone(zone) /\ HoursPerDay \in Nat \ {0} /\ Now \in Int
    BY ZoneType
<1>2. days \in Nat \ {0} /\ days \in Int
    BY DEF DashboardsAssumption
<1>3. \A t \in Int, k \in Int : AddDays(zone, t, k) \in Int
    BY <1>1, ClockType
<1>4. Today(zone) \in Int
    BY <1>1, ClockType DEF Today
<1>5. 0 - (days - 1) \in Int /\ \A day \in 0 .. days - 1 : day \in Int
    BY <1>2
<1>6. Tomorrow(zone) \in Int /\ TrendStart(days, zone) \in Int
    BY <1>3, <1>4, <1>5 DEF Tomorrow, TrendStart
<1>7. \A day \in 0 .. days - 1 : DaysBegin(days, zone)[day] \in Int
    BY <1>3, <1>5, <1>6 DEF DaysBegin
<1> QED BY <1>2, <1>3, <1>4, <1>6, <1>7

\* The first day of the trend begins where its window does.
LEMMA FirstDayBegins ==
    ASSUME DashboardsAssumption, NEW zone \in Zones, NEW days \in 1 .. MaxDays
    PROVE  DaysBegin(days, zone)[0] = TrendStart(days, zone)
<1>1. IsZone(zone) /\ HoursPerDay \in Nat \ {0} /\ Today(zone) \in Int /\ days \in Nat \ {0}
    BY ZoneType, WindowType
<1> DEFINE local == LocalTime(zone, Today(zone)) + (0 - (days - 1)) * HoursPerDay
           start == TrendStart(days, zone)
<1>2. local \in Int
  <2>1. LocalTime(zone, Today(zone)) \in Int
      BY <1>1, ClockType
  <2>2. (0 - (days - 1)) * HoursPerDay \in Int
      BY <1>1
  <2> QED BY <2>1, <2>2
<1>3. start = UtcOf(zone, local)
    BY DEF TrendStart, AddDays
<1> HIDE DEF local
<1>4. UtcOf(zone, LocalTime(zone, start)) = start
    BY <1>1, <1>2, <1>3, ClockKept
<1>5. start \in Int
    BY WindowType
<1>6. LocalTime(zone, start) + 0 * HoursPerDay = LocalTime(zone, start)
  <2>1. LocalTime(zone, start) \in Int
      BY <1>1, <1>5, ClockType
  <2> QED BY <1>1, <2>1
<1>7. AddDays(zone, start, 0) = start
    BY <1>4, <1>6 DEF AddDays
<1>8. 0 \in 0 .. days - 1
    BY <1>1
<1> QED BY <1>7, <1>8 DEF DaysBegin

LEMMA TrendOrdersAre ==
    ASSUME DashboardsAssumption, DashboardsInit, NEW zone \in Zones, NEW days \in 1 .. MaxDays
    PROVE  /\ AreOfWindow(TrendOrders(days, zone), TrendStart(days, zone), Tomorrow(zone))
           /\ IsFiniteSet(TrendOrders(days, zone)) /\ TrendOrders(days, zone) \in SUBSET DOMAIN book
           /\ LostOrders(days, zone) \in SUBSET DOMAIN book
           /\ TrendOrders(days, zone) \ LostOrders(days, zone) =
                Keyed(TrendOrders(days, zone), Dates, TrendKeys(days, zone))
<1>1. AreOfWindow(TrendOrders(days, zone), TrendStart(days, zone), Tomorrow(zone))
  <2>1. TrendStart(days, zone) \in Int /\ Tomorrow(zone) \in Int
      BY WindowType
  <2> QED BY <2>1, RevenueOrdersAre DEF TrendOrders
<1>2. IsFiniteSet(TrendOrders(days, zone)) /\ TrendOrders(days, zone) \in SUBSET DOMAIN book
    BY <1>1 DEF AreOfWindow
<1>3. \A i \in TrendOrders(days, zone) : Dates[i] = DateKey(When(book[i]))
    BY <1>2 DEF Dates
<1> QED BY <1>1, <1>2, <1>3 DEF LostOrders, Keyed

\* A lost order is of the hours after the last beginning, and of a later date; or
\* lies between two beginnings, with the whole of its date.
LEMMA LostAre ==
    ASSUME DashboardsAssumption, DashboardsInit, NEW zone \in Zones, NEW days \in 1 .. MaxDays,
           NEW i \in LostOrders(days, zone)
    PROVE  LET t == When(book[i])
               begins == DaysBegin(days, zone)
           IN \/ begins[days - 1] <= t /\ DateKey(begins[days - 1]) < DateKey(t)
              \/ \E day \in 1 .. days - 1 :
                    /\ begins[day - 1] < t /\ t < begins[day]
                    /\ begins[day] - begins[day - 1] > HoursPerDay
<1> DEFINE t == When(book[i])
           begins == DaysBegin(days, zone)
           H == HoursPerDay
           last == days - 1
<1>1. /\ H \in Nat \ {0} /\ days \in Nat \ {0} /\ last \in Nat /\ days = last + 1
      /\ \A day \in 0 .. last : begins[day] \in Int
    BY ZoneType, WindowType
<1>2. t \in Int /\ begins[0] <= t
  <2>1. AreOfWindow(TrendOrders(days, zone), TrendStart(days, zone), Tomorrow(zone))
      BY TrendOrdersAre
  <2>2. i \in TrendOrders(days, zone) /\ i \in DOMAIN book
      BY TrendOrdersAre DEF LostOrders
  <2>3. TrendStart(days, zone) <= t
      BY <2>1, <2>2 DEF AreOfWindow
  <2> QED BY <2>2, <2>3, BookType, FirstDayBegins
<1>3. \A day \in 0 .. last : DateKey(begins[day]) # DateKey(t)
  <2>1. DateKey(t) \notin TrendKeys(days, zone)
      BY DEF LostOrders
  <2>2. \A day \in 0 .. last : DateKey(begins[day]) \in TrendKeys(days, zone)
      BY DEF DaysBegin, TrendKeys
  <2> QED BY <2>1, <2>2
<1> HIDE DEF t, begins, H, last
\* Dates in order lie whole days apart.
<1>4. ASSUME NEW a \in Int, NEW b \in Int, a <= b, DateKey(a) # DateKey(b)
      PROVE  DateKey(a) \in Int /\ DateKey(b) \in Int /\ DateKey(a) < DateKey(b)
             /\ (DateKey(a) + 1) * H <= b /\ a < (DateKey(a) + 1) * H
  <2> DEFINE p == a \div H
             q == b \div H
  <2>1. p \in Int /\ q \in Int
    <3>1. H \in Nat \ {0}
        BY <1>1
    <3> QED BY <3>1, DayBounds
  <2>2. p # q
      BY <1>4 DEF DateKey, H
  <2>3. p * H <= a /\ a < (p + 1) * H /\ q * H <= b /\ b < (q + 1) * H
    <3>1. (p = p <=> p * H <= a /\ a < (p + 1) * H) /\ (q = q <=> q * H <= b /\ b < (q + 1) * H)
      <4> DEFINE x == p
                 y == q
      <4>1. \A z \in Int : a \div H = z <=> z * H <= a /\ a < (z + 1) * H
          BY <1>1, DayOf
      <4>2. \A z \in Int : b \div H = z <=> z * H <= b /\ b < (z + 1) * H
          BY <1>1, DayOf
      <4> QED BY <2>1, <4>1, <4>2
    <3> QED BY <3>1
  <2> HIDE DEF p, q
  <2>10. p + 1 \in Int /\ q + 1 \in Int
      BY <2>1
  <2>4. p < q
    <3> SUFFICES ASSUME q < p PROVE FALSE
        BY <2>1, <2>2
    <3>1. q + 1 <= p
        BY <2>1
    <3>2. /\ (q + 1) * H <= p * H
          /\ (q + 1) * H \in Int /\ p * H \in Int
        BY <1>1, <2>1, <2>10, <3>1, Multiples
    <3> DEFINE u == (q + 1) * H
               v == p * H
    <3>3. u \in Int /\ v \in Int /\ u <= v /\ v <= a /\ b < u
        BY <2>3, <3>2
    <3> HIDE DEF u, v
    <3> QED BY <1>4, <3>3
  <2>5. p + 1 <= q
      BY <2>1, <2>4
  <2>6. (p + 1) * H <= q * H /\ (p + 1) * H \in Int /\ q * H \in Int
      BY <1>1, <2>1, <2>10, <2>5, Multiples
  <2>7. (p + 1) * H <= b
    <3> DEFINE u == (p + 1) * H
               v == q * H
    <3>1. u \in Int /\ v \in Int /\ u <= v /\ v <= b
        BY <2>3, <2>6
    <3> HIDE DEF u, v
    <3>2. u <= b
        BY <3>1
    <3> QED BY <3>2 DEF u
  <2>8. DateKey(a) = p /\ DateKey(b) = q
      BY DEF DateKey, p, q, H
  <2> QED BY <2>1, <2>3, <2>4, <2>7, <2>8
<1>5. CASE begins[last] <= t
  <2>1. begins[last] \in Int /\ last \in 0 .. last
      BY <1>1
  <2>2. DateKey(begins[last]) < DateKey(t)
      BY <1>2, <1>3, <1>4, <1>5, <2>1
  <2> QED BY <1>5, <2>2 DEF t, begins, last
<1>6. CASE ~(begins[last] <= t)
  <2> DEFINE later == {day \in 0 .. last : ~(begins[day] <= t)}
  <2>1. later \subseteq Nat /\ later # {}
      BY <1>1, <1>6
  <2>2. PICK day \in later : \A n \in later : day <= n
      BY <2>1, LeastNumber
  <2>3. day \in 1 .. last /\ day - 1 \in 0 .. last /\ day \in 0 .. last
      BY <1>1, <1>2, <2>2
  <2>4. begins[day - 1] <= t
    <3>1. day - 1 \notin later
        BY <2>2, <2>3
    <3> QED BY <2>3, <3>1
  <2>5. PICK a \in Int : a = begins[day - 1]
      BY <1>1, <2>3
  <2>6. PICK b \in Int : b = begins[day]
      BY <1>1, <2>3
  <2>7. a <= t /\ ~(b <= t) /\ DateKey(a) # DateKey(t) /\ DateKey(b) # DateKey(t)
      BY <1>3, <2>2, <2>3, <2>4, <2>5, <2>6
  <2>8. t < b
      BY <1>2, <2>7
  <2> DEFINE p == DateKey(a)
             q == DateKey(t)
  <2>9. /\ p \in Int /\ q \in Int /\ a < (p + 1) * H /\ p < q
        /\ (q + 1) * H <= b
      BY <1>2, <1>4, <2>7, <2>8
  <2> HIDE DEF p, q
  <2>10. /\ (p + 1) * H + H <= (q + 1) * H
         /\ (p + 1) * H \in Int /\ (q + 1) * H \in Int
    <3>1. p + 1 \in Int /\ q + 1 \in Int /\ p + 1 < q + 1
        BY <2>9
    <3> QED BY <1>1, <3>1, Multiples
  <2>11. b - a > H
    <3> DEFINE u == (p + 1) * H
               v == (q + 1) * H
    <3>1. u \in Int /\ v \in Int /\ a < u /\ u + H <= v /\ v <= b
        BY <2>9, <2>10
    <3> HIDE DEF u, v
    <3> QED BY <1>1, <3>1
  <2>12. a < t
    <3>1. a # t
        BY <2>7
    <3> QED BY <1>2, <2>7, <3>1
  <2>13. begins[day - 1] < t /\ t < begins[day] /\ begins[day] - begins[day - 1] > H
      BY <2>5, <2>6, <2>8, <2>11, <2>12
  <2> QED BY <2>3, <2>13 DEF t, begins, last, H
<1> QED BY <1>5, <1>6

\* What is in a bucket, and
LEMMA TrendIs ==
    ASSUME DashboardsAssumption, DashboardsInit, NEW zone \in Zones, NEW days \in 1 .. MaxDays
    PROVE  RevenueTrend(days, zone) =
            [key \in TrendKeys(days, zone) |->
                [revenue |-> Spent(Keyed(TrendOrders(days, zone), Dates, {key})),
                 orders |-> Cardinality(Keyed(TrendOrders(days, zone), Dates, {key}))]]
<1> DEFINE In(key) == {i \in TrendOrders(days, zone) : DateKey(When(book[i])) = key}
<1>1. RevenueTrend(days, zone) =
        [key \in TrendKeys(days, zone) |->
            [revenue |-> Spent(In(key)), orders |-> Cardinality(In(key))]]
    BY DEF RevenueTrend, TrendOrders, TrendKeys
<1>2. \A key : In(key) = Keyed(TrendOrders(days, zone), Dates, {key})
  <2>1. TrendOrders(days, zone) \in SUBSET DOMAIN book
      BY TrendOrdersAre
  <2> QED BY <2>1 DEF Keyed, Dates
<1> HIDE DEF In
<1> QED BY <1>1, <1>2

\* what is in all of them.
LEMMA TrendSums ==
    ASSUME DashboardsAssumption, DashboardsInit, NEW zone \in Zones, NEW days \in 1 .. MaxDays
    PROVE  LET trend == RevenueTrend(days, zone)
           IN /\ SumFunction([key \in DOMAIN trend |-> trend[key]["revenue"]]) =
                    Spent(TrendOrders(days, zone) \ LostOrders(days, zone))
              /\ SumFunction([key \in DOMAIN trend |-> trend[key]["orders"]]) =
                    Cardinality(TrendOrders(days, zone) \ LostOrders(days, zone))
<1> DEFINE S == TrendOrders(days, zone)
           K == TrendKeys(days, zone)
           trend == RevenueTrend(days, zone)
           revenue == [key \in K |-> trend[key]["revenue"]]
           counts == [key \in K |-> trend[key]["orders"]]
           ones == [i \in DOMAIN book |-> 1]
           kept == TrendOrders(days, zone) \ LostOrders(days, zone)
<1>1. /\ IsFiniteSet(S) /\ S \in SUBSET DOMAIN book
      /\ Keyed(S, Dates, K) = kept /\ kept \in SUBSET DOMAIN book
    BY TrendOrdersAre
<1>2. IsFiniteSet(K)
  <2> DEFINE f == [day \in 0 .. days - 1 |->
                      DateKey(AddDays(zone, TrendStart(days, zone), day))]
  <2>1. K = ImageOf(f, 0 .. days - 1)
      BY DEF ImageOf, TrendKeys
  <2>2. IsFiniteSet(0 .. days - 1)
    <3>1. 0 \in Int /\ days - 1 \in Int
        BY WindowType
    <3> QED BY <3>1, FS_Interval
  <2> HIDE DEF f, K
  <2> QED BY <2>1, <2>2, ImageCounts
<1>3. /\ DOMAIN trend = K
      /\ \A key \in K : /\ revenue[key] = Spent(Keyed(S, Dates, {key}))
                        /\ counts[key] = Cardinality(Keyed(S, Dates, {key}))
    BY TrendIs
<1> HIDE DEF trend, S, K, kept
<1>4. /\ SumFunction([key \in DOMAIN trend |-> trend[key]["revenue"]]) = SumOf(revenue, K)
      /\ SumFunction([key \in DOMAIN trend |-> trend[key]["orders"]]) = SumOf(counts, K)
    BY <1>3 DEF SumFunction, SumOf
<1> HIDE DEF revenue, counts
<1>5. /\ \A key : Keyed(S, Dates, {key}) \in SUBSET DOMAIN book
      /\ \A T : T \in SUBSET DOMAIN book => IsFiniteSet(T)
    BY <1>1, BookType, FS_Subset DEF Keyed
<1>6. \A T \in SUBSET DOMAIN book : SumOf(ones, T) = Cardinality(T)
    BY <1>5, SumOfOnes
<1>7. Weighs(Totals, S) /\ Weighs(ones, S)
    BY <1>1, BookType DEF Weighs, Totals
<1> HIDE DEF ones
<1>8. \A key \in K : /\ revenue[key] = SumOf(Totals, Keyed(S, Dates, {key}))
                     /\ counts[key] = SumOf(ones, Keyed(S, Dates, {key}))
    BY <1>3, <1>5, <1>6, SpentIs
<1>9. SumOf(revenue, K) = SumOf(Totals, Keyed(S, Dates, K))
  <2>1. SumsByKey(revenue, Totals, S, Dates, K)
      BY <1>8 DEF SumsByKey
  <2>2. IsFiniteSet(S) /\ IsFiniteSet(K) /\ Weighs(Totals, S)
      BY <1>1, <1>2, <1>7
  <2> QED BY <2>1, <2>2, SumByKeys
<1>10. SumOf(counts, K) = SumOf(ones, Keyed(S, Dates, K))
  <2>1. SumsByKey(counts, ones, S, Dates, K)
      BY <1>8 DEF SumsByKey
  <2>2. IsFiniteSet(S) /\ IsFiniteSet(K) /\ Weighs(ones, S)
      BY <1>1, <1>2, <1>7
  <2> QED BY <2>1, <2>2, SumByKeys
<1>11. /\ SumOf(Totals, kept) = Spent(kept)
       /\ SumOf(ones, kept) = Cardinality(kept)
    BY <1>1, <1>6, SpentIs
<1> QED BY <1>1, <1>4, <1>9, <1>10, <1>11 DEF trend, kept

(***************************************************************************)
(* The trend of a server whose clock is never changed.                     *)
(***************************************************************************)
FixedStart(days, off) ==
    (((Now + off) \div HoursPerDay) * HoursPerDay - off) - (days - 1) * HoursPerDay

\* The hours of the window without a bucket.
LostHours(off) == (0 - off) % HoursPerDay

FixedKeys(days, off) ==
    LET first == FixedStart(days, off) \div HoursPerDay
    IN first .. (first + days - 1)

\* The first local day of the trend begins some hours after a UTC date: the
\* hours the clock is behind, up to whole days.
LEMMA FixedStarts ==
    ASSUME DashboardsAssumption, NEW off \in Int, NEW days \in 1 .. MaxDays
    PROVE  LET start == FixedStart(days, off)
               lost == (0 - off) % HoursPerDay
           IN /\ start \in Int /\ lost \in 0 .. HoursPerDay - 1
              /\ start = (start \div HoursPerDay) * HoursPerDay + lost
              /\ start \div HoursPerDay \in Int
<1> DEFINE H == HoursPerDay
           start == FixedStart(days, off)
           lost == (0 - off) % H
           c == (0 - off) \div H
<1>1. Now \in Int /\ days \in Int /\ off \in Int /\ H \in Nat \ {0} /\ H \in Int
    BY DEF DashboardsAssumption
<1>2. PICK q \in Int : q = (Now + off) \div H
  <2>1. Now + off \in Int
      BY <1>1
  <2> QED BY <1>1, <2>1, DayBounds
<1>3. 0 - off = c * H + lost /\ c \in Int /\ lost \in 0 .. H - 1
  <2>1. 0 - off \in Int
      BY <1>1
  <2> QED BY <1>1, <2>1, DayBounds
<1>4. start = (q * H - off) - (days - 1) * H
    BY <1>2 DEF FixedStart
<1> HIDE DEF H, start, lost, c
<1> DEFINE d == (q - (days - 1)) + c
<1>5. d \in Int
    BY <1>1, <1>3
<1>6. d * H = (q * H - (days - 1) * H) + c * H
    BY <1>1, <1>3
<1>7. start = d * H + lost /\ start \in Int /\ (d + 1) * H = d * H + H
  <2> DEFINE qh == q * H
             dd == (days - 1) * H
             ch == c * H
             dh == d * H
  <2>1. qh \in Int /\ dd \in Int /\ ch \in Int /\ dh \in Int
      BY <1>1, <1>3, <1>5
  <2>2. dh = (qh - dd) + ch /\ start = (qh - off) - dd /\ 0 - off = ch + lost
      BY <1>3, <1>4, <1>6
  <2>3. (d + 1) * H = dh + H
    <3> HIDE DEF d
    <3> QED BY <1>1, <1>5
  <2> HIDE DEF qh, dd, ch, dh
  <2>4. start = dh + lost /\ start \in Int
      BY <1>1, <1>3, <2>1, <2>2
  <2> QED BY <2>3, <2>4 DEF dh
<1> HIDE DEF d
<1>8. start \div H = d
  <2> DEFINE dh == d * H
  <2>1. dh \in Int
      BY <1>1, <1>5
  <2>2. start = dh + lost /\ (d + 1) * H = dh + H
      BY <1>7
  <2> HIDE DEF dh
  <2>3. dh <= start /\ start < dh + H
      BY <1>1, <1>3, <2>1, <2>2
  <2>4. d * H <= start /\ start < (d + 1) * H
      BY <2>2, <2>3 DEF dh
  <2> QED BY <1>1, <1>5, <1>7, <2>4, DayOf
<1> QED BY <1>3, <1>5, <1>7, <1>8 DEF H, start, lost

\* The dates of the buckets are consecutive.
LEMMA FixedDates ==
    ASSUME DashboardsAssumption, NEW off \in Int, NEW days \in 1 .. MaxDays
    PROVE  {DateKey(FixedStart(days, off) + day * HoursPerDay) : day \in 0 .. days - 1} =
                FixedKeys(days, off)
<1> DEFINE H == HoursPerDay
           start == FixedStart(days, off)
           first == start \div H
<1>1. H \in Nat \ {0} /\ H \in Nat /\ days \in Nat \ {0} /\ days \in Int
    BY DEF DashboardsAssumption
<1>2. /\ start \in Int /\ LostHours(off) \in 0 .. H - 1 /\ first \in Int
      /\ start = first * H + LostHours(off)
    BY FixedStarts DEF LostHours
<1> HIDE DEF H, start, first
<1>3. ASSUME NEW day \in Int PROVE DateKey(start + day * H) = first + day
  <2> DEFINE fh == first * H
             dh == day * H
  <2>1. /\ fh \in Int /\ dh \in Int /\ (first + day) * H = fh + dh
        /\ ((first + day) + 1) * H = (first + day) * H + H
        /\ first + day \in Int
      BY <1>1, <1>2, Multiples
  <2> DEFINE lost == LostHours(off)
  <2>2. /\ start = fh + lost /\ lost \in Int /\ 0 <= lost /\ lost < H
        /\ H \in Int /\ fh \in Int /\ dh \in Int
    <3>1. start = fh + lost
        BY <1>2
    <3>2. H \in Int /\ fh \in Int /\ dh \in Int
        BY <1>1, <2>1
    <3> HIDE DEF fh, dh
    <3> QED BY <1>1, <1>2, <3>1, <3>2, SMTT(20)
  <2> HIDE DEF fh, dh, lost
  <2> DEFINE t == start + dh
             q == first + day
             qh == q * H
  <2>3. qh = fh + dh /\ (q + 1) * H = qh + H /\ q \in Int
      BY <2>1
  <2> HIDE DEF q, qh
  <2>4. t \in Int /\ qh <= t /\ t < qh + H
    <3>1. qh = fh + dh
        BY <2>3
    <3> QED BY <2>2, <3>1
  <2> HIDE DEF t
  <2>5. q * H <= t /\ t < (q + 1) * H
      BY <2>3, <2>4 DEF qh
  <2>6. t \div H = q
      BY <1>1, <2>3, <2>4, <2>5, DayOf
  <2> QED BY <2>6 DEF DateKey, H, dh, t, q
<1>4. {DateKey(start + day * H) : day \in 0 .. days - 1} = {first + day : day \in 0 .. days - 1}
  <2>1. \A day \in 0 .. days - 1 : DateKey(start + day * H) = first + day
      BY <1>1, <1>3
  <2> QED BY <2>1
<1>5. {first + day : day \in 0 .. days - 1} = first .. (first + days - 1)
  <2>1. \A n \in first .. (first + days - 1) : n - first \in 0 .. days - 1 /\ n = first + (n - first)
      BY <1>1, <1>2
  <2>2. \A day \in 0 .. days - 1 : first + day \in first .. (first + days - 1)
      BY <1>1, <1>2
  <2> QED BY <2>1, <2>2, ZenonT(30)
<1> QED BY <1>4, <1>5 DEF FixedKeys, H, start, first

LEMMA FixedWindow ==
    ASSUME DashboardsAssumption, NEW zone \in Zones, NEW days \in 1 .. MaxDays, Len(zone) = 1
    PROVE  LET off == zone[1].offset
               today == ((Now + off) \div HoursPerDay) * HoursPerDay - off
           IN /\ off \in Int /\ Today(zone) = today /\ Tomorrow(zone) = today + HoursPerDay
              /\ TrendStart(days, zone) = FixedStart(days, off)
              /\ Tomorrow(zone) = FixedStart(days, off) + days * HoursPerDay
              /\ TrendKeys(days, zone) = FixedKeys(days, off)
<1> DEFINE off == zone[1].offset
           today == ((Now + off) \div HoursPerDay) * HoursPerDay - off
           H == HoursPerDay
           start == FixedStart(days, off)
           before == (days - 1) * H
<1>1. IsZone(zone) /\ H \in Nat \ {0} /\ H \in Nat /\ Now \in Int /\ days \in Nat \ {0}
    BY ZoneType, WindowType
<1>2. off \in Int /\ Today(zone) = today /\ Today(zone) \in Int
    BY <1>1, FixedClock, WindowType DEF Today
<1>3. \A t \in Int, k \in Int : AddDays(zone, t, k) = t + k * H
    BY <1>1, FixedClock
<1>4. /\ days - 1 \in Int /\ 1 \in Int /\ 0 - (days - 1) \in Int
      /\ before \in Int /\ 1 * H = H /\ (0 - (days - 1)) * H = 0 - before
      /\ days * H = before + H
    BY <1>1
<1>5. start = today - before
    BY DEF FixedStart
<1> HIDE DEF today, before, H, off, start
<1>6. Tomorrow(zone) = today + H
    BY <1>2, <1>3, <1>4 DEF Tomorrow
<1>7. TrendStart(days, zone) = today + (0 - before)
    BY <1>2, <1>3, <1>4 DEF TrendStart
<1>8. TrendStart(days, zone) = start /\ start \in Int
    BY <1>2, <1>4, <1>5, <1>7
<1>9. Tomorrow(zone) = start + days * H
  <2> DEFINE all == days * H
  <2>1. all = before + H
      BY <1>4
  <2> HIDE DEF all
  <2>2. Tomorrow(zone) = start + all
      BY <1>1, <1>2, <1>4, <1>5, <1>6, <2>1
  <2> QED BY <2>2 DEF all
<1>10. TrendKeys(days, zone) = FixedKeys(days, off)
  <2>1. \A day \in 0 .. days - 1 : AddDays(zone, start, day) = start + day * H
      BY <1>1, <1>3, <1>8
  <2>2. TrendKeys(days, zone) = {DateKey(start + day * H) : day \in 0 .. days - 1}
      BY <1>8, <2>1 DEF TrendKeys
  <2>3. {DateKey(start + day * H) : day \in 0 .. days - 1} = FixedKeys(days, off)
      BY <1>2, FixedDates DEF start, H
  <2> QED BY <2>2, <2>3
<1> QED BY <1>2, <1>6, <1>8, <1>9, <1>10 DEF off, today, H, start

\* The orders of the window whose date has no bucket are those of the lost hours.
LEMMA FixedLost ==
    ASSUME DashboardsAssumption, DashboardsInit, NEW zone \in Zones, NEW days \in 1 .. MaxDays,
           Len(zone) = 1
    PROVE  LostOrders(days, zone) =
            {i \in TrendOrders(days, zone) :
                When(book[i]) >= Tomorrow(zone) - LostHours(zone[1].offset)}
<1> DEFINE H == HoursPerDay
           off == zone[1].offset
           start == FixedStart(days, off)
           first == start \div H
           lost == LostHours(off)
           end == Tomorrow(zone)
           dh == days * H
<1>1. H \in Nat \ {0} /\ H \in Nat /\ days \in Nat \ {0} /\ days \in Int
    BY ZoneType, WindowType
<1>2. /\ start \in Int /\ lost \in 0 .. H - 1 /\ first \in Int
      /\ start = first * H + lost
    BY FixedWindow, FixedStarts DEF LostHours
<1>3. /\ TrendKeys(days, zone) = first .. (first + days - 1)
      /\ TrendStart(days, zone) = start /\ end = start + dh
    BY FixedWindow DEF FixedKeys
<1> HIDE DEF H, start, first, lost, end
<1>4. /\ first * H \in Int /\ dh \in Int /\ (first + days) * H = first * H + dh
      /\ first + days \in Int
    BY <1>1, <1>2, Multiples
<1>5. end \in Int /\ end - lost \in Int /\ end - lost = (first + days) * H
    BY <1>1, <1>2, <1>3, <1>4
<1> HIDE DEF dh
<1>6. ASSUME NEW i \in TrendOrders(days, zone)
      PROVE  DateKey(When(book[i])) \in TrendKeys(days, zone) <=> When(book[i]) < end - lost
  <2> DEFINE t == When(book[i])
             d == t \div H
  <2>1. i \in DOMAIN book /\ start <= t
      BY <1>3, TrendOrdersAre DEF AreOfWindow
  <2>2. t \in Int /\ DateKey(t) = d /\ d \in Int
      BY <1>1, <2>1, BookType, DayBounds DEF DateKey, H
  <2> HIDE DEF t
  <2>3. d < first <=> t < first * H
      BY <1>1, <1>2, <2>2, DayBefore
  <2>4. d < first + days <=> t < (first + days) * H
      BY <1>1, <1>4, <2>2, DayBefore
  <2> HIDE DEF d
  <2>5. d \in first .. (first + days - 1) <=> ~(d < first) /\ d < first + days
      BY <1>1, <1>2, <2>2, SMTT(20)
  <2>6. ~(t < first * H)
      BY <1>1, <1>2, <1>4, <2>1, <2>2
  <2> QED BY <1>3, <1>5, <2>2, <2>3, <2>4, <2>5, <2>6 DEF t
<1>7. ASSUME NEW i \in TrendOrders(days, zone)
      PROVE  DateKey(When(book[i])) \notin TrendKeys(days, zone) <=> When(book[i]) >= end - lost
  <2>1. When(book[i]) \in Int
      BY TrendOrdersAre, BookType
  <2> QED BY <1>5, <1>6, <2>1
<1> QED BY <1>7 DEF LostOrders, end, lost, off

\* At UTC the last bucket holds the orders of the summary.
LEMMA TrendEndsToday ==
    ASSUME DashboardsAssumption, DashboardsInit, NEW zone \in Zones, NEW days \in 1 .. MaxDays,
           Len(zone) = 1, zone[1].offset = 0
    PROVE  /\ DateKey(Now) \in TrendKeys(days, zone)
           /\ Keyed(TrendOrders(days, zone), Dates, {DateKey(Now)}) =
                RevenueOrders(Today(zone), Tomorrow(zone))
<1> DEFINE H == HoursPerDay
           today == Today(zone)
           start == TrendStart(days, zone)
           p == DateKey(Now)
           dh == (days - 1) * H
<1>1. /\ H \in Nat \ {0} /\ H \in Nat /\ days \in Nat \ {0} /\ days - 1 \in Nat /\ Now \in Int
      /\ IsZone(zone)
    BY ZoneType, WindowType
<1>2. p \in Int /\ today = p * H
  <2>1. Now + 0 = Now
      BY <1>1
  <2>2. p \in Int /\ p * H \in Int
      BY <1>1, DayBounds, Multiples DEF DateKey
  <2>3. today = p * H - 0
      BY <2>1, FixedWindow DEF DateKey
  <2> QED BY <2>2, <2>3
<1>3. start = today - dh /\ Tomorrow(zone) = today + H
    BY FixedWindow DEF FixedStart
<1>30. \A t \in Int, k \in Int : AddDays(zone, t, k) = t + k * H
    BY <1>1, FixedClock
<1> HIDE DEF p, today, start
<1>4. /\ dh \in Int /\ 0 <= dh
      /\ (p + 1) * H = p * H + H /\ p * H \in Int
  <2>1. (days - 1) * H \in Int /\ 0 * H <= (days - 1) * H /\ 0 * H = 0
      BY <1>1, Multiples
  <2> QED BY <1>1, <1>2, <2>1, Multiples
<1> HIDE DEF dh
<1>5. /\ today \in Int /\ today + H \in Int /\ start \in Int /\ start <= today
      /\ start + dh = p * H
    BY <1>1, <1>2, <1>3, <1>4
<1>6. ASSUME NEW i \in DOMAIN book
      PROVE  Dates[i] = p <=> today <= When(book[i]) /\ When(book[i]) < today + H
  <2> DEFINE t == When(book[i])
  <2>1. t \in Int /\ Dates[i] = t \div H
      BY BookType DEF Dates, DateKey
  <2> HIDE DEF t
  <2>2. t \div H = p <=> p * H <= t /\ t < (p + 1) * H
      BY <1>1, <1>2, <2>1, DayOf
  <2> QED BY <1>2, <1>4, <2>1, <2>2 DEF t
<1>7. /\ TrendOrders(days, zone) = {i \in OrdersIn(RevenueStatuses) :
                                    start <= When(book[i]) /\ When(book[i]) < today + H}
      /\ RevenueOrders(today, today + H) = {i \in OrdersIn(RevenueStatuses) :
                                    today <= When(book[i]) /\ When(book[i]) < today + H}
  <2>1. AreOfWindow(TrendOrders(days, zone), start, today + H)
      BY <1>3, TrendOrdersAre DEF start
  <2>2. AreOfWindow(RevenueOrders(today, today + H), today, today + H)
      BY <1>5, RevenueOrdersAre
  <2> QED BY <2>1, <2>2 DEF AreOfWindow
<1>8. ASSUME NEW i \in OrdersIn(RevenueStatuses)
      PROVE  i \in Keyed(TrendOrders(days, zone), Dates, {p}) <=> i \in RevenueOrders(today, today + H)
  <2>1. i \in DOMAIN book
      BY DEF OrdersIn
  <2>2. When(book[i]) \in Int
      BY <2>1, BookType
  <2>3. today <= When(book[i]) => start <= When(book[i])
      BY <1>5, <2>2
  <2> HIDE DEF H
  <2> QED BY <1>6, <1>7, <2>1, <2>3 DEF Keyed
<1>9. Keyed(TrendOrders(days, zone), Dates, {p}) = RevenueOrders(today, today + H)
  <2>1. /\ Keyed(TrendOrders(days, zone), Dates, {p}) \in SUBSET OrdersIn(RevenueStatuses)
        /\ RevenueOrders(today, today + H) \in SUBSET OrdersIn(RevenueStatuses)
      BY <1>7 DEF Keyed
  <2> QED BY <1>8, <2>1
<1>10. p \in TrendKeys(days, zone)
  <2>1. days - 1 \in 0 .. days - 1 /\ days - 1 \in Int
      BY <1>1
  <2>2. DateKey(AddDays(zone, start, days - 1)) \in TrendKeys(days, zone)
      BY <2>1 DEF TrendKeys, start
  <2>3. AddDays(zone, start, days - 1) = p * H
      BY <1>5, <1>30, <2>1 DEF dh
  <2>4. p * H <= p * H /\ p * H < (p + 1) * H
      BY <1>1, <1>4
  <2>5. (p * H) \div H = p
      BY <1>1, <1>2, <1>4, <2>4, DayOf
  <2> QED BY <2>2, <2>3, <2>5 DEF DateKey
<1> QED BY <1>3, <1>9, <1>10 DEF p, today

LEMMA Trends ==
    DashboardsAssumption /\ DashboardsInit => TrendsLoseOnlyUnnamedDates
<1> SUFFICES ASSUME DashboardsAssumption, DashboardsInit,
                    NEW zone \in Zones, NEW days \in 1 .. MaxDays
             PROVE  LET start == TrendStart(days, zone)
                        end == Tomorrow(zone)
                        begins == [day \in 0 .. days - 1 |-> AddDays(zone, start, day)]
                        trend == RevenueTrend(days, zone)
                        inWindow == RevenueOrders(start, end)
                        lost == {i \in inWindow : DateKey(When(book[i])) \notin DOMAIN trend}
                        Sum(field) == SumFunction([key \in DOMAIN trend |-> trend[key][field]])
                        MissesTheEnd(t) ==
                            begins[days - 1] <= t /\ DateKey(begins[days - 1]) < DateKey(t)
                        IsInALongDay(t) ==
                            \E day \in 1 .. days - 1 :
                                /\ begins[day - 1] < t /\ t < begins[day]
                                /\ begins[day] - begins[day - 1] > HoursPerDay
                    IN /\ Sum("revenue") = Spent(inWindow \ lost)
                       /\ Sum("orders") = Cardinality(inWindow \ lost)
                       /\ \A i \in lost :
                            MissesTheEnd(When(book[i])) \/ IsInALongDay(When(book[i]))
                       /\ Len(zone) = 1 =>
                            lost = {i \in inWindow :
                                When(book[i]) >= end - ((0 - zone[1].offset) % HoursPerDay)}
                       /\ Len(zone) = 1 /\ zone[1].offset = 0 =>
                            trend[DateKey(Now)] = [revenue |-> Summary(zone).revenue,
                                                   orders |-> Summary(zone).orders]
    BY DEF TrendsLoseOnlyUnnamedDates
<1> DEFINE trend == RevenueTrend(days, zone)
           inWindow == TrendOrders(days, zone)
           lost == LostOrders(days, zone)
           begins == DaysBegin(days, zone)
<1>1. DOMAIN trend = TrendKeys(days, zone)
    BY TrendIs
<1>2. /\ inWindow = RevenueOrders(TrendStart(days, zone), Tomorrow(zone))
      /\ lost = {i \in inWindow : DateKey(When(book[i])) \notin DOMAIN trend}
      /\ begins = [day \in 0 .. days - 1 |-> AddDays(zone, TrendStart(days, zone), day)]
    BY <1>1 DEF TrendOrders, LostOrders, DaysBegin
<1>3. /\ SumFunction([key \in DOMAIN trend |-> trend[key]["revenue"]]) = Spent(inWindow \ lost)
      /\ SumFunction([key \in DOMAIN trend |-> trend[key]["orders"]]) = Cardinality(inWindow \ lost)
    BY TrendSums
<1>4. \A i \in lost :
        LET t == When(book[i])
        IN \/ begins[days - 1] <= t /\ DateKey(begins[days - 1]) < DateKey(t)
           \/ \E day \in 1 .. days - 1 :
                /\ begins[day - 1] < t /\ t < begins[day]
                /\ begins[day] - begins[day - 1] > HoursPerDay
    BY LostAre
<1>5. Len(zone) = 1 =>
        lost = {i \in inWindow :
                    When(book[i]) >= Tomorrow(zone) - ((0 - zone[1].offset) % HoursPerDay)}
    BY FixedLost DEF LostHours
<1>6. ASSUME Len(zone) = 1, zone[1].offset = 0
      PROVE  trend[DateKey(Now)] = [revenue |-> Summary(zone).revenue,
                                    orders |-> Summary(zone).orders]
  <2> DEFINE sold == RevenueOrders(Today(zone), Tomorrow(zone))
  <2>1. /\ DateKey(Now) \in TrendKeys(days, zone)
        /\ Keyed(TrendOrders(days, zone), Dates, {DateKey(Now)}) = sold
      BY <1>6, TrendEndsToday
  <2>2. Summary(zone).revenue = Spent(sold) /\ Summary(zone).orders = Cardinality(sold)
      BY DEF Summary
  <2> HIDE DEF sold
  <2>3. trend[DateKey(Now)] = [revenue |-> Spent(sold), orders |-> Cardinality(sold)]
      BY <2>1, TrendIs
  <2> QED BY <2>2, <2>3, Zenon
<1> HIDE DEF trend, inWindow, lost, begins
<1> QED BY <1>2, <1>3, <1>4, <1>5, <1>6 DEF trend

\* Which orders the revenue trend leaves out, for days of any length, on servers in
\* any time zone (getRevenueTrend).
THEOREM TrendSafety == DashboardsSpec => []TrendsLoseOnlyUnnamedDates
<1>1. DashboardsInit /\ [FALSE]_book => DashboardsInit'
    BY DEF DashboardsInit
<1>2. DashboardsInit => TrendsLoseOnlyUnnamedDates
    BY DashboardsAssumption, Trends
<1> QED BY <1>1, <1>2, PTL DEF DashboardsSpec

(***************************************************************************)
(* The latest order.                                                       *)
(***************************************************************************)
\* h[k] is the latest of the first k times.
Kept(times, n, h) ==
    /\ h[0] = Unset
    /\ \A k \in 1 .. n : h[k] = Later(h[k - 1], times[k])
    /\ h[n] = FoldLeft(Later, Unset, times)

\* LatestOrder keeps the later time one by one.
LEMMA LatestExist ==
    ASSUME NEW n \in Nat, NEW times \in [1 .. n -> Int]
    PROVE  \E h : Kept(times, n, h)
<1> DEFINE Eq(g) == g = [s \in SUBSET (1 .. n) |->
                            IF s = {} THEN Unset
                            ELSE Later(g[s \ {Max(s)}], times[Max(s)])]
           all == CHOOSE g : Eq(g)
           X == Int \cup {Unset}
           step == [p \in X \X Int |-> Later(p[1], p[2])]
           h == [k \in 0 .. n |-> all[1 .. k]]
<1>1. DOMAIN times = 1 .. n
    OBVIOUS
<1>2. FoldLeft(Later, Unset, times) = all[1 .. n]
    BY <1>1 DEF FoldLeft, MapThenFoldSet
<1>3. step \in [X \X Int -> X]
  <2>1. \A latest \in X : \A t \in Int : Later(latest, t) \in X
      BY DEF Later
  <2>2. \A p \in X \X Int : p[1] \in X /\ p[2] \in Int
      OBVIOUS
  <2> HIDE DEF X
  <2> QED BY <2>1, <2>2
<1>4. \E g : Eq(g)
  <2>0. Unset \in X
      OBVIOUS
  <2> HIDE DEF X
  <2>1. PICK g \in [SUBSET (1 .. n) -> X] : Folds(step, Unset, times, g, 1 .. n)
    <3> HIDE DEF step
    <3> QED BY <1>3, <2>0, FoldsExist
  <2>2. ASSUME NEW s \in SUBSET (1 .. n), s # {}
        PROVE  g[s] = Later(g[s \ {Max(s)}], times[Max(s)])
    <3>1. Max(s) \in 1 .. n /\ s \ {Max(s)} \in SUBSET (1 .. n)
        BY <2>2, MaxOf
    <3>2. g[s \ {Max(s)}] \in X /\ times[Max(s)] \in Int
        BY <3>1
    <3>3. g[s] = step[<<g[s \ {Max(s)}], times[Max(s)]>>]
        BY <2>1, <2>2 DEF Folds
    <3> QED BY <3>2, <3>3
  <2>3. g[{}] = Unset
      BY <2>1 DEF Folds
  <2>4. Eq(g)
      BY <2>2, <2>3
  <2> QED BY <2>4
<1>5. Eq(all)
    BY <1>4
<1> HIDE DEF all
<1>6. h[0] = Unset
  <2>1. 1 .. 0 = {}
      OBVIOUS
  <2>2. all[{}] = Unset
      BY <1>5
  <2>3. 0 \in 0 .. n
      OBVIOUS
  <2> QED BY <2>1, <2>2, <2>3
<1>7. ASSUME NEW k \in 1 .. n PROVE h[k] = Later(h[k - 1], times[k])
  <2>1. k \in Nat \ {0} /\ k \in 0 .. n /\ k - 1 \in 0 .. n
      OBVIOUS
  <2>2. 1 .. k \in SUBSET (1 .. n) /\ k \in 1 .. k
      BY <2>1
  <2>3. Max(1 .. k) = k /\ (1 .. k) \ {k} = 1 .. (k - 1)
      BY <2>1, MaxOfPrefix
  <2>4. all[1 .. k] = Later(all[1 .. (k - 1)], times[k])
      BY <1>5, <2>2, <2>3
  <2> QED BY <2>1, <2>4
<1>8. h[n] = all[1 .. n]
    OBVIOUS
<1> HIDE DEF h
<1>9. Kept(times, n, h)
    BY <1>2, <1>6, <1>7, <1>8 DEF Kept
<1> QED BY <1>9

\* A number of a set that none exceeds.
IsGreatest(S, m) == m \in Int /\ m \in S /\ \A t \in S : t <= m

\* That number is the maximum.
LEMMA GreatestIsMax ==
    ASSUME NEW S, S \subseteq Int, NEW m, IsGreatest(S, m)
    PROVE  Max(S) = m
<1>1. m \in S /\ \A y \in S : m >= y
    BY DEF IsGreatest
<1>2. Max(S) \in S /\ \A y \in S : Max(S) >= y
    BY <1>1 DEF Max
<1>3. Max(S) \in Int /\ m \in Int /\ Max(S) >= m /\ m >= Max(S)
    BY <1>1, <1>2
<1> QED BY <1>3

\* The time kept in the end is the greatest.
LEMMA LatestIsGreatest ==
    ASSUME DashboardsAssumption, NEW n \in Nat \ {0}, NEW times \in [1 .. n -> Int]
    PROVE  IsGreatest(ImageOf(times, 1 .. n), FoldLeft(Later, Unset, times))
<1>1. PICK h : Kept(times, n, h)
    BY LatestExist
<1>2. Unset \notin Int
    BY DEF DashboardsAssumption
<1> DEFINE P == {k \in Nat : k + 1 <= n => IsGreatest(ImageOf(times, 1 .. k + 1), h[k + 1])}
<1>3. 0 \in P
  <2>1. 1 \in 1 .. n /\ times[1] \in Int
      OBVIOUS
  <2>2. h[1] = times[1]
    <3>1. 1 - 1 = 0
        OBVIOUS
    <3>2. h[1] = Later(h[0], times[1]) /\ h[0] = Unset
        BY <1>1, <2>1, <3>1 DEF Kept
    <3> QED BY <3>2 DEF Later
  <2>3. ImageOf(times, 1 .. 1) = {times[1]}
      BY DEF ImageOf
  <2>4. IsGreatest(ImageOf(times, 1 .. 1), h[1])
      BY <2>1, <2>2, <2>3 DEF IsGreatest
  <2> QED BY <2>4
<1>4. ASSUME NEW k \in Nat, k \in P PROVE k + 1 \in P
  <2>1. ASSUME (k + 1) + 1 <= n
        PROVE  IsGreatest(ImageOf(times, 1 .. (k + 1) + 1), h[(k + 1) + 1])
    <3> DEFINE last == h[k + 1]
               t == times[(k + 1) + 1]
               m == (k + 1) + 1
    <3>1. IsGreatest(ImageOf(times, 1 .. k + 1), last)
        BY <1>4, <2>1
    <3>2. m \in 1 .. n /\ m - 1 = k + 1 /\ 1 .. m = (1 .. k + 1) \cup {m}
        BY <2>1, SMTT(20)
    <3>3. h[m] = Later(last, t) /\ t \in Int
        BY <1>1, <3>2 DEF Kept
    <3>4. ImageOf(times, 1 .. m) = ImageOf(times, 1 .. k + 1) \cup {t}
        BY <3>2 DEF ImageOf
    <3>5. last \in Int
        BY <3>1 DEF IsGreatest
    <3>6. Later(last, t) = IF t > last THEN t ELSE last
        BY <1>2, <3>5 DEF Later
    <3>7. \A u \in ImageOf(times, 1 .. k + 1) : u \in Int
      <4>1. \A i \in 1 .. k + 1 : i \in 1 .. n
          BY <2>1
      <4> QED BY <4>1 DEF ImageOf
    <3> DEFINE S == ImageOf(times, 1 .. k + 1)
    <3> HIDE DEF last, t, m, S
    <3>8. IsGreatest(S \cup {t}, Later(last, t))
      <4>1. /\ last \in S /\ \A u \in S : u <= last /\ u \in Int
          BY <3>1, <3>7 DEF IsGreatest, S
      <4>2. CASE t > last
        <5>1. Later(last, t) = t
            BY <3>6, <4>2
        <5>2. \A u \in S \cup {t} : u <= t
            BY <3>3, <3>5, <4>1, <4>2
        <5> QED BY <3>3, <5>1, <5>2 DEF IsGreatest
      <4>3. CASE ~(t > last)
        <5>1. Later(last, t) = last
            BY <3>6, <4>3
        <5>2. \A u \in S \cup {t} : u <= last
            BY <3>3, <3>5, <4>1, <4>3
        <5> QED BY <3>5, <4>1, <5>1, <5>2 DEF IsGreatest
      <4> QED BY <4>2, <4>3
    <3> QED BY <3>3, <3>4, <3>8 DEF S, m
  <2> QED BY <2>1
<1> HIDE DEF P
<1>5. Nat \subseteq P
    BY <1>3, <1>4, NumberInduction
<1>6. n - 1 \in P /\ n - 1 + 1 = n
    BY <1>5
<1>7. IsGreatest(ImageOf(times, 1 .. n), h[n])
    BY <1>6 DEF P
<1> QED BY <1>1, <1>7 DEF Kept

\* The fold over the rows keeps the latest time of all of them.
LEMMA LatestIs ==
    ASSUME DashboardsAssumption, DashboardsInit, NEW some \in SUBSET DOMAIN book, some # {}
    PROVE  /\ LatestOrder(some) = Max({When(book[i]) : i \in some})
           /\ IsGreatest({When(book[i]) : i \in some}, LatestOrder(some))
<1> DEFINE rows == InPlace(some)
           n == Cardinality(some)
           times == [k \in DOMAIN rows |-> When(book[rows[k]])]
           S == {When(book[i]) : i \in some}
<1>1. /\ IsFiniteSet(some) /\ n \in Nat /\ rows \in [1 .. n -> some]
      /\ DOMAIN rows = 1 .. n /\ Range(rows) = some
    BY BookType, PlacesInOrder
<1>2. n # 0
    BY <1>1, FS_EmptySet
<1>3. \A i \in some : When(book[i]) \in Int
    BY BookType
<1>4. S \subseteq Int
    BY <1>3
<1>5. LatestOrder(some) = FoldLeft(Later, Unset, times)
    BY DEF LatestOrder
<1> HIDE DEF rows, n
<1>6. times \in [1 .. n -> Int]
    BY <1>1, <1>3
<1>7. ImageOf(times, 1 .. n) = S
  <2>1. \A k \in 1 .. n : rows[k] \in some /\ times[k] = When(book[rows[k]])
      BY <1>1
  <2>2. \A i \in some : \E k \in 1 .. n : rows[k] = i
      BY <1>1 DEF Range
  <2> HIDE DEF times
  <2> QED BY <2>1, <2>2 DEF ImageOf
<1> HIDE DEF times, S
<1>8. IsGreatest(S, LatestOrder(some))
  <2>1. n \in Nat \ {0}
      BY <1>1, <1>2
  <2> QED BY <1>5, <1>6, <1>7, <2>1, LatestIsGreatest
<1>9. Max(S) = LatestOrder(some)
    BY <1>4, <1>8, GreatestIsMax
<1> QED BY <1>8, <1>9 DEF S

(***************************************************************************)
(* The rows of customers, on the dashboard and in the report.              *)
(***************************************************************************)
OrdersOf(user) == {i \in OrdersIn(RevenueStatuses) : book[i].user = user}

Buyers == {user \in Range(Customers) \ Suspended : OrdersOf(user) # {}}

InsightRows ==
    [user \in Buyers |->
        [user |-> user, orders |-> Cardinality(OrdersOf(user)),
         items |-> Quantity(ItemsOf(OrdersOf(user))),
         spend |-> Spent(OrdersOf(user)),
         average |-> Average(Spent(OrdersOf(user)), Cardinality(OrdersOf(user))),
         lastOrderAt |-> LatestOrder(OrdersOf(user))]]

ReportedRows ==
    [user \in Buyers |->
        [user |-> user, orders |-> Cardinality(OrdersOf(user)),
         spend |-> Spent(OrdersOf(user)),
         average |-> Average(Spent(OrdersOf(user)), Cardinality(OrdersOf(user))),
         lastOrderAt |-> IF OrdersOf(user) = {} THEN Unset
                         ELSE Max({When(book[i]) : i \in OrdersOf(user)})]]

SpendsMoreIn(S) == {p \in S \X S : SpendsMore(p[1], p[2])}

Insights == ImageOf(InsightRows, Buyers)

LEMMA OrdersOfBuyers ==
    ASSUME DashboardsAssumption, DashboardsInit, NEW user
    PROVE  /\ OrdersOf(user) \in SUBSET DOMAIN book
           /\ IsFiniteSet(OrdersOf(user)) /\ Cardinality(OrdersOf(user)) \in Nat
           /\ Spent(OrdersOf(user)) \in Int
           /\ OrdersOf(user) # {} <=> Cardinality(OrdersOf(user)) > 0
<1>1. OrdersOf(user) \in SUBSET DOMAIN book
    BY DEF OrdersOf, OrdersIn
<1>2. IsFiniteSet(OrdersOf(user)) /\ Cardinality(OrdersOf(user)) \in Nat
    BY <1>1, BookType, FS_Subset, FS_CardinalityType
<1>3. OrdersOf(user) # {} <=> Cardinality(OrdersOf(user)) # 0
    BY <1>2, FS_EmptySet
<1> QED BY <1>1, <1>2, <1>3, SpentIs

\* There are as many rows as customers with orders.
LEMMA BuyersCount ==
    ASSUME DashboardsAssumption
    PROVE  /\ IsFiniteSet(Range(Customers)) /\ IsFiniteSet(Buyers)
           /\ Len(Customers) \in Nat
           /\ Cardinality(Buyers) \in Nat /\ Cardinality(Buyers) <= Len(Customers)
<1> DEFINE n == Len(Customers)
<1>1. n \in Nat /\ DOMAIN Customers = 1 .. n
    BY DEF DashboardsAssumption
<1>2. Range(Customers) = ImageOf(Customers, 1 .. n)
    BY <1>1 DEF Range, ImageOf
<1>3. IsFiniteSet(1 .. n) /\ Cardinality(1 .. n) = n
    BY <1>1, UpToCounts
<1>4. IsFiniteSet(Range(Customers)) /\ Cardinality(Range(Customers)) <= n
    BY <1>2, <1>3, ImageCounts
<1>5. Buyers \in SUBSET Range(Customers)
    BY DEF Buyers
<1>6. /\ IsFiniteSet(Buyers) /\ Cardinality(Buyers) \in Nat /\ Cardinality(Range(Customers)) \in Nat
      /\ Cardinality(Buyers) <= Cardinality(Range(Customers))
    BY <1>4, <1>5, PartCounts
<1> DEFINE a == Cardinality(Buyers)
           b == Cardinality(Range(Customers))
<1>7. a <= n
  <2>1. a \in Nat /\ b \in Nat /\ a <= b /\ b <= n
      BY <1>4, <1>6
  <2> HIDE DEF a, b, n
  <2> QED BY <1>1, <2>1
<1> QED BY <1>1, <1>4, <1>6, <1>7

LEMMA InsightsType ==
    ASSUME DashboardsAssumption, DashboardsInit
    PROVE  /\ IsFiniteSet(Insights) /\ Cardinality(Insights) = Cardinality(Buyers)
           /\ IsFiniteSet(ImageOf(ReportedRows, Buyers))
           /\ Cardinality(ImageOf(ReportedRows, Buyers)) = Cardinality(Buyers)
           /\ \A row \in Insights : row.spend \in Int /\ row.orders \in Nat
           /\ Apart(InsightRows, Buyers)
           /\ \A user \in Buyers : /\ InsightRows[user].user = user
                                   /\ InsightRows[user].lastOrderAt = LatestOrder(OrdersOf(user))
<1>1. IsFiniteSet(Buyers)
    BY BuyersCount
<1>2. \A user \in Buyers : /\ InsightRows[user].user = user
                           /\ InsightRows[user].lastOrderAt = LatestOrder(OrdersOf(user))
                           /\ ReportedRows[user].user = user
                           /\ InsightRows[user].spend = Spent(OrdersOf(user))
                           /\ InsightRows[user].orders = Cardinality(OrdersOf(user))
    BY DEF InsightRows, ReportedRows
<1>3. Apart(InsightRows, Buyers) /\ Apart(ReportedRows, Buyers)
    BY <1>2, Zenon DEF Apart
<1>4. \A row \in Insights : row.spend \in Int /\ row.orders \in Nat
    BY <1>2, OrdersOfBuyers DEF Insights, ImageOf
<1> QED BY <1>1, <1>2, <1>3, <1>4, ImageCounts DEF Insights

\* The dashboard's rows are those of customers with orders.
LEMMA InsightsAre ==
    ASSUME DashboardsAssumption, DashboardsInit, NEW zone, NEW limit
    PROVE  /\ CustomerInsights(zone, limit).active =
                Cardinality({row \in Insights :
                    row.lastOrderAt >= AddDays(zone, Today(zone), 0 - ActiveDays)})
           /\ CustomerInsights(zone, limit).customers =
                FirstOf(limit, Arranged(Insights, SpendsMore))
<1> DEFINE paid == {i \in OrdersIn(RevenueStatuses) : book[i].user \notin Suspended}
           Of(user) == {i \in paid : book[i].user = user}
           Row(user) == [user |-> user, orders |-> Cardinality(Of(user)),
                         items |-> Quantity(ItemsOf(Of(user))),
                         spend |-> Spent(Of(user)),
                         average |-> Average(Spent(Of(user)), Cardinality(Of(user))),
                         lastOrderAt |-> LatestOrder(Of(user))]
           rows == {Row(book[i].user) : i \in paid}
<1>1. /\ CustomerInsights(zone, limit).active =
            Cardinality({row \in rows :
                row.lastOrderAt >= AddDays(zone, Today(zone), 0 - ActiveDays)})
      /\ CustomerInsights(zone, limit).customers = FirstOf(limit, Arranged(rows, SpendsMore))
    BY DEF CustomerInsights
<1>2. ASSUME NEW user, user \notin Suspended PROVE Of(user) = OrdersOf(user)
    BY <1>2 DEF OrdersOf
<1>3. \A i \in paid : book[i].user \in Buyers
  <2> TAKE i \in paid
  <2>1. i \in DOMAIN book /\ i \in OrdersOf(book[i].user)
      BY DEF OrdersIn, OrdersOf
  <2>2. book[i].user \in Range(Customers)
      BY <2>1, BookType
  <2> QED BY <2>1, <2>2 DEF Buyers
<1>4. \A user \in Buyers : \E i \in paid : book[i].user = user
    BY DEF Buyers, OrdersOf
<1>5. \A user \in Buyers : Row(user) = InsightRows[user]
  <2> TAKE user \in Buyers
  <2>1. Of(user) = OrdersOf(user)
      BY <1>2 DEF Buyers
  <2> HIDE DEF Of
  <2> QED BY <2>1 DEF InsightRows
<1> HIDE DEF Row, paid
<1>6. rows = Insights
  <2>1. ASSUME NEW row \in rows PROVE row \in Insights
    <3>1. PICK i \in paid : row = Row(book[i].user)
        OBVIOUS
    <3>2. book[i].user \in Buyers
        BY <1>3
    <3>3. row = InsightRows[book[i].user]
        BY <1>5, <3>1, <3>2
    <3> QED BY <3>2, <3>3 DEF Insights, ImageOf
  <2>2. ASSUME NEW row \in Insights PROVE row \in rows
    <3>1. PICK user \in Buyers : row = InsightRows[user]
        BY DEF Insights, ImageOf
    <3>2. PICK i \in paid : book[i].user = user
        BY <1>4
    <3>3. row = Row(book[i].user)
        BY <1>5, <3>1, <3>2
    <3> QED BY <3>3
  <2> QED BY <2>1, <2>2
<1> QED BY <1>1, <1>6

\* The rows of the report that have orders, of customers who are not suspended.
LEMMA ReportedAre ==
    ASSUME DashboardsAssumption, DashboardsInit, Len(Customers) <= ReportRows
    PROVE  {row \in Range(CustomersReport) : row.orders > 0 /\ row.user \notin Suspended} =
                ImageOf(ReportedRows, Buyers)
<1> DEFINE Of(user) == {i \in OrdersIn(ReportStatuses) : book[i].user = user}
           Row(user) == [user |-> user, orders |-> Cardinality(Of(user)),
                         spend |-> Spent(Of(user)),
                         average |-> Average(Spent(Of(user)), Cardinality(Of(user))),
                         lastOrderAt |-> IF Of(user) = {} THEN Unset
                                         ELSE Max({When(book[i]) : i \in Of(user)})]
           n == Len(Customers)
<1>1. n \in Nat /\ DOMAIN Customers = 1 .. n /\ Customers \in [1 .. n -> STRING] /\ ReportRows \in Nat
    BY DEF DashboardsAssumption
<1>2. \A user : Of(user) = OrdersOf(user)
    BY DEF OrdersOf, RevenueStatuses, ReportStatuses
<1>3. DOMAIN FirstOf(ReportRows, Customers) = 1 .. n
  <2>1. FirstOf(ReportRows, Customers) = SubSeq(Customers, 1, n)
    <3>1. n <= ReportRows /\ FirstOf(ReportRows, Customers) =
            SubSeq(Customers, 1, IF n < ReportRows THEN n ELSE ReportRows)
        BY DEF FirstOf
    <3> HIDE DEF n
    <3>2. (IF n < ReportRows THEN n ELSE ReportRows) = n
        BY <1>1, <3>1
    <3> QED BY <3>1, <3>2
  <2>2. Len(SubSeq(Customers, 1, n)) = n /\ SubSeq(Customers, 1, n) \in Seq(STRING)
      BY <1>1 DEF DashboardsAssumption
  <2> QED BY <2>1, <2>2
<1>4. CustomersReport = [k \in 1 .. n |-> Row(Customers[k])]
    BY <1>3 DEF CustomersReport
<1>5. \A user : Row(user).orders = Cardinality(OrdersOf(user)) /\ Row(user).user = user
    BY <1>2
<1>6. \A user \in Buyers : Row(user) = ReportedRows[user]
  <2> HIDE DEF Of
  <2> QED BY <1>2 DEF ReportedRows
<1> HIDE DEF Row, n
<1>7. Range(CustomersReport) = {Row(user) : user \in Range(Customers)}
    BY <1>1, <1>4 DEF Range
<1>8. \A user : OrdersOf(user) # {} <=> Cardinality(OrdersOf(user)) > 0
    BY OrdersOfBuyers
<1>9. \A user \in Range(Customers) :
        user \in Buyers <=> Row(user).orders > 0 /\ Row(user).user \notin Suspended
    BY <1>5, <1>8 DEF Buyers
<1>10. Buyers \subseteq Range(Customers)
    BY DEF Buyers
<1> QED BY <1>6, <1>7, <1>9, <1>10 DEF ImageOf

\* The list of the dashboard has every such row once.
LEMMA InsightsListed ==
    ASSUME DashboardsAssumption, DashboardsInit
    PROVE  LET list == FirstOf(Len(Customers), Arranged(Insights, SpendsMore))
           IN /\ Range(list) = Insights /\ Len(list) = Cardinality(Insights)
<1> DEFINE S == Insights
           R == SpendsMoreIn(S)
           all == {r \in SetToSeqs(S) : \A i, j \in DOMAIN r : i < j => ~SpendsMore(r[j], r[i])}
           rows == CHOOSE r \in all : TRUE
           n == Cardinality(S)
           limit == Len(Customers)
<1>1. IsFiniteSet(S) /\ n \in Nat /\ limit \in Nat /\ n <= limit
    BY BuyersCount, InsightsType
<1>2. \A a, b \in S : <<a, b>> \in R <=> SpendsMore(a, b)
    BY DEF SpendsMoreIn
<1>3. StrictlyOrders(R, S)
  <2>1. \A a \in S : a.spend \in Int /\ a.orders \in Int
      BY InsightsType
  <2>2. \A a \in S : <<a, a>> \notin R
      BY <1>2, <2>1 DEF SpendsMore
  <2>3. ASSUME NEW a \in S, NEW b \in S, NEW c \in S, <<a, b>> \in R, <<b, c>> \in R
        PROVE  <<a, c>> \in R
    <3>1. /\ a.spend \in Int /\ b.spend \in Int /\ c.spend \in Int
          /\ a.orders \in Int /\ b.orders \in Int /\ c.orders \in Int
        BY <2>1
    <3>2. SpendsMore(a, b) /\ SpendsMore(b, c)
        BY <1>2, <2>3
    <3>3. SpendsMore(a, c)
        BY <3>1, <3>2, SMTT(20) DEF SpendsMore
    <3> QED BY <1>2, <3>3
  <2> QED BY <2>2, <2>3 DEF StrictlyOrders
<1>4. PICK some \in SetToSeqs(S) : InOrder(some, R)
  <2> HIDE DEF S, R
  <2> QED BY <1>1, <1>3, OrderedListsExist
<1>5. some \in all
  <2>1. \A i \in DOMAIN some : some[i] \in S
      BY DEF SetToSeqs
  <2> HIDE DEF S, R
  <2> QED BY <1>2, <1>4, <2>1 DEF InOrder
<1>6. rows \in SetToSeqs(S)
    BY <1>5
<1>7. Arranged(Insights, SpendsMore) = rows
    BY DEF Arranged, Arrangements
<1> HIDE DEF rows, S
<1>8. rows \in [1 .. n -> S] /\ Range(rows) = S
    BY <1>1, <1>6, ListsCover
<1>9. rows \in Seq(S) /\ Len(rows) = n
    BY <1>1, <1>8
<1>10. FirstOf(limit, rows) = rows
  <2> HIDE DEF n, limit
  <2>1. FirstOf(limit, rows) = SubSeq(rows, 1, n)
      BY <1>1, <1>9 DEF FirstOf
  <2> QED BY <1>1, <1>8, <1>9, <2>1
<1> QED BY <1>7, <1>8, <1>9, <1>10 DEF S

(***************************************************************************)
(* What has sold, and the queue.                                           *)
(***************************************************************************)
LEMMA ItemsType ==
    ASSUME DashboardsAssumption, DashboardsInit, NEW some \in SUBSET DOMAIN book
    PROVE  /\ IsFiniteSet(ItemsOf(some))
           /\ \A p \in ItemsOf(some) : /\ book[p[1]].items[p[2]].quantity \in Int
                                       /\ book[p[1]].items[p[2]].price \in Int
<1>1. ASSUME NEW i \in some
      PROVE  /\ book[i].items \in Seq([food : STRING, quantity : Int, price : Int])
             /\ IsFiniteSet(DOMAIN book[i].items)
             /\ \A j \in DOMAIN book[i].items :
                    book[i].items[j].quantity \in Int /\ book[i].items[j].price \in Int
  <2> DEFINE items == book[i].items
  <2>1. items \in Seq([food : STRING, quantity : Int, price : Int])
      BY BookType DEF BookRows
  <2> HIDE DEF items
  <2>2. Len(items) \in Nat /\ DOMAIN items = 1 .. Len(items)
      BY <2>1
  <2>3. IsFiniteSet(DOMAIN items)
      BY <2>2, UpToCounts
  <2>4. \A j \in DOMAIN items : items[j] \in [food : STRING, quantity : Int, price : Int]
    <3> DEFINE E == [food : STRING, quantity : Int, price : Int]
    <3>1. items \in Seq(E)
        BY <2>1
    <3> HIDE DEF E
    <3>2. \A j \in 1 .. Len(items) : items[j] \in E
        BY <3>1
    <3> QED BY <2>2, <3>2 DEF E
  <2>5. \A j \in DOMAIN items : items[j].quantity \in Int /\ items[j].price \in Int
      BY <2>4
  <2> QED BY <2>1, <2>3, <2>5 DEF items
<1> DEFINE Of(i) == {<<i, j>> : j \in DOMAIN book[i].items}
           sets == {Of(i) : i \in some}
<1>2. \A i \in some : IsFiniteSet(Of(i))
  <2> TAKE i \in some
  <2> DEFINE f == [j \in DOMAIN book[i].items |-> <<i, j>>]
  <2>1. Of(i) = ImageOf(f, DOMAIN book[i].items)
      BY DEF ImageOf
  <2> HIDE DEF f, Of
  <2> QED BY <1>1, <2>1, ImageCounts
<1>3. IsFiniteSet(sets)
  <2> DEFINE f == [i \in some |-> Of(i)]
  <2>1. sets = ImageOf(f, some)
      BY DEF ImageOf
  <2>2. IsFiniteSet(some)
      BY BookType, FS_Subset
  <2> HIDE DEF f, sets
  <2> QED BY <2>1, <2>2, ImageCounts
<1>4. ItemsOf(some) = UNION sets
    BY DEF ItemsOf
<1>5. \A set \in sets : IsFiniteSet(set)
    BY <1>2
<1> HIDE DEF sets
<1>6. IsFiniteSet(ItemsOf(some))
    BY <1>3, <1>4, <1>5, FS_UNION
<1>7. ASSUME NEW p \in ItemsOf(some)
      PROVE  /\ book[p[1]].items[p[2]].quantity \in Int
             /\ book[p[1]].items[p[2]].price \in Int
  <2>1. PICK i \in some : \E j \in DOMAIN book[i].items : p = <<i, j>>
      BY DEF ItemsOf
  <2>2. PICK j \in DOMAIN book[i].items : p = <<i, j>>
      BY <2>1
  <2>3. p[1] = i /\ p[2] = j
      BY <2>2
  <2> QED BY <1>1, <2>3
<1> QED BY <1>6, <1>7

LEMMA TotalsType ==
    ASSUME DashboardsAssumption, DashboardsInit, NEW items, IsFiniteSet(items),
           \A p \in items : /\ book[p[1]].items[p[2]].quantity \in Int
                            /\ book[p[1]].items[p[2]].price \in Int
    PROVE  Quantity(items) \in Int /\ Takings(items) \in Int
<1> DEFINE q == [p \in items |-> book[p[1]].items[p[2]].quantity]
           t == [p \in items |-> book[p[1]].items[p[2]].price]
<1>1. Quantity(items) = SumOf(q, items) /\ Takings(items) = SumOf(t, items)
    BY DEF Quantity, Takings, SumFunction, SumOf
<1>2. Weighs(q, items) /\ Weighs(t, items)
    BY DEF Weighs
<1> HIDE DEF q, t
<1> QED BY <1>1, <1>2, SumType

SellsMoreIn(S) == {p \in S \X S : SellsMore(p[1], p[2])}

\* The totals of foods are finitely many rows of numbers.
LEMMA FoodTotalsType ==
    ASSUME DashboardsAssumption, DashboardsInit, NEW some \in SUBSET DOMAIN book
    PROVE  /\ IsFiniteSet(FoodTotals(ItemsOf(some)))
           /\ \A row \in FoodTotals(ItemsOf(some)) : row.quantity \in Int /\ row.revenue \in Int
<1> DEFINE items == ItemsOf(some)
           Food(p) == book[p[1]].items[p[2]].food
           Of(food) == {p \in items : Food(p) = food}
           Row(food) == [food |-> food, quantity |-> Quantity(Of(food)),
                         revenue |-> Takings(Of(food))]
           f == [p \in items |-> Row(Food(p))]
<1>1. FoodTotals(items) = ImageOf(f, items)
  <2>1. FoodTotals(items) = {Row(food) : food \in {Food(p) : p \in items}}
      BY DEF FoodTotals
  <2> HIDE DEF Row, Food, items
  <2> QED BY <2>1 DEF ImageOf
<1>2. IsFiniteSet(items)
    BY ItemsType
<1>3. \A food : Quantity(Of(food)) \in Int /\ Takings(Of(food)) \in Int
  <2> TAKE food
  <2>1. IsFiniteSet(Of(food))
    <3>1. Of(food) \in SUBSET items
        OBVIOUS
    <3> QED BY <1>2, <3>1, FS_Subset
  <2>2. \A p \in Of(food) : /\ book[p[1]].items[p[2]].quantity \in Int
                            /\ book[p[1]].items[p[2]].price \in Int
      BY ItemsType
  <2> HIDE DEF Of
  <2> QED BY <2>1, <2>2, TotalsType
<1>4. \A food : Row(food).quantity \in Int /\ Row(food).revenue \in Int
  <2> HIDE DEF Of
  <2> QED BY <1>3
<1>5. \A p \in items : f[p] = Row(Food(p))
    OBVIOUS
<1> HIDE DEF f, Row, Food
<1>6. IsFiniteSet(ImageOf(f, items))
    BY <1>2, ImageCounts
<1>7. \A row \in ImageOf(f, items) : row.quantity \in Int /\ row.revenue \in Int
    BY <1>4, <1>5 DEF ImageOf
<1> QED BY <1>1, <1>6, <1>7

\* What has sold, sorted, is a list of all of it.
LEMMA SalesListed ==
    ASSUME NEW S, IsFiniteSet(S), \A row \in S : row.quantity \in Int /\ row.revenue \in Int
    PROVE  LET rows == Arranged(S, SellsMore)
           IN rows \in Seq(S) /\ Range(rows) = S
<1> DEFINE R == SellsMoreIn(S)
           all == {r \in SetToSeqs(S) : \A i, j \in DOMAIN r : i < j => ~SellsMore(r[j], r[i])}
           rows == CHOOSE r \in all : TRUE
<1>2. \A a, b \in S : <<a, b>> \in R <=> SellsMore(a, b)
    BY DEF SellsMoreIn
<1> HIDE DEF R
<1>3. StrictlyOrders(R, S)
  <2>2. \A a \in S : <<a, a>> \notin R
      BY <1>2 DEF SellsMore
  <2>3. ASSUME NEW a \in S, NEW b \in S, NEW c \in S, <<a, b>> \in R, <<b, c>> \in R
        PROVE  <<a, c>> \in R
    <3>1. /\ a.quantity \in Int /\ b.quantity \in Int /\ c.quantity \in Int
          /\ a.revenue \in Int /\ b.revenue \in Int /\ c.revenue \in Int
        OBVIOUS
    <3>2. SellsMore(a, b) /\ SellsMore(b, c)
        BY <1>2, <2>3
    <3>3. SellsMore(a, c)
        BY <3>1, <3>2 DEF SellsMore
    <3> QED BY <1>2, <3>3
  <2> QED BY <2>2, <2>3 DEF StrictlyOrders
<1>4. PICK some \in SetToSeqs(S) : InOrder(some, R)
    BY <1>3, OrderedListsExist
<1>5. some \in all
  <2>1. \A i \in DOMAIN some : some[i] \in S
      BY DEF SetToSeqs
  <2> QED BY <1>2, <1>4, <2>1 DEF InOrder
<1>6. rows \in SetToSeqs(S)
    BY <1>5
<1>7. Arranged(S, SellsMore) = rows
    BY DEF Arranged, Arrangements
<1> HIDE DEF rows
<1> QED BY <1>6, <1>7, ListsCover

\* The first rows of a list, as many as it has, are all of it.
LEMMA WholeList ==
    ASSUME NEW S, NEW rows \in Seq(S)
    PROVE  FirstOf(Len(rows), rows) = rows
<1> DEFINE n == Len(rows)
<1>1. n \in Nat /\ FirstOf(n, rows) = SubSeq(rows, 1, n)
    BY DEF FirstOf
<1> QED BY <1>1

\* The loops of the dashboard and of the report add up the same, and sort alike.
LEMMA LoopsAgree ==
    ASSUME NEW items
    PROVE  /\ FoodSales(items) = FoodTotals(items)
           /\ \A S : Arranged(S, SoldMore) = Arranged(S, SellsMore)
<1>1. FoodSales(items) = FoodTotals(items)
  <2> DEFINE Food(p) == book[p[1]].items[p[2]].food
             foods == {Food(p) : p \in items}
             Of(food) == {p \in items : Food(p) = food}
             Sold == [food \in foods |-> Of(food)]
             Row(food) == [food |-> food, quantity |-> Quantity(Of(food)),
                           revenue |-> Takings(Of(food))]
             SoldRow(food) == [food |-> food, quantity |-> Quantity(Sold[food]),
                               revenue |-> Takings(Sold[food])]
  <2>1. FoodTotals(items) = {Row(food) : food \in foods}
      BY DEF FoodTotals
  <2>2. FoodSales(items) = {SoldRow(food) : food \in foods}
      BY DEF FoodSales
  <2>3. \A food \in foods : SoldRow(food) = Row(food)
    <3> HIDE DEF Of, foods
    <3> QED OBVIOUS
  <2> HIDE DEF foods, Row, SoldRow
  <2> QED BY <2>1, <2>2, <2>3
<1>2. ASSUME NEW S PROVE Arranged(S, SoldMore) = Arranged(S, SellsMore)
    BY DEF Arranged, Arrangements, SoldMore, SellsMore
<1> QED BY <1>1, <1>2

\* All foods of a window that holds all orders are the foods of the report.
LEMMA SalesAgree ==
    ASSUME DashboardsAssumption, DashboardsInit, NEW zone \in Zones,
           AddDays(zone, Tomorrow(zone), 0 - (Now + 2)) <= 0, Now < Tomorrow(zone)
    PROVE  LET top == TopFoods(Now + 2, Len(FoodSalesReport), zone)
           IN Range(top) = Range(FoodSalesReport) /\ Len(top) = Len(FoodSalesReport)
<1> DEFINE some == OrdersIn(ReportStatuses)
           S == FoodTotals(ItemsOf(some))
           end == Tomorrow(zone)
           start == AddDays(zone, end, 0 - (Now + 2))
<1>1. RevenueOrders(start, end) = some
  <2>1. end \in Int /\ start \in Int /\ Now \in Int /\ start <= 0 /\ Now < end
    <3>1. IsZone(zone) /\ Now \in Int /\ HoursPerDay \in Nat \ {0}
        BY ZoneType
    <3>2. end \in Int
      <4>1. Today(zone) \in Int
          BY <3>1, ClockType DEF Today
      <4> QED BY <3>1, <4>1, ClockType DEF Tomorrow
    <3>3. 0 - (Now + 2) \in Int
        BY <3>1
    <3> QED BY <3>1, <3>2, <3>3, ClockType
  <2> HIDE DEF start, end
  <2>2. RevenueOrders(start, end) =
          {i \in OrdersIn(RevenueStatuses) : start <= When(book[i]) /\ When(book[i]) < end}
      BY <2>1, RevenueOrdersAre DEF AreOfWindow
  <2>3. \A i \in OrdersIn(RevenueStatuses) : start <= When(book[i]) /\ When(book[i]) < end
    <3> TAKE i \in OrdersIn(RevenueStatuses)
    <3>1. When(book[i]) \in 0 .. Now
        BY BookType DEF OrdersIn
    <3> QED BY <2>1, <3>1
  <2>4. OrdersIn(RevenueStatuses) = some
      BY DEF RevenueStatuses, ReportStatuses
  <2> QED BY <2>2, <2>3, <2>4
<1>2. TopFoods(Now + 2, Len(FoodSalesReport), zone) =
        FirstOf(Len(FoodSalesReport), Arranged(S, SellsMore))
    BY <1>1 DEF TopFoods
<1>3. FoodSalesReport = Arranged(S, SellsMore)
    BY LoopsAgree DEF FoodSalesReport
<1>4. Arranged(S, SellsMore) \in Seq(S)
  <2>1. IsFiniteSet(S) /\ \A row \in S : row.quantity \in Int /\ row.revenue \in Int
      BY OrdersInBook, FoodTotalsType
  <2> HIDE DEF S
  <2> QED BY <2>1, SalesListed
<1> HIDE DEF S
<1>5. FirstOf(Len(FoodSalesReport), FoodSalesReport) = FoodSalesReport
    BY <1>3, <1>4, WholeList
<1> QED BY <1>2, <1>3, <1>5

QueuedIn(S) == {p \in S \X S : QueuedBefore(book[p[1]], book[p[2]])}

\* The queue shows every order that is in it.
LEMMA QueueListed ==
    ASSUME DashboardsAssumption, DashboardsInit
    PROVE  Len(LiveQueue(Len(book))) = Cardinality(OrdersIn(LiveQueueStatuses))
<1> DEFINE S == OrdersIn(LiveQueueStatuses)
           R == QueuedIn(S)
           all == {r \in SetToSeqs(S) : \A i, j \in DOMAIN r :
                        i < j => ~QueuedBefore(book[r[j]], book[r[i]])}
           rows == CHOOSE r \in all : TRUE
           n == Cardinality(S)
           limit == Len(book)
<1>1. IsFiniteSet(S) /\ n \in Nat /\ limit \in Nat /\ n <= limit /\ S \in SUBSET DOMAIN book
  <2>1. S \in SUBSET (1 .. limit) /\ limit \in Nat /\ S \in SUBSET DOMAIN book
      BY BookType, OrdersInBook
  <2>2. IsFiniteSet(1 .. limit) /\ Cardinality(1 .. limit) = limit
      BY <2>1, UpToCounts
  <2> HIDE DEF S, limit
  <2> QED BY <2>1, <2>2, PartCounts
<1>2. \A i, j \in S : <<i, j>> \in R <=> QueuedBefore(book[i], book[j])
    BY DEF QueuedIn
<1>3. StrictlyOrders(R, S)
  <2>1. \A i \in S : /\ book[i].createdAt \in Int
                     /\ book[i].placedAt = Unset \/ book[i].placedAt \in Int
      BY <1>1, BookType
  <2> HIDE DEF S, R
  <2>0. Unset \notin Int
      BY DEF DashboardsAssumption
  <2>2. \A i \in S : <<i, i>> \notin R
      BY <1>2, <2>0, <2>1 DEF QueuedBefore
  <2>3. ASSUME NEW i \in S, NEW j \in S, NEW k \in S, <<i, j>> \in R, <<j, k>> \in R
        PROVE  <<i, k>> \in R
    <3> DEFINE a == book[i]
               b == book[j]
               c == book[k]
    <3>1. /\ a.createdAt \in Int /\ b.createdAt \in Int /\ c.createdAt \in Int
          /\ a.placedAt = Unset \/ a.placedAt \in Int
          /\ b.placedAt = Unset \/ b.placedAt \in Int
          /\ c.placedAt = Unset \/ c.placedAt \in Int
        BY <2>1
    <3>2. QueuedBefore(a, b) /\ QueuedBefore(b, c)
        BY <1>2, <2>3
    <3> HIDE DEF a, b, c
    <3>3. QueuedBefore(a, c)
        BY <2>0, <3>1, <3>2 DEF QueuedBefore
    <3> QED BY <1>2, <3>3 DEF a, c
  <2> QED BY <2>2, <2>3 DEF StrictlyOrders
<1>4. PICK some \in SetToSeqs(S) : InOrder(some, R)
  <2> HIDE DEF S, R
  <2> QED BY <1>1, <1>3, OrderedListsExist
<1>5. some \in all
  <2>1. \A i \in DOMAIN some : some[i] \in S
      BY DEF SetToSeqs
  <2> HIDE DEF S, R
  <2> QED BY <1>2, <1>4, <2>1 DEF InOrder
<1>6. rows \in SetToSeqs(S)
    BY <1>5
<1>7. LiveQueue(limit) = FirstOf(limit, rows)
    BY DEF LiveQueue, Arranged, Arrangements
<1> HIDE DEF rows, S
<1>8. rows \in [1 .. n -> S]
    BY <1>1, <1>6, ListsCover
<1> HIDE DEF n, limit
<1>9. IsFirst(FirstOf(limit, rows), rows, n, limit)
    BY <1>1, <1>8, FirstRows, Zenon
<1>10. Len(FirstOf(limit, rows)) = n
    BY <1>1, <1>9 DEF IsFirst
<1> QED BY <1>7, <1>10 DEF n, limit, S

\* The customers who count as active.
LEMMA ActiveAgree ==
    ASSUME DashboardsAssumption, DashboardsInit, NEW since \in Int
    PROVE  Cardinality({row \in Insights : row.lastOrderAt >= since}) =
            Cardinality({user \in Range(Customers) \ Suspended :
                \E i \in OrdersIn(RevenueStatuses) :
                    book[i].user = user /\ When(book[i]) >= since})
<1> DEFINE recent == {user \in Buyers : InsightRows[user].lastOrderAt >= since}
           listed == {row \in Insights : row.lastOrderAt >= since}
           users == {user \in Range(Customers) \ Suspended :
                        \E i \in OrdersIn(RevenueStatuses) :
                            book[i].user = user /\ When(book[i]) >= since}
<1>1. listed = ImageOf(InsightRows, recent)
    BY DEF Insights, ImageOf
<1>2. IsFiniteSet(recent) /\ Apart(InsightRows, recent)
  <2>1. recent \in SUBSET Buyers
      OBVIOUS
  <2>2. IsFiniteSet(Buyers) /\ Apart(InsightRows, Buyers)
      BY BuyersCount, InsightsType
  <2> HIDE DEF recent
  <2> QED BY <2>1, <2>2, FS_Subset DEF Apart
<1>3. ASSUME NEW user \in Range(Customers) \ Suspended
      PROVE  user \in recent <=> user \in users
  <2> DEFINE times == {When(book[i]) : i \in OrdersOf(user)}
             last == LatestOrder(OrdersOf(user))
  <2>1. OrdersOf(user) \in SUBSET DOMAIN book
      BY OrdersOfBuyers
  <2>2. user \in users <=> \E i \in OrdersOf(user) : When(book[i]) >= since
      BY DEF OrdersOf
  <2>3. user \in Buyers <=> OrdersOf(user) # {}
      BY DEF Buyers
  <2>4. CASE OrdersOf(user) = {}
      BY <2>2, <2>3, <2>4
  <2>5. CASE OrdersOf(user) # {}
    <3>1. IsGreatest(times, last)
        BY <2>1, <2>5, LatestIs
    <3>2. user \in recent <=> last >= since
        BY <2>3, <2>5, InsightsType
    <3> HIDE DEF last
    <3>3. last \in Int /\ last \in times /\ \A t \in times : t <= last
        BY <3>1 DEF IsGreatest
    <3>4. \A i \in OrdersOf(user) : When(book[i]) \in Int /\ When(book[i]) <= last
        BY <2>1, <3>3, BookType
    <3>5. last >= since <=> \E i \in OrdersOf(user) : When(book[i]) >= since
        BY <3>3, <3>4
    <3> QED BY <2>2, <3>2, <3>5
  <2> QED BY <2>4, <2>5
<1>4. recent = users
  <2>1. recent \subseteq Range(Customers) \ Suspended /\ users \subseteq Range(Customers) \ Suspended
      BY DEF Buyers
  <2> HIDE DEF recent, users
  <2> QED BY <1>3, <2>1
<1> HIDE DEF recent, users, listed
<1>5. Cardinality(listed) = Cardinality(recent)
    BY <1>1, <1>2, ImageCounts
<1> QED BY <1>4, <1>5 DEF listed, users

\* The figures of a customer are the same in both.
LEMMA FiguresAgree ==
    ASSUME DashboardsAssumption, DashboardsInit, NEW user \in Buyers,
           NEW field \in {"user", "orders", "spend", "average", "lastOrderAt"}
    PROVE  ReportedRows[user][field] = InsightRows[user][field]
<1>1. OrdersOf(user) # {} /\ OrdersOf(user) \in SUBSET DOMAIN book
    BY OrdersOfBuyers DEF Buyers
<1>2. LatestOrder(OrdersOf(user)) = Max({When(book[i]) : i \in OrdersOf(user)})
    BY <1>1, LatestIs
<1> QED BY <1>1, <1>2 DEF ReportedRows, InsightRows

LEMMA Reports ==
    DashboardsAssumption /\ DashboardsInit => ReportsAgreeWithDashboards
<1> SUFFICES ASSUME DashboardsAssumption, DashboardsInit, NEW zone \in Zones
             PROVE  LET insights == CustomerInsights(zone, Len(Customers))
                        since == AddDays(zone, Today(zone), 0 - ActiveDays)
                        reported == {row \in Range(CustomersReport) :
                                        row.orders > 0 /\ row.user \notin Suspended}
                        top == TopFoods(Now + 2, Len(FoodSalesReport), zone)
                        Same(a, b) == \A field \in {"user", "orders", "spend", "average",
                                                    "lastOrderAt"} : a[field] = b[field]
                    IN /\ Len(Customers) <= ReportRows =>
                            /\ \A row \in reported :
                                    \E seen \in Range(insights.customers) : Same(row, seen)
                            /\ Len(insights.customers) = Cardinality(reported)
                       /\ insights.active = Cardinality(
                            {user \in Range(Customers) \ Suspended :
                                \E i \in OrdersIn(RevenueStatuses) :
                                    book[i].user = user /\ When(book[i]) >= since})
                       /\ AddDays(zone, Tomorrow(zone), 0 - (Now + 2)) <= 0
                            /\ Now < Tomorrow(zone) =>
                            Range(top) = Range(FoodSalesReport) /\ Len(top) = Len(FoodSalesReport)
                       /\ Summary(zone).live = Len(LiveQueue(Len(book)))
    BY DEF ReportsAgreeWithDashboards
<1> DEFINE insights == CustomerInsights(zone, Len(Customers))
           since == AddDays(zone, Today(zone), 0 - ActiveDays)
           reported == {row \in Range(CustomersReport) :
                            row.orders > 0 /\ row.user \notin Suspended}
           Same(a, b) == \A field \in {"user", "orders", "spend", "average",
                                       "lastOrderAt"} : a[field] = b[field]
           users == {user \in Range(Customers) \ Suspended :
                        \E i \in OrdersIn(RevenueStatuses) :
                            book[i].user = user /\ When(book[i]) >= since}
<1>1. Range(insights.customers) = Insights /\ Len(insights.customers) = Cardinality(Insights)
    BY InsightsAre, InsightsListed
<1>2. ASSUME Len(Customers) <= ReportRows
      PROVE  /\ \A row \in reported : \E seen \in Range(insights.customers) : Same(row, seen)
             /\ Len(insights.customers) = Cardinality(reported)
  <2>1. reported = ImageOf(ReportedRows, Buyers)
      BY <1>2, ReportedAre
  <2> HIDE DEF reported, insights
  <2>2. \A user \in Buyers : InsightRows[user] \in Insights /\ Same(ReportedRows[user], InsightRows[user])
      BY FiguresAgree DEF Insights, ImageOf
  <2>3. \A row \in reported : \E seen \in Range(insights.customers) : Same(row, seen)
    <3> HIDE DEF Same
    <3> QED BY <1>1, <2>1, <2>2 DEF ImageOf
  <2>4. Cardinality(reported) = Cardinality(Insights)
      BY <2>1, InsightsType
  <2> QED BY <1>1, <2>3, <2>4
<1>3. insights.active = Cardinality(users)
  <2>1. since \in Int
    <3>1. /\ IsZone(zone) /\ HoursPerDay \in Nat \ {0} /\ Now \in Int
          /\ 0 - ActiveDays \in Int
        BY ZoneType
    <3>2. Today(zone) \in Int
        BY <3>1, ClockType DEF Today
    <3> QED BY <3>1, <3>2, ClockType
  <2>2. insights.active = Cardinality({row \in Insights : row.lastOrderAt >= since})
      BY InsightsAre
  <2> HIDE DEF since, insights
  <2> QED BY <2>1, <2>2, ActiveAgree
<1>4. Summary(zone).live = Len(LiveQueue(Len(book)))
  <2>1. Summary(zone).live = Cardinality(OrdersIn(LiveQueueStatuses))
      BY DEF Summary
  <2> QED BY <2>1, QueueListed
<1>5. AddDays(zone, Tomorrow(zone), 0 - (Now + 2)) <= 0 /\ Now < Tomorrow(zone) =>
        LET top == TopFoods(Now + 2, Len(FoodSalesReport), zone)
        IN Range(top) = Range(FoodSalesReport) /\ Len(top) = Len(FoodSalesReport)
    BY SalesAgree
<1> QED BY <1>2, <1>3, <1>4, <1>5

\* The reports and the dashboard say the same of the same orders, whatever is in
\* the book (getCustomerInsights, getTopFoods and the builders of reports).
THEOREM ReportSafety == DashboardsSpec => []ReportsAgreeWithDashboards
<1>1. DashboardsInit /\ [FALSE]_book => DashboardsInit'
    BY DEF DashboardsInit
<1>2. DashboardsInit => ReportsAgreeWithDashboards
    BY DashboardsAssumption, Reports
<1> QED BY <1>1, <1>2, PTL DEF DashboardsSpec

-------------------------------------------------------------------------------
(***************************************************************************)
(* The files of a report.  Each format is read by a fold over characters,  *)
(* so a proof follows the reader: first what it makes of one character and *)
(* of two texts in a row, then of a cell, of a row and of the table.  The  *)
(* column names are numbers written with letters, read back by induction   *)
(* on the column, and the offsets of the archive are sums, read back by    *)
(* induction on the files.                                                 *)
(***************************************************************************)

(***************************************************************************)
(* Texts.                                                                  *)
(***************************************************************************)
\* What concatenation is.
LEMMA Concats ==
    ASSUME NEW X, NEW s \in Seq(X), NEW t \in Seq(X)
    PROVE  /\ s \o t \in Seq(X) /\ Len(s) \in Nat /\ Len(t) \in Nat
           /\ Len(s \o t) = Len(s) + Len(t)
           /\ \A i \in 1 .. Len(s) : (s \o t)[i] = s[i]
           /\ \A i \in 1 .. Len(t) : (s \o t)[Len(s) + i] = t[i]
<1>1. s \o t \in Seq(X) /\ Len(s) \in Nat /\ Len(t) \in Nat /\ Len(s \o t) = Len(s) + Len(t)
    OBVIOUS
<1>2. \A i \in 1 .. Len(s) : (s \o t)[i] = s[i]
    OBVIOUS
<1>3. ASSUME NEW i \in 1 .. Len(t) PROVE (s \o t)[Len(s) + i] = t[i]
  <2>1. Len(s) + i \in 1 .. Len(s) + Len(t) /\ ~(Len(s) + i <= Len(s)) /\ (Len(s) + i) - Len(s) = i
      BY <1>1
  <2> QED BY <1>1, <2>1
<1> QED BY <1>1, <1>2, <1>3

\* A sequence is a function on its places.
LEMMA SequencesAre ==
    ASSUME NEW X, NEW s \in Seq(X)
    PROVE  /\ Len(s) \in Nat /\ s \in [1 .. Len(s) -> X] /\ DOMAIN s = 1 .. Len(s)
OBVIOUS

\* Two sequences are the same if they are of one length and agree everywhere.
LEMMA SameSequences ==
    ASSUME NEW X, NEW s \in Seq(X), NEW t \in Seq(X), Len(s) = Len(t),
           \A i \in 1 .. Len(s) : s[i] = t[i]
    PROVE  s = t
OBVIOUS

\* One more at the end.
LEMMA ConcatOfOne ==
    ASSUME NEW X, NEW s \in Seq(X), NEW x \in X
    PROVE  s \o <<x>> = Append(s, x) /\ Append(s, x) \in Seq(X)
<1>1. <<x>> \in Seq(X) /\ Len(<<x>>) = 1 /\ <<x>>[1] = x
    OBVIOUS
<1>2. Append(s, x) \in Seq(X) /\ Len(Append(s, x)) = Len(s) + 1
    OBVIOUS
<1>3. \A i \in 1 .. Len(s) + 1 : Append(s, x)[i] = IF i <= Len(s) THEN s[i] ELSE x
    OBVIOUS
<1>4. \A i \in 1 .. Len(s) + 1 : (s \o <<x>>)[i] = IF i <= Len(s) THEN s[i] ELSE x
    OBVIOUS
<1>5. s \o <<x>> \in Seq(X) /\ Len(s \o <<x>>) = Len(s) + 1
    BY <1>1, Concats
<1>6. \A i \in 1 .. Len(s \o <<x>>) : (s \o <<x>>)[i] = Append(s, x)[i]
    BY <1>3, <1>4, <1>5
<1> QED BY <1>2, <1>5, <1>6, SameSequences

\* It does not matter in which order three are put together.
LEMMA ConcatRules ==
    ASSUME NEW X, NEW s \in Seq(X), NEW t \in Seq(X), NEW u \in Seq(X)
    PROVE  (s \o t) \o u = s \o (t \o u)
OBVIOUS

\* Nothing is added by what is empty.
LEMMA ConcatNone ==
    ASSUME NEW X, NEW s \in Seq(X)
    PROVE  s \o <<>> = s /\ <<>> \o s = s
OBVIOUS

\* The first k of a sequence, and the next.
LEMMA PrefixGrows ==
    ASSUME NEW X, NEW s \in Seq(X)
    PROVE  /\ SubSeq(s, 1, 0) = <<>> /\ SubSeq(s, 1, Len(s)) = s
           /\ \A k \in 1 .. Len(s) :
                /\ SubSeq(s, 1, k - 1) \in Seq(X) /\ s[k] \in X
                /\ SubSeq(s, 1, k) = Append(SubSeq(s, 1, k - 1), s[k])
<1>1. SubSeq(s, 1, 0) = <<>> /\ SubSeq(s, 1, Len(s)) = s
    OBVIOUS
<1>2. ASSUME NEW k \in 1 .. Len(s)
      PROVE  /\ SubSeq(s, 1, k - 1) \in Seq(X) /\ s[k] \in X
             /\ SubSeq(s, 1, k) = Append(SubSeq(s, 1, k - 1), s[k])
  <2>1. SubSeq(s, 1, k - 1) \in Seq(X) /\ s[k] \in X /\ Len(SubSeq(s, 1, k - 1)) = k - 1
      OBVIOUS
  <2>2. SubSeq(s, 1, k) \in Seq(X) /\ Len(SubSeq(s, 1, k)) = k
      OBVIOUS
  <2>3. \A i \in 1 .. k : SubSeq(s, 1, k)[i] = s[i]
      OBVIOUS
  <2>4. \A i \in 1 .. k : Append(SubSeq(s, 1, k - 1), s[k])[i] = s[i]
      OBVIOUS
  <2>5. /\ Append(SubSeq(s, 1, k - 1), s[k]) \in Seq(X)
        /\ Len(Append(SubSeq(s, 1, k - 1), s[k])) = k
      BY <2>1
  <2> QED BY <2>1, <2>2, <2>3, <2>4, <2>5, SameSequences
<1> QED BY <1>1, <1>2

\* A sequence of one.
LEMMA SingleIs ==
    ASSUME NEW X, NEW c \in X
    PROVE  <<c>> \in Seq(X) /\ Len(<<c>>) = 1 /\ <<c>>[1] = c
OBVIOUS

\* A sequence of two.
LEMMA PairIs ==
    ASSUME NEW X, NEW c \in X, NEW d \in X
    PROVE  /\ <<c, d>> \in Seq(X) /\ Len(<<c, d>>) = 2 /\ <<c, d>>[1] = c /\ <<c, d>>[2] = d
OBVIOUS

\* A sequence of two is one element and another.
LEMMA PairIsBoth ==
    ASSUME NEW X, NEW c \in X, NEW d \in X
    PROVE  <<c, d>> = <<c>> \o <<d>>
<1>1. <<c>> \in Seq(X) /\ Len(<<c>>) = 1 /\ <<c>>[1] = c
    BY SingleIs
<1>2. <<d>> \in Seq(X) /\ Len(<<d>>) = 1 /\ <<d>>[1] = d
    BY SingleIs
<1>3. <<c, d>> \in Seq(X) /\ Len(<<c, d>>) = 2 /\ <<c, d>>[1] = c /\ <<c, d>>[2] = d
    BY PairIs
<1> DEFINE u == <<c>>
           v == <<d>>
           w == <<c, d>>
<1> HIDE DEF u, v, w
<1>4. u \o v \in Seq(X) /\ Len(u \o v) = 2 /\ (u \o v)[1] = c /\ (u \o v)[2] = d
  <2>1. u \in Seq(X) /\ v \in Seq(X) /\ Len(u) = 1 /\ Len(v) = 1 /\ u[1] = c /\ v[1] = d
      BY <1>1, <1>2 DEF u, v
  <2>2. /\ u \o v \in Seq(X) /\ Len(u \o v) = 1 + 1
        /\ \A i \in 1 .. 1 : (u \o v)[i] = u[i]
        /\ \A i \in 1 .. 1 : (u \o v)[1 + i] = v[i]
      BY <2>1, Concats
  <2> QED BY <2>1, <2>2
<1>5. w = u \o v
  <2>1. w \in Seq(X) /\ Len(w) = 2 /\ w[1] = c /\ w[2] = d
      BY <1>3 DEF w
  <2>2. \A i \in 1 .. Len(w) : w[i] = (u \o v)[i]
      BY <1>4, <2>1
  <2> QED BY <1>4, <2>1, <2>2, SameSequences
<1> QED BY <1>5 DEF u, v, w

\* f[k] is what the first k parts are flattened to.
IsFlat(X, parts, n, f) ==
    /\ f \in [0 .. n -> Seq(X)] /\ f[0] = <<>>
    /\ \A k \in 1 .. n : f[k] = f[k - 1] \o parts[k]
    /\ FlattenSeq(parts) = f[n]

\* Flattening puts one part after the other.
LEMMA FlatExists ==
    ASSUME NEW X, NEW n \in Nat, NEW parts \in [1 .. n -> Seq(X)]
    PROVE  \E f : IsFlat(X, parts, n, f)
<1> DEFINE step == [p \in Seq(X) \X Seq(X) |-> p[1] \o p[2]]
           Eq(g) == g = [i \in 1 .. n |-> IF i = 1 THEN parts[i] ELSE g[i - 1] \o parts[i]]
           all == CHOOSE g : Eq(g)
           f == [k \in 0 .. n |-> IF k = 0 THEN <<>> ELSE all[k]]
<1>1. step \in [Seq(X) \X Seq(X) -> Seq(X)]
  <2>1. \A p \in Seq(X) \X Seq(X) : p[1] \o p[2] \in Seq(X)
      BY Concats
  <2> QED BY <2>1
<1>2. <<>> \in Seq(X)
    OBVIOUS
<1>3. PICK h \in [SUBSET (1 .. n) -> Seq(X)] : Folds(step, <<>>, parts, h, 1 .. n)
    BY <1>1, <1>2, FoldsExist
<1>4. ASSUME NEW k \in 1 .. n
      PROVE  1 .. k \in SUBSET (1 .. n) /\ 1 .. k # {} /\ 1 .. (k - 1) \in SUBSET (1 .. n)
  <2>1. 1 .. k \subseteq 1 .. n /\ 1 .. (k - 1) \subseteq 1 .. n /\ k \in 1 .. k
      OBVIOUS
  <2> QED BY <2>1
<1>5. ASSUME NEW k \in 1 .. n PROVE h[1 .. k] = h[1 .. (k - 1)] \o parts[k]
  <2>1. k \in Nat \ {0}
      OBVIOUS
  <2>2. Max(1 .. k) = k /\ (1 .. k) \ {k} = 1 .. (k - 1)
      BY <2>1, MaxOfPrefix
  <2>3. h[1 .. k] = step[<<h[(1 .. k) \ {Max(1 .. k)}], parts[Max(1 .. k)]>>]
      BY <1>3, <1>4 DEF Folds
  <2>4. h[1 .. (k - 1)] \in Seq(X) /\ parts[k] \in Seq(X)
      BY <1>4
  <2> QED BY <2>2, <2>3, <2>4
<1>6. h[1 .. 0] = <<>>
  <2>1. 1 .. 0 = {} /\ {} \in SUBSET (1 .. n)
      OBVIOUS
  <2> QED BY <1>3, <2>1 DEF Folds
<1>7. \E g : Eq(g)
  <2> DEFINE g == [i \in 1 .. n |-> h[1 .. i]]
  <2>1. ASSUME NEW i \in 1 .. n
        PROVE  h[1 .. i] = IF i = 1 THEN parts[i] ELSE g[i - 1] \o parts[i]
    <3>1. CASE i = 1
      <4>0. h[1 .. i] = h[1 .. (i - 1)] \o parts[i]
          BY <1>5
      <4>1. h[1 .. i] = <<>> \o parts[i]
        <5>1. i - 1 = 0
            BY <3>1
        <5>2. h[1 .. (i - 1)] = <<>>
            BY <1>6, <5>1
        <5> QED BY <4>0, <5>2
      <4>2. parts[i] \in Seq(X)
          OBVIOUS
      <4> QED BY <3>1, <4>1, <4>2
    <3>2. CASE i # 1
      <4>1. i - 1 \in 1 .. n
          BY <3>2
      <4>2. g[i - 1] = h[1 .. (i - 1)]
          BY <4>1
      <4> QED BY <1>5, <3>2, <4>2, ZenonT(30)
    <3> QED BY <3>1, <3>2
  <2>2. g = [i \in 1 .. n |-> IF i = 1 THEN parts[i] ELSE g[i - 1] \o parts[i]]
      BY <2>1, Zenon
  <2> QED BY <2>2
<1>8. Eq(all)
    BY <1>7, Zenon
<1>9. n # 0 => FlattenSeq(parts) = all[n]
  <2>1. parts \in Seq(Seq(X)) /\ Len(parts) = n
      OBVIOUS
  <2> QED BY <2>1 DEF FlattenSeq
<1>10. n = 0 => FlattenSeq(parts) = <<>>
    BY DEF FlattenSeq
<1> HIDE DEF all
<1>11. ASSUME NEW k \in 1 .. n PROVE f[k] = f[k - 1] \o parts[k]
  <2>1. k \in 0 .. n /\ k - 1 \in 0 .. n /\ f[k] = all[k] /\ parts[k] \in Seq(X)
      OBVIOUS
  <2>2. CASE k = 1
    <3>1. f[k - 1] = <<>> /\ all[k] = parts[k]
        BY <1>8, <2>1, <2>2
    <3>2. <<>> \o parts[k] = parts[k]
        BY <2>1
    <3> QED BY <2>1, <3>1, <3>2
  <2>3. CASE k # 1
    <3>1. f[k - 1] = all[k - 1]
        BY <2>1, <2>3
    <3>2. all[k] = all[k - 1] \o parts[k]
        BY <1>8, <2>3
    <3> QED BY <2>1, <3>1, <3>2
  <2> QED BY <2>2, <2>3
<1>12. f[0] = <<>>
    OBVIOUS
<1>13. FlattenSeq(parts) = f[n]
    BY <1>9, <1>10
<1>14. ASSUME NEW k \in 0 .. n PROVE f[k] \in Seq(X)
  <2> DEFINE P == {i \in Nat : i <= n => f[i] \in Seq(X)}
  <2> HIDE DEF f
  <2>1. 0 \in P
      BY <1>2, <1>12
  <2>2. ASSUME NEW i \in Nat, i \in P PROVE i + 1 \in P
    <3>1. CASE i + 1 <= n
      <4>1. i + 1 \in 1 .. n /\ (i + 1) - 1 = i /\ i <= n
          BY <3>1
      <4>2. f[i] \in Seq(X) /\ parts[i + 1] \in Seq(X)
          BY <2>2, <4>1
      <4>3. f[i + 1] = f[i] \o parts[i + 1]
          BY <1>11, <4>1
      <4>4. f[i] \o parts[i + 1] \in Seq(X)
          BY <4>2
      <4>5. f[i + 1] \in Seq(X) /\ i + 1 \in Nat
          BY <4>3, <4>4
      <4> QED BY <4>5
    <3>2. CASE ~(i + 1 <= n)
        BY <3>2
    <3> QED BY <3>1, <3>2
  <2>3. Nat \subseteq P
      BY <2>1, <2>2, NumberInduction
  <2> QED BY <2>3
<1>15. f \in [0 .. n -> Seq(X)]
  <2>1. f = [k \in 0 .. n |-> f[k]]
      OBVIOUS
  <2> HIDE DEF f
  <2> QED BY <1>14, <2>1
<1> HIDE DEF f
<1> QED BY <1>11, <1>12, <1>13, <1>15 DEF IsFlat

\* Flattening takes the same parts to the same sequence.
LEMMA FlatType ==
    ASSUME NEW X, NEW n \in Nat, NEW parts \in [1 .. n -> Seq(X)]
    PROVE  FlattenSeq(parts) \in Seq(X)
<1>1. PICK f : IsFlat(X, parts, n, f)
    BY FlatExists
<1> QED BY <1>1 DEF IsFlat

\* g[k] is what the first k parts are joined to.
IsJoined(X, parts, separator, n, g) ==
    /\ g \in [1 .. n -> Seq(X)] /\ g[1] = parts[1]
    /\ \A k \in 2 .. n : g[k] = g[k - 1] \o (<<separator>> \o parts[k])
    /\ Joined(parts, separator) = g[n]

\* Joining puts a separator between one part and the next.
LEMMA JoinedExists ==
    ASSUME NEW X, NEW separator \in X, NEW n \in Nat \ {0}, NEW parts \in [1 .. n -> Seq(X)]
    PROVE  \E g : IsJoined(X, parts, separator, n, g)
<1> DEFINE after == [i \in 1 .. n |-> <<separator>> \o parts[i]]
<1>0. n \in Nat /\ <<separator>> \in Seq(X) /\ Len(<<separator>>) = 1
    OBVIOUS
<1>1. after \in [1 .. n -> Seq(X)]
    BY <1>0, Concats
<1>2. PICK f : IsFlat(X, after, n, f)
    BY <1>0, <1>1, FlatExists
<1> DEFINE g == [k \in 1 .. n |-> Tail(f[k])]
<1>3. ASSUME NEW k \in 1 .. n PROVE f[k] = f[k - 1] \o (<<separator>> \o parts[k])
    BY <1>2 DEF IsFlat
<1>4. \A k \in 0 .. n : f[k] \in Seq(X)
    BY <1>2 DEF IsFlat
<1>5. ASSUME NEW k \in 1 .. n PROVE Len(f[k]) > 0
  <2> DEFINE before == f[k - 1]
             added == <<separator>> \o parts[k]
  <2>1. before \in Seq(X) /\ added \in Seq(X)
      BY <1>0, <1>4, Concats
  <2>2. Len(added) > 0
      BY <1>0, Concats
  <2>3. f[k] = before \o added
      BY <1>3
  <2> HIDE DEF before, added
  <2>4. Len(before \o added) = Len(before) + Len(added) /\ Len(before) \in Nat /\ Len(added) \in Nat
      BY <2>1, Concats
  <2> QED BY <2>2, <2>3, <2>4
<1>6. ASSUME NEW s \in Seq(X), NEW t \in Seq(X), Len(s) > 0
      PROVE  Tail(s) \in Seq(X) /\ Tail(s \o t) = Tail(s) \o t
  <2>1. Tail(s) \in Seq(X) /\ Len(Tail(s)) = Len(s) - 1 /\ \A i \in 1 .. Len(s) - 1 : Tail(s)[i] = s[i + 1]
      BY <1>6
  <2>2. s \o t \in Seq(X) /\ Len(s \o t) = Len(s) + Len(t) /\ Len(s \o t) > 0
      BY <1>6, Concats
  <2>3. /\ Tail(s \o t) \in Seq(X) /\ Len(Tail(s \o t)) = Len(s) + Len(t) - 1
        /\ \A i \in 1 .. Len(s) + Len(t) - 1 : Tail(s \o t)[i] = (s \o t)[i + 1]
      BY <2>2
  <2>4. Tail(s) \o t \in Seq(X) /\ Len(Tail(s) \o t) = Len(s) + Len(t) - 1
      BY <2>1, Concats
  <2>5. ASSUME NEW i \in 1 .. Len(s) + Len(t) - 1
        PROVE  Tail(s \o t)[i] = (Tail(s) \o t)[i]
    <3>1. CASE i <= Len(s) - 1
      <4>1. i \in 1 .. Len(s) - 1 /\ i + 1 \in 1 .. Len(s)
          BY <3>1
      <4>2. (Tail(s) \o t)[i] = Tail(s)[i] /\ (s \o t)[i + 1] = s[i + 1]
          BY <2>1, <4>1, Concats
      <4> QED BY <2>1, <2>3, <4>1, <4>2
    <3>2. CASE ~(i <= Len(s) - 1)
      <4> DEFINE j == i - (Len(s) - 1)
      <4>1. j \in 1 .. Len(t) /\ i = (Len(s) - 1) + j /\ i + 1 = Len(s) + j
          BY <3>2
      <4> HIDE DEF j
      <4>2. (Tail(s) \o t)[(Len(s) - 1) + j] = t[j]
          BY <2>1, <4>1, Concats
      <4>3. (s \o t)[Len(s) + j] = t[j]
        <5>1. \A i2 \in 1 .. Len(t) : (s \o t)[Len(s) + i2] = t[i2]
            BY <1>6, Concats
        <5> QED BY <4>1, <5>1, Zenon
      <4> QED BY <2>3, <4>1, <4>2, <4>3
    <3> QED BY <3>1, <3>2
  <2> QED BY <2>1, <2>3, <2>4, <2>5, SameSequences
<1>7. g \in [1 .. n -> Seq(X)]
    BY <1>4, <1>5, <1>6
<1>8. g[1] = parts[1]
  <2>1. f[0] = <<>> /\ 1 - 1 = 0 /\ 1 \in 1 .. n /\ parts[1] \in Seq(X)
      BY <1>2 DEF IsFlat
  <2>2. f[1] = <<>> \o (<<separator>> \o parts[1])
      BY <1>3, <2>1
  <2>3. f[1] = <<separator>> \o parts[1]
      BY <1>0, <2>1, <2>2, Concats
  <2>4. Tail(f[1]) = Tail(<<separator>>) \o parts[1]
      BY <1>0, <1>6, <2>1, <2>3
  <2>5. Tail(<<separator>>) = <<>>
      OBVIOUS
  <2> QED BY <2>1, <2>4, <2>5, SMTT(20)
<1>9. ASSUME NEW k \in 2 .. n PROVE g[k] = g[k - 1] \o (<<separator>> \o parts[k])
  <2>1. k \in 1 .. n /\ k - 1 \in 1 .. n
      OBVIOUS
  <2>2. f[k - 1] \in Seq(X) /\ Len(f[k - 1]) > 0 /\ <<separator>> \o parts[k] \in Seq(X)
    <3>1. parts[k] \in Seq(X) /\ k - 1 \in 0 .. n
        BY <2>1
    <3>2. <<separator>> \o parts[k] \in Seq(X)
        BY <1>0, <3>1, Concats
    <3> QED BY <1>4, <1>5, <2>1, <3>1, <3>2
  <2>3. Tail(f[k]) = Tail(f[k - 1]) \o (<<separator>> \o parts[k])
      BY <1>3, <1>6, <2>1, <2>2
  <2> QED BY <2>1, <2>3
<1>10. Joined(parts, separator) = g[n]
  <2>1. FlattenSeq(after) = f[n] /\ n \in 1 .. n
      BY <1>2 DEF IsFlat
  <2>2. DOMAIN parts = 1 .. n
      OBVIOUS
  <2>3. FlattenSeq(after) # <<>>
      BY <1>5, <2>1
  <2> QED BY <2>1, <2>2, <2>3 DEF Joined
<1> HIDE DEF g
<1> QED BY <1>7, <1>8, <1>9, <1>10 DEF IsJoined

(***************************************************************************)
(* Folding a sequence: what there is after each of its elements.           *)
(***************************************************************************)
IsRun(X, step, s, seq, n, h) ==
    /\ h \in [0 .. n -> X] /\ h[0] = s
    /\ \A k \in 1 .. n : h[k] = step[<<h[k - 1], seq[k]>>]

\* What the community modules' fold of a sequence comes down to: the value for the
\* elements at the places in a set, from that without the last of them.
IsFold(X, Y, step, s, seq, n, all) ==
    /\ step \in [X \X Y -> X] /\ s \in X /\ n \in Nat /\ seq \in [1 .. n -> Y]
    /\ all[{}] = s
    /\ \A t \in SUBSET (1 .. n) : t # {} /\ all[t \ {Max(t)}] \in X =>
            all[t] = step[<<all[t \ {Max(t)}], seq[Max(t)]>>]

\* A fold, as the module of folds defines it, goes through the elements in order.
LEMMA RunOfFold ==
    ASSUME NEW X, NEW Y, NEW step, NEW s, NEW n, NEW seq, NEW all,
           IsFold(X, Y, step, s, seq, n, all)
    PROVE  \E h : IsRun(X, step, s, seq, n, h) /\ h[n] = all[1 .. n]
<1> DEFINE h == [k \in 0 .. n |-> all[1 .. k]]
           P == {k \in Nat : k <= n => h[k] \in X}
<1>0. step \in [X \X Y -> X] /\ s \in X /\ n \in Nat /\ seq \in [1 .. n -> Y]
    BY DEF IsFold
<1>1. h[0] = s
  <2>1. 1 .. 0 = {} /\ 0 \in 0 .. n
      BY <1>0
  <2>2. all[{}] = s
      BY DEF IsFold
  <2> QED BY <2>1, <2>2
<1>2. ASSUME NEW k \in 1 .. n, h[k - 1] \in X PROVE h[k] = step[<<h[k - 1], seq[k]>>]
  <2>1. k \in Nat \ {0} /\ k \in 0 .. n /\ k - 1 \in 0 .. n
      BY <1>0
  <2>2. 1 .. k \subseteq 1 .. n /\ k \in 1 .. k
      BY <1>0, <2>1
  <2>3. Max(1 .. k) = k /\ (1 .. k) \ {k} = 1 .. (k - 1)
      BY <2>1, MaxOfPrefix
  <2>4. h[k] = all[1 .. k]
      BY <2>1
  <2>6. h[k - 1] = all[1 .. (k - 1)]
      BY <2>1
  <2>5. all[1 .. k] = step[<<all[1 .. (k - 1)], seq[k]>>]
    <3> DEFINE before == 1 .. (k - 1)
               upto == 1 .. k
    <3>1. all[before] \in X
        BY <1>2, <2>6
    <3>2. upto \in SUBSET (1 .. n) /\ upto # {} /\ Max(upto) = k /\ upto \ {k} = before
        BY <2>2, <2>3
    <3> HIDE DEF before, upto
    <3>3. all[upto] = step[<<all[before], seq[k]>>]
        BY <3>1, <3>2 DEF IsFold
    <3> QED BY <3>3 DEF before, upto
  <2> HIDE DEF h
  <2> QED BY <2>4, <2>5, <2>6
<1>3. h[n] = all[1 .. n]
    BY <1>0
<1>4. h = [k \in 0 .. n |-> h[k]]
    OBVIOUS
<1> HIDE DEF h
<1>5. 0 \in P
    BY <1>0, <1>1
<1>6. ASSUME NEW k \in Nat, k \in P PROVE k + 1 \in P
  <2>1. CASE k + 1 <= n
    <3>1. k + 1 \in 1 .. n /\ (k + 1) - 1 = k /\ k <= n /\ k + 1 \in Nat
        BY <1>0, <2>1
    <3>2. h[k] \in X /\ seq[k + 1] \in Y
        BY <1>0, <1>6, <3>1
    <3>3. h[k + 1] = step[<<h[k], seq[k + 1]>>]
        BY <1>2, <3>1, <3>2
    <3>4. h[k + 1] \in X
        BY <1>0, <3>2, <3>3
    <3> QED BY <3>1, <3>4
  <2>2. CASE ~(k + 1 <= n)
      BY <2>2
  <2> QED BY <2>1, <2>2
<1>7. Nat \subseteq P
    BY <1>5, <1>6, NumberInduction
<1>8. \A k \in 0 .. n : h[k] \in X
    BY <1>0, <1>7
<1>9. h \in [0 .. n -> X]
    BY <1>4, <1>8
<1>10. ASSUME NEW k \in 1 .. n PROVE h[k] = step[<<h[k - 1], seq[k]>>]
  <2>1. k - 1 \in 0 .. n
      BY <1>0
  <2> QED BY <1>2, <1>8, <2>1
<1> QED BY <1>1, <1>3, <1>9, <1>10 DEF IsRun

\* c is a followed by b.
AreFollowed(a, m, b, n, c) ==
    /\ m \in Nat /\ n \in Nat
    /\ (\A i \in 1 .. m : c[i] = a[i]) /\ (\A i \in 1 .. n : c[m + i] = b[i])

\* Going on from where a sequence ended is going through both.
LEMMA RunsFollow ==
    ASSUME NEW X, NEW step, NEW s, NEW m, NEW n, NEW l, l = m + n,
           NEW a, NEW b, NEW c, AreFollowed(a, m, b, n, c),
           NEW f, NEW g, NEW h, IsRun(X, step, s, a, m, f), IsRun(X, step, f[m], b, n, g),
           IsRun(X, step, s, c, l, h)
    PROVE  h[l] = g[n]
<1> DEFINE P == {k \in Nat : k <= m => h[k] = f[k]}
           Q == {k \in Nat : k <= n => h[m + k] = g[k]}
<1>0. m \in Nat /\ n \in Nat
    BY DEF AreFollowed
<1>1. 0 \in P
    BY <1>0 DEF IsRun
<1>2. ASSUME NEW k \in Nat, k \in P PROVE k + 1 \in P
  <2>1. CASE k + 1 <= m
    <3>1. k + 1 \in 1 .. m /\ k + 1 \in 1 .. m + n /\ (k + 1) - 1 = k /\ k <= m /\ k + 1 \in Nat
        BY <1>0, <2>1
    <3>2. h[k] = f[k]
        BY <1>2, <3>1
    <3>3. h[k + 1] = step[<<h[k], c[k + 1]>>] /\ f[k + 1] = step[<<f[k], a[k + 1]>>]
        BY <1>0, <3>1 DEF IsRun
    <3>4. c[k + 1] = a[k + 1]
        BY <3>1 DEF AreFollowed
    <3> QED BY <3>1, <3>2, <3>3, <3>4
  <2>2. CASE ~(k + 1 <= m)
      BY <2>2
  <2> QED BY <2>1, <2>2
<1>3. h[m] = f[m]
  <2>1. Nat \subseteq P
      BY <1>1, <1>2, NumberInduction
  <2> QED BY <1>0, <2>1
<1>4. 0 \in Q
  <2>1. g[0] = f[m] /\ m + 0 = m
      BY <1>0 DEF IsRun
  <2> QED BY <1>3, <2>1
<1>5. ASSUME NEW k \in Nat, k \in Q PROVE k + 1 \in Q
  <2>1. CASE k + 1 <= n
    <3>1. /\ k + 1 \in 1 .. n /\ m + (k + 1) \in 1 .. m + n /\ (m + (k + 1)) - 1 = m + k
          /\ (k + 1) - 1 = k /\ k <= n /\ k + 1 \in Nat
        BY <1>0, <2>1
    <3>2. h[m + k] = g[k]
        BY <1>5, <3>1
    <3>3. h[m + (k + 1)] = step[<<h[m + k], c[m + (k + 1)]>>]
        BY <1>0, <3>1 DEF IsRun
    <3>4. g[k + 1] = step[<<g[k], b[k + 1]>>]
        BY <1>0, <3>1 DEF IsRun
    <3>5. c[m + (k + 1)] = b[k + 1]
        BY <3>1 DEF AreFollowed
    <3> QED BY <3>1, <3>2, <3>3, <3>4, <3>5
  <2>2. CASE ~(k + 1 <= n)
      BY <2>2
  <2> QED BY <2>1, <2>2
<1>6. Nat \subseteq Q
    BY <1>4, <1>5, NumberInduction
<1> QED BY <1>0, <1>6

\* The places of two sequences in the one they are put together to.
LEMMA ConcatPlaces ==
    ASSUME NEW X, NEW a \in Seq(X), NEW b \in Seq(X)
    PROVE  /\ Len(a) \in Nat /\ Len(b) \in Nat /\ Len(a) + Len(b) \in Nat
           /\ a \in [1 .. Len(a) -> X] /\ b \in [1 .. Len(b) -> X] /\ a \o b \in Seq(X)
           /\ a \o b \in [1 .. Len(a) + Len(b) -> X]
           /\ \A i \in 1 .. Len(a) : (a \o b)[i] = a[i]
           /\ \A i \in 1 .. Len(b) : (a \o b)[Len(a) + i] = b[i]
<1> DEFINE c == a \o b
<1>1. /\ c \in Seq(X) /\ Len(c) = Len(a) + Len(b)
      /\ \A i \in 1 .. Len(a) : c[i] = a[i]
      /\ \A i \in 1 .. Len(b) : c[Len(a) + i] = b[i]
    BY Concats
<1> HIDE DEF c
<1>2. c \in [1 .. Len(c) -> X]
    BY <1>1, SequencesAre
<1>3. Len(a) \in Nat /\ Len(b) \in Nat /\ a \in [1 .. Len(a) -> X] /\ b \in [1 .. Len(b) -> X]
    BY SequencesAre
<1> QED BY <1>1, <1>2, <1>3 DEF c

\* The empty sequence has no places.
LEMMA NoPlaces == \A X : <<>> \in [1 .. 0 -> X] /\ <<>> \in Seq(X)
OBVIOUS

(***************************************************************************)
(* CSV: the reader of a text that is written one piece after the other.    *)
(***************************************************************************)
Character == STRING \cup {"comma", "quote", "newline", "&", "<", ">", "'",
                         "amp;", "lt;", "gt;", "quot;", "apos;"}

\* A cell.
Text == Seq(Character)

\* What the reader of CSV can be in.
CsvStates ==
    [rows : Seq(Seq(Text)), row : Seq(Text), cell : Text, mode : {"open", "quoted", "closed"}]

\* One of them.
CsvAt(rows, row, cell, mode) == [rows |-> rows, row |-> row, cell |-> cell, mode |-> mode]

\* The reader after a text.
CsvRun(s, text) == FoldLeft(ReadCsvChar, s, text)

\* What the reader makes of a character.
LEMMA CsvSteps ==
    ASSUME NEW rows \in Seq(Seq(Text)), NEW row \in Seq(Text), NEW cell \in Text, NEW c \in Character
    PROVE  /\ c \notin Special =>
                ReadCsvChar(CsvAt(rows, row, cell, "open"), c) =
                    CsvAt(rows, row, Append(cell, c), "open")
           /\ ReadCsvChar(CsvAt(rows, row, cell, "open"), "quote") =
                    CsvAt(rows, row, cell, "quoted")
           /\ c # "quote" =>
                ReadCsvChar(CsvAt(rows, row, cell, "quoted"), c) =
                    CsvAt(rows, row, Append(cell, c), "quoted")
           /\ ReadCsvChar(CsvAt(rows, row, cell, "quoted"), "quote") =
                    CsvAt(rows, row, cell, "closed")
           /\ ReadCsvChar(CsvAt(rows, row, cell, "closed"), "quote") =
                    CsvAt(rows, row, Append(cell, "quote"), "quoted")
           /\ \A mode \in {"open", "closed"} :
                /\ ReadCsvChar(CsvAt(rows, row, cell, mode), "comma") =
                        CsvAt(rows, Append(row, cell), <<>>, "open")
                /\ ReadCsvChar(CsvAt(rows, row, cell, mode), "newline") =
                        CsvAt(Append(rows, Append(row, cell)), <<>>, <<>>, "open")
<1>1. c \notin Special =>
        ReadCsvChar(CsvAt(rows, row, cell, "open"), c) = CsvAt(rows, row, Append(cell, c), "open")
    BY DEF ReadCsvChar, CsvAt, Special
<1>2. ReadCsvChar(CsvAt(rows, row, cell, "open"), "quote") = CsvAt(rows, row, cell, "quoted")
    BY DEF ReadCsvChar, CsvAt
<1>3. c # "quote" =>
        ReadCsvChar(CsvAt(rows, row, cell, "quoted"), c) = CsvAt(rows, row, Append(cell, c), "quoted")
    BY DEF ReadCsvChar, CsvAt
<1>4. ReadCsvChar(CsvAt(rows, row, cell, "quoted"), "quote") = CsvAt(rows, row, cell, "closed")
    BY DEF ReadCsvChar, CsvAt
<1>5. ReadCsvChar(CsvAt(rows, row, cell, "closed"), "quote") =
        CsvAt(rows, row, Append(cell, "quote"), "quoted")
    BY DEF ReadCsvChar, CsvAt
<1>6. ASSUME NEW mode \in {"open", "closed"}
      PROVE  /\ ReadCsvChar(CsvAt(rows, row, cell, mode), "comma") =
                    CsvAt(rows, Append(row, cell), <<>>, "open")
             /\ ReadCsvChar(CsvAt(rows, row, cell, mode), "newline") =
                    CsvAt(Append(rows, Append(row, cell)), <<>>, <<>>, "open")
    BY DEF ReadCsvChar, CsvAt, EndCell, EndRow
<1> QED BY <1>1, <1>2, <1>3, <1>4, <1>5, <1>6

\* A character leaves the reader in one of its states.
LEMMA CsvStep ==
    ASSUME NEW s \in CsvStates, NEW c \in Character
    PROVE  ReadCsvChar(s, c) \in CsvStates
<1>1. Append(s.cell, c) \in Text /\ Append(s.row, s.cell) \in Seq(Text) /\ <<>> \in Text
    BY DEF CsvStates, Text
<1>2. Append(s.rows, Append(s.row, s.cell)) \in Seq(Seq(Text)) /\ <<>> \in Seq(Text)
    BY <1>1 DEF CsvStates
<1> USE DEF CsvStates
<1>3. CASE s.mode = "quoted" /\ c = "quote"
  <2>1. ReadCsvChar(s, c) = [s EXCEPT !.mode = "closed"]
      BY <1>3 DEF ReadCsvChar
  <2> QED BY <2>1
<1>4. CASE s.mode = "quoted" /\ c # "quote"
  <2>1. ReadCsvChar(s, c) = [s EXCEPT !.cell = Append(s.cell, c)]
      BY <1>4 DEF ReadCsvChar
  <2> QED BY <1>1, <2>1
<1>5. CASE s.mode = "closed" /\ c = "quote"
  <2>1. ReadCsvChar(s, c) = [s EXCEPT !.cell = Append(s.cell, c), !.mode = "quoted"]
      BY <1>5 DEF ReadCsvChar
  <2> QED BY <1>1, <2>1
<1>6. CASE s.mode = "open" /\ c = "quote"
  <2>1. ReadCsvChar(s, c) = [s EXCEPT !.mode = "quoted"]
      BY <1>6 DEF ReadCsvChar
  <2> QED BY <2>1
<1>7. CASE s.mode # "quoted" /\ c = "comma"
  <2>1. ReadCsvChar(s, c) = [s EXCEPT !.row = Append(s.row, s.cell), !.cell = <<>>, !.mode = "open"]
      BY <1>7 DEF ReadCsvChar, EndCell
  <2> QED BY <1>1, <2>1
<1>8. CASE s.mode # "quoted" /\ c = "newline"
  <2>1. ReadCsvChar(s, c) = EndRow(s)
      BY <1>8 DEF ReadCsvChar
  <2>2. EndRow(s) = CsvAt(Append(s.rows, Append(s.row, s.cell)), <<>>, <<>>, "open")
    <3>1. s = CsvAt(s.rows, s.row, s.cell, s.mode)
        BY DEF CsvAt
    <3>2. s.rows \in Seq(Seq(Text)) /\ s.row \in Seq(Text) /\ s.cell \in Text
        OBVIOUS
    <3>3. s.mode \in {"open", "closed"}
        BY <1>8
    <3> HIDE DEF CsvStates
    <3>4. ReadCsvChar(CsvAt(s.rows, s.row, s.cell, s.mode), "newline") =
            CsvAt(Append(s.rows, Append(s.row, s.cell)), <<>>, <<>>, "open")
        BY <3>2, <3>3, CsvSteps
    <3> QED BY <1>8, <2>1, <3>1, <3>4
  <2> QED BY <1>1, <1>2, <2>1, <2>2 DEF CsvAt
<1>9. CASE s.mode # "quoted" /\ c \notin {"quote", "comma", "newline"}
  <2>1. ReadCsvChar(s, c) = [s EXCEPT !.cell = Append(s.cell, c)]
      BY <1>9 DEF ReadCsvChar
  <2> QED BY <1>1, <2>1
<1> QED BY <1>3, <1>4, <1>5, <1>6, <1>7, <1>8, <1>9

\* The reader as a function.
CsvReader == [p \in CsvStates \X Character |-> ReadCsvChar(p[1], p[2])]

\* h[k] is the reader after k characters.
IsCsvRun(s, text, n, h) ==
    /\ h \in [0 .. n -> CsvStates] /\ h[0] = s
    /\ \A k \in 1 .. n : h[k] = ReadCsvChar(h[k - 1], text[k])
    /\ CsvRun(s, text) = h[n]
    /\ IsRun(CsvStates, CsvReader, s, text, n, h)

\* What the reader is after each character.
LEMMA CsvRunExists ==
    ASSUME NEW s \in CsvStates, NEW n \in Nat, NEW text \in [1 .. n -> Character]
    PROVE  \E h : IsCsvRun(s, text, n, h)
<1> DEFINE Eq(g) == g = [t \in SUBSET (1 .. n) |->
                            IF t = {} THEN s
                            ELSE ReadCsvChar(g[t \ {Max(t)}], text[Max(t)])]
           all == CHOOSE g : Eq(g)
           step == CsvReader
<1>1. DOMAIN text = 1 .. n
    OBVIOUS
<1>2. CsvRun(s, text) = all[1 .. n]
    BY <1>1 DEF CsvRun, FoldLeft, MapThenFoldSet
<1>3. step \in [CsvStates \X Character -> CsvStates]
  <2>1. \A p \in CsvStates \X Character : ReadCsvChar(p[1], p[2]) \in CsvStates
      BY CsvStep
  <2> QED BY <2>1 DEF CsvReader
<1>4. \A u \in CsvStates, c \in Character : step[<<u, c>>] = ReadCsvChar(u, c)
    BY DEF CsvReader
<1> HIDE DEF step
<1>5. PICK g \in [SUBSET (1 .. n) -> CsvStates] : Folds(step, s, text, g, 1 .. n)
    BY <1>3, FoldsExist
<1>6. ASSUME NEW t \in SUBSET (1 .. n), t # {}
      PROVE  Max(t) \in 1 .. n /\ t \ {Max(t)} \in SUBSET (1 .. n) /\ text[Max(t)] \in Character
    BY <1>6, MaxOf
<1>7. Eq(g)
  <2>1. ASSUME NEW t \in SUBSET (1 .. n), t # {}
        PROVE  g[t] = ReadCsvChar(g[t \ {Max(t)}], text[Max(t)])
    <3>1. g[t] = step[<<g[t \ {Max(t)}], text[Max(t)]>>]
        BY <1>5, <2>1 DEF Folds
    <3>2. g[t \ {Max(t)}] \in CsvStates /\ text[Max(t)] \in Character
        BY <1>6, <2>1
    <3> QED BY <1>4, <3>1, <3>2
  <2>2. g[{}] = s
      BY <1>5 DEF Folds
  <2> QED BY <2>1, <2>2
<1>8. Eq(all)
    BY <1>7
<1> HIDE DEF all
<1>9. \A t \in SUBSET (1 .. n) : t # {} /\ all[t \ {Max(t)}] \in CsvStates =>
            all[t] = step[<<all[t \ {Max(t)}], text[Max(t)]>>]
  <2>1. \A t \in SUBSET (1 .. n) : t # {} => all[t] = ReadCsvChar(all[t \ {Max(t)}], text[Max(t)])
      BY <1>8
  <2> HIDE DEF Eq
  <2> QED BY <1>4, <1>6, <2>1
<1>10. IsFold(CsvStates, Character, step, s, text, n, all)
    BY <1>3, <1>8, <1>9 DEF IsFold
<1>11. PICK h : IsRun(CsvStates, step, s, text, n, h) /\ h[n] = all[1 .. n]
    BY <1>10, RunOfFold
<1>12. h \in [0 .. n -> CsvStates] /\ h[0] = s
    BY <1>11 DEF IsRun
<1>13. ASSUME NEW k \in 1 .. n PROVE h[k] = ReadCsvChar(h[k - 1], text[k])
  <2>1. k - 1 \in 0 .. n /\ text[k] \in Character
      OBVIOUS
  <2>2. h[k] = step[<<h[k - 1], text[k]>>] /\ h[k - 1] \in CsvStates
      BY <1>11, <2>1 DEF IsRun
  <2> QED BY <1>4, <2>1, <2>2
<1> QED BY <1>2, <1>11, <1>12, <1>13 DEF IsCsvRun, step

\* Reading one text after another, and a single character.
LEMMA CsvConcat ==
    ASSUME NEW s \in CsvStates, NEW a \in Text, NEW b \in Text
    PROVE  CsvRun(s, a) \in CsvStates /\ CsvRun(s, a \o b) = CsvRun(CsvRun(s, a), b)
<1> DEFINE m == Len(a)
           n == Len(b)
           c == a \o b
<1>1. /\ m \in Nat /\ n \in Nat /\ m + n \in Nat
      /\ a \in [1 .. m -> Character] /\ b \in [1 .. n -> Character]
      /\ c \in [1 .. m + n -> Character]
      /\ (\A i \in 1 .. m : c[i] = a[i]) /\ (\A i \in 1 .. n : c[m + i] = b[i])
    BY ConcatPlaces DEF Text
<1> HIDE DEF c, m, n
<1>2. PICK f : IsCsvRun(s, a, m, f)
    BY <1>1, CsvRunExists
<1>3. CsvRun(s, a) = f[m] /\ f[m] \in CsvStates
    BY <1>1, <1>2 DEF IsCsvRun
<1>4. PICK g : IsCsvRun(f[m], b, n, g)
    BY <1>1, <1>3, CsvRunExists
<1>5. PICK h : IsCsvRun(s, c, m + n, h)
    BY <1>1, CsvRunExists
<1>6. h[m + n] = g[n]
  <2> DEFINE X == CsvStates
             step == CsvReader
  <2>1. IsRun(X, step, s, a, m, f) /\ IsRun(X, step, f[m], b, n, g) /\ IsRun(X, step, s, c, m + n, h)
      BY <1>2, <1>4, <1>5 DEF IsCsvRun
  <2> DEFINE l == m + n
  <2>2. IsRun(X, step, s, c, l, h) /\ l = m + n
      BY <2>1
  <2>3. AreFollowed(a, m, b, n, c)
      BY <1>1 DEF AreFollowed
  <2> HIDE DEF X, step, l
  <2>4. h[l] = g[n]
      BY <2>1, <2>2, <2>3, RunsFollow
  <2> QED BY <2>2, <2>4
<1> QED BY <1>3, <1>4, <1>5, <1>6 DEF IsCsvRun, c

\* The reader after one character.
LEMMA CsvOne ==
    ASSUME NEW s \in CsvStates, NEW c \in Character
    PROVE  CsvRun(s, <<c>>) = ReadCsvChar(s, c)
<1>1. <<c>> \in [1 .. 1 -> Character] /\ <<c>>[1] = c /\ 1 \in Nat
  <2>1. <<c>> \in Seq(Character) /\ Len(<<c>>) = 1 /\ <<c>>[1] = c
      BY SingleIs
  <2>2. <<c>> \in [1 .. Len(<<c>>) -> Character]
      BY <2>1, SequencesAre
  <2> QED BY <2>1, <2>2
<1>2. PICK h : IsCsvRun(s, <<c>>, 1, h)
    BY <1>1, CsvRunExists
<1>3. h[0] = s /\ CsvRun(s, <<c>>) = h[1]
    BY <1>2 DEF IsCsvRun
<1>4. h[1] = ReadCsvChar(h[0], c)
  <2>1. 1 \in 1 .. 1 /\ 1 - 1 = 0
      OBVIOUS
  <2> QED BY <1>1, <1>2, <2>1 DEF IsCsvRun
<1> QED BY <1>3, <1>4

\* The reader after none.
LEMMA CsvNone ==
    ASSUME NEW s \in CsvStates
    PROVE  CsvRun(s, <<>>) = s
<1>1. PICK g : IsCsvRun(s, <<>>, 0, g)
    BY NoPlaces, CsvRunExists
<1> QED BY <1>1 DEF IsCsvRun

\* The characters the writer puts in.
LEMMA CsvChars == "quote" \in Character /\ "comma" \in Character /\ "newline" \in Character
BY DEF Character

\* A state is made of a table, a row, a cell and a mode.
LEMMA CsvAtType ==
    ASSUME NEW rows \in Seq(Seq(Text)), NEW row \in Seq(Text), NEW cell \in Text,
           NEW mode \in {"open", "quoted", "closed"}
    PROVE  CsvAt(rows, row, cell, mode) \in CsvStates
BY DEF CsvAt, CsvStates

\* A cell without special characters is read as it is.
LEMMA PlainCell ==
    ASSUME NEW rows \in Seq(Seq(Text)), NEW row \in Seq(Text), NEW cell \in Text,
           \A i \in DOMAIN cell : cell[i] \notin Special
    PROVE  CsvRun(CsvAt(rows, row, <<>>, "open"), cell) = CsvAt(rows, row, cell, "open")
<1> DEFINE n == Len(cell)
           s == CsvAt(rows, row, <<>>, "open")
<1>1. n \in Nat /\ cell \in [1 .. n -> Character] /\ <<>> \in Text
    BY DEF Text
<1>2. s \in CsvStates
    BY <1>1, CsvAtType
<1>3. PICK h : IsCsvRun(s, cell, n, h)
    BY <1>1, <1>2, CsvRunExists
<1> HIDE DEF n
<1> DEFINE P == {k \in Nat : k <= n => h[k] = CsvAt(rows, row, SubSeq(cell, 1, k), "open")}
<1>4. 0 \in P
  <2>1. SubSeq(cell, 1, 0) = <<>> /\ h[0] = s
      BY <1>3 DEF IsCsvRun, Text
  <2> QED BY <2>1
<1>5. ASSUME NEW k \in Nat, k \in P PROVE k + 1 \in P
  <2>1. CASE k + 1 <= n
    <3>1. k + 1 \in 1 .. n /\ (k + 1) - 1 = k /\ k <= n /\ k + 1 \in Nat
        BY <1>1, <2>1
    <3>2. h[k] = CsvAt(rows, row, SubSeq(cell, 1, k), "open")
        BY <1>5, <3>1
    <3>3. /\ SubSeq(cell, 1, k) \in Text /\ cell[k + 1] \in Character
          /\ SubSeq(cell, 1, k + 1) = Append(SubSeq(cell, 1, k), cell[k + 1])
      <4>1. cell \in Seq(Character) /\ k + 1 \in 1 .. Len(cell)
          BY <3>1 DEF Text, n
      <4>2. \A j \in 1 .. Len(cell) :
                  /\ SubSeq(cell, 1, j - 1) \in Seq(Character) /\ cell[j] \in Character
                  /\ SubSeq(cell, 1, j) = Append(SubSeq(cell, 1, j - 1), cell[j])
          BY <4>1, PrefixGrows
      <4> QED BY <3>1, <4>1, <4>2 DEF Text
    <3>4. cell[k + 1] \notin Special
        BY <1>1, <3>1
    <3>5. h[k + 1] = ReadCsvChar(h[k], cell[k + 1])
        BY <1>3, <3>1 DEF IsCsvRun
    <3>6. h[k + 1] = CsvAt(rows, row, SubSeq(cell, 1, k + 1), "open")
      <4> DEFINE before == SubSeq(cell, 1, k)
                 c == cell[k + 1]
      <4>1. before \in Text /\ c \in Character /\ c \notin Special
          BY <3>3, <3>4
      <4> HIDE DEF before, c
      <4>2. ReadCsvChar(CsvAt(rows, row, before, "open"), c) =
              CsvAt(rows, row, Append(before, c), "open")
          BY <4>1, CsvSteps
      <4> QED BY <3>2, <3>3, <3>5, <4>2 DEF before, c
    <3> QED BY <3>1, <3>6
  <2>2. CASE ~(k + 1 <= n)
      BY <2>2
  <2> QED BY <2>1, <2>2
<1>6. h[n] = CsvAt(rows, row, cell, "open")
  <2>1. Nat \subseteq P
      BY <1>4, <1>5, NumberInduction
  <2>2. SubSeq(cell, 1, n) = cell
      BY DEF Text, n
  <2>3. n \in P
      BY <1>1, <2>1
  <2>4. h[n] = CsvAt(rows, row, SubSeq(cell, 1, n), "open")
      BY <1>1, <2>3
  <2> QED BY <2>2, <2>4
<1> QED BY <1>3, <1>6 DEF IsCsvRun

\* f[k] is what the first k characters are replaced by.
IsEscaped(text, c, by, n, f) ==
    /\ f \in [0 .. n -> Text] /\ f[0] = <<>>
    /\ \A k \in 1 .. n : f[k] = f[k - 1] \o (IF text[k] = c THEN by ELSE <<text[k]>>)
    /\ Replaced(text, c, by) = f[n]

\* Replacing characters goes from one to the next.
LEMMA ReplacedIs ==
    ASSUME NEW n \in Nat, NEW text \in [1 .. n -> Character], NEW c, NEW by \in Text
    PROVE  /\ \E f : IsEscaped(text, c, by, n, f)
           /\ Replaced(text, c, by) \in Text
<1> DEFINE parts == [i \in 1 .. n |-> IF text[i] = c THEN by ELSE <<text[i]>>]
<1>1. parts \in [1 .. n -> Text]
  <2>1. ASSUME NEW i \in 1 .. n PROVE <<text[i]>> \in Text
    <3>1. text[i] \in Character
        OBVIOUS
    <3> QED BY <3>1 DEF Text
  <2> QED BY <2>1
<1>2. DOMAIN text = 1 .. n
    OBVIOUS
<1>3. Replaced(text, c, by) = FlattenSeq(parts)
    BY <1>2 DEF Replaced
<1>4. PICK f : IsFlat(Character, parts, n, f)
    BY <1>1, FlatExists DEF Text
<1>5. IsEscaped(text, c, by, n, f)
  <2>1. ASSUME NEW k \in 1 .. n
        PROVE  f[k] = f[k - 1] \o (IF text[k] = c THEN by ELSE <<text[k]>>)
      BY <1>4 DEF IsFlat
  <2> QED BY <1>3, <1>4, <2>1 DEF IsFlat, IsEscaped, Text
<1>6. Replaced(text, c, by) \in Text
    BY <1>5 DEF IsEscaped
<1> QED BY <1>5, <1>6

\* Within quotes, a cell is read back from its doubled quotes.
LEMMA QuotedText ==
    ASSUME NEW rows \in Seq(Seq(Text)), NEW row \in Seq(Text), NEW cell \in Text
    PROVE  CsvRun(CsvAt(rows, row, <<>>, "quoted"), Replaced(cell, "quote", <<"quote", "quote">>))
                = CsvAt(rows, row, cell, "quoted")
<1> DEFINE n == Len(cell)
           by == <<"quote", "quote">>
           s == CsvAt(rows, row, <<>>, "quoted")
<1>1. n \in Nat /\ cell \in [1 .. n -> Character] /\ <<>> \in Text /\ by \in Text
  <2>1. by \in Seq(Character)
      BY CsvChars, PairIs
  <2> QED BY <2>1 DEF Text
<1>2. s \in CsvStates
    BY <1>1, CsvAtType
<1> HIDE DEF n
<1>3. PICK f : IsEscaped(cell, "quote", by, n, f)
    BY <1>1, ReplacedIs
<1> DEFINE P == {k \in Nat : k <= n => CsvRun(s, f[k]) = CsvAt(rows, row, SubSeq(cell, 1, k), "quoted")}
<1>4. 0 \in P
  <2>1. SubSeq(cell, 1, 0) = <<>> /\ f[0] = <<>>
      BY <1>3 DEF IsEscaped, Text
  <2>2. CsvRun(s, <<>>) = s
      BY <1>2, CsvNone
  <2> QED BY <2>1, <2>2
<1>5. ASSUME NEW k \in Nat, k \in P PROVE k + 1 \in P
  <2>1. CASE k + 1 <= n
    <3> DEFINE before == SubSeq(cell, 1, k)
               c == cell[k + 1]
               piece == IF c = "quote" THEN by ELSE <<c>>
               t == CsvAt(rows, row, before, "quoted")
    <3>1. k + 1 \in 1 .. n /\ (k + 1) - 1 = k /\ k <= n /\ k + 1 \in Nat /\ k \in 0 .. n
        BY <1>1, <2>1
    <3>2. CsvRun(s, f[k]) = t
        BY <1>5, <3>1
    <3>3. before \in Text /\ c \in Character /\ SubSeq(cell, 1, k + 1) = Append(before, c)
      <4>1. cell \in Seq(Character) /\ k + 1 \in 1 .. Len(cell)
          BY <3>1 DEF Text, n
      <4>2. \A j \in 1 .. Len(cell) :
                  /\ SubSeq(cell, 1, j - 1) \in Seq(Character) /\ cell[j] \in Character
                  /\ SubSeq(cell, 1, j) = Append(SubSeq(cell, 1, j - 1), cell[j])
          BY <4>1, PrefixGrows
      <4> QED BY <3>1, <4>1, <4>2 DEF Text
    <3>4. f[k + 1] = f[k] \o piece /\ f[k] \in Text
        BY <1>3, <3>1 DEF IsEscaped
    <3> HIDE DEF before, c
    <3>5. piece \in Text /\ t \in CsvStates
      <4>1. <<c>> \in Text
          BY <3>3, SingleIs DEF Text
      <4> QED BY <1>1, <3>3, <4>1, CsvAtType
    <3>6. CsvRun(s, f[k + 1]) = CsvRun(t, piece)
      <4>1. CsvRun(s, f[k] \o piece) = CsvRun(CsvRun(s, f[k]), piece)
          BY <1>2, <3>4, <3>5, CsvConcat
      <4> QED BY <3>2, <3>4, <4>1
    <3>7. CsvRun(t, piece) = CsvAt(rows, row, Append(before, c), "quoted")
      <4>1. CASE c # "quote"
        <5>1. CsvRun(t, <<c>>) = ReadCsvChar(t, c)
            BY <3>3, <3>5, CsvOne
        <5>2. ReadCsvChar(t, c) = CsvAt(rows, row, Append(before, c), "quoted")
            BY <3>3, <4>1, CsvSteps
        <5> QED BY <4>1, <5>1, <5>2
      <4>2. CASE c = "quote"
        <5> DEFINE u == CsvAt(rows, row, before, "closed")
        <5>1. u \in CsvStates /\ <<"quote">> \in Text
            BY <3>3, SingleIs, CsvChars, CsvAtType DEF Text
        <5>2. by = <<"quote">> \o <<"quote">>
            BY CsvChars, PairIsBoth
        <5>3. CsvRun(t, by) = CsvRun(CsvRun(t, <<"quote">>), <<"quote">>)
          <6> DEFINE q == <<"quote">>
          <6>1. q \in Text /\ by = q \o q /\ t \in CsvStates
              BY <3>5, <5>1, <5>2
          <6> HIDE DEF q, t, by
          <6>2. CsvRun(t, q \o q) = CsvRun(CsvRun(t, q), q)
              BY <6>1, CsvConcat
          <6>3. CsvRun(t, by) = CsvRun(CsvRun(t, q), q)
              BY <6>1, <6>2
          <6> QED BY <6>3 DEF q
        <5>4. CsvRun(t, <<"quote">>) = ReadCsvChar(t, "quote")
            BY <3>5, CsvChars, CsvOne
        <5>5. ReadCsvChar(t, "quote") = u
            BY <3>3, CsvSteps
        <5>6. CsvRun(u, <<"quote">>) = ReadCsvChar(u, "quote")
            BY <5>1, CsvChars, CsvOne
        <5>7. ReadCsvChar(u, "quote") = CsvAt(rows, row, Append(before, "quote"), "quoted")
            BY <3>3, CsvSteps
        <5> HIDE DEF u, t
        <5> QED BY <4>2, <5>3, <5>4, <5>5, <5>6, <5>7
      <4> QED BY <4>1, <4>2
    <3>8. CsvRun(s, f[k + 1]) = CsvAt(rows, row, SubSeq(cell, 1, k + 1), "quoted")
        BY <3>3, <3>6, <3>7
    <3> QED BY <3>1, <3>8
  <2>2. CASE ~(k + 1 <= n)
      BY <2>2
  <2> QED BY <2>1, <2>2
<1>6. CsvRun(s, f[n]) = CsvAt(rows, row, cell, "quoted")
  <2>1. Nat \subseteq P
      BY <1>4, <1>5, NumberInduction
  <2>2. SubSeq(cell, 1, n) = cell
      BY DEF Text, n
  <2>3. n \in P
      BY <1>1, <2>1
  <2>4. CsvRun(s, f[n]) = CsvAt(rows, row, SubSeq(cell, 1, n), "quoted")
      BY <1>1, <2>3
  <2> QED BY <2>2, <2>4
<1> QED BY <1>3, <1>6 DEF IsEscaped

\* What becomes of a reader by a cell it reads at the beginning of one.
IsCellRead(rows, row, cell, text) ==
    /\ text \in Text
    /\ \E mode \in {"open", "closed"} :
        CsvRun(CsvAt(rows, row, <<>>, "open"), text) = CsvAt(rows, row, cell, mode)

\* Whatever is in a cell, a reader gets it back (escapeCsv).
LEMMA CellReadsBack ==
    ASSUME NEW rows \in Seq(Seq(Text)), NEW row \in Seq(Text), NEW cell \in Text
    PROVE  IsCellRead(rows, row, cell, EscapeCsv(cell))
<1> DEFINE s == CsvAt(rows, row, <<>>, "open")
           quote == <<"quote">>
           inner == Replaced(cell, "quote", <<"quote", "quote">>)
<1>1. CASE Range(cell) \cap Special = {}
  <2>1. \A i \in DOMAIN cell : cell[i] \notin Special
      BY <1>1 DEF Range
  <2>2. CsvRun(s, cell) = CsvAt(rows, row, cell, "open")
      BY <2>1, PlainCell
  <2>3. EscapeCsv(cell) = cell
      BY <1>1 DEF EscapeCsv
  <2> QED BY <2>2, <2>3 DEF IsCellRead
<1>2. CASE Range(cell) \cap Special # {}
  <2>1. EscapeCsv(cell) = (quote \o inner) \o quote
      BY <1>2 DEF EscapeCsv
  <2>2. quote \in Text /\ <<>> \in Text
      BY CsvChars, SingleIs DEF Text
  <2>3. inner \in Text
    <3>1. Len(cell) \in Nat /\ cell \in [1 .. Len(cell) -> Character] /\ <<"quote", "quote">> \in Text
        BY CsvChars, PairIs DEF Text
    <3> QED BY <3>1, ReplacedIs
  <2>4. quote \o inner \in Text
      BY <2>2, <2>3, Concats DEF Text
  <2>5. (quote \o inner) \o quote \in Text
      BY <2>2, <2>4, Concats DEF Text
  <2> DEFINE t == CsvAt(rows, row, <<>>, "quoted")
             u == CsvAt(rows, row, cell, "quoted")
  <2>6. s \in CsvStates /\ t \in CsvStates /\ u \in CsvStates
      BY <2>2, CsvAtType
  <2>7. CsvRun(t, inner) = u
      BY QuotedText
  <2>8. CsvRun(s, quote) = t
    <3>1. CsvRun(s, quote) = ReadCsvChar(s, "quote")
        BY <2>6, CsvChars, CsvOne
    <3>2. ReadCsvChar(s, "quote") = t
        BY <2>2, CsvChars, CsvSteps
    <3> QED BY <3>1, <3>2
  <2>9. CsvRun(u, quote) = CsvAt(rows, row, cell, "closed")
    <3>1. CsvRun(u, quote) = ReadCsvChar(u, "quote")
        BY <2>6, CsvChars, CsvOne
    <3>2. ReadCsvChar(u, "quote") = CsvAt(rows, row, cell, "closed")
        BY CsvChars, CsvSteps
    <3> QED BY <3>1, <3>2
  <2> HIDE DEF s, t, u, quote, inner
  <2>10. CsvRun(s, quote \o inner) = u
      BY <2>2, <2>3, <2>6, <2>7, <2>8, CsvConcat
  <2>11. CsvRun(s, (quote \o inner) \o quote) = CsvAt(rows, row, cell, "closed")
      BY <2>2, <2>4, <2>6, <2>9, <2>10, CsvConcat
  <2> QED BY <2>1, <2>5, <2>11 DEF IsCellRead, s
<1> QED BY <1>1, <1>2

\* A character and what follows it.
LEMMA CsvPiece ==
    ASSUME NEW s \in CsvStates, NEW c \in Character, NEW p \in Text
    PROVE  <<c>> \o p \in Text /\ CsvRun(s, <<c>> \o p) = CsvRun(ReadCsvChar(s, c), p)
<1> DEFINE q == <<c>>
<1>1. q \in Text
    BY SingleIs DEF Text
<1>2. CsvRun(s, q) = ReadCsvChar(s, c)
    BY CsvOne
<1> HIDE DEF q
<1>3. q \o p \in Text
    BY <1>1, Concats DEF Text
<1>4. CsvRun(s, q \o p) = CsvRun(CsvRun(s, q), p)
    BY <1>1, CsvConcat
<1> QED BY <1>2, <1>3, <1>4 DEF q

\* A reader who has come to the k-th cell of a row, and to the end of a row.
IsRowRead(rows, cells, k, text) ==
    /\ text \in Text
    /\ \E mode \in {"open", "closed"} :
        CsvRun(CsvAt(rows, <<>>, <<>>, "open"), text) =
            CsvAt(rows, SubSeq(cells, 1, k - 1), cells[k], mode)

\* The line of a row.
RowText(cells) == Joined([k \in DOMAIN cells |-> EscapeCsv(cells[k])], "comma")

\* A row is read back from its line.
LEMMA RowReadsBack ==
    ASSUME NEW rows \in Seq(Seq(Text)), NEW cells \in Seq(Text), Len(cells) > 0
    PROVE  IsRowRead(rows, cells, Len(cells), RowText(cells))
<1> DEFINE n == Len(cells)
           parts == [k \in DOMAIN cells |-> EscapeCsv(cells[k])]
<1>1. n \in Nat \ {0} /\ cells \in [1 .. n -> Text] /\ DOMAIN cells = 1 .. n
    OBVIOUS
<1> HIDE DEF n
<1>2. <<>> \in Text /\ <<>> \in Seq(Text)
    BY DEF Text
<1>3. parts \in [1 .. n -> Text]
  <2>1. ASSUME NEW k \in 1 .. n PROVE EscapeCsv(cells[k]) \in Text
    <3>1. cells[k] \in Text
        BY <1>1
    <3> QED BY <1>2, <3>1, CellReadsBack DEF IsCellRead
  <2> QED BY <1>1, <2>1
<1>4. PICK g : IsJoined(Character, parts, "comma", n, g)
  <2>1. \A k \in 1 .. n : parts[k] \in Seq(Character)
      BY <1>3 DEF Text
  <2>2. parts \in [1 .. n -> Seq(Character)]
      BY <1>3 DEF Text
  <2> HIDE DEF parts
  <2> QED BY <1>1, <2>2, CsvChars, JoinedExists
<1> DEFINE s == CsvAt(rows, <<>>, <<>>, "open")
           P == {k \in Nat : k + 1 <= n => IsRowRead(rows, cells, k + 1, g[k + 1])}
<1>5. s \in CsvStates
    BY <1>2, CsvAtType
<1>6. 0 \in P
  <2>1. g[1] = EscapeCsv(cells[1]) /\ cells[1] \in Text
      BY <1>1, <1>4 DEF IsJoined
  <2>2. IsCellRead(rows, <<>>, cells[1], EscapeCsv(cells[1]))
      BY <1>2, <2>1, CellReadsBack
  <2>3. SubSeq(cells, 1, 1 - 1) = <<>>
      OBVIOUS
  <2>4. IsRowRead(rows, cells, 1, g[1])
      BY <2>1, <2>2, <2>3 DEF IsCellRead, IsRowRead
  <2> QED BY <2>4
<1>7. ASSUME NEW k \in Nat, k \in P PROVE k + 1 \in P
  <2>1. CASE (k + 1) + 1 <= n
    <3> DEFINE before == SubSeq(cells, 1, k)
               row == SubSeq(cells, 1, k + 1)
               p == EscapeCsv(cells[k + 2])
    <3>1. /\ k + 1 \in 1 .. n /\ k + 2 \in 2 .. n /\ k + 2 \in 1 .. n /\ k + 1 <= n
          /\ (k + 1) - 1 = k /\ (k + 2) - 1 = k + 1 /\ (k + 1) + 1 = k + 2
        BY <1>1, <2>1
    <3>2. PICK mode \in {"open", "closed"} :
            CsvRun(s, g[k + 1]) = CsvAt(rows, before, cells[k + 1], mode)
        BY <1>7, <3>1 DEF IsRowRead
    <3>3. g[k + 2] = g[k + 1] \o (<<"comma">> \o p)
        BY <1>1, <1>4, <3>1 DEF IsJoined
    <3>4. /\ before \in Seq(Text) /\ cells[k + 1] \in Text
          /\ row \in Seq(Text) /\ cells[k + 2] \in Text
          /\ row = Append(before, cells[k + 1])
      <4>1. \A j \in 1 .. Len(cells) :
                  /\ SubSeq(cells, 1, j - 1) \in Seq(Text) /\ cells[j] \in Text
                  /\ SubSeq(cells, 1, j) = Append(SubSeq(cells, 1, j - 1), cells[j])
          BY PrefixGrows
      <4> QED BY <3>1, <4>1 DEF n
    <3>5. p \in Text /\ g[k + 1] \in Text
        BY <1>3, <1>4, <3>1 DEF IsJoined, Text
    <3>6. PICK next \in {"open", "closed"} :
            CsvRun(CsvAt(rows, row, <<>>, "open"), p) = CsvAt(rows, row, cells[k + 2], next)
      <4>1. IsCellRead(rows, row, cells[k + 2], p)
          BY <3>4, CellReadsBack
      <4> QED BY <4>1 DEF IsCellRead
    <3> DEFINE here == CsvAt(rows, before, cells[k + 1], mode)
               comma == <<"comma">>
    <3>7. here \in CsvStates
        BY <3>4, CsvAtType
    <3>8. ReadCsvChar(here, "comma") = CsvAt(rows, row, <<>>, "open")
      <4>1. ReadCsvChar(here, "comma") = CsvAt(rows, Append(before, cells[k + 1]), <<>>, "open")
          BY <3>4, CsvChars, CsvSteps, ZenonT(30)
      <4> QED BY <3>4, <4>1
    <3> HIDE DEF here, p, before, row, s
    <3>9. comma \o p \in Text /\ CsvRun(here, comma \o p) = CsvRun(ReadCsvChar(here, "comma"), p)
        BY <3>5, <3>7, CsvChars, CsvPiece
    <3> HIDE DEF comma
    <3>10. /\ g[k + 1] \o (comma \o p) \in Text
           /\ CsvRun(s, g[k + 1] \o (comma \o p)) = CsvRun(CsvRun(s, g[k + 1]), comma \o p)
      <4> DEFINE q == comma \o p
      <4>1. q \in Text
          BY <3>9
      <4> HIDE DEF q
      <4>2. g[k + 1] \o q \in Text
          BY <3>5, <4>1, Concats DEF Text
      <4>3. CsvRun(s, g[k + 1] \o q) = CsvRun(CsvRun(s, g[k + 1]), q)
          BY <1>5, <3>5, <4>1, CsvConcat
      <4> QED BY <4>2, <4>3 DEF q
    <3>11. CsvRun(s, g[k + 2]) = CsvAt(rows, row, cells[k + 2], next) /\ g[k + 2] \in Text
        BY <3>2, <3>3, <3>6, <3>8, <3>9, <3>10 DEF here, comma
    <3>12. IsRowRead(rows, cells, k + 2, g[k + 2])
        BY <3>1, <3>11 DEF IsRowRead, s, row
    <3>13. k + 1 \in Nat
        OBVIOUS
    <3> QED BY <3>1, <3>12, <3>13
  <2>2. CASE ~((k + 1) + 1 <= n)
      BY <2>2
  <2> QED BY <2>1, <2>2
<1>8. IsRowRead(rows, cells, n, g[n])
  <2>1. Nat \subseteq P
      BY <1>6, <1>7, NumberInduction
  <2>2. n - 1 \in Nat /\ (n - 1) + 1 = n
      BY <1>1
  <2>3. n - 1 \in P
      BY <2>1, <2>2
  <2> QED BY <1>1, <2>2, <2>3
<1>9. RowText(cells) = g[n]
    BY <1>4 DEF IsJoined, RowText
<1> QED BY <1>8, <1>9 DEF n

\* A reader who has come to the end of the n-th row of a table.
IsTableRead(rows, n, text) ==
    /\ text \in Text
    /\ \E mode \in {"open", "closed"} :
        CsvRun(CsvAt(<<>>, <<>>, <<>>, "open"), text) =
            CsvAt(SubSeq(rows, 1, n - 1), SubSeq(rows[n], 1, Len(rows[n]) - 1),
                  rows[n][Len(rows[n])], mode)

\* The end of a row, whose last cell the reader is in, ends both.
LEMMA RowEnds ==
    ASSUME NEW rows \in Seq(Seq(Text)), NEW cells \in Seq(Text), Len(cells) > 0,
           NEW mode \in {"open", "closed"}
    PROVE  LET s == CsvAt(rows, SubSeq(cells, 1, Len(cells) - 1), cells[Len(cells)], mode)
           IN /\ s \in CsvStates
              /\ ReadCsvChar(s, "newline") = CsvAt(Append(rows, cells), <<>>, <<>>, "open")
              /\ EndRow(s).rows = Append(rows, cells)
<1> DEFINE n == Len(cells)
           before == SubSeq(cells, 1, n - 1)
           last == cells[n]
<1>1. before \in Seq(Text) /\ last \in Text /\ Append(before, last) = cells
  <2>1. n \in 1 .. Len(cells) /\ SubSeq(cells, 1, Len(cells)) = cells
      OBVIOUS
  <2>2. \A j \in 1 .. Len(cells) :
              /\ SubSeq(cells, 1, j - 1) \in Seq(Text) /\ cells[j] \in Text
              /\ SubSeq(cells, 1, j) = Append(SubSeq(cells, 1, j - 1), cells[j])
      BY PrefixGrows
  <2> QED BY <2>1, <2>2
<1> HIDE DEF before, last
<1>2. CsvAt(rows, before, last, mode) \in CsvStates
    BY <1>1, CsvAtType
<1>3. ReadCsvChar(CsvAt(rows, before, last, mode), "newline") =
        CsvAt(Append(rows, Append(before, last)), <<>>, <<>>, "open")
    BY <1>1, CsvChars, CsvSteps, ZenonT(30)
<1>4. EndRow(CsvAt(rows, before, last, mode)).rows = Append(rows, Append(before, last))
    BY DEF CsvAt, EndRow, EndCell
<1> QED BY <1>1, <1>2, <1>3, <1>4 DEF before, last

\* The rows are read back one after the other.
LEMMA TableReads ==
    ASSUME NEW rows \in Seq(Seq(Text)), Len(rows) > 0, \A n \in DOMAIN rows : Len(rows[n]) > 0
    PROVE  IsTableRead(rows, Len(rows), ToCsv(rows))
<1> DEFINE n == Len(rows)
           parts == [k \in DOMAIN rows |-> RowText(rows[k])]
<1>1. n \in Nat \ {0} /\ rows \in [1 .. n -> Seq(Text)] /\ DOMAIN rows = 1 .. n
    OBVIOUS
<1> HIDE DEF n
<1>2. <<>> \in Text /\ <<>> \in Seq(Text) /\ <<>> \in Seq(Seq(Text))
    BY DEF Text
<1>3. parts \in [1 .. n -> Seq(Character)]
  <2>1. ASSUME NEW k \in 1 .. n PROVE RowText(rows[k]) \in Text
    <3>1. rows[k] \in Seq(Text) /\ Len(rows[k]) > 0
        BY <1>1
    <3>2. IsRowRead(<<>>, rows[k], Len(rows[k]), RowText(rows[k]))
        BY <1>2, <3>1, RowReadsBack
    <3> QED BY <3>2 DEF IsRowRead
  <2> QED BY <1>1, <2>1 DEF Text
<1>4. PICK g : IsJoined(Character, parts, "newline", n, g)
  <2> HIDE DEF parts
  <2> QED BY <1>1, <1>3, CsvChars, JoinedExists
<1> DEFINE s == CsvAt(<<>>, <<>>, <<>>, "open")
           P == {k \in Nat : k + 1 <= n => IsTableRead(rows, k + 1, g[k + 1])}
<1>5. s \in CsvStates
    BY <1>2, CsvAtType
<1>6. 0 \in P
  <2>1. g[1] = RowText(rows[1]) /\ rows[1] \in Seq(Text) /\ Len(rows[1]) > 0
      BY <1>1, <1>4 DEF IsJoined
  <2>2. IsRowRead(<<>>, rows[1], Len(rows[1]), RowText(rows[1]))
      BY <1>2, <2>1, RowReadsBack
  <2>3. SubSeq(rows, 1, 1 - 1) = <<>>
      OBVIOUS
  <2>4. IsTableRead(rows, 1, g[1])
      BY <2>1, <2>2, <2>3 DEF IsRowRead, IsTableRead
  <2> QED BY <2>4
<1>7. ASSUME NEW k \in Nat, k \in P PROVE k + 1 \in P
  <2>1. CASE (k + 1) + 1 <= n
    <3> DEFINE before == SubSeq(rows, 1, k)
               done == SubSeq(rows, 1, k + 1)
               here == rows[k + 1]
               after == rows[k + 2]
               p == RowText(after)
    <3>1. /\ k + 1 \in 1 .. n /\ k + 2 \in 2 .. n /\ k + 2 \in 1 .. n /\ k + 1 <= n
          /\ (k + 1) - 1 = k /\ (k + 2) - 1 = k + 1 /\ (k + 1) + 1 = k + 2
        BY <1>1, <2>1
    <3>2. PICK mode \in {"open", "closed"} :
            CsvRun(s, g[k + 1]) =
                CsvAt(before, SubSeq(here, 1, Len(here) - 1), here[Len(here)], mode)
        BY <1>7, <3>1 DEF IsTableRead
    <3>3. g[k + 2] = g[k + 1] \o (<<"newline">> \o p)
        BY <1>1, <1>4, <3>1 DEF IsJoined
    <3>4. /\ before \in Seq(Seq(Text)) /\ here \in Seq(Text) /\ Len(here) > 0
          /\ done \in Seq(Seq(Text)) /\ after \in Seq(Text) /\ Len(after) > 0
          /\ done = Append(before, here)
      <4>1. \A j \in 1 .. Len(rows) :
                  /\ SubSeq(rows, 1, j - 1) \in Seq(Seq(Text)) /\ rows[j] \in Seq(Text)
                  /\ SubSeq(rows, 1, j) = Append(SubSeq(rows, 1, j - 1), rows[j])
          BY PrefixGrows
      <4> QED BY <1>1, <3>1, <4>1 DEF n
    <3>5. p \in Text /\ g[k + 1] \in Text
        BY <1>1, <1>3, <1>4, <3>1 DEF IsJoined, Text
    <3>6. PICK next \in {"open", "closed"} :
            CsvRun(CsvAt(done, <<>>, <<>>, "open"), p) =
                CsvAt(done, SubSeq(after, 1, Len(after) - 1), after[Len(after)], next)
      <4>1. IsRowRead(done, after, Len(after), p)
          BY <3>4, RowReadsBack
      <4> QED BY <4>1 DEF IsRowRead
    <3> DEFINE t == CsvAt(before, SubSeq(here, 1, Len(here) - 1), here[Len(here)], mode)
               newline == <<"newline">>
    <3>7. t \in CsvStates /\ ReadCsvChar(t, "newline") = CsvAt(done, <<>>, <<>>, "open")
      <4> HIDE DEF before, here, done
      <4>1. t \in CsvStates
          BY <3>4, RowEnds
      <4>2. ReadCsvChar(t, "newline") = CsvAt(Append(before, here), <<>>, <<>>, "open")
          BY <3>4, RowEnds
      <4> QED BY <3>4, <4>1, <4>2
    <3> HIDE DEF t, p, before, done, s
    <3>8. newline \o p \in Text /\ CsvRun(t, newline \o p) = CsvRun(ReadCsvChar(t, "newline"), p)
        BY <3>5, <3>7, CsvChars, CsvPiece
    <3> HIDE DEF newline
    <3>9. /\ g[k + 1] \o (newline \o p) \in Text
          /\ CsvRun(s, g[k + 1] \o (newline \o p)) = CsvRun(CsvRun(s, g[k + 1]), newline \o p)
      <4> DEFINE q == newline \o p
      <4>1. q \in Text
          BY <3>8
      <4> HIDE DEF q
      <4>2. g[k + 1] \o q \in Text
          BY <3>5, <4>1, Concats DEF Text
      <4>3. CsvRun(s, g[k + 1] \o q) = CsvRun(CsvRun(s, g[k + 1]), q)
          BY <1>5, <3>5, <4>1, CsvConcat
      <4> QED BY <4>2, <4>3 DEF q
    <3>10. /\ CsvRun(s, g[k + 2]) =
                CsvAt(done, SubSeq(after, 1, Len(after) - 1), after[Len(after)], next)
           /\ g[k + 2] \in Text
        BY <3>2, <3>3, <3>6, <3>7, <3>8, <3>9 DEF t, newline
    <3>11. IsTableRead(rows, k + 2, g[k + 2])
        BY <3>1, <3>10 DEF IsTableRead, s, done
    <3>12. k + 1 \in Nat
        OBVIOUS
    <3> QED BY <3>1, <3>11, <3>12
  <2>2. CASE ~((k + 1) + 1 <= n)
      BY <2>2
  <2> QED BY <2>1, <2>2
<1>8. IsTableRead(rows, n, g[n])
  <2>1. Nat \subseteq P
      BY <1>6, <1>7, NumberInduction
  <2>2. n - 1 \in Nat /\ (n - 1) + 1 = n
      BY <1>1
  <2>3. n - 1 \in P
      BY <2>1, <2>2
  <2> QED BY <1>1, <2>2, <2>3
<1>9. ToCsv(rows) = g[n]
    BY <1>4 DEF IsJoined, RowText, ToCsv
<1> QED BY <1>8, <1>9 DEF n

\* Whatever a table is made of, a reader of its CSV gets it back (toCsv).
LEMMA TableReadsBack ==
    ASSUME NEW rows \in Seq(Seq(Text)), Len(rows) > 0, \A n \in DOMAIN rows : Len(rows[n]) > 0
    PROVE  ReadCsv(ToCsv(rows)) = rows
<1> DEFINE n == Len(rows)
           before == SubSeq(rows, 1, n - 1)
           last == rows[n]
<1>1. PICK mode \in {"open", "closed"} :
        CsvRun(CsvAt(<<>>, <<>>, <<>>, "open"), ToCsv(rows)) =
            CsvAt(before, SubSeq(last, 1, Len(last) - 1), last[Len(last)], mode)
    BY TableReads DEF IsTableRead
<1>2. before \in Seq(Seq(Text)) /\ last \in Seq(Text) /\ Append(before, last) = rows /\ Len(last) > 0
  <2>1. n \in 1 .. Len(rows) /\ SubSeq(rows, 1, Len(rows)) = rows /\ n \in DOMAIN rows
      OBVIOUS
  <2>2. \A j \in 1 .. Len(rows) :
              /\ SubSeq(rows, 1, j - 1) \in Seq(Seq(Text)) /\ rows[j] \in Seq(Text)
              /\ SubSeq(rows, 1, j) = Append(SubSeq(rows, 1, j - 1), rows[j])
      BY PrefixGrows
  <2> QED BY <2>1, <2>2
<1> HIDE DEF before, last
<1>3. EndRow(CsvAt(before, SubSeq(last, 1, Len(last) - 1), last[Len(last)], mode)).rows = rows
    BY <1>2, RowEnds
<1>4. CsvStart = CsvAt(<<>>, <<>>, <<>>, "open")
    BY DEF CsvStart, CsvAt
<1> QED BY <1>1, <1>3, <1>4 DEF ReadCsv, CsvRun

(***************************************************************************)
(* XML: the reader, and the escaping it undoes.                            *)
(***************************************************************************)
XmlStates == [text : Text, entity : BOOLEAN]

\* A state of the reader of XML.
XmlAt(text, entity) == [text |-> text, entity |-> entity]

\* The reader after a text.
XmlRun(s, text) == FoldLeft(ReadXmlChar, s, text)

\* The list of the elements of a set of one, and of none.
LEMMA ListOfOne ==
    ASSUME NEW x
    PROVE  SetToSeq({x}) = <<x>>
<1> DEFINE f == [i \in 1 .. 1 |-> x]
<1>1. Cardinality({x}) = 1
    BY FS_Singleton
<1>2. f \in [1 .. 1 -> {x}] /\ IsInjective(f)
    BY DEF IsInjective
<1>3. \A g \in [1 .. 1 -> {x}] : g = f
    OBVIOUS
<1>4. SetToSeq({x}) = CHOOSE g \in [1 .. 1 -> {x}] : IsInjective(g)
    BY <1>1 DEF SetToSeq
<1>5. SetToSeq({x}) = f
  <2> HIDE DEF f
  <2> QED BY <1>2, <1>3, <1>4
<1>6. f = <<x>>
  <2>1. f \in Seq({x}) /\ Len(f) = 1 /\ f[1] = x
      OBVIOUS
  <2>2. <<x>> \in Seq({x}) /\ Len(<<x>>) = 1 /\ <<x>>[1] = x
      BY SingleIs
  <2>3. \A i \in 1 .. Len(f) : f[i] = <<x>>[i]
      BY <2>1, <2>2
  <2> HIDE DEF f
  <2> QED BY <2>1, <2>2, <2>3, SameSequences
<1> QED BY <1>5, <1>6

\* There is nothing to list.
LEMMA ListOfNone == SetToSeq({}) = <<>>
<1>1. Cardinality({}) = 0
    BY FS_EmptySet
<1>2. SetToSeq({}) = CHOOSE g \in [1 .. 0 -> {}] : IsInjective(g)
    BY <1>1 DEF SetToSeq
<1>3. <<>> \in [1 .. 0 -> {}]
    BY NoPlaces
<1>4. \A g \in [1 .. 0 -> {}] : g = <<>> /\ IsInjective(g)
  <2>1. ASSUME NEW g \in [1 .. 0 -> {}] PROVE g = <<>> /\ IsInjective(g)
    <3>1. 1 .. 0 = {} /\ DOMAIN g = {}
        OBVIOUS
    <3>2. IsInjective(g)
        BY <3>1 DEF IsInjective
    <3>3. g = <<>>
        BY <1>3
    <3> QED BY <3>2, <3>3
  <2> QED BY <2>1
<1> QED BY <1>2, <1>3, <1>4

\* The names of the entities, and the characters they stand for.
LEMMA EntitiesAre ==
    /\ Range(Markup) = {"&", "<", ">", "quote", "'"}
    /\ Entity("&") = <<"&", "amp;">> /\ Entity("<") = <<"&", "lt;">>
    /\ Entity(">") = <<"&", "gt;">> /\ Entity("quote") = <<"&", "quot;">>
    /\ Entity("'") = <<"&", "apos;">>
<1>1. DOMAIN Markup = {1, 2, 3, 4, 5}
    BY DEF Markup
<1>2. /\ Markup[1] = "&" /\ Markup[2] = "<" /\ Markup[3] = ">"
      /\ Markup[4] = "quote" /\ Markup[5] = "'"
    BY DEF Markup
<1>3. Range(Markup) = {"&", "<", ">", "quote", "'"}
    BY <1>1, <1>2 DEF Range
<1>4. /\ EntityNames[1] = "amp;" /\ EntityNames[2] = "lt;" /\ EntityNames[3] = "gt;"
      /\ EntityNames[4] = "quot;" /\ EntityNames[5] = "apos;"
    BY DEF EntityNames
<1>5. ASSUME NEW j \in {1, 2, 3, 4, 5} PROVE Entity(Markup[j]) = <<"&", EntityNames[j]>>
  <2>1. \A i \in DOMAIN Markup : Markup[i] = Markup[j] => i = j
      BY <1>1, <1>2
  <2>2. (CHOOSE i \in DOMAIN Markup : Markup[i] = Markup[j]) = j
      BY <1>1, <2>1
  <2> QED BY <2>2 DEF Entity
<1> QED BY <1>2, <1>3, <1>4, <1>5, Zenon

\* The character an entity stands for, if it is known.
LEMMA EntityMeans ==
    ASSUME NEW c \in Character
    PROVE  LET meant == {d \in Range(Markup) : Entity(d) = <<"&", c>>}
           IN /\ c = "amp;" => meant = {"&"}
              /\ c = "lt;" => meant = {"<"}
              /\ c = "gt;" => meant = {">"}
              /\ c = "quot;" => meant = {"quote"}
              /\ c = "apos;" => meant = {"'"}
              /\ c \notin {"amp;", "lt;", "gt;", "quot;", "apos;"} => meant = {}
<1> DEFINE meant == {d \in Range(Markup) : Entity(d) = <<"&", c>>}
<1>1. \A a, b : <<"&", a>> = <<"&", b>> <=> a = b
    OBVIOUS
<1>2. Entity("&") = <<"&", c>> <=> c = "amp;"
    BY <1>1, EntitiesAre, Zenon
<1>3. Entity("<") = <<"&", c>> <=> c = "lt;"
    BY <1>1, EntitiesAre, Zenon
<1>4. Entity(">") = <<"&", c>> <=> c = "gt;"
    BY <1>1, EntitiesAre, Zenon
<1>5. Entity("quote") = <<"&", c>> <=> c = "quot;"
    BY <1>1, EntitiesAre, Zenon
<1>6. Entity("'") = <<"&", c>> <=> c = "apos;"
    BY <1>1, EntitiesAre, Zenon
<1>7. \A d : d \in meant <=>
        \/ d = "&" /\ c = "amp;"
        \/ d = "<" /\ c = "lt;"
        \/ d = ">" /\ c = "gt;"
        \/ d = "quote" /\ c = "quot;"
        \/ d = "'" /\ c = "apos;"
  <2>1. \A d : d \in meant <=>
          d \in {"&", "<", ">", "quote", "'"} /\ Entity(d) = <<"&", c>>
      BY EntitiesAre, Zenon
  <2> HIDE DEF meant
  <2>2. \A d : d \in {"&", "<", ">", "quote", "'"} <=>
              d = "&" \/ d = "<" \/ d = ">" \/ d = "quote" \/ d = "'"
      OBVIOUS
  <2> QED BY <1>2, <1>3, <1>4, <1>5, <1>6, <2>1, <2>2, Zenon
<1> HIDE DEF meant
<1>8. /\ c = "amp;" => meant = {"&"}
      /\ c = "lt;" => meant = {"<"}
      /\ c = "gt;" => meant = {">"}
      /\ c = "quot;" => meant = {"quote"}
      /\ c = "apos;" => meant = {"'"}
      /\ c \notin {"amp;", "lt;", "gt;", "quot;", "apos;"} => meant = {}
    BY <1>7, Zenon
<1> QED BY <1>8, Zenon DEF meant

\* What the reader makes of a character.
LEMMA XmlSteps ==
    ASSUME NEW text \in Text, NEW entity \in BOOLEAN
    PROVE  /\ ReadXmlChar(XmlAt(text, entity), "&") = XmlAt(text, TRUE)
           /\ ReadXmlChar(XmlAt(text, entity), "<") = XmlAt(text, entity)
           /\ \A c \in Character : c \notin {"&", "<"} =>
                ReadXmlChar(XmlAt(text, FALSE), c) = XmlAt(Append(text, c), FALSE)
           /\ \A c \in Character : c \notin {"&", "<"} =>
                ReadXmlChar(XmlAt(text, TRUE), c) =
                    XmlAt(text \o SetToSeq({d \in Range(Markup) : Entity(d) = <<"&", c>>}), FALSE)
<1>1. ReadXmlChar(XmlAt(text, entity), "&") = XmlAt(text, TRUE)
    BY DEF ReadXmlChar, XmlAt
<1>2. ReadXmlChar(XmlAt(text, entity), "<") = XmlAt(text, entity)
    BY DEF ReadXmlChar, XmlAt
<1>3. ASSUME NEW c \in Character, c \notin {"&", "<"}
      PROVE  ReadXmlChar(XmlAt(text, FALSE), c) = XmlAt(Append(text, c), FALSE)
    BY <1>3 DEF ReadXmlChar, XmlAt
<1>4. ASSUME NEW c \in Character, c \notin {"&", "<"}
      PROVE  ReadXmlChar(XmlAt(text, TRUE), c) =
                XmlAt(text \o SetToSeq({d \in Range(Markup) : Entity(d) = <<"&", c>>}), FALSE)
    BY <1>4 DEF ReadXmlChar, XmlAt
<1> QED BY <1>1, <1>2, <1>3, <1>4

\* What XML escapes, and the names it writes for it, are characters.
LEMMA MarkupChars ==
    /\ Range(Markup) \subseteq Character
    /\ {"amp;", "lt;", "gt;", "quot;", "apos;"} \subseteq Character
BY EntitiesAre, Zenon DEF Character

\* A character leaves the reader in one of its states.
LEMMA XmlStep ==
    ASSUME NEW s \in XmlStates, NEW c \in Character
    PROVE  ReadXmlChar(s, c) \in XmlStates
<1> DEFINE text == s.text
           entity == s.entity
           meant == {d \in Range(Markup) : Entity(d) = <<"&", c>>}
<1>1. s = XmlAt(text, entity) /\ text \in Text /\ entity \in BOOLEAN
    BY DEF XmlStates, XmlAt
<1>2. SetToSeq(meant) \in Text
  <2>1. \A d \in Range(Markup) : <<d>> \in Text
      BY MarkupChars, SingleIs, Zenon DEF Text
  <2>2. <<>> \in Text
      BY NoPlaces DEF Text
  <2>3. meant = {} \/ \E d \in Range(Markup) : meant = {d}
      BY EntityMeans, EntitiesAre, Zenon
  <2> HIDE DEF meant
  <2> QED BY <2>1, <2>2, <2>3, ListOfOne, ListOfNone
<1> HIDE DEF text, entity
<1>3. \A t \in Text, e \in BOOLEAN : XmlAt(t, e) \in XmlStates
    BY DEF XmlAt, XmlStates
<1>4. CASE c = "&"
    BY <1>1, <1>3, <1>4, XmlSteps
<1>5. CASE c = "<"
    BY <1>1, <1>3, <1>5, XmlSteps
<1>6. CASE c \notin {"&", "<"} /\ entity = TRUE
  <2> DEFINE more == SetToSeq(meant)
  <2>1. ReadXmlChar(XmlAt(text, TRUE), c) = XmlAt(text \o more, FALSE)
      BY <1>1, <1>6, XmlSteps
  <2> HIDE DEF more
  <2>2. text \o more \in Text
      BY <1>1, <1>2, Concats DEF Text, more
  <2> QED BY <1>1, <1>3, <1>6, <2>1, <2>2
<1>7. CASE c \notin {"&", "<"} /\ entity = FALSE
  <2>1. ReadXmlChar(XmlAt(text, FALSE), c) = XmlAt(Append(text, c), FALSE)
      BY <1>1, <1>7, XmlSteps, ZenonT(30)
  <2>2. Append(text, c) \in Text
      BY <1>1 DEF Text
  <2> QED BY <1>1, <1>3, <1>7, <2>1, <2>2
<1> QED BY <1>1, <1>4, <1>5, <1>6, <1>7

\* The reader as a function.
XmlReader == [p \in XmlStates \X Character |-> ReadXmlChar(p[1], p[2])]

\* h[k] is the reader after k characters.
IsXmlRun(s, text, n, h) ==
    /\ h \in [0 .. n -> XmlStates] /\ h[0] = s
    /\ \A k \in 1 .. n : h[k] = ReadXmlChar(h[k - 1], text[k])
    /\ XmlRun(s, text) = h[n]
    /\ IsRun(XmlStates, XmlReader, s, text, n, h)

\* What the reader is after each character.
LEMMA XmlRunExists ==
    ASSUME NEW s \in XmlStates, NEW n \in Nat, NEW text \in [1 .. n -> Character]
    PROVE  \E h : IsXmlRun(s, text, n, h)
<1> DEFINE Eq(g) == g = [t \in SUBSET (1 .. n) |->
                            IF t = {} THEN s
                            ELSE ReadXmlChar(g[t \ {Max(t)}], text[Max(t)])]
           all == CHOOSE g : Eq(g)
           step == XmlReader
<1>1. DOMAIN text = 1 .. n
    OBVIOUS
<1>2. XmlRun(s, text) = all[1 .. n]
    BY <1>1 DEF XmlRun, FoldLeft, MapThenFoldSet
<1>3. step \in [XmlStates \X Character -> XmlStates]
  <2>1. \A p \in XmlStates \X Character : ReadXmlChar(p[1], p[2]) \in XmlStates
      BY XmlStep
  <2> QED BY <2>1 DEF XmlReader
<1>4. \A u \in XmlStates, c \in Character : step[<<u, c>>] = ReadXmlChar(u, c)
    BY DEF XmlReader
<1> HIDE DEF step
<1>5. PICK g \in [SUBSET (1 .. n) -> XmlStates] : Folds(step, s, text, g, 1 .. n)
    BY <1>3, FoldsExist
<1>6. ASSUME NEW t \in SUBSET (1 .. n), t # {}
      PROVE  Max(t) \in 1 .. n /\ t \ {Max(t)} \in SUBSET (1 .. n) /\ text[Max(t)] \in Character
    BY <1>6, MaxOf
<1>7. Eq(g)
  <2>1. ASSUME NEW t \in SUBSET (1 .. n), t # {}
        PROVE  g[t] = ReadXmlChar(g[t \ {Max(t)}], text[Max(t)])
    <3>1. g[t] = step[<<g[t \ {Max(t)}], text[Max(t)]>>]
        BY <1>5, <2>1 DEF Folds
    <3>2. g[t \ {Max(t)}] \in XmlStates /\ text[Max(t)] \in Character
        BY <1>6, <2>1
    <3> QED BY <1>4, <3>1, <3>2
  <2>2. g[{}] = s
      BY <1>5 DEF Folds
  <2> QED BY <2>1, <2>2
<1>8. Eq(all)
    BY <1>7
<1> HIDE DEF all
<1>9. \A t \in SUBSET (1 .. n) : t # {} /\ all[t \ {Max(t)}] \in XmlStates =>
            all[t] = step[<<all[t \ {Max(t)}], text[Max(t)]>>]
  <2>1. \A t \in SUBSET (1 .. n) : t # {} => all[t] = ReadXmlChar(all[t \ {Max(t)}], text[Max(t)])
      BY <1>8
  <2> HIDE DEF Eq
  <2> QED BY <1>4, <1>6, <2>1
<1>10. IsFold(XmlStates, Character, step, s, text, n, all)
    BY <1>3, <1>8, <1>9 DEF IsFold
<1>11. PICK h : IsRun(XmlStates, step, s, text, n, h) /\ h[n] = all[1 .. n]
    BY <1>10, RunOfFold
<1>12. h \in [0 .. n -> XmlStates] /\ h[0] = s
    BY <1>11 DEF IsRun
<1>13. ASSUME NEW k \in 1 .. n PROVE h[k] = ReadXmlChar(h[k - 1], text[k])
  <2>1. k - 1 \in 0 .. n /\ text[k] \in Character
      OBVIOUS
  <2>2. h[k] = step[<<h[k - 1], text[k]>>] /\ h[k - 1] \in XmlStates
      BY <1>11, <2>1 DEF IsRun
  <2> QED BY <1>4, <2>1, <2>2
<1> QED BY <1>2, <1>11, <1>12, <1>13 DEF IsXmlRun, step

\* Reading one text after another, and a single character.
LEMMA XmlConcat ==
    ASSUME NEW s \in XmlStates, NEW a \in Text, NEW b \in Text
    PROVE  XmlRun(s, a) \in XmlStates /\ XmlRun(s, a \o b) = XmlRun(XmlRun(s, a), b)
<1> DEFINE m == Len(a)
           n == Len(b)
           c == a \o b
<1>1. /\ m \in Nat /\ n \in Nat /\ m + n \in Nat
      /\ a \in [1 .. m -> Character] /\ b \in [1 .. n -> Character]
      /\ c \in [1 .. m + n -> Character]
      /\ (\A i \in 1 .. m : c[i] = a[i]) /\ (\A i \in 1 .. n : c[m + i] = b[i])
    BY ConcatPlaces DEF Text
<1> HIDE DEF c, m, n
<1>2. PICK f : IsXmlRun(s, a, m, f)
    BY <1>1, XmlRunExists
<1>3. XmlRun(s, a) = f[m] /\ f[m] \in XmlStates
    BY <1>1, <1>2 DEF IsXmlRun
<1>4. PICK g : IsXmlRun(f[m], b, n, g)
    BY <1>1, <1>3, XmlRunExists
<1>5. PICK h : IsXmlRun(s, c, m + n, h)
    BY <1>1, XmlRunExists
<1>6. h[m + n] = g[n]
  <2> DEFINE X == XmlStates
             step == XmlReader
  <2>1. IsRun(X, step, s, a, m, f) /\ IsRun(X, step, f[m], b, n, g) /\ IsRun(X, step, s, c, m + n, h)
      BY <1>2, <1>4, <1>5 DEF IsXmlRun
  <2> DEFINE l == m + n
  <2>2. IsRun(X, step, s, c, l, h) /\ l = m + n
      BY <2>1
  <2>3. AreFollowed(a, m, b, n, c)
      BY <1>1 DEF AreFollowed
  <2> HIDE DEF X, step, l
  <2>4. h[l] = g[n]
      BY <2>1, <2>2, <2>3, RunsFollow
  <2> QED BY <2>2, <2>4
<1> QED BY <1>3, <1>4, <1>5, <1>6 DEF IsXmlRun, c

\* The reader after one character.
LEMMA XmlOne ==
    ASSUME NEW s \in XmlStates, NEW c \in Character
    PROVE  XmlRun(s, <<c>>) = ReadXmlChar(s, c)
<1>1. <<c>> \in [1 .. 1 -> Character] /\ <<c>>[1] = c /\ 1 \in Nat
  <2>1. <<c>> \in Seq(Character) /\ Len(<<c>>) = 1 /\ <<c>>[1] = c
      BY SingleIs
  <2>2. <<c>> \in [1 .. Len(<<c>>) -> Character]
      BY <2>1, SequencesAre
  <2> QED BY <2>1, <2>2
<1>2. PICK h : IsXmlRun(s, <<c>>, 1, h)
    BY <1>1, XmlRunExists
<1>3. h[1] = ReadXmlChar(h[0], c) /\ h[0] = s /\ XmlRun(s, <<c>>) = h[1]
  <2>1. 1 \in 1 .. 1 /\ 1 - 1 = 0
      OBVIOUS
  <2> QED BY <1>1, <1>2, <2>1 DEF IsXmlRun
<1> QED BY <1>3

\* The reader after none.
LEMMA XmlNone ==
    ASSUME NEW s \in XmlStates
    PROVE  XmlRun(s, <<>>) = s
<1>1. PICK g : IsXmlRun(s, <<>>, 0, g)
    BY NoPlaces, XmlRunExists
<1> QED BY <1>1 DEF IsXmlRun

\* An entity is read as the character it stands for.
LEMMA EntityIsRead ==
    ASSUME NEW text \in Text, NEW d \in Range(Markup)
    PROVE  Entity(d) \in Text /\ XmlRun(XmlAt(text, FALSE), Entity(d)) = XmlAt(Append(text, d), FALSE)
<1>1. PICK name \in {"amp;", "lt;", "gt;", "quot;", "apos;"} :
        /\ Entity(d) = <<"&", name>>
        /\ {e \in Range(Markup) : Entity(e) = <<"&", name>>} = {d}
  <2> DEFINE Meant(c) == {e \in Range(Markup) : Entity(e) = <<"&", c>>}
  <2>1. /\ Meant("amp;") = {"&"} /\ Meant("lt;") = {"<"} /\ Meant("gt;") = {">"}
        /\ Meant("quot;") = {"quote"} /\ Meant("apos;") = {"'"}
      BY MarkupChars, EntityMeans, Zenon
  <2> HIDE DEF Meant
  <2>2. \E name \in {"amp;", "lt;", "gt;", "quot;", "apos;"} :
          Entity(d) = <<"&", name>> /\ Meant(name) = {d}
      BY <2>1, EntitiesAre, Zenon
  <2> QED BY <2>2, Zenon DEF Meant
<1>2. name \in Character /\ "&" \in Character /\ d \in Character /\ name \notin {"&", "<"}
    BY MarkupChars, EntitiesAre, Zenon
<1> DEFINE and == <<"&">>
           rest == <<name>>
           s == XmlAt(text, FALSE)
           t == XmlAt(text, TRUE)
<1>3. and \in Text /\ rest \in Text /\ Entity(d) = and \o rest
  <2>1. <<"&", name>> = <<"&">> \o <<name>>
    <3>1. \A a, b \in Character : <<a, b>> = <<a>> \o <<b>>
        BY PairIsBoth, Zenon
    <3> QED BY <1>2, <3>1, Zenon
  <2>2. and \in Text /\ rest \in Text
      BY <1>2, SingleIs, Zenon DEF Text
  <2> QED BY <1>1, <2>1, <2>2, Zenon
<1>4. s \in XmlStates /\ t \in XmlStates
    BY Zenon DEF XmlAt, XmlStates
<1>5. XmlRun(s, and) = t
  <2>1. XmlRun(s, and) = ReadXmlChar(s, "&")
      BY <1>2, <1>4, XmlOne, Zenon
  <2>2. ReadXmlChar(s, "&") = t
      BY XmlSteps, Zenon
  <2> QED BY <2>1, <2>2, Zenon
<1>6. XmlRun(t, rest) = XmlAt(Append(text, d), FALSE)
  <2>1. XmlRun(t, rest) = ReadXmlChar(t, name)
      BY <1>2, <1>4, XmlOne, Zenon
  <2>2. ReadXmlChar(t, name) = XmlAt(text \o SetToSeq({d}), FALSE)
    <3> DEFINE D == {e \in Range(Markup) : Entity(e) = <<"&", name>>}
    <3>1. ReadXmlChar(t, name) = XmlAt(text \o SetToSeq(D), FALSE)
        BY <1>2, XmlSteps, Zenon
    <3>2. D = {d}
        BY <1>1, Zenon
    <3> HIDE DEF D
    <3> QED BY <3>1, <3>2, Zenon
  <2>3. SetToSeq({d}) = <<d>>
      BY ListOfOne, Zenon
  <2>4. text \o <<d>> = Append(text, d)
      BY <1>2, ConcatOfOne, Zenon DEF Text
  <2> QED BY <2>1, <2>2, <2>3, <2>4, Zenon
<1> HIDE DEF and, rest, s, t
<1>7. and \o rest \in Text
    BY <1>3, Concats, Zenon DEF Text
<1>8. XmlRun(s, and \o rest) = XmlRun(XmlRun(s, and), rest)
    BY <1>3, <1>4, XmlConcat, Zenon
<1> QED BY <1>3, <1>5, <1>6, <1>7, <1>8, Zenon DEF s

\* Replacing goes through one text after the other.
LEMMA ReplacedConcat ==
    ASSUME NEW a \in Text, NEW b \in Text, NEW c, NEW by \in Text
    PROVE  Replaced(a \o b, c, by) = Replaced(a, c, by) \o Replaced(b, c, by)
<1> DEFINE m == Len(a)
           n == Len(b)
           d == a \o b
           Piece(x) == IF x = c THEN by ELSE <<x>>
<1>1. /\ m \in Nat /\ n \in Nat /\ m + n \in Nat
      /\ a \in [1 .. m -> Character] /\ b \in [1 .. n -> Character]
      /\ d \in [1 .. m + n -> Character]
      /\ (\A i \in 1 .. m : d[i] = a[i]) /\ (\A i \in 1 .. n : d[m + i] = b[i])
    BY ConcatPlaces DEF Text
<1> HIDE DEF d, m, n
<1>2. PICK f : IsEscaped(a, c, by, m, f)
    BY <1>1, ReplacedIs
<1>3. PICK g : IsEscaped(b, c, by, n, g)
    BY <1>1, ReplacedIs
<1>4. PICK h : IsEscaped(d, c, by, m + n, h)
    BY <1>1, ReplacedIs
<1>5. /\ \A k \in 0 .. m : f[k] \in Text
      /\ \A k \in 0 .. n : g[k] \in Text
      /\ f[0] = <<>> /\ g[0] = <<>> /\ h[0] = <<>>
      /\ \A k \in 1 .. m : f[k] = f[k - 1] \o Piece(a[k])
      /\ \A k \in 1 .. n : g[k] = g[k - 1] \o Piece(b[k])
      /\ \A k \in 1 .. m + n : h[k] = h[k - 1] \o Piece(d[k])
    BY <1>2, <1>3, <1>4 DEF IsEscaped
<1>6. \A x \in Character : Piece(x) \in Text
  <2>1. \A x \in Character : <<x>> \in Text
      BY SingleIs DEF Text
  <2> QED BY <2>1, Zenon
<1> HIDE DEF Piece
<1> DEFINE P == {k \in Nat : k <= m => h[k] = f[k]}
           Same(k) == h[m + k] = f[m] \o g[k]
           Q == {k \in Nat : k <= n => Same(k)}
<1>7. 0 \in P
    BY <1>5
<1>8. ASSUME NEW k \in Nat, k \in P PROVE k + 1 \in P
  <2>1. CASE k + 1 <= m
    <3>1. k + 1 \in 1 .. m /\ k + 1 \in 1 .. m + n /\ (k + 1) - 1 = k /\ k <= m /\ k + 1 \in Nat
        BY <1>1, <2>1
    <3>2. h[k] = f[k]
        BY <1>8, <3>1
    <3>3. h[k + 1] = h[k] \o Piece(d[k + 1]) /\ f[k + 1] = f[k] \o Piece(a[k + 1])
        BY <1>5, <3>1
    <3>4. d[k + 1] = a[k + 1]
        BY <1>1, <3>1
    <3> QED BY <3>1, <3>2, <3>3, <3>4
  <2>2. CASE ~(k + 1 <= m)
      BY <2>2
  <2> QED BY <2>1, <2>2
<1>9. h[m] = f[m] /\ f[m] \in Text
  <2>1. Nat \subseteq P
      BY <1>7, <1>8, NumberInduction
  <2> QED BY <1>1, <1>5, <2>1
<1>10. 0 \in Q
  <2>1. m + 0 = m /\ f[m] \o <<>> = f[m]
      BY <1>1, <1>9, ConcatNone DEF Text
  <2> QED BY <1>5, <1>9, <2>1
<1>11. ASSUME NEW k \in Nat, k \in Q PROVE k + 1 \in Q
  <2>1. CASE k + 1 <= n
    <3>1. /\ k + 1 \in 1 .. n /\ m + (k + 1) \in 1 .. m + n /\ (m + (k + 1)) - 1 = m + k
          /\ (k + 1) - 1 = k /\ k <= n /\ k + 1 \in Nat /\ k \in 0 .. n
        BY <1>1, <2>1
    <3>2. h[m + k] = f[m] \o g[k]
        BY <1>11, <3>1
    <3>3. h[m + (k + 1)] = h[m + k] \o Piece(d[m + (k + 1)])
        BY <1>5, <3>1
    <3>4. g[k + 1] = g[k] \o Piece(b[k + 1])
        BY <1>5, <3>1
    <3>5. d[m + (k + 1)] = b[k + 1] /\ b[k + 1] \in Character
        BY <1>1, <3>1
    <3>6. (f[m] \o g[k]) \o Piece(b[k + 1]) = f[m] \o (g[k] \o Piece(b[k + 1]))
      <4> DEFINE u == f[m]
                 v == g[k]
                 w == Piece(b[k + 1])
      <4>1. u \in Text /\ v \in Text /\ w \in Text
          BY <1>5, <1>6, <1>9, <3>1, <3>5
      <4> DEFINE X == Character
      <4>2. u \in Seq(X) /\ v \in Seq(X) /\ w \in Seq(X)
          BY <4>1 DEF Text
      <4> HIDE DEF u, v, w, X
      <4>3. (u \o v) \o w = u \o (v \o w)
          BY <4>2, ConcatRules, SMTT(20)
      <4> QED BY <4>3 DEF u, v, w
    <3> QED BY <3>1, <3>2, <3>3, <3>4, <3>5, <3>6
  <2>2. CASE ~(k + 1 <= n)
    <3> HIDE DEF Same
    <3> QED BY <2>2
  <2> QED BY <2>1, <2>2
<1>12. h[m + n] = f[m] \o g[n]
  <2> HIDE DEF Same
  <2>1. Nat \subseteq Q
      BY <1>10, <1>11, NumberInduction
  <2>2. Same(n)
      BY <1>1, <2>1
  <2> QED BY <2>2 DEF Same
<1>13. Replaced(d, c, by) = h[m + n] /\ Replaced(a, c, by) = f[m] /\ Replaced(b, c, by) = g[n]
    BY <1>2, <1>3, <1>4 DEF IsEscaped
<1> QED BY <1>12, <1>13 DEF d

\* Replacing in texts, in no text, and in one character.
LEMMA ReplacedText ==
    ASSUME NEW text \in Text, NEW c, NEW by \in Text
    PROVE  Replaced(text, c, by) \in Text
<1>1. Len(text) \in Nat /\ text \in [1 .. Len(text) -> Character]
    BY DEF Text
<1> QED BY <1>1, ReplacedIs

\* There is nothing to replace.
LEMMA ReplacedNone ==
    ASSUME NEW c, NEW by \in Text
    PROVE  Replaced(<<>>, c, by) = <<>>
<1>1. PICK f : IsEscaped(<<>>, c, by, 0, f)
    BY NoPlaces, ReplacedIs
<1> QED BY <1>1 DEF IsEscaped

\* One character is replaced or kept.
LEMMA ReplacedOne ==
    ASSUME NEW x \in Character, NEW c, NEW by \in Text
    PROVE  /\ x = c => Replaced(<<x>>, c, by) = by
           /\ x # c => Replaced(<<x>>, c, by) = <<x>>
<1> DEFINE one == <<x>>
<1>1. one \in [1 .. 1 -> Character] /\ one[1] = x /\ 1 \in Nat /\ one \in Text
  <2>1. <<x>> \in Seq(Character) /\ Len(<<x>>) = 1 /\ <<x>>[1] = x
      BY SingleIs
  <2>2. <<x>> \in [1 .. Len(<<x>>) -> Character]
      BY <2>1, SequencesAre
  <2> QED BY <2>1, <2>2 DEF Text
<1> HIDE DEF one
<1>2. PICK f : IsEscaped(one, c, by, 1, f)
    BY <1>1, ReplacedIs
<1>3. f[1] = f[0] \o (IF one[1] = c THEN by ELSE <<one[1]>>) /\ f[0] = <<>>
  <2>1. 1 \in 1 .. 1 /\ 1 - 1 = 0
      OBVIOUS
  <2> QED BY <1>2, <2>1 DEF IsEscaped
<1>4. Replaced(one, c, by) = f[1]
    BY <1>2 DEF IsEscaped
<1>5. x = c => f[1] = by
  <2>1. <<>> \o by = by
      BY ConcatNone DEF Text
  <2> QED BY <1>1, <1>3, <2>1
<1>6. x # c => f[1] = one
  <2>1. <<>> \o one = one
      BY <1>1, ConcatNone DEF Text
  <2>2. <<one[1]>> = one
      BY <1>1 DEF one
  <2> QED BY <1>1, <1>3, <2>1, <2>2
<1> QED BY <1>4, <1>5, <1>6 DEF one

\* Neither character of an entity is replaced, if they are others.
LEMMA ReplacedPair ==
    ASSUME NEW x \in Character, NEW y \in Character, NEW c, x # c, y # c, NEW by \in Text
    PROVE  Replaced(<<x, y>>, c, by) = <<x, y>>
<1> DEFINE u == <<x>>
           v == <<y>>
<1>1. u \in Text /\ v \in Text /\ <<x, y>> = u \o v
  <2>1. u \in Text /\ v \in Text
      BY SingleIs DEF Text
  <2> QED BY <2>1, PairIsBoth
<1>2. Replaced(u, c, by) = u /\ Replaced(v, c, by) = v
    BY ReplacedOne
<1> HIDE DEF u, v
<1>3. Replaced(u \o v, c, by) = Replaced(u, c, by) \o Replaced(v, c, by)
    BY <1>1, ReplacedConcat
<1> QED BY <1>1, <1>2, <1>3

\* One replacement, and all of them in their order.
Stage(text, c) == Replaced(text, c, Entity(c))

Stages(text) == Stage(Stage(Stage(Stage(Stage(text, "&"), "<"), ">"), "quote"), "'")

\* An entity is a text.
LEMMA EntityType == \A c \in Range(Markup) : c \in Character /\ Entity(c) \in Text
<1>1. ASSUME NEW c \in Range(Markup) PROVE c \in Character /\ Entity(c) \in Text
  <2>1. <<>> \in Text
      BY NoPlaces DEF Text
  <2> QED BY <1>1, <2>1, MarkupChars, EntityIsRead, Zenon
<1> QED BY <1>1

\* The characters are escaped one after the other.
LEMMA EscapedByStages ==
    ASSUME NEW text \in Text
    PROVE  EscapeXml(text) = Stages(text)
<1> DEFINE Eq(g) == g = [t \in SUBSET (1 .. 5) |->
                            IF t = {} THEN text
                            ELSE Replaced(g[t \ {Max(t)}], Markup[Max(t)], Entity(Markup[Max(t)]))]
           all == CHOOSE g : Eq(g)
           chars == Range(Markup)
           step == [p \in Text \X chars |-> Stage(p[1], p[2])]
<1>1. DOMAIN Markup = 1 .. 5 /\ 5 \in Nat
    BY DEF Markup
<1>2. EscapeXml(text) = all[1 .. 5]
    BY <1>1 DEF EscapeXml, FoldLeft, MapThenFoldSet
<1>3. step \in [Text \X chars -> Text]
  <2>1. \A p \in Text \X chars : Stage(p[1], p[2]) \in Text
      BY EntityType, ReplacedText DEF Stage
  <2> QED BY <2>1
<1>4. \A u \in Text, c \in chars : step[<<u, c>>] = Stage(u, c)
    OBVIOUS
<1>5. Markup \in [1 .. 5 -> chars]
  <2>1. Markup = [i \in 1 .. 5 |-> Markup[i]]
      BY <1>1 DEF Markup
  <2>2. \A i \in 1 .. 5 : Markup[i] \in chars
      BY <1>1 DEF Range
  <2> QED BY <2>1, <2>2
<1> HIDE DEF step, chars
<1>6. PICK g \in [SUBSET (1 .. 5) -> Text] : Folds(step, text, Markup, g, 1 .. 5)
    BY <1>1, <1>3, <1>5, FoldsExist
<1>7. ASSUME NEW t \in SUBSET (1 .. 5), t # {}
      PROVE  Max(t) \in 1 .. 5 /\ t \ {Max(t)} \in SUBSET (1 .. 5) /\ Markup[Max(t)] \in chars
    BY <1>5, <1>7, MaxOf
<1>8. Eq(g)
  <2>1. ASSUME NEW t \in SUBSET (1 .. 5), t # {}
        PROVE  g[t] = Stage(g[t \ {Max(t)}], Markup[Max(t)])
    <3>1. g[t] = step[<<g[t \ {Max(t)}], Markup[Max(t)]>>]
        BY <1>6, <2>1 DEF Folds
    <3>2. g[t \ {Max(t)}] \in Text /\ Markup[Max(t)] \in chars
        BY <1>7, <2>1
    <3> QED BY <1>4, <3>1, <3>2
  <2>2. g[{}] = text
      BY <1>6 DEF Folds
  <2> QED BY <2>1, <2>2 DEF Stage
<1>9. Eq(all)
    BY <1>8
<1> HIDE DEF all
<1>10. \A t \in SUBSET (1 .. 5) : t # {} /\ all[t \ {Max(t)}] \in Text =>
            all[t] = step[<<all[t \ {Max(t)}], Markup[Max(t)]>>]
  <2>1. \A t \in SUBSET (1 .. 5) : t # {} => all[t] = Stage(all[t \ {Max(t)}], Markup[Max(t)])
      BY <1>9 DEF Stage
  <2> QED BY <1>4, <1>7, <2>1
<1>11. IsFold(Text, chars, step, text, Markup, 5, all)
    BY <1>1, <1>3, <1>5, <1>9, <1>10 DEF IsFold
<1>12. PICK h : IsRun(Text, step, text, Markup, 5, h) /\ h[5] = all[1 .. 5]
  <2> DEFINE n == 5
  <2>1. IsFold(Text, chars, step, text, Markup, n, all)
      BY <1>11
  <2> HIDE DEF n
  <2>2. \E h : IsRun(Text, step, text, Markup, n, h) /\ h[n] = all[1 .. n]
      BY <2>1, RunOfFold
  <2> QED BY <2>2 DEF n
<1>13. ASSUME NEW k \in 1 .. 5 PROVE h[k - 1] \in Text /\ h[k] = Stage(h[k - 1], Markup[k])
  <2>1. k - 1 \in 0 .. 5 /\ Markup[k] \in chars
      BY <1>5
  <2>2. h[k] = step[<<h[k - 1], Markup[k]>>] /\ h[k - 1] \in Text
      BY <1>12, <2>1 DEF IsRun
  <2> QED BY <1>4, <2>1, <2>2
<1>14. h[0] = text
    BY <1>12 DEF IsRun
<1>15. /\ Markup[1] = "&" /\ Markup[2] = "<" /\ Markup[3] = ">"
       /\ Markup[4] = "quote" /\ Markup[5] = "'"
    BY DEF Markup
<1>16. h[1] = Stage(text, "&")
  <2>1. 1 \in 1 .. 5 /\ 1 - 1 = 0
      OBVIOUS
  <2> QED BY <1>13, <1>14, <1>15, <2>1
<1>17. h[2] = Stage(h[1], "<")
  <2>1. 2 \in 1 .. 5 /\ 2 - 1 = 1
      OBVIOUS
  <2> QED BY <1>13, <1>15, <2>1
<1>18. h[3] = Stage(h[2], ">")
  <2>1. 3 \in 1 .. 5 /\ 3 - 1 = 2
      OBVIOUS
  <2> QED BY <1>13, <1>15, <2>1
<1>19. h[4] = Stage(h[3], "quote")
  <2>1. 4 \in 1 .. 5 /\ 4 - 1 = 3
      OBVIOUS
  <2> QED BY <1>13, <1>15, <2>1
<1>20. h[5] = Stage(h[4], "'")
  <2>1. 5 \in 1 .. 5 /\ 5 - 1 = 4
      OBVIOUS
  <2> QED BY <1>13, <1>15, <2>1
<1> QED BY <1>2, <1>12, <1>16, <1>17, <1>18, <1>19, <1>20 DEF Stages

\* A replacement goes through one text after the other.
LEMMA StageConcat ==
    ASSUME NEW c \in Range(Markup), NEW a \in Text, NEW b \in Text
    PROVE  Stage(a, c) \in Text /\ Stage(a \o b, c) = Stage(a, c) \o Stage(b, c)
<1> DEFINE by == Entity(c)
<1>1. by \in Text
    BY EntityType
<1> HIDE DEF by
<1>2. Replaced(a, c, by) \in Text
    BY <1>1, ReplacedText
<1>3. Replaced(a \o b, c, by) = Replaced(a, c, by) \o Replaced(b, c, by)
    BY <1>1, ReplacedConcat
<1> QED BY <1>2, <1>3 DEF by, Stage

\* Escaping goes through one text after the other.
LEMMA EscapeConcat ==
    ASSUME NEW a \in Text, NEW b \in Text
    PROVE  EscapeXml(a) \in Text /\ EscapeXml(a \o b) = EscapeXml(a) \o EscapeXml(b)
<1> DEFINE a1 == Stage(a, "&")
           a2 == Stage(a1, "<")
           a3 == Stage(a2, ">")
           a4 == Stage(a3, "quote")
           b1 == Stage(b, "&")
           b2 == Stage(b1, "<")
           b3 == Stage(b2, ">")
           b4 == Stage(b3, "quote")
<1>0. {"&", "<", ">", "quote", "'"} = Range(Markup)
    BY EntitiesAre, Zenon
<1>1. a1 \in Text /\ b1 \in Text /\ Stage(a \o b, "&") = a1 \o b1
    BY <1>0, StageConcat
<1> HIDE DEF a1, b1
<1>2. a2 \in Text /\ b2 \in Text /\ Stage(a1 \o b1, "<") = a2 \o b2
    BY <1>0, <1>1, StageConcat
<1> HIDE DEF a2, b2
<1>3. a3 \in Text /\ b3 \in Text /\ Stage(a2 \o b2, ">") = a3 \o b3
    BY <1>0, <1>2, StageConcat
<1> HIDE DEF a3, b3
<1>4. a4 \in Text /\ b4 \in Text /\ Stage(a3 \o b3, "quote") = a4 \o b4
    BY <1>0, <1>3, StageConcat
<1> HIDE DEF a4, b4
<1>5. Stage(a4, "'") \in Text /\ Stage(a4 \o b4, "'") = Stage(a4, "'") \o Stage(b4, "'")
    BY <1>0, <1>4, StageConcat
<1>6. a \o b \in Text
    BY Concats DEF Text
<1>7. EscapeXml(a) = Stage(a4, "'") /\ EscapeXml(b) = Stage(b4, "'")
    BY EscapedByStages DEF Stages, a1, a2, a3, a4, b1, b2, b3, b4
<1>8. EscapeXml(a \o b) = Stage(a4 \o b4, "'")
  <2> DEFINE c == a \o b
  <2>1. EscapeXml(c) = Stages(c)
      BY <1>6, EscapedByStages
  <2>2. Stages(c) = Stage(a4 \o b4, "'")
      BY <1>1, <1>2, <1>3, <1>4 DEF Stages
  <2> QED BY <2>1, <2>2
<1> QED BY <1>5, <1>7, <1>8

\* A character with a meaning becomes its entity, any other stays.
LEMMA EscapeOne ==
    ASSUME NEW c \in Character
    PROVE  /\ c \in Range(Markup) => EscapeXml(<<c>>) = Entity(c)
           /\ c \notin Range(Markup) => EscapeXml(<<c>>) = <<c>>
<1>0. {"&", "<", ">", "quote", "'"} = Range(Markup)
    BY EntitiesAre, Zenon
<1>1. <<c>> \in Text
    BY SingleIs DEF Text
<1>2. EscapeXml(<<c>>) = Stages(<<c>>)
    BY <1>1, EscapedByStages
<1>3. ASSUME NEW d \in Range(Markup), c # d PROVE Stage(<<c>>, d) = <<c>>
    BY <1>3, EntityType, ReplacedOne DEF Stage
<1>4. ASSUME c \in Range(Markup) PROVE Stage(<<c>>, c) = Entity(c)
    BY <1>4, EntityType, ReplacedOne DEF Stage
<1>5. ASSUME c \in Range(Markup),
             NEW d \in Range(Markup) \ {"&"} PROVE Stage(Entity(c), d) = Entity(c)
  <2>1. PICK name \in {"amp;", "lt;", "gt;", "quot;", "apos;"} : Entity(c) = <<"&", name>>
      BY <1>5, EntitiesAre, Zenon
  <2>2. name \in Character /\ "&" \in Character /\ name # d /\ "&" # d /\ Entity(d) \in Text
      BY <1>0, EntityType, MarkupChars, Zenon
  <2>3. Replaced(<<"&", name>>, d, Entity(d)) = <<"&", name>>
      BY <2>2, ReplacedPair, Zenon
  <2> QED BY <2>1, <2>3, Zenon DEF Stage
<1>6. c \notin Range(Markup) => Stages(<<c>>) = <<c>>
    BY <1>0, <1>3 DEF Stages
<1>7. CASE c = "&"
    BY <1>0, <1>2, <1>4, <1>5, <1>7 DEF Stages
<1>8. CASE c = "<"
    BY <1>0, <1>2, <1>3, <1>4, <1>5, <1>8 DEF Stages
<1>9. CASE c = ">"
    BY <1>0, <1>2, <1>3, <1>4, <1>5, <1>9 DEF Stages
<1>10. CASE c = "quote"
    BY <1>0, <1>2, <1>3, <1>4, <1>5, <1>10 DEF Stages
<1>11. CASE c = "'"
    BY <1>0, <1>2, <1>3, <1>4, <1>5, <1>11 DEF Stages
<1> QED BY <1>0, <1>2, <1>6, <1>7, <1>8, <1>9, <1>10, <1>11

\* Whatever is in a cell, a reader of the worksheet gets it back (escapeXml).
LEMMA XmlReadsBack ==
    ASSUME NEW text \in Text
    PROVE  ReadXml(EscapeXml(text)) = text
<1> DEFINE n == Len(text)
           s == XmlAt(<<>>, FALSE)
           Back(k) == XmlRun(s, EscapeXml(SubSeq(text, 1, k))) = XmlAt(SubSeq(text, 1, k), FALSE)
           P == {k \in Nat : k <= n => Back(k)}
<1>1. n \in Nat /\ <<>> \in Text
    BY NoPlaces DEF Text
<1>2. s \in XmlStates
    BY <1>1 DEF XmlAt, XmlStates
<1>3. EscapeXml(<<>>) = <<>>
  <2>1. \A c \in Range(Markup) : Stage(<<>>, c) = <<>>
      BY EntityType, ReplacedNone DEF Stage
  <2> QED BY <1>1, <2>1, EntitiesAre, EscapedByStages, Zenon DEF Stages
<1>4. 0 \in P
  <2>1. SubSeq(text, 1, 0) = <<>>
      BY DEF Text
  <2>2. XmlRun(s, <<>>) = s
      BY <1>2, XmlNone
  <2>3. Back(0)
      BY <1>3, <2>1, <2>2
  <2> HIDE DEF Back
  <2> QED BY <2>3
<1>5. ASSUME NEW k \in Nat, k \in P PROVE k + 1 \in P
  <2>1. CASE k + 1 <= n
    <3> DEFINE before == SubSeq(text, 1, k)
               c == text[k + 1]
               one == <<c>>
               t == XmlAt(before, FALSE)
    <3>1. k + 1 \in 1 .. n /\ (k + 1) - 1 = k /\ k <= n /\ k + 1 \in Nat
        BY <1>1, <2>1
    <3>2. XmlRun(s, EscapeXml(before)) = t
        BY <1>5, <3>1
    <3>3. before \in Text /\ c \in Character /\ SubSeq(text, 1, k + 1) = Append(before, c)
      <4>1. text \in Seq(Character) /\ k + 1 \in 1 .. Len(text)
          BY <3>1 DEF Text, n
      <4>2. \A j \in 1 .. Len(text) :
                  /\ SubSeq(text, 1, j - 1) \in Seq(Character) /\ text[j] \in Character
                  /\ SubSeq(text, 1, j) = Append(SubSeq(text, 1, j - 1), text[j])
          BY <4>1, PrefixGrows
      <4> QED BY <3>1, <4>1, <4>2 DEF Text
    <3> HIDE DEF before, c
    <3>4. one \in Text /\ before \o one = Append(before, c) /\ t \in XmlStates
      <4>1. one \in Text
          BY <3>3, SingleIs DEF Text
      <4>2. before \o one = Append(before, c)
          BY <3>3, ConcatOfOne DEF Text
      <4>3. t \in XmlStates
          BY <3>3 DEF XmlAt, XmlStates
      <4> QED BY <4>1, <4>2, <4>3
    <3>5. EscapeXml(one) \in Text /\ XmlRun(t, EscapeXml(one)) = XmlAt(Append(before, c), FALSE)
      <4>1. EscapeXml(one) \in Text
          BY <3>4, EscapeConcat
      <4>2. CASE c \in Range(Markup)
        <5>1. EscapeXml(one) = Entity(c)
            BY <3>3, <4>2, EscapeOne
        <5> QED BY <3>3, <4>1, <4>2, <5>1, EntityIsRead
      <4>3. CASE c \notin Range(Markup)
        <5>1. EscapeXml(one) = one
            BY <3>3, <4>3, EscapeOne
        <5>2. c \notin {"&", "<"}
            BY <4>3, EntitiesAre, Zenon
        <5>3. XmlRun(t, one) = ReadXmlChar(t, c)
            BY <3>3, <3>4, XmlOne
        <5>4. ReadXmlChar(t, c) = XmlAt(Append(before, c), FALSE)
            BY <3>3, <5>2, XmlSteps
        <5> QED BY <4>1, <5>1, <5>3, <5>4
      <4> QED BY <4>2, <4>3
    <3> HIDE DEF one, t, s
    <3>6. /\ EscapeXml(before) \in Text
          /\ EscapeXml(before \o one) = EscapeXml(before) \o EscapeXml(one)
        BY <3>3, <3>4, EscapeConcat
    <3>7. XmlRun(s, EscapeXml(before) \o EscapeXml(one)) = XmlRun(t, EscapeXml(one))
      <4> DEFINE u == EscapeXml(before)
                 v == EscapeXml(one)
      <4>1. u \in Text /\ v \in Text
          BY <3>5, <3>6
      <4> HIDE DEF u, v
      <4>2. XmlRun(s, u \o v) = XmlRun(XmlRun(s, u), v)
          BY <1>2, <4>1, XmlConcat
      <4> QED BY <3>2, <4>2 DEF u, v
    <3>8. Back(k + 1)
        BY <3>3, <3>4, <3>5, <3>6, <3>7
    <3> HIDE DEF Back
    <3> QED BY <3>1, <3>8
  <2>2. CASE ~(k + 1 <= n)
    <3> HIDE DEF Back
    <3> QED BY <2>2
  <2> QED BY <2>1, <2>2
<1>6. Back(n)
  <2> HIDE DEF Back
  <2>1. Nat \subseteq P
      BY <1>4, <1>5, NumberInduction
  <2> QED BY <1>1, <2>1
<1>7. SubSeq(text, 1, n) = text
    BY DEF Text
<1>8. XmlRun(s, EscapeXml(text)) = XmlAt(text, FALSE)
    BY <1>6, <1>7
<1>9. XmlStart = s
    BY DEF XmlStart, XmlAt
<1> QED BY <1>8, <1>9 DEF ReadXml, XmlRun, XmlAt

(***************************************************************************)
(* The names of columns.                                                   *)
(***************************************************************************)
IsNumberRun(name, n, h) ==
    /\ h \in [0 .. n -> Nat] /\ h[0] = 0
    /\ \A k \in 1 .. n : h[k] = h[k - 1] * Letters + name[k] + 1
    /\ ColumnNumber(name) = h[n]

\* There are two letters or more.
LEMMA LettersAre == Letters \in Nat /\ Letters >= 2
BY ExportsAssumption

\* A name is read letter by letter.
LEMMA NumberRunExists ==
    ASSUME NEW n \in Nat, NEW name \in [1 .. n -> Nat]
    PROVE  \E h : IsNumberRun(name, n, h)
<1> DEFINE Eq(g) == g = [t \in SUBSET (1 .. n) |->
                            IF t = {} THEN 0
                            ELSE g[t \ {Max(t)}] * Letters + name[Max(t)] + 1]
           all == CHOOSE g : Eq(g)
           Next1(u, c) == u * Letters + c + 1
           step == [p \in Nat \X Nat |-> Next1(p[1], p[2])]
<1>1. DOMAIN name = 1 .. n
    OBVIOUS
<1>2. ColumnNumber(name) = all[1 .. n]
    BY <1>1 DEF ColumnNumber, FoldLeft, MapThenFoldSet
<1>3. step \in [Nat \X Nat -> Nat]
  <2>1. \A u, c \in Nat : Next1(u, c) \in Nat
      BY LettersAre
  <2> HIDE DEF Next1
  <2> QED BY <2>1
<1>4. \A u, c \in Nat : step[<<u, c>>] = Next1(u, c)
  <2> HIDE DEF Next1
  <2> QED OBVIOUS
<1> HIDE DEF step
<1>5. PICK g \in [SUBSET (1 .. n) -> Nat] : Folds(step, 0, name, g, 1 .. n)
    BY <1>3, FoldsExist
<1>6. ASSUME NEW t \in SUBSET (1 .. n), t # {}
      PROVE  Max(t) \in 1 .. n /\ t \ {Max(t)} \in SUBSET (1 .. n) /\ name[Max(t)] \in Nat
    BY <1>6, MaxOf
<1>7. Eq(g)
  <2>1. ASSUME NEW t \in SUBSET (1 .. n), t # {}
        PROVE  g[t] = Next1(g[t \ {Max(t)}], name[Max(t)])
    <3>1. g[t] = step[<<g[t \ {Max(t)}], name[Max(t)]>>]
        BY <1>5, <2>1 DEF Folds
    <3>2. g[t \ {Max(t)}] \in Nat /\ name[Max(t)] \in Nat
        BY <1>6, <2>1
    <3> HIDE DEF Next1
    <3> QED BY <1>4, <3>1, <3>2
  <2>2. g[{}] = 0
      BY <1>5 DEF Folds
  <2> QED BY <2>1, <2>2
<1>8. Eq(all)
    BY <1>7
<1> HIDE DEF all
<1>9. \A t \in SUBSET (1 .. n) : t # {} /\ all[t \ {Max(t)}] \in Nat =>
            all[t] = step[<<all[t \ {Max(t)}], name[Max(t)]>>]
  <2>1. \A t \in SUBSET (1 .. n) : t # {} => all[t] = Next1(all[t \ {Max(t)}], name[Max(t)])
      BY <1>8
  <2> HIDE DEF Next1, Eq
  <2> QED BY <1>4, <1>6, <2>1
<1>10. IsFold(Nat, Nat, step, 0, name, n, all)
  <2>1. all[{}] = 0
      BY <1>8
  <2> QED BY <1>3, <1>9, <2>1 DEF IsFold
<1>11. PICK h : IsRun(Nat, step, 0, name, n, h) /\ h[n] = all[1 .. n]
  <2> DEFINE zero == 0
             X == Nat
  <2>1. IsFold(X, X, step, zero, name, n, all)
      BY <1>10
  <2> HIDE DEF zero, X
  <2>2. \E h : IsRun(X, step, zero, name, n, h) /\ h[n] = all[1 .. n]
      BY <2>1, RunOfFold
  <2> QED BY <2>2 DEF zero, X
<1>12. h \in [0 .. n -> Nat] /\ h[0] = 0
    BY <1>11 DEF IsRun
<1>13. ASSUME NEW k \in 1 .. n PROVE h[k] = h[k - 1] * Letters + name[k] + 1
  <2>1. k - 1 \in 0 .. n /\ name[k] \in Nat
      OBVIOUS
  <2>2. h[k] = step[<<h[k - 1], name[k]>>] /\ h[k - 1] \in Nat
      BY <1>11, <2>1 DEF IsRun
  <2>3. h[k] = Next1(h[k - 1], name[k])
    <3> HIDE DEF Next1
    <3> QED BY <1>4, <2>1, <2>2
  <2> QED BY <2>3
<1> QED BY <1>2, <1>11, <1>12, <1>13 DEF IsNumberRun

\* A name without letters is zero.
LEMMA NumberOfNone == ColumnNumber(<<>>) = 0
<1>1. PICK h : IsNumberRun(<<>>, 0, h)
    BY NoPlaces, NumberRunExists
<1> QED BY <1>1 DEF IsNumberRun

\* One more letter counts one, and what there was before as much as there are letters.
LEMMA NumberAppend ==
    ASSUME NEW name \in Seq(Nat), NEW r \in Nat
    PROVE  /\ ColumnNumber(name) \in Nat
           /\ ColumnNumber(name \o <<r>>) = ColumnNumber(name) * Letters + r + 1
<1> DEFINE n == Len(name)
           longer == name \o <<r>>
<1>1. /\ n \in Nat /\ name \in [1 .. n -> Nat] /\ longer \in [1 .. n + 1 -> Nat]
      /\ (\A i \in 1 .. n : longer[i] = name[i]) /\ longer[n + 1] = r
  <2> DEFINE one == <<r>>
  <2>1. one \in Seq(Nat) /\ Len(one) = 1 /\ one[1] = r
      BY SingleIs
  <2> HIDE DEF one
  <2>2. /\ Len(name) \in Nat /\ name \in [1 .. Len(name) -> Nat]
        /\ name \o one \in [1 .. Len(name) + Len(one) -> Nat]
        /\ \A i \in 1 .. Len(name) : (name \o one)[i] = name[i]
        /\ \A i \in 1 .. Len(one) : (name \o one)[Len(name) + i] = one[i]
    <3> DEFINE X == Nat
    <3>1. name \in Seq(X) /\ one \in Seq(X)
        BY <2>1
    <3> HIDE DEF X
    <3>2. /\ Len(name) \in Nat /\ name \in [1 .. Len(name) -> X]
          /\ name \o one \in [1 .. Len(name) + Len(one) -> X]
          /\ \A i \in 1 .. Len(name) : (name \o one)[i] = name[i]
          /\ \A i \in 1 .. Len(one) : (name \o one)[Len(name) + i] = one[i]
        BY <3>1, ConcatPlaces
    <3> QED BY <3>2 DEF X
  <2>3. (name \o one)[n + 1] = r
      BY <2>1, <2>2
  <2> QED BY <2>1, <2>2, <2>3 DEF one
<1> HIDE DEF longer, n
<1>2. PICK f : IsNumberRun(name, n, f)
    BY <1>1, NumberRunExists
<1>3. PICK h : IsNumberRun(longer, n + 1, h)
    BY <1>1, NumberRunExists
<1> DEFINE P == {k \in Nat : k <= n => h[k] = f[k]}
<1>4. 0 \in P
    BY <1>2, <1>3 DEF IsNumberRun
<1>5. ASSUME NEW k \in Nat, k \in P PROVE k + 1 \in P
  <2>1. CASE k + 1 <= n
    <3>1. k + 1 \in 1 .. n /\ k + 1 \in 1 .. n + 1 /\ (k + 1) - 1 = k /\ k <= n /\ k + 1 \in Nat
        BY <1>1, <2>1
    <3>2. h[k] = f[k] /\ longer[k + 1] = name[k + 1]
        BY <1>1, <1>5, <3>1
    <3>3. /\ h[k + 1] = h[k] * Letters + longer[k + 1] + 1
          /\ f[k + 1] = f[k] * Letters + name[k + 1] + 1
        BY <1>2, <1>3, <3>1 DEF IsNumberRun
    <3> QED BY <3>1, <3>2, <3>3
  <2>2. CASE ~(k + 1 <= n)
      BY <2>2
  <2> QED BY <2>1, <2>2
<1>6. h[n] = f[n] /\ f[n] \in Nat
  <2>1. Nat \subseteq P
      BY <1>4, <1>5, NumberInduction
  <2> QED BY <1>1, <1>2, <2>1 DEF IsNumberRun
<1>7. h[n + 1] = h[n] * Letters + r + 1
  <2>1. n + 1 \in 1 .. n + 1 /\ (n + 1) - 1 = n
      BY <1>1
  <2> QED BY <1>1, <1>3, <2>1 DEF IsNumberRun
<1>8. ColumnNumber(name) = f[n] /\ ColumnNumber(longer) = h[n + 1]
    BY <1>2, <1>3 DEF IsNumberRun
<1> QED BY <1>6, <1>7, <1>8 DEF longer

\* The last letter, and what is left without it.
Letter(n) == (n - 1) % Letters

\* The column whose name comes before the last letter.
Left(n) == (n - Letter(n)) \div Letters

\* Dividing what is left by the letters there are.
LEMMA LeftOf ==
    ASSUME NEW n \in Nat \ {0}
    PROVE  /\ Letter(n) \in Nat /\ Left(n) \in Nat /\ Left(n) < n
           /\ Left(n) * Letters + Letter(n) + 1 = n
<1> DEFINE a == n - 1
           r == a % Letters
           p == a \div Letters
           m == p * Letters
<1>1. Letters \in Nat \ {0, 1} /\ a \in Nat /\ n = a + 1
    BY LettersAre
<1> HIDE DEF a
<1>2. r \in Nat /\ p \in Nat /\ p <= a
    BY <1>1
<1>3. a % Letters = a - Letters * (a \div Letters)
    BY <1>1
<1>4. r = a - m
    BY <1>1, <1>2, <1>3
<1>5. (m + 1) \div Letters = p
    BY <1>1, <1>2
<1> HIDE DEF r, p, m
<1>6. m \in Nat
    BY <1>1, <1>2 DEF m
<1>7. n - r = m + 1
    BY <1>1, <1>2, <1>4, <1>6
<1>8. (n - r) \div Letters = p
    BY <1>5, <1>7
<1>9. p * Letters + r + 1 = n
    BY <1>1, <1>2, <1>4, <1>6 DEF m
<1>10. p < n
    BY <1>1, <1>2
<1>11. Left(n) = p /\ Letter(n) = r
  <2>1. Letter(n) = r
      BY Zenon DEF Letter, a, r
  <2>2. Left(n) = (n - Letter(n)) \div Letters
      BY Zenon DEF Left
  <2>3. Left(n) = (n - r) \div Letters
      BY <2>1, <2>2, Zenon
  <2> QED BY <1>8, <2>1, <2>3, Zenon
<1> QED BY <1>2, <1>9, <1>10, <1>11

\* f names the columns up to one.
IsNames(column, f) ==
    f = [n \in 0 .. column |->
            IF n = 0 THEN <<>>
            ELSE LET remainder == (n - 1) % Letters
                 IN f[(n - remainder) \div Letters] \o <<remainder>>]

\* There are such names.
LEMMA NamesExist ==
    ASSUME NEW column \in Nat
    PROVE  \E f : IsNames(column, f)
<1> DEFINE Named(k, g) == \A n \in 0 .. k :
                            g[n] = IF n = 0 THEN <<>> ELSE g[Left(n)] \o <<Letter(n)>>
           P == {k \in Nat : \E g \in [0 .. k -> Seq(Nat)] : Named(k, g)}
<1>1. 0 \in P
  <2> DEFINE g == [n \in 0 .. 0 |-> <<>>]
  <2>1. g \in [0 .. 0 -> Seq(Nat)] /\ Named(0, g)
    <3>1. \A n \in 0 .. 0 : n = 0
        OBVIOUS
    <3>2. <<>> \in Seq(Nat)
        BY NoPlaces
    <3> QED BY <3>1, <3>2
  <2> HIDE DEF g, Named
  <2> QED BY <2>1
<1>2. ASSUME NEW k \in Nat, k \in P PROVE k + 1 \in P
  <2>1. PICK g \in [0 .. k -> Seq(Nat)] : Named(k, g)
      BY <1>2
  <2> DEFINE h == [n \in 0 .. k + 1 |->
                      IF n = k + 1 THEN g[Left(k + 1)] \o <<Letter(k + 1)>> ELSE g[n]]
  <2>2. Left(k + 1) \in 0 .. k /\ Letter(k + 1) \in Nat /\ k + 1 \in Nat \ {0}
    <3>1. k + 1 \in Nat \ {0}
        OBVIOUS
    <3>2. Letter(k + 1) \in Nat /\ Left(k + 1) \in Nat /\ Left(k + 1) < k + 1
        BY <3>1, LeftOf
    <3> QED BY <3>1, <3>2
  <2>3. g[Left(k + 1)] \o <<Letter(k + 1)>> \in Seq(Nat)
    <3> DEFINE u == g[Left(k + 1)]
               r == Letter(k + 1)
               v == <<r>>
    <3>1. u \in Seq(Nat) /\ r \in Nat
        BY <2>2
    <3> HIDE DEF u, r
    <3>2. v \in Seq(Nat)
        BY <3>1, SingleIs
    <3> HIDE DEF v
    <3>3. u \o v \in Seq(Nat)
        BY <3>1, <3>2, Concats
    <3> QED BY <3>3 DEF u, v, r
  <2> DEFINE last == g[Left(k + 1)] \o <<Letter(k + 1)>>
  <2> HIDE DEF last
  <2>4. h \in [0 .. k + 1 -> Seq(Nat)]
    <3>1. \A n \in 0 .. k + 1 : n # k + 1 => n \in 0 .. k
        OBVIOUS
    <3> QED BY <2>3, <3>1
  <2>5. ASSUME NEW n \in 0 .. k + 1
        PROVE  h[n] = IF n = 0 THEN <<>> ELSE h[Left(n)] \o <<Letter(n)>>
    <3>1. n # 0 => Left(n) \in 0 .. n - 1
      <4>1. n # 0 => n \in Nat \ {0}
          OBVIOUS
      <4> QED BY <4>1, LeftOf
    <3>2. CASE n = k + 1
      <4>1. Left(n) \in 0 .. k + 1 /\ Left(n) # k + 1 /\ n # 0
          BY <2>2, <3>2
      <4>2. h[Left(n)] = g[Left(n)]
          BY <4>1
      <4>3. h[n] = g[Left(k + 1)] \o <<Letter(k + 1)>>
          BY <3>2
      <4> HIDE DEF h
      <4> QED BY <3>2, <4>1, <4>2, <4>3
    <3>3. CASE n # k + 1
      <4>1. n \in 0 .. k /\ h[n] = g[n]
          BY <3>3
      <4>2. n # 0 => h[Left(n)] = g[Left(n)]
          BY <3>1, <4>1
      <4>3. g[n] = IF n = 0 THEN <<>> ELSE g[Left(n)] \o <<Letter(n)>>
          BY <2>1, <4>1
      <4> HIDE DEF h
      <4> QED BY <4>1, <4>2, <4>3
    <3> QED BY <3>2, <3>3
  <2> HIDE DEF h
  <2>6. Named(k + 1, h)
      BY <2>5
  <2> HIDE DEF Named
  <2>7. k + 1 \in Nat
      OBVIOUS
  <2> QED BY <2>4, <2>6, <2>7
<1>3. PICK g \in [0 .. column -> Seq(Nat)] : Named(column, g)
  <2>1. Nat \subseteq P
      BY <1>1, <1>2, NumberInduction
  <2> HIDE DEF Named
  <2> QED BY <2>1
<1>4. g = [n \in 0 .. column |-> g[n]]
    OBVIOUS
<1>5. g = [n \in 0 .. column |-> IF n = 0 THEN <<>> ELSE g[Left(n)] \o <<Letter(n)>>]
    BY <1>3, <1>4
<1> QED BY <1>5 DEF IsNames, Left, Letter

\* A reader of the name of a column finds its number (columnName).
LEMMA ColumnReadsBack ==
    ASSUME NEW column \in Nat
    PROVE  ColumnNumber(ColumnName(column)) = column
<1> DEFINE names == CHOOSE f : IsNames(column, f)
           wrong == {n \in 0 .. column :
                        ~(names[n] \in Seq(Nat) /\ ColumnNumber(names[n]) = n)}
<1>1. IsNames(column, names)
    BY NamesExist
<1>2. ColumnName(column) = names[column]
  <2> DEFINE found == CHOOSE Name : Name =
                  [n \in 0 .. column |->
                      IF n = 0 THEN <<>>
                      ELSE LET remainder == (n - 1) % Letters
                           IN Name[(n - remainder) \div Letters] \o <<remainder>>]
  <2>1. ColumnName(column) = found[column]
      BY Zenon DEF ColumnName
  <2>2. found = names
      BY Zenon DEF IsNames
  <2> QED BY <2>1, <2>2
<1> HIDE DEF names
<1>3. ASSUME NEW n \in 0 .. column
      PROVE  names[n] = IF n = 0 THEN <<>> ELSE names[Left(n)] \o <<Letter(n)>>
    BY <1>1 DEF IsNames, Left, Letter
<1>4. wrong = {}
  <2> SUFFICES ASSUME wrong # {} PROVE FALSE
      OBVIOUS
  <2>1. wrong \subseteq Nat
      OBVIOUS
  <2>2. PICK n \in wrong : \A m \in wrong : n <= m
      BY <2>1, LeastNumber
  <2>3. n \in 0 .. column
      OBVIOUS
  <2>4. CASE n = 0
    <3>1. names[n] = <<>> /\ <<>> \in Seq(Nat)
        BY <1>3, <2>3, <2>4, NoPlaces
    <3> QED BY <2>4, <3>1, NumberOfNone
  <2>5. CASE n # 0
    <3> DEFINE u == names[Left(n)]
               r == Letter(n)
               v == <<r>>
    <3>1. n \in Nat \ {0}
        BY <2>3, <2>5
    <3>2. /\ r \in Nat /\ Left(n) \in Nat /\ Left(n) < n
          /\ Left(n) * Letters + r + 1 = n
        BY <3>1, LeftOf
    <3>3. Left(n) \in 0 .. column /\ Left(n) \notin wrong
        BY <2>2, <2>3, <3>2
    <3>4. u \in Seq(Nat) /\ ColumnNumber(u) = Left(n)
        BY <3>3
    <3>5. names[n] = u \o v
        BY <1>3, <2>3, <2>5
    <3> HIDE DEF u, r
    <3>6. ColumnNumber(u \o v) = ColumnNumber(u) * Letters + r + 1
        BY <3>2, <3>4, NumberAppend
    <3>7. u \o v \in Seq(Nat)
      <4>1. v \in Seq(Nat)
          BY <3>2, SingleIs
      <4> HIDE DEF v
      <4> QED BY <3>4, <4>1, Concats
    <3> HIDE DEF v
    <3>8. ColumnNumber(u \o v) = n
        BY <3>2, <3>4, <3>6
    <3> QED BY <3>5, <3>7, <3>8
  <2> QED BY <2>4, <2>5
<1>5. column \in 0 .. column
    OBVIOUS
<1> QED BY <1>2, <1>4, <1>5

(***************************************************************************)
(* The worksheet.                                                          *)
(***************************************************************************)
LEMMA MaxIs ==
    ASSUME NEW S, S \subseteq Int, NEW m \in S, \A x \in S : x <= m
    PROVE  Max(S) = m
<1>1. \A x \in S : (\A y \in S : x >= y) => x = m
    OBVIOUS
<1>2. \A y \in S : m >= y
    OBVIOUS
<1> QED BY <1>1, <1>2 DEF Max

\* The cell of a text in a column and a row, and its place.
CellOf(k, n, text) == [ref |-> <<ColumnName(k), n>>, text |-> EscapeXml(text)]

PlaceOf(c) == <<ColumnNumber(c.ref[1]), c.ref[2]>>

\* A cell is found where it was put, with what was put there.
LEMMA CellIsRead ==
    ASSUME NEW k \in Nat, NEW n, NEW text \in Text
    PROVE  PlaceOf(CellOf(k, n, text)) = <<k, n>> /\ ReadXml(CellOf(k, n, text).text) = text
<1>1. CellOf(k, n, text).ref = <<ColumnName(k), n>> /\ CellOf(k, n, text).text = EscapeXml(text)
    BY DEF CellOf
<1>2. ColumnNumber(ColumnName(k)) = k
    BY ColumnReadsBack
<1>3. ReadXml(EscapeXml(text)) = text
    BY XmlReadsBack
<1> QED BY <1>1, <1>2, <1>3 DEF PlaceOf

\* Every row has cells, and as many as the first.
Even(t) == \A n \in DOMAIN t : Len(t[n]) > 0 /\ Len(t[n]) = Len(t[1])

\* The cells of a table.
CellsOf(t) ==
    {CellOf(p[2], p[1] + 3, t[p[1]][p[2]]) : p \in (1 .. Len(t)) \X (1 .. Len(t[1]))}

\* The first row and the others, each three rows further down.
LEMMA CellsAre ==
    ASSUME NEW t \in Seq(Seq(Text)), Len(t) > 0, Even(t)
    PROVE  /\ Head(t) = t[1] /\ Len(Tail(t)) = Len(t) - 1
           /\ DOMAIN Head(t) = 1 .. Len(t[1])
           /\ \A n \in DOMAIN Tail(t) : n \in 1 .. Len(t) - 1 /\ Tail(t)[n] = t[n + 1]
           /\ DOMAIN Tail(t) = 1 .. Len(t) - 1
           /\ SheetCells(Head(t), Tail(t)) = CellsOf(t)
<1> DEFINE rows == Tail(t)
           headers == Head(t)
           N == Len(t)
           W == Len(t[1])
           all == {CellOf(p[2], p[1] + 3, t[p[1]][p[2]]) : p \in (1 .. N) \X (1 .. W)}
           first == {[ref |-> <<ColumnName(k), 4>>, text |-> EscapeXml(headers[k])] :
                        k \in DOMAIN headers}
           Row(n) == {[ref |-> <<ColumnName(k), DataStartRow + n - 1>>,
                       text |-> EscapeXml(rows[n][k])] : k \in DOMAIN rows[n]}
<1>1. /\ N \in Nat \ {0} /\ headers = t[1] /\ rows \in Seq(Seq(Text)) /\ Len(rows) = N - 1
      /\ DOMAIN rows = 1 .. N - 1 /\ \A n \in 1 .. N - 1 : rows[n] = t[n + 1]
    OBVIOUS
<1>2. \A n \in 1 .. N : t[n] \in Seq(Text) /\ Len(t[n]) = W /\ DOMAIN t[n] = 1 .. W
  <2>1. \A n \in 1 .. N : t[n] \in Seq(Text) /\ Len(t[n]) = W
      BY DEF Even
  <2>2. \A n \in 1 .. N : DOMAIN t[n] = 1 .. Len(t[n])
      BY <2>1, SequencesAre, Zenon
  <2> QED BY <2>1, <2>2, Zenon
<1>3. DOMAIN headers = 1 .. W
    BY <1>1, <1>2
<1>4. SheetCells(headers, rows) = first \cup UNION {Row(n) : n \in DOMAIN rows}
    BY DEF SheetCells
<1>5. ASSUME NEW n \in 1 .. N - 1
      PROVE  Row(n) = {CellOf(k, (n + 1) + 3, t[n + 1][k]) : k \in 1 .. W}
  <2>1. rows[n] = t[n + 1] /\ DOMAIN rows[n] = 1 .. W
      BY <1>1, <1>2
  <2>2. DataStartRow + n - 1 = (n + 1) + 3
      BY DEF DataStartRow
  <2> QED BY <2>1, <2>2 DEF CellOf
<1>6. first = {CellOf(k, 1 + 3, t[1][k]) : k \in 1 .. W}
  <2>1. ASSUME NEW k PROVE CellOf(k, 1 + 3, t[1][k]) =
                              [ref |-> <<ColumnName(k), 4>>, text |-> EscapeXml(headers[k])]
    <3>1. 1 + 3 = 4
        OBVIOUS
    <3> QED BY <1>1, <3>1 DEF CellOf
  <2> QED BY <1>3, <2>1
<1> HIDE DEF first, Row, rows, headers
<1>7. first \subseteq all
  <2>1. ASSUME NEW k \in 1 .. W PROVE CellOf(k, 1 + 3, t[1][k]) \in all
    <3>1. <<1, k>> \in (1 .. N) \X (1 .. W) /\ <<1, k>>[1] = 1 /\ <<1, k>>[2] = k
        BY <1>1
    <3> QED BY <3>1
  <2> HIDE DEF all
  <2> QED BY <1>6, <2>1
<1>8. \A n \in DOMAIN rows : Row(n) \subseteq all
  <2>1. ASSUME NEW n \in 1 .. N - 1, NEW k \in 1 .. W
        PROVE  CellOf(k, (n + 1) + 3, t[n + 1][k]) \in all
    <3> DEFINE p == <<n + 1, k>>
    <3>1. p \in (1 .. N) \X (1 .. W) /\ p[1] = n + 1 /\ p[2] = k
        BY <1>1, SMTT(20)
    <3>2. CellOf(p[2], p[1] + 3, t[p[1]][p[2]]) \in all
      <4> HIDE DEF p
      <4> QED BY <3>1
    <3> HIDE DEF p, all
    <3> QED BY <3>1, <3>2
  <2> HIDE DEF all
  <2> QED BY <1>1, <1>5, <2>1
<1>9. ASSUME NEW n \in 1 .. N, NEW k \in 1 .. W
      PROVE  CellOf(k, n + 3, t[n][k]) \in first \cup UNION {Row(m) : m \in DOMAIN rows}
  <2>1. CASE n = 1
      BY <1>6, <2>1
  <2>2. CASE n # 1
    <3>1. n - 1 \in 1 .. N - 1 /\ (n - 1) + 1 = n
        BY <1>1, <2>2
    <3>2. CellOf(k, n + 3, t[n][k]) \in Row(n - 1)
        BY <1>5, <3>1
    <3> QED BY <1>1, <3>1, <3>2
  <2> QED BY <2>1, <2>2
<1>10. all \subseteq first \cup UNION {Row(m) : m \in DOMAIN rows}
  <2> DEFINE both == first \cup UNION {Row(m) : m \in DOMAIN rows}
  <2>1. \A p \in (1 .. N) \X (1 .. W) : p[1] \in 1 .. N /\ p[2] \in 1 .. W
      OBVIOUS
  <2>2. \A n \in 1 .. N, k \in 1 .. W : CellOf(k, n + 3, t[n][k]) \in both
      BY <1>9
  <2> HIDE DEF both
  <2>3. \A p \in (1 .. N) \X (1 .. W) : CellOf(p[2], p[1] + 3, t[p[1]][p[2]]) \in both
      BY <2>1, <2>2
  <2>4. all \subseteq both
      BY <2>3
  <2> HIDE DEF all
  <2> QED BY <2>4 DEF both
<1>11. SheetCells(headers, rows) = all
  <2> HIDE DEF all
  <2> QED BY <1>4, <1>7, <1>8, <1>10
<1>12. CellsOf(t) = all
    BY DEF CellsOf
<1> HIDE DEF all
<1> QED BY <1>1, <1>3, <1>11, <1>12 DEF headers, rows

\* A sheet with the texts of a table, and nothing else.
IsSheetOf(t, sheet) ==
    /\ DOMAIN sheet = {<<p[2], p[1] + 3>> : p \in (1 .. Len(t)) \X (1 .. Len(t[1]))}
    /\ \A n \in 1 .. Len(t), k \in 1 .. Len(t[1]) : sheet[<<k, n + 3>>] = {t[n][k]}

\* What a reader finds in the cells of a table, and where.
LEMMA SheetIsRead ==
    ASSUME NEW t \in Seq(Seq(Text)), Len(t) > 0, Even(t),
           NEW cells, cells = CellsOf(t)
    PROVE  IsSheetOf(t, ReadSheet(cells))
<1> DEFINE places == (1 .. Len(t)) \X (1 .. Len(t[1]))
           At(p) == <<p[2], p[1] + 3>>
           In(p) == CellOf(p[2], p[1] + 3, t[p[1]][p[2]])
           What(p) == t[p[1]][p[2]]
<1>1. ASSUME NEW p \in places
      PROVE  PlaceOf(In(p)) = At(p) /\ ReadXml(In(p).text) = What(p)
  <2>1. p[1] \in 1 .. Len(t) /\ p[2] \in 1 .. Len(t[1]) /\ p[2] \in Nat
      OBVIOUS
  <2>2. t[p[1]] \in Seq(Text) /\ Len(t[p[1]]) = Len(t[1])
      BY <2>1 DEF Even
  <2>3. What(p) \in Text
      BY <2>1, <2>2
  <2> HIDE DEF What
  <2>4. /\ PlaceOf(CellOf(p[2], p[1] + 3, What(p))) = <<p[2], p[1] + 3>>
        /\ ReadXml(CellOf(p[2], p[1] + 3, What(p)).text) = What(p)
      BY <2>1, <2>3, CellIsRead
  <2> QED BY <2>4 DEF What
<1>2. \A p, q \in places : At(p) = At(q) => p = q
  <2>1. ASSUME NEW p \in places, NEW q \in places, At(p) = At(q) PROVE p = q
    <3>1. p[2] = q[2] /\ p[1] + 3 = q[1] + 3
        BY <2>1
    <3>2. p[1] \in Int /\ q[1] \in Int /\ p = <<p[1], p[2]>> /\ q = <<q[1], q[2]>>
        OBVIOUS
    <3>3. p[1] = q[1]
        BY <3>1, <3>2
    <3> QED BY <3>1, <3>2, <3>3
  <2> QED BY <2>1
<1>3. cells = {In(p) : p \in places}
    BY DEF CellsOf
<1>4. ReadSheet(cells) = [at \in {PlaceOf(c) : c \in cells} |->
                            {ReadXml(c.text) : c \in {d \in cells : PlaceOf(d) = at}}]
    BY DEF ReadSheet, PlaceOf
<1> HIDE DEF places, In, At, What
<1>5. {PlaceOf(c) : c \in cells} = {At(p) : p \in places}
  <2>1. ASSUME NEW c \in cells PROVE PlaceOf(c) \in {At(p) : p \in places}
    <3>1. PICK p \in places : c = In(p)
        BY <1>3
    <3> QED BY <1>1, <3>1
  <2>2. ASSUME NEW p \in places PROVE At(p) \in {PlaceOf(c) : c \in cells}
    <3>1. In(p) \in cells /\ PlaceOf(In(p)) = At(p)
        BY <1>1, <1>3
    <3> QED BY <3>1
  <2> QED BY <2>1, <2>2
<1>6. ASSUME NEW p \in places PROVE ReadSheet(cells)[At(p)] = {What(p)}
  <2>1. {d \in cells : PlaceOf(d) = At(p)} = {In(p)}
      BY <1>1, <1>2, <1>3
  <2>2. At(p) \in {PlaceOf(c) : c \in cells}
      BY <1>5
  <2>3. ReadSheet(cells)[At(p)] = {ReadXml(c.text) : c \in {d \in cells : PlaceOf(d) = At(p)}}
      BY <1>4, <2>2
  <2>4. ReadSheet(cells)[At(p)] = {ReadXml(In(p).text)}
      BY <2>1, <2>3
  <2> QED BY <1>1, <2>4
<1>7. DOMAIN ReadSheet(cells) = {At(p) : p \in places}
    BY <1>4, <1>5
<1>8. ASSUME NEW n \in 1 .. Len(t), NEW k \in 1 .. Len(t[1])
      PROVE  ReadSheet(cells)[<<k, n + 3>>] = {t[n][k]}
  <2> DEFINE p == <<n, k>>
  <2>1. p \in places /\ p[1] = n /\ p[2] = k
      BY DEF places
  <2> HIDE DEF p
  <2>2. At(p) = <<k, n + 3>> /\ What(p) = t[n][k]
      BY <2>1 DEF At, What
  <2> QED BY <1>6, <2>1, <2>2
<1> QED BY <1>7, <1>8 DEF At, places, IsSheetOf

\* The columns and the rows of some places.
LEMMA PlacesAre ==
    ASSUME NEW places, NEW D, D = {<<p[2], p[1] + 3>> : p \in places}
    PROVE  /\ {at[1] : at \in D} = {p[2] : p \in places}
           /\ {at[2] : at \in D} = {p[1] + 3 : p \in places}
<1> DEFINE At(p) == <<p[2], p[1] + 3>>
<1>1. \A p : At(p)[1] = p[2] /\ At(p)[2] = p[1] + 3
    OBVIOUS
<1>2. D = {At(p) : p \in places}
    OBVIOUS
<1> HIDE DEF At
<1>3. ASSUME NEW at \in D PROVE at[1] \in {p[2] : p \in places} /\ at[2] \in {p[1] + 3 : p \in places}
  <2>1. PICK p \in places : at = At(p)
      BY <1>2
  <2> QED BY <1>1, <2>1
<1>4. ASSUME NEW p \in places PROVE p[2] \in {at[1] : at \in D} /\ p[1] + 3 \in {at[2] : at \in D}
  <2>1. At(p) \in D /\ At(p)[1] = p[2] /\ At(p)[2] = p[1] + 3
      BY <1>1, <1>2
  <2> QED BY <2>1
<1> QED BY <1>3, <1>4

\* Every cell of the worksheet is at its place, and the filter spans them (worksheetXml).
LEMMA SheetOpens ==
    ASSUME NEW t \in Seq(Seq(Text)), Len(t) > 0, Even(t)
    PROVE  LET headers == Head(t)
               rows == Tail(t)
               range == FilterRange(headers, rows)
               sheet == ReadSheet(SheetCells(headers, rows))
           IN /\ \A k \in DOMAIN headers : sheet[<<k, 4>>] = {headers[k]}
              /\ \A n \in DOMAIN rows : \A k \in DOMAIN rows[n] :
                    sheet[<<k, DataStartRow + n - 1>>] = {rows[n][k]}
              /\ ColumnNumber(range.first[1]) = 1
              /\ ColumnNumber(range.last[1]) = Max({at[1] : at \in DOMAIN sheet})
              /\ range.last[2] = Max({at[2] : at \in DOMAIN sheet} \cup {DataStartRow})
<1> DEFINE headers == Head(t)
           rows == Tail(t)
           range == FilterRange(headers, rows)
           sheet == ReadSheet(SheetCells(headers, rows))
           N == Len(t)
           W == Len(t[1])
           places == (1 .. N) \X (1 .. W)
<1>1. /\ headers = t[1] /\ Len(rows) = N - 1
      /\ DOMAIN headers = 1 .. W /\ DOMAIN rows = 1 .. N - 1
      /\ \A n \in DOMAIN rows : n \in 1 .. N - 1 /\ rows[n] = t[n + 1]
    BY CellsAre
<1>2. /\ DOMAIN sheet = {<<p[2], p[1] + 3>> : p \in places}
      /\ \A n \in 1 .. N, k \in 1 .. W : sheet[<<k, n + 3>>] = {t[n][k]}
  <2> DEFINE cells == SheetCells(headers, rows)
  <2>1. cells = CellsOf(t)
      BY CellsAre
  <2> HIDE DEF cells, headers, rows
  <2>2. IsSheetOf(t, ReadSheet(cells))
      BY <2>1, SheetIsRead
  <2> QED BY <2>2 DEF cells, IsSheetOf
<1>3. N \in Nat \ {0} /\ W \in Nat \ {0} /\ \A n \in 1 .. N : DOMAIN t[n] = 1 .. W
  <2>1. \A n \in 1 .. N : t[n] \in Seq(Text) /\ Len(t[n]) = W /\ Len(t[n]) > 0
      BY DEF Even
  <2>2. N \in Nat \ {0} /\ 1 \in 1 .. N
      OBVIOUS
  <2>3. t[1] \in Seq(Text) /\ W > 0
      BY <2>1, <2>2
  <2> QED BY <2>1, <2>2, <2>3
<1>4. /\ range.first = <<ColumnName(1), 4>>
      /\ range.last = <<ColumnName(Len(headers)), LastRow(rows)>>
    BY DEF FilterRange
<1> HIDE DEF headers, rows, sheet, range, N, W
<1>5. \A k \in DOMAIN headers : sheet[<<k, 4>>] = {headers[k]}
  <2>1. 1 \in 1 .. N /\ 1 + 3 = 4
      BY <1>3
  <2> QED BY <1>1, <1>2, <2>1
<1>6. ASSUME NEW n \in DOMAIN rows, NEW k \in DOMAIN rows[n]
      PROVE  sheet[<<k, DataStartRow + n - 1>>] = {rows[n][k]}
  <2>1. n + 1 \in 1 .. N /\ rows[n] = t[n + 1] /\ DataStartRow + n - 1 = (n + 1) + 3
      BY <1>1, <1>3, SMTT(20) DEF DataStartRow
  <2>2. k \in 1 .. W
      BY <1>3, <2>1
  <2> QED BY <1>2, <2>1, <2>2, SMTT(20)
<1>7. ColumnNumber(range.first[1]) = 1
  <2>1. ColumnNumber(ColumnName(1)) = 1
      BY ColumnReadsBack
  <2> QED BY <1>4, <2>1
<1>8. ColumnNumber(range.last[1]) = W
  <2>1. Len(headers) = W
      BY <1>1 DEF W
  <2>2. ColumnNumber(ColumnName(W)) = W
      BY <1>3, ColumnReadsBack
  <2> QED BY <1>4, <2>1, <2>2
<1>9. Max({at[1] : at \in DOMAIN sheet}) = W
  <2> DEFINE S == {at[1] : at \in DOMAIN sheet}
  <2>1. S = 1 .. W
    <3>1. ASSUME NEW k \in 1 .. W PROVE \E p \in places : p[2] = k
      <4>1. <<1, k>> \in places /\ <<1, k>>[2] = k
          BY <1>3
      <4> QED BY <4>1
    <3>2. \A p \in places : p[2] \in 1 .. W
        OBVIOUS
    <3>3. S = {p[2] : p \in places}
        BY <1>2, PlacesAre
    <3> HIDE DEF S, places
    <3> QED BY <3>1, <3>2, <3>3
  <2>2. W \in S /\ S \subseteq Int /\ \A x \in S : x <= W
    <3> HIDE DEF S
    <3> QED BY <1>3, <2>1
  <2> HIDE DEF S
  <2> QED BY <2>2, MaxIs DEF S
<1>10. range.last[2] = LastRow(rows)
    BY <1>4
<1>11. LastRow(rows) = Max({at[2] : at \in DOMAIN sheet} \cup {DataStartRow})
  <2> DEFINE S == {at[2] : at \in DOMAIN sheet} \cup {DataStartRow}
             m == IF N + 3 > 5 THEN N + 3 ELSE 5
  <2>1. S = {n + 3 : n \in 1 .. N} \cup {5}
    <3>1. ASSUME NEW n \in 1 .. N PROVE \E p \in places : p[1] = n
      <4>1. <<n, 1>> \in places /\ <<n, 1>>[1] = n
          BY <1>3
      <4> QED BY <4>1
    <3>2. \A p \in places : p[1] \in 1 .. N
        OBVIOUS
    <3>3. {at[2] : at \in DOMAIN sheet} = {p[1] + 3 : p \in places}
        BY <1>2, PlacesAre
    <3> HIDE DEF places
    <3>4. {p[1] + 3 : p \in places} = {n + 3 : n \in 1 .. N}
        BY <3>1, <3>2
    <3> QED BY <3>3, <3>4 DEF DataStartRow
  <2>2. m \in S /\ S \subseteq Int /\ \A x \in S : x <= m
    <3> HIDE DEF S
    <3> QED BY <1>3, <2>1
  <2>3. Max(S) = m
    <3> HIDE DEF S, m
    <3> QED BY <2>2, MaxIs
  <2>4. Max({DataStartRow, DataStartRow + Len(rows) - 1}) = m
    <3> DEFINE T == {DataStartRow, DataStartRow + Len(rows) - 1}
    <3>1. T = {5, N + 3}
        BY <1>1, <1>3 DEF DataStartRow
    <3>2. m \in T /\ T \subseteq Int /\ \A x \in T : x <= m
      <4> HIDE DEF T
      <4> QED BY <1>3, <3>1
    <3> HIDE DEF T, m
    <3> QED BY <3>2, MaxIs DEF T
  <2> QED BY <2>3, <2>4 DEF LastRow
<1> QED BY <1>5, <1>6, <1>7, <1>8, <1>9, <1>10, <1>11 DEF headers, rows, sheet, range

(***************************************************************************)
(* The archive.                                                            *)
(***************************************************************************)
IsBytesRun(spans, n, h) ==
    /\ h \in [0 .. n -> Nat] /\ h[0] = 0
    /\ \A k \in 1 .. n : h[k] = h[k - 1] + spans[k]
    /\ Bytes(spans) = h[n]

\* Bytes adds the spans one after the other.
LEMMA BytesRunExists ==
    ASSUME NEW n \in Nat, NEW spans \in [1 .. n -> Nat]
    PROVE  \E h : IsBytesRun(spans, n, h)
<1> DEFINE Eq(g) == g = [t \in SUBSET (1 .. n) |->
                            IF t = {} THEN 0 ELSE g[t \ {Max(t)}] + spans[Max(t)]]
           all == CHOOSE g : Eq(g)
           step == [p \in Nat \X Nat |-> p[1] + p[2]]
<1>1. DOMAIN spans = 1 .. n
    OBVIOUS
<1>2. Bytes(spans) = all[1 .. n]
    BY <1>1 DEF Bytes, FoldLeft, MapThenFoldSet
<1>3. step \in [Nat \X Nat -> Nat]
    OBVIOUS
<1>4. \A u, c \in Nat : step[<<u, c>>] = u + c
    OBVIOUS
<1> HIDE DEF step
<1>5. PICK g \in [SUBSET (1 .. n) -> Nat] : Folds(step, 0, spans, g, 1 .. n)
    BY <1>3, FoldsExist
<1>6. ASSUME NEW t \in SUBSET (1 .. n), t # {}
      PROVE  Max(t) \in 1 .. n /\ t \ {Max(t)} \in SUBSET (1 .. n) /\ spans[Max(t)] \in Nat
    BY <1>6, MaxOf
<1>7. Eq(g)
  <2>1. ASSUME NEW t \in SUBSET (1 .. n), t # {}
        PROVE  g[t] = g[t \ {Max(t)}] + spans[Max(t)]
    <3>1. g[t] = step[<<g[t \ {Max(t)}], spans[Max(t)]>>]
        BY <1>5, <2>1 DEF Folds
    <3>2. g[t \ {Max(t)}] \in Nat /\ spans[Max(t)] \in Nat
        BY <1>6, <2>1
    <3> QED BY <1>4, <3>1, <3>2
  <2>2. g[{}] = 0
      BY <1>5 DEF Folds
  <2> QED BY <2>1, <2>2
<1>8. Eq(all)
    BY <1>7
<1> HIDE DEF all
<1>9. \A t \in SUBSET (1 .. n) : t # {} /\ all[t \ {Max(t)}] \in Nat =>
            all[t] = step[<<all[t \ {Max(t)}], spans[Max(t)]>>]
  <2>1. \A t \in SUBSET (1 .. n) : t # {} => all[t] = all[t \ {Max(t)}] + spans[Max(t)]
      BY <1>8
  <2> HIDE DEF Eq
  <2> QED BY <1>4, <1>6, <2>1
<1>10. IsFold(Nat, Nat, step, 0, spans, n, all)
  <2>1. all[{}] = 0
      BY <1>8
  <2> QED BY <1>3, <1>9, <2>1 DEF IsFold
<1>11. PICK h : IsRun(Nat, step, 0, spans, n, h) /\ h[n] = all[1 .. n]
  <2> DEFINE zero == 0
             X == Nat
  <2>1. IsFold(X, X, step, zero, spans, n, all)
      BY <1>10
  <2> HIDE DEF zero, X
  <2>2. \E h : IsRun(X, step, zero, spans, n, h) /\ h[n] = all[1 .. n]
      BY <2>1, RunOfFold
  <2> QED BY <2>2 DEF zero, X
<1>12. h \in [0 .. n -> Nat] /\ h[0] = 0
    BY <1>11 DEF IsRun
<1>13. ASSUME NEW k \in 1 .. n PROVE h[k] = h[k - 1] + spans[k]
  <2>1. k - 1 \in 0 .. n /\ spans[k] \in Nat
      OBVIOUS
  <2>2. h[k] = step[<<h[k - 1], spans[k]>>] /\ h[k - 1] \in Nat
      BY <1>11, <2>1 DEF IsRun
  <2> QED BY <1>4, <2>1, <2>2
<1> QED BY <1>2, <1>11, <1>12, <1>13 DEF IsBytesRun

\* No spans have no bytes.
LEMMA BytesOfNone ==
    ASSUME NEW spans \in [1 .. 0 -> Nat]
    PROVE  Bytes(spans) = 0
<1>1. PICK h : IsBytesRun(spans, 0, h)
    BY BytesRunExists
<1> QED BY <1>1 DEF IsBytesRun

\* One span more has its bytes more.
LEMMA BytesOfOneMore ==
    ASSUME NEW n \in Nat, NEW less \in [1 .. n -> Nat], NEW more \in [1 .. n + 1 -> Nat],
           \A i \in 1 .. n : more[i] = less[i]
    PROVE  Bytes(less) \in Nat /\ Bytes(more) = Bytes(less) + more[n + 1]
<1>2. PICK f : IsBytesRun(less, n, f)
    BY BytesRunExists
<1>3. PICK h : IsBytesRun(more, n + 1, h)
    BY BytesRunExists
<1> DEFINE P == {k \in Nat : k <= n => h[k] = f[k]}
<1>4. 0 \in P
    BY <1>2, <1>3 DEF IsBytesRun
<1>5. ASSUME NEW k \in Nat, k \in P PROVE k + 1 \in P
  <2>1. CASE k + 1 <= n
    <3>1. k + 1 \in 1 .. n /\ k + 1 \in 1 .. n + 1 /\ (k + 1) - 1 = k /\ k <= n /\ k + 1 \in Nat
        BY <2>1
    <3>2. h[k] = f[k] /\ more[k + 1] = less[k + 1]
        BY <1>5, <3>1
    <3>3. h[k + 1] = h[k] + more[k + 1] /\ f[k + 1] = f[k] + less[k + 1]
        BY <1>2, <1>3, <3>1 DEF IsBytesRun
    <3> QED BY <3>1, <3>2, <3>3
  <2>2. CASE ~(k + 1 <= n)
      BY <2>2
  <2> QED BY <2>1, <2>2
<1>6. h[n] = f[n] /\ f[n] \in Nat
  <2>1. Nat \subseteq P
      BY <1>4, <1>5, NumberInduction
  <2> QED BY <1>2, <2>1 DEF IsBytesRun
<1>7. h[n + 1] = h[n] + more[n + 1]
  <2>1. n + 1 \in 1 .. n + 1 /\ (n + 1) - 1 = n
      OBVIOUS
  <2> QED BY <1>3, <2>1 DEF IsBytesRun
<1>8. Bytes(less) = f[n] /\ Bytes(more) = h[n + 1]
    BY <1>2, <1>3 DEF IsBytesRun
<1> QED BY <1>6, <1>7, <1>8

\* A part of an archive.
Part == [part : {"local", "name", "content", "entry"}, file : Nat, bytes : Nat]

\* Each part begins where the one before it ends.
AreBegins(parts, begins) ==
    /\ begins \in Seq(Nat) /\ Len(begins) = Len(parts) + 1 /\ begins[1] = 0
    /\ \A k \in 1 .. Len(parts) : begins[k + 1] = begins[k] + parts[k].bytes

\* Begins is where they do.
LEMMA BeginsAre ==
    ASSUME NEW parts \in Seq(Part)
    PROVE  AreBegins(parts, Begins(parts))
<1> DEFINE n == Len(parts)
           X == {at \in Seq(Nat) : Len(at) > 0}
           Next1(at, p) == Append(at, Last(at) + p.bytes)
           Eq(g) == g = [t \in SUBSET (1 .. n) |->
                            IF t = {} THEN <<0>>
                            ELSE Append(g[t \ {Max(t)}],
                                        Last(g[t \ {Max(t)}]) + parts[Max(t)].bytes)]
           all == CHOOSE g : Eq(g)
           step == [p \in X \X Part |-> Next1(p[1], p[2])]
<1>1. DOMAIN parts = 1 .. n /\ n \in Nat /\ parts \in [1 .. n -> Part]
    OBVIOUS
<1>2. Begins(parts) = all[1 .. n]
    BY <1>1 DEF Begins, FoldLeft, MapThenFoldSet
<1> HIDE DEF n
<1>3. ASSUME NEW at \in X, NEW p \in Part
      PROVE  /\ Next1(at, p) \in X /\ Len(Next1(at, p)) = Len(at) + 1
             /\ \A i \in 1 .. Len(at) : Next1(at, p)[i] = at[i]
             /\ Next1(at, p)[Len(at) + 1] = at[Len(at)] + p.bytes
  <2> DEFINE x == Last(at) + p.bytes
  <2>1. Last(at) = at[Len(at)] /\ at[Len(at)] \in Nat /\ p.bytes \in Nat
      BY DEF Last, Part
  <2>2. x \in Nat /\ x = at[Len(at)] + p.bytes
      BY <2>1
  <2> HIDE DEF x
  <2>3. /\ Append(at, x) \in Seq(Nat) /\ Len(Append(at, x)) = Len(at) + 1
        /\ \A i \in 1 .. Len(at) : Append(at, x)[i] = at[i]
        /\ Append(at, x)[Len(at) + 1] = x
      BY <2>2
  <2> QED BY <2>2, <2>3 DEF x
<1>4. step \in [X \X Part -> X] /\ \A u \in X, c \in Part : step[<<u, c>>] = Next1(u, c)
  <2>1. \A u \in X, c \in Part : Next1(u, c) \in X
      BY <1>3
  <2> HIDE DEF Next1, X
  <2> QED BY <2>1
<1>5. <<0>> \in X /\ Len(<<0>>) = 1 /\ <<0>>[1] = 0
    OBVIOUS
<1> HIDE DEF step, X
<1>6. PICK g \in [SUBSET (1 .. n) -> X] : Folds(step, <<0>>, parts, g, 1 .. n)
  <2> DEFINE zero == <<0>>
  <2>1. zero \in X
      BY <1>5
  <2> HIDE DEF zero
  <2>2. \E g \in [SUBSET (1 .. n) -> X] : Folds(step, zero, parts, g, 1 .. n)
      BY <1>1, <1>4, <2>1, FoldsExist
  <2> QED BY <2>2 DEF zero
<1>7. ASSUME NEW t \in SUBSET (1 .. n), t # {}
      PROVE  Max(t) \in 1 .. n /\ t \ {Max(t)} \in SUBSET (1 .. n) /\ parts[Max(t)] \in Part
    BY <1>1, <1>7, MaxOf
<1>8. Eq(g)
  <2>1. ASSUME NEW t \in SUBSET (1 .. n), t # {}
        PROVE  g[t] = Next1(g[t \ {Max(t)}], parts[Max(t)])
    <3>1. g[t] = step[<<g[t \ {Max(t)}], parts[Max(t)]>>]
        BY <1>6, <2>1 DEF Folds
    <3>2. g[t \ {Max(t)}] \in X /\ parts[Max(t)] \in Part
        BY <1>7, <2>1
    <3> HIDE DEF Next1
    <3> QED BY <1>4, <3>1, <3>2
  <2>2. g[{}] = <<0>>
      BY <1>6, Zenon DEF Folds
  <2>3. DOMAIN g = SUBSET (1 .. n) /\ g = [t \in SUBSET (1 .. n) |-> g[t]]
      OBVIOUS
  <2>4. g = [t \in SUBSET (1 .. n) |-> IF t = {} THEN <<0>> ELSE Next1(g[t \ {Max(t)}], parts[Max(t)])]
    <3> HIDE DEF Next1
    <3> QED BY <2>1, <2>2, <2>3, Zenon
  <2> QED BY <2>4
<1>9. Eq(all)
    BY <1>8, Zenon
<1> HIDE DEF all
<1>10. /\ all[{}] = <<0>>
       /\ \A t \in SUBSET (1 .. n) : t # {} => all[t] = Next1(all[t \ {Max(t)}], parts[Max(t)])
    BY <1>9
<1> HIDE DEF Eq, Next1
<1>11. \A t \in SUBSET (1 .. n) : t # {} /\ all[t \ {Max(t)}] \in X =>
            all[t] = step[<<all[t \ {Max(t)}], parts[Max(t)]>>]
    BY <1>4, <1>7, <1>10
<1>12. IsFold(X, Part, step, <<0>>, parts, n, all)
    BY <1>1, <1>4, <1>5, <1>10, <1>11 DEF IsFold
<1>13. PICK h : IsRun(X, step, <<0>>, parts, n, h) /\ h[n] = all[1 .. n]
  <2> DEFINE zero == <<0>>
             Y == Part
  <2>1. IsFold(X, Y, step, zero, parts, n, all)
      BY <1>12
  <2> HIDE DEF zero, Y
  <2>2. \E h : IsRun(X, step, zero, parts, n, h) /\ h[n] = all[1 .. n]
      BY <2>1, RunOfFold
  <2> QED BY <2>2 DEF zero
<1>14. (\A k \in 0 .. n : h[k] \in X) /\ h[0] = <<0>>
    BY <1>13 DEF IsRun
<1>15. ASSUME NEW k \in 1 .. n PROVE h[k] = Next1(h[k - 1], parts[k]) /\ h[k - 1] \in X /\ parts[k] \in Part
  <2>1. k - 1 \in 0 .. n /\ parts[k] \in Part
      BY <1>1
  <2>2. h[k] = step[<<h[k - 1], parts[k]>>] /\ h[k - 1] \in X
      BY <1>13, <1>14, <2>1 DEF IsRun
  <2> QED BY <1>4, <2>1, <2>2
<1> DEFINE Good(k) == /\ Len(h[k]) = k + 1 /\ h[k][1] = 0
                      /\ \A j \in 1 .. k : h[k][j + 1] = h[k][j] + parts[j].bytes
           P == {k \in Nat : k <= n => Good(k)}
<1>16. 0 \in P
    BY <1>5, <1>14
<1>17. ASSUME NEW k \in Nat, k \in P PROVE k + 1 \in P
  <2>1. CASE k + 1 <= n
    <3>1. k + 1 \in 1 .. n /\ (k + 1) - 1 = k /\ k <= n /\ k + 1 \in Nat
        BY <1>1, <2>1
    <3>2. Good(k)
        BY <1>17, <3>1
    <3>3. h[k + 1] = Next1(h[k], parts[k + 1]) /\ h[k] \in X /\ parts[k + 1] \in Part
        BY <1>15, <3>1
    <3>4. /\ Len(h[k + 1]) = Len(h[k]) + 1
          /\ \A i \in 1 .. Len(h[k]) : h[k + 1][i] = h[k][i]
          /\ h[k + 1][Len(h[k]) + 1] = h[k][Len(h[k])] + parts[k + 1].bytes
      <4> DEFINE u == h[k]
                 c == parts[k + 1]
                 v == Next1(u, c)
      <4>1. u \in X /\ c \in Part
          BY <3>3
      <4> HIDE DEF u, c
      <4>2. Len(v) = Len(u) + 1
          BY <1>3, <4>1
      <4>3. \A i \in 1 .. Len(u) : v[i] = u[i]
          BY <1>3, <4>1
      <4>4. v[Len(u) + 1] = u[Len(u)] + c.bytes
          BY <1>3, <4>1
      <4> HIDE DEF v
      <4>5. h[k + 1] = v /\ h[k] = u /\ parts[k + 1] = c
          BY <3>3 DEF u, c, v
      <4> QED BY <4>2, <4>3, <4>4, <4>5
    <3>5. Len(h[k + 1]) = (k + 1) + 1 /\ h[k + 1][1] = 0
      <4>1. 1 \in 1 .. Len(h[k])
          BY <3>2
      <4> QED BY <3>2, <3>4, <4>1
    <3>6. ASSUME NEW j \in 1 .. k + 1
          PROVE  h[k + 1][j + 1] = h[k + 1][j] + parts[j].bytes
      <4>1. CASE j = k + 1
        <5>1. j = Len(h[k]) /\ j \in 1 .. Len(h[k])
            BY <3>2, <4>1
        <5> QED BY <3>4, <4>1, <5>1
      <4>2. CASE j # k + 1
        <5>1. j \in 1 .. k /\ j \in 1 .. Len(h[k]) /\ j + 1 \in 1 .. Len(h[k])
            BY <3>2, <4>2
        <5>2. h[k][j + 1] = h[k][j] + parts[j].bytes
            BY <3>2, <5>1
        <5> QED BY <3>4, <5>1, <5>2
      <4> QED BY <4>1, <4>2
    <3>7. Good(k + 1)
        BY <3>5, <3>6
    <3> HIDE DEF Good
    <3> QED BY <3>1, <3>7
  <2>2. CASE ~(k + 1 <= n)
    <3> HIDE DEF Good
    <3> QED BY <2>2
  <2> QED BY <2>1, <2>2
<1>18. Good(n)
  <2> HIDE DEF Good
  <2>1. Nat \subseteq P
      BY <1>16, <1>17, NumberInduction
  <2> QED BY <1>1, <2>1
<1>19. h[n] \in Seq(Nat)
    BY <1>1, <1>14 DEF X
<1> QED BY <1>2, <1>13, <1>18, <1>19 DEF AreBegins, n

\* A part that lies in a sequence after its first p elements.
Lies(part, p, seq) ==
    /\ p \in Nat /\ Len(part) \in Nat /\ p + Len(part) <= Len(seq)
    /\ \A j \in 1 .. Len(part) : seq[p + j] = part[j]

\* It still does when the sequence goes on.
LEMMA LiesStill ==
    ASSUME NEW X, NEW u \in Seq(X), NEW v \in Seq(X), NEW part, NEW p, Lies(part, p, u)
    PROVE  Lies(part, p, u \o v)
<1> DEFINE w == u \o v
<1>1. /\ Len(u) \in Nat /\ Len(v) \in Nat /\ Len(w) = Len(u) + Len(v)
      /\ \A i \in 1 .. Len(u) : w[i] = u[i]
    BY Concats
<1> HIDE DEF w
<1>2. /\ p \in Nat /\ Len(part) \in Nat /\ p + Len(part) <= Len(u)
      /\ \A j \in 1 .. Len(part) : u[p + j] = part[j]
    BY DEF Lies
<1>3. p + Len(part) <= Len(w)
    BY <1>1, <1>2
<1>4. ASSUME NEW j \in 1 .. Len(part) PROVE w[p + j] = part[j]
  <2>1. p + j \in 1 .. Len(u)
      BY <1>1, <1>2
  <2> QED BY <1>1, <1>2, <2>1
<1>5. Lies(part, p, w)
    BY <1>2, <1>3, <1>4 DEF Lies
<1> QED BY <1>5 DEF w

\* What is put at the end lies after what was there.
LEMMA LiesLast ==
    ASSUME NEW X, NEW u \in Seq(X), NEW v \in Seq(X)
    PROVE  Lies(v, Len(u), u \o v)
<1> DEFINE w == u \o v
<1>1. /\ Len(u) \in Nat /\ Len(v) \in Nat /\ Len(w) = Len(u) + Len(v)
      /\ \A i \in 1 .. Len(v) : w[Len(u) + i] = v[i]
    BY Concats
<1> HIDE DEF w
<1>2. Lies(v, Len(u), w)
    BY <1>1 DEF Lies
<1> QED BY <1>2 DEF w

\* The places of the parts in what they are flattened to.
AreFlatPlaces(X, parts, n, f) ==
    /\ \A k \in 0 .. n : f[k] \in Seq(X) /\ Len(f[k]) \in Nat
    /\ Len(f[0]) = 0
    /\ \A k \in 1 .. n :
        /\ Len(f[k]) = Len(f[k - 1]) + Len(parts[k])
        /\ Lies(parts[k], Len(f[k - 1]), f[n])

\* Each part lies after those before it.
LEMMA FlatPlaces ==
    ASSUME NEW X, NEW n \in Nat, NEW parts \in [1 .. n -> Seq(X)], NEW f, IsFlat(X, parts, n, f)
    PROVE  AreFlatPlaces(X, parts, n, f)
<1>1. /\ \A k \in 0 .. n : f[k] \in Seq(X)
      /\ f[0] = <<>> /\ \A k \in 1 .. n : f[k] = f[k - 1] \o parts[k]
    BY DEF IsFlat
<1>2. \A k \in 0 .. n : Len(f[k]) \in Nat
    BY <1>1, SequencesAre
<1>3. Len(f[0]) = 0
    BY <1>1
<1>4. ASSUME NEW k \in 1 .. n
      PROVE  /\ Len(f[k]) = Len(f[k - 1]) + Len(parts[k])
             /\ Lies(parts[k], Len(f[k - 1]), f[k])
             /\ \A part, p : Lies(part, p, f[k - 1]) => Lies(part, p, f[k])
  <2> DEFINE u == f[k - 1]
             v == parts[k]
  <2>1. k \in 0 .. n /\ k - 1 \in 0 .. n
      OBVIOUS
  <2>2. u \in Seq(X) /\ v \in Seq(X) /\ f[k] = u \o v
      BY <1>1, <2>1
  <2> HIDE DEF u, v
  <2>3. Len(u \o v) = Len(u) + Len(v)
      BY <2>2, Concats
  <2>4. Lies(v, Len(u), u \o v)
      BY <2>2, LiesLast
  <2>5. \A part, p : Lies(part, p, u) => Lies(part, p, u \o v)
      BY <2>2, LiesStill
  <2>6. /\ Len(f[k]) = Len(u) + Len(v) /\ Lies(v, Len(u), f[k])
        /\ \A part, p : Lies(part, p, u) => Lies(part, p, f[k])
      BY <2>2, <2>3, <2>4, <2>5
  <2> QED BY <2>6 DEF u, v
<1> DEFINE Good(m) == \A k \in 1 .. m : Lies(parts[k], Len(f[k - 1]), f[m])
           P == {m \in Nat : m <= n => Good(m)}
<1>5. 0 \in P
    OBVIOUS
<1>6. ASSUME NEW m \in Nat, m \in P PROVE m + 1 \in P
  <2>1. CASE m + 1 <= n
    <3>1. m + 1 \in 1 .. n /\ (m + 1) - 1 = m /\ m <= n /\ m + 1 \in Nat
        BY <2>1
    <3>2. Good(m)
        BY <1>6, <3>1
    <3>3. /\ Lies(parts[m + 1], Len(f[m]), f[m + 1])
          /\ \A part, p : Lies(part, p, f[m]) => Lies(part, p, f[m + 1])
      <4> DEFINE l == m + 1
      <4>1. l \in 1 .. n /\ l - 1 = m
          BY <3>1
      <4> HIDE DEF l
      <4>2. /\ Lies(parts[l], Len(f[l - 1]), f[l])
            /\ \A part, p : Lies(part, p, f[l - 1]) => Lies(part, p, f[l])
          BY <1>4, <4>1
      <4>3. /\ Lies(parts[l], Len(f[m]), f[l])
            /\ \A part, p : Lies(part, p, f[m]) => Lies(part, p, f[l])
          BY <4>1, <4>2
      <4> QED BY <4>3 DEF l
    <3>4. ASSUME NEW k \in 1 .. m + 1 PROVE Lies(parts[k], Len(f[k - 1]), f[m + 1])
      <4>1. CASE k = m + 1
        <5>1. k - 1 = m
            BY <3>1, <4>1
        <5> QED BY <3>3, <4>1, <5>1
      <4>2. CASE k # m + 1
        <5>1. k \in 1 .. m
            BY <4>2
        <5>2. Lies(parts[k], Len(f[k - 1]), f[m])
            BY <3>2, <5>1
        <5> QED BY <3>3, <5>2
      <4> QED BY <4>1, <4>2
    <3>5. Good(m + 1)
        BY <3>4
    <3> HIDE DEF Good
    <3> QED BY <3>1, <3>5
  <2>2. CASE ~(m + 1 <= n)
    <3> HIDE DEF Good
    <3> QED BY <2>2
  <2> QED BY <2>1, <2>2
<1>7. Good(n)
  <2> HIDE DEF Good
  <2>1. Nat \subseteq P
      BY <1>5, <1>6, NumberInduction
  <2> QED BY <2>1
<1> QED BY <1>1, <1>2, <1>3, <1>4, <1>7 DEF AreFlatPlaces

\* A sequence of three.
LEMMA TripleIs ==
    ASSUME NEW X, NEW a \in X, NEW b \in X, NEW c \in X
    PROVE  /\ <<a, b, c>> \in Seq(X) /\ Len(<<a, b, c>>) = 3
           /\ <<a, b, c>>[1] = a /\ <<a, b, c>>[2] = b /\ <<a, b, c>>[3] = c
OBVIOUS

\* What is packed.
File == [name : Nat, size : Nat]

\* The parts of a file, and its entry in the directory.
LocalOf(files, i) == [part |-> "local", file |-> i, bytes |-> LocalHeader]

NameOf(files, i) == [part |-> "name", file |-> i, bytes |-> files[i].name]

ContentOf(files, i) == [part |-> "content", file |-> i, bytes |-> files[i].size]

EntryOf(files, i) == [part |-> "entry", file |-> i, bytes |-> CentralHeader]

\* The first half of an archive, and its directory.
LocalsOf(files) ==
    FlattenSeq([i \in DOMAIN files |->
                    <<LocalOf(files, i), NameOf(files, i), ContentOf(files, i)>>])

EntriesOf(files) ==
    FlattenSeq([i \in DOMAIN files |-> <<EntryOf(files, i), NameOf(files, i)>>])

\* They are parts.
LEMMA PartsAre ==
    ASSUME NEW files \in Seq(File), NEW i \in 1 .. Len(files)
    PROVE  /\ LocalOf(files, i) \in Part /\ NameOf(files, i) \in Part
           /\ ContentOf(files, i) \in Part /\ EntryOf(files, i) \in Part
<1>0. files[i] \in File
    OBVIOUS
<1>1. files[i].name \in Nat /\ files[i].size \in Nat /\ i \in Nat
    BY <1>0 DEF File
<1>2. LocalHeader \in Nat /\ CentralHeader \in Nat
    BY DEF LocalHeader, CentralHeader
<1> QED BY <1>1, <1>2 DEF LocalOf, NameOf, ContentOf, EntryOf, Part

\* The files come one after the other, each with its header, its name and its contents.
LocalsLie(files, seq, at) ==
    /\ at \in [0 .. Len(files) -> Nat] /\ at[0] = 0 /\ at[Len(files)] = Len(seq)
    /\ \A i \in 1 .. Len(files) :
        /\ at[i] = at[i - 1] + 3 /\ at[i] <= Len(seq)
        /\ seq[at[i - 1] + 1] = LocalOf(files, i)
        /\ seq[at[i - 1] + 2] = NameOf(files, i)
        /\ seq[at[i - 1] + 3] = ContentOf(files, i)

\* The files lie so.
LEMMA LocalsAre ==
    ASSUME NEW files \in Seq(File)
    PROVE  LocalsOf(files) \in Seq(Part) /\ \E at : LocalsLie(files, LocalsOf(files), at)
<1> DEFINE n == Len(files)
           Three(i) == <<LocalOf(files, i), NameOf(files, i), ContentOf(files, i)>>
           parts == [i \in DOMAIN files |-> Three(i)]
<1>1. n \in Nat /\ DOMAIN files = 1 .. n
    OBVIOUS
<1>2. ASSUME NEW i \in 1 .. n
      PROVE  /\ Three(i) \in Seq(Part) /\ Len(Three(i)) = 3 /\ Three(i)[1] = LocalOf(files, i)
             /\ Three(i)[2] = NameOf(files, i) /\ Three(i)[3] = ContentOf(files, i)
    BY PartsAre, TripleIs
<1>3. LocalsOf(files) = FlattenSeq(parts)
    BY DEF LocalsOf
<1> HIDE DEF Three, n
<1>4. parts \in [1 .. n -> Seq(Part)] /\ \A i \in 1 .. n : parts[i] = Three(i)
    BY <1>1, <1>2
<1> HIDE DEF parts
<1>5. PICK f : IsFlat(Part, parts, n, f)
    BY <1>1, <1>4, FlatExists
<1>6. /\ \A k \in 0 .. n : f[k] \in Seq(Part) /\ Len(f[k]) \in Nat
      /\ Len(f[0]) = 0
      /\ \A k \in 1 .. n :
           /\ Len(f[k]) = Len(f[k - 1]) + Len(parts[k])
           /\ Len(f[k]) <= Len(f[n])
           /\ \A j \in 1 .. Len(parts[k]) : f[n][Len(f[k - 1]) + j] = parts[k][j]
  <2> DEFINE X == Part
  <2>1. parts \in [1 .. n -> Seq(X)] /\ IsFlat(X, parts, n, f)
      BY <1>4, <1>5
  <2> HIDE DEF X
  <2>2. AreFlatPlaces(X, parts, n, f)
      BY <1>1, <2>1, FlatPlaces
  <2> QED BY <2>2 DEF AreFlatPlaces, Lies, X
<1>7. LocalsOf(files) = f[n] /\ f[n] \in Seq(Part)
    BY <1>1, <1>3, <1>5, <1>6 DEF IsFlat
<1> DEFINE at == [k \in 0 .. n |-> Len(f[k])]
<1>8. at \in [0 .. n -> Nat] /\ at[0] = 0 /\ at[n] = Len(f[n])
    BY <1>1, <1>6
<1>9. ASSUME NEW i \in 1 .. n
      PROVE  /\ at[i] = at[i - 1] + 3 /\ at[i] <= Len(f[n])
             /\ f[n][at[i - 1] + 1] = LocalOf(files, i)
             /\ f[n][at[i - 1] + 2] = NameOf(files, i)
             /\ f[n][at[i - 1] + 3] = ContentOf(files, i)
  <2>1. i \in 0 .. n /\ i - 1 \in 0 .. n
      BY <1>1
  <2>2. at[i] = Len(f[i]) /\ at[i - 1] = Len(f[i - 1])
      BY <2>1
  <2>3. /\ Len(parts[i]) = 3 /\ parts[i][1] = LocalOf(files, i)
        /\ parts[i][2] = NameOf(files, i) /\ parts[i][3] = ContentOf(files, i)
      BY <1>2, <1>4
  <2> HIDE DEF at
  <2>4. /\ at[i] = at[i - 1] + 3 /\ at[i] <= Len(f[n])
        /\ \A j \in 1 .. 3 : f[n][at[i - 1] + j] = parts[i][j]
      BY <1>6, <2>2, <2>3
  <2>5. /\ f[n][at[i - 1] + 1] = parts[i][1] /\ f[n][at[i - 1] + 2] = parts[i][2]
        /\ f[n][at[i - 1] + 3] = parts[i][3]
      BY <2>4
  <2> QED BY <2>3, <2>4, <2>5
<1> HIDE DEF at
<1>10. LocalsLie(files, f[n], at)
    BY <1>8, <1>9 DEF LocalsLie, n
<1> QED BY <1>7, <1>10

\* Where the entries and the names of a directory lie.
EntriesLie(files, seq, at) ==
    /\ at \in [0 .. Len(files) -> Nat] /\ at[0] = 0 /\ at[Len(files)] = Len(seq)
    /\ \A i \in 1 .. Len(files) :
        /\ at[i] = at[i - 1] + 2 /\ at[i] <= Len(seq)
        /\ seq[at[i - 1] + 1] = EntryOf(files, i)
        /\ seq[at[i - 1] + 2] = NameOf(files, i)

\* The directory has an entry and a name for each of them.
LEMMA EntriesAre ==
    ASSUME NEW files \in Seq(File)
    PROVE  EntriesOf(files) \in Seq(Part) /\ \E at : EntriesLie(files, EntriesOf(files), at)
<1> DEFINE n == Len(files)
           Two(i) == <<EntryOf(files, i), NameOf(files, i)>>
           parts == [i \in DOMAIN files |-> Two(i)]
<1>1. n \in Nat /\ DOMAIN files = 1 .. n
    OBVIOUS
<1>2. ASSUME NEW i \in 1 .. n
      PROVE  /\ Two(i) \in Seq(Part) /\ Len(Two(i)) = 2
             /\ Two(i)[1] = EntryOf(files, i) /\ Two(i)[2] = NameOf(files, i)
    BY PartsAre, PairIs
<1>3. EntriesOf(files) = FlattenSeq(parts)
    BY DEF EntriesOf
<1> HIDE DEF Two, n
<1>4. parts \in [1 .. n -> Seq(Part)] /\ \A i \in 1 .. n : parts[i] = Two(i)
    BY <1>1, <1>2
<1> HIDE DEF parts
<1>5. PICK f : IsFlat(Part, parts, n, f)
    BY <1>1, <1>4, FlatExists
<1>6. /\ \A k \in 0 .. n : f[k] \in Seq(Part) /\ Len(f[k]) \in Nat
      /\ Len(f[0]) = 0
      /\ \A k \in 1 .. n :
           /\ Len(f[k]) = Len(f[k - 1]) + Len(parts[k])
           /\ Len(f[k]) <= Len(f[n])
           /\ \A j \in 1 .. Len(parts[k]) : f[n][Len(f[k - 1]) + j] = parts[k][j]
  <2> DEFINE X == Part
  <2>1. parts \in [1 .. n -> Seq(X)] /\ IsFlat(X, parts, n, f)
      BY <1>4, <1>5
  <2> HIDE DEF X
  <2>2. AreFlatPlaces(X, parts, n, f)
      BY <1>1, <2>1, FlatPlaces
  <2> QED BY <2>2 DEF AreFlatPlaces, Lies, X
<1>7. EntriesOf(files) = f[n] /\ f[n] \in Seq(Part)
    BY <1>1, <1>3, <1>5, <1>6 DEF IsFlat
<1> DEFINE at == [k \in 0 .. n |-> Len(f[k])]
<1>8. at \in [0 .. n -> Nat] /\ at[0] = 0 /\ at[n] = Len(f[n])
    BY <1>1, <1>6
<1>9. ASSUME NEW i \in 1 .. n
      PROVE  /\ at[i] = at[i - 1] + 2 /\ at[i] <= Len(f[n])
             /\ f[n][at[i - 1] + 1] = EntryOf(files, i)
             /\ f[n][at[i - 1] + 2] = NameOf(files, i)
  <2>1. i \in 0 .. n /\ i - 1 \in 0 .. n
      BY <1>1
  <2>2. at[i] = Len(f[i]) /\ at[i - 1] = Len(f[i - 1])
      BY <2>1
  <2>3. Len(parts[i]) = 2 /\ parts[i][1] = EntryOf(files, i) /\ parts[i][2] = NameOf(files, i)
      BY <1>2, <1>4
  <2> HIDE DEF at
  <2>4. /\ at[i] = at[i - 1] + 2 /\ at[i] <= Len(f[n])
        /\ \A j \in 1 .. 2 : f[n][at[i - 1] + j] = parts[i][j]
      BY <1>6, <2>2, <2>3
  <2>5. /\ f[n][at[i - 1] + 1] = parts[i][1] /\ f[n][at[i - 1] + 2] = parts[i][2]
      BY <2>4
  <2> QED BY <2>3, <2>4, <2>5
<1> HIDE DEF at
<1>10. EntriesLie(files, f[n], at)
    BY <1>8, <1>9 DEF EntriesLie, n
<1> QED BY <1>7, <1>10

\* Where a file begins, and how much of the directory there is after some of them.
LEMMA OffsetGrows ==
    ASSUME NEW files \in Seq(File)
    PROVE  /\ OffsetOf(files, 1) = 0
           /\ \A i \in 1 .. Len(files) :
                /\ OffsetOf(files, i) \in Nat
                /\ OffsetOf(files, i + 1) =
                    OffsetOf(files, i) + (LocalHeader + files[i].name + files[i].size)
<1> DEFINE Span(k) == LocalHeader + files[k].name + files[k].size
           Spans(i) == [k \in 1 .. i - 1 |-> Span(k)]
<1>1. ASSUME NEW k \in 1 .. Len(files) PROVE Span(k) \in Nat
  <2>1. files[k] \in File
      OBVIOUS
  <2> QED BY <2>1 DEF File, LocalHeader
<1>2. \A i : OffsetOf(files, i) = Bytes(Spans(i))
    BY DEF OffsetOf
<1> HIDE DEF Span
<1>3. OffsetOf(files, 1) = 0
  <2>1. 1 - 1 = 0 /\ Spans(1) \in [1 .. 0 -> Nat]
      OBVIOUS
  <2> HIDE DEF Spans
  <2>2. Bytes(Spans(1)) = 0
      BY <2>1, BytesOfNone
  <2> QED BY <1>2, <2>2
<1>4. ASSUME NEW i \in 1 .. Len(files)
      PROVE  /\ OffsetOf(files, i) \in Nat
             /\ OffsetOf(files, i + 1) = OffsetOf(files, i) + Span(i)
  <2> DEFINE less == Spans(i)
             more == Spans(i + 1)
  <2>1. PICK n \in Nat : i = n + 1 /\ n = i - 1
      OBVIOUS
  <2>2. less \in [1 .. n -> Nat]
      BY <1>1, <2>1
  <2>3. more \in [1 .. n + 1 -> Nat] /\ more[n + 1] = Span(i)
    <3>1. 1 .. (i + 1) - 1 = 1 .. n + 1
        BY <2>1
    <3>2. more = [k \in 1 .. n + 1 |-> Span(k)]
        BY <3>1
    <3>3. \A k \in 1 .. n + 1 : Span(k) \in Nat
        BY <1>1, <2>1
    <3> QED BY <2>1, <3>2, <3>3
  <2>4. \A k \in 1 .. n : more[k] = less[k]
      BY <2>1
  <2> HIDE DEF less, more
  <2>5. Bytes(less) \in Nat /\ Bytes(more) = Bytes(less) + more[n + 1]
      BY <2>2, <2>3, <2>4, BytesOfOneMore
  <2>6. OffsetOf(files, i) = Bytes(less) /\ OffsetOf(files, i + 1) = Bytes(more)
      BY <1>2 DEF less, more
  <2> QED BY <2>3, <2>5, <2>6
<1> QED BY <1>3, <1>4 DEF Span

\* The bytes of the directory for the first files.
DirectoryOf(files, i) == Bytes([k \in 1 .. i |-> CentralHeader + files[k].name])

\* Each file adds its entry and its name.
LEMMA DirectoryGrows ==
    ASSUME NEW files \in Seq(File)
    PROVE  /\ DirectoryOf(files, 0) = 0
           /\ \A i \in 1 .. Len(files) :
                /\ DirectoryOf(files, i - 1) \in Nat
                /\ DirectoryOf(files, i) =
                    DirectoryOf(files, i - 1) + (CentralHeader + files[i].name)
<1> DEFINE Span(k) == CentralHeader + files[k].name
           Spans(i) == [k \in 1 .. i |-> Span(k)]
<1>1. ASSUME NEW k \in 1 .. Len(files) PROVE Span(k) \in Nat
  <2>1. files[k] \in File
      OBVIOUS
  <2> QED BY <2>1 DEF File, CentralHeader
<1>2. \A i : DirectoryOf(files, i) = Bytes(Spans(i))
    BY DEF DirectoryOf
<1> HIDE DEF Span
<1>3. DirectoryOf(files, 0) = 0
  <2>1. Spans(0) \in [1 .. 0 -> Nat]
      OBVIOUS
  <2> HIDE DEF Spans
  <2>2. Bytes(Spans(0)) = 0
      BY <2>1, BytesOfNone
  <2> QED BY <1>2, <2>2
<1>4. ASSUME NEW i \in 1 .. Len(files)
      PROVE  /\ DirectoryOf(files, i - 1) \in Nat
             /\ DirectoryOf(files, i) = DirectoryOf(files, i - 1) + Span(i)
  <2> DEFINE less == Spans(i - 1)
             more == Spans(i)
  <2>1. PICK n \in Nat : i = n + 1 /\ n = i - 1
      OBVIOUS
  <2>2. less \in [1 .. n -> Nat]
      BY <1>1, <2>1
  <2>3. more \in [1 .. n + 1 -> Nat] /\ more[n + 1] = Span(i)
    <3>1. more = [k \in 1 .. n + 1 |-> Span(k)]
        BY <2>1
    <3>2. \A k \in 1 .. n + 1 : Span(k) \in Nat
        BY <1>1, <2>1
    <3> QED BY <2>1, <3>1, <3>2
  <2>4. \A k \in 1 .. n : more[k] = less[k]
      BY <2>1
  <2> HIDE DEF less, more
  <2>5. Bytes(less) \in Nat /\ Bytes(more) = Bytes(less) + more[n + 1]
      BY <2>2, <2>3, <2>4, BytesOfOneMore
  <2>6. DirectoryOf(files, i - 1) = Bytes(less) /\ DirectoryOf(files, i) = Bytes(more)
      BY <1>2 DEF less, more
  <2> QED BY <2>3, <2>5, <2>6
<1> QED BY <1>3, <1>4 DEF Span

\* Two or three parts on.
LEMMA PartsOn ==
    ASSUME NEW parts \in Seq(Part), NEW begins, AreBegins(parts, begins), NEW p \in Nat
    PROVE  /\ p + 2 <= Len(parts) =>
                begins[(p + 2) + 1] = begins[p + 1] + (parts[p + 1].bytes + parts[p + 2].bytes)
           /\ p + 3 <= Len(parts) =>
                begins[(p + 3) + 1] =
                    begins[p + 1] + (parts[p + 1].bytes + parts[p + 2].bytes + parts[p + 3].bytes)
<1>1. /\ Len(parts) \in Nat /\ \A k \in 1 .. Len(parts) : begins[k] \in Nat
      /\ \A k \in 1 .. Len(parts) : begins[k + 1] = begins[k] + parts[k].bytes
    BY DEF AreBegins
<1>2. ASSUME NEW k \in 1 .. Len(parts) PROVE parts[k].bytes \in Nat
  <2>1. parts[k] \in Part
      OBVIOUS
  <2> QED BY <2>1 DEF Part
<1>3. ASSUME p + 2 <= Len(parts)
      PROVE  begins[(p + 2) + 1] = begins[p + 1] + (parts[p + 1].bytes + parts[p + 2].bytes)
  <2>1. /\ p + 1 \in 1 .. Len(parts) /\ p + 2 \in 1 .. Len(parts) /\ (p + 1) + 1 = p + 2
      BY <1>1, <1>3
  <2>2. begins[p + 2] = begins[p + 1] + parts[p + 1].bytes
      BY <1>1, <2>1
  <2>3. begins[(p + 2) + 1] = begins[p + 2] + parts[p + 2].bytes
      BY <1>1, <2>1
  <2>4. begins[p + 1] \in Nat /\ parts[p + 1].bytes \in Nat /\ parts[p + 2].bytes \in Nat
      BY <1>1, <1>2, <2>1
  <2> QED BY <2>2, <2>3, <2>4
<1>4. ASSUME p + 3 <= Len(parts)
      PROVE  begins[(p + 3) + 1] =
                begins[p + 1] + (parts[p + 1].bytes + parts[p + 2].bytes + parts[p + 3].bytes)
  <2>1. /\ p + 1 \in 1 .. Len(parts) /\ p + 2 \in 1 .. Len(parts) /\ p + 3 \in 1 .. Len(parts)
        /\ (p + 2) + 1 = p + 3 /\ p + 2 <= Len(parts)
      BY <1>1, <1>4
  <2>2. begins[p + 3] = begins[p + 1] + (parts[p + 1].bytes + parts[p + 2].bytes)
      BY <1>3, <2>1
  <2>3. begins[(p + 3) + 1] = begins[p + 3] + parts[p + 3].bytes
      BY <1>1, <2>1
  <2>4. /\ begins[p + 1] \in Nat /\ parts[p + 1].bytes \in Nat
        /\ parts[p + 2].bytes \in Nat /\ parts[p + 3].bytes \in Nat
      BY <1>1, <1>2, <2>1
  <2>5. \A a, x, y, z \in Nat : (a + (x + y)) + z = a + (x + y + z)
      OBVIOUS
  <2>6. (begins[p + 1] + (parts[p + 1].bytes + parts[p + 2].bytes)) + parts[p + 3].bytes =
          begins[p + 1] + (parts[p + 1].bytes + parts[p + 2].bytes + parts[p + 3].bytes)
      BY <2>4, <2>5, SMTT(20)
  <2> QED BY <2>2, <2>3, <2>6
<1> QED BY <1>3, <1>4

\* Where the files and the directory's entries lie in the archive.
IsArchive(files, parts, at, to, begins) ==
    /\ at \in [0 .. Len(files) -> Nat] /\ to \in [0 .. Len(files) -> Nat]
    /\ at[0] = 0 /\ to[0] = at[Len(files)] /\ to[Len(files)] = Len(parts)
    /\ parts \in Seq(Part) /\ AreBegins(parts, begins)
    /\ \A i \in 1 .. Len(files) :
        /\ at[i] = at[i - 1] + 3 /\ at[i] <= Len(parts)
        /\ parts[at[i - 1] + 1] = LocalOf(files, i)
        /\ parts[at[i - 1] + 2] = NameOf(files, i)
        /\ parts[at[i - 1] + 3] = ContentOf(files, i)
        /\ to[i] = to[i - 1] + 2 /\ to[i] <= Len(parts)
        /\ parts[to[i - 1] + 1] = EntryOf(files, i)
        /\ parts[to[i - 1] + 2] = NameOf(files, i)

\* The archive lies so.
LEMMA ArchiveIs ==
    ASSUME NEW files \in Seq(File)
    PROVE  LET parts == LocalsOf(files) \o EntriesOf(files)
           IN  \E at, to : IsArchive(files, parts, at, to, Begins(parts))
<1> DEFINE a == LocalsOf(files)
           b == EntriesOf(files)
           n == Len(files)
           c == a \o b
<1>1. a \in Seq(Part) /\ b \in Seq(Part) /\ n \in Nat
    BY LocalsAre, EntriesAre
<1>2. PICK at : LocalsLie(files, a, at)
    BY LocalsAre
<1>3. PICK up : EntriesLie(files, b, up)
    BY EntriesAre
<1> HIDE DEF a, b
<1>4. /\ c \in Seq(Part) /\ Len(a) \in Nat /\ Len(b) \in Nat /\ Len(c) = Len(a) + Len(b)
      /\ \A i \in 1 .. Len(a) : c[i] = a[i]
      /\ \A i \in 1 .. Len(b) : c[Len(a) + i] = b[i]
    BY <1>1, Concats
<1>5. AreBegins(c, Begins(c))
    BY <1>4, BeginsAre
<1> HIDE DEF c
<1> DEFINE to == [i \in 0 .. n |-> Len(a) + up[i]]
<1>6. /\ at \in [0 .. n -> Nat] /\ at[0] = 0 /\ at[n] = Len(a)
      /\ \A i \in 1 .. n :
            /\ at[i] = at[i - 1] + 3 /\ at[i] <= Len(a)
            /\ a[at[i - 1] + 1] = LocalOf(files, i)
            /\ a[at[i - 1] + 2] = NameOf(files, i)
            /\ a[at[i - 1] + 3] = ContentOf(files, i)
    BY <1>2 DEF LocalsLie
<1>7. /\ up \in [0 .. n -> Nat] /\ up[0] = 0 /\ up[n] = Len(b)
      /\ \A i \in 1 .. n :
            /\ up[i] = up[i - 1] + 2 /\ up[i] <= Len(b)
            /\ b[up[i - 1] + 1] = EntryOf(files, i)
            /\ b[up[i - 1] + 2] = NameOf(files, i)
    BY <1>3 DEF EntriesLie
<1> HIDE DEF n
<1>8. to \in [0 .. n -> Nat] /\ to[0] = at[n] /\ to[n] = Len(c)
  <2>1. \A i \in 0 .. n : up[i] \in Nat /\ Len(a) + up[i] \in Nat
      BY <1>4, <1>7
  <2>2. to \in [0 .. n -> Nat]
      BY <2>1
  <2>3. 0 \in 0 .. n /\ n \in 0 .. n
      BY <1>1
  <2>4. to[0] = Len(a) + 0 /\ to[n] = Len(a) + Len(b)
      BY <1>7, <2>3
  <2> QED BY <1>4, <1>6, <2>2, <2>4
<1>9. ASSUME NEW i \in 1 .. n
      PROVE  /\ at[i] = at[i - 1] + 3 /\ at[i] <= Len(c)
             /\ c[at[i - 1] + 1] = LocalOf(files, i)
             /\ c[at[i - 1] + 2] = NameOf(files, i)
             /\ c[at[i - 1] + 3] = ContentOf(files, i)
  <2>1. i - 1 \in 0 .. n /\ i \in 0 .. n /\ at[i - 1] \in Nat /\ at[i] \in Nat
      BY <1>1, <1>6
  <2>2. at[i] = at[i - 1] + 3 /\ at[i] <= Len(a)
      BY <1>6
  <2>3. /\ at[i - 1] + 1 \in 1 .. Len(a) /\ at[i - 1] + 2 \in 1 .. Len(a)
        /\ at[i - 1] + 3 \in 1 .. Len(a) /\ at[i] <= Len(c)
    <3> DEFINE p == at[i - 1]
               la == Len(a)
               lb == Len(b)
    <3>1. p \in Nat /\ la \in Nat /\ lb \in Nat /\ p + 3 <= la
        BY <1>4, <2>1, <2>2
    <3>2. at[i] = p + 3 /\ Len(c) = la + lb
        BY <1>4, <2>2
    <3> HIDE DEF p, la, lb
    <3>3. /\ p + 1 \in 1 .. la /\ p + 2 \in 1 .. la /\ p + 3 \in 1 .. la
          /\ p + 3 <= la + lb
        BY <3>1
    <3> QED BY <3>2, <3>3 DEF p, la
  <2> QED BY <1>4, <1>6, <2>2, <2>3
<1>10. ASSUME NEW i \in 1 .. n
       PROVE  /\ to[i] = to[i - 1] + 2 /\ to[i] <= Len(c)
              /\ c[to[i - 1] + 1] = EntryOf(files, i)
              /\ c[to[i - 1] + 2] = NameOf(files, i)
  <2>1. i - 1 \in 0 .. n /\ i \in 0 .. n /\ up[i - 1] \in Nat /\ up[i] \in Nat
      BY <1>1, <1>7
  <2>2. up[i] = up[i - 1] + 2 /\ up[i] <= Len(b)
      BY <1>7
  <2>3. up[i - 1] + 1 \in 1 .. Len(b) /\ up[i - 1] + 2 \in 1 .. Len(b)
    <3> DEFINE p == up[i - 1]
               lb == Len(b)
    <3>1. p \in Nat /\ lb \in Nat /\ p + 2 <= lb
        BY <1>4, <2>1, <2>2
    <3> HIDE DEF p, lb
    <3>2. p + 1 \in 1 .. lb /\ p + 2 \in 1 .. lb
        BY <3>1
    <3> QED BY <3>2 DEF p, lb
  <2>4. to[i] = Len(a) + up[i] /\ to[i - 1] = Len(a) + up[i - 1]
      BY <2>1
  <2>5. to[i] = to[i - 1] + 2 /\ to[i] <= Len(c)
      BY <1>4, <2>1, <2>2, <2>4, SMTT(20)
  <2>6. /\ to[i - 1] + 1 = Len(a) + (up[i - 1] + 1)
        /\ to[i - 1] + 2 = Len(a) + (up[i - 1] + 2)
      BY <1>4, <2>1, <2>4
  <2>7. /\ c[to[i - 1] + 1] = b[up[i - 1] + 1]
        /\ c[to[i - 1] + 2] = b[up[i - 1] + 2]
    <3> DEFINE x == up[i - 1] + 1
               y == up[i - 1] + 2
    <3>1. /\ x \in 1 .. Len(b) /\ y \in 1 .. Len(b)
          /\ to[i - 1] + 1 = Len(a) + x /\ to[i - 1] + 2 = Len(a) + y
        BY <2>3, <2>6
    <3> HIDE DEF x, y, to
    <3>2. c[Len(a) + x] = b[x] /\ c[Len(a) + y] = b[y]
        BY <1>4, <3>1
    <3>3. c[to[i - 1] + 1] = b[x] /\ c[to[i - 1] + 2] = b[y]
        BY <3>1, <3>2
    <3> QED BY <3>3 DEF x, y
  <2> QED BY <1>7, <2>5, <2>7
<1> HIDE DEF to
<1>11. IsArchive(files, c, at, to, Begins(c))
    BY <1>4, <1>5, <1>6, <1>8, <1>9, <1>10 DEF IsArchive, n
<1>12. \E p, q : IsArchive(files, c, p, q, Begins(c))
    BY <1>11
<1> QED BY <1>12 DEF a, b, c

\* What the archive says of where they begin is so.
LEMMA ArchiveLies ==
    ASSUME NEW files \in Seq(File), NEW parts, NEW at, NEW to, NEW begins,
           IsArchive(files, parts, at, to, begins)
    PROVE  /\ \A i \in 1 .. Len(files) : begins[at[i - 1] + 1] = OffsetOf(files, i)
           /\ begins[to[0] + 1] = OffsetOf(files, Len(files) + 1)
           /\ begins[to[Len(files)] + 1] =
                OffsetOf(files, Len(files) + 1) + DirectoryOf(files, Len(files))
<1> DEFINE n == Len(files)
<1>1. /\ n \in Nat /\ parts \in Seq(Part) /\ AreBegins(parts, begins)
      /\ at \in [0 .. n -> Nat] /\ to \in [0 .. n -> Nat]
      /\ at[0] = 0 /\ to[0] = at[n]
      /\ \A i \in 1 .. n :
            /\ at[i] = at[i - 1] + 3 /\ at[i] <= Len(parts)
            /\ parts[at[i - 1] + 1].bytes = LocalHeader
            /\ parts[at[i - 1] + 2].bytes = files[i].name
            /\ parts[at[i - 1] + 3].bytes = files[i].size
            /\ to[i] = to[i - 1] + 2 /\ to[i] <= Len(parts)
            /\ parts[to[i - 1] + 1].bytes = CentralHeader
            /\ parts[to[i - 1] + 2].bytes = files[i].name
  <2>1. ASSUME NEW i \in 1 .. n
        PROVE  /\ at[i] = at[i - 1] + 3 /\ at[i] <= Len(parts)
               /\ parts[at[i - 1] + 1].bytes = LocalHeader
               /\ parts[at[i - 1] + 2].bytes = files[i].name
               /\ parts[at[i - 1] + 3].bytes = files[i].size
               /\ to[i] = to[i - 1] + 2 /\ to[i] <= Len(parts)
               /\ parts[to[i - 1] + 1].bytes = CentralHeader
               /\ parts[to[i - 1] + 2].bytes = files[i].name
    <3>1. /\ at[i] = at[i - 1] + 3 /\ at[i] <= Len(parts)
          /\ parts[at[i - 1] + 1] = LocalOf(files, i)
          /\ parts[at[i - 1] + 2] = NameOf(files, i)
          /\ parts[at[i - 1] + 3] = ContentOf(files, i)
          /\ to[i] = to[i - 1] + 2 /\ to[i] <= Len(parts)
          /\ parts[to[i - 1] + 1] = EntryOf(files, i)
          /\ parts[to[i - 1] + 2] = NameOf(files, i)
        BY DEF IsArchive
    <3>2. /\ LocalOf(files, i).bytes = LocalHeader /\ NameOf(files, i).bytes = files[i].name
          /\ ContentOf(files, i).bytes = files[i].size
          /\ EntryOf(files, i).bytes = CentralHeader
        BY DEF LocalOf, NameOf, ContentOf, EntryOf
    <3> QED BY <3>1, <3>2
  <2>2. /\ parts \in Seq(Part) /\ AreBegins(parts, begins)
        /\ at \in [0 .. n -> Nat] /\ to \in [0 .. n -> Nat]
        /\ at[0] = 0 /\ to[0] = at[n]
      BY DEF IsArchive
  <2>3. n \in Nat
      OBVIOUS
  <2> QED BY <2>1, <2>2, <2>3
<1>2. /\ OffsetOf(files, 1) = 0
      /\ \A i \in 1 .. n :
            OffsetOf(files, i + 1) =
                OffsetOf(files, i) + (LocalHeader + files[i].name + files[i].size)
    BY OffsetGrows
<1>3. /\ DirectoryOf(files, 0) = 0
      /\ \A i \in 1 .. n :
            /\ DirectoryOf(files, i - 1) \in Nat
            /\ DirectoryOf(files, i) = DirectoryOf(files, i - 1) + (CentralHeader + files[i].name)
    BY DirectoryGrows
<1> HIDE DEF n
<1>4. begins[1] = 0
    BY <1>1 DEF AreBegins
<1> DEFINE GoodAt(m) == begins[at[m] + 1] = OffsetOf(files, m + 1)
           P == {m \in Nat : m <= n => GoodAt(m)}
<1>5. 0 \in P
    BY <1>1, <1>2, <1>4
<1>6. ASSUME NEW m \in Nat, m \in P PROVE m + 1 \in P
  <2>1. CASE m + 1 <= n
    <3> DEFINE l == m + 1
    <3>1. l \in 1 .. n /\ l - 1 = m /\ m <= n /\ l \in Nat /\ m \in 0 .. n
        BY <1>1, <2>1
    <3>2. GoodAt(m)
        BY <1>6, <3>1
    <3>3. begins[at[l - 1] + 1] = OffsetOf(files, l)
        BY <3>1, <3>2
    <3> HIDE DEF l
    <3> DEFINE p == at[l - 1]
    <3>4. p \in Nat /\ at[l] = p + 3 /\ p + 3 <= Len(parts)
        BY <1>1, <3>1
    <3>5. /\ parts[p + 1].bytes = LocalHeader /\ parts[p + 2].bytes = files[l].name
          /\ parts[p + 3].bytes = files[l].size
        BY <1>1, <3>1
    <3>6. OffsetOf(files, l + 1) =
            OffsetOf(files, l) + (LocalHeader + files[l].name + files[l].size)
        BY <1>2, <3>1
    <3>7. begins[p + 1] = OffsetOf(files, l)
        BY <3>3
    <3> HIDE DEF p
    <3>8. begins[(p + 3) + 1] =
            begins[p + 1] + (parts[p + 1].bytes + parts[p + 2].bytes + parts[p + 3].bytes)
        BY <1>1, <3>4, PartsOn
    <3>9. begins[at[l] + 1] = OffsetOf(files, l + 1)
        BY <3>4, <3>5, <3>6, <3>7, <3>8
    <3>10. GoodAt(l)
        BY <3>9
    <3>11. m + 1 = l
        BY DEF l
    <3> HIDE DEF GoodAt
    <3> QED BY <3>1, <3>10, <3>11
  <2>2. CASE ~(m + 1 <= n)
    <3> HIDE DEF GoodAt
    <3> QED BY <2>2
  <2> QED BY <2>1, <2>2
<1>7. \A m \in 0 .. n : GoodAt(m)
  <2> HIDE DEF GoodAt
  <2>1. Nat \subseteq P
      BY <1>5, <1>6, NumberInduction
  <2> QED BY <1>1, <2>1
<1>8. ASSUME NEW i \in 1 .. n PROVE begins[at[i - 1] + 1] = OffsetOf(files, i)
  <2>1. i - 1 \in 0 .. n /\ (i - 1) + 1 = i
      BY <1>1
  <2> QED BY <1>7, <2>1
<1>9. begins[to[0] + 1] = OffsetOf(files, n + 1)
    BY <1>1, <1>7
<1> DEFINE start == OffsetOf(files, n + 1)
           GoodTo(m) == begins[to[m] + 1] = start + DirectoryOf(files, m)
           Q == {m \in Nat : m <= n => GoodTo(m)}
<1>10. start \in Nat
  <2>1. to[0] + 1 \in 1 .. Len(parts) + 1
    <3>1. Len(parts) \in Nat /\ to[0] \in Nat
        BY <1>1
    <3>2. to[0] <= Len(parts)
      <4>1. CASE n = 0
          BY <1>1, <3>1, <4>1
      <4>2. CASE n # 0
          BY <1>1, <4>2
      <4> QED BY <4>1, <4>2
    <3> QED BY <3>1, <3>2
  <2> QED BY <1>1, <1>9, <2>1 DEF AreBegins
<1> HIDE DEF start
<1>11. 0 \in Q
    BY <1>1, <1>3, <1>9, <1>10 DEF start
<1>12. ASSUME NEW m \in Nat, m \in Q PROVE m + 1 \in Q
  <2>1. CASE m + 1 <= n
    <3> DEFINE l == m + 1
    <3>1. l \in 1 .. n /\ l - 1 = m /\ m <= n /\ l \in Nat /\ m \in 0 .. n
        BY <1>1, <2>1
    <3>2. GoodTo(m)
        BY <1>12, <3>1
    <3>3. begins[to[l - 1] + 1] = start + DirectoryOf(files, l - 1)
        BY <3>1, <3>2
    <3> HIDE DEF l
    <3> DEFINE p == to[l - 1]
    <3>4. p \in Nat /\ to[l] = p + 2 /\ p + 2 <= Len(parts)
        BY <1>1, <3>1
    <3>5. parts[p + 1].bytes = CentralHeader /\ parts[p + 2].bytes = files[l].name
        BY <1>1, <3>1
    <3>6. /\ DirectoryOf(files, l - 1) \in Nat
          /\ DirectoryOf(files, l) =
                DirectoryOf(files, l - 1) + (CentralHeader + files[l].name)
        BY <1>3, <3>1
    <3>7. begins[p + 1] = start + DirectoryOf(files, l - 1)
        BY <3>3
    <3> HIDE DEF p
    <3>8. begins[(p + 2) + 1] = begins[p + 1] + (parts[p + 1].bytes + parts[p + 2].bytes)
        BY <1>1, <3>4, PartsOn
    <3>9. files[l].name \in Nat /\ CentralHeader \in Nat
      <4>1. files[l] \in File
          BY <3>1 DEF n
      <4> QED BY <4>1 DEF File, CentralHeader
    <3>10. begins[to[l] + 1] =
            (start + DirectoryOf(files, l - 1)) + (CentralHeader + files[l].name)
        BY <3>4, <3>5, <3>7, <3>8
    <3>11. \A x, y, z \in Nat : (x + y) + z = x + (y + z)
        OBVIOUS
    <3>12. GoodTo(l)
      <4>1. CentralHeader + files[l].name \in Nat
          BY <3>9
      <4> QED BY <1>10, <3>6, <3>10, <3>11, <4>1
    <3>13. m + 1 = l
        BY DEF l
    <3> HIDE DEF GoodTo
    <3> QED BY <3>1, <3>12, <3>13
  <2>2. CASE ~(m + 1 <= n)
    <3> HIDE DEF GoodTo
    <3> QED BY <2>2
  <2> QED BY <2>1, <2>2
<1>13. GoodTo(n)
  <2> HIDE DEF GoodTo
  <2>1. Nat \subseteq Q
      BY <1>11, <1>12, NumberInduction
  <2> QED BY <1>1, <2>1
<1> QED BY <1>8, <1>9, <1>13 DEF n, start

\* The archive of any files is opened.
LEMMA ArchiveIsOpened ==
    ASSUME NEW files \in Seq(File), Len(files) > 0
    PROVE  LET archive == Archive(files)
               begins == Begins(archive.parts)
               Leads(offset, part, i) ==
                    \E n \in DOMAIN archive.parts :
                        /\ begins[n] = offset
                        /\ archive.parts[n].part = part
                        /\ archive.parts[n].file = i
           IN /\ Leads(archive.directoryOffset, "entry", 1)
              /\ \A i \in 1 .. archive.count : Leads(archive.entryOffset[i], "local", i)
              /\ archive.directoryOffset + archive.directorySize = Last(begins)
<1> DEFINE archive == Archive(files)
           n == Len(files)
           parts == LocalsOf(files) \o EntriesOf(files)
           begins == Begins(parts)
<1>1. n \in Nat \ {0} /\ DOMAIN files = 1 .. n
    OBVIOUS
<1>2. /\ archive.parts = parts /\ archive.count = n
      /\ archive.directoryOffset = OffsetOf(files, n + 1)
      /\ \A i \in 1 .. n : archive.entryOffset[i] = OffsetOf(files, i)
    BY <1>1 DEF Archive, LocalsOf, EntriesOf, LocalOf, NameOf, ContentOf, EntryOf
<1>3. archive.directorySize = DirectoryOf(files, n)
    BY <1>1 DEF Archive, DirectoryOf
<1>4. PICK at, to : IsArchive(files, parts, at, to, begins)
    BY ArchiveIs
<1> HIDE DEF archive, parts, begins
<1>5. /\ \A i \in 1 .. n : begins[at[i - 1] + 1] = OffsetOf(files, i)
      /\ begins[to[0] + 1] = OffsetOf(files, n + 1)
      /\ begins[to[n] + 1] = OffsetOf(files, n + 1) + DirectoryOf(files, n)
    BY <1>4, ArchiveLies
<1>6. /\ parts \in Seq(Part) /\ AreBegins(parts, begins) /\ to[n] = Len(parts)
      /\ at \in [0 .. n -> Nat] /\ to \in [0 .. n -> Nat]
      /\ \A i \in 1 .. n :
            /\ at[i] = at[i - 1] + 3 /\ at[i] <= Len(parts)
            /\ parts[at[i - 1] + 1] = LocalOf(files, i)
            /\ to[i] = to[i - 1] + 2 /\ to[i] <= Len(parts)
            /\ parts[to[i - 1] + 1] = EntryOf(files, i)
    BY <1>4 DEF IsArchive
<1>7. Len(parts) \in Nat /\ DOMAIN parts = 1 .. Len(parts)
    BY <1>6, SequencesAre
<1> HIDE DEF n
<1>8. \E k \in DOMAIN parts : /\ begins[k] = OffsetOf(files, n + 1)
                              /\ parts[k].part = "entry" /\ parts[k].file = 1
  <2> DEFINE k == to[0] + 1
  <2>1. 1 \in 1 .. n /\ 1 - 1 = 0 /\ 0 \in 0 .. n /\ 1 \in 0 .. n
      BY <1>1
  <2>2. to[0] \in Nat /\ to[1] = to[0] + 2 /\ to[1] <= Len(parts)
      BY <1>6, <2>1
  <2>3. k \in DOMAIN parts
      BY <1>7, <2>2
  <2>4. parts[k] = EntryOf(files, 1)
      BY <1>6, <2>1
  <2>5. begins[k] = OffsetOf(files, n + 1)
      BY <1>5
  <2> HIDE DEF k
  <2>6. parts[k].part = "entry" /\ parts[k].file = 1
      BY <2>4 DEF EntryOf
  <2> QED BY <2>3, <2>5, <2>6
<1>9. ASSUME NEW i \in 1 .. n
      PROVE  \E k \in DOMAIN parts : /\ begins[k] = OffsetOf(files, i)
                                     /\ parts[k].part = "local" /\ parts[k].file = i
  <2> DEFINE k == at[i - 1] + 1
  <2>0. i - 1 \in 0 .. n /\ i \in 0 .. n
      BY <1>1
  <2>1. at[i - 1] \in Nat /\ at[i] = at[i - 1] + 3 /\ at[i] <= Len(parts)
      BY <1>6, <2>0
  <2>2. k \in DOMAIN parts
      BY <1>7, <2>1
  <2>3. parts[k] = LocalOf(files, i) /\ begins[k] = OffsetOf(files, i)
      BY <1>5, <1>6
  <2> HIDE DEF k
  <2>4. parts[k].part = "local" /\ parts[k].file = i
      BY <2>3 DEF LocalOf
  <2> QED BY <2>2, <2>3, <2>4
<1>10. Last(begins) = OffsetOf(files, n + 1) + DirectoryOf(files, n)
  <2>1. Len(begins) = to[n] + 1
      BY <1>6 DEF AreBegins
  <2> QED BY <1>5, <2>1 DEF Last
<1>11. /\ \E k \in DOMAIN archive.parts :
            /\ begins[k] = archive.directoryOffset
            /\ archive.parts[k].part = "entry" /\ archive.parts[k].file = 1
       /\ \A i \in 1 .. archive.count :
            \E k \in DOMAIN archive.parts :
                /\ begins[k] = archive.entryOffset[i]
                /\ archive.parts[k].part = "local" /\ archive.parts[k].file = i
       /\ archive.directoryOffset + archive.directorySize = Last(begins)
    BY <1>2, <1>3, <1>8, <1>9, <1>10
<1>12. begins = Begins(archive.parts)
    BY <1>2 DEF begins
<1>13. /\ \E k \in DOMAIN archive.parts :
            /\ Begins(archive.parts)[k] = archive.directoryOffset
            /\ archive.parts[k].part = "entry" /\ archive.parts[k].file = 1
       /\ \A i \in 1 .. archive.count :
            \E k \in DOMAIN archive.parts :
                /\ Begins(archive.parts)[k] = archive.entryOffset[i]
                /\ archive.parts[k].part = "local" /\ archive.parts[k].file = i
       /\ archive.directoryOffset + archive.directorySize = Last(Begins(archive.parts))
    BY <1>11, <1>12
<1> QED BY <1>13, Zenon DEF archive

\* A function on the first places is a sequence.
LEMMA FunctionIsSequence ==
    ASSUME NEW X, NEW m \in Nat, NEW f \in [1 .. m -> X]
    PROVE  f \in Seq(X) /\ Len(f) = m
OBVIOUS

\* The files of a workbook have names and contents.
LEMMA FilesAre ==
    ASSUME NEW rows \in Seq(Seq(Text))
    PROVE  Files(rows) \in Seq(File) /\ Len(Files(rows)) = 8
<1> DEFINE names == <<19, 11, 16, 17, 15, 26, 13, 24>>
           size == Len(FlattenSeq(FlattenSeq(rows)))
           Each(i) == [name |-> names[i], size |-> IF i = Len(names) THEN size ELSE i]
<1>1. size \in Nat
  <2> DEFINE X == Seq(Text)
             Y == Text
             once == FlattenSeq(rows)
             twice == FlattenSeq(once)
  <2>1. rows \in [1 .. Len(rows) -> X] /\ Len(rows) \in Nat
      BY SequencesAre
  <2>2. once \in Seq(Y)
      BY <2>1, FlatType
  <2> HIDE DEF once
  <2>3. once \in [1 .. Len(once) -> Seq(Character)] /\ Len(once) \in Nat
      BY <2>2, SequencesAre DEF Text
  <2>4. twice \in Seq(Character)
      BY <2>3, FlatType
  <2> HIDE DEF twice
  <2>5. Len(twice) \in Nat
      BY <2>4, SequencesAre
  <2> QED BY <2>5 DEF once, twice
<1> HIDE DEF size
<1>2. DOMAIN names = 1 .. 8 /\ Len(names) = 8 /\ \A i \in 1 .. 8 : names[i] \in Nat
    OBVIOUS
<1>3. Files(rows) = [i \in DOMAIN names |-> Each(i)]
    BY DEF Files, size
<1> HIDE DEF names
<1>4. \A i \in 1 .. 8 : Each(i) \in File
    BY <1>1, <1>2, SMTT(20) DEF File
<1> HIDE DEF Each
<1>5. Files(rows) \in [1 .. 8 -> File]
    BY <1>2, <1>3, <1>4
<1> DEFINE files == Files(rows)
<1> HIDE DEF files
<1>6. files \in [1 .. 8 -> File]
    BY <1>5 DEF files
<1>7. files \in Seq(File) /\ Len(files) = 8
  <2> DEFINE m == 8
  <2>1. m \in Nat /\ files \in [1 .. m -> File]
      BY <1>6
  <2> HIDE DEF m
  <2>2. files \in Seq(File) /\ Len(files) = m
      BY <2>1, FunctionIsSequence
  <2> QED BY <2>2 DEF m
<1> QED BY <1>7 DEF files

\* A sequence of less is one of more.
LEMMA SequencesOfMore ==
    ASSUME NEW X, NEW Y, X \subseteq Y
    PROVE  Seq(X) \subseteq Seq(Y)
<1> SUFFICES ASSUME NEW s \in Seq(X) PROVE s \in Seq(Y)
    OBVIOUS
<1>1. Len(s) \in Nat /\ s \in [1 .. Len(s) -> X]
    BY SequencesAre
<1>2. s \in [1 .. Len(s) -> Y]
    BY <1>1
<1> QED BY <1>1, <1>2

\* The cells of the tables are texts.
LEMMA TablesAreTexts == Seq(Seq(Seq(STRING))) \subseteq Seq(Seq(Text))
<1> DEFINE X == STRING
           Y == Character
<1>1. X \subseteq Y
    BY Zenon DEF Character
<1> HIDE DEF X, Y
<1>2. Seq(X) \subseteq Seq(Y)
    BY <1>1, SequencesOfMore
<1>3. Seq(Seq(X)) \subseteq Seq(Seq(Y))
    BY <1>2, SequencesOfMore
<1>4. Seq(Seq(Seq(X))) \subseteq Seq(Seq(Seq(Y)))
    BY <1>3, SequencesOfMore
<1> QED BY <1>4 DEF X, Y, Text

\* A table is read back from its files.
LEMMA TableOpens ==
    ASSUME table \in Tables
    PROVE  ExportsReadBack
<1>1. table \in Seq(Seq(Text)) /\ Len(table) > 0 /\ Even(table)
  <2>1. table \in Seq(Seq(Seq(STRING))) /\ Len(table) > 0
      BY ExportsAssumption
  <2>2. Even(table)
      BY ExportsAssumption DEF Even
  <2> QED BY <2>1, <2>2, TablesAreTexts
<1>2. CsvReadsBack
    BY <1>1, TableReadsBack DEF CsvReadsBack, Even
<1>3. SheetReadsBack
    BY <1>1, SheetOpens, Zenon DEF SheetReadsBack
<1>4. ArchiveOpens
  <2>1. Tail(table) \in Seq(Seq(Text))
      BY <1>1
  <2> DEFINE rows == Tail(table)
             files == Files(rows)
  <2> HIDE DEF rows
  <2>2. files \in Seq(File) /\ Len(files) = 8
      BY <2>1, FilesAre DEF rows
  <2> HIDE DEF files
  <2>3. files \in Seq(File) /\ Len(files) > 0
      BY <2>2
  <2>4. Files(Tail(table)) \in Seq(File) /\ Len(Files(Tail(table))) > 0
      BY <2>3 DEF files, rows
  <2> QED BY <2>4, ArchiveIsOpened, Zenon DEF ArchiveOpens
<1> QED BY <1>2, <1>3, <1>4 DEF ExportsReadBack

\* Whatever is in the table, a reader of the CSV file gets it back, and a reader
\* of the workbook finds every cell in its place, if no cell holds a control
\* character or a carriage return (escapeCsv, escapeXml, columnName, worksheetXml,
\* zip).
THEOREM FileSafety == ExportsSpec => []ExportsReadBack
<1>1. ExportsInit /\ [FALSE]_table => ExportsInit'
    BY DEF ExportsInit
<1>2. ExportsInit => ExportsReadBack
    BY TableOpens DEF ExportsInit
<1> QED BY <1>1, <1>2, PTL DEF ExportsSpec
===============================================================================

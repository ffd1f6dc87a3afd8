----------------------------- MODULE RatingsProofs -----------------------------
(***************************************************************************)
(* Theorems about Ratings, for any number of transactions, users and       *)
(* foods.  The inductive invariant is RatingsInv.                          *)
(***************************************************************************)
EXTENDS Ratings, FiniteSetTheorems, WellFoundedInduction, TLAPS

(***************************************************************************)
(* Numbers.                                                                *)
(***************************************************************************)
LEMMA LeastNumber ==
    ASSUME NEW T, T \subseteq Nat, T # {}
    PROVE  \E m \in T : \A n \in T : m <= n
<1>1. PICK m \in T : \A n \in T : ~(<<n, m>> \in OpToRel(<, Nat))
    BY NatLessThanWellFounded, WFMin
<1>2. \A n \in T : ~(n < m)
    BY <1>1 DEF OpToRel
<1> QED BY <1>2

LEMMA GreatestNumber ==
    ASSUME NEW T, T \subseteq Nat, T # {}, NEW b \in Nat, \A n \in T : n <= b
    PROVE  \E m \in T : \A n \in T : n <= m
<1> DEFINE below == {b - n : n \in T}
<1>1. below \subseteq Nat /\ below # {}
    <2>1. \A n \in T : b - n \in Nat
        OBVIOUS
    <2> QED BY <2>1
<1>2. PICK d \in below : \A e \in below : d <= e
    BY <1>1, LeastNumber
<1>3. PICK m \in T : d = b - m
    BY <1>2
<1>4. \A n \in T : b - m <= b - n
    BY <1>2, <1>3
<1> QED BY <1>3, <1>4

(***************************************************************************)
(* Item lists.                                                             *)
(***************************************************************************)
LEMMA ItemsOfLists ==
    ASSUME NEW items \in ItemLists
    PROVE  /\ Len(items) \in Nat \ {0}
           /\ DOMAIN items = 1 .. Len(items)
           /\ \A i \in DOMAIN items : items[i] \in Foods
           /\ \A i, j \in DOMAIN items : items[i] = items[j] => i = j
<1>1. PICK n \in 1 .. Cardinality(Foods) : items \in [1 .. n -> Foods]
    BY DEF ItemLists
<1>2. Cardinality(Foods) \in Nat
    BY RatingsAssumption, FS_CardinalityType
<1>3. n \in Nat \ {0}
    BY <1>2
<1>4. Len(items) = n /\ DOMAIN items = 1 .. n
    BY <1>1, <1>3
<1> QED BY <1>1, <1>3, <1>4 DEF ItemLists

LEMMA SingletonList ==
    ASSUME NEW f \in Foods
    PROVE  <<f>> \in ItemLists /\ DOMAIN <<f>> = 1 .. 1 /\ <<f>>[1] = f
<1>1. Cardinality(Foods) \in Nat /\ Cardinality(Foods) # 0
    BY RatingsAssumption, FS_CardinalityType, FS_EmptySet
<1>2. 1 \in 1 .. Cardinality(Foods)
    BY <1>1
<1>3. <<f>> \in [1 .. 1 -> Foods] /\ DOMAIN <<f>> = 1 .. 1 /\ <<f>>[1] = f
    OBVIOUS
<1>4. \A i, j \in DOMAIN <<f>> : <<f>>[i] = <<f>>[j] => i = j
    BY <1>3
<1> QED BY <1>2, <1>3, <1>4 DEF ItemLists

\* A transaction that is under way.
LEMMA Busy ==
    ASSUME TypeOK, NEW t \in Transactions, TxInv(t), ~At(t, "idle")
    PROVE  /\ tx[t].user \in Users
           /\ tx[t].items \in ItemLists
           /\ Len(tx[t].items) \in Nat
           /\ DOMAIN tx[t].items = 1 .. Len(tx[t].items)
           /\ tx[t].next \in 1 .. Len(tx[t].items)
           /\ \A i \in DOMAIN tx[t].items : tx[t].items[i] \in Foods
           /\ Current(t) \in Foods
BY ItemsOfLists DEF TxInv, Current

(***************************************************************************)
(* Deadlocks.  Along what its items are ranked by, a transaction waits for *)
(* one that is further on: in a deadlock, nobody is furthest.              *)
(***************************************************************************)
Place(t, rank) == 2 * rank[Current(t)] + (IF At(t, "food") THEN 1 ELSE 0)

LEMMA PlaceType ==
    ASSUME TypeOK, NEW t \in Transactions, TxInv(t), ~At(t, "idle"),
           NEW rank \in [Foods -> 1 .. Cardinality(Foods)]
    PROVE  /\ Place(t, rank) \in Nat
           /\ Place(t, rank) <= 2 * Cardinality(Foods) + 1
<1>1. Cardinality(Foods) \in Nat
    BY RatingsAssumption, FS_CardinalityType
<1>2. rank[Current(t)] \in 1 .. Cardinality(Foods)
    BY Busy
<1> QED BY <1>1, <1>2 DEF Place

LEMMA WaitsForOneFurtherOn ==
    ASSUME RatingsInv, NEW t \in Transactions, NEW s \in Transactions,
           NEW rank \in [Foods -> 1 .. Cardinality(Foods)],
           WaitsFor(t, s), At(t, "review") \/ At(t, "food"),
           At(s, "review") \/ At(s, "food"), Sorted(tx[s].items, rank)
    PROVE  Place(t, rank) < Place(s, rank)
<1>1. TypeOK /\ TxInv(t) /\ TxInv(s) /\ LockInv(s) /\ ~At(t, "idle") /\ ~At(s, "idle")
    BY DEF RatingsInv, At
<1>2. /\ tx[t].user \in Users /\ Current(t) \in Foods
      /\ DOMAIN tx[s].items = 1 .. Len(tx[s].items) /\ Len(tx[s].items) \in Nat
      /\ tx[s].next \in DOMAIN tx[s].items /\ Current(s) \in Foods
    BY <1>1, Busy
<1>3. Cardinality(Foods) \in Nat
    BY RatingsAssumption, FS_CardinalityType
<1>4. rank[Current(t)] \in Nat /\ rank[Current(s)] \in Nat
    BY <1>2, <1>3
<1>5. ASSUME NEW i \in DOMAIN tx[s].items, i < tx[s].next, tx[s].items[i] = Current(t)
      PROVE  rank[Current(t)] < rank[Current(s)]
    BY <1>2, <1>5 DEF Sorted, Current
<1>6. CASE At(t, "review")
    <2>1. Current(t) \in Written(s) /\ ~At(t, "food")
        BY <1>1, <1>2, <1>6 DEF WaitsFor, LockInv, At
    <2>2. PICK i \in DOMAIN tx[s].items :
            /\ tx[s].items[i] = Current(t)
            /\ i < tx[s].next \/ (i = tx[s].next /\ ~At(s, "review"))
        BY <2>1 DEF Written
    <2>3. CASE i < tx[s].next
        <3>1. rank[Current(t)] < rank[Current(s)]
            BY <1>5, <2>2, <2>3
        <3> QED BY <1>4, <2>1, <3>1 DEF Place
    <2>4. CASE i = tx[s].next /\ ~At(s, "review")
        <3>1. Current(t) = Current(s) /\ At(s, "food")
            BY <2>2, <2>4 DEF Current
        <3> QED BY <1>4, <2>1, <3>1 DEF Place
    <2> QED BY <2>2, <2>3, <2>4
<1>7. CASE At(t, "food")
    <2>1. Current(t) \in Updated(s)
        BY <1>1, <1>2, <1>7 DEF WaitsFor, LockInv, At
    <2>2. PICK i \in DOMAIN tx[s].items : tx[s].items[i] = Current(t) /\ i < tx[s].next
        BY <2>1 DEF Updated, At
    <2>3. rank[Current(t)] < rank[Current(s)]
        BY <1>5, <2>2
    <2> QED BY <1>4, <2>3 DEF Place
<1> QED BY <1>6, <1>7

LEMMA DeadlocksAreCrossed == RatingsInv => DeadlocksNeedCrossedOrders
<1> SUFFICES ASSUME RatingsInv, NEW S \in SUBSET Transactions, Deadlocked(S),
                    NEW rank \in [Foods -> 1 .. Cardinality(Foods)],
                    \A t \in S : Sorted(tx[t].items, rank)
             PROVE  FALSE
    BY DEF DeadlocksNeedCrossedOrders
<1> DEFINE places == {Place(t, rank) : t \in S}
<1>1. \A t \in S : At(t, "review") \/ At(t, "food")
    BY DEF Deadlocked, WaitsFor
<1>2. \A t \in S : /\ Place(t, rank) \in Nat
                   /\ Place(t, rank) <= 2 * Cardinality(Foods) + 1
    BY <1>1, PlaceType DEF RatingsInv, At
<1>3. 2 * Cardinality(Foods) + 1 \in Nat
    BY RatingsAssumption, FS_CardinalityType
<1>4. places \subseteq Nat /\ places # {}
    BY <1>2 DEF Deadlocked
<1>5. \A n \in places : n <= 2 * Cardinality(Foods) + 1
    BY <1>2
<1>6. PICK m \in places : \A n \in places : n <= m
    BY <1>3, <1>4, <1>5, GreatestNumber
<1>7. PICK t \in S : m = Place(t, rank)
    BY <1>6
<1>8. PICK s \in S : WaitsFor(t, s)
    BY DEF Deadlocked
<1>9. Place(t, rank) < Place(s, rank)
    BY <1>1, <1>8, WaitsForOneFurtherOn
<1>10. Place(s, rank) <= Place(t, rank)
    BY <1>6, <1>7
<1> QED BY <1>2, <1>9, <1>10

(***************************************************************************)
(* Summaries.  A sum over a finite set is the value of a recursive         *)
(* function on its subsets: there is such a function, by induction on how  *)
(* large the subsets are, and its values are numbers.                      *)
(***************************************************************************)
Pick(s) == CHOOSE x \in s : TRUE

\* The sum of w over a set, from the sum over what is left without one element.
Sums(w, g, D) == \A s \in D : g[s] = IF s = {} THEN 0 ELSE w[Pick(s)] + g[s \ {Pick(s)}]

UpTo(S, n) == {s \in SUBSET S : Cardinality(s) <= n}

LEMMA Subsets ==
    ASSUME NEW S, IsFiniteSet(S), NEW s \in SUBSET S
    PROVE  /\ IsFiniteSet(s) /\ Cardinality(s) \in Nat
           /\ Cardinality(s) <= Cardinality(S)
           /\ Cardinality(s) = 0 <=> s = {}
           /\ s # {} => /\ Pick(s) \in s
                        /\ s \ {Pick(s)} \in SUBSET S
                        /\ Cardinality(s \ {Pick(s)}) = Cardinality(s) - 1
<1>1. /\ IsFiniteSet(s) /\ Cardinality(s) \in Nat /\ Cardinality(s) <= Cardinality(S)
      /\ Cardinality(s) = 0 <=> s = {}
    BY FS_Subset, FS_CardinalityType, FS_EmptySet
<1>2. ASSUME s # {} PROVE Pick(s) \in s
    BY <1>2 DEF Pick
<1>3. ASSUME s # {} PROVE Cardinality(s \ {Pick(s)}) = Cardinality(s) - 1
    BY <1>1, <1>2, <1>3, FS_RemoveElement
<1> QED BY <1>1, <1>2, <1>3

LEMMA SumsExist ==
    ASSUME NEW S, IsFiniteSet(S), NEW w \in [S -> Nat]
    PROVE  \E g \in [SUBSET S -> Nat] : Sums(w, g, SUBSET S)
<1> DEFINE Exist(n) == \E g \in [UpTo(S, n) -> Nat] : Sums(w, g, UpTo(S, n))
           none == {n \in Nat : ~Exist(n)}
<1>1. none = {}
    <2> SUFFICES ASSUME none # {} PROVE FALSE
        OBVIOUS
    <2>1. PICK n \in none : \A m \in none : n <= m
        BY LeastNumber
    <2>2. CASE n = 0
        <3> DEFINE g == [s \in UpTo(S, 0) |-> 0]
        <3>1. ASSUME NEW s \in UpTo(S, 0) PROVE s = {}
            <4>1. s \in SUBSET S /\ Cardinality(s) <= 0
                BY DEF UpTo
            <4>2. Cardinality(s) \in Nat /\ (Cardinality(s) = 0 <=> s = {})
                BY <4>1, Subsets
            <4> QED BY <4>1, <4>2
        <3>2. g \in [UpTo(S, 0) -> Nat] /\ Sums(w, g, UpTo(S, 0))
            BY <3>1 DEF Sums
        <3> QED BY <2>1, <2>2, <3>2
    <2>3. CASE n # 0
        <3>1. n - 1 \in Nat /\ n \in Nat
            BY <2>1, <2>3
        <3>2. Exist(n - 1)
            BY <2>1, <3>1
        <3>3. PICK g \in [UpTo(S, n - 1) -> Nat] : Sums(w, g, UpTo(S, n - 1))
            BY <3>2
        <3> DEFINE h == [s \in UpTo(S, n) |->
                            IF s = {} THEN 0 ELSE w[Pick(s)] + g[s \ {Pick(s)}]]
        <3>4. ASSUME NEW s \in UpTo(S, n), s # {}
              PROVE  /\ Pick(s) \in S
                     /\ s \ {Pick(s)} \in UpTo(S, n - 1)
                     /\ s \ {Pick(s)} \in UpTo(S, n)
            BY <3>1, <3>4, Subsets DEF UpTo
        <3>5. h \in [UpTo(S, n) -> Nat]
            BY <3>4
        <3>6. \A s \in UpTo(S, n - 1) : s \in UpTo(S, n) /\ h[s] = g[s]
            <4>1. ASSUME NEW s \in UpTo(S, n - 1) PROVE s \in UpTo(S, n)
                <5>1. s \in SUBSET S /\ Cardinality(s) <= n - 1
                    BY DEF UpTo
                <5>2. Cardinality(s) \in Nat
                    BY <5>1, Subsets
                <5> QED BY <3>1, <5>1, <5>2 DEF UpTo
            <4> QED BY <3>3, <4>1 DEF Sums
        <3>7. Sums(w, h, UpTo(S, n))
            BY <3>4, <3>6 DEF Sums
        <3>8. Exist(n)
            BY <3>5, <3>7
        <3> QED BY <2>1, <3>8
    <2> QED BY <2>2, <2>3
<1>2. Cardinality(S) \in Nat
    BY FS_CardinalityType
<1>3. Exist(Cardinality(S))
    BY <1>1, <1>2
<1>4. UpTo(S, Cardinality(S)) = SUBSET S
    BY Subsets DEF UpTo
<1> QED BY <1>3, <1>4

LEMMA SumsAreNumbers ==
    ASSUME NEW S, IsFiniteSet(S), NEW w \in [S -> Nat], NEW g, Sums(w, g, SUBSET S)
    PROVE  g[S] \in Nat
<1> DEFINE bad == {n \in Nat : \E s \in SUBSET S : Cardinality(s) = n /\ g[s] \notin Nat}
<1>1. bad = {}
    <2> SUFFICES ASSUME bad # {} PROVE FALSE
        OBVIOUS
    <2>1. PICK n \in bad : \A m \in bad : n <= m
        BY LeastNumber
    <2>2. PICK s \in SUBSET S : Cardinality(s) = n /\ g[s] \notin Nat
        BY <2>1
    <2>3. s # {}
        <3>1. ASSUME s = {} PROVE g[s] = 0
            BY <2>2, <3>1 DEF Sums
        <3>2. 0 \in Nat
            OBVIOUS
        <3> QED BY <2>2, <3>1, <3>2
    <2>4. /\ Pick(s) \in S /\ s \ {Pick(s)} \in SUBSET S /\ n \in Nat
          /\ Cardinality(s \ {Pick(s)}) = n - 1 /\ Cardinality(s \ {Pick(s)}) \in Nat
        <3>1. s \ {Pick(s)} \in SUBSET S
            BY <2>3, Subsets
        <3> QED BY <2>2, <2>3, <3>1, Subsets
    <2>5. n - 1 \notin bad
        BY <2>1, <2>4
    <2>6. g[s \ {Pick(s)}] \in Nat
        BY <2>4, <2>5
    <2>7. g[s] = w[Pick(s)] + g[s \ {Pick(s)}]
        BY <2>3 DEF Sums
    <2> QED BY <2>2, <2>4, <2>6, <2>7
<1>2. S \in SUBSET S /\ Cardinality(S) \in Nat
    BY FS_CardinalityType
<1> QED BY <1>1, <1>2

\* What MapThenSumSet stands for, in Aggregated.
Total(column, S) ==
    (CHOOSE g : g = [s \in SUBSET S |->
                        IF s = {} THEN 0
                        ELSE column[CHOOSE x \in s : TRUE].rating
                                + g[s \ {CHOOSE x \in s : TRUE}]])[S]

LEMMA TotalType ==
    ASSUME NEW S, IsFiniteSet(S), NEW column, \A u \in S : column[u].rating \in Nat
    PROVE  Total(column, S) \in Nat
<1> DEFINE w == [u \in S |-> column[u].rating]
           Eq(g) == g = [s \in SUBSET S |->
                            IF s = {} THEN 0
                            ELSE column[CHOOSE x \in s : TRUE].rating
                                    + g[s \ {CHOOSE x \in s : TRUE}]]
           total == CHOOSE g : Eq(g)
<1>1. Total(column, S) = total[S]
    BY DEF Total
<1>2. w \in [S -> Nat]
    OBVIOUS
<1>3. \A s \in SUBSET S : s # {} => w[Pick(s)] = column[CHOOSE x \in s : TRUE].rating
    BY DEF Pick
<1>4. \E g : Eq(g)
    <2>1. PICK g \in [SUBSET S -> Nat] : Sums(w, g, SUBSET S)
        BY <1>2, SumsExist
    <2>2. Eq(g)
        BY <1>3, <2>1 DEF Sums, Pick
    <2> QED BY <2>2
<1>5. Eq(total)
    BY <1>4
<1> HIDE DEF total
<1>6. Sums(w, total, SUBSET S)
    BY <1>3, <1>5 DEF Sums, Pick
<1>7. total[S] \in Nat
    BY <1>2, <1>6, SumsAreNumbers
<1> QED BY <1>1, <1>7

LEMMA AggregatedType ==
    ASSUME NEW column \in [Users -> ReviewRows \cup {None}]
    PROVE  Aggregated(column) \in Summaries
<1> DEFINE visible == {u \in Users : column[u] # None /\ ~column[u].hidden}
           sum == MapThenSumSet(LAMBDA u : column[u].rating, visible)
<1>1. IsFiniteSet(visible) /\ Cardinality(visible) \in Nat
    BY RatingsAssumption, FS_Subset, FS_CardinalityType
<1>2. \A u \in visible : column[u].rating \in Nat
    BY RatingsAssumption DEF ReviewRows
<1>3. sum \in Nat
    <2>1. sum = Total(column, visible)
        BY DEF MapThenSumSet, MapThenFoldSet, Total
    <2> HIDE DEF sum
    <2> QED BY <1>1, <1>2, <2>1, TotalType
<1> HIDE DEF sum, visible
<1>4. ASSUME NEW n \in Nat, NEW c \in Nat \ {0}
      PROVE  (200 * n + c) \div (2 * c) \in Nat
    OBVIOUS
<1>5. [average |-> IF Cardinality(visible) = 0 THEN 0
                   ELSE (200 * sum + Cardinality(visible)) \div (2 * Cardinality(visible)),
       count |-> Cardinality(visible)] \in Summaries
    BY <1>1, <1>3, <1>4 DEF Summaries
<1> QED BY <1>5 DEF Aggregated, sum, visible

LEMMA SummaryType ==
    ASSUME NEW rows \in [Users -> [Foods -> ReviewRows \cup {None}]], NEW f \in Foods
    PROVE  Summary(rows, f) \in Summaries
BY AggregatedType DEF Summary

\* A summary is made of the reviews of its food alone.
LEMMA SameSummary ==
    ASSUME NEW rows, NEW other, NEW f, \A u \in Users : rows[u][f] = other[u][f]
    PROVE  Summary(rows, f) = Summary(other, f)
<1>1. [u \in Users |-> rows[u][f]] = [u \in Users |-> other[u][f]]
    OBVIOUS
<1> QED BY <1>1 DEF Summary

(***************************************************************************)
(* What a step of one transaction leaves of the others.                    *)
(***************************************************************************)
LEMMA IdleType ==
    /\ Idle \in TxStates
    /\ Idle.pc = "idle" /\ Idle.kind = "rate" /\ Idle.next = 1 /\ Idle.items = <<>>
    /\ DOMAIN Idle.items = {}
BY DEF Idle, TxStates, Statements, NoSummaries

LEMMA TxUpdate ==
    ASSUME TypeOK, NEW t \in Transactions, NEW new \in TxStates,
           tx' = [tx EXCEPT ![t] = new]
    PROVE  /\ tx' \in [Transactions -> TxStates]
           /\ tx'[t] = new
           /\ \A s \in Transactions \ {t} : tx'[s] = tx[s]
BY DEF TypeOK

LEMMA FoodsOf ==
    ASSUME TypeOK, NEW t \in Transactions, TxInv(t)
    PROVE  /\ Written(t) \subseteq Foods
           /\ Counted(t) \subseteq Written(t)
           /\ Updated(t) \subseteq Foods
           /\ At(t, "idle") => Written(t) = {} /\ Counted(t) = {} /\ Updated(t) = {}
<1>1. CASE At(t, "idle")
    BY <1>1, IdleType DEF TxInv, Written, Counted, Updated
<1>2. CASE ~At(t, "idle")
    <2>1. \A i \in DOMAIN tx[t].items : tx[t].items[i] \in Foods
        BY <1>2, Busy
    <2> QED BY <1>2, <2>1 DEF Written, Counted, Updated, At
<1> QED BY <1>1, <1>2

\* A transaction sees the reviews of f that it saw, if it had written its own
\* and nobody has committed another.
LEMMA SeenKept ==
    ASSUME NEW t \in Transactions, NEW f \in Foods, f \in Written(t), f \in Written(t)',
           tx[t].user \in Users, tx'[t].user = tx[t].user, tx'[t].kind = tx[t].kind,
           tx'[t].rating = tx[t].rating, tx'[t].hidden = tx[t].hidden,
           \A u \in Users : reviews'[u][f] = reviews[u][f]
    PROVE  Summary(Seen(t), f)' = Summary(Seen(t), f)
<1>1. NewReview(t, f)' = NewReview(t, f)
    BY DEF NewReview
<1>2. \A u \in Users : Seen(t)'[u][f] = Seen(t)[u][f]
    BY <1>1 DEF Seen
<1> QED BY <1>2, SameSummary

LEMMA OthersKept ==
    ASSUME RatingsInv, NEW t \in Transactions, NEW s \in Transactions \ {t},
           tx'[s] = tx[s],
           \A u \in Users, f \in Foods :
                /\ reviewLock'[u][f] \in {reviewLock[u][f], t, None}
                /\ reviews[u][f] # None => reviews'[u][f] # None,
           \A f \in Foods :
                /\ foodLock'[f] \in {foodLock[f], t, None}
                /\ <<s, f>> \in crowded => <<s, f>> \in crowded',
           \A u \in Users, f \in Written(s) :
                <<s, f>> \notin crowded => reviews'[u][f] = reviews[u][f]
    PROVE  TxInv(s)' /\ LockInv(s)' /\ CountInv(s)'
<1>1. TypeOK /\ TxInv(s) /\ LockInv(s) /\ CountInv(s) /\ s # None
    BY RatingsAssumption DEF RatingsInv
<1>2. Written(s)' = Written(s) /\ Counted(s)' = Counted(s) /\ Updated(s)' = Updated(s)
    BY DEF Written, Counted, Updated, At
<1>3. TxInv(s)'
    <2>1. CASE At(s, "idle")
        BY <1>1, <2>1, IdleType DEF TxInv, At
    <2>2. CASE ~At(s, "idle")
        <3>1. /\ tx[s].user \in Users
              /\ \A i \in DOMAIN tx[s].items : tx[s].items[i] \in Foods
            BY <1>1, <2>2, Busy
        <3> QED BY <1>1, <2>2, <3>1 DEF TxInv, At
    <2> QED BY <2>1, <2>2
<1>4. LockInv(s)'
    <2>1. ASSUME NEW u \in Users, NEW f \in Foods, reviewLock'[u][f] = s
          PROVE  u = tx'[s].user /\ f \in Written(s)
        <3>1. reviewLock[u][f] = s
            BY <1>1, <2>1
        <3> QED BY <1>1, <3>1 DEF LockInv
    <2>2. ASSUME NEW f \in Foods, foodLock'[f] = s PROVE f \in Updated(s)
        <3>1. foodLock[f] = s
            BY <1>1, <2>2
        <3> QED BY <1>1, <3>1 DEF LockInv
    <2> QED BY <1>2, <2>1, <2>2 DEF LockInv
<1>5. CountInv(s)'
    <2> SUFFICES ASSUME NEW f \in Counted(s)
                 PROVE  /\ tx[s].computed[f] # None
                        /\ <<s, f>> \notin crowded' =>
                                tx[s].computed[f] = Summary(Seen(s), f)'
        BY <1>2 DEF CountInv
    <2>1. /\ tx[s].computed[f] # None /\ f \in Written(s) /\ f \in Foods
          /\ <<s, f>> \notin crowded => tx[s].computed[f] = Summary(Seen(s), f)
        BY <1>1, FoodsOf DEF CountInv
    <2>2. tx[s].user \in Users
        BY <1>1, <2>1, FoodsOf DEF TxInv
    <2>3. ASSUME <<s, f>> \notin crowded' PROVE Summary(Seen(s), f)' = Summary(Seen(s), f)
        <3>1. \A u \in Users : reviews'[u][f] = reviews[u][f]
            BY <2>1, <2>3
        <3> QED BY <1>2, <2>1, <2>2, <3>1, SeenKept
    <2> QED BY <2>1, <2>3
<1> QED BY <1>3, <1>4, <1>5

\* When a transaction neither commits, nor writes a review, nor ends.
LEMMA Assemble ==
    ASSUME RatingsInv, NEW t \in Transactions, TypeOK',
           \A s \in Transactions \ {t} : tx'[s] = tx[s],
           UNCHANGED <<reviews, summary, reviewLock, crowded, suspect>>,
           \A f \in Foods : foodLock'[f] \in {foodLock[f], t},
           Written(t)' \subseteq Written(t), TxInv(t)', LockInv(t)', CountInv(t)'
    PROVE  RatingsInv'
<1>1. \A s \in Transactions \ {t} : TxInv(s)' /\ LockInv(s)' /\ CountInv(s)'
    BY OthersKept
<1>2. \A s \in Transactions : Written(s)' \subseteq Written(s)
    BY DEF Written, At
<1>3. \A s \in Transactions : CrowdInv(s)'
    BY <1>2 DEF RatingsInv, CrowdInv
<1>4. SummariesAreExactUnlessCrowded'
    BY DEF RatingsInv, SummariesAreExactUnlessCrowded
<1> QED BY <1>1, <1>3, <1>4 DEF RatingsInv

\* The rows a transaction sees, and whatever it commits.
LEMMA SeenRows ==
    ASSUME TypeOK, NEW t \in Transactions, TxInv(t), ~At(t, "idle"),
           NEW u \in Users, NEW f \in Foods
    PROVE  /\ Seen(t)[u][f] \in ReviewRows \cup {None}
           /\ reviews[u][f] # None => Seen(t)[u][f] # None
<1>1. /\ tx[t] \in TxStates /\ tx[t].user \in Users
      /\ \A v \in Users, g \in Foods : reviews[v][g] \in ReviewRows \cup {None}
      /\ None \notin ReviewRows
    BY RatingsAssumption, Busy DEF TypeOK, ReviewRows
<1>2. ASSUME f \in Written(t) PROVE NewReview(t, f) \in ReviewRows
    <2>1. CASE tx[t].kind = "rate"
        <3>1. tx[t].rating \in Stars /\ tx[t].hidden \in BOOLEAN
            BY <1>1, <2>1 DEF TxInv, TxStates
        <3> QED BY <2>1, <3>1 DEF NewReview, ReviewRows
    <2>2. CASE tx[t].kind = "moderate"
        <3>1. reviews[tx[t].user][f] # None
            BY <1>2, <2>2 DEF TxInv, Written
        <3>2. reviews[tx[t].user][f].rating \in Stars
            BY <1>1, <3>1 DEF ReviewRows
        <3>3. tx[t].hidden \in BOOLEAN
            BY <1>1 DEF TxStates
        <3> QED BY <2>2, <3>2, <3>3 DEF NewReview, ReviewRows
    <2> QED BY <1>1, <2>1, <2>2 DEF TxStates
<1>3. Seen(t)[u][f] = IF u = tx[t].user /\ f \in Written(t) THEN NewReview(t, f)
                                                          ELSE reviews[u][f]
    BY DEF Seen
<1> QED BY <1>1, <1>2, <1>3

LEMMA SeenType ==
    ASSUME TypeOK, NEW t \in Transactions, TxInv(t), ~At(t, "idle")
    PROVE  Seen(t) \in [Users -> [Foods -> ReviewRows \cup {None}]]
<1>1. \A u \in Users, f \in Foods : Seen(t)[u][f] \in ReviewRows \cup {None}
    BY SeenRows
<1> QED BY <1>1 DEF Seen

(***************************************************************************)
(* One lemma for each action.                                              *)
(***************************************************************************)
LEMMA BeginStep ==
    ASSUME RatingsInv, NEW t \in Transactions, NEW kind \in {"rate", "moderate"},
           NEW u \in Users, NEW items \in ItemLists, NEW rating \in Stars \cup {None},
           NEW hidden \in BOOLEAN, Begin(t, kind, u, items, rating, hidden),
           kind = "rate" => rating \in Stars,
           kind = "moderate" => \A i \in DOMAIN items : reviews[u][items[i]] # None
    PROVE  RatingsInv'
<1> DEFINE new == [pc |-> "review", kind |-> kind, user |-> u, items |-> items,
                   next |-> 1, rating |-> rating, hidden |-> hidden,
                   computed |-> NoSummaries]
<1>1. /\ At(t, "idle") /\ tx' = [tx EXCEPT ![t] = new]
      /\ UNCHANGED <<reviews, summary, reviewLock, foodLock, crowded, suspect>>
    BY DEF Begin
<1>2. TypeOK /\ TxInv(t) /\ LockInv(t)
    BY DEF RatingsInv
<1>3. new \in TxStates
    BY DEF TxStates, Statements, NoSummaries
<1>4. /\ new.pc = "review" /\ new.kind = kind /\ new.user = u /\ new.items = items
      /\ new.next = 1 /\ new.rating = rating
    OBVIOUS
<1> HIDE DEF new
<1>5. /\ tx' \in [Transactions -> TxStates] /\ tx'[t] = new
      /\ \A s \in Transactions \ {t} : tx'[s] = tx[s]
    BY <1>1, <1>2, <1>3, TxUpdate
<1>6. DOMAIN items = 1 .. Len(items) /\ Len(items) \in Nat \ {0}
    BY ItemsOfLists
<1>7. Written(t)' = {} /\ Counted(t)' = {}
    BY <1>4, <1>5, <1>6 DEF Written, Counted, At
<1>8. TypeOK'
    BY <1>1, <1>2, <1>5 DEF TypeOK
<1>9. TxInv(t)'
    BY <1>1, <1>4, <1>5, <1>6 DEF TxInv, At
<1>10. LockInv(t)'
    BY <1>1, <1>2, FoodsOf DEF LockInv
<1>11. CountInv(t)'
    BY <1>7 DEF CountInv
<1> QED BY <1>1, <1>5, <1>7, <1>8, <1>9, <1>10, <1>11, Assemble

LEMMA RateOrderStep ==
    ASSUME RatingsInv, NEW t \in Transactions, NEW u \in Users, NEW items \in ItemLists,
           NEW stars \in Stars, RateOrder(t, u, items, stars)
    PROVE  RatingsInv'
BY BeginStep DEF RateOrder

LEMMA ModerateReviewStep ==
    ASSUME RatingsInv, NEW t \in Transactions, NEW u \in Users, NEW f \in Foods,
           NEW hidden \in BOOLEAN, ModerateReview(t, u, f, hidden)
    PROVE  RatingsInv'
<1>1. reviews[u][f] # None /\ Begin(t, "moderate", u, <<f>>, None, hidden)
    BY DEF ModerateReview
<1>2. <<f>> \in ItemLists /\ \A i \in DOMAIN <<f>> : <<f>>[i] = f
    BY SingletonList
<1> DEFINE items == <<f>>
<1>3. items \in ItemLists /\ \A i \in DOMAIN items : reviews[u][items[i]] # None
    BY <1>1, <1>2
<1>4. Begin(t, "moderate", u, items, None, hidden)
    BY <1>1
<1> HIDE DEF items
<1> QED BY <1>3, <1>4, BeginStep

LEMMA WriteReviewStep ==
    ASSUME RatingsInv, NEW t \in Transactions, WriteReview(t)
    PROVE  RatingsInv'
<1> DEFINE u == tx[t].user
           f == Current(t)
           others == {s \in Transactions \ {t} : f \in Written(s)}
           new == [tx[t] EXCEPT !.pc = "aggregate"]
<1>1. /\ TypeOK /\ TxInv(t) /\ LockInv(t) /\ CrowdInv(t) /\ CountInv(t)
      /\ tx[t].pc = "review" /\ ~At(t, "idle") /\ tx[t] \in TxStates
    BY DEF RatingsInv, TypeOK, WriteReview, At
<1>2. /\ reviewLock[u][f] \in {None, t}
      /\ reviewLock' = [reviewLock EXCEPT ![u][f] = t]
      /\ crowded' = IF others = {} THEN crowded
                    ELSE crowded \cup {<<s, f>> : s \in others \cup {t}}
      /\ tx' = [tx EXCEPT ![t] = new]
      /\ UNCHANGED <<reviews, summary, foodLock, suspect>>
    BY DEF WriteReview, Goto
<1>3. /\ u \in Users /\ f \in Foods /\ DOMAIN tx[t].items = 1 .. Len(tx[t].items)
      /\ tx[t].next \in DOMAIN tx[t].items /\ f = tx[t].items[tx[t].next]
    BY <1>1, Busy DEF Current
<1>4. /\ new \in TxStates /\ new.pc = "aggregate"
      /\ new.kind = tx[t].kind /\ new.user = u /\ new.items = tx[t].items
      /\ new.next = tx[t].next /\ new.rating = tx[t].rating /\ new.hidden = tx[t].hidden
      /\ new.computed = tx[t].computed
    BY <1>1 DEF TxStates, Statements
<1> HIDE DEF new, u
<1>5. /\ tx' \in [Transactions -> TxStates] /\ tx'[t] = new
      /\ \A s \in Transactions \ {t} : tx'[s] = tx[s]
    BY <1>1, <1>2, <1>4, TxUpdate
<1>6. Written(t)' = Written(t) \cup {f}
    BY <1>1, <1>3, <1>4, <1>5 DEF Written, At
<1>7. Counted(t)' = Counted(t) /\ Updated(t)' = Updated(t)
    BY <1>1, <1>4, <1>5 DEF Counted, Updated, At
<1>8. \A s \in Transactions \ {t} : Written(s)' = Written(s)
    BY <1>5 DEF Written, At
<1> HIDE DEF f
<1>9. /\ reviewLock' \in [Users -> [Foods -> Transactions \cup {None}]]
      /\ \A v \in Users, g \in Foods :
            reviewLock'[v][g] = IF v = u /\ g = f THEN t ELSE reviewLock[v][g]
    BY <1>1, <1>2, <1>3 DEF TypeOK
<1>10. /\ crowded \subseteq crowded' /\ crowded' \subseteq Transactions \X Foods
       /\ \A s \in others : <<s, f>> \in crowded' /\ <<t, f>> \in crowded'
    BY <1>1, <1>2, <1>3 DEF TypeOK
<1>11. TypeOK'
    BY <1>1, <1>2, <1>5, <1>9, <1>10 DEF TypeOK
<1>12. TxInv(t)'
    BY <1>1, <1>2, <1>4, <1>5 DEF TxInv, At, u
<1>13. LockInv(t)'
    BY <1>1, <1>2, <1>4, <1>5, <1>6, <1>7, <1>9 DEF LockInv, u
<1>14. CountInv(t)'
    <2> SUFFICES ASSUME NEW g \in Counted(t), <<t, g>> \notin crowded
                 PROVE  Summary(Seen(t), g)' = Summary(Seen(t), g)
        BY <1>1, <1>4, <1>5, <1>7, <1>10 DEF CountInv
    <2>1. g \in Foods /\ g \in Written(t) /\ g \in Written(t)'
        BY <1>1, <1>6, FoodsOf
    <2> QED BY <1>2, <1>3, <1>4, <1>5, <2>1, SeenKept DEF u
<1>15. ASSUME NEW s \in Transactions \ {t} PROVE TxInv(s)' /\ LockInv(s)' /\ CountInv(s)'
    BY <1>2, <1>5, <1>9, <1>10, OthersKept
<1>16. ASSUME NEW q \in Transactions, NEW s \in Transactions \ {q},
              NEW g \in Written(s)' \cap Written(q)'
       PROVE  <<s, g>> \in crowded' /\ <<q, g>> \in crowded'
    <2>1. CASE g \in Written(s) \cap Written(q)
        BY <1>10, <2>1 DEF RatingsInv, CrowdInv
    <2>2. CASE g \notin Written(s) \cap Written(q)
        <3>1. g = f /\ t \in {q, s}
            BY <1>6, <1>8, <2>2
        <3>2. \A p \in {q, s} \ {t} : p \in others
            BY <1>8, <1>16, <3>1
        <3> QED BY <1>10, <3>1, <3>2
    <2> QED BY <2>1, <2>2
<1>17. \A q \in Transactions : CrowdInv(q)'
    BY <1>16 DEF CrowdInv
<1>18. SummariesAreExactUnlessCrowded'
    BY <1>2 DEF RatingsInv, SummariesAreExactUnlessCrowded
<1> QED BY <1>11, <1>12, <1>13, <1>14, <1>15, <1>17, <1>18 DEF RatingsInv

LEMMA AggregateStep ==
    ASSUME RatingsInv, NEW t \in Transactions, Aggregate(t)
    PROVE  RatingsInv'
<1> DEFINE f == Current(t)
           sum == Summary(Seen(t), f)
           new == [tx[t] EXCEPT !.pc = "food", !.computed = [@ EXCEPT ![f] = sum]]
<1>1. /\ TypeOK /\ TxInv(t) /\ LockInv(t) /\ CountInv(t)
      /\ tx[t].pc = "aggregate" /\ ~At(t, "idle") /\ tx[t] \in TxStates
      /\ UNCHANGED <<reviews, summary, reviewLock, foodLock, crowded, suspect>>
    BY DEF RatingsInv, TypeOK, Aggregate, At
<1>2. /\ tx[t].user \in Users /\ f \in Foods
      /\ DOMAIN tx[t].items = 1 .. Len(tx[t].items) /\ Len(tx[t].items) \in Nat
      /\ tx[t].next \in DOMAIN tx[t].items /\ f = tx[t].items[tx[t].next]
    BY <1>1, Busy DEF Current
<1>3. Seen(t) \in [Users -> [Foods -> ReviewRows \cup {None}]]
    BY <1>1, SeenType
<1>4. sum \in Summaries /\ sum # None
    BY <1>2, <1>3, SummaryType, RatingsAssumption DEF Summaries
<1>5. tx' = [tx EXCEPT ![t] = new]
    <2>1. tx' = [tx EXCEPT ![t].pc = "food", ![t].computed[f] = sum]
        BY DEF Aggregate
    <2> QED BY <1>1, <2>1 DEF TypeOK, TxStates
<1>6. f \in Written(t)
    BY <1>1, <1>2 DEF Written, At
<1> HIDE DEF sum
<1>7. /\ new \in TxStates /\ new.pc = "food"
      /\ new.kind = tx[t].kind /\ new.user = tx[t].user /\ new.items = tx[t].items
      /\ new.next = tx[t].next /\ new.rating = tx[t].rating /\ new.hidden = tx[t].hidden
      /\ new.computed[f] = sum
      /\ \A g \in Foods \ {f} : new.computed[g] = tx[t].computed[g]
    BY <1>1, <1>2, <1>4 DEF TxStates, Statements
<1> HIDE DEF new
<1>8. /\ tx' \in [Transactions -> TxStates] /\ tx'[t] = new
      /\ \A s \in Transactions \ {t} : tx'[s] = tx[s]
    BY <1>1, <1>5, <1>7, TxUpdate
<1>9. Written(t)' = Written(t) /\ Updated(t)' = Updated(t)
    BY <1>1, <1>7, <1>8 DEF Written, Updated, At
<1>10. Counted(t)' \subseteq Counted(t) \cup {f}
    BY <1>1, <1>2, <1>7, <1>8 DEF Counted, At
<1> HIDE DEF f
<1>11. TypeOK'
    BY <1>1, <1>8 DEF TypeOK
<1>12. TxInv(t)'
    BY <1>1, <1>7, <1>8 DEF TxInv, At
<1>13. LockInv(t)'
    BY <1>1, <1>7, <1>8, <1>9 DEF LockInv
<1>14. CountInv(t)'
    <2> SUFFICES ASSUME NEW g \in Counted(t)'
                 PROVE  /\ new.computed[g] # None
                        /\ <<t, g>> \notin crowded =>
                                new.computed[g] = Summary(Seen(t), g)'
        BY <1>1, <1>8 DEF CountInv
    <2>1. g \in Written(t) /\ g \in Written(t)' /\ g \in Foods
        BY <1>1, <1>6, <1>9, <1>10, FoodsOf
    <2>2. Summary(Seen(t), g)' = Summary(Seen(t), g)
        BY <1>1, <1>2, <1>7, <1>8, <2>1, SeenKept
    <2>3. CASE g = f
        BY <1>4, <1>7, <2>2, <2>3 DEF sum
    <2>4. CASE g # f
        <3>1. g \in Counted(t) /\ new.computed[g] = tx[t].computed[g]
            BY <1>7, <1>10, <2>1, <2>4
        <3> QED BY <1>1, <2>2, <3>1 DEF CountInv
    <2> QED BY <2>3, <2>4
<1> QED BY <1>1, <1>8, <1>9, <1>11, <1>12, <1>13, <1>14, Assemble

LEMMA UpdateFoodStep ==
    ASSUME RatingsInv, NEW t \in Transactions, UpdateFood(t)
    PROVE  RatingsInv'
<1> DEFINE f == Current(t)
           new == IF tx[t].next < Len(tx[t].items)
                  THEN [tx[t] EXCEPT !.pc = "review", !.next = tx[t].next + 1]
                  ELSE [tx[t] EXCEPT !.pc = "commit"]
<1>1. /\ TypeOK /\ TxInv(t) /\ LockInv(t) /\ CountInv(t)
      /\ tx[t].pc = "food" /\ ~At(t, "idle") /\ tx[t] \in TxStates
      /\ UNCHANGED <<reviews, summary, reviewLock, crowded, suspect>>
      /\ foodLock' = [foodLock EXCEPT ![f] = t]
    BY DEF RatingsInv, TypeOK, UpdateFood, At
<1>2. /\ tx[t].user \in Users /\ f \in Foods
      /\ DOMAIN tx[t].items = 1 .. Len(tx[t].items) /\ Len(tx[t].items) \in Nat
      /\ tx[t].next \in 1 .. Len(tx[t].items) /\ f = tx[t].items[tx[t].next]
    BY <1>1, Busy DEF Current
<1>3. tx' = [tx EXCEPT ![t] = new]
    <2>1. CASE tx[t].next < Len(tx[t].items)
        <3>1. tx' = [tx EXCEPT ![t].pc = "review", ![t].next = @ + 1]
            BY <2>1 DEF UpdateFood
        <3> QED BY <1>1, <2>1, <3>1 DEF TypeOK, TxStates
    <2>2. CASE ~(tx[t].next < Len(tx[t].items))
        BY <2>2 DEF UpdateFood, Goto
    <2> QED BY <2>1, <2>2
<1>4. /\ new \in TxStates
      /\ new.kind = tx[t].kind /\ new.user = tx[t].user /\ new.items = tx[t].items
      /\ new.rating = tx[t].rating /\ new.hidden = tx[t].hidden
      /\ new.computed = tx[t].computed
      /\ \/ new.pc = "review" /\ new.next = tx[t].next + 1 /\ new.next <= Len(tx[t].items)
         \/ new.pc = "commit" /\ new.next = tx[t].next /\ new.next = Len(tx[t].items)
    <2>1. CASE tx[t].next < Len(tx[t].items)
        <3>1. new = [tx[t] EXCEPT !.pc = "review", !.next = tx[t].next + 1]
            BY <2>1
        <3>2. /\ tx[t].next + 1 \in Nat \ {0}
              /\ tx[t].next + 1 <= Len(tx[t].items)
            BY <1>2, <2>1
        <3> HIDE DEF new
        <3> QED BY <1>1, <3>1, <3>2 DEF TxStates, Statements
    <2>2. CASE ~(tx[t].next < Len(tx[t].items))
        <3>1. new = [tx[t] EXCEPT !.pc = "commit"]
            BY <2>2
        <3>2. tx[t].next = Len(tx[t].items)
            BY <1>2, <2>2
        <3> HIDE DEF new
        <3> QED BY <1>1, <3>1, <3>2 DEF TxStates, Statements
    <2> QED BY <2>1, <2>2
<1> HIDE DEF new
<1>5. /\ tx' \in [Transactions -> TxStates] /\ tx'[t] = new
      /\ \A s \in Transactions \ {t} : tx'[s] = tx[s]
    BY <1>1, <1>3, <1>4, TxUpdate
<1>6. Written(t)' = Written(t) /\ Counted(t)' = Counted(t)
    <2> DEFINE worked == {i \in DOMAIN tx[t].items : i <= tx[t].next}
    <2>1. /\ worked = {i \in DOMAIN tx[t].items :
                        i < tx[t].next \/ (i = tx[t].next /\ tx[t].pc # "review")}
          /\ worked = {i \in DOMAIN tx[t].items : i < tx[t].next
                        \/ (i = tx[t].next /\ tx[t].pc \in {"food", "commit"})}
        BY <1>1, <1>2
    <2>2. /\ worked = {i \in DOMAIN new.items :
                        i < new.next \/ (i = new.next /\ new.pc # "review")}
          /\ worked = {i \in DOMAIN new.items : i < new.next
                        \/ (i = new.next /\ new.pc \in {"food", "commit"})}
        <3>1. CASE new.pc = "review" /\ new.next = tx[t].next + 1
            BY <1>2, <1>4, <3>1
        <3>2. CASE new.pc = "commit" /\ new.next = tx[t].next
            BY <1>2, <1>4, <3>2
        <3> QED BY <1>4, <3>1, <3>2
    <2> HIDE DEF worked
    <2> QED BY <1>4, <1>5, <2>1, <2>2 DEF Written, Counted, At
<1>7. Updated(t) \cup {f} \subseteq Updated(t)'
    BY <1>1, <1>2, <1>4, <1>5 DEF Updated, At
<1> HIDE DEF f
<1>8. /\ foodLock' \in [Foods -> Transactions \cup {None}]
      /\ \A g \in Foods : foodLock'[g] = IF g = f THEN t ELSE foodLock[g]
    BY <1>1, <1>2 DEF TypeOK
<1>9. TypeOK'
    BY <1>1, <1>5, <1>8 DEF TypeOK
<1>10. TxInv(t)'
    <2>1. new.next \in DOMAIN new.items /\ new.pc # "idle"
        BY <1>2, <1>4
    <2> QED BY <1>1, <1>2, <1>4, <1>5, <2>1 DEF TxInv, At
<1>11. LockInv(t)'
    BY <1>1, <1>4, <1>5, <1>6, <1>7, <1>8 DEF LockInv
<1>12. CountInv(t)'
    <2> SUFFICES ASSUME NEW g \in Counted(t)
                 PROVE  Summary(Seen(t), g)' = Summary(Seen(t), g)
        BY <1>1, <1>4, <1>5, <1>6 DEF CountInv
    <2>1. g \in Written(t) /\ g \in Written(t)' /\ g \in Foods
        BY <1>1, <1>6, FoodsOf
    <2> QED BY <1>1, <1>2, <1>4, <1>5, <2>1, SeenKept
<1> QED BY <1>1, <1>5, <1>6, <1>8, <1>9, <1>10, <1>11, <1>12, Assemble

\* A transaction that ends, whether it commits or not.
LEMMA Ended ==
    ASSUME RatingsInv, NEW t \in Transactions, End(t),
           \A s \in Transactions \ {t} : \A u \in Users, f \in Written(s) :
                <<s, f>> \notin crowded => reviews'[u][f] = reviews[u][f],
           \A u \in Users, f \in Foods : reviews[u][f] # None => reviews'[u][f] # None
    PROVE  /\ tx' \in [Transactions -> TxStates]
           /\ reviewLock' \in [Users -> [Foods -> Transactions \cup {None}]]
           /\ foodLock' \in [Foods -> Transactions \cup {None}]
           /\ crowded' \subseteq Transactions \X Foods
           /\ \A s \in Transactions :
                TxInv(s)' /\ LockInv(s)' /\ CrowdInv(s)' /\ CountInv(s)'
<1>1. TypeOK /\ t # None
    BY RatingsAssumption DEF RatingsInv
<1>2. /\ tx' \in [Transactions -> TxStates] /\ tx'[t] = Idle
      /\ \A s \in Transactions \ {t} : tx'[s] = tx[s]
    BY <1>1, IdleType, TxUpdate DEF End
<1>3. /\ reviewLock' \in [Users -> [Foods -> Transactions \cup {None}]]
      /\ \A u \in Users, f \in Foods :
            reviewLock'[u][f] \in {reviewLock[u][f], None} \ {t}
    BY <1>1 DEF End, TypeOK
<1>4. /\ foodLock' \in [Foods -> Transactions \cup {None}]
      /\ \A f \in Foods : foodLock'[f] \in {foodLock[f], None} \ {t}
    BY <1>1 DEF End, TypeOK
<1>5. /\ crowded' \subseteq Transactions \X Foods
      /\ \A s \in Transactions \ {t}, f \in Foods :
            <<s, f>> \in crowded => <<s, f>> \in crowded'
    BY <1>1 DEF End, TypeOK
<1>6. Written(t)' = {} /\ Counted(t)' = {}
    BY <1>2, IdleType DEF Written, Counted
<1>7. ASSUME NEW s \in Transactions \ {t} PROVE TxInv(s)' /\ LockInv(s)' /\ CountInv(s)'
    BY <1>2, <1>3, <1>4, <1>5, <1>7, OthersKept
<1>8. TxInv(t)' /\ LockInv(t)' /\ CountInv(t)'
    BY <1>2, <1>3, <1>4, <1>6, IdleType DEF TxInv, LockInv, CountInv, At
<1>9. ASSUME NEW q \in Transactions, NEW s \in Transactions \ {q},
             NEW g \in Written(s)' \cap Written(q)'
      PROVE  <<s, g>> \in crowded' /\ <<q, g>> \in crowded'
    <2>1. s # t /\ q # t
        BY <1>6
    <2>2. g \in Written(s) /\ g \in Written(q)
        BY <1>2, <1>9, <2>1 DEF Written, At
    <2>3. g \in Foods
        BY <1>1, <2>2, FoodsOf DEF RatingsInv
    <2> QED BY <1>5, <2>1, <2>2, <2>3 DEF RatingsInv, CrowdInv
<1> QED BY <1>2, <1>3, <1>4, <1>5, <1>7, <1>8, <1>9 DEF CrowdInv

LEMMA RollbackStep ==
    ASSUME RatingsInv, NEW t \in Transactions, Rollback(t)
    PROVE  RatingsInv'
<1>1. End(t) /\ UNCHANGED <<reviews, summary, suspect>>
    BY DEF Rollback
<1>2. /\ TypeOK'
      /\ \A s \in Transactions :
            TxInv(s)' /\ LockInv(s)' /\ CrowdInv(s)' /\ CountInv(s)'
    BY <1>1, Ended DEF RatingsInv, TypeOK
<1>3. SummariesAreExactUnlessCrowded'
    BY <1>1 DEF RatingsInv, SummariesAreExactUnlessCrowded
<1> QED BY <1>2, <1>3 DEF RatingsInv

LEMMA CommitStep ==
    ASSUME RatingsInv, NEW t \in Transactions, Commit(t)
    PROVE  RatingsInv'
<1>1. /\ TypeOK /\ TxInv(t) /\ CrowdInv(t) /\ CountInv(t)
      /\ tx[t].pc = "commit" /\ ~At(t, "idle") /\ tx[t] \in TxStates
    BY DEF RatingsInv, TypeOK, Commit, At
<1>2. /\ reviews' = Seen(t)
      /\ summary' = [f \in Foods |-> IF f \in Written(t) THEN tx[t].computed[f]
                                                         ELSE summary[f]]
      /\ suspect' = (suspect \ Written(t)) \cup {f \in Foods : <<t, f>> \in crowded}
      /\ End(t)
    BY DEF Commit
<1>3. Written(t) \subseteq Counted(t) /\ Written(t) \subseteq Foods
    BY <1>1, FoodsOf DEF Written, Counted, At
<1>4. reviews' \in [Users -> [Foods -> ReviewRows \cup {None}]]
    BY <1>1, <1>2, SeenType
<1>5. \A u \in Users, f \in Foods : f \notin Written(t) => reviews'[u][f] = reviews[u][f]
    BY <1>2 DEF Seen
<1>6. \A u \in Users, f \in Foods : reviews[u][f] # None => reviews'[u][f] # None
    BY <1>1, <1>2, SeenRows
<1>7. \A f \in Written(t) : tx[t].computed[f] \in Summaries
    BY <1>1, <1>3 DEF CountInv, TxStates
<1>8. summary' \in [Foods -> Summaries] /\ suspect' \subseteq Foods
    BY <1>1, <1>2, <1>7 DEF TypeOK
<1>9. ASSUME NEW s \in Transactions \ {t}, NEW u \in Users, NEW f \in Written(s),
             <<s, f>> \notin crowded
      PROVE  reviews'[u][f] = reviews[u][f]
    <2>1. f \notin Written(t)
        BY <1>1, <1>9 DEF CrowdInv
    <2>2. f \in Foods
        BY <1>1, FoodsOf DEF RatingsInv
    <2> QED BY <1>5, <2>1, <2>2
<1>10. /\ TypeOK'
       /\ \A s \in Transactions :
            TxInv(s)' /\ LockInv(s)' /\ CrowdInv(s)' /\ CountInv(s)'
    BY <1>2, <1>4, <1>6, <1>8, <1>9, Ended DEF TypeOK
<1>11. ASSUME NEW f \in Foods, f \notin suspect'
       PROVE  summary'[f] = Summary(reviews', f)
    <2>1. CASE f \in Written(t)
        <3>1. <<t, f>> \notin crowded /\ f \in Counted(t)
            BY <1>2, <1>3, <1>11, <2>1
        <3>2. tx[t].computed[f] = Summary(Seen(t), f)
            BY <1>1, <3>1 DEF CountInv
        <3> QED BY <1>2, <2>1, <3>2
    <2>2. CASE f \notin Written(t)
        <3>1. summary'[f] = summary[f] /\ f \notin suspect
            BY <1>2, <1>11, <2>2
        <3>2. summary[f] = Summary(reviews, f)
            BY <3>1 DEF RatingsInv, SummariesAreExactUnlessCrowded
        <3>3. \A u \in Users : reviews'[u][f] = reviews[u][f]
            BY <1>5, <2>2
        <3> QED BY <3>1, <3>2, <3>3, SameSummary
    <2> QED BY <2>1, <2>2
<1>12. SummariesAreExactUnlessCrowded'
    BY <1>11 DEF SummariesAreExactUnlessCrowded
<1> QED BY <1>10, <1>12 DEF RatingsInv

-------------------------------------------------------------------------------

LEMMA InitInv == Init => RatingsInv
<1> SUFFICES ASSUME Init PROVE RatingsInv
    OBVIOUS
<1>1. TypeOK
    BY IdleType DEF Init, TypeOK, Summaries
<1>2. \A t \in Transactions : tx[t] = Idle /\ t # None
    BY RatingsAssumption DEF Init
<1>3. \A t \in Transactions : Written(t) = {} /\ Counted(t) = {}
    BY <1>2, IdleType DEF Written, Counted
<1>4. ASSUME NEW t \in Transactions
      PROVE  TxInv(t) /\ LockInv(t) /\ CrowdInv(t) /\ CountInv(t)
    <2>1. TxInv(t)
        BY <1>2, IdleType DEF TxInv, At
    <2>2. LockInv(t)
        BY <1>2 DEF LockInv, Init
    <2> QED BY <1>3, <2>1, <2>2 DEF CrowdInv, CountInv
<1>5. ASSUME NEW f \in Foods PROVE Summary(reviews, f) = [average |-> 0, count |-> 0]
    <2> DEFINE column == [u \in Users |-> reviews[u][f]]
    <2>1. {u \in Users : column[u] # None /\ ~column[u].hidden} = {}
        BY DEF Init
    <2> HIDE DEF column
    <2>2. Aggregated(column) = [average |-> 0, count |-> 0]
        BY <2>1, FS_EmptySet DEF Aggregated
    <2> QED BY <2>2 DEF Summary, column
<1>6. SummariesAreExactUnlessCrowded
    BY <1>5 DEF Init, SummariesAreExactUnlessCrowded
<1> QED BY <1>1, <1>4, <1>6 DEF RatingsInv

LEMMA StepInv == RatingsInv /\ [Next]_vars => RatingsInv'
<1> SUFFICES ASSUME RatingsInv, [Next]_vars PROVE RatingsInv'
    OBVIOUS
<1>1. CASE UNCHANGED vars
    <2>1. UNCHANGED <<reviews, summary, reviewLock, foodLock, tx, crowded, suspect>>
        BY <1>1 DEF vars
    <2>2. TypeOK' /\ SummariesAreExactUnlessCrowded'
        BY <2>1 DEF RatingsInv, TypeOK, SummariesAreExactUnlessCrowded
    <2>3. ASSUME NEW t \in Transactions
          PROVE  TxInv(t)' /\ LockInv(t)' /\ CrowdInv(t)' /\ CountInv(t)'
        <3>1. /\ \A s \in Transactions : Written(s)' = Written(s)
              /\ Updated(t)' = Updated(t) /\ Counted(t)' = Counted(t)
              /\ Seen(t)' = Seen(t)
            BY <2>1 DEF Written, Updated, Counted, Seen, NewReview, At
        <3>2. TxInv(t)' /\ LockInv(t)' /\ CrowdInv(t)'
            BY <2>1, <3>1 DEF RatingsInv, TxInv, LockInv, CrowdInv, At
        <3>3. CountInv(t)'
            BY <2>1, <3>1 DEF RatingsInv, CountInv
        <3> QED BY <3>2, <3>3
    <2> QED BY <2>2, <2>3 DEF RatingsInv
<1> QED BY <1>1, RateOrderStep, ModerateReviewStep, WriteReviewStep, AggregateStep,
           UpdateFoodStep, CommitStep, RollbackStep DEF Next

\* RatingsInv, what every transaction has locked, written and counted, holds in
\* every reachable state (rateOrder, moderateReview).
THEOREM Invariance == Spec => []RatingsInv
BY InitInv, StepInv, PTL DEF Spec

\* Every variable of Ratings keeps its type; in particular an average is a
\* number, whatever reviews there are (updateFoodRatingAggregate).
THEOREM TypeCorrect == Spec => []TypeOK
<1>1. RatingsInv => TypeOK
    BY DEF RatingsInv
<1> QED BY Invariance, <1>1, PTL

\* The summary in a food's row is exact unless the transaction that wrote it
\* overlapped another one on the food (updateFoodRatingAggregate).
THEOREM SummarySafety == Spec => []SummariesAreExactUnlessCrowded
<1>1. RatingsInv => SummariesAreExactUnlessCrowded
    BY DEF RatingsInv
<1> QED BY Invariance, <1>1, PTL

\* Transactions deadlock only over orders that list foods in different orders,
\* however many transactions there are (rateOrder).
THEOREM DeadlockSafety == Spec => []DeadlocksNeedCrossedOrders
BY Invariance, DeadlocksAreCrossed, PTL
===============================================================================

------------------------------ MODULE CartsProofs ------------------------------
(***************************************************************************)
(* Theorems about Carts, for any number of requests, foods and lines.      *)
(***************************************************************************)
EXTENDS Carts, WellFoundedInduction, TLAPS

(***************************************************************************)
(* Numbers.                                                                *)
(***************************************************************************)
LEMMA LeastNumber ==
    ASSUME NEW T, T \subseteq Nat, T # {}
    PROVE  \E m \in T : \A n \in T : m <= n
<1>1. PICK m \in T : \A n \in T : ~(<<n, m>> \in OpToRel(<, Nat))
    BY NatLessThanWellFounded, WFMin
<1>2. \A n \in T : ~(n < m)
    BY <1>1 DEF OpToRel
<1> QED BY <1>2

LEMMA MaxOf ==
    ASSUME NEW n \in Nat, NEW s \in SUBSET (1 .. n), s # {}
    PROVE  Max(s) \in s /\ \A i \in s : Max(s) >= i
<1> DEFINE below == {n - i : i \in s}
<1>1. below \subseteq Nat /\ below # {}
    <2>1. \A i \in s : n - i \in Nat
        OBVIOUS
    <2> QED BY <2>1
<1>2. PICK d \in below : \A e \in below : d <= e
    BY <1>1, LeastNumber
<1>3. PICK m \in s : d = n - m
    BY <1>2
<1>4. \A i \in s : n - m <= n - i
    BY <1>2, <1>3
<1>5. \A i \in s : m >= i
    BY <1>3, <1>4
<1> QED BY <1>3, <1>5 DEF Max

LEMMA MaxOfPrefix ==
    ASSUME NEW k \in Nat \ {0}
    PROVE  Max(1 .. k) = k /\ (1 .. k) \ {k} = 1 .. (k - 1)
<1>1. k \in 1 .. k /\ 1 .. k # {}
    OBVIOUS
<1>2. Max(1 .. k) \in 1 .. k /\ Max(1 .. k) >= k
    BY <1>1, MaxOf
<1>3. Max(1 .. k) = k
    BY <1>2
<1> QED BY <1>3

(***************************************************************************)
(* Folding a sequence from the left is a recursive function of the set of  *)
(* its places.  Such a function exists.                                    *)
(***************************************************************************)
Folds(step, base, seq, g, D) ==
    \A s \in SUBSET D :
        g[s] = IF s = {} THEN base ELSE step[<<g[s \ {Max(s)}], seq[Max(s)]>>]

LEMMA FoldsExist ==
    ASSUME NEW X, NEW Y, NEW step \in [X \X Y -> X], NEW base \in X,
           NEW n \in Nat, NEW seq \in [1 .. n -> Y]
    PROVE  \E g \in [SUBSET (1 .. n) -> X] : Folds(step, base, seq, g, 1 .. n)
<1> DEFINE Exist(k) == \E g \in [SUBSET (1 .. k) -> X] : Folds(step, base, seq, g, 1 .. k)
           none == {k \in 0 .. n : ~Exist(k)}
<1>1. none = {}
    <2> SUFFICES ASSUME none # {} PROVE FALSE
        OBVIOUS
    <2>0. none \subseteq Nat
        OBVIOUS
    <2>1. PICK k \in none : \A m \in none : k <= m
        BY <2>0, LeastNumber
    <2>2. CASE k = 0
        <3> DEFINE g == [s \in SUBSET (1 .. 0) |-> base]
        <3>1. \A s \in SUBSET (1 .. 0) : s = {}
            OBVIOUS
        <3>2. g \in [SUBSET (1 .. 0) -> X] /\ Folds(step, base, seq, g, 1 .. 0)
            BY <3>1 DEF Folds
        <3> QED BY <2>1, <2>2, <3>2
    <2>3. CASE k # 0
        <3>1. k \in 1 .. n /\ k \in Nat \ {0} /\ k - 1 \in Nat /\ k - 1 \in 0 .. n
            BY <2>1, <2>3
        <3>2. Exist(k - 1)
            <4>1. k \in Nat /\ ~(k <= k - 1)
                BY <3>1
            <4>2. k - 1 \notin none
                BY <2>1, <4>1
            <4> QED BY <3>1, <4>2
        <3>3. PICK g \in [SUBSET (1 .. k - 1) -> X] : Folds(step, base, seq, g, 1 .. k - 1)
            BY <3>2
        <3> DEFINE h == [s \in SUBSET (1 .. k) |->
                            IF k \in s THEN step[<<g[s \ {k}], seq[k]>>] ELSE g[s]]
        <3>4. \A s \in SUBSET (1 .. k) : s \ {k} \in SUBSET (1 .. k - 1)
            BY <3>1
        <3>5. \A s \in SUBSET (1 .. k) : k \notin s => s \in SUBSET (1 .. k - 1)
            BY <3>1
        <3>6. seq[k] \in Y
            BY <3>1
        <3>7. h \in [SUBSET (1 .. k) -> X]
            <4>1. \A s \in SUBSET (1 .. k) : g[s \ {k}] \in X
                BY <3>4
            <4>2. \A s \in SUBSET (1 .. k) : step[<<g[s \ {k}], seq[k]>>] \in X
                BY <3>6, <4>1
            <4> QED BY <3>5, <4>2
        <3>8. ASSUME NEW s \in SUBSET (1 .. k)
              PROVE  h[s] = IF s = {} THEN base
                            ELSE step[<<h[s \ {Max(s)}], seq[Max(s)]>>]
            <4>1. CASE k \in s
                <5>1. Max(s) \in 1 .. k /\ Max(s) >= k
                    BY <3>1, <4>1, MaxOf
                <5>2. Max(s) = k
                    BY <3>1, <5>1
                <5>3. h[s \ {k}] = g[s \ {k}] /\ s # {}
                    BY <4>1
                <5> QED BY <4>1, <5>2, <5>3
            <4>2. CASE k \notin s
                <5>1. s \in SUBSET (1 .. k - 1) /\ h[s] = g[s]
                    BY <3>5, <4>2
                <5>2. s \ {Max(s)} \in SUBSET (1 .. k) /\ k \notin s \ {Max(s)}
                    BY <4>2
                <5>3. h[s \ {Max(s)}] = g[s \ {Max(s)}]
                    BY <5>2
                <5>4. g[s] = IF s = {} THEN base
                             ELSE step[<<g[s \ {Max(s)}], seq[Max(s)]>>]
                    BY <3>3, <5>1 DEF Folds
                <5> HIDE DEF h
                <5> QED BY <5>1, <5>3, <5>4
            <4> QED BY <4>1, <4>2
        <3>9. Folds(step, base, seq, h, 1 .. k)
            BY <3>8 DEF Folds
        <3> QED BY <2>1, <3>7, <3>9
    <2> QED BY <2>2, <2>3
<1>2. n \in 0 .. n
    OBVIOUS
<1>3. Exist(n)
    BY <1>1, <1>2
<1> QED BY <1>3

(***************************************************************************)
(* mergeDuplicateItems, line by line.                                      *)
(***************************************************************************)
LEMMA LeastType ==
    ASSUME NEW a \in Nat, NEW b \in Nat
    PROVE  Least(a, b) \in Nat /\ Least(a, b) <= b
BY DEF Least

LEMMA CappedType ==
    ASSUME NEW a \in Nat \ {0}
    PROVE  Least(a, MaxQuantity) \in Quantities
BY CartsAssumption DEF Least, Quantities

LEMMA LineType ==
    ASSUME NEW line \in Lines
    PROVE  line.food \in Foods /\ line.quantity \in Nat \ {0} /\ line.quantity <= MaxQuantity
BY CartsAssumption DEF Lines, Quantities

LEMMA Requantified ==
    ASSUME NEW item \in Lines, NEW q \in Quantities
    PROVE  /\ [item EXCEPT !.quantity = q] \in Lines
           /\ [item EXCEPT !.quantity = q].food = item.food
           /\ [item EXCEPT !.quantity = q].quantity = q
BY DEF Lines

LEMMA MergeLineType ==
    ASSUME NEW merged \in Seq(Lines), NEW line \in Lines
    PROVE  MergeLine(merged, line) \in Seq(Lines)
<1>1. line.food \in Foods /\ line.quantity \in Nat \ {0}
    BY LineType
<1>2. CASE line.food \in FoodsOf(merged)
    <2> DEFINE new == [i \in DOMAIN merged |->
                        IF merged[i].food = line.food
                        THEN [merged[i] EXCEPT
                                !.quantity = Least(@ + line.quantity, MaxQuantity)]
                        ELSE merged[i]]
    <2>1. ASSUME NEW i \in DOMAIN merged PROVE new[i] \in Lines
        <3>0. merged[i] \in Lines
            OBVIOUS
        <3>1. merged[i] \in Lines /\ merged[i].quantity \in Nat \ {0}
            BY <3>0, LineType
        <3>2. Least(merged[i].quantity + line.quantity, MaxQuantity) \in Quantities
            BY <1>1, <3>1, CappedType
        <3> QED BY <3>1, <3>2, Requantified
    <2>2. DOMAIN merged = 1 .. Len(merged) /\ Len(merged) \in Nat
        OBVIOUS
    <2>3. new \in Seq(Lines)
        BY <2>1, <2>2
    <2> QED BY <1>2, <2>3 DEF MergeLine
<1>3. CASE line.food \notin FoodsOf(merged)
    BY <1>3 DEF MergeLine
<1> QED BY <1>2, <1>3

\* The rounds of MergeDuplicateItems: what is merged after k lines.
Rounds(lines, n, h) ==
    /\ h[0] = <<>>
    /\ \A k \in 1 .. n : h[k] = MergeLine(h[k - 1], lines[k])
    /\ h[n] = MergeDuplicateItems(lines)

LEMMA RoundsExist ==
    ASSUME NEW n \in Nat, NEW lines \in [1 .. n -> Lines]
    PROVE  \E h : Rounds(lines, n, h)
<1> DEFINE Eq(g) == g = [s \in SUBSET (1 .. n) |->
                            IF s = {} THEN <<>>
                            ELSE MergeLine(g[s \ {Max(s)}], lines[Max(s)])]
           all == CHOOSE g : Eq(g)
           step == [p \in Seq(Lines) \X Lines |-> MergeLine(p[1], p[2])]
           h == [k \in 0 .. n |-> all[1 .. k]]
<1>1. DOMAIN lines = 1 .. n
    OBVIOUS
<1>2. MergeDuplicateItems(lines) = all[1 .. n]
    BY <1>1 DEF MergeDuplicateItems, FoldLeft, MapThenFoldSet
<1>3. step \in [Seq(Lines) \X Lines -> Seq(Lines)]
    BY MergeLineType
<1>4. \E g : Eq(g)
    <2>0. <<>> \in Seq(Lines)
        OBVIOUS
    <2>1. PICK g \in [SUBSET (1 .. n) -> Seq(Lines)] : Folds(step, <<>>, lines, g, 1 .. n)
        BY <1>3, <2>0, FoldsExist
    <2>2. ASSUME NEW s \in SUBSET (1 .. n), s # {}
          PROVE  g[s] = MergeLine(g[s \ {Max(s)}], lines[Max(s)])
        <3>1. Max(s) \in 1 .. n /\ s \ {Max(s)} \in SUBSET (1 .. n)
            BY <2>2, MaxOf
        <3>2. g[s \ {Max(s)}] \in Seq(Lines) /\ lines[Max(s)] \in Lines
            BY <3>1
        <3>3. g[s] = step[<<g[s \ {Max(s)}], lines[Max(s)]>>]
            BY <2>1, <2>2 DEF Folds
        <3> QED BY <3>2, <3>3
    <2>3. g[{}] = <<>>
        BY <2>1 DEF Folds
    <2>4. Eq(g)
        BY <2>2, <2>3
    <2> QED BY <2>4
<1>5. Eq(all)
    BY <1>4
<1> HIDE DEF all
<1>6. h[0] = <<>>
    <2>1. 1 .. 0 = {}
        OBVIOUS
    <2>2. all[{}] = <<>>
        BY <1>5
    <2>3. 0 \in 0 .. n
        OBVIOUS
    <2> QED BY <2>1, <2>2, <2>3
<1>7. ASSUME NEW k \in 1 .. n PROVE h[k] = MergeLine(h[k - 1], lines[k])
    <2>1. k \in Nat \ {0} /\ k \in 0 .. n /\ k - 1 \in 0 .. n
        OBVIOUS
    <2>2. 1 .. k \in SUBSET (1 .. n) /\ k \in 1 .. k
        BY <2>1
    <2>3. Max(1 .. k) = k /\ (1 .. k) \ {k} = 1 .. (k - 1)
        BY <2>1, MaxOfPrefix
    <2>4. all[1 .. k] = MergeLine(all[1 .. (k - 1)], lines[k])
        BY <1>5, <2>2, <2>3
    <2> QED BY <2>1, <2>4
<1>8. h[n] = all[1 .. n]
    OBVIOUS
<1> HIDE DEF h
<1>9. Rounds(lines, n, h)
    BY <1>2, <1>6, <1>7, <1>8 DEF Rounds
<1> QED BY <1>9

\* What is asked for f in the first k lines.
Sums(lines, f, n, a) ==
    /\ a[0] = 0
    /\ \A k \in 1 .. n :
        a[k] = IF lines[k].food = f THEN a[k - 1] + lines[k].quantity ELSE a[k - 1]
    /\ a[n] = Asked(lines, f)

LEMMA SumsExist ==
    ASSUME NEW n \in Nat, NEW lines \in [1 .. n -> Lines], NEW f
    PROVE  \E a : Sums(lines, f, n, a)
<1> DEFINE Eq(g) == g = [s \in SUBSET (1 .. n) |->
                            IF s = {} THEN 0
                            ELSE IF lines[Max(s)].food = f
                                 THEN g[s \ {Max(s)}] + lines[Max(s)].quantity
                                 ELSE g[s \ {Max(s)}]]
           all == CHOOSE g : Eq(g)
           step == [p \in Nat \X Lines |->
                        IF p[2].food = f THEN p[1] + p[2].quantity ELSE p[1]]
           a == [k \in 0 .. n |-> all[1 .. k]]
<1>1. DOMAIN lines = 1 .. n
    OBVIOUS
<1>2. Asked(lines, f) = all[1 .. n]
    BY <1>1 DEF Asked, FoldLeft, MapThenFoldSet
<1>3. step \in [Nat \X Lines -> Nat]
    <2>1. \A p \in Nat \X Lines : p[1] \in Nat /\ p[2].quantity \in Nat
        BY LineType
    <2> QED BY <2>1
<1>4. \E g : Eq(g)
    <2>1. PICK g \in [SUBSET (1 .. n) -> Nat] : Folds(step, 0, lines, g, 1 .. n)
        BY <1>3, FoldsExist
    <2>2. ASSUME NEW s \in SUBSET (1 .. n), s # {}
          PROVE  g[s] = IF lines[Max(s)].food = f
                        THEN g[s \ {Max(s)}] + lines[Max(s)].quantity
                        ELSE g[s \ {Max(s)}]
        <3>1. Max(s) \in 1 .. n /\ s \ {Max(s)} \in SUBSET (1 .. n)
            BY <2>2, MaxOf
        <3>2. g[s \ {Max(s)}] \in Nat /\ lines[Max(s)] \in Lines
            BY <3>1
        <3>3. g[s] = step[<<g[s \ {Max(s)}], lines[Max(s)]>>]
            BY <2>1, <2>2 DEF Folds
        <3> QED BY <3>2, <3>3
    <2>3. g[{}] = 0
        BY <2>1 DEF Folds
    <2>4. Eq(g)
        BY <2>2, <2>3
    <2> QED BY <2>4
<1>5. Eq(all)
    BY <1>4
<1> HIDE DEF all
<1>6. a[0] = 0
    <2>1. 1 .. 0 = {}
        OBVIOUS
    <2>2. all[{}] = 0
        BY <1>5
    <2>3. 0 \in 0 .. n
        OBVIOUS
    <2> QED BY <2>1, <2>2, <2>3
<1>7. ASSUME NEW k \in 1 .. n
      PROVE  a[k] = IF lines[k].food = f THEN a[k - 1] + lines[k].quantity ELSE a[k - 1]
    <2>1. k \in Nat \ {0} /\ k \in 0 .. n /\ k - 1 \in 0 .. n
        OBVIOUS
    <2>2. 1 .. k \in SUBSET (1 .. n) /\ k \in 1 .. k
        BY <2>1
    <2>3. Max(1 .. k) = k /\ (1 .. k) \ {k} = 1 .. (k - 1)
        BY <2>1, MaxOfPrefix
    <2>4. all[1 .. k] = IF lines[k].food = f
                        THEN all[1 .. (k - 1)] + lines[k].quantity ELSE all[1 .. (k - 1)]
        BY <1>5, <2>2, <2>3
    <2> QED BY <2>1, <2>4
<1>8. a[n] = all[1 .. n]
    OBVIOUS
<1> HIDE DEF a
<1>9. Sums(lines, f, n, a)
    BY <1>2, <1>6, <1>7, <1>8 DEF Sums
<1> QED BY <1>9

\* One item for each food.
Distinct(items) == \A i, j \in DOMAIN items : items[i].food = items[j].food => i = j

LEMMA MergeLineFoods ==
    ASSUME NEW merged \in Seq(Lines), NEW line \in Lines
    PROVE  /\ FoodsOf(MergeLine(merged, line)) = FoodsOf(merged) \cup {line.food}
           /\ Distinct(merged) => Distinct(MergeLine(merged, line))
<1> DEFINE new == MergeLine(merged, line)
<1>1. DOMAIN merged = 1 .. Len(merged) /\ Len(merged) \in Nat
    OBVIOUS
<1>2. CASE line.food \in FoodsOf(merged)
    <2>1. DOMAIN new = DOMAIN merged
        BY <1>2 DEF MergeLine
    <2>2. ASSUME NEW i \in DOMAIN merged PROVE new[i].food = merged[i].food
        <3>1. merged[i] \in Lines
            BY <1>1
        <3>2. [merged[i] EXCEPT !.quantity =
                    Least(@ + line.quantity, MaxQuantity)].food = merged[i].food
            BY <3>1 DEF Lines
        <3> QED BY <1>2, <3>2 DEF MergeLine
    <2> HIDE DEF new
    <2>3. FoodsOf(new) = FoodsOf(merged)
        BY <2>1, <2>2 DEF FoodsOf
    <2>4. Distinct(merged) => Distinct(new)
        BY <2>1, <2>2 DEF Distinct
    <2> QED BY <1>2, <2>3, <2>4 DEF new
<1>3. CASE line.food \notin FoodsOf(merged)
    <2>1. new = Append(merged, line)
        BY <1>3 DEF MergeLine
    <2>2. /\ DOMAIN new = 1 .. Len(merged) + 1
          /\ new[Len(merged) + 1] = line
          /\ \A i \in 1 .. Len(merged) : new[i] = merged[i]
        BY <2>1
    <2> HIDE DEF new
    <2>3. FoodsOf(new) = FoodsOf(merged) \cup {line.food}
        BY <1>1, <2>2 DEF FoodsOf
    <2>4. \A i \in DOMAIN merged : merged[i].food # line.food
        BY <1>3 DEF FoodsOf
    <2>5. Distinct(merged) => Distinct(new)
        BY <1>1, <2>2, <2>4 DEF Distinct
    <2> QED BY <2>3, <2>5 DEF new
<1> QED BY <1>2, <1>3

\* f has been asked for a times.
Holds(items, f, a) ==
    /\ a \in Nat
    /\ a = 0 <=> f \notin FoodsOf(items)
    /\ \A i \in DOMAIN items :
        items[i].food = f => items[i].quantity = Least(a, MaxQuantity)

LEMMA MergeLineQuantities ==
    ASSUME NEW merged \in Seq(Lines), NEW line \in Lines, NEW f, NEW a, Holds(merged, f, a)
    PROVE  Holds(MergeLine(merged, line), f,
                 IF line.food = f THEN a + line.quantity ELSE a)
<1> DEFINE new == MergeLine(merged, line)
           q == line.quantity
           b == IF line.food = f THEN a + q ELSE a
<1>1. DOMAIN merged = 1 .. Len(merged) /\ Len(merged) \in Nat
    OBVIOUS
<1>2. q \in Nat \ {0} /\ q <= MaxQuantity /\ a \in Nat /\ MaxQuantity \in Nat
    BY LineType, CartsAssumption DEF Holds
<1>3. b \in Nat
    BY <1>2
<1>4. b = 0 <=> f \notin FoodsOf(new)
    <2>1. FoodsOf(new) = FoodsOf(merged) \cup {line.food}
        BY MergeLineFoods
    <2>2. a = 0 <=> f \notin FoodsOf(merged)
        BY DEF Holds
    <2> QED BY <1>2, <2>1, <2>2
<1>5. ASSUME NEW i \in DOMAIN new, new[i].food = f
      PROVE  new[i].quantity = Least(b, MaxQuantity)
    <2>1. CASE line.food \in FoodsOf(merged)
        <3>1. i \in DOMAIN merged
            BY <2>1 DEF MergeLine
        <3>2. merged[i] \in Lines
            BY <1>1, <3>1
        <3> DEFINE sum == Least(merged[i].quantity + q, MaxQuantity)
        <3>3. /\ [merged[i] EXCEPT !.quantity = sum].food = merged[i].food
              /\ [merged[i] EXCEPT !.quantity = sum].quantity = sum
            BY <3>2 DEF Lines
        <3>4. new[i] = IF merged[i].food = line.food
                       THEN [merged[i] EXCEPT !.quantity = sum] ELSE merged[i]
            BY <2>1, <3>1 DEF MergeLine
        <3>5. merged[i].food = f
            BY <1>5, <3>3, <3>4
        <3>6. merged[i].quantity = Least(a, MaxQuantity)
            BY <3>1, <3>5 DEF Holds
        <3>7. CASE line.food = f
            <4>1. new[i].quantity = Least(Least(a, MaxQuantity) + q, MaxQuantity)
                BY <3>3, <3>4, <3>5, <3>6, <3>7
            <4>2. b = a + q
                BY <3>7
            <4> HIDE DEF q
            <4>3. Least(Least(a, MaxQuantity) + q, MaxQuantity) = Least(a + q, MaxQuantity)
                BY <1>2 DEF Least
            <4> QED BY <4>1, <4>2, <4>3
        <3>8. CASE line.food # f
            BY <3>4, <3>5, <3>6, <3>8
        <3> QED BY <3>7, <3>8
    <2>2. CASE line.food \notin FoodsOf(merged)
        <3>1. new = Append(merged, line)
            BY <2>2 DEF MergeLine
        <3>2. /\ DOMAIN new = 1 .. Len(merged) + 1
              /\ new[Len(merged) + 1] = line
              /\ \A j \in 1 .. Len(merged) : new[j] = merged[j]
            BY <3>1
        <3>3. CASE i = Len(merged) + 1
            <4>1. line.food = f /\ new[i].quantity = q
                BY <1>5, <3>2, <3>3
            <4>2. a = 0
                BY <2>2, <4>1 DEF Holds
            <4>3. b = q
                BY <1>2, <4>1, <4>2
            <4> HIDE DEF q, b
            <4> QED BY <1>2, <4>1, <4>3 DEF Least
        <3>4. CASE i \in 1 .. Len(merged)
            <4>1. i \in DOMAIN merged /\ merged[i] = new[i]
                BY <1>1, <3>2, <3>4
            <4>2. f \in FoodsOf(merged)
                BY <1>5, <4>1 DEF FoodsOf
            <4>3. line.food # f
                BY <2>2, <4>2
            <4> QED BY <1>5, <4>1, <4>3 DEF Holds
        <3> QED BY <1>1, <3>2, <3>3, <3>4
    <2> QED BY <2>1, <2>2
<1> HIDE DEF new, b
<1>6. Holds(new, f, b)
    BY <1>3, <1>4, <1>5 DEF Holds
<1> QED BY <1>6 DEF new, b

LEMMA LinesOfLists ==
    ASSUME NEW lines \in LineLists
    PROVE  \E n \in Nat : lines \in [1 .. n -> Lines] /\ DOMAIN lines = 1 .. n
<1>1. PICK n \in 0 .. MaxLines : lines \in [1 .. n -> Lines]
    BY DEF LineLists
<1>2. n \in Nat
    BY CartsAssumption
<1> QED BY <1>1, <1>2

\* The items of a request: one for each food, with what is asked for it.
Summed(items, lines) ==
    /\ FoodsOf(items) = FoodsOf(lines)
    /\ Distinct(items)
    /\ \A i \in DOMAIN items :
        items[i].quantity = Least(Asked(lines, items[i].food), MaxQuantity)

LEMMA MergedItems ==
    ASSUME NEW lines \in LineLists
    PROVE  MergeDuplicateItems(lines) \in Seq(Lines) /\ Summed(MergeDuplicateItems(lines), lines)
<1>1. PICK n \in Nat : lines \in [1 .. n -> Lines] /\ DOMAIN lines = 1 .. n
    BY LinesOfLists
<1>2. PICK h : Rounds(lines, n, h)
    BY <1>1, RoundsExist
<1>3. n \in 0 .. n /\ h[n] = MergeDuplicateItems(lines)
    BY <1>2 DEF Rounds
<1> DEFINE Good(k) == /\ h[k] \in Seq(Lines)
                      /\ FoodsOf(h[k]) = {lines[i].food : i \in 1 .. k}
                      /\ Distinct(h[k])
           bad == {k \in 0 .. n : ~Good(k)}
<1>4. Good(0)
    <2>1. h[0] = <<>> /\ DOMAIN <<>> = {} /\ 1 .. 0 = {} /\ <<>> \in Seq(Lines)
        BY <1>2 DEF Rounds
    <2> QED BY <2>1 DEF FoodsOf, Distinct
<1>5. ASSUME NEW k \in 1 .. n, Good(k - 1) PROVE Good(k)
    <2>1. h[k] = MergeLine(h[k - 1], lines[k]) /\ lines[k] \in Lines
        BY <1>1, <1>2 DEF Rounds
    <2>2. /\ h[k] \in Seq(Lines)
          /\ FoodsOf(h[k]) = FoodsOf(h[k - 1]) \cup {lines[k].food}
          /\ Distinct(h[k])
        BY <1>5, <2>1, MergeLineType, MergeLineFoods
    <2>3. 1 .. k = (1 .. k - 1) \cup {k}
        OBVIOUS
    <2>4. {lines[i].food : i \in 1 .. k} = {lines[i].food : i \in 1 .. k - 1} \cup {lines[k].food}
        BY <2>3
    <2> QED BY <1>5, <2>2, <2>4
<1>6. bad = {}
    <2> SUFFICES ASSUME bad # {} PROVE FALSE
        OBVIOUS
    <2>1. bad \subseteq Nat
        OBVIOUS
    <2>2. PICK k \in bad : \A m \in bad : k <= m
        BY <2>1, LeastNumber
    <2> HIDE DEF Good
    <2>3. k # 0
        BY <1>4
    <2>4. k \in 1 .. n /\ k - 1 \in 0 .. n /\ ~(k <= k - 1)
        BY <2>3
    <2>5. Good(k - 1)
        BY <2>2, <2>4
    <2> QED BY <1>5, <2>4, <2>5
<1>7. Good(n)
    BY <1>3, <1>6
<1>8. ASSUME NEW f PROVE Holds(h[n], f, Asked(lines, f))
    <2>1. PICK a : Sums(lines, f, n, a)
        BY <1>1, SumsExist
    <2> DEFINE worse == {k \in 0 .. n : ~Holds(h[k], f, a[k])}
    <2>2. Holds(h[0], f, a[0])
        <3>1. h[0] = <<>> /\ DOMAIN <<>> = {} /\ a[0] = 0
            BY <1>2, <2>1 DEF Rounds, Sums
        <3> QED BY <3>1 DEF Holds, FoodsOf
    <2>3. ASSUME NEW k \in 1 .. n, Holds(h[k - 1], f, a[k - 1]) PROVE Holds(h[k], f, a[k])
        <3>1. h[k] = MergeLine(h[k - 1], lines[k]) /\ lines[k] \in Lines
            BY <1>1, <1>2 DEF Rounds
        <3>2. h[k - 1] \in Seq(Lines)
            <4>1. k - 1 \in 0 .. n
                OBVIOUS
            <4> QED BY <1>6, <4>1
        <3>3. a[k] = IF lines[k].food = f THEN a[k - 1] + lines[k].quantity ELSE a[k - 1]
            BY <2>1 DEF Sums
        <3> QED BY <2>3, <3>1, <3>2, <3>3, MergeLineQuantities
    <2>4. worse = {}
        <3> SUFFICES ASSUME worse # {} PROVE FALSE
            OBVIOUS
        <3>1. worse \subseteq Nat
            OBVIOUS
        <3>2. PICK k \in worse : \A m \in worse : k <= m
            BY <3>1, LeastNumber
        <3>3. k # 0
            BY <2>2
        <3>4. k \in 1 .. n /\ k - 1 \in 0 .. n /\ ~(k <= k - 1)
            BY <3>3
        <3>5. Holds(h[k - 1], f, a[k - 1])
            BY <3>2, <3>4
        <3> QED BY <2>3, <3>4, <3>5
    <2>5. a[n] = Asked(lines, f)
        BY <2>1 DEF Sums
    <2> QED BY <1>3, <2>4, <2>5
<1> DEFINE items == h[n]
<1>9. items \in Seq(Lines) /\ FoodsOf(items) = FoodsOf(lines) /\ Distinct(items)
    BY <1>1, <1>7 DEF FoodsOf
<1>10. \A i \in DOMAIN items : items[i].quantity = Least(Asked(lines, items[i].food), MaxQuantity)
    BY <1>8 DEF Holds
<1> HIDE DEF items
<1>11. Summed(items, lines)
    BY <1>9, <1>10 DEF Summed
<1> QED BY <1>3, <1>9, <1>11 DEF items

(***************************************************************************)
(* Steps of one request that leave the rows alone.                         *)
(***************************************************************************)
LEMMA Capped == ItemsAreTheCappedSums <=> \A r \in Requests : Summed(tx[r].items, tx[r].lines)
BY DEF ItemsAreTheCappedSums, Summed, Distinct

LEMMA FieldTypes ==
    ASSUME TypeOK, NEW r \in Requests
    PROVE  /\ tx[r] \in RequestStates
           /\ tx[r].pc \in Statements /\ tx[r].lines \in LineLists
           /\ tx[r].items \in Seq(Lines) /\ tx[r].next \in Nat
           /\ tx[r].targets \in SUBSET Foods /\ tx[r].deleted \in SUBSET Foods
           /\ tx[r].beside \in SUBSET Foods
           /\ Len(tx[r].items) \in Nat /\ DOMAIN tx[r].items = 1 .. Len(tx[r].items)
BY DEF TypeOK, RequestStates

LEMMA InsertedFoods ==
    ASSUME CartsInv, NEW r \in Requests
    PROVE  Inserted(r) \subseteq FoodsOf(tx[r].items) /\ Inserted(r) \subseteq Foods
<1>1. TypeOK /\ ProgressInv(r)
    BY DEF CartsInv
<1>2. /\ tx[r].items \in Seq(Lines) /\ Len(tx[r].items) \in Nat
      /\ DOMAIN tx[r].items = 1 .. Len(tx[r].items)
      /\ tx[r].next \in 1 .. Len(tx[r].items) + 1
    BY <1>1, FieldTypes DEF ProgressInv
<1>3. \A i \in 1 .. tx[r].next - 1 : i \in DOMAIN tx[r].items /\ tx[r].items[i] \in Lines
    BY <1>2
<1>4. \A i \in 1 .. tx[r].next - 1 : tx[r].items[i].food \in Foods
    BY <1>3, LineType
<1> QED BY <1>3, <1>4 DEF Inserted, FoodsOf

LEMMA Assemble ==
    ASSUME CartsInv, NEW r \in Requests, NEW new \in RequestStates,
           tx' = [tx EXCEPT ![r] = new], rows' = rows, available' \in SUBSET Foods,
           RowsInv(r)', ProgressInv(r)', Summed(new.items, new.lines),
           \A s \in Requests \ {r} : /\ new.deleted \cap tx[s].deleted = {}
                                     /\ Inserted(r)' \cap Inserted(s) = {}
    PROVE  CartsInv'
<1>1. TypeOK /\ tx'[r] = new /\ \A s \in Requests \ {r} : tx'[s] = tx[s]
    BY DEF CartsInv, TypeOK
<1>2. TypeOK'
    BY <1>1 DEF TypeOK
<1>3. Present' = Present
    BY DEF Present
<1>4. ASSUME NEW s \in Requests \ {r}
      PROVE  RowsInv(s)' /\ ProgressInv(s)' /\ Inserted(s)' = Inserted(s)
    <2>1. RowsInv(s) /\ ProgressInv(s) /\ tx'[s] = tx[s]
        BY <1>1 DEF CartsInv
    <2>2. Inserted(s)' = Inserted(s)
        BY <2>1 DEF Inserted
    <2>3. RowsInv(s)'
        BY <1>3, <2>1 DEF RowsInv, At
    <2>4. ProgressInv(s)'
        BY <1>3, <2>1, <2>2 DEF ProgressInv, At
    <2> QED BY <2>2, <2>3, <2>4
<1>5. ASSUME NEW s \in Requests PROVE ApartInv(s)'
    <2>1. ASSUME NEW t \in Requests \ {s}
          PROVE  tx'[s].deleted \cap tx'[t].deleted = {} /\ Inserted(s)' \cap Inserted(t)' = {}
        <3>1. CASE s = r
            BY <1>1, <1>4, <2>1, <3>1
        <3>2. CASE t = r
            BY <1>1, <1>4, <2>1, <3>2
        <3>3. CASE s # r /\ t # r
            BY <1>1, <1>4, <2>1, <3>3 DEF CartsInv, ApartInv
        <3> QED BY <3>1, <3>2, <3>3
    <2> QED BY <2>1 DEF ApartInv
<1>6. ASSUME NEW s \in Requests PROVE Summed(tx'[s].items, tx'[s].lines)
    BY <1>1, Capped DEF CartsInv
<1>7. ItemsAreTheCappedSums'
    BY <1>6 DEF ItemsAreTheCappedSums, Summed, Distinct
<1> QED BY <1>2, <1>4, <1>5, <1>7 DEF CartsInv

\* A request that has deleted and inserted nothing.
LEMMA Unbegun ==
    ASSUME CartsInv, NEW r \in Requests, NEW new \in RequestStates,
           tx' = [tx EXCEPT ![r] = new], rows' = rows, available' = available,
           new.pc \in {"idle", "count", "delete"}, new.next = 1,
           new.targets = {}, new.deleted = {}, new.beside = {},
           Summed(new.items, new.lines)
    PROVE  CartsInv'
<1>1. tx'[r] = new /\ available' \in SUBSET Foods
    BY DEF CartsInv, TypeOK
<1>2. Inserted(r)' = {}
    BY <1>1 DEF Inserted
<1>3. RowsInv(r)'
    BY <1>1 DEF RowsInv, At
<1>4. new.items \in Seq(Lines)
    BY DEF RequestStates
<1>5. Len(new.items) \in Nat
    BY <1>4
<1>6. ProgressInv(r)'
    BY <1>1, <1>2, <1>5 DEF ProgressInv, At
<1> QED BY <1>1, <1>2, <1>3, <1>6, Assemble

LEMMA IdleType ==
    /\ Idle \in RequestStates
    /\ Idle.pc = "idle" /\ Idle.next = 1 /\ Idle.items = <<>> /\ Idle.lines = <<>>
    /\ Idle.targets = {} /\ Idle.deleted = {} /\ Idle.beside = {}
    /\ Summed(<<>>, <<>>)
<1>1. <<>> \in LineLists
    <2>1. <<>> \in [1 .. 0 -> Lines] /\ 0 \in 0 .. MaxLines
        BY CartsAssumption
    <2> QED BY <2>1 DEF LineLists
<1>2. <<>> \in Seq(Lines) /\ DOMAIN <<>> = {}
    OBVIOUS
<1>3. Summed(<<>>, <<>>)
    BY <1>2 DEF Summed, Distinct
<1> QED BY <1>1, <1>2, <1>3 DEF Idle, RequestStates, Statements

LEMMA ResetStep ==
    ASSUME CartsInv, NEW r \in Requests, tx' = [tx EXCEPT ![r] = Idle],
           UNCHANGED <<rows, available>>
    PROVE  CartsInv'
BY IdleType, Unbegun

LEMMA StartReplaceStep ==
    ASSUME CartsInv, NEW r \in Requests, NEW lines \in LineLists, StartReplace(r, lines)
    PROVE  CartsInv'
<1> DEFINE items == MergeDuplicateItems(lines)
           new == [Idle EXCEPT !.pc = "count", !.lines = lines, !.items = items]
<1>1. items \in Seq(Lines) /\ Summed(items, lines)
    BY MergedItems
<1> HIDE DEF items
<1>2. /\ new \in RequestStates /\ new.pc = "count" /\ new.next = 1
      /\ new.items = items /\ new.lines = lines
      /\ new.targets = {} /\ new.deleted = {} /\ new.beside = {}
    BY <1>1 DEF Idle, RequestStates, Statements
<1>3. tx' = [tx EXCEPT ![r] = new] /\ UNCHANGED <<rows, available>>
    BY DEF StartReplace, items
<1> HIDE DEF new
<1> QED BY <1>1, <1>2, <1>3, Unbegun

LEMMA StartClearStep ==
    ASSUME CartsInv, NEW r \in Requests, StartClear(r)
    PROVE  CartsInv'
<1> DEFINE new == [Idle EXCEPT !.pc = "delete"]
<1>1. /\ new \in RequestStates /\ new.pc = "delete" /\ new.next = 1
      /\ new.items = <<>> /\ new.lines = <<>>
      /\ new.targets = {} /\ new.deleted = {} /\ new.beside = {}
    BY IdleType DEF Idle, RequestStates, Statements
<1>2. tx' = [tx EXCEPT ![r] = new] /\ UNCHANGED <<rows, available>>
    BY DEF StartClear
<1> HIDE DEF new
<1> QED BY <1>1, <1>2, IdleType, Unbegun

LEMMA CountAvailableStep ==
    ASSUME CartsInv, NEW r \in Requests, CountAvailable(r)
    PROVE  CartsInv'
<1>1. CASE tx' = [tx EXCEPT ![r] = Idle]
    BY <1>1, ResetStep DEF CountAvailable
<1>2. CASE tx' = [tx EXCEPT ![r] = [tx[r] EXCEPT !.pc = "delete"]]
    <2> DEFINE new == [tx[r] EXCEPT !.pc = "delete"]
    <2>1. /\ TypeOK /\ RowsInv(r) /\ ProgressInv(r) /\ At(r, "count")
          /\ Summed(tx[r].items, tx[r].lines)
        BY Capped DEF CartsInv, CountAvailable
    <2>2. /\ tx[r].next = 1 /\ tx[r].targets = {} /\ tx[r].deleted = {}
          /\ tx[r].beside = {} /\ tx[r] \in RequestStates
        BY <2>1, FieldTypes DEF RowsInv, ProgressInv, At
    <2>3. /\ new \in RequestStates /\ new.pc = "delete" /\ new.next = tx[r].next
          /\ new.items = tx[r].items /\ new.lines = tx[r].lines
          /\ new.targets = tx[r].targets /\ new.deleted = tx[r].deleted
          /\ new.beside = tx[r].beside
        BY <2>2 DEF RequestStates, Statements
    <2>4. tx' = [tx EXCEPT ![r] = new] /\ UNCHANGED <<rows, available>>
        BY <1>2 DEF CountAvailable
    <2> HIDE DEF new
    <2> QED BY <2>1, <2>2, <2>3, <2>4, Unbegun
<1> QED BY <1>1, <1>2 DEF CountAvailable

LEMMA BeginDeleteStep ==
    ASSUME CartsInv, NEW r \in Requests, BeginDelete(r)
    PROVE  CartsInv'
<1> DEFINE new == [tx[r] EXCEPT !.pc = "deleting", !.targets = Present]
<1>1. /\ TypeOK /\ RowsInv(r) /\ ProgressInv(r) /\ At(r, "delete")
      /\ Summed(tx[r].items, tx[r].lines)
    BY Capped DEF CartsInv, BeginDelete
<1>2. /\ tx[r].next = 1 /\ tx[r].deleted = {} /\ tx[r].beside = {}
      /\ tx[r] \in RequestStates /\ Len(tx[r].items) \in Nat /\ Present \in SUBSET Foods
    BY <1>1, FieldTypes DEF RowsInv, ProgressInv, At, Present
<1>3. /\ new \in RequestStates /\ new.pc = "deleting" /\ new.next = tx[r].next
      /\ new.items = tx[r].items /\ new.lines = tx[r].lines
      /\ new.targets = Present /\ new.deleted = tx[r].deleted /\ new.beside = tx[r].beside
    BY <1>2 DEF RequestStates, Statements
<1>4. tx' = [tx EXCEPT ![r] = new] /\ UNCHANGED <<rows, available>>
    BY DEF BeginDelete, Present
<1> HIDE DEF new
<1>5. tx'[r] = new /\ available' \in SUBSET Foods
    BY <1>1, <1>4 DEF TypeOK
<1>6. Inserted(r)' = {} /\ Present' = Present
    BY <1>2, <1>3, <1>4, <1>5 DEF Inserted, Present
<1>7. RowsInv(r)'
    BY <1>2, <1>3, <1>5, <1>6 DEF RowsInv, At
<1>8. ProgressInv(r)'
    BY <1>2, <1>3, <1>5, <1>6 DEF ProgressInv, At
<1> QED BY <1>1, <1>2, <1>3, <1>4, <1>5, <1>6, <1>7, <1>8, Assemble

LEMMA DeleteRowsStep ==
    ASSUME CartsInv, NEW r \in Requests, DeleteRows(r)
    PROVE  CartsInv'
<1> DEFINE next == IF tx[r].items = <<>> THEN "commit" ELSE "insert"
           new == [tx[r] EXCEPT !.pc = next, !.deleted = tx[r].targets]
<1>1. /\ TypeOK /\ RowsInv(r) /\ ProgressInv(r) /\ At(r, "deleting")
      /\ Summed(tx[r].items, tx[r].lines)
    BY Capped DEF CartsInv, DeleteRows
<1>2. /\ tx[r].next = 1 /\ tx[r].deleted = {}
      /\ Present = tx[r].targets \cup tx[r].beside /\ tx[r].targets \cap tx[r].beside = {}
      /\ tx[r] \in RequestStates /\ Len(tx[r].items) \in Nat
      /\ tx[r].items \in Seq(Lines) /\ tx[r].targets \in SUBSET Foods
    BY <1>1, FieldTypes DEF RowsInv, ProgressInv, At
<1>3. next \in {"commit", "insert"}
    OBVIOUS
<1>4. IF next = "commit" THEN Len(tx[r].items) = 0 ELSE Len(tx[r].items) > 0
    BY <1>2
<1>5. tx' = [tx EXCEPT ![r] = new] /\ UNCHANGED <<rows, available>>
    BY DEF DeleteRows
<1> HIDE DEF next
<1>6. /\ new \in RequestStates /\ new.pc = next /\ new.next = tx[r].next
      /\ new.items = tx[r].items /\ new.lines = tx[r].lines
      /\ new.targets = tx[r].targets /\ new.deleted = tx[r].targets
      /\ new.beside = tx[r].beside
    BY <1>2, <1>3 DEF RequestStates, Statements
<1> HIDE DEF new
<1>7. tx'[r] = new /\ available' \in SUBSET Foods
    BY <1>1, <1>5 DEF TypeOK
<1>8. Inserted(r)' = {} /\ Present' = Present
    BY <1>2, <1>5, <1>6, <1>7 DEF Inserted, Present
<1>9. RowsInv(r)'
    BY <1>2, <1>3, <1>6, <1>7, <1>8 DEF RowsInv, At
<1>10. ProgressInv(r)'
    BY <1>2, <1>3, <1>4, <1>6, <1>7, <1>8 DEF ProgressInv, At
<1>11. \A s \in Requests \ {r} : new.deleted \cap tx[s].deleted = {}
    BY <1>6 DEF DeleteRows
<1> QED BY <1>1, <1>5, <1>6, <1>7, <1>8, <1>9, <1>10, <1>11, Assemble

LEMMA InsertRowStep ==
    ASSUME CartsInv, NEW r \in Requests, InsertRow(r)
    PROVE  CartsInv'
<1>1. CASE tx' = [tx EXCEPT ![r] = Idle]
    BY <1>1, ResetStep DEF InsertRow
<1>2. CASE ~Refused(r)
    <2> DEFINE items == tx[r].items
               f == items[tx[r].next].food
               next == IF tx[r].next = Len(items) THEN "commit" ELSE "insert"
               new == [tx[r] EXCEPT !.next = tx[r].next + 1, !.pc = next]
    <2>1. /\ TypeOK /\ RowsInv(r) /\ ProgressInv(r) /\ ApartInv(r) /\ At(r, "insert")
          /\ Summed(tx[r].items, tx[r].lines)
        BY Capped DEF CartsInv, InsertRow
    <2>2. /\ tx[r].next \in 1 .. Len(items) /\ Len(items) \in Nat
          /\ Present = tx[r].deleted \cup tx[r].beside /\ tx[r].deleted \cap tx[r].beside = {}
          /\ Inserted(r) \cap Present \subseteq tx[r].deleted /\ tx[r] \in RequestStates
        BY <2>1, FieldTypes DEF RowsInv, ProgressInv, At
    <2>3. next \in {"commit", "insert"}
        OBVIOUS
    <2>4. IF next = "commit" THEN tx[r].next = Len(items) ELSE tx[r].next < Len(items)
        BY <2>2
    <2>5. tx' = [tx EXCEPT ![r] = new] /\ UNCHANGED <<rows, available>>
        <3>1. /\ tx' = [tx EXCEPT ![r] =
                            [tx[r] EXCEPT !.next = tx[r].next + 1,
                                          !.pc = IF tx[r].next = Len(tx[r].items)
                                                 THEN "commit" ELSE "insert"]]
              /\ UNCHANGED <<rows, available>>
            BY <1>2 DEF InsertRow
        <3> QED BY <3>1
    <2>6. f \notin Present \/ f \in tx[r].deleted
        BY <1>2 DEF Refused, Present
    <2>7. \A s \in Requests \ {r} : f \notin Inserted(s)
        BY DEF InsertRow
    <2> HIDE DEF next, f
    <2>8. /\ new \in RequestStates /\ new.pc = next /\ new.next = tx[r].next + 1
          /\ new.items = items /\ new.lines = tx[r].lines
          /\ new.targets = tx[r].targets /\ new.deleted = tx[r].deleted
          /\ new.beside = tx[r].beside
        <3> DEFINE n == tx[r].next + 1
        <3>1. n \in Nat /\ next \in Statements
            BY <2>2, <2>3 DEF Statements
        <3>2. new = [tx[r] EXCEPT !.next = n, !.pc = next]
            OBVIOUS
        <3>3. n = tx[r].next + 1
            OBVIOUS
        <3> HIDE DEF n, new
        <3> QED BY <2>2, <3>1, <3>2, <3>3 DEF RequestStates
    <2> HIDE DEF new
    <2>9. tx'[r] = new /\ available' \in SUBSET Foods
        BY <2>1, <2>5 DEF TypeOK
    <2>10. Present' = Present
        BY <2>5 DEF Present
    <2>11. Inserted(r)' = Inserted(r) \cup {f}
        <3>1. 1 .. tx[r].next = (1 .. tx[r].next - 1) \cup {tx[r].next}
            BY <2>2
        <3>2. new.next - 1 = tx[r].next
            BY <2>2, <2>8
        <3>3. Inserted(r)' = {items[i].food : i \in 1 .. tx[r].next}
            BY <2>8, <2>9, <3>2 DEF Inserted
        <3> QED BY <3>1, <3>3 DEF Inserted, f
    <2>12. RowsInv(r)'
        BY <2>2, <2>3, <2>8, <2>9, <2>10 DEF RowsInv, At
    <2>13. ProgressInv(r)'
        <3>1. Inserted(r)' \cap Present' \subseteq new.deleted
            BY <2>2, <2>6, <2>8, <2>10, <2>11
        <3> QED BY <2>2, <2>3, <2>4, <2>8, <2>9, <3>1 DEF ProgressInv, At
    <2>14. \A s \in Requests \ {r} : /\ new.deleted \cap tx[s].deleted = {}
                                     /\ Inserted(r)' \cap Inserted(s) = {}
        BY <2>1, <2>7, <2>8, <2>11 DEF ApartInv
    <2> QED BY <2>1, <2>5, <2>8, <2>9, <2>12, <2>13, <2>14, Assemble
<1> QED BY <1>1, <1>2 DEF InsertRow

LEMMA SetAvailableStep ==
    ASSUME CartsInv, available' \in SUBSET Foods, UNCHANGED <<rows, tx>>
    PROVE  CartsInv'
<1>1. Present' = Present /\ \A r \in Requests : Inserted(r)' = Inserted(r)
    BY DEF Present, Inserted
<1>2. TypeOK'
    BY DEF CartsInv, TypeOK
<1>3. ASSUME NEW r \in Requests PROVE RowsInv(r)' /\ ProgressInv(r)' /\ ApartInv(r)'
    <2>1. RowsInv(r) /\ ProgressInv(r) /\ ApartInv(r)
        BY DEF CartsInv
    <2> QED BY <1>1, <2>1 DEF RowsInv, ProgressInv, ApartInv, At
<1>4. ItemsAreTheCappedSums'
    BY DEF CartsInv, ItemsAreTheCappedSums
<1> QED BY <1>2, <1>3, <1>4 DEF CartsInv

(***************************************************************************)
(* A commit changes the rows under everybody's feet.                       *)
(***************************************************************************)
LEMMA CommittedRows ==
    ASSUME CartsInv, NEW r \in Requests, Commit(r)
    PROVE  /\ Inserted(r) = FoodsOf(tx[r].items)
           /\ FoodsOf(tx[r].items) \subseteq Foods
           /\ rows' \in [Foods -> Quantities \cup {None}]
           /\ Present' = FoodsOf(tx[r].items) \cup (Present \ tx[r].deleted)
<1> DEFINE items == tx[r].items
           Taken(f) == items[CHOOSE i \in DOMAIN items : items[i].food = f].quantity
<1>1. TypeOK /\ ProgressInv(r) /\ At(r, "commit")
    BY DEF CartsInv, Commit
<1>2. /\ items \in Seq(Lines) /\ Len(items) \in Nat /\ DOMAIN items = 1 .. Len(items)
      /\ tx[r].next = Len(items) + 1
    BY <1>1, FieldTypes DEF ProgressInv
<1>3. Inserted(r) = FoodsOf(items)
    BY <1>2 DEF Inserted, FoodsOf
<1>4. FoodsOf(items) \subseteq Foods
    BY <1>3, InsertedFoods
<1>5. ASSUME NEW f \in FoodsOf(items) PROVE Taken(f) \in Quantities
    <2>1. \E i \in DOMAIN items : items[i].food = f
        BY DEF FoodsOf
    <2>2. (CHOOSE i \in DOMAIN items : items[i].food = f) \in DOMAIN items
        BY <2>1
    <2>3. ASSUME NEW i \in DOMAIN items PROVE items[i].quantity \in Quantities
        <3>1. items[i] \in Lines
            BY <1>2
        <3> QED BY <3>1 DEF Lines
    <2> QED BY <2>2, <2>3
<1>6. rows' = [f \in Foods |-> IF f \in FoodsOf(items) THEN Taken(f)
                               ELSE IF f \in tx[r].deleted THEN None ELSE rows[f]]
    BY DEF Commit
<1> HIDE DEF Taken
<1>7. rows \in [Foods -> Quantities \cup {None}] /\ None \notin Quantities
    BY <1>1, CartsAssumption DEF TypeOK, Quantities
<1>8. rows' \in [Foods -> Quantities \cup {None}]
    BY <1>5, <1>6, <1>7
<1>9. \A f \in Foods : rows'[f] # None <=>
            f \in FoodsOf(items) \/ (f \notin tx[r].deleted /\ rows[f] # None)
    BY <1>5, <1>6, <1>7
<1>10. Present' = FoodsOf(items) \cup (Present \ tx[r].deleted)
    BY <1>4, <1>9 DEF Present
<1> QED BY <1>3, <1>4, <1>8, <1>10

LEMMA CommitStep ==
    ASSUME CartsInv, NEW r \in Requests, Commit(r)
    PROVE  CartsInv'
<1> DEFINE gone == tx[r].deleted
           came == Inserted(r)
<1>1. /\ TypeOK /\ ProgressInv(r) /\ ApartInv(r)
    BY DEF CartsInv
<1>2. /\ rows' \in [Foods -> Quantities \cup {None}] /\ came \subseteq Foods
      /\ Present' = came \cup (Present \ gone)
    BY CommittedRows
<1>3. came \cap Present \subseteq gone /\ gone \in SUBSET Foods
    BY <1>1, FieldTypes DEF ProgressInv
<1>4. /\ tx' = [s \in Requests |-> IF s = r THEN Idle ELSE AfterCommit(s, r)]
      /\ available' = available
    BY DEF Commit
<1> HIDE DEF gone, came
<1>5. ASSUME NEW s \in Requests \ {r}
      PROVE  /\ tx'[s] \in RequestStates /\ tx'[s].pc = tx[s].pc
             /\ tx'[s].lines = tx[s].lines /\ tx'[s].items = tx[s].items
             /\ tx'[s].next = tx[s].next /\ tx'[s].deleted = tx[s].deleted
             /\ tx'[s].targets = tx[s].targets \ gone
             /\ tx'[s].beside = IF At(s, "deleting") \/ At(s, "insert") \/ At(s, "commit")
                                THEN (tx[s].beside \ gone) \cup came ELSE tx[s].beside
    <2> DEFINE beside == IF At(s, "deleting") \/ At(s, "insert") \/ At(s, "commit")
                         THEN (tx[s].beside \ gone) \cup came ELSE tx[s].beside
               targets == tx[s].targets \ gone
    <2>1. tx[s] \in RequestStates /\ beside \in SUBSET Foods /\ targets \in SUBSET Foods
        BY <1>1, <1>2, FieldTypes
    <2>2. tx'[s] = [tx[s] EXCEPT !.targets = targets, !.beside = beside]
        BY <1>4 DEF AfterCommit, gone, came
    <2> HIDE DEF beside, targets
    <2>3. /\ tx'[s] \in RequestStates /\ tx'[s].pc = tx[s].pc
          /\ tx'[s].lines = tx[s].lines /\ tx'[s].items = tx[s].items
          /\ tx'[s].next = tx[s].next /\ tx'[s].deleted = tx[s].deleted
          /\ tx'[s].targets = targets /\ tx'[s].beside = beside
        BY <2>1, <2>2 DEF RequestStates
    <2> QED BY <2>3 DEF beside, targets
<1>6. tx'[r] = Idle
    BY <1>4
<1>7. TypeOK'
    <2>1. \A s \in Requests : tx'[s] \in RequestStates
        BY <1>5, <1>6, IdleType
    <2> QED BY <1>1, <1>2, <1>4, <2>1 DEF TypeOK
<1>8. ASSUME NEW s \in Requests \ {r}
      PROVE  RowsInv(s)' /\ ProgressInv(s)' /\ Inserted(s)' = Inserted(s)
    <2>1. /\ RowsInv(s) /\ ProgressInv(s)
          /\ tx[s].deleted \cap gone = {} /\ Inserted(s) \cap came = {}
        <3>1. RowsInv(s) /\ ProgressInv(s)
            BY DEF CartsInv
        <3> QED BY <1>1, <3>1 DEF ApartInv, gone, came
    <2>2. Inserted(s)' = Inserted(s)
        <3>1. tx'[s].items = tx[s].items /\ tx'[s].next = tx[s].next
            BY <1>5
        <3> QED BY <3>1 DEF Inserted
    <2>3. tx[s].pc \in {"idle", "count", "delete"} => tx'[s].targets = {} /\ tx'[s].beside = {}
        BY <1>5, <2>1 DEF RowsInv, At
    <2>4. ASSUME At(s, "deleting")
          PROVE  /\ Present' = tx'[s].targets \cup tx'[s].beside
                 /\ tx'[s].targets \cap tx'[s].beside = {}
        <3>1. Present = tx[s].targets \cup tx[s].beside /\ tx[s].targets \cap tx[s].beside = {}
            BY <2>1, <2>4 DEF RowsInv
        <3>2. tx'[s].targets = tx[s].targets \ gone /\ tx'[s].beside = (tx[s].beside \ gone) \cup came
            BY <1>5, <2>4
        <3> QED BY <1>2, <1>3, <3>1, <3>2
    <2>5. ASSUME At(s, "insert") \/ At(s, "commit")
          PROVE  /\ Present' = tx'[s].deleted \cup tx'[s].beside
                 /\ tx'[s].deleted \cap tx'[s].beside = {}
        <3>1. Present = tx[s].deleted \cup tx[s].beside /\ tx[s].deleted \cap tx[s].beside = {}
            BY <2>1, <2>5 DEF RowsInv
        <3>2. tx'[s].deleted = tx[s].deleted /\ tx'[s].beside = (tx[s].beside \ gone) \cup came
            BY <1>5, <2>5
        <3> QED BY <1>2, <1>3, <2>1, <3>1, <3>2
    <2>6. RowsInv(s)'
        BY <1>5, <2>3, <2>4, <2>5 DEF RowsInv, At
    <2>7. Inserted(s)' \cap Present' \subseteq tx'[s].deleted
        BY <1>2, <1>5, <2>1, <2>2 DEF ProgressInv
    <2>8. ProgressInv(s)'
        BY <1>5, <2>1, <2>7 DEF ProgressInv, At
    <2> QED BY <2>2, <2>6, <2>8
<1>9. RowsInv(r)' /\ ProgressInv(r)' /\ Inserted(r)' = {} /\ tx'[r].deleted = {}
    <2>1. Inserted(r)' = {}
        BY <1>6, IdleType DEF Inserted
    <2>2. Len(<<>>) = 0
        OBVIOUS
    <2>3. RowsInv(r)'
        BY <1>6, IdleType DEF RowsInv, At
    <2>4. ProgressInv(r)'
        BY <1>6, <2>1, <2>2, IdleType DEF ProgressInv, At
    <2> QED BY <1>6, <2>1, <2>3, <2>4, IdleType
<1>10. ASSUME NEW s \in Requests PROVE ApartInv(s)'
    <2>1. ASSUME NEW t \in Requests \ {s}
          PROVE  tx'[s].deleted \cap tx'[t].deleted = {} /\ Inserted(s)' \cap Inserted(t)' = {}
        <3>1. CASE s = r \/ t = r
            BY <1>9, <3>1
        <3>2. CASE s # r /\ t # r
            <4>1. /\ tx[s].deleted \cap tx[t].deleted = {}
                  /\ Inserted(s) \cap Inserted(t) = {}
                BY DEF CartsInv, ApartInv
            <4>2. tx'[s].deleted = tx[s].deleted /\ Inserted(s)' = Inserted(s)
                BY <1>5, <1>8, <3>2
            <4>3. tx'[t].deleted = tx[t].deleted /\ Inserted(t)' = Inserted(t)
                BY <1>5, <1>8, <3>2
            <4> QED BY <4>1, <4>2, <4>3
        <3> QED BY <3>1, <3>2
    <2> QED BY <2>1 DEF ApartInv
<1>11. ItemsAreTheCappedSums'
    <2>1. ASSUME NEW s \in Requests PROVE Summed(tx'[s].items, tx'[s].lines)
        BY <1>5, <1>6, IdleType, Capped DEF CartsInv
    <2> QED BY <2>1 DEF ItemsAreTheCappedSums, Summed, Distinct
<1> QED BY <1>7, <1>8, <1>9, <1>10, <1>11 DEF CartsInv

LEMMA InitInv == Init => CartsInv
<1> SUFFICES ASSUME Init PROVE CartsInv
    OBVIOUS
<1>1. \A r \in Requests : tx[r] = Idle
    BY DEF Init
<1>2. Present = {} /\ \A r \in Requests : Inserted(r) = {}
    BY <1>1, IdleType DEF Init, Present, Inserted
<1>3. TypeOK
    BY IdleType DEF Init, TypeOK
<1>4. Len(<<>>) = 0
    OBVIOUS
<1>5. ASSUME NEW r \in Requests PROVE RowsInv(r) /\ ProgressInv(r) /\ ApartInv(r)
    BY <1>1, <1>2, <1>4, IdleType DEF RowsInv, ProgressInv, ApartInv, At
<1>6. ItemsAreTheCappedSums
    BY <1>1, IdleType, Capped
<1> QED BY <1>3, <1>5, <1>6 DEF CartsInv

LEMMA StepInv == CartsInv /\ [Next]_vars => CartsInv'
<1> SUFFICES ASSUME CartsInv, [Next]_vars PROVE CartsInv'
    OBVIOUS
<1>1. available \in SUBSET Foods
    BY DEF CartsInv, TypeOK
<1>2. CASE UNCHANGED vars
    BY <1>1, <1>2, SetAvailableStep DEF vars
<1>3. ASSUME NEW r \in Requests, Rollback(r) PROVE CartsInv'
    BY <1>3, ResetStep DEF Rollback
<1>4. ASSUME NEW f \in Foods, NEW isAvailable \in BOOLEAN, SetAvailable(f, isAvailable)
      PROVE  CartsInv'
    BY <1>1, <1>4, SetAvailableStep DEF SetAvailable
<1> QED BY <1>2, <1>3, <1>4, StartReplaceStep, StartClearStep, CountAvailableStep,
           BeginDeleteStep, DeleteRowsStep, InsertRowStep, CommitStep DEF Next

-------------------------------------------------------------------------------

\* CartsInv, what every replacement of a cart has found, deleted and inserted,
\* holds in every reachable state (replaceForCustomer, clearForCustomer).
THEOREM Invariance == Spec => []CartsInv
BY InitInv, StepInv, PTL DEF Spec

\* Every variable of Carts keeps its type; in particular no line of a cart is
\* beyond the maximum, or empty (mergeDuplicateItems).
THEOREM TypeCorrect == Spec => []TypeOK
<1>1. CartsInv => TypeOK
    BY DEF CartsInv
<1> QED BY Invariance, <1>1, PTL

\* The items of a request are the sums of its lines, up to the maximum, however
\* many lines there are and in whatever order (mergeDuplicateItems).
THEOREM ItemSafety == Spec => []ItemsAreTheCappedSums
<1>1. CartsInv => ItemsAreTheCappedSums
    BY DEF CartsInv
<1> QED BY Invariance, <1>1, PTL

\* A replacement leaves its items, and what overlapping ones put beside them;
\* an insert fails only over one of those (replaceForCustomer).
THEOREM ReplacementSafety == Spec => ReplacementsLeaveTheirItems
<1>1. CartsInv /\ [Next]_vars =>
        [\A r \in Requests : At(r, "commit") /\ rows' # rows /\ tx'[r] = Idle =>
            {f \in Foods : rows'[f] # None} = FoodsOf(tx[r].items) \cup tx[r].beside]_vars
    <2> SUFFICES ASSUME CartsInv, Next, NEW r \in Requests, At(r, "commit"),
                        rows' # rows, tx'[r] = Idle
                 PROVE  {f \in Foods : rows'[f] # None} = FoodsOf(tx[r].items) \cup tx[r].beside
        OBVIOUS
    <2>1. PICK s \in Requests : Commit(s)
        BY DEF Next, StartReplace, StartClear, CountAvailable, BeginDelete, DeleteRows,
               InsertRow, Rollback, SetAvailable
    <2>2. s = r
        <3> SUFFICES ASSUME s # r PROVE FALSE
            OBVIOUS
        <3>1. tx'[r] = AfterCommit(r, s)
            BY <2>1 DEF Commit
        <3>2. tx[r] \in RequestStates
            BY FieldTypes DEF CartsInv
        <3>3. AfterCommit(r, s).pc = "commit"
            BY <3>2 DEF AfterCommit, At, RequestStates
        <3> QED BY <3>1, <3>3, IdleType
    <2>3. Present' = FoodsOf(tx[r].items) \cup (Present \ tx[r].deleted)
        BY <2>1, <2>2, CommittedRows
    <2>4. Present = tx[r].deleted \cup tx[r].beside /\ tx[r].deleted \cap tx[r].beside = {}
        BY DEF CartsInv, RowsInv
    <2>5. Present' = FoodsOf(tx[r].items) \cup tx[r].beside
        BY <2>3, <2>4
    <2> QED BY <2>5 DEF Present
<1>2. CartsInv => \A r \in Requests : At(r, "insert") /\ Refused(r) =>
                        tx[r].items[tx[r].next].food \in tx[r].beside
    <2> SUFFICES ASSUME CartsInv, NEW r \in Requests, At(r, "insert"), Refused(r)
                 PROVE  tx[r].items[tx[r].next].food \in tx[r].beside
        OBVIOUS
    <2> DEFINE f == tx[r].items[tx[r].next].food
    <2>1. Present = tx[r].deleted \cup tx[r].beside
        BY DEF CartsInv, RowsInv
    <2>2. f \in Foods
        <3>1. TypeOK /\ ProgressInv(r)
            BY DEF CartsInv
        <3>2. tx[r].items \in Seq(Lines) /\ tx[r].next \in 1 .. Len(tx[r].items)
            BY <3>1, FieldTypes DEF ProgressInv
        <3>3. tx[r].items[tx[r].next] \in Lines
            BY <3>2
        <3> QED BY <3>3, LineType
    <2>3. rows[f] # None /\ f \notin tx[r].deleted
        BY DEF Refused
    <2> QED BY <2>1, <2>2, <2>3 DEF Present
<1> QED BY Invariance, <1>1, <1>2, PTL DEF Spec, ReplacementsLeaveTheirItems
===============================================================================

------------------------------- MODULE Ratings -------------------------------
(***************************************************************************)
(* The ratings of food items: customers rate the foods of an order, the    *)
(* staff hide and show reviews, and each of these transactions recomputes  *)
(* the summary kept in the food's row.                                     *)
(*                                                                         *)
(* The transactions are modelled statement by statement at READ COMMITTED: *)
(* a statement sees what others have committed and what its own            *)
(* transaction wrote, and a row that was written stays locked until the    *)
(* transaction ends.  rateOrder works through the foods in the order in    *)
(* which the customer's order lists them.                                  *)
(***************************************************************************)
EXTENDS Naturals, Sequences, FiniteSets, FiniteSetsExt


CONSTANTS
    Transactions,   \* slots for transactions in progress
    Users,
    Foods,
    Stars,          \* the ratings that may be given
    None            \* no review row, no lock holder, no summary computed yet

ASSUME RatingsAssumption ==
    /\ Stars \subseteq Nat
    /\ IsFiniteSet(Users)
    /\ IsFiniteSet(Foods)
    /\ None \notin Transactions
    /\ None \notin [rating : Stars, hidden : BOOLEAN]
    /\ None \notin [average : Nat, count : Nat]

VARIABLES
    reviews,     \* review rows, by user and food
    summary,     \* ratingAverage (in hundredths) and ratingCount of food rows
    reviewLock,  \* who holds the lock of a review row
    foodLock,    \* who holds the lock of a food row
    tx,          \* the transactions in progress
    crowded,     \* history: <<t, f>> such that t wrote f while another did
    suspect      \* history: foods whose summary was last written by such a t

vars == <<reviews, summary, reviewLock, foodLock, tx, crowded, suspect>>

ReviewRows == [rating : Stars, hidden : BOOLEAN]

Summaries == [average : Nat, count : Nat]

\* The statement a transaction will execute next.
Statements == {"idle", "review", "aggregate", "food", "commit"}

\* The item lists of orders; rateOrder removes duplicates.
ItemLists ==
    {s \in UNION {[1 .. n -> Foods] : n \in 1 .. Cardinality(Foods)} :
        \A i, j \in DOMAIN s : s[i] = s[j] => i = j}

NoSummaries == [f \in Foods |-> None]

Idle == [pc |-> "idle", kind |-> "rate", user |-> None, items |-> <<>>, next |-> 1,
         rating |-> None, hidden |-> FALSE, computed |-> NoSummaries]

Init ==
    /\ reviews = [u \in Users |-> [f \in Foods |-> None]]
    /\ summary = [f \in Foods |-> [average |-> 0, count |-> 0]]
    /\ reviewLock = [u \in Users |-> [f \in Foods |-> None]]
    /\ foodLock = [f \in Foods |-> None]
    /\ tx = [t \in Transactions |-> Idle]
    /\ crowded = {}
    /\ suspect = {}

-------------------------------------------------------------------------------

At(t, pc) == tx[t].pc = pc

\* The food t is working on.
Current(t) == tx[t].items[tx[t].next]

\* The foods whose review t has written.
Written(t) ==
    {tx[t].items[i] : i \in {i \in DOMAIN tx[t].items :
        i < tx[t].next \/ (i = tx[t].next /\ ~At(t, "review"))}}

\* The review t writes for f: a rating shows the review again, a moderation
\* keeps its stars.
NewReview(t, f) ==
    [rating |-> IF tx[t].kind = "rate" THEN tx[t].rating
                ELSE reviews[tx[t].user][f].rating,
     hidden |-> tx[t].hidden]

\* The review rows as the statements of t see them.
Seen(t) ==
    [u \in Users |-> [f \in Foods |->
        IF u = tx[t].user /\ f \in Written(t) THEN NewReview(t, f)
                                              ELSE reviews[u][f]]]

\* review.aggregate: the average of the visible reviews, rounded to two
\* decimals, and their number.
Aggregated(column) ==
    LET visible == {u \in Users : column[u] # None /\ ~column[u].hidden}
        count == Cardinality(visible)
        sum == MapThenSumSet(LAMBDA u : column[u].rating, visible)
    IN
    [average |-> IF count = 0 THEN 0 ELSE (200 * sum + count) \div (2 * count),
     count |-> count]

\* updateFoodRatingAggregate
Summary(rows, f) == Aggregated([u \in Users |-> rows[u][f]])

-------------------------------------------------------------------------------

Begin(t, kind, u, items, rating, hidden) ==
    /\ At(t, "idle")
    /\ tx' = [tx EXCEPT ![t] =
                [pc |-> "review", kind |-> kind, user |-> u, items |-> items,
                 next |-> 1, rating |-> rating, hidden |-> hidden,
                 computed |-> NoSummaries]]
    /\ UNCHANGED <<reviews, summary, reviewLock, foodLock, crowded, suspect>>

\* Variant: the item list of the order as it is.
RateOrderAsListed(t, u, items, stars) ==
    Begin(t, "rate", u, items \o <<items[1]>>, stars, FALSE)

\* rateOrder, for a paid order of u with these items.
RateOrder(t, u, items, stars) == Begin(t, "rate", u, items, stars, FALSE)

\* moderateReview found the review.
ModerateReview(t, u, f, hidden) ==
    /\ reviews[u][f] # None
    /\ Begin(t, "moderate", u, <<f>>, None, hidden)

Goto(t, pc) == tx' = [tx EXCEPT ![t].pc = pc]

\* review.upsert, or review.update
WriteReview(t) ==
    LET u == tx[t].user
        f == Current(t)
        others == {s \in Transactions \ {t} : f \in Written(s)}
    IN
    /\ At(t, "review")
    /\ reviewLock[u][f] \in {None, t}
    /\ reviewLock' = [reviewLock EXCEPT ![u][f] = t]
    /\ crowded' = IF others = {} THEN crowded
                  ELSE crowded \cup {<<s, f>> : s \in others \cup {t}}
    /\ Goto(t, "aggregate")
    /\ UNCHANGED <<reviews, summary, foodLock, suspect>>

\* Variant: aggregates outside of the transaction.
AggregateOutside(t) ==
    /\ At(t, "aggregate")
    /\ tx' = [tx EXCEPT ![t].pc = "food",
                        ![t].computed[Current(t)] = Summary(reviews, Current(t))]
    /\ UNCHANGED <<reviews, summary, reviewLock, foodLock, crowded, suspect>>

\* review.aggregate
Aggregate(t) ==
    /\ At(t, "aggregate")
    /\ tx' = [tx EXCEPT ![t].pc = "food",
                        ![t].computed[Current(t)] = Summary(Seen(t), Current(t))]
    /\ UNCHANGED <<reviews, summary, reviewLock, foodLock, crowded, suspect>>

\* Variant: every round updates all foods of the order.
UpdateFoods(t) ==
    LET foods == {tx[t].items[i] : i \in DOMAIN tx[t].items} IN
    /\ At(t, "food")
    /\ \A f \in foods : foodLock[f] \in {None, t}
    /\ foodLock' = [f \in Foods |-> IF f \in foods THEN t ELSE foodLock[f]]
    /\ IF tx[t].next < Len(tx[t].items)
       THEN tx' = [tx EXCEPT ![t].pc = "review", ![t].next = @ + 1]
       ELSE Goto(t, "commit")
    /\ UNCHANGED <<reviews, summary, reviewLock, crowded, suspect>>

\* foodItem.update; then on to the next food of the order.
UpdateFood(t) ==
    LET f == Current(t) IN
    /\ At(t, "food")
    /\ foodLock[f] \in {None, t}
    /\ foodLock' = [foodLock EXCEPT ![f] = t]
    /\ IF tx[t].next < Len(tx[t].items)
       THEN tx' = [tx EXCEPT ![t].pc = "review", ![t].next = @ + 1]
       ELSE Goto(t, "commit")
    /\ UNCHANGED <<reviews, summary, reviewLock, crowded, suspect>>

\* Ends t: its locks are released.
End(t) ==
    /\ tx' = [tx EXCEPT ![t] = Idle]
    /\ reviewLock' = [u \in Users |-> [f \in Foods |->
                        IF reviewLock[u][f] = t THEN None ELSE reviewLock[u][f]]]
    /\ foodLock' = [f \in Foods |-> IF foodLock[f] = t THEN None ELSE foodLock[f]]
    /\ crowded' = {c \in crowded : c[1] # t}

Commit(t) ==
    /\ At(t, "commit")
    /\ reviews' = Seen(t)
    /\ summary' = [f \in Foods |-> IF f \in Written(t) THEN tx[t].computed[f]
                                                       ELSE summary[f]]
    /\ suspect' = (suspect \ Written(t)) \cup {f \in Foods : <<t, f>> \in crowded}
    /\ End(t)

\* A statement fails, the database breaks a deadlock, or the process dies.
Rollback(t) ==
    /\ ~At(t, "idle")
    /\ End(t)
    /\ UNCHANGED <<reviews, summary, suspect>>

Next ==
    \E t \in Transactions :
        \/ \E u \in Users, items \in ItemLists, stars \in Stars :
                RateOrder(t, u, items, stars)
        \/ \E u \in Users, f \in Foods, hidden \in BOOLEAN :
                ModerateReview(t, u, f, hidden)
        \/ WriteReview(t)
        \/ Aggregate(t)
        \/ UpdateFood(t)
        \/ Commit(t)
        \/ Rollback(t)

Spec == Init /\ [][Next]_vars

-------------------------------------------------------------------------------
(* Properties *)

TxStates ==
    [pc : Statements, kind : {"rate", "moderate"}, user : Users \cup {None},
     items : ItemLists \cup {<<>>}, next : Nat \ {0},
     rating : Stars \cup {None}, hidden : BOOLEAN,
     computed : [Foods -> Summaries \cup {None}]]

TypeOK ==
    /\ reviews \in [Users -> [Foods -> ReviewRows \cup {None}]]
    /\ summary \in [Foods -> Summaries]
    /\ reviewLock \in [Users -> [Foods -> Transactions \cup {None}]]
    /\ foodLock \in [Foods -> Transactions \cup {None}]
    /\ tx \in [Transactions -> TxStates]
    /\ crowded \subseteq Transactions \X Foods
    /\ suspect \subseteq Foods

\* The stored summary of a food is exact unless the transaction that wrote it
\* overlapped another one on the same food; it is exact again as soon as one
\* that overlapped none has rated the food or moderated a review of it.
SummariesAreExactUnlessCrowded ==
    \A f \in Foods \ suspect : summary[f] = Summary(reviews, f)

\* t waits for a row that s has locked.
WaitsFor(t, s) ==
    \/ At(t, "review") /\ reviewLock[tx[t].user][Current(t)] = s
    \/ At(t, "food") /\ foodLock[Current(t)] = s

Deadlocked(S) == S # {} /\ \A t \in S : \E s \in S : WaitsFor(t, s)

\* The items come in the order of their ranks.
Sorted(items, rank) ==
    \A i, j \in DOMAIN items : i < j => rank[items[i]] < rank[items[j]]

\* The database has to break a deadlock of these transactions only when orders
\* list common foods in different orders: no moderation is ever part of what
\* makes one, and sorting the foods of an order would rule them all out.
DeadlocksNeedCrossedOrders ==
    \A S \in SUBSET Transactions : Deadlocked(S) =>
        \A rank \in [Foods -> 1 .. Cardinality(Foods)] :
            \E t \in S : ~Sorted(tx[t].items, rank)

-------------------------------------------------------------------------------
(* The inductive invariant behind the theorems of RatingsProofs *)

\* The foods whose row t has updated, and those whose reviews it has counted.
Updated(t) ==
    {tx[t].items[i] : i \in {i \in DOMAIN tx[t].items :
        i < tx[t].next \/ At(t, "commit")}}

Counted(t) ==
    {tx[t].items[i] : i \in {i \in DOMAIN tx[t].items :
        i < tx[t].next \/ (i = tx[t].next /\ tx[t].pc \in {"food", "commit"})}}

\* What a transaction has found, and goes on with.
TxInv(t) ==
    /\ At(t, "idle") => tx[t] = Idle
    /\ ~At(t, "idle") => /\ tx[t].user \in Users
                         /\ tx[t].items \in ItemLists
                         /\ tx[t].next \in DOMAIN tx[t].items
    /\ At(t, "commit") => tx[t].next = Len(tx[t].items)
    /\ tx[t].kind = "rate" /\ ~At(t, "idle") => tx[t].rating \in Stars
    /\ tx[t].kind = "moderate" =>
        \A i \in DOMAIN tx[t].items : reviews[tx[t].user][tx[t].items[i]] # None

\* t holds the locks of what it has written, and no others.
LockInv(t) ==
    /\ \A u \in Users, f \in Foods :
        reviewLock[u][f] = t => u = tx[t].user /\ f \in Written(t)
    /\ \A f \in Foods : foodLock[f] = t => f \in Updated(t)

\* Two that have written reviews of a food are known to overlap on it.
CrowdInv(t) ==
    \A s \in Transactions \ {t} : \A f \in Written(s) \cap Written(t) :
        <<s, f>> \in crowded /\ <<t, f>> \in crowded

\* What t has counted is still what it sees, unless it overlaps another.
CountInv(t) ==
    \A f \in Counted(t) :
        /\ tx[t].computed[f] # None
        /\ <<t, f>> \notin crowded => tx[t].computed[f] = Summary(Seen(t), f)

RatingsInv ==
    /\ TypeOK
    /\ \A t \in Transactions : TxInv(t) /\ LockInv(t) /\ CrowdInv(t) /\ CountInv(t)
    /\ SummariesAreExactUnlessCrowded
==============================================================================

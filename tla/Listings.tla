------------------------------- MODULE Listings -------------------------------
(***************************************************************************)
(* The menu, read a page at a time, in any of its orders.                  *)
(*                                                                         *)
(* The database leaves the order of rows with equal sort keys open, and    *)
(* may choose another for each query.  A behaviour stands for one menu.    *)
(***************************************************************************)
EXTENDS Queries

CONSTANTS
    Menus,        \* bound: the menus listed, as sets of food rows
    PageSizes,    \* bound: the limits asked for
    NoValue       \* no discount

\* A food row as far as the listing reads it.
FoodRows ==
    [name : Int, price : Int, discount : Int \cup {NoValue}, rating : Int,
     ratings : Int, popularity : Int, createdAt : Int]

Sorts == {"popular", "rating", "newest", "price_asc", "price_desc"}

\* parsePositiveInt: a limit is at least 1.
ASSUME ListingsAssumption ==
    /\ \A m \in Menus : m \subseteq FoodRows /\ IsFiniteSet(m)
    /\ PageSizes \subseteq Nat \ {0}
    /\ NoValue \notin Int

VARIABLE menu

\* skip, take
PageOf(rows, page, limit) ==
    LET end == Skip(page, limit) + limit
    IN SubSeq(rows, Skip(page, limit) + 1, IF Len(rows) < end THEN Len(rows) ELSE end)

-------------------------------------------------------------------------------
(* The menu *)

FinalPrice(food) == IF food.discount = NoValue THEN food.price ELSE food.discount

\* getFoodOrderBy: the keys of a food, the least first; keys that descend are
\* negated, names stand for their place in the alphabet, and a food without a
\* discount has the first key 1.
SortKeys(sort, food) ==
    LET discount(sign) == IF food.discount = NoValue THEN <<1, 0>>
                          ELSE <<0, sign * food.discount>>
    IN CASE sort = "rating" -> <<-food.rating, -food.ratings, food.name>>
         [] sort = "newest" -> <<-food.createdAt>>
         [] sort = "price_asc" -> discount(1) \o <<food.price>>
         [] sort = "price_desc" -> discount(-1) \o <<-food.price>>
         [] sort = "popular" -> <<-food.popularity, -food.rating, food.name>>

Before(sort, a, b) ==
    LET x == SortKeys(sort, a)
        y == SortKeys(sort, b)
    IN \E k \in DOMAIN x : x[k] < y[k] /\ \A j \in 1 .. k - 1 : x[j] = y[j]

Tied(sort, a, b) == SortKeys(sort, a) = SortKeys(sort, b)

\* The orders in which a query may return the menu.
Results(sort) == Arrangements(menu, LAMBDA a, b : Before(sort, a, b))

-------------------------------------------------------------------------------
(* Properties *)

ListingsInit == menu \in Menus

ListingsSpec == ListingsInit /\ [][FALSE]_menu

\* Whatever order each query returns rows in, a food is on exactly one page,
\* unless foods its sort keys do not tell apart lie on both sides of a page's
\* end; and a list by price goes by the final price, first among the foods with
\* a discount and then among the others (findAll).
FoodsAreOnOnePageUnlessTied ==
    \A sort \in Sorts :
        LET results == Results(sort) IN
        /\ \A limit \in PageSizes :
            LET pages == 1 .. TotalPages(Cardinality(menu), limit)
                found == {[page |-> p, foods |-> Range(PageOf(rows, p, limit))] :
                            p \in pages, rows \in results}
                Split(food) ==
                    \E f \in found : /\ food \in f.foods
                                     /\ \E other \in menu \ f.foods : Tied(sort, food, other)
            IN \A food \in menu :
                LET on == {f.page : f \in {g \in found : food \in g.foods}} IN
                \/ Cardinality(on) = 1
                \/ Cardinality(on) > 1 /\ Split(food)
        /\ sort = "price_asc" =>
            \A rows \in results : \A i, j \in DOMAIN rows :
                i < j /\ FinalPrice(rows[j]) < FinalPrice(rows[i]) =>
                    rows[i].discount # NoValue /\ rows[j].discount = NoValue
===============================================================================

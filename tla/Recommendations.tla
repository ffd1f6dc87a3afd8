---------------------------- MODULE Recommendations ----------------------------
(***************************************************************************)
(* The foods recommended to a customer: what a food scores, from the menu  *)
(* and from what the customer ordered and likes, and how tags get into the *)
(* menu.  A behaviour stands for one menu and one customer.                *)
(***************************************************************************)
EXTENDS Queries

CONSTANTS
    Kitchens,     \* bound: the menus, as functions from names to inputs
    Histories,    \* bound: the orders of a customer, the last created first
    RecentOrders  \* orders read, 10 in the code

\* What the staff enter of a food.  base: popularity + 10 * ratingAverage.
FoodInputs ==
    [category : STRING, tags : Seq(STRING), base : Int,
     featured : BOOLEAN, available : BOOLEAN]

\* Foods are named by numbers, in the order of the alphabet.
ASSUME RecommendationsAssumption ==
    /\ \A inputs \in Kitchens :
        /\ DOMAIN inputs \subseteq Int /\ IsFiniteSet(DOMAIN inputs)
        /\ \A food \in DOMAIN inputs : inputs[food] \in FoodInputs
    /\ Histories \subseteq Seq(SUBSET Int)
    /\ RecentOrders \in Nat

VARIABLES kitchen, history

\* Variant: tags may be repeated.
NormalizeBlanks(values) == SelectSeq(values, LAMBDA tag : tag # "")

\* Blank values are dropped, and so are repeated ones.
AddTag(list, tag) ==
    IF tag = "" \/ tag \in Range(list) THEN list ELSE Append(list, tag)

NormalizeList(values) == FoldLeft(AddTag, <<>>, values)

KitchenFoods == DOMAIN kitchen

\* create, of the fields read here.
NewFood(input) == [input EXCEPT !.tags = NormalizeList(@)]

\* The items of the orders read, as the orders' numbers and their foods; the
\* status of an order does not matter.
RecentItems ==
    UNION {{<<n, food>> : food \in history[n]} :
            n \in DOMAIN history \cap 1 .. RecentOrders}

Purchased == {item[2] : item \in RecentItems}

\* addScore, of items and favourites of a category, and of those with a tag.
CategoryScore(category, favourites) ==
    3 * Cardinality({item \in RecentItems : kitchen[item[2]].category = category})
        + 4 * Cardinality({food \in favourites : kitchen[food].category = category})

Times(tag, food) == Cardinality({i \in DOMAIN kitchen[food].tags : kitchen[food].tags[i] = tag})

TagScore(tag, favourites) ==
    SumFunction([item \in RecentItems |-> Times(tag, item[2])])
        + 2 * SumFunction([food \in favourites |-> Times(tag, food)])

\* scoreFood, of each food.
Scores(favourites) ==
    [food \in KitchenFoods |->
        kitchen[food].base
            + CategoryScore(kitchen[food].category, favourites)
            + SumFunction([i \in DOMAIN kitchen[food].tags |->
                                TagScore(kitchen[food].tags[i], favourites)])
            + (IF kitchen[food].featured THEN 8 ELSE 0)
            - (IF food \in Purchased THEN 12 ELSE 0)]

\* By score and then by name; names are numbered by the alphabet.
Ahead(scores, a, b) == scores[a] > scores[b] \/ (scores[a] = scores[b] /\ a < b)

\* The available foods of the first places.
FindForUser(scores, limit) ==
    FirstOf(limit, Arranged({food \in KitchenFoods : kitchen[food].available},
                            LAMBDA a, b : Ahead(scores, a, b)))

\* Whether anything is known of the customer: with no category score there is
\* no tag score either.
Personalized(favourites) == RecentItems # {} \/ favourites # {}

\* getReason, as its kind.
Reason(food, favourites) ==
    IF \E i \in DOMAIN kitchen[food].tags : TagScore(kitchen[food].tags[i], favourites) > 0 THEN "tag"
    ELSE IF CategoryScore(kitchen[food].category, favourites) > 0 THEN "category"
    ELSE IF kitchen[food].featured THEN "featured"
    ELSE "popular"

-------------------------------------------------------------------------------
(* Properties *)

RecommendationsInit ==
    /\ \E inputs \in Kitchens : kitchen = [food \in DOMAIN inputs |-> NewFood(inputs[food])]
    /\ history \in Histories
    /\ \A n \in DOMAIN history : history[n] \subseteq KitchenFoods

RecommendationsSpec == RecommendationsInit /\ [][FALSE]_<<kitchen, history>>

\* A food the customer marks as a favourite is never recommended less for it: it
\* falls behind no food it was ahead of, and out of no list it was on.  A reason
\* that names a liking has one: without orders and favourites there is none.
FavouritesNeverSink ==
    \A favourites \in SUBSET KitchenFoods, food \in KitchenFoods :
        LET before == Scores(favourites)
            after == Scores(favourites \cup {food})
        IN /\ \A other \in KitchenFoods \ {food} :
                Ahead(before, food, other) => Ahead(after, food, other)
           /\ \A limit \in 1 .. Cardinality(KitchenFoods) :
                food \in Range(FindForUser(before, limit)) =>
                    food \in Range(FindForUser(after, limit))
           /\ Reason(food, favourites) \in {"tag", "category"} => Personalized(favourites)
===============================================================================

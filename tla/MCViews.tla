-------------------------------- MODULE MCViews --------------------------------
(***************************************************************************)
(* Instances for TLC of what customers and staff are shown: lists by pages, *)
(* recommendations, dashboards and reports, and the files of reports; and   *)
(* of the rate limit that every such request passes first.  The views read  *)
(* different tables.  So in a behaviour either requests are counted, or a   *)
(* reader walks through a list of orders while others change it, or one of  *)
(* the other views is looked at, which changes nothing; and the other       *)
(* tables are empty.                                                        *)
(***************************************************************************)
EXTENDS RateLimit, Listings, OrderPages, Recommendations, Dashboards, Exports

views == <<menu, kitchen, history, book, table>>

\* Menus of up to four foods with few prices, ratings and times of creation.
Dish(name, price, discount, rank) ==
    [name |-> name, price |-> price, discount |-> discount, rating |-> rank,
     ratings |-> 1, popularity |-> rank, createdAt |-> rank]

Dishes(name) ==
    {Dish(name, price, discount, rank) :
        price \in {3, 4}, discount \in {NoValue, 1, 2}, rank \in {1, 2}}

FewMenus ==
    {{}} \cup {{a, Dish(2, 3, NoValue, 1), c} : a \in Dishes(1), c \in Dishes(3)}
        \cup {{a, Dish(2, 4, 2, 2), c, Dish(4, 4, NoValue, 1)} :
                a \in Dishes(1), c \in Dishes(3)}

\* Kitchens of three foods, of which the second is known.
Inputs(bases, tags) ==
    [category : {"sweet", "salty"}, tags : BoundedSeq({"nut", "mint"}, tags),
     base : bases, featured : {FALSE}, available : {TRUE}]

Middle == [category |-> "sweet", tags |-> <<"mint", "", "nut">>, base |-> 2,
           featured |-> TRUE, available |-> TRUE]

SmallKitchens ==
    {<<>>} \cup {<<a, Middle, c>> : a \in Inputs({0, 3}, 1), c \in Inputs({0}, 2)}

ShortHistories == {<<>>, <<{1, 3}, {3}>>, <<{2}, {2, 3}, {1}>>}

\* Two customers, a suspended one and another, and two foods, over three days
\* of three hours.
OrderRow(user, status, createdAt, placedAt, food, quantity) ==
    [user |-> user, status |-> status, createdAt |-> createdAt, placedAt |-> placedAt,
     total |-> 10 * quantity + createdAt,
     items |-> <<[food |-> food, quantity |-> quantity, price |-> 10 * quantity]>>]

PlacedRows ==
    {OrderRow(user, s, times[1], times[2], item[1], item[2]) :
        user \in {"ann", "bob"}, s \in {"CONFIRMED", "COMPLETED", "CANCELLED"},
        times \in {<<0, 0>>, <<0, 3>>, <<2, 5>>, <<4, 4>>, <<6, 8>>},
        item \in {<<"bun", 1>>, <<"pie", 1>>, <<"pie", 2>>}}

UnplacedRows ==
    {OrderRow(user, s, createdAt, Unset, "bun", 1) :
        user \in {"ann", "bob"}, s \in {"PENDING_PAYMENT", "CANCELLED"},
        createdAt \in {5, 7}}

RowsOfBooks == PlacedRows \cup UnplacedRows

\* Orders are in the book as they were created.
ShortBooks ==
    {<<>>} \cup {<<row>> : row \in RowsOfBooks}
        \cup {pair \in RowsOfBooks \X RowsOfBooks : pair[1].createdAt <= pair[2].createdAt}

TwoCustomers == <<"bob", "ann">>

\* Servers at UTC and on either side of it, and some whose clock is set forward or
\* back on one of the days, or both.
SomeZones ==
    {<<[since |-> 0, offset |-> off]>> : off \in -2 .. 2}
        \cup {<<[since |-> 0, offset |-> 1], [since |-> hour, offset |-> 0]>> : hour \in {3, 4}}
        \cup {<<[since |-> 0, offset |-> 0], [since |-> hour, offset |-> 1]>> : hour \in {5, 6}}
        \cup {<<[since |-> 0, offset |-> 0], [since |-> 2, offset |-> 1],
                [since |-> 5, offset |-> 0]>>}

\* Tables of one, two and three columns, with no, one and two rows.
Texts(length) == BoundedSeq({"a", "comma", "quote", "newline", "&", "<"}, length)

SmallTables ==
    {<< <<a, <<"b">>, <<"c">> >> >> : a \in Texts(2)}
        \cup {<< <<a, b>>, <<b, a>> >> : a \in Texts(2), b \in Texts(1)}
        \cup {<< <<a, a>>, <<a, b>>, <<b, c>> >> :
                a \in Texts(1), b \in Texts(1), c \in Texts(1)}

\* Orders to walk through, and filters: none, by a status that settling a payment
\* changes, and by a status of the payment that it changes.
Listing(status, payments, captured) ==
    [status |-> status, payments |-> payments, captured |-> captured]

FewRows ==
    {Listing("PENDING_PAYMENT", {"CREATED"}, TRUE),
     Listing("PENDING_PAYMENT", {"CREATED"}, FALSE), Listing("PLACED", {"CAPTURED"}, TRUE)}

Filter(status, paymentStatus, paymentProvider) ==
    [status |-> status, paymentStatus |-> paymentStatus,
     paymentProvider |-> paymentProvider]

NoFilter == Filter(Unfiltered, Unfiltered, Unfiltered)

FewFilters ==
    {NoFilter, Filter("PENDING_PAYMENT", Unfiltered, Unfiltered),
     Filter(Unfiltered, "CREATED", "RAZORPAY")}

NoList == menu = {}

NoOrders == orders = [t \in OrderIds |-> NoOrder]

NoKitchen == kitchen = <<>> /\ history = <<>>

NoBook == book = <<>>

NoFile == table = << << <<>> >> >>

NoViews == NoList /\ NoKitchen /\ NoBook /\ NoFile

Counting == NoViews /\ NoOrders

Walking == ~NoOrders

NoWalk == NoOrders /\ wanted = [filter |-> NoFilter, limit |-> 1] /\ PagesInit

Looking ==
    \/ ListingsInit /\ NoKitchen /\ NoBook /\ NoFile
    \/ NoList /\ RecommendationsInit /\ NoBook /\ NoFile
    \/ NoList /\ NoKitchen /\ DashboardsInit /\ NoFile
    \/ NoList /\ NoKitchen /\ NoBook /\ ExportsInit

MCInit ==
    /\ RateInit
    /\ \/ NoViews /\ NoWalk
       \/ ~connected /\ Looking /\ NoWalk
       \/ ~connected /\ NoViews /\ PagesInit /\ Walking

MCNext ==
    \/ Counting /\ RateNext /\ UNCHANGED <<views, pageVars>>
    \/ Walking /\ PagesNext /\ UNCHANGED <<rateVars, views>>
    \/ ~Counting /\ UNCHANGED <<rateVars, views, pageVars>>

\* While requests are counted, commands go on and time passes.
MCSpec ==
    /\ MCInit
    /\ [][MCNext]_<<rateVars, views, pageVars>>
    /\ Counting => RateFairness
================================================================================

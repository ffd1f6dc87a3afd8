------------------------------ MODULE OrderPages ------------------------------
(***************************************************************************)
(* A reader, a customer or the staff, walks through a list of orders, the   *)
(* last created first, a page at a time and until the last page announced.  *)
(* Each page is one query; the page then asks the payment provider about    *)
(* every order on it that still waits for its payment, and settles those    *)
(* that were captured.  Meanwhile other requests create and change orders,  *)
(* so the rows that come later move to other pages.                         *)
(*                                                                         *)
(* An order is named by its time of creation, which is that of its row's    *)
(* default and not of its commit: an order may turn up below others that    *)
(* were created after it.  No two orders have the same time.  The list is   *)
(* what the searched text, dates and totals leave of the orders; those      *)
(* filters look at nothing that is written here.                            *)
(***************************************************************************)
EXTENDS Queries, OrderStatus

CONSTANTS
    OrderIds,       \* the times of creation of orders
    Rows,        \* bound: the rows that other requests write
    Filters,     \* bound: the filters asked for
    Limits,   \* bound: the limits asked for
    MaxChanges,  \* bound: orders created or changed by other requests
    NoOrder,     \* no order has that time
    Unfiltered      \* no filter

VARIABLES
    orders,       \* the order of each time
    wanted,       \* the filter and the limit of the walk
    nextPage,     \* the page to ask for, or being read
    lastPage,     \* the pages announced by the page shown last
    reading,      \* a page is being read
    readRows,     \* the status of each order on that page, as it will be shown
    counted,      \* the pages counted with it
    recovering,   \* orders on it whose payments are being looked for
    recovered,    \* orders on it that were settled, and not read again yet
    changes,      \* bound: orders created or changed by other requests so far
    shown,        \* history: the orders shown
    steady,       \* history: orders that were listed all the while
    repeats,      \* history: times an order was shown again
    departures,   \* history: times an order left the list
    arrivals      \* history: times an order came onto the list

pageVars == <<orders, wanted, nextPage, lastPage, reading, readRows, counted,
              recovering, recovered, changes, shown, steady, repeats, departures,
              arrivals>>

-------------------------------------------------------------------------------
(* The list *)

PaymentStatuses == {"CREATED", "AUTHORIZED", "CAPTURED", "FAILED", "REFUNDED"}

\* An order: its status, the statuses of its payments, and whether the provider
\* has captured one of them.
OrderRows ==
    [status : OrderStatuses, payments : SUBSET PaymentStatuses, captured : BOOLEAN]

ListFilters ==
    [status : OrderStatuses \cup {Unfiltered},
     paymentStatus : PaymentStatuses \cup {"NONE", Unfiltered},
     paymentProvider : {"RAZORPAY", "CASH", Unfiltered}]

\* parseListOrdersQuery: a limit is at least 1.
ASSUME PagesAssumption ==
    /\ OrderIds \subseteq Nat /\ IsFiniteSet(OrderIds)
    /\ Rows \subseteq OrderRows
    /\ Filters \subseteq ListFilters
    /\ Limits \subseteq Nat \ {0}
    /\ MaxChanges \in Nat
    /\ NoOrder \notin OrderRows
    /\ Unfiltered \notin OrderStatuses \cup PaymentStatuses \cup {"NONE", "RAZORPAY", "CASH"}

HasPayments(filter, payments) ==
    /\ \/ filter.paymentStatus = Unfiltered
       \/ filter.paymentStatus = "NONE" /\ payments = {}
       \/ filter.paymentStatus \in payments
    /\ \/ filter.paymentProvider = Unfiltered
       \/ filter.paymentProvider = "CASH" /\ payments = {}
       \/ filter.paymentProvider = "RAZORPAY" /\ payments # {}

HasStatus(status) == wanted.filter.status \in {Unfiltered, status}

\* where
Listed ==
    {t \in OrderIds : /\ orders[t] # NoOrder
                   /\ HasStatus(orders[t].status)
                   /\ HasPayments(wanted.filter, orders[t].payments)}

\* orderBy: the place of an order among some, the last created first.
Place(some, t) == 1 + Cardinality({u \in some : u > t})

\* Variant: a page takes one order more, as one does to learn if there are more.
OrdersOnAndNext(page) ==
    {t \in Listed : /\ Skip(page, wanted.limit) < Place(Listed, t)
                    /\ Place(Listed, t) <= Skip(page, wanted.limit) + wanted.limit + 1}

\* skip, take
OrdersOn(page) ==
    {t \in Listed : /\ Skip(page, wanted.limit) < Place(Listed, t)
                    /\ Place(Listed, t) <= Skip(page, wanted.limit) + wanted.limit}

-------------------------------------------------------------------------------
(* The walk *)

PagesInit ==
    /\ orders \in [OrderIds -> Rows \cup {NoOrder}]
    /\ wanted \in [filter : Filters, limit : Limits]
    /\ nextPage = 1 /\ lastPage = 1
    /\ reading = FALSE
    /\ readRows = <<>> /\ counted = 0
    /\ recovering = {} /\ recovered = {}
    /\ changes = 0
    /\ shown = {}
    /\ steady = Listed
    /\ repeats = 0 /\ departures = 0 /\ arrivals = 0

\* A row is written, which may change what is listed.
WriteOrder(t, row) ==
    /\ orders' = [orders EXCEPT ![t] = row]
    /\ UNCHANGED <<wanted, nextPage, lastPage, reading, readRows, counted, shown, repeats>>
    /\ steady' = steady \cap Listed'
    /\ departures' = departures + Cardinality(Listed \ Listed')
    /\ arrivals' = arrivals + Cardinality(Listed' \ Listed)

\* findRecentOrders, findAdminOrders: the page and the count, in one transaction.
FindPage ==
    /\ ~reading /\ nextPage <= lastPage
    /\ reading' = TRUE
    /\ readRows' = [t \in OrdersOn(nextPage) |-> orders[t].status]
    /\ counted' = TotalPages(Cardinality(Listed), wanted.limit)
    /\ recovering' = {t \in OrdersOn(nextPage) : /\ orders[t].status = "PENDING_PAYMENT"
                                               /\ orders[t].payments # {}}
    /\ recovered' = {}
    /\ UNCHANGED <<orders, wanted, nextPage, lastPage, changes, shown, steady, repeats,
                   departures, arrivals>>

\* finalizePaidOrder: one of the payments becomes CAPTURED, and the order is
\* placed if it waits for its payment still.
Finalized(row) ==
    {[row EXCEPT !.status = IF @ = "PENDING_PAYMENT" THEN "PLACED" ELSE @,
                 !.payments = others \cup {"CAPTURED"}] :
        others \in {row.payments} \cup {row.payments \ {s} : s \in row.payments}}

\* recoverPendingPaymentIfCaptured: the provider knows of a captured payment.
RecoverPayment(t) ==
    /\ t \in recovering /\ orders[t].captured
    /\ \E row \in Finalized(orders[t]) : WriteOrder(t, row)
    /\ recovering' = recovering \ {t}
    /\ recovered' = recovered \cup {t}
    /\ UNCHANGED changes

\* An order that was settled is read again, and shown so.
ReadAgain(t) ==
    /\ t \in recovered
    /\ readRows' = [readRows EXCEPT ![t] = orders[t].status]
    /\ recovered' = recovered \ {t}
    /\ UNCHANGED <<orders, wanted, nextPage, lastPage, reading, counted, recovering,
                   changes, shown, steady, repeats, departures, arrivals>>

\* The provider fails or knows of no captured payment, the payment is not one it
\* may ask about or is refused for its id, or the settlement was not heard of: the
\* order is shown as the page had it.
KeepAsRead(t) ==
    /\ t \in recovering \cup recovered
    /\ recovering' = recovering \ {t} /\ recovered' = recovered \ {t}
    /\ UNCHANGED <<orders, wanted, nextPage, lastPage, reading, readRows, counted,
                   changes, shown, steady, repeats, departures, arrivals>>

\* A query fails, and with it the page: it will be asked for once more.
FailPage ==
    /\ reading
    /\ reading' = FALSE
    /\ readRows' = <<>> /\ counted' = 0
    /\ recovering' = {} /\ recovered' = {}
    /\ UNCHANGED <<orders, wanted, nextPage, lastPage, changes, shown, steady, repeats,
                   departures, arrivals>>

\* visibleOrders: the orders on the page that have the status asked for now.
Visible == {t \in DOMAIN readRows : HasStatus(readRows[t])}

ShowPage ==
    /\ reading /\ recovering = {} /\ recovered = {}
    /\ shown' = shown \cup Visible
    /\ repeats' = repeats + Cardinality(Visible \cap shown)
    /\ nextPage' = nextPage + 1
    /\ lastPage' = counted
    /\ reading' = FALSE
    /\ readRows' = <<>> /\ counted' = 0
    /\ UNCHANGED <<orders, wanted, recovering, recovered, changes, steady, departures,
                   arrivals>>

-------------------------------------------------------------------------------
(* Other requests *)

CreateOrder(t) ==
    /\ changes < MaxChanges
    /\ orders[t] = NoOrder
    /\ \E row \in Rows : WriteOrder(t, row)
    /\ changes' = changes + 1
    /\ UNCHANGED <<recovering, recovered>>

\* A status or a payment is written, by any request or webhook; orders keep their
\* payments, and a captured one stays captured.
ChangeOrder(t) ==
    /\ changes < MaxChanges
    /\ orders[t] # NoOrder
    /\ \E row \in Rows \ {orders[t]} :
        /\ orders[t].payments # {} => row.payments # {}
        /\ orders[t].captured => row.captured
        /\ WriteOrder(t, row)
    /\ changes' = changes + 1
    /\ UNCHANGED <<recovering, recovered>>

PagesNext ==
    \/ FindPage \/ FailPage \/ ShowPage
    \/ \E t \in OrderIds :
        RecoverPayment(t) \/ ReadAgain(t) \/ KeepAsRead(t) \/ CreateOrder(t) \/ ChangeOrder(t)

PagesSpec == PagesInit /\ [][PagesNext]_pageVars

-------------------------------------------------------------------------------
(* Properties *)

PagesType ==
    /\ orders \in [OrderIds -> OrderRows \cup {NoOrder}]
    /\ wanted \in [filter : ListFilters, limit : Nat \ {0}]
    /\ nextPage \in Nat \ {0} /\ lastPage \in Nat
    /\ reading \in BOOLEAN
    /\ DOMAIN readRows \subseteq OrderIds
    /\ \A t \in DOMAIN readRows : readRows[t] \in OrderStatuses /\ orders[t] # NoOrder
    /\ counted \in Nat
    /\ recovering \subseteq DOMAIN readRows /\ recovered \subseteq DOMAIN readRows
    /\ changes \in 0 .. MaxChanges
    /\ shown \subseteq OrderIds
    /\ steady \subseteq Listed
    /\ repeats \in Nat /\ departures \in Nat /\ arrivals \in Nat

\* When a reader has seen the last page, the orders that were listed all the while
\* and that were not shown are no more than left the list meanwhile, on account of
\* a payment settled by the pages themselves or of others (findRecentOrders,
\* findAdminOrders).  A page that fails and is asked for again loses none.  So
\* without a filter, where no order leaves, none is missed.
WalksMissAtMostDepartures ==
    nextPage > lastPage => Cardinality(steady \ shown) <= departures

\* Orders are shown again no more often than others come onto the list.
RepeatsNeedArrivals == repeats <= arrivals

-------------------------------------------------------------------------------
(* Why: up to the end of the pages shown *)

\* Orders listed all the while, within the first places and not among some.
Missed(some, end) == {t \in steady \ some : Place(Listed, t) <= end}

\* Orders among some that are listed beyond the first places.
Beyond(some, end) == {t \in some \cap Listed : Place(Listed, t) > end}

Upcoming == DOMAIN readRows

\* Between pages, and before one is shown.
ShownInv ==
    LET end == Skip(nextPage, wanted.limit) IN
    /\ Cardinality(Missed(shown, end)) <= departures
    /\ repeats + Cardinality(Beyond(shown, end)) <= arrivals
    /\ nextPage > lastPage => ~reading /\ Cardinality(steady \ shown) <= departures

\* While a page is read, as if all of it were shown.
UpcomingInv ==
    LET end == Skip(nextPage + 1, wanted.limit)
        seen == shown \cup Upcoming
    IN /\ Cardinality(Missed(seen, end)) <= departures
       /\ repeats + Cardinality(Upcoming \cap shown) + Cardinality(Beyond(seen, end)) <= arrivals
       /\ \A t \in Upcoming \cap steady : HasStatus(readRows[t])
       /\ nextPage + 1 > counted => Cardinality(steady \ seen) <= departures

PagesInv == PagesType /\ ShownInv /\ (reading => UpcomingInv)
================================================================================

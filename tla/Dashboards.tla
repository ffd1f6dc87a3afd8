------------------------------ MODULE Dashboards ------------------------------
(***************************************************************************)
(* What the staff are shown of the orders: the analytics of the dashboard, *)
(* and the rows of the reports, which other code computes from the same    *)
(* tables.  Times are hours UTC.  Days begin by the clock of the server,    *)
(* which is set forward and back as its time zone has it, and are named by *)
(* the UTC date.  Nothing here writes: a behaviour stands for one look at  *)
(* one book.                                                               *)
(***************************************************************************)
EXTENDS Queries, OrderStatus

CONSTANTS
    HoursPerDay,
    ReportRows,   \* rows of a report at most, 1000 in the code
    Customers,    \* the accounts of customers, the newest first
    Suspended,    \* those of them who are suspended
    ActiveDays,   \* how long a customer counts as active, 30 in the code
    Books,        \* bound: the books looked at
    Now,          \* the hour of the look
    Zones,        \* the time zones of servers
    MaxDays,      \* bound: of the days asked for
    Unset         \* no time

\* An order row with its items, as far as the views read it.
BookRows(times, foods, amounts) ==
    [user : Range(Customers), status : OrderStatuses,
     placedAt : times \cup {Unset}, createdAt : times, total : amounts,
     items : Seq([food : foods, quantity : amounts, price : amounts])]

\* A time zone lists how far the clock is ahead of UTC, and since when.  The clock
\* changes at most once a day, and is never set forward by more than a day.
TimeZones ==
    {zone \in Seq([since : Int, offset : Int]) \ {<<>>} :
        \A k \in 2 .. Len(zone) :
            /\ zone[k].offset - zone[k - 1].offset <= HoursPerDay
            /\ \A j \in 2 .. k - 1 : zone[j].since + HoursPerDay <= zone[k].since}

\* An order is created and placed before the look at it.
ASSUME DashboardsAssumption ==
    /\ HoursPerDay \in Nat \ {0}
    /\ {ReportRows, ActiveDays, Now, MaxDays} \subseteq Nat
    /\ Customers \in Seq(STRING)
    /\ Zones \subseteq TimeZones
    /\ Unset \notin Int
    /\ Books \subseteq Seq(BookRows(0 .. Now, STRING, Int))

VARIABLE book     \* the order rows with their items, in the order queries find them

\* revenueStatuses, of the dashboard and of the reports.
RevenueStatuses ==
    {"PAID", "PLACED", "CONFIRMED", "PREPARING", "READY_FOR_PICKUP",
     "OTP_VERIFICATION_PENDING", "COMPLETED"}

ReportStatuses ==
    {"PAID", "PLACED", "CONFIRMED", "PREPARING", "READY_FOR_PICKUP",
     "OTP_VERIFICATION_PENDING", "COMPLETED"}

LiveQueueStatuses == RevenueStatuses \ {"PAID", "COMPLETED"}

\* Variant: orders count when they are created.
WhenCreated(order) == order.createdAt

\* placedAt ?? createdAt
When(order) == IF order.placedAt = Unset THEN order.createdAt ELSE order.placedAt

Within(t, startsAt, endsAt) == t # Unset /\ startsAt <= t /\ t < endsAt

\* How far the clock is ahead at this hour, and what it shows.
OffsetAt(zone, t) ==
    LET k == Min({n \in DOMAIN zone : n < Len(zone) => t < zone[n + 1].since})
    IN zone[k].offset

LocalTime(zone, t) == t + OffsetAt(zone, t)

\* The hour at which the clock shows this, the earlier of two; a time it skips
\* is told by the clock as it was before.
UtcOf(zone, local) ==
    LET k == Min({n \in DOMAIN zone :
                    n < Len(zone) =>
                        \E m \in {n, n + 1} : local - zone[m].offset < zone[n + 1].since})
    IN local - zone[k].offset

\* startOfDay: the local midnight before.  addDays: the same local time on another
\* day.
StartOfDay(zone, t) == UtcOf(zone, (LocalTime(zone, t) \div HoursPerDay) * HoursPerDay)

AddDays(zone, t, days) == UtcOf(zone, LocalTime(zone, t) + days * HoursPerDay)

\* todayStart, tomorrowStart
Today(zone) == StartOfDay(zone, Now)

Tomorrow(zone) == AddDays(zone, Today(zone), 1)

\* formatDateKey: the UTC date.
DateKey(t) == t \div HoursPerDay

\* Math.round(sum / count), or 0 of nothing.
Average(sum, count) == IF count = 0 THEN 0 ELSE (2 * sum + count) \div (2 * count)

\* The orders of the book with one of these statuses, and what orders are worth.
OrdersIn(statuses) == {i \in DOMAIN book : book[i].status \in statuses}

Spent(orders) == SumFunction([i \in orders |-> book[i].total])

ItemsOf(orders) ==
    UNION {{<<i, j>> : j \in DOMAIN book[i].items} : i \in orders}

Quantity(items) == SumFunction([p \in items |-> book[p[1]].items[p[2]].quantity])

Takings(items) == SumFunction([p \in items |-> book[p[1]].items[p[2]].price])

-------------------------------------------------------------------------------
(* Analytics *)

\* revenueOrderWhere
RevenueOrders(startsAt, endsAt) ==
    {i \in OrdersIn(RevenueStatuses) :
        \/ Within(book[i].placedAt, startsAt, endsAt)
        \/ book[i].placedAt = Unset /\ Within(book[i].createdAt, startsAt, endsAt)}

Summary(zone) ==
    LET start == Today(zone)
        end == Tomorrow(zone)
        orders == RevenueOrders(start, end)
    IN [revenue |-> Spent(orders),
        orders |-> Cardinality(orders),
        average |-> Average(Spent(orders), Cardinality(orders)),
        customers |-> Cardinality({book[i].user : i \in orders}),
        live |-> Cardinality(OrdersIn(LiveQueueStatuses)),
        completed |-> Cardinality({i \in OrdersIn({"COMPLETED"}) :
                                    Within(book[i].placedAt, start, end)}),
        cancelled |-> Cardinality({i \in OrdersIn({"CANCELLED", "REFUNDED"}) :
                                    Within(book[i].createdAt, start, end)})]

TrendStart(days, zone) == AddDays(zone, Today(zone), 0 - (days - 1))

\* One bucket for each day, and in it the orders whose date is its key; orders
\* whose date has no bucket are passed over.
RevenueTrend(days, zone) ==
    LET start == TrendStart(days, zone)
        orders == RevenueOrders(start, Tomorrow(zone))
        In(key) == {i \in orders : DateKey(When(book[i])) = key}
    IN [key \in {DateKey(AddDays(zone, start, day)) : day \in 0 .. days - 1} |->
            [revenue |-> Spent(In(key)), orders |-> Cardinality(In(key))]]

\* Quantity sold and revenue of each food in the items.
FoodTotals(items) ==
    LET Food(p) == book[p[1]].items[p[2]].food
        Of(food) == {p \in items : Food(p) = food}
    IN {[food |-> food, quantity |-> Quantity(Of(food)),
         revenue |-> Takings(Of(food))] : food \in {Food(p) : p \in items}}

SellsMore(a, b) ==
    a.quantity > b.quantity \/ (a.quantity = b.quantity /\ a.revenue > b.revenue)

TopFoods(days, limit, zone) ==
    LET end == Tomorrow(zone)
        orders == RevenueOrders(AddDays(zone, end, 0 - days), end)
    IN FirstOf(limit, Arranged(FoodTotals(ItemsOf(orders)), SellsMore))

\* Oldest placement first, orders without one last.
QueuedBefore(a, b) ==
    \/ a.placedAt # Unset /\ b.placedAt # Unset /\ a.placedAt < b.placedAt
    \/ a.placedAt # Unset /\ b.placedAt = Unset
    \/ a.placedAt = b.placedAt /\ a.createdAt < b.createdAt

LiveQueue(limit) ==
    FirstOf(limit, Arranged(OrdersIn(LiveQueueStatuses),
                                LAMBDA i, j : QueuedBefore(book[i], book[j])))

\* Variant: the last order of the list is taken for the latest.
LastInList(latest, t) == t

\* The later of two times, as the loop keeps it.
Later(latest, t) == IF latest = Unset \/ t > latest THEN t ELSE latest

LatestOrder(orders) ==
    LET rows == InPlace(orders)
    IN FoldLeft(Later, Unset, [n \in DOMAIN rows |-> When(book[rows[n]])])

SpendsMore(a, b) ==
    a.spend > b.spend \/ (a.spend = b.spend /\ a.orders > b.orders)

\* Customers with orders, of those who are not suspended.
CustomerInsights(zone, limit) ==
    LET since == AddDays(zone, Today(zone), 0 - ActiveDays)
        paid == {i \in OrdersIn(RevenueStatuses) : book[i].user \notin Suspended}
        Of(user) == {i \in paid : book[i].user = user}
        Row(user) == [user |-> user, orders |-> Cardinality(Of(user)),
                      items |-> Quantity(ItemsOf(Of(user))),
                      spend |-> Spent(Of(user)),
                      average |-> Average(Spent(Of(user)), Cardinality(Of(user))),
                      lastOrderAt |-> LatestOrder(Of(user))]
        rows == {Row(book[i].user) : i \in paid}
        repeat == Cardinality({row \in rows : row.orders > 1})
    IN [active |-> Cardinality({row \in rows : row.lastOrderAt >= since}),
        repeat |-> repeat,
        repeatRate |-> Average(repeat * 100, Cardinality(rows)),
        lifetime |-> Average(SumFunction([row \in rows |-> row.spend]), Cardinality(rows)),
        customers |-> FirstOf(limit, Arranged(rows, SpendsMore))]

-------------------------------------------------------------------------------
(* Reports *)

\* buildOrdersReport: the orders created last.
OrdersReport ==
    FirstOf(ReportRows, Arranged(DOMAIN book,
        LAMBDA i, j : book[i].createdAt > book[j].createdAt))

\* buildCustomersReport: all customers, suspended or not, newest account first.
CustomersReport ==
    LET Of(user) == {i \in OrdersIn(ReportStatuses) : book[i].user = user}
        Row(user) == [user |-> user, orders |-> Cardinality(Of(user)),
                      spend |-> Spent(Of(user)),
                      average |-> Average(Spent(Of(user)), Cardinality(Of(user))),
                      lastOrderAt |-> IF Of(user) = {} THEN Unset
                                      ELSE Max({When(book[i]) : i \in Of(user)})]
    IN [n \in DOMAIN FirstOf(ReportRows, Customers) |-> Row(Customers[n])]

\* buildFoodSalesReport: all that was ever sold, added up and sorted here too.
FoodSales(items) ==
    LET foods == {book[p[1]].items[p[2]].food : p \in items}
        Sold == [food \in foods |-> {p \in items : book[p[1]].items[p[2]].food = food}]
    IN {[food |-> food, quantity |-> Quantity(Sold[food]), revenue |-> Takings(Sold[food])] :
            food \in foods}

SoldMore(first, second) ==
    \/ first.quantity > second.quantity
    \/ first.quantity = second.quantity /\ first.revenue > second.revenue

FoodSalesReport == Arranged(FoodSales(ItemsOf(OrdersIn(ReportStatuses))), SoldMore)

-------------------------------------------------------------------------------
(* Properties *)

DashboardsInit == book \in Books

DashboardsSpec == DashboardsInit /\ [][FALSE]_book

\* The trend adds up the orders of its window but those whose UTC date is not the
\* date on which a day of the window begins (getRevenueTrend: `if (!bucket)
\* continue').  They are later than the date of the last beginning, or lie within
\* a local day that is longer than others.  Where the clock is never changed they
\* are those of the last hours, as many as it lacks of a whole day ahead of UTC;
\* and at UTC there are none, and the last day is the summary of the day.
TrendsLoseOnlyUnnamedDates ==
    \A zone \in Zones, days \in 1 .. MaxDays :
        LET start == TrendStart(days, zone)
            end == Tomorrow(zone)
            begins == [day \in 0 .. days - 1 |-> AddDays(zone, start, day)]
            trend == RevenueTrend(days, zone)
            orders == RevenueOrders(start, end)
            lost == {i \in orders : DateKey(When(book[i])) \notin DOMAIN trend}
            Sum(field) == SumFunction([key \in DOMAIN trend |-> trend[key][field]])
            MissesTheEnd(t) ==
                begins[days - 1] <= t /\ DateKey(begins[days - 1]) < DateKey(t)
            IsInALongDay(t) ==
                \E day \in 1 .. days - 1 :
                    /\ begins[day - 1] < t /\ t < begins[day]
                    /\ begins[day] - begins[day - 1] > HoursPerDay
        IN /\ Sum("revenue") = Spent(orders \ lost)
           /\ Sum("orders") = Cardinality(orders \ lost)
           /\ \A i \in lost : MissesTheEnd(When(book[i])) \/ IsInALongDay(When(book[i]))
           /\ Len(zone) = 1 =>
                lost = {i \in orders :
                            When(book[i]) >= end - ((0 - zone[1].offset) % HoursPerDay)}
           /\ Len(zone) = 1 /\ zone[1].offset = 0 =>
                trend[DateKey(Now)] = [revenue |-> Summary(zone).revenue,
                                       orders |-> Summary(zone).orders]

\* The customers of the dashboard are the customers of a report that has room
\* for all, those with orders and not suspended, with the same figures and the
\* same last order; they are active if they ordered since; and what has sold is
\* the same in both, of the orders of all time and of a window that holds them.
ReportsAgreeWithDashboards ==
    \A zone \in Zones :
        LET insights == CustomerInsights(zone, Len(Customers))
            since == AddDays(zone, Today(zone), 0 - ActiveDays)
            reported == {row \in Range(CustomersReport) :
                            row.orders > 0 /\ row.user \notin Suspended}
            top == TopFoods(Now + 2, Len(FoodSalesReport), zone)
            Same(a, b) == \A field \in {"user", "orders", "spend", "average",
                                        "lastOrderAt"} : a[field] = b[field]
        IN /\ Len(Customers) <= ReportRows =>
                /\ \A row \in reported : \E seen \in Range(insights.customers) : Same(row, seen)
                /\ Len(insights.customers) = Cardinality(reported)
           /\ insights.active = Cardinality(
                {user \in Range(Customers) \ Suspended :
                    \E i \in OrdersIn(RevenueStatuses) :
                        book[i].user = user /\ When(book[i]) >= since})
           /\ AddDays(zone, Tomorrow(zone), 0 - (Now + 2)) <= 0 /\ Now < Tomorrow(zone) =>
                Range(top) = Range(FoodSalesReport) /\ Len(top) = Len(FoodSalesReport)
           /\ Summary(zone).live = Len(LiveQueue(Len(book)))
===============================================================================

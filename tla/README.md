# Crumb Stall backend: specification and proofs

The backend of Crumb Stall is a NestJS service over one PostgreSQL database.
Customers fill a cart, price it, and pay online through Razorpay or at the
counter; the staff take orders through the kitchen; the customer collects an
order by telling a short code.  The service keeps nothing in memory between two
requests (except the fallback counters of the rate limit): what it knows is in
its rows, and what makes it hard is that a request is a chain of awaits between
which every other request may run, that most checks are made on a row that was
read before an await, and that the payment provider tells the service of a
payment several times, late, out of order, or never.

This directory holds TLA+ modules translated from the source, the TLC
configurations that check them, and TLAPS proofs.  `PROJECT.json` lists the runs,
the lines each definition stands for, the hazards and the theorems.  Paths below
are relative to `src/src/modules/` unless they say otherwise.

    tlc -config MCOrders_payment.cfg MCOrders.tla     # a run
    tlapm OrdersProofs.tla                            # the proofs of a module

## 1. Inventory

| Component | State | Operations | Calls and is called by | What makes it hard |
|---|---|---|---|---|
| Orders `orders/` | order, order item, payment, webhook-event and coupon-usage rows | start, cash and counter checkout; confirm; webhook; recover on read; mark failed; update status; list and show | payments, coupons, otp, notifications, live | every hazard of section 2 |
| Payments `payments/` | none (the provider's books) | create provider order, verify signatures, find a captured payment | called by orders | lost and repeated deliveries, slow calls |
| Pickup code `otp/` | one OTP row for each order | show, refresh, verify | orders (status), notifications | expiry in the middle of a verification, attempts counted late |
| Coupons `coupons/` | coupon rows | create, update, deactivate, validate, resolve for an order | called by orders | limit checked at pricing, counted at placing |
| Reviews `reviews/` | review rows, the rating columns of food rows | rate an order, moderate, list | reads orders | lost update of the summary, row locks |
| Rate limit `infrastructure/rate-limit`, `infrastructure/cache` | a Redis key or a memory entry for each client | increment with expiry | guards every route | INCR and EXPIRE are two commands |
| Accounts `auth/`, `src/src/common/auth` | user rows | Google sync, admin registration, approval, login, session guard; counter customer (in orders) | guards every route | check-then-write on the unique e-mail and phone |
| Cart `cart/` | cart and cart item rows | show, replace, clear | food | concurrent replaces |
| Invoices `invoices/` | invoice rows, stored PDF | ensure, render, persist | orders, storage | creation on demand by concurrent readers; a row and an object store written one after the other |
| Notifications `notifications/`, live events `live/` | notification rows; an rxjs subject | create, mark read; emit, subscribe | called by orders and otp | created after the commit, lost in a crash; told out of order |
| Catalog `food/`, `categories/`, `favorites/` | food, category, favorite rows | CRUD and queries by pages | reviews, orders, recommendations read them | pages of a list that ties or changes; the rest is single-row writes |
| Analytics `analytics/`, reports `reports/` | none | five dashboards; three reports as CSV or workbook | read orders, customers, foods | local days against UTC dates; two computations of the same figures; escaping and byte offsets |
| Recommendations `recommendations/` | none | rank the menu for a customer | reads orders, favourites, foods | a score every like changes everywhere |
| Storage `storage/` | objects under keys of the month | put, get | invoices, foods | written before the row that names the object |
| Admin, audit, logging, config, database | audit rows | thin wrappers over I/O | | none of their own |

What makes each of them correct:

* Orders: the kitchen works only on placed, paid orders; an order is placed once
  and its coupon counted once, whoever places it; a captured payment is recorded
  and acknowledged and never lost; rows agree with the provider.
* Pickup code: guesses are bounded; an order is completed by using its code, and what it
  ended as stands.
* Coupons: what is quoted is charged; limits hold as far as the code can make them.
* Reviews: the summary of a food is that of its visible reviews.
* Rate limit: allowances come a window apart, and a refused client gets in again.
* Accounts: whoever is handed out as a session user can work; a unique e-mail or phone
  fails a request only because of another one, or over an address the service makes up; a
  counter order leaves its customer's
  account the customer's.
* Cart: a cart is what its last replacement asked for, and duplicates add up.
* Invoices: one for each order; the stored document exists and is an order's.
* Notifications and events: one notification for each placing of an order; a follower of a
  stream knows what an order is once nobody is about to tell.
* Lists: a walk through the pages sees every row once, but for rows that tie or move.
* Dashboards and reports: no order of the window is lost, and two views of the same orders
  say the same.  Files: a reader gets back what was exported.
* Recommendations: a favourite is not recommended less for being one.

## 2. What is hard to test

`PROJECT.json` lists each hazard at its line.  They come in seven families.

1. *A row read before an await and used after it.*  `updateStatus` checks one
   status and overwrites another; a checkout waits for Razorpay and then writes
   PENDING_PAYMENT by id; a failed checkout cancels by id; a pickup code is verified
   against an order that moved on.
2. *The provider.*  A webhook is delivered again, or concurrently with the
   customer's own confirmation, or not at all; a failed attempt is reported after
   the capture that followed it; the process dies between the settlement and the
   acknowledgement.
3. *Read-then-write inside a READ COMMITTED transaction.*  The coupon usage row,
   the rating summary.
4. *Row locks taken in different orders.*
5. *Numbers.*  Rounding to whole rupees, percentages above 100, windows rounded to
   seconds, days of a server that is not at UTC or whose clock is changed.
6. *What follows a commit.*  Pickup code, notification and event come after it, each
   behind an await: they are lost in a crash, and overtaken by those of a later write.
   The document of an invoice is stored before the row that names it.
7. *Reads that are several queries.*  Pages of lists whose order is not total, and pages
   of lists that others change, or the pages themselves, which settle the orders they show
   and so shift those that are read next.

## 3. Modules

| Module | Models | Abstracted |
|---|---|---|
| `OrderStatus` | `OrderStatus` of the schema, `ADMIN_STATUS_TRANSITIONS` | |
| `Placement` | abstract: an order is placed once, paid, counted in the same step | |
| `Orders` | the requests of `orders.service.ts` that write orders, payments and coupon usages, await by await, with the provider and the customer | items; amounts, and their comparison with the captured one (:788); the rows of webhook events but their processed mark (:999-1033); notifications, the live stream |
| `OrdersClaims` | what checks and messages of the code say and concurrency breaks | |
| `MCOrders` | instances of `Orders` and `OrdersClaims` | |
| `OrdersProofs` | theorems about `Orders` | |
| `Settlement` | `Orders` under fairness, with a courier of captures: webhooks or readers | |
| `PlacementTx`, `PlacementTxProofs` | the three placing transactions, statement by statement, with row locks | the payment row |
| `PickupOtp`, `MCPickupOtp` | `otp.service.ts` and the order's moves under it | hashing (injective), the time scale; a refresh that would move the expiry on by more than `MaxOffset` does not return |
| `Pricing`, `Coupons`, `MCCoupons` | price arithmetic; coupon administration, quotes, checkout | items, codes, floating point |
| `Ratings`, `MCRatings`, `RatingsProofs` | `rateOrder`, `moderateReview`, `updateFoodRatingAggregate` | comments, who may rate |
| `Accounts`, `MCAccounts`, `AccountsProofs` | `auth.service.ts`, the guard, the counter customer of `orders.service.ts` | names, passwords (right or refused), suspension (no code suspends) |
| `Carts`, `MCCarts`, `CartsProofs` | `replaceForCustomer`, `clearForCustomer`, with row locks | notes, other customers' carts (independent) |
| `Queries` | what lists are made of: ORDER BY, sort, filter, skip and take | that PostgreSQL and `Array.sort` settle ties at all |
| `Listings` | the menu by pages in five sort orders | filters of the menu, what a row shows |
| `OrderPages` | the two order lists by pages that settle payments, while other requests create and change orders | searched text, dates and totals, what a row shows |
| `Recommendations` | scores, ranking, reasons; the tag list a food is created with | the wording of reasons |
| `RateLimit` | `RateLimitGuard`, `CacheService.increment` | other clients (keys are independent), headers |
| `LimitsProofs` | theorems about `PickupOtp`, `RateLimit` and `Coupons` | |
| `Feed` | notifications and live streams, with all requests that write a status or make a pickup code | payments (captured or not), wording |
| `Invoices` | `ensureInvoice`, `generatePdf`, `persistInvoicePdf`, the object store | the layout: a document is the status it shows |
| `Fulfilment`, `MCFulfilment` | `Invoices` and `Feed` over the same orders | |
| `FulfilmentProofs` | theorems about `Invoices`, alone and in `Fulfilment`, and about `Feed` | |
| `Dashboards` | `analytics.service.ts`; the three reports | names and addresses, the amount columns that are copied |
| `Exports` | CSV, XML, worksheet and archive of `reports.service.ts` | characters without a meaning, styles, checksums |
| `MCViews` | `Listings`, `OrderPages`, `Recommendations`, `Dashboards`, `Exports` and `RateLimit` in one run | |
| `ViewsProofs` | theorems about `Listings`, `OrderPages`, `Recommendations`, `Dashboards` and `Exports` | |

`Placement` is implemented by `Orders` and by `PlacementTx` (`LedgerSpec`, both checked
and proved).

### Orders

A request is a slot of `req` with a program counter, the order or provider order it
works on and the values it read; an action is what the code does from one await to
the next.  `req[r].pc` names the await a request will return from:

| pc | in the code |
|---|---|
| `createOnline`, `createUnpaid`, `createPaid` | `createPendingCheckoutOrder` of the three checkouts |
| `collect` | `markCounterOrderPlaced` |
| `revive`, `provider`, `attach`, `cancel` | reviving a cancelled attempt, `createProviderOrder`, the attaching update, the catch block |
| `find`, `commit` | the reads of `finalizePaidOrder`, its transaction |
| `failRead`, `failWrite` | `markPendingPaymentFailed` |
| `mark` | `markWebhookEventProcessed` |
| `update` | the transaction of `updateStatus` |
| `complete` | the last update of `verifyForOrderNumber` |

`status`, `placedAt`, `payment`, `processed`, `usages` and `usedCount` are columns.
`issued`, `captured` and `failed` are the provider's books, driven by
`CustomerPays` and `CustomerPaymentFails`; webhooks are delivered at any time, any
number of times, whatever `captured` and `failed` justify.  `vouched` is a history
variable: the orders the staff collected money for.  `Abort` ends a request at any
await, which covers a failing query, a time-out and the death of the process.

An order is named by its checkout attempt.  Attempts are unique in the schema, and
an order without an attempt is an order whose attempt nobody repeats.

### Atomicity

A transaction is one action of `Orders`.  `PlacementTx` checks that this is sound
for the three that place an order.  They read the usage row before they write it,
which READ COMMITTED does not make atomic; what does is that each updates the order's
row first and keeps its lock: a second transaction waits there, and the condition
on `status` in `finalizePaidOrder`'s `updateMany` is evaluated again once it has the
lock.  In `PlacementTx` a statement is an action, written rows are seen by others at
commit, and the result still implements `Placement`; if the update drops the
condition and the usage row is not looked up, it does not (the mutant
`UpdateOrderUnconditionally`, which drops both).
`updateStatus` and `markCounterOrderPlaced` place without a condition on the status,
and are saved by the usage row they find.

A check made by a query and a later write by id are two actions everywhere.

### PickupOtp

One order.  `clock` advances in ticks; a row holds the hash of the code derived
from `expiresAt`, which is all that is stored.  Requests read (`load`), upsert, read
again to verify, count a wrong guess, or complete the order; the staff move it
meanwhile.  `DeriveOtp` is a parameter: the instance lets codes repeat, so that the
refresh loop of `getDisplayOtpForOrder` has something to do.  Whether a code is right is
decided by the row that `ReadOtp` finds, and counted on the one it finds an await later.

History says what happened to the row and to the order.  `guesses` are the comparisons
with the code since it was stored, `lost` those requests that died before they counted
theirs.  `outcome` is what the order last ended as, `late` are the requests that had begun
before that, and `undone` says that one of these has since changed the status, or taken
the used code away, or marked one as used.

### Coupons and Pricing

Amounts are paise and coupon values hundredths, as the `Decimal(10, 2)` columns keep
them.  `Math.round` is `Quotient`, with halves upwards.  The noise of binary floating
point is not modelled.  `Checkout` reads the coupon and stores the order in one step:
the coupon is a single read, and an order priced but not stored yet behaves like an
unpaid one.  The quote of `validateCoupon` and the price of `prepareCheckoutOrder` are
two computations in the code and two operators here.

### Ratings

Transactions at READ COMMITTED again, with the locks of review and food rows.
`Written(t)` are the rows a transaction wrote and others do not see yet, `Seen(t)`
what its own aggregate sees.  `crowded` and `suspect` are history: which transactions
wrote a review of a food while another had one uncommitted, and whose summary is
therefore not promised to be exact.

### RateLimit

The key of one client and the memory entry of the one server.  Time left is counted
down rather than compared with a clock, so nothing is bounded but the window.  A
Redis command may fail before or after it took effect; either way the request falls
back to memory.  Counts stop at `MaxRequests + 1`, since the guard asks for no more.

### Accounts

`account` is the user table, with the columns decisions are made on; an id without a
row maps to `None`, and the super administrator's row is the seed's.  `req` is as in
`Orders`: a slot with a program counter (`sync`, `register`, `approve`, `login`,
`byEmail`, `counter`, `cart`), the input and the id it found.  `CounterEmail` gives the
address made up for a phone, which is an address like any other: neither the registration
of administrators nor the counter's form refuses one that looks so.  `given` is history:
those of them that somebody brought.  `Unique` is what the
unique columns allow at the moment of the write.  `signedIn` is history: the accounts
returned by `syncGoogleUser` and `loginAdmin`.  So are `stale` (the e-mail or phone of
some account changed since this request began) and `overtaken` (accounts that were
registered as administrators between the two statements of a Google sync of the same
e-mail).  The administrator's address is lowered before it is looked up, Google's is
not, so `Lowered` is a function on e-mails: two spellings are two accounts.

### Carts

One cart.  `rows` is committed; a transaction holds the rows it found (`targets`), those
it has deleted and those it has inserted, and others wait for it as PostgreSQL makes
them: a delete for the deleter of the same row, an insert for whoever inserted or
deleted the same food.  `beside` is history: what others committed since the delete
looked for its rows.  `Rollback` is any end before the commit, the victim of a deadlock
included.

### Settlement

`Orders` with a variable that never changes: in one world the provider delivers
webhooks and need not be helped, in the other somebody keeps reading the orders and no
webhook need come.  The fairness conditions name the world they belong to.

### Feed, Invoices, Fulfilment

`Feed` has one action for the commit of each request that writes a status and one for
each await after it: `code` (`generateForOrderNumber` is about to read the order), `announce`
and `emit` (the code's notification and events, with the status read for it), `notify` (row
and its event), `tell` (`emitOrderUpdated`).  `RefreshCode` is `generateForOrderNumber` by
itself, as the staff and the expired verification call it: it writes no status and tells
one.  A stream remembers what its follower knows of each order; a
follower reads the orders when the stream opens, since it replays nothing.  `owed`
counts placings less their notifications; `cutShort` and `disturbed` say of which
orders a request ended before it told, and which were written silently (online checkout
tells nobody) or while another request was still telling.  A time of reading is the request that took it.

`Invoices` splits a download at `find`, `order`, `create`, `upload`, `record`.  The key of
a document is its month, so a retry a month later has another key, and one in the same
month overwrites.  An upload may fail after the object is there.  `alone` is history: no
other request on the order overlapped this one.

`Fulfilment` runs both over one `status`: `MoveOrder` of `Invoices` is there whatever
`Feed` writes, and a restart ends the requests of both.

### Dashboards, Exports, Listings, Recommendations

Nothing here writes.  A behaviour stands for one
book of orders, one table, one menu or one history; the operators are the handlers, the
properties compare them with one another, with a reader of the format, or with the rows.

* `Dashboards`: times are hours, days have `HoursPerDay`.  A zone (`TimeZones`) says how
  far the server's clock is ahead of UTC, and since when; it is set forward and back at most
  once a day.  `LocalTime` and `UtcOf` are what `Date` does with it (external): a local time
  that occurs twice is the earlier one, one that is skipped is told as before the change.
  `StartOfDay` is `setHours(0, 0, 0, 0)` and `AddDays` `setDate`, which step local days of
  23 to 25 hours; the buckets are named by UTC dates (`DateKey`).  The food totals of the
  dashboard and of the report are two loops in the code and two operators here.
* `Exports`: a text is a sequence of characters of which only those with a meaning to a
  format count, and the names of XML's entities count as one.  `ReadCsv`, `ReadXml` and
  `ReadSheet` are readers written from the formats (external); the first two go through a
  text character by character.  A table has headers, and a cell for each in every row, as
  `toCsv` and `worksheetXml` are called.  Control characters and carriage returns in a workbook
  are left out: the code keeps them, and readers of XML refuse the former and change the
  latter.  So what is said of workbooks is not said of cells that hold one.
* `Queries`: `Arrangements` are the orders in which a query, or a sort, may return rows
  that their keys do not tell apart; where nothing depends on which, `Arranged` is one of
  them.
* `Listings`: each page is a query of its own and may return tied rows in another order.
* `Recommendations`: foods are numbered by the alphabet.

These views have no steps.  In each behaviour `MCViews` looks at one of them, with the tables
of the others empty, or walks through a list by `OrderPages`, or counts requests by
`RateLimit`, whose guard every route passes: there the views stand still.

### OrderPages

One reader, and everybody else.  `FindPage` is the transaction of the page and the count;
then each order on the page that waits for its payment is settled (`RecoverPayment`), read
again (`ReadAgain`), or left as it was read (`KeepAsRead`: the provider fails, knows of no
capture, or the payment id is refused), in any order; `ShowPage` filters by status, and by
status only, what has become of them; `FailPage` is a query that fails.  `CreateOrder` and
`ChangeOrder` are the other requests, between any two of these.  The filter is by status,
payment status and provider (`HasPayments`).  An order is named by the time it was created,
which its row takes before its commit, so it may turn up below later ones.  `steady` is
history, the orders that were listed all the while; so are `shown`, `repeats`, `departures`
and `arrivals`.  Two orders of one millisecond, and the highest page that may be asked for
(500), are left out.

## 4. Runs

All bounds are the model values in the cfg files; the other bounds are
`MaxTime`, `MaxOffset`, `MaxLost` (PickupOtp), `MaxReturns` (PlacementTx), `LastInstant`
(Coupons), `MaxStarts` (Feed: requests that write), `LastMonth` (Invoices), `MaxDays`
(Dashboards), `MaxChanges` (OrderPages: orders created or changed by others), and the sets of
menus, kitchens, histories, books, zones, tables, rows and filters in `MCViews`.

| Run | Shows | Instance, and why it is enough |
|---|---|---|
| `payment` | the safety of settlement; `LedgerSpec` | 2 requests, 1 order, 2 provider orders, 2 payment ids: two checkouts of one attempt, a failed attempt and its retry, all pairs of handlers. Orders interact only through the coupon's counter (`placing`, and the theorems for any number) |
| `settlement` | a capture is recorded and acknowledged; a paid order leaves PENDING_PAYMENT without webhooks | 1 order and provider order, 2 payment ids, 2 requests: webhooks or reads compete with every other request, and `Abort` |
| `placing` | placing is atomic; no deadlock | 3 transactions on 2 orders, both with the coupon; an order is put back once |
| `pickup` | how often a code is guessed; that ends stand | 3 requests: show, verify and move at once, of which one may be late for the end of another; 2 attempts; codes that repeat; 1 guess that is never counted |
| `coupons` | prices, quotes, limits and dates | 2 orders, so that one is placed after the limit 1 was reached; subtotals and values that round up past the subtotal, cap a fixed amount, and exceed 100 per cent |
| `ratings` | summaries and deadlocks | 2 transactions, 2 customers, 2 foods: all pairs of overlapping writers. One star value: what goes wrong is a missing row, which the count shows |
| `accounts` | conflicts, session users, and whose an account is | 2 requests, 3 accounts (one the owner's), 2 phones, 4 e-mails: the owner's in two spellings, and the two that are made up for the phones: every pair of handlers, with and without a common e-mail or phone, and a third account to be confused with |
| `carts` | merging, and concurrent replacements | 2 requests, 2 foods, 2 lines, quantities up to 2: duplicates below and at the cap, disjoint and common items |
| `fulfilment` | who hears of an order; stored documents | 2 requests, of either kind, 1 order, 1 stream of each kind, 3 starts: a write overlaps a write or a refreshed code, a settlement a settlement, a reader a reader, a download a download, in one month or across its end |
| `views` | the menu and a list of orders by pages, recommendations, dashboards, reports, files; the rate limit | Menus of 3 and 4 foods with pages of 1 to 3: ties within a page and across its end. 3 orders, pages of 1 and 2, 1 change by another request: a page settles two, an order comes or goes before the place reached or behind it, without a filter, with one by a status that settling changes, and with one by a payment status that it changes. Kitchens of 3 foods that share categories and tags. Books of up to 2 orders over 3 days of 3 hours, servers up to 2 hours on either side of UTC or with a clock set back, forward, or both. Tables of up to 3 columns and rows over every special character. 3 requests, limit 2, window 3: one creates the key, one fills it, one is refused |
| `blocked_retry`, `stale_move` | findings, below | smallest that shows them |

`Invoices` is checked with the store configured: without it `Rendered` ends the request
and no document is stored (`FulfilmentProofs` covers both).

Symmetry (permutations of requests, provider orders, payment ids, users, accounts,
phones, foods, orders) is used in safety runs only, on values that are only compared.
`pickup` sets `CHECK_DEADLOCK FALSE` because the order is completed or cancelled and
the clock at its bound in the end; every other run checks deadlock.

### Properties worth a remark

* `DuplicatePaymentsNeedOverlap`: an attempt may get two payments, but only from
  requests that were under way together.
* `AcknowledgedCapturesAreRecorded` and `CapturedRowsMatchProvider` except nothing but a
  reported failure: a report read before a capture and written after it turns the row
  FAILED.
* `PaidOrdersStopWaiting` holds because of reads.  Under redelivered webhooks alone it
  does not: a checkout that revived or attached from a stale read can put a placed
  order back to PENDING_PAYMENT after its webhook was acknowledged, and only
  `recoverPendingPaymentIfCaptured` repairs that.
* `ReachedLimitsHold`: a limit is overrun by orders priced before it was reached and by
  no others.
* `SummariesAreExactUnlessCrowded`: two overlapping writers of a food may leave a summary
  that lacks one of them, until the next writer that is alone.
* `DeadlocksNeedCrossedOrders`: sorting the item list in `rateOrder` would rule the
  deadlocks out; moderation cannot cause one.
* `RefusalsEnd` excepts an orphaned key, which exists: `INCR` without `EXPIRE`.
* `ConflictsNeedOverlap`: a request that nobody overlapped never meets a unique column.
  The exception is the
  e-mail made up for a new customer's phone, which nobody looks up (`orders.service.ts:556`): if
  somebody brought it before, the counter order fails although it was alone.
* `SignedInAccountsWork` excepts an account whose owner asked for administrator's access
  between the two statements of a Google sync.  The sync then returns the session of a
  pending administrator, which the guard refuses until the approval.
* `AccountsKeepAKey`: a counter order may change the e-mail of the account with its phone,
  or the phone of the account with its e-mail, and overlapping ones may do both.
* `ReplacementsLeaveTheirItems`: two overlapping replacements may leave the union of
  their items, or fail on a common one; one that nobody overlaps leaves exactly its own.
* `ShownFeesAreCharged`: the pickup fee is derived from the
  stored amounts, so a discount beyond the subtotal is shown as a fee.

* `StreamsKeepUp`: the events of two overlapping writes may be told in the other order,
  and stay so; so may that of a pickup code, whose status was read before the write of
  another request; online checkout writes the status and tells nobody.  Everything else a
  follower learns.
* `PlacedOrdersAreNotifiedOnce`: repeated settlements do not notify again, and so do not
  make up for a notification that was lost in a crash.
* `ReadTimesNeedOverlap`: `markRead` of a notification found unread overwrites the time of
  a reader who came between.
* `StoredDocumentsExist` holds because the row is written last.  `LoneReadersSettleInvoices`
  is what is left of "one document for ever": overlapping downloads may replace a
  recorded one, and overlapping first readers may be refused by the unique order id.
* `TrendsLoseOnlyUnnamedDates`: at UTC the trend loses no order of its window.  Elsewhere it
  loses the hours of the last day that follow the UTC midnight in it: two on a server two
  hours west of UTC, twenty-two on one two hours east.  And where the clock is set back, two
  local days may begin two UTC dates apart, and the orders of the date between are lost in
  mid-window: in London those of 27 October 2024.  `ReportsAgreeWithDashboards` compares two
  computations of the same figures.
* `WalksMissAtMostDepartures` and `RepeatsNeedArrivals`: a walk through the PENDING_PAYMENT
  list misses as many orders as left it meanwhile, those that its own pages settled included;
  without a filter no order leaves the list, and none is missed.  An order that is created
  between two pages has one shown twice.
* `FoodsAreOnOnePageUnlessTied`: the sort orders by rating and popularity end with the name,
  which is not unique; those by time and price do not even have it.
* `FavouritesNeverSink`: scores of all foods of a category or tag go up with a favourite;
  it must not be overtaken by them.

Type invariants are proved (`TypeCorrect`) rather than run; only `ratings` runs its own as
well.

### Fairness

* `RequestFairness`: a started request goes on (Node runs continuations; queries and
  calls end or fail).
* `Redelivery`: Razorpay redelivers a webhook until it gets a 2xx, so `WebhookCaptured`
  is strongly fair, and not every delivery is cut short at the same place
  (`SettlementFairness`).
* `Reading`: no webhook ever; somebody keeps opening the order (the customer's order
  page, the admin's list), and not every read is cut short (`SettlementFairness`).
* `PlacementTx!FairSpec`: PostgreSQL queues lock waiters, so a transaction is not overtaken
  for ever.
* `RateFairness` of `RateLimit`: time passes, and a command is sent or fails.  `MCViews`
  asks it where requests are counted.

### Findings

Each run checks what a message of the code says and finds a trace that breaks it.

* `blocked_retry` (`orders.service.ts:917`): a failed attempt's payment id stays in the
  row; the successful retry of the same provider order is then refused as captured
  "with a different payment id", and a paid order cannot be settled.
* `stale_move` (`orders.service.ts:1646`, `otp.service.ts:224`): statuses are written by
  id after a check on an older read, so moves occur that the table lacks.

Two more disagreements show in the properties of passing runs: a slow provider call
makes its order PENDING_PAYMENT whatever it has become (`orders.service.ts:684`; see
`PaidOrdersStopWaiting`), and a coupon's limit is overrun (`coupons.service.ts:147`; see
`ReachedLimitsHold`).

## 5. Proofs

Checked by `tlapm` for every value of the constants that satisfies the modules'
assumptions, which say no more than that null values are not ids, rows or numbers, that
coupon orders are orders, that bounds are numbers, that different phones have different
e-mails made up for them, that a clock is changed at most once a day and set forward by at
most a day, that the tables of users and foods are finite where ratings are added up, that
an order is first stored with a status, and of the views that the tables they read are
finite and have the columns' types, that a page has room for a row, and that no order is
created or placed after the look at it.  `Requests` need not be finite in
`OrdersProofs` and `AccountsProofs`; nor need the number of provider orders or payment ids.

* `OrdersProofs!Invariance`: `Spec => []OrdersInv`.  The safety properties are not
  inductive: a request carries values it read into rows that have changed, so the
  invariant says what each step may still rely on (`RequestsInv`): a request about
  to commit holds the captured payment id; one about to write a failure holds a
  failed one; a status update from a kitchen status is of an order that was placed.
  `AttachInv` says that no two requests hold the same new provider order, `PaymentsInv`
  relates each payment row to the provider's books (what is processed is no longer
  CREATED), `PlacementInv` relates status, `placedAt`, the usage rows and the counter.
  Each action has a lemma; `Start` and the requests that change no row share
  `BeginInv`, `ReturnInv` and `GotoInv`, and `OthersKeepInv` shows that what is
  monotone (issued orders, captures, failures, placements) keeps what others rely on.
  From it: `TypeCorrect`, `KitchenSafety`, `CaptureSafety`, `RedemptionSafety`,
  `AcknowledgementSafety`, `SettlementSafety`.
* `OrdersProofs!LedgerRefinement` is the refinement `Spec => Ledger!Spec`: initial states map to initial
  states; capturing maps to `Pay`, the three placing steps to `Place` or a stutter,
  every other step to a stutter.  `OverlapSafety` (which assumes that there are finitely many
  requests) has an invariant of its own: what an order has in payments, together with the
  requests on their way to the provider for it, never exceeds the requests there are.  No
  request sets out for an order with a payment, neither by `StartCheckout` nor by
  `CreateOrder`, because an order with a payment has a row (`OrderRowsStay`); attaching
  a payment takes one request off the way.
* `LimitsProofs`, of pickup codes: `PickupInv` bounds attempts together with the requests that have
  passed the check and not counted yet (`AttemptsInv`), since attempts alone are not
  inductive.  `GuessesInv` says of each guess that it was counted, is about to be, or
  died: hence `GuessSafety`, for a guess that is counted on the code that replaced its own
  still counts there.  For `PickupSafety`, `EndsInv` adds that while an end stands every
  request is older than it, because none begins on an order that is not ready or has no
  move left.
* `LimitsProofs`, of coupons: `CouponsInv` says that every order's amounts are those `Pricing`
  computes and every quote is what the coupon's row gives now.  From it the fees
  shown are those charged (`FeeSafety`), and quotes hold (`QuoteSafety`).  `RangeSafety` is
  about the dates.  `LimitSafety` counts: a placing adds one to the counter and takes one
  from the orders that may still be placed, and a checkout with an exhausted coupon is
  refused.  It assumes that the table of orders is finite.
* `PlacementTxProofs`: `TxInv` says what the lock of the order's row buys.  From its first
  statement to its end a transaction holds that lock (`LocksInv`); so the usage it looked
  for is still there, or still missing, when it commits (`CountsInv`), and the orders placed
  with the coupon are those with a usage row (`UsagesInv`).  Hence `LedgerRefinement`: a
  commit maps to `Pay`, `Place` or a stutter, a capture to `Pay`, and every other statement
  to a stutter.  The coupon's lock is not needed for this; it matters to the liveness.
* `LimitsProofs`, of the rate limit: `WindowInv` says that a counter with an expiry is kept until its window
  is over, and that a store without a counter began its last one a window ago.
  `WritesWell` is what every step does to either store; `AllowanceSafety` follows.
* `FulfilmentProofs`: `InvoicesInv` consists of `RowInv` (a row that exists is of an order, a URL
  names a stored document), `JobInv` (what a request found when it goes on: a document
  that is about to be recorded is stored) and `AloneInv` (a request that is alone still
  sees what it read).  Objects are overwritten and never removed, which is why `JobInv` is
  stable under other requests.  `FeedInv` is about who was told what.  `StreamsKeepUp` is not
  inductive, since a status is told after it was written: `FollowInv` adds that, unless the
  order is disturbed, whoever is about to tell of it tells the status it has now.  `OwedInv`
  counts the notifications yet to be stored against the requests that will store them, and
  `RequestInv` says what a request goes on with.  A step is about one order (`OnlyAbout`),
  and `OtherOrders` shows once that the others keep what `FeedInv` says of them; a restart ends
  every request and stream, and what was owed is cut short.  The two invariants are proved
  together for `FulfilmentSpec`, where either component moves the orders of the other:
  `FulfilmentInvariance`, hence `FeedTypeCorrect`, `StreamsSafety`, `NotificationSafety`, the
  action property `ReadTimes`, and the documents' properties again.
* `RatingsProofs`: `RatingsInv` consists of `TxInv` (what a transaction has found and goes on
  with), `LockInv` (it holds the locks of what it has written, and no others), `CrowdInv` (two
  that have written reviews of a food are known to overlap on it) and `CountInv` (what a
  transaction has counted is still what it sees, unless it overlaps another), besides
  `SummariesAreExactUnlessCrowded`, which a commit keeps by `CountInv`: `SummarySafety`.
  `DeadlockSafety` is an argument about a whole cycle: if everybody's items are sorted by one
  rank, whom a transaction waits for is further on than itself (`WaitsForOneFurtherOn`), and
  so the one that is furthest on (`GreatestNumber`) waits for nobody.  A summary adds up
  the ratings of all users, by a recursive function on sets.  Induction comes as a least
  counterexample: `WFMin` of the library takes the set of counterexamples, not an
  operator (`LeastNumber`, `SumsExist`, `SumsAreNumbers`).
* `CartsProofs`: `CartsInv` relates what everybody sees to what each request is about to
  do: once it has looked, the rows that are there are those it found (later: deleted) and those
  that others have put beside them since, and these are not the same (`RowsInv`); it has
  inserted only where no row is, or where it deleted one (`ProgressInv`); no two have deleted,
  or inserted, the same row (`ApartInv`).  The last is what the row locks give, and what a
  commit of one needs to keep the first for the others.  `ReplacementSafety` follows.
  `ItemSafety` is about lists of lines of any length: folding a sequence is a
  recursive function of its places (`FoldsExist`), so that `MergeDuplicateItems` and the sums
  it is compared with each have a value for every prefix (`RoundsExist`, `SumsExist`), and the
  comparison goes from prefix to prefix (`MergeLineFoods`, `MergeLineQuantities`), again by a
  least counterexample.
* `AccountsProofs`: `RowsInv` says that the unique columns are unique and that the e-mail
  made up for a phone belongs to the account with that phone, unless somebody brought it.
  `RequestInv` says what a request relies on: always, that the account it found is there,
  keeps its role and approval, and has a made-up e-mail that nobody brought only for the
  phone of the request; while it is fresh, that nobody else has its e-mail or its phone.  `Write` shows once that a write
  of a row keeps all this for every other request, or makes it stale; `Quiet` that
  other steps do.  The four properties of the run follow: `TypeCorrect`,
  `SessionSafety`, `ConflictSafety`, and the action property `KeySafety`.

* `ViewsProofs`: but for the order lists nothing is written, so each property is one of the
  initial states, and the proofs are about what queries return.
  - Sums and folds of the community modules are recursive functions on the parts of a
    finite set, or on the prefixes of a list.  That they exist (`SumsExist`, `FoldsExist`)
    and what is true of them (`SumSolves`, `SumWith`, `SumOfUnion`, `SumByKeys`) goes by
    `SetInduction`, which takes the set of what a claim holds of in place of the claim;
    so does `OrderedListsExist`: rows of a finite set can be arranged by any strict order,
    which is what makes `Arrangements` more than an empty set.
  - `PageSafety`: a list holds the same foods before and after a place in every
    arrangement, but for those that tie across it; so a food is on one page, or on
    several that a tie ends on (`PagesOverlap`, `FoodsOnPages`).  `PricesAscend` reads the
    first key.
  - `WalkSafety` and `RepeatSafety` have an inductive invariant (`PagesInv`): the orders within
    the first places, as many as the pages so far have, that were listed all the while and not
    shown are no more than those that left; and those shown that are listed beyond these
    places, with the repeats so far, no more than those that came.  One order that leaves or
    comes moves one order across the last of these places.  While a page is read, the same
    holds as if it were shown already (`UpcomingInv`).
  - `RecommendationSafety`: a favourite adds at least as much to its own score as to that
    of any other food (`FavouriteGainsMost`).  This rests on tags that are not repeated
    (`TagsAreApart`, which `NormalizeList` establishes): a food shares with another at most
    the tags it has itself (`SharedCounts`).  What is ahead of the food afterwards was so
    before, so its place is no later (`RowPlaced`).
  - `TrendSafety`: buckets are UTC days, the window is local days, and their difference is
    what is lost.  A local beginning told by the clock is that of its hour again
    (`ClockKept`), so the first day begins with the window (`FirstDayBegins`).  Of an order whose
    date has no bucket, take the last day begun by then: it is the last of all, or the next
    one begins with the whole of the order's date between the two (`LostAre`).  A clock that is
    never changed has days of one length (`FixedClock`, `FixedLost`).  Sums over the buckets are the sum over the union of what is in
    them (`SumByKeys`).
  - `ReportSafety`: the loop's latest order is the maximum (`GreatestIsMax`), the dashboard
    lists each customer with orders once (`InsightsListed`), and a window as long as the
    age of the book holds all of it (`WindowHoldsAll`).
  - `FileSafety`: a reader is a fold over characters, so what it makes of a text is what
    it makes of a part and then, from there, of the rest (`RunsFollow`, `CsvConcat`,
    `XmlConcat`).  For CSV a cell, a row, and the rows up to any one are read back, and the
    reader is open or just behind a quote whenever a comma or a newline comes
    (`CellReadsBack`, `RowReadsBack`, `TableReadsBack`).  For XML the five replacements are
    shown to turn each character into itself or its entity, because `&` is first
    (`EscapedByStages`, `EntityIsRead`, `XmlReadsBack`).  Column names are read back by induction
    on the column (`ColumnReadsBack`), so no two cells share a place (`SheetOpens`).  In the
    archive, offsets and places of parts are sums of the same spans, compared file by file
    (`ArchiveLies`, `ArchiveIsOpened`).  It rests on `ExportsAssumption`: two letters at least,
    and full rows.

Only model-checked: liveness under fairness and everything that rests on ENABLED
(`TransactionsEnd` and the freedom from deadlock of every run among others), which is out of
these provers' reach.

## 6. Not modelled

* Signatures, secrets and passwords; the mock mode of payments; HTTP, validation pipes,
  serialization.
* Of the catalog: updates of foods and categories, slugs, filters of the menu; of
  favourites the lists: writes of single rows and queries without a state of their own.
  Neither the menu nor the recommendations look at whether a category is active.
* The view of a single order: timeline, labels, contact details.
* PDF layout, workbook styles, checksums of the archive; uploads of images (under fresh
  names) and the checks of object paths.
* Heartbeats of the streams, which carry nothing.
* Audit rows, logging, configuration, the database client, the seed: I/O.
* `get`, `set` and `delete` of the cache, which nobody calls.
* Refunds: no code refunds a payment, not even that of a cancelled order.

## 7. Plan

Order in which the project grew.

1. `OrderStatus`, `Placement`, `Orders`: settlement, the heart of the system.
2. `OrdersProofs`: the invariant, then the refinement.
3. `PlacementTx`: the justification of the atomic transactions.
4. `PickupOtp` and its proofs.
5. `Pricing`, `Coupons` and their proofs.
6. `Ratings`, `RateLimit`.
7. `Accounts`, `Carts`.
8. `Feed`: notifications and live events, composed with the writes they follow.
9. `Invoices`, `Fulfilment`; `Listings` for the catalog, `OrderPages` for the order lists.
10. `Recommendations`, `Dashboards`, `Exports`: the computations, against one another and
    against readers of the formats.
11. Proofs: `Invoices`, `PlacementTxProofs`, the rate limit and the limits of coupons in
    `LimitsProofs`, `OverlapSafety`; then `FulfilmentProofs`, `RatingsProofs` and
    `CartsProofs`; then `ViewsProofs`, the files of `Exports` last.

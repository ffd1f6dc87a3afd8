-------------------------------- MODULE Orders --------------------------------
(***************************************************************************)
(* The order service: checkout, payment settlement, the payment webhook,   *)
(* the admin's status updates and pickup completion, over one database.    *)
(*                                                                         *)
(* The service is stateless: everything it knows is in the order, payment, *)
(* webhook-event and coupon rows.  An HTTP request is a chain of awaits,   *)
(* and other requests run between two of them, so a request is a slot in   *)
(* Requests with a program counter and the values it read, and each        *)
(* action below is what happens between one await and the next.  A         *)
(* database transaction is one action when the locks it takes make it so   *)
(* (README, "Atomicity").  A slot is reused when its request has ended.    *)
(*                                                                         *)
(* An order is named by its checkout attempt, which the schema keeps       *)
(* unique, so `status[o] = NoOrder' means that no row exists for it.       *)
(***************************************************************************)
EXTENDS OrderStatus, Naturals, FiniteSets

CONSTANTS
    Requests,        \* slots for requests in progress
    Orders,          \* checkout attempts, hence orders
    CouponOrders,    \* the orders placed with the (one) coupon
    UsageLimit,      \* the coupon's usageLimit
    ProviderOrders,  \* order ids the payment provider may issue
    PaymentIds,      \* payment attempts a customer may make on one of them
    NoOrder,         \* status of an order without a row
    None             \* a null column or an unused argument

ASSUME OrdersAssumption ==
    /\ CouponOrders \subseteq Orders
    /\ UsageLimit \in Nat
    /\ NoOrder \notin OrderStatuses
    /\ None \notin Orders
    /\ None \notin PaymentIds
    /\ None \notin ProviderOrders

VARIABLES
    status,     \* order rows: their status
    placedAt,   \* orders whose placedAt is set
    payment,    \* payment rows, by the provider order they were created with
    processed,  \* webhook events whose processedAt is set
    usages,     \* orders with a couponUsage row
    usedCount,  \* the coupon's counter
    req,        \* the requests in progress
    issued,     \* the provider: order ids it has handed out
    captured,   \* the provider: the payment it captured on an order, or None
    failed,     \* the provider: the <<order, payment>> attempts that failed
    vouched     \* history: orders whose payment the staff collected

rows == <<status, placedAt, payment, processed, usages, usedCount>>
provider == <<issued, captured, failed>>
vars == <<rows, req, provider, vouched>>

PaymentStatuses == {"NONE", "CREATED", "CAPTURED", "FAILED"}

\* The value of payment[po] while no payment row carries po.
NoPayment == [order |-> None, status |-> "NONE", pid |-> None]

PaymentRows ==
    [order : Orders \cup {None}, status : PaymentStatuses,
     pid : PaymentIds \cup {None}]

\* Where a request stands: the await it will return from next.
Steps ==
    {"idle", "createOnline", "createUnpaid", "createPaid", "collect",
     "revive", "provider", "attach", "cancel", "find", "commit",
     "failRead", "failWrite", "mark", "update", "complete"}

RequestStates ==
    [pc : Steps,
     o : Orders \cup {None},              \* the order it works on
     po : ProviderOrders \cup {None},     \* the provider order it works on
     pid : PaymentIds \cup {None},        \* the payment it was told of
     from : OrderStatuses \cup {NoOrder}, \* the status it read
     to : OrderStatuses \cup {NoOrder},   \* the status it was asked for
     webhook : BOOLEAN]                   \* it delivers a webhook event

Request(step, o, po, pid, from, to, webhook) ==
    [pc |-> step, o |-> o, po |-> po, pid |-> pid, from |-> from, to |-> to,
     webhook |-> webhook]

Idle == Request("idle", None, None, None, NoOrder, NoOrder, FALSE)

Init ==
    /\ status = [o \in Orders |-> NoOrder]
    /\ placedAt = {}
    /\ payment = [po \in ProviderOrders |-> NoPayment]
    /\ processed = {}
    /\ usages = {}
    /\ usedCount = 0
    /\ req = [r \in Requests |-> Idle]
    /\ issued = {}
    /\ captured = [po \in ProviderOrders |-> None]
    /\ failed = {}
    /\ vouched = {}

-------------------------------------------------------------------------------
(* Requests *)

At(r, step) == req[r].pc = step

\* The request has returned, or failed with an error to its caller.
Return(r) == req' = [req EXCEPT ![r] = Idle]

Goto(r, step) == req' = [req EXCEPT ![r].pc = step]

Begin(r, step, o) ==
    /\ At(r, "idle")
    /\ req' = [req EXCEPT ![r] =
                    Request(step, o, None, None, NoOrder, NoOrder, FALSE)]

-------------------------------------------------------------------------------
(* Rows *)

PaymentsOf(o) == {po \in ProviderOrders : payment[po].order = o}

SetStatus(o, s) == status' = [status EXCEPT ![o] = s]

\* findActiveCoupon, called by prepareCheckoutOrder: only a check.
CouponAvailable(o) == o \in CouponOrders => usedCount < UsageLimit

\* Variant: counts every placement, without looking for the usage row.
RedeemUnchecked(o) ==
    IF o \in CouponOrders
    THEN usages' = usages \cup {o} /\ usedCount' = usedCount + 1
    ELSE UNCHANGED <<usages, usedCount>>

\* The coupon part of the three transactions that place an order.
Redeem(o) ==
    IF o \in CouponOrders \ usages
    THEN /\ usages' = usages \cup {o}
         /\ usedCount' = usedCount + 1
    ELSE UNCHANGED <<usages, usedCount>>

\* What the three placing transactions do to the order and coupon rows.
PlaceOrder(o) ==
    /\ SetStatus(o, "PLACED")
    /\ placedAt' = placedAt \cup {o}
    /\ Redeem(o)

-------------------------------------------------------------------------------
(* Checkout *)

\* Variant: forgets to look for an existing payment.
StartCheckoutAgain(r, o) ==
    /\ CASE status[o] = "PENDING_PAYMENT" -> Begin(r, "provider", o)
         [] status[o] = "CANCELLED" -> Begin(r, "revive", o)
         [] OTHER -> CouponAvailable(o) /\ Begin(r, "createOnline", o)
    /\ UNCHANGED <<rows, provider, vouched>>

\* startCheckoutOrder up to its first write: a known attempt whose order has
\* a payment is answered at once (no step here), a pending one goes on to the
\* provider, a cancelled one is revived, anything else is priced and created.
StartCheckout(r, o) ==
    /\ PaymentsOf(o) = {}
    /\ CASE status[o] = "PENDING_PAYMENT" -> Begin(r, "provider", o)
         [] status[o] = "CANCELLED" -> Begin(r, "revive", o)
         [] OTHER -> CouponAvailable(o) /\ Begin(r, "createOnline", o)
    /\ UNCHANGED <<rows, provider, vouched>>

\* createCashCheckoutOrder: a known attempt is answered at once.
StartCashCheckout(r, o) ==
    /\ status[o] = NoOrder
    /\ CouponAvailable(o)
    /\ Begin(r, "createUnpaid", o)
    /\ UNCHANGED <<rows, provider, vouched>>

\* createAdminCounterOrder, with paymentCollected or without; it does not
\* look the attempt up.
StartCounterOrder(r, o) ==
    /\ CouponAvailable(o)
    /\ \E step \in {"createPaid", "createUnpaid"} : Begin(r, step, o)
    /\ UNCHANGED <<rows, provider, vouched>>

\* createPendingCheckoutOrder: six attempts at a unique order number, which
\* do not help against a checkout attempt that is taken.
CreateOrder(r) ==
    LET o == req[r].o IN
    /\ req[r].pc \in {"createOnline", "createUnpaid", "createPaid"}
    /\ IF status[o] # NoOrder
       THEN Return(r) /\ UNCHANGED status
       ELSE /\ SetStatus(o, "PENDING_PAYMENT")
            /\ CASE At(r, "createOnline") -> Goto(r, "provider")
                 [] At(r, "createPaid") -> Goto(r, "collect")
                 [] OTHER -> Return(r)
    /\ UNCHANGED <<placedAt, payment, processed, usages, usedCount, provider,
                   vouched>>

\* A retry of a cancelled attempt: pending again, whatever the order has
\* become since it was read; a payment attached meanwhile ends the checkout.
RevivePending(r) ==
    LET o == req[r].o IN
    /\ At(r, "revive")
    /\ SetStatus(o, "PENDING_PAYMENT")
    /\ IF PaymentsOf(o) = {} THEN Goto(r, "provider") ELSE Return(r)
    /\ UNCHANGED <<placedAt, payment, processed, usages, usedCount, provider,
                   vouched>>

\* createProviderOrder answered.
CallProvider(r) ==
    /\ At(r, "provider")
    /\ \E po \in ProviderOrders \ issued :
        /\ issued' = issued \cup {po}
        /\ req' = [req EXCEPT ![r] =
                        Request("attach", @.o, po, None, NoOrder, NoOrder, FALSE)]
    /\ UNCHANGED <<rows, captured, failed, vouched>>

\* The update that attaches the payment row to the order.
AttachPayment(r) ==
    LET o == req[r].o IN
    /\ At(r, "attach")
    /\ SetStatus(o, "PENDING_PAYMENT")
    /\ payment' = [payment EXCEPT ![req[r].po] =
                        [order |-> o, status |-> "CREATED", pid |-> None]]
    /\ Return(r)
    /\ UNCHANGED <<placedAt, processed, usages, usedCount, provider, vouched>>

\* The provider or that update failed: the catch block runs.
CheckoutFails(r) ==
    /\ req[r].pc \in {"provider", "attach"}
    /\ Goto(r, "cancel")
    /\ UNCHANGED <<rows, provider, vouched>>

\* The catch block cancels the order, whatever it has become.
CancelFailedCheckout(r) ==
    /\ At(r, "cancel")
    /\ SetStatus(req[r].o, "CANCELLED")
    /\ Return(r)
    /\ UNCHANGED <<placedAt, payment, processed, usages, usedCount, provider,
                   vouched>>

\* markCounterOrderPlaced: the money is in the till.
CollectAtCounter(r) ==
    LET o == req[r].o IN
    /\ At(r, "collect")
    /\ PlaceOrder(o)
    /\ vouched' = vouched \cup {o}
    /\ Return(r)
    /\ UNCHANGED <<payment, processed, provider>>

-------------------------------------------------------------------------------
(* The payment provider *)

\* A provider order is known to the customer once its payment row exists.
CustomerPays(po, pid) ==
    /\ payment[po] # NoPayment
    /\ captured[po] = None
    /\ <<po, pid>> \notin failed
    /\ captured' = [captured EXCEPT ![po] = pid]
    /\ UNCHANGED <<rows, req, issued, failed, vouched>>

CustomerPaymentFails(po, pid) ==
    /\ payment[po] # NoPayment
    /\ captured[po] = None
    /\ <<po, pid>> \notin failed
    /\ failed' = failed \cup {<<po, pid>>}
    /\ UNCHANGED <<rows, req, issued, captured, vouched>>

-------------------------------------------------------------------------------
(* Settlement *)

BeginSettlement(r, step, po, pid, webhook) ==
    /\ At(r, "idle")
    /\ req' = [req EXCEPT ![r] =
                    Request(step, None, po, pid, NoOrder, NoOrder, webhook)]

\* findCapturedPaymentForOrder: what the provider shows of po, None as long as
\* the polling for a captured payment finds nothing and fails.
FindCapturedPayment(po) == captured[po]

\* confirmCheckoutPayment and recoverCheckoutOrder: both ask the provider for
\* the captured payment of the order before they finalize.
ConfirmPayment(r, po) ==
    /\ FindCapturedPayment(po) # None
    /\ BeginSettlement(r, "find", po, FindCapturedPayment(po), FALSE)
    /\ UNCHANGED <<rows, provider, vouched>>

\* Variant: takes any payment of the order for a captured one.
RecoverUncaptured(r, o) ==
    /\ status[o] = "PENDING_PAYMENT"
    /\ \E po \in PaymentsOf(o) :
        BeginSettlement(r, "find", po, captured[po], FALSE)
    /\ UNCHANGED <<rows, provider, vouched>>

\* recoverPendingPaymentIfCaptured, on every read of a pending order; the
\* provider orders it tries one after the other are its payments'.
RecoverOnRead(r, o) ==
    /\ status[o] = "PENDING_PAYMENT"
    /\ \E po \in PaymentsOf(o) :
        /\ FindCapturedPayment(po) # None
        /\ BeginSettlement(r, "find", po, FindCapturedPayment(po), FALSE)
    /\ UNCHANGED <<rows, provider, vouched>>

\* Variant: acknowledges the event and leaves the settlement for later.
WebhookAcknowledgedFirst(r, po) ==
    /\ captured[po] # None
    /\ <<po, captured[po]>> \notin processed
    /\ BeginSettlement(r, "mark", po, captured[po], TRUE)
    /\ UNCHANGED <<rows, provider, vouched>>

\* processRazorpayWebhook, payment.captured or order.paid: delivered any
\* number of times and at any time after the capture.
WebhookCaptured(r, po) ==
    /\ captured[po] # None
    /\ <<po, captured[po]>> \notin processed
    /\ BeginSettlement(r, "find", po, captured[po], TRUE)
    /\ UNCHANGED <<rows, provider, vouched>>

\* Variant: treats every other payment event (an authorization) as a failure.
WebhookOther(r, po, pid) ==
    /\ payment[po] # NoPayment
    /\ <<po, pid>> \notin processed
    /\ BeginSettlement(r, "failRead", po, pid, TRUE)
    /\ UNCHANGED <<rows, provider, vouched>>

\* processRazorpayWebhook, payment.failed.
WebhookFailed(r, po, pid) ==
    /\ <<po, pid>> \in failed
    /\ <<po, pid>> \notin processed
    /\ BeginSettlement(r, "failRead", po, pid, TRUE)
    /\ UNCHANGED <<rows, provider, vouched>>

\* The row carries another payment id than the one being settled.
PaymentConflict(po, pid) == payment[po].pid \notin {None, pid}

\* Variant: settles only pending orders.
FindPendingPayment(r) ==
    /\ At(r, "find")
    /\ IF \/ PaymentConflict(req[r].po, req[r].pid)
          \/ status[payment[req[r].po].order] # "PENDING_PAYMENT"
       THEN Return(r)
       ELSE Goto(r, "commit")
    /\ UNCHANGED <<rows, provider, vouched>>

\* Variant: takes a payment that is captured already for settled.
FindUncapturedPayment(r) ==
    /\ At(r, "find")
    /\ IF \/ PaymentConflict(req[r].po, req[r].pid)
          \/ payment[req[r].po].status = "CAPTURED"
       THEN Return(r)
       ELSE Goto(r, "commit")
    /\ UNCHANGED <<rows, provider, vouched>>

\* finalizePaidOrder up to the read inside its transaction.  The read before
\* the transaction makes the same check on the same row, so this one decides.
FindPayment(r) ==
    /\ At(r, "find")
    /\ IF PaymentConflict(req[r].po, req[r].pid) THEN Return(r)
                                                 ELSE Goto(r, "commit")
    /\ UNCHANGED <<rows, provider, vouched>>

\* The writes of finalizePaidOrder's transaction: the payment without a
\* condition, the order only while it is pending.
FinalizePaidOrder(r) ==
    LET po == req[r].po
        o == payment[po].order
    IN
    /\ At(r, "commit")
    /\ payment' = [payment EXCEPT ![po] =
                        [order |-> o, status |-> "CAPTURED", pid |-> req[r].pid]]
    /\ IF status[o] = "PENDING_PAYMENT"
       THEN PlaceOrder(o)
       ELSE UNCHANGED <<status, placedAt, usages, usedCount>>
    /\ IF req[r].webhook THEN Goto(r, "mark") ELSE Return(r)
    /\ UNCHANGED <<processed, provider, vouched>>

\* markPendingPaymentFailed, its read.
ReadFailedPayment(r) ==
    LET row == payment[req[r].po] IN
    /\ At(r, "failRead")
    /\ IF row.status = "CAPTURED" \/ status[row.order] # "PENDING_PAYMENT"
       THEN Goto(r, "mark")
       ELSE Goto(r, "failWrite")
    /\ UNCHANGED <<rows, provider, vouched>>

\* Variant: notes the failed payment id and keeps the status.
NoteFailedPayment(r) ==
    /\ At(r, "failWrite")
    /\ payment' = [payment EXCEPT ![req[r].po].pid = req[r].pid]
    /\ Goto(r, "mark")
    /\ UNCHANGED <<status, placedAt, processed, usages, usedCount, provider,
                   vouched>>

\* markPendingPaymentFailed, its write.
MarkPaymentFailed(r) ==
    LET po == req[r].po IN
    /\ At(r, "failWrite")
    /\ payment' = [payment EXCEPT ![po] =
                        [order |-> @.order, status |-> "FAILED", pid |-> req[r].pid]]
    /\ Goto(r, "mark")
    /\ UNCHANGED <<status, placedAt, processed, usages, usedCount, provider,
                   vouched>>

\* markWebhookEventProcessed
MarkWebhookProcessed(r) ==
    /\ At(r, "mark")
    /\ processed' = processed \cup {<<req[r].po, req[r].pid>>}
    /\ Return(r)
    /\ UNCHANGED <<status, placedAt, payment, usages, usedCount, provider,
                   vouched>>

-------------------------------------------------------------------------------
(* The admin and the counter *)

\* updateStatus reads the order and checks the move.
ReadStatus(r, o, s) ==
    /\ status[o] # NoOrder
    /\ s \in AllowedStatusUpdates(status[o])
    /\ At(r, "idle")
    /\ req' = [req EXCEPT ![r] =
                    Request("update", o, None, None, status[o], s, FALSE)]
    /\ UNCHANGED <<rows, provider, vouched>>

\* Variant: places the order without counting its coupon.
UpdateStatusOnly(r) ==
    LET o == req[r].o IN
    /\ At(r, "update")
    /\ SetStatus(o, req[r].to)
    /\ IF req[r].to = "PLACED"
       THEN placedAt' = placedAt \cup {o} /\ vouched' = vouched \cup {o}
       ELSE UNCHANGED <<placedAt, vouched>>
    /\ Return(r)
    /\ UNCHANGED <<payment, processed, usages, usedCount, provider>>

\* The transaction of updateStatus; an order moved to PLACED was read as
\* PENDING_PAYMENT, and the administrator vouches for its payment.
UpdateStatus(r) ==
    LET o == req[r].o IN
    /\ At(r, "update")
    /\ IF req[r].to = "PLACED"
       THEN PlaceOrder(o) /\ vouched' = vouched \cup {o}
       ELSE /\ SetStatus(o, req[r].to)
            /\ UNCHANGED <<placedAt, usages, usedCount, vouched>>
    /\ Return(r)
    /\ UNCHANGED <<payment, processed, provider>>

\* verifyForOrderNumber, its status check.  The code itself is in PickupOtp:
\* here any request may turn out to carry the right one.
VerifyPickup(r, o) ==
    /\ status[o] \in ReadyForPickup
    /\ Begin(r, "complete", o)
    /\ UNCHANGED <<rows, provider, vouched>>

\* The write of verifyForOrderNumber once the code matched.
CompleteOrder(r) ==
    /\ At(r, "complete")
    /\ SetStatus(req[r].o, "COMPLETED")
    /\ Return(r)
    /\ UNCHANGED <<placedAt, payment, processed, usages, usedCount, provider,
                   vouched>>

-------------------------------------------------------------------------------
(* Failure *)

\* A query fails or the process dies: the request ends where it stands, and
\* a transaction it was in is rolled back.  (Inside the provider call and the
\* attaching update a failing query goes through CheckoutFails first.)
Abort(r) ==
    /\ ~At(r, "idle")
    /\ Return(r)
    /\ UNCHANGED <<rows, provider, vouched>>

-------------------------------------------------------------------------------

Start(r) ==
    \/ \E o \in Orders :
        \/ StartCheckout(r, o)
        \/ StartCashCheckout(r, o)
        \/ StartCounterOrder(r, o)
        \/ RecoverOnRead(r, o)
        \/ VerifyPickup(r, o)
        \/ \E s \in OrderStatuses : ReadStatus(r, o, s)
    \/ \E po \in ProviderOrders :
        \/ ConfirmPayment(r, po)
        \/ WebhookCaptured(r, po)
        \/ \E pid \in PaymentIds : WebhookFailed(r, po, pid)

Continue(r) ==
    \/ CreateOrder(r)
    \/ RevivePending(r)
    \/ CallProvider(r)
    \/ AttachPayment(r)
    \/ CheckoutFails(r)
    \/ CancelFailedCheckout(r)
    \/ CollectAtCounter(r)
    \/ FindPayment(r)
    \/ FinalizePaidOrder(r)
    \/ ReadFailedPayment(r)
    \/ MarkPaymentFailed(r)
    \/ MarkWebhookProcessed(r)
    \/ UpdateStatus(r)
    \/ CompleteOrder(r)
    \/ Abort(r)

Customer ==
    \E po \in ProviderOrders, pid \in PaymentIds :
        CustomerPays(po, pid) \/ CustomerPaymentFails(po, pid)

Next == Customer \/ \E r \in Requests : Start(r) \/ Continue(r)

Spec == Init /\ [][Next]_vars

-------------------------------------------------------------------------------
(* Properties *)

TypeOK ==
    /\ status \in [Orders -> OrderStatuses \cup {NoOrder}]
    /\ placedAt \in SUBSET Orders
    /\ payment \in [ProviderOrders -> PaymentRows]
    /\ processed \in SUBSET (ProviderOrders \X PaymentIds)
    /\ usages \in SUBSET Orders
    /\ usedCount \in Nat
    /\ req \in [Requests -> RequestStates]
    /\ issued \in SUBSET ProviderOrders
    /\ captured \in [ProviderOrders -> PaymentIds \cup {None}]
    /\ failed \in SUBSET (ProviderOrders \X PaymentIds)
    /\ vouched \in SUBSET Orders

HasFailedAttempt(po) == \E pid \in PaymentIds : <<po, pid>> \in failed

\* Orders whose payment the provider captured or the staff collected.
Paid ==
    vouched \cup {o \in Orders : \E po \in PaymentsOf(o) : captured[po] # None}

\* The kitchen only ever works on orders that were placed and whose payment
\* was captured by the provider or collected by the staff, although stale
\* status updates, revived checkouts and their cancellations overwrite the
\* status without looking at it.
KitchenOrdersAreSettled ==
    \A o \in Orders :
        status[o] \in KitchenStatuses => o \in placedAt /\ o \in Paid

\* A payment row the service shows as captured carries the payment id that
\* the provider captured, whichever of confirmation, recovery and webhook
\* wrote it and whatever failed attempts were reported in between.
CapturedRowsMatchProvider ==
    \A po \in ProviderOrders :
        payment[po].status = "CAPTURED" =>
            captured[po] # None /\ payment[po].pid = captured[po]

\* Every placed order that carries the coupon is counted exactly once, by
\* whichever of the three transactions placed it first.
RedemptionsAreCountedOnce ==
    /\ usages = placedAt \cap CouponOrders
    /\ usedCount = Cardinality(usages)

\* The webhook acknowledges a capture only after it has been recorded: the
\* provider never stops redelivering a capture the payment row does not show
\* (or showed until a report of a failed attempt overwrote it).
AcknowledgedCapturesAreRecorded ==
    \A po \in ProviderOrders :
        captured[po] # None /\ <<po, captured[po]>> \in processed =>
            \/ payment[po].status = "CAPTURED"
            \/ HasFailedAttempt(po) /\ payment[po].status = "FAILED"

\* Without a failed attempt on it, a captured provider order can always be
\* settled: no request leaves behind a payment id that blocks finalization.
CleanCapturesCanSettle ==
    \A po \in ProviderOrders :
        captured[po] # None /\ ~HasFailedAttempt(po) =>
            ~PaymentConflict(po, captured[po])

Starting(o) ==
    {r \in Requests : req[r].o = o /\ req[r].pc \in {"provider", "attach"}}

\* A checkout attempt gets more than one payment only from requests that
\* were under way together: once it has one, no later request adds another.
DuplicatePaymentsNeedOverlap ==
    \A o \in Orders : PaymentsOf(o) # {} =>
        Cardinality(PaymentsOf(o)) + Cardinality(Starting(o))
            <= Cardinality(Requests)

\* Placing keeps the promises of the abstract specification.
Ledger == INSTANCE Placement WITH paid <- Paid, placed <- placedAt

LedgerSpec == Ledger!Spec

-------------------------------------------------------------------------------
(* The inductive invariant behind the theorems of OrdersProofs *)

HasPayment(po) == payment[po].order # None

\* What a request may still rely on of the values it read.
RequestInv(r) ==
    LET o == req[r].o
        po == req[r].po
        pid == req[r].pid
    IN
    /\ req[r].pc \in {"createOnline", "createUnpaid", "createPaid", "collect",
                      "revive", "provider", "attach", "cancel", "update",
                      "complete"} => o \in Orders
    /\ req[r].pc \in {"attach", "find", "commit", "failRead", "failWrite", "mark"}
            => po \in ProviderOrders
    /\ req[r].pc \in {"find", "commit", "failRead", "failWrite", "mark"}
            => pid \in PaymentIds
    /\ At(r, "attach") => po \in issued /\ ~HasPayment(po)
    /\ req[r].pc \in {"find", "commit"} => captured[po] = pid
    /\ req[r].pc \in {"failRead", "failWrite"} => <<po, pid>> \in failed
    /\ At(r, "mark") =>
            \/ <<po, pid>> \in failed
            \/ captured[po] = pid /\ payment[po].status # "CREATED"
    /\ At(r, "update") =>
            /\ req[r].from \in OrderStatuses
            /\ req[r].to \in AllowedStatusUpdates(req[r].from)
            /\ req[r].from \in KitchenStatuses => o \in placedAt
    /\ At(r, "complete") => o \in placedAt

RequestsInv == \A r \in Requests : RequestInv(r)

\* Two requests never hold the same new provider order.
AttachInv ==
    \A r1, r2 \in Requests :
        At(r1, "attach") /\ At(r2, "attach") /\ req[r1].po = req[r2].po => r1 = r2

\* How a payment row relates to the provider's books.
PaymentInv(po) ==
    /\ HasPayment(po) => po \in issued
    /\ ~HasPayment(po) => payment[po] = NoPayment
    /\ HasPayment(po) => payment[po].status # "NONE"
    /\ payment[po].status = "CREATED" => payment[po].pid = None
    /\ payment[po].status = "CAPTURED" =>
            captured[po] # None /\ payment[po].pid = captured[po]
    /\ payment[po].status = "FAILED" => <<po, payment[po].pid>> \in failed
    /\ captured[po] # None => HasPayment(po) /\ <<po, captured[po]>> \notin failed
    /\ HasFailedAttempt(po) => HasPayment(po)
    /\ \A pid \in PaymentIds : <<po, pid>> \in processed =>
            \/ <<po, pid>> \in failed
            \/ captured[po] = pid /\ payment[po].status # "CREATED"

PaymentsInv == \A po \in ProviderOrders : PaymentInv(po)

PlacementInv ==
    /\ \A o \in Orders : status[o] \in KitchenStatuses => o \in placedAt
    /\ placedAt \subseteq Paid
    /\ usages = placedAt \cap CouponOrders
    /\ IsFiniteSet(usages)
    /\ usedCount = Cardinality(usages)

OrdersInv == TypeOK /\ RequestsInv /\ AttachInv /\ PaymentsInv /\ PlacementInv
===============================================================================

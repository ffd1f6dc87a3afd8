----------------------------- MODULE OrdersProofs -----------------------------
(***************************************************************************)
(* Theorems about Orders, for any number of requests, orders, provider     *)
(* orders and payment attempts.  The inductive invariant is OrdersInv; the *)
(* last part is about what the steps may never do to payment rows and      *)
(* placed orders.                                                          *)
(***************************************************************************)
EXTENDS Orders, FiniteSetTheorems, TLAPS

(***************************************************************************)
(* The initial state satisfies the invariant.                              *)
(***************************************************************************)
LEMMA InitInv == Init => OrdersInv
<1> SUFFICES ASSUME Init PROVE OrdersInv
    OBVIOUS
<1> USE OrdersAssumption DEF Init
<1>1. TypeOK
    BY DEF TypeOK, PaymentRows, PaymentStatuses, NoPayment, RequestStates, Idle, Request, Steps
<1>2. RequestsInv /\ AttachInv
    BY DEF RequestsInv, RequestInv, AttachInv, At, Idle, Request
<1>3. PaymentsInv
    BY DEF PaymentsInv, PaymentInv, HasPayment, HasFailedAttempt, NoPayment
<1>4. PlacementInv
    <2>1. IsFiniteSet({}) /\ Cardinality({}) = 0
        BY FS_EmptySet
    <2>2. NoOrder \notin KitchenStatuses
        BY DEF KitchenStatuses, OrderStatuses, ReadyForPickup
    <2> QED BY <2>1, <2>2 DEF PlacementInv
<1> QED BY <1>1, <1>2, <1>3, <1>4 DEF OrdersInv

(***************************************************************************)
(* What the steps of a request do to the request itself.                   *)
(***************************************************************************)
OthersUnchanged(r) == \A q \in Requests \ {r} : req'[q] = req[q]

LEMMA UpdateType ==
    ASSUME TypeOK, NEW r \in Requests, NEW new \in RequestStates,
           req' = [req EXCEPT ![r] = new]
    PROVE  /\ req' \in [Requests -> RequestStates]
           /\ req'[r] = new
           /\ OthersUnchanged(r)
BY DEF TypeOK, OthersUnchanged

LEMMA RequestType ==
    ASSUME NEW step \in Steps, NEW o \in Orders \cup {None},
           NEW po \in ProviderOrders \cup {None}, NEW pid \in PaymentIds \cup {None},
           NEW from \in OrderStatuses \cup {NoOrder},
           NEW to \in OrderStatuses \cup {NoOrder}, NEW webhook \in BOOLEAN
    PROVE  Request(step, o, po, pid, from, to, webhook) \in RequestStates
BY DEF Request, RequestStates

LEMMA ReturnStep ==
    ASSUME TypeOK, NEW r \in Requests, Return(r)
    PROVE  /\ req' \in [Requests -> RequestStates]
           /\ req'[r] = Idle
           /\ OthersUnchanged(r)
<1>1. Idle \in RequestStates
    BY RequestType DEF Idle, Steps
<1> QED BY <1>1, UpdateType DEF Return

LEMMA GotoStep ==
    ASSUME TypeOK, NEW r \in Requests, NEW step \in Steps, Goto(r, step)
    PROVE  /\ req' \in [Requests -> RequestStates]
           /\ req'[r] = [req[r] EXCEPT !.pc = step]
           /\ OthersUnchanged(r)
<1>1. [req[r] EXCEPT !.pc = step] \in RequestStates
    BY DEF TypeOK, RequestStates
<1>2. req' = [req EXCEPT ![r] = [req[r] EXCEPT !.pc = step]]
    BY DEF Goto, TypeOK
<1> QED BY <1>1, <1>2, UpdateType

LEMMA BeginStep ==
    ASSUME TypeOK, NEW r \in Requests, NEW step \in Steps, NEW o \in Orders,
           Begin(r, step, o)
    PROVE  /\ req' \in [Requests -> RequestStates]
           /\ req'[r] = Request(step, o, None, None, NoOrder, NoOrder, FALSE)
           /\ OthersUnchanged(r)
<1>1. Request(step, o, None, None, NoOrder, NoOrder, FALSE) \in RequestStates
    BY RequestType
<1> QED BY <1>1, UpdateType DEF Begin

LEMMA BeginSettlementStep ==
    ASSUME TypeOK, NEW r \in Requests, NEW step \in Steps,
           NEW po \in ProviderOrders, NEW pid \in PaymentIds,
           NEW webhook \in BOOLEAN, BeginSettlement(r, step, po, pid, webhook)
    PROVE  /\ req' \in [Requests -> RequestStates]
           /\ req'[r] = Request(step, None, po, pid, NoOrder, NoOrder, webhook)
           /\ OthersUnchanged(r)
<1>1. Request(step, None, po, pid, NoOrder, NoOrder, webhook) \in RequestStates
    BY RequestType
<1> QED BY <1>1, UpdateType DEF BeginSettlement

(***************************************************************************)
(* The coupon is redeemed at most once per order, and counted when it is.  *)
(***************************************************************************)
LEMMA RedeemKeepsLedger ==
    ASSUME TypeOK, PlacementInv, NEW o \in Orders,
           Redeem(o), placedAt' = placedAt \cup {o}
    PROVE  /\ usages' \in SUBSET Orders
           /\ usedCount' \in Nat
           /\ usages' = placedAt' \cap CouponOrders
           /\ IsFiniteSet(usages')
           /\ usedCount' = Cardinality(usages')
<1>1. CASE o \in CouponOrders \ usages
    <2>1. usages' = usages \cup {o} /\ usedCount' = usedCount + 1
        BY <1>1 DEF Redeem
    <2>2. IsFiniteSet(usages') /\ Cardinality(usages') = Cardinality(usages) + 1
        BY <1>1, <2>1, FS_AddElement DEF PlacementInv
    <2> QED BY <1>1, <2>1, <2>2 DEF TypeOK, PlacementInv
<1>2. CASE o \notin CouponOrders \ usages
    BY <1>2 DEF Redeem, TypeOK, PlacementInv
<1> QED BY <1>1, <1>2

(***************************************************************************)
(* What no step takes back, and what follows from that for the requests    *)
(* that do not take the step and for the orders that are paid.             *)
(***************************************************************************)
Monotone ==
    /\ placedAt \subseteq placedAt'
    /\ vouched \subseteq vouched'
    /\ issued \subseteq issued'
    /\ failed \subseteq failed'
    /\ \A po \in ProviderOrders :
        /\ captured[po] # None => captured'[po] = captured[po]
        /\ HasPayment(po) =>
            /\ payment'[po].order = payment[po].order
            /\ payment'[po].status = "CREATED" => payment[po].status = "CREATED"

LEMMA PaidGrows == Monotone /\ PaymentsInv /\ TypeOK => Paid \subseteq Paid'
BY OrdersAssumption DEF Monotone, Paid, PaymentsOf, HasPayment, PaymentsInv, PaymentInv

LEMMA OthersKeepInv ==
    ASSUME OrdersInv, Monotone, NEW r \in Requests, OthersUnchanged(r),
           RequestInv(r)',
           \A q \in Requests \ {r} : At(q, "attach") => ~HasPayment(req[q].po)'
    PROVE  RequestsInv'
<1> SUFFICES ASSUME NEW q \in Requests \ {r} PROVE RequestInv(q)'
    BY DEF RequestsInv
<1>1. req'[q] = req[q] /\ RequestInv(q)
    BY DEF OrdersInv, RequestsInv, OthersUnchanged
<1>2. \A po \in ProviderOrders :
        captured[po] # None => HasPayment(po) /\ payment[po].status # "NONE"
    BY DEF OrdersInv, PaymentsInv, PaymentInv
<1>3. At(q, "mark") /\ captured[req[q].po] = req[q].pid =>
        captured[req[q].po] # None
    BY <1>1, OrdersAssumption DEF RequestInv, At
<1>4. req[q].pc \in {"find", "commit"} => captured[req[q].po] # None
    BY <1>1, OrdersAssumption DEF RequestInv, At
<1> QED BY <1>1, <1>2, <1>3, <1>4 DEF RequestInv, Monotone, At

LEMMA RowsUnchangedInv ==
    ASSUME OrdersInv, NEW r \in Requests, UNCHANGED <<rows, provider, vouched>>,
           req' \in [Requests -> RequestStates], OthersUnchanged(r),
           RequestInv(r)', req'[r].pc # "attach"
    PROVE  OrdersInv'
<1> USE DEF rows, provider
<1>1. TypeOK'
    BY DEF OrdersInv, TypeOK
<1>2. Monotone
    BY DEF Monotone
<1>3. RequestsInv'
    <2>1. \A q \in Requests \ {r} : At(q, "attach") => ~HasPayment(req[q].po)'
        BY DEF OrdersInv, RequestsInv, RequestInv, At, HasPayment, OthersUnchanged
    <2> QED BY <1>2, <2>1, OthersKeepInv
<1>4. AttachInv'
    BY DEF OrdersInv, AttachInv, At, OthersUnchanged
<1>5. PaymentsInv'
    BY DEF OrdersInv, PaymentsInv, PaymentInv, HasPayment, HasFailedAttempt
<1>6. PlacementInv'
    BY DEF OrdersInv, PlacementInv, Paid, PaymentsOf
<1> QED BY <1>1, <1>3, <1>4, <1>5, <1>6 DEF OrdersInv

(***************************************************************************)
(* The two ways a step treats the placed orders: it places none, or one.   *)
(***************************************************************************)
LEMMA NonePlaced ==
    ASSUME OrdersInv, Monotone, UNCHANGED <<placedAt, usages, usedCount>>,
           \A o \in Orders : status'[o] \in KitchenStatuses =>
                status[o] \in KitchenStatuses \/ o \in placedAt
    PROVE  PlacementInv'
BY PaidGrows DEF OrdersInv, PlacementInv

LEMMA OnePlaced ==
    ASSUME OrdersInv, Monotone, NEW o \in Orders, PlaceOrder(o), o \in Paid'
    PROVE  PlacementInv' /\ usages' \in SUBSET Orders /\ usedCount' \in Nat
<1>1. placedAt' = placedAt \cup {o} /\ Redeem(o)
    BY DEF PlaceOrder
<1>2. /\ usages' \in SUBSET Orders
      /\ usedCount' \in Nat
      /\ usages' = placedAt' \cap CouponOrders
      /\ IsFiniteSet(usages')
      /\ usedCount' = Cardinality(usages')
    BY <1>1, RedeemKeepsLedger DEF OrdersInv
<1>3. \A p \in Orders : status'[p] \in KitchenStatuses => p \in placedAt'
    BY <1>1 DEF PlaceOrder, SetStatus, OrdersInv, TypeOK, PlacementInv
<1>4. placedAt' \subseteq Paid'
    BY <1>1, PaidGrows DEF OrdersInv, PlacementInv
<1> QED BY <1>2, <1>3, <1>4 DEF PlacementInv

(***************************************************************************)
(* Steps that change nothing but their request: how requests begin, what   *)
(* they read and how they end early.                                       *)
(***************************************************************************)
LEMMA BeginInv ==
    ASSUME OrdersInv, NEW r \in Requests, NEW step \in Steps, NEW o \in Orders,
           Begin(r, step, o), UNCHANGED <<rows, provider, vouched>>,
           step \in {"createOnline", "createUnpaid", "createPaid", "revive",
                     "provider", "complete"},
           step = "complete" => o \in placedAt
    PROVE  OrdersInv'
<1>1. /\ req' \in [Requests -> RequestStates]
      /\ req'[r] = Request(step, o, None, None, NoOrder, NoOrder, FALSE)
      /\ OthersUnchanged(r)
    BY BeginStep DEF OrdersInv
<1>2. req'[r].pc = step /\ req'[r].o = o
    BY <1>1 DEF Request
<1>3. RequestInv(r)'
    BY <1>2 DEF RequestInv, At, rows
<1> QED BY <1>1, <1>2, <1>3, RowsUnchangedInv

LEMMA BeginSettlementInv ==
    ASSUME OrdersInv, NEW r \in Requests, NEW step \in Steps,
           NEW po \in ProviderOrders, NEW pid \in PaymentIds,
           NEW webhook \in BOOLEAN, BeginSettlement(r, step, po, pid, webhook),
           UNCHANGED <<rows, provider, vouched>>,
           \/ step = "find" /\ captured[po] = pid
           \/ step = "failRead" /\ <<po, pid>> \in failed
    PROVE  OrdersInv'
<1>1. /\ req' \in [Requests -> RequestStates]
      /\ req'[r] = Request(step, None, po, pid, NoOrder, NoOrder, webhook)
      /\ OthersUnchanged(r)
    BY BeginSettlementStep DEF OrdersInv
<1>2. req'[r].pc = step /\ req'[r].po = po /\ req'[r].pid = pid
    BY <1>1 DEF Request
<1>3. RequestInv(r)'
    BY <1>2 DEF RequestInv, At, provider
<1> QED BY <1>1, <1>2, <1>3, RowsUnchangedInv

LEMMA ReturnInv ==
    ASSUME OrdersInv, NEW r \in Requests, Return(r),
           UNCHANGED <<rows, provider, vouched>>
    PROVE  OrdersInv'
<1>1. /\ req' \in [Requests -> RequestStates]
      /\ req'[r] = Idle
      /\ OthersUnchanged(r)
    BY ReturnStep DEF OrdersInv
<1>2. req'[r].pc = "idle"
    BY <1>1 DEF Idle, Request
<1>3. RequestInv(r)'
    BY <1>2 DEF RequestInv, At
<1> QED BY <1>1, <1>2, <1>3, RowsUnchangedInv

LEMMA GotoInv ==
    ASSUME OrdersInv, NEW r \in Requests, NEW step \in Steps, Goto(r, step),
           UNCHANGED <<rows, provider, vouched>>,
           \/ step = "cancel" /\ req[r].pc \in {"provider", "attach"}
           \/ step = "commit" /\ At(r, "find")
           \/ step \in {"mark", "failWrite"} /\ At(r, "failRead")
    PROVE  OrdersInv'
<1>1. /\ req' \in [Requests -> RequestStates]
      /\ req'[r] = [req[r] EXCEPT !.pc = step]
      /\ OthersUnchanged(r)
    BY GotoStep DEF OrdersInv
<1>2. /\ req'[r].pc = step
      /\ req'[r].o = req[r].o
      /\ req'[r].po = req[r].po
      /\ req'[r].pid = req[r].pid
    BY <1>1 DEF OrdersInv, TypeOK, RequestStates
<1>3. RequestInv(r)
    BY DEF OrdersInv, RequestsInv
<1>4. RequestInv(r)'
    BY <1>2, <1>3 DEF RequestInv, At, provider, rows
<1> QED BY <1>1, <1>2, <1>4, RowsUnchangedInv

LEMMA StartInv ==
    ASSUME OrdersInv, NEW r \in Requests, Start(r)
    PROVE  OrdersInv'
<1>1. TypeOK /\ PlacementInv /\ PaymentsInv
    BY DEF OrdersInv
<1>2. ASSUME NEW o \in Orders, StartCheckout(r, o) PROVE OrdersInv'
    BY <1>2, BeginInv DEF StartCheckout, Steps
<1>3. ASSUME NEW o \in Orders, StartCashCheckout(r, o) PROVE OrdersInv'
    BY <1>3, BeginInv DEF StartCashCheckout, Steps
<1>4. ASSUME NEW o \in Orders, StartCounterOrder(r, o) PROVE OrdersInv'
    BY <1>4, BeginInv DEF StartCounterOrder, Steps
<1>5. ASSUME NEW o \in Orders, RecoverOnRead(r, o) PROVE OrdersInv'
    <2>1. PICK po \in ProviderOrders :
            /\ captured[po] # None
            /\ BeginSettlement(r, "find", po, captured[po], FALSE)
        BY <1>5 DEF RecoverOnRead, PaymentsOf, FindCapturedPayment
    <2>2. captured[po] \in PaymentIds
        BY <1>1, <2>1 DEF TypeOK
    <2> QED BY <1>5, <2>1, <2>2, BeginSettlementInv DEF RecoverOnRead, Steps
<1>6. ASSUME NEW o \in Orders, VerifyPickup(r, o) PROVE OrdersInv'
    <2>1. o \in placedAt
        BY <1>1, <1>6 DEF VerifyPickup, PlacementInv, KitchenStatuses
    <2> QED BY <1>6, <2>1, BeginInv DEF VerifyPickup, Steps
<1>7. ASSUME NEW o \in Orders, NEW s \in OrderStatuses, ReadStatus(r, o, s)
      PROVE  OrdersInv'
    <2>1. status[o] \in OrderStatuses
        BY <1>1, <1>7 DEF ReadStatus, TypeOK
    <2> DEFINE new == Request("update", o, None, None, status[o], s, FALSE)
    <2>2. new \in RequestStates
        BY <2>1, RequestType DEF Steps
    <2>3. /\ req' \in [Requests -> RequestStates]
          /\ req'[r] = new
          /\ OthersUnchanged(r)
        BY <1>1, <1>7, <2>2, UpdateType DEF ReadStatus
    <2>4. /\ req'[r].pc = "update"
          /\ req'[r].o = o
          /\ req'[r].from = status[o]
          /\ req'[r].to = s
        BY <2>3 DEF Request
    <2>5. RequestInv(r)'
        BY <1>1, <1>7, <2>1, <2>4
        DEF RequestInv, At, ReadStatus, PlacementInv, rows
    <2> QED BY <1>7, <2>3, <2>4, <2>5, RowsUnchangedInv DEF ReadStatus
<1>8. ASSUME NEW po \in ProviderOrders, ConfirmPayment(r, po) PROVE OrdersInv'
    BY <1>1, <1>8, BeginSettlementInv
    DEF ConfirmPayment, FindCapturedPayment, TypeOK, Steps
<1>9. ASSUME NEW po \in ProviderOrders, WebhookCaptured(r, po) PROVE OrdersInv'
    BY <1>1, <1>9, BeginSettlementInv DEF WebhookCaptured, TypeOK, Steps
<1>10. ASSUME NEW po \in ProviderOrders, NEW pid \in PaymentIds,
              WebhookFailed(r, po, pid)
       PROVE  OrdersInv'
    BY <1>10, BeginSettlementInv DEF WebhookFailed, Steps
<1> QED BY <1>2, <1>3, <1>4, <1>5, <1>6, <1>7, <1>8, <1>9, <1>10 DEF Start

(***************************************************************************)
(* Checkout steps that write.                                              *)
(***************************************************************************)

\* A step that only writes an order's status, to one outside the kitchen or
\* with the order placed before.
LEMMA StatusInv ==
    ASSUME OrdersInv, NEW r \in Requests, NEW o \in Orders,
           NEW s \in OrderStatuses, SetStatus(o, s),
           s \in KitchenStatuses => o \in placedAt,
           req' \in [Requests -> RequestStates], OthersUnchanged(r),
           RequestInv(r)', req'[r].pc # "attach",
           UNCHANGED <<placedAt, payment, processed, usages, usedCount, provider,
                       vouched>>
    PROVE  OrdersInv'
<1> USE DEF provider
<1>1. TypeOK'
    BY DEF OrdersInv, TypeOK, SetStatus
<1>2. Monotone
    BY DEF Monotone
<1>3. RequestsInv'
    <2>1. \A q \in Requests \ {r} : At(q, "attach") => ~HasPayment(req[q].po)'
        BY DEF OrdersInv, RequestsInv, RequestInv, At, HasPayment, OthersUnchanged
    <2> QED BY <1>2, <2>1, OthersKeepInv
<1>4. AttachInv'
    BY DEF OrdersInv, AttachInv, At, OthersUnchanged
<1>5. PaymentsInv'
    BY DEF OrdersInv, PaymentsInv, PaymentInv, HasPayment, HasFailedAttempt
<1>6. PlacementInv'
    <2>1. \A p \in Orders : status'[p] \in KitchenStatuses =>
            status[p] \in KitchenStatuses \/ p \in placedAt
        BY DEF SetStatus, OrdersInv, TypeOK
    <2> QED BY <1>2, <2>1, NonePlaced
<1> QED BY <1>1, <1>3, <1>4, <1>5, <1>6 DEF OrdersInv

LEMMA PendingAndCancelled ==
    /\ {"PENDING_PAYMENT", "CANCELLED", "PLACED", "COMPLETED"} \subseteq OrderStatuses
    /\ "PENDING_PAYMENT" \notin KitchenStatuses
    /\ "CANCELLED" \notin KitchenStatuses
BY DEF OrderStatuses, KitchenStatuses, ReadyForPickup

LEMMA CreateOrderInv ==
    ASSUME OrdersInv, NEW r \in Requests, CreateOrder(r)
    PROVE  OrdersInv'
<1> DEFINE o == req[r].o
<1>1. TypeOK /\ RequestInv(r)
    BY DEF OrdersInv, RequestsInv
<1>2. o \in Orders
    BY <1>1 DEF CreateOrder, RequestInv
<1>3. CASE status[o] # NoOrder
    BY <1>3, ReturnInv DEF CreateOrder, rows
<1>4. CASE status[o] = NoOrder
    <2>1. SetStatus(o, "PENDING_PAYMENT")
        BY <1>4 DEF CreateOrder
    <2>2. Return(r) \/ \E step \in {"provider", "collect"} : Goto(r, step)
        BY <1>4 DEF CreateOrder
    <2>3. /\ req' \in [Requests -> RequestStates]
          /\ OthersUnchanged(r)
          /\ \/ req'[r] = Idle
             \/ \E step \in {"provider", "collect"} : req'[r] = [req[r] EXCEPT !.pc = step]
        BY <1>1, <2>2, ReturnStep, GotoStep DEF Steps
    <2>4. \/ req'[r].pc = "idle"
          \/ req'[r].pc \in {"provider", "collect"} /\ req'[r].o = o
        BY <1>1, <2>3 DEF Idle, Request, TypeOK, RequestStates
    <2>5. RequestInv(r)'
        BY <1>2, <2>4 DEF RequestInv, At
    <2> QED BY <1>2, <2>1, <2>3, <2>4, <2>5, StatusInv, PendingAndCancelled DEF CreateOrder
<1> QED BY <1>3, <1>4

LEMMA RevivePendingInv ==
    ASSUME OrdersInv, NEW r \in Requests, RevivePending(r)
    PROVE  OrdersInv'
<1> DEFINE o == req[r].o
<1>1. TypeOK /\ RequestInv(r)
    BY DEF OrdersInv, RequestsInv
<1>2. o \in Orders
    BY <1>1 DEF RevivePending, RequestInv, At
<1>3. SetStatus(o, "PENDING_PAYMENT") /\ (Return(r) \/ Goto(r, "provider"))
    BY DEF RevivePending
<1>4. /\ req' \in [Requests -> RequestStates]
      /\ OthersUnchanged(r)
      /\ req'[r] = Idle \/ req'[r] = [req[r] EXCEPT !.pc = "provider"]
    BY <1>1, <1>3, ReturnStep, GotoStep DEF Steps
<1>5. \/ req'[r].pc = "idle"
      \/ req'[r].pc = "provider" /\ req'[r].o = o
    BY <1>1, <1>4 DEF Idle, Request, TypeOK, RequestStates
<1>6. RequestInv(r)'
    BY <1>2, <1>5 DEF RequestInv, At
<1> QED BY <1>2, <1>3, <1>4, <1>5, <1>6, StatusInv, PendingAndCancelled DEF RevivePending

LEMMA CallProviderInv ==
    ASSUME OrdersInv, NEW r \in Requests, CallProvider(r)
    PROVE  OrdersInv'
<1> USE DEF rows
<1>1. TypeOK /\ RequestInv(r) /\ PaymentsInv
    BY DEF OrdersInv, RequestsInv
<1>2. PICK po \in ProviderOrders \ issued :
        /\ issued' = issued \cup {po}
        /\ req' = [req EXCEPT ![r] =
                    Request("attach", req[r].o, po, None, NoOrder, NoOrder, FALSE)]
    BY <1>1 DEF CallProvider, TypeOK
<1> DEFINE new == Request("attach", req[r].o, po, None, NoOrder, NoOrder, FALSE)
<1>3. req[r].o \in Orders
    BY <1>1 DEF CallProvider, RequestInv, At
<1>4. new \in RequestStates
    BY <1>3, RequestType DEF Steps
<1>5. req' \in [Requests -> RequestStates] /\ req'[r] = new /\ OthersUnchanged(r)
    BY <1>1, <1>2, <1>4, UpdateType
<1>6. req'[r].pc = "attach" /\ req'[r].o = req[r].o /\ req'[r].po = po
    BY <1>5 DEF Request
<1> HIDE DEF new
<1>7a. UNCHANGED <<rows, captured, failed, vouched>>
    BY DEF CallProvider
<1>7. TypeOK'
    BY <1>1, <1>2, <1>5, <1>7a DEF TypeOK
<1>8. Monotone
    BY <1>2, <1>7a DEF Monotone
<1>9. ~HasPayment(po)
    BY <1>1, <1>2 DEF PaymentsInv, PaymentInv
<1>10. RequestsInv'
    <2>1. RequestInv(r)'
        <3>1. po \in ProviderOrders /\ po \in issued'
            BY <1>2
        <3>2. ~HasPayment(po)'
            BY <1>7a, <1>9 DEF HasPayment
        <3>3. ~At(r, "update")' /\ ~At(r, "complete")' /\ ~At(r, "mark")'
            BY <1>6 DEF At
        <3> QED BY <1>3, <1>6, <3>1, <3>2, <3>3 DEF RequestInv, HasPayment
    <2>2. \A q \in Requests \ {r} : At(q, "attach") => ~HasPayment(req[q].po)'
        BY <1>5, <1>7a
        DEF OrdersInv, RequestsInv, RequestInv, At, HasPayment, OthersUnchanged
    <2> QED BY <1>5, <1>8, <2>1, <2>2, OthersKeepInv
<1>11. AttachInv'
    <2>1. \A q \in Requests \ {r} : At(q, "attach") => req[q].po \in issued
        BY DEF OrdersInv, RequestsInv, RequestInv
    <2>2. \A q \in Requests \ {r} : At(q, "attach")' => req'[q].po # po
        BY <1>2, <1>5, <2>1 DEF At, OthersUnchanged
    <2>3. \A q1, q2 \in Requests \ {r} :
            At(q1, "attach")' /\ At(q2, "attach")' /\ req'[q1].po = req'[q2].po
                => q1 = q2
        BY <1>5 DEF OrdersInv, AttachInv, At, OthersUnchanged
    <2> QED BY <1>6, <2>2, <2>3 DEF AttachInv
<1>12. PaymentsInv'
    BY <1>1, <1>2, <1>7a DEF PaymentsInv, PaymentInv, HasPayment, HasFailedAttempt
<1>13. PlacementInv'
    BY <1>8, <1>7a, NonePlaced
<1> QED BY <1>7, <1>10, <1>11, <1>12, <1>13 DEF OrdersInv

LEMMA AttachPaymentInv ==
    ASSUME OrdersInv, NEW r \in Requests, AttachPayment(r)
    PROVE  OrdersInv'
<1>1. TypeOK /\ RequestInv(r) /\ PaymentsInv
    BY DEF OrdersInv, RequestsInv
<1>2. PICK o \in Orders, po \in issued : o = req[r].o /\ po = req[r].po
    BY <1>1 DEF AttachPayment, RequestInv, At
<1>3. po \in ProviderOrders /\ ~HasPayment(po) /\ At(r, "attach")
    BY <1>1, <1>2 DEF AttachPayment, RequestInv, TypeOK
<1> DEFINE row == [order |-> o, status |-> "CREATED", pid |-> None]
<1>4. /\ SetStatus(o, "PENDING_PAYMENT")
      /\ payment' = [payment EXCEPT ![po] = row]
      /\ Return(r)
      /\ UNCHANGED <<placedAt, processed, usages, usedCount, provider, vouched>>
    BY <1>2 DEF AttachPayment
<1>5. req' \in [Requests -> RequestStates] /\ req'[r] = Idle /\ OthersUnchanged(r)
    BY <1>1, <1>4, ReturnStep
<1>6. req'[r].pc = "idle"
    BY <1>5 DEF Idle, Request
<1>7. /\ payment' \in [ProviderOrders -> PaymentRows]
      /\ payment'[po].order = o
      /\ payment'[po].status = "CREATED"
      /\ payment'[po].pid = None
      /\ \A p \in ProviderOrders \ {po} : payment'[p] = payment[p]
    <2>1. row \in PaymentRows
        BY DEF PaymentRows, PaymentStatuses
    <2> QED BY <1>1, <1>3, <1>4, <2>1 DEF TypeOK
<1>8. UNCHANGED <<issued, captured, failed>>
    BY <1>4 DEF provider
<1>9. TypeOK'
    BY <1>1, <1>4, <1>5, <1>7, <1>8, PendingAndCancelled DEF TypeOK, SetStatus
<1>10. Monotone
    BY <1>3, <1>4, <1>7, <1>8 DEF Monotone, HasPayment
<1>11. RequestsInv'
    <2>1. RequestInv(r)'
        BY <1>6 DEF RequestInv, At
    <2>2. ASSUME NEW q \in Requests \ {r}, At(q, "attach")
          PROVE  ~HasPayment(req[q].po)'
        <3>1. req[q].po # po
            BY <1>2, <1>3, <2>2 DEF OrdersInv, AttachInv
        <3>2. ~HasPayment(req[q].po) /\ req[q].po \in ProviderOrders
            BY <2>2 DEF OrdersInv, RequestsInv, RequestInv, At
        <3> QED BY <1>5, <1>7, <3>1, <3>2 DEF HasPayment, OthersUnchanged
    <2> QED BY <1>5, <1>10, <2>1, <2>2, OthersKeepInv
<1>12. AttachInv'
    BY <1>5, <1>6 DEF OrdersInv, AttachInv, At, OthersUnchanged
<1>13. PaymentsInv'
    <2>1. PaymentInv(po)'
        <3>1. captured[po] = None /\ ~HasFailedAttempt(po)
            BY <1>1, <1>3 DEF PaymentsInv, PaymentInv
        <3>2. \A pid \in PaymentIds : <<po, pid>> \notin processed
            BY <1>1, <1>3, <3>1, OrdersAssumption DEF PaymentsInv, PaymentInv, HasFailedAttempt
        <3> QED BY <1>2, <1>4, <1>7, <1>8, <3>1, <3>2, OrdersAssumption
                DEF PaymentInv, HasPayment, HasFailedAttempt
    <2>2. \A p \in ProviderOrders \ {po} : PaymentInv(p)'
        BY <1>1, <1>4, <1>7, <1>8 DEF PaymentsInv, PaymentInv, HasPayment, HasFailedAttempt
    <2> QED BY <2>1, <2>2 DEF PaymentsInv
<1>14. PlacementInv'
    <2>1. \A p \in Orders : status'[p] \in KitchenStatuses => status[p] \in KitchenStatuses
        BY <1>1, <1>4, PendingAndCancelled DEF SetStatus, TypeOK
    <2> QED BY <1>4, <1>10, <2>1, NonePlaced
<1> QED BY <1>9, <1>11, <1>12, <1>13, <1>14 DEF OrdersInv

LEMMA CancelFailedCheckoutInv ==
    ASSUME OrdersInv, NEW r \in Requests, CancelFailedCheckout(r)
    PROVE  OrdersInv'
<1>1. TypeOK /\ RequestInv(r)
    BY DEF OrdersInv, RequestsInv
<1>2. PICK o \in Orders : o = req[r].o
    BY <1>1 DEF CancelFailedCheckout, RequestInv, At
<1>3. req' \in [Requests -> RequestStates] /\ req'[r] = Idle /\ OthersUnchanged(r)
    BY <1>1, ReturnStep DEF CancelFailedCheckout
<1>4. req'[r].pc = "idle"
    BY <1>3 DEF Idle, Request
<1>5. RequestInv(r)'
    BY <1>4 DEF RequestInv, At
<1> QED BY <1>2, <1>3, <1>4, <1>5, StatusInv, PendingAndCancelled
        DEF CancelFailedCheckout

\* A step that places an order somebody at the counter vouches for.
LEMMA VouchedInv ==
    ASSUME OrdersInv, NEW r \in Requests, NEW o \in Orders, PlaceOrder(o),
           vouched' = vouched \cup {o}, Return(r),
           UNCHANGED <<payment, processed, provider>>
    PROVE  OrdersInv'
<1>1. req' \in [Requests -> RequestStates] /\ req'[r] = Idle /\ OthersUnchanged(r)
    BY ReturnStep DEF OrdersInv
<1>2. req'[r].pc = "idle"
    BY <1>1 DEF Idle, Request
<1>3. UNCHANGED <<issued, captured, failed>>
    BY DEF provider
<1>4. Monotone
    BY <1>3 DEF Monotone, PlaceOrder
<1>5. o \in Paid'
    BY DEF Paid
<1>6. PlacementInv' /\ usages' \in SUBSET Orders /\ usedCount' \in Nat
    BY <1>4, <1>5, OnePlaced
<1>7. TypeOK'
    BY <1>1, <1>3, <1>6, PendingAndCancelled
    DEF OrdersInv, TypeOK, PlaceOrder, SetStatus
<1>8. RequestsInv'
    <2>1. RequestInv(r)'
        BY <1>2 DEF RequestInv, At
    <2>2. \A q \in Requests \ {r} : At(q, "attach") => ~HasPayment(req[q].po)'
        BY <1>1 DEF OrdersInv, RequestsInv, RequestInv, At, HasPayment, OthersUnchanged
    <2> QED BY <1>1, <1>4, <2>1, <2>2, OthersKeepInv
<1>9. AttachInv'
    BY <1>1, <1>2 DEF OrdersInv, AttachInv, At, OthersUnchanged
<1>10. PaymentsInv'
    BY <1>3 DEF OrdersInv, PaymentsInv, PaymentInv, HasPayment, HasFailedAttempt
<1> QED BY <1>6, <1>7, <1>8, <1>9, <1>10 DEF OrdersInv

LEMMA CollectAtCounterInv ==
    ASSUME OrdersInv, NEW r \in Requests, CollectAtCounter(r)
    PROVE  OrdersInv'
<1>1. RequestInv(r)
    BY DEF OrdersInv, RequestsInv
<1>2. PICK o \in Orders : o = req[r].o
    BY <1>1 DEF CollectAtCounter, RequestInv, At
<1> QED BY <1>2, VouchedInv DEF CollectAtCounter

LEMMA UpdateStatusInv ==
    ASSUME OrdersInv, NEW r \in Requests, UpdateStatus(r)
    PROVE  OrdersInv'
<1>1. TypeOK /\ RequestInv(r)
    BY DEF OrdersInv, RequestsInv
<1>2. PICK o \in Orders : o = req[r].o
    BY <1>1 DEF UpdateStatus, RequestInv, At
<1>3. /\ req[r].from \in OrderStatuses
      /\ req[r].to \in AllowedStatusUpdates(req[r].from)
      /\ req[r].from \in KitchenStatuses => o \in placedAt
    BY <1>1, <1>2 DEF UpdateStatus, RequestInv, At
<1>4. CASE req[r].to = "PLACED"
    BY <1>2, <1>4, VouchedInv DEF UpdateStatus
<1>5. CASE req[r].to # "PLACED"
    <2>1. /\ req[r].to \in OrderStatuses
          /\ req[r].to \in KitchenStatuses => o \in placedAt
        BY <1>3, <1>5
        DEF AllowedStatusUpdates, AdminStatusTransitions, OrderStatuses,
            KitchenStatuses, ReadyForPickup
    <2>2. req' \in [Requests -> RequestStates] /\ req'[r] = Idle /\ OthersUnchanged(r)
        BY <1>1, ReturnStep DEF UpdateStatus
    <2>3. req'[r].pc = "idle"
        BY <2>2 DEF Idle, Request
    <2>4. RequestInv(r)'
        BY <2>3 DEF RequestInv, At
    <2> QED BY <1>2, <1>5, <2>1, <2>2, <2>3, <2>4, StatusInv DEF UpdateStatus
<1> QED BY <1>4, <1>5

LEMMA CompleteOrderInv ==
    ASSUME OrdersInv, NEW r \in Requests, CompleteOrder(r)
    PROVE  OrdersInv'
<1>1. TypeOK /\ RequestInv(r)
    BY DEF OrdersInv, RequestsInv
<1>2. PICK o \in placedAt : o = req[r].o /\ o \in Orders
    BY <1>1 DEF CompleteOrder, RequestInv, At
<1>3. req' \in [Requests -> RequestStates] /\ req'[r] = Idle /\ OthersUnchanged(r)
    BY <1>1, ReturnStep DEF CompleteOrder
<1>4. req'[r].pc = "idle"
    BY <1>3 DEF Idle, Request
<1>5. RequestInv(r)'
    BY <1>4 DEF RequestInv, At
<1> QED BY <1>2, <1>3, <1>4, <1>5, StatusInv, PendingAndCancelled DEF CompleteOrder

(***************************************************************************)
(* Settlement steps that write.                                            *)
(***************************************************************************)

\* Recording a payment that the provider captured, or one that failed.
LEMMA RecordPayment ==
    ASSUME OrdersInv, NEW po \in ProviderOrders, NEW pid \in PaymentIds, NEW s,
           HasPayment(po),
           \/ s = "CAPTURED" /\ captured[po] = pid
           \/ s = "FAILED" /\ <<po, pid>> \in failed,
           payment' = [payment EXCEPT ![po] =
                [order |-> payment[po].order, status |-> s, pid |-> pid]],
           placedAt \subseteq placedAt', vouched \subseteq vouched',
           UNCHANGED <<processed, provider>>
    PROVE  /\ payment' \in [ProviderOrders -> PaymentRows]
           /\ payment'[po].order = payment[po].order
           /\ PaymentsInv'
           /\ Monotone
           /\ \A p \in ProviderOrders : HasPayment(p)' <=> HasPayment(p)
<1> DEFINE row == [order |-> payment[po].order, status |-> s, pid |-> pid]
<1>1. TypeOK /\ PaymentsInv
    BY DEF OrdersInv
<1>2. row \in PaymentRows
    BY <1>1 DEF TypeOK, PaymentRows, PaymentStatuses
<1>3. /\ payment' \in [ProviderOrders -> PaymentRows]
      /\ payment'[po].order = payment[po].order
      /\ payment'[po].status = s
      /\ payment'[po].pid = pid
      /\ \A p \in ProviderOrders \ {po} : payment'[p] = payment[p]
    BY <1>1, <1>2 DEF TypeOK
<1>4. UNCHANGED <<issued, captured, failed>>
    BY DEF provider
<1>5. PaymentInv(po)'
    <2>1. PaymentInv(po)
        BY <1>1 DEF PaymentsInv
    <2> QED BY <1>3, <1>4, <2>1, OrdersAssumption
            DEF PaymentInv, HasPayment, HasFailedAttempt
<1>6. \A p \in ProviderOrders \ {po} : PaymentInv(p)'
    BY <1>1, <1>3, <1>4 DEF PaymentsInv, PaymentInv, HasPayment, HasFailedAttempt
<1>7. PaymentsInv'
    BY <1>5, <1>6 DEF PaymentsInv
<1>8. Monotone
    BY <1>3, <1>4 DEF Monotone
<1>9. \A p \in ProviderOrders : HasPayment(p)' <=> HasPayment(p)
    BY <1>3 DEF HasPayment
<1> QED BY <1>3, <1>7, <1>8, <1>9

LEMMA FinalizePaidOrderInv ==
    ASSUME OrdersInv, NEW r \in Requests, FinalizePaidOrder(r)
    PROVE  OrdersInv'
<1>1. TypeOK /\ RequestInv(r) /\ PaymentsInv /\ At(r, "commit")
    BY DEF OrdersInv, RequestsInv, FinalizePaidOrder
<1>2. PICK po \in ProviderOrders, pid \in PaymentIds :
            /\ po = req[r].po
            /\ pid = req[r].pid
            /\ captured[po] = pid
    BY <1>1 DEF RequestInv, At
<1>3. HasPayment(po)
    <2>1. captured[po] # None
        BY <1>2, OrdersAssumption
    <2>2. PaymentInv(po)
        BY <1>1 DEF PaymentsInv
    <2> QED BY <2>1, <2>2 DEF PaymentInv
<1>4. PICK o \in Orders : o = payment[po].order
    BY <1>1, <1>2, <1>3 DEF HasPayment, TypeOK, PaymentRows
<1>5. /\ payment' = [payment EXCEPT ![po] =
                [order |-> payment[po].order, status |-> "CAPTURED", pid |-> pid]]
      /\ \/ status[o] = "PENDING_PAYMENT" /\ PlaceOrder(o)
         \/ UNCHANGED <<status, placedAt, usages, usedCount>>
      /\ Return(r) \/ Goto(r, "mark")
      /\ UNCHANGED <<processed, provider, vouched>>
    BY <1>2, <1>4 DEF FinalizePaidOrder
<1>6. UNCHANGED <<issued, captured, failed>>
    BY <1>5 DEF provider
<1>7. /\ req' \in [Requests -> RequestStates]
      /\ OthersUnchanged(r)
      /\ req'[r] = Idle \/ req'[r] = [req[r] EXCEPT !.pc = "mark"]
    BY <1>1, <1>5, ReturnStep, GotoStep DEF Steps
<1>8. \/ req'[r].pc = "idle"
      \/ req'[r].pc = "mark" /\ req'[r].po = po /\ req'[r].pid = pid
    BY <1>1, <1>2, <1>7 DEF Idle, Request, TypeOK, RequestStates
<1>9. /\ payment' \in [ProviderOrders -> PaymentRows]
      /\ payment'[po].order = o
      /\ PaymentsInv'
      /\ Monotone
      /\ \A p \in ProviderOrders : HasPayment(p)' <=> HasPayment(p)
    <2>1. placedAt \subseteq placedAt'
        BY <1>5 DEF PlaceOrder
    <2> QED BY <1>2, <1>3, <1>4, <1>5, <2>1, RecordPayment
<1>10. payment'[po].status = "CAPTURED"
    BY <1>1, <1>2, <1>5 DEF TypeOK
<1>11. o \in Paid'
    BY <1>2, <1>6, <1>9, OrdersAssumption DEF Paid, PaymentsOf
<1>12. PlacementInv' /\ TypeOK'
    <2>1. CASE PlaceOrder(o)
        <3>1. PlacementInv' /\ usages' \in SUBSET Orders /\ usedCount' \in Nat
            BY <1>9, <1>11, <2>1, OnePlaced
        <3> QED BY <1>1, <1>5, <1>6, <1>7, <1>9, <2>1, <3>1, PendingAndCancelled
                DEF TypeOK, PlaceOrder, SetStatus
    <2>2. CASE UNCHANGED <<status, placedAt, usages, usedCount>>
        <3>1. PlacementInv'
            BY <1>9, <2>2, NonePlaced
        <3> QED BY <1>1, <1>5, <1>6, <1>7, <1>9, <2>2, <3>1 DEF TypeOK
    <2> QED BY <1>5, <2>1, <2>2
<1>13. RequestsInv'
    <2>1. RequestInv(r)'
        BY <1>2, <1>6, <1>8, <1>10 DEF RequestInv, At
    <2>2. \A q \in Requests \ {r} : At(q, "attach") => ~HasPayment(req[q].po)'
        BY <1>7, <1>9 DEF OrdersInv, RequestsInv, RequestInv, At, HasPayment, OthersUnchanged
    <2> QED BY <1>7, <1>9, <2>1, <2>2, OthersKeepInv
<1>14. AttachInv'
    BY <1>7, <1>8 DEF OrdersInv, AttachInv, At, OthersUnchanged
<1> QED BY <1>9, <1>12, <1>13, <1>14 DEF OrdersInv

LEMMA MarkPaymentFailedInv ==
    ASSUME OrdersInv, NEW r \in Requests, MarkPaymentFailed(r)
    PROVE  OrdersInv'
<1>1. TypeOK /\ RequestInv(r) /\ PaymentsInv /\ At(r, "failWrite")
    BY DEF OrdersInv, RequestsInv, MarkPaymentFailed
<1>2. PICK po \in ProviderOrders, pid \in PaymentIds :
            /\ po = req[r].po
            /\ pid = req[r].pid
            /\ <<po, pid>> \in failed
    BY <1>1 DEF RequestInv, At
<1>3. HasPayment(po)
    BY <1>1, <1>2 DEF PaymentsInv, PaymentInv, HasFailedAttempt
<1>4. /\ payment' = [payment EXCEPT ![po] =
                [order |-> payment[po].order, status |-> "FAILED", pid |-> pid]]
      /\ Goto(r, "mark")
      /\ UNCHANGED <<status, placedAt, processed, usages, usedCount, provider,
                     vouched>>
    BY <1>1, <1>2 DEF MarkPaymentFailed, TypeOK
<1>5. UNCHANGED <<issued, captured, failed>>
    BY <1>4 DEF provider
<1>6. /\ req' \in [Requests -> RequestStates]
      /\ OthersUnchanged(r)
      /\ req'[r] = [req[r] EXCEPT !.pc = "mark"]
    BY <1>1, <1>4, GotoStep DEF Steps
<1>7. req'[r].pc = "mark" /\ req'[r].po = po /\ req'[r].pid = pid
    BY <1>1, <1>2, <1>6 DEF TypeOK, RequestStates
<1>8. /\ payment' \in [ProviderOrders -> PaymentRows]
      /\ PaymentsInv'
      /\ Monotone
      /\ \A p \in ProviderOrders : HasPayment(p)' <=> HasPayment(p)
    BY <1>2, <1>3, <1>4, RecordPayment
<1>9. TypeOK'
    BY <1>1, <1>4, <1>5, <1>6, <1>8 DEF TypeOK
<1>10. RequestsInv'
    <2>1. RequestInv(r)'
        BY <1>2, <1>5, <1>7 DEF RequestInv, At
    <2>2. \A q \in Requests \ {r} : At(q, "attach") => ~HasPayment(req[q].po)'
        BY <1>6, <1>8 DEF OrdersInv, RequestsInv, RequestInv, At, HasPayment, OthersUnchanged
    <2> QED BY <1>6, <1>8, <2>1, <2>2, OthersKeepInv
<1>11. AttachInv'
    BY <1>6, <1>7 DEF OrdersInv, AttachInv, At, OthersUnchanged
<1>12. PlacementInv'
    BY <1>4, <1>8, NonePlaced
<1> QED BY <1>8, <1>9, <1>10, <1>11, <1>12 DEF OrdersInv

LEMMA MarkWebhookProcessedInv ==
    ASSUME OrdersInv, NEW r \in Requests, MarkWebhookProcessed(r)
    PROVE  OrdersInv'
<1>1. TypeOK /\ RequestInv(r) /\ PaymentsInv /\ At(r, "mark")
    BY DEF OrdersInv, RequestsInv, MarkWebhookProcessed
<1>2. PICK po \in ProviderOrders, pid \in PaymentIds :
            /\ po = req[r].po
            /\ pid = req[r].pid
            /\ \/ <<po, pid>> \in failed
               \/ captured[po] = pid /\ payment[po].status # "CREATED"
    BY <1>1 DEF RequestInv, At
<1>3. /\ processed' = processed \cup {<<po, pid>>}
      /\ Return(r)
      /\ UNCHANGED <<status, placedAt, payment, usages, usedCount, vouched>>
      /\ UNCHANGED <<issued, captured, failed>>
    BY <1>2 DEF MarkWebhookProcessed, provider
<1>4. req' \in [Requests -> RequestStates] /\ req'[r] = Idle /\ OthersUnchanged(r)
    BY <1>1, <1>3, ReturnStep
<1>5. req'[r].pc = "idle"
    BY <1>4 DEF Idle, Request
<1>6. TypeOK'
    BY <1>1, <1>3, <1>4 DEF TypeOK
<1>7. Monotone
    BY <1>3 DEF Monotone
<1>8. RequestsInv'
    <2>1. RequestInv(r)'
        BY <1>5 DEF RequestInv, At
    <2>2. \A q \in Requests \ {r} : At(q, "attach") => ~HasPayment(req[q].po)'
        BY <1>3, <1>4 DEF OrdersInv, RequestsInv, RequestInv, At, HasPayment, OthersUnchanged
    <2> QED BY <1>4, <1>7, <2>1, <2>2, OthersKeepInv
<1>9. AttachInv'
    BY <1>4, <1>5 DEF OrdersInv, AttachInv, At, OthersUnchanged
<1>10. PaymentsInv'
    BY <1>1, <1>2, <1>3 DEF PaymentsInv, PaymentInv, HasPayment, HasFailedAttempt
<1>11. PlacementInv'
    BY <1>3, <1>7, NonePlaced
<1> QED BY <1>6, <1>8, <1>9, <1>10, <1>11 DEF OrdersInv

(***************************************************************************)
(* Steps of the customer at the provider.                                  *)
(***************************************************************************)

LEMMA CustomerInv ==
    ASSUME OrdersInv, Customer
    PROVE  OrdersInv'
<1>1. TypeOK /\ PaymentsInv /\ PlacementInv /\ RequestsInv
    BY DEF OrdersInv
<1>2. PICK po \in ProviderOrders, pid \in PaymentIds :
            CustomerPays(po, pid) \/ CustomerPaymentFails(po, pid)
    BY DEF Customer
<1>3. /\ UNCHANGED <<status, placedAt, payment, processed, usages, usedCount>>
      /\ UNCHANGED <<req, issued, vouched>>
      /\ payment[po] # NoPayment
      /\ captured[po] = None
      /\ <<po, pid>> \notin failed
      /\ \/ captured' = [captured EXCEPT ![po] = pid] /\ failed' = failed
         \/ captured' = captured /\ failed' = failed \cup {<<po, pid>>}
    BY <1>2 DEF CustomerPays, CustomerPaymentFails, rows
<1>4. HasPayment(po)
    BY <1>1, <1>3 DEF PaymentsInv, PaymentInv
<1>5. /\ failed \subseteq failed'
      /\ \A p \in ProviderOrders : captured[p] # None => captured'[p] = captured[p]
      /\ \A p \in ProviderOrders \ {po} : captured'[p] = captured[p]
      /\ captured'[po] \in {None, pid}
      /\ captured'[po] = pid => failed' = failed
      /\ captured' \in [ProviderOrders -> PaymentIds \cup {None}]
      /\ \A p \in ProviderOrders \ {po}, x \in PaymentIds :
            <<p, x>> \in failed' => <<p, x>> \in failed
    BY <1>1, <1>3, OrdersAssumption DEF TypeOK
<1>6. TypeOK'
    BY <1>1, <1>3, <1>5 DEF TypeOK
<1>7. Monotone
    BY <1>3, <1>5 DEF Monotone
<1>8. RequestsInv'
    <2> SUFFICES ASSUME NEW r \in Requests PROVE RequestInv(r)'
        BY DEF RequestsInv
    <2>1. RequestInv(r)
        BY <1>1 DEF RequestsInv
    <2>2. req[r].pc \in {"find", "commit"} => captured[req[r].po] # None
        BY <2>1, OrdersAssumption DEF RequestInv
    <2>3. At(r, "mark") /\ captured[req[r].po] = req[r].pid => captured[req[r].po] # None
        BY <2>1, OrdersAssumption DEF RequestInv, At
    <2> QED BY <1>3, <1>5, <2>1, <2>2, <2>3 DEF RequestInv, At, HasPayment
<1>9. AttachInv'
    BY <1>3 DEF OrdersInv, AttachInv, At
<1>10. PaymentsInv'
    <2>1. PaymentInv(po)'
        <3>1. PaymentInv(po)
            BY <1>1 DEF PaymentsInv
        <3> QED BY <1>3, <1>4, <1>5, <3>1, OrdersAssumption
                DEF PaymentInv, HasPayment, HasFailedAttempt
    <2>2. ASSUME NEW p \in ProviderOrders \ {po} PROVE PaymentInv(p)'
        <3>1. PaymentInv(p)
            BY <1>1 DEF PaymentsInv
        <3> QED BY <1>1, <1>3, <1>5, <3>1 DEF PaymentInv, HasPayment, HasFailedAttempt, TypeOK
    <2> QED BY <2>1, <2>2 DEF PaymentsInv
<1>11. PlacementInv'
    BY <1>3, <1>7, NonePlaced
<1> QED BY <1>6, <1>8, <1>9, <1>10, <1>11 DEF OrdersInv

(***************************************************************************)
(* Every step keeps the invariant.                                         *)
(***************************************************************************)

LEMMA ContinueInv ==
    ASSUME OrdersInv, NEW r \in Requests, Continue(r)
    PROVE  OrdersInv'
<1>1. CASE CheckoutFails(r)
    BY <1>1, GotoInv DEF CheckoutFails, Steps
<1>2. CASE FindPayment(r)
    BY <1>2, GotoInv, ReturnInv DEF FindPayment, Steps
<1>3. CASE ReadFailedPayment(r)
    BY <1>3, GotoInv DEF ReadFailedPayment, Steps
<1>4. CASE Abort(r)
    BY <1>4, ReturnInv DEF Abort
<1> QED BY <1>1, <1>2, <1>3, <1>4, CreateOrderInv, RevivePendingInv,
           CallProviderInv, AttachPaymentInv, CancelFailedCheckoutInv,
           CollectAtCounterInv, FinalizePaidOrderInv, MarkPaymentFailedInv,
           MarkWebhookProcessedInv, UpdateStatusInv, CompleteOrderInv
        DEF Continue

LEMMA StutterInv ==
    ASSUME OrdersInv, UNCHANGED vars
    PROVE  OrdersInv'
<1>1. UNCHANGED <<status, placedAt, payment, processed, usages, usedCount, req,
                  issued, captured, failed, vouched>>
    BY DEF vars, rows, provider
<1>2. TypeOK' /\ AttachInv' /\ PlacementInv'
    BY <1>1 DEF OrdersInv, TypeOK, AttachInv, At, PlacementInv, Paid, PaymentsOf
<1>3. RequestsInv'
    BY <1>1 DEF OrdersInv, RequestsInv, RequestInv, At, HasPayment
<1>4. PaymentsInv'
    BY <1>1 DEF OrdersInv, PaymentsInv, PaymentInv, HasPayment, HasFailedAttempt
<1> QED BY <1>2, <1>3, <1>4 DEF OrdersInv

LEMMA NextInv == OrdersInv /\ [Next]_vars => OrdersInv'
BY StartInv, ContinueInv, CustomerInv, StutterInv DEF Next

\* Whatever requests interleave, the rows of the order service and what its
\* requests have read stay related as OrdersInv says.
THEOREM Invariance == Spec => []OrdersInv
BY InitInv, NextInv, PTL DEF Spec

(***************************************************************************)
(* The properties that the invariant implies.                              *)
(***************************************************************************)

\* The rows keep the types of the schema, and requests stay within Steps.
THEOREM TypeCorrect == Spec => []TypeOK
<1>1. OrdersInv => TypeOK
    BY DEF OrdersInv
<1> QED BY <1>1, Invariance, PTL

\* No interleaving of checkout, settlement, status updates and pickup brings
\* an order into the kitchen that was not placed and paid for.
THEOREM KitchenSafety == Spec => []KitchenOrdersAreSettled
<1>1. OrdersInv => KitchenOrdersAreSettled
    BY DEF OrdersInv, PlacementInv, KitchenOrdersAreSettled
<1> QED BY <1>1, Invariance, PTL

\* A payment row shown as captured carries the payment the provider captured,
\* however confirmations, recoveries and webhooks race.
THEOREM CaptureSafety == Spec => []CapturedRowsMatchProvider
<1>1. OrdersInv => CapturedRowsMatchProvider
    BY DEF OrdersInv, PaymentsInv, PaymentInv, CapturedRowsMatchProvider
<1> QED BY <1>1, Invariance, PTL

\* The coupon counts every placed order that carries it once, whichever of
\* the three placing transactions got there first.
THEOREM RedemptionSafety == Spec => []RedemptionsAreCountedOnce
<1>1. OrdersInv => RedemptionsAreCountedOnce
    BY DEF OrdersInv, PlacementInv, RedemptionsAreCountedOnce
<1> QED BY <1>1, Invariance, PTL

\* The webhook never acknowledges a capture that the payment row does not
\* show, unless a failed attempt was reported on the same provider order.
THEOREM AcknowledgementSafety == Spec => []AcknowledgedCapturesAreRecorded
<1>1. OrdersInv => AcknowledgedCapturesAreRecorded
    <2> SUFFICES ASSUME OrdersInv, NEW po \in ProviderOrders,
                        captured[po] # None, <<po, captured[po]>> \in processed
                 PROVE  \/ payment[po].status = "CAPTURED"
                        \/ HasFailedAttempt(po) /\ payment[po].status = "FAILED"
        BY DEF AcknowledgedCapturesAreRecorded
    <2>1. TypeOK /\ PaymentInv(po)
        BY DEF OrdersInv, PaymentsInv
    <2>2. captured[po] \in PaymentIds
        BY <2>1 DEF TypeOK
    <2>3. payment[po].status \in {"CAPTURED", "FAILED"}
        BY <2>1, <2>2 DEF PaymentInv, TypeOK, PaymentRows, PaymentStatuses
    <2>4. payment[po].status = "FAILED" => HasFailedAttempt(po)
        BY <2>1 DEF PaymentInv, TypeOK, HasFailedAttempt
    <2> QED BY <2>3, <2>4
<1> QED BY <1>1, Invariance, PTL

\* A payment id that blocks the settlement of a captured payment can only come
\* from the report of a failed attempt.
THEOREM SettlementSafety == Spec => []CleanCapturesCanSettle
<1>1. OrdersInv => CleanCapturesCanSettle
    <2> SUFFICES ASSUME OrdersInv, NEW po \in ProviderOrders,
                        captured[po] # None, ~HasFailedAttempt(po)
                 PROVE  ~PaymentConflict(po, captured[po])
        BY DEF CleanCapturesCanSettle
    <2>1. TypeOK /\ PaymentInv(po)
        BY DEF OrdersInv, PaymentsInv
    <2>2. payment[po].status \in {"CREATED", "CAPTURED"}
        BY <2>1 DEF PaymentInv, TypeOK, PaymentRows, PaymentStatuses, HasFailedAttempt
    <2> QED BY <2>1, <2>2 DEF PaymentInv, PaymentConflict
<1> QED BY <1>1, Invariance, PTL

-------------------------------------------------------------------------------
(***************************************************************************)
(* What the steps of Orders do, and may never do, to the payment rows and  *)
(* the placed orders: payment rows are stable, placing an order keeps the  *)
(* promises of Placement, and payments are not added to an order that has  *)
(* one by requests that come later.                                        *)
(***************************************************************************)

(***************************************************************************)
(* Most steps leave the payment rows and the placed orders alone.          *)
(***************************************************************************)
Quiet ==
    UNCHANGED <<payment, captured, vouched, placedAt, usages, usedCount>>

Recording(r) ==
    \/ AttachPayment(r)
    \/ CollectAtCounter(r)
    \/ FinalizePaidOrder(r)
    \/ MarkPaymentFailed(r)
    \/ UpdateStatus(r)

Capturing ==
    \E po \in ProviderOrders, pid \in PaymentIds : CustomerPays(po, pid)

LEMMA StartIsQuiet ==
    ASSUME NEW r \in Requests, Start(r)
    PROVE  Quiet
BY DEF Start, StartCheckout, StartCashCheckout, StartCounterOrder, RecoverOnRead,
       VerifyPickup, ReadStatus, ConfirmPayment, WebhookCaptured, WebhookFailed,
       rows, provider, Quiet

LEMMA ContinueIsQuiet ==
    ASSUME NEW r \in Requests, Continue(r)
    PROVE  Quiet \/ Recording(r)
<1>1. CASE CallProvider(r)
    BY <1>1 DEF CallProvider, rows, Quiet
<1>2. CASE CreateOrder(r) \/ RevivePending(r) \/ CancelFailedCheckout(r)
    BY <1>2 DEF CreateOrder, RevivePending, CancelFailedCheckout, provider, Quiet
<1>3. CASE CheckoutFails(r) \/ FindPayment(r) \/ ReadFailedPayment(r) \/ Abort(r)
    BY <1>3 DEF CheckoutFails, FindPayment, ReadFailedPayment, Abort, rows, provider, Quiet
<1>4. CASE MarkWebhookProcessed(r) \/ CompleteOrder(r)
    BY <1>4 DEF MarkWebhookProcessed, CompleteOrder, provider, Quiet
<1> QED BY <1>1, <1>2, <1>3, <1>4 DEF Continue, Recording

LEMMA NextIsQuiet ==
    ASSUME [Next]_vars
    PROVE  Quiet \/ Capturing \/ \E r \in Requests : Recording(r)
<1>1. CASE Customer
    BY <1>1 DEF Customer, CustomerPays, CustomerPaymentFails, Capturing, rows, Quiet
<1>2. CASE UNCHANGED vars
    BY <1>2 DEF vars, rows, provider, Quiet
<1> QED BY <1>1, <1>2, StartIsQuiet, ContinueIsQuiet DEF Next

(***************************************************************************)
(* Placing orders, against Placement.                                      *)
(***************************************************************************)

LEMMA PaidSame ==
    ASSUME \A po \in ProviderOrders : payment'[po].order = payment[po].order,
           captured' = captured, vouched' = vouched
    PROVE  Paid' = Paid
BY DEF Paid, PaymentsOf

LEMMA PaidWithVouched ==
    ASSUME payment' = payment, captured' = captured, NEW o, vouched' = vouched \cup {o}
    PROVE  Paid' = Paid \cup {o}
BY DEF Paid, PaymentsOf

\* Placing an order that was placed before changes nothing of the ledger.
LEMMA PlaceOrderIsPlace ==
    ASSUME OrdersInv, NEW o \in Orders, PlaceOrder(o),
           Paid' = Paid \/ Paid' = Paid \cup {o}, o \in Paid'
    PROVE  [Ledger!Next]_Ledger!vars
<1>1. usages = placedAt \cap CouponOrders
    BY DEF OrdersInv, PlacementInv
<1>2. placedAt' = placedAt \cup {o} /\ Redeem(o)
    BY DEF PlaceOrder
<1>3. CASE o \in placedAt
    <2>1. UNCHANGED <<placedAt, usages, usedCount>>
        BY <1>1, <1>2, <1>3 DEF Redeem
    <2> QED BY <2>1 DEF Ledger!Next, Ledger!Pay, Ledger!vars
<1>4. CASE o \notin placedAt
    <2>1. IF o \in CouponOrders
          THEN usages' = usages \cup {o} /\ usedCount' = usedCount + 1
          ELSE UNCHANGED <<usages, usedCount>>
        BY <1>1, <1>2, <1>4 DEF Redeem
    <2>2. Ledger!Place(o)
        BY <1>2, <1>4, <2>1 DEF Ledger!Place
    <2> QED BY <2>2 DEF Ledger!Next
<1> QED BY <1>3, <1>4

LEMMA CapturingIsPay ==
    ASSUME OrdersInv, Capturing
    PROVE  [Ledger!Next]_Ledger!vars
<1>1. TypeOK /\ PaymentsInv
    BY DEF OrdersInv
<1>2. PICK po \in ProviderOrders, pid \in PaymentIds : CustomerPays(po, pid)
    BY DEF Capturing
<1>3. /\ UNCHANGED <<payment, vouched, placedAt, usages, usedCount>>
      /\ payment[po] # NoPayment
      /\ captured' = [captured EXCEPT ![po] = pid]
    BY <1>2 DEF CustomerPays, rows
<1>4. HasPayment(po)
    BY <1>1, <1>3 DEF PaymentsInv, PaymentInv
<1>5. PICK o \in Orders : o = payment[po].order
    BY <1>1, <1>4 DEF HasPayment, TypeOK, PaymentRows
<1>6. \A p \in ProviderOrders :
        captured'[p] # None <=> captured[p] # None \/ p = po
    BY <1>1, <1>3, OrdersAssumption DEF TypeOK
<1>7. Paid' = Paid \cup {o}
    BY <1>3, <1>5, <1>6 DEF Paid, PaymentsOf
<1>8. Ledger!Pay(o)
    BY <1>3, <1>7 DEF Ledger!Pay
<1> QED BY <1>8 DEF Ledger!Next

LEMMA RecordingIsLedgerStep ==
    ASSUME OrdersInv, NEW r \in Requests, Recording(r)
    PROVE  [Ledger!Next]_Ledger!vars
<1>1. TypeOK /\ PaymentsInv /\ RequestInv(r)
    BY DEF OrdersInv, RequestsInv
<1>2. CASE AttachPayment(r)
    <2>1. PICK po \in ProviderOrders, o \in Orders :
            /\ po = req[r].po
            /\ o = req[r].o
            /\ captured[po] = None
        BY <1>1, <1>2 DEF AttachPayment, RequestInv, At, PaymentsInv, PaymentInv
    <2>2. \A p \in ProviderOrders \ {po} : payment'[p] = payment[p]
        BY <1>1, <1>2, <2>1 DEF AttachPayment, TypeOK
    <2>3. UNCHANGED <<captured, vouched, placedAt, usages, usedCount>>
        BY <1>2 DEF AttachPayment, provider
    <2>4. Paid' = Paid
        BY <2>1, <2>2, <2>3 DEF Paid, PaymentsOf
    <2> QED BY <2>3, <2>4 DEF Ledger!vars
<1>3. CASE MarkPaymentFailed(r)
    <2>1. \A po \in ProviderOrders : payment'[po].order = payment[po].order
        BY <1>1, <1>3 DEF MarkPaymentFailed, TypeOK
    <2>2. UNCHANGED <<captured, vouched, placedAt, usages, usedCount>>
        BY <1>3 DEF MarkPaymentFailed, provider
    <2> QED BY <2>1, <2>2, PaidSame DEF Ledger!vars
<1>4. CASE FinalizePaidOrder(r)
    <2>1. PICK po \in ProviderOrders :
            po = req[r].po /\ captured[po] # None /\ HasPayment(po)
        <3>1. PICK po \in ProviderOrders : po = req[r].po /\ captured[po] # None
            BY <1>1, <1>4, OrdersAssumption DEF FinalizePaidOrder, RequestInv, At
        <3> QED BY <1>1, <3>1 DEF PaymentsInv, PaymentInv
    <2>2. PICK o \in Orders : o = payment[po].order
        BY <1>1, <2>1 DEF HasPayment, TypeOK, PaymentRows
    <2>3. \A p \in ProviderOrders : payment'[p].order = payment[p].order
        BY <1>1, <1>4, <2>1 DEF FinalizePaidOrder, TypeOK
    <2>4. UNCHANGED <<captured, vouched>>
        BY <1>4 DEF FinalizePaidOrder, provider
    <2>5. Paid' = Paid
        BY <2>3, <2>4, PaidSame
    <2>6. o \in Paid'
        BY <2>1, <2>2, <2>5 DEF Paid, PaymentsOf
    <2>7. PlaceOrder(o) \/ UNCHANGED <<status, placedAt, usages, usedCount>>
        BY <1>4, <2>1, <2>2 DEF FinalizePaidOrder
    <2> QED BY <2>5, <2>6, <2>7, PlaceOrderIsPlace DEF Ledger!vars
<1>5. ASSUME NEW o \in Orders, PlaceOrder(o), vouched' = vouched \cup {o},
             UNCHANGED <<payment, provider>>
      PROVE  [Ledger!Next]_Ledger!vars
    BY <1>5, PaidWithVouched, PlaceOrderIsPlace DEF provider
<1>6. CASE CollectAtCounter(r)
    BY <1>1, <1>5, <1>6 DEF CollectAtCounter, RequestInv, At
<1>7. CASE UpdateStatus(r)
    <2>1. req[r].o \in Orders
        BY <1>1, <1>7 DEF UpdateStatus, RequestInv, At
    <2>2. CASE req[r].to = "PLACED"
        BY <1>5, <1>7, <2>1, <2>2 DEF UpdateStatus
    <2>3. CASE req[r].to # "PLACED"
        BY <1>7, <2>3, PaidSame DEF UpdateStatus, provider, Ledger!vars
    <2> QED BY <2>2, <2>3
<1> QED BY <1>2, <1>3, <1>4, <1>6, <1>7 DEF Recording

\* Confirmation, recovery, webhook, counter and administrator together place an
\* order at most once, only after somebody vouched for its payment, and count
\* its coupon in the same step: the order service implements Placement.
THEOREM LedgerRefinement == Spec => LedgerSpec
<1>1. Init => Ledger!Init
    BY DEF Init, Ledger!Init, Paid, PaymentsOf
<1>2. OrdersInv /\ [Next]_vars => [Ledger!Next]_Ledger!vars
    <2> SUFFICES ASSUME OrdersInv, [Next]_vars PROVE [Ledger!Next]_Ledger!vars
        OBVIOUS
    <2>1. CASE Quiet
        BY <2>1, PaidSame DEF Quiet, Ledger!vars
    <2> QED BY <2>1, NextIsQuiet, CapturingIsPay, RecordingIsLedgerStep
<1> QED BY <1>1, <1>2, Invariance, PTL DEF Spec, LedgerSpec, Ledger!Spec

(***************************************************************************)
(* Payments of one checkout attempt.  Besides those that an order has, one *)
(* may come of every request that is on its way to the provider for it,    *)
(* and no request sets out once the order has a payment.                   *)
(***************************************************************************)
HeadedOut(q) == req[q].pc \in {"provider", "attach"}

OneEach(o) ==
    /\ IsFiniteSet(PaymentsOf(o))
    /\ Cardinality(PaymentsOf(o)) + Cardinality(Starting(o)) <= Cardinality(Requests)

OverlapInv ==
    /\ OrdersInv
    /\ \A o \in Orders : PaymentsOf(o) # {} => status[o] # NoOrder
    /\ \A o \in Orders : OneEach(o)

\* What request r does to the requests under way, unless it attaches a payment.
NoneSetsOut(r) ==
    /\ OthersUnchanged(r)
    /\ HeadedOut(r)' =>
        \/ HeadedOut(r) /\ req'[r].o = req[r].o
        \/ PaymentsOf(req'[r].o) = {}

LEMMA ReturnSetsNoneOut ==
    ASSUME TypeOK, NEW r \in Requests, Return(r)
    PROVE  NoneSetsOut(r)
BY ReturnStep DEF NoneSetsOut, HeadedOut, Idle, Request

LEMMA GotoSetsNoneOut ==
    ASSUME TypeOK, NEW r \in Requests, NEW step \in Steps, Goto(r, step),
           step = "provider" => PaymentsOf(req[r].o) = {},
           step # "attach"
    PROVE  NoneSetsOut(r)
<1>1. OthersUnchanged(r) /\ req'[r] = [req[r] EXCEPT !.pc = step]
    BY GotoStep
<1>2. req'[r].pc = step /\ req'[r].o = req[r].o
    BY <1>1 DEF TypeOK, RequestStates
<1> QED BY <1>1, <1>2 DEF NoneSetsOut, HeadedOut

LEMMA BeginSetsNoneOut ==
    ASSUME TypeOK, NEW r \in Requests, NEW step \in Steps, NEW o \in Orders,
           Begin(r, step, o), step = "provider" => PaymentsOf(o) = {},
           step # "attach"
    PROVE  NoneSetsOut(r)
<1>1. /\ req'[r] = Request(step, o, None, None, NoOrder, NoOrder, FALSE)
      /\ OthersUnchanged(r)
    BY BeginStep
<1>2. req'[r].pc = step /\ req'[r].o = o
    BY <1>1 DEF Request
<1> QED BY <1>1, <1>2 DEF NoneSetsOut, HeadedOut

LEMMA BeginSettlementSetsNoneOut ==
    ASSUME TypeOK, NEW r \in Requests, NEW step \in {"find", "failRead"},
           NEW po \in ProviderOrders, NEW pid \in PaymentIds,
           NEW webhook \in BOOLEAN, BeginSettlement(r, step, po, pid, webhook)
    PROVE  NoneSetsOut(r)
<1>1. step \in Steps
    BY DEF Steps
<1>2. /\ req'[r] = Request(step, None, po, pid, NoOrder, NoOrder, webhook)
      /\ OthersUnchanged(r)
    BY <1>1, BeginSettlementStep
<1>3. req'[r].pc = step
    BY <1>2 DEF Request
<1> QED BY <1>2, <1>3 DEF NoneSetsOut, HeadedOut

LEMMA StartSetsNoneOut ==
    ASSUME OrdersInv, NEW r \in Requests, Start(r)
    PROVE  NoneSetsOut(r)
<1>1. TypeOK
    BY DEF OrdersInv
<1>2. ASSUME NEW o \in Orders, StartCheckout(r, o) PROVE NoneSetsOut(r)
    BY <1>1, <1>2, BeginSetsNoneOut DEF StartCheckout, Steps
<1>3. ASSUME NEW o \in Orders, StartCashCheckout(r, o) PROVE NoneSetsOut(r)
    BY <1>1, <1>3, BeginSetsNoneOut DEF StartCashCheckout, Steps
<1>4. ASSUME NEW o \in Orders, StartCounterOrder(r, o) PROVE NoneSetsOut(r)
    BY <1>1, <1>4, BeginSetsNoneOut DEF StartCounterOrder, Steps
<1>5. ASSUME NEW o \in Orders, RecoverOnRead(r, o) PROVE NoneSetsOut(r)
    <2>1. PICK po \in ProviderOrders :
            /\ captured[po] # None
            /\ BeginSettlement(r, "find", po, captured[po], FALSE)
        BY <1>5 DEF RecoverOnRead, PaymentsOf, FindCapturedPayment
    <2>2. captured[po] \in PaymentIds
        BY <1>1, <2>1 DEF TypeOK
    <2> QED BY <1>1, <2>1, <2>2, BeginSettlementSetsNoneOut
<1>6. ASSUME NEW o \in Orders, VerifyPickup(r, o) PROVE NoneSetsOut(r)
    BY <1>1, <1>6, BeginSetsNoneOut DEF VerifyPickup, Steps
<1>7. ASSUME NEW o \in Orders, NEW s \in OrderStatuses, ReadStatus(r, o, s)
      PROVE  NoneSetsOut(r)
    <2>1. status[o] \in OrderStatuses
        BY <1>1, <1>7 DEF ReadStatus, TypeOK
    <2> DEFINE new == Request("update", o, None, None, status[o], s, FALSE)
    <2>2. new \in RequestStates
        BY <2>1, RequestType DEF Steps
    <2>3. req'[r] = new /\ OthersUnchanged(r)
        BY <1>1, <1>7, <2>2, UpdateType DEF ReadStatus
    <2> QED BY <2>3 DEF NoneSetsOut, HeadedOut, Request
<1>8. ASSUME NEW po \in ProviderOrders, ConfirmPayment(r, po) PROVE NoneSetsOut(r)
    BY <1>1, <1>8, BeginSettlementSetsNoneOut
    DEF ConfirmPayment, FindCapturedPayment, TypeOK
<1>9. ASSUME NEW po \in ProviderOrders, WebhookCaptured(r, po) PROVE NoneSetsOut(r)
    BY <1>1, <1>9, BeginSettlementSetsNoneOut DEF WebhookCaptured, TypeOK
<1>10. ASSUME NEW po \in ProviderOrders, NEW pid \in PaymentIds,
              WebhookFailed(r, po, pid)
       PROVE  NoneSetsOut(r)
    BY <1>1, <1>10, BeginSettlementSetsNoneOut DEF WebhookFailed
<1> QED BY <1>2, <1>3, <1>4, <1>5, <1>6, <1>7, <1>8, <1>9, <1>10 DEF Start

LEMMA ContinueSetsNoneOut ==
    ASSUME OverlapInv, NEW r \in Requests, Continue(r)
    PROVE  NoneSetsOut(r)
<1>1. TypeOK /\ RequestInv(r)
    BY DEF OverlapInv, OrdersInv, RequestsInv
<1>2. CASE CreateOrder(r)
    <2>1. CASE status[req[r].o] # NoOrder
        BY <1>1, <1>2, <2>1, ReturnSetsNoneOut DEF CreateOrder
    <2>2. CASE status[req[r].o] = NoOrder
        <3>1. PaymentsOf(req[r].o) = {}
            BY <1>1, <1>2, <2>2 DEF CreateOrder, RequestInv, OverlapInv
        <3>2. Return(r) \/ \E step \in {"provider", "collect"} : Goto(r, step)
            BY <1>2, <2>2 DEF CreateOrder
        <3> QED BY <1>1, <3>1, <3>2, ReturnSetsNoneOut, GotoSetsNoneOut DEF Steps
    <2> QED BY <2>1, <2>2
<1>3. CASE RevivePending(r)
    BY <1>1, <1>3, ReturnSetsNoneOut, GotoSetsNoneOut DEF RevivePending, Steps
<1>4. CASE CallProvider(r)
    <2>1. PICK po \in ProviderOrders :
            req' = [req EXCEPT ![r] =
                Request("attach", req[r].o, po, None, NoOrder, NoOrder, FALSE)]
        BY <1>1, <1>4 DEF CallProvider, TypeOK
    <2>2. At(r, "provider") /\ req[r].o \in Orders
        BY <1>1, <1>4 DEF CallProvider, RequestInv, At
    <2> DEFINE new == Request("attach", req[r].o, po, None, NoOrder, NoOrder, FALSE)
    <2>3. new \in RequestStates
        BY <2>2, RequestType DEF Steps
    <2>4. req'[r] = new /\ OthersUnchanged(r)
        BY <1>1, <2>1, <2>3, UpdateType
    <2> QED BY <2>2, <2>4 DEF NoneSetsOut, HeadedOut, Request, At
<1>5. CASE CheckoutFails(r) \/ FindPayment(r) \/ ReadFailedPayment(r)
    BY <1>1, <1>5, ReturnSetsNoneOut, GotoSetsNoneOut
    DEF CheckoutFails, FindPayment, ReadFailedPayment, Steps
<1>6. CASE FinalizePaidOrder(r) \/ MarkPaymentFailed(r)
    BY <1>1, <1>6, ReturnSetsNoneOut, GotoSetsNoneOut
    DEF FinalizePaidOrder, MarkPaymentFailed, Steps
<1>7. CASE \/ AttachPayment(r) \/ CancelFailedCheckout(r) \/ CollectAtCounter(r)
           \/ MarkWebhookProcessed(r) \/ UpdateStatus(r) \/ CompleteOrder(r)
           \/ Abort(r)
    BY <1>1, <1>7, ReturnSetsNoneOut
    DEF AttachPayment, CancelFailedCheckout, CollectAtCounter, MarkWebhookProcessed,
        UpdateStatus, CompleteOrder, Abort
<1> QED BY <1>2, <1>3, <1>4, <1>5, <1>6, <1>7 DEF Continue

\* A row once created stays.
LEMMA OrderRowsStay ==
    ASSUME OrdersInv, [Next]_vars, NEW o \in Orders, status[o] # NoOrder
    PROVE  status'[o] # NoOrder
<1>1. TypeOK
    BY DEF OrdersInv
<1>2. ASSUME NEW p, NEW s \in OrderStatuses, SetStatus(p, s) PROVE status'[o] # NoOrder
    BY <1>1, <1>2, OrdersAssumption DEF SetStatus, TypeOK
<1>3. CASE UNCHANGED status
    BY <1>3
<1>4. CASE Customer \/ UNCHANGED vars
    BY <1>3, <1>4 DEF Customer, CustomerPays, CustomerPaymentFails, vars, rows
<1>5. ASSUME NEW r \in Requests, Start(r) PROVE status'[o] # NoOrder
    BY <1>3, <1>5
    DEF Start, StartCheckout, StartCashCheckout, StartCounterOrder, RecoverOnRead,
        VerifyPickup, ReadStatus, ConfirmPayment, WebhookCaptured, WebhookFailed, rows
<1>6. ASSUME NEW r \in Requests, Continue(r) PROVE status'[o] # NoOrder
    <2>1. CASE \/ CallProvider(r) \/ CheckoutFails(r) \/ FindPayment(r)
               \/ ReadFailedPayment(r) \/ MarkPaymentFailed(r)
               \/ MarkWebhookProcessed(r) \/ Abort(r)
        BY <1>3, <2>1
        DEF CallProvider, CheckoutFails, FindPayment, ReadFailedPayment,
            MarkPaymentFailed, MarkWebhookProcessed, Abort, rows
    <2>2. CASE \/ CreateOrder(r) \/ RevivePending(r) \/ AttachPayment(r)
               \/ CancelFailedCheckout(r) \/ CollectAtCounter(r)
               \/ FinalizePaidOrder(r) \/ CompleteOrder(r)
        BY <1>2, <1>3, <2>2, PendingAndCancelled
        DEF CreateOrder, RevivePending, AttachPayment, CancelFailedCheckout,
            CollectAtCounter, FinalizePaidOrder, CompleteOrder, PlaceOrder
    <2>3. CASE UpdateStatus(r)
        <3>1. /\ req[r].from \in OrderStatuses
              /\ req[r].to \in AllowedStatusUpdates(req[r].from)
            BY <2>3 DEF OrdersInv, RequestsInv, UpdateStatus, RequestInv, At
        <3>2. req[r].to \in OrderStatuses
            BY <3>1 DEF AllowedStatusUpdates, AdminStatusTransitions, OrderStatuses
        <3> QED BY <1>2, <2>3, <3>2, PendingAndCancelled DEF UpdateStatus, PlaceOrder
    <2> QED BY <1>6, <2>1, <2>2, <2>3 DEF Continue
<1> QED BY <1>4, <1>5, <1>6 DEF Next

\* Only AttachPayment gives an order a payment.
LEMMA PaymentsStay ==
    ASSUME OrdersInv, [Next]_vars, \A r \in Requests : ~AttachPayment(r)
    PROVE  \A o : PaymentsOf(o)' = PaymentsOf(o)
<1> SUFFICES \A po \in ProviderOrders : payment'[po].order = payment[po].order
    BY DEF PaymentsOf
<1>1. CASE Quiet \/ Capturing
    BY <1>1 DEF Quiet, Capturing, CustomerPays, rows
<1>2. ASSUME NEW r \in Requests, CollectAtCounter(r) \/ UpdateStatus(r)
      PROVE  payment' = payment
    BY <1>2 DEF CollectAtCounter, UpdateStatus
<1>3. ASSUME NEW r \in Requests, FinalizePaidOrder(r) \/ MarkPaymentFailed(r)
      PROVE  \A po \in ProviderOrders : payment'[po].order = payment[po].order
    BY <1>3 DEF FinalizePaidOrder, MarkPaymentFailed, OrdersInv, TypeOK
<1> QED BY <1>1, <1>2, <1>3, NextIsQuiet DEF Recording

LEMMA AttachingKeepsOneEach ==
    ASSUME IsFiniteSet(Requests), OverlapInv, NEW r \in Requests, AttachPayment(r)
    PROVE  /\ \A o \in Orders : PaymentsOf(o)' # {} => status'[o] # NoOrder
           /\ \A o \in Orders : OneEach(o)'
<1>1. TypeOK /\ RequestInv(r)
    BY DEF OverlapInv, OrdersInv, RequestsInv
<1>2. PICK po \in ProviderOrders, o \in Orders :
        po = req[r].po /\ o = req[r].o /\ ~HasPayment(po) /\ At(r, "attach")
    BY <1>1 DEF AttachPayment, RequestInv, At
<1>3. /\ payment'[po].order = o
      /\ \A p \in ProviderOrders \ {po} : payment'[p] = payment[p]
    BY <1>1, <1>2 DEF AttachPayment, TypeOK
<1>4. status' = [status EXCEPT ![o] = "PENDING_PAYMENT"]
    BY <1>2 DEF AttachPayment, SetStatus
<1>5. NoneSetsOut(r) /\ ~HeadedOut(r)'
    BY <1>1, ReturnSetsNoneOut, ReturnStep DEF AttachPayment, HeadedOut, Idle, Request
<1>6. ASSUME NEW p \in Orders \ {o}
      PROVE  (PaymentsOf(p)' # {} => status'[p] # NoOrder) /\ OneEach(p)'
    <2>1. PaymentsOf(p)' = PaymentsOf(p)
        BY <1>2, <1>3, OrdersAssumption DEF PaymentsOf, HasPayment
    <2>2. Starting(p)' = Starting(p)
        BY <1>2, <1>5 DEF Starting, NoneSetsOut, OthersUnchanged, HeadedOut
    <2>3. status'[p] = status[p]
        BY <1>1, <1>4 DEF TypeOK
    <2> QED BY <2>1, <2>2, <2>3 DEF OverlapInv, OneEach
<1>7. status'[o] # NoOrder
    BY <1>1, <1>4, OrdersAssumption, PendingAndCancelled DEF TypeOK
<1>8. OneEach(o)'
    <2>1. PaymentsOf(o)' = PaymentsOf(o) \cup {po} /\ po \notin PaymentsOf(o)
        BY <1>2, <1>3, OrdersAssumption DEF PaymentsOf, HasPayment
    <2>2. Starting(o)' = Starting(o) \ {r} /\ r \in Starting(o)
        BY <1>2, <1>5 DEF Starting, NoneSetsOut, OthersUnchanged, HeadedOut, At
    <2>3. IsFiniteSet(Starting(o))
        BY FS_Subset DEF Starting
    <2>4. OneEach(o)
        BY DEF OverlapInv
    <2>5. /\ IsFiniteSet(PaymentsOf(o)')
          /\ Cardinality(PaymentsOf(o)') = Cardinality(PaymentsOf(o)) + 1
        BY <2>1, <2>4, FS_AddElement DEF OneEach
    <2>6. Cardinality(Starting(o)') = Cardinality(Starting(o)) - 1
        BY <2>2, <2>3, FS_RemoveElement
    <2>7. Cardinality(PaymentsOf(o)) \in Nat /\ Cardinality(Starting(o)) \in Nat
        BY <2>3, <2>4, FS_CardinalityType DEF OneEach
    <2>8. Cardinality(PaymentsOf(o)') + Cardinality(Starting(o)') =
            Cardinality(PaymentsOf(o)) + Cardinality(Starting(o))
        BY <2>5, <2>6, <2>7
    <2> QED BY <2>4, <2>5, <2>8 DEF OneEach
<1> QED BY <1>6, <1>7, <1>8

LEMMA OthersKeepOneEach ==
    ASSUME IsFiniteSet(Requests), OverlapInv, [Next]_vars,
           \A r \in Requests : ~AttachPayment(r), NEW o \in Orders
    PROVE  OneEach(o)'
<1>1. PaymentsOf(o)' = PaymentsOf(o) /\ OneEach(o)
    BY PaymentsStay DEF OverlapInv
<1>2. CASE PaymentsOf(o) = {}
    <2>1. IsFiniteSet({}) /\ Cardinality({}) = 0
        BY FS_EmptySet
    <2>2. /\ Cardinality(Starting(o)') <= Cardinality(Requests)
          /\ Cardinality(Starting(o)') \in Nat
        <3>1. Starting(o)' \in SUBSET Requests
            BY DEF Starting
        <3> QED BY <3>1, FS_Subset, FS_CardinalityType
    <2>3. Cardinality(PaymentsOf(o)') + Cardinality(Starting(o)') =
            Cardinality(Starting(o)')
        BY <1>1, <1>2, <2>1, <2>2
    <2> QED BY <1>1, <2>2, <2>3 DEF OneEach
<1>3. CASE PaymentsOf(o) # {}
    <2>1. Starting(o)' \subseteq Starting(o)
        <3>1. ASSUME NEW r \in Requests, NoneSetsOut(r)
              PROVE  Starting(o)' \subseteq Starting(o)
            BY <1>3, <3>1 DEF Starting, NoneSetsOut, OthersUnchanged, HeadedOut
        <3>2. CASE Customer \/ UNCHANGED vars
            BY <3>2 DEF Customer, CustomerPays, CustomerPaymentFails, vars, Starting
        <3> QED BY <3>1, <3>2, StartSetsNoneOut, ContinueSetsNoneOut DEF Next, OverlapInv
    <2>2. IsFiniteSet(Starting(o))
        BY FS_Subset DEF Starting
    <2>3. /\ Cardinality(Starting(o)') <= Cardinality(Starting(o))
          /\ Cardinality(Starting(o)') \in Nat
        <3>1. IsFiniteSet(Starting(o)')
            BY <2>1, <2>2, FS_Subset
        <3> QED BY <2>1, <2>2, <3>1, FS_Subset, FS_CardinalityType
    <2>4. /\ Cardinality(PaymentsOf(o)) \in Nat
          /\ Cardinality(Starting(o)) \in Nat
          /\ Cardinality(Requests) \in Nat
        BY <1>1, <2>2, FS_CardinalityType DEF OneEach
    <2>5. Cardinality(PaymentsOf(o)) + Cardinality(Starting(o)') <= Cardinality(Requests)
        BY <1>1, <2>3, <2>4 DEF OneEach
    <2> QED BY <1>1, <2>5 DEF OneEach
<1> QED BY <1>2, <1>3

\* Once a checkout attempt has a payment, no later request adds another: it gets
\* more than one only from requests that were under way together.
THEOREM OverlapSafety ==
    ASSUME IsFiniteSet(Requests)
    PROVE  Spec => []DuplicatePaymentsNeedOverlap
<1>1. Init => OverlapInv
    <2> SUFFICES ASSUME Init PROVE OverlapInv
        OBVIOUS
    <2>1. ASSUME NEW o \in Orders PROVE PaymentsOf(o) = {} /\ Starting(o) = {}
        BY OrdersAssumption DEF Init, PaymentsOf, NoPayment, Starting, Idle, Request
    <2>2. IsFiniteSet({}) /\ Cardinality({}) = 0
        BY FS_EmptySet
    <2>3. Cardinality(Requests) \in Nat
        BY FS_CardinalityType
    <2>4. \A o \in Orders : OneEach(o)
        BY <2>1, <2>2, <2>3 DEF OneEach
    <2> QED BY <2>1, <2>4, InitInv DEF OverlapInv
<1>2. OverlapInv /\ [Next]_vars => OverlapInv'
    <2> SUFFICES ASSUME OverlapInv, [Next]_vars PROVE OverlapInv'
        OBVIOUS
    <2>1. OrdersInv'
        BY NextInv DEF OverlapInv
    <2>2. CASE \E r \in Requests : AttachPayment(r)
        BY <2>1, <2>2, AttachingKeepsOneEach DEF OverlapInv
    <2>3. CASE \A r \in Requests : ~AttachPayment(r)
        <3>1. \A o \in Orders : PaymentsOf(o)' # {} => status'[o] # NoOrder
            BY <2>3, PaymentsStay, OrderRowsStay DEF OverlapInv
        <3> QED BY <2>1, <2>3, <3>1, OthersKeepOneEach DEF OverlapInv
    <2> QED BY <2>2, <2>3
<1>3. OverlapInv => DuplicatePaymentsNeedOverlap
    BY DEF OverlapInv, OneEach, DuplicatePaymentsNeedOverlap
<1> QED BY <1>1, <1>2, <1>3, PTL DEF Spec
===============================================================================

----------------------------- MODULE PlacementTx -----------------------------
(***************************************************************************)
(* The three transactions that place an order (finalizePaidOrder,          *)
(* markCounterOrderPlaced and updateStatus), statement by statement.       *)
(*                                                                         *)
(* The database runs them at READ COMMITTED: a statement sees what other   *)
(* transactions have committed, an UPDATE waits for the lock of its row    *)
(* and keeps it until the transaction ends, and what a transaction wrote   *)
(* is seen by others when it commits.  Orders takes each of the three as   *)
(* one step; this module shows that they place orders as Placement says.   *)
(***************************************************************************)
EXTENDS Naturals, FiniteSets

CONSTANTS
    Transactions,   \* slots for transactions in progress
    Orders,         \* the orders, pending at first
    CouponOrders,   \* those that carry the coupon
    MaxReturns,     \* bound: how often orders are put back to PENDING_PAYMENT
    None            \* no transaction holds the lock, or no order

ASSUME PlacementTxAssumption ==
    /\ CouponOrders \subseteq Orders
    /\ MaxReturns \in Nat
    /\ None \notin Orders
    /\ None \notin Transactions

VARIABLES
    paid,        \* orders whose payment the provider captured or staff vouch for
    pending,     \* order rows whose status is PENDING_PAYMENT
    placed,      \* order rows whose placedAt is set
    usages,      \* orders with a couponUsage row
    usedCount,   \* the coupon's counter
    orderLock,   \* who holds the lock of an order row
    couponLock,  \* who holds the lock of the coupon row
    tx,          \* the transactions in progress
    returns      \* how often orders were put back

tables == <<paid, pending, placed, usages, usedCount>>
locks == <<orderLock, couponLock>>
vars == <<tables, locks, tx, returns>>

\* finalizePaidOrder places an order only while it is pending and follows a
\* captured payment; the other two place it in any case and vouch for it.
Kinds == {"finalize", "vouch"}

\* The statement a transaction will execute next.
Statements == {"idle", "order", "usage", "count", "create", "commit"}

TxStates ==
    [pc : Statements, o : Orders \cup {None}, kind : Kinds,
     places : BOOLEAN, counts : BOOLEAN]

Tx(pc, o, kind, places, counts) ==
    [pc |-> pc, o |-> o, kind |-> kind, places |-> places, counts |-> counts]

Idle == Tx("idle", None, "vouch", FALSE, FALSE)

Init ==
    /\ paid = {}
    /\ pending = Orders
    /\ placed = {}
    /\ usages = {}
    /\ usedCount = 0
    /\ orderLock = [o \in Orders |-> None]
    /\ couponLock = None
    /\ tx = [t \in Transactions |-> Idle]
    /\ returns = 0

At(t, pc) == tx[t].pc = pc

Become(t, new) == tx' = [tx EXCEPT ![t] = new]

\* Ends t: its locks are released.
End(t) ==
    /\ Become(t, Idle)
    /\ orderLock' = [o \in Orders |-> IF orderLock[o] = t THEN None ELSE orderLock[o]]
    /\ couponLock' = IF couponLock = t THEN None ELSE couponLock

-------------------------------------------------------------------------------

\* The provider captures the payment of an order.
Capture(o) ==
    /\ paid' = paid \cup {o}
    /\ UNCHANGED <<pending, placed, usages, usedCount, locks, tx, returns>>

\* A checkout request puts the order back, in a statement of its own.
PutBack(o) ==
    /\ orderLock[o] = None
    /\ returns < MaxReturns
    /\ pending' = pending \cup {o}
    /\ returns' = returns + 1
    /\ UNCHANGED <<paid, placed, usages, usedCount, locks, tx>>

\* A transaction begins; finalizePaidOrder has updated the payment row, which
\* no other transaction here waits for while it holds an order's lock.
BeginTx(t, o, kind) ==
    /\ At(t, "idle")
    /\ kind = "finalize" => o \in paid
    /\ Become(t, Tx("order", o, kind, FALSE, FALSE))
    /\ UNCHANGED <<tables, locks, returns>>

\* Variant: the condition on the status is checked before, not by, the update.
UpdateOrderUnconditionally(t) ==
    LET o == tx[t].o
        kind == tx[t].kind
    IN
    /\ At(t, "order")
    /\ orderLock[o] = None
    /\ orderLock' = [orderLock EXCEPT ![o] = t]
    /\ Become(t, Tx(IF o \in CouponOrders THEN "count" ELSE "commit",
                    o, kind, TRUE, FALSE))
    /\ UNCHANGED <<tables, couponLock, returns>>

\* Variant: finalizePaidOrder locks the coupon before the order.
UpdateCouponFirst(t) ==
    LET o == tx[t].o
        kind == tx[t].kind
        next == IF kind = "finalize" /\ o \notin pending THEN "commit"
                ELSE IF o \in CouponOrders THEN "usage" ELSE "commit"
    IN
    /\ At(t, "order")
    /\ IF kind = "finalize" /\ o \in CouponOrders /\ couponLock # t
       THEN /\ couponLock = None
            /\ couponLock' = t
            /\ UNCHANGED <<orderLock, tx>>
       ELSE /\ orderLock[o] = None
            /\ orderLock' = [orderLock EXCEPT ![o] = t]
            /\ Become(t, Tx(next, o, kind, TRUE, FALSE))
            /\ UNCHANGED couponLock
    /\ UNCHANGED <<tables, returns>>

\* The update of the order row; finalizePaidOrder's finds no row to update
\* when the order is not pending, and then locks none.
UpdateOrder(t) ==
    LET o == tx[t].o
        kind == tx[t].kind
    IN
    /\ At(t, "order")
    /\ orderLock[o] = None
    /\ IF kind = "finalize" /\ o \notin pending
       THEN /\ Become(t, Tx("commit", o, kind, FALSE, FALSE))
            /\ UNCHANGED orderLock
       ELSE /\ Become(t, Tx(IF o \in CouponOrders THEN "usage" ELSE "commit",
                            o, kind, TRUE, FALSE))
            /\ orderLock' = [orderLock EXCEPT ![o] = t]
    /\ UNCHANGED <<tables, couponLock, returns>>

\* couponUsage.findFirst
FindUsage(t) ==
    LET o == tx[t].o IN
    /\ At(t, "usage")
    /\ Become(t, Tx(IF o \in usages THEN "commit" ELSE "count",
                    o, tx[t].kind, TRUE, FALSE))
    /\ UNCHANGED <<tables, locks, returns>>

\* coupon.update: the increment is computed under the row's lock.
CountUsage(t) ==
    /\ At(t, "count")
    /\ couponLock \in {None, t}
    /\ couponLock' = t
    /\ Become(t, Tx("create", tx[t].o, tx[t].kind, TRUE, TRUE))
    /\ UNCHANGED <<tables, orderLock, returns>>

\* couponUsage.create
CreateUsage(t) ==
    /\ At(t, "create")
    /\ Become(t, Tx("commit", tx[t].o, tx[t].kind, TRUE, TRUE))
    /\ UNCHANGED <<tables, locks, returns>>

\* What the transaction wrote is seen by the others, all at once.
Commit(t) ==
    LET o == tx[t].o IN
    /\ At(t, "commit")
    /\ IF tx[t].places
       THEN /\ placed' = placed \cup {o}
            /\ pending' = pending \ {o}
            /\ paid' = IF tx[t].kind = "vouch" THEN paid \cup {o} ELSE paid
       ELSE UNCHANGED <<placed, pending, paid>>
    /\ IF tx[t].counts
       THEN usages' = usages \cup {o} /\ usedCount' = usedCount + 1
       ELSE UNCHANGED <<usages, usedCount>>
    /\ End(t)
    /\ UNCHANGED returns

\* A statement fails, the transaction times out or the process dies.
Rollback(t) ==
    /\ ~At(t, "idle")
    /\ End(t)
    /\ UNCHANGED <<tables, returns>>

Run(t) ==
    UpdateOrder(t) \/ FindUsage(t) \/ CountUsage(t) \/ CreateUsage(t) \/ Commit(t)

Next ==
    \/ \E o \in Orders : Capture(o) \/ PutBack(o)
    \/ \E t \in Transactions :
        \/ \E o \in Orders, kind \in Kinds : BeginTx(t, o, kind)
        \/ Run(t)
        \/ Rollback(t)

Spec == Init /\ [][Next]_vars

\* The database lets a transaction continue when nobody holds what it waits
\* for: it does not overtake a waiting transaction forever.
FairSpec == Spec /\ \A t \in Transactions : SF_vars(Run(t))

-------------------------------------------------------------------------------
(* Properties *)

TypeOK ==
    /\ paid \in SUBSET Orders
    /\ pending \in SUBSET Orders
    /\ placed \in SUBSET Orders
    /\ usages \in SUBSET Orders
    /\ usedCount \in Nat
    /\ orderLock \in [Orders -> Transactions \cup {None}]
    /\ couponLock \in Transactions \cup {None}
    /\ tx \in [Transactions -> TxStates]
    /\ returns \in 0 .. MaxReturns

\* The transactions keep the promises of the abstract specification.
Ledger == INSTANCE Placement

LedgerSpec == Ledger!Spec

\* No transaction waits forever: they take the order's row before the coupon's.
TransactionsEnd == \A t \in Transactions : ~At(t, "idle") ~> At(t, "idle")
==============================================================================

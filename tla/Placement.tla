------------------------------ MODULE Placement ------------------------------
(***************************************************************************)
(* What placing an order promises, whoever triggers it: an order is placed *)
(* at most once, only after somebody vouched for its payment (the payment  *)
(* provider captured it, or the staff took the money at the counter), and  *)
(* the coupon it carries is counted exactly once, in the same step.        *)
(***************************************************************************)
EXTENDS Naturals

CONSTANTS
    Orders,        \* the orders that may exist
    CouponOrders   \* those that carry the coupon

VARIABLES
    paid,          \* orders whose payment somebody vouched for
    placed,        \* orders that have been placed
    usages,        \* orders with a coupon usage row
    usedCount      \* the coupon's counter

vars == <<paid, placed, usages, usedCount>>

Init ==
    /\ paid = {}
    /\ placed = {}
    /\ usages = {}
    /\ usedCount = 0

Pay(o) ==
    /\ paid' = paid \cup {o}
    /\ UNCHANGED <<placed, usages, usedCount>>

\* The staff vouch for the payment in the very step that places the order.
Place(o) ==
    /\ o \notin placed
    /\ placed' = placed \cup {o}
    /\ paid' \in {paid, paid \cup {o}}
    /\ o \in paid'
    /\ IF o \in CouponOrders
       THEN /\ usages' = usages \cup {o}
            /\ usedCount' = usedCount + 1
       ELSE UNCHANGED <<usages, usedCount>>

Next == \E o \in Orders : Pay(o) \/ Place(o)

Spec == Init /\ [][Next]_vars
=============================================================================

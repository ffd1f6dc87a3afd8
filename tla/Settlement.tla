------------------------------ MODULE Settlement ------------------------------
(***************************************************************************)
(* That captured payments are settled in the end, in either of two worlds: *)
(* one in which the provider's webhooks come and nobody need read an order, *)
(* and one in which orders are read and no webhook need come.              *)
(***************************************************************************)
EXTENDS Orders

VARIABLE courier    \* of captures: "webhooks" or "readers"; it does not change

(***************************************************************************)
(* Fairness                                                                *)
(***************************************************************************)

\* A request does not stay at an await forever.
RequestFairness == \A r \in Requests : WF_vars(Continue(r))

\* Not every settlement of po that the courier starts is cut short at the same
\* step.
SettlementFairness(po) ==
    LET For(r) == req[r].po = po /\ req[r].webhook = (courier = "webhooks") IN
    /\ SF_vars(\E r \in Requests : For(r) /\ FindPayment(r))
    /\ SF_vars(\E r \in Requests : For(r) /\ FinalizePaidOrder(r))

\* The provider redelivers a webhook until it is acknowledged.
Redelivery(po) ==
    /\ SF_vars(courier = "webhooks" /\ \E r \in Requests : WebhookCaptured(r, po))
    /\ SF_vars(courier = "webhooks" /\ \E r \in Requests :
                    req[r].po = po /\ req[r].pid = captured[po] /\ MarkWebhookProcessed(r))

\* Somebody keeps opening the pending orders: the customer's order page or the
\* admin's list.
Reading(o) ==
    SF_vars(courier = "readers" /\ \E r \in Requests : RecoverOnRead(r, o))

SettlementSpec ==
    /\ Init /\ courier \in {"webhooks", "readers"}
    /\ [][Next /\ UNCHANGED courier]_<<vars, courier>>
    /\ RequestFairness
    /\ \A po \in ProviderOrders : SettlementFairness(po) /\ Redelivery(po)
    /\ \A o \in Orders : Reading(o)

-------------------------------------------------------------------------------
(* Properties *)

\* In the world of webhooks, a captured payment without failed attempts is
\* eventually recorded and acknowledged, whatever requests are cut short on the way.
CapturesAreSettled ==
    \A po \in ProviderOrders :
        courier = "webhooks" /\ captured[po] # None /\ ~HasFailedAttempt(po) ~>
            /\ payment[po].status = "CAPTURED"
            /\ <<po, captured[po]>> \in processed

\* In the world of readers, an order with a captured payment and no failed attempt
\* on it does not stay pending while somebody reads it, even if no webhook ever
\* arrives and even if a stale checkout request has put it back to PENDING_PAYMENT.
PaidOrdersStopWaiting ==
    \A po \in ProviderOrders, o \in Orders :
        courier = "readers" /\ captured[po] # None /\ ~HasFailedAttempt(po)
                /\ payment[po].order = o ~>
            status[o] # "PENDING_PAYMENT"
===============================================================================

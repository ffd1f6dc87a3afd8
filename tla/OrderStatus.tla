----------------------------- MODULE OrderStatus -----------------------------
(***************************************************************************)
(* The vocabulary of order statuses, shared by every module in which an    *)
(* order row appears: the enum of the database schema, the table of moves  *)
(* the admin endpoint accepts, and the statuses in which pickup is open.   *)
(***************************************************************************)

\* enum OrderStatus of the schema.
OrderStatuses ==
    {"PENDING_PAYMENT", "PAID", "PLACED", "CONFIRMED", "PREPARING",
     "READY_FOR_PICKUP", "OTP_VERIFICATION_PENDING", "COMPLETED",
     "CANCELLED", "REFUNDED"}

\* ADMIN_STATUS_TRANSITIONS: the moves an administrator may ask for.
AdminStatusTransitions ==
    [s \in OrderStatuses |->
        CASE s = "PENDING_PAYMENT" -> {"PLACED", "CANCELLED"}
          [] s \in {"PAID", "PLACED", "CONFIRMED"} -> {"PREPARING", "CANCELLED"}
          [] s = "PREPARING" -> {"READY_FOR_PICKUP", "CANCELLED"}
          [] s \in {"READY_FOR_PICKUP", "OTP_VERIFICATION_PENDING"} -> {"CANCELLED"}
          [] OTHER -> {}]

\* getAllowedStatusUpdates
AllowedStatusUpdates(s) == AdminStatusTransitions[s]

\* The statuses in which the pickup code may be generated and verified.
ReadyForPickup == {"READY_FOR_PICKUP", "OTP_VERIFICATION_PENDING"}

\* Statuses of an order the kitchen works on or has handed out.
KitchenStatuses ==
    {"PAID", "PLACED", "CONFIRMED", "PREPARING", "COMPLETED"} \cup ReadyForPickup
=============================================================================

----------------------------- MODULE OrdersClaims -----------------------------
(***************************************************************************)
(* What the order service says of itself in its checks and error messages, *)
(* and does not keep: a row that was checked changes before the write, or  *)
(* one that was written before means something else than the check takes.  *)
(***************************************************************************)
EXTENDS Orders

\* updateStatus: `Cannot move order from X to Y.', and verifyForOrderNumber:
\* `Order is not ready for OTP verification.'  Whenever a request of the staff
\* changes a status, the table allows the move, or the order was ready.
AdminMovesFollowTheTable ==
    [][\A r \in Requests :
        LET o == req[r].o IN
        req[r].pc \in {"update", "complete"} /\ req'[r] = Idle /\ status'[o] # status[o] =>
            \/ status'[o] \in AllowedStatusUpdates(status[o])
            \/ status'[o] = "COMPLETED" /\ status[o] \in ReadyForPickup
      ]_<<req, status>>

\* finalizePaidOrder: `Payment was already captured with a different payment
\* id.'  A payment id that blocks the settlement of a captured payment belongs
\* to a row that was captured.
ConflictsAreWithCapturedRows ==
    \A po \in ProviderOrders :
        captured[po] # None /\ PaymentConflict(po, captured[po]) =>
            payment[po].status = "CAPTURED"
===============================================================================

------------------------------- MODULE MCOrders -------------------------------
(***************************************************************************)
(* Instances of Orders for TLC.  Requests, provider orders and payment ids *)
(* are only ever compared, so the safety runs take them up to permutation. *)
(***************************************************************************)
EXTENDS OrdersClaims, TLC

Symmetric ==
    Permutations(Requests) \cup Permutations(ProviderOrders)
        \cup Permutations(PaymentIds)
===============================================================================

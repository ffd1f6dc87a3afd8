----------------------------- MODULE MCPickupOtp -----------------------------
(***************************************************************************)
(* An instance of PickupOtp for TLC.  The derived codes repeat for two     *)
(* ticks, so that a refresh meets a code it must move on from.             *)
(***************************************************************************)
EXTENDS PickupOtp, TLC

CONSTANTS a, b

Derive == [t \in Times |-> IF t \in {2, 3, 5} THEN a ELSE b]

Symmetric == Permutations(Requests)
==============================================================================

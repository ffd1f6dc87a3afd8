------------------------------ MODULE MCCoupons ------------------------------
(***************************************************************************)
(* Instances of Coupons for TLC, up to a permutation of the orders.        *)
(***************************************************************************)
EXTENDS Coupons, TLC

Symmetric == Permutations(Orders)
==============================================================================

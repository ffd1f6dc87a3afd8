-------------------------------- MODULE MCCarts --------------------------------
(***************************************************************************)
(* Instances of Carts for TLC, up to permutations of requests and foods.   *)
(***************************************************************************)
EXTENDS Carts, TLC

Symmetric == Permutations(Requests) \cup Permutations(Foods)
================================================================================

----------------------------- MODULE MCFulfilment -----------------------------
(***************************************************************************)
(* Instances of Fulfilment for TLC, up to permutations of requests.        *)
(***************************************************************************)
EXTENDS Fulfilment, TLC

Symmetric == Permutations(Requests)
===============================================================================

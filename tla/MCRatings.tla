------------------------------- MODULE MCRatings -------------------------------
(***************************************************************************)
(* Instances of Ratings for TLC, up to a permutation of the model values.  *)
(***************************************************************************)
EXTENDS Ratings, TLC

Symmetric ==
    Permutations(Transactions) \cup Permutations(Users) \cup Permutations(Foods)
================================================================================

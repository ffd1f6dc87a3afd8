------------------------------ MODULE MCAccounts ------------------------------
(***************************************************************************)
(* Instances of Accounts for TLC: the super administrator's e-mail, which  *)
(* somebody else writes in another way, and the ones made up for the two   *)
(* phones, which people may bring as their own like any other.             *)
(***************************************************************************)
EXTENDS Accounts, TLC

CONSTANTS e, upperE, c1, c2, p1, p2

InLowerCase == [email \in Emails |-> IF email = upperE THEN e ELSE email]

Made == p1 :> c1 @@ p2 :> c2

Symmetric ==
    Permutations(Requests) \cup Permutations(Accounts \ {Owner})
        \cup {p1 :> p2 @@ p2 :> p1 @@ c1 :> c2 @@ c2 :> c1}
===============================================================================

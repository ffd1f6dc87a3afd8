-------------------------------- MODULE Queries --------------------------------
(***************************************************************************)
(* What lists are made of: rows in the order of a query, rows picked from a *)
(* list, and pages.  The database and Array.sort leave open, or to the list *)
(* they are given, in which order rows come that their keys do not tell     *)
(* apart.                                                                   *)
(***************************************************************************)
EXTENDS Integers, Sequences, FiniteSets, SequencesExt

\* ORDER BY, sort: the lists that have every row of the set once, and none
\* after one it belongs before.
Arrangements(set, Before(_, _)) ==
    {rows \in SetToSeqs(set) :
        \A i, j \in DOMAIN rows : i < j => ~Before(rows[j], rows[i])}

\* One of them.
Arranged(set, Before(_, _)) == CHOOSE rows \in Arrangements(set, Before) : TRUE

\* filter: the places picked from a list, in its order.
InPlace(places) == Arranged(places, <)

\* slice(0, limit), take
FirstOf(limit, rows) == SubSeq(rows, 1, IF Len(rows) < limit THEN Len(rows) ELSE limit)

-------------------------------------------------------------------------------
(* Pages *)

\* Variant: pages count from zero.
SkipFromZero(page, limit) == page * limit

\* skip
Skip(page, limit) == (page - 1) * limit

\* Variant: rows that do not fill a page have none.
FullPages(total, limit) == total \div limit

TotalPages(total, limit) == (total + limit - 1) \div limit
================================================================================

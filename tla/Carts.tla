-------------------------------- MODULE Carts --------------------------------
(***************************************************************************)
(* The cart of one customer, which the client replaces as a whole, from    *)
(* several tabs or devices at once.                                        *)
(*                                                                         *)
(* The transaction of replaceForCustomer is modelled statement by statement *)
(* at READ COMMITTED.  Its deleteMany works on the rows it saw when it     *)
(* began: it waits for a transaction that is deleting one of them, and does *)
(* not look for rows that transaction put in their place.  An insert waits *)
(* for whoever inserted or deleted the same food and fails if there is one. *)
(***************************************************************************)
EXTENDS Naturals, Sequences, FiniteSets, SequencesExt

CONSTANTS
    Requests,     \* slots for requests in progress
    Foods,
    MaxQuantity,  \* 20, of a line and of the lines of one food together
    MaxLines,     \* bound: of a request, 50 in the code
    None          \* no row

ASSUME CartsAssumption ==
    /\ MaxQuantity \in Nat \ {0}
    /\ MaxLines \in Nat
    /\ None \notin Nat

VARIABLES
    rows,       \* the committed quantities of the cart item rows
    available,  \* the foods that are available
    tx          \* the requests in progress

vars == <<rows, available, tx>>

Quantities == 1 .. MaxQuantity

Lines == [food : Foods, quantity : Quantities]

\* The bodies of requests.
LineLists == UNION {[1 .. n -> Lines] : n \in 0 .. MaxLines}

\* The statement a request will execute next; "deleting" waits for locks.
Statements == {"idle", "count", "delete", "deleting", "insert", "commit"}

Idle == [pc |-> "idle", lines |-> <<>>, items |-> <<>>, next |-> 1,
         targets |-> {}, deleted |-> {}, beside |-> {}]

Init ==
    /\ rows = [f \in Foods |-> None]
    /\ available = Foods
    /\ tx = [r \in Requests |-> Idle]

-------------------------------------------------------------------------------

At(r, pc) == tx[r].pc = pc

Least(a, b) == IF a <= b THEN a ELSE b

FoodsOf(items) == {items[i].food : i \in DOMAIN items}

\* Variant: the last line of a food counts.
LastLine(merged, line) ==
    Append(SelectSeq(merged, LAMBDA item : item.food # line.food), line)

\* One round of mergeDuplicateItems: the Map keeps the place of the first line.
MergeLine(merged, line) ==
    IF line.food \in FoodsOf(merged)
    THEN [i \in DOMAIN merged |->
            IF merged[i].food = line.food
            THEN [merged[i] EXCEPT !.quantity = Least(@ + line.quantity, MaxQuantity)]
            ELSE merged[i]]
    ELSE Append(merged, line)

MergeDuplicateItems(lines) == FoldLeft(MergeLine, <<>>, lines)

\* The foods whose rows r has inserted.
Inserted(r) == {tx[r].items[i].food : i \in 1 .. tx[r].next - 1}

-------------------------------------------------------------------------------
(* The requests *)

StartReplace(r, lines) ==
    /\ At(r, "idle")
    /\ tx' = [tx EXCEPT ![r] = [Idle EXCEPT !.pc = "count", !.lines = lines,
                                            !.items = MergeDuplicateItems(lines)]]
    /\ UNCHANGED <<rows, available>>

\* clearForCustomer is a deleteMany that nothing follows.
StartClear(r) ==
    /\ At(r, "idle")
    /\ tx' = [tx EXCEPT ![r] = [Idle EXCEPT !.pc = "delete"]]
    /\ UNCHANGED <<rows, available>>

\* All items are available, or the request is refused.
CountAvailable(r) ==
    /\ At(r, "count")
    /\ tx' = [tx EXCEPT ![r] = IF FoodsOf(@.items) \subseteq available
                               THEN [@ EXCEPT !.pc = "delete"] ELSE Idle]
    /\ UNCHANGED <<rows, available>>

\* Variant: deletes what it is about to insert.
BeginDeleteOfItems(r) ==
    /\ At(r, "delete")
    /\ tx' = [tx EXCEPT ![r].pc = "deleting",
                        ![r].targets = {f \in FoodsOf(tx[r].items) : rows[f] # None}]
    /\ UNCHANGED <<rows, available>>

\* The transaction begins, and deleteMany finds the rows of the cart.
BeginDelete(r) ==
    /\ At(r, "delete")
    /\ tx' = [tx EXCEPT ![r].pc = "deleting",
                        ![r].targets = {f \in Foods : rows[f] # None}]
    /\ UNCHANGED <<rows, available>>

\* deleteMany has the locks of its rows.
DeleteRows(r) ==
    /\ At(r, "deleting")
    /\ \A s \in Requests \ {r} : tx[r].targets \cap tx[s].deleted = {}
    /\ tx' = [tx EXCEPT ![r].pc = IF tx[r].items = <<>> THEN "commit" ELSE "insert",
                        ![r].deleted = tx[r].targets]
    /\ UNCHANGED <<rows, available>>

\* The next insert meets a committed row, which the transaction did not delete.
Refused(r) ==
    LET f == tx[r].items[tx[r].next].food IN
    rows[f] # None /\ f \notin tx[r].deleted

\* cartItem.create, which ends the transaction if it is refused.
InsertRow(r) ==
    LET f == tx[r].items[tx[r].next].food IN
    /\ At(r, "insert")
    /\ \A s \in Requests \ {r} : f \notin Inserted(s) \cup tx[s].deleted
    /\ tx' = [tx EXCEPT ![r] =
                IF Refused(r) THEN Idle
                ELSE [tx[r] EXCEPT !.next = @ + 1,
                                   !.pc = IF tx[r].next = Len(tx[r].items)
                                          THEN "commit" ELSE "insert"]]
    /\ UNCHANGED <<rows, available>>

\* The transaction of r as a commit of the rows that c deleted and inserted
\* leaves it: the rows that are gone need not be deleted any more.
AfterCommit(r, c) ==
    [tx[r] EXCEPT !.targets = @ \ tx[c].deleted,
                  !.beside = IF At(r, "deleting") \/ At(r, "insert") \/ At(r, "commit")
                             THEN (@ \ tx[c].deleted) \cup Inserted(c) ELSE @]

Commit(r) ==
    LET items == tx[r].items IN
    /\ At(r, "commit")
    /\ rows' = [f \in Foods |->
                    IF f \in FoodsOf(items)
                    THEN items[CHOOSE i \in DOMAIN items : items[i].food = f].quantity
                    ELSE IF f \in tx[r].deleted THEN None ELSE rows[f]]
    /\ tx' = [s \in Requests |-> IF s = r THEN Idle ELSE AfterCommit(s, r)]
    /\ UNCHANGED available

\* A request ends at an await, or as the victim of a deadlock.
Rollback(r) ==
    /\ ~At(r, "idle")
    /\ tx' = [tx EXCEPT ![r] = Idle]
    /\ UNCHANGED <<rows, available>>

\* The staff put a food on or off the menu.
SetAvailable(f, isAvailable) ==
    /\ available' = IF isAvailable THEN available \cup {f} ELSE available \ {f}
    /\ UNCHANGED <<rows, tx>>

Next ==
    \/ \E r \in Requests :
        \/ \E lines \in LineLists : StartReplace(r, lines)
        \/ StartClear(r)
        \/ CountAvailable(r)
        \/ BeginDelete(r)
        \/ DeleteRows(r)
        \/ InsertRow(r)
        \/ Commit(r)
        \/ Rollback(r)
    \/ \E f \in Foods, isAvailable \in BOOLEAN : SetAvailable(f, isAvailable)

Spec == Init /\ [][Next]_vars

-------------------------------------------------------------------------------
(* Properties *)

\* The quantity asked for f in all lines together.
Asked(lines, f) ==
    FoldLeft(LAMBDA sum, line : IF line.food = f THEN sum + line.quantity ELSE sum, 0, lines)

\* mergeDuplicateItems leaves one item for each food of the lines, with the sum
\* of their quantities up to the maximum, however the lines are ordered.
ItemsAreTheCappedSums ==
    \A r \in Requests :
        LET items == tx[r].items IN
        /\ FoodsOf(items) = FoodsOf(tx[r].lines)
        /\ \A i, j \in DOMAIN items : items[i].food = items[j].food => i = j
        /\ \A i \in DOMAIN items :
            items[i].quantity = Least(Asked(tx[r].lines, items[i].food), MaxQuantity)

\* A committed replacement leaves the cart with its items and, beside them, only
\* what other requests put there since it looked for the rows to delete; and
\* nothing but such a row makes an insert fail.
ReplacementsLeaveTheirItems ==
    /\ [][\A r \in Requests : At(r, "commit") /\ rows' # rows /\ tx'[r] = Idle =>
            {f \in Foods : rows'[f] # None} = FoodsOf(tx[r].items) \cup tx[r].beside
        ]_vars
    /\ [](\A r \in Requests : At(r, "insert") /\ Refused(r) =>
            tx[r].items[tx[r].next].food \in tx[r].beside)

-------------------------------------------------------------------------------
(* The inductive invariant behind the theorems of CartsProofs *)

RequestStates ==
    [pc : Statements, lines : LineLists, items : Seq(Lines), next : Nat,
     targets : SUBSET Foods, deleted : SUBSET Foods, beside : SUBSET Foods]

TypeOK ==
    /\ rows \in [Foods -> Quantities \cup {None}]
    /\ available \in SUBSET Foods
    /\ tx \in [Requests -> RequestStates]

Present == {f \in Foods : rows[f] # None}

\* The rows that are there are those r found, or has deleted, and those that
\* others have put beside them since.
RowsInv(r) ==
    /\ tx[r].pc \in {"idle", "count", "delete"} => tx[r].targets = {} /\ tx[r].beside = {}
    /\ At(r, "deleting") => /\ Present = tx[r].targets \cup tx[r].beside
                            /\ tx[r].targets \cap tx[r].beside = {}
    /\ At(r, "insert") \/ At(r, "commit") => /\ Present = tx[r].deleted \cup tx[r].beside
                                             /\ tx[r].deleted \cap tx[r].beside = {}

\* What r has deleted and inserted so far.
ProgressInv(r) ==
    /\ tx[r].next \in 1 .. Len(tx[r].items) + 1
    /\ At(r, "insert") => tx[r].next <= Len(tx[r].items)
    /\ At(r, "commit") => tx[r].next = Len(tx[r].items) + 1
    /\ ~At(r, "insert") /\ ~At(r, "commit") => tx[r].next = 1 /\ tx[r].deleted = {}
    /\ Inserted(r) \cap Present \subseteq tx[r].deleted

\* No two have deleted, or inserted, the same row.
ApartInv(r) ==
    \A s \in Requests \ {r} : /\ tx[r].deleted \cap tx[s].deleted = {}
                              /\ Inserted(r) \cap Inserted(s) = {}

CartsInv ==
    /\ TypeOK
    /\ \A r \in Requests : RowsInv(r) /\ ProgressInv(r) /\ ApartInv(r)
    /\ ItemsAreTheCappedSums
===============================================================================

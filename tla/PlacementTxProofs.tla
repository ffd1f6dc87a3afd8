--------------------------- MODULE PlacementTxProofs ---------------------------
(***************************************************************************)
(* Proofs about PlacementTx: its type invariant, and that the three        *)
(* transactions place orders as Placement says, for any number of them.    *)
(***************************************************************************)
EXTENDS PlacementTx, TLAPS

\* The order's row is locked by a transaction from the moment it updated it.
LocksInv ==
    \A t \in Transactions : tx[t].places => orderLock[tx[t].o] = t

\* What a transaction knows of its order while it runs.
KnowsInv ==
    \A t \in Transactions : LET x == tx[t] IN
        /\ x.pc # "idle" => x.o \in Orders
        /\ x.pc # "idle" /\ x.kind = "finalize" => x.o \in paid
        /\ x.pc = "idle" \/ x.pc = "order" => ~x.places
        /\ x.pc \in {"usage", "count", "create"} => x.places /\ x.o \in CouponOrders
        /\ x.counts => x.places /\ x.pc # "idle"
        /\ x.pc = "create" => x.counts

\* A transaction that will count its order's usage is the first to do so, and one
\* that will not has found it counted, or has nothing to count.
CountsInv ==
    \A t \in Transactions : LET x == tx[t] IN
        /\ x.pc \in {"count", "create"} \/ x.counts =>
                x.o \in CouponOrders /\ x.o \notin usages
        /\ x.pc = "commit" /\ x.places /\ ~x.counts =>
                x.o \notin CouponOrders \/ x.o \in usages

\* The orders placed with the coupon are those with a usage row.
UsagesInv == usages = placed \cap CouponOrders

TxInv == TypeOK /\ LocksInv /\ KnowsInv /\ CountsInv /\ UsagesInv

-------------------------------------------------------------------------------

LEMMA IdleFields ==
    /\ Idle \in TxStates
    /\ Idle.pc = "idle" /\ ~Idle.places /\ ~Idle.counts
BY DEF Idle, Tx, TxStates, Statements, Kinds

\* What every transaction promises, of one of them.
Fine(t, x) ==
    /\ x \in TxStates
    /\ x.places => orderLock[x.o] = t
    /\ x.pc # "idle" => x.o \in Orders
    /\ x.pc # "idle" /\ x.kind = "finalize" => x.o \in paid
    /\ x.pc = "idle" \/ x.pc = "order" => ~x.places
    /\ x.pc \in {"usage", "count", "create"} => x.places /\ x.o \in CouponOrders
    /\ x.counts => x.places /\ x.pc # "idle"
    /\ x.pc = "create" => x.counts
    /\ x.pc \in {"count", "create"} \/ x.counts => x.o \in CouponOrders /\ x.o \notin usages
    /\ x.pc = "commit" /\ x.places /\ ~x.counts => x.o \notin CouponOrders \/ x.o \in usages

Tables ==
    /\ paid \in SUBSET Orders
    /\ pending \in SUBSET Orders
    /\ placed \in SUBSET Orders
    /\ usages \in SUBSET Orders
    /\ usedCount \in Nat
    /\ orderLock \in [Orders -> Transactions \cup {None}]
    /\ couponLock \in Transactions \cup {None}
    /\ returns \in 0 .. MaxReturns
    /\ UsagesInv

LEMMA InvIsFine ==
    TxInv <=> Tables /\ tx \in [Transactions -> TxStates]
                     /\ \A t \in Transactions : Fine(t, tx[t])
BY DEF TxInv, TypeOK, LocksInv, KnowsInv, CountsInv, Tables, Fine

LEMMA FineIsInv ==
    ASSUME Tables', tx' \in [Transactions -> TxStates],
           \A t \in Transactions : Fine(t, tx[t])'
    PROVE  TxInv'
BY DEF TxInv, TypeOK, LocksInv, KnowsInv, CountsInv, Tables, Fine

LEMMA IdleIsFine == ASSUME NEW t PROVE Fine(t, Idle)
BY IdleFields DEF Fine

\* A step of one transaction that leaves the tables: the others are not disturbed
\* unless it takes a lock of theirs.
LEMMA OneMoves ==
    ASSUME TxInv, NEW t \in Transactions, NEW x,
           tx' = [tx EXCEPT ![t] = x], Fine(t, x)', Tables',
           UNCHANGED <<paid, usages>>,
           \A s \in Transactions \ {t}, o \in Orders :
               orderLock[o] = s => orderLock'[o] = s
    PROVE  TxInv'
<1>1. x \in TxStates
    BY DEF Fine
<1>2. tx' \in [Transactions -> TxStates]
    BY <1>1 DEF TxInv, TypeOK
<1>3. ASSUME NEW s \in Transactions PROVE Fine(s, tx[s])'
    <2>1. CASE s = t
        <3>1. tx'[s] = x
            BY <2>1 DEF TxInv, TypeOK
        <3> QED
            BY <2>1, <3>1 DEF Fine
    <2>2. CASE s # t
        <3>1. tx'[s] = tx[s]
            BY <2>2 DEF TxInv, TypeOK
        <3>2. Fine(s, tx[s])
            BY InvIsFine
        <3>3. PICK mine : mine = tx[s]
            OBVIOUS
        <3>4. mine.places => mine.o \in Orders
            BY <3>2, <3>3 DEF Fine
        <3>5. Fine(s, mine)'
            BY <2>2, <3>2, <3>3, <3>4 DEF Fine
        <3> QED
            BY <3>1, <3>3, <3>5 DEF Fine
    <2> QED
        BY <2>1, <2>2
<1> QED
    BY <1>2, <1>3, FineIsInv

-------------------------------------------------------------------------------

LEMMA InitInv == Init => TxInv
<1> SUFFICES ASSUME Init PROVE TxInv
    OBVIOUS
<1>1. \A t \in Transactions : tx[t] = Idle
    BY DEF Init
<1>2. tx \in [Transactions -> TxStates]
    BY IdleFields DEF Init
<1>3. Tables
    BY PlacementTxAssumption DEF Init, Tables, UsagesInv
<1> QED
    BY <1>1, <1>2, <1>3, IdleIsFine, InvIsFine

LEMMA TableStep ==
    ASSUME TxInv, NEW o \in Orders, Capture(o) \/ PutBack(o)
    PROVE  TxInv'
<1>1. UNCHANGED <<tx, orderLock, couponLock, placed, usages, usedCount>>
    BY DEF Capture, PutBack, locks
<1>2. paid \subseteq paid' /\ paid' \in SUBSET Orders /\ pending' \in SUBSET Orders
    BY DEF Capture, PutBack, TxInv, TypeOK
<1>3. returns' \in 0 .. MaxReturns
    BY PlacementTxAssumption DEF Capture, PutBack, TxInv, TypeOK
<1>4. Tables'
    BY <1>1, <1>2, <1>3 DEF TxInv, TypeOK, Tables, UsagesInv
<1>5. \A t \in Transactions : Fine(t, tx[t])'
    BY <1>1, <1>2, InvIsFine DEF Fine
<1>6. tx' \in [Transactions -> TxStates]
    BY <1>1 DEF TxInv, TypeOK
<1> QED
    BY <1>4, <1>5, <1>6, FineIsInv

LEMMA BeginTxInv ==
    ASSUME TxInv, NEW t \in Transactions, NEW o \in Orders, NEW kind \in Kinds,
           BeginTx(t, o, kind)
    PROVE  TxInv'
<1> DEFINE x == Tx("order", o, kind, FALSE, FALSE)
<1>1. "order" \in Statements
    BY DEF Statements
<1>2. x \in TxStates /\ x.pc = "order" /\ x.o = o /\ x.kind = kind /\ ~x.places /\ ~x.counts
    BY <1>1 DEF Tx, TxStates
<1>3. tx' = [tx EXCEPT ![t] = x] /\ UNCHANGED <<tables, locks, returns>>
    BY DEF BeginTx, Become
<1> HIDE DEF x
<1>4. Tables'
    BY <1>3, InvIsFine DEF Tables, tables, locks, UsagesInv
<1>5. Fine(t, x)'
    BY <1>2, <1>3 DEF Fine, BeginTx, tables, locks
<1> QED
    BY <1>3, <1>4, <1>5, OneMoves DEF tables, locks

LEMMA UpdateOrderInv ==
    ASSUME TxInv, NEW t \in Transactions, UpdateOrder(t)
    PROVE  TxInv'
<1>0. PICK o, kind : o = tx[t].o /\ kind = tx[t].kind
    OBVIOUS
<1>1. o \in Orders /\ kind \in Kinds /\ (kind = "finalize" => o \in paid)
    BY <1>0 DEF UpdateOrder, At, TxInv, KnowsInv, TypeOK, TxStates
<1>2. UNCHANGED <<tables, couponLock, returns>> /\ orderLock[o] = None
    BY <1>0 DEF UpdateOrder
<1>3. CASE kind = "finalize" /\ o \notin pending
    <2> DEFINE x == Tx("commit", o, kind, FALSE, FALSE)
    <2>1. "commit" \in Statements
        BY DEF Statements
    <2>2. x \in TxStates /\ x.pc = "commit" /\ x.o = o /\ x.kind = kind
          /\ ~x.places /\ ~x.counts
        BY <1>1, <2>1 DEF Tx, TxStates
    <2>3. tx' = [tx EXCEPT ![t] = x] /\ UNCHANGED orderLock
        BY <1>0, <1>3 DEF UpdateOrder, Become
    <2> HIDE DEF x
    <2>4. Tables'
        BY <1>2, <2>3, InvIsFine DEF Tables, tables, UsagesInv
    <2>5. Fine(t, x)'
        BY <1>1, <1>2, <2>2 DEF Fine, tables
    <2> QED
        BY <1>2, <2>3, <2>4, <2>5, OneMoves DEF tables
<1>4. CASE ~(kind = "finalize" /\ o \notin pending)
    <2> DEFINE pc == IF o \in CouponOrders THEN "usage" ELSE "commit"
    <2> DEFINE x == Tx(pc, o, kind, TRUE, FALSE)
    <2>1. pc \in Statements
        BY DEF Statements
    <2>2. tx' = [tx EXCEPT ![t] = x] /\ orderLock' = [orderLock EXCEPT ![o] = t]
        BY <1>0, <1>4 DEF UpdateOrder, Become
    <2>3. (pc = "usage" /\ o \in CouponOrders) \/ (pc = "commit" /\ o \notin CouponOrders)
        OBVIOUS
    <2> HIDE DEF pc
    <2>4. x \in TxStates /\ x.pc = pc /\ x.o = o /\ x.kind = kind
          /\ x.places /\ ~x.counts
        BY <1>1, <2>1 DEF Tx, TxStates
    <2> HIDE DEF x
    <2>5. orderLock' \in [Orders -> Transactions \cup {None}] /\ orderLock'[o] = t
        BY <1>1, <2>2 DEF TxInv, TypeOK
    <2>6. Tables'
        BY <1>2, <2>5, InvIsFine DEF Tables, tables, UsagesInv
    <2>7. Fine(t, x)'
        BY <1>1, <1>2, <2>3, <2>4, <2>5 DEF Fine, tables
    <2>8. \A s \in Transactions \ {t}, p \in Orders :
              orderLock[p] = s => orderLock'[p] = s
        BY <1>1, <1>2, <2>2, PlacementTxAssumption DEF TxInv, TypeOK
    <2> QED
        BY <1>2, <2>2, <2>6, <2>7, <2>8, OneMoves DEF tables
<1> QED
    BY <1>3, <1>4

\* The three statements between the update of the order and the commit.
LEMMA CouponStatementInv ==
    ASSUME TxInv, NEW t \in Transactions, FindUsage(t) \/ CountUsage(t) \/ CreateUsage(t)
    PROVE  TxInv'
<1>0. PICK o, kind : o = tx[t].o /\ kind = tx[t].kind
    OBVIOUS
<1>1. tx[t].pc \in {"usage", "count", "create"}
    BY DEF FindUsage, CountUsage, CreateUsage, At
<1>2. /\ o \in Orders /\ o \in CouponOrders /\ kind \in Kinds /\ orderLock[o] = t
      /\ kind = "finalize" => o \in paid
      /\ tx[t].pc # "usage" => o \notin usages
    BY <1>0, <1>1 DEF TxInv, TypeOK, TxStates, LocksInv, KnowsInv, CountsInv
<1>3. PICK pc \in {"commit", "count", "create"}, counts \in BOOLEAN :
          /\ tx' = [tx EXCEPT ![t] = Tx(pc, o, kind, TRUE, counts)]
          /\ pc = "count" => ~counts
          /\ pc = "create" => counts
          /\ pc = "commit" /\ ~counts => o \in usages
          /\ pc = "count" \/ counts => o \notin usages
    <2>1. CASE FindUsage(t) /\ o \in usages
        BY <1>0, <2>1 DEF FindUsage, Become
    <2>2. CASE FindUsage(t) /\ o \notin usages
        BY <1>0, <2>2 DEF FindUsage, Become
    <2>3. CASE CountUsage(t)
        BY <1>0, <1>2, <2>3 DEF CountUsage, Become, At
    <2>4. CASE CreateUsage(t)
        BY <1>0, <1>2, <2>4 DEF CreateUsage, Become, At
    <2> QED
        BY <2>1, <2>2, <2>3, <2>4
<1>4. UNCHANGED <<tables, orderLock, returns>> /\ couponLock' \in Transactions \cup {None}
    BY DEF FindUsage, CountUsage, CreateUsage, locks, TxInv, TypeOK
<1> DEFINE x == Tx(pc, o, kind, TRUE, counts)
<1>5. pc \in Statements
    BY DEF Statements
<1>6. x \in TxStates /\ x.pc = pc /\ x.o = o /\ x.kind = kind /\ x.places
      /\ x.counts = counts
    BY <1>2, <1>5 DEF Tx, TxStates
<1>7. tx' = [tx EXCEPT ![t] = x]
    BY <1>3
<1> HIDE DEF x
<1>8. Tables'
    BY <1>4, InvIsFine DEF Tables, tables, UsagesInv
<1>9. Fine(t, x)'
    BY <1>2, <1>3, <1>4, <1>6 DEF Fine, tables
<1> QED
    BY <1>4, <1>7, <1>8, <1>9, OneMoves DEF tables

-------------------------------------------------------------------------------
(* The end of a transaction *)

LEMMA EndLocks ==
    ASSUME TxInv, NEW t \in Transactions, End(t)
    PROVE  /\ tx' = [tx EXCEPT ![t] = Idle]
           /\ orderLock' \in [Orders -> Transactions \cup {None}]
           /\ couponLock' \in Transactions \cup {None}
           /\ \A s \in Transactions \ {t}, o \in Orders :
                  orderLock[o] = s => orderLock'[o] = s
BY DEF End, Become, TxInv, TypeOK

LEMMA RollbackInv ==
    ASSUME TxInv, NEW t \in Transactions, Rollback(t)
    PROVE  TxInv'
<1>1. End(t) /\ UNCHANGED <<tables, returns>>
    BY DEF Rollback
<1>2. Tables'
    BY <1>1, EndLocks, InvIsFine DEF Tables, tables, UsagesInv
<1>3. Fine(t, Idle)'
    BY IdleFields DEF Fine
<1> QED
    BY <1>1, <1>2, <1>3, EndLocks, OneMoves DEF tables

\* What a commit makes of the tables: a placement, if it places an order that was
\* not placed, and at most a payment otherwise.
LEMMA CommitLedger ==
    ASSUME TxInv, NEW t \in Transactions, Commit(t)
    PROVE  LET o == tx[t].o IN
           /\ o \in Orders
           /\ \/ UNCHANGED <<paid, placed, usages, usedCount>>
              \/ Ledger!Pay(o)
              \/ Ledger!Place(o) /\ orderLock[o] = t
<1> DEFINE o == tx[t].o
<1> DEFINE x == tx[t]
<1>1. Fine(t, x) /\ x.pc = "commit"
    BY InvIsFine DEF Commit, At
<1>2. o \in Orders
    BY <1>1 DEF Fine
<1>3. CASE ~x.places
    <2>1. ~x.counts
        BY <1>1, <1>3 DEF Fine
    <2> QED
        BY <1>2, <1>3, <2>1 DEF Commit
<1>4. CASE x.places /\ x.counts
    <2>1. o \in CouponOrders /\ o \notin usages /\ orderLock[o] = t
        BY <1>1, <1>4 DEF Fine
    <2>2. o \notin placed
        BY <2>1 DEF TxInv, UsagesInv
    <2>3. paid' \in {paid, paid \cup {o}} /\ o \in paid'
        BY <1>1, <1>4 DEF Commit, Fine, TxInv, TypeOK, TxStates, Kinds
    <2>4. Ledger!Place(o)
        BY <1>4, <2>1, <2>2, <2>3 DEF Commit, Ledger!Place
    <2> QED
        BY <1>2, <2>1, <2>4
<1>5. CASE x.places /\ ~x.counts
    <2>1. (o \notin CouponOrders \/ o \in usages) /\ orderLock[o] = t
        BY <1>1, <1>5 DEF Fine
    <2>2. paid' \in {paid, paid \cup {o}} /\ o \in paid'
        BY <1>1, <1>5 DEF Commit, Fine, TxInv, TypeOK, TxStates, Kinds
    <2>3. UNCHANGED <<usages, usedCount>> /\ placed' = placed \cup {o}
        BY <1>5 DEF Commit
    <2>4. CASE o \in placed
        <3>1. placed' = placed
            BY <2>3, <2>4
        <3>2. CASE paid' = paid
            BY <1>2, <2>3, <3>1, <3>2
        <3>3. CASE paid' = paid \cup {o}
            BY <1>2, <2>3, <3>1, <3>3 DEF Ledger!Pay
        <3> QED
            BY <2>2, <3>2, <3>3
    <2>5. CASE o \notin placed
        <3>1. o \notin CouponOrders
            BY <2>1, <2>5 DEF TxInv, UsagesInv
        <3>2. Ledger!Place(o)
            BY <2>2, <2>3, <2>5, <3>1 DEF Ledger!Place
        <3> QED
            BY <1>2, <2>1, <3>2
    <2> QED
        BY <2>4, <2>5
<1> QED
    BY <1>3, <1>4, <1>5

LEMMA CommitInv ==
    ASSUME TxInv, NEW t \in Transactions, Commit(t)
    PROVE  TxInv'
<1>0. PICK o : o = tx[t].o
    OBVIOUS
<1>1. /\ o \in Orders
      /\ \/ UNCHANGED <<paid, placed, usages, usedCount>>
         \/ Ledger!Pay(o)
         \/ Ledger!Place(o) /\ orderLock[o] = t
    BY <1>0, CommitLedger
<1>2. End(t) /\ pending' \in SUBSET Orders /\ UNCHANGED returns
    BY DEF Commit, TxInv, TypeOK
<1>3. /\ paid \subseteq paid' /\ paid' \in SUBSET Orders
      /\ placed' \in SUBSET Orders
      /\ usages \subseteq usages' /\ usages' \in SUBSET Orders
      /\ usedCount' \in Nat
      /\ usages' = placed' \cap CouponOrders
    BY <1>1 DEF Ledger!Pay, Ledger!Place, TxInv, TypeOK, UsagesInv
<1>4. \A p \in Orders : p \in usages' /\ p \notin usages => orderLock[p] = t
    BY <1>1 DEF Ledger!Pay, Ledger!Place
<1>5. Tables'
    BY <1>2, <1>3, EndLocks, InvIsFine DEF Tables, UsagesInv
<1>6. tx' = [tx EXCEPT ![t] = Idle]
    BY <1>2, EndLocks
<1>7. tx' \in [Transactions -> TxStates]
    BY <1>6, IdleFields DEF TxInv, TypeOK
<1>8. ASSUME NEW s \in Transactions PROVE Fine(s, tx[s])'
    <2>1. CASE s = t
        <3>1. tx'[s] = Idle
            BY <1>6, <2>1 DEF TxInv, TypeOK
        <3> QED
            BY <3>1, IdleFields DEF Fine
    <2>2. CASE s # t
        <3>0. PICK mine : mine = tx[s]
            OBVIOUS
        <3>1. tx'[s] = mine
            BY <1>6, <2>2, <3>0 DEF TxInv, TypeOK
        <3>2. Fine(s, mine)
            BY <3>0, InvIsFine
        <3>3. mine.places => mine.o \in Orders /\ orderLock[mine.o] = s
            BY <3>2 DEF Fine
        <3>4. mine.places => orderLock'[mine.o] = s
            BY <1>2, <2>2, <3>3, EndLocks
        <3>5. mine.places /\ mine.o \notin usages => mine.o \notin usages'
            BY <1>4, <2>2, <3>3
        <3>6. mine.pc \in {"count", "create"} \/ mine.counts => mine.places
            BY <3>2 DEF Fine
        <3> QED
            BY <1>3, <3>1, <3>2, <3>4, <3>5, <3>6 DEF Fine
    <2> QED
        BY <2>1, <2>2
<1> QED
    BY <1>5, <1>7, <1>8, FineIsInv

-------------------------------------------------------------------------------

LEMMA NextInv == TxInv /\ [Next]_vars => TxInv'
<1> SUFFICES ASSUME TxInv, [Next]_vars
             PROVE  TxInv'
    OBVIOUS
<1>1. CASE UNCHANGED vars
    BY <1>1 DEF vars, tables, locks, TxInv, TypeOK, LocksInv, KnowsInv, CountsInv,
                UsagesInv
<1>2. CASE Next
    BY <1>2, TableStep, BeginTxInv, UpdateOrderInv, CouponStatementInv, CommitInv,
       RollbackInv DEF Next, Run
<1> QED
    BY <1>1, <1>2

\* The lock of the order's row, taken by the first statement and kept until the
\* end, is what makes the usage read by couponUsage.findFirst still true at the
\* commit of finalizePaidOrder, markCounterOrderPlaced and updateStatus.
THEOREM Invariance == Spec => []TxInv
BY InitInv, NextInv, PTL DEF Spec

\* The rows, locks and transactions are what their types say.
THEOREM TypeCorrect == Spec => []TypeOK
<1>1. TxInv => TypeOK
    BY DEF TxInv
<1> QED
    BY <1>1, Invariance, PTL

\* The placing transactions, statement by statement at READ COMMITTED, implement
\* Placement: an order is placed once, paid, and its coupon counted in the same
\* step.  A commit maps to Pay, Place or a stutter, a capture to Pay, and every
\* other statement to a stutter.
THEOREM LedgerRefinement == Spec => LedgerSpec
<1>1. Init => Ledger!Init
    BY DEF Init, Ledger!Init
<1>2. TxInv /\ [Next]_vars => [Ledger!Next]_(Ledger!vars)
    <2> SUFFICES ASSUME TxInv, [Next]_vars
                 PROVE  [Ledger!Next]_(Ledger!vars)
        OBVIOUS
    <2>1. CASE UNCHANGED vars
        BY <2>1 DEF vars, tables, Ledger!vars
    <2>2. ASSUME NEW o \in Orders, Capture(o) PROVE Ledger!Next
        BY <2>2 DEF Capture, Ledger!Next, Ledger!Pay
    <2>3. ASSUME NEW o \in Orders, PutBack(o) PROVE UNCHANGED Ledger!vars
        BY <2>3 DEF PutBack, Ledger!vars
    <2>4. ASSUME NEW t \in Transactions, NEW o \in Orders, NEW kind \in Kinds,
                 BeginTx(t, o, kind)
          PROVE  UNCHANGED Ledger!vars
        BY <2>4 DEF BeginTx, tables, Ledger!vars
    <2>5. ASSUME NEW t \in Transactions,
                 \/ UpdateOrder(t) \/ FindUsage(t) \/ CountUsage(t)
                 \/ CreateUsage(t) \/ Rollback(t)
          PROVE  UNCHANGED Ledger!vars
        BY <2>5 DEF UpdateOrder, FindUsage, CountUsage, CreateUsage, Rollback, tables,
                    Ledger!vars
    <2>6. ASSUME NEW t \in Transactions, Commit(t)
          PROVE  [Ledger!Next]_(Ledger!vars)
        BY <2>6, CommitLedger DEF Ledger!Next, Ledger!vars
    <2> QED
        BY <2>1, <2>2, <2>3, <2>4, <2>5, <2>6 DEF Next, Run
<1> QED
    BY <1>1, <1>2, Invariance, PTL DEF Spec, LedgerSpec, Ledger!Spec
===============================================================================

SPECIFICATION Spec
CONSTANTS
    Transactions = {t1, t2}
    Users = {u1, u2}
    Foods = {f1, f2}
    Stars = {5}
    None = None
SYMMETRY Symmetric
INVARIANTS
    TypeOK
    SummariesAreExactUnlessCrowded
    DeadlocksNeedCrossedOrders

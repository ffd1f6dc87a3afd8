SPECIFICATION FairSpec
CONSTANTS
    Transactions = {t1, t2, t3}
    Orders = {o1, o2}
    CouponOrders = {o1, o2}
    MaxReturns = 1
    None = None
PROPERTIES
    LedgerSpec
    TransactionsEnd

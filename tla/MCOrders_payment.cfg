SPECIFICATION Spec
CONSTANTS
    Requests = {r1, r2}
    Orders = {o1}
    CouponOrders = {o1}
    UsageLimit = 2
    ProviderOrders = {p1, p2}
    PaymentIds = {x, y}
    NoOrder = NoOrder
    None = None
SYMMETRY Symmetric
INVARIANTS
    KitchenOrdersAreSettled
    CapturedRowsMatchProvider
    AcknowledgedCapturesAreRecorded
    CleanCapturesCanSettle
    DuplicatePaymentsNeedOverlap
    RedemptionsAreCountedOnce
PROPERTIES
    LedgerSpec

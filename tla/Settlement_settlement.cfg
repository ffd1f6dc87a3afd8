SPECIFICATION SettlementSpec
CONSTANTS
    Requests = {r1, r2}
    Orders = {o1}
    CouponOrders = {}
    UsageLimit = 1
    ProviderOrders = {p1}
    PaymentIds = {x, y}
    NoOrder = NoOrder
    None = None
PROPERTIES
    CapturesAreSettled
    PaidOrdersStopWaiting

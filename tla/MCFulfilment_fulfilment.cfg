SPECIFICATION FulfilmentSpec
CONSTANTS
    Requests = {r1, r2}
    Orders = {o1}
    CustomerStreams = {c1}
    StaffStreams = {s1}
    FirstStatuses = {NoOrder, "PREPARING"}
    MaxStarts = 3
    LastMonth = 1
    Configured = TRUE
    NoOrder = NoOrder
    None = None
SYMMETRY Symmetric
INVARIANTS
    StreamsKeepUp
    PlacedOrdersAreNotifiedOnce
    StoredDocumentsExist
    LoneReadersSettleInvoices
PROPERTIES
    ReadTimesNeedOverlap

SPECIFICATION CouponsSpec
CONSTANTS
    Orders = {o1, o2}
    Subtotals = {8990, 15000}
    Values = {10000, 15000}
    MinimumAmounts = {0, 10000}
    UsageLimits = {1}
    LastInstant = 2
    Absent = Absent
SYMMETRY Symmetric
INVARIANTS
    ShownFeesAreCharged
PROPERTIES
    ReachedLimitsHold
    QuotesHold
    OnlyOneDateTurnsTheRange

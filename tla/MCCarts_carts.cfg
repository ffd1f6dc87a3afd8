SPECIFICATION Spec
CONSTANTS
    Requests = {r1, r2}
    Foods = {a, b}
    MaxQuantity = 2
    MaxLines = 2
    None = None
SYMMETRY Symmetric
INVARIANTS
    ItemsAreTheCappedSums
PROPERTY ReplacementsLeaveTheirItems

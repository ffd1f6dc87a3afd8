SPECIFICATION Spec
CHECK_DEADLOCK FALSE
CONSTANTS
    Requests = {r1, r2, r3}
    a = a
    b = b
    Codes = {a, b}
    DeriveOtp <- Derive
    OtpExpiry = 2
    MaxAttempts = 2
    MaxTime = 2
    MaxOffset = 2
    MaxLost = 1
    None = None
SYMMETRY Symmetric
INVARIANTS
    AttemptsAreBounded
    GuessesAreBounded
    EndsStandUnlessOvertaken

SPECIFICATION Spec
CONSTANTS
    Requests = {r1, r2}
    Accounts = {owner, u1, u2}
    Owner = owner
    e = e
    upperE = upperE
    c1 = c1
    c2 = c2
    p1 = p1
    p2 = p2
    Emails = {e, upperE, c1, c2}
    OwnerEmail = e
    Lowered <- InLowerCase
    Phones = {p1, p2}
    CounterEmail <- Made
    None = None
SYMMETRY Symmetric
INVARIANTS
    ConflictsNeedOverlap
    SignedInAccountsWork
PROPERTY AccountsKeepAKey

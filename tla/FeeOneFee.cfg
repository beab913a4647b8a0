CONSTANTS
    s1 = s1
    s2 = s2
    f1 = f1
    f2 = f2
    p1 = p1
    p2 = p2
    r1 = r1
    r2 = r2
    x = x
    None = None
    Students = {s1}
    Structures = {f1}
    Payments = {p1, p2}
    Requests = {r1, r2}
    References = {}
    Trim <- MCTrim
    Fee <- MCFee
    Scholarships <- MCScholarships
    Amounts = {1, 2}
    Resets = {}
    MaxDay = 1
    MaxVersion = 2
SYMMETRY Symmetry
SPECIFICATION Spec
INVARIANTS
    NoOverpayment
    StatusMatchesBalance
    LedgerBalances
PROPERTY CancelledIsFinal

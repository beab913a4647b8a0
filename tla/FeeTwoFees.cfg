CONSTANTS
    s1 = s1
    s2 = s2
    f1 = f1
    f2 = f2
    p1 = p1
    p2 = p2
    r1 = r1
    r2 = r2
    x = x
    None = None
    Students = {s1}
    Structures = {f1, f2}
    Payments = {p1, p2}
    Requests = {r1, r2}
    References = {}
    Trim <- MCTrim
    Fee <- MCFee
    Scholarships = {}
    Amounts = {2}
    Resets <- MCResets
    MaxDay = 2
    MaxVersion = 2
SYMMETRY Symmetry
SPECIFICATION Spec
INVARIANTS
    TypeOK
    ReceiptIsStored
    ReceiptsAreNumbered
PROPERTY KeepsTheBooks

CONSTANTS
    p1 = p1
    s1 = s1
    s2 = s2
    h1 = h1
    h2 = h2
    None = None
    Papers = {p1}
    Students = {s1, s2}
    StoredEntries <- MCEntries
    Handlers = {h1, h2}
    MaxMoves = 3
    MaxCommits = 4
SYMMETRY Symmetry
SPECIFICATION CardsSpec
INVARIANTS
    CardsTypeOK
    PublishedIsComplete
    FileIsStored
PROPERTIES
    LockedCardIsFrozen
    WithdrawnForAReason

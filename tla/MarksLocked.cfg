CONSTANTS
    p1 = p1
    s1 = s1
    s2 = s2
    r1 = r1
    r2 = r2
    e1 = e1
    None = None
    Papers = {p1}
    Students = {s1}
    Requests = {r1, r2}
    Editors = {e1}
    Entries <- MCEntries
    MaxMarks = 0
    SaveStatuses = {"SUBMITTED", "APPROVED"}
    Overrides = {"COMPLETED"}
    MaxVersion = 3
    MaxExamVersion = 2
SYMMETRY Symmetry
SPECIFICATION MarksSpec
PROPERTY LockedIsImmutable

CONSTANTS
    s1 = s1
    s2 = s2
    s3 = s3
    h1 = h1
    h2 = h2
    None = None
    Students = {s1, s2, s3}
    Batches = {1, 2, 3}
    RowsOf <- MCRowsOf
    Replace = FALSE
    Handlers = {h1, h2}
    StaffRows = {{}, {s2}, {s2, s3}}
    MaxVersion = 2
    MaxFaults = 2
SPECIFICATION FairAttSpec
CHECK_DEADLOCK FALSE
INVARIANT JobIsTrue
PROPERTIES
    LockStopsTeachers
    SkipKeepsMarks
    ImportEnds

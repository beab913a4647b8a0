\* Imports of every kind: three rows, two to a transaction; two requests at once.
CONSTANTS
    h1 = h1
    h2 = h2
    Kinds = {"STUDENTS", "ACADEMIC_SETUP", "GUARDIANS", "GUARDIAN_MAPPING"}
    Rows <- McRows
    MappingOf <- McMappingOf
    ChunkSize = 2
    Handlers <- McHandlers
SPECIFICATION ImpSpec
INVARIANT OutcomeIsTrue
PROPERTY JobEnds
CHECK_DEADLOCK FALSE

CONSTANTS
    parent = parent
    teacher = teacher
    principal = principal
    h1 = h1
    h2 = h2
    None = None
    Users = {parent, teacher, principal}
    RolesOf <- MCRolesOf
    Handlers = {h1, h2}
    MaxVersion = 5
SYMMETRY Symmetry
SPECIFICATION CommSpec
CHECK_DEADLOCK FALSE
INVARIANTS
    PeopleAreOnce
    TurnIsTracked
PROPERTY ImplementsThread

\* Two requests at once; the second failed login locks the account.
CONSTANTS
    h1 = h1
    h2 = h2
    Handlers <- McHandlers
    MaxAttempts = 2
    MaxTokens = 3
    MaxVersion = 5
SYMMETRY McSymmetry
SPECIFICATION SesSpec
INVARIANTS
    OneSuccessor
    AttemptsAreCounted
CHECK_DEADLOCK FALSE

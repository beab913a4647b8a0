CONSTANTS
    e1 = e1
    e2 = e2
    m1 = m1
    m2 = m2
    a = a
    b = b
    s1 = s1
    s2 = s2
    s3 = s3
    Unset = Unset
    Exams = {e1, e2}
    Subjects = {m1, m2}
    Sections = {a, b}
    MaxOf <- MCMaxOf
    Config = {Unset, 0, 1, 3}
    Situations <- MCSituations
SYMMETRY Symmetry
SPECIFICATION ResultsSpec
CHECK_DEADLOCK FALSE
INVARIANT RanksAgree
PROPERTY BetterMarksNeverHurt

SPECIFICATION FairSpec
CONSTANTS
    Assignment = {m1, m2, m3}
    Twins = {m2, m3}
    NoAssignment = none
    MaxLevels = 3
    Formulas <- MCFormulas
INVARIANTS
    JustIsElement
    NothingIsEmpty
    ErrorOnlyIfNoElement
    NeverNoMatch
    ErrorIsReal
PROPERTIES
    Terminates
    FindsElement
    Promise
CHECK_DEADLOCK FALSE

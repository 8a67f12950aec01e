SPECIFICATION Spec
CONSTANTS
    MaxCalls = 2
    MaxTerms = 4
INVARIANTS
    CallsAreSafe
    EndsClean
CHECK_DEADLOCK FALSE

SPECIFICATION Spec
CONSTANTS
    MaxCalls = 1
    MaxTerms = 4
INVARIANT OperandsRight
CHECK_DEADLOCK FALSE

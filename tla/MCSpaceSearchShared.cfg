SPECIFICATION SpaceSpec
CONSTANTS
    MaxId = 2
    Ids <- MCIds
    Computation <- MCComputation
    Height <- MCHeight
    Assignment <- MCAssignment
    NoAssignment = none
    Formulas <- MCFormulas
    Exprs <- SharedExprs
INVARIANTS
    UndefinedIsNoSolution
CHECK_DEADLOCK FALSE

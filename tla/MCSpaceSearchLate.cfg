SPECIFICATION SpaceSpec
CONSTANTS
    MaxId = 2
    Ids <- MCIds
    Computation <- MCComputation
    Height <- MCHeight
    Assignment <- MCAssignment
    NoAssignment = none
    Formulas <- MCFormulas
    Exprs <- LateTotalExprs
INVARIANTS
    EmptyReturnsNothing
CHECK_DEADLOCK FALSE

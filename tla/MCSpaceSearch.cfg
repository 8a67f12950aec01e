SPECIFICATION SpaceSpec
CONSTANTS
    MaxId = 2
    Ids <- MCIds
    Computation <- MCComputation
    Height <- MCHeight
    Assignment <- MCAssignment
    NoAssignment = none
    Formulas <- MCFormulas
    Exprs <- AllExprs
INVARIANTS
    Faithful
    Proper
    SolverSeesNoUnreachable
    JustRealizes
    NothingHasNone
    ErrorsAreFair
CHECK_DEADLOCK FALSE

SPECIFICATION FairSpec
CONSTANTS
    x1 = x1
    x2 = x2
    i1 = i1
    leq = leq
    and = and
    or = or
    c1 = c1
    c2 = c2
    c3 = c3
    x = x
    y = y
    Node = {x1, x2, i1, leq, and, or}
    Id = {x, y}
    Call = {c1, c2, c3}
    Const = {i1}
    NoExpr = NoExpr
    Kids <- MCKids
    IdOf <- MCIdOf
    Root <- MCRoot
INVARIANTS
    OwnExpressions
    BuildsFormula
    DeclaredOnce
    VarsComplete
    MadeOnce
PROPERTIES
    Completes
CHECK_DEADLOCK FALSE

SPECIFICATION Spec
CONSTANTS
    b = b
    x = x
    Open = Open
    c1 = c1
    c2 = c2
    Call = {c1, c2}
    Var = {b, x}
    Width <- MCWidth
    Queries <- MCQueries
    Backends <- MCBackends
INVARIANTS
    IdsApart
    ContextsRight
    ModelIsUsers
PROPERTIES
    Implements
CHECK_DEADLOCK FALSE

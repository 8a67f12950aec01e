SPECIFICATION Spec
CONSTANTS
    x = x
    y = y
    Names = {x, y}
    MaxVars = 3
    MaxAsserts = 2
INVARIANTS
    GatesSound
    GatesConservative
    AnswerRight
CHECK_DEADLOCK FALSE

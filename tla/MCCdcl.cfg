SPECIFICATION FairSpec
CONSTANTS
    Inputs <- MCInputs
    LevelBits = 2
    restart_first = 1
    MaxRestarts = 4
    learntsize_factor <- MCLearnt
    garbage_frac <- MCGarbage
INVARIANTS
    ReasonsOk
    WatchesOk
    PropagationComplete
    Entailed
PROPERTIES
    Implements
    Answers
CHECK_DEADLOCK FALSE

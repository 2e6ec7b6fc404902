SPECIFICATION Spec
SYMMETRY Symmetry
CHECK_DEADLOCK FALSE
CONSTANTS
    Processes = {w1, w2, w3}
    Workers = {w1, w2, w3}
    Process <- OwnProcess
    Repos = {r1}
    Keys = {k1}
    Stalling = {}
    None = None
INVARIANTS
    PerformedOnce

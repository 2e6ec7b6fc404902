SPECIFICATION Spec
SYMMETRY Symmetry
CHECK_DEADLOCK FALSE
CONSTANTS
    Intents = {i1, i2}
    Preparations = {p1, p2}
    Requests = {r1}
    None = None
INVARIANTS
    OneExecutionInFlight

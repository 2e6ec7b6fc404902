SPECIFICATION ViewSpec
CHECK_DEADLOCK FALSE
CONSTANTS
    Intents = {i1}
    Preparations = {p1}
    Requests = {r1}
    None = None
PROPERTIES
    OutcomeRecorded

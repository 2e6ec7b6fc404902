SPECIFICATION Spec
SYMMETRY Symmetry
CHECK_DEADLOCK FALSE
CONSTANTS
    Intents = {i1}
    Preparations = {p1, p2}
    Requests = {r1, r2}
    None = None
INVARIANTS
    TypeOK
    FenceTellsTruth
    PublishedBeforeFence
    ExecutedAsPrepared
    OutcomeIsTrue
PROPERTIES
    OutcomeIsFinal
    ImplementsContract

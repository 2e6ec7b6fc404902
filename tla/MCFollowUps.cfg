SPECIFICATION Spec
SYMMETRY Symmetry
CHECK_DEADLOCK FALSE
CONSTANTS
    Hosts = {h1, h2}
    Messages = {m1, m2}
    MaxItems = 2
    MaxGeneration = 2
    MaxVersion = 4
    MaxRunVersion = 3
    None = None
INVARIANTS
    TypeOK
    HandedOnce
    OneSendAtATime
    AcceptedTruthfully
    PublishedBeforeNextChange
PROPERTIES
    HandoffOfOwnClaim

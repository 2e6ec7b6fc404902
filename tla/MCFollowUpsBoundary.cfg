SPECIFICATION Spec
SYMMETRY Symmetry
CHECK_DEADLOCK FALSE
CONSTANTS
    Hosts = {h1}
    Messages = {m1, m2}
    MaxItems = 2
    MaxGeneration = 2
    MaxVersion = 2
    MaxRunVersion = 1
    None = None
INVARIANTS
    OneAttemptPerRunVersion

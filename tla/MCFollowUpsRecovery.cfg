SPECIFICATION FairSpec
CHECK_DEADLOCK FALSE
CONSTANTS
    Hosts = {h1}
    Messages = {m1}
    MaxItems = 1
    MaxGeneration = 2
    MaxVersion = 2
    MaxRunVersion = 1
    None = None
PROPERTIES
    InterruptedIsReplayed

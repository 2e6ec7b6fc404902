SPECIFICATION FairSpec
CHECK_DEADLOCK FALSE
CONSTANTS
    alice = alice
    Users = {alice, bob}
    Managers = {bob}
    Agents = {a1}
    Triggers = {t1}
    Author <- OneAuthor
    Revisions = {v1}
    MaxTurns = 1
    MaxVersion = 1
    Requests = {r1}
    None = None
PROPERTIES
    SupersededIsCancelled

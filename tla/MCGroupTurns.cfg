SPECIFICATION Spec
SYMMETRY Symmetry
CHECK_DEADLOCK FALSE
CONSTANTS
    alice = alice
    Users = {alice}
    Managers = {}
    Agents = {a1}
    Triggers = {t1}
    Author <- OneAuthor
    Revisions = {v1, v2}
    MaxTurns = 1
    MaxVersion = 3
    Requests = {r1, r2}
    None = None
INVARIANTS
    TypeOK
    BudgetHeld
    RespondedByOwnIntent
PROPERTIES
    TerminalClaimsStay
    PublishedUnderRetainedGrant

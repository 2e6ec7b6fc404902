SPECIFICATION Spec
SYMMETRY Symmetry
CHECK_DEADLOCK FALSE
CONSTANTS
    Submissions = {t1}
    SigningKeys = {s1, s2}
    EncryptionKeys = {e1, e2}
    Nonces = {x1}
    Requests = {r1}
    MaxTime = 3
    Window = 2
    Future = 1
    RatePeriod = 1
    RateLimit = 1
    Ttl = 2
    Grace = 2
    None = None
INVARIANTS
    TypeOK
    GraceNeverBinds
PROPERTIES
    ReleasedUnderCurrentAuthority

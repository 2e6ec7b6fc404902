SPECIFICATION Spec
SYMMETRY Symmetry
CHECK_DEADLOCK FALSE
CONSTANTS
    Submissions = {}
    SigningKeys = {s1}
    EncryptionKeys = {e1}
    Nonces = {x1, x2, x3}
    Requests = {r1, r2}
    MaxTime = 4
    Window = 3
    Future = 1
    RatePeriod = 2
    RateLimit = 2
    Ttl = 2
    Grace = 2
    None = None
INVARIANTS
    NonceAcceptedOnce
    RateHeld
PROPERTIES
    EventsThrottled

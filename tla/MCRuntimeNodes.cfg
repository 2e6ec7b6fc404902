SPECIFICATION Spec
CONSTRAINT Followed
SYMMETRY Symmetry
CHECK_DEADLOCK FALSE
CONSTANTS
    Nodes = {n1, n2}
    SigningKeys = {s1, s2}
    EncryptionKeys = {e1}
    Challenges = {c1, c2, c3}
    Requests = {r1, r2}
    Names = {d1, d2}
    Kinds = {"local_device", "remote_host"}
    None = None
    Presented = d1
INVARIANTS
    TypeOK
    OneActiveKeyPerRole
    VersionsOrdered
    ProofProvenance
    RemoteHostSpentGrant
    RenamesStayDistinct
PROPERTIES
    RetiredForever
    RevocationStopsNewRequests

SPECIFICATION Spec
CONSTANTS
    w1 = w1
    w2 = w2
    d1 = d1
    d2 = d2
    Devices = {d1, d2}
    Workers = {w1, w2}
    NoWorker = NoWorker
    NoDevice = NoDevice
    Limit = 1
    MaxLogins = 2
    MaxTokens = 4
    Roles <- OneActive
SYMMETRY Symmetric
INVARIANTS
    TypeOK
    SessionsBounded
    HonestIsKept
PROPERTIES
    RotatedOnce
    GraceNotExtended
    ImplementsTokens

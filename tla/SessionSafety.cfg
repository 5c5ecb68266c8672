\* Two users, expiry, failures, and a pool that two requests can exhaust.
SPECIFICATION Spec
CONSTANTS
    User = {u1, u2}
    Request = {r1, r2}
    Failing = {r1, r2}
    MaxSessions = 4
    MaxExpired = 1
    PoolSize = 3
SYMMETRY Symmetry
INVARIANTS
    TypeOK
    ChainsAreLinear
    ReuseLeavesOnlyLate
    NoSelfDeadlock
    OnlyReuseEndsAChain
PROPERTIES
    RevokedIsFinal
    ImplementsTokens

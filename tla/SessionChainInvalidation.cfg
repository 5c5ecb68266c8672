\* The documented chain invalidation against a concurrent rotation.
SPECIFICATION Spec
CONSTANTS
    User = {u1}
    Request = {r1, r2}
    Failing = {r1, r2}
    MaxSessions = 4
    MaxExpired = 0
    PoolSize = 4
INVARIANT ReuseInvalidatesTheChain

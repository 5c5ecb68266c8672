\* One connection less than two reuse paths need.
SPECIFICATION FairSpec
CONSTANTS
    User = {u1}
    Request = {r1, r2}
    Failing = {}
    MaxSessions = 4
    MaxExpired = 0
    PoolSize = 3
PROPERTY StallsOnlyInReusePaths
CHECK_DEADLOCK FALSE

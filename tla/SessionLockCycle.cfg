\* A connection for everybody: two replays still wait for each other's rows.
SPECIFICATION FairSpec
CONSTANTS
    User = {u1}
    Request = {r1, r2}
    Failing = {}
    MaxSessions = 4
    MaxExpired = 0
    PoolSize = 4
PROPERTY EveryRequestEnds
CHECK_DEADLOCK FALSE

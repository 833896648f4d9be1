SPECIFICATION FairSpec
CONSTANTS
    LeaseId = {l1, l2}
    User = {u1}
    None = None
    NumSlots = 1
    Ttl = 3
    IdleTimeout = 2
    MaxLifetime = 3
    ParkTtl = 2
    ParkGrace = 1
    MaxParkedPerUser = 1
    Requested = {0}
    BodyTimeout = 1
    SlowRebuild = TRUE
    MaxPending = 1
    Sweeper = {s1}
    LastBirth = 1
    MaxNow = 4
CHECK_DEADLOCK FALSE
PROPERTIES  AcquireAnswered

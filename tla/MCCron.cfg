SPECIFICATION Spec
CONSTANTS
    Cron = {c1}
    Replica = {r1, r2}
    None = None
    Slots <- MCSlots
    Horizon = 3
    Every = 1
    Firsts = {3}
    MaxFires = 1
    MaxFails = 2
    LogMax = 2
    MaxTime = 3
    MaxOthers = 1
    MaxFaults = 1
INVARIANTS TypeOK ClaimsInOrder GivesUp
CHECK_DEADLOCK FALSE
SYMMETRY Perms

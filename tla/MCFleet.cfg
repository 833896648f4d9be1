SPECIFICATION Spec
CONSTANTS
    Nodes = {n1}
    Users = {u1}
    Operator = op
    Listers = {"pick"}
    Calls = {c1}
    Slots = 1
    StaleTtl = 2
    CacheTtl = 1
    TicketTtl = 1
    Limit = 2
    PerUser = 1
    PurgeAbove = 0
    MaxTickets = 2
    MaxFaults = 1
    MaxActs = 1
INVARIANTS TypeOK TicketOnce
SYMMETRY Perms
PROPERTIES DrainTakesEffect

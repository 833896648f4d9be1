SPECIFICATION Spec
CONSTANTS
    Nodes = {n1}
    Users = {u1}
    Operator = op
    Listers = {"reconcile"}
    Calls = {c1, c2}
    Slots = 1
    StaleTtl = 3
    CacheTtl = 1
    TicketTtl = 1
    Limit = 2
    PerUser = 1
    PurgeAbove = 0
    MaxTickets = 0
    MaxFaults = 1
    MaxActs = 1
PROPERTIES Relisted StoppedLeaves

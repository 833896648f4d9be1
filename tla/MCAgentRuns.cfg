SPECIFICATION Spec
CONSTANTS
    Run = {r1, r2, r3, r4}
    User = {u1, u2}
    Lease = {l1, l2}
    None = None
    MaxRuns = 3
    MaxPerUser = 2
    MaxEntries = 1
    MaxOps = 2
    MaxToken = 2
SYMMETRY Perms
INVARIANTS TypeOK BudgetExact SandboxesOwned
CHECK_DEADLOCK FALSE

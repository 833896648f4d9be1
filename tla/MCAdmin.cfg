SPECIFICATION AdminSpec
CONSTANTS
    Users = {u1}
    Secrets = {s1, s2}
    Replicas = {r1}
    Requests = {p1, p2}
    CacheTtl = 1
    Latency = 1
    MaxAttempts = 2
    UserMax = 1
    MaxRevocations = 1
    Groups = {s1, s2}
    Members = {1, 2}
    Models = {m1}
    Names = {n1}
    Edits = {p1, p2}
    PageSize = 1
    Payers = {1}
    Turns = {t1, t2, t3}
    MaxTokens = 1
    Limits = {0, 1, 2}
    MaxChanges = 1
    PerUser = 1
    People = {1, 2, 3}
    MaxSum = 1
    MaxWrites = 2
    PageLimit = 1
    ProbeMax = 2
INVARIANTS AllTypeOK Revoked OneRegistration  Consistent Gated ListedOnce
SYMMETRY Perms
CHECK_DEADLOCK FALSE

SPECIFICATION SessionsSpec
CONSTANTS
    Keys = {k1, k2}
    Projects = {p1}
    Requests = {q1, q2}
    Page = 1
    MaxLines = 2
INVARIANTS SessionsTypeOK StoredWhole
SYMMETRY Perms

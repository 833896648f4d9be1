SPECIFICATION WorkspaceSpec
CONSTANTS
    SessionKeys = {k1, k2}
    Runs = {r1, r2}
    Files = {f1, f2}
INVARIANTS WorkspaceTypeOK 
PROPERTIES DeletedOnPurpose
SYMMETRY Perms

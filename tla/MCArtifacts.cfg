SPECIFICATION Spec
CONSTANTS
    ArtifactIds = {a1}
    Tokens = {t1, t2}
    Requests = {p1, p2, p3}
    Keep = 2
    MaxVersion = 3
INVARIANTS TypeOK VersionsReadable LinksFollow
SYMMETRY Perms
CHECK_DEADLOCK FALSE

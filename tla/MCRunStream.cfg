SPECIFICATION FairSpec
CONSTANTS
    Run = {r1, r2}
    None = None
    MaxFrames = 2
    MaxBytes = 4
    MaxRetained = 1
    MaxAttempts = 2
    Size = {1, 5}
    MaxSeq = 5
    MaxLoads = 1
INVARIANTS TypeOK NoSilentGap
PROPERTIES Settles
CHECK_DEADLOCK FALSE

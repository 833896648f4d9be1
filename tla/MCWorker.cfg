SPECIFICATION WorkerSpec
CONSTANTS
    Job = {j1, j2}
    None = None
    RetainJobs = 1
    Attempts = 3
    MaxOutput = 2
    Hosts = {"a", "x", "o"}
    NoHost = "none"
    Stores = {"o"}
    Overlapping = {c1, c2}
    Single = {c3}
    MaxAnswers = 2
    MaxBoots = 1
INVARIANTS AllTypeOK KilledOnlyIfAbandoned RulesHold
PROPERTIES ReliableOutput
SYMMETRY Perms
CHECK_DEADLOCK FALSE

SPECIFICATION Spec
CONSTANTS
    Runs = {r1}
    Keys = {k1, NoKey}
    NoKey = NoKey
    NoRun = NoRun
    Handlers = {h1, h2}
    Workers = {w1, w2}
    StaleAfter = 1
    VisibilityTimeout = 1
    MaxCopies = 1
    Faults = {"worker_crash", "redelivery", "database", "api", "publish", "ambiguous"}
    MaxFaults = 2
INVARIANTS TypeOK ExecutionExclusion OnlyCrashesForget
SYMMETRY Symmetry
CHECK_DEADLOCK FALSE

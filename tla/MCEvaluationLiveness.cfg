SPECIFICATION RetryingClients
CONSTANTS
    Runs = {r1, r2}
    Keys = {k1}
    NoKey = NoKey
    NoRun = NoRun
    Handlers = {h1, h2}
    Workers = {w1}
    StaleAfter = 0
    VisibilityTimeout = 0
    MaxCopies = 1
    Faults = {"worker_crash", "redelivery", "database", "api", "publish", "ambiguous"}
    MaxFaults = 2
PROPERTIES RepeatedRunsSettle ImplementsIdempotentCreate
CHECK_DEADLOCK FALSE

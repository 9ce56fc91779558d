SPECIFICATION Spec
CONSTANTS
    d1 = d1
    j1 = j1
    j2 = j2
    Documents = {d1}
    Jobs = {j1}
    DocumentOf <- OneJob
    NoDocument = NoDocument
    NoJob = NoJob
    Handlers = {h1}
    Workers = {w1, w2}
    MaxRetries = 1
    StaleAfter = 1
    VisibilityTimeout = 1
    Faults = {"worker_crash", "redelivery", "database", "api", "publish", "ambiguous", "storage"}
    MaxFaults = 2
SYMMETRY WorkerSymmetry
INVARIANTS
    TypeOK
    LeaseExclusion
    AttemptsBounded
CHECK_DEADLOCK FALSE

SPECIFICATION Spec
CONSTANTS
    d1 = d1
    j1 = j1
    j2 = j2
    Documents = {d1}
    Jobs = {j1, j2}
    DocumentOf <- TwoJobs
    NoDocument = NoDocument
    NoJob = NoJob
    Handlers = {h1, h2}
    Workers = {w1, w2}
    MaxRetries = 1
    StaleAfter = 0
    VisibilityTimeout = 0
    Faults = {"publish"}
    MaxFaults = 2
SYMMETRY Symmetry
INVARIANTS
    NoRowsWithoutDocument
    InFlightJobHasCarrier
    StorageMatchesRows
    SettledDocumentHasOutcome
CHECK_DEADLOCK FALSE

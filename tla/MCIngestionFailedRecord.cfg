SPECIFICATION Spec
CONSTANTS
    d1 = d1
    j1 = j1
    j2 = j2
    Documents = {d1}
    Jobs = {j1}
    DocumentOf <- OneJob
    NoDocument = NoDocument
    NoJob = NoJob
    Handlers = {h1}
    Workers = {w1, w2}
    MaxRetries = 1
    StaleAfter = 1
    VisibilityTimeout = 1
    Faults = {"redelivery"}
    MaxFaults = 1
PROPERTIES
    FailedIsTerminal
CHECK_DEADLOCK FALSE

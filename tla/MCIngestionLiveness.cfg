SPECIFICATION FairSpec
CONSTANTS
    d1 = d1
    j1 = j1
    j2 = j2
    Documents = {d1}
    Jobs = {j1}
    DocumentOf <- OneJob
    NoDocument = NoDocument
    NoJob = NoJob
    Handlers = {h1, h2}
    Workers = {w1, w2}
    MaxRetries = 1
    StaleAfter = 1
    VisibilityTimeout = 1
    Faults = {"publish", "ambiguous", "redelivery", "storage"}
    MaxFaults = 1
PROPERTIES
    JobsSettle
    
CHECK_DEADLOCK FALSE

SPECIFICATION Spec
CONSTANTS
    Runs = {r1}
    Keys = {k1}
    NoKey = NoKey
    NoRun = NoRun
    Handlers = {h1, h2}
    Workers = {w1, w2}
    StaleAfter = 1
    VisibilityTimeout = 1
    MaxCopies = 1
    Faults = {"publish"}
    MaxFaults = 1
PROPERTIES OutcomeIsFinal
CHECK_DEADLOCK FALSE

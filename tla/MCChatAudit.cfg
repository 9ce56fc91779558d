SPECIFICATION Spec
CONSTANTS
    MaxTurns = 3
    MaxOpen = 2
    Kinds = {"search"}
    HistoryLimit = 3
    MaxRetries = 1
    ChatFaults = {}
    MaxChatFaults = 0
    Parts = {"clients"}
INVARIANTS SearchesAreAudited
CHECK_DEADLOCK FALSE

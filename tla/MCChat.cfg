SPECIFICATION Spec
CONSTANTS
    MaxTurns = 3
    MaxOpen = 2
    Kinds = {"answer", "stream", "study", "search"}
    HistoryLimit = 3
    MaxRetries = 1
    ChatFaults = {"audit", "retrieval", "commit", "crash", "blank"}
    MaxChatFaults = 1
    Parts = {"clients", "page"}
INVARIANTS TypeOK TurnsAreWhole EndsAsStored  ViewAgreesWithStore FollowUpsAreFound
PROPERTIES HistoryIsRecent
CHECK_DEADLOCK FALSE

CONSTANTS
    Hits = {h1, h2}
    Limit = 2
    WindowSeconds = 2
    TicksPerSecond = 3
    FailClosed = TRUE
    MaxCalls = 3
    Bases = {b1, b2}
    Names = {n1}
    Contents = {x}
    KbFaults = {"put", "rows", "commit", "object", "crash"}
    MaxKbFaults = 1
    Docs = {"d", "e"}
    Passages = {1, 2}
    MaxGenerations = 2
    SearchTopK = 2
    RerankTopK = 2
    RrfK = 60
    VectorWeight = 1
    KeywordWeight = 1
    BlockTokens <- OneTokenEach
    Budgets = {2, 4}
    MaxContextChunks = 2
    MaxContextLength = 2
    MaxText = 5
    MaxSection = 3
    ChunkSize = 3
    ChunkOverlap = 2
    LongWord = 2
    CharsPerToken = 1
    Threads = {t1, t2, t3}
    ModelNames = {"m1", "m2"}
    MaxStarts = 3
    MaxRequests = 3
    Emails = {"e"}
    Passwords = {"p", "q"}
    ReportKeys = {"k"}
    Production = FALSE
    TokenTtl = 1
    MaxClock = 1
    MaxAccountFaults = 1
    Sources = {1, 2}
    MaxRetrieved = 2
    MaxLines = 2
    TopKs = {1, 2}
    Unit = 12
    Discount <- LogDiscount
    Thresholds <- GateThresholds
SPECIFICATION ServicesSpec
INVARIANTS
    ServicesTypeOK
    
    RefusalsAreHonest
    RowsHaveObjects
    OrphansAreExplained
    
    MigrationsLeadToModels
    AgreementComesFirst
    PassagesRepeatByReindexOnly
    
    TextIsCovered
    SharedObjectsServe
    AnswersStand
    PassIsEarned
PROPERTY
    WindowsEnd
CHECK_DEADLOCK FALSE

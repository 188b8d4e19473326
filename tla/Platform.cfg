SPECIFICATION PlatformSpec
CONSTANTS
    None = None
    Unsupported = Unsupported
    Empty = Empty
    Garbled = Garbled
    north = north
    south = south
    west = west
    Anything <- Values
    Texts <- TextValues
    Null <- NullValue
    Host <- Hosts
    NameRank <- Ranks
    Fold <- Folded
    Hash <- HashOf
    Quote <- Quoted
    Base64 <- Base64Texts
    Project <- Projects
    Value <- Values
    Response <- Responses
    Deployment = {1, 2, 3}
    NoDeployment = NoDeployment
    Alone = Alone
    Offered = {}
    Token = {m1, m2}
    Production = TRUE
    MaxRequests = 1
    MaxOps = 2
    Budget = 3
    Execution = {1, 2}
    Chunk = {m1, m2}
    Model = {1, 2}
    Dimension <- Dimensions
    Endpoint = {read}
    MaxFailures = 2
    User = {n1, n2}
    MaxSessions = 2
    Caller = {m1, m2}
    Setting = {first, second}
    MaxRefreshes = 1
    MaxChanges = 2
    Borrower = {m1, m2}
    Lifetime = {1, 20}
    MaxMargin = 30
    Timeout = 3
    Key = {n1, n2}
    Checker = {m1, m2}
    MaxAge = {0, 2}
    Pause = 1
    Deadline = 1
SYMMETRY Symmetric
CHECK_DEADLOCK FALSE
INVARIANTS
    AdmittedSound
    ReadyCallable
    RequestFaithful
    EnvelopeSound
    KnowledgeConsistent
    SessionsRevoked
    ChangesSerialized
    CachesHonest
PROPERTY AccessRefines

CONSTANTS
    PoolServerIds = {1, 2, 3}
    PoolAddresses = {a1, a2}
    NoInfo = NoInfo
    MaxListed = 2
    BackendSlots = {1, 2}
    AppKeys = {k1, k2}
    NoKey = NoKey
    MaxGeneration = 2
    MinReconnectTimeout = 2
    MinConnectionTimeout = 3
    MinRequestKeepAliveTimeout = 6
    MinKeepAliveTimeout = 9
    RelayServerIds = {s1, s2}
    RelayAddresses = {a1, a2}
    NoAddress = NoAddress
    NoGroup = NoGroup
    ConnectionsPerGroup = 1
    RequestLimit = 3
    PassTimes = {1, 2, 4}
    CheckLimit = 2
    MaxGroups = 2
    MaxIds = 2
    MaxLines = 2
    Uuids = {d1, d2}
    MaxClock = 4
    TimeWidth = 16
    RelayServerPoolSize = 3
    RelayIdCount = 4
    KeyTimes = {1, 2}
    ForceRelayServers = 2
    MaxServed = 2
SPECIFICATION MCSpec
INVARIANTS
    PoolConsistent
    BackendIsIdentified
    BackendStateTrue
    GroupsConsistent
    PiecesDoNotMatter
    RelaysTakeTurns
PROPERTIES
    ServerIsKept
    ReadyIsKept
    ChallengeEnds
    GivenUpOnlyIfSilent
    LostIsRetried
    ReportsAreTrue

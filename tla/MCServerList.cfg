CONSTANTS
    k1 = k1
    g1 = g1
    g2 = g2
    x1 = x1
    NoContext = NoContext
    Dangling = Dangling
    None = None
    Kinds = {k1}
    Processes = {g1, g2}
    MaxConnections = 3
    Clients = {}
    KindOf <- MCKindOf
    ServerIds = {1, 2, 3}
    MaxServers = 2
    UpgradeLimit = 0
    VersionModulus = 3
    MaxPosted = 1
SPECIFICATION Spec
INVARIANTS ListsConsistent PublishedIsNamed
PROPERTIES UnlistedByOwnCloseOrMoved

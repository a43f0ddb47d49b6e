CONSTANTS
    k1 = k1
    g1 = g1
    g2 = g2
    x1 = x1
    NoContext = NoContext
    Dangling = Dangling
    None = None
    Kinds = {k1}
    Processes = {g1}
    MaxConnections = 3
    Clients = {x1}
    KindOf <- MCKindOf
    ServerIds = {1, 2}
    MaxServers = 2
    UpgradeLimit = 1
    VersionModulus = 5
    MaxPosted = 1
SPECIFICATION LiveSpec
INVARIANT HasPublished
PROPERTIES ListedIsPublished ClientCatchesUp

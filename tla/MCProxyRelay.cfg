CONSTANTS
    s1 = s1
    s2 = s2
    r1 = r1
    r2 = r2
    None = None
    Slots <- OneSlot
    RelayIds <- TwoRelayIds
    MaxGeneration = 2
    MaxQueue = 2
    EarlyClose = TRUE
    MaxLinks = 2
SPECIFICATION FairSpec
CHECK_DEADLOCK FALSE
INVARIANTS OpenedAsAuthorised DataIsOwnAndBehindAnswer
PROPERTY DroppedInTheEnd

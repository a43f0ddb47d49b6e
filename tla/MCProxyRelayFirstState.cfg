CONSTANTS
    s1 = s1
    s2 = s2
    r1 = r1
    r2 = r2
    None = None
    Slots <- TwoSlots
    RelayIds <- OneRelayId
    MaxGeneration = 1
    MaxQueue = 2
    EarlyClose = FALSE
    MaxLinks = 1
SPECIFICATION Spec
CHECK_DEADLOCK FALSE
INVARIANT FirstStateIsEstablished

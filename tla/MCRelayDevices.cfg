CONSTANTS
    c1 = c1
    c2 = c2
    d1 = d1
    d2 = d2
    v1 = v1
    v2 = v2
    NoDevice = NoDevice
    NoConn = NoConn
    CtrlConns <- MCCtrlConns
    DataConns <- MCDataConns
    Devices <- MCDevices
SPECIFICATION FairSpec
CHECK_DEADLOCK FALSE
INVARIANTS DevicesConsistent CtrlLostOnlyByTimeout
PROPERTIES PresenceSpec GivenUpIsDestroyed

CONSTANTS
    c1 = c1
    d1 = d1
    v1 = v1
    s1 = s1
    r1 = r1
    r2 = r2
    x1 = x1
    x2 = x2
    p1 = p1
    p2 = p2
    n1 = n1
    n2 = n2
    NoDevice = NoDevice
    NoConn = NoConn
    CtrlConns <- MCCtrlConns
    DataConns <- MCDataConns
    Devices <- MCDevices
    ProxySlots <- MCProxySlots
    MaxGeneration = 2
    RelayIds <- MCRelayIds
    ProxySideIds <- MCProxySideIds
    Ports <- MCPorts
    DeviceSideIds <- MCDeviceSideIds
SPECIFICATION ServiceFairSpec
CHECK_DEADLOCK FALSE
INVARIANTS ServiceConsistent RepliesRight
PROPERTY ChallengedOrDropped

CONSTANTS
    d1 = d1
    d2 = d2
    r1 = r1
    r2 = r2
    p1 = p1
    p2 = p2
    country = country
    city1 = city1
    city2 = city2
    i1 = i1
    i2 = i2
    i3 = i3
    NoContext = NoContext
    NoSelection = NoSelection
    Devices = {d1}
    Relays = {r1, r2}
    Places = {p1, p2}
    Areas = {country, city1, city2}
    AreasOf <- MCAreasOf
    Sessions <- OneDeviceSessions
    Limit = 2
    MaxReports = 2
    MaxForwarded = 1
SPECIFICATION FairSpec
INVARIANT ForgottenInTime
PROPERTY GoneIsForgotten

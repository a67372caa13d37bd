CONSTANTS
    a1 = a1
    c1 = c1
    c2 = c2
    k1 = k1
    k2 = k2
    u1 = u1
    u2 = u2
    Relays = {a1}
    Conns = {c1, c2}
    Dialer <- OnlyRelay
    Calls = {k1, k2}
    Authorized = {k1}
    Named = {a1}
    Uuids = {u1, u2}
    MaxBreaks = 1
    Limit = 1
    ChanSlots = 4
    NoConn = NoConn
    NoCall = NoCall
    NoId = NoId
SPECIFICATION Spec
INVARIANTS
    InflightAgrees
    FoundIffServed
PROPERTIES
    
    EveryCallEnds
    RelayReturns
    RelayForgets

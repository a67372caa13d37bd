CONSTANTS
    r1 = r1
    r2 = r2
    w1 = w1
    p1 = p1
    Requests = {r1, r2}
    Workers = {w1}
    Pools = {p1}
    PoolOf <- OnePool
    Settings <- MCSettings
    MaxSignals = 2
    MaxRestarts <- MCMaxRestarts
SPECIFICATION Spec
INVARIANTS
    CountedRequestsFinish
    FirstSignalDrains
PROPERTIES
    SignalEndsServer
CHECK_DEADLOCK FALSE

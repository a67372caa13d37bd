\* Two requests and an agent that may connect a second time.
SPECIFICATION Spec
CONSTANTS
    Ids = {"a"}
    Conns = {a1, a2}
    Owner <- MCOwner
    Models = {"m"}
    Score <- MCScore
    MaxConc <- MCMaxConc
    Reqs = {r1, r2}
    Wants <- MCWants
    SendSlots = 1
    JobSlots = 1
    QueueCap = 1
    Mixes <- MCMixes
    NoConn = NoConn
    NoFrame = NoFrame
    a1 = a1
    a2 = a2
    r1 = r1
    r2 = r2
SYMMETRY MCSymmetry
INVARIANTS InFlightAgrees BlockedHasReader ClosedOnce WaiterHasCloser QueueHoldsWaiters
CHECK_DEADLOCK FALSE

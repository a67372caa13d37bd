\* One request, a reconnect, and operators who drain and undrain at will.
SPECIFICATION FairSpec
CONSTANTS
    Max = 1
    Reqs = {r1}
    UpdateSlots = 1
    Reconnect = TRUE
    MaxConns = 2
    r1 = r1
PROPERTIES DrainEnds NotReadyIsTold
CHECK_DEADLOCK FALSE

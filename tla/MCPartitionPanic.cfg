\* A worker that leaves while a request is split over it.
SPECIFICATION Spec
CONSTANTS
    Workers = {w1, w2, w3}
    PreferredBatchSize <- BatchSizes
    OthersInFlight <- Loads
    MaxParallel = 3
    MaxSize = 4
    MaxLeaves = 1
    w1 = w1
    w2 = w2
    w3 = w3
INVARIANT ServerSurvives
CHECK_DEADLOCK FALSE

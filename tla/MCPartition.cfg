\* Up to three elements over up to three workers, one of which prefers large
\* batches, one small ones and one any.
SPECIFICATION FairSpec
CONSTANTS
    Workers = {w1, w2, w3}
    PreferredBatchSize <- BatchSizes
    MaxParallel = 3
    MaxSize = 4
    MaxLeaves = 1
    OthersInFlight <- Loads
    w1 = w1
    w2 = w2
    w3 = w3
INVARIANTS OneChunkPerWorker AnswerIsWhole
PROPERTIES PartitionEnds ClientIsAnswered
CHECK_DEADLOCK FALSE

CONSTANTS
    total_size = 3
    chunk_size = 2
    MaxWorkers = 2
    MaxRetries = 2
    Link = {eth, lte}
    MaxFailures = 3
    MaxToggles = 2
SPECIFICATION FairSpec
INVARIANTS EachChunkOnce JoinCountsOpenChunks CompletedIsCorrect ProgressReachesSize
PROPERTIES Terminates
CHECK_DEADLOCK FALSE

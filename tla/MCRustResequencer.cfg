CONSTANTS
    MaxSeq = 5
    LastSeq = 3
    Payload = {x, y}
    max_buffer_size = 2
    MinTimeout = 1
    MaxTimeout = 2
    InitTimeout = 1
    MaxDups = 1
SPECIFICATION FairSpec
INVARIANTS BufferBounded
PROPERTIES RefinesUnlessLate EventuallyReleased
CHECK_DEADLOCK FALSE

CONSTANTS
    Handler = {h1, h2}
    Link = {eth}
    Simulated = {}
    MaxData = 2
    MaxPackets = 4
    MaxToggles = 1
    FlushTimeout = 1
SPECIFICATION FairSpec
PROPERTIES NoStall ImplementsLossyFifo
CHECK_DEADLOCK FALSE

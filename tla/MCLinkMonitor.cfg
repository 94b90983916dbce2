CONSTANTS
    Iface = {eth, wifi}
    MaxChanges = 3
    MaxEvents = 2
SPECIFICATION FairSpec
PROPERTIES EventuallyTracks QuietAfterStop StopReturnsOnEvent
CHECK_DEADLOCK FALSE

CONSTANTS
    Handler = {h1, h2}
    Link = {eth, sim}
    Simulated = {sim}
    MaxData = 2
    MaxPackets = 6
    MaxToggles = 1
SPECIFICATION ClientSpec
INVARIANTS NumberedInOrder NoneForgotten NoneStranded
PROPERTIES OrphanEnds
CHECK_DEADLOCK FALSE

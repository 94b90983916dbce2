CONSTANTS
    MaxUnits = 2
SPECIFICATION FairSpec
INVARIANTS FirstEndIsWhole NoOrphan
PROPERTIES EndsTogether
CHECK_DEADLOCK FALSE

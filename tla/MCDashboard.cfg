CONSTANTS
    Request = {r1, r2, r3}
    Startup = Startup
SPECIFICATION FairSpec
INVARIANTS AlwaysMonitored AloneIsWhole
PROPERTIES StartedCompletes
CHECK_DEADLOCK FALSE

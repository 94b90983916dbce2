CONSTANTS
    Sid = {s1, s2}
    Unreachable = {s2}
    MaxCmds = 3
    MaxReplies = 2
SPECIFICATION FairSpec
PROPERTIES FailureNotified
CHECK_DEADLOCK FALSE

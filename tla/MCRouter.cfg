CONSTANTS
    Sid = {s1, s2}
    Unreachable = {s2}
    MaxCmds = 3
    MaxReplies = 2
SPECIFICATION FairSpec
INVARIANTS ActiveIsMapped NoHole NoReplyLost
PROPERTIES NoReplyFromClosed CleanupClosesAll CloseTakesEffect ReplyGetsOut
CHECK_DEADLOCK FALSE

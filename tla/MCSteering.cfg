CONSTANTS
    Sim = {wifi}
    Lossy = {wifi}
    Phy = {eth}
    NoLink = NoLink
    MaxChanges = 4
SPECIFICATION SteerFairSpec
PROPERTIES DeadLinkLeaves TransferGetsThrough QuietAfterStop
CHECK_DEADLOCK FALSE

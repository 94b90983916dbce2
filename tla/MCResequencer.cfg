\* Four sequence numbers: a hole of two with a packet on either side fits.
\* Two payloads tell the first copy of a number from a second one.
CONSTANTS
    MaxSeq = 3
    Payload = {x, y}
    FlushTimeout = 2
SPECIFICATION FairSpec
INVARIANTS StrictlyOrdered FlusherArmed
PROPERTIES SkipOnlyOnTimeout EventuallyReleased ImplementsOrderedRelease
CHECK_DEADLOCK FALSE

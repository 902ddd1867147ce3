CONSTANTS
    Senders = {s1}
    Receivers = {r1, r2}
    ByteBase = 2
    Scale = 2
    MaxSends = 2
    MaxPauses = 1
SPECIFICATION FairSpec
INVARIANTS TypeOK Conserved ExtremesExact OnlyQueuedOvertaken Genuine
PROPERTIES DelayedReleased
CHECK_DEADLOCK FALSE

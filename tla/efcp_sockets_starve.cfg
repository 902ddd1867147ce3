CONSTANTS
    Clients = {c1, c2, c3}
    Servers = {s}
    MaxDials = 3
    MaxData = 0
    MaxDrops = 0
    MaxFaults = 0
SPECIFICATION FairSpec
PROPERTIES DialsReturn
CHECK_DEADLOCK FALSE

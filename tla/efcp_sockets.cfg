CONSTANTS
    Clients = {c1, c2}
    Servers = {s}
    MaxDials = 3
    MaxData = 1
    MaxDrops = 1
    MaxFaults = 1
SPECIFICATION FairSpec
INVARIANTS TypeOK SessionMatched HandshakeAttended
PROPERTIES IdleDialConnects
CHECK_DEADLOCK FALSE

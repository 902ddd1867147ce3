CONSTANTS
    Threads = {t1, t2}
    Acceptors = {}
    Closers = {t1, t2}
    Peers = {p1, p2}
    ChanIds = {0}
    Handles = {h1, h2}
    MaxDatagrams = 1
    NoChannel = NoChannel
    NoHandle = NoHandle
    NoPacket = NoPacket
SPECIFICATION Spec
INVARIANT PacketRouting
CHECK_DEADLOCK FALSE

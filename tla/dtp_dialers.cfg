CONSTANTS
    Threads = {t1, t2, t3}
    Acceptors = {}
    Closers = {t1, t2, t3}
    Peers = {p1}
    ChanIds = {0}
    Handles = {h1, h2}
    MaxDatagrams = 1
    NoChannel = NoChannel
    NoHandle = NoHandle
    NoPacket = NoPacket
SPECIFICATION Spec
SYMMETRY DialerSymmetry
INVARIANTS UniqueHandle
CHECK_DEADLOCK FALSE

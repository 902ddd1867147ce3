CONSTANTS
    Threads = {t1}
    Acceptors = {t1}
    Closers = {}
    Peers = {p1, p2}
    ChanIds = {0}
    Handles = {h1, h2, h3}
    MaxDatagrams = 1
    NoChannel = NoChannel
    NoHandle = NoHandle
    NoPacket = NoPacket
SPECIFICATION Spec
INVARIANT UniqueHandle

CONSTANTS
    Threads = {t1}
    Acceptors = {t1}
    Closers = {t1}
    Peers = {p1, p2}
    ChanIds = {0}
    Handles = {h1, h2, h3, h4}
    MaxDatagrams = 3
    NoChannel = NoChannel
    NoHandle = NoHandle
    NoPacket = NoPacket
SPECIFICATION Spec
SYMMETRY HandleSymmetry
INVARIANTS TypeOK NoPanic PacketRouting TablesAgree PacketsClaimable ArrivalOrder
PROPERTIES ImplementsMux

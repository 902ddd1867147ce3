CONSTANTS
    Threads = {t1, t2}
    Acceptors = {t1, t2}
    Closers = {}
    Peers = {p1}
    ChanIds = {0, 1}
    Handles = {h1, h2, h3}
    MaxDatagrams = 2
    NoChannel = NoChannel
    NoHandle = NoHandle
    NoPacket = NoPacket
SPECIFICATION FairSpec
INVARIANTS PacketRouting TablesAgree PacketsClaimable
PROPERTIES ImplementsMux AcceptedEventually

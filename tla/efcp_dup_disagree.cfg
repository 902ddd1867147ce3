CONSTANTS
    Protocol = {p1, p2, p3, p4, p5, p6}
    NoProtocol = NoProtocol
    MaxListLen = 4
    ProtocolLists <- LongDistinct
    Observed <- ClientAddr
    LenMax = 5
    IP4 = {"1.2.3.4"}
    IP6 = {"::1"}
    Ports = {"0", "4000"}
    DefaultPort = "0"
    Oversized = {}
    MaxLost = 0
    MaxDuplicated = 1
    MaxIoErrors = 0
SPECIFICATION Spec
SYMMETRY NameSymmetry
INVARIANT Agreement
CHECK_DEADLOCK FALSE

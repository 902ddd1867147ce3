CONSTANTS
    Protocol = {p1, p2, p3, p4}
    NoProtocol = NoProtocol
    MaxListLen = 3
    ProtocolLists <- AnyLists
    Observed <- ClientAddr
    LenMax = 5
    IP4 = {"1.2.3.4"}
    IP6 = {"::1"}
    Ports = {"0", "4000"}
    DefaultPort = "0"
    Oversized = {p4}
    MaxLost = 1
    MaxDuplicated = 2
    MaxIoErrors = 1
SPECIFICATION FairSpec
INVARIANTS TypeOK PreferredChosen FailureJustified  AddressReported
PROPERTIES Connects
CHECK_DEADLOCK FALSE

CONSTANTS
    Senders = {s1}
    Receivers = {r1}
    SeqMod = 4
    MaxSends = 1
    MaxPauses = 0
    MaxFailures = 0
SPECIFICATION Spec
INVARIANT FirstPacketMarked

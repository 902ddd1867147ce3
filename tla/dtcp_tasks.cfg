CONSTANTS
    Senders = {s1, s2}
    Receivers = {r1}
    SeqMod = 4
    MaxSends = 5
    MaxPauses = 2
    MaxFailures = 1
SPECIFICATION Spec
INVARIANTS TypeOK SeqUnique RunsHaveCause SilenceMarked

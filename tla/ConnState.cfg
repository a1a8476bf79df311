SPECIFICATION Spec
CONSTANTS
    CPUs = {c1, c2}
    Elems = {e1, e2}
    Packets <- MixedPackets
    RuleMatches <- MCRules
    TCPIdle = 8
    TCPClosing = 6
    UDPIdle = 6
    RefreshInterval = 5
    Tick = 2
    MaxLag = 4
    MaxNow = 10
    MaxEpoch = 2
    None = None
SYMMETRY Symmetry
CHECK_DEADLOCK FALSE
INVARIANTS EntriesSound ReplyNeedsOpen

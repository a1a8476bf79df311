CONSTANTS
    Hosts = {h}
    Workloads = {w}
    Agents = {a1, a2}
    Peers = {p1, p2}
    None = None
SPECIFICATION Spec
SYMMETRY Symmetry
CHECK_DEADLOCK FALSE
INVARIANT GuardExact
PROPERTY OwnersKeptWhileAlive

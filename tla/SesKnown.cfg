SPECIFICATION Spec
CONSTANTS
    n1 = n1
    n2 = n2
    u1 = u1
    u2 = u2
    Nodes = {n1, n2}
    Uids = {u1, u2}
    Peers <- Apart
    Uid <- UserOf
    Node <- ServerOf
    Handlers = {h1, h2}
    None = None
    MaxFaults = 1
SYMMETRY Symmetry
INVARIANTS
    TypeOK
    MutuallyKnown

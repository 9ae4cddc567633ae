SPECIFICATION Spec
CONSTANTS
    u1 = u1
    Uids = {u1, u2}
    Uid <- PublishedByU1
    Mids = {m1, m2}
    Sfus = {s1, s2}
    Handlers = {h1, h2}
    None = None
    MaxFaults = 2
SYMMETRY Symmetry
INVARIANTS
    TypeOK
    LiveIsRegistered
    UnpublishedIsGone
    RegisteredIsLive

SPECIFICATION HSpec
CONSTANTS
    u1 = u1
    u2 = u2
    g1 = g1
    g2 = g2
    Reqs = {g1, g2}
    Rids = {r1}
    Uids = {u1, u2}
    Mids <- OneStream
    Signals = {}
    Sfus = {f1, f2}
    None = None
    Minfo = Minfo
    Short = 1
    Long = 2
    MaxFaults = 1
SYMMETRY ReqSymmetry
INVARIANTS
    AnswersWereTrue
    RemovedHasNoSfu

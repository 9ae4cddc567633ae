SPECIFICATION HSpec
CONSTANTS
    u1 = u1
    u2 = u2
    g1 = g1
    g2 = g2
    Reqs = {g1, g2}
    Rids = {r1}
    Uids = {u1, u2}
    Mids = {}
    Signals = {s1}
    Sfus = {}
    None = None
    Minfo = Minfo
    Short = 2
    Long = 2
    MaxFaults = 1
SYMMETRY AllSymmetry
INVARIANTS
    TypeOK
    KeptAliveStays
    LeftStaysGone
    RoomUsersComplete
    AnswersWereTrue

SPECIFICATION Spec
CONSTANTS
    u1 = u1
    u2 = u2
    Callers = {t1, t2}
    CheckRoom = CheckRoom
    Rids = {r1}
    Uids = {u1, u2}
    Objects = {o1, o2}
    Peers <- Connections
    Uid <- UidOf
    NoOne = NoOne
    NoRoom = NoRoom
    NoPeer = NoPeer
    NoId = NoId
SYMMETRY Symmetry
CHECK_DEADLOCK FALSE
INVARIANTS
    TypeOK
    AddedIsKept
    ClosedRoomHidden
    SendsToMembers
    LockOrder

SPECIFICATION Spec
CONSTANTS
    Handlers = {h1, h2}
    Checker = Checker
    Meter = Meter
    NoOne = NoOne
    Mids = {m1}
    Sids = {s1, s2}
    NoMid = NoMid
    NoSid = NoSid
    Rid = rid
    Uid = uid
    PubKinds = {"audio", "video"}
    Silent = {"audio", "video"}
    MaxClean = 2
SYMMETRY HandlerAndSubSymmetry
CHECK_DEADLOCK FALSE
INVARIANTS
    TypeOK
    StoppedHasOwner
    OnlyBrokenSubsClosed
    CleanedOnce
PROPERTY
    KnownCrash

SPECIFICATION FairSpec
CONSTANTS
    Handlers = {h1}
    Checker = Checker
    Meter = Meter
    NoOne = NoOne
    Mids = {m1}
    Sids = {s1}
    NoMid = NoMid
    NoSid = NoSid
    Rid = rid
    Uid = uid
    PubKinds = {"video"}
    Silent = {"audio", "video"}
    MaxClean = 1
CHECK_DEADLOCK FALSE
PROPERTIES
    StoppedLeaves
    DeadPubLeaves
    WorkersEnd

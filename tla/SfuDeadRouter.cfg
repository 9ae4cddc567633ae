SPECIFICATION Spec
CONSTANTS
    Handlers = {h1}
    Checker = Checker
    Meter = Meter
    NoOne = NoOne
    Mids = {m1}
    Sids = {}
    NoMid = NoMid
    NoSid = NoSid
    Rid = rid
    Uid = uid
    PubKinds = {"audio", "video"}
    Silent = {"audio", "video"}
    MaxClean = 1
CHECK_DEADLOCK FALSE
PROPERTY
    DeadIsSilent

SPECIFICATION FairSpec
CONSTANTS
    Handlers = {h1}
    Checker = Checker
    Meter = Meter
    NoOne = NoOne
    Mids = {m1, m2}
    Sids = {}
    NoMid = NoMid
    NoSid = NoSid
    Rid = rid
    Uid = uid
    PubKinds = {}
    Silent = {"video"}
    MaxClean = 1
CHECK_DEADLOCK FALSE
INVARIANT
    ScanSeesTable
PROPERTIES
    ImplementsLife
    HandlerReturns

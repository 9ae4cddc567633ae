SPECIFICATION FairSpec
CONSTANTS
    Subs = {s1}
    Connects = {c1}
    Seqs = {0}
    ChanSize = 1
    RtcpSize = 1
    Pli = Pli
CHECK_DEADLOCK FALSE
INVARIANT
    TypeOK
PROPERTIES
    KnownMediaCrash
    PacketsDrain
    ReaderEnds
    SubEnds

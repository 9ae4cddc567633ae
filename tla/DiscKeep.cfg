SPECIFICATION FairSpec
CONSTANTS
    Updaters = {p1}
    Keeper = Keeper
    Info = Info
    Nil = Nil
    MaxLeases = 5
    MaxFaults = 2
    MaxLapses = 1
    MaxCrashes = 1
    MaxEvents = 0
INVARIANTS
    TypeOK
    RegisteredAtRest
PROPERTIES
    Registers
    CrashedNodeLeaves

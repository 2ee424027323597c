\* Two boards and a server that is started twice, one failure, two devices.
SPECIFICATION Spec
CONSTANTS
    s1 = s1
    s2 = s2
    d1 = d1
    d2 = d2
    Scanner = {s1, s2}
    Device = {d1, d2}
    MaxAdverts <- Adverts
    MaxRuns = 2
    Faults = {"boot", "scan", "create", "connect", "discover", "att", "loss"}
    MaxFaults = 1
    Threaded = TRUE
INVARIANTS
    TypeOK
    SearchesOn
    PointerTracksLink
    FreshHandle
    SkewPaid
PROPERTIES
    PositionsAdvance
    Recovers
    Located
CHECK_DEADLOCK FALSE

\* One central and one peripheral, three failures, three temperatures of two values.
SPECIFICATION Spec
CONSTANTS
    c = c
    p = p
    Node = {c, p}
    NoPeer = NoPeer
    Neighbours <- InRange
    Central = c
    BT_MAX_CONN = 1
    Faults = {"boot", "scan", "create", "connect", "discover", "att", "read", "loss"}
    MaxFaults = 3
    Temps = {"t1", "t2"}
    Initial = "t0"
    MaxReads = 2
    MaxSent = 3
    MaxRecv = 3
INVARIANTS
    TypeOK
    PointerTracksLink
    LossIsReal
PROPERTIES
    DeafOnlyByFailure
    ReadingsGoOn
CHECK_DEADLOCK FALSE

\* Two SOURCEs and the sink in a row, one failure: what is measured and what is printed.
SPECIFICATION FormedSpec
CONSTANTS
    n1 = n1
    n2 = n2
    n3 = n3
    n4 = n4
    Node = {n1, n2, n3}
    NoPeer = NoPeer
    Sink = n3
    Neighbours <- Row
    NodeId <- Numbers
    BT_MAX_CONN = 2
    MAX_CONNECTIONS = 2
    Faults = {"preempt", "write", "loss"}
    MaxFaults = 1
    MaxMeasurements <- Measurements
INVARIANTS
    RelayTypeOK
    NoEcho
    DamagePaid
PROPERTIES
    Arrives
CHECK_DEADLOCK FALSE

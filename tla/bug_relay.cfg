\* The row of pt3.resc: three SOURCEs, whose clocks differ, and the sink.
SPECIFICATION FormedSpec
CONSTANTS
    n1 = n1
    n2 = n2
    n3 = n3
    n4 = n4
    Node = {n1, n2, n3, n4}
    NoPeer = NoPeer
    Sink = n4
    Neighbours <- Row
    NodeId <- Numbers
    BT_MAX_CONN = 2
    MAX_CONNECTIONS = 4
    Faults = {}
    MaxFaults = 0
    MaxMeasurements <- Measurements
PROPERTIES
    FreshRelayed
CHECK_DEADLOCK FALSE

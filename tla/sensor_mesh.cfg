\* Three boards in a row with tables of two slots, one failure, but not a lost
\* connection request or a scan that cannot be stopped, after which a SOURCE may
\* search no more: flags are of their links, every other SOURCE connects and none
\* gives up its search.
SPECIFICATION SensorMeshSpec
CONSTANTS
    n1 = n1
    n2 = n2
    n3 = n3
    Node = {n1, n2, n3}
    NoPeer = NoPeer
    Sink = n3
    Neighbours <- Row
    BT_MAX_CONN = 2
    MAX_CONNECTIONS = 2
    Faults = {"boot", "scan", "create", "discover", "att", "loss"}
    MaxFaults = 1
INVARIANTS
    FreshReady
PROPERTIES
    SourcesConnect
    SourcesSearchOn
CHECK_DEADLOCK FALSE

\* Four boards in a row and no failure: the network may form in two halves.
SPECIFICATION MeshFairSpec
CONSTANTS
    n1 = n1
    n2 = n2
    n3 = n3
    n4 = n4
    Node = {n1, n2, n3, n4}
    NoPeer = NoPeer
    Source = n1
    Neighbours <- Row
    BT_MAX_CONN = 3
    MAX_CONNECTIONS = 3
    Faults = {}
    MaxFaults = 0
PROPERTY
    ConnectsToAllInRange
CHECK_DEADLOCK FALSE

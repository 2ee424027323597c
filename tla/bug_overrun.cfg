\* A table of two slots and two lost links: the third connection is stored past its end.
SPECIFICATION MeshSpec
CONSTANTS
    n1 = n1
    n2 = n2
    n3 = n3
    n4 = n4
    Node = {n1, n2}
    NoPeer = NoPeer
    Source = n1
    Neighbours <- Clique
    BT_MAX_CONN = 3
    MAX_CONNECTIONS = 2
    Faults = {"loss"}
    MaxFaults = 2
INVARIANT
    NoOverrun
CHECK_DEADLOCK FALSE

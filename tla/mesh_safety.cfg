\* Three boards in range of each other, a table of three slots, up to two
\* failures of those that a lost link or a request of the firmware meets; the
\* other kinds are those of mesh_live.cfg.
SPECIFICATION MeshSpec
CONSTANTS
    n1 = n1
    n2 = n2
    n3 = n3
    n4 = n4
    Node = {n1, n2, n3}
    NoPeer = NoPeer
    Source = n1
    Neighbours <- Clique
    BT_MAX_CONN = 2
    MAX_CONNECTIONS = 3
    Faults = {"stop", "create", "discover", "att", "loss"}
    MaxFaults = 2
INVARIANTS
    TableTypeOK
    TableMatchesLinks
    FreshHandles
    DeadSlotsPaid
SYMMETRY Targets
CHECK_DEADLOCK FALSE

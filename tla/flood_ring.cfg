\* Three boards in range of each other, which may form a ring: boards come
\* to show the events and the traffic dies down.
SPECIFICATION FairSpec
CONSTANTS
    n1 = n1
    n2 = n2
    n3 = n3
    Node = {n1, n2, n3}
    NoPeer = NoPeer
    Source = n1
    Neighbours <- Clique
    BT_MAX_CONN = 3
    MAX_CONNECTIONS = 3
    Faults = {}
    MaxFaults = 0
    MaxPresses = 3
    MaxTimestamp = 3
INVARIANTS
    ForwardsOnce
PROPERTIES
    Converges
    FloodEnds
CHECK_DEADLOCK FALSE

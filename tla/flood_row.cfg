\* Three boards in a row, one lost link or refused write, three events; no
\* write is redirected in a row, so no timestamp beyond theirs is needed.
SPECIFICATION Spec
CONSTANTS
    n1 = n1
    n2 = n2
    n3 = n3
    Node = {n1, n2, n3}
    NoPeer = NoPeer
    Source = n1
    Neighbours <- Row
    BT_MAX_CONN = 3
    MAX_CONNECTIONS = 3
    Faults = {"loss", "write"}
    MaxFaults = 1
    MaxPresses = 3
    MaxTimestamp = 2
INVARIANTS
    TypeOK
    Genuine
    SenderKnown
    NoDuplicateTraffic
PROPERTIES
    ShowsLatestEvents
CHECK_DEADLOCK FALSE

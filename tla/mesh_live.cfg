\* Three boards in a row, one failure of any kind but an error answer during
\* discovery: scans are retried, links settle, and without the failure nobody
\* stays alone.
SPECIFICATION MeshFairSpec
CONSTANTS
    n1 = n1
    n2 = n2
    n3 = n3
    n4 = n4
    Node = {n1, n2, n3}
    NoPeer = NoPeer
    Source = n1
    Neighbours <- Row
    BT_MAX_CONN = 3
    MAX_CONNECTIONS = 3
    Faults = {"boot", "scan", "stop", "create", "connect", "discover", "loss"}
    MaxFaults = 1
PROPERTIES
    NobodyAlone
    ScanRetried
    LinkSettles
CHECK_DEADLOCK FALSE

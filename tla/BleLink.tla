------------------------------ MODULE BleLink ------------------------------
(***************************************************************************)
(* The Bluetooth LE stack underneath the Lab 2 firmware: what one board's  *)
(* host and controller know of scanning, of a connection being created,    *)
(* and of the two ends of each link.  The stack is Zephyr, which is not in *)
(* the repository: it is modelled from the calls the firmware makes        *)
(* (bt_le_scan_start, bt_le_scan_stop, bt_conn_le_create, bt_conn_         *)
(* disconnect, bt_gatt_discover) and from the callbacks it registers.      *)
(*                                                                         *)
(* Each end of a link has a state of its own: the two hosts learn of a     *)
(* connection, and of its loss, at different times, so a link may be half  *)
(* open.  There is at most one link between two boards (the controller     *)
(* refuses a second one to the same peer), so a connection object is       *)
(* named by the peer it leads to.                                          *)
(***************************************************************************)
EXTENDS Integers, FiniteSets

CONSTANTS
    Node,         \* the boards
    NoPeer,       \* a null connection pointer
    Neighbours,   \* [Node -> SUBSET Node]: the boards in radio range
    BT_MAX_CONN,  \* size of the host's pool of connection objects (prj.conf)
    Faults,       \* the kinds of failure that may happen in a run
    MaxFaults     \* bound: how many failures happen in one behaviour

ASSUME RadioAssumption ==
    /\ NoPeer \notin Node
    /\ Neighbours \in [Node -> SUBSET Node]
    /\ \A n, p \in Node : p \in Neighbours[n] <=> n \in Neighbours[p]
    /\ \A n \in Node : n \notin Neighbours[n]

ASSUME FiniteNodes == IsFiniteSet(Node)

\* up leads every board one hop towards root, each pair of boards in range is
\* such a hop, and no two boards lead to each other: the boards that root can
\* reach are a tree.
Rooted(up, root, hears) ==
    /\ up \in [Node -> Node \cup {NoPeer}]
    /\ up[root] = NoPeer
    /\ \A n \in Node : \A p \in hears[n] : up[n] = p \/ up[p] = n
    /\ \A n, p \in Node : up[n] = p => up[p] # n

ASSUME PoolAssumption == BT_MAX_CONN \in Nat /\ MaxFaults \in Nat

VARIABLES
    boot,         \* has bt_ready run, and how: "off", "ready", "failed"
    advertising,  \* is the board connectable by others
    scanning,     \* is device_found being called with advertisements
    initiating,   \* the peer of the outstanding bt_conn_le_create, or NoPeer
    ep,           \* ep[n][p]: n's end of the link between n and p
    disc,         \* disc[n][p]: n's GATT discovery on p is outstanding
    faults        \* failures that have happened so far

linkVars == <<boot, advertising, scanning, initiating, ep, disc, faults>>

\* "pending": linked, the connected callback has not run yet;
\* "up": the callback has run; "closing": bt_conn_disconnect was called.
EndState == {"down", "pending", "up", "closing"}

LinkTypeOK ==
    /\ boot \in [Node -> {"off", "ready", "failed"}]
    /\ advertising \in [Node -> BOOLEAN]
    /\ scanning \in [Node -> BOOLEAN]
    /\ initiating \in [Node -> Node \cup {NoPeer}]
    /\ ep \in [Node -> [Node -> EndState]]
    /\ disc \in [Node -> [Node -> BOOLEAN]]
    /\ faults \in 0 .. MaxFaults

LinkInit ==
    /\ boot = [n \in Node |-> "off"]
    /\ advertising = [n \in Node |-> FALSE]
    /\ scanning = [n \in Node |-> FALSE]
    /\ initiating = [n \in Node |-> NoPeer]
    /\ ep = [n \in Node |-> [p \in Node |-> "down"]]
    /\ disc = [n \in Node |-> [p \in Node |-> FALSE]]
    /\ faults = 0

\* A failure of one kind happens in this step, or none does.
Fault(kind) == kind \in Faults /\ faults < MaxFaults /\ faults' = faults + 1
NoFault == UNCHANGED faults

\* bt_le_scan_start succeeds: no scan is running, no connection being created.
CanScan(n) == ~scanning[n] /\ initiating[n] = NoPeer

\* Connection objects in use, the one being created included.
InUse(n) ==
    Cardinality({p \in Node : ep[n][p] # "down"})
        + (IF initiating[n] = NoPeer THEN 0 ELSE 1)

\* bt_conn_le_create can start: an object is free, p is not linked to already.
CanCreate(n, p) ==
    /\ initiating[n] = NoPeer
    /\ ep[n][p] = "down"
    /\ InUse(n) < BT_MAX_CONN

\* p's controller accepts a connection from n.
Accepts(p, n) ==
    /\ advertising[p]
    /\ ep[p][n] = "down"
    /\ ep[n][p] = "down"
    /\ InUse(p) < BT_MAX_CONN

\* The link that n's host still has open is already gone at one of its ends.
LinkGone(n, p) == ep[n][p] = "closing" \/ ep[p][n] \in {"down", "closing"}

\* The controllers set the link up; each host still has to be told.
Establish(n, p) ==
    /\ initiating[n] = p
    /\ Accepts(p, n)
    /\ initiating' = [initiating EXCEPT ![n] = NoPeer]
    /\ ep' = [ep EXCEPT ![n][p] = "pending", ![p][n] = "pending"]
    /\ UNCHANGED <<boot, advertising, scanning, disc, faults>>

\* n's request to connect fails: the peer does not accept it until the
\* creation timeout, or the radio loses the request.
CreateFails(n) ==
    /\ initiating[n] # NoPeer
    /\ \/ ~Accepts(initiating[n], n) /\ NoFault
       \/ Accepts(initiating[n], n) /\ Fault("connect")
    /\ initiating' = [initiating EXCEPT ![n] = NoPeer]
    /\ UNCHANGED <<boot, advertising, scanning, ep, disc>>

\* n's host reports that the link to p is closed.
Close(n, p) ==
    /\ ep[n][p] \in {"up", "closing"}
    /\ \/ LinkGone(n, p) /\ NoFault
       \/ ~LinkGone(n, p) /\ Fault("loss")
    /\ ep' = [ep EXCEPT ![n][p] = "down"]
    /\ disc' = [disc EXCEPT ![n][p] = FALSE]
    /\ UNCHANGED <<boot, advertising, scanning, initiating>>
=============================================================================

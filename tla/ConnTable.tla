----------------------------- MODULE ConnTable -----------------------------
(***************************************************************************)
(* The connection table of the Lab 2 firmware and the callbacks around it  *)
(* that the button network (Lab2/code/pt1_2) and the measurement network   *)
(* (Lab2/code/pt3_4) have in common: scanning, connecting to an advertiser *)
(* in range, storing a connection, clearing its slot.  One action is one   *)
(* Zephyr callback or work handler, run to its end: these run in the       *)
(* cooperative Bluetooth and work-queue threads, so they do not interrupt  *)
(* each other.                                                             *)
(***************************************************************************)
EXTENDS BleLink

CONSTANT MAX_CONNECTIONS   \* length of the connection table (main.h)

ASSUME TableAssumption == MAX_CONNECTIONS \in Nat

VARIABLES
    scan_work,            \* is the delayable scan work scheduled
    default_connections,  \* [Node -> [Slot -> peer or NoPeer]]
    num_connections,      \* slots handed out so far; never decremented
    char_handles,         \* is the slot's characteristic handle known (not 0)
    halted                \* why the board is past defined behaviour, or "no"

tableVars == <<scan_work, default_connections, num_connections, char_handles,
              halted>>
meshVars == <<linkVars, tableVars>>

Slot == 0 .. MAX_CONNECTIONS - 1

\* The firmware's own ways out of defined behaviour: a connection stored past
\* the end of the table, a write to a null connection (ButtonFlood).  A board
\* that took one is not followed any further.
Undefined == {"no", "overrun", "nullconn"}
Runs(n) == halted[n] = "no"

TableTypeOK ==
    /\ LinkTypeOK
    /\ scan_work \in [Node -> BOOLEAN]
    /\ default_connections \in [Node -> [Slot -> Node \cup {NoPeer}]]
    /\ num_connections \in [Node -> 0 .. MAX_CONNECTIONS]
    /\ char_handles \in [Node -> [Slot -> BOOLEAN]]
    /\ halted \in [Node -> Undefined]

TableInit ==
    /\ LinkInit
    /\ scan_work = [n \in Node |-> FALSE]
    /\ default_connections = [n \in Node |-> [i \in Slot |-> NoPeer]]
    /\ num_connections = [n \in Node |-> 0]
    /\ char_handles = [n \in Node |-> [i \in Slot |-> FALSE]]
    /\ halted = [n \in Node |-> "no"]

\* The slots in use for connection p, and the first of them: where the
\* table loops of the callbacks stop.
Slots(n, p) == {i \in Slot : i < num_connections[n]
                             /\ default_connections[n][i] = p}
ShortLoop(n, p) == {i \in Slots(n, p) : i + 1 < num_connections[n]}  \* mutant
FirstSlot(n, p) == {i \in Slots(n, p) : \A j \in Slots(n, p) : i <= j}

\* The slot connected() stores a connection in; whether it is past the end.
FreeSlot(n) ==   \* mutant: takes the slot of a lost link again
    LET free == {i \in Slot : i < num_connections[n]
                              /\ default_connections[n][i] = NoPeer}
    IN IF free = {} THEN num_connections[n] ELSE CHOOSE i \in free : TRUE
NextSlot(n) == num_connections[n]
PastEnd(n) == num_connections[n] > MAX_CONNECTIONS   \* mutant
TableFull(n) == num_connections[n] = MAX_CONNECTIONS

\* The slot discover_cb stores the handle in.
NewestSlot(n, p) == {num_connections[n] - 1}   \* mutant
DiscoveredSlot(n, p) == FirstSlot(n, p)

\* k_work_schedule(&scan_work, ...): no effect when it is scheduled already.
Schedule(n) == scan_work' = [scan_work EXCEPT ![n] = TRUE]

\* What scan_work_handler does when the scan did not start.
NoRetry(n) == scan_work' = [scan_work EXCEPT ![n] = FALSE]   \* mutant
Retry(n) == Schedule(n)
-----------------------------------------------------------------------------
\* start_scan succeeds, or a busy controller refuses.
ScanStarts(n) ==
    /\ CanScan(n) /\ NoFault
    /\ scanning' = [scanning EXCEPT ![n] = TRUE]
ScanRefused(n) ==
    /\ \/ ~CanScan(n) /\ NoFault
       \/ CanScan(n) /\ Fault("scan")
    /\ UNCHANGED scanning

\* Start scanning; when that is refused the work is rescheduled.
ScanWorkHandler(n) ==
    /\ scan_work[n] /\ Runs(n)
    /\ \/ ScanStarts(n) /\ scan_work' = [scan_work EXCEPT ![n] = FALSE]
       \/ ScanRefused(n) /\ Retry(n)
    /\ UNCHANGED <<boot, advertising, initiating, ep, disc,
                   default_connections, num_connections, char_handles,
                   halted>>

\* An advertisement of p arrives; boards in the table already are skipped.
\* When the scan cannot be stopped the callback returns, and whether it is
\* called for further advertisements is up to the stack.
DeviceFound(n, p) ==
    /\ scanning[n] /\ Runs(n)
    /\ p \in Neighbours[n] /\ advertising[p]
    /\ Slots(n, p) = {}
    /\ \/ /\ Fault("stop")
          /\ \E on \in BOOLEAN : scanning' = [scanning EXCEPT ![n] = on]
          /\ UNCHANGED <<initiating, scan_work>>
       \/ /\ CanCreate(n, p) /\ NoFault
          /\ scanning' = [scanning EXCEPT ![n] = FALSE]
          /\ initiating' = [initiating EXCEPT ![n] = p]
          /\ UNCHANGED scan_work
       \/ /\ \/ ~CanCreate(n, p) /\ NoFault
             \/ CanCreate(n, p) /\ Fault("create")
          /\ scanning' = [scanning EXCEPT ![n] = FALSE]
          /\ Schedule(n)
          /\ UNCHANGED initiating
    /\ UNCHANGED <<boot, advertising, ep, disc, default_connections,
                   num_connections, char_handles, halted>>

\* The controllers connect n to p.
LinkUp(n, p) == Establish(n, p) /\ UNCHANGED tableVars

\* connected(conn, err # 0): reported and nothing else.
ConnectFailedCounts(n) ==   \* mutant: counts the connection that failed
    /\ Runs(n) /\ CreateFails(n) /\ ~TableFull(n)
    /\ num_connections' = [num_connections EXCEPT ![n] = @ + 1]
    /\ UNCHANGED <<scan_work, default_connections, char_handles, halted>>
ConnectFailed(n) == Runs(n) /\ CreateFails(n) /\ UNCHANGED tableVars

\* connected(conn, 0): store the connection and start discovery, or close
\* the connection when discovery does not start.
Connected(n, p) ==
    /\ ep[n][p] = "pending" /\ Runs(n)
    /\ ~TableFull(n)
    /\ LET i == NextSlot(n) IN
       /\ default_connections' = [default_connections EXCEPT ![n][i] = p]
       /\ char_handles' = [char_handles EXCEPT ![n][i] = FALSE]
       /\ num_connections' = [num_connections EXCEPT ![n] = @ + 1]
    /\ \/ /\ NoFault
          /\ ep' = [ep EXCEPT ![n][p] = "up"]
          /\ disc' = [disc EXCEPT ![n][p] = TRUE]
       \/ /\ Fault("discover")
          /\ ep' = [ep EXCEPT ![n][p] = "closing"]
          /\ UNCHANGED disc
    /\ UNCHANGED <<boot, advertising, scanning, initiating, scan_work, halted>>

\* The same callback with the table full: default_connections[8] is written.
\* What the board does from here on is undefined; the model stops following it.
ConnectedOverrun(n, p) ==
    /\ ep[n][p] = "pending" /\ Runs(n)
    /\ TableFull(n)
    /\ ep' = [ep EXCEPT ![n][p] = "up"]
    /\ halted' = [halted EXCEPT ![n] = "overrun"]
    /\ UNCHANGED <<boot, advertising, scanning, initiating, disc, faults,
                   scan_work, default_connections, num_connections,
                   char_handles>>

\* discover_cb with an attribute: its handle goes to the connection's slot.
KeepHandle(n, p) ==
    char_handles' = [char_handles EXCEPT ![n] =
        [i \in Slot |-> i \in DiscoveredSlot(n, p) \/ @[i]]]

\* disconnected(): the link is closed and its slot cleared.
LinkClosed(n, p) ==
    /\ Runs(n)
    /\ Close(n, p)
    /\ default_connections' = [default_connections EXCEPT ![n] =
           [i \in Slot |-> IF i \in FirstSlot(n, p) THEN NoPeer ELSE @[i]]]
    /\ UNCHANGED <<num_connections, char_handles, halted>>
-----------------------------------------------------------------------------
Live(n) == {p \in Node : ep[n][p] \in {"up", "closing"}}

\* The connection table and the links agree: a link whose connected callback
\* has run is in exactly one slot, and every slot in use names such a link.
\* Hence disconnected() never leaves a dead pointer behind.
TableMatchesLinks ==
    \A n, p \in Node :
        /\ Slots(n, p) # {} => p \in Live(n)
        /\ p \in Live(n) => Slots(n, p) # {} \/ ~Runs(n)
        /\ \A i, j \in Slots(n, p) : i = j

\* Every slot that num_connections counts and no link occupies was paid for by
\* a failure, so the table (which never shrinks) outlasts any run with fewer
\* than MAX_CONNECTIONS - |Neighbours| failures.
DeadSlotsPaid ==
    \A n \in Node : num_connections[n] <= Cardinality(Live(n)) + faults

\* Scan work that is scheduled leads to a scan: the retry of scan_work_handler
\* ("Controller still busy, retry") gets through when the controller is idle.
ScanRetried ==
    \A n \in Node : scan_work[n] ~> (scanning[n] \/ ~Runs(n))

\* n can write to p: the link is up and its handle was discovered.
Writable(n, p) == \E i \in Slots(n, p) : char_handles[n][i]

\* A claim the code does not keep: main.h, at most MAX_CONNECTIONS connections
\* are stored.
NoOverrun == \A n \in Node : halted[n] # "overrun"
=============================================================================

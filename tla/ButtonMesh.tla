----------------------------- MODULE ButtonMesh -----------------------------
(***************************************************************************)
(* Connection management of the Lab 2 button network (Lab2/code/pt1_2):    *)
(* every board advertises and scans, connects to the neighbours it hears,  *)
(* and discovers the characteristic it will write to.                      *)
(***************************************************************************)
EXTENDS ConnTable

CONSTANT Source   \* the board with config->role = ROLE_SOURCE

ASSUME MeshAssumption == Source \in Node

Target(n) == n # Source

\* Where bt_ready starts the first scan.
FirstScanSource(n) == scan_work' = [scan_work EXCEPT ![n] = n = Source] \* mutant
FirstScan(n) == Schedule(n)
-----------------------------------------------------------------------------
\* Bluetooth is up, or failed to come up; advertising may fail on its own.
BtReady(n) ==
    /\ boot[n] = "off"
    /\ \/ /\ boot' = [boot EXCEPT ![n] = "ready"]
          /\ \/ NoFault /\ advertising' = [advertising EXCEPT ![n] = TRUE]
             \/ Fault("boot") /\ UNCHANGED advertising
          /\ FirstScan(n)
       \/ /\ boot' = [boot EXCEPT ![n] = "failed"]
          /\ Fault("boot")
          /\ UNCHANGED <<advertising, scan_work>>
    /\ UNCHANGED <<scanning, initiating, ep, disc, default_connections,
                   num_connections, char_handles, halted>>

\* discover_cb with an attribute: keep its handle, stop the procedure.  The
\* stack makes no further call, so the branch that rescans is not reached.
DiscoverFound(n, p) ==
    /\ disc[n][p] /\ Runs(n)
    /\ ep[p][n] # "pending"
    /\ KeepHandle(n, p)
    /\ disc' = [disc EXCEPT ![n][p] = FALSE]
    /\ UNCHANGED <<boot, advertising, scanning, initiating, ep, faults,
                   scan_work, default_connections, num_connections, halted>>

\* The effect of discover_cb without an attribute: a TARGET scans again.
RescanIfTarget(n) == scan_work' = [scan_work EXCEPT ![n] = @ \/ Target(n)]

\* The peer answers the discovery with an error; the link stays.
DiscoverError(n, p) ==
    /\ disc[n][p] /\ Runs(n)
    /\ Fault("att")
    /\ RescanIfTarget(n)
    /\ disc' = [disc EXCEPT ![n][p] = FALSE]
    /\ UNCHANGED <<boot, advertising, scanning, initiating, ep,
                   default_connections, num_connections, char_handles,
                   halted>>

\* The link closes: an outstanding discovery fails first (discover_cb without
\* an attribute), then disconnected() clears the slot.
Disconnected(n, p) ==
    /\ LinkClosed(n, p)
    /\ IF disc[n][p] THEN RescanIfTarget(n) ELSE UNCHANGED scan_work

NodeStep(n) ==
    \/ BtReady(n)
    \/ ScanWorkHandler(n)
    \/ ConnectFailed(n)

LinkStep(n, p) ==
    \/ DeviceFound(n, p)
    \/ LinkUp(n, p)
    \/ Connected(n, p)
    \/ ConnectedOverrun(n, p)
    \/ DiscoverFound(n, p)
    \/ DiscoverError(n, p)

MeshNext ==
    \/ \E n \in Node : NodeStep(n)
    \/ \E n, p \in Node : LinkStep(n, p) \/ Disconnected(n, p)

\* Every callback that is due is eventually run: the threads that run them
\* never block for ever.  A failure is never due.
MeshFairness ==
    /\ \A n \in Node :
          /\ WF_meshVars(NoFault /\ BtReady(n))
          /\ WF_meshVars(NoFault /\ ScanWorkHandler(n))
          /\ WF_meshVars(NoFault /\ ConnectFailed(n))
    /\ \A n, p \in Node :
          /\ WF_meshVars(NoFault /\ DeviceFound(n, p))
          /\ WF_meshVars(LinkUp(n, p))
          /\ WF_meshVars(NoFault /\ Connected(n, p))
          /\ WF_meshVars(DiscoverFound(n, p))
          /\ WF_meshVars(NoFault /\ Disconnected(n, p))

MeshSpec == TableInit /\ [][MeshNext]_meshVars
MeshFairSpec == MeshSpec /\ MeshFairness
-----------------------------------------------------------------------------
\* A slot's characteristic handle was discovered on the link that is in the
\* slot now: a handle of an earlier link is never written to.
FreshHandles ==
    \A n, p \in Node : \A i \in Slots(n, p) :
        char_handles[n][i] => ep[n][p] = "up" /\ ~disc[n][p]

\* A link either becomes usable (its handle is found) or is closed.
LinkSettles ==
    \A n, p \in Node :
        ep[n][p] = "pending" ~>
            \/ ep[n][p] = "down"
            \/ \E i \in Slots(n, p) : char_handles[n][i]
            \/ ~Runs(n)

\* As long as nothing fails no board stays alone: each one that has a neighbour
\* ends up with a neighbour it can write to and that can write to it, whichever
\* of the competing connection attempts succeed.
NobodyAlone ==
    \A n \in Node : Neighbours[n] # {} =>
        <>[](\/ faults > 0
             \/ \E p \in Neighbours[n] : Writable(n, p) /\ Writable(p, n))

\* Claims of the comments that the code does not keep.

\* role_SOURCE and role_TARGET: "3. Connect to all nodes in range."
ConnectsToAllInRange ==
    \A n \in Node : \A p \in Neighbours[n] : <>(p \in Live(n))
=============================================================================

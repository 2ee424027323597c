----------------------------- MODULE SensorMesh -----------------------------
(***************************************************************************)
(* Connection management of the Lab 2 measurement network (Lab2/code/      *)
(* pt3_4), a descendant of the button network's: the same table and the    *)
(* same work handlers, with a discovery that runs to its end, a ready flag *)
(* per slot, and the roles the other way round.  Here the SOURCEs scan and *)
(* rescan, and the one TARGET, the sink, scans when its button is pressed. *)
(***************************************************************************)
EXTENDS ConnTable

CONSTANT Sink   \* the board with config->role = ROLE_TARGET

ASSUME SinkAssumption == Sink \in Node

VARIABLE conn_ready   \* has the slot's discovery run to its end

Source(n) == n # Sink

sensorVars == <<meshVars, conn_ready>>

SensorTypeOK ==
    /\ TableTypeOK
    /\ conn_ready \in [Node -> [Slot -> BOOLEAN]]

SensorInit ==
    /\ TableInit
    /\ conn_ready = [n \in Node |-> [i \in Slot |-> FALSE]]

\* The slot discover_cb marks as ready when a discovery is complete.
ReadyNewest(n, p) == {num_connections[n] - 1}   \* mutant
ReadySlot(n, p) == FirstSlot(n, p)
SetReady(n, p) ==
    conn_ready' = [conn_ready EXCEPT ![n] =
                      [i \in Slot |-> i \in ReadySlot(n, p) \/ @[i]]]

\* The end of a discovery: SOURCEs scan for their downstream neighbour.
NoRescan(n) == UNCHANGED scan_work   \* mutant
Rescan(n) == scan_work' = [scan_work EXCEPT ![n] = @ \/ Source(n)]
-----------------------------------------------------------------------------
\* Bluetooth is up, or failed to come up: only a SOURCE starts to scan.
SensorBtReady(n) ==
    /\ boot[n] = "off"
    /\ \/ /\ boot' = [boot EXCEPT ![n] = "ready"]
          /\ scan_work' = [scan_work EXCEPT ![n] = Source(n)]
          /\ \/ NoFault /\ advertising' = [advertising EXCEPT ![n] = TRUE]
             \/ Fault("boot") /\ UNCHANGED advertising
       \/ /\ boot' = [boot EXCEPT ![n] = "failed"]
          /\ Fault("boot")
          /\ UNCHANGED <<advertising, scan_work>>
    /\ UNCHANGED <<scanning, initiating, ep, disc, default_connections,
                   num_connections, char_handles, halted, conn_ready>>

\* The sink's button, pressed at any time once its work item is set up.
ButtonPressed ==
    /\ boot[Sink] = "ready" /\ Runs(Sink)
    /\ Schedule(Sink)
    /\ UNCHANGED <<linkVars, default_connections, num_connections,
                   char_handles, halted, conn_ready>>

SensorScanWork(n) == ScanWorkHandler(n) /\ UNCHANGED conn_ready
SensorDeviceFound(n, p) == DeviceFound(n, p) /\ UNCHANGED conn_ready
SensorConnectFailed(n) == ConnectFailed(n) /\ UNCHANGED conn_ready

SensorConnected(n, p) ==
    /\ Connected(n, p)
    /\ conn_ready' = [conn_ready EXCEPT ![n][NextSlot(n)] = FALSE]

SensorOverrun(n, p) == ConnectedOverrun(n, p) /\ UNCHANGED conn_ready

\* Has discover_cb been called with the characteristic of p.
HandleKnown(n, p) == \A i \in DiscoveredSlot(n, p) : char_handles[n][i]

\* discover_cb with the attribute: keep its handle and let discovery go on.
DiscoverAttr(n, p) ==
    /\ disc[n][p] /\ Runs(n)
    /\ ep[p][n] # "pending"
    /\ ~HandleKnown(n, p)
    /\ KeepHandle(n, p)
    /\ UNCHANGED <<linkVars, scan_work, default_connections, num_connections,
                   halted, conn_ready>>

\* discover_cb without an attribute: everything was discovered, or the peer
\* answered with an error.
DiscoverDone(n, p) ==
    /\ disc[n][p] /\ Runs(n)
    /\ \/ HandleKnown(n, p) /\ NoFault
       \/ Fault("att")
    /\ SetReady(n, p)
    /\ Rescan(n)
    /\ disc' = [disc EXCEPT ![n][p] = FALSE]
    /\ UNCHANGED <<boot, advertising, scanning, initiating, ep,
                   default_connections, num_connections, char_handles, halted>>

\* A link closes; a discovery that is outstanding on it is cut off first, with
\* the same call of discover_cb, while the slot is still in use.
SensorDisconnected(n, p) ==
    /\ LinkClosed(n, p)
    /\ IF disc[n][p] THEN SetReady(n, p) /\ Rescan(n)
                     ELSE UNCHANGED <<scan_work, conn_ready>>

SensorNodeStep(n) ==
    SensorBtReady(n) \/ SensorScanWork(n) \/ SensorConnectFailed(n)

SensorLinkStep(n, p) ==
    \/ SensorDeviceFound(n, p)
    \/ LinkUp(n, p) /\ UNCHANGED conn_ready
    \/ SensorConnected(n, p)
    \/ SensorOverrun(n, p)
    \/ DiscoverAttr(n, p)
    \/ DiscoverDone(n, p)

SensorMeshNext ==
    \/ ButtonPressed
    \/ \E n \in Node : SensorNodeStep(n)
    \/ \E n, p \in Node : SensorLinkStep(n, p) \/ SensorDisconnected(n, p)

\* Every callback that is due is eventually run; nobody has to press a button.
SensorMeshFairness ==
    /\ \A n \in Node :
          /\ WF_sensorVars(NoFault /\ SensorBtReady(n))
          /\ WF_sensorVars(NoFault /\ SensorScanWork(n))
          /\ WF_sensorVars(NoFault /\ SensorConnectFailed(n))
    /\ \A n, p \in Node :
          /\ WF_sensorVars(NoFault /\ SensorDeviceFound(n, p))
          /\ WF_sensorVars(LinkUp(n, p) /\ UNCHANGED conn_ready)
          /\ WF_sensorVars(NoFault /\ SensorConnected(n, p))
          /\ WF_sensorVars(DiscoverAttr(n, p))
          /\ WF_sensorVars(NoFault /\ DiscoverDone(n, p))
          /\ WF_sensorVars(NoFault /\ SensorDisconnected(n, p))

SensorMeshSpec ==
    SensorInit /\ [][SensorMeshNext]_sensorVars /\ SensorMeshFairness
-----------------------------------------------------------------------------
\* A slot in use is ready only once the discovery of its own link is over: the
\* flag of an earlier link, or of another one, never opens it for writes.
FreshReady ==
    \A n, p \in Node : \A i \in Slots(n, p) :
        conn_ready[n][i] => ~disc[n][p]

\* Is n able to send to p.
Open(n, p) == \E i \in Slots(n, p) : char_handles[n][i] /\ conn_ready[n][i]

\* n lost a link (its slot stays dead), took a failed discovery for ready, or
\* halted: disconnected() and discover_cb undo none of these.
Hurt(n) ==
    \/ ~Runs(n)
    \/ \E i \in Slot : /\ i < num_connections[n]
                       /\ \/ default_connections[n][i] = NoPeer
                          \/ conn_ready[n][i] /\ ~char_handles[n][i]

\* role_SOURCE: "3. Connect to all nodes in range."  Because a SOURCE scans
\* again after each discovery it keeps looking for the neighbours it misses:
\* whichever of the competing connection attempts fail, and whichever scans and
\* creations are refused, every SOURCE ends up able to exchange measurements
\* with each of its neighbours, if both came up and neither was hurt by a link
\* that was lost or a discovery that failed.
SourcesConnect ==
    \A n \in Node \ {Sink} : \A p \in Neighbours[n] :
        <>[](\/ Open(n, p) /\ Open(p, n)
             \/ ~advertising[n] \/ ~advertising[p]
             \/ Hurt(n) \/ Hurt(p))

\* n scans, or what is under way makes it scan again.
Searching(n) ==
    \/ scan_work[n] \/ scanning[n] \/ initiating[n] # NoPeer
    \/ \E p \in Node : ep[n][p] = "pending" \/ disc[n][p]

\* The board n tries to connect to has no connection object left, or only one
\* of the two has seen the end of an earlier link between them.
Occupied(n) ==
    \E p \in Node :
        /\ initiating[n] = p
        /\ \/ InUse(p) >= BT_MAX_CONN
           \/ ep[n][p] = "closing"
           \/ ep[n][p] = "down" /\ ep[p][n] # "down"

\* connected() with an error and disconnected() start no scan.  Yet a SOURCE
\* that runs stops its search only in a step in which something fails, or in
\* which a board that is occupied lets its request time out: never because the two
\* connected to each other at the same time, or because the controller was busy
\* when a scan was due.
SourcesSearchOn ==
    [][\A n \in Node \ {Sink} :
           Searching(n) /\ ~Searching(n)' =>
               faults' > faults \/ Occupied(n) \/ ~Runs(n)']_sensorVars
=============================================================================

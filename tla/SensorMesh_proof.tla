------------------------- MODULE SensorMesh_proof -------------------------
(***************************************************************************)
(* What the connection management of the measurement network guarantees    *)
(* for any number of boards, any radio range, any table size and any       *)
(* number of failures.                                                     *)
(***************************************************************************)
EXTENDS SensorMesh, ConnTable_proof

-----------------------------------------------------------------------------
(* Type correctness. *)

LEMMA SensorInitType == SensorInit => SensorTypeOK
  BY TableInitType DEF SensorInit, SensorTypeOK

\* The steps taken from ConnTable, with what they do to conn_ready.
SensorTableStep(n, p) ==
    \/ /\ \/ ScanWorkHandler(n)
          \/ ConnectFailed(n)
          \/ DeviceFound(n, p)
          \/ LinkUp(n, p)
          \/ ConnectedOverrun(n, p)
       /\ UNCHANGED conn_ready
    \/ /\ Connected(n, p)
       /\ conn_ready' = [conn_ready EXCEPT ![n][NextSlot(n)] = FALSE]

LEMMA SensorTableStepType ==
    ASSUME SensorTypeOK, NEW n \in Node, NEW p \in Node, SensorTableStep(n, p)
    PROVE  SensorTypeOK'
<1>1. conn_ready \in [Node -> [Slot -> BOOLEAN]]
  BY DEF SensorTypeOK
<1>2. conn_ready' \in [Node -> [Slot -> BOOLEAN]]
  <2>1. CASE UNCHANGED conn_ready
    BY <1>1, <2>1
  <2>2. CASE conn_ready' = [conn_ready EXCEPT ![n][NextSlot(n)] = FALSE]
    BY <1>1, <2>2
  <2> QED
    BY <2>1, <2>2 DEF SensorTableStep
<1> QED
  BY <1>2, TableStepType DEF SensorTableStep, SensorTypeOK, TableStep

LEMMA SensorBtReadyType ==
    ASSUME SensorTypeOK, NEW n \in Node, SensorBtReady(n)
    PROVE  SensorTypeOK'
<1>1. /\ boot \in [Node -> {"off", "ready", "failed"}]
      /\ advertising \in [Node -> BOOLEAN]
      /\ scan_work \in [Node -> BOOLEAN]
  BY DEF SensorTypeOK, TableTypeOK, LinkTypeOK
<1>2. faults' \in 0 .. MaxFaults
  BY FaultType DEF SensorTypeOK, TableTypeOK, SensorBtReady
<1>3. boot' \in [Node -> {"off", "ready", "failed"}]
  BY <1>1 DEF SensorBtReady, Fault
<1>4. advertising' \in [Node -> BOOLEAN]
  BY <1>1 DEF SensorBtReady, NoFault, Fault
<1>5. scan_work' \in [Node -> BOOLEAN]
  BY <1>1 DEF SensorBtReady, Source
<1> QED
  BY <1>2, <1>3, <1>4, <1>5
  DEF SensorTypeOK, TableTypeOK, LinkTypeOK, SensorBtReady

LEMMA ButtonPressedType ==
    ASSUME SensorTypeOK, ButtonPressed
    PROVE  SensorTypeOK'
<1>1. scan_work' \in [Node -> BOOLEAN]
  BY DEF SensorTypeOK, TableTypeOK, ButtonPressed, Schedule
<1> QED
  BY <1>1 DEF SensorTypeOK, TableTypeOK, LinkTypeOK, ButtonPressed, linkVars

LEMMA SetReadyType ==
    ASSUME SensorTypeOK, NEW n \in Node, NEW p \in Node, SetReady(n, p)
    PROVE  conn_ready' \in [Node -> [Slot -> BOOLEAN]]
<1>1. conn_ready \in [Node -> [Slot -> BOOLEAN]]
  BY DEF SensorTypeOK
<1> QED
  BY <1>1 DEF SetReady

LEMMA RescanType ==
    ASSUME SensorTypeOK, NEW n \in Node, Rescan(n)
    PROVE  scan_work' \in [Node -> BOOLEAN]
  BY DEF SensorTypeOK, TableTypeOK, Rescan, Source

LEMMA SensorDiscoverType ==
    ASSUME SensorTypeOK, NEW n \in Node, NEW p \in Node,
           DiscoverAttr(n, p) \/ DiscoverDone(n, p)
    PROVE  SensorTypeOK'
<1>1. CASE DiscoverAttr(n, p)
  <2>1. char_handles' \in [Node -> [Slot -> BOOLEAN]]
    BY <1>1, KeepHandleType DEF DiscoverAttr, SensorTypeOK
  <2> QED
    BY <1>1, <2>1
    DEF SensorTypeOK, TableTypeOK, LinkTypeOK, DiscoverAttr, linkVars
<1>2. CASE DiscoverDone(n, p)
  <2>1. faults' \in 0 .. MaxFaults
    BY <1>2, FaultType DEF SensorTypeOK, TableTypeOK, DiscoverDone
  <2>2. disc' \in [Node -> [Node -> BOOLEAN]]
    <3>1. disc \in [Node -> [Node -> BOOLEAN]]
      BY DEF SensorTypeOK, TableTypeOK, LinkTypeOK
    <3> QED
      BY <1>2, <3>1 DEF DiscoverDone
  <2>3. scan_work' \in [Node -> BOOLEAN]
    BY <1>2, RescanType DEF DiscoverDone
  <2>4. conn_ready' \in [Node -> [Slot -> BOOLEAN]]
    BY <1>2, SetReadyType DEF DiscoverDone
  <2> QED
    BY <1>2, <2>1, <2>2, <2>3, <2>4
    DEF SensorTypeOK, TableTypeOK, LinkTypeOK, DiscoverDone
<1> QED
  BY <1>1, <1>2

LEMMA SensorDisconnectedType ==
    ASSUME SensorTypeOK, NEW n \in Node, NEW p \in Node,
           SensorDisconnected(n, p)
    PROVE  SensorTypeOK'
<1>1. TableTypeOK /\ LinkClosed(n, p)
  BY DEF SensorDisconnected, SensorTypeOK
<1>2. scan_work' \in [Node -> BOOLEAN]
  BY RescanType DEF SensorDisconnected, SensorTypeOK, TableTypeOK
<1>3. conn_ready' \in [Node -> [Slot -> BOOLEAN]]
  BY SetReadyType DEF SensorDisconnected, SensorTypeOK
<1> QED
  BY <1>1, <1>2, <1>3, LinkClosedType
  DEF SensorTypeOK, TableTypeOK, LinkTypeOK, LinkClosed, Close

LEMMA SensorNextType ==
    SensorTypeOK /\ [SensorMeshNext]_sensorVars => SensorTypeOK'
<1> SUFFICES ASSUME SensorTypeOK, [SensorMeshNext]_sensorVars
             PROVE  SensorTypeOK'
  OBVIOUS
<1>1. CASE ButtonPressed
  BY <1>1, ButtonPressedType
<1>2. ASSUME NEW n \in Node, SensorNodeStep(n) PROVE SensorTypeOK'
  BY <1>2, SensorBtReadyType, SensorTableStepType
  DEF SensorNodeStep, SensorScanWork, SensorConnectFailed, SensorTableStep
<1>3. ASSUME NEW n \in Node, NEW p \in Node, SensorLinkStep(n, p)
      PROVE  SensorTypeOK'
  BY <1>3, SensorDiscoverType, SensorTableStepType
  DEF SensorLinkStep, SensorDeviceFound, SensorConnected, SensorOverrun,
      SensorTableStep
<1>4. ASSUME NEW n \in Node, NEW p \in Node, SensorDisconnected(n, p)
      PROVE  SensorTypeOK'
  BY <1>4, SensorDisconnectedType
<1>5. CASE UNCHANGED sensorVars
  BY <1>5
  DEF SensorTypeOK, TableTypeOK, LinkTypeOK, sensorVars, meshVars, linkVars,
      tableVars
<1> QED
  BY <1>1, <1>2, <1>3, <1>4, <1>5 DEF SensorMeshNext

-----------------------------------------------------------------------------
(* The connection table and the ready flags. *)

\* The inductive invariant: FreshReady needs TableMatchesLinks, by which the
\* flag a discovery sets is that of its own link and of no other.
SensorInv == SensorTypeOK /\ TableInv /\ FreshReady

LEMMA SensorInvInit == SensorInit => SensorInv
<1> SUFFICES ASSUME SensorInit PROVE SensorInv
  OBVIOUS
<1>1. \A n, p \in Node : Slots(n, p) = {}
  BY RadioAssumption DEF SensorInit, TableInit, Slots, Slot
<1>2. TableInv
  BY TableInvInit DEF SensorInit
<1> QED
  BY <1>1, <1>2, SensorInitType DEF SensorInv, FreshReady

\* Steps that leave the table and the flags alone.
LEMMA UntouchedReady ==
    ASSUME SensorInv, Untouched, UNCHANGED conn_ready
    PROVE  FreshReady'
<1>1. ASSUME NEW n \in Node, NEW p \in Node
      PROVE  Slots(n, p)' = Slots(n, p) /\ (disc'[n][p] => disc[n][p])
  BY <1>1 DEF Untouched, Slots
<1> QED
  BY <1>1 DEF SensorInv, FreshReady

\* connected() clears the flag of the slot it takes.
LEMMA ConnectedReady ==
    ASSUME SensorInv, NEW n \in Node, NEW p \in Node, Connected(n, p),
           conn_ready' = [conn_ready EXCEPT ![n][NextSlot(n)] = FALSE]
    PROVE  FreshReady'
<1>0. TableInv
  BY DEF SensorInv
<1>1. num_connections[n] \in Slot /\ Slots(n, p)' = {num_connections[n]}
  BY <1>0, ConnectedSlots
<1>2. \A m, q \in Node : <<m, q>> # <<n, p>> =>
          /\ Slots(m, q)' = Slots(m, q)
          /\ num_connections[n] \notin Slots(n, q)
  BY <1>0, ConnectedSlots
<1>3. \A m, q \in Node : <<m, q>> # <<n, p>> =>
          ep'[m][q] = ep[m][q] /\ disc'[m][q] = disc[m][q]
  BY <1>0, ConnectedSlots
<1>4. /\ conn_ready \in [Node -> [Slot -> BOOLEAN]]
      /\ conn_ready' = [conn_ready EXCEPT ![n][num_connections[n]] = FALSE]
  BY DEF SensorInv, SensorTypeOK, NextSlot
<1> SUFFICES ASSUME NEW m \in Node, NEW q \in Node,
                    NEW i \in Slots(m, q)', conn_ready'[m][i]
    PROVE  ~disc'[m][q]
  BY DEF FreshReady
<1>5. <<m, q>> # <<n, p>>
  BY <1>1, <1>4
<1>6. i \in Slots(m, q) /\ i \in Slot
  BY <1>2, <1>5 DEF Slots
<1>7. m = n => i # num_connections[n]
  BY <1>2, <1>5, <1>6
<1>8. conn_ready[m][i]
  BY <1>1, <1>4, <1>6, <1>7
<1> QED
  BY <1>3, <1>5, <1>6, <1>8 DEF SensorInv, FreshReady

\* The end of a discovery opens the slot of its link only.
LEMMA OpenedReady ==
    ASSUME SensorInv, NEW n \in Node, NEW p \in Node, SetReady(n, p),
           disc'[n][p] = FALSE,
           \A m, q \in Node : <<m, q>> # <<n, p>> =>
               Slots(m, q)' = Slots(m, q) /\ disc'[m][q] = disc[m][q]
    PROVE  FreshReady'
<1>1. /\ conn_ready \in [Node -> [Slot -> BOOLEAN]]
      /\ conn_ready' = [conn_ready EXCEPT ![n] =
             [i \in Slot |-> i \in FirstSlot(n, p) \/ @[i]]]
  BY DEF SensorInv, SensorTypeOK, SetReady, ReadySlot
<1> SUFFICES ASSUME NEW m \in Node, NEW q \in Node,
                    NEW i \in Slots(m, q)', conn_ready'[m][i],
                    <<m, q>> # <<n, p>>
    PROVE  ~disc'[m][q]
  BY DEF FreshReady
<1>2. i \in Slots(m, q) /\ i \in Slot
  BY DEF Slots
<1>3. m = n => i \notin FirstSlot(n, p)
  BY <1>2 DEF Slots, FirstSlot
<1>4. conn_ready[m][i]
  BY <1>1, <1>2, <1>3
<1> QED
  BY <1>2, <1>4 DEF SensorInv, FreshReady

LEMMA SensorTableStepKeeps ==
    ASSUME SensorInv, NEW n \in Node, NEW p \in Node, SensorTableStep(n, p)
    PROVE  SensorInv'
<1>1. SensorTypeOK' /\ TableInv'
  BY SensorTableStepType, TableStepKeeps
  DEF SensorInv, SensorTableStep, TableStep
<1>2. CASE Connected(n, p)
           /\ conn_ready' = [conn_ready EXCEPT ![n][NextSlot(n)] = FALSE]
  BY <1>1, <1>2, ConnectedReady DEF SensorInv
<1> SUFFICES ASSUME UNCHANGED conn_ready,
                    \/ ScanWorkHandler(n) \/ ConnectFailed(n)
                    \/ DeviceFound(n, p) \/ LinkUp(n, p)
                    \/ ConnectedOverrun(n, p)
    PROVE  FreshReady'
  BY <1>1, <1>2 DEF SensorInv, SensorTableStep
<1>3. CASE ScanWorkHandler(n)
  BY <1>3, UntouchedReady DEF Untouched, ScanWorkHandler, ScanStarts, ScanRefused
<1>4. CASE ConnectFailed(n)
  BY <1>4, UntouchedReady DEF Untouched, ConnectFailed, CreateFails, tableVars
<1>5. CASE DeviceFound(n, p)
  BY <1>5, UntouchedReady DEF Untouched, DeviceFound
<1>6. CASE LinkUp(n, p)
  BY <1>6, LinkUpUntouched, UntouchedReady DEF SensorInv, TableInv
<1>7. CASE ConnectedOverrun(n, p)
  <2>1. UNCHANGED <<default_connections, num_connections, disc>>
    BY <1>7 DEF ConnectedOverrun
  <2> QED
    BY <2>1 DEF SensorInv, FreshReady, Slots
<1> QED
  BY <1>3, <1>4, <1>5, <1>6, <1>7

LEMMA SensorInvNext ==
    SensorInv /\ [SensorMeshNext]_sensorVars => SensorInv'
<1> SUFFICES ASSUME SensorInv, [SensorMeshNext]_sensorVars PROVE SensorInv'
  OBVIOUS
<1>1. SensorTypeOK' /\ TableTypeOK'
  BY SensorNextType DEF SensorInv, SensorTypeOK
<1>2. disc \in [Node -> [Node -> BOOLEAN]]
  BY DEF SensorInv, SensorTypeOK, TableTypeOK, LinkTypeOK
<1>3. ASSUME Untouched, UNCHANGED conn_ready PROVE SensorInv'
  BY <1>1, <1>3, UntouchedKeeps, UntouchedReady DEF SensorInv
<1>4. CASE ButtonPressed
  BY <1>3, <1>4 DEF ButtonPressed, Untouched, linkVars
<1>5. ASSUME NEW n \in Node, SensorBtReady(n) PROVE SensorInv'
  BY <1>3, <1>5 DEF SensorBtReady, Untouched
<1>6. ASSUME NEW n \in Node, NEW p \in Node, SensorTableStep(n, p)
      PROVE  SensorInv'
  BY <1>6, SensorTableStepKeeps
<1>7. ASSUME NEW n \in Node, NEW p \in Node, DiscoverAttr(n, p)
      PROVE  SensorInv'
  BY <1>3, <1>7 DEF DiscoverAttr, Untouched, linkVars
<1>8. ASSUME NEW n \in Node, NEW p \in Node, DiscoverDone(n, p)
      PROVE  SensorInv'
  <2>1. /\ disc' = [disc EXCEPT ![n][p] = FALSE]
        /\ UNCHANGED <<ep, default_connections, num_connections, halted>>
        /\ SetReady(n, p)
    BY <1>8 DEF DiscoverDone
  <2>2. \A m, q \in Node : disc'[m][q] => disc[m][q]
    BY <1>2, <2>1
  <2>3. TableInv'
    BY <1>1, <2>1, <2>2, UntouchedKeeps DEF Untouched, SensorInv
  <2>4. disc'[n][p] = FALSE
    BY <1>2, <2>1
  <2>5. \A m, q \in Node : <<m, q>> # <<n, p>> =>
            Slots(m, q)' = Slots(m, q) /\ disc'[m][q] = disc[m][q]
    BY <1>2, <2>1 DEF Slots
  <2> QED
    BY <1>1, <2>1, <2>3, <2>4, <2>5, OpenedReady DEF SensorInv
<1>9. ASSUME NEW n \in Node, NEW p \in Node, SensorDisconnected(n, p)
      PROVE  SensorInv'
  <2>1. TableInv /\ LinkClosed(n, p)
    BY <1>9 DEF SensorInv, SensorDisconnected
  <2>2. TableInv'
    BY <1>1, <2>1, LinkClosedKeeps
  <2>3. /\ Slots(n, p)' = {}
        /\ \A m, q \in Node : <<m, q>> # <<n, p>> =>
               Slots(m, q)' = Slots(m, q) /\ disc'[m][q] = disc[m][q]
    BY <2>1, LinkClosedSlots
  <2>4. CASE disc[n][p]
    <3>1. SetReady(n, p)
      BY <1>9, <2>4 DEF SensorDisconnected
    <3>2. disc'[n][p] = FALSE
      BY <1>2, <2>1 DEF LinkClosed, Close
    <3> QED
      BY <1>1, <2>2, <2>3, <3>1, <3>2, OpenedReady DEF SensorInv
  <2>5. CASE ~disc[n][p]
    <3>1. UNCHANGED conn_ready
      BY <1>9, <2>5 DEF SensorDisconnected
    <3>2. FreshReady'
      BY <2>3, <3>1 DEF SensorInv, FreshReady
    <3> QED
      BY <1>1, <2>2, <3>2 DEF SensorInv
  <2> QED
    BY <2>4, <2>5
<1>10. CASE UNCHANGED sensorVars
  BY <1>3, <1>10 DEF sensorVars, meshVars, linkVars, tableVars, Untouched
<1> QED
  BY <1>4, <1>5, <1>6, <1>7, <1>8, <1>9, <1>10
  DEF SensorMeshNext, SensorNodeStep, SensorLinkStep, SensorScanWork,
      SensorConnectFailed, SensorDeviceFound, SensorConnected, SensorOverrun,
      SensorTableStep

\* Types, table and ready flags together, the inductive invariant of the mesh.
THEOREM SensorInvariant == SensorMeshSpec => []SensorInv
  BY SensorInvInit, SensorInvNext, PTL DEF SensorMeshSpec

\* Links and table slots of the measurement network are in one-to-one
\* correspondence.
THEOREM SensorTableCorrect == SensorMeshSpec => []TableMatchesLinks
<1>1. SensorInv => TableMatchesLinks
  BY DEF SensorInv, TableInv
<1> QED
  BY <1>1, SensorInvariant, PTL

\* A slot is ready for writes only when the discovery of its link is over.
THEOREM ReadyCorrect == SensorMeshSpec => []FreshReady
<1>1. SensorInv => FreshReady
  BY DEF SensorInv
<1> QED
  BY <1>1, SensorInvariant, PTL

-----------------------------------------------------------------------------
(* What every step keeps of slots and ranges. *)

LEMMA SensorSlotsNext ==
    SensorTypeOK /\ [SensorMeshNext]_sensorVars => SlotsKept
<1> SUFFICES ASSUME SensorTypeOK, [SensorMeshNext]_sensorVars PROVE SlotsKept
  OBVIOUS
<1>0. TableTypeOK
  BY DEF SensorTypeOK
<1>1. CASE UNCHANGED <<default_connections, num_connections>>
  BY <1>0, <1>1, UntouchedSlots
<1>2. ASSUME NEW n \in Node, NEW p \in Node, TableStep(n, p) PROVE SlotsKept
  BY <1>0, <1>2, TableStepSlots
<1>3. ASSUME NEW n \in Node, NEW p \in Node, SensorDisconnected(n, p)
      PROVE  SlotsKept
  BY <1>0, <1>3, LinkClosedKeepsSlots DEF SensorDisconnected
<1>4. CASE ButtonPressed \/ UNCHANGED sensorVars
  BY <1>1, <1>4 DEF ButtonPressed, sensorVars, meshVars, tableVars
<1>5. ASSUME NEW n \in Node, NEW p \in Node,
             SensorBtReady(n) \/ DiscoverAttr(n, p) \/ DiscoverDone(n, p)
      PROVE  SlotsKept
  BY <1>1, <1>5 DEF SensorBtReady, DiscoverAttr, DiscoverDone
<1> QED
  BY <1>2, <1>3, <1>4, <1>5
  DEF SensorMeshNext, SensorNodeStep, SensorLinkStep, SensorScanWork,
      SensorConnectFailed, SensorDeviceFound, SensorConnected, SensorOverrun,
      TableStep

LEMMA SensorInRangeNext ==
    SensorTypeOK /\ InRange /\ [SensorMeshNext]_sensorVars => InRange'
<1> SUFFICES ASSUME SensorTypeOK, InRange, [SensorMeshNext]_sensorVars
             PROVE  InRange'
  OBVIOUS
<1>0. LinkTypeOK
  BY DEF SensorTypeOK, TableTypeOK
<1>1. CASE UNCHANGED <<ep, initiating>>
  BY <1>1 DEF InRange
<1>2. ASSUME NEW n \in Node, NEW p \in Node, TableStep(n, p) PROVE InRange'
  BY <1>0, <1>2, TableStepInRange
<1>3. ASSUME NEW n \in Node, NEW p \in Node, SensorDisconnected(n, p)
      PROVE  InRange'
  BY <1>0, <1>3, LinkClosedInRange DEF SensorDisconnected
<1>4. CASE ButtonPressed \/ UNCHANGED sensorVars
  BY <1>1, <1>4 DEF ButtonPressed, sensorVars, meshVars, linkVars
<1>5. ASSUME NEW n \in Node, NEW p \in Node,
             SensorBtReady(n) \/ DiscoverAttr(n, p) \/ DiscoverDone(n, p)
      PROVE  InRange'
  BY <1>1, <1>5 DEF SensorBtReady, DiscoverAttr, DiscoverDone, linkVars
<1> QED
  BY <1>2, <1>3, <1>4, <1>5
  DEF SensorMeshNext, SensorNodeStep, SensorLinkStep, SensorScanWork,
      SensorConnectFailed, SensorDeviceFound, SensorConnected, SensorOverrun,
      TableStep

-----------------------------------------------------------------------------
(* When a SOURCE stops searching. *)

\* A request to connect goes to a board that advertises.
Advertised == \A n, p \in Node : initiating[n] = p => advertising[p]

\* When the board that n tries to connect to was faster, the end of the
\* discovery on the link of that board has scheduled a scan, and the work keeps
\* being rescheduled until the request of n has timed out.
SearchDue ==
    \A n \in Node \ {Sink}, p \in Node :
        initiating[n] = p /\ ep[n][p] = "up" /\ ~disc[n][p] /\ Runs(n) =>
            scan_work[n]

SearchInv == SensorInv /\ Advertised /\ SearchDue

LEMMA AdvertisedNext ==
    ASSUME SensorTypeOK, Advertised, [SensorMeshNext]_sensorVars
    PROVE  Advertised'
<1>0. /\ advertising \in [Node -> BOOLEAN]
      /\ initiating \in [Node -> Node \cup {NoPeer}]
      /\ NoPeer \notin Node
  BY RadioAssumption DEF SensorTypeOK, TableTypeOK, LinkTypeOK
<1>1. ASSUME \A p \in Node : advertising[p] => advertising'[p],
             \A n \in Node : \/ initiating'[n] \in {initiating[n], NoPeer}
                             \/ advertising[initiating'[n]]
      PROVE  Advertised'
  BY <1>0, <1>1 DEF Advertised
<1>2. CASE UNCHANGED <<advertising, initiating>>
  BY <1>2 DEF Advertised
<1>3. ASSUME NEW n \in Node, SensorBtReady(n) PROVE Advertised'
  BY <1>0, <1>1, <1>3 DEF SensorBtReady
<1>4. ASSUME NEW n \in Node, ConnectFailed(n) PROVE Advertised'
  BY <1>0, <1>1, <1>4 DEF ConnectFailed, CreateFails
<1>5. ASSUME NEW n \in Node, NEW p \in Node, DeviceFound(n, p)
      PROVE  Advertised'
  BY <1>0, <1>1, <1>5 DEF DeviceFound
<1>6. ASSUME NEW n \in Node, NEW p \in Node, LinkUp(n, p) PROVE Advertised'
  BY <1>0, <1>1, <1>6 DEF LinkUp, Establish
<1> QED
  BY <1>2, <1>3, <1>4, <1>5, <1>6
  DEF SensorMeshNext, SensorNodeStep, SensorLinkStep, SensorScanWork,
      SensorConnectFailed, SensorDeviceFound, SensorConnected, SensorOverrun,
      ScanWorkHandler, ScanStarts, ScanRefused, Connected, ConnectedOverrun,
      DiscoverAttr, DiscoverDone, SensorDisconnected, LinkClosed, Close,
      ButtonPressed, sensorVars, meshVars, linkVars

\* What a step does to SearchDue, and to the search of one SOURCE.
SearchKept ==
    \A n \in Node \ {Sink} :
        /\ \A p \in Node :
              (initiating[n] = p /\ ep[n][p] = "up" /\ ~disc[n][p] /\ Runs(n))'
                  => scan_work'[n]
        /\ Searching(n) /\ ~Searching(n)' =>
              faults' > faults \/ Occupied(n) \/ ~Runs(n)'

LEMMA SearchNext ==
    ASSUME SearchInv, [SensorMeshNext]_sensorVars
    PROVE  SearchKept
<1>0. /\ LinkTypeOK
      /\ scan_work \in [Node -> BOOLEAN]
      /\ halted \in [Node -> Undefined]
      /\ NoPeer \notin Node
  BY RadioAssumption DEF SearchInv, SensorInv, SensorTypeOK, TableTypeOK
<1>f. \A kind : Fault(kind) => faults' > faults
  BY <1>0 DEF LinkTypeOK, Fault
<1> USE DEF LinkTypeOK, EndState
<1>1. ASSUME UNCHANGED <<scanning, initiating, ep, disc, halted>>,
             \A n \in Node \ {Sink} : scan_work[n] => scan_work'[n]
      PROVE  SearchKept
  BY <1>1 DEF SearchInv, SearchDue, SearchKept, Searching, Runs
<1>2. CASE ButtonPressed
  BY <1>0, <1>1, <1>2 DEF ButtonPressed, Schedule, linkVars
<1>3. ASSUME NEW m \in Node, SensorBtReady(m) PROVE SearchKept
  BY <1>0, <1>1, <1>3 DEF SensorBtReady, Source
<1>4. ASSUME NEW m \in Node, ScanWorkHandler(m) PROVE SearchKept
  BY <1>0, <1>4
  DEF ScanWorkHandler, ScanStarts, ScanRefused, CanScan, Retry, Schedule,
      SearchInv, SearchDue, SearchKept, Searching, Runs
<1>5. ASSUME NEW m \in Node, ConnectFailed(m) PROVE SearchKept
  <2>1. /\ UNCHANGED <<scanning, ep, disc, scan_work, halted>>
        /\ initiating' = [initiating EXCEPT ![m] = NoPeer]
        /\ Runs(m)
    BY <1>5 DEF ConnectFailed, CreateFails, tableVars
  <2>2. ASSUME m # Sink, Searching(m), ~Searching(m)'
        PROVE  faults' > faults \/ Occupied(m)
    <3>1. PICK p \in Node : initiating[m] = p
      BY <1>0, <1>5 DEF CreateFails, ConnectFailed
    <3>2. ~scan_work[m] /\ ep[m][p] # "pending" /\ ~disc[m][p]
      BY <2>1, <2>2 DEF Searching
    <3>3. ep[m][p] \in {"down", "closing"}
      BY <1>0, <2>1, <2>2, <3>1, <3>2 DEF SearchInv, SearchDue
    <3>4. CASE Fault("connect")
      BY <1>f, <3>4
    <3>5. CASE ~Accepts(p, m)
      <4>1. advertising[p]
        BY <3>1 DEF SearchInv, Advertised
      <4>2. ~(InUse(p) < BT_MAX_CONN) => InUse(p) >= BT_MAX_CONN
        <5> DEFINE used == {q \in Node : ep[p][q] # "down"}
        <5>1. Cardinality(used) \in Nat
          BY FiniteNodes, FS_Subset, FS_CardinalityType
        <5> HIDE DEF used
        <5>2. \A a \in Nat : ~(a < BT_MAX_CONN) => a >= BT_MAX_CONN
          BY PoolAssumption
        <5>3. InUse(p) \in Nat
          BY <5>1 DEF InUse, used
        <5> QED
          BY <5>2, <5>3
      <4> QED
        BY <3>1, <3>3, <3>5, <4>1, <4>2 DEF Accepts, Occupied
    <3> QED
      BY <1>5, <3>1, <3>4, <3>5 DEF ConnectFailed, CreateFails
  <2> QED
    BY <1>0, <2>1, <2>2
    DEF SearchInv, SearchDue, SearchKept, Searching, Runs
<1>6. ASSUME NEW m \in Node, NEW q \in Node, DeviceFound(m, q)
      PROVE  SearchKept
  <2>0. UNCHANGED <<ep, disc, halted>>
    BY <1>6 DEF DeviceFound
  <2>1. CASE Fault("stop") /\ UNCHANGED <<initiating, scan_work>>
    BY <1>f, <2>0, <2>1 DEF SearchInv, SearchDue, SearchKept, Runs
  <2>2. CASE /\ initiating' = [initiating EXCEPT ![m] = q]
             /\ scanning' = [scanning EXCEPT ![m] = FALSE]
             /\ CanCreate(m, q) /\ UNCHANGED scan_work
    BY <1>0, <2>0, <2>2
    DEF CanCreate, SearchInv, SearchDue, SearchKept, Searching, Runs
  <2>3. CASE /\ scanning' = [scanning EXCEPT ![m] = FALSE]
             /\ Schedule(m) /\ UNCHANGED initiating
    BY <1>0, <2>0, <2>3
    DEF Schedule, SearchInv, SearchDue, SearchKept, Searching, Runs
  <2> QED
    BY <1>6, <2>1, <2>2, <2>3 DEF DeviceFound
<1>7. ASSUME NEW m \in Node, NEW q \in Node, LinkUp(m, q) PROVE SearchKept
  BY <1>0, <1>7
  DEF LinkUp, Establish, tableVars, SearchInv, SearchDue, SearchKept,
      Searching, Runs
<1>8. ASSUME NEW m \in Node, NEW q \in Node, Connected(m, q) PROVE SearchKept
  <2>1. /\ UNCHANGED <<scanning, initiating, scan_work, halted>>
        /\ \/ /\ ep' = [ep EXCEPT ![m][q] = "up"]
              /\ disc' = [disc EXCEPT ![m][q] = TRUE]
           \/ /\ faults' > faults
              /\ ep' = [ep EXCEPT ![m][q] = "closing"]
              /\ UNCHANGED disc
    BY <1>f, <1>8 DEF Connected
  <2>2. CASE /\ ep' = [ep EXCEPT ![m][q] = "up"]
             /\ disc' = [disc EXCEPT ![m][q] = TRUE]
    BY <1>0, <2>1, <2>2 DEF SearchInv, SearchDue, SearchKept, Searching, Runs
  <2>3. CASE /\ faults' > faults
             /\ ep' = [ep EXCEPT ![m][q] = "closing"]
             /\ UNCHANGED disc
    BY <1>0, <2>1, <2>3 DEF SearchInv, SearchDue, SearchKept, Searching, Runs
  <2> QED
    BY <2>1, <2>2, <2>3
<1>9. ASSUME NEW m \in Node, NEW q \in Node, ConnectedOverrun(m, q)
      PROVE  SearchKept
  BY <1>0, <1>9
  DEF ConnectedOverrun, SearchInv, SearchDue, SearchKept, Searching, Runs
<1>10. ASSUME NEW m \in Node, NEW q \in Node, DiscoverAttr(m, q)
       PROVE  SearchKept
  BY <1>1, <1>10 DEF DiscoverAttr, linkVars
<1>11. ASSUME NEW m \in Node, NEW q \in Node, DiscoverDone(m, q)
       PROVE  SearchKept
  BY <1>0, <1>11
  DEF DiscoverDone, Rescan, Source, SearchInv, SearchDue, SearchKept,
      Searching, Runs
<1>12. ASSUME NEW m \in Node, NEW q \in Node, SensorDisconnected(m, q)
       PROVE  SearchKept
  BY <1>0, <1>12
  DEF SensorDisconnected, LinkClosed, Close, Rescan, Source, SearchInv,
      SearchDue, SearchKept, Searching, Runs
<1>13. CASE UNCHANGED sensorVars
  BY <1>1, <1>13 DEF sensorVars, meshVars, linkVars, tableVars
<1> QED
  BY <1>2, <1>3, <1>4, <1>5, <1>6, <1>7, <1>8, <1>9, <1>10, <1>11, <1>12, <1>13
  DEF SensorMeshNext, SensorNodeStep, SensorLinkStep, SensorScanWork,
      SensorConnectFailed, SensorDeviceFound, SensorConnected, SensorOverrun

\* A SOURCE that runs stops its search only by a failure, or because a board it
\* tried to connect to was occupied.
THEOREM SourcesSearchCorrect == SensorMeshSpec => SourcesSearchOn
<1>1. SensorInit => SearchInv
  BY SensorInvInit, RadioAssumption
  DEF SearchInv, Advertised, SearchDue, SensorInit, TableInit, LinkInit
<1>2. SearchInv /\ [SensorMeshNext]_sensorVars => SearchInv'
  BY SensorInvNext, AdvertisedNext, SearchNext
  DEF SearchInv, SensorInv, SearchKept, SearchDue, Runs
<1>3. SearchInv /\ [SensorMeshNext]_sensorVars =>
          [\A n \in Node \ {Sink} :
               Searching(n) /\ ~Searching(n)' =>
                   faults' > faults \/ Occupied(n) \/ ~Runs(n)']_sensorVars
  BY SearchNext DEF SearchKept
<1> QED
  BY <1>1, <1>2, <1>3, PTL DEF SensorMeshSpec, SourcesSearchOn
=============================================================================

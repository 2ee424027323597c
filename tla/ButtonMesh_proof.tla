------------------------- MODULE ButtonMesh_proof -------------------------
(***************************************************************************)
(* What ButtonMesh guarantees for any number of boards, any radio range,   *)
(* any table size and any number of failures.                              *)
(***************************************************************************)
EXTENDS ButtonMesh, ConnTable_proof

-----------------------------------------------------------------------------
(* Type correctness. *)

\* The three steps this network does not take from ConnTable as they are.
LEMMA BtReadyType ==
    ASSUME TableTypeOK, NEW n \in Node, BtReady(n)
    PROVE  TableTypeOK'
<1>1. /\ boot \in [Node -> {"off", "ready", "failed"}]
      /\ advertising \in [Node -> BOOLEAN]
      /\ scan_work \in [Node -> BOOLEAN]
  BY DEF TableTypeOK, LinkTypeOK
<1>2. faults' \in 0 .. MaxFaults
  BY FaultType DEF TableTypeOK, BtReady
<1>3. boot' \in [Node -> {"off", "ready", "failed"}]
  BY <1>1 DEF BtReady, Fault
<1>4. advertising' \in [Node -> BOOLEAN]
  BY <1>1 DEF BtReady, NoFault, Fault
<1>5. scan_work' \in [Node -> BOOLEAN]
  BY <1>1 DEF BtReady, FirstScan, Schedule
<1> QED
  BY <1>2, <1>3, <1>4, <1>5 DEF TableTypeOK, LinkTypeOK, BtReady

LEMMA DiscoverType ==
    ASSUME TableTypeOK, NEW n \in Node, NEW p \in Node,
           DiscoverFound(n, p) \/ DiscoverError(n, p)
    PROVE  TableTypeOK'
<1>1. /\ disc \in [Node -> [Node -> BOOLEAN]]
      /\ scan_work \in [Node -> BOOLEAN]
  BY DEF TableTypeOK, LinkTypeOK
<1>2. CASE DiscoverFound(n, p)
  <2>1. char_handles' \in [Node -> [Slot -> BOOLEAN]]
    BY <1>2, KeepHandleType DEF DiscoverFound
  <2>2. disc' \in [Node -> [Node -> BOOLEAN]]
    BY <1>1, <1>2 DEF DiscoverFound
  <2> QED
    BY <1>2, <2>1, <2>2 DEF TableTypeOK, LinkTypeOK, DiscoverFound
<1>3. CASE DiscoverError(n, p)
  <2>1. faults' \in 0 .. MaxFaults
    BY <1>3, FaultType DEF TableTypeOK, DiscoverError
  <2>2. disc' \in [Node -> [Node -> BOOLEAN]]
    BY <1>1, <1>3 DEF DiscoverError
  <2>3. scan_work' \in [Node -> BOOLEAN]
    BY <1>1, <1>3 DEF DiscoverError, RescanIfTarget
  <2> QED
    BY <1>3, <2>1, <2>2, <2>3 DEF TableTypeOK, LinkTypeOK, DiscoverError
<1> QED
  BY <1>2, <1>3

LEMMA DisconnectedType ==
    ASSUME TableTypeOK, NEW n \in Node, NEW p \in Node, Disconnected(n, p)
    PROVE  TableTypeOK'
<1>1. LinkClosed(n, p)
  BY DEF Disconnected
<1>2. scan_work \in [Node -> BOOLEAN]
  BY DEF TableTypeOK
<1>3. scan_work' \in [Node -> BOOLEAN]
  BY <1>2 DEF Disconnected, RescanIfTarget
<1> QED
  BY <1>1, <1>3, LinkClosedType DEF TableTypeOK, LinkTypeOK, LinkClosed, Close

\* Every action keeps every variable in its type.
LEMMA MeshNextType == TableTypeOK /\ [MeshNext]_meshVars => TableTypeOK'
<1> SUFFICES ASSUME TableTypeOK, [MeshNext]_meshVars PROVE TableTypeOK'
  OBVIOUS
<1>1. ASSUME NEW n \in Node, NodeStep(n) PROVE TableTypeOK'
  BY <1>1, BtReadyType, TableStepType DEF NodeStep, TableStep
<1>2. ASSUME NEW n \in Node, NEW p \in Node, LinkStep(n, p)
      PROVE  TableTypeOK'
  BY <1>2, DiscoverType, TableStepType DEF LinkStep, TableStep
<1>3. ASSUME NEW n \in Node, NEW p \in Node, Disconnected(n, p)
      PROVE  TableTypeOK'
  BY <1>3, DisconnectedType
<1>4. CASE UNCHANGED meshVars
  BY <1>4 DEF TableTypeOK, LinkTypeOK, meshVars, linkVars, tableVars
<1> QED
  BY <1>1, <1>2, <1>3, <1>4 DEF MeshNext

\* The variables of the mesh keep their types; in particular num_connections
\* never exceeds the length of the table on a board that still runs.
THEOREM MeshTypeCorrect == MeshSpec => []TableTypeOK
  BY TableInitType, MeshNextType, PTL DEF MeshSpec

-----------------------------------------------------------------------------
(* The connection table and the handles. *)

\* The inductive invariant.  TableMatchesLinks needs the types only;
\* FreshHandles needs the other two: a handle is stored in the one slot of the
\* link being discovered, which is up.
MeshInv == TableInv /\ FreshHandles

LEMMA MeshInvInit == TableInit => MeshInv
<1> SUFFICES ASSUME TableInit PROVE MeshInv
  OBVIOUS
<1>1. \A n, p \in Node : Slots(n, p) = {}
  BY RadioAssumption DEF TableInit, Slots, Slot
<1> QED
  BY <1>1, TableInvInit DEF MeshInv, FreshHandles

\* The steps that leave the table and the handles alone.
LEMMA UntouchedFresh ==
    ASSUME MeshInv, Untouched, UNCHANGED char_handles
    PROVE  FreshHandles'
<1>1. ASSUME NEW n \in Node, NEW p \in Node
      PROVE  /\ Slots(n, p)' = Slots(n, p)
             /\ ep[n][p] = "up" => ep'[n][p] = "up"
             /\ disc'[n][p] => disc[n][p]
  BY <1>1 DEF Untouched, Slots
<1> QED
  BY <1>1 DEF MeshInv, FreshHandles

\* connected() forgets the handle of the slot it takes.
LEMMA ConnectedFresh ==
    ASSUME MeshInv, NEW n \in Node, NEW p \in Node, Connected(n, p)
    PROVE  FreshHandles'
<1>0. TableInv
  BY DEF MeshInv
<1>1. /\ num_connections[n] \in Slot
      /\ Slots(n, p)' = {num_connections[n]}
      /\ char_handles' =
             [char_handles EXCEPT ![n][num_connections[n]] = FALSE]
  BY <1>0, ConnectedSlots
<1>2. \A m, q \in Node : <<m, q>> # <<n, p>> =>
          /\ Slots(m, q)' = Slots(m, q)
          /\ num_connections[n] \notin Slots(n, q)
  BY <1>0, ConnectedSlots
<1>3. \A m, q \in Node : <<m, q>> # <<n, p>> =>
          ep'[m][q] = ep[m][q] /\ disc'[m][q] = disc[m][q]
  BY <1>0, ConnectedSlots
<1>4. char_handles \in [Node -> [Slot -> BOOLEAN]]
  BY DEF MeshInv, TableInv, TableTypeOK
<1> SUFFICES ASSUME NEW m \in Node, NEW q \in Node,
                    NEW i \in Slots(m, q)', char_handles'[m][i]
    PROVE  ep'[m][q] = "up" /\ ~disc'[m][q]
  BY DEF FreshHandles
<1>5. <<m, q>> # <<n, p>>
  BY <1>1, <1>4
<1>6. i \in Slots(m, q) /\ i \in Slot
  BY <1>2, <1>5 DEF Slots
<1>7. m = n => i # num_connections[n]
  BY <1>2, <1>5, <1>6
<1>8. char_handles[m][i]
  BY <1>1, <1>4, <1>6, <1>7
<1> QED
  BY <1>3, <1>5, <1>6, <1>8 DEF MeshInv, FreshHandles

\* discover_cb stores the handle in the only slot of the link it discovered.
LEMMA DiscoverFoundKeeps ==
    ASSUME MeshInv, TableTypeOK', NEW n \in Node, NEW p \in Node,
           DiscoverFound(n, p)
    PROVE  MeshInv'
<1>1. /\ char_handles' = [char_handles EXCEPT ![n] =
             [i \in Slot |-> i \in FirstSlot(n, p) \/ @[i]]]
      /\ disc' = [disc EXCEPT ![n][p] = FALSE]
      /\ UNCHANGED <<ep, default_connections, num_connections, halted>>
      /\ disc[n][p]
  BY DEF DiscoverFound, KeepHandle, DiscoveredSlot
<1>2. /\ char_handles \in [Node -> [Slot -> BOOLEAN]]
      /\ disc \in [Node -> [Node -> BOOLEAN]]
  BY DEF MeshInv, TableInv, TableTypeOK, LinkTypeOK
<1>3. \A m, q \in Node : disc'[m][q] => disc[m][q]
  BY <1>1, <1>2
<1>4. TableInv'
  BY <1>1, <1>3, UntouchedKeeps DEF MeshInv, Untouched
<1>5. FreshHandles'
  <2> SUFFICES ASSUME NEW m \in Node, NEW q \in Node,
                      NEW i \in Slots(m, q), char_handles'[m][i]
      PROVE  ep[m][q] = "up" /\ ~disc'[m][q]
    BY <1>1 DEF FreshHandles, Slots
  <2>1. CASE <<m, q>> = <<n, p>>
    BY <2>1, <1>1, <1>2 DEF MeshInv, TableInv, DiscoversOnUp
  <2>2. CASE <<m, q>> # <<n, p>>
    <3>1. i \in Slot /\ (m = n => i \notin FirstSlot(n, p))
      BY <2>2 DEF Slots, FirstSlot
    <3>2. char_handles[m][i]
      BY <3>1, <1>1, <1>2
    <3> QED
      BY <3>2, <2>2, <1>1, <1>2 DEF MeshInv, FreshHandles
  <2> QED
    BY <2>1, <2>2
<1> QED
  BY <1>4, <1>5 DEF MeshInv

\* disconnected() empties the slot of the link, and every other handle stays.
LEMMA DisconnectedKeeps ==
    ASSUME MeshInv, TableTypeOK', NEW n \in Node, NEW p \in Node,
           Disconnected(n, p)
    PROVE  MeshInv'
<1>0. TableInv /\ LinkClosed(n, p)
  BY DEF MeshInv, Disconnected
<1>1. Slots(n, p)' = {} /\ UNCHANGED char_handles
  BY <1>0, LinkClosedSlots DEF LinkClosed
<1>2. \A m, q \in Node : <<m, q>> # <<n, p>> =>
          /\ Slots(m, q)' = Slots(m, q)
          /\ ep'[m][q] = ep[m][q]
          /\ disc'[m][q] = disc[m][q]
  BY <1>0, LinkClosedSlots
<1>3. FreshHandles'
  <2> SUFFICES ASSUME NEW m \in Node, NEW q \in Node,
                      NEW i \in Slots(m, q)', char_handles'[m][i]
      PROVE  ep'[m][q] = "up" /\ ~disc'[m][q]
    BY DEF FreshHandles
  <2>1. <<m, q>> # <<n, p>>
    BY <1>1
  <2>2. i \in Slots(m, q) /\ char_handles[m][i]
    BY <2>1, <1>1, <1>2
  <2> QED
    BY <2>1, <2>2, <1>2 DEF MeshInv, FreshHandles
<1>4. TableInv'
  BY <1>0, LinkClosedKeeps
<1> QED
  BY <1>3, <1>4 DEF MeshInv

\* The steps taken from ConnTable.
LEMMA MeshTableStep ==
    ASSUME MeshInv, NEW n \in Node, NEW p \in Node, TableStep(n, p)
    PROVE  MeshInv'
<1>1. TableInv'
  BY TableStepKeeps DEF MeshInv
<1>2. CASE ScanWorkHandler(n)
  <2>1. FreshHandles'
    BY <1>2, UntouchedFresh
    DEF Untouched, ScanWorkHandler, ScanStarts, ScanRefused
  <2> QED
    BY <1>1, <2>1 DEF MeshInv
<1>3. CASE ConnectFailed(n)
  <2>1. FreshHandles'
    BY <1>3, UntouchedFresh DEF Untouched, ConnectFailed, CreateFails, tableVars
  <2> QED
    BY <1>1, <2>1 DEF MeshInv
<1>4. CASE DeviceFound(n, p)
  <2>1. FreshHandles'
    BY <1>4, UntouchedFresh DEF Untouched, DeviceFound
  <2> QED
    BY <1>1, <2>1 DEF MeshInv
<1>5. CASE LinkUp(n, p)
  <2>1. UNCHANGED char_handles
    BY <1>5 DEF LinkUp, tableVars
  <2>2. FreshHandles'
    BY <1>5, <2>1, LinkUpUntouched, UntouchedFresh DEF MeshInv, TableInv
  <2> QED
    BY <1>1, <2>2 DEF MeshInv
<1>6. CASE Connected(n, p)
  BY <1>1, <1>6, ConnectedFresh DEF MeshInv
<1>7. CASE ConnectedOverrun(n, p)
  <2>1. /\ ep' = [ep EXCEPT ![n][p] = "up"]
        /\ UNCHANGED <<default_connections, num_connections, char_handles,
                       disc>>
        /\ ep \in [Node -> [Node -> EndState]]
    BY <1>7 DEF ConnectedOverrun, MeshInv, TableInv, TableTypeOK, LinkTypeOK
  <2>2. ASSUME NEW m \in Node, NEW q \in Node
        PROVE  /\ Slots(m, q)' = Slots(m, q)
               /\ ep[m][q] = "up" => ep'[m][q] = "up"
    BY <2>1, <2>2 DEF Slots
  <2>3. FreshHandles'
    BY <2>1, <2>2 DEF MeshInv, FreshHandles
  <2> QED
    BY <1>1, <2>3 DEF MeshInv
<1> QED
  BY <1>2, <1>3, <1>4, <1>5, <1>6, <1>7 DEF TableStep

LEMMA MeshInvNext == MeshInv /\ [MeshNext]_meshVars => MeshInv'
<1> SUFFICES ASSUME MeshInv, [MeshNext]_meshVars PROVE MeshInv'
  OBVIOUS
<1>1. TableTypeOK'
  BY MeshNextType DEF MeshInv, TableInv
<1>2. ASSUME Untouched, UNCHANGED char_handles PROVE MeshInv'
  BY <1>1, <1>2, UntouchedKeeps, UntouchedFresh DEF MeshInv
<1>3. ASSUME NEW n \in Node, BtReady(n) PROVE MeshInv'
  BY <1>2, <1>3 DEF BtReady, Untouched
<1>4. ASSUME NEW n \in Node, NEW p \in Node, TableStep(n, p) PROVE MeshInv'
  BY <1>4, MeshTableStep
<1>5. ASSUME NEW n \in Node, NEW p \in Node, DiscoverFound(n, p)
      PROVE  MeshInv'
  BY <1>1, <1>5, DiscoverFoundKeeps
<1>6. ASSUME NEW n \in Node, NEW p \in Node, DiscoverError(n, p)
      PROVE  MeshInv'
  <2>1. disc \in [Node -> [Node -> BOOLEAN]]
    BY DEF MeshInv, TableInv, TableTypeOK, LinkTypeOK
  <2>2. disc' = [disc EXCEPT ![n][p] = FALSE]
    BY <1>6 DEF DiscoverError
  <2>3. \A m, q \in Node : disc'[m][q] => disc[m][q]
    BY <2>1, <2>2
  <2> QED
    BY <1>2, <1>6, <2>3 DEF DiscoverError, Untouched
<1>7. ASSUME NEW n \in Node, NEW p \in Node, Disconnected(n, p)
      PROVE  MeshInv'
  BY <1>1, <1>7, DisconnectedKeeps
<1>8. CASE UNCHANGED meshVars
  BY <1>2, <1>8 DEF meshVars, linkVars, tableVars, Untouched
<1> QED
  BY <1>3, <1>4, <1>5, <1>6, <1>7, <1>8
  DEF MeshNext, NodeStep, LinkStep, TableStep

\* Types, table and handles together, the inductive invariant of the mesh.
THEOREM MeshInvariant == MeshSpec => []MeshInv
  BY MeshInvInit, MeshInvNext, PTL DEF MeshSpec

\* The connection table and the links agree in every reachable state: the
\* sender of a message always has its one slot, a lost link leaves none.
THEOREM TableCorrect == MeshSpec => []TableMatchesLinks
<1>1. MeshInv => TableMatchesLinks
  BY DEF MeshInv, TableInv
<1> QED
  BY <1>1, MeshInvariant, PTL

\* A handle in use was discovered on the link it is used for.
THEOREM HandlesCorrect == MeshSpec => []FreshHandles
<1>1. MeshInv => FreshHandles
  BY DEF MeshInv
<1> QED
  BY <1>1, MeshInvariant, PTL

-----------------------------------------------------------------------------
(* Slots are counted up only, and are only emptied. *)

LEMMA SlotsKeptNext == TableTypeOK /\ [MeshNext]_meshVars => SlotsKept
<1> SUFFICES ASSUME TableTypeOK, [MeshNext]_meshVars PROVE SlotsKept
  OBVIOUS
<1>1. CASE UNCHANGED <<default_connections, num_connections>>
  BY <1>1, UntouchedSlots
<1>2. ASSUME NEW n \in Node, NEW p \in Node, TableStep(n, p) PROVE SlotsKept
  BY <1>2, TableStepSlots
<1>3. ASSUME NEW n \in Node, NEW p \in Node, Disconnected(n, p)
      PROVE  SlotsKept
  BY <1>3, LinkClosedKeepsSlots DEF Disconnected
<1>4. CASE \/ \E n \in Node : BtReady(n)
           \/ \E n, p \in Node : DiscoverFound(n, p) \/ DiscoverError(n, p)
           \/ UNCHANGED meshVars
  BY <1>1, <1>4 DEF BtReady, DiscoverFound, DiscoverError, meshVars, tableVars
<1> QED
  BY <1>2, <1>3, <1>4 DEF MeshNext, NodeStep, LinkStep, TableStep

-----------------------------------------------------------------------------
(* Dead slots are paid for. *)

LEMMA PaidNext == TableTypeOK /\ Paid /\ [MeshNext]_meshVars => Paid'
<1> SUFFICES ASSUME TableTypeOK, Paid, [MeshNext]_meshVars PROVE Paid'
  OBVIOUS
<1>1. ASSUME NEW n \in Node, BtReady(n) PROVE Paid'
  BY <1>1, UntouchedPaid, FaultOne DEF BtReady
<1>2. ASSUME NEW n \in Node, NEW p \in Node, TableStep(n, p) PROVE Paid'
  BY <1>2, TableStepPaid
<1>3. ASSUME NEW n \in Node, NEW p \in Node,
             DiscoverFound(n, p) \/ DiscoverError(n, p)
      PROVE  Paid'
  BY <1>3, UntouchedPaid, FaultOne DEF DiscoverFound, DiscoverError
<1>4. ASSUME NEW n \in Node, NEW p \in Node, Disconnected(n, p) PROVE Paid'
  BY <1>4, LinkClosedPaid DEF Disconnected
<1>5. CASE UNCHANGED meshVars
  BY <1>5, UntouchedPaid DEF meshVars, linkVars, tableVars
<1> QED
  BY <1>1, <1>2, <1>3, <1>4, <1>5 DEF MeshNext, NodeStep, LinkStep, TableStep

\* The table never shrinks, but it fills up no faster than links fail: whatever
\* it holds beyond the links that are there was paid for, however many boards
\* come and go in whatever order the two ends of a link learn of it.
THEOREM DeadSlotsCorrect == MeshSpec => []DeadSlotsPaid
<1>1. TableInit => TableTypeOK /\ Paid
  BY TableInitType, PaidInit
<1>2. TableTypeOK /\ Paid /\ [MeshNext]_meshVars => TableTypeOK' /\ Paid'
  BY MeshNextType, PaidNext
<1> QED
  BY <1>1, <1>2, PaidSuffices, PTL DEF MeshSpec
=============================================================================

-------------------------- MODULE ConnTable_proof --------------------------
(***************************************************************************)
(* What the callbacks of ConnTable keep, for any number of boards, any     *)
(* radio range, any table size and any number of failures: the lemmas that *)
(* the proofs about the two Lab 2 networks share.                          *)
(***************************************************************************)
EXTENDS ConnTable, FiniteSetTheorems, TLAPS

\* The steps both networks are built from, as they are in ConnTable.
TableStep(n, p) ==
    \/ ScanWorkHandler(n)
    \/ ConnectFailed(n)
    \/ DeviceFound(n, p)
    \/ LinkUp(n, p)
    \/ Connected(n, p)
    \/ ConnectedOverrun(n, p)

-----------------------------------------------------------------------------
(* Type correctness. *)

LEMMA TableInitType == TableInit => TableTypeOK
  BY RadioAssumption, PoolAssumption, TableAssumption, SMT
  DEF TableInit, LinkInit, TableTypeOK, LinkTypeOK, Slot, EndState, Undefined

\* The budget of failures is not exceeded.
LEMMA FaultType ==
    ASSUME LinkTypeOK, NEW kind, Fault(kind) \/ NoFault
    PROVE  faults' \in 0 .. MaxFaults
  BY PoolAssumption, SMT DEF LinkTypeOK, Fault, NoFault

\* The shared steps keep every variable in its type.
LEMMA TableStepType ==
    ASSUME TableTypeOK, NEW n \in Node, NEW p \in Node, TableStep(n, p)
    PROVE  TableTypeOK'
<1>boot. boot \in [Node -> {"off", "ready", "failed"}]
  BY DEF TableTypeOK, LinkTypeOK
<1>advertising. advertising \in [Node -> BOOLEAN]
  BY DEF TableTypeOK, LinkTypeOK
<1>scanning. scanning \in [Node -> BOOLEAN]
  BY DEF TableTypeOK, LinkTypeOK
<1>scan_work. scan_work \in [Node -> BOOLEAN]
  BY DEF TableTypeOK, LinkTypeOK
<1>initiating. initiating \in [Node -> Node \cup {NoPeer}]
  BY DEF TableTypeOK, LinkTypeOK
<1>ep. ep \in [Node -> [Node -> EndState]]
  BY DEF TableTypeOK, LinkTypeOK
<1>disc. disc \in [Node -> [Node -> BOOLEAN]]
  BY DEF TableTypeOK, LinkTypeOK
<1>default_connections. default_connections \in [Node -> [Slot -> Node \cup {NoPeer}]]
  BY DEF TableTypeOK, LinkTypeOK
<1>num_connections. num_connections \in [Node -> 0 .. MAX_CONNECTIONS]
  BY DEF TableTypeOK, LinkTypeOK
<1>char_handles. char_handles \in [Node -> [Slot -> BOOLEAN]]
  BY DEF TableTypeOK, LinkTypeOK
<1>halted. halted \in [Node -> Undefined]
  BY DEF TableTypeOK, LinkTypeOK
<1>2. CASE ScanWorkHandler(n)
  <2>1. faults' \in 0 .. MaxFaults
    BY <1>2, FaultType DEF TableTypeOK, ScanWorkHandler, ScanStarts, ScanRefused
  <2>2. scanning' \in [Node -> BOOLEAN]
    BY <1>2, <1>scanning DEF ScanWorkHandler, ScanStarts, ScanRefused
  <2>3. scan_work' \in [Node -> BOOLEAN]
    BY <1>2, <1>scan_work DEF ScanWorkHandler, ScanStarts, ScanRefused, Retry, Schedule
  <2> QED
    BY <1>2, <2>1, <2>2, <2>3
    DEF TableTypeOK, LinkTypeOK, ScanWorkHandler, ScanStarts, ScanRefused
<1>3. CASE ConnectFailed(n)
  <2>1. faults' \in 0 .. MaxFaults
    BY <1>3, FaultType DEF TableTypeOK, ConnectFailed, CreateFails
  <2>2. initiating' \in [Node -> Node \cup {NoPeer}]
    BY <1>3, <1>initiating DEF ConnectFailed, CreateFails
  <2> QED
    BY <1>3, <2>1, <2>2
    DEF TableTypeOK, LinkTypeOK, ConnectFailed, CreateFails, tableVars
<1>4. CASE DeviceFound(n, p)
  <2>1. faults' \in 0 .. MaxFaults
    BY <1>4, FaultType DEF TableTypeOK, DeviceFound
  <2>2. scanning' \in [Node -> BOOLEAN]
    BY <1>4, <1>scanning DEF DeviceFound
  <2>3. scan_work' \in [Node -> BOOLEAN]
    BY <1>4, <1>scan_work DEF DeviceFound, Schedule
  <2>4. initiating' \in [Node -> Node \cup {NoPeer}]
    BY <1>4, <1>initiating DEF DeviceFound
  <2> QED
    BY <1>4, <2>1, <2>2, <2>3, <2>4
    DEF TableTypeOK, LinkTypeOK, DeviceFound
<1>5. CASE LinkUp(n, p)
  <2>1. initiating' \in [Node -> Node \cup {NoPeer}]
    BY <1>5, <1>initiating DEF LinkUp, Establish
  <2>2. ep' \in [Node -> [Node -> EndState]]
    BY <1>5, <1>ep DEF LinkUp, Establish, EndState
  <2> QED
    BY <1>5, <2>1, <2>2
    DEF TableTypeOK, LinkTypeOK, LinkUp, Establish, tableVars
<1>6. CASE Connected(n, p)
  <2>1. faults' \in 0 .. MaxFaults
    BY <1>6, FaultType DEF TableTypeOK, Connected
  <2>2. default_connections' \in [Node -> [Slot -> Node \cup {NoPeer}]]
    <3>1. default_connections' = [default_connections EXCEPT
                                     ![n][NextSlot(n)] = p]
      BY <1>6 DEF Connected
    <3> QED
      BY <3>1, <1>default_connections
  <2>3. char_handles' \in [Node -> [Slot -> BOOLEAN]]
    <3>1. char_handles' = [char_handles EXCEPT ![n][NextSlot(n)] = FALSE]
      BY <1>6 DEF Connected
    <3> QED
      BY <3>1, <1>char_handles
  <2>4. num_connections' \in [Node -> 0 .. MAX_CONNECTIONS]
    <3>1. num_connections[n] # MAX_CONNECTIONS
      BY <1>6 DEF Connected, TableFull
    <3>2. num_connections[n] + 1 \in 0 .. MAX_CONNECTIONS
      BY <3>1, <1>num_connections, TableAssumption
    <3>3. num_connections' = [num_connections EXCEPT ![n] = @ + 1]
      BY <1>6 DEF Connected
    <3> QED
      BY <3>2, <3>3, <1>num_connections
  <2>5. ep' \in [Node -> [Node -> EndState]]
    <3>1. \/ ep' = [ep EXCEPT ![n][p] = "up"]
          \/ ep' = [ep EXCEPT ![n][p] = "closing"]
      BY <1>6 DEF Connected
    <3> QED
      BY <3>1, <1>ep DEF EndState
  <2>6. disc' \in [Node -> [Node -> BOOLEAN]]
    <3>1. CASE disc' = [disc EXCEPT ![n][p] = TRUE]
      BY <3>1, <1>disc
    <3>2. CASE UNCHANGED disc
      BY <3>2, <1>disc
    <3> QED
      BY <1>6, <3>1, <3>2 DEF Connected
  <2> QED
    BY <1>6, <2>1, <2>2, <2>3, <2>4, <2>5, <2>6
    DEF TableTypeOK, LinkTypeOK, Connected
<1>7. CASE ConnectedOverrun(n, p)
  <2>1. ep' \in [Node -> [Node -> EndState]]
    BY <1>7, <1>ep DEF ConnectedOverrun, EndState
  <2>2. halted' \in [Node -> Undefined]
    BY <1>7, <1>halted DEF ConnectedOverrun, Undefined
  <2> QED
    BY <1>7, <2>1, <2>2
    DEF TableTypeOK, LinkTypeOK, ConnectedOverrun
<1> QED
  BY <1>2, <1>3, <1>4, <1>5, <1>6, <1>7 DEF TableStep

LEMMA KeepHandleType ==
    ASSUME TableTypeOK, NEW n \in Node, NEW p \in Node, KeepHandle(n, p)
    PROVE  char_handles' \in [Node -> [Slot -> BOOLEAN]]
<1>1. char_handles \in [Node -> [Slot -> BOOLEAN]]
  BY DEF TableTypeOK
<1> QED
  BY <1>1 DEF KeepHandle

LEMMA LinkClosedType ==
    ASSUME TableTypeOK, NEW n \in Node, NEW p \in Node, LinkClosed(n, p)
    PROVE  /\ faults' \in 0 .. MaxFaults
           /\ ep' \in [Node -> [Node -> EndState]]
           /\ disc' \in [Node -> [Node -> BOOLEAN]]
           /\ default_connections' \in [Node -> [Slot -> Node \cup {NoPeer}]]
<1>1. /\ ep \in [Node -> [Node -> EndState]]
      /\ disc \in [Node -> [Node -> BOOLEAN]]
      /\ default_connections \in [Node -> [Slot -> Node \cup {NoPeer}]]
  BY DEF TableTypeOK, LinkTypeOK
<1>2. faults' \in 0 .. MaxFaults
  BY FaultType DEF TableTypeOK, LinkClosed, Close
<1>3. ep' \in [Node -> [Node -> EndState]]
  BY <1>1 DEF LinkClosed, Close, EndState
<1>4. disc' \in [Node -> [Node -> BOOLEAN]]
  BY <1>1 DEF LinkClosed, Close
<1>5. default_connections' \in [Node -> [Slot -> Node \cup {NoPeer}]]
  BY <1>1 DEF LinkClosed
<1> QED
  BY <1>2, <1>3, <1>4, <1>5

-----------------------------------------------------------------------------
(* The connection table. *)

\* Discovery is outstanding on links that are up only.
DiscoversOnUp == \A n, p \in Node : disc[n][p] => ep[n][p] = "up"

\* The part of the networks' inductive invariants that is about the table.
TableInv == TableTypeOK /\ TableMatchesLinks /\ DiscoversOnUp

LEMMA TableInvInit == TableInit => TableInv
<1> SUFFICES ASSUME TableInit PROVE TableInv
  OBVIOUS
<1>1. TableTypeOK
  BY TableInitType
<1>2. ASSUME NEW n \in Node, NEW p \in Node
      PROVE  Slots(n, p) = {} /\ p \notin Live(n) /\ ~disc[n][p]
  BY <1>2, RadioAssumption DEF TableInit, LinkInit, Slots, Slot, Live
<1> QED
  BY <1>1, <1>2 DEF TableInv, TableMatchesLinks, DiscoversOnUp

\* A step that leaves the table alone and only sets links up, or ends
\* outstanding discoveries.
Untouched ==
    /\ UNCHANGED <<default_connections, num_connections, halted>>
    /\ \A n, p \in Node : ep'[n][p] # ep[n][p] =>
           ep[n][p] = "down" /\ ep'[n][p] = "pending"
    /\ \A n, p \in Node : disc'[n][p] => disc[n][p]

LEMMA UntouchedKeeps ==
    ASSUME TableInv, TableTypeOK', Untouched
    PROVE  TableInv'
<1>1. ASSUME NEW n \in Node, NEW p \in Node
      PROVE  /\ Slots(n, p)' = Slots(n, p)
             /\ (p \in Live(n))' <=> p \in Live(n)
             /\ Runs(n)' <=> Runs(n)
             /\ ep[n][p] = "up" => ep'[n][p] = "up"
  BY <1>1 DEF Untouched, Slots, Live, Runs
<1>2. TableMatchesLinks'
  BY <1>1 DEF TableInv, TableMatchesLinks
<1>3. DiscoversOnUp'
  BY <1>1 DEF TableInv, DiscoversOnUp, Untouched
<1> QED
  BY <1>2, <1>3 DEF TableInv

\* connected() puts a link that is in no slot in a slot that is not in use, and
\* leaves every other link where it is.
LEMMA ConnectedSlots ==
    ASSUME TableInv, NEW n \in Node, NEW p \in Node, Connected(n, p)
    PROVE  /\ num_connections[n] \in Slot
           /\ Slots(n, p)' = {num_connections[n]}
           /\ char_handles' =
                  [char_handles EXCEPT ![n][num_connections[n]] = FALSE]
           /\ \A m, q \in Node : <<m, q>> # <<n, p>> =>
                  /\ Slots(m, q)' = Slots(m, q)
                  /\ num_connections[n] \notin Slots(n, q)
           /\ \A m, q \in Node : <<m, q>> # <<n, p>> =>
                  ep'[m][q] = ep[m][q] /\ disc'[m][q] = disc[m][q]
           /\ ep'[n][p] \in {"up", "closing"}
           /\ disc'[n][p] => ep'[n][p] = "up"
<1>1. /\ default_connections' =
             [default_connections EXCEPT ![n][num_connections[n]] = p]
      /\ char_handles' = [char_handles EXCEPT ![n][num_connections[n]] = FALSE]
      /\ num_connections' = [num_connections EXCEPT ![n] = @ + 1]
      /\ UNCHANGED halted
      /\ ep[n][p] = "pending"
  BY DEF Connected, NextSlot
<1>2. /\ num_connections \in [Node -> 0 .. MAX_CONNECTIONS]
      /\ default_connections \in [Node -> [Slot -> Node \cup {NoPeer}]]
      /\ char_handles \in [Node -> [Slot -> BOOLEAN]]
      /\ ep \in [Node -> [Node -> EndState]]
      /\ disc \in [Node -> [Node -> BOOLEAN]]
  BY DEF TableInv, TableTypeOK, LinkTypeOK
<1>3. num_connections[n] \in Slot
  BY <1>2, TableAssumption DEF Connected, TableFull, Slot
<1>4. \/ /\ ep' = [ep EXCEPT ![n][p] = "up"]
         /\ disc' = [disc EXCEPT ![n][p] = TRUE]
      \/ /\ ep' = [ep EXCEPT ![n][p] = "closing"]
         /\ disc' = disc
  BY DEF Connected
<1>5. /\ ep'[n][p] \in {"up", "closing"}
      /\ disc'[n][p] => ep'[n][p] = "up"
      /\ \A m, q \in Node : <<m, q>> # <<n, p>> =>
             ep'[m][q] = ep[m][q] /\ disc'[m][q] = disc[m][q]
  BY <1>1, <1>2, <1>4 DEF TableInv, DiscoversOnUp
<1>6. Slots(n, p) = {}
  BY <1>1 DEF TableInv, TableMatchesLinks, Live
<1>a. \A m \in Node, i \in Slot :
          /\ default_connections'[m][i] =
                 IF m = n /\ i = num_connections[n] THEN p
                 ELSE default_connections[m][i]
          /\ i < num_connections'[m] <=>
                 i < num_connections[m] \/ (m = n /\ i = num_connections[n])
  <2>1. ASSUME NEW m \in Node, NEW i \in Slot
        PROVE  default_connections'[m][i] =
                   IF m = n /\ i = num_connections[n] THEN p
                   ELSE default_connections[m][i]
    BY <2>1, <1>1, <1>2, <1>3
  <2>2. ASSUME NEW m \in Node, NEW i \in Slot
        PROVE  i < num_connections'[m] <=>
                   i < num_connections[m] \/ (m = n /\ i = num_connections[n])
    <3>1. num_connections'[m] =
              IF m = n THEN num_connections[n] + 1 ELSE num_connections[m]
      BY <2>2, <1>1, <1>2
    <3>2. i \in Nat /\ num_connections[m] \in Nat /\ num_connections[n] \in Nat
      BY <2>2, <1>2, TableAssumption DEF Slot
    <3> QED
      BY <3>1, <3>2
  <2> QED
    BY <2>1, <2>2
<1>7. Slots(n, p)' = {num_connections[n]}
  BY <1>3, <1>6, <1>a DEF Slots
<1>8. ASSUME NEW m \in Node, NEW q \in Node, <<m, q>> # <<n, p>>
      PROVE  Slots(m, q)' = Slots(m, q)
  <2>1. ASSUME NEW i \in Slot
        PROVE  (i < num_connections'[m] /\ default_connections'[m][i] = q)
                   <=> (i < num_connections[m] /\ default_connections[m][i] = q)
    <3>1. CASE m = n /\ i = num_connections[n]
      BY <3>1, <1>2, <1>8, <1>a, <1>3
    <3>2. CASE ~(m = n /\ i = num_connections[n])
      BY <3>2, <1>a
    <3> QED
      BY <3>1, <3>2
  <2> QED
    BY <2>1 DEF Slots
<1>9. \A q \in Node : num_connections[n] \notin Slots(n, q)
  BY <1>2 DEF Slots
<1> QED
  BY <1>1, <1>3, <1>5, <1>7, <1>8, <1>9

LEMMA ConnectedKeeps ==
    ASSUME TableInv, TableTypeOK', NEW n \in Node, NEW p \in Node,
           Connected(n, p)
    PROVE  TableInv'
<1>0. \A m, q \in Node : <<m, q>> # <<n, p>> =>
          ep'[m][q] = ep[m][q] /\ disc'[m][q] = disc[m][q]
  BY ConnectedSlots
<1>1. TableMatchesLinks'
  <2> SUFFICES ASSUME NEW m \in Node, NEW q \in Node
      PROVE  /\ Slots(m, q)' # {} => (q \in Live(m))'
             /\ (q \in Live(m))' => Slots(m, q)' # {} \/ ~Runs(m)'
             /\ \A i, j \in Slots(m, q)' : i = j
    BY DEF TableMatchesLinks
  <2>1. CASE <<m, q>> = <<n, p>>
    BY <2>1, ConnectedSlots DEF Live
  <2>2. CASE <<m, q>> # <<n, p>>
    <3>1. Slots(m, q)' = Slots(m, q) /\ ep'[m][q] = ep[m][q]
      BY <2>2, ConnectedSlots
    <3>2. UNCHANGED halted
      BY DEF Connected
    <3> QED
      BY <3>1, <3>2 DEF TableInv, TableMatchesLinks, Live, Runs
  <2> QED
    BY <2>1, <2>2
<1>2. DiscoversOnUp'
  <2> SUFFICES ASSUME NEW m \in Node, NEW q \in Node, disc'[m][q]
      PROVE  ep'[m][q] = "up"
    BY DEF DiscoversOnUp
  <2>1. CASE <<m, q>> = <<n, p>>
    BY <2>1, ConnectedSlots
  <2>2. CASE <<m, q>> # <<n, p>>
    <3>1. ep'[m][q] = ep[m][q] /\ disc'[m][q] = disc[m][q]
      BY <2>2, <1>0
    <3> QED
      BY <3>1 DEF TableInv, DiscoversOnUp
  <2> QED
    BY <2>1, <2>2
<1> QED
  BY <1>1, <1>2 DEF TableInv

\* A board that runs past the end of the table halts; its table stays.
LEMMA OverrunKeeps ==
    ASSUME TableInv, TableTypeOK', NEW n \in Node, NEW p \in Node,
           ConnectedOverrun(n, p)
    PROVE  TableInv'
<1>1. /\ ep' = [ep EXCEPT ![n][p] = "up"]
      /\ ep[n][p] = "pending"
      /\ UNCHANGED <<default_connections, num_connections, char_handles, disc>>
      /\ halted' = [halted EXCEPT ![n] = "overrun"]
  BY DEF ConnectedOverrun
<1>2. /\ ep \in [Node -> [Node -> EndState]]
      /\ halted \in [Node -> Undefined]
  BY DEF TableInv, TableTypeOK, LinkTypeOK
<1>3. /\ ep'[n][p] = "up" /\ ~Runs(n)'
      /\ \A m, q \in Node : <<m, q>> # <<n, p>> => ep'[m][q] = ep[m][q]
      /\ \A m \in Node : m # n => Runs(m)' = Runs(m)
  BY <1>1, <1>2 DEF Runs
<1>4. ASSUME NEW m \in Node, NEW q \in Node
      PROVE  /\ Slots(m, q)' = Slots(m, q)
             /\ q \in Live(m) => (q \in Live(m))'
             /\ (q \in Live(m))' => q \in Live(m) \/ m = n
  BY <1>1, <1>3 DEF Slots, Live
<1>5. TableMatchesLinks'
  BY <1>3, <1>4 DEF TableInv, TableMatchesLinks
<1>6. DiscoversOnUp'
  BY <1>1, <1>3 DEF TableInv, DiscoversOnUp
<1> QED
  BY <1>5, <1>6 DEF TableInv

\* disconnected() empties the only slot of the link and no other.
LEMMA LinkClosedSlots ==
    ASSUME TableInv, NEW n \in Node, NEW p \in Node, LinkClosed(n, p)
    PROVE  /\ Slots(n, p)' = {}
           /\ ep'[n][p] = "down" /\ ~disc'[n][p]
           /\ \A m, q \in Node : <<m, q>> # <<n, p>> =>
                  /\ Slots(m, q)' = Slots(m, q)
                  /\ ep'[m][q] = ep[m][q]
                  /\ disc'[m][q] = disc[m][q]
<1>1. /\ default_connections' = [default_connections EXCEPT ![n] =
             [i \in Slot |-> IF i \in FirstSlot(n, p) THEN NoPeer ELSE @[i]]]
      /\ ep' = [ep EXCEPT ![n][p] = "down"]
      /\ disc' = [disc EXCEPT ![n][p] = FALSE]
      /\ UNCHANGED <<num_connections, char_handles, halted>>
  BY DEF LinkClosed, Close
<1>2. /\ default_connections \in [Node -> [Slot -> Node \cup {NoPeer}]]
      /\ num_connections \in [Node -> 0 .. MAX_CONNECTIONS]
      /\ ep \in [Node -> [Node -> EndState]]
      /\ disc \in [Node -> [Node -> BOOLEAN]]
  BY DEF TableInv, TableTypeOK, LinkTypeOK
<1>3. FirstSlot(n, p) = Slots(n, p)
  <2>1. \A i \in Slots(n, p) : i \in 0 .. MAX_CONNECTIONS - 1
    BY DEF Slots, Slot
  <2> QED
    BY <2>1, TableAssumption DEF FirstSlot, TableInv, TableMatchesLinks
<1>4. Slots(n, p)' = {}
  BY <1>1, <1>2, <1>3, RadioAssumption DEF Slots
<1>5. ASSUME NEW m \in Node, NEW q \in Node, <<m, q>> # <<n, p>>
      PROVE  /\ Slots(m, q)' = Slots(m, q)
             /\ ep'[m][q] = ep[m][q]
             /\ disc'[m][q] = disc[m][q]
  <2>1. CASE m # n
    BY <2>1, <1>1, <1>2 DEF Slots
  <2>2. CASE m = n
    <3>1. \A i \in Slot : default_connections'[n][i] = q
                              <=> default_connections[n][i] = q
      BY <2>2, <1>1, <1>2, <1>3, <1>5, RadioAssumption DEF Slots
    <3> QED
      BY <2>2, <3>1, <1>1, <1>2, <1>5 DEF Slots
  <2> QED
    BY <2>1, <2>2
<1>6. ep'[n][p] = "down" /\ ~disc'[n][p]
  BY <1>1, <1>2
<1> QED
  BY <1>4, <1>5, <1>6

LEMMA LinkClosedKeeps ==
    ASSUME TableInv, TableTypeOK', NEW n \in Node, NEW p \in Node,
           LinkClosed(n, p)
    PROVE  TableInv'
<1>0. \A m, q \in Node : <<m, q>> # <<n, p>> =>
          ep'[m][q] = ep[m][q] /\ disc'[m][q] = disc[m][q]
  BY LinkClosedSlots
<1>1. TableMatchesLinks'
  <2> SUFFICES ASSUME NEW m \in Node, NEW q \in Node
      PROVE  /\ Slots(m, q)' # {} => (q \in Live(m))'
             /\ (q \in Live(m))' => Slots(m, q)' # {} \/ ~Runs(m)'
             /\ \A i, j \in Slots(m, q)' : i = j
    BY DEF TableMatchesLinks
  <2>1. CASE <<m, q>> = <<n, p>>
    BY <2>1, LinkClosedSlots DEF Live
  <2>2. CASE <<m, q>> # <<n, p>>
    <3>1. Slots(m, q)' = Slots(m, q) /\ ep'[m][q] = ep[m][q]
      BY <2>2, LinkClosedSlots
    <3>2. UNCHANGED halted
      BY DEF LinkClosed
    <3> QED
      BY <3>1, <3>2 DEF TableInv, TableMatchesLinks, Live, Runs
  <2> QED
    BY <2>1, <2>2
<1>2. DiscoversOnUp'
  <2> SUFFICES ASSUME NEW m \in Node, NEW q \in Node, disc'[m][q]
      PROVE  ep'[m][q] = "up"
    BY DEF DiscoversOnUp
  <2>1. <<m, q>> # <<n, p>>
    BY LinkClosedSlots
  <2>2. ep'[m][q] = ep[m][q] /\ disc'[m][q] = disc[m][q]
    BY <2>1, <1>0
  <2> QED
    BY <2>2 DEF TableInv, DiscoversOnUp
<1> QED
  BY <1>1, <1>2 DEF TableInv

\* The controllers set a link up that neither host had.
LEMMA LinkUpUntouched ==
    ASSUME TableTypeOK, NEW n \in Node, NEW p \in Node, LinkUp(n, p)
    PROVE  Untouched
<1>type. ep \in [Node -> [Node -> EndState]]
  BY DEF TableTypeOK, LinkTypeOK
<1>1. /\ UNCHANGED <<default_connections, num_connections, char_handles,
                     halted, disc>>
      /\ ep' = [ep EXCEPT ![n][p] = "pending", ![p][n] = "pending"]
      /\ ep[n][p] = "down" /\ ep[p][n] = "down"
  BY DEF LinkUp, Establish, Accepts, tableVars
<1>2. \A m, q \in Node : ep'[m][q] # ep[m][q] =>
          ep[m][q] = "down" /\ ep'[m][q] = "pending"
  <2>1. ASSUME NEW m \in Node, NEW q \in Node
        PROVE  ep'[m][q] = IF (m = n /\ q = p) \/ (m = p /\ q = n)
                           THEN "pending" ELSE ep[m][q]
    <3>1. CASE m = n /\ n = p
      BY <3>1, <1>1, <1>type
    <3>2. CASE m = n /\ n # p
      BY <3>2, <1>1, <1>type
    <3>3. CASE m # n /\ m = p
      BY <3>3, <1>1, <1>type
    <3>4. CASE m # n /\ m # p
      BY <3>4, <1>1, <1>type
    <3> QED
      BY <3>1, <3>2, <3>3, <3>4
  <2>2. ep[n][p] = "down" /\ ep[p][n] = "down"
    BY <1>1
  <2>3. ASSUME NEW m \in Node, NEW q \in Node, ep'[m][q] # ep[m][q]
        PROVE  ep[m][q] = "down" /\ ep'[m][q] = "pending"
    <3>1. (m = n /\ q = p) \/ (m = p /\ q = n)
      BY <2>1, <2>3
    <3> QED
      BY <3>1, <2>1, <2>2
  <2> QED
    BY <2>3
<1> QED
  BY <1>1, <1>2 DEF Untouched

LEMMA TableStepKeeps ==
    ASSUME TableInv, NEW n \in Node, NEW p \in Node, TableStep(n, p)
    PROVE  TableInv'
<1>1. TableTypeOK'
  BY TableStepType DEF TableInv
<1>2. CASE ScanWorkHandler(n)
  BY <1>1, <1>2, UntouchedKeeps
  DEF Untouched, ScanWorkHandler, ScanStarts, ScanRefused
<1>3. CASE ConnectFailed(n)
  BY <1>1, <1>3, UntouchedKeeps
  DEF Untouched, ConnectFailed, CreateFails, tableVars
<1>4. CASE DeviceFound(n, p)
  BY <1>1, <1>4, UntouchedKeeps DEF Untouched, DeviceFound
<1>5. CASE LinkUp(n, p)
  BY <1>1, <1>5, UntouchedKeeps, LinkUpUntouched DEF TableInv
<1>6. CASE Connected(n, p)
  BY <1>1, <1>6, ConnectedKeeps
<1>7. CASE ConnectedOverrun(n, p)
  BY <1>1, <1>7, OverrunKeeps
<1> QED
  BY <1>2, <1>3, <1>4, <1>5, <1>6, <1>7 DEF TableStep

-----------------------------------------------------------------------------
(* What the dead slots of the table cost. *)

\* The ends of links that n's host still has or is about to be told of, and
\* that are gone: each closes without another failure.
Gone(n) == {p \in Node : ep[n][p] # "down" /\ LinkGone(n, p)}

\* DeadSlotsPaid, with the slots that are about to die paid for in advance.
PaidFor(n) ==
    num_connections[n] + Cardinality(Gone(n)) <= Cardinality(Live(n)) + faults
Paid == \A n \in Node : PaidFor(n)

LEMMA PaidSuffices == TableTypeOK /\ Paid => DeadSlotsPaid
<1> SUFFICES ASSUME TableTypeOK, Paid, NEW n \in Node
             PROVE  num_connections[n] <= Cardinality(Live(n)) + faults
  BY DEF DeadSlotsPaid
<1>1. IsFiniteSet(Gone(n)) /\ IsFiniteSet(Live(n))
  BY FiniteNodes, FS_Subset DEF Gone, Live
<1>2. Cardinality(Gone(n)) \in Nat /\ Cardinality(Live(n)) \in Nat
  BY <1>1, FS_CardinalityType
<1>3. num_connections[n] \in Nat /\ faults \in Nat
  BY TableAssumption, PoolAssumption, SMT DEF TableTypeOK, LinkTypeOK
<1> QED
  BY <1>2, <1>3, SMT DEF Paid, PaidFor

\* What the terms of PaidFor are.
LEMMA PaidTypes ==
    ASSUME TableTypeOK, NEW n \in Node
    PROVE  /\ num_connections[n] \in Nat /\ faults \in Nat
           /\ IsFiniteSet(Gone(n)) /\ IsFiniteSet(Live(n))
           /\ Cardinality(Gone(n)) \in Nat /\ Cardinality(Live(n)) \in Nat
<1>1. IsFiniteSet(Gone(n)) /\ IsFiniteSet(Live(n))
  BY FiniteNodes, FS_Subset DEF Gone, Live
<1>2. num_connections[n] \in Nat /\ faults \in Nat
  BY TableAssumption, PoolAssumption, SMT DEF TableTypeOK, LinkTypeOK
<1> QED
  BY <1>1, <1>2, FS_CardinalityType

\* Nothing happens to n, or one more of its links is gone at the price of a
\* failure.
LEMMA PaidElsewhere ==
    ASSUME TableTypeOK, NEW m \in Node, NEW q, PaidFor(m),
           num_connections'[m] = num_connections[m], Live(m)' = Live(m),
           \/ Gone(m)' = Gone(m) /\ faults' \in {faults, faults + 1}
           \/ Gone(m)' = Gone(m) \cup {q} /\ faults' = faults + 1
    PROVE  PaidFor(m)'
<1>1. /\ num_connections[m] \in Nat /\ faults \in Nat
      /\ IsFiniteSet(Gone(m))
      /\ Cardinality(Gone(m)) \in Nat /\ Cardinality(Live(m)) \in Nat
  BY PaidTypes
<1>2. \/ Gone(m)' = Gone(m) /\ faults' \in {faults, faults + 1}
      \/ /\ faults' = faults + 1
         /\ Cardinality(Gone(m)') \in {Cardinality(Gone(m)), Cardinality(Gone(m)) + 1}
  BY <1>1, FS_AddElement
<1>3. /\ num_connections[m] + Cardinality(Gone(m)) <= Cardinality(Live(m)) + faults
      /\ Cardinality(Live(m)') = Cardinality(Live(m))
  BY DEF PaidFor
<1>4. num_connections'[m] + Cardinality(Gone(m)') <= Cardinality(Live(m)') + faults'
  BY <1>1, <1>2, <1>3, SMT
<1> QED
  BY <1>4 DEF PaidFor

\* The steps that only set links up.
LEMMA UntouchedPaid ==
    ASSUME TableTypeOK, Paid, UNCHANGED <<num_connections, ep>>,
           faults' \in {faults, faults + 1}
    PROVE  Paid'
<1> SUFFICES ASSUME NEW m \in Node PROVE PaidFor(m)'
  BY DEF Paid
<1>1. Live(m)' = Live(m) /\ Gone(m)' = Gone(m)
  BY DEF Live, Gone, LinkGone
<1> QED
  BY <1>1, PaidElsewhere DEF Paid

LEMMA FaultOne ==
    ASSUME NEW kind, Fault(kind) \/ NoFault
    PROVE  faults' \in {faults, faults + 1}
  BY DEF Fault, NoFault

\* A new link is not gone.
LEMMA LinkUpGone ==
    ASSUME TableTypeOK, NEW n \in Node, NEW p \in Node, LinkUp(n, p)
    PROVE  \A m \in Node : Live(m)' = Live(m) /\ Gone(m)' = Gone(m)
<1>1. /\ ep' = [ep EXCEPT ![n][p] = "pending", ![p][n] = "pending"]
      /\ ep[n][p] = "down" /\ ep[p][n] = "down"
      /\ UNCHANGED <<num_connections, faults>>
      /\ ep \in [Node -> [Node -> EndState]]
  BY DEF LinkUp, Establish, Accepts, tableVars, TableTypeOK, LinkTypeOK
<1>2. \A m, q \in Node :
          ep'[m][q] = IF (m = n /\ q = p) \/ (m = p /\ q = n)
                      THEN "pending" ELSE ep[m][q]
  <2> SUFFICES ASSUME NEW m \in Node, NEW q \in Node
               PROVE  ep'[m][q] = IF (m = n /\ q = p) \/ (m = p /\ q = n)
                                  THEN "pending" ELSE ep[m][q]
    OBVIOUS
  <2>1. CASE m = n /\ n = p
    BY <2>1, <1>1
  <2>2. CASE m = n /\ n # p
    BY <2>2, <1>1
  <2>3. CASE m # n /\ m = p
    BY <2>3, <1>1
  <2>4. CASE m # n /\ m # p
    BY <2>4, <1>1
  <2> QED
    BY <2>1, <2>2, <2>3, <2>4
<1> SUFFICES ASSUME NEW m \in Node
             PROVE  Live(m)' = Live(m) /\ Gone(m)' = Gone(m)
  OBVIOUS
<1>3. ASSUME NEW q \in Node
      PROVE  /\ q \in Live(m)' <=> q \in Live(m)
             /\ q \in Gone(m)' <=> q \in Gone(m)
  <2>1. CASE (m = n /\ q = p) \/ (m = p /\ q = n)
    <3>1. /\ ep[m][q] = "down" /\ ep'[m][q] = "pending" /\ ep'[q][m] = "pending"
      BY <1>1, <1>2, <2>1
    <3> QED
      BY <3>1 DEF Live, Gone, LinkGone
  <2>2. CASE ~((m = n /\ q = p) \/ (m = p /\ q = n))
    <3>1. ep'[m][q] = ep[m][q] /\ ep'[q][m] = ep[q][m]
      BY <1>2, <2>2
    <3> QED
      BY <3>1 DEF Live, Gone, LinkGone
  <2> QED
    BY <2>1, <2>2
<1>4. /\ Live(m) \subseteq Node /\ Live(m)' \subseteq Node
      /\ Gone(m) \subseteq Node /\ Gone(m)' \subseteq Node
  BY DEF Live, Gone
<1> QED
  BY <1>3, <1>4

LEMMA LinkUpPaid ==
    ASSUME TableTypeOK, Paid, NEW n \in Node, NEW p \in Node, LinkUp(n, p)
    PROVE  Paid'
<1>1. UNCHANGED <<num_connections, faults>>
  BY DEF LinkUp, Establish, tableVars
<1> QED
  BY <1>1, LinkUpGone, PaidElsewhere DEF Paid

\* A new link is gone at once when discovery does not start, at the price of a
\* failure.
LEMMA ConnectedGone ==
    ASSUME TableTypeOK, NEW n \in Node, NEW p \in Node,
           Connected(n, p) \/ ConnectedOverrun(n, p)
    PROVE  \/ faults' = faults /\ \A m \in Node : Gone(m)' = Gone(m)
           \/ /\ faults' = faults + 1
              /\ \A m \in Node :
                    \/ Gone(m)' = Gone(m)
                    \/ m = n /\ Gone(m)' = Gone(m) \cup {p}
                    \/ m = p /\ Gone(m)' = Gone(m) \cup {n}
<1>1. /\ ep[n][p] = "pending" /\ ep \in [Node -> [Node -> EndState]]
      /\ \/ ep' = [ep EXCEPT ![n][p] = "up"] /\ faults' = faults
         \/ ep' = [ep EXCEPT ![n][p] = "closing"] /\ faults' = faults + 1
  BY DEF Connected, ConnectedOverrun, TableTypeOK, LinkTypeOK, Fault, NoFault
<1>2. \A m, q \in Node : <<m, q>> # <<n, p>> => ep'[m][q] = ep[m][q]
  BY <1>1
<1>3. \/ ep'[n][p] = "up" /\ faults' = faults
      \/ ep'[n][p] = "closing" /\ faults' = faults + 1
  BY <1>1
<1>4. CASE ep'[n][p] = "up" /\ faults' = faults
  <2>1. \A m, q \in Node :
           /\ ep'[m][q] = "down" <=> ep[m][q] = "down"
           /\ ep'[m][q] = "closing" <=> ep[m][q] = "closing"
    BY <1>1, <1>2, <1>4
  <2> QED
    BY <1>4, <2>1 DEF Gone, LinkGone
<1>5. CASE ep'[n][p] = "closing" /\ faults' = faults + 1
  <2>1. \A m, q \in Node :
           /\ ep'[m][q] = "down" <=> ep[m][q] = "down"
           /\ <<m, q>> # <<n, p>> =>
                  (ep'[m][q] = "closing" <=> ep[m][q] = "closing")
    BY <1>1, <1>2, <1>5
  <2>2. Gone(n)' = Gone(n) \cup {p}
    <3>1. ASSUME NEW q \in Node
          PROVE  q \in Gone(n)' <=> q \in Gone(n) \/ q = p
      <4>1. CASE q = p
        BY <1>1, <1>5, <4>1 DEF Gone, LinkGone
      <4>2. CASE q # p
        BY <2>1, <4>2 DEF Gone, LinkGone
      <4> QED
        BY <4>1, <4>2
    <3>2. Gone(n)' \subseteq Node /\ Gone(n) \subseteq Node
      BY DEF Gone
    <3> QED
      BY <3>1, <3>2
  <2>3. p # n => Gone(p)' = Gone(p) \/ Gone(p)' = Gone(p) \cup {n}
    <3>1. ASSUME NEW q \in Node, p # n, q # n
          PROVE  q \in Gone(p)' <=> q \in Gone(p)
      BY <2>1, <3>1 DEF Gone, LinkGone
    <3>2. Gone(p)' \subseteq Node /\ Gone(p) \subseteq Node
      BY DEF Gone
    <3>3. p # n => (n \in Gone(p) => n \in Gone(p)')
      BY <2>1, <1>5 DEF Gone, LinkGone
    <3> QED
      BY <3>1, <3>2, <3>3
  <2>4. \A m \in Node : m # n /\ m # p => Gone(m)' = Gone(m)
    BY <2>1 DEF Gone, LinkGone
  <2> QED
    BY <1>5, <2>2, <2>3, <2>4
<1> QED
  BY <1>3, <1>4, <1>5

\* The callback of a new link: a slot more and a link more.  When discovery
\* does not start, the link is about to go, and that was a failure.
LEMMA ConnectedPaid ==
    ASSUME TableTypeOK, Paid, NEW n \in Node, NEW p \in Node,
           Connected(n, p) \/ ConnectedOverrun(n, p)
    PROVE  Paid'
<1>1. /\ ep[n][p] = "pending" /\ ep \in [Node -> [Node -> EndState]]
      /\ num_connections \in [Node -> 0 .. MAX_CONNECTIONS]
      /\ \/ num_connections' = num_connections
         \/ num_connections' = [num_connections EXCEPT ![n] = @ + 1]
      /\ \/ ep' = [ep EXCEPT ![n][p] = "up"] /\ faults' = faults
         \/ ep' = [ep EXCEPT ![n][p] = "closing"] /\ faults' = faults + 1
  BY DEF Connected, ConnectedOverrun, TableTypeOK, LinkTypeOK, Fault, NoFault
<1>2. \A m, q \in Node : <<m, q>> # <<n, p>> => ep'[m][q] = ep[m][q]
  BY <1>1
<1>3. \/ ep'[n][p] = "up" /\ faults' = faults
      \/ ep'[n][p] = "closing" /\ faults' = faults + 1
  BY <1>1
<1>4. Live(n)' = Live(n) \cup {p} /\ p \notin Live(n)
  BY <1>1, <1>2, <1>3 DEF Live
<1>5. \A m \in Node : m # n => Live(m)' = Live(m)
  BY <1>2 DEF Live
<1>6. \/ faults' = faults /\ \A m \in Node : Gone(m)' = Gone(m)
      \/ /\ faults' = faults + 1
         /\ \A m \in Node :
               \/ Gone(m)' = Gone(m)
               \/ m = n /\ Gone(m)' = Gone(m) \cup {p}
               \/ m = p /\ Gone(m)' = Gone(m) \cup {n}
  BY ConnectedGone
<1>7. PaidFor(n)'
  <2>1. /\ num_connections[n] \in Nat /\ faults \in Nat
        /\ IsFiniteSet(Gone(n)) /\ IsFiniteSet(Live(n))
        /\ Cardinality(Gone(n)) \in Nat /\ Cardinality(Live(n)) \in Nat
    BY PaidTypes
  <2>2. Cardinality(Live(n)') = Cardinality(Live(n)) + 1
    BY <1>4, <2>1, FS_AddElement
  <2>3. \/ faults' = faults /\ Cardinality(Gone(n)') = Cardinality(Gone(n))
        \/ /\ faults' = faults + 1
           /\ Cardinality(Gone(n)')
                  \in {Cardinality(Gone(n)), Cardinality(Gone(n)) + 1}
    BY <1>6, <2>1, FS_AddElement
  <2>4. num_connections'[n] \in {num_connections[n], num_connections[n] + 1}
    BY <1>1
  <2>5. num_connections[n] + Cardinality(Gone(n)) <= Cardinality(Live(n)) + faults
    BY DEF Paid, PaidFor
  <2>6. num_connections'[n] + Cardinality(Gone(n)')
            <= Cardinality(Live(n)') + faults'
    BY <2>1, <2>2, <2>3, <2>4, <2>5, SMT
  <2> QED
    BY <2>6 DEF PaidFor
<1>8. ASSUME NEW m \in Node, m # n PROVE PaidFor(m)'
  <2>1. num_connections'[m] = num_connections[m] /\ Live(m)' = Live(m)
    BY <1>1, <1>5, <1>8
  <2>2. \/ Gone(m)' = Gone(m) /\ faults' \in {faults, faults + 1}
        \/ Gone(m)' = Gone(m) \cup {n} /\ faults' = faults + 1
    BY <1>6, <1>8
  <2> QED
    BY <2>1, <2>2, PaidElsewhere DEF Paid
<1> QED
  BY <1>7, <1>8 DEF Paid

\* A link that closes at one end was gone, and is no longer about to close, or
\* its other end is gone now.
LEMMA LinkClosedGone ==
    ASSUME TableTypeOK, NEW n \in Node, NEW p \in Node, LinkClosed(n, p)
    PROVE  /\ Gone(n)' = Gone(n) \ {p}
           /\ p \in Gone(n) <=> LinkGone(n, p)
           /\ \A m \in Node : m # n =>
                 \/ Gone(m)' = Gone(m)
                 \/ Gone(m)' = Gone(m) \cup {n} /\ m = p /\ ~LinkGone(n, p)
<1>1. /\ ep[n][p] \in {"up", "closing"} /\ ep \in [Node -> [Node -> EndState]]
      /\ ep' = [ep EXCEPT ![n][p] = "down"]
  BY DEF LinkClosed, Close, TableTypeOK, LinkTypeOK
<1>2. /\ \A m, q \in Node : <<m, q>> # <<n, p>> => ep'[m][q] = ep[m][q]
      /\ ep'[n][p] = "down"
  BY <1>1
<1>3. Gone(n)' = Gone(n) \ {p}
  <2>1. ASSUME NEW q \in Node, q # p
        PROVE  q \in Gone(n)' <=> q \in Gone(n)
    <3>1. ep'[n][q] = ep[n][q]
      BY <1>2, <2>1
    <3>2. ep'[q][n] = ep[q][n] \/ (q = n /\ p = n)
      BY <1>2
    <3> QED
      BY <2>1, <3>1, <3>2 DEF Gone, LinkGone
  <2>2. p \notin Gone(n)'
    BY <1>2 DEF Gone
  <2>3. Gone(n)' \subseteq Node /\ Gone(n) \subseteq Node
    BY DEF Gone
  <2> QED
    BY <2>1, <2>2, <2>3
<1>4. p \in Gone(n) <=> LinkGone(n, p)
  BY <1>1 DEF Gone
<1>5. ASSUME NEW m \in Node, m # n
      PROVE  \/ Gone(m)' = Gone(m)
             \/ Gone(m)' = Gone(m) \cup {n} /\ m = p /\ ~LinkGone(n, p)
  <2>1. \A q \in Node : q # n \/ m # p =>
            (q \in Gone(m)' <=> q \in Gone(m))
    BY <1>2, <1>5 DEF Gone, LinkGone
  <2>2. m = p => (n \in Gone(m) => n \in Gone(m)')
    BY <1>2, <1>5 DEF Gone, LinkGone
  <2>3. m = p /\ LinkGone(n, p) => (n \in Gone(m)' => n \in Gone(m))
    BY <1>1, <1>2, <1>5 DEF Gone, LinkGone
  <2>4. Gone(m)' \subseteq Node /\ Gone(m) \subseteq Node
    BY DEF Gone
  <2> QED
    BY <2>1, <2>2, <2>3, <2>4
<1> QED
  BY <1>3, <1>4, <1>5

\* It was paid for already, or it is lost now, which is a failure.
LEMMA LinkClosedPaid ==
    ASSUME TableTypeOK, Paid, NEW n \in Node, NEW p \in Node, LinkClosed(n, p)
    PROVE  Paid'
<1>1. /\ ep[n][p] \in {"up", "closing"} /\ ep \in [Node -> [Node -> EndState]]
      /\ ep' = [ep EXCEPT ![n][p] = "down"]
      /\ UNCHANGED num_connections
      /\ \/ LinkGone(n, p) /\ faults' = faults
         \/ ~LinkGone(n, p) /\ faults' = faults + 1
  BY DEF LinkClosed, Close, TableTypeOK, LinkTypeOK, Fault, NoFault
<1>2. /\ \A m, q \in Node : <<m, q>> # <<n, p>> => ep'[m][q] = ep[m][q]
      /\ ep'[n][p] = "down"
  BY <1>1
<1>3. Live(n)' = Live(n) \ {p} /\ p \in Live(n)
  BY <1>1, <1>2 DEF Live
<1>4. \A m \in Node : m # n => Live(m)' = Live(m)
  BY <1>2 DEF Live
<1>5. Gone(n)' = Gone(n) \ {p} /\ (p \in Gone(n) <=> LinkGone(n, p))
  BY LinkClosedGone
<1>6. PaidFor(n)'
  <2>1. /\ num_connections[n] \in Nat /\ faults \in Nat
        /\ IsFiniteSet(Gone(n)) /\ IsFiniteSet(Live(n))
        /\ Cardinality(Gone(n)) \in Nat /\ Cardinality(Live(n)) \in Nat
    BY PaidTypes
  <2>2. Cardinality(Live(n)') = Cardinality(Live(n)) - 1
    BY <1>3, <2>1, FS_RemoveElement
  <2>3. \/ /\ faults' = faults
           /\ Cardinality(Gone(n)') = Cardinality(Gone(n)) - 1
        \/ /\ faults' = faults + 1
           /\ Cardinality(Gone(n)') = Cardinality(Gone(n))
    BY <1>1, <1>5, <2>1, FS_RemoveElement
  <2>4. num_connections[n] + Cardinality(Gone(n)) <= Cardinality(Live(n)) + faults
    BY DEF Paid, PaidFor
  <2>5. num_connections'[n] + Cardinality(Gone(n)')
            <= Cardinality(Live(n)') + faults'
    BY <1>1, <2>1, <2>2, <2>3, <2>4, SMT
  <2> QED
    BY <2>5 DEF PaidFor
<1>7. ASSUME NEW m \in Node, m # n PROVE PaidFor(m)'
  <2>1. \/ Gone(m)' = Gone(m)
        \/ Gone(m)' = Gone(m) \cup {n} /\ ~LinkGone(n, p)
    BY <1>7, LinkClosedGone
  <2> QED
    BY <1>1, <1>4, <1>7, <2>1, PaidElsewhere DEF Paid
<1> QED
  BY <1>6, <1>7 DEF Paid

LEMMA TableStepPaid ==
    ASSUME TableTypeOK, Paid, NEW n \in Node, NEW p \in Node, TableStep(n, p)
    PROVE  Paid'
<1>1. CASE ScanWorkHandler(n)
  BY <1>1, UntouchedPaid, FaultOne
  DEF ScanWorkHandler, ScanStarts, ScanRefused
<1>2. CASE ConnectFailed(n)
  BY <1>2, UntouchedPaid, FaultOne DEF ConnectFailed, CreateFails, tableVars
<1>3. CASE DeviceFound(n, p)
  BY <1>3, UntouchedPaid, FaultOne DEF DeviceFound
<1> QED
  BY <1>1, <1>2, <1>3, LinkUpPaid, ConnectedPaid DEF TableStep

LEMMA PaidInit == TableInit => Paid
<1> SUFFICES ASSUME TableInit, NEW n \in Node PROVE PaidFor(n)
  BY DEF Paid
<1>1. Gone(n) = {} /\ Live(n) = {} /\ num_connections[n] = 0 /\ faults = 0
  BY DEF TableInit, LinkInit, Gone, Live
<1> QED
  BY <1>1, FS_EmptySet, SMT DEF PaidFor

-----------------------------------------------------------------------------
(* What every step keeps: slots are counted up only and a slot in use is only *)
(* ever emptied, never given to another link, and *)
(* links join boards in range. *)

SlotsKept ==
    /\ \A n \in Node : /\ num_connections[n] \in Nat
                       /\ num_connections'[n] \in Nat
                       /\ num_connections[n] <= num_connections'[n]
    /\ \A n \in Node, i \in Slot :
           default_connections'[n][i] # default_connections[n][i] =>
               \/ i >= num_connections[n]
               \/ default_connections'[n][i] = NoPeer

LEMMA SlotCounts ==
    ASSUME TableTypeOK
    PROVE  /\ \A n \in Node : num_connections[n] \in Nat
           /\ \A k \in Nat : k <= k /\ k + 1 \in Nat /\ k <= k + 1
  BY TableAssumption, SMT DEF TableTypeOK

LEMMA UntouchedSlots ==
    ASSUME TableTypeOK, UNCHANGED <<default_connections, num_connections>>
    PROVE  SlotsKept
  BY SlotCounts DEF SlotsKept

LEMMA TableStepSlots ==
    ASSUME TableTypeOK, NEW n \in Node, NEW p \in Node, TableStep(n, p)
    PROVE  SlotsKept
<1>1. CASE UNCHANGED <<default_connections, num_connections>>
  BY <1>1, UntouchedSlots
<1>2. CASE Connected(n, p)
  <2>1. /\ default_connections' =
               [default_connections EXCEPT ![n][num_connections[n]] = p]
        /\ num_connections' = [num_connections EXCEPT ![n] = @ + 1]
    BY <1>2 DEF Connected, NextSlot
  <2>2. /\ default_connections \in [Node -> [Slot -> Node \cup {NoPeer}]]
        /\ num_connections \in [Node -> 0 .. MAX_CONNECTIONS]
    BY DEF TableTypeOK
  <2>3. \A m \in Node : num_connections'[m] = num_connections[m]
                        \/ num_connections'[m] = num_connections[m] + 1
    BY <2>1, <2>2
  <2>4. ASSUME NEW m \in Node, NEW i \in Slot,
               default_connections'[m][i] # default_connections[m][i]
        PROVE  i = num_connections[m]
    BY <2>1, <2>2, <2>4
  <2> QED
    BY <2>3, <2>4, SlotCounts DEF SlotsKept
<1> QED
  BY <1>1, <1>2
  DEF TableStep, ScanWorkHandler, ConnectFailed, DeviceFound, LinkUp,
      ConnectedOverrun, tableVars

LEMMA LinkClosedKeepsSlots ==
    ASSUME TableTypeOK, NEW n \in Node, NEW p \in Node, LinkClosed(n, p)
    PROVE  SlotsKept
<1>1. /\ default_connections' = [default_connections EXCEPT ![n] =
             [i \in Slot |-> IF i \in FirstSlot(n, p) THEN NoPeer ELSE @[i]]]
      /\ UNCHANGED num_connections
  BY DEF LinkClosed
<1>2. default_connections \in [Node -> [Slot -> Node \cup {NoPeer}]]
  BY DEF TableTypeOK
<1> QED
  BY <1>1, <1>2, SlotCounts DEF SlotsKept

InRange ==
    \A n, p \in Node :
        ep[n][p] # "down" \/ initiating[n] = p => p \in Neighbours[n]

LEMMA TableStepInRange ==
    ASSUME LinkTypeOK, InRange, NEW n \in Node, NEW p \in Node,
           TableStep(n, p)
    PROVE  InRange'
<1>0. /\ initiating \in [Node -> Node \cup {NoPeer}] /\ NoPeer \notin Node
      /\ ep \in [Node -> [Node -> EndState]]
      /\ \A a, b \in Node : a \in Neighbours[b] <=> b \in Neighbours[a]
  BY RadioAssumption DEF LinkTypeOK
<1>1. CASE /\ UNCHANGED ep
           /\ initiating' \in {initiating, [initiating EXCEPT ![n] = NoPeer]}
  BY <1>0, <1>1 DEF InRange
<1>2. CASE DeviceFound(n, p)
  <2>1. /\ UNCHANGED ep /\ p \in Neighbours[n]
        /\ initiating' \in {initiating, [initiating EXCEPT ![n] = p]}
    BY <1>2 DEF DeviceFound
  <2> QED
    BY <1>0, <2>1 DEF InRange
<1>3. CASE LinkUp(n, p)
  <2>1. /\ initiating[n] = p
        /\ initiating' = [initiating EXCEPT ![n] = NoPeer]
        /\ ep' = [ep EXCEPT ![n][p] = "pending", ![p][n] = "pending"]
    BY <1>3 DEF LinkUp, Establish
  <2>2. p \in Neighbours[n] /\ n \in Neighbours[p]
    BY <1>0, <2>1 DEF InRange
  <2>3. \A a, b \in Node : \/ ep'[a][b] = ep[a][b]
                           \/ a = n /\ b = p
                           \/ a = p /\ b = n
    BY <1>0, <2>1
  <2>4. \A a, b \in Node : initiating'[a] = b => initiating[a] = b
    BY <1>0, <2>1
  <2> QED
    BY <2>2, <2>3, <2>4 DEF InRange
<1>4. CASE Connected(n, p) \/ ConnectedOverrun(n, p)
  <2>1. /\ UNCHANGED initiating /\ ep[n][p] = "pending"
        /\ ep' \in {[ep EXCEPT ![n][p] = "up"], [ep EXCEPT ![n][p] = "closing"]}
    BY <1>4 DEF Connected, ConnectedOverrun
  <2>2. \A a, b \in Node : \/ ep'[a][b] = ep[a][b]
                           \/ a = n /\ b = p
    BY <1>0, <2>1
  <2> QED
    BY <2>1, <2>2 DEF InRange
<1> QED
  BY <1>1, <1>2, <1>3, <1>4
  DEF TableStep, ScanWorkHandler, ConnectFailed, CreateFails

LEMMA LinkClosedInRange ==
    ASSUME LinkTypeOK, InRange, NEW n \in Node, NEW p \in Node,
           LinkClosed(n, p)
    PROVE  InRange'
<1>1. ep' = [ep EXCEPT ![n][p] = "down"] /\ UNCHANGED initiating
  BY DEF LinkClosed, Close
<1>2. \A a, b \in Node : ep'[a][b] # "down" => ep[a][b] # "down"
  BY <1>1 DEF LinkTypeOK
<1> QED
  BY <1>1, <1>2 DEF InRange

LEMMA InRangeInit == TableInit => InRange
  BY RadioAssumption DEF TableInit, LinkInit, InRange
=============================================================================

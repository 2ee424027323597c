--------------------------- MODULE TempLog_proof ---------------------------
(***************************************************************************)
(* Proofs about the central of Lab 1 (TempCentral), for any finite number  *)
(* of peripherals in any radio range and any number of failures, and about *)
(* the central with its log (TempLog): printing disturbs neither links nor *)
(* reads, so what is proved of TempCentral holds of the logged system.     *)
(* That the pointer of the central is right rests on CONFIG_BT_MAX_CONN    *)
(* being 1: a second link would make disconnected() clear the pointer of   *)
(* the other one.  Last, the pairing of SEND and RECV lines by the script  *)
(* (PortScanner): what it calls lost, for logs of any length.              *)
(***************************************************************************)
EXTENDS TempLog, FiniteSetTheorems, WellFoundedInduction, TLAPS

-----------------------------------------------------------------------------
(* The central and its peripherals. *)

\* The central has at most one link or connection attempt.
OneLink ==
    /\ \A p, q \in Node :
          ep[Central][p] # "down" /\ ep[Central][q] # "down" => p = q
    /\ initiating[Central] # NoPeer => \A p \in Node : ep[Central][p] = "down"

LinkedRight ==
    /\ ep[Central][Central] = "down"
    /\ default_conn # Central
    /\ PointerTracksLink

CentralInv == LinkTypeOK /\ OneLink /\ LinkedRight

\* A free connection object means that there is no link at all.
LEMMA FreeMeansUnlinked ==
    ASSUME LinkTypeOK, NEW p \in Node, CanCreate(Central, p)
    PROVE  \A q \in Node : ep[Central][q] = "down"
<1> DEFINE used == {q \in Node : ep[Central][q] # "down"}
<1>1. IsFiniteSet(used)
    BY FiniteNodes, FS_Subset
<1>2. Cardinality(used) \in Nat
    BY <1>1, FS_CardinalityType
<1>3. Cardinality(used) < 1
    BY <1>2, OneConnection DEF CanCreate, InUse
<1>4. used = {}
    BY <1>1, <1>2, <1>3, FS_EmptySet
<1> QED
    BY <1>4
-----------------------------------------------------------------------------
(* Type correctness of the stack. *)

LEMMA FaultType ==
    ASSUME LinkTypeOK, NEW kind, Fault(kind) \/ NoFault
    PROVE  faults' \in 0 .. MaxFaults
    BY PoolAssumption, SMT DEF LinkTypeOK, Fault, NoFault

LEMMA LinkTypeStep ==
    LinkTypeOK /\ [TempNext]_tempVars => LinkTypeOK'
<1> SUFFICES ASSUME LinkTypeOK, [TempNext]_tempVars PROVE LinkTypeOK'
    OBVIOUS
<1>f. \/ \E kind : Fault(kind)
      \/ NoFault
      => faults' \in 0 .. MaxFaults
    BY FaultType
<1>c. Central \in Node /\ Peripheral \subseteq Node
    BY CentralAssumption DEF Peripheral
<1> USE DEF LinkTypeOK, EndState
<1>1. CASE CentralReady
    <2>1. faults' \in 0 .. MaxFaults
        BY <1>f, <1>1 DEF CentralReady, ScanRefused
    <2>2. boot' \in [Node -> {"off", "ready", "failed"}]
        BY <1>1, <1>c DEF CentralReady
    <2>3. scanning' \in [Node -> BOOLEAN]
        BY <1>1, <1>c DEF CentralReady, ScanOn, ScanRefused
    <2> QED
        BY <1>1, <2>1, <2>2, <2>3 DEF CentralReady
<1>2. ASSUME NEW p \in Peripheral, PeripheralReady(p) PROVE LinkTypeOK'
    <2>1. faults' \in 0 .. MaxFaults
        BY <1>f, <1>2 DEF PeripheralReady
    <2>2. boot' \in [Node -> {"off", "ready", "failed"}]
        BY <1>2, <1>c DEF PeripheralReady
    <2>3. advertising' \in [Node -> BOOLEAN]
        BY <1>2, <1>c DEF PeripheralReady
    <2> QED
        BY <1>2, <2>1, <2>2, <2>3 DEF PeripheralReady
<1>3. ASSUME NEW p \in Peripheral, DeviceFound(p) PROVE LinkTypeOK'
    <2>1. faults' \in 0 .. MaxFaults
        BY <1>f, <1>3 DEF DeviceFound, ScanRefused
    <2>2. scanning' \in [Node -> BOOLEAN]
        BY <1>3, <1>c DEF DeviceFound, ScanOn, ScanRefused
    <2>3. initiating' \in [Node -> Node \cup {NoPeer}]
        BY <1>3, <1>c DEF DeviceFound
    <2> QED
        BY <1>3, <2>1, <2>2, <2>3 DEF DeviceFound
<1>4. ASSUME NEW p \in Peripheral, LinkUp(p) PROVE LinkTypeOK'
    <2>1. ep' \in [Node -> [Node -> EndState]]
        BY <1>4, <1>c DEF LinkUp, Establish
    <2>2. initiating' \in [Node -> Node \cup {NoPeer}]
        BY <1>4, <1>c DEF LinkUp, Establish
    <2> QED
        BY <1>4, <2>1, <2>2 DEF LinkUp, Establish
<1>5. CASE ConnectFailed
    <2>1. faults' \in 0 .. MaxFaults
        BY <1>f, <1>5 DEF ConnectFailed, ScanRefused
    <2>2. scanning' \in [Node -> BOOLEAN]
        BY <1>5, <1>c DEF ConnectFailed, ScanOn, ScanRefused
    <2>3. initiating' \in [Node -> Node \cup {NoPeer}]
        BY <1>5, <1>c DEF ConnectFailed
    <2> QED
        BY <1>5, <2>1, <2>2, <2>3 DEF ConnectFailed
<1>6. ASSUME NEW p \in Peripheral, Connected(p) PROVE LinkTypeOK'
    <2>1. faults' \in 0 .. MaxFaults
        BY <1>f, <1>6 DEF Connected
    <2>2. scanning' \in [Node -> BOOLEAN]
        BY <1>6, <1>c DEF Connected, ScanOn
    <2>3. ep' \in [Node -> [Node -> EndState]]
        <3>1. \/ ep' = [ep EXCEPT ![Central][p] = "up"]
              \/ ep' = [ep EXCEPT ![Central][p] = "closing"]
            BY <1>6 DEF Connected
        <3>2. CASE ep' = [ep EXCEPT ![Central][p] = "up"]
            BY <3>2, <1>c
        <3>3. CASE ep' = [ep EXCEPT ![Central][p] = "closing"]
            BY <3>3, <1>c
        <3> QED
            BY <3>1, <3>2, <3>3
    <2>4. disc' \in [Node -> [Node -> BOOLEAN]]
        <3>1. \/ disc' = [disc EXCEPT ![Central][p] = TRUE]
              \/ disc' = disc
            BY <1>6 DEF Connected
        <3>2. CASE disc' = [disc EXCEPT ![Central][p] = TRUE]
            BY <3>2, <1>c
        <3> QED
            BY <3>1, <3>2
    <2> QED
        BY <1>6, <2>1, <2>2, <2>3, <2>4 DEF Connected
<1>7. ASSUME NEW p \in Peripheral, PeripheralLinked(p) PROVE LinkTypeOK'
    BY <1>7, <1>c DEF PeripheralLinked
<1>8. ASSUME NEW p \in Peripheral, PeripheralUnlinked(p) PROVE LinkTypeOK'
    <2>1. faults' \in 0 .. MaxFaults
        BY <1>f, <1>8 DEF PeripheralUnlinked, Close
    <2>2. ep' \in [Node -> [Node -> EndState]]
        BY <1>8, <1>c DEF PeripheralUnlinked, Close
    <2>3. disc' \in [Node -> [Node -> BOOLEAN]]
        BY <1>8, <1>c DEF PeripheralUnlinked, Close
    <2> QED
        BY <1>8, <2>1, <2>2, <2>3 DEF PeripheralUnlinked, Close
<1>9. ASSUME NEW p \in Peripheral, Discovered(p) PROVE LinkTypeOK'
    BY <1>9, <1>c DEF Discovered
<1>10. ASSUME NEW p \in Peripheral, DiscoverFailed(p) PROVE LinkTypeOK'
    <2>1. faults' \in 0 .. MaxFaults
        BY <1>f, <1>10 DEF DiscoverFailed
    <2>2. disc' \in [Node -> [Node -> BOOLEAN]]
        BY <1>10, <1>c DEF DiscoverFailed
    <2> QED
        BY <1>10, <2>1, <2>2 DEF DiscoverFailed
<1>11. ASSUME NEW p \in Peripheral, Disconnected(p) PROVE LinkTypeOK'
    <2>1. faults' \in 0 .. MaxFaults
        BY <1>f, <1>11 DEF Disconnected, ScanRefused
    <2>2. scanning' \in [Node -> BOOLEAN]
        BY <1>11, <1>c DEF Disconnected, ScanOn, ScanRefused
    <2>3. ep' \in [Node -> [Node -> EndState]]
        BY <1>11, <1>c DEF Disconnected
    <2>4. disc' \in [Node -> [Node -> BOOLEAN]]
        BY <1>11, <1>c DEF Disconnected
    <2> QED
        BY <1>11, <2>1, <2>2, <2>3, <2>4 DEF Disconnected
<1>12. CASE PerformRead \/ ReadError
    <2>1. faults' \in 0 .. MaxFaults
        BY <1>f, <1>12 DEF PerformRead, ReadError
    <2> QED
        BY <1>12, <2>1 DEF PerformRead, ReadError
<1>13. CASE UNCHANGED linkVars
    BY <1>13 DEF linkVars
<1> QED
    BY <1>1, <1>2, <1>3, <1>4, <1>5, <1>6, <1>7, <1>8, <1>9, <1>10, <1>11,
       <1>12, <1>13 DEF TempNext, TempQuiet, LinkStep, tempVars, ReadDue,
       Answer, ReadTemperature, Update
-----------------------------------------------------------------------------
(* The pointer of the central. *)

LEMMA CentralStep == CentralInv /\ [TempNext]_tempVars => OneLink' /\ LinkedRight'
<1> SUFFICES ASSUME CentralInv, [TempNext]_tempVars
             PROVE  OneLink' /\ LinkedRight'
    OBVIOUS
<1>c. Central \in Node /\ Peripheral \subseteq Node /\ Central \notin Peripheral
    BY CentralAssumption DEF Peripheral
<1>n. NoPeer \notin Node
    BY RadioAssumption
<1> USE DEF CentralInv, OneLink, LinkedRight, PointerTracksLink, LinkTypeOK, EndState
<1>1. ASSUME NEW p \in Peripheral, DeviceFound(p) PROVE OneLink' /\ LinkedRight'
    <2>1. CASE CanCreate(Central, p)
        <3>1. \A q \in Node : ep[Central][q] = "down"
            BY <1>c, <2>1, FreeMeansUnlinked
        <3> QED
            BY <1>1, <1>c, <3>1 DEF DeviceFound, centralVars
    <2>2. CASE ~CanCreate(Central, p)
        BY <1>1, <1>c, <2>2 DEF DeviceFound, centralVars
    <2> QED
        BY <2>1, <2>2
<1>2. ASSUME NEW p \in Peripheral, LinkUp(p) PROVE OneLink' /\ LinkedRight'
    <2>1. \A q \in Node : ep[Central][q] = "down"
        BY <1>2, <1>c, <1>n DEF LinkUp, Establish
    <2>2. \A q \in Node : ep'[Central][q] = IF q = p THEN "pending" ELSE "down"
        BY <1>2, <1>c, <2>1 DEF LinkUp, Establish
    <2>3. initiating'[Central] = NoPeer
        BY <1>2, <1>c DEF LinkUp, Establish
    <2>4. default_conn' = default_conn
        BY <1>2 DEF LinkUp, centralVars
    <2> QED
        BY <1>c, <2>1, <2>2, <2>3, <2>4
<1>3. CASE ConnectFailed
    <2>1. \A q \in Node : ep'[Central][q] = "down"
        BY <1>3, <1>c DEF ConnectFailed
    <2>2. default_conn' = NoPeer /\ initiating'[Central] = NoPeer
        BY <1>3, <1>c DEF ConnectFailed
    <2> QED
        BY <1>c, <1>n, <2>1, <2>2
<1>4. ASSUME NEW p \in Peripheral, Connected(p) PROVE OneLink' /\ LinkedRight'
    <2>1. \A q \in Node : q # p => ep[Central][q] = "down"
        BY <1>4, <1>c DEF Connected
    <2>2. /\ ep'[Central][p] \in {"up", "closing"}
          /\ \A q \in Node : q # p => ep'[Central][q] = "down"
        BY <1>4, <1>c, <2>1 DEF Connected
    <2>3. default_conn' = p /\ initiating'[Central] = initiating[Central]
        BY <1>4 DEF Connected
    <2>4. initiating[Central] = NoPeer
        BY <1>4, <1>c DEF Connected
    <2> QED
        BY <1>c, <2>2, <2>3, <2>4
<1>5. ASSUME NEW p \in Peripheral, PeripheralLinked(p) \/ PeripheralUnlinked(p)
      PROVE  OneLink' /\ LinkedRight'
    <2>1. ep'[Central] = ep[Central]
        BY <1>5, <1>c DEF PeripheralLinked, PeripheralUnlinked, Close
    <2>2. UNCHANGED <<initiating, default_conn>>
        BY <1>5 DEF PeripheralLinked, PeripheralUnlinked, Close, centralVars
    <2> QED
        BY <2>1, <2>2
<1>6. ASSUME NEW p \in Peripheral, Disconnected(p) PROVE OneLink' /\ LinkedRight'
    <2>1. \A q \in Node : q # p => ep[Central][q] = "down"
        BY <1>6, <1>c DEF Disconnected
    <2>2. \A q \in Node : ep'[Central][q] = "down"
        BY <1>6, <1>c, <2>1 DEF Disconnected
    <2>3. default_conn' = NoPeer
        BY <1>6 DEF Disconnected, PointerDropped
    <2> QED
        BY <1>c, <1>n, <2>2, <2>3
<1>7. CASE UNCHANGED <<ep, initiating, default_conn>>
    BY <1>7
<1> QED
    BY <1>1, <1>2, <1>3, <1>4, <1>5, <1>6, <1>7 DEF TempNext, TempQuiet,
       LinkStep, tempVars, linkVars, centralVars, CentralReady, PeripheralReady,
       Discovered, DiscoverFailed, ReadDue, PerformRead, ReadError, Answer,
       ReadTemperature, Update

\* The inductive invariant of the central.
THEOREM CentralInvariant == TempSpec => []CentralInv
<1>1. TempInit => CentralInv
    <2> SUFFICES ASSUME TempInit PROVE CentralInv
        OBVIOUS
    <2>1. LinkTypeOK
        BY PoolAssumption DEF TempInit, LinkInit, LinkTypeOK, EndState
    <2>2. OneLink /\ LinkedRight
        BY CentralAssumption, RadioAssumption DEF TempInit, LinkInit, OneLink,
           LinkedRight, PointerTracksLink, Peripheral
    <2> QED
        BY <2>1, <2>2 DEF CentralInv
<1>2. CentralInv /\ [TempNext]_tempVars => CentralInv'
    BY LinkTypeStep, CentralStep DEF CentralInv
<1> QED
    BY <1>1, <1>2, PTL DEF TempSpec

\* default_conn leads to the one link whose connected callback has run: with
\* one connection, disconnected() is right to look at no argument.
THEOREM PointerRight == TempSpec => []PointerTracksLink
<1>1. CentralInv => PointerTracksLink
    BY DEF CentralInv, LinkedRight
<1> QED
    BY <1>1, CentralInvariant, PTL

-----------------------------------------------------------------------------
(* Type correctness of the central and its peripherals. *)

CentralTypeOK ==
    /\ default_conn \in Node \cup {NoPeer}
    /\ temp_char_handle \in BOOLEAN
    /\ read_work \in {"idle", "delayed", "due"}

ReadsTypeOK ==
    /\ reads \in Seq(Value \cup {Asked})
    /\ current \in [Peripheral -> Value]

LEMMA CentralTypeStep ==
    ASSUME CentralTypeOK, [TempNext]_tempVars PROVE CentralTypeOK'
<1>c. Peripheral \subseteq Node
    BY DEF Peripheral
<1> USE DEF CentralTypeOK
<1>1. CASE ConnectFailed
    BY <1>1 DEF ConnectFailed
<1>2. ASSUME NEW p \in Peripheral, Connected(p) PROVE CentralTypeOK'
    BY <1>2, <1>c DEF Connected
<1>3. ASSUME NEW p \in Peripheral, Discovered(p) PROVE CentralTypeOK'
    BY <1>3 DEF Discovered, ReadSoon
<1>4. ASSUME NEW p \in Peripheral, Disconnected(p) PROVE CentralTypeOK'
    BY <1>4 DEF Disconnected, PointerDropped
<1>5. CASE ReadDue
    BY <1>5 DEF ReadDue
<1>6. CASE PerformRead
    BY <1>6 DEF PerformRead, ReadLater
<1>7. CASE UNCHANGED <<default_conn, temp_char_handle, read_work>>
    BY <1>7
<1> QED
    BY <1>1, <1>2, <1>3, <1>4, <1>5, <1>6, <1>7 DEF TempNext, TempQuiet,
       LinkStep, tempVars, centralVars, CentralReady, PeripheralReady,
       DeviceFound, LinkUp, PeripheralLinked, PeripheralUnlinked,
       DiscoverFailed, ReadError, Answer, ReadTemperature, Update

LEMMA ReadsTypeStep ==
    ASSUME ReadsTypeOK, [TempNext]_tempVars PROVE ReadsTypeOK'
<1> USE DEF ReadsTypeOK
<1>1. CASE PerformRead
    <2>1. reads' = reads \/ reads' = Append(reads, Asked)
        BY <1>1 DEF PerformRead
    <2>2. reads' \in Seq(Value \cup {Asked})
        BY <2>1
    <2> QED
        BY <1>1, <2>2 DEF PerformRead
<1>2. CASE ReadError \/ ReadTemperature
    <2>1. reads # << >> /\ reads' = Tail(reads) /\ UNCHANGED current
        BY <1>2 DEF ReadError, ReadTemperature, DataRead
    <2> QED
        BY <2>1
<1>3. ASSUME NEW p \in Peripheral, Answer(p) PROVE ReadsTypeOK'
    <2>1. reads # << >> /\ reads' = <<current[p]>> \o Tail(reads)
          /\ UNCHANGED current
        BY <1>3 DEF Answer
    <2>2. <<current[p]>> \in Seq(Value \cup {Asked})
        OBVIOUS
    <2>3. Tail(reads) \in Seq(Value \cup {Asked})
        BY <2>1
    <2>4. reads' \in Seq(Value \cup {Asked})
        BY <2>1, <2>2, <2>3
    <2> QED
        BY <2>1, <2>4
<1>4. ASSUME NEW p \in Peripheral, NEW temp \in Temps, Update(p, temp)
      PROVE  ReadsTypeOK'
    <2>1. [id |-> current[p].id + 1, temp |-> temp] \in Value
        BY DEF Value
    <2>2. current' \in [Peripheral -> Value]
        BY <1>4, <2>1 DEF Update
    <2>3. UNCHANGED reads
        BY <1>4 DEF Update, centralVars
    <2> QED
        BY <2>2, <2>3
<1>5. ASSUME NEW p \in Peripheral, Disconnected(p) PROVE ReadsTypeOK'
    BY <1>5 DEF Disconnected
<1>6. CASE UNCHANGED <<reads, current>>
    BY <1>6
<1> QED
    BY <1>1, <1>2, <1>3, <1>4, <1>5, <1>6 DEF TempNext, TempQuiet, LinkStep,
       tempVars, centralVars, CentralReady, ConnectFailed, PeripheralReady,
       DeviceFound, LinkUp, Connected, PeripheralLinked, PeripheralUnlinked,
       Discovered, DiscoverFailed, ReadDue

LEMMA TempInitType == TempInit => TempTypeOK
<1> SUFFICES ASSUME TempInit PROVE TempTypeOK
    OBVIOUS
<1>1. LinkTypeOK
    BY PoolAssumption DEF TempInit, LinkInit, LinkTypeOK, EndState
<1>2. reads \in Seq(Value \cup {Asked})
    BY DEF TempInit
<1>3. current \in [Peripheral -> Value]
    BY DEF TempInit, Value
<1> QED
    BY <1>1, <1>2, <1>3 DEF TempInit, TempTypeOK

\* Every variable of the central and its peripherals keeps its type.
THEOREM TempTypes == TempSpec => []TempTypeOK
<1>1. TempInit => TempTypeOK
    BY TempInitType
<1>2. TempTypeOK /\ [TempNext]_tempVars => TempTypeOK'
    BY LinkTypeStep, CentralTypeStep, ReadsTypeStep
    DEF TempTypeOK, CentralTypeOK, ReadsTypeOK
<1> QED
    BY <1>1, <1>2, PTL DEF TempSpec
-----------------------------------------------------------------------------
(* What makes the central deaf. *)

\* A step in which something fails is counted.
LEMMA FailureCounted ==
    ASSUME LinkTypeOK, NEW kind, Fault(kind)
    PROVE  faults' > faults
    BY PoolAssumption, SMT DEF LinkTypeOK, Fault

LEMMA DeafStep ==
    ASSUME LinkTypeOK, [TempNext]_tempVars
    PROVE  Deaf' => Deaf \/ faults' > faults
<1> SUFFICES ASSUME Deaf', ~(faults' > faults) PROVE Deaf
    OBVIOUS
<1>f. /\ ~Fault("scan") /\ ~Fault("create") /\ ~Fault("connect")
      /\ ~Fault("discover") /\ ~Fault("loss") /\ ~Fault("boot")
    BY FailureCounted
<1>c. Central \in Node /\ Peripheral \subseteq Node /\ Central \notin Peripheral
    BY CentralAssumption DEF Peripheral
<1> USE DEF LinkTypeOK, EndState, Deaf
<1>1. CASE CentralReady
    <2>1. boot'[Central] = "ready" => scanning'[Central]
        BY <1>1, <1>f, <1>c DEF CentralReady, ScanOn, ScanRefused
    <2> QED
        BY <2>1
<1>2. ASSUME NEW p \in Peripheral, PeripheralReady(p) PROVE Deaf
    <2>1. boot'[Central] = boot[Central]
        BY <1>2, <1>c DEF PeripheralReady
    <2> QED
        BY <1>2, <2>1 DEF PeripheralReady
<1>3. ASSUME NEW p \in Peripheral, DeviceFound(p) PROVE Deaf
    <2>1. initiating'[Central] # NoPeer \/ scanning'[Central]
        BY <1>3, <1>c, <1>f, RadioAssumption DEF DeviceFound, ScanOn, ScanRefused
    <2> QED
        BY <2>1
<1>4. ASSUME NEW p \in Peripheral, LinkUp(p) PROVE Deaf
    <2>1. ep'[Central][p] = "pending"
        BY <1>4, <1>c DEF LinkUp, Establish
    <2> QED
        BY <2>1
<1>5. CASE ConnectFailed
    <2>1. scanning'[Central]
        BY <1>5, <1>c, <1>f DEF ConnectFailed, ScanOn, ScanRefused
    <2> QED
        BY <2>1
<1>6. ASSUME NEW p \in Peripheral, Connected(p) PROVE Deaf
    <2>1. ep'[Central][p] = "up"
        BY <1>6, <1>c, <1>f DEF Connected
    <2> QED
        BY <2>1
<1>7. ASSUME NEW p \in Peripheral, PeripheralLinked(p) \/ PeripheralUnlinked(p)
      PROVE  Deaf
    <2>1. ep'[Central] = ep[Central]
        BY <1>7, <1>c DEF PeripheralLinked, PeripheralUnlinked, Close
    <2>2. UNCHANGED <<boot, scanning, initiating>>
        BY <1>7 DEF PeripheralLinked, PeripheralUnlinked, Close
    <2> QED
        BY <2>1, <2>2
<1>8. ASSUME NEW p \in Peripheral, Disconnected(p) PROVE Deaf
    <2>1. scanning'[Central]
        BY <1>8, <1>c, <1>f DEF Disconnected, ScanOn, ScanRefused
    <2> QED
        BY <2>1
<1>9. CASE UNCHANGED <<boot, scanning, initiating, ep>>
    BY <1>9
<1> QED
    BY <1>1, <1>2, <1>3, <1>4, <1>5, <1>6, <1>7, <1>8, <1>9 DEF TempNext,
       TempQuiet, LinkStep, tempVars, linkVars, Discovered, DiscoverFailed,
       ReadDue, PerformRead, ReadError, Answer, ReadTemperature, Update

\* Only a failure stops the central for good: whatever the order in which links
\* come, go and fail to come, one of its callbacks has a scan running.
THEOREM DeafByFailure == TempSpec => DeafOnlyByFailure
<1>1. LinkTypeOK /\ [TempNext]_tempVars
          => [Deaf' => Deaf \/ faults' > faults]_tempVars
    BY DeafStep
<1>2. CentralInv => LinkTypeOK
    BY DEF CentralInv
<1> QED
    BY <1>1, <1>2, CentralInvariant, PTL DEF TempSpec, DeafOnlyByFailure

-----------------------------------------------------------------------------
(* The central with its log. *)

LEMMA StepIsTempStep == [Next]_vars => [TempNext]_tempVars
<1> SUFFICES ASSUME [Next]_vars PROVE [TempNext]_tempVars
    OBVIOUS
<1>1. ASSUME NEW p \in Peripheral, NEW temp \in Temps, Send(p, temp)
      PROVE  TempNext
    BY <1>1 DEF Send, TempNext
<1>2. CASE Recv
    BY <1>2 DEF Recv, TempNext
<1>3. CASE UNCHANGED vars
    BY <1>3 DEF vars
<1> QED
    BY <1>1, <1>2, <1>3 DEF Next, TempNext

\* The logged system implements the central's specification.
THEOREM ImplementsTemp == Spec => TempSpec
<1>1. Init => TempInit
    BY DEF Init
<1> QED
    BY <1>1, StepIsTempStep, PTL DEF Spec, TempSpec

\* A step adds to the log what it prints.
LEMMA TypeStep == TypeOK /\ [Next]_vars => TypeOK'
<1> SUFFICES ASSUME TypeOK, [Next]_vars PROVE TypeOK'
    OBVIOUS
<1>1. TempTypeOK'
    BY StepIsTempStep, LinkTypeStep, CentralTypeStep, ReadsTypeStep
    DEF TypeOK, TempTypeOK, CentralTypeOK, ReadsTypeOK
<1>2. Now \in Nat
    BY DEF Now, TypeOK
<1>3. ASSUME NEW p \in Peripheral, NEW temp \in Temps, Send(p, temp) PROVE TypeOK'
    <2>1. current'[p].id \in Nat
        BY <1>1 DEF TempTypeOK, Value
    <2>2. [id |-> current'[p].id, t |-> Now, temp |-> temp]
              \in [id : Nat, t : Time, temp : Temps]
        BY <1>2, <2>1 DEF Time
    <2>3. sent_packets' \in Seq([id : Nat, t : Time, temp : Temps])
        BY <1>3, <2>2 DEF Send, TypeOK
    <2> QED
        BY <1>1, <1>3, <2>3 DEF Send, TypeOK
<1>4. CASE Recv
    <2>1. reads # << >> /\ Head(reads) # Asked
        BY <1>4 DEF Recv, ReadTemperature, DataRead
    <2>2. Head(reads) \in Value
        BY <2>1 DEF TypeOK, TempTypeOK
    <2>3. [of |-> Head(reads).id, t |-> Now, temp |-> Head(reads).temp]
              \in [of : Nat, t : Time, temp : Temps \cup {Initial}]
        BY <1>2, <2>2 DEF Time, Value
    <2>4. recv_packets' \in Seq([of : Nat, t : Time, temp : Temps \cup {Initial}])
        <3> DEFINE Line == [of : Nat, t : Time, temp : Temps \cup {Initial}]
                   line == [of |-> Head(reads).id, t |-> Now,
                            temp |-> Head(reads).temp]
        <3>1. line \in Line /\ recv_packets \in Seq(Line)
            BY <2>3 DEF TypeOK
        <3>2. recv_packets' = recv_packets \/ recv_packets' = Append(recv_packets, line)
            BY <1>4 DEF Recv
        <3> HIDE DEF Line, line
        <3>3. recv_packets' \in Seq(Line)
            BY <3>1, <3>2
        <3> QED
            BY <3>3 DEF Line
    <2> QED
        BY <1>1, <1>4, <2>4 DEF Recv, TypeOK
<1>5. ASSUME UNCHANGED logVars, given_up' \in BOOLEAN PROVE TypeOK'
    BY <1>1, <1>5 DEF TypeOK, logVars
<1>6. given_up' \in BOOLEAN
    BY DEF Next, vars, TypeOK, Send, Recv
<1> QED
    BY <1>3, <1>4, <1>5, <1>6 DEF Next, vars

\* Every variable keeps its type; no line of the log is of a read that was not
\* answered.
THEOREM LogTypes == Spec => []TypeOK
<1>1. Init => TypeOK
    <2>1. TempInit => TempTypeOK
        BY TempInitType
    <2>2. \A S : << >> \in Seq(S)
        OBVIOUS
    <2> QED
        BY <2>1, <2>2, Zenon DEF Init, TypeOK
<1> QED
    BY <1>1, TypeStep, PTL DEF Spec

\* The pointer of the central leads to its link, with the log as without it.
THEOREM PointerAlwaysRight == Spec => []PointerTracksLink
    BY ImplementsTemp, PointerRight, PTL

\* Only a failure makes the central deaf.
THEOREM OnlyFailureDeafens == Spec => DeafOnlyByFailure
    BY ImplementsTemp, DeafByFailure, PTL

-----------------------------------------------------------------------------
(* The pairing of the script, for logs of any length. *)

\* Induction over numbers, from the least of them: as a statement about sets it
\* needs no theorem that has an operator for a parameter.
LEMMA LeastNat ==
    ASSUME NEW T \in SUBSET Nat, T # {}
    PROVE  \E m \in T : \A k \in T : m <= k
<1>1. PICK m \in T : \A k \in T : ~(<<k, m>> \in OpToRel(<, Nat))
    BY NatLessThanWellFounded, WFMin
<1>2. \A k \in T : ~(k < m)
    BY <1>1 DEF OpToRel
<1> QED
    BY <1>2

LEMMA UpTo ==
    ASSUME NEW n \in Nat, NEW T, 0 \in T,
           \A k \in 0 .. n - 1 : k \in T => k + 1 \in T
    PROVE  \A k \in 0 .. n : k \in T
<1> SUFFICES ASSUME NEW k \in 0 .. n, k \notin T PROVE FALSE
    OBVIOUS
<1> DEFINE F == {j \in 0 .. n : j \notin T}
<1>1. F \in SUBSET Nat /\ F # {}
    OBVIOUS
<1> HIDE DEF F
<1>2. PICK m \in F : \A j \in F : m <= j
    BY <1>1, LeastNat
<1>3. m \in 0 .. n /\ m \notin T /\ m # 0
    BY <1>2 DEF F
<1>4. m - 1 \in 0 .. n - 1 /\ m - 1 \in T
    BY <1>2, <1>3 DEF F
<1> QED
    BY <1>3, <1>4

LEMMA Greatest ==
    ASSUME NEW n \in Nat, NEW T \in SUBSET (1 .. n), T # {}
    PROVE  \E m \in T : \A k \in T : k <= m
<1> DEFINE F == {n - k : k \in T}
<1>1. F \in SUBSET Nat /\ F # {}
    <2>1. \A k \in T : n - k \in Nat
        OBVIOUS
    <2> QED
        BY <2>1
<1> HIDE DEF F
<1>2. PICK j \in F : \A i \in F : j <= i
    BY <1>1, LeastNat
<1>3. PICK m \in T : j = n - m
    BY DEF F
<1>4. \A k \in T : j <= n - k
    BY <1>2 DEF F
<1> QED
    BY <1>3, <1>4

\* What the loop over the RECV lines has taken before line k + 1, as the values
\* of a function that satisfies the recursion of UsedAfter up to line n.
Scans(f, sent, recv, n) ==
    f = [k \in 0 .. n |->
            IF k = 0 THEN {}
            ELSE f[k - 1]
                     \cup Nearest(sent, Candidates(sent, f[k - 1], recv[k]))]

LEMMA ScanFacts ==
    ASSUME NEW f, NEW sent, NEW recv, NEW n \in Nat, Scans(f, sent, recv, n)
    PROVE  /\ f[0] = {}
           /\ \A k \in 0 .. n - 1 :
                 f[k + 1] = f[k] \cup
                     Nearest(sent, Candidates(sent, f[k], recv[k + 1]))
<1> DEFINE Step(u, k) == u \cup Nearest(sent, Candidates(sent, u, recv[k]))
<1>1. f = [k \in 0 .. n |-> IF k = 0 THEN {} ELSE Step(f[k - 1], k)]
    BY DEF Scans
<1> HIDE DEF Step
<1>2. f[0] = {}
    BY <1>1
<1>3. ASSUME NEW k \in 0 .. n - 1 PROVE f[k + 1] = Step(f[k], k + 1)
    <2>1. k + 1 \in 0 .. n /\ k + 1 # 0 /\ (k + 1) - 1 = k
        OBVIOUS
    <2> QED
        BY <1>1, <2>1
<1> QED
    BY <1>2, <1>3 DEF Step

LEMMA ScanExists ==
    ASSUME NEW sent, NEW recv, NEW n \in Nat
    PROVE  \E f : Scans(f, sent, recv, n)
<1> DEFINE Step(u, k) == u \cup Nearest(sent, Candidates(sent, u, recv[k]))
           Rec(f, m) == f = [k \in 0 .. m |-> IF k = 0 THEN {}
                                              ELSE Step(f[k - 1], k)]
           T == {m \in Nat : \E f : Rec(f, m)}
<1> HIDE DEF Step
<1>1. 0 \in T
    <2> DEFINE e == [k \in 0 .. 0 |-> {}]
    <2>1. Rec(e, 0)
        OBVIOUS
    <2> QED
        BY <2>1
<1>2. ASSUME NEW m \in 0 .. n - 1, m \in T PROVE m + 1 \in T
    <2>1. PICK f : Rec(f, m)
        BY <1>2
    <2> DEFINE g == [k \in 0 .. m + 1 |-> IF k = m + 1 THEN Step(f[m], m + 1)
                                          ELSE f[k]]
    <2>2. \A k \in 0 .. m : g[k] = f[k]
        OBVIOUS
    <2>3. g[m + 1] = Step(g[m], m + 1)
        OBVIOUS
    <2>4. \A k \in 0 .. m : f[k] = IF k = 0 THEN {} ELSE Step(f[k - 1], k)
        BY <2>1
    <2>5. g = [k \in 0 .. m + 1 |-> g[k]]
        OBVIOUS
    <2> HIDE DEF g
    <2>6. \A k \in 0 .. m + 1 : g[k] = IF k = 0 THEN {} ELSE Step(g[k - 1], k)
        <3> TAKE k \in 0 .. m + 1
        <3>1. CASE k = m + 1
            BY <2>3, <3>1
        <3>2. CASE k # m + 1
            <4>1. k \in 0 .. m /\ (k # 0 => k - 1 \in 0 .. m)
                BY <3>2
            <4> QED
                BY <2>2, <2>4, <4>1
        <3> QED
            BY <3>1, <3>2
    <2>7. Rec(g, m + 1)
        BY <2>5, <2>6
    <2> QED
        BY <2>7
<1>3. n \in T
    <2> HIDE DEF T
    <2> QED
        BY <1>1, <1>2, UpTo
<1> QED
    BY <1>3 DEF Scans, Step

LEMMA UsedScans ==
    ASSUME NEW sent, NEW recv, Len(recv) \in Nat
    PROVE  Scans(UsedAfter(sent, recv), sent, recv, Len(recv))
<1> DEFINE used == CHOOSE f : Scans(f, sent, recv, Len(recv))
<1>1. UsedAfter(sent, recv) = used
    BY DEF UsedAfter, Scans
<1>2. Scans(used, sent, recv, Len(recv))
    BY ScanExists
<1> QED
    BY <1>1, <1>2

\* Logs as one peripheral and the central write them: SEND lines with
\* consecutive ids and rising times, RECV lines in the order of their times,
\* each of a temperature that was sent before it or of the initial one.
Rising(lines) ==
    \A i, j \in 1 .. Len(lines) : i < j => lines[i].t < lines[j].t
WellLogged(sent, recv) ==
    /\ sent \in Seq([id : Nat, t : Nat, temp : Temps])
    /\ recv \in Seq([of : Nat, t : Nat, temp : Temps \cup {Initial}])
    /\ \A i \in 1 .. Len(sent) : sent[i].id = i
    /\ Rising(sent) /\ Rising(recv)
    /\ \A k \in 1 .. Len(recv) :
           \/ recv[k].of = 0 /\ recv[k].temp = Initial
           \/ /\ recv[k].of \in 1 .. Len(sent)
              /\ sent[recv[k].of].temp = recv[k].temp
              /\ sent[recv[k].of].t < recv[k].t

\* The SEND lines that the first k RECV lines are of.
DeliveredBy(sent, recv, k) ==
    {i \in 1 .. Len(sent) : \E j \in 1 .. k : recv[j].of = i}

LEMMA WellLoggedLines ==
    ASSUME NEW sent, NEW recv, WellLogged(sent, recv)
    PROVE  /\ Len(sent) \in Nat /\ Len(recv) \in Nat
           /\ DOMAIN sent = 1 .. Len(sent) /\ DOMAIN recv = 1 .. Len(recv)
           /\ \A i \in 1 .. Len(sent) : sent[i].t \in Nat /\ sent[i].temp \in Temps
           /\ \A k \in 1 .. Len(recv) : recv[k].t \in Nat
<1>1. /\ sent \in Seq([id : Nat, t : Nat, temp : Temps])
      /\ recv \in Seq([of : Nat, t : Nat, temp : Temps \cup {Initial}])
    BY DEF WellLogged
<1>2. \A L : \A q \in Seq(L) : /\ Len(q) \in Nat /\ DOMAIN q = 1 .. Len(q)
                              /\ \A i \in 1 .. Len(q) : q[i] \in L
    OBVIOUS
<1>3. /\ \A i \in 1 .. Len(sent) : sent[i] \in [id : Nat, t : Nat, temp : Temps]
      /\ \A k \in 1 .. Len(recv) :
            recv[k] \in [of : Nat, t : Nat, temp : Temps \cup {Initial}]
    BY <1>1, <1>2, Zenon
<1>4. Len(sent) \in Nat /\ Len(recv) \in Nat
      /\ DOMAIN sent = 1 .. Len(sent) /\ DOMAIN recv = 1 .. Len(recv)
    BY <1>1, <1>2, Zenon
<1> QED
    BY <1>3, <1>4

\* The nearest of some SEND lines is the last of them.
LEMMA NearestIsLast ==
    ASSUME NEW sent, NEW n \in Nat, NEW cands \in SUBSET (1 .. n),
           \A i \in 1 .. n : sent[i].t \in Nat,
           \A i, j \in 1 .. n : i < j => sent[i].t < sent[j].t
    PROVE  /\ cands = {} => Nearest(sent, cands) = {}
           /\ cands # {} => \E c \in cands : Nearest(sent, cands) = {c}
<1>0. \A i \in cands : i \in 1 .. n /\ sent[i].t \in Nat /\ i <= i
    OBVIOUS
<1>1. ASSUME cands # {}
      PROVE  \E c \in cands : Nearest(sent, cands) = {c}
    <2>1. PICK c \in cands : \A i \in cands : i <= c
        BY <1>1, Greatest
    <2>2. c \in Nearest(sent, cands)
        <3> SUFFICES ASSUME NEW j \in cands
                     PROVE  sent[c].t > sent[j].t
                            \/ (sent[c].t = sent[j].t /\ c <= j)
            BY DEF Nearest
        <3>1. j \in 1 .. n /\ c \in 1 .. n /\ (j = c \/ j < c)
            BY <1>0, <2>1
        <3>2. c <= c /\ sent[c].t \in Nat /\ sent[j].t \in Nat
            BY <1>0
        <3> QED
            BY <3>1, <3>2
    <2>3. ASSUME NEW i \in Nearest(sent, cands) PROVE i = c
        <3>1. i \in cands /\ i <= c
            BY <2>1 DEF Nearest
        <3>2. sent[i].t > sent[c].t \/ (sent[i].t = sent[c].t /\ i <= c)
            BY DEF Nearest
        <3>3. ASSUME i < c PROVE FALSE
            <4>1. sent[i].t < sent[c].t /\ sent[i].t \in Nat /\ sent[c].t \in Nat
                BY <3>1, <3>3
            <4> QED
                BY <3>2, <4>1
        <3> QED
            BY <3>1, <3>3
    <2> QED
        BY <2>2, <2>3
<1> QED
    BY <1>1 DEF Nearest

\* What RECV line k takes when the SEND lines u are taken already.
Taken(sent, recv, u, k) == Nearest(sent, Candidates(sent, u, recv[k]))

\* It is one SEND line of its temperature, not taken before; or none, when all
\* lines of the temperature that were sent before it are taken.
TakesRight(sent, recv, u, k, new) ==
    \/ /\ new = {}
       /\ \A i \in 1 .. Len(sent) :
             sent[i].temp = recv[k].temp /\ sent[i].t < recv[k].t => i \in u
    \/ \E c \in (1 .. Len(sent)) \ u : new = {c} /\ sent[c].temp = recv[k].temp

LEMMA LineTakes ==
    ASSUME NEW sent, NEW recv, WellLogged(sent, recv),
           NEW k \in 1 .. Len(recv), NEW u
    PROVE  TakesRight(sent, recv, u, k, Taken(sent, recv, u, k))
<1> DEFINE cands == Candidates(sent, u, recv[k])
<1>1. /\ Len(sent) \in Nat /\ DOMAIN sent = 1 .. Len(sent)
      /\ \A i \in 1 .. Len(sent) : sent[i].t \in Nat
      /\ \A i, j \in 1 .. Len(sent) : i < j => sent[i].t < sent[j].t
      /\ recv[k].t \in Nat
    BY WellLoggedLines DEF WellLogged, Rising
<1>2. \A i : i \in cands <=> /\ i \in (1 .. Len(sent)) \ u
                             /\ sent[i].temp = recv[k].temp
                             /\ sent[i].t < recv[k].t
    <2>1. \A i \in 1 .. Len(sent) : recv[k].t > sent[i].t <=> sent[i].t < recv[k].t
        BY <1>1
    <2> QED
        BY <1>1, <2>1 DEF Candidates
<1>3. cands \in SUBSET (1 .. Len(sent))
    BY <1>2
<1> HIDE DEF cands
<1>4. /\ cands = {} => Nearest(sent, cands) = {}
      /\ cands # {} => \E c \in cands : Nearest(sent, cands) = {c}
    BY <1>1, <1>3, NearestIsLast
<1>5. Taken(sent, recv, u, k) = Nearest(sent, cands)
    BY DEF cands, Taken
<1>6. CASE cands = {}
    BY <1>2, <1>4, <1>5, <1>6 DEF TakesRight
<1>7. CASE cands # {}
    BY <1>2, <1>4, <1>5, <1>7 DEF TakesRight
<1> QED
    BY <1>6, <1>7

LEMMA DeliveredNext ==
    ASSUME NEW sent, NEW recv, WellLogged(sent, recv), NEW k \in 0 .. Len(recv) - 1
    PROVE  DeliveredBy(sent, recv, k + 1) =
               DeliveredBy(sent, recv, k)
                   \cup {i \in 1 .. Len(sent) : recv[k + 1].of = i}
<1>1. \A j \in 1 .. k + 1 : j \in 1 .. k \/ j = k + 1
    BY WellLoggedLines
<1>2. k + 1 \in 1 .. k + 1 /\ \A j \in 1 .. k : j \in 1 .. k + 1
    BY WellLoggedLines
<1> QED
    BY <1>1, <1>2 DEF DeliveredBy

\* Each SEND line that was read can be given one that was taken, of the same
\* temperature and no two the same.
Covers(sent, d, u) ==
    \E g \in [d -> u] :
        /\ \A i, j \in d : g[i] = g[j] => i = j
        /\ \A i \in d : sent[g[i]].temp = sent[i].temp

LEMMA CoversLine ==
    ASSUME NEW sent, NEW recv, WellLogged(sent, recv),
           NEW k \in 0 .. Len(recv) - 1, NEW u \in SUBSET (1 .. Len(sent)),
           Covers(sent, DeliveredBy(sent, recv, k), u)
    PROVE  /\ (u \cup Taken(sent, recv, u, k + 1)) \in SUBSET (1 .. Len(sent))
           /\ Covers(sent, DeliveredBy(sent, recv, k + 1),
                     u \cup Taken(sent, recv, u, k + 1))
<1> DEFINE new == Taken(sent, recv, u, k + 1)
           v == u \cup new
           d == DeliveredBy(sent, recv, k)
           e == DeliveredBy(sent, recv, k + 1)
           x == recv[k + 1].temp
<1>0. k + 1 \in 1 .. Len(recv)
    BY WellLoggedLines
<1>t. TakesRight(sent, recv, u, k + 1, new)
    BY <1>0, LineTakes
<1>1. \/ /\ new = {}
         /\ \A i \in 1 .. Len(sent) :
               sent[i].temp = x /\ sent[i].t < recv[k + 1].t => i \in u
      \/ \E c \in (1 .. Len(sent)) \ u : new = {c} /\ sent[c].temp = x
    BY <1>t DEF TakesRight
<1>2. v = u \cup new
    OBVIOUS
<1>3. v \in SUBSET (1 .. Len(sent)) /\ u \subseteq v
    BY <1>1, <1>2
<1>4. PICK g \in [d -> u] : /\ \A i, j \in d : g[i] = g[j] => i = j
                            /\ \A i \in d : sent[g[i]].temp = sent[i].temp
    BY DEF Covers
<1>5. d \subseteq 1 .. Len(sent) /\ e = d \cup {i \in 1 .. Len(sent) : recv[k + 1].of = i}
    BY DeliveredNext DEF DeliveredBy
<1>6. ASSUME NEW i \in e, sent[i].temp = x PROVE sent[i].t < recv[k + 1].t
    <2>1. PICK j \in 1 .. k + 1 : recv[j].of = i
        BY DEF DeliveredBy
    <2>2. j \in 1 .. Len(recv) /\ (j = k + 1 \/ j < k + 1) /\ i \in 1 .. Len(sent)
          /\ i # 0
        BY <2>1, <1>0, WellLoggedLines DEF DeliveredBy
    <2>3. sent[i].t < recv[j].t
        BY <2>1, <2>2 DEF WellLogged
    <2>4. j = k + 1 \/ recv[j].t < recv[k + 1].t
        BY <1>0, <2>2 DEF WellLogged, Rising
    <2>5. sent[i].t \in Nat /\ recv[j].t \in Nat /\ recv[k + 1].t \in Nat
        BY <1>0, <2>2, WellLoggedLines
    <2> QED
        BY <2>3, <2>4, <2>5
<1> HIDE DEF new, v, d, e, x
<1>7. CASE e = d
    <2>1. g \in [e -> v]
        BY <1>3, <1>4, <1>7
    <2>2. Covers(sent, e, v)
        BY <1>4, <1>7, <2>1 DEF Covers
    <2> QED
        BY <1>3, <2>2 DEF e, v, new
<1>8. CASE e # d
    <2>1. PICK i \in 1 .. Len(sent) : recv[k + 1].of = i /\ i \notin d /\ e = d \cup {i}
        BY <1>5, <1>8
    <2>2. sent[i].temp = x
        <3>1. i # 0
            BY WellLoggedLines
        <3> QED
            BY <1>0, <2>1, <3>1 DEF WellLogged, x
    <2>3. ASSUME NEW c \in (1 .. Len(sent)) \ u, new = {c}, sent[c].temp = x
          PROVE  Covers(sent, e, v)
        <3> DEFINE h == [j \in e |-> IF j = i THEN c ELSE g[j]]
        <3>1. h \in [e -> v]
            BY <1>2, <1>4, <2>1, <2>3
        <3>2. \A a, b \in e : h[a] = h[b] => a = b
            BY <1>4, <2>1, <2>3
        <3>3. \A a \in e : sent[h[a]].temp = sent[a].temp
            BY <1>4, <2>1, <2>2, <2>3
        <3> QED
            BY <3>1, <3>2, <3>3 DEF Covers
    <2>4. ASSUME new = {},
                 \A j \in 1 .. Len(sent) :
                     sent[j].temp = x /\ sent[j].t < recv[k + 1].t => j \in u
          PROVE  Covers(sent, e, v)
        <3> DEFINE h == [j \in e |-> IF sent[j].temp = x THEN j ELSE g[j]]
        <3>0. v = u /\ \A j \in e : j \in 1 .. Len(sent) /\ (j \in d \/ j = i)
            BY <1>2, <1>5, <2>1, <2>4
        <3>1. \A j \in e : sent[j].temp = x => j \in u
            BY <1>6, <2>4, <3>0
        <3>2. h \in [e -> v]
            BY <1>4, <2>2, <3>0, <3>1
        <3>3. \A a \in e : sent[h[a]].temp = sent[a].temp
            BY <1>4, <2>2, <3>0
        <3>4. ASSUME NEW a \in e, NEW b \in e, h[a] = h[b] PROVE a = b
            <4>1. sent[a].temp = sent[b].temp
                BY <3>3, <3>4
            <4>2. CASE sent[a].temp = x
                BY <3>4, <4>1, <4>2
            <4>3. CASE sent[a].temp # x
                <5>1. a \in d /\ b \in d /\ g[a] = g[b]
                    BY <2>2, <3>0, <3>4, <4>1, <4>3
                <5> QED
                    BY <1>4, <5>1
            <4> QED
                BY <4>2, <4>3
        <3> HIDE DEF h
        <3> QED
            BY <3>2, <3>3, <3>4 DEF Covers
    <2>5. Covers(sent, e, v)
        BY <1>1, <2>3, <2>4
    <2> QED
        BY <1>3, <2>5 DEF e, v, new
<1> QED
    BY <1>7, <1>8

\* When no two temperatures are equal a RECV line takes what it is of.
LEMMA DistinctLine ==
    ASSUME NEW sent, NEW recv, WellLogged(sent, recv),
           \A i, j \in 1 .. Len(sent) : sent[i].temp = sent[j].temp => i = j,
           NEW k \in 0 .. Len(recv) - 1,
           NEW d, d = DeliveredBy(sent, recv, k)
    PROVE  DeliveredBy(sent, recv, k + 1) = d \cup Taken(sent, recv, d, k + 1)
<1> DEFINE new == Taken(sent, recv, d, k + 1)
<1>0. k + 1 \in 1 .. Len(recv)
    BY WellLoggedLines
<1>t. TakesRight(sent, recv, d, k + 1, new)
    BY <1>0, LineTakes
<1> HIDE DEF new
<1>1. \/ /\ new = {}
         /\ \A i \in 1 .. Len(sent) :
               sent[i].temp = recv[k + 1].temp /\ sent[i].t < recv[k + 1].t =>
                   i \in d
      \/ \E c \in (1 .. Len(sent)) \ d :
             new = {c} /\ sent[c].temp = recv[k + 1].temp
    BY <1>t DEF TakesRight
<1>2. DeliveredBy(sent, recv, k + 1) =
          d \cup {i \in 1 .. Len(sent) : recv[k + 1].of = i}
    <2>1. DeliveredBy(sent, recv, k + 1) =
              DeliveredBy(sent, recv, k)
                  \cup {i \in 1 .. Len(sent) : recv[k + 1].of = i}
        BY DeliveredNext
    <2> QED
        BY <2>1
<1>3. CASE recv[k + 1].of = 0 /\ recv[k + 1].temp = Initial
    <2>1. \A i \in 1 .. Len(sent) : i # 0 /\ sent[i].temp # Initial
        BY WellLoggedLines, CentralAssumption
    <2> QED
        BY <1>1, <1>2, <1>3, <2>1 DEF new
<1>4. CASE /\ recv[k + 1].of \in 1 .. Len(sent)
           /\ sent[recv[k + 1].of].temp = recv[k + 1].temp
           /\ sent[recv[k + 1].of].t < recv[k + 1].t
    <2>1. {i \in 1 .. Len(sent) : recv[k + 1].of = i} = {recv[k + 1].of}
        BY <1>4
    <2>2. new = {} => recv[k + 1].of \in d
        BY <1>1, <1>4
    <2>3. ASSUME NEW c \in 1 .. Len(sent), new = {c},
                 sent[c].temp = recv[k + 1].temp
          PROVE  c = recv[k + 1].of
        BY <1>4, <2>3
    <2> QED
        BY <1>1, <1>2, <2>1, <2>2, <2>3 DEF new
<1> QED
    BY <1>0, <1>3, <1>4 DEF WellLogged, new

\* The script over any logs that the boards write: it calls nothing lost that
\* was read, and when no two temperatures are equal it pairs what belongs
\* together.
THEOREM PairingCorrect ==
    ASSUME NEW sent, NEW recv, WellLogged(sent, recv)
    PROVE  /\ Lost(sent, recv) <=
                  Len(sent) - Cardinality(DeliveredBy(sent, recv, Len(recv)))
           /\ (\A i, j \in 1 .. Len(sent) : sent[i].temp = sent[j].temp => i = j)
                  => Matched(sent, recv) = DeliveredBy(sent, recv, Len(recv))
<1> DEFINE n == Len(recv)
           f == UsedAfter(sent, recv)
           D(k) == DeliveredBy(sent, recv, k)
           N == 1 .. Len(sent)
<1>1. n \in Nat /\ Len(sent) \in Nat
    BY WellLoggedLines
<1>2. /\ f[0] = {}
      /\ \A k \in 0 .. n - 1 :
             f[k + 1] = f[k] \cup Taken(sent, recv, f[k], k + 1)
    BY <1>1, UsedScans, ScanFacts DEF Taken
<1>3. D(0) = {}
    BY DEF DeliveredBy
<1>z. 0 \in 0 .. n /\ n \in 0 .. n /\ \A k \in 0 .. n - 1 : k + 1 \in 0 .. n
    BY <1>1
<1> HIDE DEF f, D, n, N
<1>4. f[n] \in SUBSET N /\ Covers(sent, D(n), f[n])
    <2> DEFINE Good(k) == f[k] \in SUBSET N /\ Covers(sent, D(k), f[k])
               T == {k \in 0 .. n : Good(k)}
    <2>1. Good(0)
        <3> DEFINE g == [i \in {} |-> i]
        <3>1. g \in [{} -> {}]
            OBVIOUS
        <3>2. Covers(sent, {}, {})
            BY <3>1 DEF Covers
        <3> QED
            BY <1>2, <1>3, <3>2
    <2>2. ASSUME NEW k \in 0 .. n - 1, Good(k) PROVE Good(k + 1)
        <3>1. f[k] \in SUBSET (1 .. Len(sent))
              /\ Covers(sent, DeliveredBy(sent, recv, k), f[k])
            BY <2>2 DEF D, N
        <3>2. k \in 0 .. Len(recv) - 1
            BY DEF n
        <3>3. (f[k] \cup Taken(sent, recv, f[k], k + 1)) \in SUBSET (1 .. Len(sent))
              /\ Covers(sent, DeliveredBy(sent, recv, k + 1),
                        f[k] \cup Taken(sent, recv, f[k], k + 1))
            BY <3>1, <3>2, CoversLine, Zenon
        <3> QED
            BY <1>2, <3>3 DEF D, N, Good
    <2> HIDE DEF Good
    <2>3. \A k \in 0 .. n : k \in T
        <3>1. 0 \in T
            BY <1>z, <2>1
        <3>2. \A k \in 0 .. n - 1 : k \in T => k + 1 \in T
            BY <1>z, <2>2
        <3> HIDE DEF T
        <3> QED
            BY <1>1, <3>1, <3>2, UpTo
    <2>4. Good(n)
        BY <1>z, <2>3
    <2> QED
        BY <2>4 DEF Good
<1>5. ASSUME \A i, j \in 1 .. Len(sent) : sent[i].temp = sent[j].temp => i = j
      PROVE  f[n] = D(n)
    <2> DEFINE Good(k) == f[k] = D(k)
               T == {k \in 0 .. n : Good(k)}
    <2>1. Good(0)
        BY <1>2, <1>3
    <2>2. ASSUME NEW k \in 0 .. n - 1, Good(k) PROVE Good(k + 1)
        <3>1. f[k] = DeliveredBy(sent, recv, k)
            BY <2>2 DEF D
        <3>2. k \in 0 .. Len(recv) - 1
            BY DEF n
        <3>3. DeliveredBy(sent, recv, k + 1) =
                  f[k] \cup Taken(sent, recv, f[k], k + 1)
            BY <1>5, <3>1, <3>2, DistinctLine, Zenon
        <3> QED
            BY <1>2, <3>3 DEF D
    <2> HIDE DEF Good
    <2>3. \A k \in 0 .. n : k \in T
        <3>1. 0 \in T
            BY <1>z, <2>1
        <3>2. \A k \in 0 .. n - 1 : k \in T => k + 1 \in T
            BY <1>z, <2>2
        <3> HIDE DEF T
        <3> QED
            BY <1>1, <3>1, <3>2, UpTo
    <2>4. Good(n)
        BY <1>z, <2>3
    <2> QED
        BY <2>4 DEF Good
<1>6. Cardinality(D(n)) <= Cardinality(f[n])
      /\ Cardinality(D(n)) \in Nat /\ Cardinality(f[n]) \in Nat
    <2>1. PICK g \in [D(n) -> f[n]] : \A i, j \in D(n) : g[i] = g[j] => i = j
        BY <1>4 DEF Covers
    <2>2. g \in Injection(D(n), f[n])
        BY <2>1 DEF Injection, IsInjective
    <2>3. IsFiniteSet(N)
        BY <1>1, FS_Interval DEF N
    <2>4. IsFiniteSet(f[n])
        BY <1>4, <2>3, FS_Subset
    <2> QED
        BY <2>2, <2>4, FS_Injection, FS_CardinalityType
<1>7. Matched(sent, recv) = f[n]
    BY DEF Matched, f, n
<1>8. Lost(sent, recv) <= Len(sent) - Cardinality(D(n))
    BY <1>1, <1>6, <1>7 DEF Lost
<1> QED
    BY <1>5, <1>7, <1>8 DEF D, n

-----------------------------------------------------------------------------
(* The logs of the central and one peripheral. *)

\* A temperature with the id it was sent with, or the initial one.
Real(v) ==
    \/ v.id = 0 /\ v.temp = Initial
    \/ v.id \in 1 .. Len(sent_packets) /\ sent_packets[v.id].temp = v.temp

\* The script listens to one SEND port and to one RECV port.
LogInv(q) ==
    /\ TypeOK
    /\ WellLogged(sent_packets, recv_packets)
    /\ current[q].id = Len(sent_packets) /\ Real(current[q])
    /\ \A k \in 1 .. Len(reads) : reads[k] = Asked \/ Real(reads[k])
    /\ \A i \in 1 .. Len(sent_packets) : sent_packets[i].t < Now
    /\ \A k \in 1 .. Len(recv_packets) : recv_packets[k].t < Now

LEMMA LogInvInit == ASSUME NEW q \in Peripheral, Init PROVE LogInv(q)
<1>1. TempInit /\ sent_packets = << >> /\ recv_packets = << >>
      /\ given_up = FALSE /\ reads = << >>
      /\ current[q] = [id |-> 0, temp |-> Initial]
    BY DEF Init, TempInit
<1>2. TypeOK
    <2>1. \A S : << >> \in Seq(S)
        OBVIOUS
    <2> QED
        BY <1>1, <2>1, TempInitType, Zenon DEF TypeOK
<1>3. WellLogged(sent_packets, recv_packets)
    BY <1>1, <1>2 DEF WellLogged, Rising, TypeOK, Time
<1> QED
    BY <1>1, <1>2, <1>3 DEF LogInv, Real, Now

\* A SEND line is a new temperature: what was real before is real after it.
LEMMA LogInvSend ==
    ASSUME NEW q \in Node, Peripheral = {q}, LogInv(q), TypeOK',
           NEW temp \in Temps, Send(q, temp)
    PROVE  LogInv(q)'
<1> DEFINE n == Len(sent_packets)
           line == [id |-> n + 1, t |-> Now, temp |-> temp]
<1>0. /\ sent_packets \in Seq([id : Nat, t : Nat, temp : Temps])
      /\ n \in Nat /\ Len(recv_packets) \in Nat
      /\ reads \in Seq(Value \cup {Asked})
    BY DEF LogInv, WellLogged, TypeOK, TempTypeOK
<1>1. current'[q] = [id |-> n + 1, temp |-> temp]
    BY DEF Send, Update, LogInv, TypeOK, TempTypeOK
<1>2. sent_packets' = Append(sent_packets, line)
    BY <1>1 DEF Send
<1>3. UNCHANGED <<recv_packets, reads>>
    BY DEF Send, Update, centralVars
<1>4. Now \in Nat /\ Now' = Now + 1
    BY <1>0, <1>2, <1>3 DEF Now
<1>5. /\ Len(sent_packets)' = n + 1
      /\ \A i \in 1 .. n : sent_packets'[i] = sent_packets[i]
      /\ sent_packets'[n + 1] = line
    BY <1>0, <1>2
<1>6. /\ \A i \in 1 .. n : sent_packets[i].id = i /\ sent_packets[i].t \in Nat
                           /\ sent_packets[i].t < Now
      /\ \A i, j \in 1 .. n : i < j => sent_packets[i].t < sent_packets[j].t
      /\ \A k \in 1 .. Len(recv_packets) : recv_packets[k].t \in Nat
                                            /\ recv_packets[k].t < Now
    <2>1. WellLogged(sent_packets, recv_packets)
        BY DEF LogInv
    <2>2. /\ \A i \in 1 .. n : sent_packets[i].t \in Nat
          /\ \A k \in 1 .. Len(recv_packets) : recv_packets[k].t \in Nat
        BY <2>1, WellLoggedLines
    <2> QED
        BY <2>2 DEF LogInv, WellLogged, Rising
<1>7. line.id = n + 1 /\ line.t = Now /\ line.temp = temp
      /\ line \in [id : Nat, t : Nat, temp : Temps]
    BY <1>0, <1>4
<1>r. \A v : Real(v) => Real(v)'
    <2>1. \A i \in 1 .. n : i \in 1 .. n + 1
        BY <1>0
    <2> QED
        BY <1>5, <2>1 DEF Real
<1> HIDE DEF line
<1>8. WellLogged(sent_packets, recv_packets)'
    <2>1. sent_packets' \in Seq([id : Nat, t : Nat, temp : Temps])
        BY <1>0, <1>2, <1>7
    <2>2. \A i \in 1 .. n + 1 : i \in 1 .. n \/ i = n + 1
        BY <1>0
    <2>3. \A i \in 1 .. n + 1 : sent_packets'[i].id = i
        BY <1>5, <1>6, <1>7, <2>2
    <2>4. \A i, j \in 1 .. n + 1 : i < j => sent_packets'[i].t < sent_packets'[j].t
        <3> SUFFICES ASSUME NEW i \in 1 .. n + 1, NEW j \in 1 .. n + 1, i < j
                     PROVE  sent_packets'[i].t < sent_packets'[j].t
            OBVIOUS
        <3>1. i \in 1 .. n
            BY <1>0
        <3> QED
            BY <1>5, <1>6, <1>7, <2>2, <3>1
    <2>5. \A k \in 1 .. Len(recv_packets) :
             \/ recv_packets[k].of = 0 /\ recv_packets[k].temp = Initial
             \/ /\ recv_packets[k].of \in 1 .. n + 1
                /\ sent_packets'[recv_packets[k].of].temp = recv_packets[k].temp
                /\ sent_packets'[recv_packets[k].of].t < recv_packets[k].t
        <3>1. \A i \in 1 .. n : i \in 1 .. n + 1
            BY <1>0
        <3> QED
            BY <1>5, <3>1 DEF LogInv, WellLogged
    <2> QED
        BY <1>3, <1>5, <2>1, <2>3, <2>4, <2>5 DEF LogInv, WellLogged, Rising
<1>9. /\ \A i \in 1 .. Len(sent_packets)' : sent_packets'[i].t < Now'
      /\ \A k \in 1 .. Len(recv_packets)' : recv_packets'[k].t < Now'
    <2>1. \A i \in 1 .. n + 1 : i \in 1 .. n \/ i = n + 1
        BY <1>0
    <2>2. \A i \in 1 .. n + 1 : sent_packets'[i].t < Now + 1
        BY <1>4, <1>5, <1>6, <1>7, <2>1
    <2>3. \A k \in 1 .. Len(recv_packets) : recv_packets[k].t < Now + 1
        BY <1>4, <1>6
    <2> QED
        BY <1>3, <1>4, <1>5, <2>2, <2>3
<1>10. current'[q].id = Len(sent_packets)' /\ Real(current[q])'
    BY <1>0, <1>1, <1>5, <1>7 DEF Real
<1>11. \A k \in 1 .. Len(reads)' : reads'[k] = Asked \/ Real(reads[k])'
    BY <1>3, <1>r DEF LogInv
<1> QED
    BY <1>8, <1>9, <1>10, <1>11 DEF LogInv

\* A RECV line is of the read at the head of the queue, which was answered.
LEMMA LogInvRecv ==
    ASSUME NEW q \in Node, Peripheral = {q}, LogInv(q), TypeOK', Recv
    PROVE  LogInv(q)'
<1> DEFINE n == Len(recv_packets)
           line == [of |-> Head(reads).id, t |-> Now, temp |-> Head(reads).temp]
<1>0. /\ recv_packets \in Seq([of : Nat, t : Nat, temp : Temps \cup {Initial}])
      /\ n \in Nat /\ Len(sent_packets) \in Nat
      /\ reads \in Seq(Value \cup {Asked})
    BY DEF LogInv, WellLogged, TypeOK, TempTypeOK
<1>1. /\ reads # << >> /\ Head(reads) # Asked /\ reads' = Tail(reads)
      /\ UNCHANGED <<current, sent_packets>>
    BY DEF Recv, ReadTemperature, DataRead
<1>2. /\ Len(reads) \in Nat \ {0} /\ Head(reads) = reads[1]
      /\ Len(reads') = Len(reads) - 1
      /\ \A k \in 1 .. Len(reads) - 1 : reads'[k] = reads[k + 1]
    BY <1>0, <1>1
<1>3. Head(reads) \in Value /\ Real(Head(reads))
    <2>1. 1 \in 1 .. Len(reads)
        BY <1>2
    <2> QED
        BY <1>0, <1>1, <1>2, <2>1 DEF LogInv
<1>r. \A v : Real(v) => Real(v)'
    BY <1>1 DEF Real
<1>4. \A k \in 1 .. Len(reads)' : reads'[k] = Asked \/ Real(reads[k])'
    <2>1. \A k \in 1 .. Len(reads) - 1 : k + 1 \in 1 .. Len(reads)
        BY <1>2
    <2>2. \A k \in 1 .. Len(reads) - 1 : reads[k + 1] = Asked \/ Real(reads[k + 1])
        BY <2>1 DEF LogInv
    <2>3. \A k \in 1 .. Len(reads)' : reads'[k] = Asked \/ Real(reads'[k])
        BY <1>2, <2>2
    <2> QED
        BY <1>1, <2>3 DEF Real
<1>5. current'[q].id = Len(sent_packets)' /\ Real(current[q])'
    BY <1>1, <1>r DEF LogInv
<1>6. CASE recv_packets' = recv_packets
    BY <1>1, <1>4, <1>5, <1>6 DEF LogInv, Now, WellLogged, Rising
<1>7. CASE recv_packets' = Append(recv_packets, line)
    <2>1. /\ Len(recv_packets)' = n + 1
          /\ \A k \in 1 .. n : recv_packets'[k] = recv_packets[k]
          /\ recv_packets'[n + 1] = line
        BY <1>0, <1>7
    <2>2. Now \in Nat /\ Now' = Now + 1
        BY <1>0, <1>1, <2>1 DEF Now
    <2>3. line \in [of : Nat, t : Nat, temp : Temps \cup {Initial}]
          /\ line.of = Head(reads).id /\ line.t = Now
          /\ line.temp = Head(reads).temp
        BY <1>3, <2>2 DEF Value
    <2> HIDE DEF line
    <2>4. recv_packets' \in Seq([of : Nat, t : Nat, temp : Temps \cup {Initial}])
        BY <1>0, <1>7, <2>3
    <2>5. \A k \in 1 .. n + 1 : k \in 1 .. n \/ k = n + 1
        BY <1>0
    <2>6. /\ \A i \in 1 .. Len(sent_packets) : sent_packets[i].t \in Nat
                                                /\ sent_packets[i].t < Now
          /\ \A k \in 1 .. n : recv_packets[k].t \in Nat
                               /\ recv_packets[k].t < Now
          /\ \A k, l \in 1 .. n : k < l => recv_packets[k].t < recv_packets[l].t
        <3>1. WellLogged(sent_packets, recv_packets)
            BY DEF LogInv
        <3>2. /\ \A i \in 1 .. Len(sent_packets) : sent_packets[i].t \in Nat
              /\ \A k \in 1 .. n : recv_packets[k].t \in Nat
            BY <3>1, WellLoggedLines
        <3> QED
            BY <3>2 DEF LogInv, WellLogged, Rising
    <2>7. \A k, l \in 1 .. n + 1 : k < l => recv_packets'[k].t < recv_packets'[l].t
        <3> SUFFICES ASSUME NEW k \in 1 .. n + 1, NEW l \in 1 .. n + 1, k < l
                     PROVE  recv_packets'[k].t < recv_packets'[l].t
            OBVIOUS
        <3>1. k \in 1 .. n
            BY <1>0
        <3> QED
            BY <2>1, <2>3, <2>5, <2>6, <3>1
    <2>8. \A k \in 1 .. n + 1 :
             \/ recv_packets'[k].of = 0 /\ recv_packets'[k].temp = Initial
             \/ /\ recv_packets'[k].of \in 1 .. Len(sent_packets)
                /\ sent_packets[recv_packets'[k].of].temp = recv_packets'[k].temp
                /\ sent_packets[recv_packets'[k].of].t < recv_packets'[k].t
        <3>1. ASSUME NEW k \in 1 .. n
              PROVE  \/ recv_packets[k].of = 0 /\ recv_packets[k].temp = Initial
                     \/ /\ recv_packets[k].of \in 1 .. Len(sent_packets)
                        /\ sent_packets[recv_packets[k].of].temp = recv_packets[k].temp
                        /\ sent_packets[recv_packets[k].of].t < recv_packets[k].t
            BY DEF LogInv, WellLogged
        <3>2. \/ line.of = 0 /\ line.temp = Initial
              \/ /\ line.of \in 1 .. Len(sent_packets)
                 /\ sent_packets[line.of].temp = line.temp
                 /\ sent_packets[line.of].t < line.t
            BY <1>3, <2>3, <2>6 DEF Real
        <3> QED
            BY <2>1, <2>5, <3>1, <3>2
    <2>9. WellLogged(sent_packets, recv_packets)'
        BY <1>1, <2>1, <2>4, <2>7, <2>8 DEF LogInv, WellLogged, Rising
    <2>10. /\ \A i \in 1 .. Len(sent_packets)' : sent_packets'[i].t < Now'
           /\ \A k \in 1 .. Len(recv_packets)' : recv_packets'[k].t < Now'
        <3>1. \A i \in 1 .. Len(sent_packets) : sent_packets[i].t < Now + 1
            BY <2>2, <2>6
        <3>2. \A k \in 1 .. n + 1 : recv_packets'[k].t < Now + 1
            BY <2>1, <2>2, <2>3, <2>5, <2>6
        <3> QED
            BY <1>1, <2>1, <2>2, <3>1, <3>2
    <2> QED
        BY <1>4, <1>5, <2>9, <2>10 DEF LogInv
<1> QED
    BY <1>6, <1>7 DEF Recv

\* Every other step prints nothing; an answer is of the temperature of now.
LEMMA LogInvQuiet ==
    ASSUME NEW q \in Node, Peripheral = {q}, LogInv(q), TypeOK',
           UNCHANGED <<logVars, current>>,
           \/ UNCHANGED reads
           \/ reads' = << >>
           \/ reads # << >> /\ reads' = Tail(reads)
           \/ reads' = Append(reads, Asked)
           \/ reads # << >> /\ reads' = <<current[q]>> \o Tail(reads)
    PROVE  LogInv(q)'
<1>0. reads \in Seq(Value \cup {Asked}) /\ current[q] \in Value
    BY DEF LogInv, TypeOK, TempTypeOK
<1>1. UNCHANGED <<sent_packets, recv_packets, current>>
    BY DEF logVars
<1>2. \A v : Real(v)' <=> Real(v)
    BY <1>1 DEF Real
<1>3. \A k \in 1 .. Len(reads)' :
         \/ reads'[k] = Asked \/ reads'[k] = current[q]
         \/ \E j \in 1 .. Len(reads) : reads'[k] = reads[j]
    <2>1. CASE UNCHANGED reads
        BY <2>1
    <2>2. CASE reads' = << >>
        BY <2>2
    <2>3. CASE reads # << >> /\ reads' = Tail(reads)
        BY <1>0, <2>3
    <2>4. CASE reads' = Append(reads, Asked)
        <3>1. /\ Len(reads') = Len(reads) + 1 /\ reads'[Len(reads) + 1] = Asked
              /\ \A k \in 1 .. Len(reads) : reads'[k] = reads[k]
              /\ Len(reads) \in Nat
            BY <1>0, <2>4
        <3> QED
            BY <3>1
    <2>5. CASE reads # << >> /\ reads' = <<current[q]>> \o Tail(reads)
        <3>1. /\ Len(reads) \in Nat \ {0} /\ Len(reads') = Len(reads)
              /\ reads'[1] = current[q]
              /\ \A k \in 2 .. Len(reads) : reads'[k] = reads[k]
            BY <1>0, <2>5
        <3> QED
            BY <3>1
    <2> QED
        BY <2>1, <2>2, <2>3, <2>4, <2>5
<1>4. \A k \in 1 .. Len(reads)' : reads'[k] = Asked \/ Real(reads'[k])
    BY <1>3 DEF LogInv
<1>5. \A k \in 1 .. Len(reads)' : reads'[k] = Asked \/ Real(reads[k])'
    BY <1>1, <1>4 DEF Real
<1> QED
    BY <1>1, <1>2, <1>5 DEF LogInv, Now, WellLogged, Rising, Real

LEMMA LogInvStep ==
    ASSUME NEW q \in Node, Peripheral = {q}, LogInv(q), [Next]_vars
    PROVE  LogInv(q)'
<1>t. TypeOK'
    BY TypeStep DEF LogInv
<1>1. ASSUME NEW p \in Peripheral, NEW temp \in Temps, Send(p, temp)
      PROVE  LogInv(q)'
    <2>1. Send(q, temp)
        BY <1>1
    <2> QED
        BY <1>t, <2>1, LogInvSend
<1>2. CASE Recv
    BY <1>t, <1>2, LogInvRecv
<1>3. ASSUME UNCHANGED logVars,
             TempQuiet \/ (\E p \in Peripheral : DiscoverFailed(p))
                 \/ UNCHANGED tempVars
      PROVE  LogInv(q)'
    <2>1. UNCHANGED current
        BY <1>3 DEF TempQuiet, LinkStep, tempVars, CentralReady, ConnectFailed,
           ReadDue, PerformRead, ReadError, PeripheralReady, DeviceFound,
           LinkUp, Connected, PeripheralLinked, PeripheralUnlinked, Discovered,
           Disconnected, Answer, DiscoverFailed
    <2>2. \/ UNCHANGED reads
          \/ reads' = << >>
          \/ reads # << >> /\ reads' = Tail(reads)
          \/ reads' = Append(reads, Asked)
          \/ reads # << >> /\ reads' = <<current[q]>> \o Tail(reads)
        BY <1>3 DEF TempQuiet, LinkStep, tempVars, centralVars, CentralReady,
           ConnectFailed, ReadDue, PerformRead, ReadError, PeripheralReady,
           DeviceFound, LinkUp, Connected, PeripheralLinked, PeripheralUnlinked,
           Discovered, Disconnected, Answer, DiscoverFailed
    <2> QED
        BY <1>t, <1>3, <2>1, <2>2, LogInvQuiet
<1> QED
    BY <1>1, <1>2, <1>3 DEF Next, vars

\* With one peripheral, as in pt2.resc and as the script expects it, the
\* pairing by temperature and time never reports a reading as lost that
\* arrived, for logs of any length and whatever fails; when no two temperatures
\* are equal it is exact.
THEOREM LossIsRealCorrect ==
    ASSUME NEW q \in Node, Peripheral = {q}
    PROVE  Spec => []LossIsReal
<1>1. Init => LogInv(q)
    BY LogInvInit
<1>2. LogInv(q) /\ [Next]_vars => LogInv(q)'
    BY LogInvStep
<1>3. LogInv(q) => LossIsReal
    <2> SUFFICES ASSUME LogInv(q) PROVE LossIsReal
        OBVIOUS
    <2>1. WellLogged(sent_packets, recv_packets)
        BY DEF LogInv
    <2>2. /\ DOMAIN sent_packets = 1 .. Len(sent_packets)
          /\ DOMAIN recv_packets = 1 .. Len(recv_packets)
          /\ \A i \in 1 .. Len(sent_packets) : sent_packets[i].id = i
        BY <2>1, WellLoggedLines DEF WellLogged
    <2>3. Delivered = DeliveredBy(sent_packets, recv_packets, Len(recv_packets))
        BY <2>2 DEF Delivered, DeliveredBy
    <2> QED
        BY <2>1, <2>2, <2>3, PairingCorrect DEF LossIsReal
<1> QED
    BY <1>1, <1>2, <1>3, PTL DEF Spec
=============================================================================

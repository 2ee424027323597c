------------------------- MODULE ButtonFlood_proof -------------------------
(***************************************************************************)
(* What the flooding of button events guarantees for any number of boards, *)
(* links, events and failures.  On any network: the types, the connection  *)
(* table, that it holds the sender of every message, and the order in      *)
(* which TARGETs forward.  On networks without cycles around the SOURCE,   *)
(* like the rows of the Renode scripts: that messages are genuine, arrive  *)
(* once and in order, and that the network implements LatestEvent.         *)
(***************************************************************************)
EXTENDS ButtonFlood, ButtonMesh_proof

-----------------------------------------------------------------------------
(* Queues. *)

LEMMA TailType ==
    ASSUME NEW S, NEW q \in Seq(S), q # << >>
    PROVE  /\ Head(q) \in S /\ Tail(q) \in Seq(S)
           /\ Head(q) = q[1] /\ 1 \in 1 .. Len(q)
           /\ \A k \in 1 .. Len(Tail(q)) :
                  Tail(q)[k] = q[k + 1] /\ k + 1 \in 2 .. Len(q)
  BY SMT

LEMMA AppendType ==
    ASSUME NEW S, NEW q \in Seq(S), NEW d \in S
    PROVE  /\ Append(q, d) \in Seq(S)
           /\ \A k \in 1 .. Len(Append(q, d)) :
                  \/ k \in 1 .. Len(q) /\ Append(q, d)[k] = q[k]
                  \/ k = Len(q) + 1 /\ Append(q, d)[k] = d
<1>1. /\ Append(q, d) \in Seq(S) /\ Len(q) \in Nat
      /\ Len(Append(q, d)) = Len(q) + 1
      /\ \A k \in 1 .. Len(q) : Append(q, d)[k] = q[k]
      /\ Append(q, d)[Len(q) + 1] = d
  BY SMT
<1>2. \A k \in 1 .. Len(Append(q, d)) : k \in 1 .. Len(q) \/ k = Len(q) + 1
  BY <1>1, SMT
<1> QED
  BY <1>1, <1>2

LEMMA PostType ==
    ASSUME NEW n, NEW p, NEW q \in Seq(Garbage), NEW m \in Garbage
    PROVE  Post(q, n, p, m) \in Seq(Garbage)
  BY AppendType DEF Post

-----------------------------------------------------------------------------
(* The flood and the links it runs over. *)

\* The steps that send and handle messages: of what belongs to the links they
\* touch the count of failures, and a write to a null connection halts.
Quiet ==
    /\ UNCHANGED <<boot, advertising, scanning, initiating, ep, disc,
                   scan_work, default_connections, num_connections,
                   char_handles>>
    /\ halted' \in {halted, [halted EXCEPT ![Source] = "nullconn"]}
    /\ faults' \in 0 .. MaxFaults

LEMMA StepOfMesh ==
    ASSUME TableTypeOK, [Next]_vars
    PROVE  [MeshNext]_meshVars \/ Quiet
<1>0. LinkTypeOK /\ faults \in 0 .. MaxFaults
  BY DEF TableTypeOK, LinkTypeOK
<1>1. CASE Press \/ SendCheck
  BY <1>1 DEF Press, SendCheck
<1>2. CASE SendWrite
  <2>1. faults' \in 0 .. MaxFaults
    BY <1>0, <1>2, FaultType DEF SendWrite
  <2> QED
    BY <1>2, <2>1 DEF SendWrite, Quiet, tableVars
<1>3. CASE SendWriteNull
  BY <1>0, <1>3 DEF SendWriteNull, Quiet, linkVars
<1>4. ASSUME NEW n \in Node, NEW p \in Node, OnWrite(n, p) PROVE Quiet
  <2>1. faults' \in 0 .. MaxFaults
    BY <1>0, <1>4, FaultType DEF OnWrite
  <2> QED
    BY <1>4, <2>1 DEF OnWrite, Quiet, tableVars
<1>5. ASSUME NEW n \in Node, NEW p \in Node, LinkLost(n, p) PROVE MeshNext
  BY <1>5 DEF LinkLost, MeshNext
<1>6. ASSUME NEW n \in Node, NodeStep(n) PROVE MeshNext
  BY <1>6 DEF MeshNext
<1>7. ASSUME NEW n \in Node, NEW p \in Node, LinkStep(n, p) PROVE MeshNext
  BY <1>7 DEF MeshNext
<1>8. CASE UNCHANGED vars
  BY <1>8 DEF vars
<1> QED
  BY <1>1, <1>2, <1>3, <1>4, <1>5, <1>6, <1>7, <1>8 DEF Next

LEMMA QuietKeeps ==
    ASSUME MeshInv, Quiet
    PROVE  MeshInv'
<1>1. TableTypeOK /\ halted \in [Node -> Undefined]
  BY DEF MeshInv, TableInv, TableTypeOK
<1>2. halted' \in [Node -> Undefined] /\ \A n \in Node : Runs(n)' => Runs(n)
  BY <1>1, MeshAssumption DEF Quiet, Undefined, Runs
<1>3. TableTypeOK'
  BY <1>1, <1>2 DEF TableTypeOK, LinkTypeOK, Quiet
<1>4. \A n, p \in Node :
          Slots(n, p)' = Slots(n, p) /\ Live(n)' = Live(n)
  BY DEF Slots, Live, Quiet
<1>5. TableMatchesLinks'
  BY <1>2, <1>4 DEF MeshInv, TableInv, TableMatchesLinks
<1>6. DiscoversOnUp' /\ FreshHandles'
  BY <1>4 DEF MeshInv, TableInv, DiscoversOnUp, FreshHandles, Quiet
<1> QED
  BY <1>3, <1>5, <1>6 DEF MeshInv, TableInv

LEMMA FloodMeshStep == MeshInv /\ [Next]_vars => MeshInv'
<1> SUFFICES ASSUME MeshInv, [Next]_vars PROVE MeshInv'
  OBVIOUS
<1>1. TableTypeOK
  BY DEF MeshInv, TableInv
<1> QED
  BY <1>1, StepOfMesh, QuietKeeps, MeshInvNext

\* With events on their way the mesh keeps the invariant it has without them:
\* the send loop and on_write leave its table as it is.
THEOREM FloodMeshInvariant == Spec => []MeshInv
<1>1. Init => MeshInv
  BY MeshInvInit DEF Init
<1> QED
  BY <1>1, FloodMeshStep, PTL DEF Spec

-----------------------------------------------------------------------------
(* Type correctness, on any network. *)

\* Where the main thread is in its loop.
MainOK ==
    /\ pc = "write" => idx < num_connections[Source]
    /\ pc # "sleep" => timestamp >= 1

FloodTypeInv == TypeOK /\ MainOK

LEMMA NumGrows ==
    ASSUME TableTypeOK, [MeshNext]_meshVars \/ Quiet, NEW m \in Node
    PROVE  /\ num_connections[m] \in Nat /\ num_connections'[m] \in Nat
           /\ num_connections[m] <= num_connections'[m]
<1>1. CASE Quiet
  BY <1>1, UntouchedSlots DEF Quiet, SlotsKept
<1>2. CASE [MeshNext]_meshVars
  BY <1>2, SlotsKeptNext DEF SlotsKept
<1> QED
  BY <1>1, <1>2

LEMMA MeshTyped ==
    ASSUME TypeOK, [Next]_vars
    PROVE  TableTypeOK'
<1>1. TableTypeOK
  BY DEF TypeOK
<1>2. CASE Quiet
  <2>1. halted \in [Node -> Undefined]
    BY <1>1 DEF TableTypeOK
  <2>2. halted' \in [Node -> Undefined]
    BY <1>2, <2>1, MeshAssumption DEF Quiet, Undefined
  <2> QED
    BY <1>1, <1>2, <2>2 DEF TableTypeOK, LinkTypeOK, Quiet
<1> QED
  BY <1>1, <1>2, StepOfMesh, MeshNextType

\* What a board forwards goes to boards that it has in a slot.
LEMMA ForwardType ==
    ASSUME TypeOK, NEW n \in Node, NEW p \in Node, NEW lost,
           chan[p][n] # << >>, NEW msg \in Garbage
    PROVE  Forward(n, p, msg, lost) \in [Node -> [Node -> Seq(Garbage)]]
<1> DEFINE to == {default_connections[n][i] :
                      i \in SendableTo(n, FirstSlot(n, p)) \ lost}
           after == [chan EXCEPT ![p][n] = Tail(@)]
           out == [q \in Node |-> IF q \in to THEN Post(chan[n][q], n, q, msg)
                                  ELSE chan[n][q]]
<1>1. chan \in [Node -> [Node -> Seq(Garbage)]] /\ Tail(chan[p][n]) \in Seq(Garbage)
  BY TailType DEF TypeOK
<1>2. after \in [Node -> [Node -> Seq(Garbage)]]
  BY <1>1
<1> HIDE DEF to
<1>3. out \in [Node -> Seq(Garbage)]
  BY <1>1, PostType
<1>4. Forward(n, p, msg, lost) = [after EXCEPT ![n] = out]
  BY DEF Forward, to
<1> HIDE DEF after, out
<1> QED
  BY <1>2, <1>3, <1>4

LEMMA LatestType ==
    ASSUME TypeOK, timestamp >= 1
    PROVE  Latest \in Garbage
  BY PressAssumption, SMT DEF TypeOK, Latest, Garbage, Timestamp, Event, EventAt

LEMMA PressType ==
    ASSUME FloodTypeInv, Press PROVE FloodTypeInv'
<1>1. timestamp' \in 0 .. MaxPresses /\ timestamp' >= 1
  BY PressAssumption, SMT DEF FloodTypeInv, TypeOK, Press
<1>2. led' \in [Node -> BOOLEAN]
  BY DEF FloodTypeInv, TypeOK, Press
<1>3. 0 \in 0 .. MAX_CONNECTIONS
  BY TableAssumption, SMT
<1>4. TableTypeOK'
  BY MeshTyped DEF FloodTypeInv, Next
<1> QED
  BY <1>1, <1>2, <1>3, <1>4 DEF FloodTypeInv, TypeOK, MainOK, Press

LEMMA SendCheckType ==
    ASSUME FloodTypeInv, SendCheck PROVE FloodTypeInv'
<1>1. /\ num_connections[Source] \in 0 .. MAX_CONNECTIONS
      /\ idx \in 0 .. MAX_CONNECTIONS
      /\ UNCHANGED num_connections
  BY MeshAssumption
  DEF FloodTypeInv, TypeOK, TableTypeOK, SendCheck, meshVars, tableVars
<1>2. idx' \in 0 .. MAX_CONNECTIONS
  BY <1>1, TableAssumption, SMT DEF SendCheck, LoopDone
<1>3. pc' = "write" => idx' < num_connections'[Source]
  BY <1>1, TableAssumption, SMT DEF SendCheck, LoopDone
<1>4. pc' \in {"sleep", "check", "write"} /\ timestamp' >= 1
  BY DEF FloodTypeInv, MainOK, SendCheck
<1>5. TableTypeOK'
  BY MeshTyped DEF FloodTypeInv, Next
<1> QED
  BY <1>2, <1>3, <1>4, <1>5 DEF FloodTypeInv, TypeOK, MainOK, SendCheck

LEMMA SendWriteType ==
    ASSUME FloodTypeInv, SendWrite PROVE FloodTypeInv'
<1>0. TypeOK /\ TableTypeOK /\ Source \in Node
  BY MeshAssumption DEF FloodTypeInv, TypeOK
<1>1. /\ num_connections[Source] \in 0 .. MAX_CONNECTIONS
      /\ idx \in 0 .. MAX_CONNECTIONS /\ idx < num_connections[Source]
      /\ timestamp >= 1
  BY <1>0 DEF FloodTypeInv, TypeOK, TableTypeOK, MainOK, SendWrite
<1>2. idx + 1 \in 0 .. MAX_CONNECTIONS /\ idx \in Slot
  BY <1>1, TableAssumption, SMT DEF Slot
<1>3. default_connections[Source][idx] \in Node
  BY <1>0, <1>2 DEF TableTypeOK, SendWrite
<1>4. chan' \in [Node -> [Node -> Seq(Garbage)]]
  <2>1. chan \in [Node -> [Node -> Seq(Garbage)]]
    BY <1>0 DEF TypeOK
  <2>2. CASE UNCHANGED chan
    BY <2>1, <2>2
  <2>3. CASE \E m \in IF clobbered THEN Garbage ELSE {Latest} :
                 chan' = [chan EXCEPT ![Source][default_connections[Source][idx]] =
                              Post(@, Source, default_connections[Source][idx], m)]
    <3>1. PICK m \in Garbage :
              chan' = [chan EXCEPT ![Source][default_connections[Source][idx]] =
                           Post(@, Source, default_connections[Source][idx], m)]
      BY <2>3, <1>0, <1>1, LatestType
    <3>2. Post(chan[Source][default_connections[Source][idx]], Source,
               default_connections[Source][idx], m) \in Seq(Garbage)
      BY <2>1, <1>0, <1>3, PostType
    <3> QED
      BY <2>1, <3>1, <3>2
  <2> QED
    BY <2>2, <2>3 DEF SendWrite
<1>5. TableTypeOK'
  BY <1>0, MeshTyped DEF Next
<1> QED
  BY <1>1, <1>2, <1>4, <1>5 DEF FloodTypeInv, TypeOK, MainOK, SendWrite

LEMMA OnWriteType ==
    ASSUME FloodTypeInv, NEW n \in Node, NEW p \in Node, OnWrite(n, p)
    PROVE  FloodTypeInv'
<1>0. TypeOK /\ TableTypeOK'
  BY MeshTyped DEF FloodTypeInv, Next
<1>1. /\ chan \in [Node -> [Node -> Seq(Garbage)]] /\ chan[p][n] # << >>
      /\ lastTimestamp \in [Node -> Timestamp] /\ led \in [Node -> BOOLEAN]
  BY <1>0 DEF TypeOK, OnWrite
<1>2. Head(chan[p][n]) \in Garbage /\ Tail(chan[p][n]) \in Seq(Garbage)
  BY <1>1, TailType
<1>3. chan' \in [Node -> [Node -> Seq(Garbage)]]
  <2>1. CASE chan' = [chan EXCEPT ![p][n] = Tail(@)]
    BY <1>1, <1>2, <2>1
  <2>2. ASSUME NEW lost, chan' = Forward(n, p, Head(chan[p][n]), lost)
        PROVE  chan' \in [Node -> [Node -> Seq(Garbage)]]
    BY <1>0, <1>1, <1>2, <2>2, ForwardType
  <2>3. \/ chan' = [chan EXCEPT ![p][n] = Tail(@)]
        \/ chan' = Forward(n, p, Head(chan[p][n]), {})
        \/ \E i \in SendableTo(n, FirstSlot(n, p)) :
               chan' = Forward(n, p, Head(chan[p][n]), {i})
    BY DEF OnWrite
  <2> QED
    BY <2>1, <2>2, <2>3
<1>4. lastTimestamp' \in [Node -> Timestamp]
  <2>1. Head(chan[p][n]).timestamp \in Timestamp
    BY <1>2, SMT DEF Garbage
  <2> QED
    BY <1>1, <2>1 DEF OnWrite
<1>5. led' \in [Node -> BOOLEAN]
  BY <1>1 DEF OnWrite, Lights
<1>6. clobbered' \in BOOLEAN
  BY <1>0 DEF OnWrite, TypeOK
<1>7. UNCHANGED <<timestamp, pc, idx, num_connections>>
  BY DEF OnWrite, tableVars
<1> QED
  BY <1>0, <1>3, <1>4, <1>5, <1>6, <1>7 DEF FloodTypeInv, TypeOK, MainOK

LEMMA LinkLostType ==
    ASSUME FloodTypeInv, NEW n \in Node, NEW p \in Node, LinkLost(n, p)
    PROVE  FloodTypeInv'
<1>0. TypeOK /\ TableTypeOK'
  BY MeshTyped DEF FloodTypeInv, Next
<1>1. chan' \in [Node -> [Node -> Seq(Garbage)]]
  <2>1. << >> \in Seq(Garbage)
    BY SMT
  <2> QED
    BY <1>0, <2>1 DEF TypeOK, LinkLost
<1>2. UNCHANGED <<lastTimestamp, led, timestamp, pc, idx, clobbered,
                  num_connections>>
  BY DEF LinkLost, Disconnected, LinkClosed
<1> QED
  BY <1>0, <1>1, <1>2 DEF FloodTypeInv, TypeOK, MainOK

\* Steps that leave the messages alone.
LEMMA AsideType ==
    ASSUME FloodTypeInv, [Next]_vars, UNCHANGED msgVars
    PROVE  FloodTypeInv'
<1>1. TypeOK /\ TableTypeOK /\ TableTypeOK'
  BY MeshTyped DEF FloodTypeInv, TypeOK
<1>2. /\ num_connections[Source] \in Nat /\ num_connections'[Source] \in Nat
      /\ num_connections[Source] <= num_connections'[Source]
  BY <1>1, StepOfMesh, NumGrows, MeshAssumption
<1>3. idx \in Int
  BY <1>1, SMT DEF TypeOK
<1>4. pc' = "write" => idx' < num_connections'[Source]
  <2>1. UNCHANGED <<pc, idx>>
    BY DEF msgVars
  <2>2. pc = "write" => idx < num_connections[Source]
    BY DEF FloodTypeInv, MainOK
  <2> QED
    BY <1>2, <1>3, <2>1, <2>2, SMT
<1> QED
  BY <1>1, <1>4 DEF FloodTypeInv, TypeOK, MainOK, msgVars

LEMMA FloodTypeStep == FloodTypeInv /\ [Next]_vars => FloodTypeInv'
<1> SUFFICES ASSUME FloodTypeInv, [Next]_vars PROVE FloodTypeInv'
  OBVIOUS
<1>1. CASE UNCHANGED msgVars
  BY <1>1, AsideType
<1>2. CASE SendWriteNull
  BY <1>1, <1>2 DEF SendWriteNull
<1>3. CASE UNCHANGED vars
  BY <1>1, <1>3 DEF vars
<1> QED
  BY <1>1, <1>2, <1>3, PressType, SendCheckType, SendWriteType, OnWriteType,
     LinkLostType
  DEF Next

LEMMA FloodTypeInit == Init => FloodTypeInv
<1> SUFFICES ASSUME Init PROVE FloodTypeInv
  OBVIOUS
<1>1. /\ << >> \in Seq(Garbage) /\ 0 \in 0 .. MAX_CONNECTIONS
      /\ 0 \in 0 .. MaxPresses /\ 0 \in Timestamp
  BY PressAssumption, TableAssumption, SMT DEF Timestamp
<1>2. chan \in [Node -> [Node -> Seq(Garbage)]]
  BY <1>1 DEF Init
<1> QED
  BY <1>1, <1>2, TableInitType DEF FloodTypeInv, TypeOK, MainOK, Init

\* On any network messages, timestamps and the indices of the send loop stay in
\* their ranges, whatever is written through a clobbered parameter.
THEOREM FloodTypeCorrect == Spec => []TypeOK
<1>1. FloodTypeInv => TypeOK
  BY DEF FloodTypeInv
<1> QED
  BY <1>1, FloodTypeInit, FloodTypeStep, PTL DEF Spec

-----------------------------------------------------------------------------
(* What the steps do to the ends of the links, and to the boards in them. *)

\* How a step may change an end of a link, and with it the slots.
EndMoves(m, q) ==
    \/ ep'[m][q] = ep[m][q] /\ Slots(m, q)' \subseteq Slots(m, q)
    \/ /\ ep[m][q] = "down" /\ ep[q][m] = "down" /\ ep'[m][q] = "pending"
       /\ initiating[m] = q \/ initiating[q] = m
       /\ Slots(m, q)' \subseteq Slots(m, q)
    \/ ep[m][q] = "pending" /\ ep'[m][q] \in {"up", "closing"}

LEMMA LinkUpMoves ==
    ASSUME LinkTypeOK, NEW n \in Node, NEW p \in Node, LinkUp(n, p)
    PROVE  \A m, q \in Node : EndMoves(m, q)
<1> SUFFICES ASSUME NEW m \in Node, NEW q \in Node PROVE EndMoves(m, q)
  OBVIOUS
<1>1. Slots(m, q)' = Slots(m, q)
  BY DEF Slots, LinkUp, tableVars
<1>2. /\ initiating[n] = p /\ ep[n][p] = "down" /\ ep[p][n] = "down"
      /\ ep' = [ep EXCEPT ![n][p] = "pending", ![p][n] = "pending"]
  BY DEF LinkUp, Establish, Accepts
<1>3. \/ ep'[m][q] = ep[m][q]
      \/ m = n /\ q = p /\ ep'[m][q] = "pending"
      \/ m = p /\ q = n /\ ep'[m][q] = "pending"
  BY <1>2 DEF LinkTypeOK
<1> QED
  BY <1>1, <1>2, <1>3 DEF EndMoves

LEMMA StepMoves ==
    ASSUME MeshInv, [Next]_vars, ~(\E n, p \in Node : LinkLost(n, p))
    PROVE  \A m, q \in Node : EndMoves(m, q)
<1>0. TableInv /\ TableTypeOK /\ LinkTypeOK
  BY DEF MeshInv, TableInv, TableTypeOK
<1>1. CASE /\ ep' = ep
           /\ UNCHANGED <<default_connections, num_connections>>
  BY <1>1 DEF EndMoves, Slots
<1>2. ASSUME NEW n \in Node, NEW p \in Node, LinkUp(n, p)
      PROVE  \A m, q \in Node : EndMoves(m, q)
  BY <1>0, <1>2, LinkUpMoves
<1>3. ASSUME NEW n \in Node, NEW p \in Node, Connected(n, p)
      PROVE  \A m, q \in Node : EndMoves(m, q)
  <2> TAKE m, q \in Node
  <2>1. CASE <<m, q>> = <<n, p>>
    BY <1>0, <1>3, <2>1, ConnectedSlots DEF EndMoves, Connected
  <2>2. CASE <<m, q>> # <<n, p>>
    BY <1>0, <1>3, <2>2, ConnectedSlots DEF EndMoves
  <2> QED
    BY <2>1, <2>2
<1>4. ASSUME NEW n \in Node, NEW p \in Node, ConnectedOverrun(n, p)
      PROVE  \A m, q \in Node : EndMoves(m, q)
  <2>1. ep[n][p] = "pending" /\ ep' = [ep EXCEPT ![n][p] = "up"]
    BY <1>4 DEF ConnectedOverrun
  <2>2. \A m, q \in Node : Slots(m, q)' = Slots(m, q)
    BY <1>4 DEF ConnectedOverrun, Slots
  <2>3. \A m, q \in Node : \/ ep'[m][q] = ep[m][q]
                           \/ m = n /\ q = p /\ ep'[m][q] = "up"
    BY <1>0, <2>1 DEF LinkTypeOK
  <2> QED
    BY <2>1, <2>2, <2>3 DEF EndMoves
<1>5. CASE Press \/ SendCheck \/ SendWriteNull \/ UNCHANGED vars
  BY <1>1, <1>5
  DEF Press, SendCheck, SendWriteNull, vars, meshVars, linkVars, tableVars
<1>6. CASE SendWrite \/ \E n, p \in Node : OnWrite(n, p)
  BY <1>1, <1>6 DEF SendWrite, OnWrite, tableVars
<1>7. ASSUME NEW n \in Node, NodeStep(n)
      PROVE  ep' = ep /\ UNCHANGED <<default_connections, num_connections>>
  BY <1>7
  DEF NodeStep, BtReady, ScanWorkHandler, ConnectFailed, CreateFails, tableVars
<1>8. ASSUME NEW n \in Node, NEW p \in Node, LinkStep(n, p), ~LinkUp(n, p),
             ~Connected(n, p), ~ConnectedOverrun(n, p)
      PROVE  ep' = ep /\ UNCHANGED <<default_connections, num_connections>>
  BY <1>8 DEF LinkStep, DeviceFound, DiscoverFound, DiscoverError
<1> QED
  BY <1>1, <1>2, <1>3, <1>4, <1>5, <1>6, <1>7, <1>8 DEF Next

LEMMA InRangeStep == MeshInv /\ InRange /\ [Next]_vars => InRange'
<1> SUFFICES ASSUME MeshInv, InRange, [Next]_vars PROVE InRange'
  OBVIOUS
<1>0. LinkTypeOK
  BY DEF MeshInv, TableInv, TableTypeOK
<1>1. CASE UNCHANGED <<ep, initiating>>
  BY <1>1 DEF InRange
<1>2. ASSUME NEW n \in Node, NEW p \in Node, TableStep(n, p) PROVE InRange'
  BY <1>0, <1>2, TableStepInRange
<1>3. ASSUME NEW n \in Node, NEW p \in Node, LinkLost(n, p) PROVE InRange'
  BY <1>0, <1>3, LinkClosedInRange DEF LinkLost, Disconnected
<1>4. CASE \/ \E n \in Node : BtReady(n)
           \/ \E n, p \in Node : DiscoverFound(n, p) \/ DiscoverError(n, p)
  BY <1>1, <1>4 DEF BtReady, DiscoverFound, DiscoverError
<1>5. CASE Press \/ SendCheck \/ SendWriteNull \/ UNCHANGED vars
  BY <1>1, <1>5 DEF Press, SendCheck, SendWriteNull, vars, meshVars, linkVars
<1>6. CASE SendWrite \/ \E n, p \in Node : OnWrite(n, p)
  BY <1>1, <1>6 DEF SendWrite, OnWrite
<1> QED
  BY <1>2, <1>3, <1>4, <1>5, <1>6 DEF Next, NodeStep, LinkStep, TableStep

-----------------------------------------------------------------------------
(* What the steps do to the queues, on a network without cycles. *)

\* The tree of the network: up leads every board one hop towards the SOURCE.
Tree(up) == Rooted(up, Source, Neighbours)

\* A slot that is sent to leads to a board in range, and not to the one whose
\* slot is skipped.
LEMMA SlotSentTo ==
    ASSUME MeshInv, InRange, NEW n \in Node, NEW p \in Node,
           NEW i \in SendableTo(n, FirstSlot(n, p))
    PROVE  /\ default_connections[n][i] \in Neighbours[n]
           /\ default_connections[n][i] \in Node
           /\ default_connections[n][i] # p
           /\ ep[n][default_connections[n][i]] \in {"up", "closing"}
<1>1. TableTypeOK /\ TableMatchesLinks
  BY DEF MeshInv, TableInv
<1> DEFINE q == default_connections[n][i]
<1>2. i \in Slot /\ i < num_connections[n] /\ i \notin FirstSlot(n, p)
      /\ q # NoPeer
  BY DEF SendableTo, Sendable
<1>3. q \in Node
  BY <1>1, <1>2 DEF TableTypeOK
<1>4. i \in Slots(n, q)
  BY <1>2 DEF Slots
<1>5. ep[n][q] \in {"up", "closing"}
  BY <1>1, <1>3, <1>4 DEF TableMatchesLinks, Live
<1>6. q \in Neighbours[n]
  BY <1>3, <1>5 DEF InRange
<1>7. q # p
  <2> SUFFICES ASSUME q = p PROVE i \in FirstSlot(n, p)
    BY <1>2
  <2>1. i \in Slots(n, p) /\ \A j \in Slots(n, p) : j = i
    BY <1>1, <1>3, <1>4 DEF TableMatchesLinks
  <2>2. i \in Int
    BY <1>2, TableAssumption, SMT DEF Slot
  <2>3. i <= i
    BY <2>2, SMT
  <2> QED
    BY <2>1, <2>3 DEF FirstSlot
<1> QED
  BY <1>3, <1>5, <1>6, <1>7

\* The slot whose turn it is in the send loop of the SOURCE.
LEMMA SlotOfTurn ==
    ASSUME FloodTypeInv, MeshInv, InRange, pc = "write",
           default_connections[Source][idx] # NoPeer
    PROVE  /\ idx \in Slots(Source, default_connections[Source][idx])
           /\ default_connections[Source][idx] \in Neighbours[Source]
           /\ default_connections[Source][idx] \in Node
           /\ ep[Source][default_connections[Source][idx]] \in {"up", "closing"}
<1> DEFINE p == default_connections[Source][idx]
<1>1. TableTypeOK /\ TableMatchesLinks /\ Source \in Node
  BY MeshAssumption DEF MeshInv, TableInv
<1>2. /\ num_connections[Source] \in 0 .. MAX_CONNECTIONS
      /\ idx \in 0 .. MAX_CONNECTIONS /\ idx < num_connections[Source]
  BY <1>1 DEF FloodTypeInv, TypeOK, TableTypeOK, MainOK
<1>3. idx \in Slot
  BY <1>2, TableAssumption, SMT DEF Slot
<1>4. p \in Node
  BY <1>1, <1>3 DEF TableTypeOK
<1>5. idx \in Slots(Source, p)
  BY <1>2, <1>3 DEF Slots
<1>6. ep[Source][p] \in {"up", "closing"}
  BY <1>1, <1>4, <1>5 DEF TableMatchesLinks, Live
<1> QED
  BY <1>1, <1>4, <1>5, <1>6 DEF InRange

\* Forwarding takes the handled message off its queue and adds it to the queues
\* of the slots it is sent to.
LEMMA ForwardEffect ==
    ASSUME chan \in [Node -> [Node -> Seq(Garbage)]], NEW n \in Node,
           NEW p \in Node, n # p, NEW msg, NEW lost,
           chan' = Forward(n, p, msg, lost)
    PROVE  /\ chan'[p][n] = Tail(chan[p][n])
           /\ \A q \in Node :
                 \/ chan'[n][q] = chan[n][q]
                 \/ /\ chan'[n][q] = Append(chan[n][q], msg)
                    /\ ep[q][n] # "down"
                    /\ \E i \in SendableTo(n, FirstSlot(n, p)) :
                           default_connections[n][i] = q
           /\ \A m, q \in Node : m # n /\ <<m, q>> # <<p, n>> =>
                 chan'[m][q] = chan[m][q]
<1> DEFINE to == {default_connections[n][i] :
                      i \in SendableTo(n, FirstSlot(n, p)) \ lost}
           after == [chan EXCEPT ![p][n] = Tail(@)]
           out == [q \in Node |-> IF q \in to THEN Post(chan[n][q], n, q, msg)
                                  ELSE chan[n][q]]
<1>1. chan' = [after EXCEPT ![n] = out]
  BY DEF Forward
<1>2. after[p][n] = Tail(chan[p][n])
      /\ \A m, q \in Node : <<m, q>> # <<p, n>> => after[m][q] = chan[m][q]
  OBVIOUS
<1>3. chan'[n] = out /\ \A m \in Node : m # n => chan'[m] = after[m]
  <2>1. DOMAIN after = Node
    OBVIOUS
  <2> HIDE DEF after, out
  <2> QED
    BY <1>1, <2>1
<1>4. \A q \in to : \E i \in SendableTo(n, FirstSlot(n, p)) :
          default_connections[n][i] = q
  OBVIOUS
<1>5. \A q \in Node :
          \/ out[q] = chan[n][q]
          \/ q \in to /\ ep[q][n] # "down" /\ out[q] = Append(chan[n][q], msg)
  <2> HIDE DEF to
  <2> QED
    BY DEF Post
<1> HIDE DEF to, after, out
<1>6. chan'[p][n] = Tail(chan[p][n])
  BY <1>2, <1>3
<1>7. ASSUME NEW q \in Node
      PROVE  \/ chan'[n][q] = chan[n][q]
             \/ /\ chan'[n][q] = Append(chan[n][q], msg)
                /\ ep[q][n] # "down"
                /\ \E i \in SendableTo(n, FirstSlot(n, p)) :
                       default_connections[n][i] = q
  BY <1>3, <1>4, <1>5
<1>8. \A m, q \in Node : m # n /\ <<m, q>> # <<p, n>> =>
          chan'[m][q] = chan[m][q]
  BY <1>2, <1>3
<1> QED
  BY <1>6, <1>7, <1>8

-----------------------------------------------------------------------------
(* Messages are genuine and run away from the SOURCE. *)

\* The messages of queue q are events numbered below t.
TrueIn(q, t) ==
    \A k \in 1 .. Len(q) :
        q[k].timestamp < t /\ q[k].event = EventAt(q[k].timestamp)

LEMMA TrueTail ==
    ASSUME NEW q \in Seq(Garbage), q # << >>, NEW t, TrueIn(q, t)
    PROVE  /\ TrueIn(Tail(q), t)
           /\ Head(q).timestamp < t
           /\ Head(q).event = EventAt(Head(q).timestamp)
<1>1. \A k \in 2 .. Len(q) : k \in 1 .. Len(q)
  BY SMT
<1> QED
  BY <1>1, TailType DEF TrueIn

LEMMA TrueAppend ==
    ASSUME NEW q \in Seq(Garbage), NEW t, TrueIn(q, t), NEW m \in Garbage,
           m.timestamp < t, m.event = EventAt(m.timestamp)
    PROVE  TrueIn(Append(q, m), t)
  BY AppendType DEF TrueIn

LEMMA TrueLater ==
    ASSUME NEW q \in Seq(Garbage), NEW t \in Int, TrueIn(q, t)
    PROVE  TrueIn(q, t + 1)
<1>1. \A k \in 1 .. Len(q) : q[k].timestamp \in Int
  <2>1. \A k \in 1 .. Len(q) : q[k] \in Garbage
    BY SMT
  <2>2. \A m \in Garbage : m.timestamp \in Int
    BY PressAssumption, SMT DEF Garbage, Timestamp
  <2> QED
    BY <2>1, <2>2
<1>2. \A a \in Int : a < t => a < t + 1
  BY SMT
<1> QED
  BY <1>1, <1>2 DEF TrueIn

LEMMA TrueEmpty == \A t : TrueIn(<< >>, t)
<1>1. \A k \in 1 .. Len(<< >>) : FALSE
  BY SMT
<1> QED
  BY <1>1 DEF TrueIn

\* The messages from n to p are events that the SOURCE produced, and n is the
\* one of the two that is nearer to the SOURCE.
Sound(up, n, p) ==
    /\ TrueIn(chan[n][p], timestamp)
    /\ chan[n][p] # << >> => up[p] = n

\* Hence no callback of the SOURCE ever redirects what its send loop writes.
FloodInv(up) ==
    /\ FloodTypeInv /\ MeshInv /\ InRange
    /\ ~clobbered
    /\ \A n, p \in Node : Sound(up, n, p)

\* A board handles messages of the one board that is nearer to the SOURCE.
LEMMA Upstream ==
    ASSUME NEW up, Tree(up), FloodInv(up), NEW n \in Node, NEW p \in Node,
           OnWrite(n, p)
    PROVE  /\ up[n] = p /\ n # Source /\ n # p
           /\ chan \in [Node -> [Node -> Seq(Garbage)]] /\ chan[p][n] # << >>
           /\ Head(chan[p][n]) \in Garbage
           /\ Head(chan[p][n]).timestamp < timestamp
           /\ Head(chan[p][n]).event = EventAt(Head(chan[p][n]).timestamp)
<1>1. chan \in [Node -> [Node -> Seq(Garbage)]] /\ chan[p][n] # << >>
  BY DEF FloodInv, FloodTypeInv, TypeOK, OnWrite
<1>2. up[n] = p /\ up[Source] = NoPeer /\ p # NoPeer
  BY <1>1, RadioAssumption DEF FloodInv, Sound, Tree, Rooted
<1>3. p \in Neighbours[n] /\ n \notin Neighbours[n]
  BY RadioAssumption DEF FloodInv, InRange, OnWrite
<1>4. TrueIn(chan[p][n], timestamp)
  BY DEF FloodInv, Sound
<1> QED
  BY <1>1, <1>2, <1>3, <1>4, TrueTail, TailType

\* A board sends to boards that are farther from the SOURCE than it is.
LEMMA SendsDown ==
    ASSUME NEW up, Tree(up), FloodInv(up), NEW n \in Node, NEW p \in Node,
           up[n] = p, NEW q \in Node,
           \E i \in SendableTo(n, FirstSlot(n, p)) :
               default_connections[n][i] = q
    PROVE  up[q] = n /\ ep[n][q] # "pending"
<1>1. q \in Neighbours[n] /\ q # p /\ ep[n][q] \in {"up", "closing"}
  BY SlotSentTo DEF FloodInv
<1> QED
  BY <1>1 DEF Tree, Rooted

LEMMA PressSound ==
    ASSUME NEW up, FloodInv(up), Press
    PROVE  ~clobbered' /\ \A n, p \in Node : Sound(up, n, p)'
<1>1. /\ UNCHANGED <<chan, clobbered>> /\ timestamp' = timestamp + 1
      /\ timestamp \in Int /\ chan \in [Node -> [Node -> Seq(Garbage)]]
      /\ ~clobbered
  BY PressAssumption, SMT
  DEF Press, FloodInv, FloodTypeInv, TypeOK
<1> QED
  BY <1>1, TrueLater DEF FloodInv, Sound

\* What a step of the send loop writes, and to whom.
LEMMA SendWriteEffect ==
    ASSUME NEW up, Tree(up), FloodInv(up), SendWrite,
           NEW d, d = default_connections[Source][idx]
    PROVE  /\ d \in Node /\ Source \in Node /\ up[d] = Source
           /\ idx \in Slots(Source, d) /\ idx \in Int
           /\ Latest \in Garbage /\ Latest.timestamp = timestamp - 1
           /\ Latest.event = EventAt(Latest.timestamp)
           /\ timestamp \in Int /\ timestamp - 1 < timestamp
           /\ chan \in [Node -> [Node -> Seq(Garbage)]]
           /\ \A n, p \in Node :
                 \/ chan'[n][p] = chan[n][p]
                 \/ /\ n = Source /\ p = d
                    /\ chan'[n][p] = Append(chan[n][p], Latest)
                    /\ ep[p][n] # "down" /\ ep[n][p] # "pending"
<1>1. /\ FloodTypeInv /\ MeshInv /\ InRange /\ TypeOK
      /\ ~clobbered /\ pc = "write" /\ timestamp >= 1
      /\ timestamp \in Int /\ idx \in Int /\ timestamp - 1 < timestamp
      /\ chan \in [Node -> [Node -> Seq(Garbage)]]
  BY PressAssumption, TableAssumption, SMT
  DEF SendWrite, FloodInv, FloodTypeInv, TypeOK, MainOK
<1>2. /\ d \in Node /\ d \in Neighbours[Source] /\ Source \in Node
      /\ up[Source] = NoPeer /\ d # NoPeer
      /\ ep[Source][d] \in {"up", "closing"} /\ idx \in Slots(Source, d)
  BY <1>1, SlotOfTurn, RadioAssumption, MeshAssumption
  DEF SendWrite, Tree, Rooted
<1>3. up[d] = Source
  BY <1>2 DEF Tree, Rooted
<1>4. /\ Latest \in Garbage /\ Latest.timestamp = timestamp - 1
      /\ Latest.event = EventAt(Latest.timestamp)
  BY <1>1, LatestType DEF Latest
<1>5. \/ UNCHANGED chan
      \/ chan' = [chan EXCEPT ![Source][d] = Post(@, Source, d, Latest)]
  BY <1>1 DEF SendWrite
<1>6. \/ Post(chan[Source][d], Source, d, Latest) = chan[Source][d]
      \/ /\ Post(chan[Source][d], Source, d, Latest)
                = Append(chan[Source][d], Latest)
         /\ ep[d][Source] # "down"
  BY DEF Post
<1>7. \A n, p \in Node :
          \/ chan'[n][p] = chan[n][p]
          \/ /\ n = Source /\ p = d
             /\ chan'[n][p] = Append(chan[n][p], Latest)
             /\ ep[p][n] # "down" /\ ep[n][p] # "pending"
  <2>1. CASE UNCHANGED chan
    BY <2>1
  <2>2. CASE chan' = [chan EXCEPT ![Source][d] = Post(@, Source, d, Latest)]
    <3>1. \A n, p \in Node :
              chan'[n][p] = IF n = Source /\ p = d
                            THEN Post(chan[Source][d], Source, d, Latest)
                            ELSE chan[n][p]
      BY <1>1, <1>2, <2>2
    <3> QED
      BY <1>2, <1>6, <3>1
  <2> QED
    BY <1>5, <2>1, <2>2
<1> QED
  BY <1>1, <1>2, <1>3, <1>4, <1>7

LEMMA SendWriteSound ==
    ASSUME NEW up, Tree(up), FloodInv(up), SendWrite
    PROVE  ~clobbered' /\ \A n, p \in Node : Sound(up, n, p)'
<1>1. ~clobbered' /\ UNCHANGED timestamp
  BY DEF SendWrite
<1>2. ASSUME NEW n \in Node, NEW p \in Node PROVE Sound(up, n, p)'
  <2>1. Sound(up, n, p)
    BY DEF FloodInv
  <2>2. CASE chan'[n][p] = chan[n][p]
    BY <1>1, <2>1, <2>2 DEF Sound
  <2>3. CASE chan'[n][p] # chan[n][p]
    <3>1. /\ chan'[n][p] = Append(chan[n][p], Latest) /\ up[p] = n
          /\ Latest \in Garbage /\ Latest.timestamp < timestamp
          /\ Latest.event = EventAt(Latest.timestamp)
          /\ chan[n][p] \in Seq(Garbage)
      BY <2>3, SendWriteEffect
    <3> QED
      BY <1>1, <2>1, <3>1, TrueAppend DEF Sound
  <2> QED
    BY <2>2, <2>3
<1> QED
  BY <1>1, <1>2

\* Handling a message takes it off its queue; a newer one is added to queues
\* to boards that are farther from the SOURCE.
LEMMA OnWriteEffect ==
    ASSUME NEW up, Tree(up), FloodInv(up), NEW n \in Node, NEW p \in Node,
           OnWrite(n, p)
    PROVE  /\ chan'[p][n] = Tail(chan[p][n])
           /\ \A m, q \in Node :
                 \/ chan'[m][q] = chan[m][q]
                 \/ m = p /\ q = n
                 \/ /\ m = n /\ up[q] = n /\ Newer(n, Head(chan[p][n]))
                    /\ chan'[m][q] = Append(chan[m][q], Head(chan[p][n]))
                    /\ ep[q][m] # "down" /\ ep[m][q] # "pending"
<1> DEFINE msg == Head(chan[p][n])
           Added(m, q) == /\ m = n /\ up[q] = n /\ Newer(n, msg)
                          /\ chan'[m][q] = Append(chan[m][q], msg)
                          /\ ep[q][m] # "down" /\ ep[m][q] # "pending"
<1>1. /\ up[n] = p /\ n # Source /\ n # p
      /\ chan \in [Node -> [Node -> Seq(Garbage)]]
  BY Upstream
<1>2. CASE chan' = [chan EXCEPT ![p][n] = Tail(@)]
  BY <1>1, <1>2
<1>3. ASSUME NEW lost, chan' = Forward(n, p, msg, lost), Newer(n, msg)
      PROVE  /\ chan'[p][n] = Tail(chan[p][n])
             /\ \A m, q \in Node : \/ chan'[m][q] = chan[m][q]
                                   \/ m = p /\ q = n
                                   \/ Added(m, q)
  <2> SUFFICES ASSUME NEW m \in Node, NEW q \in Node
               PROVE  /\ chan'[p][n] = Tail(chan[p][n])
                      /\ \/ chan'[m][q] = chan[m][q]
                         \/ m = p /\ q = n
                         \/ Added(m, q)
    OBVIOUS
  <2>1. \/ chan'[n][q] = chan[n][q]
        \/ /\ chan'[n][q] = Append(chan[n][q], msg)
           /\ ep[q][n] # "down"
           /\ \E i \in SendableTo(n, FirstSlot(n, p)) :
                  default_connections[n][i] = q
    BY <1>1, <1>3, ForwardEffect
  <2>2. (\E i \in SendableTo(n, FirstSlot(n, p)) :
             default_connections[n][i] = q)
            => up[q] = n /\ ep[n][q] # "pending"
    <3>1. up[n] = p
      BY <1>1
    <3> QED
      BY <3>1, SendsDown
  <2>3. CASE m = n
    BY <1>1, <1>3, <2>1, <2>2, <2>3, ForwardEffect
  <2>4. CASE m # n
    BY <1>1, <1>3, <2>4, ForwardEffect
  <2> QED
    BY <2>3, <2>4
<1>4. \/ chan' = [chan EXCEPT ![p][n] = Tail(@)]
      \/ chan' = Forward(n, p, msg, {}) /\ Newer(n, msg)
      \/ \E i \in SendableTo(n, FirstSlot(n, p)) :
             chan' = Forward(n, p, msg, {i}) /\ Newer(n, msg)
  BY DEF OnWrite
<1> QED
  BY <1>2, <1>3, <1>4

LEMMA OnWriteSound ==
    ASSUME NEW up, Tree(up), FloodInv(up), NEW n \in Node, NEW p \in Node,
           OnWrite(n, p)
    PROVE  ~clobbered' /\ \A m, q \in Node : Sound(up, m, q)'
<1> DEFINE msg == Head(chan[p][n])
<1>1. /\ up[n] = p /\ n # Source
      /\ chan \in [Node -> [Node -> Seq(Garbage)]] /\ chan[p][n] # << >>
      /\ msg \in Garbage /\ msg.timestamp < timestamp
      /\ msg.event = EventAt(msg.timestamp)
  BY Upstream
<1>2. ~clobbered' /\ UNCHANGED timestamp
  <2>1. \/ UNCHANGED clobbered
        \/ clobbered' = (clobbered \/ (n = Source /\ pc = "write"
                              /\ idx \in SendableTo(n, FirstSlot(n, p))))
    BY Zenon DEF OnWrite
  <2>2. UNCHANGED timestamp
    BY DEF OnWrite
  <2>3. ~clobbered
    BY DEF FloodInv
  <2>4. n # Source
    BY <1>1
  <2>5. ~clobbered'
    BY <2>1, <2>3, <2>4
  <2> QED
    BY <2>2, <2>5
<1>3. ASSUME NEW m \in Node, NEW q \in Node PROVE Sound(up, m, q)'
  <2>1. Sound(up, m, q) /\ chan[m][q] \in Seq(Garbage)
    BY <1>1 DEF FloodInv
  <2> HIDE DEF msg
  <2>2. CASE chan'[m][q] = chan[m][q]
    BY <1>2, <2>1, <2>2 DEF Sound
  <2>3. CASE m = p /\ q = n
    BY <1>1, <1>2, <2>1, <2>3, TrueTail, OnWriteEffect DEF Sound
  <2>4. CASE chan'[m][q] = Append(chan[m][q], msg) /\ m = n /\ up[q] = n
    BY <1>1, <1>2, <2>1, <2>4, TrueAppend DEF Sound
  <2> QED
    BY <2>2, <2>3, <2>4, OnWriteEffect DEF msg
<1> QED
  BY <1>2, <1>3

LEMMA LinkLostSound ==
    ASSUME NEW up, FloodInv(up), NEW n \in Node, NEW p \in Node,
           LinkLost(n, p)
    PROVE  ~clobbered' /\ \A m, q \in Node : Sound(up, m, q)'
<1>1. /\ chan \in [Node -> [Node -> Seq(Garbage)]] /\ ~clobbered
      /\ chan' = [chan EXCEPT ![p][n] = << >>]
      /\ UNCHANGED <<clobbered, timestamp>>
  BY DEF LinkLost, FloodInv, FloodTypeInv, TypeOK
<1>2. \A m, q \in Node : chan'[m][q] = chan[m][q] \/ chan'[m][q] = << >>
  BY <1>1
<1> QED
  BY <1>1, <1>2, TrueEmpty DEF FloodInv, Sound

LEMMA FloodInvStep ==
    ASSUME NEW up, Tree(up)
    PROVE  FloodInv(up) /\ [Next]_vars => FloodInv(up)'
<1> SUFFICES ASSUME FloodInv(up), [Next]_vars PROVE FloodInv(up)'
  OBVIOUS
<1>1. FloodTypeInv' /\ MeshInv' /\ InRange'
  BY FloodTypeStep, FloodMeshStep, InRangeStep DEF FloodInv
<1>2. CASE UNCHANGED <<chan, timestamp, clobbered>>
  BY <1>1, <1>2 DEF FloodInv, Sound
<1>3. CASE SendCheck \/ SendWriteNull \/ UNCHANGED msgVars \/ UNCHANGED vars
  BY <1>2, <1>3 DEF SendCheck, SendWriteNull, msgVars, vars
<1>4. (~clobbered' /\ \A n, p \in Node : Sound(up, n, p)') => FloodInv(up)'
  BY <1>1 DEF FloodInv
<1> QED
  BY <1>3, <1>4, PressSound, SendWriteSound, OnWriteSound, LinkLostSound
  DEF Next

LEMMA FloodInvInit ==
    ASSUME NEW up PROVE Init => FloodInv(up)
<1> SUFFICES ASSUME Init PROVE FloodInv(up)
  OBVIOUS
<1>1. FloodTypeInv /\ MeshInv
  BY FloodTypeInit, MeshInvInit DEF Init
<1>2. InRange
  BY InRangeInit DEF Init
<1>3. ~clobbered /\ \A n, p \in Node : Sound(up, n, p)
  BY TrueEmpty DEF Init, Sound
<1> QED
  BY <1>1, <1>2, <1>3 DEF FloodInv

\* On a network without cycles every message in flight is a button event that
\* the SOURCE produced, with the event it was produced with: no callback
\* redirects what the send loop is about to write.
THEOREM GenuineCorrect ==
    ASSUME NEW up, Tree(up)
    PROVE  Spec => []Genuine
<1>1. FloodInv(up) => Genuine
  BY DEF FloodInv, Sound, TrueIn, Genuine
<1> QED
  BY <1>1, FloodInvInit, FloodInvStep, PTL DEF Spec

-----------------------------------------------------------------------------
(* The network implements LatestEvent. *)

AcceptedMap == [n \in Node |-> Accepted(n)]

LEMMA AcceptedType ==
    ASSUME TypeOK, NEW n \in Node
    PROVE  /\ Accepted(n) \in Int /\ -1 <= Accepted(n)
           /\ n = Source => Accepted(n) = timestamp - 1
           /\ n # Source => Accepted(n) <= lastTimestamp[n]
<1>1. timestamp \in Nat /\ lastTimestamp[n] \in Nat
  BY PressAssumption, SMT DEF TypeOK, Timestamp
<1> QED
  BY <1>1, SMT DEF Accepted

LEMMA EventIs ==
    ASSUME NEW t
    PROVE  (EventAt(t) = "PRESSED") = LE!Pressed(t)
  BY DEF EventAt, LE!Pressed

\* What a board shows after it has accepted a message.
LEMMA Adopted ==
    ASSUME NEW up, Tree(up), FloodInv(up), NEW n \in Node, NEW p \in Node,
           OnWrite(n, p), Newer(n, Head(chan[p][n]))
    PROVE  /\ Head(chan[p][n]).timestamp \in Int
           /\ Accepted(n)' = Head(chan[p][n]).timestamp
           /\ Accepted(n) < Head(chan[p][n]).timestamp
           /\ Head(chan[p][n]).timestamp < timestamp
           /\ \A m \in Node : m # n => Accepted(m)' = Accepted(m)
<1> DEFINE msg == Head(chan[p][n])
<1>1. TypeOK /\ n # Source /\ msg \in Garbage /\ msg.timestamp < timestamp
  BY Upstream DEF FloodInv, FloodTypeInv
<1>2. /\ lastTimestamp \in [Node -> Timestamp] /\ timestamp' = timestamp
      /\ lastTimestamp' = [lastTimestamp EXCEPT ![n] = msg.timestamp]
  BY <1>1 DEF TypeOK, OnWrite
<1>3. msg.timestamp \in Int
  BY <1>1, PressAssumption, SMT DEF Garbage, Timestamp
<1>4. lastTimestamp[n] \in Nat /\ lastTimestamp[n] < msg.timestamp
  BY <1>2, PressAssumption, SMT DEF Newer, Timestamp
<1> HIDE DEF msg
<1>5. Accepted(n)' = msg.timestamp
  BY <1>1, <1>2, <1>3, <1>4, SMT DEF Accepted
<1>6. Accepted(n) < msg.timestamp
  BY <1>1, <1>3, <1>4, AcceptedType, SMT
<1>7. \A m \in Node : m # n => Accepted(m)' = Accepted(m)
  BY <1>2 DEF Accepted
<1> QED
  BY <1>1, <1>3, <1>5, <1>6, <1>7 DEF msg

LEMMA PublishStep ==
    ASSUME NEW up, FloodInv(up), Press
    PROVE  LE!Publish
<1>1. TypeOK /\ Source \in Node /\ timestamp \in Int
  BY MeshAssumption, PressAssumption, SMT DEF FloodInv, FloodTypeInv, TypeOK
<1>2. /\ timestamp < MaxPresses /\ timestamp' = timestamp + 1
      /\ led' = [led EXCEPT ![Source] = LE!Pressed(timestamp)]
      /\ UNCHANGED lastTimestamp
  BY EventIs DEF Press
<1>3. Accepted(Source)' = timestamp
  BY <1>1, <1>2, SMT DEF Accepted
<1>4. \A n \in Node : n # Source => Accepted(n)' = Accepted(n)
  BY <1>2 DEF Accepted
<1>5. AcceptedMap' = [AcceptedMap EXCEPT ![Source] = timestamp]
  BY <1>3, <1>4 DEF AcceptedMap
<1> QED
  BY <1>2, <1>5 DEF LE!Publish, LE!Show, AcceptedMap

LEMMA AdoptStep ==
    ASSUME NEW up, Tree(up), FloodInv(up), NEW n \in Node, NEW p \in Node,
           OnWrite(n, p), Newer(n, Head(chan[p][n]))
    PROVE  n \in Node \ {Source} /\ LE!Adopt(n)
<1> DEFINE msg == Head(chan[p][n])
           k == msg.timestamp
<1>1. /\ n # Source /\ k < timestamp /\ msg.event = EventAt(k)
      /\ TypeOK /\ timestamp \in Int
  <2>1. TypeOK
    BY DEF FloodInv, FloodTypeInv
  <2>2. timestamp \in Int
    BY <2>1, PressAssumption, SMT DEF TypeOK
  <2> QED
    BY <2>1, <2>2, Upstream
<1>2. /\ k \in Int /\ Accepted(n)' = k /\ Accepted(n) < k
      /\ \A m \in Node : m # n => Accepted(m)' = Accepted(m)
  BY Adopted
<1>3. timestamp' = timestamp /\ led' = [led EXCEPT ![n] = Lights(msg)]
  BY <1>1 DEF OnWrite, Event, EventAt
<1>4. Lights(msg) = LE!Pressed(k)
  BY <1>1, EventIs DEF Lights
<1> HIDE DEF k, msg
<1>5. AcceptedMap' = [AcceptedMap EXCEPT ![n] = k]
  BY <1>2 DEF AcceptedMap
<1>6. LE!Show(n, k)
  BY <1>3, <1>4, <1>5 DEF LE!Show, AcceptedMap
<1>7. k \in AcceptedMap[n] + 1 .. timestamp - 1
  <2>1. AcceptedMap[n] = Accepted(n) /\ Accepted(n) \in Int
    BY <1>1, AcceptedType DEF AcceptedMap
  <2> QED
    BY <1>1, <1>2, <2>1, SMT
<1> QED
  BY <1>1, <1>3, <1>6, <1>7 DEF LE!Adopt, AcceptedMap

LEMMA AdoptOrStutter ==
    ASSUME NEW up, Tree(up), FloodInv(up), NEW n \in Node, NEW p \in Node,
           OnWrite(n, p)
    PROVE  [LE!LatestNext]_LE!latestVars
<1>1. CASE Newer(n, Head(chan[p][n]))
  BY <1>1, AdoptStep DEF LE!LatestNext
<1>2. CASE ~Newer(n, Head(chan[p][n]))
  <2>1. UNCHANGED <<timestamp, lastTimestamp, led>>
    BY <1>2 DEF OnWrite
  <2> QED
    BY <2>1 DEF LE!latestVars, Accepted
<1> QED
  BY <1>1, <1>2

LEMMA LatestStep ==
    ASSUME NEW up, Tree(up)
    PROVE  FloodInv(up) /\ [Next]_vars => [LE!LatestNext]_LE!latestVars
<1> SUFFICES ASSUME FloodInv(up), [Next]_vars
             PROVE  [LE!LatestNext]_LE!latestVars
  OBVIOUS
<1>1. CASE Press
  BY <1>1, PublishStep DEF LE!LatestNext
<1>2. CASE UNCHANGED <<timestamp, lastTimestamp, led>>
  BY <1>2 DEF LE!latestVars, Accepted
<1>3. CASE SendCheck \/ SendWrite \/ SendWriteNull \/ UNCHANGED msgVars
           \/ UNCHANGED vars \/ \E n, p \in Node : LinkLost(n, p)
  BY <1>2, <1>3
  DEF SendCheck, SendWrite, SendWriteNull, LinkLost, msgVars, vars
<1> QED
  BY <1>1, <1>3, AdoptOrStutter DEF Next

LEMMA LatestBegin == Init => LE!LatestInit
<1> SUFFICES ASSUME Init PROVE LE!LatestInit
  OBVIOUS
<1>1. \A n \in Node : Accepted(n) = -1
  BY SMT DEF Init, Accepted
<1> QED
  BY <1>1 DEF Init, LE!LatestInit

\* On a network without cycles the flood implements LatestEvent, whatever fails
\* and however links come and go: a board's LED shows an event the SOURCE
\* produced, with the LED it was produced with, and moves only forward.
THEOREM ShowsLatestCorrect ==
    ASSUME NEW up, Tree(up)
    PROVE  Spec => ShowsLatestEvents
<1> QED
  BY FloodInvInit, FloodInvStep, LatestBegin, LatestStep, PTL
  DEF Spec, ShowsLatestEvents, LE!LatestSpec

-----------------------------------------------------------------------------
(* A board is sent a message once, and in order. *)

\* The messages of queue q rise, from lo to hi.
Rises(q, lo, hi) ==
    /\ \A k \in 1 .. Len(q) : lo <= q[k].timestamp /\ q[k].timestamp <= hi
    /\ \A k \in 1 .. Len(q) : \A j \in 1 .. k - 1 :
           q[j].timestamp < q[k].timestamp

LEMMA StampType ==
    /\ \A m \in Garbage : m.timestamp \in Int
    /\ \A q \in Seq(Garbage) : \A k \in 1 .. Len(q) : q[k].timestamp \in Int
<1>1. \A m \in Garbage : m.timestamp \in Int
  BY PressAssumption, SMT DEF Garbage, Timestamp
<1>2. \A q \in Seq(Garbage) : \A k \in 1 .. Len(q) : q[k] \in Garbage
  BY SMT
<1> QED
  BY <1>1, <1>2

LEMMA RisesWider ==
    ASSUME NEW q \in Seq(Garbage), NEW lo \in Int, NEW hi \in Int,
           NEW a \in Int, NEW b \in Int, a <= lo, hi <= b, Rises(q, lo, hi)
    PROVE  Rises(q, a, b)
<1>1. \A k \in 1 .. Len(q) : q[k].timestamp \in Int
  BY StampType
<1>2. \A t \in Int : lo <= t /\ t <= hi => a <= t /\ t <= b
  BY SMT
<1> QED
  BY <1>1, <1>2 DEF Rises

LEMMA RisesEmpty == \A lo, hi : Rises(<< >>, lo, hi)
<1>1. \A k \in 1 .. Len(<< >>) : FALSE
  BY SMT
<1> QED
  BY <1>1 DEF Rises

\* Once the first message is handled, what is left is newer than it.
LEMMA RisesTail ==
    ASSUME NEW q \in Seq(Garbage), q # << >>, NEW lo \in Int, NEW hi \in Int,
           Rises(q, lo, hi)
    PROVE  /\ Rises(Tail(q), lo, hi)
           /\ Rises(Tail(q), Head(q).timestamp + 1, hi)
           /\ lo <= Head(q).timestamp /\ Head(q).timestamp <= hi
           /\ Head(q).timestamp \in Int
<1>1. /\ Head(q) = q[1] /\ 1 \in 1 .. Len(q) /\ Tail(q) \in Seq(Garbage)
      /\ \A k \in 1 .. Len(Tail(q)) : Tail(q)[k] = q[k + 1]
      /\ \A k \in 1 .. Len(Tail(q)) : k + 1 \in 1 .. Len(q)
      /\ \A k \in 1 .. Len(Tail(q)) : 1 \in 1 .. (k + 1) - 1
      /\ \A k \in 1 .. Len(Tail(q)) : \A j \in 1 .. k - 1 :
             j + 1 \in 1 .. (k + 1) - 1 /\ j \in 1 .. Len(Tail(q))
  BY SMT
<1>2. /\ q[1].timestamp \in Int
      /\ \A k \in 1 .. Len(Tail(q)) : q[k + 1].timestamp \in Int
  BY <1>1, StampType
<1>3. \A s, t \in Int : s < t => s + 1 <= t
  BY SMT
<1>4. \A k \in 1 .. Len(Tail(q)) : \A j \in 1 .. k - 1 :
          Tail(q)[j].timestamp < Tail(q)[k].timestamp
  BY <1>1 DEF Rises
<1>5. \A k \in 1 .. Len(Tail(q)) :
          /\ lo <= Tail(q)[k].timestamp /\ Tail(q)[k].timestamp <= hi
          /\ q[1].timestamp + 1 <= Tail(q)[k].timestamp
  BY <1>1, <1>2, <1>3 DEF Rises
<1> QED
  BY <1>1, <1>2, <1>4, <1>5 DEF Rises

\* A message newer than all that are queued may be added.
LEMMA RisesAppend ==
    ASSUME NEW q \in Seq(Garbage), NEW lo \in Int, NEW hi \in Int,
           NEW m \in Garbage, lo <= m.timestamp, hi < m.timestamp,
           Rises(q, lo, hi)
    PROVE  Rises(Append(q, m), lo, m.timestamp)
<1> DEFINE r == Append(q, m)
<1>1. /\ Len(q) \in Nat
      /\ \A k \in 1 .. Len(r) : \/ k \in 1 .. Len(q) /\ r[k] = q[k]
                                \/ k = Len(q) + 1 /\ r[k] = m
  BY AppendType
<1>2. m.timestamp \in Int /\ \A k \in 1 .. Len(q) : q[k].timestamp \in Int
  BY StampType
<1>3. \A k \in 1 .. Len(q) : q[k].timestamp < m.timestamp
  <2>1. \A t \in Int : t <= hi => t < m.timestamp
    BY <1>2, SMT
  <2> QED
    BY <1>2, <2>1 DEF Rises
<1>4. \A k \in 1 .. Len(r) :
          lo <= r[k].timestamp /\ r[k].timestamp <= m.timestamp
  <2>1. \A t \in Int : t < m.timestamp => t <= m.timestamp
    BY <1>2, SMT
  <2>2. m.timestamp <= m.timestamp
    BY <1>2, SMT
  <2> QED
    BY <1>1, <1>2, <1>3, <2>1, <2>2 DEF Rises
<1>5. \A k \in 1 .. Len(r) : \A j \in 1 .. k - 1 :
          r[j].timestamp < r[k].timestamp
  <2> TAKE k \in 1 .. Len(r)
  <2> TAKE j \in 1 .. k - 1
  <2>1. k \in 1 .. Len(q) => j \in 1 .. Len(q)
    BY <1>1, SMT
  <2>2. k = Len(q) + 1 => j \in 1 .. Len(q)
    BY <1>1, SMT
  <2>3. j \in 1 .. Len(q) => r[j] = q[j]
    <3>1. j \in 1 .. Len(q) => j # Len(q) + 1 /\ j \in 1 .. Len(r)
      BY <1>1, SMT
    <3> QED
      BY <1>1, <3>1
  <2> HIDE DEF r
  <2>4. CASE k \in 1 .. Len(q) /\ r[k] = q[k]
    BY <2>1, <2>3, <2>4 DEF Rises
  <2>5. CASE k = Len(q) + 1 /\ r[k] = m
    BY <1>3, <2>2, <2>3, <2>5
  <2> QED
    BY <1>1, <2>4, <2>5
<1> HIDE DEF r
<1>6. Rises(r, lo, m.timestamp)
  BY <1>4, <1>5 DEF Rises
<1> QED
  BY <1>6 DEF r

\* The oldest message that may be in flight from n to p: the SOURCE may send
\* what p shows already, to a p that left and joined again.
Least(n, p) == IF n = Source THEN Accepted(p) ELSE Accepted(p) + 1

\* Nothing is in flight to a board that is gone, or from one whose connected()
\* has not run yet.
Cleared ==
    \A n, p \in Node :
        ep[p][n] = "down" \/ ep[n][p] = "pending" => chan[n][p] = << >>

\* What is in flight from n to p is newer than what p shows, and not newer than
\* what n shows.
Ordered == \A n, p \in Node : Rises(chan[n][p], Least(n, p), Accepted(n))

\* No board shows more than the next one towards the SOURCE.
Behind(up) == \A n \in Node : up[n] # NoPeer => Accepted(n) <= Accepted(up[n])

\* The slots that the send loop still has to visit were not sent the newest
\* event yet.
Once ==
    pc # "sleep" => \A p \in Node : \A i \in Slots(Source, p) :
        idx <= i => Rises(chan[Source][p], Least(Source, p), timestamp - 2)

OrderInv(up) == FloodInv(up) /\ Cleared /\ Ordered /\ Behind(up) /\ Once

\* The facts about an ordered network that the steps below start from.
LEMMA OrderFacts ==
    ASSUME NEW up, Tree(up), OrderInv(up)
    PROVE  /\ TypeOK /\ Source \in Node /\ up[Source] = NoPeer
           /\ NoPeer \notin Node
           /\ timestamp \in Int /\ Accepted(Source) = timestamp - 1
           /\ chan \in [Node -> [Node -> Seq(Garbage)]]
           /\ \A n \in Node : Accepted(n) \in Int
           /\ \A n, p \in Node : Least(n, p) \in Int
           /\ \A n \in Node : up[n] # NoPeer => up[n] \in Node
           /\ \A n, p \in Node : chan[n][p] # << >> => up[p] = n /\ p # Source
<1>1. /\ TypeOK /\ Source \in Node /\ up[Source] = NoPeer /\ NoPeer \notin Node
      /\ \A n \in Node : up[n] # NoPeer => up[n] \in Node
  BY MeshAssumption, RadioAssumption
  DEF OrderInv, FloodInv, FloodTypeInv, Tree, Rooted
<1>2. timestamp \in Int /\ chan \in [Node -> [Node -> Seq(Garbage)]]
  BY <1>1, PressAssumption, SMT DEF TypeOK
<1>3. Accepted(Source) = timestamp - 1 /\ \A n \in Node : Accepted(n) \in Int
  BY <1>1, AcceptedType
<1>4. \A n, p \in Node : Least(n, p) \in Int
  <2>1. \A s \in Int : s + 1 \in Int
    BY SMT
  <2> QED
    BY <1>3, <2>1 DEF Least
<1>5. \A n, p \in Node : chan[n][p] # << >> => up[p] = n /\ p # Source
  BY <1>1 DEF OrderInv, FloodInv, Sound
<1> QED
  BY <1>1, <1>2, <1>3, <1>4, <1>5

LEMMA ClearedStep ==
    ASSUME NEW up, Tree(up), OrderInv(up), [Next]_vars
    PROVE  Cleared'
<1>1. FloodInv(up) /\ Cleared /\ MeshInv
  BY DEF OrderInv, FloodInv
<1>2. CASE UNCHANGED chan /\ ~(\E n, p \in Node : LinkLost(n, p))
  <2> SUFFICES ASSUME NEW n \in Node, NEW p \in Node,
                      ep'[p][n] = "down" \/ ep'[n][p] = "pending"
               PROVE  chan[n][p] = << >>
    BY <1>2 DEF Cleared
  <2>1. EndMoves(n, p) /\ EndMoves(p, n)
    BY <1>1, <1>2, StepMoves
  <2> QED
    BY <1>1, <2>1 DEF EndMoves, Cleared
<1>3. CASE /\ UNCHANGED ep
           /\ \A n, p \in Node :
                 \/ chan'[n][p] = chan[n][p]
                 \/ chan[n][p] # << >>
                 \/ ep[p][n] # "down" /\ ep[n][p] # "pending"
  BY <1>1, <1>3 DEF Cleared
<1>4. CASE SendWrite
  <2>1. \A n, p \in Node : \/ chan'[n][p] = chan[n][p]
                           \/ ep[p][n] # "down" /\ ep[n][p] # "pending"
    BY <1>1, <1>4, SendWriteEffect
  <2>2. UNCHANGED ep
    BY <1>4 DEF SendWrite
  <2> QED
    BY <1>3, <2>1, <2>2
<1>5. ASSUME NEW n \in Node, NEW p \in Node, OnWrite(n, p)
      PROVE  Cleared'
  <2>1. \A m, q \in Node : \/ chan'[m][q] = chan[m][q]
                           \/ m = p /\ q = n
                           \/ ep[q][m] # "down" /\ ep[m][q] # "pending"
    BY <1>1, <1>5, OnWriteEffect
  <2>2. UNCHANGED ep /\ chan[p][n] # << >>
    BY <1>5 DEF OnWrite
  <2> QED
    BY <1>3, <2>1, <2>2
<1>6. ASSUME NEW n \in Node, NEW p \in Node, LinkLost(n, p)
      PROVE  Cleared'
  <2>1. /\ \A m, q \in Node : <<m, q>> # <<n, p>> => ep'[m][q] = ep[m][q]
        /\ ep'[n][p] = "down"
    BY <1>1, <1>6, LinkClosedSlots DEF MeshInv, LinkLost, Disconnected
  <2>2. chan' = [chan EXCEPT ![p][n] = << >>]
        /\ chan \in [Node -> [Node -> Seq(Garbage)]]
    BY <1>1, <1>6 DEF LinkLost, FloodInv, FloodTypeInv, TypeOK
  <2>3. /\ chan'[p][n] = << >>
        /\ \A m, q \in Node : chan'[m][q] = chan[m][q] \/ chan'[m][q] = << >>
    BY <2>2
  <2> SUFFICES ASSUME NEW m \in Node, NEW q \in Node,
                      ep'[q][m] = "down" \/ ep'[m][q] = "pending"
               PROVE  chan'[m][q] = << >>
    BY DEF Cleared
  <2>4. CASE <<q, m>> = <<n, p>>
    BY <2>3, <2>4
  <2>5. CASE <<q, m>> # <<n, p>>
    BY <1>1, <2>1, <2>3, <2>5 DEF Cleared
  <2> QED
    BY <2>4, <2>5
<1>7. CASE UNCHANGED chan
  BY <1>2, <1>6, <1>7
<1>8. CASE Press \/ SendCheck \/ SendWriteNull \/ UNCHANGED msgVars
           \/ UNCHANGED vars
  BY <1>7, <1>8 DEF Press, SendCheck, SendWriteNull, msgVars, vars
<1> QED
  BY <1>4, <1>5, <1>6, <1>8 DEF Next

LEMMA PressOrdered ==
    ASSUME NEW up, Tree(up), OrderInv(up), Press
    PROVE  Ordered' /\ Behind(up)' /\ Once'
<1>1. /\ UNCHANGED <<chan, lastTimestamp>> /\ timestamp' = timestamp + 1
      /\ timestamp \in Int
  BY OrderFacts DEF Press
<1>2. /\ Accepted(Source)' = timestamp /\ Accepted(Source) = timestamp - 1
      /\ \A n \in Node : n # Source => Accepted(n)' = Accepted(n)
  <2>1. \A n \in Node : n # Source => Accepted(n)' = Accepted(n)
    BY <1>1 DEF Accepted
  <2>2. Accepted(Source)' = timestamp
    BY <1>1, SMT DEF Accepted
  <2> QED
    BY <2>1, <2>2, OrderFacts
<1>3. \A n \in Node : Accepted(n)' \in Int /\ Accepted(n) \in Int
                      /\ Accepted(n) <= Accepted(n)'
  <2>1. \A n \in Node : Accepted(n) \in Int
    BY OrderFacts
  <2> QED
    BY <1>1, <1>2, <2>1, SMT
<1>4. \A n, p \in Node : chan[n][p] # << >> => Least(n, p)' = Least(n, p)
  BY <1>2, OrderFacts DEF Least
<1>5. Ordered'
  <2> SUFFICES ASSUME NEW n \in Node, NEW p \in Node
               PROVE  Rises(chan[n][p], Least(n, p)', Accepted(n)')
    BY <1>1 DEF Ordered
  <2>1. CASE chan[n][p] = << >>
    BY <2>1, RisesEmpty
  <2>2. CASE chan[n][p] # << >>
    <3>1. /\ Rises(chan[n][p], Least(n, p), Accepted(n))
          /\ chan[n][p] \in Seq(Garbage) /\ Least(n, p) \in Int
      BY OrderFacts DEF OrderInv, Ordered
    <3>2. Least(n, p) <= Least(n, p)
      BY <3>1, SMT
    <3> QED
      BY <1>3, <1>4, <2>2, <3>1, <3>2, RisesWider
  <2> QED
    BY <2>1, <2>2
<1>6. Behind(up)'
  <2> SUFFICES ASSUME NEW n \in Node, up[n] # NoPeer
               PROVE  Accepted(n)' <= Accepted(up[n])'
    BY DEF Behind
  <2>1. n # Source /\ up[n] \in Node /\ Accepted(n) <= Accepted(up[n])
    BY OrderFacts DEF OrderInv, Behind
  <2>2. /\ Accepted(n)' = Accepted(n) /\ Accepted(n) \in Int /\ Accepted(up[n]) \in Int
        /\ Accepted(up[n])' \in Int /\ Accepted(up[n]) <= Accepted(up[n])'
    BY <1>2, <1>3, <2>1
  <2> QED
    BY <2>1, <2>2, SMT
<1>7. Once'
  <2> SUFFICES ASSUME NEW p \in Node
               PROVE  Rises(chan[Source][p], Least(Source, p)', timestamp' - 2)
    BY <1>1 DEF Once
  <2>1. CASE chan[Source][p] = << >>
    BY <2>1, RisesEmpty
  <2>2. CASE chan[Source][p] # << >>
    <3>1. timestamp' - 2 = Accepted(Source)
      BY <1>1, <1>2, SMT
    <3>2. Rises(chan[Source][p], Least(Source, p), Accepted(Source))
      BY OrderFacts DEF OrderInv, Ordered
    <3> QED
      BY <1>4, <2>2, <3>1, <3>2, OrderFacts
  <2> QED
    BY <2>1, <2>2
<1> QED
  BY <1>5, <1>6, <1>7

LEMMA SendWriteOrdered ==
    ASSUME NEW up, Tree(up), OrderInv(up), SendWrite
    PROVE  Ordered' /\ Behind(up)' /\ Once'
<1> DEFINE d == default_connections[Source][idx]
           q == chan[Source][d]
<1>1. /\ UNCHANGED <<lastTimestamp, timestamp, default_connections,
                     num_connections>>
      /\ pc = "write" /\ pc' = "check" /\ idx' = idx + 1
  BY DEF SendWrite, tableVars
<1>2. /\ d \in Node /\ Source \in Node /\ up[d] = Source
      /\ idx \in Slots(Source, d) /\ idx \in Int
      /\ Latest \in Garbage /\ Latest.timestamp = timestamp - 1
      /\ \A n, p \in Node :
            \/ chan'[n][p] = chan[n][p]
            \/ n = Source /\ p = d /\ chan'[n][p] = Append(chan[n][p], Latest)
  BY SendWriteEffect DEF OrderInv
<1>3. \A n, p \in Node : Accepted(n)' = Accepted(n) /\ Least(n, p)' = Least(n, p)
                         /\ Slots(n, p)' = Slots(n, p)
  BY <1>1 DEF Accepted, Least, Slots
<1>4. Rises(Append(q, Latest), Least(Source, d), Accepted(Source))
  <2>1. /\ Rises(q, Least(Source, d), timestamp - 2) /\ q \in Seq(Garbage)
        /\ Least(Source, d) \in Int /\ timestamp \in Int
        /\ Accepted(Source) = timestamp - 1 /\ Accepted(Source) \in Int
    <3>1. idx <= idx
      BY <1>2, SMT
    <3>2. Rises(q, Least(Source, d), timestamp - 2)
      BY <1>1, <1>2, <3>1 DEF OrderInv, Once
    <3> QED
      BY <1>2, <3>2, OrderFacts
  <2>2. Least(Source, d) <= timestamp - 1
    <3>1. up[d] # NoPeer
      BY <1>2, RadioAssumption
    <3>2. Accepted(d) <= Accepted(up[d])
      BY <1>2, <3>1 DEF OrderInv, Behind
    <3> QED
      BY <1>2, <2>1, <3>2 DEF Least
  <2>3. timestamp - 2 \in Int /\ timestamp - 2 < timestamp - 1
    BY <2>1, SMT
  <2> HIDE DEF q, d
  <2> QED
    BY <1>2, <2>1, <2>2, <2>3, RisesAppend
<1> HIDE DEF d
<1>5. Ordered'
  <2> SUFFICES ASSUME NEW n \in Node, NEW p \in Node
               PROVE  Rises(chan'[n][p], Least(n, p), Accepted(n))
    BY <1>3 DEF Ordered
  <2>1. Rises(chan[n][p], Least(n, p), Accepted(n))
    BY DEF OrderInv, Ordered
  <2> QED
    BY <1>2, <1>4, <2>1
<1>6. Behind(up)'
  BY <1>3, OrderFacts DEF OrderInv, Behind
<1>7. Once'
  <2> SUFFICES ASSUME NEW p \in Node, NEW i \in Slots(Source, p), idx + 1 <= i
               PROVE  Rises(chan'[Source][p], Least(Source, p), timestamp - 2)
    BY <1>1, <1>2, <1>3 DEF Once
  <2>1. i \in Int /\ idx <= i /\ i # idx
    <3>1. i \in Int
      BY TableAssumption, SMT DEF Slots, Slot
    <3> QED
      BY <1>2, <3>1, SMT
  <2>2. p # d
    BY <1>2, <2>1
    DEF OrderInv, FloodInv, MeshInv, TableInv, TableMatchesLinks
  <2>3. chan'[Source][p] = chan[Source][p]
    BY <1>2, <2>2
  <2> QED
    BY <1>1, <2>1, <2>3 DEF OrderInv, Once
<1> QED
  BY <1>5, <1>6, <1>7

\* What handling a message does to what the boards show and to the queue it was
\* in; k is the event that n shows next.
LEMMA Handled ==
    ASSUME NEW up, Tree(up), OrderInv(up), NEW n \in Node, NEW p \in Node,
           OnWrite(n, p)
    PROVE  /\ \A m \in Node : m # n => Accepted(m)' = Accepted(m)
           /\ Accepted(n)' \in Int /\ Accepted(n) <= Accepted(n)'
           /\ Accepted(n)' <= Accepted(p)
           /\ \A lo, hi \in Int : Rises(chan[p][n], lo, hi) =>
                 /\ Rises(Tail(chan[p][n]), lo, hi)
                 /\ \/ Accepted(n)' = Accepted(n)
                    \/ Rises(Tail(chan[p][n]), Accepted(n)' + 1, hi)
           /\ Newer(n, Head(chan[p][n])) =>
                 /\ Accepted(n)' = Head(chan[p][n]).timestamp
                 /\ Accepted(n) < Accepted(n)'
                 /\ Head(chan[p][n]) \in Garbage
<1>1. /\ up[n] = p /\ n # Source /\ n # p /\ chan[p][n] # << >>
      /\ Head(chan[p][n]) \in Garbage
  BY Upstream DEF OrderInv
<1>2. /\ Accepted(n) \in Int /\ Accepted(p) \in Int /\ Least(p, n) \in Int
      /\ chan[p][n] \in Seq(Garbage)
      /\ Rises(chan[p][n], Least(p, n), Accepted(p)) /\ Accepted(n) <= Accepted(p)
  <2>1. up[n] # NoPeer
    BY <1>1, RadioAssumption
  <2>2. Accepted(n) <= Accepted(p)
    BY <1>1, <2>1 DEF OrderInv, Behind
  <2>3. Rises(chan[p][n], Least(p, n), Accepted(p))
    BY DEF OrderInv, Ordered
  <2> QED
    BY <2>2, <2>3, OrderFacts
<1>3. Head(chan[p][n]).timestamp <= Accepted(p)
  BY <1>1, <1>2, RisesTail
<1>4. CASE Newer(n, Head(chan[p][n]))
  <2>1. /\ Accepted(n)' = Head(chan[p][n]).timestamp
        /\ Accepted(n) < Accepted(n)' /\ Accepted(n)' \in Int
        /\ \A m \in Node : m # n => Accepted(m)' = Accepted(m)
    BY <1>4, Adopted DEF OrderInv
  <2>2. Accepted(n) <= Accepted(n)'
    BY <1>2, <2>1, SMT
  <2> QED
    BY <1>1, <1>2, <1>3, <2>1, <2>2, RisesTail
<1>5. CASE ~Newer(n, Head(chan[p][n]))
  <2>1. UNCHANGED <<lastTimestamp, timestamp>>
    BY <1>5 DEF OnWrite
  <2>2. \A m \in Node : Accepted(m)' = Accepted(m)
    BY <2>1 DEF Accepted
  <2>3. Accepted(n) <= Accepted(n)'
    BY <1>2, <2>2, SMT
  <2> QED
    BY <1>1, <1>2, <1>5, <2>2, <2>3, RisesTail
<1> QED
  BY <1>4, <1>5

LEMMA LinkLostOrdered ==
    ASSUME NEW up, Tree(up), OrderInv(up), NEW n \in Node, NEW p \in Node,
           LinkLost(n, p)
    PROVE  Ordered' /\ Behind(up)' /\ Once'
<1>1. /\ UNCHANGED <<lastTimestamp, timestamp, pc, idx>>
      /\ chan' = [chan EXCEPT ![p][n] = << >>]
      /\ chan \in [Node -> [Node -> Seq(Garbage)]]
  BY OrderFacts DEF LinkLost
<1>2. \A m, q \in Node : chan'[m][q] = chan[m][q] \/ chan'[m][q] = << >>
  BY <1>1
<1>3. \A m, q \in Node : Accepted(m)' = Accepted(m) /\ Least(m, q)' = Least(m, q)
  BY <1>1 DEF Accepted, Least
<1>4. \A m, q \in Node : Slots(m, q)' \subseteq Slots(m, q)
  <2>1. /\ Slots(n, p)' = {}
        /\ \A m, q \in Node : <<m, q>> # <<n, p>> =>
               Slots(m, q)' = Slots(m, q)
    BY LinkClosedSlots DEF OrderInv, FloodInv, MeshInv, LinkLost, Disconnected
  <2> QED
    BY <2>1
<1>5. Ordered'
  BY <1>2, <1>3, RisesEmpty DEF OrderInv, Ordered
<1>6. Behind(up)'
  <2>1. Behind(up) /\ \A m \in Node : up[m] # NoPeer => up[m] \in Node
    BY OrderFacts DEF OrderInv
  <2> QED
    BY <1>3, <2>1 DEF Behind
<1>7. Once'
  BY <1>1, <1>2, <1>3, <1>4, RisesEmpty, OrderFacts DEF OrderInv, Once
<1> QED
  BY <1>5, <1>6, <1>7

\* Steps of the links, and of the send loop, that send and handle nothing.
LEMMA AsideOrdered ==
    ASSUME NEW up, Tree(up), OrderInv(up), [Next]_vars,
           ~(\E n, p \in Node : LinkLost(n, p)),
           UNCHANGED <<chan, lastTimestamp, timestamp>>,
           pc' # "sleep" => pc # "sleep" /\ idx \in Int /\ idx <= idx'
                            /\ idx' \in Int
    PROVE  Ordered' /\ Behind(up)' /\ Once'
<1>1. \A m, q \in Node : Accepted(m)' = Accepted(m) /\ Least(m, q)' = Least(m, q)
  BY DEF Accepted, Least
<1>2. Ordered' /\ Behind(up)'
  BY <1>1, OrderFacts DEF OrderInv, Ordered, Behind
<1>3. Once'
  <2> SUFFICES ASSUME pc' # "sleep", NEW p \in Node,
                      NEW i \in Slots(Source, p)', idx' <= i
               PROVE  Rises(chan[Source][p], Least(Source, p), timestamp - 2)
    BY <1>1, OrderFacts DEF Once
  <2>1. EndMoves(Source, p)
    BY StepMoves, OrderFacts DEF OrderInv, FloodInv
  <2>2. CASE ep[Source][p] = "pending"
    BY <2>2, RisesEmpty, OrderFacts DEF OrderInv, Cleared
  <2>3. CASE Slots(Source, p)' \subseteq Slots(Source, p)
    <3>1. i \in Slots(Source, p) /\ i \in Int
      BY <2>3, TableAssumption, SMT DEF Slots, Slot
    <3>2. idx <= i
      BY <3>1, SMT
    <3> QED
      BY <3>1, <3>2 DEF OrderInv, Once
  <2> QED
    BY <2>1, <2>2, <2>3 DEF EndMoves
<1> QED
  BY <1>2, <1>3

LEMMA OnWriteOrdered ==
    ASSUME NEW up, Tree(up), OrderInv(up), NEW n \in Node, NEW p \in Node,
           OnWrite(n, p)
    PROVE  Ordered' /\ Behind(up)' /\ Once'
<1> DEFINE msg == Head(chan[p][n])
<1>1. up[n] = p /\ n # Source /\ n # p /\ chan[p][n] # << >>
  BY Upstream DEF OrderInv
<1>2. /\ chan'[p][n] = Tail(chan[p][n])
      /\ \A m, q \in Node :
            \/ chan'[m][q] = chan[m][q]
            \/ m = p /\ q = n
            \/ /\ m = n /\ up[q] = n /\ Newer(n, msg)
               /\ chan'[m][q] = Append(chan[m][q], msg)
  BY OnWriteEffect DEF OrderInv
<1>3. /\ \A m \in Node : m # n => Accepted(m)' = Accepted(m)
      /\ Accepted(n)' \in Int /\ Accepted(n) <= Accepted(n)' /\ Accepted(n)' <= Accepted(p)
  BY Handled
<1>4. \A lo, hi \in Int : Rises(chan[p][n], lo, hi) =>
          /\ Rises(Tail(chan[p][n]), lo, hi)
          /\ Accepted(n)' = Accepted(n) \/ Rises(Tail(chan[p][n]), Accepted(n)' + 1, hi)
  BY Handled
<1>5. Newer(n, msg) => /\ Accepted(n)' = msg.timestamp /\ Accepted(n) < Accepted(n)'
                       /\ msg \in Garbage
  BY Handled
<1>6. /\ Ordered /\ Behind(up) /\ Once /\ chan[p][n] \in Seq(Garbage)
      /\ \A m \in Node : Accepted(m) \in Int
      /\ \A m, q \in Node : Least(m, q) \in Int /\ chan[m][q] \in Seq(Garbage)
      /\ \A m, q \in Node : chan[m][q] # << >> => up[q] = m /\ q # Source
      /\ \A m \in Node : up[m] # NoPeer => up[m] \in Node
      /\ timestamp \in Int /\ NoPeer \notin Node
  <2>1. Ordered /\ Behind(up) /\ Once
    BY DEF OrderInv
  <2>2. /\ chan \in [Node -> [Node -> Seq(Garbage)]]
        /\ \A m \in Node : Accepted(m) \in Int
        /\ \A m, q \in Node : Least(m, q) \in Int
        /\ \A m, q \in Node : chan[m][q] # << >> => up[q] = m /\ q # Source
        /\ \A m \in Node : up[m] # NoPeer => up[m] \in Node
        /\ timestamp \in Int /\ NoPeer \notin Node
    BY OrderFacts
  <2>3. \A m, q \in Node : chan[m][q] \in Seq(Garbage)
    BY <2>2
  <2> QED
    BY <2>1, <2>2, <2>3
<1>7. \A m, q \in Node : q # n => Least(m, q)' = Least(m, q)
  BY <1>3 DEF Least
<1> HIDE DEF msg
\* What is left of the queue that n handled is newer than what n shows now.
<1>8. ASSUME NEW hi \in Int, Rises(chan[p][n], Least(p, n), hi)
      PROVE  Rises(Tail(chan[p][n]), Least(p, n)', hi)
  <2>1. CASE Accepted(n)' = Accepted(n)
    <3>1. Least(p, n)' = Least(p, n)
      BY <2>1 DEF Least
    <3> QED
      BY <1>4, <1>6, <1>8, <3>1
  <2>2. CASE Rises(Tail(chan[p][n]), Accepted(n)' + 1, hi)
    <3>1. /\ Least(p, n)' \in Int /\ Accepted(n)' + 1 \in Int
          /\ Least(p, n)' <= Accepted(n)' + 1 /\ hi <= hi
      BY <1>3, SMT DEF Least
    <3>2. Tail(chan[p][n]) \in Seq(Garbage)
      BY <1>1, <1>6, TailType
    <3> QED
      BY <2>2, <3>1, <3>2, RisesWider
  <2> QED
    BY <1>4, <1>6, <1>8, <2>1, <2>2
<1>9. Ordered'
  <2> SUFFICES ASSUME NEW m \in Node, NEW q \in Node
               PROVE  Rises(chan'[m][q], Least(m, q)', Accepted(m)')
    BY DEF Ordered
  <2>0. Rises(chan[m][q], Least(m, q), Accepted(m))
    BY <1>6 DEF Ordered
  <2>1. CASE m = p /\ q = n
    BY <1>1, <1>2, <1>3, <1>6, <1>8, <2>0, <2>1
  <2>2. CASE chan'[m][q] = << >>
    BY <2>2, RisesEmpty
  <2>3. CASE q = n /\ m # p
    BY <1>1, <1>2, <1>6, <2>2, <2>3
  <2>4. CASE q # n /\ chan'[m][q] = chan[m][q]
    <3>1. Accepted(m) <= Accepted(m)' /\ Accepted(m)' \in Int /\ Least(m, q)' \in Int
          /\ Least(m, q) <= Least(m, q) /\ Least(m, q)' = Least(m, q)
      <4>1. Accepted(m) <= Accepted(m)' /\ Accepted(m)' \in Int
        <5>1. Accepted(m) <= Accepted(m)
          BY <1>6, SMT
        <5> QED
          BY <1>3, <1>6, <5>1
      <4>2. Least(m, q)' = Least(m, q) /\ Least(m, q) \in Int
        BY <1>6, <1>7, <2>4
      <4>3. Least(m, q) <= Least(m, q)
        BY <4>2, SMT
      <4> QED
        BY <4>1, <4>2, <4>3
    <3>2. /\ chan[m][q] \in Seq(Garbage) /\ Least(m, q) \in Int
          /\ Accepted(m) \in Int
      BY <1>6
    <3>3. Rises(chan[m][q], Least(m, q), Accepted(m)')
      BY <2>0, <3>1, <3>2, RisesWider
    <3> QED
      BY <2>4, <3>1, <3>3
  <2>5. CASE /\ q # n /\ m = n /\ up[q] = n /\ Newer(n, msg)
             /\ chan'[m][q] = Append(chan[m][q], msg)
    <3>1. /\ Accepted(n)' = msg.timestamp /\ Accepted(n) < msg.timestamp
          /\ msg \in Garbage /\ msg.timestamp \in Int
      BY <1>3, <1>5, <2>5
    <3>2. Accepted(q) <= Accepted(n) /\ Least(n, q) = Accepted(q) + 1
      BY <1>1, <1>6, <2>5 DEF Behind, Least
    <3>3. Accepted(q) \in Int /\ Accepted(n) \in Int
      BY <1>6
    <3>4. Least(n, q) <= msg.timestamp
      BY <3>1, <3>2, <3>3, SMT
    <3>5. Rises(Append(chan[n][q], msg), Least(n, q), msg.timestamp)
      BY <1>6, <2>0, <2>5, <3>1, <3>4, RisesAppend
    <3> QED
      BY <1>7, <2>5, <3>1, <3>5
  <2> QED
    BY <1>2, <2>1, <2>3, <2>4, <2>5
<1>10. Behind(up)'
  <2> SUFFICES ASSUME NEW m \in Node, up[m] # NoPeer
               PROVE  Accepted(m)' <= Accepted(up[m])'
    BY DEF Behind
  <2>1. Accepted(m) <= Accepted(up[m]) /\ up[m] \in Node
    BY <1>6 DEF Behind
  <2>2. CASE m = n
    BY <1>1, <1>3, <2>2
  <2>3. CASE m # n /\ up[m] # n
    BY <1>3, <2>1, <2>3
  <2>4. CASE m # n /\ up[m] = n
    <3>1. Accepted(m)' = Accepted(m) /\ Accepted(m) \in Int /\ Accepted(n) \in Int
          /\ Accepted(m) <= Accepted(n) /\ Accepted(n) <= Accepted(n)' /\ Accepted(n)' \in Int
      BY <1>3, <1>6, <2>1, <2>4
    <3> QED
      BY <2>4, <3>1, SMT
  <2> QED
    BY <2>2, <2>3, <2>4
<1>11. Once'
  <2>1. UNCHANGED <<pc, idx, timestamp, default_connections, num_connections>>
    BY DEF OnWrite, tableVars
  <2>2. \A m, q \in Node : Slots(m, q)' = Slots(m, q)
    BY <2>1 DEF Slots
  <2> SUFFICES ASSUME pc # "sleep", NEW q \in Node,
                      NEW i \in Slots(Source, q), idx <= i
               PROVE  Rises(chan'[Source][q], Least(Source, q)', timestamp - 2)
    BY <2>1, <2>2, MeshAssumption DEF Once
  <2>3. Rises(chan[Source][q], Least(Source, q), timestamp - 2)
        /\ timestamp - 2 \in Int /\ Source \in Node
    <3>1. timestamp - 2 \in Int
      BY <1>6, SMT
    <3> QED
      BY <1>6, <3>1, MeshAssumption DEF Once
  <2>4. CASE Source = p /\ q = n
    BY <1>2, <1>8, <2>3, <2>4
  <2>5. CASE q = n /\ Source # p
    <3>1. chan[Source][q] = << >> /\ chan'[Source][q] = chan[Source][q]
      BY <1>1, <1>2, <1>6, <2>3, <2>5
    <3> QED
      BY <3>1, RisesEmpty
  <2>6. CASE q # n
    <3>1. chan'[Source][q] = chan[Source][q]
      BY <1>1, <1>2, <2>3, <2>6
    <3> QED
      BY <1>7, <2>3, <2>6, <3>1
  <2> QED
    BY <2>4, <2>5, <2>6
<1> QED
  BY <1>9, <1>10, <1>11

LEMMA OrderInvStep ==
    ASSUME NEW up, Tree(up)
    PROVE  OrderInv(up) /\ [Next]_vars => OrderInv(up)'
<1> SUFFICES ASSUME OrderInv(up), [Next]_vars PROVE OrderInv(up)'
  OBVIOUS
<1>1. FloodInv(up)' /\ Cleared'
  BY FloodInvStep, ClearedStep DEF OrderInv
<1>2. Ordered' /\ Behind(up)' /\ Once' => OrderInv(up)'
  BY <1>1 DEF OrderInv
<1>3. idx \in Int
  BY OrderFacts, TableAssumption, SMT DEF TypeOK
<1>4. CASE \E n, p \in Node : LinkLost(n, p)
  BY <1>2, <1>4, LinkLostOrdered
<1>5. CASE SendCheck /\ ~(\E n, p \in Node : LinkLost(n, p))
  <2>1. UNCHANGED <<chan, lastTimestamp, timestamp>> /\ pc = "check"
    BY <1>5 DEF SendCheck
  <2>2. pc' # "sleep" => idx' = idx \/ idx' = idx + 1
    BY <1>5 DEF SendCheck
  <2>3. pc' # "sleep" => idx <= idx' /\ idx' \in Int
    BY <1>3, <2>2, SMT
  <2> QED
    BY <1>2, <1>3, <1>5, <2>1, <2>3, AsideOrdered
<1>6. CASE UNCHANGED msgVars /\ ~(\E n, p \in Node : LinkLost(n, p))
  <2>1. UNCHANGED <<chan, lastTimestamp, timestamp, pc, idx>>
    BY <1>6 DEF msgVars
  <2>2. idx <= idx
    BY <1>3, SMT
  <2> QED
    BY <1>2, <1>3, <1>6, <2>1, <2>2, AsideOrdered
<1>7. CASE SendWriteNull \/ UNCHANGED vars
  BY <1>4, <1>6, <1>7 DEF SendWriteNull, vars
<1> QED
  BY <1>2, <1>4, <1>5, <1>6, <1>7, PressOrdered, SendWriteOrdered,
     OnWriteOrdered
  DEF Next

LEMMA OrderInvInit ==
    ASSUME NEW up, Tree(up)
    PROVE  Init => OrderInv(up)
<1> SUFFICES ASSUME Init PROVE OrderInv(up)
  OBVIOUS
<1>1. FloodInv(up)
  BY FloodInvInit
<1>2. /\ \A n, p \in Node : chan[n][p] = << >>
      /\ \A n \in Node : Accepted(n) = -1
      /\ pc = "sleep"
  BY SMT DEF Init, Accepted
<1>3. Cleared /\ Ordered /\ Once
  BY <1>2, RisesEmpty DEF Cleared, Ordered, Once
<1>4. Behind(up)
  <2>1. -1 <= -1
    BY SMT
  <2> QED
    BY <1>2, <2>1 DEF Tree, Rooted, Behind
<1> QED
  BY <1>1, <1>3, <1>4 DEF OrderInv

LEMMA OrderedOnce ==
    ASSUME NEW up, Tree(up), OrderInv(up)
    PROVE  NoDuplicateTraffic
<1> SUFFICES ASSUME NEW n \in Node, NEW p \in Node,
                    NEW k \in 1 .. Len(chan[p][n])
             PROVE  /\ \/ chan[p][n][k].timestamp > Accepted(n)
                       \/ /\ p = Source
                          /\ chan[p][n][k].timestamp = Accepted(n)
                    /\ \A j \in 1 .. k - 1 :
                           chan[p][n][j].timestamp < chan[p][n][k].timestamp
  BY DEF NoDuplicateTraffic
<1>1. /\ Rises(chan[p][n], Least(p, n), Accepted(p))
      /\ Accepted(n) \in Int /\ chan[p][n] \in Seq(Garbage)
  BY OrderFacts DEF OrderInv, Ordered
<1>2. chan[p][n][k].timestamp \in Int /\ Least(p, n) <= chan[p][n][k].timestamp
  BY <1>1, StampType DEF Rises
<1>3. \/ chan[p][n][k].timestamp > Accepted(n)
      \/ p = Source /\ chan[p][n][k].timestamp = Accepted(n)
  BY <1>1, <1>2, SMT DEF Least
<1> QED
  BY <1>1, <1>3 DEF Rises

\* On a network without cycles no board is sent what it shows already, nor
\* anything twice or out of order, however links come and go; only the SOURCE
\* may repeat its newest event, to a board that left and joined again.
THEOREM NoDuplicatesCorrect ==
    ASSUME NEW up, Tree(up)
    PROVE  Spec => []NoDuplicateTraffic
<1>1. OrderInv(up) => NoDuplicateTraffic
  BY OrderedOnce
<1> QED
  BY <1>1, OrderInvInit, OrderInvStep, PTL DEF Spec

-----------------------------------------------------------------------------
(* On any network a TARGET forwards an event once. *)

Risen ==
    \A n \in Targets, p \in Node : Rises(chan[n][p], 0, lastTimestamp[n])

RisenInv == FloodTypeInv /\ MeshInv /\ InRange /\ Risen

\* The queues of the TARGETs and what these accepted last.
LEMMA QueueFacts ==
    ASSUME RisenInv
    PROVE  /\ chan \in [Node -> [Node -> Seq(Garbage)]]
           /\ lastTimestamp \in [Node -> Nat]
           /\ Targets \subseteq Node /\ Source \notin Targets
<1>1. /\ chan \in [Node -> [Node -> Seq(Garbage)]]
      /\ lastTimestamp \in [Node -> Timestamp]
  BY DEF RisenInv, FloodTypeInv, TypeOK
<1>2. Timestamp \subseteq Nat
  BY SMT DEF Timestamp
<1> QED
  BY <1>1, <1>2 DEF Targets

LEMMA OnWriteRisen ==
    ASSUME RisenInv, NEW n \in Node, NEW p \in Node, OnWrite(n, p)
    PROVE  Risen'
<1> DEFINE msg == Head(chan[p][n])
<1>0. /\ chan \in [Node -> [Node -> Seq(Garbage)]]
      /\ lastTimestamp \in [Node -> Nat]
      /\ Targets \subseteq Node /\ Source \notin Targets
  BY QueueFacts
<1>1. n # p
  <2>1. ep[n][p] # "down"
    BY DEF OnWrite
  <2> QED
    BY <2>1, RadioAssumption DEF RisenInv, InRange
<1>2. chan[p][n] # << >> /\ msg \in Garbage /\ msg.timestamp \in Nat
  <2>1. chan[p][n] # << >> /\ msg \in Garbage
    BY <1>0 DEF OnWrite
  <2>2. \A m \in Garbage : m.timestamp \in Nat
    BY PressAssumption, SMT DEF Garbage, Timestamp
  <2> QED
    BY <2>1, <2>2
<1>3. /\ \/ ~Newer(n, msg) /\ UNCHANGED lastTimestamp
            /\ chan' = [chan EXCEPT ![p][n] = Tail(@)]
         \/ /\ Newer(n, msg)
            /\ lastTimestamp' = [lastTimestamp EXCEPT ![n] = msg.timestamp]
            /\ \/ chan' = [chan EXCEPT ![p][n] = Tail(@)]
               \/ \E lost : chan' = Forward(n, p, msg, lost)
  BY DEF OnWrite
<1>4. \A m, q \in Node :
          \/ chan'[m][q] = chan[m][q]
          \/ m = p /\ q = n /\ chan'[m][q] = Tail(chan[m][q])
          \/ m = n /\ Newer(n, msg) /\ chan'[m][q] = Append(chan[m][q], msg)
  <2>1. CASE chan' = [chan EXCEPT ![p][n] = Tail(@)]
    BY <1>0, <2>1
  <2>2. ASSUME NEW lost, chan' = Forward(n, p, msg, lost), Newer(n, msg)
        PROVE  \A m, q \in Node :
                  \/ chan'[m][q] = chan[m][q]
                  \/ m = p /\ q = n /\ chan'[m][q] = Tail(chan[m][q])
                  \/ m = n /\ chan'[m][q] = Append(chan[m][q], msg)
    <3> SUFFICES ASSUME NEW m \in Node, NEW q \in Node
                 PROVE  \/ chan'[m][q] = chan[m][q]
                        \/ m = p /\ q = n /\ chan'[m][q] = Tail(chan[m][q])
                        \/ m = n /\ chan'[m][q] = Append(chan[m][q], msg)
      OBVIOUS
    <3>0. chan \in [Node -> [Node -> Seq(Garbage)]] /\ n # p
      BY <1>0, <1>1
    <3>a. /\ chan'[p][n] = Tail(chan[p][n])
          /\ \/ chan'[n][q] = chan[n][q]
             \/ chan'[n][q] = Append(chan[n][q], msg)
          /\ m # n /\ <<m, q>> # <<p, n>> => chan'[m][q] = chan[m][q]
      <4> HIDE DEF msg
      <4>1. chan'[p][n] = Tail(chan[p][n])
        BY <2>2, <3>0, ForwardEffect
      <4>2. \/ chan'[n][q] = chan[n][q]
            \/ chan'[n][q] = Append(chan[n][q], msg)
        BY <2>2, <3>0, ForwardEffect
      <4>3. m # n /\ <<m, q>> # <<p, n>> => chan'[m][q] = chan[m][q]
        BY <2>2, <3>0, ForwardEffect
      <4> QED
        BY <4>1, <4>2, <4>3
    <3> HIDE DEF msg
    <3>1. CASE m = n
      BY <3>1, <3>a
    <3>2. CASE m # n /\ <<m, q>> # <<p, n>>
      BY <3>2, <3>a
    <3>3. CASE m = p /\ q = n
      BY <3>3, <3>a
    <3> QED
      BY <3>1, <3>2, <3>3
  <2> QED
    BY <1>3, <2>1, <2>2
<1>5. \A m \in Node : \/ lastTimestamp'[m] = lastTimestamp[m]
                          /\ ~(m = n /\ Newer(n, msg))
                      \/ /\ m = n /\ Newer(n, msg)
                         /\ lastTimestamp'[m] = msg.timestamp
                         /\ lastTimestamp[m] < msg.timestamp
  <2>1. Newer(n, msg) => lastTimestamp[n] < msg.timestamp
    BY <1>0, <1>2, SMT DEF Newer
  <2> HIDE DEF msg
  <2>2. CASE ~Newer(n, msg) /\ UNCHANGED lastTimestamp
    BY <2>2
  <2>3. CASE Newer(n, msg)
             /\ lastTimestamp' = [lastTimestamp EXCEPT ![n] = msg.timestamp]
    BY <1>0, <2>1, <2>3
  <2> QED
    BY <1>3, <2>2, <2>3
<1> SUFFICES ASSUME NEW m \in Targets, NEW q \in Node
             PROVE  Rises(chan'[m][q], 0, lastTimestamp'[m])
  BY DEF Risen
<1> HIDE DEF msg
<1>6. /\ m \in Node /\ chan[m][q] \in Seq(Garbage) /\ lastTimestamp[m] \in Int
      /\ Rises(chan[m][q], 0, lastTimestamp[m]) /\ 0 \in Int
      /\ lastTimestamp'[m] \in Int /\ lastTimestamp[m] <= lastTimestamp'[m]
  <2>1. m \in Node /\ Rises(chan[m][q], 0, lastTimestamp[m])
    BY <1>0 DEF RisenInv, Risen
  <2>a. lastTimestamp[m] \in Nat
    BY <1>0, <2>1
  <2>b. \/ lastTimestamp'[m] = lastTimestamp[m]
        \/ /\ lastTimestamp'[m] = msg.timestamp
           /\ lastTimestamp[m] < msg.timestamp
    BY <1>5, <2>1
  <2>2. lastTimestamp[m] \in Nat /\ lastTimestamp'[m] \in Nat
        /\ lastTimestamp[m] <= lastTimestamp'[m]
    BY <1>2, <2>a, <2>b, SMT
  <2> QED
    BY <1>0, <2>1, <2>2, SMT
<1>w. ASSUME NEW r \in Seq(Garbage), Rises(r, 0, lastTimestamp[m])
      PROVE  Rises(r, 0, lastTimestamp'[m])
  <2>1. 0 <= 0
    BY SMT
  <2> QED
    BY <1>6, <1>w, <2>1, RisesWider
<1>7. CASE chan'[m][q] = chan[m][q]
  BY <1>6, <1>7, <1>w
<1>8. CASE m = p /\ q = n /\ chan'[m][q] = Tail(chan[m][q])
  <2>1. Rises(Tail(chan[m][q]), 0, lastTimestamp[m])
    BY <1>2, <1>6, <1>8, RisesTail
  <2>2. Tail(chan[m][q]) \in Seq(Garbage)
    BY <1>2, <1>6, <1>8, SMT
  <2> QED
    BY <1>8, <1>w, <2>1, <2>2
<1>9. CASE m = n /\ Newer(n, msg) /\ chan'[m][q] = Append(chan[m][q], msg)
  <2>1. lastTimestamp'[m] = msg.timestamp /\ lastTimestamp[m] < msg.timestamp
    BY <1>5, <1>6, <1>9
  <2>2. 0 <= msg.timestamp
    BY <1>2, SMT
  <2>3. Rises(Append(chan[m][q], msg), 0, msg.timestamp)
    BY <1>2, <1>6, <2>1, <2>2, RisesAppend
  <2> QED
    BY <1>9, <2>1, <2>3
<1> QED
  BY <1>4, <1>6, <1>7, <1>8, <1>9

LEMMA RisenStep == RisenInv /\ [Next]_vars => RisenInv'
<1> SUFFICES ASSUME RisenInv, [Next]_vars PROVE RisenInv'
  OBVIOUS
<1>0. /\ chan \in [Node -> [Node -> Seq(Garbage)]]
      /\ Targets \subseteq Node /\ Source \notin Targets
  BY QueueFacts
<1>1. FloodTypeInv' /\ MeshInv' /\ InRange'
  BY FloodTypeStep, FloodMeshStep, InRangeStep DEF RisenInv
<1> SUFFICES Risen'
  BY <1>1 DEF RisenInv
<1>2. ASSUME UNCHANGED lastTimestamp,
             \A n \in Targets, p \in Node :
                 chan'[n][p] = chan[n][p] \/ chan'[n][p] = << >>
      PROVE  Risen'
  BY <1>2, RisesEmpty DEF RisenInv, Risen
<1>3. CASE SendWrite
  <2>1. UNCHANGED lastTimestamp
    BY <1>3 DEF SendWrite
  <2>2. UNCHANGED chan
        \/ \E d, m : chan' = [chan EXCEPT ![Source][d] = Post(@, Source, d, m)]
    BY <1>3 DEF SendWrite
  <2>3. \A n \in Targets : chan'[n] = chan[n]
    BY <1>0, <2>2
  <2> QED
    BY <1>2, <2>1, <2>3
<1>4. ASSUME NEW n \in Node, NEW p \in Node, OnWrite(n, p) PROVE Risen'
  BY <1>4, OnWriteRisen
<1>5. ASSUME NEW n \in Node, NEW p \in Node, LinkLost(n, p) PROVE Risen'
  <2>1. UNCHANGED lastTimestamp /\ chan' = [chan EXCEPT ![p][n] = << >>]
    BY <1>5 DEF LinkLost
  <2>2. \A m, q \in Node : chan'[m][q] = chan[m][q] \/ chan'[m][q] = << >>
    BY <1>0, <2>1
  <2> QED
    BY <1>0, <1>2, <2>1, <2>2
<1>6. CASE UNCHANGED <<chan, lastTimestamp>>
  BY <1>2, <1>6
<1> QED
  BY <1>1, <1>3, <1>4, <1>5, <1>6
  DEF RisenInv, Next, Press, SendCheck, SendWriteNull, vars, msgVars

\* On any network, rings included, and whatever a message carries, no TARGET
\* writes an event twice to the same neighbour, nor an older one after it.
THEOREM ForwardsOnceCorrect == Spec => []ForwardsOnce
<1>1. Init => RisenInv
  <2> SUFFICES ASSUME Init PROVE RisenInv
    OBVIOUS
  <2>1. \A n, p \in Node : chan[n][p] = << >>
    BY DEF Init
  <2>2. Risen
    BY <2>1, RisesEmpty DEF Risen, Targets
  <2>3. MeshInv /\ InRange
    BY MeshInvInit, InRangeInit DEF Init
  <2> QED
    BY <2>2, <2>3, FloodTypeInit DEF RisenInv
<1>2. RisenInv => ForwardsOnce
  BY DEF RisenInv, Risen, Rises, ForwardsOnce
<1> QED
  BY <1>1, <1>2, RisenStep, PTL DEF Spec

-----------------------------------------------------------------------------
(* On any network a message finds its sender in the table of the board that *)
(* handles it. *)

\* A handle was discovered from a board whose own connected() had run: nothing
\* is written to a board before it has the link in its table.
PeerConnected ==
    \A n, p \in Node : \A i \in Slots(n, p) :
        char_handles[n][i] => ep[p][n] # "pending"

\* The slot that the main thread is about to write to keeps its handle, though
\* it may be cleared meanwhile: no other link gets it.
HandleKept == pc = "write" => char_handles[Source][idx]

\* Messages are on their way only to an end that is in the table.
Flowing ==
    \A n, p \in Node : chan[n][p] # << >> => ep[p][n] \in {"up", "closing"}

KnownInv ==
    FloodTypeInv /\ MeshInv /\ InRange /\ PeerConnected /\ HandleKept /\ Flowing

LEMMA KnownSuffices == KnownInv => SenderKnown
<1> SUFFICES ASSUME KnownInv, NEW n \in Node, NEW p \in Node,
                    chan[n][p] # << >>
             PROVE  Slots(p, n) # {} \/ ~Runs(p)
  BY DEF SenderKnown
<1>1. n \in Live(p)
  BY DEF KnownInv, Flowing, Live
<1> QED
  BY <1>1 DEF KnownInv, MeshInv, TableInv, TableMatchesLinks

\* Steps that leave the slots, the handles and the ends alone, or only move an
\* end away from "pending".
LEMMA UntouchedPeers ==
    ASSUME PeerConnected,
           UNCHANGED <<default_connections, num_connections, char_handles>>,
           \A n, p \in Node : ep'[n][p] = "pending" => ep[n][p] = "pending"
    PROVE  PeerConnected'
<1>1. \A n, p \in Node : Slots(n, p)' = Slots(n, p)
  BY DEF Slots
<1> QED
  BY <1>1 DEF PeerConnected

\* connected() stores the link without a handle.
LEMMA ConnectedPeers ==
    ASSUME MeshInv, PeerConnected, NEW n \in Node, NEW p \in Node,
           Connected(n, p)
    PROVE  PeerConnected'
<1>1. /\ Slots(n, p)' = {num_connections[n]}
      /\ char_handles' =
             [char_handles EXCEPT ![n][num_connections[n]] = FALSE]
      /\ \A m, q \in Node : <<m, q>> # <<n, p>> =>
             /\ Slots(m, q)' = Slots(m, q)
             /\ num_connections[n] \notin Slots(n, q)
             /\ ep'[m][q] = ep[m][q]
      /\ ep'[n][p] # "pending"
  BY ConnectedSlots DEF MeshInv
<1>2. /\ char_handles \in [Node -> [Slot -> BOOLEAN]]
      /\ num_connections[n] \in Slot
  BY ConnectedSlots DEF MeshInv, TableInv, TableTypeOK
<1> SUFFICES ASSUME NEW m \in Node, NEW q \in Node,
                    NEW i \in Slots(m, q)', char_handles'[m][i]
             PROVE  ep'[q][m] # "pending"
  BY DEF PeerConnected
<1>3. <<m, q>> # <<n, p>>
  BY <1>1, <1>2
<1>4. i \in Slots(m, q) /\ i \in Slot
  BY <1>1, <1>3 DEF Slots
<1>5. m = n => i # num_connections[n]
  BY <1>1, <1>3, <1>4
<1>6. char_handles[m][i]
  BY <1>1, <1>2, <1>4, <1>5
<1> QED
  BY <1>1, <1>4, <1>6 DEF PeerConnected

\* The controllers link boards of which neither has the other in a slot.
LEMMA LinkUpPeers ==
    ASSUME MeshInv, PeerConnected, NEW n \in Node, NEW p \in Node,
           LinkUp(n, p)
    PROVE  PeerConnected'
<1>1. /\ ep[n][p] = "down" /\ ep[p][n] = "down"
      /\ ep' = [ep EXCEPT ![n][p] = "pending", ![p][n] = "pending"]
      /\ UNCHANGED char_handles
      /\ \A m, q \in Node : Slots(m, q)' = Slots(m, q)
  BY DEF LinkUp, Establish, Accepts, tableVars, Slots
<1>2. \A m, q \in Node : \/ ep'[m][q] = ep[m][q]
                         \/ ep[m][q] = "down" /\ ep[q][m] = "down"
  BY <1>1 DEF MeshInv, TableInv, TableTypeOK, LinkTypeOK
<1>3. \A m, q \in Node : \A i \in Slots(m, q) :
          char_handles[m][i] => ep[m][q] = "up"
  BY DEF MeshInv, FreshHandles
<1> SUFFICES ASSUME NEW m \in Node, NEW q \in Node,
                    NEW i \in Slots(m, q), char_handles[m][i]
             PROVE  ep'[q][m] # "pending"
  BY <1>1 DEF PeerConnected
<1>4. ep'[q][m] = ep[q][m]
  BY <1>2, <1>3
<1> QED
  BY <1>4 DEF PeerConnected

\* discover_cb keeps a handle that a connected board answered with.
LEMMA DiscoverFoundPeers ==
    ASSUME MeshInv, PeerConnected, NEW n \in Node, NEW p \in Node,
           DiscoverFound(n, p)
    PROVE  PeerConnected'
<1>1. /\ char_handles' = [char_handles EXCEPT ![n] =
             [i \in Slot |-> i \in FirstSlot(n, p) \/ @[i]]]
      /\ UNCHANGED ep /\ ep[p][n] # "pending"
      /\ \A m, q \in Node : Slots(m, q)' = Slots(m, q)
  BY DEF DiscoverFound, KeepHandle, DiscoveredSlot, Slots
<1>2. char_handles \in [Node -> [Slot -> BOOLEAN]]
  BY DEF MeshInv, TableInv, TableTypeOK
<1> SUFFICES ASSUME NEW m \in Node, NEW q \in Node,
                    NEW i \in Slots(m, q), char_handles'[m][i],
                    <<m, q>> # <<n, p>>
             PROVE  ep[q][m] # "pending"
  BY <1>1 DEF PeerConnected
<1>3. i \in Slot /\ (m = n => i \notin FirstSlot(n, p))
  BY DEF Slots, FirstSlot
<1>4. char_handles[m][i]
  BY <1>1, <1>2, <1>3
<1> QED
  BY <1>4 DEF PeerConnected

\* disconnected() empties the slot of the link, and every other one stays.
LEMMA LinkLostPeers ==
    ASSUME MeshInv, PeerConnected, NEW n \in Node, NEW p \in Node,
           LinkLost(n, p)
    PROVE  PeerConnected'
<1>1. /\ Slots(n, p)' = {} /\ ep'[n][p] = "down" /\ UNCHANGED char_handles
      /\ \A m, q \in Node : <<m, q>> # <<n, p>> =>
             Slots(m, q)' = Slots(m, q) /\ ep'[m][q] = ep[m][q]
  BY LinkClosedSlots DEF MeshInv, LinkLost, Disconnected, LinkClosed
<1> QED
  BY <1>1 DEF PeerConnected

LEMMA PeersStep ==
    ASSUME MeshInv, PeerConnected, [Next]_vars
    PROVE  PeerConnected'
<1>0. ep \in [Node -> [Node -> EndState]]
  BY DEF MeshInv, TableInv, TableTypeOK, LinkTypeOK
<1>1. CASE UNCHANGED <<ep, default_connections, num_connections, char_handles>>
  BY <1>1, UntouchedPeers
<1>2. ASSUME NEW n \in Node, NEW p \in Node, ConnectedOverrun(n, p)
      PROVE  PeerConnected'
  <2>1. \A m, q \in Node : ep'[m][q] = "pending" => ep[m][q] = "pending"
    BY <1>0, <1>2 DEF ConnectedOverrun
  <2> QED
    BY <1>2, <2>1, UntouchedPeers DEF ConnectedOverrun
<1>3. CASE \/ Press \/ SendCheck \/ SendWrite \/ SendWriteNull
           \/ \E n, p \in Node : OnWrite(n, p)
           \/ UNCHANGED vars
  BY <1>1, <1>3
  DEF Press, SendCheck, SendWrite, SendWriteNull, OnWrite, vars, meshVars,
      linkVars, tableVars
<1>4. ASSUME NEW n \in Node, NodeStep(n) PROVE PeerConnected'
  BY <1>1, <1>4
  DEF NodeStep, BtReady, ScanWorkHandler, ConnectFailed, CreateFails, tableVars
<1>5. ASSUME NEW n \in Node, NEW p \in Node,
             DeviceFound(n, p) \/ DiscoverError(n, p)
      PROVE  PeerConnected'
  BY <1>1, <1>5 DEF DeviceFound, DiscoverError
<1> QED
  BY <1>2, <1>3, <1>4, <1>5, ConnectedPeers, LinkUpPeers, DiscoverFoundPeers,
     LinkLostPeers
  DEF Next, LinkStep

\* The slot of the prepared write is below num_connections, where connected()
\* does not store.
LEMMA HandleKeptStep ==
    ASSUME FloodTypeInv, MeshInv, HandleKept, [Next]_vars
    PROVE  HandleKept'
<1>0. /\ Source \in Node /\ char_handles \in [Node -> [Slot -> BOOLEAN]]
      /\ num_connections \in [Node -> 0 .. MAX_CONNECTIONS]
      /\ idx \in 0 .. MAX_CONNECTIONS
      /\ pc = "write" => idx < num_connections[Source]
  BY MeshAssumption
  DEF FloodTypeInv, TypeOK, TableTypeOK, MainOK
<1>1. pc = "write" => idx \in Slot /\ idx # num_connections[Source]
  BY <1>0, TableAssumption, SMT DEF Slot
<1>2. CASE UNCHANGED <<pc, idx, char_handles>>
  BY <1>2 DEF HandleKept
<1>3. CASE Press \/ SendWrite
  BY <1>3 DEF Press, SendWrite, HandleKept
<1>4. CASE SendCheck
  BY <1>4 DEF SendCheck, HandleKept, Sendable, meshVars, tableVars
<1>5. ASSUME NEW n \in Node, NEW p \in Node, Connected(n, p),
             UNCHANGED <<pc, idx>>
      PROVE  HandleKept'
  <2>1. char_handles' = [char_handles EXCEPT ![n][num_connections[n]] = FALSE]
    BY <1>5, ConnectedSlots DEF MeshInv
  <2> QED
    BY <1>0, <1>1, <1>5, <2>1 DEF HandleKept
<1>6. ASSUME NEW n \in Node, NEW p \in Node, DiscoverFound(n, p),
             UNCHANGED <<pc, idx>>
      PROVE  HandleKept'
  <2>1. char_handles' = [char_handles EXCEPT ![n] =
            [i \in Slot |-> i \in FirstSlot(n, p) \/ @[i]]]
    BY <1>6 DEF DiscoverFound, KeepHandle, DiscoveredSlot
  <2> QED
    BY <1>0, <1>1, <1>6, <2>1 DEF HandleKept
<1>7. CASE SendWriteNull \/ UNCHANGED vars \/ \E n, p \in Node : OnWrite(n, p)
  BY <1>2, <1>7 DEF SendWriteNull, OnWrite, vars, meshVars, tableVars, msgVars
<1>8. ASSUME NEW n \in Node, NEW p \in Node, LinkLost(n, p)
      PROVE  HandleKept'
  BY <1>2, <1>8 DEF LinkLost, Disconnected, LinkClosed
<1>9. ASSUME NEW n \in Node, NodeStep(n), UNCHANGED msgVars
      PROVE  HandleKept'
  BY <1>2, <1>9
  DEF NodeStep, BtReady, ScanWorkHandler, ConnectFailed, tableVars, msgVars
<1>10. ASSUME NEW n \in Node, NEW p \in Node, UNCHANGED msgVars,
              \/ DeviceFound(n, p) \/ LinkUp(n, p) \/ ConnectedOverrun(n, p)
              \/ DiscoverError(n, p)
       PROVE  HandleKept'
  BY <1>2, <1>10
  DEF DeviceFound, LinkUp, ConnectedOverrun, DiscoverError, tableVars, msgVars
<1> QED
  BY <1>3, <1>4, <1>5, <1>6, <1>7, <1>8, <1>9, <1>10
  DEF Next, LinkStep, msgVars

LEMMA FlowingStep ==
    ASSUME KnownInv, [Next]_vars
    PROVE  Flowing'
<1>0. /\ chan \in [Node -> [Node -> Seq(Garbage)]]
      /\ MeshInv /\ TableTypeOK /\ Source \in Node
  BY MeshAssumption DEF KnownInv, FloodTypeInv, TypeOK, MeshInv, TableInv
<1>1. CASE UNCHANGED chan /\ ~(\E n, p \in Node : LinkLost(n, p))
  <2> SUFFICES ASSUME NEW n \in Node, NEW p \in Node, chan[n][p] # << >>
               PROVE  ep'[p][n] \in {"up", "closing"}
    BY <1>1 DEF Flowing
  <2>1. ep[p][n] \in {"up", "closing"}
    BY DEF KnownInv, Flowing
  <2>2. EndMoves(p, n)
    BY <1>0, <1>1, StepMoves
  <2> QED
    BY <2>1, <2>2 DEF EndMoves
<1>2. ASSUME UNCHANGED ep,
             \A n, p \in Node : \/ chan'[n][p] = chan[n][p]
                                \/ chan[n][p] # << >>
                                \/ ep[p][n] \notin {"down", "pending"}
      PROVE  Flowing'
  <2>1. \A n, p \in Node : ep[p][n] \in EndState
    BY <1>0 DEF TableTypeOK, LinkTypeOK
  <2> QED
    BY <1>2, <2>1 DEF KnownInv, Flowing, EndState
<1>3. CASE SendWrite
  <2> DEFINE d == default_connections[Source][idx]
  <2>1. /\ d \in Node /\ idx \in Slots(Source, d) /\ char_handles[Source][idx]
    <3>1. /\ idx < num_connections[Source] /\ idx \in 0 .. MAX_CONNECTIONS
          /\ num_connections[Source] \in 0 .. MAX_CONNECTIONS
      BY <1>0, <1>3 DEF KnownInv, FloodTypeInv, TypeOK, MainOK, TableTypeOK, SendWrite
    <3>2. idx \in Slot
      BY <3>1, TableAssumption, SMT DEF Slot
    <3>3. d \in Node /\ char_handles[Source][idx]
      BY <1>0, <1>3, <3>2 DEF SendWrite, TableTypeOK, KnownInv, HandleKept
    <3> QED
      BY <3>1, <3>2, <3>3 DEF Slots
  <2>2. ep[d][Source] # "pending"
    BY <1>0, <2>1 DEF KnownInv, PeerConnected
  <2>3. \/ UNCHANGED chan
        \/ \E m : chan' = [chan EXCEPT ![Source][d] = Post(@, Source, d, m)]
    BY <1>3 DEF SendWrite
  <2> HIDE DEF d
  <2>4. \A n, p \in Node : \/ chan'[n][p] = chan[n][p]
                           \/ n = Source /\ p = d /\ ep[d][Source] # "down"
    BY <1>0, <2>1, <2>3 DEF Post
  <2>5. UNCHANGED ep
    BY <1>3 DEF SendWrite
  <2> QED
    BY <1>2, <2>2, <2>4, <2>5
<1>4. ASSUME NEW n \in Node, NEW p \in Node, OnWrite(n, p) PROVE Flowing'
  <2>0. n # p /\ UNCHANGED ep /\ chan[p][n] # << >>
    BY <1>4, RadioAssumption DEF OnWrite, KnownInv, InRange
  <2>1. \/ chan' = [chan EXCEPT ![p][n] = Tail(@)]
        \/ \E lost : chan' = Forward(n, p, Head(chan[p][n]), lost)
    BY <1>4 DEF OnWrite
  <2>2. CASE chan' = [chan EXCEPT ![p][n] = Tail(@)]
    <3>1. \A m, q \in Node : chan'[m][q] = chan[m][q] \/ chan[m][q] # << >>
      BY <1>0, <2>0, <2>2
    <3> QED
      BY <1>2, <2>0, <3>1
  <2>3. ASSUME NEW lost, chan' = Forward(n, p, Head(chan[p][n]), lost)
        PROVE  Flowing'
    <3>1. \A q \in Node : \/ chan'[n][q] = chan[n][q]
                          \/ /\ ep[q][n] # "down"
                             /\ \E i \in SendableTo(n, FirstSlot(n, p)) :
                                    default_connections[n][i] = q
      BY <1>0, <2>0, <2>3, ForwardEffect
    <3>2. \A q \in Node : \A i \in SendableTo(n, FirstSlot(n, p)) :
              default_connections[n][i] = q => ep[q][n] # "pending"
      BY DEF SendableTo, Sendable, Slots, KnownInv, PeerConnected
    <3>3. \A m, q \in Node : m # n /\ <<m, q>> # <<p, n>> =>
              chan'[m][q] = chan[m][q]
      BY <1>0, <2>0, <2>3, ForwardEffect
    <3>4. \A m, q \in Node : \/ chan'[m][q] = chan[m][q]
                             \/ chan[m][q] # << >>
                             \/ ep[q][m] \notin {"down", "pending"}
      BY <2>0, <3>1, <3>2, <3>3
    <3> QED
      BY <1>2, <2>0, <3>4
  <2> QED
    BY <2>1, <2>2, <2>3
<1>5. ASSUME NEW n \in Node, NEW p \in Node, LinkLost(n, p) PROVE Flowing'
  <2>1. \A m, q \in Node : <<m, q>> # <<n, p>> => ep'[m][q] = ep[m][q]
    BY <1>0, <1>5, LinkClosedSlots DEF MeshInv, LinkLost, Disconnected
  <2>2. chan' = [chan EXCEPT ![p][n] = << >>]
    BY <1>5 DEF LinkLost
  <2>3. /\ chan'[p][n] = << >>
        /\ \A m, q \in Node : <<m, q>> # <<p, n>> => chan'[m][q] = chan[m][q]
    BY <1>0, <2>2
  <2> QED
    BY <2>1, <2>3 DEF KnownInv, Flowing
<1>6. CASE UNCHANGED chan
  BY <1>1, <1>5, <1>6
<1> QED
  BY <1>3, <1>4, <1>5, <1>6
  DEF Next, Press, SendCheck, SendWriteNull, vars, msgVars

\* On any network, through every loss, half-open link and late callback, the
\* board that on_write runs on has the sender in its table: no message is sent
\* back to where it came from, and none goes to a link that the peer does not
\* know of yet.
THEOREM SenderKnownCorrect == Spec => []SenderKnown
<1>1. Init => KnownInv
  <2> SUFFICES ASSUME Init PROVE KnownInv
    OBVIOUS
  <2>1. FloodTypeInv /\ MeshInv /\ InRange
    BY FloodTypeInit, MeshInvInit, InRangeInit DEF Init
  <2>2. Flowing /\ HandleKept
    BY DEF Init, Flowing, HandleKept
  <2>3. PeerConnected
    BY DEF Init, TableInit, LinkInit, PeerConnected
  <2> QED
    BY <2>1, <2>2, <2>3 DEF KnownInv
<1>2. KnownInv /\ [Next]_vars => KnownInv'
  BY FloodTypeStep, FloodMeshStep, InRangeStep, PeersStep, HandleKeptStep,
     FlowingStep
  DEF KnownInv
<1> QED
  BY <1>1, <1>2, KnownSuffices, PTL DEF Spec
=============================================================================
